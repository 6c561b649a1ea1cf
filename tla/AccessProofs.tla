----------------------------- MODULE AccessProofs -----------------------------
(***************************************************************************)
(* Proofs that the safety properties of Sessions and Connections hold for  *)
(* every set of addresses, people, tokens, flows and requests, every       *)
(* number of tokens that GitLab issues and every history of access.        *)
(*                                                                         *)
(* The two components share no variable that both write, so each has its   *)
(* own inductive invariant, and a step of one leaves the invariant of the  *)
(* other alone; connections only read who a session belongs to.  The rate  *)
(* limiter shares nothing with them and has its proof in LimiterProofs.    *)
(***************************************************************************)
EXTENDS Connections, LimiterProofs

-----------------------------------------------------------------------------
(* The invariant of users, sessions and OIDC flows.                        *)

\* A row is free, that of the administrator, or that of a person.
RowsByOrigin ==
  \A e \in Email :
    \/ users[e] = NoUser
    \/ users[e].source = "local" /\ users[e].subject = None
    \/ /\ users[e].source = "oidc" /\ users[e].subject \in Person
       /\ users[e].role # "admin"

\* The unique index (auth_source, subject), in which NULLs are equal.
OneRowPerSubject ==
  \A d, e \in Email :
    /\ users[d].source = "local" /\ users[e].source = "local" => d = e
    /\ users[d].subject \in Person /\ users[d].subject = users[e].subject => d = e

\* A session, ended or not, names a user that exists.
SessionHasUser ==
  \A s \in Token : sessions[s] # Unused => users[sessions[s].user] # NoUser

\* A flow that a request holds or a session names is consumed, so that nobody
\* can get it again ...
SpentFlows ==
  /\ \A h \in Handler : callback[h].flow # None => logins[callback[h].flow] = "consumed"
  /\ \A s \in Token : sessions[s].flow # None => logins[sessions[s].flow] = "consumed"

\* ... and it is in one place only.
FlowInOnePlace ==
  \A h \in Handler :
    callback[h].flow # None =>
      /\ \A g \in Handler : callback[g].flow = callback[h].flow => g = h
      /\ \A s \in Token : sessions[s].flow # callback[h].flow

\* Between its two transactions a callback knows the row of the subject that the
\* provider vouched for, and still holds its flow.
IdentifiedUser ==
  \A h \in Handler :
    callback[h].user # None =>
      /\ callback[h].flow # None /\ callback[h].subject \in Person
      /\ users[callback[h].user] # NoUser
      /\ users[callback[h].user].subject = callback[h].subject

\* The inductive invariant of identity.
IdentityInv ==
  /\ SessionsTypeOK /\ RowsByOrigin /\ OneRowPerSubject /\ SessionHasUser
  /\ SpentFlows /\ FlowInOnePlace /\ IdentifiedUser
  /\ SessionBelongsToLogin /\ OneSessionPerLogin

-----------------------------------------------------------------------------
(* The invariant of connections.                                           *)

\* What a request may hold.
WorkRow == [at : {"idle", "completing", "listing", "storing"},
            provider : Provider \cup {None}, user : Email \cup {None},
            credential : 0 .. MaxToken, fresh : BOOLEAN, offset : Nat,
            snapshot : SUBSET Repository, read : SUBSET Nat]

\* What a connection may hold.
ConnectionRow == [credential : 0 .. MaxToken, enabled : SUBSET Repository,
                  by : Email \cup {None}, read : SUBSET Nat]

\* The complete types of rows, requests and tokens.
ConnectionRows ==
  /\ access \in DOMAIN Snapshot /\ disturbed \in BOOLEAN
  /\ issued \in 0 .. MaxToken /\ valid \subseteq 1 .. issued
  /\ flows \in [ConnectFlow -> [state : {"unused", "open", "consumed", "expired"},
                                provider : Provider \cup {None}, user : Email \cup {None}]]
  /\ connection \in [Provider -> ConnectionRow]
  /\ work \in [Handler -> WorkRow]
  /\ completed \in [ConnectFlow -> Nat]

\* A request that is not idle is for a provider.
WorkHasProvider == \A h \in Handler : work[h].at # "idle" => work[h].provider \in Provider

\* A list whose pages were read at the times of the set, up to time a.
Listed(repositories, times, a) ==
  /\ times # {} /\ times \subseteq 1 .. a
  /\ repositories \subseteq UNION {Repositories(i) : i \in times}
  /\ \A i \in times : times = {i} => repositories = Repositories(i)

\* What a request w has of the list: as long as all pages were of one list, its
\* beginning, up to the offset; and what is about to be stored is all of it.
PagesOf(w, a) ==
  /\ w.read \subseteq 1 .. a
  /\ w.snapshot \subseteq UNION {Repositories(i) : i \in w.read}
  /\ w.read = {} => w.offset = 0
  /\ w.at \in {"idle", "completing"} => w.read = {}
  /\ w.at = "listing" =>
       \A i \in w.read :
         w.read = {i} => w.offset <= Len(Snapshot[i]) /\ w.snapshot = First(i, w.offset)
  /\ w.at = "storing" => Listed(w.snapshot, w.read, a)

PagesRead == \A h \in Handler : PagesOf(work[h], access)

\* Only GitLab's connection has a credential.
OnlyGitLabHasTokens ==
  /\ connection["github"].credential = NoToken
  /\ \A h \in Handler : /\ work[h].provider # "gitlab" => work[h].credential = NoToken
                        /\ work[h].at \in {"idle", "completing"} => work[h].credential = NoToken

\* As long as nothing is disturbed, one request of GitLab is in progress ...
OneRequestOfGitLab ==
  ~disturbed =>
    \A g, h \in Handler :
      /\ work[g].at # "idle" /\ work[g].provider = "gitlab"
      /\ work[h].at # "idle" /\ work[h].provider = "gitlab"
      => g = h

\* ... and the credential that it holds is one that GitLab accepts.
HeldCredentialUsable ==
  ~disturbed =>
    \A h \in Handler :
      work[h].at \in {"listing", "storing"} /\ work[h].provider = "gitlab"
        => work[h].credential \in valid

\* The inductive invariant of connections.
ConnectionInv ==
  /\ ConnectionRows /\ WorkHasProvider /\ PagesRead /\ OnlyGitLabHasTokens
  /\ OneRequestOfGitLab /\ HeldCredentialUsable
  /\ EnabledWasListed /\ OneCallbackPerFlow /\ CredentialStaysUsable

AccessInv == IdentityInv /\ ConnectionInv /\ LimiterInv /\ plan \in Plan

-----------------------------------------------------------------------------
(* Users, sessions and flows: each operation preserves IdentityInv.        *)

\* A row of users has its four fields, and NoUser is no user.
LEMMA UserFacts ==
  ASSUME SessionsTypeOK, NEW e \in Email
  PROVE  /\ users[e] \in User \cup {NoUser}
         /\ users[e] = NoUser <=> users[e].role = "none"
         /\ users[e] = NoUser => users[e].subject = None /\ users[e].source = "none"
         /\ users[e].subject \in Person \cup {None}
  BY DEF SessionsTypeOK, User, NoUser, Assignable

\* A session that is not Unused is open or ended, and names its user.
LEMMA SessionFacts ==
  ASSUME SessionsTypeOK, NEW s \in Token
  PROVE  /\ sessions[s] \in Session \cup {Unused}
         /\ sessions[s] # Unused <=> sessions[s] \in Session
         /\ sessions[s] = Unused => sessions[s].flow = None
         /\ sessions[s].state \in {"open", "ended"} => sessions[s] \in Session
  BY DEF SessionsTypeOK, Session, Unused

\* A callback holds a flow and a user, or none.
LEMMA CallbackFacts ==
  ASSUME SessionsTypeOK, NEW h \in Handler
  PROVE  /\ callback[h] = [flow |-> callback[h].flow, user |-> callback[h].user,
                           subject |-> callback[h].subject]
         /\ callback[h].flow \in LoginFlow \cup {None}
         /\ callback[h].user \in Email \cup {None}
         /\ callback[h].subject \in Person \cup {None}
         /\ NoCallback.flow = None /\ NoCallback.user = None
         /\ NoCallback \in [flow : LoginFlow \cup {None}, user : Email \cup {None},
                            subject : Person \cup {None}]
  BY DEF SessionsTypeOK, NoCallback

\* At the start nobody exists and nothing is open.
LEMMA IdentityInit == SessionsInit => IdentityInv
  <1> SUFFICES ASSUME SessionsInit PROVE IdentityInv
    OBVIOUS
  <1> USE DEF SessionsInit
  <1>1. SessionsTypeOK
    BY DEF SessionsTypeOK, NoCallback
  <1>2. RowsByOrigin /\ OneRowPerSubject
    BY SessionsAssumption DEF RowsByOrigin, OneRowPerSubject, NoUser
  <1>3. SessionHasUser /\ SessionBelongsToLogin /\ OneSessionPerLogin
    BY DEF SessionHasUser, SessionBelongsToLogin, OneSessionPerLogin, Unused
  <1>4. SpentFlows /\ FlowInOnePlace /\ IdentifiedUser
    BY DEF SpentFlows, FlowInOnePlace, IdentifiedUser, Unused, NoCallback
  <1> QED
    BY <1>1, <1>2, <1>3, <1>4 DEF IdentityInv

\* The first administrator is put into a free row, which no session names.
LEMMA BootstrapInv ==
  ASSUME IdentityInv, NEW e \in Email, Bootstrap(e)
  PROVE  IdentityInv'
  <1> USE DEF IdentityInv
  <1> DEFINE admin == [role |-> "admin", source |-> "local", subject |-> None,
                       active |-> TRUE]
  <1>1. /\ \A d \in Email : users[d].source # "local"
        /\ users[e] = NoUser
        /\ users' = [users EXCEPT ![e] = admin]
        /\ UNCHANGED <<sessions, logins, callback>>
    BY DEF Bootstrap, Exists
  <1>2. admin \in User /\ admin # NoUser
    BY DEF User, NoUser
  <1>3. SessionsTypeOK'
    BY <1>1, <1>2 DEF SessionsTypeOK
  <1>4. users'[e] = admin /\ \A d \in Email : d # e => users'[d] = users[d]
    BY <1>1 DEF SessionsTypeOK
  <1>5. RowsByOrigin'
    BY <1>4 DEF RowsByOrigin
  <1>6. OneRowPerSubject'
    BY <1>1, <1>4, SessionsAssumption DEF OneRowPerSubject
  <1>7. \A s \in Token : sessions[s] # Unused
                           => sessions[s].user \in Email /\ sessions[s].user # e
    BY <1>1, SessionFacts DEF SessionHasUser, Session
  <1>8. SessionHasUser' /\ SessionBelongsToLogin'
    BY <1>1, <1>4, <1>7 DEF SessionHasUser, SessionBelongsToLogin
  <1>9. SpentFlows' /\ FlowInOnePlace' /\ OneSessionPerLogin'
    BY <1>1 DEF SpentFlows, FlowInOnePlace, OneSessionPerLogin
  <1>10. IdentifiedUser'
    BY <1>1, <1>4, CallbackFacts DEF IdentifiedUser
  <1> QED
    BY <1>3, <1>5, <1>6, <1>8, <1>9, <1>10

\* The operator's changes keep the subject of a row.
LEMMA AdministerInv ==
  ASSUME IdentityInv, NEW e \in Email, NEW r \in Assignable,
         NEW a \in BOOLEAN, Administer(e, r, a)
  PROVE  IdentityInv'
  <1> USE DEF IdentityInv
  <1>1. /\ users[e].source = "oidc"
        /\ users' = [users EXCEPT ![e].role = r, ![e].active = a]
        /\ UNCHANGED <<sessions, logins, callback>>
    BY DEF Administer
  <1>2. users[e] \in User
    BY <1>1, UserFacts
  <1>3. /\ users'[e] = [role |-> r, source |-> "oidc", subject |-> users[e].subject,
                        active |-> a]
        /\ \A d \in Email : d # e => users'[d] = users[d]
    BY <1>1, <1>2 DEF SessionsTypeOK, User
  <1>4. users'[e] \in User /\ users'[e] # NoUser
    BY <1>2, <1>3 DEF User, NoUser, Assignable
  <1>5. SessionsTypeOK'
    <2>1. users' \in [Email -> User \cup {NoUser}]
      BY <1>1, <1>3, <1>4 DEF SessionsTypeOK
    <2> QED
      BY <1>1, <2>1 DEF SessionsTypeOK
  <1>6. \A d \in Email : /\ users'[d].subject = users[d].subject
                         /\ users'[d].source = users[d].source
                         /\ users[d] # NoUser => users'[d] # NoUser
    <2> TAKE d \in Email
    <2>1. CASE d = e
      BY <2>1, <1>1, <1>3, <1>4
    <2>2. CASE d # e
      BY <2>2, <1>3
    <2> QED
      BY <2>1, <2>2
  <1>7. RowsByOrigin'
    <2>1. users[e].subject \in Person
      BY <1>1, UserFacts DEF RowsByOrigin
    <2>2. users'[e].role # "admin"
      BY <1>3 DEF Assignable
    <2> QED
      BY <1>1, <1>3, <1>6, <2>1, <2>2 DEF RowsByOrigin
  <1>8. OneRowPerSubject'
    BY <1>6 DEF OneRowPerSubject
  <1>9. \A s \in Token : sessions[s] # Unused => sessions[s].user \in Email
    BY SessionFacts DEF Session
  <1>10. SessionHasUser' /\ SessionBelongsToLogin'
    BY <1>1, <1>6, <1>9 DEF SessionHasUser, SessionBelongsToLogin
  <1>11. SpentFlows' /\ FlowInOnePlace' /\ OneSessionPerLogin'
    BY <1>1 DEF SpentFlows, FlowInOnePlace, OneSessionPerLogin
  <1>12. IdentifiedUser'
    BY <1>1, <1>6, CallbackFacts DEF IdentifiedUser
  <1> QED
    BY <1>5, <1>7, <1>8, <1>10, <1>11, <1>12

\* A password opens a session of the local user, whose subject is nobody.
LEMMA LoginLocalInv ==
  ASSUME IdentityInv, NEW s \in Token, NEW e \in Email, LoginLocal(s, e)
  PROVE  IdentityInv'
  <1> USE DEF IdentityInv
  <1>1. /\ users[e].source = "local"
        /\ sessions[s] = Unused
        /\ sessions' = [sessions EXCEPT ![s] = Open(e, None, None)]
        /\ UNCHANGED <<users, logins, callback>>
    BY DEF LoginLocal, CreateSession
  <1>2. users[e] # NoUser /\ users[e].subject = None
    BY <1>1, UserFacts DEF RowsByOrigin
  <1>3. /\ Open(e, None, None) \in Session
        /\ Open(e, None, None).user = e /\ Open(e, None, None).by = None
        /\ Open(e, None, None).flow = None
    BY DEF Open, Session
  <1>4. /\ sessions'[s] = Open(e, None, None)
        /\ \A r \in Token : r # s => sessions'[r] = sessions[r]
    BY <1>1 DEF SessionsTypeOK
  <1>5. SessionsTypeOK'
    BY <1>1, <1>3 DEF SessionsTypeOK
  <1>6. SessionHasUser' /\ SessionBelongsToLogin'
    BY <1>1, <1>2, <1>3, <1>4 DEF SessionHasUser, SessionBelongsToLogin
  <1>7. RowsByOrigin' /\ OneRowPerSubject' /\ IdentifiedUser'
    BY <1>1 DEF RowsByOrigin, OneRowPerSubject, IdentifiedUser
  <1>8. SpentFlows' /\ FlowInOnePlace' /\ OneSessionPerLogin'
    BY <1>1, <1>3, <1>4 DEF SpentFlows, FlowInOnePlace, OneSessionPerLogin
  <1> QED
    BY <1>5, <1>6, <1>7, <1>8

\* A session that ends keeps its user and its flow.
LEMMA EndSessionInv ==
  ASSUME IdentityInv, NEW s \in Token, EndSession(s)
  PROVE  IdentityInv'
  <1> USE DEF IdentityInv
  <1>1. /\ sessions[s].state = "open"
        /\ sessions' = [sessions EXCEPT ![s].state = "ended"]
        /\ UNCHANGED <<users, logins, callback>>
    BY DEF EndSession
  <1>2. sessions[s] \in Session
    BY <1>1, SessionFacts
  <1>3. sessions[s] # Unused
    BY <1>2, SessionFacts
  <1>4. /\ sessions'[s] \in Session
        /\ sessions'[s].user = sessions[s].user /\ sessions'[s].by = sessions[s].by
        /\ sessions'[s].flow = sessions[s].flow
        /\ \A r \in Token : r # s => sessions'[r] = sessions[r]
    BY <1>1, <1>2 DEF SessionsTypeOK, Session
  <1>5. SessionsTypeOK'
    <2>1. sessions' \in [Token -> Session \cup {Unused}]
      BY <1>1, <1>4 DEF SessionsTypeOK
    <2> QED
      BY <1>1, <2>1 DEF SessionsTypeOK
  <1>6. SessionHasUser' /\ SessionBelongsToLogin'
    BY <1>1, <1>3, <1>4 DEF SessionHasUser, SessionBelongsToLogin
  <1>7. RowsByOrigin' /\ OneRowPerSubject' /\ IdentifiedUser'
    BY <1>1 DEF RowsByOrigin, OneRowPerSubject, IdentifiedUser
  <1>8. \A r \in Token : sessions'[r].flow = sessions[r].flow
    BY <1>4
  <1>9. SpentFlows' /\ FlowInOnePlace' /\ OneSessionPerLogin'
    BY <1>1, <1>8 DEF SpentFlows, FlowInOnePlace, OneSessionPerLogin
  <1> QED
    BY <1>5, <1>6, <1>7, <1>9

\* A flow that begins, expires or is given up is neither held nor named anew.
LEMMA FlowInv ==
  ASSUME IdentityInv,
         \/ \E f \in LoginFlow : BeginOIDC(f) \/ LoginFlowExpires(f)
         \/ \E h \in Handler : OIDCRejected(h)
  PROVE  IdentityInv'
  <1> USE DEF IdentityInv
  <1>1. /\ UNCHANGED <<users, sessions>>
        /\ logins' \in [LoginFlow -> {"unused", "open", "consumed", "expired"}]
        /\ \A f \in LoginFlow : logins[f] = "consumed" => logins'[f] = "consumed"
    BY DEF BeginOIDC, LoginFlowExpires, OIDCRejected, SessionsTypeOK
  <1>2. /\ callback' \in [Handler -> [flow : LoginFlow \cup {None}, user : Email \cup {None},
                                      subject : Person \cup {None}]]
        /\ \A h \in Handler : callback'[h] = callback[h] \/ callback'[h] = NoCallback
    BY CallbackFacts DEF BeginOIDC, LoginFlowExpires, OIDCRejected, SessionsTypeOK
  <1>3. SessionsTypeOK'
    BY <1>1, <1>2 DEF SessionsTypeOK
  <1>4. RowsByOrigin' /\ OneRowPerSubject' /\ SessionHasUser' /\ SessionBelongsToLogin'
        /\ OneSessionPerLogin'
    BY <1>1 DEF RowsByOrigin, OneRowPerSubject, SessionHasUser, SessionBelongsToLogin,
                OneSessionPerLogin
  <1>5. \A s \in Token : sessions[s].flow # None => sessions[s].flow \in LoginFlow
    BY SessionFacts DEF Session
  <1>6. \A h \in Handler :
          /\ callback[h].flow \in LoginFlow \cup {None}
          /\ callback'[h].flow # None => callback'[h] = callback[h]
          /\ callback'[h].user # None => callback'[h] = callback[h]
    BY <1>2, CallbackFacts
  <1>7. SpentFlows'
    BY <1>1, <1>5, <1>6 DEF SpentFlows
  <1>8. FlowInOnePlace' /\ IdentifiedUser'
    BY <1>1, <1>6 DEF FlowInOnePlace, IdentifiedUser
  <1> QED
    BY <1>3, <1>4, <1>7, <1>8

\* DELETE ... RETURNING: an open flow was nowhere, and is now with one request.
LEMMA ConsumeInv ==
  ASSUME IdentityInv, NEW h \in Handler, NEW f \in LoginFlow, ConsumeOIDC(h, f)
  PROVE  IdentityInv'
  <1> USE DEF IdentityInv
  <1> DEFINE held == [flow |-> f, user |-> None, subject |-> None]
  <1>1. /\ callback[h] = NoCallback /\ logins[f] = "open"
        /\ logins' = [logins EXCEPT ![f] = "consumed"]
        /\ callback' = [callback EXCEPT ![h] = held]
        /\ UNCHANGED <<users, sessions>>
    <2>1. [NoCallback EXCEPT !.flow = f] = held
      BY DEF NoCallback
    <2> QED
      BY <2>1 DEF ConsumeOIDC
  <1>2. SessionsTypeOK'
    BY <1>1 DEF SessionsTypeOK
  <1>3. RowsByOrigin' /\ OneRowPerSubject' /\ SessionHasUser' /\ SessionBelongsToLogin'
        /\ OneSessionPerLogin'
    BY <1>1 DEF RowsByOrigin, OneRowPerSubject, SessionHasUser, SessionBelongsToLogin,
                OneSessionPerLogin
  <1>4. /\ f # None
        /\ \A g \in Handler : callback[g].flow # f
        /\ \A s \in Token : sessions[s].flow # f
    BY <1>1, SessionsAssumption DEF SpentFlows
  <1>5. callback'[h] = held /\ \A g \in Handler : g # h => callback'[g] = callback[g]
    BY <1>1 DEF SessionsTypeOK
  <1>6. \A g \in LoginFlow : logins[g] = "consumed" \/ g = f => logins'[g] = "consumed"
    BY <1>1 DEF SessionsTypeOK
  <1>7. SpentFlows'
    <2>1. \A s \in Token : sessions[s].flow # None => sessions[s].flow \in LoginFlow
      BY SessionFacts DEF Session
    <2>2. \A g \in Handler : callback[g].flow \in LoginFlow \cup {None}
      BY CallbackFacts
    <2> QED
      BY <1>1, <1>5, <1>6, <2>1, <2>2 DEF SpentFlows
  <1>8. FlowInOnePlace' /\ IdentifiedUser'
    BY <1>1, <1>4, <1>5 DEF FlowInOnePlace, IdentifiedUser
  <1> QED
    BY <1>2, <1>3, <1>7, <1>8

\* UpsertOIDCUser returns the row of the subject, or a free one.
LEMMA OIDCUserFacts ==
  ASSUME IdentityInv, NEW p \in Person, NEW e \in Email, OIDCUser(p, e) # None
  PROVE  LET d == OIDCUser(p, e)
         IN  /\ d \in Email
             /\ users[d] # NoUser => users[d].subject = p
             /\ users[d] = NoUser => \A c \in Email : users[c].subject # p
  <1>1. CASE \E d \in Email : users[d].subject = p
    BY <1>1, UserFacts, SessionsAssumption DEF OIDCUser, IdentityInv
  <1>2. CASE ~\E d \in Email : users[d].subject = p
    BY <1>2 DEF OIDCUser, Exists
  <1> QED
    BY <1>1, <1>2

\* The callback now knows the row of the subject the provider vouched for.
LEMMA UpsertUserInv ==
  ASSUME IdentityInv, NEW h \in Handler, NEW p \in Person, NEW e \in Email,
         UpsertOIDCUser(h, p, e)
  PROVE  IdentityInv'
  <1> USE DEF IdentityInv
  <1> DEFINE d == OIDCUser(p, e)
             person == [role |-> "developer", source |-> "oidc", subject |-> p,
                        active |-> TRUE]
             held == [flow |-> callback[h].flow, user |-> d, subject |-> p]
  <1>1. /\ callback[h].flow # None /\ d # None
        /\ users' = IF users[d] # NoUser THEN users ELSE [users EXCEPT ![d] = person]
        /\ callback' = [callback EXCEPT ![h].user = d, ![h].subject = p]
        /\ UNCHANGED <<sessions, logins>>
    BY DEF UpsertOIDCUser, Exists
  <1>2. /\ d \in Email
        /\ users[d] # NoUser => users[d].subject = p
        /\ users[d] = NoUser => \A c \in Email : users[c].subject # p
    BY <1>1, OIDCUserFacts
  <1> HIDE DEF d
  <1>3. callback' = [callback EXCEPT ![h] = held]
    <2>0. callback[h] \in [flow : LoginFlow \cup {None}, user : Email \cup {None},
                           subject : Person \cup {None}]
      BY DEF SessionsTypeOK
    <2>1. [[callback[h] EXCEPT !.user = d] EXCEPT !.subject = p] = held
      <3>1. [callback[h] EXCEPT !.user = d]
              = [flow |-> callback[h].flow, user |-> d, subject |-> callback[h].subject]
        BY <2>0
      <3>2. [[flow |-> callback[h].flow, user |-> d, subject |-> callback[h].subject]
               EXCEPT !.subject = p] = held
        OBVIOUS
      <3> QED
        BY <3>1, <3>2
    <2>2. callback' = [callback EXCEPT ![h] = [[callback[h] EXCEPT !.user = d]
                                                 EXCEPT !.subject = p]]
      BY <1>1 DEF SessionsTypeOK
    <2> QED
      BY <2>1, <2>2
  <1>4. person \in User /\ person # NoUser
    BY DEF User, NoUser, Assignable
  <1>5. /\ callback'[h] = held
        /\ \A g \in Handler : g # h => callback'[g] = callback[g]
        /\ \A g \in Handler : callback'[g].flow = callback[g].flow
    BY <1>3 DEF SessionsTypeOK
  <1>6. /\ users'[d].subject = p /\ users'[d] # NoUser
        /\ users[d] = NoUser => users'[d] = person
        /\ \A c \in Email : c # d \/ users[c] # NoUser => users'[c] = users[c]
    BY <1>1, <1>2, <1>4 DEF SessionsTypeOK
  <1>7. SessionsTypeOK'
    <2>1. held \in [flow : LoginFlow \cup {None}, user : Email \cup {None},
                    subject : Person \cup {None}]
      BY <1>2, CallbackFacts
    <2> QED
      BY <1>1, <1>3, <1>4, <2>1 DEF SessionsTypeOK
  <1>8. RowsByOrigin'
    BY <1>6 DEF RowsByOrigin
  <1>9. OneRowPerSubject'
    <2>1. CASE users[d] # NoUser
      BY <2>1, <1>6 DEF OneRowPerSubject
    <2>2. CASE users[d] = NoUser
      <3>1. users'[d].source = "oidc" /\ users'[d].subject = p
        BY <2>2, <1>6
      <3>2. \A c \in Email : c # d => users'[c] = users[c] /\ users'[c].subject # p
        BY <2>2, <1>2, <1>6
      <3> QED
        BY <3>1, <3>2 DEF OneRowPerSubject
    <2> QED
      BY <2>1, <2>2
  <1>10. SessionHasUser' /\ SessionBelongsToLogin' /\ OneSessionPerLogin'
    <2>1. \A r \in Token : sessions[r] # Unused => sessions[r].user \in Email
      BY SessionFacts DEF Session
    <2> QED
      BY <1>1, <1>6, <2>1 DEF SessionHasUser, SessionBelongsToLogin, OneSessionPerLogin
  <1>11. SpentFlows' /\ FlowInOnePlace'
    <2> HIDE DEF held
    <2>1. SpentFlows'
      BY <1>1, <1>5 DEF SpentFlows
    <2>2. FlowInOnePlace'
      <3>1. \A g \in Handler : callback'[g].flow = callback[g].flow
        BY <1>5
      <3>2. sessions' = sessions
        BY <1>1
      <3>3. FlowInOnePlace
        OBVIOUS
      <3> QED
        BY ONLY <3>1, <3>2, <3>3 DEF FlowInOnePlace
    <2> QED
      BY <2>1, <2>2
  <1>12. IdentifiedUser'
    <2> SUFFICES ASSUME NEW g \in Handler, callback'[g].user # None
                 PROVE  /\ callback'[g].flow # None /\ callback'[g].subject \in Person
                        /\ users'[callback'[g].user] # NoUser
                        /\ users'[callback'[g].user].subject = callback'[g].subject
      BY DEF IdentifiedUser
    <2>1. CASE g = h
      BY <2>1, <1>1, <1>5, <1>6
    <2>2. CASE g # h
      <3>1. callback'[g] = callback[g] /\ callback[g].user \in Email
        BY <2>2, <1>5, CallbackFacts
      <3>2. users'[callback[g].user] = users[callback[g].user]
        BY <3>1, <1>6 DEF IdentifiedUser
      <3> QED
        BY <3>1, <3>2 DEF IdentifiedUser
    <2> QED
      BY <2>1, <2>2
  <1> QED
    BY <1>7, <1>8, <1>9, <1>10, <1>11, <1>12

\* The flow goes from the request to the session, and the session to the row that
\* the request knows.
LEMMA LoginOIDCInv ==
  ASSUME IdentityInv, NEW h \in Handler, NEW s \in Token, LoginOIDC(h, s)
  PROVE  IdentityInv'
  <1> USE DEF IdentityInv
  <1> DEFINE f == callback[h].flow
             d == callback[h].user
             opened == Open(d, callback[h].subject, f)
  <1>1. /\ d # None
        /\ sessions[s] = Unused
        /\ sessions' = [sessions EXCEPT ![s] = opened]
        /\ callback' = [callback EXCEPT ![h] = NoCallback]
        /\ UNCHANGED <<users, logins>>
    BY DEF LoginOIDC, CreateSession
  <1>2. /\ d \in Email /\ f \in LoginFlow /\ f # None
        /\ users[d] # NoUser /\ users[d].subject = callback[h].subject
        /\ callback[h].subject \in Person
    BY <1>1, CallbackFacts DEF IdentifiedUser
  <1>3. /\ opened \in Session /\ opened # Unused
        /\ opened.user = d /\ opened.by = callback[h].subject /\ opened.flow = f
    BY <1>2 DEF Open, Session, Unused
  <1> HIDE DEF opened
  <1>4. /\ sessions'[s] = opened
        /\ \A r \in Token : r # s => sessions'[r] = sessions[r]
        /\ callback'[h].flow = None /\ callback'[h].user = None
        /\ \A g \in Handler : g # h => callback'[g] = callback[g]
    BY <1>1, CallbackFacts DEF SessionsTypeOK
  <1>5. SessionsTypeOK'
    BY <1>1, <1>3, CallbackFacts DEF SessionsTypeOK
  <1>6. RowsByOrigin' /\ OneRowPerSubject'
    BY <1>1 DEF RowsByOrigin, OneRowPerSubject
  <1>7. SessionHasUser' /\ SessionBelongsToLogin'
    BY <1>1, <1>2, <1>3, <1>4 DEF SessionHasUser, SessionBelongsToLogin
  <1>8. SpentFlows' /\ FlowInOnePlace'
    BY <1>1, <1>2, <1>3, <1>4 DEF SpentFlows, FlowInOnePlace
  <1>9. IdentifiedUser'
    BY <1>1, <1>4 DEF IdentifiedUser
  <1>10. OneSessionPerLogin'
    <2>1. \A r \in Token : sessions[r].flow # f
      BY <1>2 DEF FlowInOnePlace
    <2> QED
      BY <1>3, <1>4, <2>1 DEF OneSessionPerLogin
  <1> QED
    BY <1>5, <1>6, <1>7, <1>8, <1>9, <1>10

\* Every step of users, sessions and flows preserves the invariant.
LEMMA IdentityStepInv ==
  ASSUME IdentityInv, LocalStep \/ OIDCStep \/ UNCHANGED sessionVars
  PROVE  IdentityInv'
  <1>1. CASE LocalStep
    BY <1>1, BootstrapInv, LoginLocalInv, EndSessionInv
       DEF LocalStep, Logout, SessionExpires
  <1>2. CASE OIDCStep
    BY <1>2, FlowInv, ConsumeInv, UpsertUserInv, LoginOIDCInv, AdministerInv
       DEF OIDCStep
  <1>3. CASE UNCHANGED sessionVars
    <2>1. UNCHANGED <<users, sessions, logins, callback>>
      BY <1>3 DEF sessionVars
    <2> QED
      BY <2>1 DEF IdentityInv, SessionsTypeOK, RowsByOrigin, OneRowPerSubject,
         SessionHasUser, SpentFlows, FlowInOnePlace, IdentifiedUser,
         SessionBelongsToLogin, OneSessionPerLogin
  <1> QED
    BY <1>1, <1>2, <1>3

-----------------------------------------------------------------------------
(* Connections: each operation preserves ConnectionInv.                    *)

\* The null records have their types.
LEMMA NullFacts ==
  ASSUME ConnectionRows
  PROVE  /\ Idle \in WorkRow /\ Idle.at = "idle" /\ Idle.credential = 0
         /\ NoConnection.credential = 0 /\ NoConnection \in ConnectionRow
         /\ NoToken = 0 /\ 0 \in 0 .. MaxToken /\ 0 \notin valid
         /\ MaxToken \in Nat
  <1>1. MaxToken \in Nat /\ 0 \in 0 .. MaxToken
    BY ConnectionsAssumption
  <1>2. Idle \in WorkRow /\ Idle.at = "idle" /\ Idle.credential = 0
    BY <1>1 DEF Idle, WorkRow, NoToken
  <1>3. 0 \notin valid
    BY DEF ConnectionRows
  <1> QED
    BY <1>1, <1>2, <1>3 DEF NoConnection, ConnectionRow, NoToken

\* The lists of the provider.
LEMMA SnapshotFacts ==
  /\ DOMAIN Snapshot \subseteq Nat \ {0} /\ 1 \in DOMAIN Snapshot
  /\ \A i \in DOMAIN Snapshot : /\ Snapshot[i] \in Seq(Repository)
                                /\ Len(Snapshot[i]) \in Nat
                                /\ DOMAIN Snapshot[i] = 1 .. Len(Snapshot[i])
                                /\ 1 .. i \subseteq DOMAIN Snapshot
  <1>1. Snapshot \in Seq(Seq(Repository)) /\ Snapshot # <<>>
    BY ConnectionsAssumption
  <1>2. Len(Snapshot) \in Nat /\ Len(Snapshot) # 0 /\ DOMAIN Snapshot = 1 .. Len(Snapshot)
    BY <1>1
  <1>3. \A i \in DOMAIN Snapshot : Snapshot[i] \in Seq(Repository)
    BY <1>1, <1>2
  <1>4. ASSUME NEW i \in DOMAIN Snapshot
        PROVE  /\ Len(Snapshot[i]) \in Nat /\ DOMAIN Snapshot[i] = 1 .. Len(Snapshot[i])
               /\ 1 .. i \subseteq DOMAIN Snapshot
    BY <1>2, <1>3
  <1> QED
    BY <1>2, <1>3, <1>4

\* The parts of the invariant that are about lists, one request or connection at a
\* time, now and after a step.
LEMMA PagesOfEach ==
  /\ PagesRead <=> \A h \in Handler : PagesOf(work[h], access)
  /\ PagesRead' <=> \A h \in Handler : PagesOf(work'[h], access')
  /\ EnabledWasListed <=>
       \A p \in Provider : connection[p] # NoConnection =>
                             Listed(connection[p].enabled, connection[p].read, access)
  /\ EnabledWasListed' <=>
       \A p \in Provider : connection'[p] # NoConnection =>
                             Listed(connection'[p].enabled, connection'[p].read, access')
  BY DEF PagesRead, PagesOf, EnabledWasListed, Listed, Connected, Repositories, First

\* A request that has not begun to list has read nothing.
LEMMA NothingRead ==
  ASSUME NEW w, NEW a, w.read = {}, w.snapshot = {}, w.offset = 0, w.at # "storing"
  PROVE  PagesOf(w, a)
  BY DEF PagesOf

\* The first pages and the next one are the first pages and one more, or all there
\* are.
LEMMA NextPage ==
  ASSUME NEW i \in DOMAIN Snapshot, NEW n \in Nat, n <= Len(Snapshot[i])
  PROVE  LET page == {Snapshot[i][k] : k \in {j \in DOMAIN Snapshot[i] :
                                                n < j /\ j <= n + PageSize}}
         IN  /\ n + PageSize <= Len(Snapshot[i]) =>
                  First(i, n) \cup page = First(i, n + PageSize)
             /\ ~(n + PageSize <= Len(Snapshot[i])) =>
                  First(i, n) \cup page = Repositories(i)
  <1> DEFINE len == Len(Snapshot[i])
             more == {j \in DOMAIN Snapshot[i] : n < j /\ j <= n + PageSize}
  <1>1. /\ len \in Nat /\ DOMAIN Snapshot[i] = 1 .. len
        /\ PageSize \in Nat
    BY SnapshotFacts, ConnectionsAssumption
  <1>2. n + PageSize <= len => (1 .. n) \cup more = 1 .. n + PageSize
    BY <1>1
  <1>3. ~(n + PageSize <= len) => (1 .. n) \cup more = 1 .. len
    BY <1>1
  <1>4. First(i, n) \cup {Snapshot[i][k] : k \in more}
          = {Snapshot[i][k] : k \in (1 .. n) \cup more}
    BY DEF First
  <1> QED
    BY <1>2, <1>3, <1>4 DEF First, Repositories

\* At the start there is no connection and no flow.
LEMMA ConnectionInit ==
  ASSUME AccessInit
  PROVE  ConnectionInv
  <1> USE DEF AccessInit
  <1>1. MaxToken \in Nat /\ 0 \in 0 .. MaxToken
    BY ConnectionsAssumption
  <1>2. ConnectionRows
    <2>1. Idle \in WorkRow
      BY <1>1 DEF Idle, WorkRow, NoToken
    <2>2. NoConnection \in ConnectionRow
      BY <1>1 DEF NoConnection, ConnectionRow, NoToken
    <2>3. NoFlow \in [state : {"unused", "open", "consumed", "expired"},
                      provider : Provider \cup {None}, user : Email \cup {None}]
      BY DEF NoFlow
    <2>4. access \in DOMAIN Snapshot /\ completed \in [ConnectFlow -> Nat]
      BY SnapshotFacts
    <2>5. issued \in 0 .. MaxToken /\ valid \subseteq 1 .. issued
      BY <1>1
    <2>6. disturbed \in BOOLEAN
      OBVIOUS
    <2> QED
      BY <2>1, <2>2, <2>3, <2>4, <2>5, <2>6 DEF ConnectionRows
  <1>3. WorkHasProvider /\ OneRequestOfGitLab /\ HeldCredentialUsable
    BY DEF WorkHasProvider, OneRequestOfGitLab, HeldCredentialUsable, Idle
  <1>4. OnlyGitLabHasTokens
    BY DEF OnlyGitLabHasTokens, Idle, NoConnection, Provider, NoToken
  <1>5. EnabledWasListed /\ OneCallbackPerFlow /\ CredentialStaysUsable
    BY DEF EnabledWasListed, OneCallbackPerFlow, CredentialStaysUsable, Connected,
           Provider, NoFlow
  <1>6. PagesRead
    <2>1. PagesOf(Idle, access)
      BY NothingRead DEF Idle
    <2> QED
      BY <2>1 DEF PagesRead
  <1> QED
    BY <1>2, <1>3, <1>4, <1>5, <1>6 DEF ConnectionInv

\* What the parts of the invariant that are not about flows depend on.
RequestInv ==
  /\ WorkHasProvider /\ PagesRead /\ OnlyGitLabHasTokens
  /\ OneRequestOfGitLab /\ HeldCredentialUsable
  /\ EnabledWasListed /\ CredentialStaysUsable

\* While nothing is disturbed and no request of GitLab is in progress, the stored
\* credential itself is usable.
LEMMA StoredUsable ==
  ASSUME ConnectionInv, ~disturbed, ~Busy("gitlab"), Connected("gitlab")
  PROVE  connection["gitlab"].credential \in valid
  <1> USE DEF ConnectionInv
  <1>1. \A h \in Handler : work[h].provider = "gitlab" => work[h].credential = 0
    BY DEF Busy, OnlyGitLabHasTokens, NoToken
  <1> QED
    BY <1>1, NullFacts DEF CredentialStaysUsable

\* A request takes up work that holds the stored credential or none.
LEMMA TakesUpInv ==
  ASSUME ConnectionInv, NEW h \in Handler, NEW w \in WorkRow, TakesUp(h, w),
         w.provider \in Provider, w.at \in {"completing", "listing"},
         w.read = {}, w.snapshot = {}, w.offset = 0,
         w.at = "completing" => w.credential = NoToken,
         w.at = "listing" => /\ Connected(w.provider)
                             /\ w.credential = connection[w.provider].credential,
         UNCHANGED <<connection, valid, issued, access>>
  PROVE  RequestInv' /\ work' \in [Handler -> WorkRow] /\ disturbed' \in BOOLEAN
  <1> USE DEF ConnectionInv
  <1>1. /\ work[h] = Idle /\ work' = [work EXCEPT ![h] = w]
        /\ disturbed' = (disturbed \/ (w.provider = "gitlab" /\ Busy("gitlab")))
    BY DEF TakesUp
  <1>2. /\ work'[h] = w /\ \A g \in Handler : g # h => work'[g] = work[g]
        /\ work' \in [Handler -> WorkRow] /\ disturbed' \in BOOLEAN
    BY <1>1 DEF ConnectionRows
  <1>3. WorkHasProvider' /\ PagesRead'
    <2>1. PagesOf(w, access)
      BY NothingRead
    <2> QED
      BY <1>2, <2>1, PagesOfEach DEF WorkHasProvider
  <1>4. OnlyGitLabHasTokens'
    BY <1>2 DEF OnlyGitLabHasTokens, Provider
  <1>5. OneRequestOfGitLab'
    <2> SUFFICES ASSUME ~disturbed',
                        NEW g \in Handler, work'[g].at # "idle", work'[g].provider = "gitlab",
                        NEW k \in Handler, work'[k].at # "idle", work'[k].provider = "gitlab"
                 PROVE  g = k
      BY DEF OneRequestOfGitLab
    <2>1. CASE g # h /\ k # h
      BY <2>1, <1>1, <1>2 DEF OneRequestOfGitLab
    <2>2. CASE g = h \/ k = h
      BY <2>2, <1>1, <1>2 DEF Busy
    <2> QED
      BY <2>1, <2>2
  <1>6. HeldCredentialUsable'
    <2> SUFFICES ASSUME ~disturbed', NEW g \in Handler,
                        work'[g].at \in {"listing", "storing"}, work'[g].provider = "gitlab"
                 PROVE  work'[g].credential \in valid
      BY DEF HeldCredentialUsable
    <2>1. CASE g # h
      BY <2>1, <1>1, <1>2 DEF HeldCredentialUsable
    <2>2. CASE g = h
      <3>1. ~disturbed /\ ~Busy("gitlab")
        BY <2>2, <1>1, <1>2
      <3>2. Connected("gitlab") /\ w.credential = connection["gitlab"].credential
        BY <2>2, <1>2
      <3> QED
        BY <2>2, <1>2, <3>1, <3>2, StoredUsable
    <2> QED
      BY <2>1, <2>2
  <1>7. EnabledWasListed'
    BY PagesOfEach
  <1>8. CredentialStaysUsable'
    <2>1. work[h].credential \notin valid
      BY <1>1, NullFacts
    <2> QED
      BY <1>1, <1>2, <2>1 DEF CredentialStaysUsable, Connected
  <1> QED
    BY <1>2, <1>3, <1>4, <1>5, <1>6, <1>7, <1>8 DEF RequestInv

\* A step that leaves requests and connections alone.
LEMMA RequestsAlone ==
  ASSUME ConnectionInv, UNCHANGED <<connection, work, valid, issued, access, disturbed>>
  PROVE  RequestInv'
  <1> USE DEF ConnectionInv
  <1>1. PagesRead' /\ EnabledWasListed'
    BY PagesOfEach
  <1> QED
    BY <1>1 DEF RequestInv, WorkHasProvider, OnlyGitLabHasTokens, OneRequestOfGitLab,
       HeldCredentialUsable, CredentialStaysUsable, Connected

\* Only an administrator begins a flow, which nobody has completed.
LEMMA BeginConnectInv ==
  ASSUME ConnectionInv, IdentityInv, NEW s \in Token, NEW f \in ConnectFlow,
         NEW p \in Provider, BeginConnect(s, f, p)
  PROVE  ConnectionInv'
  <1> USE DEF ConnectionInv
  <1> DEFINE begun == [state |-> "open", provider |-> p, user |-> sessions[s].user]
  <1>1. /\ sessions[s].state = "open" /\ flows[f] = NoFlow
        /\ flows' = [flows EXCEPT ![f] = begun]
        /\ UNCHANGED <<connection, work, valid, issued, access, completed, disturbed>>
    BY DEF BeginConnect, Authenticate, gitlabVars
  <1>2. sessions[s].user \in Email
    BY <1>1, SessionFacts DEF IdentityInv, Session
  <1>3. begun \in [state : {"unused", "open", "consumed", "expired"},
                   provider : Provider \cup {None}, user : Email \cup {None}]
    BY <1>2
  <1>4. RequestInv'
    BY <1>1, RequestsAlone
  <1>5. ConnectionRows'
    BY <1>1, <1>3 DEF ConnectionRows
  <1>6. flows'[f].state = "open" /\ flows[f].state = "unused"
        /\ \A g \in ConnectFlow : g # f => flows'[g] = flows[g]
    BY <1>1 DEF ConnectionRows, NoFlow
  <1>7. OneCallbackPerFlow'
    BY <1>1, <1>6 DEF OneCallbackPerFlow
  <1> QED
    BY <1>4, <1>5, <1>7 DEF RequestInv

\* A flow that expires has not been completed.
LEMMA FlowExpiresInv ==
  ASSUME ConnectionInv, NEW f \in ConnectFlow, FlowExpires(f)
  PROVE  ConnectionInv'
  <1> USE DEF ConnectionInv
  <1>1. /\ flows[f].state = "open"
        /\ flows' = [flows EXCEPT ![f].state = "expired"]
        /\ UNCHANGED <<connection, work, valid, issued, access, completed, disturbed>>
    BY DEF FlowExpires, gitlabVars
  <1>2. RequestInv'
    BY <1>1, RequestsAlone
  <1>3. ConnectionRows'
    BY <1>1 DEF ConnectionRows
  <1>4. flows'[f].state = "expired"
        /\ \A g \in ConnectFlow : g # f => flows'[g] = flows[g]
    BY <1>1 DEF ConnectionRows
  <1>5. OneCallbackPerFlow'
    BY <1>1, <1>4 DEF OneCallbackPerFlow
  <1> QED
    BY <1>2, <1>3, <1>5 DEF RequestInv

\* A callback spends the flow whatever its provider, and only one gets past it.
LEMMA ConsumeFlowInv ==
  ASSUME ConnectionInv, NEW h \in Handler, NEW f \in ConnectFlow, NEW p \in Provider,
         ConsumeFlow(h, f, p)
  PROVE  ConnectionInv'
  <1> USE DEF ConnectionInv
  <1> DEFINE w == [Idle EXCEPT !.at = "completing", !.provider = p, !.user = flows[f].user]
  <1>1. /\ flows[f].state = "open"
        /\ flows' = [flows EXCEPT ![f].state = "consumed"]
        /\ \/ TakesUp(h, w) /\ completed' = [completed EXCEPT ![f] = @ + 1]
           \/ UNCHANGED <<completed, work, disturbed>>
        /\ UNCHANGED <<connection, valid, issued, access>>
    BY DEF ConsumeFlow, gitlabVars
  <1>2. /\ w \in WorkRow /\ w.at = "completing" /\ w.provider = p /\ w.credential = NoToken
        /\ w.read = {} /\ w.snapshot = {} /\ w.offset = 0
    BY NullFacts DEF Idle, WorkRow, ConnectionRows, NoToken
  <1> HIDE DEF w
  <1>3. RequestInv' /\ work' \in [Handler -> WorkRow] /\ disturbed' \in BOOLEAN
    <2>1. CASE TakesUp(h, w)
      BY <2>1, <1>1, <1>2, TakesUpInv
    <2>2. CASE UNCHANGED <<work, disturbed>>
      BY <2>2, <1>1, RequestsAlone DEF ConnectionRows
    <2> QED
      BY <1>1, <2>1, <2>2
  <1>4. /\ flows'[f].state = "consumed"
        /\ \A g \in ConnectFlow : g # f => flows'[g] = flows[g]
        /\ flows' \in [ConnectFlow -> [state : {"unused", "open", "consumed", "expired"},
                                        provider : Provider \cup {None},
                                        user : Email \cup {None}]]
    BY <1>1 DEF ConnectionRows
  <1>5. /\ completed' \in [ConnectFlow -> Nat]
        /\ \A g \in ConnectFlow : g # f => completed'[g] = completed[g]
        /\ completed'[f] \in {completed[f], completed[f] + 1}
    BY <1>1 DEF ConnectionRows
  <1>6. ConnectionRows'
    BY <1>1, <1>3, <1>4, <1>5 DEF ConnectionRows
  <1>7. OneCallbackPerFlow'
    <2>1. completed[f] = 0
      BY <1>1 DEF OneCallbackPerFlow, ConnectionRows
    <2> QED
      BY <1>4, <1>5, <2>1 DEF OneCallbackPerFlow
  <1> QED
    BY <1>3, <1>6, <1>7 DEF RequestInv

\* A synchronization takes up the stored credential.
LEMMA SyncInv ==
  ASSUME ConnectionInv, IdentityInv, NEW h \in Handler, NEW s \in Token,
         NEW p \in Provider, Sync(h, s, p)
  PROVE  ConnectionInv'
  <1> USE DEF ConnectionInv
  <1> DEFINE w == [Idle EXCEPT !.at = "listing", !.provider = p, !.user = sessions[s].user,
                               !.credential = connection[p].credential]
  <1>1. /\ sessions[s].state = "open" /\ Connected(p) /\ TakesUp(h, w)
        /\ UNCHANGED <<flows, connection, valid, issued, access, completed>>
    BY DEF Sync, Authenticate, gitlabVars
  <1>2. sessions[s].user \in Email
    BY <1>1, SessionFacts DEF IdentityInv, Session
  <1>3. /\ w \in WorkRow /\ w.at = "listing" /\ w.provider = p
        /\ w.credential = connection[p].credential
        /\ w.read = {} /\ w.snapshot = {} /\ w.offset = 0
    BY <1>2 DEF Idle, WorkRow, ConnectionRows, ConnectionRow
  <1> HIDE DEF w
  <1>4. RequestInv' /\ work' \in [Handler -> WorkRow] /\ disturbed' \in BOOLEAN
    BY <1>1, <1>3, TakesUpInv
  <1>5. ConnectionRows'
    BY <1>1, <1>4 DEF ConnectionRows
  <1>6. OneCallbackPerFlow'
    BY <1>1 DEF OneCallbackPerFlow
  <1> QED
    BY <1>4, <1>5, <1>6 DEF RequestInv

\* GitLab issues a token that it has not issued before; the others but c stay.
LEMMA IssueFacts ==
  ASSUME ConnectionRows, NEW c, Issue(c)
  PROVE  /\ issued' \in 1 .. MaxToken /\ valid' \subseteq 1 .. issued' /\ issued' \in valid'
         /\ \A x \in valid : x # c => x \in valid'
         /\ issued' \in 0 .. MaxToken /\ issued' # 0
  <1>1. issued < MaxToken /\ issued' = issued + 1 /\ valid' = (valid \ {c}) \cup {issued'}
    BY DEF Issue
  <1>2. issued \in Nat /\ MaxToken \in Nat /\ valid \subseteq 1 .. issued
    BY ConnectionsAssumption DEF ConnectionRows
  <1>3. issued' \in 1 .. MaxToken /\ issued' \in 0 .. MaxToken /\ issued' # 0
    BY <1>1, <1>2
  <1>4. 1 .. issued \subseteq 1 .. issued' /\ issued' \in 1 .. issued'
    BY <1>1, <1>2
  <1>5. valid' \subseteq 1 .. issued' /\ issued' \in valid'
    BY <1>1, <1>2, <1>4
  <1>6. \A x \in valid : x # c => x \in valid'
    BY <1>1
  <1> QED
    BY <1>3, <1>5, <1>6

\* A new token is the one that the request holds, and takes the place of none.
LEMMA CompleteConnectInv ==
  ASSUME ConnectionInv, NEW h \in Handler, Complete(h)
  PROVE  ConnectionInv'
  <1> USE DEF ConnectionInv
  <1>1. /\ work[h].at = "completing" /\ work[h].provider \in Provider
        /\ UNCHANGED <<flows, connection, access, completed, disturbed>>
    BY DEF Complete, WorkHasProvider
  <1>2. EnabledWasListed' /\ OneCallbackPerFlow'
    BY <1>1, PagesOfEach DEF OneCallbackPerFlow
  <1>3. /\ \A g \in Handler : g # h => work'[g] = work[g]
        /\ work'[h].at = "listing" /\ work'[h].provider = work[h].provider
        /\ work[h].provider = "gitlab" => /\ work'[h].credential = issued'
                                          /\ Issue(NoToken)
        /\ work[h].provider # "gitlab" => /\ work'[h].credential = work[h].credential
                                          /\ UNCHANGED <<valid, issued>>
    BY DEF Complete, ConnectionRows, WorkRow, gitlabVars
  <1>4. /\ issued' \in 0 .. MaxToken /\ valid' \subseteq 1 .. issued'
        /\ valid \subseteq valid'
        /\ work[h].provider = "gitlab" => issued' \in valid'
    BY <1>3, IssueFacts, NullFacts DEF ConnectionRows
  <1>5. work' \in [Handler -> WorkRow]
    <2>1. /\ work[h] \in WorkRow
          /\ [work[h] EXCEPT !.at = "listing"] \in WorkRow
          /\ [work[h] EXCEPT !.at = "listing", !.credential = issued', !.fresh = TRUE]
               \in WorkRow
      BY <1>4 DEF ConnectionRows, WorkRow
    <2> QED
      BY <1>1, <2>1 DEF Complete, ConnectionRows
  <1>6. ConnectionRows'
    BY <1>1, <1>2, <1>4, <1>5 DEF ConnectionRows
  <1>7. WorkHasProvider' /\ PagesRead'
    <2>1. /\ work'[h].read = work[h].read /\ work'[h].snapshot = work[h].snapshot
          /\ work'[h].offset = work[h].offset
      BY DEF Complete, ConnectionRows, WorkRow
    <2>2. work[h].read = {} /\ work[h].snapshot = {} /\ work[h].offset = 0
      BY <1>1 DEF PagesRead, PagesOf
    <2>3. PagesOf(work'[h], access)
      BY <1>3, <2>1, <2>2, NothingRead
    <2> QED
      BY <1>1, <1>3, <2>3, PagesOfEach DEF WorkHasProvider
  <1>8. OnlyGitLabHasTokens' /\ OneRequestOfGitLab'
    BY <1>1, <1>3 DEF OnlyGitLabHasTokens, OneRequestOfGitLab, Provider
  <1>9. HeldCredentialUsable'
    BY <1>1, <1>3, <1>4 DEF HeldCredentialUsable
  <1>10. CredentialStaysUsable'
    <2>1. work[h].credential \notin valid
      BY <1>1, NullFacts DEF OnlyGitLabHasTokens
    <2> QED
      BY <1>1, <1>3, <1>4, <2>1 DEF CredentialStaysUsable, Connected
  <1> QED
    BY <1>2, <1>6, <1>7, <1>8, <1>9, <1>10

\* A refresh uses up the credential, which no other undisturbed request holds, and
\* the request holds its successor.
LEMMA RefreshInv ==
  ASSUME ConnectionInv, NEW h \in Handler, Refresh(h)
  PROVE  ConnectionInv'
  <1> USE DEF ConnectionInv
  <1>1. /\ work[h].at = "listing" /\ work[h].credential \in valid /\ work[h].read = {}
        /\ Issue(work[h].credential)
        /\ UNCHANGED <<flows, connection, access, completed, disturbed>>
    BY DEF Refresh
  <1>2. EnabledWasListed' /\ OneCallbackPerFlow'
    BY <1>1, PagesOfEach DEF OneCallbackPerFlow
  <1>3. work[h].provider = "gitlab"
    BY <1>1, NullFacts DEF OnlyGitLabHasTokens
  <1>4. /\ issued' \in 0 .. MaxToken /\ valid' \subseteq 1 .. issued'
        /\ issued' \in valid'
        /\ \A x \in valid : x # work[h].credential => x \in valid'
    BY <1>1, IssueFacts
  <1>5. /\ \A g \in Handler : g # h => work'[g] = work[g]
        /\ work'[h].at = "listing" /\ work'[h].provider = "gitlab"
        /\ work'[h].credential = issued'
    BY <1>1, <1>3 DEF Refresh, ConnectionRows, WorkRow
  <1>6. work' \in [Handler -> WorkRow]
    <2>1. /\ work[h] \in WorkRow
          /\ [work[h] EXCEPT !.credential = issued', !.fresh = TRUE] \in WorkRow
      BY <1>4 DEF ConnectionRows, WorkRow
    <2> QED
      BY <2>1 DEF Refresh, ConnectionRows
  <1>7. ConnectionRows'
    BY <1>1, <1>2, <1>4, <1>6 DEF ConnectionRows
  <1>8. WorkHasProvider' /\ PagesRead'
    <2>1. /\ work'[h].read = work[h].read /\ work'[h].snapshot = work[h].snapshot
          /\ work'[h].offset = work[h].offset
      BY DEF Refresh, ConnectionRows, WorkRow
    <2>2. work[h].snapshot = {} /\ work[h].offset = 0
      BY <1>1 DEF PagesRead, PagesOf
    <2>3. PagesOf(work'[h], access)
      BY <1>1, <1>5, <2>1, <2>2, NothingRead
    <2> QED
      BY <1>1, <1>5, <2>3, PagesOfEach DEF WorkHasProvider, Provider
  <1>9. OnlyGitLabHasTokens' /\ OneRequestOfGitLab'
    BY <1>1, <1>3, <1>5 DEF OnlyGitLabHasTokens, OneRequestOfGitLab, Provider
  <1>10. HeldCredentialUsable'
    <2>1. ~disturbed => \A g \in Handler : work[g].at # "idle" /\ work[g].provider = "gitlab"
                                             => g = h
      BY <1>1, <1>3 DEF OneRequestOfGitLab
    <2> QED
      BY <1>1, <1>4, <1>5, <2>1 DEF HeldCredentialUsable
  <1>11. CredentialStaysUsable'
    BY <1>4, <1>5 DEF CredentialStaysUsable
  <1> QED
    BY <1>2, <1>7, <1>8, <1>9, <1>10, <1>11

\* One more page: of a list that has not changed it is the one that follows, and the
\* last one completes it.
LEMMA PageInv ==
  ASSUME access \in DOMAIN Snapshot, NEW w \in WorkRow, w.at = "listing",
         PagesOf(w, access), NEW v,
         v.offset = w.offset + PageSize, v.snapshot = w.snapshot \cup Page(w.offset),
         v.read = w.read \cup {access},
         v.at = IF w.offset + PageSize <= Len(Snapshot[access]) THEN "listing" ELSE "storing"
  PROVE  PagesOf(v, access)
  <1> DEFINE len == Len(Snapshot[access])
             full == w.offset + PageSize <= len
  <1>1. /\ len \in Nat /\ access \in Nat \ {0} /\ PageSize \in Nat /\ w.offset \in Nat
        /\ DOMAIN Snapshot[access] = 1 .. len
    BY SnapshotFacts, ConnectionsAssumption DEF WorkRow
  <1>2. Page(w.offset) \subseteq Repositories(access)
    BY <1>1 DEF Page, Repositories, First
  <1>3. v.read \subseteq 1 .. access /\ v.read # {}
    BY <1>1 DEF PagesOf
  <1>4. v.snapshot \subseteq UNION {Repositories(i) : i \in v.read}
    BY <1>2 DEF PagesOf
  <1>5. ASSUME NEW i \in v.read, v.read = {i}
        PROVE  /\ i = access
               /\ full => v.snapshot = First(i, v.offset)
               /\ ~full => v.snapshot = Repositories(i)
    <2>1. i = access /\ (w.read = {} \/ w.read = {access})
      BY <1>5
    <2>2. w.offset <= len /\ w.snapshot = First(access, w.offset)
      <3>1. CASE w.read = {}
        <4>1. w.offset = 0 /\ w.snapshot = {}
          BY <3>1 DEF PagesOf
        <4> QED
          BY <4>1, <1>1 DEF First
      <3>2. CASE w.read = {access}
        BY <3>2 DEF PagesOf
      <3> QED
        BY <2>1, <3>1, <3>2
    <2>3. /\ full => First(access, w.offset) \cup Page(w.offset)
                       = First(access, w.offset + PageSize)
          /\ ~full => First(access, w.offset) \cup Page(w.offset) = Repositories(access)
      BY <1>1, <2>2, NextPage DEF Page
    <2> QED
      BY <2>1, <2>2, <2>3
  <1>6. full \/ ~full
    OBVIOUS
  <1>7. CASE full
    BY <1>3, <1>4, <1>5, <1>7 DEF PagesOf
  <1>8. CASE ~full
    <2>1. Listed(v.snapshot, v.read, access)
      BY <1>3, <1>4, <1>5, <1>8 DEF Listed
    <2> QED
      BY <1>3, <1>4, <1>8, <2>1 DEF PagesOf
  <1> QED
    BY <1>6, <1>7, <1>8

\* A page is read of the list as it is now.
LEMMA ListInv ==
  ASSUME ConnectionInv, NEW h \in Handler, List(h)
  PROVE  ConnectionInv'
  <1> USE DEF ConnectionInv
  <1> DEFINE w == work[h]
             next == w.offset + PageSize
             at == IF next <= Len(Snapshot[access]) THEN "listing" ELSE "storing"
             v == [w EXCEPT !.at = at, !.offset = next,
                            !.snapshot = @ \cup Page(w.offset), !.read = @ \cup {access}]
  <1>1. /\ w.at = "listing" /\ work' = [work EXCEPT ![h] = v]
        /\ UNCHANGED <<flows, connection, valid, issued, access, completed, disturbed>>
    BY DEF List, gitlabVars
  <1>2. EnabledWasListed' /\ OneCallbackPerFlow'
    BY <1>1, PagesOfEach DEF OneCallbackPerFlow
  <1>3. w \in WorkRow /\ access \in DOMAIN Snapshot
    BY DEF ConnectionRows
  <1>4. /\ next \in Nat /\ at \in {"listing", "storing"} /\ access \in Nat
        /\ Page(w.offset) \subseteq Repository
    <2>1. w.offset \in Nat /\ PageSize \in Nat
      BY <1>3, ConnectionsAssumption DEF WorkRow
    <2>2. access \in Nat /\ \A k \in DOMAIN Snapshot[access] : Snapshot[access][k] \in Repository
      BY <1>3, SnapshotFacts
    <2> QED
      BY <2>1, <2>2 DEF Page
  <1>5. /\ v \in WorkRow /\ v.at = at /\ v.provider = w.provider
        /\ v.credential = w.credential /\ v.offset = next
        /\ v.snapshot = w.snapshot \cup Page(w.offset) /\ v.read = w.read \cup {access}
    <2> HIDE DEF next, at
    <2> QED
      BY <1>3, <1>4 DEF WorkRow
  <1> HIDE DEF v
  <1>6. /\ work'[h] = v /\ \A g \in Handler : g # h => work'[g] = work[g]
        /\ work' \in [Handler -> WorkRow]
    BY <1>1, <1>5 DEF ConnectionRows
  <1>7. ConnectionRows'
    BY <1>1, <1>6 DEF ConnectionRows
  <1>8. PagesRead'
    <2>1. PagesOf(w, access)
      BY DEF PagesRead
    <2>2. PagesOf(v, access)
      BY <1>1, <1>3, <1>5, <2>1, PageInv
    <2> QED
      BY <1>1, <1>6, <2>2, PagesOfEach
  <1>9. WorkHasProvider' /\ OnlyGitLabHasTokens' /\ OneRequestOfGitLab'
    BY <1>1, <1>4, <1>5, <1>6 DEF WorkHasProvider, OnlyGitLabHasTokens, OneRequestOfGitLab
  <1>10. HeldCredentialUsable' /\ CredentialStaysUsable'
    BY <1>1, <1>5, <1>6 DEF HeldCredentialUsable, CredentialStaysUsable, Connected
  <1> QED
    BY <1>2, <1>7, <1>8, <1>9, <1>10

\* What is stored is what was listed, with the credential that the request holds.
LEMMA UpsertInv ==
  ASSUME ConnectionInv, NEW h \in Handler, UpsertConnection(h)
  PROVE  ConnectionInv'
  <1> USE DEF ConnectionInv
  <1> DEFINE w == work[h]
             p == w.provider
             stored == [credential |-> IF w.credential # NoToken THEN w.credential
                                       ELSE connection[p].credential,
                        enabled |-> w.snapshot,
                        by |-> IF Connected(p) THEN connection[p].by ELSE w.user,
                        read |-> w.read]
  <1>1. /\ w.at = "storing"
        /\ connection' = [connection EXCEPT ![p] = stored]
        /\ work' = [work EXCEPT ![h] = Idle]
        /\ UNCHANGED <<flows, valid, issued, access, completed, disturbed>>
    BY DEF UpsertConnection, Enabled, Creator, gitlabVars
  <1>2. p \in Provider /\ w \in WorkRow
    BY <1>1 DEF WorkHasProvider, ConnectionRows
  <1>3. stored \in ConnectionRow
    BY <1>2 DEF ConnectionRows, ConnectionRow, WorkRow
  <1>4. Listed(w.snapshot, w.read, access)
    BY <1>1 DEF PagesRead, PagesOf
  <1>5. /\ connection'[p] = stored
        /\ \A q \in Provider : q # p => connection'[q] = connection[q]
        /\ work'[h] = Idle
        /\ \A g \in Handler : g # h => work'[g] = work[g]
    BY <1>1, <1>2 DEF ConnectionRows
  <1>6. stored.enabled = w.snapshot /\ stored.read = w.read
    OBVIOUS
  <1>7. w.credential # NoToken => stored.credential = w.credential
    OBVIOUS
  <1>8. w.credential = NoToken => stored.credential = connection[p].credential
    OBVIOUS
  <1> HIDE DEF stored
  <1>9. ConnectionRows'
    BY <1>1, <1>2, <1>3, NullFacts DEF ConnectionRows
  <1>10. WorkHasProvider' /\ PagesRead' /\ OneRequestOfGitLab'
    <2>1. PagesOf(Idle, access)
      BY NothingRead DEF Idle
    <2> QED
      BY <1>1, <1>5, <2>1, NullFacts, PagesOfEach DEF WorkHasProvider, OneRequestOfGitLab
  <1>11. OnlyGitLabHasTokens'
    <2>1. connection'["github"].credential = NoToken
      BY <1>2, <1>5, <1>8 DEF OnlyGitLabHasTokens, Provider
    <2> QED
      BY <1>5, <2>1, NullFacts DEF OnlyGitLabHasTokens
  <1>12. HeldCredentialUsable'
    BY <1>1, <1>5, NullFacts DEF HeldCredentialUsable
  <1>13. EnabledWasListed'
    BY <1>1, <1>4, <1>5, <1>6, PagesOfEach
  <1>14. OneCallbackPerFlow'
    BY <1>1 DEF OneCallbackPerFlow
  <1>15. CredentialStaysUsable'
    <2> SUFFICES ASSUME Connected("gitlab")', ~disturbed
                 PROVE  \/ connection'["gitlab"].credential \in valid
                        \/ \E g \in Handler : /\ work'[g].provider = "gitlab"
                                              /\ work'[g].credential \in valid
      BY <1>1 DEF CredentialStaysUsable
    <2>1. CASE p = "gitlab"
      <3>1. w.credential \in valid
        BY <2>1, <1>1 DEF HeldCredentialUsable
      <3> QED
        BY <2>1, <3>1, <1>5, <1>7, NullFacts
    <2>2. CASE p # "gitlab"
      <3>1. connection'["gitlab"] = connection["gitlab"]
        BY <2>2, <1>5 DEF Provider
      <3> QED
        BY <2>2, <3>1, <1>5 DEF CredentialStaysUsable, Connected
    <2> QED
      BY <2>1, <2>2
  <1> QED
    BY <1>9, <1>10, <1>11, <1>12, <1>13, <1>14, <1>15

\* What GitLab issued to a request that fails is lost, which disturbs.
LEMMA RequestFailsInv ==
  ASSUME ConnectionInv, NEW h \in Handler, RequestFails(h)
  PROVE  ConnectionInv'
  <1> USE DEF ConnectionInv
  <1>1. /\ work' = [work EXCEPT ![h] = Idle]
        /\ disturbed' = (disturbed \/ work[h].provider = "gitlab")
        /\ UNCHANGED <<flows, connection, valid, issued, access, completed>>
    BY DEF RequestFails, gitlabVars
  <1>2. EnabledWasListed' /\ OneCallbackPerFlow'
    BY <1>1, PagesOfEach DEF OneCallbackPerFlow
  <1>3. work'[h] = Idle /\ \A g \in Handler : g # h => work'[g] = work[g]
    BY <1>1 DEF ConnectionRows
  <1>4. disturbed' \in BOOLEAN /\ (~disturbed' => ~disturbed /\ work[h].provider # "gitlab")
    BY <1>1 DEF ConnectionRows
  <1>5. ConnectionRows'
    <2>1. work' \in [Handler -> WorkRow]
      BY <1>1, NullFacts DEF ConnectionRows
    <2> QED
      BY <1>1, <1>4, <2>1 DEF ConnectionRows
  <1>6. WorkHasProvider' /\ PagesRead'
    <2>1. PagesOf(Idle, access)
      BY NothingRead DEF Idle
    <2> QED
      BY <1>1, <1>3, <2>1, NullFacts, PagesOfEach DEF WorkHasProvider
  <1>7. OnlyGitLabHasTokens'
    BY <1>1, <1>3, NullFacts DEF OnlyGitLabHasTokens
  <1>8. OneRequestOfGitLab' /\ HeldCredentialUsable'
    BY <1>1, <1>3, <1>4, NullFacts DEF OneRequestOfGitLab, HeldCredentialUsable
  <1>9. CredentialStaysUsable'
    BY <1>1, <1>3, <1>4 DEF CredentialStaysUsable, Connected
  <1> QED
    BY <1>2, <1>5, <1>6, <1>7, <1>8, <1>9

\* Lists that were read stay in the history.
LEMMA AccessChangesInv ==
  ASSUME ConnectionInv, AccessChanges
  PROVE  ConnectionInv'
  <1> USE DEF ConnectionInv
  <1>1. /\ access' = access + 1 /\ access' \in DOMAIN Snapshot
        /\ UNCHANGED <<flows, connection, work, valid, issued, completed, disturbed>>
    BY DEF AccessChanges, gitlabVars
  <1>2. access \in Nat
    BY SnapshotFacts DEF ConnectionRows
  <1>3. 1 .. access \subseteq 1 .. access'
    BY <1>1, <1>2
  <1>4. \A repositories, times :
          Listed(repositories, times, access) => Listed(repositories, times, access')
    BY <1>3 DEF Listed
  <1>5. \A h \in Handler : PagesOf(work[h], access) => PagesOf(work[h], access')
    BY <1>3, <1>4 DEF PagesOf
  <1>6. ConnectionRows'
    BY <1>1 DEF ConnectionRows
  <1>7. PagesRead' /\ EnabledWasListed'
    BY <1>1, <1>4, <1>5, PagesOfEach
  <1>8. WorkHasProvider' /\ OnlyGitLabHasTokens' /\ OneRequestOfGitLab'
        /\ HeldCredentialUsable'
    BY <1>1 DEF WorkHasProvider, OnlyGitLabHasTokens, OneRequestOfGitLab,
                HeldCredentialUsable
  <1>9. OneCallbackPerFlow' /\ CredentialStaysUsable'
    BY <1>1 DEF OneCallbackPerFlow, CredentialStaysUsable, Connected
  <1> QED
    BY <1>6, <1>7, <1>8, <1>9

\* Every step of connections preserves their invariant, given that of identity.
LEMMA ConnectionStepInv ==
  ASSUME ConnectionInv, IdentityInv, ConnectionStep \/ UNCHANGED connectionVars
  PROVE  ConnectionInv'
  <1>1. CASE ConnectionStep
    BY <1>1, BeginConnectInv, SyncInv, FlowExpiresInv, ConsumeFlowInv, CompleteConnectInv,
       RefreshInv, ListInv, UpsertInv, RequestFailsInv, AccessChangesInv
       DEF ConnectionStep
  <1>2. CASE UNCHANGED connectionVars
    <2>1. UNCHANGED <<flows, connection, work, valid, issued, access, completed, disturbed>>
      BY <1>2 DEF connectionVars, gitlabVars
    <2>2. ConnectionRows' /\ OneCallbackPerFlow'
      BY <2>1 DEF ConnectionInv, ConnectionRows, OneCallbackPerFlow
    <2> QED
      BY <2>1, <2>2, RequestsAlone DEF ConnectionInv, RequestInv
  <1> QED
    BY <1>1, <1>2

-----------------------------------------------------------------------------
(* The theorems.                                                           *)

\* All parts in one behaviour: what the plans of AccessNext are parts of.
AnyStep ==
  \/ (LocalStep \/ OIDCStep) /\ UNCHANGED <<connectionVars, limiterVars>>
  \/ ConnectionStep /\ UNCHANGED <<sessionVars, limiterVars>>
  \/ LimiterStep /\ UNCHANGED <<sessionVars, connectionVars>>

WholeSpec == AccessInit /\ [][AnyStep /\ UNCHANGED plan]_accessVars

\* The plans only bound what TLC explores: each is a part of the whole.
THEOREM PlansArePartsOfTheWhole == AccessSpec => WholeSpec
  <1>1. AccessNext => AnyStep /\ UNCHANGED plan
    BY DEF AccessNext, AnyStep
  <1> QED
    BY <1>1, PTL DEF AccessSpec, WholeSpec

\* The inductive invariant holds whenever all parts run together.
THEOREM AccessInvariant == WholeSpec => []AccessInv
  <1>1. AccessInit => AccessInv
    <2> SUFFICES ASSUME AccessInit PROVE AccessInv
      OBVIOUS
    <2>1. IdentityInv /\ plan \in Plan
      BY IdentityInit DEF AccessInit
    <2>2. LimiterInv
      BY LimiterStarts DEF AccessInit
    <2> QED
      BY <2>1, <2>2, ConnectionInit DEF AccessInv
  <1>2. AccessInv /\ [AnyStep /\ UNCHANGED plan]_accessVars => AccessInv'
    <2> SUFFICES ASSUME AccessInv, [AnyStep /\ UNCHANGED plan]_accessVars
                 PROVE  AccessInv'
      OBVIOUS
    <2>1. /\ LocalStep \/ OIDCStep \/ UNCHANGED sessionVars
          /\ ConnectionStep \/ UNCHANGED connectionVars
          /\ LimiterStep \/ UNCHANGED limiterVars
          /\ UNCHANGED plan
      BY DEF AnyStep, accessVars
    <2>2. IdentityInv' /\ ConnectionInv' /\ LimiterInv'
      BY <2>1, IdentityStepInv, ConnectionStepInv, LimiterStepInv DEF AccessInv
    <2> QED
      BY <2>1, <2>2 DEF AccessInv
  <1> QED
    BY <1>1, <1>2, PTL DEF WholeSpec

\* The types that TLC checks follow, among them that GitLab's valid tokens are
\* ones that it has issued.
THEOREM AccessTypes == AccessSpec => []AccessTypeOK
  <1>1. AccessInv => AccessTypeOK
    <2> SUFFICES ASSUME AccessInv PROVE AccessTypeOK
      OBVIOUS
    <2> USE DEF AccessInv, ConnectionInv
    <2>1. SessionsTypeOK
      BY DEF IdentityInv
    <2>2. /\ \A f \in ConnectFlow : flows[f].state \in {"unused", "open", "consumed", "expired"}
          /\ \A p \in Provider : /\ connection[p].credential \in 0 .. MaxToken
                                 /\ connection[p].by \in Email \cup {None}
          /\ completed \in [ConnectFlow -> Nat] /\ disturbed \in BOOLEAN
      BY DEF ConnectionRows, ConnectionRow
    <2>3. \A h \in Handler : work[h].at \in {"idle", "completing", "listing", "storing"}
      BY DEF ConnectionRows, WorkRow
    <2>4. valid \subseteq 1 .. issued /\ issued <= MaxToken
      BY ConnectionsAssumption DEF ConnectionRows
    <2>5. now \in Tick /\ admitted \in [Client -> Seq(Tick)]
      BY DEF LimiterInv, LimiterTypes
    <2> QED
      BY <2>1, <2>2, <2>3, <2>4, <2>5 DEF AccessTypeOK
  <1> QED
    BY <1>1, AccessInvariant, PlansArePartsOfTheWhole, PTL

\* Nobody gets into the account of another: a session belongs to the user with the
\* subject that the provider vouched for, or to the local user.
THEOREM SessionsBelong == AccessSpec => []SessionBelongsToLogin
  <1>1. AccessInv => SessionBelongsToLogin
    BY DEF AccessInv, IdentityInv
  <1> QED
    BY <1>1, AccessInvariant, PlansArePartsOfTheWhole, PTL

\* A flow of the identity provider opens at most one session.
THEOREM FlowsOpenOnce == AccessSpec => []OneSessionPerLogin
  <1>1. AccessInv => OneSessionPerLogin
    BY DEF AccessInv, IdentityInv
  <1> QED
    BY <1>1, AccessInvariant, PlansArePartsOfTheWhole, PTL

\* The server has one administrator, who is the local user.
THEOREM SoleAdministrator == AccessSpec => []OneAdministrator
  <1>1. AccessInv => OneAdministrator
    <2> SUFFICES ASSUME IdentityInv, NEW d \in Email, NEW e \in Email,
                        users[d].role = "admin"
                 PROVE  /\ users[d].source = "local" /\ users[d].subject = None
                        /\ users[e].role = "admin" => d = e
      BY DEF AccessInv, OneAdministrator
    <2>1. \A c \in Email : users[c].role = "admin"
                              => users[c].source = "local" /\ users[c].subject = None
      BY UserFacts DEF IdentityInv, RowsByOrigin
    <2> QED
      BY <2>1 DEF IdentityInv, OneRowPerSubject
  <1> QED
    BY <1>1, AccessInvariant, PlansArePartsOfTheWhole, PTL

\* A connection's enabled repositories are what a listing found, page by page: they
\* were on the provider's list while it was read, and are all of it if it did not
\* change meanwhile.
THEOREM ListingIsEnabled == AccessSpec => []EnabledWasListed
  <1>1. AccessInv => EnabledWasListed
    BY DEF AccessInv, ConnectionInv
  <1> QED
    BY <1>1, AccessInvariant, PlansArePartsOfTheWhole, PTL

\* One callback at most gets past a connection flow.
THEOREM FlowsConnectOnce == AccessSpec => []OneCallbackPerFlow
  <1>1. AccessInv => OneCallbackPerFlow
    BY DEF AccessInv, ConnectionInv
  <1> QED
    BY <1>1, AccessInvariant, PlansArePartsOfTheWhole, PTL

\* Rotation of refresh tokens does not lock RepoMender out while requests of GitLab
\* come one at a time and end well.
THEOREM RotationKeepsAccess == AccessSpec => []CredentialStaysUsable
  <1>1. AccessInv => CredentialStaysUsable
    BY DEF AccessInv, ConnectionInv
  <1> QED
    BY <1>1, AccessInvariant, PlansArePartsOfTheWhole, PTL

\* The limit holds within every window of a client, and no minute whatsoever has
\* more than twice the limit, up to the time a request waits for the mutex, whatever
\* the clients, the limit and the window.
THEOREM BurstsBounded == AccessSpec => []BurstIsBounded
  <1>1. AccessInv => BurstIsBounded
    BY BurstFollows DEF AccessInv
  <1> QED
    BY <1>1, AccessInvariant, PlansArePartsOfTheWhole, PTL
=============================================================================

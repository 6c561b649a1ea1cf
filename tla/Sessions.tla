------------------------------- MODULE Sessions -------------------------------
(***************************************************************************)
(* Users and how they get in: the one-time administrator, the local login, *)
(* the OIDC login with its one-time flow, and the sessions they open       *)
(* (auth.Service and auth.PostgreSQLStore).                                *)
(*                                                                         *)
(* A user row stands for its email, which is unique and never updated, and *)
(* rows are never deleted.  Tokens and states are random, so each is given *)
(* out once.  Time is abstracted: a session or a flow may expire.          *)
(***************************************************************************)
EXTENDS Naturals, FiniteSets

CONSTANTS
  Email,     \* the addresses of users
  Person,    \* subjects of the identity provider
  Token,     \* bound: the sessions that may be opened
  LoginFlow, \* bound: the OIDC flows that may be begun
  Handler,   \* requests in progress that span several calls
  None       \* nobody, nothing

ASSUME SessionsAssumption == None \notin Email \cup Person \cup LoginFlow

VARIABLES
  users,     \* users[e]: the row with that email, or NoUser
  sessions,  \* sessions[s]: the row, "unused" before and "ended" after it exists
  logins,    \* logins[f]: the OIDC flow: unused, open, consumed or expired
  callback   \* callback[h]: the flow that request h has consumed and, once it is known,
             \* the user's row with the subject the provider vouched for

sessionVars == <<users, sessions, logins, callback>>

Assignable == {"maintainer", "developer", "auditor"}

NoUser == [role |-> "none", source |-> "none", subject |-> None, active |-> FALSE]
NoCallback == [flow |-> None, user |-> None, subject |-> None]
User == [role : {"admin"} \cup Assignable, source : {"local", "oidc"},
         subject : Person \cup {None}, active : BOOLEAN]

\* Mutant: the session names the subject of its user, not the user.
OpenNamesSubject(e, p, f) == [state |-> "open", user |-> p, by |-> p, flow |-> f]

\* A session remembers how it was opened: by whom and, if by OIDC, in which flow.
Open(e, p, f) == [state |-> "open", user |-> e, by |-> p, flow |-> f]
Unused == [state |-> "unused", user |-> None, by |-> None, flow |-> None]
Session == [state : {"open", "ended"}, user : Email, by : Person \cup {None},
            flow : LoginFlow \cup {None}]

Exists(e) == users[e] # NoUser

-----------------------------------------------------------------------------
(* The administrator.                                                      *)

\* Mutant: the address of a user who came first is taken over.
BootstrapOver(e) ==
  /\ \A d \in Email : users[d].role # "admin"
  /\ users' = [users EXCEPT ![e] = [role |-> "admin", source |-> "local",
                                    subject |-> @.subject, active |-> TRUE]]
  /\ UNCHANGED <<sessions, logins, callback>>

\* BootstrapAdmin, under its advisory lock.  The INSERT fails on an address that
\* is taken, and on a second local user: (auth_source, subject) is unique, NULLs
\* too.
Bootstrap(e) ==
  /\ \A d \in Email : users[d].role # "admin" /\ users[d].source # "local"
  /\ ~Exists(e)
  /\ users' = [users EXCEPT ![e] = [role |-> "admin", source |-> "local",
                                    subject |-> None, active |-> TRUE]]
  /\ UNCHANGED <<sessions, logins, callback>>

\* The operator promotes or deactivates a user of the identity provider by SQL;
\* no code of the server does.
Administer(e, role, active) ==
  /\ users[e].source = "oidc"
  /\ users' = [users EXCEPT ![e].role = role, ![e].active = active]
  /\ UNCHANGED <<sessions, logins, callback>>

-----------------------------------------------------------------------------
(* Sessions.                                                               *)

\* createSession: the row names the user, whatever becomes of the user later.
CreateSession(s, e, p, f) ==
  /\ sessions[s] = Unused
  /\ sessions' = [sessions EXCEPT ![s] = Open(e, p, f)]

LoginLocal(s, e) ==
  /\ users[e].source = "local" /\ users[e].active
  /\ CreateSession(s, e, None, None)
  /\ UNCHANGED <<users, logins, callback>>

\* FindSession joins the user, so every request sees the role and the activity
\* the user has now.
Authenticate(s) == sessions[s].state = "open" /\ users[sessions[s].user].active

\* Logout deletes the row; expiry hides it from FindSession.
EndSession(s) ==
  /\ sessions[s].state = "open"
  /\ sessions' = [sessions EXCEPT ![s].state = "ended"]
  /\ UNCHANGED <<users, logins, callback>>

Logout(s) == Authenticate(s) /\ EndSession(s)
SessionExpires(s) == EndSession(s)

-----------------------------------------------------------------------------
(* The login by OIDC: oidcStart, and the calls of oidcCallback.            *)

BeginOIDC(f) ==
  /\ logins[f] = "unused"
  /\ logins' = [logins EXCEPT ![f] = "open"]
  /\ UNCHANGED <<users, sessions, callback>>

LoginFlowExpires(f) ==
  /\ logins[f] = "open"
  /\ logins' = [logins EXCEPT ![f] = "expired"]
  /\ UNCHANGED <<users, sessions, callback>>

\* Mutant: the flow is read, and deleted only by its expiry.
ConsumeOIDCReads(h, f) ==
  /\ callback[h] = NoCallback /\ logins[f] = "open"
  /\ callback' = [callback EXCEPT ![h].flow = f]
  /\ UNCHANGED <<users, sessions, logins>>

\* DELETE ... RETURNING: of two callbacks with one state, one gets the flow.
ConsumeOIDC(h, f) ==
  /\ callback[h] = NoCallback /\ logins[f] = "open"
  /\ logins' = [logins EXCEPT ![f] = "consumed"]
  /\ callback' = [callback EXCEPT ![h].flow = f]
  /\ UNCHANGED <<users, sessions>>

\* Mutant: the upsert conflicts on the address instead of on the subject.
OIDCUserByEmail(p, e) == e

\* The row that UpsertOIDCUser returns for subject p with address e: that of the
\* subject, whatever its address, a new one, or None if the address is taken.
OIDCUser(p, e) ==
  IF \E d \in Email : users[d].subject = p
  THEN CHOOSE d \in Email : users[d].subject = p
  ELSE IF Exists(e) THEN None ELSE e

\* Exchange, and the first transaction of LoginOIDC: the provider vouches for
\* subject p and address e.
UpsertOIDCUser(h, p, e) ==
  LET d == OIDCUser(p, e)
  IN /\ callback[h].flow # None /\ callback[h].user = None
     /\ d # None
     /\ users' = IF Exists(d) THEN users
                 ELSE [users EXCEPT ![d] = [role |-> "developer", source |-> "oidc",
                                            subject |-> p, active |-> TRUE]]
     /\ callback' = [callback EXCEPT ![h].user = d, ![h].subject = p]
     /\ UNCHANGED <<sessions, logins>>

\* Its second transaction: the session.  A user who is inactive, or becomes so in
\* between, gets one too, which Authenticate refuses.
LoginOIDC(h, s) ==
  /\ callback[h].user # None
  /\ CreateSession(s, callback[h].user, callback[h].subject, callback[h].flow)
  /\ callback' = [callback EXCEPT ![h] = NoCallback]
  /\ UNCHANGED <<users, logins>>

\* The exchange fails, the address is not verified or taken, the session cannot be
\* stored or the request dies; a user who was created stays.
OIDCRejected(h) ==
  /\ callback[h] # NoCallback
  /\ callback' = [callback EXCEPT ![h] = NoCallback]
  /\ UNCHANGED <<users, sessions, logins>>

-----------------------------------------------------------------------------
SessionsInit ==
  /\ users = [e \in Email |-> NoUser]
  /\ sessions = [s \in Token |-> Unused]
  /\ logins = [f \in LoginFlow |-> "unused"]
  /\ callback = [h \in Handler |-> NoCallback]

LocalStep ==
  \/ \E e \in Email : \/ Bootstrap(e)
                      \/ \E s \in Token : LoginLocal(s, e)
  \/ \E s \in Token : Logout(s) \/ SessionExpires(s)

OIDCStep ==
  \/ \E f \in LoginFlow : \/ BeginOIDC(f) \/ LoginFlowExpires(f)
                          \/ \E h \in Handler : ConsumeOIDC(h, f)
  \/ \E h \in Handler : \/ OIDCRejected(h)
                        \/ \E p \in Person, e \in Email : UpsertOIDCUser(h, p, e)
                        \/ \E s \in Token : LoginOIDC(h, s)
  \/ \E e \in Email, r \in Assignable, a \in BOOLEAN : Administer(e, r, a)

-----------------------------------------------------------------------------
(* Properties.                                                             *)

\* Every variable of users, sessions and flows keeps to its type.
SessionsTypeOK ==
  /\ users \in [Email -> User \cup {NoUser}]
  /\ sessions \in [Token -> Session \cup {Unused}]
  /\ logins \in [LoginFlow -> {"unused", "open", "consumed", "expired"}]
  /\ callback \in [Handler -> [flow : LoginFlow \cup {None}, user : Email \cup {None},
                               subject : Person \cup {None}]]

\* Nobody gets into the account of another: a session opened by OIDC belongs to
\* the user with the subject that the provider vouched for, and one opened with
\* a password to the local user.  Addresses do not identify: they may be shared
\* between the administrator and the identity provider, or change there.
SessionBelongsToLogin ==
  \A s \in Token : sessions[s] # Unused => users[sessions[s].user].subject = sessions[s].by

\* One OIDC flow opens at most one session, however often its callback is called.
OneSessionPerLogin ==
  \A r, s \in Token :
    sessions[r].flow # None /\ sessions[r].flow = sessions[s].flow => r = s

\* The server has one administrator, whoever came first, and a person of the
\* identity provider never becomes it.
OneAdministrator ==
  \A d, e \in Email :
    users[d].role = "admin" =>
      /\ users[d].source = "local" /\ users[d].subject = None
      /\ users[e].role = "admin" => d = e
=============================================================================

----------------------------- MODULE Connections -----------------------------
(***************************************************************************)
(* The connections to GitHub and GitLab and their repositories: connecting *)
(* through a one-time flow, and synchronizing (scm.Service,                *)
(* scm.PostgreSQLStore and the Repositories of the two adapters), by       *)
(* requests that Sessions authenticates; and the composition of the two    *)
(* with the rate limiter, which no request that arrives here has hit.      *)
(*                                                                         *)
(* Connecting and synchronizing read the stored credential, then call the  *)
(* provider, page by page, then store in one transaction; nothing locks    *)
(* the connection in between, nor the list at the provider.  One account   *)
(* per provider is modelled.  A credential stands for its refresh token,   *)
(* which GitLab takes once: using it issues a new one.  GitHub needs no    *)
(* stored credential.                                                      *)
(***************************************************************************)
EXTENDS Sessions, RateLimiter

CONSTANTS
  ConnectFlow, \* bound: the SCM flows that may be begun
  MaxToken,    \* bound: the refresh tokens GitLab issues
  Repository,  \* the repositories at the provider
  PageSize,    \* how many of them a page has
  Snapshot,    \* Snapshot[i]: the provider's list after the i-th change of access
  Plan         \* bound: the part of the system a behaviour is about

ASSUME ConnectionsAssumption ==
  /\ MaxToken \in Nat \ {0} /\ PageSize \in Nat \ {0}
  /\ Snapshot \in Seq(Seq(Repository)) /\ Snapshot # <<>>
  /\ Plan \subseteq {"identity", "connections", "traffic"}

VARIABLES
  flows,       \* flows[f]: the SCM flow
  connection,  \* connection[p]: the row and the enabled repositories, or NoConnection
  work,        \* work[h]: what a request in progress holds
  valid,       \* the refresh tokens that GitLab accepts
  issued,      \* how many it has issued
  access,      \* how often access to repositories has changed at the provider
  completed,   \* completed[f]: how often a callback got past the flow
  disturbed,   \* has a request of GitLab overlapped with another, or failed
  plan         \* the plan of this behaviour

gitlabVars == <<valid, issued>>
connectionVars == <<flows, connection, work, gitlabVars, access, completed, disturbed>>
accessVars == <<sessionVars, connectionVars, limiterVars, plan>>

Provider == {"github", "gitlab"}
NoToken == 0

NoFlow == [state |-> "unused", provider |-> None, user |-> None]

\* What a connection or a request has of the list says also, as history, during
\* which of its states the pages were read.
NoConnection == [credential |-> NoToken, enabled |-> {}, by |-> None, read |-> {}]
Idle == [at |-> "idle", provider |-> None, user |-> None, credential |-> NoToken,
         fresh |-> FALSE, offset |-> 0, snapshot |-> {}, read |-> {}]

Connected(p) == connection[p] # NoConnection
Busy(p) == \E h \in Handler : work[h].at # "idle" /\ work[h].provider = p

\* A request takes up work w for provider p.
TakesUp(h, w) ==
  /\ work[h] = Idle
  /\ work' = [work EXCEPT ![h] = w]
  /\ disturbed' = (disturbed \/ (w.provider = "gitlab" /\ Busy("gitlab")))

-----------------------------------------------------------------------------
(* Connecting.                                                             *)

BeginConnect(s, f, p) ==
  /\ Authenticate(s) /\ users[sessions[s].user].role = "admin"
  /\ flows[f] = NoFlow
  /\ flows' = [flows EXCEPT ![f] = [state |-> "open", provider |-> p,
                                    user |-> sessions[s].user]]
  /\ UNCHANGED <<connection, work, gitlabVars, access, completed, disturbed>>

FlowExpires(f) ==
  /\ flows[f].state = "open"
  /\ flows' = [flows EXCEPT ![f].state = "expired"]
  /\ UNCHANGED <<connection, work, gitlabVars, access, completed, disturbed>>

\* Mutant: the flow is deleted only when its connection is stored.
ConsumeFlowReads(h, f, p) ==
  /\ flows[f].state = "open" /\ flows[f].provider = p
  /\ completed' = [completed EXCEPT ![f] = @ + 1]
  /\ TakesUp(h, [Idle EXCEPT !.at = "completing", !.provider = p, !.user = flows[f].user])
  /\ UNCHANGED <<flows, connection, gitlabVars, access>>

\* CompleteConnect deletes the flow before anything else, and gives up if it was
\* for another provider.  The callback needs no session: the flow names the user.
ConsumeFlow(h, f, p) ==
  /\ flows[f].state = "open"
  /\ flows' = [flows EXCEPT ![f].state = "consumed"]
  /\ IF flows[f].provider = p
     THEN /\ completed' = [completed EXCEPT ![f] = @ + 1]
          /\ TakesUp(h, [Idle EXCEPT !.at = "completing", !.provider = p,
                                     !.user = flows[f].user])
     ELSE work[h] = Idle /\ UNCHANGED <<completed, work, disturbed>>
  /\ UNCHANGED <<connection, gitlabVars, access>>

\* GitLab issues a token, in place of token c if c is one.
Issue(c) ==
  /\ issued < MaxToken
  /\ issued' = issued + 1
  /\ valid' = (valid \ {c}) \cup {issued'}

\* Complete exchanges GitLab's code; of GitHub it checks the installation.
Complete(h) ==
  /\ work[h].at = "completing"
  /\ IF work[h].provider = "gitlab"
     THEN /\ Issue(NoToken)
          /\ work' = [work EXCEPT ![h].at = "listing", ![h].credential = issued',
                                  ![h].fresh = TRUE]
     ELSE work' = [work EXCEPT ![h].at = "listing"] /\ UNCHANGED gitlabVars
  /\ UNCHANGED <<flows, connection, access, completed, disturbed>>

-----------------------------------------------------------------------------
(* Synchronizing, and the calls that both have in common.                  *)

Sync(h, s, p) ==
  /\ Authenticate(s) /\ users[sessions[s].user].role \in {"admin", "maintainer"}
  /\ Connected(p)
  /\ TakesUp(h, [Idle EXCEPT !.at = "listing", !.provider = p, !.user = sessions[s].user,
                             !.credential = connection[p].credential])
  /\ UNCHANGED <<flows, connection, gitlabVars, access, completed>>

\* Mutant: the refreshed credential shadows the one that is returned.
RefreshShadowed(h) ==
  /\ work[h].at = "listing" /\ ~work[h].fresh /\ work[h].read = {}
  /\ work[h].credential \in valid
  /\ Issue(work[h].credential)
  /\ work' = [work EXCEPT ![h].fresh = TRUE]
  /\ UNCHANGED <<flows, connection, access, completed, disturbed>>

\* Repositories first refreshes an access token that is about to expire.  GitLab
\* refuses a refresh token it has taken before; then the request fails.
Refresh(h) ==
  /\ work[h].at = "listing" /\ ~work[h].fresh /\ work[h].read = {}
  /\ work[h].credential \in valid
  /\ Issue(work[h].credential)
  /\ work' = [work EXCEPT ![h].credential = issued', ![h].fresh = TRUE]
  /\ UNCHANGED <<flows, connection, access, completed, disturbed>>

\* The first n repositories of the list after the i-th change, and all of them.
First(i, n) == {Snapshot[i][k] : k \in 1 .. n}
Repositories(i) == First(i, Len(Snapshot[i]))

\* The page at the offset, of the list as it is now.
Page(offset) ==
  {Snapshot[access][k] : k \in {j \in DOMAIN Snapshot[access] :
                                  offset < j /\ j <= offset + PageSize}}

\* One turn of the loop of Repositories: a call for the next page, whose place in
\* the list is its number times the size of a page.  A page that is not full is
\* the last one.
List(h) ==
  LET w == work[h]
      next == w.offset + PageSize
      full == next <= Len(Snapshot[access])
  IN /\ w.at = "listing"
     /\ work' = [work EXCEPT ![h] =
                   [w EXCEPT !.at = IF full THEN "listing" ELSE "storing", !.offset = next,
                             !.snapshot = @ \cup Page(w.offset), !.read = @ \cup {access}]]
     /\ UNCHANGED <<flows, connection, gitlabVars, access, completed, disturbed>>

\* Mutant: the old repositories are not disabled first.
EnabledKeepsOld(p, snapshot) == connection[p].enabled \cup snapshot

\* What is enabled once UpsertConnection has disabled everything and enabled the
\* repositories of the snapshot.
Enabled(p, snapshot) == snapshot

\* created_by is set by the INSERT alone.
Creator(p, user) == IF Connected(p) THEN connection[p].by ELSE user

\* UpsertConnection, in one transaction.  Without a credential to seal the stored
\* one is kept.
UpsertConnection(h) ==
  LET w == work[h]
      p == w.provider
  IN /\ w.at = "storing"
     /\ connection' = [connection EXCEPT ![p] =
          [credential |-> IF w.credential # NoToken THEN w.credential ELSE @.credential,
           enabled |-> Enabled(p, w.snapshot),
           by |-> Creator(p, w.user), read |-> w.read]]
     /\ work' = [work EXCEPT ![h] = Idle]
     /\ UNCHANGED <<flows, gitlabVars, access, completed, disturbed>>

\* A call fails or the request dies; what GitLab issued to it is lost.
RequestFails(h) ==
  /\ work[h].at # "idle"
  /\ work' = [work EXCEPT ![h] = Idle]
  /\ disturbed' = (disturbed \/ work[h].provider = "gitlab")
  /\ UNCHANGED <<flows, connection, gitlabVars, access, completed>>

\* Access to repositories is granted or removed at the provider.
AccessChanges ==
  /\ access + 1 \in DOMAIN Snapshot
  /\ access' = access + 1
  /\ UNCHANGED <<flows, connection, work, gitlabVars, completed, disturbed>>

-----------------------------------------------------------------------------
AccessInit ==
  /\ SessionsInit /\ LimiterInit
  /\ flows = [f \in ConnectFlow |-> NoFlow]
  /\ connection = [p \in Provider |-> NoConnection]
  /\ work = [h \in Handler |-> Idle]
  /\ valid = {} /\ issued = 0
  /\ access = 1
  /\ completed = [f \in ConnectFlow |-> 0]
  /\ disturbed = FALSE
  /\ plan \in Plan

ConnectionStep ==
  \/ \E s \in Token, p \in Provider : \/ \E f \in ConnectFlow : BeginConnect(s, f, p)
                                      \/ \E h \in Handler : Sync(h, s, p)
  \/ \E f \in ConnectFlow : \/ FlowExpires(f)
                            \/ \E h \in Handler, p \in Provider : ConsumeFlow(h, f, p)
  \/ \E h \in Handler : \/ Complete(h) \/ Refresh(h) \/ List(h)
                        \/ UpsertConnection(h) \/ RequestFails(h)
  \/ AccessChanges

AccessNext ==
  /\ \/ /\ plan \in {"identity", "connections"} /\ LocalStep
        /\ UNCHANGED <<connectionVars, limiterVars>>
     \/ plan = "identity" /\ OIDCStep /\ UNCHANGED <<connectionVars, limiterVars>>
     \/ plan = "connections" /\ ConnectionStep /\ UNCHANGED <<sessionVars, limiterVars>>
     \/ plan = "traffic" /\ LimiterStep /\ UNCHANGED <<sessionVars, connectionVars>>
  /\ UNCHANGED plan

AccessSpec == AccessInit /\ [][AccessNext]_accessVars

-----------------------------------------------------------------------------
(* Properties.                                                             *)

\* Every variable of sessions and connections keeps to its type.
AccessTypeOK ==
  /\ SessionsTypeOK
  /\ \A f \in ConnectFlow : flows[f].state \in {"unused", "open", "consumed", "expired"}
  /\ \A p \in Provider : /\ connection[p].credential \in 0 .. MaxToken
                         /\ connection[p].by \in Email \cup {None}
  /\ \A h \in Handler : work[h].at \in {"idle", "completing", "listing", "storing"}
  /\ valid \subseteq 1 .. issued /\ issued <= MaxToken
  /\ completed \in [ConnectFlow -> Nat]
  /\ now \in Tick /\ admitted \in [Client -> Seq(Tick)]
  /\ disturbed \in BOOLEAN /\ plan \in Plan

\* The enabled repositories are what one listing found, however many requests
\* overlap or die: all of them were on the list while it was read, and if it did
\* not change in between they are that list, to the last page.
EnabledWasListed ==
  \A p \in Provider :
    Connected(p) =>
      LET c == connection[p]
      IN /\ c.read # {} /\ c.read \subseteq 1 .. access
         /\ c.enabled \subseteq UNION {Repositories(i) : i \in c.read}
         /\ \A i \in c.read : c.read = {i} => c.enabled = Repositories(i)

\* A flow gets at most one callback past it, and a callback of the wrong provider
\* spends it as well.
OneCallbackPerFlow ==
  \A f \in ConnectFlow : completed[f] <= (IF flows[f].state = "consumed" THEN 1 ELSE 0)

\* Token rotation does not lock RepoMender out: as long as requests of GitLab come
\* one at a time and end well, the stored credential is one that GitLab accepts,
\* or the request that used it up holds its successor.
CredentialStaysUsable ==
  Connected("gitlab") /\ ~disturbed =>
    \/ connection["gitlab"].credential \in valid
    \/ \E h \in Handler : work[h].provider = "gitlab" /\ work[h].credential \in valid

-----------------------------------------------------------------------------
(* What the repository says of connections and the code does not do.       *)

\* "obtain a full repository snapshot": a repository that was on the provider's
\* list all the time it was read is enabled.
ListIsFull ==
  \A p \in Provider, r \in Repository :
    LET c == connection[p]
    IN /\ Connected(p)
       /\ \A i \in 1 .. access :
            (\E j, k \in c.read : j <= i /\ i <= k) => r \in Repositories(i)
       => r \in c.enabled
=============================================================================

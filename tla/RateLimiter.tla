----------------------------- MODULE RateLimiter -----------------------------
(***************************************************************************)
(* The rate limiter in front of the API: a fixed window per client that    *)
(* opens with its first request (ratelimit.Limiter).  allow holds a mutex, *)
(* so a request is one action; time advances between requests in ticks of  *)
(* which Window make up the minute.  Middleware reads the clock before the *)
(* mutex is taken, so requests may be counted with times that are late and *)
(* out of order.                                                           *)
(***************************************************************************)
EXTENDS Naturals, Sequences, FiniteSets

CONSTANTS
  Client,   \* client addresses
  Limit,    \* requests per window
  Window,   \* ticks per window
  Skew,     \* bound: how long a request waits for the mutex with the time it read
  MaxTick   \* bound: how long the clock runs

ASSUME LimiterAssumption ==
  Limit \in Nat \ {0} /\ Window \in Nat \ {0} /\ Skew \in Nat /\ MaxTick \in Nat

VARIABLES
  now,      \* the clock
  windows,  \* windows[c]: the entry of the client's map, or NoWindow
  admitted  \* admitted[c]: the times of the requests that were let through, in order

limiterVars == <<now, windows, admitted>>

Tick == 0 .. MaxTick
NoWindow == [started |-> 0, count |-> 0]

\* Mutant: the comparison lets one more through.
FullIsBeyond(c) == windows[c].count > Limit

Full(c) == windows[c].count >= Limit

\* At time t the client has no window, or its window is over; a window that opened
\* later than t is not.
Lapsed(c, t) == windows[c] = NoWindow \/ windows[c].started + Window <= t

\* The window of c after a request with time t that is let through.
Counted(c, t) ==
  IF Lapsed(c, t) THEN [started |-> t, count |-> 1]
                  ELSE [windows[c] EXCEPT !.count = @ + 1]

\* allow, with the time t that Middleware read.  A request beyond the limit is
\* answered 429 and changes nothing; probes and scraping are exempt and never get
\* here.
Allow(c, t) ==
  /\ t <= now /\ now <= t + Skew
  /\ Lapsed(c, t) \/ ~Full(c)
  /\ windows' = [windows EXCEPT ![c] = Counted(c, t)]
  /\ admitted' = [admitted EXCEPT ![c] = Append(@, now)]
  /\ UNCHANGED now

TimePasses ==
  /\ now < MaxTick
  /\ now' = now + 1
  /\ UNCHANGED <<windows, admitted>>

LimiterInit ==
  /\ now = 0
  /\ windows = [c \in Client |-> NoWindow]
  /\ admitted = [c \in Client |-> <<>>]

LimiterStep == TimePasses \/ \E c \in Client, t \in Tick : Allow(c, t)

-----------------------------------------------------------------------------
(* Properties.                                                             *)

\* The requests of c that were let through from one time to another.
Admitted(c, from, to) == {i \in DOMAIN admitted[c] : admitted[c][i] \in from .. to}

\* What the limit is worth.  Once those who waited for the mutex with an earlier
\* time are through, an open window lets the limit through and no more; and as
\* windows follow one another at any distance, no minute whatsoever, less the time
\* that a request may wait, has more than twice the limit.
BurstIsBounded ==
  \A c \in Client :
    /\ Cardinality(Admitted(c, windows[c].started + Skew, now)) <= Limit
    /\ \A t \in Tick : Cardinality(Admitted(c, t, t + Window - Skew - 1)) <= 2 * Limit
=============================================================================

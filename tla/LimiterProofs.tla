---------------------------- MODULE LimiterProofs ----------------------------
(***************************************************************************)
(* Proof that the rate limiter bounds every burst, for every number of     *)
(* clients, every limit, every length of the window and every time that a  *)
(* request may wait for the mutex.                                         *)
(*                                                                         *)
(* The windows of a client are over when the next one opens and are not    *)
(* kept, so what they leave behind has to be said of the requests that     *)
(* were let through: of those before the current window, all but the last  *)
(* Limit are a Window older than it, up to the Skew.                       *)
(***************************************************************************)
EXTENDS RateLimiter, FiniteSetTheorems, WellFoundedInduction, TLAPS

(* The parts of the invariant speak of the times s of the requests of a    *)
(* client, whose window started at b and has counted k of them by time t.  *)

\* The requests of the current window are the last k.  They came after it started,
\* and waited at most Skew longer than it lasts; the earlier ones did not wait
\* longer than Skew after its start.
WindowIsSuffix(s, b, k, t) ==
  /\ k <= Len(s) /\ b <= t
  /\ \A i \in 1 .. Len(s) :
       /\ i + k > Len(s) => b <= s[i]
       /\ i + k <= Len(s) => s[i] < b + Skew
       /\ s[i] < b + Window + Skew
       /\ s[i] <= t

\* All but the last Limit requests before the window are a Window older than it,
\* up to the Skew.
EarlierWindowIsOver(s, b, k) ==
  \A i \in 1 .. Len(s) : i + k + Limit <= Len(s) => s[i] + Window <= b + Skew

\* Of 2 * Limit + 1 requests in a row the last comes a Window after the first,
\* up to the Skew.
RequestsSpaced(s) ==
  \A i, j \in 1 .. Len(s) : i + 2 * Limit <= j => s[i] + Window <= s[j] + Skew

Windowed(s, b, k, t) ==
  WindowIsSuffix(s, b, k, t) /\ EarlierWindowIsOver(s, b, k) /\ RequestsSpaced(s)

LimiterTypes ==
  /\ now \in Tick
  /\ windows \in [Client -> [started : Tick, count : 0 .. Limit]]
  /\ admitted \in [Client -> Seq(Tick)]

\* The inductive invariant of the limiter; a client without a window has sent nothing.
LimiterInv ==
  /\ LimiterTypes
  /\ \A c \in Client :
       /\ windows[c].count = 0 => windows[c] = NoWindow /\ admitted[c] = <<>>
       /\ Windowed(admitted[c], windows[c].started, windows[c].count, now)

-----------------------------------------------------------------------------
(* The invariant is inductive.                                             *)

\* Before the first request nothing has been counted.
LEMMA LimiterStarts ==
  ASSUME LimiterInit
  PROVE  LimiterInv
  <1> USE LimiterAssumption DEF LimiterInit, Tick, NoWindow
  <1>1. LimiterTypes
    BY DEF LimiterTypes
  <1>2. Windowed(<<>>, 0, 0, 0)
    BY DEF Windowed, WindowIsSuffix, EarlierWindowIsOver, RequestsSpaced
  <1> QED
    BY <1>1, <1>2 DEF LimiterInv

\* The next request, which read time u and is counted at time t, opens a window or
\* is counted in the one that is open.
LEMMA OneMoreRequest ==
  ASSUME NEW s \in Seq(Nat), NEW t \in Nat, NEW u \in Nat, u <= t, t <= u + Skew,
         NEW b \in Nat, NEW k \in 0 .. Limit,
         NEW nb \in Nat, NEW nk \in 1 .. Limit, Windowed(s, b, k, t),
         \/ nb = u /\ nk = 1 /\ (s = <<>> \/ b + Window <= u)
         \/ nb = b /\ nk = k + 1 /\ u < b + Window
  PROVE  Windowed(Append(s, t), nb, nk, t)
  <1> DEFINE n == Len(s)
             z == Append(s, t)
  <1>1. /\ Len(z) = n + 1 /\ z[n + 1] = t /\ n \in Nat
        /\ \A i \in 1 .. n : z[i] = s[i] /\ s[i] \in Nat
        /\ s = <<>> => n = 0
    OBVIOUS
  <1>2. Limit \in Nat /\ Limit > 0 /\ Window \in Nat /\ Window > 0 /\ Skew \in Nat
    BY LimiterAssumption
  <1>3. /\ k <= n /\ b <= t
        /\ \A i \in 1 .. n :
             /\ i + k > n => b <= s[i]
             /\ i + k <= n => s[i] < b + Skew
             /\ s[i] < b + Window + Skew
             /\ s[i] <= t
             /\ i + k + Limit <= n => s[i] + Window <= b + Skew
        /\ \A i, j \in 1 .. n : i + 2 * Limit <= j => s[i] + Window <= s[j] + Skew
    BY DEF Windowed, WindowIsSuffix, EarlierWindowIsOver, RequestsSpaced
  <1>4. \/ nb = u /\ nk = 1 /\ (n = 0 \/ b + Window <= u)
        \/ nb = b /\ nk = k + 1 /\ u < b + Window
    BY <1>1
  <1> HIDE DEF n, z
  <1>5. nb <= t /\ nk <= n + 1 /\ t < nb + Window + Skew
    BY <1>1, <1>2, <1>3, <1>4
  <1>6. ASSUME NEW i \in 1 .. n + 1
        PROVE  /\ i + nk > n + 1 => nb <= z[i]
               /\ i + nk <= n + 1 => z[i] < nb + Skew
               /\ z[i] < nb + Window + Skew
               /\ z[i] <= t
               /\ i + nk + Limit <= n + 1 => z[i] + Window <= nb + Skew
    <2>1. CASE i = n + 1
      BY <2>1, <1>1, <1>2, <1>5
    <2>2. CASE i \in 1 .. n
      <3>1. /\ z[i] = s[i] /\ s[i] \in Nat
            /\ i + k > n => b <= s[i]
            /\ i + k <= n => s[i] < b + Skew
            /\ s[i] < b + Window + Skew
            /\ s[i] <= t
            /\ i + k + Limit <= n => s[i] + Window <= b + Skew
        BY <2>2, <1>1, <1>3
      <3>2. n \in Nat
        BY <1>1
      <3>3. CASE nb = u /\ nk = 1 /\ b + Window <= u
        <4>1. i + nk + Limit <= n + 1 => i + k <= n
          BY <2>2, <3>2, <3>3, <1>2
        <4> QED
          BY <2>2, <3>1, <3>2, <3>3, <4>1, <1>2
      <3>4. CASE nb = b /\ nk = k + 1
        BY <2>2, <3>1, <3>2, <3>4, <1>2
      <3> QED
        BY <2>2, <3>2, <3>3, <3>4, <1>4
    <2> QED
      BY <2>1, <2>2, <1>1
  <1>7. ASSUME NEW i \in 1 .. n + 1, NEW j \in 1 .. n + 1, i + 2 * Limit <= j
        PROVE  z[i] + Window <= z[j] + Skew
    <2>1. i \in 1 .. n /\ z[i] = s[i] /\ s[i] \in Nat
      BY <1>1, <1>2, <1>7
    <2>2. CASE j \in 1 .. n
      BY <2>1, <2>2, <1>1, <1>3, <1>7
    <2>3. CASE j = n + 1
      <3>1. i + nk + Limit <= n + 1
        BY <2>1, <2>3, <1>1, <1>2, <1>7
      <3>2. z[i] + Window <= nb + Skew
        BY <2>1, <3>1, <1>1, <1>6
      <3> QED
        BY <2>1, <2>3, <3>2, <1>1, <1>2, <1>5
    <2> QED
      BY <2>2, <2>3, <1>1
  <1>8. WindowIsSuffix(z, nb, nk, t) /\ EarlierWindowIsOver(z, nb, nk) /\ RequestsSpaced(z)
    BY <1>1, <1>5, <1>6, <1>7 DEF WindowIsSuffix, EarlierWindowIsOver, RequestsSpaced
  <1> QED
    BY <1>8 DEF Windowed, z

\* A request is counted within the limit, in the window of its client or a new one.
LEMMA CountedFacts ==
  ASSUME LimiterInv, NEW c \in Client, NEW t \in Tick, Lapsed(c, t) \/ ~Full(c)
  PROVE  /\ Counted(c, t) \in [started : Tick, count : 0 .. Limit]
         /\ Counted(c, t).count \in 1 .. Limit
         /\ \/ /\ Counted(c, t).started = t /\ Counted(c, t).count = 1
               /\ admitted[c] = <<>> \/ windows[c].started + Window <= t
            \/ /\ Counted(c, t).started = windows[c].started
               /\ Counted(c, t).count = windows[c].count + 1
               /\ t < windows[c].started + Window
  <1>1. /\ windows[c] \in [started : Tick, count : 0 .. Limit] /\ t \in Tick
        /\ windows[c].started \in Nat /\ windows[c].count \in Nat /\ t \in Nat
        /\ windows[c].count = 0 => windows[c] = NoWindow /\ admitted[c] = <<>>
        /\ windows[c] = NoWindow => windows[c].count = 0
        /\ Limit \in Nat \ {0} /\ Window \in Nat
    BY LimiterAssumption DEF LimiterInv, LimiterTypes, Tick, NoWindow
  <1>2. CASE Lapsed(c, t)
    <2>1. Counted(c, t) = [started |-> t, count |-> 1]
      BY <1>2 DEF Counted
    <2>2. admitted[c] = <<>> \/ windows[c].started + Window <= t
      BY <1>1, <1>2 DEF Lapsed
    <2> QED
      BY <1>1, <2>1, <2>2
  <1>3. CASE ~Lapsed(c, t)
    <2>1. Counted(c, t) = [windows[c] EXCEPT !.count = @ + 1]
      BY <1>3 DEF Counted
    <2>2. windows[c].count < Limit /\ t < windows[c].started + Window
      BY <1>1, <1>3 DEF Lapsed, Full
    <2>3. /\ Counted(c, t) = [started |-> windows[c].started, count |-> windows[c].count + 1]
          /\ windows[c].started \in Tick /\ windows[c].count + 1 \in 1 .. Limit
      BY <1>1, <2>1, <2>2
    <2> QED
      BY <2>2, <2>3
  <1> QED
    BY <1>2, <1>3

\* A request that is let through keeps the invariant of its client, and of the others.
LEMMA AllowInv ==
  ASSUME LimiterInv, NEW c \in Client, NEW t \in Tick, Allow(c, t)
  PROVE  LimiterInv'
  <1> DEFINE w == windows[c]
             v == Counted(c, t)
             s == admitted[c]
  <1>1. /\ windows' = [windows EXCEPT ![c] = v]
        /\ admitted' = [admitted EXCEPT ![c] = Append(s, now)]
        /\ now' = now /\ (Lapsed(c, t) \/ ~Full(c))
        /\ t <= now /\ now <= t + Skew
    BY DEF Allow
  <1>2. /\ now \in Tick /\ now \in Nat /\ t \in Nat /\ w.started \in Nat /\ w.count \in 0 .. Limit
        /\ s \in Seq(Tick) /\ s \in Seq(Nat)
    BY LimiterAssumption DEF LimiterInv, LimiterTypes, Tick
  <1>3. /\ v \in [started : Tick, count : 0 .. Limit] /\ v.count \in 1 .. Limit
        /\ \/ v.started = t /\ v.count = 1 /\ (s = <<>> \/ w.started + Window <= t)
           \/ v.started = w.started /\ v.count = w.count + 1 /\ t < w.started + Window
    BY <1>1, CountedFacts
  <1>4. v.started \in Nat
    BY <1>3, LimiterAssumption DEF Tick
  <1>5. Windowed(s, w.started, w.count, now)
    BY DEF LimiterInv
  <1>6. Windowed(Append(s, now), v.started, v.count, now)
    <2> HIDE DEF w, v, s
    <2> QED
      BY <1>1, <1>2, <1>3, <1>4, <1>5, OneMoreRequest
  <1>7. /\ windows'[c] = v /\ admitted'[c] = Append(s, now)
        /\ \A d \in Client \ {c} : windows'[d] = windows[d] /\ admitted'[d] = admitted[d]
    BY <1>1 DEF LimiterInv, LimiterTypes
  <1>8. LimiterTypes'
    <2>1. Append(s, now) \in Seq(Tick)
      BY <1>2
    <2> HIDE DEF v, s
    <2> QED
      BY <1>1, <1>2, <1>3, <2>1 DEF LimiterInv, LimiterTypes
  <1>9. ASSUME NEW d \in Client
        PROVE  /\ windows'[d].count = 0 => windows'[d] = NoWindow /\ admitted'[d] = <<>>
               /\ Windowed(admitted'[d], windows'[d].started, windows'[d].count, now')
    <2>1. CASE d = c
      <3>1. v.count # 0
        BY <1>3
      <3> HIDE DEF v, s
      <3> QED
        BY <2>1, <3>1, <1>1, <1>6, <1>7
    <2>2. CASE d # c
      BY <2>2, <1>1, <1>7 DEF LimiterInv
    <2> QED
      BY <2>1, <2>2
  <1> QED
    BY <1>8, <1>9 DEF LimiterInv, Windowed, WindowIsSuffix, EarlierWindowIsOver, RequestsSpaced

\* Every step of the limiter keeps the invariant; the clock only makes windows older.
LEMMA LimiterStepInv ==
  ASSUME LimiterInv, LimiterStep \/ UNCHANGED limiterVars
  PROVE  LimiterInv'
  <1> USE DEF LimiterInv
  <1>1. CASE TimePasses
    <2>1. /\ now \in Nat /\ now' = now + 1 /\ now' \in Tick
          /\ windows' = windows /\ admitted' = admitted
      BY <1>1, LimiterAssumption DEF TimePasses, Tick, LimiterTypes
    <2>2. LimiterTypes'
      BY <2>1 DEF LimiterTypes
    <2>3. ASSUME NEW c \in Client
          PROVE  Windowed(admitted[c], windows[c].started, windows[c].count, now + 1)
      <3>1. /\ windows[c].started \in Nat
            /\ \A i \in 1 .. Len(admitted[c]) : admitted[c][i] \in Nat
        BY LimiterAssumption DEF LimiterTypes, Tick
      <3> QED
        BY <2>1, <3>1 DEF Windowed, WindowIsSuffix
    <2> QED
      BY <2>1, <2>2, <2>3 DEF Windowed, WindowIsSuffix, EarlierWindowIsOver, RequestsSpaced
  <1>2. CASE \E c \in Client, t \in Tick : Allow(c, t)
    BY <1>2, AllowInv
  <1>3. CASE UNCHANGED limiterVars
    BY <1>3 DEF limiterVars, LimiterTypes, Windowed, WindowIsSuffix, EarlierWindowIsOver, RequestsSpaced
  <1> QED
    BY <1>1, <1>2, <1>3 DEF LimiterStep

-----------------------------------------------------------------------------
(* What the invariant says of a burst.                                     *)

\* A set of naturals has a least member.
LEMMA LeastMember ==
  ASSUME NEW S, S \subseteq Nat, S # {}
  PROVE  \E x \in S : \A y \in S : x <= y
  <1> DEFINE R == OpToRel(<, Nat)
  <1>1. IsWellFoundedOn(R, Nat)
    BY NatLessThanWellFounded
  <1>2. \A x, y \in Nat : y < x => <<y, x>> \in R
    BY DEF OpToRel
  <1> HIDE DEF R
  <1>3. PICK x \in S : \A y \in S : <<y, x>> \notin R
    BY <1>1, WFMin
  <1>4. x \in Nat /\ \A y \in S : y \in Nat /\ ~(y < x)
    BY <1>2, <1>3
  <1> QED
    BY <1>3, <1>4

\* A set of naturals in which no two are k or more apart has at most k members.
LEMMA CloseTogether ==
  ASSUME NEW S, S \subseteq Nat, NEW k \in Nat, \A x, y \in S : y < x + k
  PROVE  Cardinality(S) <= k
  <1>1. CASE S = {}
    BY <1>1, FS_EmptySet
  <1>2. CASE S # {}
    <2>1. PICK m \in S : \A y \in S : m <= y
      BY <1>2, LeastMember
    <2>2. m \in Nat /\ S \subseteq m .. m + k - 1
      BY <2>1
    <2>3. IsFiniteSet(m .. m + k - 1) /\ Cardinality(m .. m + k - 1) <= k
      BY <2>2, FS_Interval
    <2>4. Cardinality(S) <= Cardinality(m .. m + k - 1) /\ IsFiniteSet(S)
      BY <2>2, <2>3, FS_Subset
    <2>5. Cardinality(S) \in Nat /\ Cardinality(m .. m + k - 1) \in Nat
      BY <2>3, <2>4, FS_CardinalityType
    <2> QED
      BY <2>3, <2>4, <2>5
  <1> QED
    BY <1>1, <1>2

\* No burst exceeds the limit once the requests from before a window are through,
\* nor twice the limit within any interval of a window's length less the Skew.
LEMMA BurstFollows ==
  ASSUME LimiterInv
  PROVE  BurstIsBounded
  <1> SUFFICES ASSUME NEW c \in Client
               PROVE  /\ Cardinality(Admitted(c, windows[c].started + Skew, now)) <= Limit
                      /\ \A t \in Tick :
                           Cardinality(Admitted(c, t, t + Window - Skew - 1)) <= 2 * Limit
    BY DEF BurstIsBounded
  <1> DEFINE s == admitted[c]
             n == Len(s)
  <1>1. /\ DOMAIN s = 1 .. n /\ n \in Nat /\ \A i \in 1 .. n : s[i] \in Nat
        /\ windows[c].started \in Nat /\ windows[c].count \in 0 .. Limit
        /\ Limit \in Nat \ {0} /\ Window \in Nat \ {0} /\ Skew \in Nat /\ now \in Nat
    BY LimiterAssumption DEF LimiterInv, LimiterTypes, Tick
  <1>2. \A i \in 1 .. n : i + windows[c].count <= n => s[i] < windows[c].started + Skew
    BY DEF LimiterInv, Windowed, WindowIsSuffix
  <1>3. \A i, j \in 1 .. n : i + 2 * Limit <= j => s[i] + Window <= s[j] + Skew
    BY DEF LimiterInv, Windowed, RequestsSpaced
  <1>4. \A a, b : Admitted(c, a, b) = {i \in 1 .. n : s[i] \in a .. b}
    BY <1>1 DEF Admitted
  <1> HIDE DEF s, n
  <1>5. Cardinality(Admitted(c, windows[c].started + Skew, now)) <= Limit
    <2> DEFINE S == Admitted(c, windows[c].started + Skew, now)
    <2>1. S \subseteq Nat /\ \A i \in S : i \in 1 .. n /\ s[i] >= windows[c].started + Skew
      BY <1>1, <1>4
    <2> HIDE DEF S
    <2>2. ASSUME NEW i \in S
          PROVE  i + windows[c].count > n /\ i <= n /\ i \in Nat
      <3>1. i \in 1 .. n /\ s[i] \in Nat /\ ~(s[i] < windows[c].started + Skew)
        BY <2>1, <1>1
      <3> QED
        BY <3>1, <1>1, <1>2
    <2>3. \A i, j \in S : j < i + Limit
      BY <2>2, <1>1
    <2>4. Cardinality(S) <= Limit
      BY <2>1, <2>3, <1>1, CloseTogether
    <2> QED
      BY <2>4 DEF S
  <1>6. ASSUME NEW t \in Tick
        PROVE  Cardinality(Admitted(c, t, t + Window - Skew - 1)) <= 2 * Limit
    <2> DEFINE S == Admitted(c, t, t + Window - Skew - 1)
    <2>1. t \in Nat /\ 2 * Limit \in Nat
      BY <1>1, LimiterAssumption DEF Tick
    <2>2. S \subseteq Nat /\ \A i \in S : i \in 1 .. n /\ t <= s[i] /\ s[i] + Skew < t + Window
      BY <1>1, <1>4, <2>1
    <2> HIDE DEF S
    <2>3. ASSUME NEW i \in S, NEW j \in S
          PROVE  j < i + 2 * Limit
      <3>1. /\ i \in 1 .. n /\ j \in 1 .. n /\ s[i] \in Nat /\ s[j] \in Nat
            /\ t <= s[i] /\ s[j] + Skew < t + Window
        BY <2>2, <1>1
      <3>2. ~(s[i] + Window <= s[j] + Skew)
        BY <3>1, <2>1, <1>1
      <3> QED
        BY <3>1, <3>2, <1>1, <1>3
    <2>4. Cardinality(S) <= 2 * Limit
      BY <2>1, <2>2, <2>3, CloseTogether
    <2> QED
      BY <2>4 DEF S
  <1> QED
    BY <1>5, <1>6
=============================================================================

--------------------------- MODULE AuthPamProofs ---------------------------
(***************************************************************************)
(* Proofs about AuthPam, for every number of attempts, every period, every *)
(* lockout at least as long, and every sequence of requests: what the ring *)
(* of auth_track_attempt measures, and what the lockout bounds.            *)
(*                                                                         *)
(* RingIsWindow is about one window.  A second later that window is        *)
(* another one, so the invariant says it of all windows that end now       *)
(* (Window).  GuessBound rests on it through LockoutOK.                    *)
(***************************************************************************)
EXTENDS AuthPam, FiniteRecursion

-----------------------------------------------------------------------------
(* Sums over the seconds of the clock.  *)

\* There are finitely many seconds.
LEMMA TimesFinite == IsFiniteSet(Times)
  BY AuthPamAssumption, FS_Interval DEF Times, Start

\* What Total adds up.
LEMMA TotalRecursion ==
    ASSUME NEW tally \in [Times -> Nat]
    PROVE  \E g \in [SUBSET Times -> Nat] : SumsUp(g, Times, tally) /\ Total(tally) = g[Times]
  <1>1. PICK g : SumsUp(g, Times, tally) /\ SumFunctionOnSet(tally, Times) = g[Times]
    BY TimesFinite, SumRecursion
  <1> QED
    BY <1>1 DEF SumsUp, Total

\* No attempts add up to none.
LEMMA TotalOfNone == Total([t \in Times |-> 0]) = 0
  <1> DEFINE none == [t \in Times |-> 0]
  <1>1. none \in [Times -> Nat]
    OBVIOUS
  <1>2. \A t \in Times : none[t] = 0
    OBVIOUS
  <1> HIDE DEF none
  <1>3. PICK g \in [SUBSET Times -> Nat] : SumsUp(g, Times, none) /\ Total(none) = g[Times]
    BY <1>1, TotalRecursion
  <1> DEFINE T == {s \in SUBSET Times : g[s] = 0}
  <1>4. {} \in T
    BY <1>3, SumStep
  <1>5. ASSUME NEW s \in SUBSET Times, s # {}, \A x \in s : s \ {x} \in T
        PROVE  s \in T
    <2>1. g[s] = none[Pick(s)] + g[s \ {Pick(s)}] /\ Pick(s) \in Times
      BY <1>3, <1>5, SumStep
    <2>2. g[s \ {Pick(s)}] = 0
      BY <1>3, <1>5, SumStep
    <2> QED
      BY <1>2, <2>1, <2>2
  <1> HIDE DEF T
  <1>6. SUBSET Times \subseteq T
    BY <1>4, <1>5, TimesFinite, SubsetInduction
  <1>7. Total(none) = 0
    BY <1>3, <1>6 DEF T
  <1> QED
    BY <1>7 DEF none

\* Fewer attempts in every second are fewer attempts.
LEMMA TotalMonotone ==
    ASSUME NEW a \in [Times -> Nat], NEW b \in [Times -> Nat], \A t \in Times : a[t] <= b[t]
    PROVE  Total(a) \in Nat /\ Total(b) \in Nat /\ Total(a) <= Total(b)
  <1>1. PICK g \in [SUBSET Times -> Nat] : SumsUp(g, Times, a) /\ Total(a) = g[Times]
    BY TotalRecursion
  <1>2. PICK h \in [SUBSET Times -> Nat] : SumsUp(h, Times, b) /\ Total(b) = h[Times]
    BY TotalRecursion
  <1> DEFINE T == {s \in SUBSET Times : g[s] <= h[s]}
  <1>3. {} \in T
    <2>1. g[{}] = 0 /\ h[{}] = 0
      BY <1>1, <1>2, SumStep
    <2> QED
      BY <2>1
  <1>4. ASSUME NEW s \in SUBSET Times, s # {}, \A x \in s : s \ {x} \in T
        PROVE  s \in T
    <2>1. Pick(s) \in s /\ Pick(s) \in Times /\ s \ {Pick(s)} \in T
      BY <1>1, <1>4, SumStep
    <2>2. /\ g[s] = a[Pick(s)] + g[s \ {Pick(s)}]
          /\ h[s] = b[Pick(s)] + h[s \ {Pick(s)}]
      BY <1>1, <1>2, <1>4, SumStep
    <2>3. /\ a[Pick(s)] \in Nat /\ b[Pick(s)] \in Nat /\ a[Pick(s)] <= b[Pick(s)]
          /\ g[s \ {Pick(s)}] \in Nat /\ h[s \ {Pick(s)}] \in Nat
          /\ g[s \ {Pick(s)}] <= h[s \ {Pick(s)}]
      BY <2>1
    <2> QED
      BY <2>2, <2>3
  <1> HIDE DEF T
  <1>5. SUBSET Times \subseteq T
    BY <1>3, <1>4, TimesFinite, SubsetInduction
  <1> QED
    BY <1>1, <1>2, <1>5 DEF T

\* One attempt more in one second is one attempt more.
LEMMA TotalCounted ==
    ASSUME NEW a \in [Times -> Nat], NEW n \in Times
    PROVE  Total([a EXCEPT ![n] = @ + 1]) = Total(a) + 1
  <1> DEFINE b == [a EXCEPT ![n] = @ + 1]
  <1>1. b \in [Times -> Nat] /\ \A t \in Times : b[t] = a[t] + (IF t = n THEN 1 ELSE 0)
    OBVIOUS
  <1> HIDE DEF b
  <1>2. PICK g \in [SUBSET Times -> Nat] : SumsUp(g, Times, a) /\ Total(a) = g[Times]
    BY TotalRecursion
  <1>3. PICK h \in [SUBSET Times -> Nat] : SumsUp(h, Times, b) /\ Total(b) = h[Times]
    BY <1>1, TotalRecursion
  <1> DEFINE T == {s \in SUBSET Times : h[s] = g[s] + (IF n \in s THEN 1 ELSE 0)}
  <1>4. {} \in T
    <2>1. g[{}] = 0 /\ h[{}] = 0
      BY <1>2, <1>3, SumStep
    <2> QED
      BY <2>1
  <1>5. ASSUME NEW s \in SUBSET Times, s # {}, \A x \in s : s \ {x} \in T
        PROVE  s \in T
    <2> DEFINE x == Pick(s)
               r == s \ {x}
    <2>1. x \in s /\ x \in Times /\ r \in T
      BY <1>2, <1>5, SumStep
    <2>2. g[s] = a[x] + g[r] /\ h[s] = b[x] + h[r]
      BY <1>2, <1>3, <1>5, SumStep
    <2>3. h[r] = g[r] + (IF n \in s /\ n # x THEN 1 ELSE 0)
      BY <2>1
    <2>4. a[x] \in Nat /\ b[x] = a[x] + (IF x = n THEN 1 ELSE 0) /\ g[r] \in Nat
      BY <1>1, <2>1
    <2> HIDE DEF x, r
    <2>5. h[s] = g[s] + (IF n \in s THEN 1 ELSE 0)
      BY <2>1, <2>2, <2>3, <2>4
    <2> QED
      BY <2>5
  <1> HIDE DEF T
  <1>6. SUBSET Times \subseteq T
    BY <1>4, <1>5, TimesFinite, SubsetInduction
  <1>7. Total(b) = Total(a) + 1
    BY <1>2, <1>3, <1>6 DEF T
  <1> QED
    BY <1>7 DEF b

-----------------------------------------------------------------------------
(* The ring of auth_track_attempt. *)

\* The entries of a ring that are later than x.
Later(ring, x) == {i \in Ring : ring[i] > x}

\* The ring has finitely many entries, and as many as MaxAttempts.
LEMMA RingSize == IsFiniteSet(Ring) /\ Cardinality(Ring) = MaxAttempts
  <1>1. MaxAttempts - 1 \in Int /\ 0 \in Int /\ ~(0 > MaxAttempts - 1)
    BY AuthPamAssumption
  <1>2. IsFiniteSet(Ring) /\ Cardinality(Ring) = MaxAttempts - 1 - 0 + 1
    BY <1>1, FS_Interval DEF Ring
  <1> QED
    BY <1>2, AuthPamAssumption

\* The loop of auth_track_attempt finds an entry that none is older than.
LEMMA OldestIsOldest ==
    ASSUME NEW ring \in [Ring -> Nat]
    PROVE  Oldest(ring) \in Ring /\ \A j \in Ring : ring[Oldest(ring)] <= ring[j]
  <1> DEFINE Values == {ring[i] : i \in Ring}
  <1>1. 0 \in Ring /\ Ring \subseteq Nat
    BY AuthPamAssumption DEF Ring
  <1>2. Values \subseteq Nat /\ Values # {}
    BY <1>1
  <1>3. PICK v \in Values : \A w \in Values : v <= w
    <2> HIDE DEF Values
    <2> QED
      BY <1>2, LeastNumber
  <1> DEFINE First == {i \in Ring : ring[i] = v}
  <1>4. First \subseteq Nat /\ First # {}
    BY <1>1, <1>3
  <1>5. PICK i \in First : \A j \in First : i <= j
    <2> HIDE DEF First
    <2> QED
      BY <1>4, LeastNumber
  <1>6. ASSUME NEW j \in Ring
        PROVE  ring[i] <= ring[j] /\ (j < i => ring[i] < ring[j])
    <2>1. ring[i] = v /\ ring[j] \in Nat /\ v \in Nat /\ v <= ring[j]
      BY <1>2, <1>3, <1>5
    <2>2. j < i => ring[j] # v
      BY <1>1, <1>5, <1>6
    <2> QED
      BY <2>1, <2>2
  <1>7. \E k \in Ring : \A j \in Ring : ring[k] <= ring[j] /\ (j < k => ring[k] < ring[j])
    BY <1>5, <1>6
  <1> QED
    BY <1>7 DEF Oldest

\* An attempt later than x that replaces the oldest entry makes one entry more
\* later than x, until all of them are.
LEMMA ReplacingOldest ==
    ASSUME NEW ring \in [Ring -> Nat], NEW x \in Int, NEW t \in Nat, t > x
    PROVE  LET n == Cardinality(Later(ring, x))
           IN  /\ n \in 0..MaxAttempts
               /\ Cardinality(Later([ring EXCEPT ![Oldest(ring)] = t], x))
                    = IF n < MaxAttempts THEN n + 1 ELSE MaxAttempts
  <1> DEFINE o == Oldest(ring)
             new == [ring EXCEPT ![o] = t]
  <1>1. o \in Ring /\ \A j \in Ring : ring[o] <= ring[j]
    BY OldestIsOldest
  <1>2. Later(ring, x) \in SUBSET Ring
    BY DEF Later
  <1>3. /\ IsFiniteSet(Later(ring, x))
        /\ Cardinality(Later(ring, x)) \in Nat
        /\ Cardinality(Later(ring, x)) <= MaxAttempts
        /\ Cardinality(Later(ring, x)) = MaxAttempts => Later(ring, x) = Ring
    BY <1>2, RingSize, FS_Subset, FS_CardinalityType
  <1> HIDE DEF o
  <1>4. Later(new, x) = Later(ring, x) \cup {o}
    BY <1>1 DEF Later
  <1>5. CASE ring[o] > x
    <2>1. \A j \in Ring : ring[j] \in Nat /\ ring[o] \in Nat
      BY <1>1
    <2>2. Later(ring, x) = Ring
      BY <1>1, <1>5, <2>1 DEF Later
    <2>3. Later(new, x) = Ring
      BY <1>1, <1>4, <2>2
    <2> QED
      BY <2>2, <2>3, RingSize, AuthPamAssumption DEF o
  <1>6. CASE ~(ring[o] > x)
    <2>1. o \notin Later(ring, x)
      BY <1>6 DEF Later
    <2>2. Cardinality(Later(ring, x)) # MaxAttempts
      BY <1>1, <1>3, <2>1
    <2>3. Cardinality(Later(ring, x) \cup {o}) = Cardinality(Later(ring, x)) + 1
      <3> HIDE DEF new
      <3> QED
        BY <1>3, <2>1, FS_AddElement
    <2>4. Cardinality(Later(new, x)) = Cardinality(Later(ring, x)) + 1
      BY <1>4, <2>3
    <2> QED
      BY <1>3, <2>2, <2>4, AuthPamAssumption DEF o
  <1> QED
    BY <1>5, <1>6

\* A ring without a stamp later than x counts none.
LEMMA NoneLater ==
    ASSUME NEW ring, NEW x, \A i \in Ring : ~(ring[i] > x)
    PROVE  Cardinality(Later(ring, x)) = 0
  <1>1. Later(ring, x) = {}
    BY DEF Later
  <1> QED
    BY <1>1, FS_EmptySet

-----------------------------------------------------------------------------
(* The invariant. *)

\* The attempts of a tally that were made after x.
After(tally, x) == [t \in Times |-> IF t > x THEN tally[t] ELSE 0]

Capped(n) == IF n < MaxAttempts THEN n ELSE MaxAttempts

\* No stamp of the ring is in the future.
Stamped == \A i \in Ring : ats_attempts[i] <= now

\* The history covers the last Period seconds; a wrong password that was
\* compared is an invalid attempt.
HistoryOK ==
    /\ recent \in [Times -> Nat]
    /\ guesses \in [Times -> Nat]
    /\ \A t \in Times : guesses[t] <= recent[t]
    /\ \A t \in Times : recent[t] # 0 => now - Period < t /\ t <= now

\* RingIsWindow, for every shorter window too: those are what is left of this
\* one when time goes on.
Window ==
    \A x \in (now - Period)..now :
        Cardinality(Later(ats_attempts, x)) = Capped(Total(After(recent, x)))

\* Outside a lockout there are not too many recent attempts; in one all of
\* them were made by the time it was started last.
LockoutOK ==
    /\ now >= t_lockout => Total(recent) <= MaxAttempts
    /\ now < t_lockout => \A t \in Times : recent[t] # 0 => t <= t_lockout - Lockout

IInv == TypeOK /\ Stamped /\ HistoryOK /\ Window /\ LockoutOK /\ GuessBound

\* The recent attempts are those after the beginning of the period.
LEMMA AllAreRecent ==
    ASSUME TypeOK, HistoryOK
    PROVE  After(recent, now - Period) = recent
  <1>1. \A t \in Times : ~(t > now - Period) => recent[t] = 0
    BY AuthPamAssumption DEF HistoryOK, TypeOK, Times, Start
  <1> QED
    BY <1>1 DEF After, HistoryOK

\* Window says of the whole period what RingIsWindow says.
LEMMA WindowImpliesRing ==
    ASSUME TypeOK, HistoryOK, Window
    PROVE  Cardinality(Later(ats_attempts, now - Period)) = Capped(Total(recent))
  <1>1. now - Period \in (now - Period)..now
    BY AuthPamAssumption DEF TypeOK, Times, Start
  <1> QED
    BY <1>1, AllAreRecent DEF Window

\* A tally restricted to a part of the period is a tally.
LEMMA AfterType ==
    ASSUME NEW tally \in [Times -> Nat], NEW x
    PROVE  After(tally, x) \in [Times -> Nat]
  BY DEF After

\* An invalid attempt that is tracked and counted: the ring and the history
\* stay in step.
LEMMA CountedKeepsWindow ==
    ASSUME TypeOK, Stamped, HistoryOK, Window, now' = now,
           ats_attempts' = [ats_attempts EXCEPT ![Oldest(ats_attempts)] = now],
           recent' = Counted(recent)
    PROVE  /\ ats_attempts' \in [Ring -> 0..MaxTime]
           /\ recent' \in [Times -> Nat]
           /\ \A t \in Times : recent'[t] = recent[t] + (IF t = now THEN 1 ELSE 0)
           /\ Total(recent) \in Nat
           /\ Total(recent') = Total(recent) + 1
           /\ Stamped' /\ Window'
  <1>1. /\ now \in Times /\ now \in Nat /\ now \in 0..MaxTime
        /\ ats_attempts \in [Ring -> Nat] /\ ats_attempts \in [Ring -> 0..MaxTime]
        /\ recent \in [Times -> Nat]
        /\ Times \subseteq Nat
    BY AuthPamAssumption DEF TypeOK, HistoryOK, Times, Start
  <1>2. Oldest(ats_attempts) \in Ring
    BY <1>1, OldestIsOldest
  <1>3. ats_attempts' \in [Ring -> 0..MaxTime] /\ Stamped'
    BY <1>1, <1>2 DEF Stamped
  <1>4. /\ recent' = [recent EXCEPT ![now] = @ + 1]
        /\ recent' \in [Times -> Nat]
        /\ \A t \in Times : recent'[t] = recent[t] + (IF t = now THEN 1 ELSE 0)
    BY <1>1 DEF Counted
  <1>5. Total(recent) \in Nat /\ Total(recent') = Total(recent) + 1
    <2>1. \A t \in Times : recent[t] <= recent[t]
      BY <1>1
    <2> QED
      BY <1>1, <1>4, <2>1, TotalMonotone, TotalCounted
  <1>6. ASSUME NEW x \in (now - Period)..now
        PROVE  Cardinality(Later(ats_attempts', x)) = Capped(Total(After(recent', x)))
    <2>0. x \in Int /\ x <= now
      BY <1>1, AuthPamAssumption
    <2>1. CASE x = now
      <3>1. \A j \in Ring : ~(ats_attempts'[j] > x)
        BY <1>1, <1>3, <2>1 DEF Stamped
      <3>2. After(recent', x) = [t \in Times |-> 0]
        <4>1. \A t \in Times : t > now => recent'[t] = 0
          BY <1>1, <1>4, AuthPamAssumption DEF HistoryOK
        <4> QED
          BY <1>4, <2>1, <4>1 DEF After
      <3>3. Total(After(recent', x)) = 0
        BY <3>2, TotalOfNone
      <3>4. Cardinality(Later(ats_attempts', x)) = 0
        BY <3>1, NoneLater
      <3> QED
        BY <3>3, <3>4, AuthPamAssumption DEF Capped
    <2>2. CASE x # now
      <3> DEFINE a == After(recent, x)
                 n == Cardinality(Later(ats_attempts, x))
      <3>1. now > x
        BY <1>1, <2>0, <2>2
      <3>2. /\ n \in 0..MaxAttempts
            /\ Cardinality(Later(ats_attempts', x)) = IF n < MaxAttempts THEN n + 1 ELSE MaxAttempts
        BY <1>1, <2>0, <3>1, ReplacingOldest
      <3>3. n = Capped(Total(a))
        BY <1>6 DEF Window
      <3>4. a \in [Times -> Nat]
        BY <1>1, AfterType
      <3>5. After(recent', x) = [a EXCEPT ![now] = @ + 1]
        BY <1>1, <1>4, <3>1 DEF After
      <3> HIDE DEF a, n
      <3>6. Total(a) \in Nat
        <4>1. \A t \in Times : a[t] <= a[t]
          BY <3>4
        <4> QED
          BY <3>4, <4>1, TotalMonotone
      <3>7. Total(After(recent', x)) = Total(a) + 1
        BY <1>1, <3>4, <3>5, TotalCounted
      <3> QED
        BY <3>2, <3>3, <3>6, <3>7, AuthPamAssumption DEF Capped
    <2> QED
      BY <2>1, <2>2
  <1>7. Window'
    BY <1>6 DEF Window
  <1> QED
    BY <1>3, <1>4, <1>5, <1>7

\* A valid password clears the ring and the history.
LEMMA ClearedKeepsWindow ==
    ASSUME now \in Times, now' = now,
           ats_attempts' = [i \in Ring |-> 0], recent' = [t \in Times |-> 0]
    PROVE  Stamped' /\ Window' /\ Total(recent') = 0
  <1>1. now \in Nat /\ now > Period /\ Period \in Nat
    BY AuthPamAssumption DEF Times, Start
  <1>2. Stamped'
    BY <1>1 DEF Stamped
  <1>3. ASSUME NEW x \in (now - Period)..now
        PROVE  Cardinality(Later(ats_attempts', x)) = Capped(Total(After(recent', x)))
    <2>1. \A j \in Ring : ~(ats_attempts'[j] > x)
      BY <1>1
    <2>2. After(recent', x) = [t \in Times |-> 0]
      BY DEF After
    <2> QED
      BY <2>1, <2>2, NoneLater, TotalOfNone, AuthPamAssumption DEF Capped
  <1> QED
    BY <1>2, <1>3, TotalOfNone DEF Window

\* Nothing is tracked.
LEMMA UntrackedKeepsWindow ==
    ASSUME IInv, UNCHANGED <<now, ats_attempts, recent, guesses>>
    PROVE  Stamped' /\ HistoryOK' /\ Window' /\ GuessBound'
  BY DEF IInv, Stamped, HistoryOK, Window, GuessBound

\* Every lockout starts from now, and only for an attempt that was too much.
LEMMA RespondFacts ==
    ASSUME TypeOK, NEW ret, Respond(ret)
    PROVE  /\ busy' \in BOOLEAN
           /\ reply' \in Replies
           /\ t_lockout' = IF ret = "LOCKOUT" THEN now + Lockout ELSE t_lockout
           /\ t_lockout' \in 0..(MaxTime + Lockout)
  <1>1. now \in 0..MaxTime /\ Lockout \in Nat /\ MaxTime \in Nat
    BY AuthPamAssumption DEF TypeOK, Times, Start
  <1>2. /\ busy' \in BOOLEAN
        /\ reply' \in Replies
        /\ t_lockout' = IF ret = "LOCKOUT" THEN now + Lockout ELSE t_lockout
    BY DEF Respond, TypeOK, Replies
  <1> QED
    BY <1>1, <1>2 DEF TypeOK

\* A request that is refused untracked changes no more than the reply.
LEMMA MalformedKeepsInv ==
    ASSUME IInv, NEW request, Malformed(request)
    PROVE  IInv'
  <1>1. Respond("INVALIDDATA") /\ UNCHANGED <<now, ats_attempts, recent, guesses>>
    BY DEF Malformed
  <1>2. /\ busy' \in BOOLEAN /\ reply' \in Replies
        /\ t_lockout' = t_lockout
    BY <1>1, RespondFacts DEF IInv
  <1>3. Stamped' /\ HistoryOK' /\ Window' /\ GuessBound'
    BY <1>1, UntrackedKeepsWindow
  <1>4. TypeOK'
    BY <1>1, <1>2 DEF IInv, TypeOK
  <1>5. LockoutOK'
    BY <1>1, <1>2 DEF IInv, LockoutOK
  <1> QED
    BY <1>3, <1>4, <1>5 DEF IInv

\* During a lockout the attempt is counted, the lockout starts afresh, and no
\* password is compared.
LEMMA LockedOutKeepsInv ==
    ASSUME IInv, NEW request, LockedOut(request)
    PROVE  IInv'
  <1>0. TypeOK /\ Stamped /\ HistoryOK /\ Window /\ LockoutOK /\ GuessBound
    BY DEF IInv
  <1>1. Respond("LOCKOUT") /\ UNCHANGED <<now, guesses>>
    BY DEF LockedOut
  <1>2. /\ busy' \in BOOLEAN /\ reply' \in Replies
        /\ t_lockout' = now + Lockout /\ t_lockout' \in 0..(MaxTime + Lockout)
    BY <1>0, <1>1, RespondFacts
  <1>3. /\ now \in Nat /\ Lockout \in Nat \ {0} /\ Period \in Nat \ {0} /\ Times \subseteq Nat
    BY <1>0, AuthPamAssumption DEF TypeOK, Times, Start
  <1>4. PICK ret \in {"UNAUTHORIZED", "SYSERR"} :
          /\ ats_attempts' = Tracked(ats_attempts, now, ret)
          /\ recent' = IF ret = "UNAUTHORIZED" THEN Counted(recent) ELSE recent
    BY DEF LockedOut
  <1>5. /\ ats_attempts' \in [Ring -> 0..MaxTime]
        /\ HistoryOK' /\ Stamped' /\ Window'
    <2>1. CASE ret = "UNAUTHORIZED"
      <3>1. /\ ats_attempts' = [ats_attempts EXCEPT ![Oldest(ats_attempts)] = now]
            /\ recent' = Counted(recent)
        BY <1>4, <2>1 DEF Tracked
      <3>2. /\ ats_attempts' \in [Ring -> 0..MaxTime]
            /\ recent' \in [Times -> Nat]
            /\ \A t \in Times : recent'[t] = recent[t] + (IF t = now THEN 1 ELSE 0)
            /\ Stamped' /\ Window'
        BY <1>0, <1>1, <3>1, CountedKeepsWindow
      <3>3. HistoryOK'
        BY <1>0, <1>1, <1>3, <3>2 DEF HistoryOK
      <3> QED
        BY <3>2, <3>3
    <2>2. CASE ret = "SYSERR"
      <3>1. UNCHANGED <<now, ats_attempts, recent, guesses>>
        BY <1>1, <1>4, <2>2 DEF Tracked
      <3> QED
        BY <1>0, <3>1, UntrackedKeepsWindow DEF TypeOK
    <2> QED
      BY <1>4, <2>1, <2>2
  <1>6. TypeOK'
    BY <1>0, <1>1, <1>2, <1>5 DEF TypeOK
  <1>7. LockoutOK'
    BY <1>1, <1>2, <1>3, <1>5 DEF LockoutOK, HistoryOK
  <1>8. GuessBound'
    BY <1>0, <1>1 DEF GuessBound
  <1> QED
    BY <1>5, <1>6, <1>7, <1>8 DEF IInv

\* Outside a lockout an attempt too much, and only that, starts one; so the
\* wrong passwords compared since are at most one more than the limit.
LEMMA AuthenticateKeepsInv ==
    ASSUME IInv, NEW request \in Request, Authenticate(request)
    PROVE  IInv'
  <1> DEFINE ret == Verdict(request)
             code == auth_track_attempt(ats_attempts, now, ret)
  <1>0. TypeOK /\ Stamped /\ HistoryOK /\ Window /\ LockoutOK /\ GuessBound
    BY DEF IInv
  <1>1. /\ now >= t_lockout /\ Respond(code) /\ now' = now
        /\ ats_attempts' = Tracked(ats_attempts, now, ret)
    BY DEF Authenticate
  <1>2. /\ busy' \in BOOLEAN /\ reply' \in Replies
        /\ t_lockout' = (IF code = "LOCKOUT" THEN now + Lockout ELSE t_lockout)
        /\ t_lockout' \in 0..(MaxTime + Lockout)
    BY <1>0, <1>1, RespondFacts
  <1>3. /\ now \in Nat /\ now \in Times /\ Lockout \in Nat \ {0} /\ Period \in Nat \ {0}
        /\ Times \subseteq Nat /\ MaxTime \in Nat /\ MaxAttempts \in Nat \ {0}
    BY <1>0, AuthPamAssumption DEF TypeOK, Times, Start
  <1>4. ret \in {"INVALIDDATA", "UNAUTHORIZED", "SYSERR", "OK"}
    BY DEF Authenticate, Verdict, Request
  <1>5. CASE ret = "OK"
    <2>1. /\ ats_attempts' = [i \in Ring |-> 0]
          /\ recent' = [t \in Times |-> 0] /\ guesses' = [t \in Times |-> 0]
      BY <1>5 DEF Authenticate, Tracked
    <2>2. Stamped' /\ Window' /\ Total(recent') = 0 /\ Total(guesses') = 0
      BY <1>1, <1>3, <2>1, ClearedKeepsWindow, TotalOfNone
    <2>3. HistoryOK'
      BY <2>1 DEF HistoryOK
    <2>4. TypeOK'
      BY <1>0, <1>1, <1>2, <1>3, <2>1 DEF TypeOK
    <2>5. LockoutOK'
      BY <1>3, <2>1, <2>2 DEF LockoutOK
    <2>6. GuessBound'
      BY <1>3, <2>2 DEF GuessBound
    <2> QED
      BY <2>2, <2>3, <2>4, <2>5, <2>6 DEF IInv
  <1>6. CASE ret = "SYSERR"
    <2>1. UNCHANGED <<now, ats_attempts, recent, guesses>> /\ code = "SYSERR"
      BY <1>1, <1>6 DEF Authenticate, Tracked, auth_track_attempt
    <2>2. t_lockout' = t_lockout
      BY <1>2, <2>1
    <2>3. Stamped' /\ HistoryOK' /\ Window' /\ GuessBound'
      BY <2>1, UntrackedKeepsWindow
    <2>4. TypeOK'
      BY <1>0, <1>2, <2>1 DEF TypeOK
    <2>5. LockoutOK'
      BY <1>0, <2>1, <2>2 DEF LockoutOK
    <2> QED
      BY <2>3, <2>4, <2>5 DEF IInv
  <1>7. CASE ret \in {"INVALIDDATA", "UNAUTHORIZED"}
    <2>1. /\ ats_attempts' = [ats_attempts EXCEPT ![Oldest(ats_attempts)] = now]
          /\ recent' = Counted(recent)
          /\ guesses' = IF ret = "UNAUTHORIZED" THEN Counted(guesses) ELSE guesses
      BY <1>7 DEF Authenticate, Tracked
    <2>2. /\ ats_attempts' \in [Ring -> 0..MaxTime]
          /\ recent' \in [Times -> Nat]
          /\ \A t \in Times : recent'[t] = recent[t] + (IF t = now THEN 1 ELSE 0)
          /\ Total(recent) \in Nat
          /\ Total(recent') = Total(recent) + 1
          /\ Stamped' /\ Window'
      BY <1>0, <1>1, <2>1, CountedKeepsWindow
    <2>3. /\ guesses' \in [Times -> Nat]
          /\ \A t \in Times : guesses'[t] \in {guesses[t], guesses[t] + (IF t = now THEN 1 ELSE 0)}
          /\ guesses \in [Times -> Nat]
          /\ \A t \in Times : guesses[t] <= recent[t]
      BY <1>0, <1>3, <2>1 DEF HistoryOK, Counted
    <2>4. HistoryOK'
      <3>1. \A t \in Times : guesses'[t] <= recent'[t]
        BY <1>0, <2>2, <2>3 DEF HistoryOK
      <3>2. \A t \in Times : recent'[t] # 0 => now' - Period < t /\ t <= now'
        BY <1>0, <1>1, <1>3, <2>2 DEF HistoryOK
      <3> QED
        BY <2>2, <2>3, <3>1, <3>2 DEF HistoryOK
    <2>5. TypeOK'
      BY <1>0, <1>1, <1>2, <2>2 DEF TypeOK
    <2>6. code = "LOCKOUT" <=> Total(recent) >= MaxAttempts
      <3>1. Cardinality(Later(ats_attempts, now - Period)) = Capped(Total(recent))
        BY <1>0, WindowImpliesRing
      <3>2. code = "LOCKOUT" <=> 1 + Cardinality(Later(ats_attempts, now - Period)) > MaxAttempts
        BY <1>7 DEF auth_track_attempt, TooOften, InvalidInPeriod, Later
      <3> QED
        BY <1>3, <2>2, <3>1, <3>2 DEF Capped
    <2>7. LockoutOK'
      <3>1. CASE code = "LOCKOUT"
        BY <1>1, <1>2, <1>3, <2>4, <3>1 DEF LockoutOK, HistoryOK
      <3>2. CASE code # "LOCKOUT"
        <4>1. Total(recent') <= MaxAttempts /\ t_lockout' = t_lockout
          BY <1>2, <1>3, <2>2, <2>6, <3>2
        <4> QED
          BY <1>1, <4>1, <1>0, <1>3 DEF LockoutOK, TypeOK
      <3> QED
        BY <3>1, <3>2
    <2>8. GuessBound'
      <3>1. Total(guesses) \in Nat /\ Total(guesses) <= Total(recent)
        BY <1>0, <2>3, TotalMonotone DEF HistoryOK
      <3>2. Total(recent) <= MaxAttempts
        BY <1>0, <1>1 DEF LockoutOK
      <3>3. Total(guesses') \in {Total(guesses), Total(guesses) + 1}
        BY <1>3, <2>1, <2>3, TotalCounted DEF Counted
      <3> QED
        BY <1>3, <2>2, <3>1, <3>2, <3>3 DEF GuessBound
    <2> QED
      BY <2>2, <2>4, <2>5, <2>7, <2>8 DEF IInv
  <1> QED
    BY <1>4, <1>5, <1>6, <1>7

\* A second later the window has moved.  A lockout that ends now was started
\* before everything that is left in it.
LEMMA TickKeepsInv ==
    ASSUME IInv, Tick
    PROVE  IInv'
  <1>0. TypeOK /\ Stamped /\ HistoryOK /\ Window /\ LockoutOK /\ GuessBound
    BY DEF IInv
  <1>1. /\ now < MaxTime /\ now' = now + 1
        /\ recent' = After(recent, now' - Period)
        /\ guesses' = After(guesses, now' - Period)
        /\ UNCHANGED <<ats_attempts, t_lockout, busy, reply>>
    BY DEF Tick, After
  <1>2. /\ now \in Nat /\ Lockout \in Nat \ {0} /\ Period \in Nat \ {0}
        /\ Times \subseteq Nat /\ MaxTime \in Nat /\ MaxAttempts \in Nat \ {0}
        /\ recent \in [Times -> Nat] /\ guesses \in [Times -> Nat] /\ t_lockout \in Nat
    BY <1>0, AuthPamAssumption DEF TypeOK, Times, Start, HistoryOK
  <1>3. /\ recent' \in [Times -> Nat] /\ guesses' \in [Times -> Nat]
        /\ \A t \in Times : recent'[t] = IF t > now' - Period THEN recent[t] ELSE 0
        /\ \A t \in Times : guesses'[t] = IF t > now' - Period THEN guesses[t] ELSE 0
    BY <1>1, <1>2 DEF After
  <1>4. TypeOK'
    <2>1. now' \in Times
      BY <1>0, <1>1, <1>2, AuthPamAssumption DEF TypeOK, Times, Start
    <2> QED
      BY <1>0, <1>1, <2>1 DEF TypeOK
  <1>5. Stamped'
    <2>1. \A i \in Ring : ats_attempts[i] \in Nat /\ ats_attempts[i] <= now
      BY <1>0, <1>2 DEF Stamped, TypeOK
    <2> QED
      BY <1>1, <1>2, <2>1 DEF Stamped
  <1>6. HistoryOK'
    <2>1. \A t \in Times : guesses'[t] <= recent'[t]
      BY <1>0, <1>1, <1>2, <1>3 DEF HistoryOK
    <2>2. \A t \in Times : recent'[t] # 0 => now' - Period < t /\ t <= now'
      BY <1>0, <1>1, <1>2, <1>3 DEF HistoryOK
    <2> QED
      BY <1>3, <2>1, <2>2 DEF HistoryOK
  <1>7. Window'
    <2>1. SUFFICES ASSUME NEW x \in (now' - Period)..now'
                   PROVE  Cardinality(Later(ats_attempts, x)) = Capped(Total(After(recent', x)))
      BY <1>1 DEF Window
    <2>2. CASE x \in (now - Period)..now
      <3>1. After(recent', x) = After(recent, x)
        BY <1>1, <1>2, <1>3, <2>1 DEF After
      <3> QED
        BY <1>0, <2>2, <3>1 DEF Window
    <2>3. CASE x \notin (now - Period)..now
      <3>1. x = now + 1
        BY <1>1, <1>2, <2>1, <2>3
      <3>2. After(recent', x) = [t \in Times |-> 0]
        <4>1. \A t \in Times : t > now => recent[t] = 0
          BY <1>0, <1>2 DEF HistoryOK
        <4> QED
          BY <1>1, <1>2, <1>3, <3>1, <4>1 DEF After
      <3>3. \A i \in Ring : ~(ats_attempts[i] > x)
        BY <1>0, <1>2, <3>1 DEF Stamped, TypeOK
      <3>4. Cardinality(Later(ats_attempts, x)) = 0
        BY <3>3, NoneLater
      <3> QED
        BY <1>2, <3>2, <3>4, TotalOfNone DEF Capped
    <2> QED
      BY <2>2, <2>3
  <1>8. Total(recent') <= Total(recent) /\ Total(guesses') <= Total(guesses)
        /\ Total(recent') \in Nat /\ Total(recent) \in Nat
        /\ Total(guesses') \in Nat /\ Total(guesses) \in Nat
    <2>1. \A t \in Times : recent'[t] <= recent[t] /\ guesses'[t] <= guesses[t]
      BY <1>2, <1>3
    <2> QED
      BY <1>2, <1>3, <2>1, TotalMonotone
  <1>9. LockoutOK'
    <2>1. CASE now >= t_lockout
      BY <1>0, <1>1, <1>2, <1>8, <2>1 DEF LockoutOK
    <2>2. CASE now < t_lockout
      <3>1. \A t \in Times : recent'[t] # 0 => t <= t_lockout - Lockout
        BY <1>0, <1>3, <2>2 DEF LockoutOK
      <3>2. ASSUME now' >= t_lockout'
            PROVE  Total(recent') = 0
        <4>1. \A t \in Times : recent'[t] = 0
          BY <1>1, <1>2, <1>3, <3>1, <3>2, <2>2, LockoutAssumption
        <4>2. recent' = [t \in Times |-> 0]
          BY <1>3, <4>1
        <4> QED
          BY <4>2, TotalOfNone
      <3> QED
        BY <1>1, <1>2, <3>1, <3>2 DEF LockoutOK
    <2> QED
      BY <1>1, <1>2, <2>1, <2>2
  <1>10. GuessBound'
    BY <1>0, <1>2, <1>8 DEF GuessBound
  <1> QED
    BY <1>4, <1>5, <1>6, <1>7, <1>9, <1>10 DEF IInv

\* Every state the handshake starts in is within the invariant.
LEMMA InitInv == Init => IInv
  <1> SUFFICES ASSUME Init PROVE IInv
    OBVIOUS
  <1>1. now \in Times
    BY AuthPamAssumption DEF Init, Times, Start
  <1>2. Total(recent) = 0 /\ Total(guesses) = 0
    BY TotalOfNone DEF Init
  <1>3. TypeOK
    <2>1. 0 \in 0..MaxTime /\ 0 \in 0..(MaxTime + Lockout)
      BY AuthPamAssumption
    <2> QED
      BY <1>1, <2>1 DEF Init, TypeOK, Replies
  <1>4. now > Period /\ now \in Nat /\ Period \in Nat
    BY AuthPamAssumption DEF Init, Start
  <1>5. Stamped
    BY <1>4 DEF Init, Stamped
  <1>6. Window
    <2>1. SUFFICES ASSUME NEW x \in (now - Period)..now
                   PROVE  Cardinality(Later(ats_attempts, x)) = Capped(Total(After(recent, x)))
      BY DEF Window
    <2>2. \A i \in Ring : ~(ats_attempts[i] > x)
      BY <1>4 DEF Init
    <2>3. After(recent, x) = [t \in Times |-> 0]
      BY DEF Init, After
    <2>4. Cardinality(Later(ats_attempts, x)) = 0
      BY <2>2, NoneLater
    <2> QED
      BY <2>3, <2>4, TotalOfNone, AuthPamAssumption DEF Capped
  <1>7. HistoryOK
    BY DEF Init, HistoryOK
  <1>8. LockoutOK /\ GuessBound
    BY <1>2, AuthPamAssumption DEF Init, LockoutOK, GuessBound
  <1> QED
    BY <1>3, <1>5, <1>6, <1>7, <1>8 DEF IInv

\* Every step keeps the invariant.
LEMMA NextKeepsInv == IInv /\ [Next]_vars => IInv'
  <1> SUFFICES ASSUME IInv, [Next]_vars PROVE IInv'
    OBVIOUS
  <1>1. ASSUME NEW request \in Request, authpam_client_handshake(request)
        PROVE  IInv'
    BY <1>1, MalformedKeepsInv, LockedOutKeepsInv, AuthenticateKeepsInv
       DEF authpam_client_handshake
  <1>2. CASE SessionEnds \/ UNCHANGED vars
    <2>1. /\ UNCHANGED <<now, ats_attempts, t_lockout, reply, recent, guesses>>
          /\ busy' \in BOOLEAN
      BY <1>2 DEF SessionEnds, vars, IInv, TypeOK
    <2>2. Stamped' /\ HistoryOK' /\ Window' /\ GuessBound'
      BY <2>1, UntrackedKeepsWindow
    <2>3. TypeOK' /\ LockoutOK'
      BY <2>1 DEF IInv, TypeOK, LockoutOK
    <2> QED
      BY <2>2, <2>3 DEF IInv
  <1>3. CASE Tick
    BY <1>3, TickKeepsInv
  <1> QED
    BY <1>1, <1>2, <1>3 DEF Next

\* The invariant holds throughout.
THEOREM Invariance == Spec => []IInv
  BY InitInv, NextKeepsInv, PTL DEF Spec

-----------------------------------------------------------------------------
(* What follows from it. *)

\* The ring, the clock and the end of the lockout keep to their ranges.
THEOREM TypeCorrect == Spec => []TypeOK
  <1>1. IInv => TypeOK
    BY DEF IInv
  <1> QED
    BY <1>1, Invariance, PTL

\* For every number of attempts and every period: the ring of
\* auth_track_attempt, though it overwrites stamps, knows how many invalid
\* attempts the last period had, up to the number that matters.
THEOREM RingMeasuresWindow == Spec => []RingIsWindow
  <1>1. IInv => RingIsWindow
    BY WindowImpliesRing DEF IInv, RingIsWindow, Later, Capped
  <1> QED
    BY <1>1, Invariance, PTL

\* No period sees more than MaxAttempts + 1 wrong passwords compared, however
\* lockouts start, are prolonged and expire in it.
THEOREM GuessesAreBounded == Spec => []GuessBound
  <1>1. IInv => GuessBound
    BY DEF IInv
  <1> QED
    BY <1>1, Invariance, PTL

\* A lockout that does not prolong another one was earned: more than
\* MaxAttempts invalid attempts were made within the period.
THEOREM LockoutIsEarned == Spec => FreshLockoutJustified
  <1>1. IInv /\ [Next]_vars =>
          [now >= t_lockout /\ t_lockout' # t_lockout => Total(recent') > MaxAttempts]_vars
    <2> SUFFICES ASSUME IInv, Next, now >= t_lockout, t_lockout' # t_lockout
                 PROVE  Total(recent') > MaxAttempts
      OBVIOUS
    <2>0. TypeOK /\ Stamped /\ HistoryOK /\ Window
      BY DEF IInv
    <2>1. ~SessionEnds /\ ~Tick
      BY DEF SessionEnds, Tick
    <2>2. PICK request \in Request : authpam_client_handshake(request)
      BY <2>1 DEF Next
    <2>3. ~LockedOut(request)
      BY <2>0 DEF LockedOut, TypeOK, Times
    <2>4. ~Malformed(request)
      BY <2>0, RespondFacts DEF Malformed
    <2>5. Authenticate(request)
      BY <2>2, <2>3, <2>4 DEF authpam_client_handshake
    <2> DEFINE ret == Verdict(request)
               code == auth_track_attempt(ats_attempts, now, ret)
    <2>6. code = "LOCKOUT" /\ now' = now
      BY <2>0, <2>5, RespondFacts DEF Authenticate
    <2>7. ret \in {"UNAUTHORIZED", "INVALIDDATA"} /\ TooOften(ats_attempts, now)
      BY <2>5, <2>6 DEF Authenticate, auth_track_attempt, Verdict, Request
    <2>8. /\ ats_attempts' = [ats_attempts EXCEPT ![Oldest(ats_attempts)] = now]
          /\ recent' = Counted(recent)
      BY <2>5, <2>7 DEF Authenticate, Tracked
    <2>9. Total(recent) \in Nat /\ Total(recent') = Total(recent) + 1
      BY <2>0, <2>6, <2>8, CountedKeepsWindow
    <2>10. 1 + Capped(Total(recent)) > MaxAttempts
      BY <2>0, <2>7, WindowImpliesRing DEF TooOften, InvalidInPeriod, Later
    <2> QED
      BY <2>9, <2>10, AuthPamAssumption DEF Capped
  <1> QED
    BY <1>1, Invariance, PTL DEF Spec, FreshLockoutJustified
=============================================================================

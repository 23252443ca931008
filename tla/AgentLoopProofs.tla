--------------------------- MODULE AgentLoopProofs --------------------------
(***************************************************************************)
(* The cadence of recurring measurements and the queue of one-shots, for   *)
(* every set of assignments, every interval, every lease and every delay   *)
(* the loop may suffer.                                                    *)
(***************************************************************************)
EXTENDS AgentLoop, DataLemmas, TLAPS

Assignment == [interval : Intervals, wait : Int]

CadenceType ==
    /\ DOMAIN recurring \subseteq Recurring
    /\ recurring \in [DOMAIN recurring -> Assignment]
    /\ nextPoll \in Int /\ since \in Nat
    /\ gap \in [Recurring -> Nat] /\ older \in [Recurring -> Nat]
    /\ pace \in [Recurring -> Nat]
    /\ \A t \in Recurring : pace[t] <= Horizon

(* An assignment was due no earlier than its last firing, and one interval *)
(* past the firing before that, as far back as the history reaches; what   *)
(* is not in the plan has no history.                                      *)
CadenceKept ==
    \A t \in Recurring :
        IF t \in DOMAIN recurring
        THEN /\ recurring[t].wait >= -Horizon
             /\ gap[t] >= -recurring[t].wait
             /\ \/ older[t] >= pace[t] - recurring[t].wait
                \/ older[t] = Horizon
        ELSE gap[t] = Horizon /\ older[t] = Horizon

CadenceInv == CadenceType /\ CadenceKept

(* The assumptions on the constants in the form the steps below use.       *)
LEMMA Constants ==
  /\ Horizon \in Nat
  /\ \A i \in Intervals : i \in Nat /\ i < Horizon
  /\ PollTimes \subseteq Nat /\ BeatTimes \subseteq Nat
  /\ TaskTimes \subseteq Nat /\ DrainTimes \subseteq Nat
  /\ RetryDelays \subseteq Nat
  /\ PollInterval \in Nat /\ HeartbeatInterval \in Nat /\ MaxSleep \in Nat
BY LoopAssumption DEF LoopAssumption

(* The idle sleep is a natural number of time units.                       *)
LEMMA SleepIsTime ==
  ASSUME CadenceType
  PROVE  SleepTime \in Nat
<1> DEFINE S == TimeUntilDue \union {Max({nextPoll, 0}), MaxSleep}
<1>1. TimeUntilDue \subseteq Nat
  <2>1. ASSUME NEW t \in DOMAIN recurring
        PROVE  Max({recurring[t].wait, 0}) \in Nat
    <3>1. recurring[t].wait \in Int
      BY DEF CadenceType, Assignment
    <3> QED  BY <3>1, MaxTwo
  <2>2. {Max({recurring[t].wait, 0}) : t \in DOMAIN recurring} \subseteq Nat
    BY <2>1
  <2>3. {0} \subseteq Nat /\ {PollInterval} \subseteq Nat
    BY Constants
  <2> QED  BY <2>2, <2>3, Zenon DEF TimeUntilDue
<1>2. Max({nextPoll, 0}) \in Nat
  BY MaxTwo DEF CadenceType
<1>3. S \subseteq Nat /\ S # {}
  BY <1>1, <1>2, Constants
<1>4. \E m \in S : \A k \in S : m <= k
  BY <1>3, LeastNat
<1>5. Min(S) \in Nat
  BY <1>3, <1>4 DEF Min
<1>6. \A m \in Nat : Max({1, m}) \in Nat
  BY MaxTwo
<1>7. Max({1, Min(S)}) \in Nat
  BY <1>5, <1>6
<1> QED  BY <1>7 DEF SleepTime

(* The loop starts with an empty plan and no history.                      *)
LEMMA InitCadence == Init => CadenceInv
BY Constants DEF Init, CadenceInv, CadenceType, CadenceKept

(* Letting time pass preserves the invariant.                              *)
LEMMA ElapseCadence ==
  ASSUME CadenceInv, NEW d \in Nat, recurring' = AgedRecurring(d), AgeCadence(d),
         nextPoll' \in Int, since' \in Nat
  PROVE  CadenceInv'
<1>1. /\ DOMAIN recurring' = DOMAIN recurring
      /\ \A t \in DOMAIN recurring :
            /\ recurring[t] \in Assignment
            /\ recurring'[t] = [recurring[t] EXCEPT !.wait = Sooner(@, d)]
  BY DEF AgedRecurring, CadenceInv, CadenceType
<1>2. \A t \in DOMAIN recurring :
         /\ recurring'[t] \in Assignment
         /\ recurring'[t].wait = Sooner(recurring[t].wait, d)
  BY <1>1, Constants DEF Assignment, Sooner
<1>3. CadenceType'
  <2>1. recurring' \in [DOMAIN recurring' -> Assignment]
    BY <1>1, <1>2 DEF AgedRecurring
  <2>2. gap' \in [Recurring -> Nat] /\ older' \in [Recurring -> Nat]
    BY Constants DEF AgeCadence, Longer, CadenceInv, CadenceType
  <2> QED  BY <1>1, <2>1, <2>2 DEF CadenceInv, CadenceType, AgeCadence
<1>4. CadenceKept'
  <2> SUFFICES ASSUME NEW t \in Recurring
               PROVE IF t \in DOMAIN recurring'
                     THEN /\ recurring'[t].wait >= -Horizon
                          /\ gap'[t] >= -recurring'[t].wait
                          /\ \/ older'[t] >= pace'[t] - recurring'[t].wait
                             \/ older'[t] = Horizon
                     ELSE gap'[t] = Horizon /\ older'[t] = Horizon
    BY DEF CadenceKept
  <2>1. CASE t \in DOMAIN recurring
    <3>1. /\ gap'[t] = Longer(gap[t], d) /\ older'[t] = Longer(older[t], d)
          /\ pace'[t] = pace[t]
          /\ recurring'[t].wait = Sooner(recurring[t].wait, d)
      BY <2>1, <1>1, <1>2 DEF AgeCadence
    <3>2. /\ gap[t] \in Nat /\ older[t] \in Nat /\ pace[t] \in Nat
          /\ recurring[t].wait \in Int
      BY <2>1, <1>1 DEF CadenceInv, CadenceType, Assignment
    <3>3. /\ gap[t] >= -recurring[t].wait
          /\ older[t] >= pace[t] - recurring[t].wait \/ older[t] = Horizon
      BY <2>1 DEF CadenceInv, CadenceKept
    <3> QED  BY <2>1, <1>1, <3>1, <3>2, <3>3, Constants DEF Longer, Sooner
  <2>2. CASE t \notin DOMAIN recurring
    BY <2>2, <1>1 DEF AgeCadence
  <2> QED  BY <2>1, <2>2
<1> QED  BY <1>3, <1>4 DEF CadenceInv

(* A poll that refreshes, adds and withdraws assignments preserves it.     *)
LEMMA PollOkCadence ==
  ASSUME CadenceInv, NEW lease, NEW assigned \in Assignments, NEW d \in PollTimes,
         PollOk(lease, assigned, d)
  PROVE  CadenceInv'
<1>1. d \in Nat /\ nextPoll' \in Int /\ since' \in Nat
  BY Constants DEF PollOk, CadenceInv, CadenceType
<1>2. CASE DOMAIN assigned = {}
  <2>1. recurring' = AgedRecurring(d) /\ AgeCadence(d)
    BY <1>2 DEF PollOk, Reconcile
  <2> QED  BY <1>1, <2>1, ElapseCadence
<1>3. CASE DOMAIN assigned # {}
  <2> DEFINE r == AgedRecurring(d)
  <2>1. /\ recurring' = [t \in DOMAIN assigned |->
                           [interval |-> assigned[t],
                            wait |-> IF t \in DOMAIN r THEN r[t].wait ELSE 0]]
        /\ AgeCadence(d)
    BY <1>3 DEF PollOk, Reconcile, AcceptRecurring
  <2>2. DOMAIN assigned \subseteq Recurring /\ \A t \in DOMAIN assigned : assigned[t] \in Intervals
    BY DEF Assignments
  <2>3. DOMAIN r = DOMAIN recurring
    BY DEF AgedRecurring
  <2>4. \A t \in DOMAIN recurring :
           /\ recurring[t] \in Assignment
           /\ r[t].wait = Sooner(recurring[t].wait, d)
           /\ r[t].wait \in Int
    BY <1>1, Constants DEF AgedRecurring, CadenceInv, CadenceType, Assignment, Sooner
  <2>5. DOMAIN recurring' = DOMAIN assigned
    BY <2>1
  <2>6. \A t \in DOMAIN assigned :
           /\ recurring'[t] \in Assignment
           /\ recurring'[t].wait =
                IF t \in DOMAIN recurring THEN Sooner(recurring[t].wait, d) ELSE 0
    BY <2>1, <2>2, <2>3, <2>4 DEF Assignment
  <2>7. CadenceType'
    <3>1. recurring' \in [DOMAIN recurring' -> Assignment]
      BY <2>1, <2>5, <2>6
    <3>2. gap' \in [Recurring -> Nat] /\ older' \in [Recurring -> Nat]
      BY <1>1, <2>1, Constants DEF AgeCadence, Longer, CadenceInv, CadenceType
    <3> QED  BY <1>1, <2>1, <2>2, <2>5, <3>1, <3>2
             DEF CadenceInv, CadenceType, AgeCadence
  <2>8. CadenceKept'
    <3> SUFFICES ASSUME NEW t \in Recurring
                 PROVE IF t \in DOMAIN recurring'
                       THEN /\ recurring'[t].wait >= -Horizon
                            /\ gap'[t] >= -recurring'[t].wait
                            /\ \/ older'[t] >= pace'[t] - recurring'[t].wait
                               \/ older'[t] = Horizon
                       ELSE gap'[t] = Horizon /\ older'[t] = Horizon
      BY DEF CadenceKept
    <3>1. CASE t \in DOMAIN assigned
      <4>1. /\ gap'[t] = Longer(gap[t], d) /\ older'[t] = Longer(older[t], d)
            /\ pace'[t] = pace[t]
        BY <3>1, <2>1, <2>5 DEF AgeCadence
      <4>2. gap[t] \in Nat /\ older[t] \in Nat /\ pace[t] \in Nat
        BY DEF CadenceInv, CadenceType
      <4>3. CASE t \in DOMAIN recurring
        <5>1. recurring[t].wait \in Int
          BY <4>3, <2>4 DEF Assignment
        <5>2. /\ gap[t] >= -recurring[t].wait
              /\ older[t] >= pace[t] - recurring[t].wait \/ older[t] = Horizon
          BY <4>3 DEF CadenceInv, CadenceKept
        <5>3. recurring'[t].wait = Sooner(recurring[t].wait, d)
          BY <3>1, <4>3, <2>6
        <5> QED  BY <1>1, <3>1, <2>5, <4>1, <4>2, <5>1, <5>2, <5>3, Constants
                 DEF Longer, Sooner
      <4>4. CASE t \notin DOMAIN recurring
        <5>1. gap[t] = Horizon /\ older[t] = Horizon
          BY <4>4 DEF CadenceInv, CadenceKept
        <5>2. recurring'[t].wait = 0
          BY <3>1, <4>4, <2>6
        <5> QED  BY <1>1, <3>1, <2>5, <4>1, <5>1, <5>2, Constants DEF Longer
      <4> QED  BY <4>3, <4>4
    <3>2. CASE t \notin DOMAIN assigned
      BY <3>2, <2>1, <2>5 DEF AgeCadence
    <3> QED  BY <3>1, <3>2
  <2> QED  BY <2>7, <2>8 DEF CadenceInv
<1> QED  BY <1>2, <1>3

(* Firing an assignment preserves it: the new due time is not in the past, *)
(* and is an interval after the time it was due.                           *)
LEMMA PickRecurringCadence ==
  ASSUME CadenceInv, NEW t \in Recurring, PickRecurring(t)
  PROVE  CadenceInv'
<1>1. t \in DOMAIN recurring /\ recurring[t].wait <= 0
  BY DEF PickRecurring, MostOverdue
<1>2. /\ recurring[t] \in Assignment /\ recurring[t].wait \in Int
      /\ recurring[t].interval \in Nat /\ recurring[t].interval < Horizon
      /\ gap[t] \in Nat /\ gap[t] >= -recurring[t].wait
  BY <1>1, Constants DEF CadenceInv, CadenceType, CadenceKept, Assignment
<1> DEFINE w == Rescheduled(recurring[t])
<1>3. w \in Int /\ w >= 0
      /\ (w = recurring[t].interval \/ w = recurring[t].wait + recurring[t].interval)
  BY <1>2 DEF Rescheduled
<1>4. recurring' = [recurring EXCEPT ![t].wait = w]
  BY DEF PickRecurring
<1>5. /\ DOMAIN recurring' = DOMAIN recurring
      /\ recurring'[t] = [recurring[t] EXCEPT !.wait = w]
      /\ \A u \in DOMAIN recurring : u # t => recurring'[u] = recurring[u]
  BY <1>1, <1>4 DEF CadenceInv, CadenceType
<1>6. recurring'[t] \in Assignment /\ recurring'[t].wait = w
  BY <1>2, <1>3, <1>5 DEF Assignment
<1>7. recurring' \in [DOMAIN recurring' -> Assignment]
  BY <1>4, <1>5, <1>6 DEF CadenceInv, CadenceType
<1>8. /\ older' = [older EXCEPT ![t] = gap[t]]
      /\ gap' = [gap EXCEPT ![t] = 0]
      /\ pace' = [pace EXCEPT ![t] = recurring[t].interval]
      /\ UNCHANGED <<nextPoll, since>>
  BY DEF PickRecurring, timers
<1>9. CadenceType'
  <2>1. gap' \in [Recurring -> Nat] /\ older' \in [Recurring -> Nat]
    BY <1>2, <1>8 DEF CadenceInv, CadenceType
  <2>2. pace' \in [Recurring -> Nat] /\ \A u \in Recurring : pace'[u] <= Horizon
    BY <1>2, <1>8, Constants DEF CadenceInv, CadenceType
  <2>3. DOMAIN recurring' \subseteq Recurring /\ nextPoll' \in Int /\ since' \in Nat
    BY <1>5, <1>8 DEF CadenceInv, CadenceType
  <2> QED  BY <1>7, <2>1, <2>2, <2>3 DEF CadenceType
<1>10. CadenceKept'
  <2> SUFFICES ASSUME NEW u \in Recurring
               PROVE IF u \in DOMAIN recurring'
                     THEN /\ recurring'[u].wait >= -Horizon
                          /\ gap'[u] >= -recurring'[u].wait
                          /\ \/ older'[u] >= pace'[u] - recurring'[u].wait
                             \/ older'[u] = Horizon
                     ELSE gap'[u] = Horizon /\ older'[u] = Horizon
    BY DEF CadenceKept
  <2>1. CASE u = t
    <3>1. gap'[t] = 0 /\ older'[t] = gap[t] /\ pace'[t] = recurring[t].interval
      BY <1>8 DEF CadenceInv, CadenceType
    <3> QED  BY <2>1, <3>1, <1>1, <1>2, <1>3, <1>5, <1>6, Constants
  <2>2. CASE u # t
    <3>1. gap'[u] = gap[u] /\ older'[u] = older[u] /\ pace'[u] = pace[u]
      BY <2>2, <1>8 DEF CadenceInv, CadenceType
    <3> QED  BY <2>2, <3>1, <1>5 DEF CadenceInv, CadenceKept
  <2> QED  BY <2>1, <2>2
<1> QED  BY <1>9, <1>10 DEF CadenceInv

(* Steps that touch neither the plan's recurring part nor its history.     *)
LEMMA QuietCadence ==
  ASSUME CadenceInv, UNCHANGED <<recurring, gap, older, pace, nextPoll>>,
         since' \in Nat
  PROVE  CadenceInv'
BY DEF CadenceInv, CadenceType, CadenceKept

(* Every step of the loop preserves the invariant.                         *)
LEMMA NextCadence == CadenceInv /\ [Next]_vars => CadenceInv'
<1> SUFFICES ASSUME CadenceInv, [Next]_vars PROVE CadenceInv'
  OBVIOUS
<1> USE Constants
<1>0. since \in Nat /\ nextPoll \in Int
  BY DEF CadenceInv, CadenceType
<1>1. CASE Top \/ StopAtTop
  BY <1>0, <1>1, QuietCadence DEF Top, StopAtTop, timers, cadence, plan
<1>2. CASE Poll
  <2>1. CASE \E lease \in Leases, assigned \in Assignments, d \in PollTimes :
               PollOk(lease, assigned, d)
    BY <2>1, PollOkCadence
  <2>2. CASE \E delay \in RetryDelays, d \in PollTimes : PollErr(delay, d)
    <3>1. PICK delay \in RetryDelays, d \in PollTimes : PollErr(delay, d)
      BY <2>2
    <3>2. /\ d \in Nat /\ recurring' = AgedRecurring(d) /\ AgeCadence(d)
          /\ nextPoll' \in Int /\ since' \in Nat
      BY <1>0, <3>1 DEF PollErr
    <3> QED  BY <3>2, ElapseCadence
  <2>3. CASE SkipPoll
    BY <1>0, <2>3, QuietCadence DEF SkipPoll, timers, cadence, plan
  <2> QED  BY <1>2, <2>1, <2>2, <2>3 DEF Poll
<1>3. CASE Beat
  <2>1. CASE \E d \in BeatTimes : Heartbeat(d)
    <3>1. PICK d \in BeatTimes : Heartbeat(d)
      BY <2>1
    <3>2. /\ d \in Nat /\ recurring' = AgedRecurring(d) /\ AgeCadence(d)
          /\ nextPoll' \in Int /\ since' \in Nat
      BY <1>0, <3>1 DEF Heartbeat, Sooner
    <3> QED  BY <3>2, ElapseCadence
  <2>2. CASE SkipHeartbeat
    BY <1>0, <2>2, QuietCadence DEF SkipHeartbeat, timers, cadence, plan
  <2> QED  BY <1>3, <2>1, <2>2 DEF Beat
<1>4. CASE Pick
  <2>1. CASE PickOneShot \/ PickNothing
    BY <1>0, <2>1, QuietCadence DEF PickOneShot, PickNothing, timers, cadence, plan
  <2>2. CASE \E t \in Recurring : PickRecurring(t)
    BY <2>2, PickRecurringCadence
  <2> QED  BY <1>4, <2>1, <2>2 DEF Pick
<1>5. ASSUME NEW d \in Nat, Elapse(d), since' = since PROVE CadenceInv'
  <2>1. recurring' = AgedRecurring(d) /\ AgeCadence(d) /\ nextPoll' \in Int
        /\ since' \in Nat
    BY <1>0, <1>5 DEF Elapse, Sooner
  <2> QED  BY <1>5, <2>1, ElapseCadence
<1>6. CASE \E d \in TaskTimes : Execute(d)
  BY <1>5, <1>6 DEF Execute
<1>7. CASE Drain
  BY <1>5, <1>7 DEF Drain, DrainOk, DrainErr
<1>8. CASE Sleep
  <2>1. SleepTime \in Nat
    BY SleepIsTime DEF CadenceInv
  <2>2. Elapse(SleepTime) /\ since' = since
    BY <1>8 DEF Sleep
  <2> QED  BY <1>5, <2>1, <2>2
<1>9. CASE Flush \/ Shutdown \/ Stopped \/ UNCHANGED vars
  BY <1>0, <1>9, QuietCadence
     DEF Flush, Shutdown, Stopped, vars, timers, cadence, plan
<1> QED  BY <1>1, <1>2, <1>3, <1>4, <1>6, <1>7, <1>8, <1>9 DEF Next, Loop

(* The cadence invariant holds throughout every run of the agent.          *)
THEOREM CadenceInvariance == Spec => []CadenceInv
BY InitCadence, NextCadence, PTL DEF Spec

(* Falling behind never turns into a burst, for every interval and delay.  *)
THEOREM NoBurstEver == Spec => NoBurst
<1>1. ASSUME CadenceInv, NEW t \in Recurring, PickRecurring(t)
      PROVE  older[t] >= pace[t]
  <2>1. t \in DOMAIN recurring /\ recurring[t].wait <= 0
    BY <1>1 DEF PickRecurring, MostOverdue
  <2>2. /\ recurring[t].wait \in Int /\ older[t] \in Nat /\ pace[t] \in Nat
        /\ pace[t] <= Horizon
        /\ older[t] >= pace[t] - recurring[t].wait \/ older[t] = Horizon
    BY <1>1, <2>1 DEF CadenceInv, CadenceType, CadenceKept, Assignment
  <2> QED  BY <2>1, <2>2
<1>2. CadenceInv /\ [Next]_vars
        => [\A t \in Recurring : PickRecurring(t) => older[t] >= pace[t]]_vars
  BY <1>1
<1> QED  BY <1>2, CadenceInvariance, PTL DEF Spec, NoBurst

-----------------------------------------------------------------------------
(* The queue of one-shots.  Reaping it and accepting a lease are loops     *)
(* along a sequence; each claim about them is refuted at a least           *)
(* counterexample.                                                         *)
Shot == [task : Tasks, left : Int \union {NoDeadline}]

(* What a poll may carry, readable or not.                                 *)
Offer == [task : Tasks \union Garbled, left : Int \union {NoDeadline}]

Distinct(q) == \A i, j \in 1..Len(q) : q[i].task = q[j].task => i = j

TasksOf(q) == {q[i].task : i \in 1..Len(q)}

Retain(q, s) == IF Expired(s) THEN q ELSE Append(q, s)

(* The reaping exists along every prefix of the queue.                     *)
LEMMA ReapedExists ==
  ASSUME NEW q \in Seq(Shot)
  PROVE  \A n \in 0..Len(q) :
            \E g : g = [i \in 0..n |-> IF i = 0 THEN << >> ELSE Retain(g[i - 1], q[i])]
<1> DEFINE Ok(n) == \E g : g = [i \in 0..n |-> IF i = 0 THEN << >> ELSE Retain(g[i - 1], q[i])]
           T == {n \in 0..Len(q) : ~ Ok(n)}
<1>1. SUFFICES ASSUME T # {} PROVE FALSE
  OBVIOUS
<1>2. T \subseteq Nat
  <2> HIDE DEF Ok
  <2> QED  OBVIOUS
<1>3. PICK m \in T : \A k \in T : m <= k
  <2> HIDE DEF T
  <2> QED  BY <1>1, <1>2, LeastNat
<1>4. CASE m = 0
  <2> DEFINE g == [i \in 0..0 |-> << >>]
  <2>1. g = [i \in 0..0 |-> IF i = 0 THEN << >> ELSE Retain(g[i - 1], q[i])]
    OBVIOUS
  <2> QED  BY <2>1, <1>4
<1>5. CASE m # 0
  <2>1. m - 1 \in 0..Len(q) /\ Ok(m - 1)
    <3> HIDE DEF Ok
    <3> QED  BY <1>3, <1>5
  <2>2. PICK g : g = [i \in 0..(m - 1) |-> IF i = 0 THEN << >> ELSE Retain(g[i - 1], q[i])]
    BY <2>1
  <2> DEFINE h == [i \in 0..m |-> IF i = m THEN Retain(g[m - 1], q[m]) ELSE g[i]]
  <2>3. ASSUME NEW i \in 0..m
        PROVE  h[i] = IF i = 0 THEN << >> ELSE Retain(h[i - 1], q[i])
    BY <2>2, <1>5
  <2>4. h = [i \in 0..m |-> IF i = 0 THEN << >> ELSE Retain(h[i - 1], q[i])]
    BY <2>3
  <2> QED  BY <2>4
<1> QED  BY <1>4, <1>5

(* Reaped satisfies the equation it is defined by.                         *)
LEMMA ReapedDef ==
  ASSUME NEW q \in Seq(Shot)
  PROVE  Reaped(q) =
            [i \in 0..Len(q) |-> IF i = 0 THEN << >> ELSE Retain(Reaped(q)[i - 1], q[i])]
<1>1. \E g : g = [i \in 0..Len(q) |-> IF i = 0 THEN << >> ELSE Retain(g[i - 1], q[i])]
  BY ReapedExists
<1> QED  BY <1>1, Zenon DEF Reaped, Retain

(* Accepting exists along every prefix of the lease.                       *)
LEMMA AcceptedExists ==
  ASSUME NEW q \in Seq(Shot), NEW lease \in Seq(Offer)
  PROVE  \A n \in 0..Len(lease) :
            \E g : g = [i \in 0..n |-> IF i = 0 THEN q ELSE AcceptShot(g[i - 1], lease[i])]
<1> DEFINE Ok(n) == \E g : g = [i \in 0..n |-> IF i = 0 THEN q ELSE AcceptShot(g[i - 1], lease[i])]
           T == {n \in 0..Len(lease) : ~ Ok(n)}
<1>1. SUFFICES ASSUME T # {} PROVE FALSE
  OBVIOUS
<1>2. T \subseteq Nat
  <2> HIDE DEF Ok
  <2> QED  OBVIOUS
<1>3. PICK m \in T : \A k \in T : m <= k
  <2> HIDE DEF T
  <2> QED  BY <1>1, <1>2, LeastNat
<1>4. CASE m = 0
  <2> DEFINE g == [i \in 0..0 |-> q]
  <2>1. g = [i \in 0..0 |-> IF i = 0 THEN q ELSE AcceptShot(g[i - 1], lease[i])]
    OBVIOUS
  <2> QED  BY <2>1, <1>4
<1>5. CASE m # 0
  <2>1. m - 1 \in 0..Len(lease) /\ Ok(m - 1)
    <3> HIDE DEF Ok
    <3> QED  BY <1>3, <1>5
  <2>2. PICK g : g = [i \in 0..(m - 1) |-> IF i = 0 THEN q ELSE AcceptShot(g[i - 1], lease[i])]
    BY <2>1
  <2> DEFINE h == [i \in 0..m |-> IF i = m THEN AcceptShot(g[m - 1], lease[m]) ELSE g[i]]
  <2>3. ASSUME NEW i \in 0..m
        PROVE  h[i] = IF i = 0 THEN q ELSE AcceptShot(h[i - 1], lease[i])
    BY <2>2, <1>5
  <2>4. h = [i \in 0..m |-> IF i = 0 THEN q ELSE AcceptShot(h[i - 1], lease[i])]
    BY <2>3
  <2> QED  BY <2>4
<1> QED  BY <1>4, <1>5

(* Accepted satisfies the equation it is defined by.                       *)
LEMMA AcceptedDef ==
  ASSUME NEW q \in Seq(Shot), NEW lease \in Seq(Offer)
  PROVE  Accepted(q, lease) =
            [i \in 0..Len(lease) |-> IF i = 0 THEN q ELSE AcceptShot(Accepted(q, lease)[i - 1], lease[i])]
<1>1. \E g : g = [i \in 0..Len(lease) |-> IF i = 0 THEN q ELSE AcceptShot(g[i - 1], lease[i])]
  <2>1. Len(lease) \in 0..Len(lease)
    OBVIOUS
  <2>2. \A n \in 0..Len(lease) :
           \E g : g = [i \in 0..n |-> IF i = 0 THEN q ELSE AcceptShot(g[i - 1], lease[i])]
    BY AcceptedExists
  <2> QED  BY <2>1, <2>2
<1> QED  BY <1>1, Zenon DEF Accepted

(* What is retained of the first n: those not expired, in their order.     *)
ReapedOk(q, n, w) ==
    /\ w \in Seq(Shot)
    /\ \A i \in 1..Len(w) : \E j \in 1..n : w[i] = q[j] /\ ~Expired(q[j])
    /\ \A j \in 1..n : Expired(q[j]) \/ \E i \in 1..Len(w) : w[i] = q[j]
    /\ Distinct(q) => Distinct(w)

(* One step of the reaping.                                                *)
LEMMA RetainOk ==
  ASSUME NEW q \in Seq(Shot), NEW n \in 1..Len(q), NEW w, ReapedOk(q, n - 1, w)
  PROVE  ReapedOk(q, n, Retain(w, q[n]))
<1>0. n - 1 \in Nat /\ 1..n = 1..(n - 1) \union {n} /\ q[n] \in Shot
  OBVIOUS
<1>1. CASE Expired(q[n])
  <2>1. Retain(w, q[n]) = w
    BY <1>1 DEF Retain
  <2> QED  BY <1>0, <1>1, <2>1 DEF ReapedOk
<1>2. CASE ~Expired(q[n])
  <2> DEFINE v == Append(w, q[n])
  <2>1. Retain(w, q[n]) = v
    BY <1>2 DEF Retain
  <2>2. /\ v \in Seq(Shot) /\ Len(v) = Len(w) + 1 /\ v[Len(w) + 1] = q[n]
        /\ \A i \in 1..Len(w) : v[i] = w[i]
        /\ Len(w) \in Nat
    BY <1>0 DEF ReapedOk
  <2> HIDE DEF v
  <2>3. \A i \in 1..Len(v) : \E j \in 1..n : v[i] = q[j] /\ ~Expired(q[j])
    <3> SUFFICES ASSUME NEW i \in 1..Len(v)
                 PROVE  \E j \in 1..n : v[i] = q[j] /\ ~Expired(q[j])
      OBVIOUS
    <3>1. CASE i = Len(w) + 1
      BY <1>0, <1>2, <2>2, <3>1
    <3>2. CASE i \in 1..Len(w)
      BY <1>0, <2>2, <3>2 DEF ReapedOk
    <3> QED  BY <2>2, <3>1, <3>2
  <2>4. \A j \in 1..n : Expired(q[j]) \/ \E i \in 1..Len(v) : v[i] = q[j]
    <3> SUFFICES ASSUME NEW j \in 1..n, ~Expired(q[j])
                 PROVE  \E i \in 1..Len(v) : v[i] = q[j]
      OBVIOUS
    <3>1. CASE j = n
      <4>1. Len(w) + 1 \in 1..Len(v)
        BY <2>2
      <4> QED  BY <2>2, <3>1, <4>1
    <3>2. CASE j \in 1..(n - 1)
      <4>1. PICK i \in 1..Len(w) : w[i] = q[j]
        BY <3>2 DEF ReapedOk
      <4>2. i \in 1..Len(v)
        BY <2>2
      <4> QED  BY <2>2, <4>1, <4>2
    <3> QED  BY <1>0, <3>1, <3>2
  <2>5. ASSUME Distinct(q) PROVE Distinct(v)
    <3>1. \A i \in 1..Len(w) : w[i].task # q[n].task
      <4> SUFFICES ASSUME NEW i \in 1..Len(w), w[i].task = q[n].task PROVE FALSE
        OBVIOUS
      <4>1. PICK j \in 1..(n - 1) : w[i] = q[j]
        BY DEF ReapedOk
      <4>2. j \in 1..Len(q) /\ n \in 1..Len(q) /\ j # n
        BY <1>0
      <4> QED  BY <2>5, <4>1, <4>2 DEF Distinct
    <3>2. Distinct(w)
      BY <2>5 DEF ReapedOk
    <3> QED  BY <2>2, <3>1, <3>2 DEF Distinct
  <2> QED  BY <2>1, <2>2, <2>3, <2>4, <2>5 DEF ReapedOk
<1> QED  BY <1>1, <1>2

(* Reaping keeps those that are not expired and no others.                 *)
LEMMA ReapFacts ==
  ASSUME NEW q \in Seq(Shot)
  PROVE  ReapedOk(q, Len(q), reap_expired(q))
<1> DEFINE f == Reaped(q)
           T == {n \in 0..Len(q) : ~ReapedOk(q, n, f[n])}
<1>0. f = [i \in 0..Len(q) |-> IF i = 0 THEN << >> ELSE Retain(f[i - 1], q[i])]
  BY ReapedDef
<1> HIDE DEF f
<1>1. SUFFICES ASSUME T # {} PROVE FALSE
  BY DEF reap_expired, f
<1>2. T \subseteq Nat
  OBVIOUS
<1>3. PICK m \in T : \A k \in T : m <= k
  <2> HIDE DEF T
  <2> QED  BY <1>1, <1>2, LeastNat
<1>4. CASE m = 0
  <2>1. f[0] = << >>
    BY <1>0
  <2>2. ReapedOk(q, 0, << >>)
    BY DEF ReapedOk, Distinct
  <2> QED  BY <1>3, <1>4, <2>1, <2>2
<1>5. CASE m # 0
  <2>1. m \in 1..Len(q) /\ ReapedOk(q, m - 1, f[m - 1])
    BY <1>3, <1>5
  <2>2. f[m] = Retain(f[m - 1], q[m])
    BY <1>0, <2>1
  <2>3. ReapedOk(q, m, f[m])
    BY <2>1, <2>2, RetainOk
  <2> QED  BY <1>3, <2>3
<1> QED  BY <1>4, <1>5

(* The queue after the first n of a lease: each task once, those that were *)
(* queued and those leased and readable, each as it was queued or leased.  *)
AcceptedOk(q, lease, n, w) ==
    /\ w \in Seq(Shot) /\ Distinct(w)
    /\ TasksOf(w) = TasksOf(q) \union ({lease[j].task : j \in 1..n} \ Garbled)
    /\ \A i \in 1..Len(w) : \/ \E j \in 1..Len(q) : w[i] = q[j]
                            \/ \E j \in 1..n : w[i] = lease[j]

(* One step of accepting.                                                  *)
LEMMA AcceptOk ==
  ASSUME NEW q, NEW lease \in Seq(Offer), NEW n \in 1..Len(lease), NEW w,
         AcceptedOk(q, lease, n - 1, w)
  PROVE  AcceptedOk(q, lease, n, AcceptShot(w, lease[n]))
<1> DEFINE s == lease[n]
<1>0. n - 1 \in Nat /\ 1..n = 1..(n - 1) \union {n} /\ s \in Offer /\ Len(w) \in Nat
  BY DEF AcceptedOk
<1>1. {lease[j].task : j \in 1..n} = {lease[j].task : j \in 1..(n - 1)} \union {s.task}
  BY <1>0
<1>2. CASE s.task \in Garbled \union TasksOf(w)
  <2>1. AcceptShot(w, s) = w
    BY <1>2 DEF AcceptShot, TasksOf
  <2> QED  BY <1>0, <1>1, <1>2, <2>1 DEF AcceptedOk
<1>3. CASE s.task \notin Garbled \union TasksOf(w)
  <2> DEFINE v == Append(w, s)
  <2>0. s \in Shot
    BY <1>0, <1>3 DEF Offer, Shot
  <2>1. AcceptShot(w, s) = v
    BY <1>3 DEF AcceptShot, TasksOf
  <2>2. /\ v \in Seq(Shot) /\ Len(v) = Len(w) + 1 /\ v[Len(w) + 1] = s
        /\ \A i \in 1..Len(w) : v[i] = w[i]
        /\ 1..Len(v) = 1..Len(w) \union {Len(w) + 1}
    BY <1>0, <2>0 DEF AcceptedOk
  <2> HIDE DEF v
  <2>3. TasksOf(v) = TasksOf(w) \union {s.task}
    BY <2>2 DEF TasksOf
  <2>4. Distinct(v)
    <3>1. \A i \in 1..Len(w) : w[i].task # s.task
      BY <1>3 DEF TasksOf
    <3> QED  BY <2>2, <3>1 DEF Distinct, AcceptedOk
  <2>5. ASSUME NEW i \in 1..Len(v)
        PROVE  \/ \E j \in 1..Len(q) : v[i] = q[j]
               \/ \E j \in 1..n : v[i] = lease[j]
    <3>1. CASE i = Len(w) + 1
      BY <1>0, <2>2, <3>1
    <3>2. CASE i \in 1..Len(w)
      BY <1>0, <2>2, <3>2 DEF AcceptedOk
    <3> QED  BY <2>2, <3>1, <3>2
  <2>6. TasksOf(v) = TasksOf(q) \union ({lease[j].task : j \in 1..n} \ Garbled)
    BY <1>1, <1>3, <2>3 DEF AcceptedOk
  <2> QED  BY <2>1, <2>2, <2>4, <2>5, <2>6 DEF AcceptedOk
<1> QED  BY <1>2, <1>3

(* A lease adds what is readable and not queued, each task once.           *)
LEMMA AcceptFacts ==
  ASSUME NEW q \in Seq(Shot), Distinct(q), NEW lease \in Seq(Offer)
  PROVE  AcceptedOk(q, lease, Len(lease), Accepted(q, lease)[Len(lease)])
<1> DEFINE f == Accepted(q, lease)
           T == {n \in 0..Len(lease) : ~AcceptedOk(q, lease, n, f[n])}
<1>0. f = [i \in 0..Len(lease) |-> IF i = 0 THEN q ELSE AcceptShot(f[i - 1], lease[i])]
  BY AcceptedDef
<1> HIDE DEF f
<1>1. SUFFICES ASSUME T # {} PROVE FALSE
  BY DEF f
<1>2. T \subseteq Nat
  OBVIOUS
<1>3. PICK m \in T : \A k \in T : m <= k
  <2> HIDE DEF T
  <2> QED  BY <1>1, <1>2, LeastNat
<1>4. CASE m = 0
  <2>1. f[0] = q
    BY <1>0
  <2>2. AcceptedOk(q, lease, 0, q)
    BY DEF AcceptedOk
  <2> QED  BY <1>3, <1>4, <2>1, <2>2
<1>5. CASE m # 0
  <2>1. m \in 1..Len(lease) /\ AcceptedOk(q, lease, m - 1, f[m - 1])
    BY <1>3, <1>5
  <2>2. f[m] = AcceptShot(f[m - 1], lease[m])
    BY <1>0, <2>1
  <2>3. AcceptedOk(q, lease, m, f[m])
    BY <2>1, <2>2, AcceptOk
  <2> QED  BY <1>3, <2>3
<1> QED  BY <1>4, <1>5

-----------------------------------------------------------------------------
(* The values of the state that one-shots pass through.                    *)
QueueType ==
    /\ pc \in {"top", "poll", "beat", "pick", "exec", "drain", "sleep", "flush", "stopped"}
    /\ oneshot \in Seq(Shot) /\ owed \subseteq Tasks
    /\ running \in Tasks \union Recurring \union {Nobody}
    /\ outbox \subseteq Tasks \union Recurring

(* A task runs only from its pick to the drain that follows, and is not    *)
(* queued when it is executed.                                             *)
RunsInPlace ==
    /\ pc \notin {"exec", "drain"} => running = Nobody
    /\ pc = "exec" => running # Nobody /\ running \notin Queued

QueueInv == QueueType /\ RunsInPlace /\ OneShotAccounted

(* What the constants' assumptions say of the tasks.                       *)
LEMMA Identities ==
  /\ OneShots \cap Grants = {} /\ Tasks \cap Recurring = {}
  /\ Nobody \notin Tasks \union Recurring /\ Tasks = OneShots \union Grants
  /\ Garbled \cap Tasks = {}
BY LoopAssumption DEF Tasks

(* Waiting changes no task of the queue and brings deadlines closer.       *)
LEMMA AgedFacts ==
  ASSUME oneshot \in Seq(Shot), NEW d \in Nat
  PROVE  /\ AgedShots(d) \in Seq(Shot) /\ Len(AgedShots(d)) = Len(oneshot)
         /\ \A i \in 1..Len(oneshot) :
               /\ AgedShots(d)[i].task = oneshot[i].task
               /\ AgedShots(d)[i].left # NoDeadline =>
                     /\ oneshot[i].left # NoDeadline
                     /\ AgedShots(d)[i].left >= oneshot[i].left - d
<1>1. ASSUME NEW i \in 1..Len(oneshot)
      PROVE  /\ oneshot[i] \in Shot
             /\ AgedShots(d)[i] = [oneshot[i] EXCEPT !.left =
                   IF oneshot[i].left = NoDeadline THEN oneshot[i].left
                   ELSE Sooner(oneshot[i].left, d)]
  BY DEF AgedShots
<1>2. ASSUME NEW i \in 1..Len(oneshot)
      PROVE  /\ AgedShots(d)[i] \in Shot
             /\ AgedShots(d)[i].task = oneshot[i].task
             /\ AgedShots(d)[i].left # NoDeadline =>
                   /\ oneshot[i].left # NoDeadline
                   /\ AgedShots(d)[i].left >= oneshot[i].left - d
  <2> DEFINE s == oneshot[i]
  <2>1. s \in Shot /\ Horizon \in Nat /\ NoDeadline \notin Int
    BY <1>1, LoopAssumption
  <2>2. CASE s.left = NoDeadline
    <3>1. AgedShots(d)[i] = s
      BY <1>1, <2>1, <2>2 DEF Shot
    <3> QED  BY <2>1, <2>2, <3>1 DEF Shot
  <2>3. CASE s.left # NoDeadline
    <3>1. AgedShots(d)[i] = [s EXCEPT !.left = Sooner(s.left, d)]
      BY <1>1, <2>3
    <3>2. s.left \in Int
      BY <2>1, <2>3 DEF Shot
    <3>3. Sooner(s.left, d) \in Int /\ Sooner(s.left, d) >= s.left - d
      BY <2>1, <3>2 DEF Sooner
    <3> QED  BY <2>1, <2>3, <3>1, <3>3 DEF Shot
  <2> QED  BY <2>2, <2>3
<1>3. AgedShots(d) = [i \in 1..Len(oneshot) |-> AgedShots(d)[i]] /\ Len(oneshot) \in Nat
  BY DEF AgedShots
<1>4. AgedShots(d) \in Seq(Shot) /\ Len(AgedShots(d)) = Len(oneshot)
  BY <1>2, <1>3
<1> QED  BY <1>2, <1>4

(* So the queue is accounted for while time passes.                        *)
LEMMA AgedQueue ==
  ASSUME QueueInv, NEW d \in Nat, oneshot' = AgedShots(d)
  PROVE  oneshot' \in Seq(Shot) /\ Distinct(oneshot') /\ Queued' = Queued
<1>1. /\ oneshot' \in Seq(Shot) /\ Len(oneshot') = Len(oneshot)
      /\ \A i \in 1..Len(oneshot) : oneshot'[i].task = oneshot[i].task
  BY AgedFacts DEF QueueInv, QueueType
<1> QED  BY <1>1 DEF Queued, Distinct, QueueInv, OneShotAccounted

(* The deadlines a lease may carry are times.                              *)
LEMMA LeasesCarryOffers == Shots \subseteq Offer
<1>1. Expiries \subseteq Int
  BY LoopAssumption
<1> QED  BY <1>1 DEF Shots, Offer

(* The queue starts empty.                                                 *)
LEMMA InitQueue == Init => QueueInv
<1> SUFFICES ASSUME Init PROVE QueueInv
  OBVIOUS
<1>1. Len(oneshot) = 0 /\ oneshot \in Seq(Shot) /\ Queued = {}
  BY DEF Init, Queued
<1> QED  BY <1>1, Identities DEF Init, QueueInv, QueueType, RunsInPlace,
                                 OneShotAccounted

(* A step that keeps the queue, and neither hands out nor ends anything,   *)
(* keeps the account.                                                      *)
LEMMA QuietQueue ==
  ASSUME QueueInv, oneshot' \in Seq(Shot), Distinct(oneshot'), Queued' = Queued,
         UNCHANGED <<owed, outbox, running>>,
         pc' = pc \/ (/\ pc \notin {"exec", "drain"}
                      /\ pc' \in {"poll", "beat", "pick", "drain", "top", "flush"})
  PROVE  QueueInv'
<1>1. QueueType'
  BY DEF QueueInv, QueueType
<1>2. RunsInPlace'
  BY DEF QueueInv, QueueType, RunsInPlace
<1>3. OneShotAccounted'
  BY DEF QueueInv, OneShotAccounted, Distinct
<1> QED  BY <1>1, <1>2, <1>3 DEF QueueInv

(* Reaping moves what has expired from the queue to the results.           *)
LEMMA TopQueue ==
  ASSUME QueueInv, Top
  PROVE  QueueInv'
<1>1. /\ pc = "top" /\ pc' = "poll" /\ oneshot' = reap_expired(oneshot)
      /\ UNCHANGED running
      /\ outbox' = outbox \union {s.task : s \in {x \in ToSet(oneshot) : Expired(x)}}
      /\ owed' = owed \ {s.task : s \in {x \in ToSet(oneshot) : Expired(x)}}
  BY DEF Top
<1>2. oneshot \in Seq(Shot) /\ Distinct(oneshot) /\ running = Nobody
  BY <1>1 DEF QueueInv, QueueType, OneShotAccounted, Distinct, RunsInPlace
<1>3. PICK q \in Seq(Shot) : q = oneshot
  BY <1>2
<1>4. PICK r \in Seq(Shot) : r = reap_expired(q)
  BY ReapFacts DEF ReapedOk
<1>5. /\ \A i \in 1..Len(r) : \E j \in 1..Len(q) : r[i] = q[j] /\ ~Expired(q[j])
      /\ \A j \in 1..Len(q) : Expired(q[j]) \/ \E i \in 1..Len(r) : r[i] = q[j]
      /\ Distinct(r)
  <2>1. ReapedOk(q, Len(q), r) /\ Distinct(q)
    BY <1>2, <1>3, <1>4, ReapFacts
  <2> QED  BY <2>1, Zenon DEF ReapedOk
<1>6. oneshot' = r
  BY <1>1, <1>3, <1>4
<1> DEFINE gone == {q[j].task : j \in {k \in 1..Len(q) : Expired(q[k])}}
<1>7. outbox' = outbox \union gone /\ owed' = owed \ gone
  BY <1>1, <1>3 DEF ToSet
<1>8. Queued = TasksOf(q) /\ Queued' = TasksOf(r)
  BY <1>3, <1>6 DEF Queued, TasksOf
<1>9. TasksOf(q) = TasksOf(r) \union gone
  <2>1. ASSUME NEW j \in 1..Len(q) PROVE q[j].task \in TasksOf(r) \union gone
    <3>1. CASE Expired(q[j])
      BY <3>1
    <3>2. CASE ~Expired(q[j])
      BY <1>5, <3>2 DEF TasksOf
    <3> QED  BY <3>1, <3>2
  <2>2. ASSUME NEW i \in 1..Len(r) PROVE r[i].task \in TasksOf(q)
    BY <1>5 DEF TasksOf
  <2>3. gone \subseteq TasksOf(q)
    BY DEF TasksOf
  <2> QED  BY <2>1, <2>2, <2>3 DEF TasksOf
<1>10. TasksOf(r) \cap gone = {}
  <2> SUFFICES ASSUME NEW i \in 1..Len(r), NEW k \in 1..Len(q), Expired(q[k]),
                      r[i].task = q[k].task
               PROVE  FALSE
    BY DEF TasksOf
  <2>1. PICK j \in 1..Len(q) : r[i] = q[j] /\ ~Expired(q[j])
    BY <1>5
  <2>2. j = k
    BY <1>2, <1>3, <2>1 DEF Distinct
  <2> QED  BY <2>1, <2>2
<1>11. gone \subseteq Tasks
  <2>1. \A j \in 1..Len(q) : q[j] \in Shot
    OBVIOUS
  <2>2. \A j \in 1..Len(q) : q[j].task \in Tasks
    BY <2>1 DEF Shot
  <2> QED  BY <2>2
<1> HIDE DEF gone
<1>12. QueueType'
  BY <1>1, <1>6, <1>7, <1>11 DEF QueueInv, QueueType
<1>13. RunsInPlace'
  BY <1>1, <1>2 DEF RunsInPlace
<1>14. OneShotAccounted'
  <2>1. \A i, j \in 1..Len(oneshot') : oneshot'[i].task = oneshot'[j].task => i = j
    BY <1>5, <1>6 DEF Distinct
  <2>2. \A t \in Tasks : t \in owed' <=> t \in Queued' \/ (pc' = "exec" /\ running' = t)
    BY <1>1, <1>7, <1>8, <1>9, <1>10 DEF QueueInv, OneShotAccounted
  <2> QED  BY <2>1, <2>2 DEF OneShotAccounted
<1> QED  BY <1>12, <1>13, <1>14 DEF QueueInv

(* A lease queues what is readable and not queued yet, once.               *)
LEMMA PollOkQueue ==
  ASSUME QueueInv, NEW lease \in Leases, NEW assigned, NEW d \in Nat,
         PollOk(lease, assigned, d)
  PROVE  QueueInv'
<1>1. /\ pc = "poll" /\ pc' = "beat" /\ UNCHANGED <<running, outbox>>
      /\ oneshot' = Accepted(AgedShots(d), lease)[Len(lease)]
      /\ owed' = owed \union ({lease[i].task : i \in 1..Len(lease)} \ Garbled)
  BY DEF PollOk
<1>2. PICK q \in Seq(Shot) : /\ q = AgedShots(d) /\ Distinct(q)
                             /\ TasksOf(q) = Queued
  <2>1. /\ AgedShots(d) \in Seq(Shot) /\ Len(AgedShots(d)) = Len(oneshot)
        /\ \A i \in 1..Len(oneshot) : AgedShots(d)[i].task = oneshot[i].task
    BY AgedFacts DEF QueueInv, QueueType
  <2>2. Distinct(AgedShots(d)) /\ TasksOf(AgedShots(d)) = Queued
    BY <2>1 DEF Distinct, TasksOf, Queued, QueueInv, OneShotAccounted
  <2> QED  BY <2>1, <2>2
<1>3. PICK m \in 0..LeaseLimit : lease \in [1..m -> Shots]
  BY DEF Leases, SeqOf
<1>4. m \in Nat /\ Len(lease) = m /\ lease \in Seq(Shots)
  BY <1>3, LoopAssumption
<1>5. Shots \subseteq Offer
  BY LeasesCarryOffers
<1>6. lease \in Seq(Offer)
  BY <1>3, <1>4, <1>5
<1> DEFINE new == {lease[i].task : i \in 1..Len(lease)} \ Garbled
<1>7. new \subseteq Tasks
  BY <1>3, <1>4 DEF Shots
<1>8. PICK w \in Seq(Shot) : /\ w = Accepted(q, lease)[Len(lease)] /\ Distinct(w)
                             /\ TasksOf(w) = Queued \union new
  BY <1>2, <1>6, AcceptFacts DEF AcceptedOk
<1>9. oneshot' = w /\ Queued' = Queued \union new
  BY <1>1, <1>2, <1>8 DEF Queued, TasksOf
<1>10. running = Nobody
  BY <1>1 DEF QueueInv, RunsInPlace
<1> HIDE DEF new
<1>11. owed' = owed \union new
  BY <1>1 DEF new
<1>12. QueueType'
  BY <1>1, <1>7, <1>9, <1>11 DEF QueueInv, QueueType
<1>13. RunsInPlace'
  BY <1>1, <1>10 DEF RunsInPlace
<1>14. OneShotAccounted'
  <2>1. \A i, j \in 1..Len(oneshot') : oneshot'[i].task = oneshot'[j].task => i = j
    BY <1>8, <1>9 DEF Distinct
  <2>2. \A t \in Tasks : t \in owed' <=> t \in Queued' \/ (pc' = "exec" /\ running' = t)
    BY <1>1, <1>9, <1>11 DEF QueueInv, OneShotAccounted
  <2> QED  BY <2>1, <2>2 DEF OneShotAccounted
<1> QED  BY <1>12, <1>13, <1>14 DEF QueueInv

(* The head of the queue runs.                                             *)
LEMMA PickOneShotQueue ==
  ASSUME QueueInv, PickOneShot
  PROVE  QueueInv'
<1>1. /\ pc = "pick" /\ pc' = "exec" /\ oneshot # << >>
      /\ running' = Head(oneshot).task /\ oneshot' = Tail(oneshot)
      /\ UNCHANGED <<owed, outbox>>
  BY DEF PickOneShot
<1>2. PICK q \in Seq(Shot) : q = oneshot
  BY DEF QueueInv, QueueType
<1>3. /\ q # << >> /\ Len(q) \in Nat \ {0} /\ Tail(q) \in Seq(Shot)
      /\ Head(q) = q[1] /\ Len(Tail(q)) = Len(q) - 1
      /\ \A i \in 1..(Len(q) - 1) : Tail(q)[i] = q[i + 1]
  BY <1>1, <1>2
<1> DEFINE r == Tail(q)
           t1 == q[1].task
<1>4. Distinct(q)
  BY <1>2 DEF QueueInv, OneShotAccounted, Distinct
<1>5. Distinct(r)
  BY <1>3, <1>4 DEF Distinct
<1>6. TasksOf(q) = TasksOf(r) \union {t1}
  <2>1. ASSUME NEW i \in 1..Len(q) PROVE q[i].task \in TasksOf(r) \union {t1}
    <3>1. CASE i = 1
      BY <3>1
    <3>2. CASE i # 1
      <4>1. i - 1 \in 1..Len(r) /\ r[i - 1] = q[i]
        BY <1>3, <3>2
      <4> QED  BY <4>1 DEF TasksOf
    <3> QED  BY <3>1, <3>2
  <2>2. ASSUME NEW i \in 1..Len(r) PROVE r[i].task \in TasksOf(q)
    <3>1. i + 1 \in 1..Len(q) /\ r[i] = q[i + 1]
      BY <1>3
    <3> QED  BY <3>1 DEF TasksOf
  <2>3. t1 \in TasksOf(q)
    BY <1>3 DEF TasksOf
  <2> QED  BY <2>1, <2>2, <2>3 DEF TasksOf
<1>7. t1 \notin TasksOf(r)
  <2> SUFFICES ASSUME NEW i \in 1..Len(r), r[i].task = t1 PROVE FALSE
    BY DEF TasksOf
  <2>1. i + 1 \in 1..Len(q) /\ r[i] = q[i + 1] /\ 1 \in 1..Len(q) /\ i + 1 # 1
    BY <1>3
  <2> QED  BY <1>4, <2>1 DEF Distinct
<1>8. Queued = TasksOf(q) /\ Queued' = TasksOf(r) /\ running' = t1 /\ oneshot' = r
  BY <1>1, <1>2, <1>3 DEF Queued, TasksOf
<1>9. t1 \in Tasks
  <2>1. q[1] \in Shot
    BY <1>3
  <2> QED  BY <2>1 DEF Shot
<1>10. r \in Seq(Shot)
  BY <1>3
<1> HIDE DEF r, t1
<1>11. QueueType'
  BY <1>1, <1>8, <1>9, <1>10 DEF QueueInv, QueueType
<1>12. RunsInPlace'
  BY <1>1, <1>7, <1>8, <1>9, Identities DEF RunsInPlace
<1>13. OneShotAccounted'
  <2>1. \A i, j \in 1..Len(oneshot') : oneshot'[i].task = oneshot'[j].task => i = j
    BY <1>5, <1>8 DEF Distinct
  <2>2. \A t \in Tasks : t \in owed' <=> t \in Queued' \/ (pc' = "exec" /\ running' = t)
    BY <1>1, <1>6, <1>7, <1>8, <1>9 DEF QueueInv, OneShotAccounted
  <2> QED  BY <2>1, <2>2 DEF OneShotAccounted
<1> QED  BY <1>11, <1>12, <1>13 DEF QueueInv

(* What was run leaves its result, unless it is a grant.                   *)
LEMMA ExecuteQueue ==
  ASSUME QueueInv, NEW d \in Nat, Execute(d)
  PROVE  QueueInv'
<1>1. /\ pc = "exec" /\ pc' = "drain" /\ oneshot' = AgedShots(d)
      /\ UNCHANGED running /\ owed' = owed \ {running}
      /\ outbox' = IF running \in Grants THEN outbox ELSE outbox \union {running}
  BY DEF Execute, Elapse
<1>2. oneshot' \in Seq(Shot) /\ Distinct(oneshot') /\ Queued' = Queued
  BY <1>1, AgedQueue
<1>3. running \in Tasks \union Recurring /\ running \notin Queued
  BY <1>1 DEF QueueInv, QueueType, RunsInPlace
<1>4. outbox' \subseteq outbox \union {running} /\ outbox \subseteq outbox'
  BY <1>1
<1>5. QueueType'
  BY <1>1, <1>2, <1>3, <1>4 DEF QueueInv, QueueType
<1>6. RunsInPlace'
  BY <1>1 DEF RunsInPlace
<1>7. OneShotAccounted'
  <2>1. \A i, j \in 1..Len(oneshot') : oneshot'[i].task = oneshot'[j].task => i = j
    BY <1>2 DEF Distinct
  <2>2. \A t \in Tasks : t \in owed' <=> t \in Queued' \/ (pc' = "exec" /\ running' = t)
    BY <1>1, <1>2, <1>3 DEF QueueInv, OneShotAccounted
  <2> QED  BY <2>1, <2>2 DEF OneShotAccounted
<1> QED  BY <1>5, <1>6, <1>7 DEF QueueInv

(* Submitting takes results away and lets go of the task that was run.     *)
LEMMA SubmitQueue ==
  ASSUME QueueInv, pc \in {"drain", "flush"},
         oneshot' \in Seq(Shot), Distinct(oneshot'), Queued' = Queued, owed' = owed,
         outbox' \subseteq outbox, running' = Nobody, pc' \in {"top", "sleep", "stopped"}
  PROVE  QueueInv'
<1>1. QueueType'
  BY DEF QueueInv, QueueType
<1>2. RunsInPlace'
  BY DEF RunsInPlace
<1>3. OneShotAccounted'
  BY DEF QueueInv, OneShotAccounted, Distinct
<1> QED  BY <1>1, <1>2, <1>3 DEF QueueInv

(* Every step of the loop keeps the account of the one-shots.              *)
LEMMA NextQueue == QueueInv /\ CadenceInv /\ [Next]_vars => QueueInv'
<1> SUFFICES ASSUME QueueInv, CadenceInv, [Next]_vars PROVE QueueInv'
  OBVIOUS
<1>0. ASSUME UNCHANGED oneshot
      PROVE  oneshot' \in Seq(Shot) /\ Distinct(oneshot') /\ Queued' = Queued
  BY <1>0 DEF QueueInv, QueueType, OneShotAccounted, Distinct, Queued
<1>1. CASE Top
  BY <1>1, TopQueue
<1>2. CASE StopAtTop \/ SkipPoll \/ SkipHeartbeat \/ PickNothing \/ Shutdown
           \/ Stopped \/ UNCHANGED vars
  <2>1. /\ UNCHANGED <<oneshot, owed, outbox, running>>
        /\ pc' = pc \/ (/\ pc \notin {"exec", "drain"}
                        /\ pc' \in {"poll", "beat", "pick", "drain", "top", "flush"})
    BY <1>2 DEF StopAtTop, SkipPoll, SkipHeartbeat, PickNothing, Shutdown, Stopped,
                vars, plan
  <2> QED  BY <1>0, <2>1, QuietQueue
<1>3. CASE Poll
  <2>1. CASE \E lease \in Leases, assigned \in Assignments, d \in PollTimes :
               PollOk(lease, assigned, d)
    BY <2>1, Constants, PollOkQueue
  <2>2. CASE \E delay \in RetryDelays, d \in PollTimes : PollErr(delay, d)
    <3>1. PICK delay \in RetryDelays, d \in Nat : PollErr(delay, d)
      BY <2>2, Constants
    <3>2. /\ oneshot' = AgedShots(d) /\ pc = "poll" /\ pc' = "beat"
          /\ UNCHANGED <<owed, outbox, running>>
      BY <3>1 DEF PollErr
    <3> QED  BY <3>2, AgedQueue, QuietQueue
  <2> QED  BY <1>2, <1>3, <2>1, <2>2 DEF Poll
<1>4. CASE Beat
  <2>1. CASE \E d \in BeatTimes : Heartbeat(d)
    <3>1. PICK d \in Nat : Heartbeat(d)
      BY <2>1, Constants
    <3>2. /\ oneshot' = AgedShots(d) /\ pc = "beat" /\ pc' = "pick"
          /\ UNCHANGED <<owed, outbox, running>>
      BY <3>1 DEF Heartbeat
    <3> QED  BY <3>2, AgedQueue, QuietQueue
  <2> QED  BY <1>2, <1>4, <2>1 DEF Beat
<1>5. CASE PickOneShot
  BY <1>5, PickOneShotQueue
<1>6. ASSUME NEW t \in Recurring, PickRecurring(t) PROVE QueueInv'
  <2>1. /\ pc = "pick" /\ pc' = "exec" /\ running' = t /\ Len(oneshot) = 0
        /\ UNCHANGED <<oneshot, owed, outbox>>
    BY <1>6 DEF PickRecurring
  <2>2. Queued' = {} /\ Queued = {} /\ t \notin Tasks /\ t # Nobody /\ running = Nobody
    BY <2>1, Identities DEF Queued, QueueInv, RunsInPlace
  <2>3. QueueType' /\ RunsInPlace'
    BY <2>1, <2>2 DEF QueueInv, QueueType, RunsInPlace
  <2>4. OneShotAccounted'
    BY <2>1, <2>2, Identities DEF QueueInv, OneShotAccounted
  <2> QED  BY <2>3, <2>4 DEF QueueInv
<1>7. CASE \E d \in TaskTimes : Execute(d)
  BY <1>7, Constants, ExecuteQueue
<1>8. CASE Drain
  <2>1. PICK d \in Nat : /\ Elapse(d) /\ pc = "drain" /\ pc' = AfterDrain
                         /\ running' = Nobody /\ owed' = owed
                         /\ outbox' \subseteq outbox
    BY <1>8, Constants DEF Drain, DrainOk, DrainErr
  <2>2. oneshot' = AgedShots(d) /\ pc' \in {"top", "sleep"}
    BY <2>1 DEF Elapse, AfterDrain
  <2> QED  BY <2>1, <2>2, AgedQueue, SubmitQueue
<1>9. CASE Sleep
  <2>1. PICK d \in Nat : d = SleepTime
    BY SleepIsTime DEF CadenceInv
  <2>2. /\ oneshot' = AgedShots(d) /\ pc = "sleep" /\ pc' \in {"flush", "top"}
        /\ UNCHANGED <<owed, outbox, running>>
    BY <1>9, <2>1 DEF Sleep, Elapse
  <2> QED  BY <2>2, AgedQueue, QuietQueue
<1>10. CASE Flush
  <2>1. /\ pc = "flush" /\ pc' = "stopped" /\ UNCHANGED <<oneshot, owed, running>>
        /\ outbox' \subseteq outbox
    BY <1>10 DEF Flush, plan
  <2>2. running' = Nobody
    BY <2>1 DEF QueueInv, RunsInPlace
  <2> QED  BY <1>0, <2>1, <2>2, SubmitQueue
<1> QED  BY <1>1, <1>2, <1>3, <1>4, <1>5, <1>6, <1>7, <1>8, <1>9, <1>10
         DEF Next, Loop, Pick, Poll, Beat

(* For every lease -- of new one-shots, of queued, executed or answered    *)
(* ones, and of unreadable ones -- and every delay: a one-shot is queued   *)
(* once, and what was handed out readable and is neither executed nor      *)
(* reported is queued or about to be executed (Plan::accept, reap_expired, *)
(* next_due).                                                              *)
THEOREM OneShotsAreAccounted == Spec => []OneShotAccounted
<1>1. QueueInv => OneShotAccounted
  BY DEF QueueInv
<1> QED  BY <1>1, InitQueue, NextQueue, CadenceInvariance, PTL DEF Spec

-----------------------------------------------------------------------------
(* How late a one-shot may start.  Every queued one-shot is past its       *)
(* deadline by less than b.                                                *)
OverdueBelow(q, b) ==
    \A i \in 1..Len(q) : q[i].left # NoDeadline => q[i].left > -b

(* What the reap leaves is not overdue, and only the poll and the          *)
(* heartbeat lie between it and the pick.                                  *)
LatenessInv ==
    /\ late \in Nat /\ LatenessBounded
    /\ pc = "poll" => OverdueBelow(oneshot, 0)
    /\ pc = "beat" => OverdueBelow(oneshot, Max(PollTimes))
    /\ pc = "pick" => OverdueBelow(oneshot, Max(PollTimes) + Max(BeatTimes))

(* The longest poll and the longest heartbeat bound every other.           *)
LEMMA LongestWaits ==
  /\ Max(PollTimes) \in Nat /\ \A d \in PollTimes : d \in Nat /\ d <= Max(PollTimes)
  /\ Max(BeatTimes) \in Nat /\ \A d \in BeatTimes : d \in Nat /\ d <= Max(BeatTimes)
<1>1. PollTimes \subseteq Nat /\ \E m \in PollTimes : \A d \in PollTimes : m >= d
  BY LoopAssumption
<1>2. BeatTimes \subseteq Nat /\ \E m \in BeatTimes : \A d \in BeatTimes : m >= d
  BY LoopAssumption
<1>3. Max(PollTimes) \in PollTimes /\ \A d \in PollTimes : Max(PollTimes) >= d
  BY <1>1, Zenon DEF Max
<1>4. Max(BeatTimes) \in BeatTimes /\ \A d \in BeatTimes : Max(BeatTimes) >= d
  BY <1>2, Zenon DEF Max
<1> QED  BY <1>1, <1>2, <1>3, <1>4

(* Nothing is late by more than the bound when nothing is late at all.     *)
LEMMA PunctualIsBounded ==
  ASSUME late' = 0 PROVE late' \in Nat /\ LatenessBounded'
<1>1. Max({1, Max(PollTimes) + Max(BeatTimes)}) > 0
  <2>1. PICK m \in Nat : m = Max(PollTimes) + Max(BeatTimes)
    BY LongestWaits
  <2>2. Max({1, m}) > 0
    BY MaxTwo
  <2> QED  BY <2>1, <2>2
<1> QED  BY <1>1 DEF LatenessBounded

(* An await of d makes a queue overdue by at most d more.                  *)
LEMMA AgedOverdue ==
  ASSUME oneshot \in Seq(Shot), NEW d \in Nat, NEW b \in Nat, NEW c \in Nat, d + b <= c,
         OverdueBelow(oneshot, b)
  PROVE  OverdueBelow(AgedShots(d), c)
<1> SUFFICES ASSUME NEW i \in 1..Len(AgedShots(d)), AgedShots(d)[i].left # NoDeadline
             PROVE  AgedShots(d)[i].left > -c
  BY DEF OverdueBelow
<1>1. /\ i \in 1..Len(oneshot) /\ oneshot[i].left # NoDeadline
      /\ AgedShots(d)[i].left >= oneshot[i].left - d
      /\ AgedShots(d)[i] \in Shot /\ oneshot[i] \in Shot
  BY AgedFacts
<1>2. oneshot[i].left \in Int /\ AgedShots(d)[i].left \in Int
  BY <1>1 DEF Shot
<1>3. oneshot[i].left > -b
  BY <1>1 DEF OverdueBelow
<1> QED  BY <1>1, <1>2, <1>3

(* A wider bound is a weaker one.                                          *)
LEMMA OverdueWidens ==
  ASSUME NEW q \in Seq(Shot), NEW b \in Nat, NEW c \in Nat, b <= c, OverdueBelow(q, b)
  PROVE  OverdueBelow(q, c)
<1> SUFFICES ASSUME NEW i \in 1..Len(q), q[i].left # NoDeadline
             PROVE  q[i].left > -c
  BY DEF OverdueBelow
<1>1. q[i] \in Shot
  OBVIOUS
<1>2. q[i].left \in Int /\ q[i].left > -b
  BY <1>1 DEF OverdueBelow, Shot
<1> QED  BY <1>2

(* What the reap leaves is not overdue.                                    *)
LEMMA ReapedOverdue ==
  ASSUME NEW q \in Seq(Shot)
  PROVE  OverdueBelow(reap_expired(q), 0)
<1>1. PICK r \in Seq(Shot) : r = reap_expired(q)
  BY ReapFacts DEF ReapedOk
<1>2. \A i \in 1..Len(r) : r[i] \in Shot /\ ~Expired(r[i])
  <2>1. \A i \in 1..Len(r) : \E j \in 1..Len(q) : r[i] = q[j] /\ ~Expired(q[j])
    BY <1>1, ReapFacts DEF ReapedOk
  <2> QED  BY <2>1
<1>3. OverdueBelow(r, 0)
  BY <1>2 DEF OverdueBelow, Expired, Shot
<1> QED  BY <1>1, <1>3

(* What a lease adds has its deadline ahead of it, or just now.            *)
LEMMA AcceptedOverdue ==
  ASSUME NEW q \in Seq(Shot), Distinct(q), NEW b \in Nat, b > 0, OverdueBelow(q, b),
         NEW lease \in Seq(Offer),
         \A j \in 1..Len(lease) : lease[j].left \in Expiries \union {NoDeadline}
  PROVE  OverdueBelow(Accepted(q, lease)[Len(lease)], b)
<1>1. PICK w \in Seq(Shot) : w = Accepted(q, lease)[Len(lease)]
  BY AcceptFacts DEF AcceptedOk
<1>2. \A i \in 1..Len(w) : \/ \E j \in 1..Len(q) : w[i] = q[j]
                           \/ \E j \in 1..Len(lease) : w[i] = lease[j]
  <2>1. AcceptedOk(q, lease, Len(lease), w)
    BY <1>1, AcceptFacts
  <2> QED  BY <2>1, Zenon DEF AcceptedOk
<1>3. ASSUME NEW i \in 1..Len(w), w[i].left # NoDeadline PROVE w[i].left > -b
  <2>1. CASE \E j \in 1..Len(q) : w[i] = q[j]
    BY <1>3, <2>1 DEF OverdueBelow
  <2>2. CASE \E j \in 1..Len(lease) : w[i] = lease[j]
    <3>1. w[i].left \in Nat
      BY <1>3, <2>2, LoopAssumption
    <3> QED  BY <3>1
  <2> QED  BY <1>2, <2>1, <2>2
<1> QED  BY <1>1, <1>3 DEF OverdueBelow

(* A poll, however long, leaves nothing overdue by more than its length.   *)
LEMMA PollOkLateness ==
  ASSUME Max(PollTimes) > 0, QueueInv, LatenessInv,
         NEW lease \in Leases, NEW assigned, NEW d \in PollTimes, PollOk(lease, assigned, d)
  PROVE  OverdueBelow(oneshot', Max(PollTimes))
<1>1. /\ pc = "poll" /\ oneshot' = Accepted(AgedShots(d), lease)[Len(lease)]
  BY DEF PollOk
<1>2. PICK b \in Nat : b = Max(PollTimes) /\ b > 0 /\ d \in Nat /\ d <= b
  BY LongestWaits
<1>3. PICK q \in Seq(Shot) : q = AgedShots(d) /\ Distinct(q) /\ OverdueBelow(q, b)
  <2>1. /\ AgedShots(d) \in Seq(Shot) /\ Len(AgedShots(d)) = Len(oneshot)
        /\ \A i \in 1..Len(oneshot) : AgedShots(d)[i].task = oneshot[i].task
    BY <1>2, AgedFacts DEF QueueInv, QueueType
  <2>2. Distinct(AgedShots(d))
    BY <2>1 DEF Distinct, QueueInv, OneShotAccounted
  <2>3. OverdueBelow(AgedShots(d), b)
    BY <1>1, <1>2, AgedOverdue DEF LatenessInv, QueueInv, QueueType
  <2> QED  BY <2>1, <2>2, <2>3
<1>4. PICK m \in 0..LeaseLimit : lease \in [1..m -> Shots]
  BY DEF Leases, SeqOf
<1>5. m \in Nat /\ Len(lease) = m /\ lease \in Seq(Shots)
  BY <1>4, LoopAssumption
<1>6. Shots \subseteq Offer
  BY LeasesCarryOffers
<1>7. lease \in Seq(Offer)
  BY <1>4, <1>5, <1>6
<1>8. \A j \in 1..Len(lease) : lease[j].left \in Expiries \union {NoDeadline}
  BY <1>4, <1>5 DEF Shots
<1>9. OverdueBelow(Accepted(q, lease)[Len(lease)], b)
  BY <1>2, <1>3, <1>7, <1>8, AcceptedOverdue
<1> QED  BY <1>1, <1>2, <1>3, <1>9

(* The head of the queue is as late as it is overdue.                      *)
LEMMA PickOneShotLateness ==
  ASSUME QueueInv, LatenessInv, PickOneShot
  PROVE  LatenessInv'
<1>1. /\ pc = "pick" /\ pc' = "exec" /\ oneshot # << >>
      /\ late' = IF Head(oneshot).left = NoDeadline THEN 0 ELSE Max({0, -Head(oneshot).left})
  BY DEF PickOneShot
<1>2. CASE Head(oneshot).left = NoDeadline
  BY <1>1, <1>2, PunctualIsBounded DEF LatenessInv
<1>3. CASE Head(oneshot).left # NoDeadline
  <2>1. 1 \in 1..Len(oneshot) /\ Head(oneshot) = oneshot[1] /\ oneshot[1] \in Shot
    BY <1>1 DEF QueueInv, QueueType
  <2>2. PICK k \in Int : k = -Head(oneshot).left
    BY <1>3, <2>1 DEF Shot
  <2>3. PICK m \in Nat : m = Max(PollTimes) + Max(BeatTimes)
    BY LongestWaits
  <2>4. k < m
    <3>1. oneshot[1].left \in Int /\ oneshot[1].left > -m
      BY <1>1, <1>3, <2>1, <2>3 DEF LatenessInv, OverdueBelow, Shot
    <3> QED  BY <2>1, <2>2, <3>1
  <2>5. Max({0, k}) \in Nat /\ Max({0, k}) < Max({1, m})
    BY <2>4, MaxTwo
  <2>6. late' = Max({0, k})
    BY <1>1, <1>3, <2>2
  <2>7. late' \in Nat /\ LatenessBounded'
    BY <2>3, <2>5, <2>6 DEF LatenessBounded
  <2> QED  BY <1>1, <2>7 DEF LatenessInv
<1> QED  BY <1>2, <1>3

(* Every step of the loop keeps the bound.                                 *)
LEMMA NextLateness ==
  ASSUME Max(PollTimes) > 0, QueueInv, LatenessInv, [Next]_vars
  PROVE  LatenessInv'
<1>0. ASSUME late' = late PROVE late' \in Nat /\ LatenessBounded'
  BY <1>0 DEF LatenessInv, LatenessBounded
<1>1. CASE Top
  <2>1. pc' = "poll" /\ oneshot' = reap_expired(oneshot) /\ late' = late
    BY <1>1 DEF Top
  <2>2. OverdueBelow(oneshot', 0)
    <3>1. PICK q \in Seq(Shot) : q = oneshot
      BY DEF QueueInv, QueueType
    <3> QED  BY <2>1, <3>1, ReapedOverdue
  <2> QED  BY <1>0, <2>1, <2>2 DEF LatenessInv
<1>2. CASE Shutdown \/ Stopped \/ UNCHANGED vars
  <2>1. UNCHANGED <<pc, oneshot, late>>
    BY <1>2 DEF Shutdown, Stopped, vars, plan
  <2> QED  BY <1>0, <2>1 DEF LatenessInv, OverdueBelow
<1>3. CASE StopAtTop \/ PickNothing \/ Drain \/ Sleep \/ Flush
  <2>1. late' = late /\ pc' \notin {"poll", "beat", "pick"}
    BY <1>3 DEF StopAtTop, PickNothing, Drain, DrainOk, DrainErr, AfterDrain, Sleep, Flush
  <2> QED  BY <1>0, <2>1 DEF LatenessInv
<1>4. CASE Poll
  <2>1. late' = late /\ pc = "poll" /\ pc' = "beat"
    BY <1>4 DEF Poll, PollOk, PollErr, SkipPoll
  <2>2. OverdueBelow(oneshot', Max(PollTimes))
    <3>1. CASE \E lease \in Leases, assigned \in Assignments, d \in PollTimes :
                 PollOk(lease, assigned, d)
      BY <3>1, PollOkLateness
    <3>2. CASE \E delay \in RetryDelays, d \in PollTimes : PollErr(delay, d)
      <4>1. PICK d \in PollTimes : oneshot' = AgedShots(d)
        BY <3>2 DEF PollErr
      <4>2. OverdueBelow(AgedShots(d), Max(PollTimes))
        BY <2>1, LongestWaits, AgedOverdue DEF LatenessInv, QueueInv, QueueType
      <4> QED  BY <4>1, <4>2
    <3>3. CASE SkipPoll
      <4>1. PICK b \in Nat : b = Max(PollTimes)
        BY LongestWaits
      <4>2. PICK q \in Seq(Shot) : q = oneshot /\ oneshot' = q
        BY <3>3 DEF SkipPoll, plan, QueueInv, QueueType
      <4>3. OverdueBelow(q, b)
        <5>1. OverdueBelow(q, 0)
          BY <2>1, <4>2 DEF LatenessInv
        <5> QED  BY <5>1, OverdueWidens
      <4> QED  BY <4>1, <4>2, <4>3
    <3> QED  BY <1>4, <3>1, <3>2, <3>3 DEF Poll
  <2> QED  BY <1>0, <2>1, <2>2 DEF LatenessInv
<1>5. CASE Beat
  <2>1. late' = late /\ pc = "beat" /\ pc' = "pick"
    BY <1>5 DEF Beat, Heartbeat, SkipHeartbeat
  <2>2. OverdueBelow(oneshot', Max(PollTimes) + Max(BeatTimes))
    <3>0. PICK a \in Nat, b \in Nat : a = Max(PollTimes) /\ b = Max(BeatTimes)
      BY LongestWaits
    <3>1. CASE \E d \in BeatTimes : Heartbeat(d)
      <4>1. PICK d \in BeatTimes : oneshot' = AgedShots(d)
        BY <3>1 DEF Heartbeat
      <4>2. d \in Nat /\ d + a <= a + b /\ a + b \in Nat
        BY <3>0, LongestWaits
      <4>3. OverdueBelow(AgedShots(d), a + b)
        BY <2>1, <3>0, <4>2, AgedOverdue DEF LatenessInv, QueueInv, QueueType
      <4> QED  BY <3>0, <4>1, <4>3
    <3>2. CASE SkipHeartbeat
      <4>1. PICK q \in Seq(Shot) : q = oneshot /\ oneshot' = q
        BY <3>2 DEF SkipHeartbeat, plan, QueueInv, QueueType
      <4>2. OverdueBelow(q, a)
        BY <2>1, <3>0, <4>1 DEF LatenessInv
      <4>3. OverdueBelow(q, a + b)
        <5>1. a + b \in Nat /\ a <= a + b
          OBVIOUS
        <5> QED  BY <4>2, <5>1, OverdueWidens
      <4> QED  BY <3>0, <4>1, <4>3
    <3> QED  BY <1>5, <3>1, <3>2 DEF Beat
  <2> QED  BY <1>0, <2>1, <2>2 DEF LatenessInv
<1>6. CASE PickOneShot
  BY <1>6, PickOneShotLateness
<1>7. CASE (\E t \in Recurring : PickRecurring(t)) \/ (\E d \in TaskTimes : Execute(d))
  <2>1. late' = 0 /\ pc' \in {"exec", "drain"}
    BY <1>7 DEF PickRecurring, Execute
  <2> QED  BY <2>1, PunctualIsBounded DEF LatenessInv
<1> QED  BY <1>1, <1>2, <1>3, <1>4, <1>5, <1>6, <1>7 DEF Next, Loop, Pick

(* A one-shot starts at most a poll and a heartbeat past its deadline,     *)
(* whatever is queued before it and however long those take, provided that *)
(* a poll may take time at all (the reap at the top of Agent::run and the  *)
(* pick below it).                                                         *)
THEOREM LatenessIsBounded ==
  ASSUME Max(PollTimes) > 0
  PROVE  Spec => []LatenessBounded
<1>1. Init => LatenessInv
  <2>1. Init => late = 0 /\ pc = "top"
    BY DEF Init
  <2>2. Max({1, Max(PollTimes) + Max(BeatTimes)}) > 0
    <3>1. PICK m \in Nat : m = Max(PollTimes) + Max(BeatTimes)
      BY LongestWaits
    <3> QED  BY <3>1, MaxTwo
  <2> QED  BY <2>1, <2>2 DEF LatenessInv, LatenessBounded
<1>2. QueueInv /\ LatenessInv /\ [Next]_vars => LatenessInv'
  BY NextLateness
<1>3. LatenessInv => LatenessBounded
  BY DEF LatenessInv
<1> QED  BY <1>1, <1>2, <1>3, InitQueue, NextQueue, CadenceInvariance, PTL DEF Spec
=============================================================================

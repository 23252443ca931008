--------------------------- MODULE ControllerProofs -------------------------
(***************************************************************************)
(* The controller.  The task and result tables for any agents, pairings,   *)
(* one-shots, lease limit and number of lost answers, crashes and          *)
(* restarts; then the mesh scheduler for any group, any settings, any      *)
(* number of cycles and any sequence of changes.                           *)
(***************************************************************************)
EXTENDS TaskLedger, MeshScheduler, DataLemmas

Session == Nat \X Pairs
Row == [state : {"pending", "leased", "done"}, session : Session]
Entry == [task : Ids, session : Session]
Runs == [task : Ids, session : Session, time : Nat, valid : BOOLEAN]

(* The values the tables and the agents may hold: no row is "expired".     *)
TypeOK ==
    /\ DOMAIN tasks \subseteq Ids /\ tasks \in [DOMAIN tasks -> Row]
    /\ DOMAIN results \subseteq Runs
    /\ plan \in [Agents -> SUBSET Entry]
    /\ spool \in [Agents -> SUBSET Runs]
    /\ refused \subseteq Runs
    /\ cycle \in 0..MaxCycle /\ clock \in Nat /\ draws \in Nat

(* What an agent still has to run or to report is in the table, or has     *)
(* been answered before, or went with a deleted agent: apart from that     *)
(* only finished rows are removed.                                         *)
Known(t) == t \in DOMAIN tasks \union Answered \/ Orphaned(t)
HeldIsKnown ==
    \A a \in Agents :
        /\ \A e \in plan[a] : Known(e.task)
        /\ \A r \in spool[a] : Known(r.task)

IInv == TypeOK /\ HeldIsKnown /\ NoDoubleCount /\ NoAnswerLost

-----------------------------------------------------------------------------
(* The initial state satisfies the invariant.                              *)
LEMMA InitIInv == Init => IInv
<1> SUFFICES ASSUME Init PROVE IInv
  OBVIOUS
<1>1. DOMAIN tasks = {} /\ DOMAIN results = {}
  BY DEF Init, EmptyBag, SetToBag
<1>2. TypeOK
  BY <1>1, LedgerAssumption DEF Init, TypeOK
<1>3. HeldIsKnown
  BY DEF Init, HeldIsKnown
<1>4. NoDoubleCount /\ NoAnswerLost
  BY <1>1 DEF Init, NoDoubleCount, NoAnswerLost, InState
<1> QED  BY <1>2, <1>3, <1>4 DEF IInv

(* Rows that stay, or were finished or refer to a deleted agent when they  *)
(* went, leave every task an agent holds known, and what is finished has   *)
(* its result, as long as no row becomes finished.                         *)
LEMMA RowsIInv ==
  ASSUME IInv, TypeOK', results' = results, refused' = refused,
         gone \subseteq gone',
         \A t \in DOMAIN tasks \ DOMAIN tasks' :
            tasks[t].state = "done" \/ Orphaned(t)',
         \A t \in DOMAIN tasks' :
            tasks'[t].state = "done" =>
                t \in DOMAIN tasks /\ tasks[t].state = "done",
         \A a \in Agents : \A e \in plan'[a] : e \in plan[a] \/ e.task \in DOMAIN tasks,
         \A a \in Agents : \A r \in spool'[a] :
            r \in spool[a] \/ \E e \in plan[a] : r.task = e.task
  PROVE  IInv'
<1>1. Answered' = Answered
  BY DEF Answered
<1>2. \A t : Orphaned(t) => Orphaned(t)'
  BY DEF Orphaned, Refers, AgentOf
<1>3. \A t : Known(t) => Known(t)'
  <2> SUFFICES ASSUME NEW t, Known(t) PROVE Known(t)'
    OBVIOUS
  <2>1. CASE t \in DOMAIN tasks \ DOMAIN tasks'
    <3>1. CASE tasks[t].state = "done"
      <4>1. t \in Answered
        BY <2>1, <3>1 DEF IInv, NoAnswerLost, InState
      <4> QED  BY <1>1, <4>1 DEF Known
    <3>2. CASE Orphaned(t)'
      BY <3>2 DEF Known
    <3> QED  BY <2>1, <3>1, <3>2
  <2>2. CASE t \in DOMAIN tasks' \/ t \in Answered \/ Orphaned(t)
    BY <1>1, <1>2, <2>2 DEF Known
  <2> QED  BY <2>1, <2>2 DEF Known
<1>4. HeldIsKnown'
  <2>1. \A t \in DOMAIN tasks : Known(t)
    BY DEF Known
  <2>2. \A a \in Agents : /\ \A e \in plan'[a] : Known(e.task)
                          /\ \A r \in spool'[a] : Known(r.task)
    BY <2>1 DEF IInv, HeldIsKnown
  <2> QED  BY <1>3, <2>2 DEF HeldIsKnown
<1>5. NoAnswerLost'
  BY <1>1, <1>2 DEF IInv, NoAnswerLost, InState
<1>6. NoDoubleCount'
  BY DEF IInv, NoDoubleCount
<1> QED  BY <1>4, <1>5, <1>6 DEF IInv

(* Rewriting the state of a row leaves a row.                              *)
LEMMA Rewritten ==
  ASSUME NEW row \in Row, NEW s \in {"pending", "leased", "done"}
  PROVE  [row EXCEPT !.state = s] \in Row /\ [row EXCEPT !.state = s].state = s
BY DEF Row

(* The scheduler and the operator insert rows.                             *)
LEMMA CreateIInv ==
  ASSUME IInv, NEW pairs \in SUBSET Pairs, NEW batch \in Batches,
         NEW roles \in SUBSET Roles, Create(RowsFor(pairs, batch, roles)),
         cycle' \in 0..MaxCycle
  PROVE  IInv'
<1> DEFINE new == RowsFor(pairs, batch, roles)
<1>1. draws \in Nat
  BY DEF IInv, TypeOK
<1>2. DOMAIN new \subseteq Ids
  BY DEF RowsFor, Ids
<1>3. \A t \in DOMAIN new : new[t] \in Row /\ new[t].state = "pending"
  <2> SUFFICES ASSUME NEW t \in DOMAIN new
               PROVE  new[t] \in Row /\ new[t].state = "pending"
    OBVIOUS
  <2>1. new[t] = [state |-> "pending", session |-> <<draws, t.pair>>]
    BY DEF RowsFor
  <2>2. t.pair \in Pairs
    BY <1>2 DEF Ids
  <2> HIDE DEF new
  <2> QED  BY <2>1, <2>2, <1>1 DEF Row, Session
<1>4. tasks' = Insert(tasks, new)
  BY DEF Create
<1> HIDE DEF new
<1>5. /\ DOMAIN tasks' = DOMAIN tasks \union DOMAIN new
      /\ \A t \in DOMAIN tasks' :
            tasks'[t] = IF t \in DOMAIN tasks THEN tasks[t] ELSE new[t]
      /\ tasks' = [t \in DOMAIN tasks' |-> tasks'[t]]
  BY <1>4 DEF Insert
<1>6. TypeOK'
  <2>1. DOMAIN tasks' \subseteq Ids /\ tasks' \in [DOMAIN tasks' -> Row]
    BY <1>2, <1>3, <1>5 DEF IInv, TypeOK
  <2>2. UNCHANGED <<results, plan, spool, refused, clock>> /\ draws' \in Nat
    BY <1>1 DEF Create, agent
  <2> QED  BY <2>1, <2>2 DEF IInv, TypeOK
<1> QED  BY <1>3, <1>5, <1>6, RowsIInv DEF Create, agent

-----------------------------------------------------------------------------
(* Rows that are rewritten to another state that is not "done" keep their  *)
(* type and finish nothing: the form of a lease and of its running out.    *)
LEMMA Reset ==
  ASSUME IInv, NEW S, NEW s \in {"pending", "leased"},
         tasks' = [t \in DOMAIN tasks |->
                     IF t \in S THEN [tasks[t] EXCEPT !.state = s] ELSE tasks[t]]
  PROVE  /\ DOMAIN tasks' = DOMAIN tasks /\ tasks' \in [DOMAIN tasks' -> Row]
         /\ \A t \in DOMAIN tasks' : tasks'[t].state = "done" =>
                                         tasks[t].state = "done"
<1>1. \A t \in DOMAIN tasks : tasks[t] \in Row
  BY DEF IInv, TypeOK
<1>2. \A t \in DOMAIN tasks :
         /\ tasks'[t] \in Row
         /\ tasks'[t].state = "done" => tasks[t].state = "done"
  <2> TAKE t \in DOMAIN tasks
  <2>1. CASE t \in S
    <3>1. tasks'[t] = [tasks[t] EXCEPT !.state = s]
      BY <2>1, Zenon
    <3>2. tasks[t] \in Row /\ s \in {"pending", "leased", "done"}
      BY <1>1
    <3>3. tasks'[t] \in Row /\ tasks'[t].state = s
      BY <3>1, <3>2, Rewritten, Zenon
    <3> QED  BY <3>3
  <2>2. CASE t \notin S
    BY <1>1, <2>2
  <2> QED  BY <2>1, <2>2
<1>3. DOMAIN tasks' = DOMAIN tasks
  OBVIOUS
<1>4. tasks' \in [DOMAIN tasks' -> Row]
  BY <1>2, <1>3
<1> QED  BY <1>2, <1>3, <1>4

(* A poll, its answer received or lost.                                    *)
LEMMA PollIInv ==
  ASSUME IInv, NEW a \in Agents, NEW S, Poll(a, S) \/ PollLost(a, S)
  PROVE  IInv'
<1>1. /\ DOMAIN tasks' = DOMAIN tasks /\ tasks' \in [DOMAIN tasks' -> Row]
      /\ \A t \in DOMAIN tasks' : tasks'[t].state = "done" =>
                                      tasks[t].state = "done"
  BY Reset DEF Poll, PollLost, LeaseTasks
<1>2. S \subseteq DOMAIN tasks
  BY DEF Poll, PollLost, LeaseTasks, Pending, InState
<1>3. UNCHANGED <<results, refused, spool, gone, cycle, clock, draws>>
  BY DEF Poll, PollLost, agent
<1>4. /\ plan' \in [Agents -> SUBSET Entry]
      /\ \A b \in Agents : \A e \in plan'[b] : e \in plan[b] \/ e.task \in DOMAIN tasks
  <2>1. CASE PollLost(a, S)
    BY <2>1 DEF PollLost, agent, IInv, TypeOK
  <2>2. CASE Poll(a, S)
    <3> DEFINE new == {Dto(t) : t \in {u \in S : \A e \in plan[a] : e.task # u}}
    <3>1. \A t \in S : Dto(t) \in Entry /\ Dto(t).task = t
      <4> TAKE t \in S
      <4>1. tasks[t] \in Row /\ t \in Ids
        BY <1>2 DEF IInv, TypeOK
      <4>2. tasks[t].session \in Session
        BY <4>1 DEF Row
      <4> QED  BY <4>1, <4>2 DEF Dto, Entry
    <3>2. new \subseteq Entry /\ \A e \in new : e.task \in DOMAIN tasks
      BY <3>1, <1>2
    <3>3. plan' = [plan EXCEPT ![a] = plan[a] \union new]
      BY <2>2 DEF Poll
    <3> HIDE DEF new
    <3> QED  BY <3>2, <3>3 DEF IInv, TypeOK
  <2> QED  BY <2>1, <2>2
<1>5. TypeOK'
  BY <1>1, <1>3, <1>4 DEF IInv, TypeOK
<1> QED  BY <1>1, <1>3, <1>4, <1>5, RowsIInv

(* The agent runs a task, well or badly, or passes over a grant.           *)
LEMMA ExecuteIInv ==
  ASSUME IInv, NEW a \in Agents, NEW e \in plan[a],
         Execute(a, e) \/ ExecuteBadly(a, e) \/ SkipGrant(a, e)
  PROVE  IInv'
<1>1. e \in Entry /\ clock \in Nat
  BY DEF IInv, TypeOK
<1>2. CASE SkipGrant(a, e)
  <2>1. UNCHANGED <<tasks, results, refused, gone, cycle, draws, clock, spool>>
    BY <1>2 DEF SkipGrant, controller
  <2>2. plan' = [plan EXCEPT ![a] = plan[a] \ {e}]
    BY <1>2 DEF SkipGrant
  <2>3. /\ plan' \in [Agents -> SUBSET Entry]
        /\ \A b \in Agents : plan'[b] \subseteq plan[b]
    BY <2>2 DEF IInv, TypeOK
  <2>4. TypeOK'
    BY <2>1, <2>3 DEF IInv, TypeOK
  <2> QED  BY <2>1, <2>3, <2>4, RowsIInv
<1>3. ASSUME NEW v \in BOOLEAN, Run(a, e, v) PROVE IInv'
  <2> DEFINE run == [task |-> e.task, session |-> e.session, time |-> clock,
                     valid |-> v]
  <2>1. run \in Runs /\ run.task = e.task
    BY <1>1 DEF Entry, Runs
  <2>2. UNCHANGED <<tasks, results, refused, gone, cycle, draws>>
    BY <1>3 DEF Run, controller
  <2>3. plan' = [plan EXCEPT ![a] = plan[a] \ {e}]
    BY <1>3 DEF Run
  <2>4. clock' \in Nat /\ spool' = [spool EXCEPT ![a] = spool[a] \union {run}]
    BY <1>1, <1>3 DEF Run
  <2> HIDE DEF run
  <2>5. /\ plan' \in [Agents -> SUBSET Entry] /\ spool' \in [Agents -> SUBSET Runs]
        /\ \A b \in Agents : /\ plan'[b] \subseteq plan[b]
                             /\ \A r \in spool'[b] : r \in spool[b] \/ (b = a /\ r = run)
    BY <2>1, <2>3, <2>4 DEF IInv, TypeOK
  <2>6. TypeOK'
    BY <2>2, <2>4, <2>5 DEF IInv, TypeOK
  <2>7. \A b \in Agents : \A r \in spool'[b] :
           r \in spool[b] \/ \E f \in plan[b] : r.task = f.task
    BY <2>1, <2>5
  <2> QED  BY <2>2, <2>5, <2>6, <2>7, RowsIInv
<1> QED  BY <1>2, <1>3 DEF Execute, ExecuteBadly

-----------------------------------------------------------------------------
(* What the insert leaves in the table: the new runs once each, and the    *)
(* old ones as they were.                                                  *)
LEMMA StoredFacts ==
  ASSUME NoDoubleCount, NEW rs
  PROVE  /\ DOMAIN Stored(rs) = DOMAIN results \union rs
         /\ \A r \in DOMAIN Stored(rs) : Stored(rs)[r] = 1
<1>1. /\ DOMAIN SetToBag(rs \ DOMAIN results) = rs \ DOMAIN results
      /\ \A r \in rs \ DOMAIN results : SetToBag(rs \ DOMAIN results)[r] = 1
  BY DEF SetToBag
<1>2. \A r \in DOMAIN results : results[r] = 1
  BY DEF NoDoubleCount
<1> DEFINE B == SetToBag(rs \ DOMAIN results)
<1> HIDE DEF B
<1>3. Stored(rs) = [r \in DOMAIN results \union DOMAIN B |->
                      (IF r \in DOMAIN results THEN results[r] ELSE 0)
                      + (IF r \in DOMAIN B THEN B[r] ELSE 0)]
  BY DEF Stored, B, (+)
<1>4. DOMAIN B = rs \ DOMAIN results /\ \A r \in DOMAIN B : B[r] = 1
  BY <1>1 DEF B
<1> QED  BY <1>2, <1>3, <1>4

(* Results arrive, whichever of them fail and whether or not the answer    *)
(* comes back.                                                             *)
LEMMA SubmitIInv ==
  ASSUME IInv, NEW a \in Agents, NEW F \in SUBSET spool[a],
         Submit(a, F) \/ SubmitLost(a, F)
  PROVE  IInv'
<1> DEFINE tried == {r \in spool[a] \ F : r.valid}
           known == {r \in tried : r.task \in DOMAIN tasks}
           unknown == tried \ known
<1>1. /\ results' = Stored(known) /\ refused' = refused \union unknown
      /\ tasks' = [t \in DOMAIN tasks |->
                     IF \E r \in known : r.task = t
                     THEN [tasks[t] EXCEPT !.state = "done"] ELSE tasks[t]]
  BY DEF Submit, SubmitLost, SaveResults
<1>2. spool[a] \subseteq Runs
  BY DEF IInv, TypeOK
<1>3. known \subseteq Runs /\ unknown \subseteq Runs
  BY <1>2
<1>4. \A r \in unknown : r.task \in Answered \/ Orphaned(r.task)
  BY DEF IInv, HeldIsKnown, Known
<1> HIDE DEF known, unknown
<1>5. /\ DOMAIN results' = DOMAIN results \union known
      /\ \A r \in DOMAIN results' : results'[r] = 1
  BY <1>1, StoredFacts DEF IInv
<1>6. Answered' = Answered \union {r.task : r \in known}
  BY <1>5 DEF Answered
<1>7. DOMAIN tasks' = DOMAIN tasks
  BY <1>1
<1>8. \A t \in DOMAIN tasks :
         /\ tasks'[t] \in Row
         /\ tasks'[t] = tasks[t] \/ \E r \in known : r.task = t
  <2> TAKE t \in DOMAIN tasks
  <2>1. tasks[t] \in Row
    BY DEF IInv, TypeOK
  <2>2. CASE \E r \in known : r.task = t
    <3>1. tasks'[t] = [tasks[t] EXCEPT !.state = "done"]
      BY <1>1, <2>2, Zenon
    <3> QED  BY <3>1, <2>1, <2>2, Rewritten
  <2>3. CASE ~ \E r \in known : r.task = t
    BY <1>1, <2>1, <2>3
  <2> QED  BY <2>2, <2>3
<1>9. tasks' \in [DOMAIN tasks' -> Row]
  BY <1>1, <1>7, <1>8
<1>10. /\ plan' = plan /\ UNCHANGED <<gone, cycle, clock, draws>>
       /\ spool' \in [Agents -> SUBSET Runs]
       /\ \A b \in Agents : spool'[b] \subseteq spool[b]
  BY DEF Submit, SubmitLost, agent, IInv, TypeOK
<1>11. TypeOK'
  BY <1>3, <1>5, <1>1, <1>7, <1>9, <1>10 DEF IInv, TypeOK
<1>12. HeldIsKnown'
  <2>1. \A t : (Known(t) => Known(t)') /\ Orphaned(t)' = Orphaned(t)
    BY <1>6, <1>7, <1>10 DEF Known, Orphaned, Refers, AgentOf
  <2> QED  BY <1>10, <2>1 DEF IInv, HeldIsKnown
<1>13. NoDoubleCount'
  BY <1>5 DEF NoDoubleCount
<1>14. NoAnswerLost'
  <2>1. \A t : Orphaned(t) => Orphaned(t)'
    BY <1>10 DEF Orphaned, Refers, AgentOf
  <2> QED  BY <1>1, <1>4, <1>6, <1>7, <1>8, <2>1 DEF IInv, NoAnswerLost, InState
<1> QED  BY <1>11, <1>12, <1>13, <1>14 DEF IInv

(* The sweeps.                                                             *)
LEMMA SweepIInv ==
  ASSUME IInv, NEW S, ExpireLeases(S) \/ Purge(S)
  PROVE  IInv'
<1>1. UNCHANGED <<results, refused, plan, spool, gone, cycle, clock, draws>>
  BY DEF ExpireLeases, Purge, Remove, agent
<1>2. CASE ExpireLeases(S)
  <2>1. /\ DOMAIN tasks' = DOMAIN tasks /\ tasks' \in [DOMAIN tasks' -> Row]
        /\ \A t \in DOMAIN tasks' : tasks'[t].state = "done" =>
                                        tasks[t].state = "done"
    BY <1>2, Reset DEF ExpireLeases
  <2>2. TypeOK'
    BY <1>1, <2>1 DEF IInv, TypeOK
  <2> QED  BY <1>1, <2>1, <2>2, RowsIInv
<1>3. CASE Purge(S)
  <2>1. tasks' = [t \in DOMAIN tasks \ S |-> tasks[t]]
    BY <1>3 DEF Purge, Remove
  <2>2. \A t \in DOMAIN tasks \ DOMAIN tasks' : tasks[t].state = "done"
    <3>1. \A t \in DOMAIN tasks : tasks[t].state \in {"pending", "leased", "done"}
      <4>1. \A t \in DOMAIN tasks : tasks[t] \in Row
        BY DEF IInv, TypeOK
      <4> QED  BY <4>1 DEF Row
    <3>2. \A t \in S : t \in DOMAIN tasks /\ tasks[t].state \in {"done", "expired"}
      BY <1>3 DEF Purge, InState
    <3> QED  BY <2>1, <3>1, <3>2
  <2>3. TypeOK'
    BY <1>1, <2>1 DEF IInv, TypeOK
  <2> QED  BY <1>1, <2>1, <2>2, <2>3, RowsIInv
<1> QED  BY <1>2, <1>3

(* The operator deletes an agent: the rows that go refer to it.            *)
LEMMA DeleteIInv ==
  ASSUME IInv, NEW a \in Agents, DeleteAgent(a)
  PROVE  IInv'
<1>1. UNCHANGED <<results, refused, plan, spool, cycle, clock, draws>>
  BY DEF DeleteAgent, agent
<1>2. gone' = gone \union {a}
      /\ tasks' = [t \in {u \in DOMAIN tasks : a \notin Refers(u)} |-> tasks[t]]
  BY DEF DeleteAgent
<1>3. /\ DOMAIN tasks' \subseteq DOMAIN tasks
      /\ \A t \in DOMAIN tasks' : tasks'[t] = tasks[t]
      /\ \A t \in DOMAIN tasks \ DOMAIN tasks' : a \in Refers(t)
  BY <1>2
<1>4. \A t : a \in Refers(t) => Orphaned(t)'
  <2>1. \A t : Refers(t)' = Refers(t)
    BY DEF Refers, AgentOf
  <2> QED  BY <1>2, <2>1 DEF Orphaned
<1>5. TypeOK'
  <2>1. tasks' \in [DOMAIN tasks' -> Row]
    BY <1>2, <1>3 DEF IInv, TypeOK
  <2> QED  BY <1>1, <1>3, <2>1 DEF IInv, TypeOK
<1> QED  BY <1>1, <1>2, <1>3, <1>4, <1>5, RowsIInv

(* An agent or the controller dies.                                        *)
LEMMA CrashIInv ==
  ASSUME IInv, (\E a \in Agents : CrashAgent(a)) \/ RestartController
  PROVE  IInv'
<1>1. UNCHANGED <<tasks, results, refused, gone, clock, draws>>
  BY DEF CrashAgent, RestartController, controller
<1>2. /\ plan' \in [Agents -> SUBSET Entry] /\ spool' \in [Agents -> SUBSET Runs]
      /\ \A a \in Agents : plan'[a] \subseteq plan[a] /\ spool'[a] \subseteq spool[a]
      /\ cycle' \in 0..MaxCycle
  BY LedgerAssumption DEF CrashAgent, RestartController, agent, IInv, TypeOK
<1>3. TypeOK'
  BY <1>1, <1>2 DEF IInv, TypeOK
<1> QED  BY <1>1, <1>2, <1>3, RowsIInv

-----------------------------------------------------------------------------
(* Every step keeps the invariant.                                         *)
LEMMA NextIInv == IInv /\ [Next]_vars => IInv'
<1> SUFFICES ASSUME IInv, [Next]_vars PROVE IInv'
  OBVIOUS
<1>1. CASE UNCHANGED vars
  <2>1. /\ tasks' = tasks /\ results' = results /\ refused' = refused
        /\ plan' = plan /\ spool' = spool /\ gone' = gone /\ TypeOK'
    BY <1>1 DEF vars, IInv, TypeOK
  <2> QED  BY <2>1, RowsIInv
<1>2. CASE Schedule
  <2>1. cycle \in Batches /\ cycle' \in 0..MaxCycle
    BY <1>2, LedgerAssumption DEF Schedule, Batches, IInv, TypeOK
  <2> DEFINE pairs == {p \in Pairs : {p[1], p[2]} \cap gone = {}}
  <2>2. pairs \in SUBSET Pairs /\ Create(RowsFor(pairs, cycle, Roles))
    BY <1>2 DEF Schedule
  <2> HIDE DEF pairs
  <2> QED  BY <2>1, <2>2, CreateIInv
<1>3. ASSUME NEW o \in Shots, NEW p \in Pairs, CreateOneShot(o, p)
      PROVE  IInv'
  <2>1. cycle' \in 0..MaxCycle /\ o \in Batches /\ {p} \in SUBSET Pairs
    BY <1>3 DEF CreateOneShot, Batches, IInv, TypeOK
  <2> DEFINE roles == IF o \in Peerless THEN {"sender"} ELSE Roles
  <2>2. roles \in SUBSET Roles /\ Create(RowsFor({p}, o, roles))
    BY <1>3 DEF CreateOneShot, Roles
  <2> HIDE DEF roles
  <2> QED  BY <2>1, <2>2, CreateIInv
<1> QED  BY <1>1, <1>2, <1>3, PollIInv, ExecuteIInv, SubmitIInv, SweepIInv,
            DeleteIInv, CrashIInv DEF Next

(* The inductive invariant holds in every reachable state.                 *)
THEOREM LedgerInvariance == Spec => []IInv
BY InitIInv, NextIInv, PTL DEF Spec

(* A run is counted once, however often its batch is sent.                 *)
THEOREM RunsCountedOnce == Spec => []NoDoubleCount
<1>1. IInv => NoDoubleCount
  BY DEF IInv
<1> QED  BY <1>1, LedgerInvariance, PTL

(* A finished task has a result, and a valid run is refused as unknown     *)
(* only when its task has been answered or an agent it refers to has been  *)
(* deleted.                                                                *)
THEOREM NoTaskLosesItsAnswer == Spec => []NoAnswerLost
<1>1. IInv => NoAnswerLost
  BY DEF IInv
<1> QED  BY <1>1, LedgerInvariance, PTL

-----------------------------------------------------------------------------
(* The values the settings, the members and the counters may take.         *)
MeshType ==
    /\ group \in Settings /\ roster \in [Members -> Candidate]
    /\ cycles \in Nat /\ calm \in 0..cycles

(* The position the i-th of the usable agents reaches, o places past the   *)
(* next, going round.                                                      *)
After(i, o) == IF i + 1 + o < n THEN i + 1 + o ELSE i + 1 + o - n

(* The usable agents are lined up: each stands at one position.            *)
LEMMA Positions ==
  /\ n \in Nat /\ IsFiniteSet(Usable) /\ Usable \subseteq Members
  /\ \A i \in Nat : n # 0 => At(i) \in Usable
  /\ \A a \in Usable : \E i \in 0..(n - 1) : At(i) = a
  /\ \A i, j \in 0..(n - 1) : At(i) = At(j) => i = j
<1>1. PICK U : U = Usable
  OBVIOUS
<1>2. IsFiniteSet(U) /\ U \subseteq Int /\ Usable \subseteq Members
  <2>1. U \subseteq Members
    BY <1>1 DEF Usable
  <2>2. IsFiniteSet(U)
    BY <2>1, FS_Subset, MeshAssumption
  <2>3. U \subseteq Int
    BY <2>1, MeshAssumption
  <2> QED  BY <1>1, <2>1, <2>2, <2>3
<1>3. PICK m \in Nat : m = n /\ m = Cardinality(U)
  BY <1>1, <1>2, FS_CardinalityType DEF n
<1>4. /\ \A k \in 1..m : Nth(U, k) \in U
      /\ \A k, l \in 1..m : k < l => Nth(U, k) < Nth(U, l)
      /\ \A a \in U : \E k \in 1..m : Nth(U, k) = a
  BY <1>2, <1>3, NthFacts
<1>5. \A i \in 0..(m - 1) : i % m = i /\ At(i) = Nth(U, i + 1)
  BY <1>1, <1>3 DEF At
<1>6. ASSUME NEW i \in Nat, m # 0 PROVE At(i) \in U
  <2>1. (i % m) + 1 \in 1..m
    BY <1>6
  <2> QED  BY <1>1, <1>3, <1>4, <2>1 DEF At
<1>7. ASSUME NEW a \in U PROVE \E i \in 0..(m - 1) : At(i) = a
  <2>1. PICK k \in 1..m : Nth(U, k) = a
    BY <1>4
  <2>2. k - 1 \in 0..(m - 1) /\ (k - 1) + 1 = k
    OBVIOUS
  <2> QED  BY <1>5, <2>1, <2>2
<1>8. ASSUME NEW i \in 0..(m - 1), NEW j \in 0..(m - 1), At(i) = At(j)
      PROVE  i = j
  <2>1. i + 1 \in 1..m /\ j + 1 \in 1..m
    OBVIOUS
  <2>2. Nth(U, i + 1) = Nth(U, j + 1) /\ Nth(U, i + 1) \in Int
    BY <1>2, <1>4, <1>5, <1>8, <2>1
  <2>3. CASE i < j
    <3>1. Nth(U, i + 1) < Nth(U, j + 1)
      BY <1>4, <2>1, <2>3
    <3> QED  BY <2>2, <3>1
  <2>4. CASE j < i
    <3>1. Nth(U, j + 1) < Nth(U, i + 1)
      BY <1>4, <2>1, <2>4
    <3> QED  BY <2>2, <3>1
  <2> QED  BY <2>3, <2>4
<1> QED  BY <1>1, <1>2, <1>3, <1>6, <1>7, <1>8

(* Every place but one's own is some way ahead, and no two stand the same  *)
(* way behind it.                                                          *)
LEMMA Neighbours ==
  ASSUME n >= 2, NEW i \in 0..(n - 1)
  PROVE  /\ \A o \in 0..(n - 2) : /\ After(i, o) \in 0..(n - 1) /\ After(i, o) # i
                                  /\ At(i + 1 + o) = At(After(i, o))
                                  /\ At(i + 1 + o) \in Usable
                                  /\ At(i + 1 + o) # At(i)
         /\ \A j \in 0..(n - 1) : j # i => \E o \in 0..(n - 2) : After(i, o) = j
         /\ \A j \in 0..(n - 1) : \A o \in 0..(n - 2) :
               At(i + 1 + o) = At(j + 1 + o) => i = j
<1>1. PICK m \in Nat : m = n /\ m >= 2
  BY Positions
<1>2. ASSUME NEW j \in 0..(m - 1), NEW o \in 0..(m - 2)
      PROVE  After(j, o) \in 0..(m - 1) /\ After(j, o) # j
             /\ At(j + 1 + o) = At(After(j, o))
  <2>1. After(j, o) \in 0..(m - 1) /\ After(j, o) # j
    BY <1>1 DEF After
  <2>2. CASE j + 1 + o < m
    BY <1>1, <2>2 DEF After
  <2>3. CASE ~(j + 1 + o < m)
    <3>1. (j + 1 + o) % m = j + 1 + o - m /\ (j + 1 + o - m) % m = j + 1 + o - m
      BY <1>1, <2>3
    <3> QED  BY <1>1, <2>3, <3>1 DEF After, At
  <2> QED  BY <2>1, <2>2, <2>3
<1>3. ASSUME NEW o \in 0..(m - 2)
      PROVE  At(i + 1 + o) \in Usable /\ At(i + 1 + o) # At(i)
  <2>1. i + 1 + o \in Nat /\ i \in 0..(m - 1)
    BY <1>1
  <2>2. /\ After(i, o) \in 0..(m - 1) /\ After(i, o) # i
        /\ At(i + 1 + o) = At(After(i, o))
    BY <1>2, <2>1
  <2>3. At(i + 1 + o) \in Usable
    BY <1>1, <2>1, Positions
  <2> QED  BY <1>1, <2>1, <2>2, <2>3, Positions
<1>4. ASSUME NEW j \in 0..(m - 1), j # i
      PROVE  \E o \in 0..(m - 2) : After(i, o) = j
  <2>1. CASE i < j
    <3>1. j - i - 1 \in 0..(m - 2) /\ After(i, j - i - 1) = j
      BY <1>1, <2>1 DEF After
    <3> QED  BY <3>1
  <2>2. CASE j < i
    <3>1. j - i - 1 + m \in 0..(m - 2) /\ After(i, j - i - 1 + m) = j
      BY <1>1, <2>2 DEF After
    <3> QED  BY <3>1
  <2> QED  BY <1>1, <1>4, <2>1, <2>2
<1>5. ASSUME NEW j \in 0..(m - 1), NEW o \in 0..(m - 2), At(i + 1 + o) = At(j + 1 + o)
      PROVE  i = j
  <2>1. i \in 0..(m - 1)
    BY <1>1
  <2>2. At(After(i, o)) = At(After(j, o)) /\ After(i, o) \in 0..(m - 1)
        /\ After(j, o) \in 0..(m - 1)
    BY <1>2, <1>5, <2>1
  <2>3. After(i, o) = After(j, o)
    BY <1>1, <2>2, Positions
  <2> QED  BY <1>1, <2>1, <2>3 DEF After
<1> QED  BY <1>1, <1>2, <1>3, <1>4, <1>5

(* The fanout lies between one and the number of peers, and an offset      *)
(* never leads back to the agent itself.                                   *)
LEMMA FanoutFacts ==
  ASSUME MeshType, n >= 2
  PROVE  /\ Fanout \in 1..(n - 1) /\ Fanout <= Max({group.fanout, 1})
         /\ Max({group.fanout, 1}) \in Nat
         /\ \A k \in Nat : Offset(k) \in 0..(n - 2)
<1>1. PICK m \in Nat : m = n /\ m >= 2
  BY Positions
<1>2. PICK f \in Int : f = group.fanout
  BY MeshAssumption DEF MeshType
<1>3. PICK x \in Nat : x = Max({f, 1}) /\ x >= 1
  <2>1. Max({f, 1}) = IF f <= 1 THEN 1 ELSE f
    BY MaxTwo
  <2> QED  BY <2>1
<1>4. Fanout = IF x <= m - 1 THEN x ELSE m - 1
  <2>1. Min({x, m - 1}) = IF x <= m - 1 THEN x ELSE m - 1
    BY <1>1, MinTwo
  <2> QED  BY <1>1, <1>2, <1>3, <2>1 DEF Fanout
<1>5. PICK F \in Nat : F = Fanout
  BY <1>1, <1>3, <1>4
<1>6. ASSUME NEW k \in Nat PROVE Offset(k) \in 0..(m - 2)
  <2>1. PICK a \in Nat : a = cycles * F + k
    BY DEF MeshType
  <2>2. a % (m - 1) \in 0..(m - 2)
    BY <1>1
  <2> QED  BY <1>1, <1>5, <2>1, <2>2 DEF Offset
<1> QED  BY <1>1, <1>2, <1>3, <1>4, <1>6

-----------------------------------------------------------------------------
(* Whatever the plan, it pairs usable agents and leaves none of them out.  *)
LEMMA Planned ==
  ASSUME MeshType, n >= 2
  PROVE  /\ candidates \subseteq Usable \X Usable
         /\ \A a \in Usable : \E p \in candidates : p[1] # p[2] /\ a \in {p[1], p[2]}
<1>1. PICK m \in Nat : m = n /\ m >= 2
  BY Positions
<1>2. ASSUME NEW a \in Usable PROVE \E b \in Usable : b # a
  <2>1. PICK i \in 0..(m - 1) : At(i) = a
    BY <1>1, Positions
  <2>2. i \in 0..(n - 1) /\ 0 \in 0..(n - 2)
    BY <1>1
  <2>3. At(i + 1 + 0) \in Usable /\ At(i + 1 + 0) # At(i)
    BY <1>1, <2>2, Neighbours
  <2> QED  BY <2>1, <2>3
<1>3. /\ fullMesh \subseteq Usable \X Usable
      /\ \A a \in Usable : \E p \in fullMesh : p[1] # p[2] /\ a \in {p[1], p[2]}
  <2>1. ASSUME NEW a \in Usable
        PROVE  \E p \in fullMesh : p[1] # p[2] /\ a \in {p[1], p[2]}
    <3>1. PICK b \in Usable : b # a
      BY <1>2
    <3>2. <<a, b>> \in fullMesh
      BY <3>1 DEF fullMesh
    <3> QED  BY <3>1, <3>2
  <2> QED  BY <2>1 DEF fullMesh
<1>4. /\ ring \subseteq Usable \X Usable
      /\ \A a \in Usable : \E p \in ring : p[1] # p[2] /\ a \in {p[1], p[2]}
  <2>1. ASSUME NEW i \in 0..(m - 1)
        PROVE  At(i) \in Usable /\ At(i + 1) \in Usable /\ At(i + 1) # At(i)
    <3>1. i \in 0..(n - 1) /\ 0 \in 0..(n - 2) /\ i + 1 + 0 = i + 1 /\ n # 0
      BY <1>1
    <3>2. At(i + 1 + 0) \in Usable /\ At(i + 1 + 0) # At(i)
      BY <1>1, <3>1, Neighbours
    <3>3. At(i) \in Usable
      BY <3>1, Positions
    <3> QED  BY <3>1, <3>2, <3>3
  <2>2. ring = {<<At(i), At(i + 1)>> : i \in 0..(m - 1)}
    BY <1>1 DEF ring
  <2>3. ASSUME NEW a \in Usable
        PROVE  \E p \in ring : p[1] # p[2] /\ a \in {p[1], p[2]}
    <3>1. PICK i \in 0..(m - 1) : At(i) = a
      BY <1>1, Positions
    <3>2. <<At(i), At(i + 1)>> \in ring
      BY <2>2
    <3> QED  BY <2>1, <3>1, <3>2
  <2> QED  BY <2>1, <2>2, <2>3
<1>5. /\ hub \subseteq Usable \X Usable
      /\ \A a \in Usable : \E p \in hub : p[1] # p[2] /\ a \in {p[1], p[2]}
  <2> DEFINE hubs == group.hubs \intersect Usable
  <2>1. CASE hubs = {}
    BY <1>4, <2>1 DEF hub
  <2>2. CASE hubs # {}
    <3>1. hub = {p \in Usable \X hubs : p[1] # p[2]}
      BY <2>2 DEF hub
    <3>2. ASSUME NEW a \in Usable
          PROVE  \E p \in hub : p[1] # p[2] /\ a \in {p[1], p[2]}
      <4>1. PICK h \in hubs : TRUE
        BY <2>2
      <4>2. CASE h # a
        <5>1. <<a, h>> \in hub
          BY <3>1, <4>1, <4>2
        <5> QED  BY <4>2, <5>1
      <4>3. CASE h = a
        <5>1. PICK b \in Usable : b # a
          BY <1>2
        <5>2. <<b, a>> \in hub
          BY <3>1, <4>1, <4>3, <5>1
        <5> QED  BY <5>1, <5>2
      <4> QED  BY <4>2, <4>3
    <3> QED  BY <3>1, <3>2
  <2> QED  BY <2>1, <2>2
<1>6. /\ partial \subseteq Usable \X Usable
      /\ \A a \in Usable : \E p \in partial : p[1] # p[2] /\ a \in {p[1], p[2]}
  <2>1. PICK F \in Nat : F = Fanout /\ F >= 1
    BY <1>1, FanoutFacts
  <2>2. ASSUME NEW i \in 0..(m - 1), NEW k \in 0..(F - 1)
        PROVE  /\ At(i) \in Usable /\ At(i + 1 + Offset(k)) \in Usable
               /\ At(i + 1 + Offset(k)) # At(i)
    <3>1. PICK o \in 0..(m - 2) : o = Offset(k)
      BY <1>1, FanoutFacts
    <3>2. i \in 0..(n - 1) /\ o \in 0..(n - 2) /\ n # 0
      BY <1>1
    <3>3. At(i + 1 + o) \in Usable /\ At(i + 1 + o) # At(i)
      BY <1>1, <3>2, Neighbours
    <3>4. At(i) \in Usable
      BY <3>2, Positions
    <3> QED  BY <3>1, <3>3, <3>4
  <2>3. partial = {<<At(i), At(i + 1 + Offset(k))>> : i \in 0..(m - 1), k \in 0..(F - 1)}
    BY <1>1, <2>1 DEF partial
  <2>4. partial \subseteq Usable \X Usable
    BY <2>2, <2>3
  <2>5. ASSUME NEW a \in Usable
        PROVE  \E p \in partial : p[1] # p[2] /\ a \in {p[1], p[2]}
    <3>1. PICK i \in 0..(m - 1) : At(i) = a
      BY <1>1, Positions
    <3>2. 0 \in 0..(F - 1)
      BY <2>1
    <3>3. <<At(i), At(i + 1 + Offset(0))>> \in partial
      BY <2>3, <3>2
    <3> QED  BY <2>2, <3>1, <3>2, <3>3
  <2> QED  BY <2>4, <2>5
<1> QED  BY <1>3, <1>4, <1>5, <1>6 DEF candidates

-----------------------------------------------------------------------------
impossible == {p \in candidates : ~Possible(p) /\ ~Possible(Flip(p))}

(* Whom a plan leaves out: of fewer than two agents all, else those that   *)
(* cannot be used, and the pairs that cannot be measured.                  *)
LEMMA LeftOut ==
  LET E == PlanMesh.excluded
  IN  /\ n < 2 => /\ \A a \in Members : \E e \in E : e.who = {a}
                  /\ \A e \in E : \E a \in Members : e.who = {a}
      /\ ~(n < 2) =>
            /\ \A a \in Members \ Usable : \E e \in E : e.who = {a}
            /\ \A p \in impossible : \E e \in E : e.who = {p[1], p[2]}
            /\ \A e \in E :
                  \/ \E a \in Members : e.who = {a}
                  \/ \E p \in impossible :
                        /\ e.who = {p[1], p[2]}
                        /\ e.reason = orientationFailure(p[1], p[2])
<1> DEFINE lost(a) == [who |-> {a}, reason |-> roster[a].cond]
           alone(a) == [who |-> {a}, reason |-> "single agent"]
           apart(p) == [who |-> {p[1], p[2]}, reason |-> orientationFailure(p[1], p[2])]
<1>1. PICK E : E = PlanMesh.excluded
  OBVIOUS
<1>2. Usable \subseteq Members
  BY Positions
<1>3. \A a : lost(a).who = {a} /\ alone(a).who = {a}
  OBVIOUS
<1>4. \A p : apart(p).who = {p[1], p[2]}
             /\ apart(p).reason = orientationFailure(p[1], p[2])
  OBVIOUS
<1>5. CASE n < 2
  <2>1. E = {lost(a) : a \in Members \ Usable} \union {alone(a) : a \in Usable}
    BY <1>1, <1>5 DEF PlanMesh
  <2> HIDE DEF lost, alone
  <2>2. ASSUME NEW a \in Members PROVE \E e \in E : e.who = {a}
    <3>1. CASE a \in Usable
      <4>1. alone(a) \in E
        BY <2>1, <3>1
      <4> QED  BY <1>3, <4>1
    <3>2. CASE a \notin Usable
      <4>1. lost(a) \in E
        BY <2>1, <3>2
      <4> QED  BY <1>3, <4>1
    <3> QED  BY <3>1, <3>2
  <2>3. ASSUME NEW e \in E PROVE \E a \in Members : e.who = {a}
    <3>1. \E a \in Members : e = lost(a) \/ e = alone(a)
      BY <1>2, <2>1
    <3> QED  BY <1>3, <3>1
  <2> QED  BY <1>1, <1>5, <2>2, <2>3
<1>6. CASE ~(n < 2)
  <2>1. E = {lost(a) : a \in Members \ Usable} \union {apart(p) : p \in impossible}
    BY <1>1, <1>6 DEF PlanMesh, impossible
  <2> HIDE DEF lost, apart
  <2>2. ASSUME NEW a \in Members \ Usable PROVE \E e \in E : e.who = {a}
    <3>1. lost(a) \in E
      BY <2>1
    <3> QED  BY <1>3, <3>1
  <2>3. ASSUME NEW p \in impossible PROVE \E e \in E : e.who = {p[1], p[2]}
    <3>1. apart(p) \in E
      BY <2>1
    <3> QED  BY <1>4, <3>1
  <2>4. ASSUME NEW e \in E
        PROVE  \/ \E a \in Members : e.who = {a}
               \/ \E p \in impossible :
                     /\ e.who = {p[1], p[2]}
                     /\ e.reason = orientationFailure(p[1], p[2])
    <3>1. (\E a \in Members : e = lost(a)) \/ (\E p \in impossible : e = apart(p))
      BY <2>1
    <3> QED  BY <1>3, <1>4, <3>1
  <2> QED  BY <1>1, <1>6, <2>2, <2>3, <2>4
<1> QED  BY <1>5, <1>6

(* What the plan of two agents or more pairs.                              *)
LEMMA PairedOff ==
  ASSUME MeshType, n >= 2
  PROVE  /\ PlanMesh.pairings = {p \in Oriented : p[1] # p[2]}
         /\ Oriented \subseteq Usable \X Usable
<1>1. ~(n < 2)
  BY Positions
<1>2. Oriented \subseteq Usable \X Usable
  <2>1. ASSUME NEW p \in candidates
        PROVE  p \in Usable \X Usable /\ Flip(p) \in Usable \X Usable
    BY Planned DEF Flip
  <2> QED  BY <2>1 DEF Oriented
<1> QED  BY <1>1, <1>2 DEF PlanMesh

(* Every member of the group and every planned pair is measured or named.  *)
LEMMA GapsAreDeclared ==
  ASSUME MeshType
  PROVE  GapsDeclared
<1>1. PICK m \in Nat : m = n /\ Usable \subseteq Members
  BY Positions
<1>2. PICK E : E = PlanMesh.excluded
  OBVIOUS
<1> DEFINE named == UNION {e.who : e \in E}
           probed == UNION {{p[1], p[2]} : p \in PlanMesh.pairings}
           settled == {{p[1], p[2]} : p \in PlanMesh.pairings}
                        \union {e.who : e \in E}
<1>3. CASE m < 2
  <2>1. probed = {}
    BY <1>1, <1>3 DEF PlanMesh
  <2>2. /\ \A a \in Members : \E e \in E : e.who = {a}
        /\ \A e \in E : \E a \in Members : e.who = {a}
    BY <1>1, <1>2, <1>3, LeftOut
  <2>3. named = Members
    BY <2>2
  <2>4. ~(n >= 2)
    BY <1>1, <1>3
  <2> QED  BY <1>2, <2>1, <2>3, <2>4 DEF GapsDeclared
<1>4. CASE m >= 2
  <2>1. /\ PlanMesh.pairings = {p \in Oriented : p[1] # p[2]}
        /\ Oriented \subseteq Usable \X Usable
    BY <1>1, <1>4, PairedOff
  <2>2. /\ candidates \subseteq Usable \X Usable
        /\ \A a \in Usable : \E p \in candidates : p[1] # p[2] /\ a \in {p[1], p[2]}
    BY <1>1, <1>4, Planned
  <2>3. /\ \A a \in Members \ Usable : \E e \in E : e.who = {a}
        /\ \A p \in impossible : \E e \in E : e.who = {p[1], p[2]}
        /\ \A e \in E : \/ \E a \in Members : e.who = {a}
                        \/ \E p \in impossible : e.who = {p[1], p[2]}
    <3>1. ~(n < 2)
      BY <1>1, <1>4
    <3> QED  BY <1>2, <3>1, LeftOut
  <2>4. probed \subseteq Members
    BY <1>1, <2>1
  <2>5. named \subseteq Members
    <3>1. \A p \in impossible : {p[1], p[2]} \subseteq Members
      BY <1>1, <2>2 DEF impossible
    <3> QED  BY <2>3, <3>1
  <2>6. ASSUME NEW p \in candidates, p[1] # p[2]
        PROVE  {p[1], p[2]} \in settled
    <3>1. CASE Possible(p)
      <4>1. p \in PlanMesh.pairings
        BY <2>1, <2>6, <3>1 DEF Oriented
      <4> QED  BY <4>1
    <3>2. CASE ~Possible(p) /\ Possible(Flip(p))
      <4>1. Flip(p) \in Oriented
        BY <2>6, <3>2 DEF Oriented
      <4>2. Flip(p)[1] = p[2] /\ Flip(p)[2] = p[1]
        BY DEF Flip
      <4>3. Flip(p) \in PlanMesh.pairings
        BY <2>1, <2>6, <4>1, <4>2
      <4>4. {p[1], p[2]} = {Flip(p)[1], Flip(p)[2]}
        BY <4>2
      <4> QED  BY <4>3, <4>4
    <3>3. CASE ~Possible(p) /\ ~Possible(Flip(p))
      <4>1. p \in impossible
        BY <2>6, <3>3 DEF impossible
      <4> QED  BY <2>3, <4>1
    <3> QED  BY <3>1, <3>2, <3>3
  <2>7. ASSUME NEW a \in Usable PROVE a \in named \union probed
    <3>1. PICK p \in candidates : p[1] # p[2] /\ a \in {p[1], p[2]}
      BY <2>2
    <3>2. {p[1], p[2]} \in settled
      BY <2>6, <3>1
    <3> QED  BY <3>1, <3>2
  <2>8. \A a \in Members \ Usable : a \in named
    BY <2>3
  <2> HIDE DEF named, probed, settled
  <2>9. named \union probed = Members
    BY <2>4, <2>5, <2>7, <2>8
  <2> QED  BY <1>2, <2>6, <2>9 DEF GapsDeclared, named, probed, settled
<1> QED  BY <1>1, <1>3, <1>4

(* Of a pair that cannot be measured, the reason given is the one to fix.  *)
LEMMA ReasonsBind ==
  ASSUME MeshType
  PROVE  ReasonIsBinding
<1>1. PICK m \in Nat : m = n /\ Usable \subseteq Members
  BY Positions
<1>2. SUFFICES ASSUME NEW e \in PlanMesh.excluded, Cardinality(e.who) = 2
               PROVE  \/ \E a \in e.who : \E b \in e.who \ {a} : Fixed(a, b, e.reason)
                      \/ \A a \in e.who : roster[a].reflector_only /\ ~roster[a].reachable
  BY DEF ReasonIsBinding
<1>3. ASSUME NEW a PROVE e.who # {a}
  <2>1. Cardinality({a}) = 1
    BY FS_Singleton
  <2> QED  BY <1>2, <2>1
<1>4. ~(n < 2)
  BY <1>2, <1>3, LeftOut
<1>5. PICK p \in impossible : /\ e.who = {p[1], p[2]}
                              /\ e.reason = orientationFailure(p[1], p[2])
  BY <1>2, <1>3, <1>4, LeftOut
<1>6. p \in Usable \X Usable /\ ~Possible(p) /\ ~Possible(Flip(p))
  <2>1. n >= 2
    BY <1>1, <1>4
  <2> QED  BY <1>5, <2>1, Planned DEF impossible
<1>7. PICK a \in Members, b \in Members : p = <<a, b>>
  BY <1>1, <1>6
<1>8. a # b /\ e.who = {a, b} /\ e.reason = orientationFailure(a, b)
  BY <1>3, <1>5, <1>7
<1>9. ~orientable(a, b) /\ ~orientable(b, a)
  BY <1>6, <1>7 DEF Possible, Flip
<1>10. CASE roster[a].reachable \/ roster[b].reachable
  <2>1. e.reason # "both behind NAT"
    BY <1>8, <1>9, <1>10 DEF orientationFailure, orientable
  <2>2. \A x, y : roster[y].reachable => Fixed(x, y, e.reason)
    BY <2>1 DEF Fixed
  <2> QED  BY <1>8, <1>10, <2>2
<1>11. CASE ~roster[a].reachable /\ ~roster[b].reachable
  <2>1. CASE roster[a].reflector_only /\ roster[b].reflector_only
    BY <1>8, <1>11, <2>1
  <2>2. CASE ~(roster[a].reflector_only /\ roster[b].reflector_only)
    <3>1. e.reason = "both behind NAT"
      BY <1>8, <1>11, <2>2 DEF orientationFailure
    <3>2. \A x, y : ~roster[x].reflector_only => Fixed(x, y, e.reason)
      BY <3>1 DEF Fixed
    <3> QED  BY <1>8, <2>2, <3>2
  <2> QED  BY <2>1, <2>2
<1> QED  BY <1>10, <1>11

(* Few numbers have no more images.                                        *)
LEMMA FewImages ==
  ASSUME NEW F \in Nat, NEW f
  PROVE  LET T == {f[k] : k \in 0..(F - 1)}
         IN  IsFiniteSet(T) /\ Cardinality(T) \in Nat /\ Cardinality(T) <= F
<1>1. PICK T : T = {f[k] : k \in 0..(F - 1)}
  OBVIOUS
<1>2. IsFiniteSet(0..(F - 1)) /\ Cardinality(0..(F - 1)) = F
  <2>1. /\ IsFiniteSet(0..(F - 1))
        /\ Cardinality(0..(F - 1)) = IF 0 > F - 1 THEN 0 ELSE (F - 1) - 0 + 1
    BY FS_Interval
  <2> QED  BY <2>1
<1>3. [k \in 0..(F - 1) |-> f[k]] \in Surjection(0..(F - 1), T)
  BY <1>1 DEF Surjection
<1>4. IsFiniteSet(T) /\ Cardinality(T) <= F
  BY <1>2, <1>3, FS_Surjection
<1>5. Cardinality(T) \in Nat
  BY <1>4, FS_CardinalityType
<1> QED  BY <1>1, <1>4, <1>5

(* An agent probes the agents it was to probe, and those that were to      *)
(* probe it: at most the fanout of each.                                   *)
LEMMA LoadIsBounded ==
  ASSUME MeshType
  PROVE  LoadBounded
<1>1. SUFFICES ASSUME group.plan = "partial", NEW a \in Members
               PROVE  Cardinality({p \in PlanMesh.pairings : p[1] = a})
                        <= 2 * Max({group.fanout, 1})
  BY DEF LoadBounded
<1>2. PICK S : S = {p \in PlanMesh.pairings : p[1] = a}
  OBVIOUS
<1>3. PICK x \in Nat : x = Max({group.fanout, 1})
  <2>1. PICK f \in Int : f = group.fanout
    BY MeshAssumption DEF MeshType
  <2>2. Max({f, 1}) = IF f <= 1 THEN 1 ELSE f
    BY MaxTwo
  <2> QED  BY <2>1, <2>2
<1>4. CASE n < 2
  <2>1. S = {}
    BY <1>2, <1>4 DEF PlanMesh
  <2>2. Cardinality(S) = 0
    BY <2>1, FS_EmptySet
  <2> QED  BY <1>2, <1>3, <2>2
<1>5. CASE ~(n < 2)
  <2>1. PICK m \in Nat : m = n /\ m >= 2
    BY <1>5, Positions
  <2>2. PICK F \in Nat : F = Fanout /\ F <= x
    BY <1>3, <2>1, FanoutFacts
  <2>3. PICK off : off = [k \in 0..(F - 1) |-> Offset(k)]
    OBVIOUS
  <2>4. \A k \in 0..(F - 1) : off[k] \in 0..(m - 2) /\ off[k] = Offset(k)
    <3>1. ASSUME NEW k \in Nat PROVE Offset(k) \in 0..(m - 2)
      BY <2>1, FanoutFacts
    <3> QED  BY <2>3, <3>1
  <2>5. candidates = {<<At(i), At(i + 1 + off[k])>> : i \in 0..(m - 1), k \in 0..(F - 1)}
    <3>1. candidates = partial
      BY <1>1 DEF candidates
    <3> QED  BY <2>1, <2>2, <2>4, <3>1 DEF partial
  <2>6. PICK h : h = CHOOSE i \in 0..(m - 1) : At(i) = a
    OBVIOUS
  <2>7. PICK from : from = [k \in 0..(F - 1) |-> <<a, At(h + 1 + off[k])>>]
    OBVIOUS
  <2>8. PICK to : to = [k \in 0..(F - 1) |->
                           <<a, At(CHOOSE i \in 0..(m - 1) : At(i + 1 + off[k]) = a)>>]
    OBVIOUS
  <2>9. PICK A, B : /\ A = {from[k] : k \in 0..(F - 1)}
                    /\ B = {to[k] : k \in 0..(F - 1)}
    OBVIOUS
  <2>10. ASSUME NEW i \in 0..(m - 1), NEW k \in 0..(F - 1), At(i) = a
         PROVE  <<a, At(i + 1 + off[k])>> \in A
    <3>1. h \in 0..(m - 1) /\ At(h) = a
      BY <2>6, <2>10
    <3>2. h = i
      BY <2>1, <2>10, <3>1, Positions
    <3>3. from[k] = <<a, At(i + 1 + off[k])>>
      BY <2>7, <3>2
    <3> QED  BY <2>9, <3>3
  <2>11. ASSUME NEW i \in 0..(m - 1), NEW k \in 0..(F - 1), At(i + 1 + off[k]) = a
         PROVE  <<a, At(i)>> \in B
    <3>1. PICK j : j = CHOOSE l \in 0..(m - 1) : At(l + 1 + off[k]) = a
      OBVIOUS
    <3>2. j \in 0..(m - 1) /\ At(j + 1 + off[k]) = a
      BY <2>11, <3>1
    <3>3. i = j
      <4>1. PICK o \in 0..(n - 2) : o = off[k]
        BY <2>1, <2>4
      <4>2. i \in 0..(n - 1) /\ j \in 0..(n - 1) /\ n >= 2
        BY <2>1, <3>2
      <4>3. At(i + 1 + o) = At(j + 1 + o)
        BY <2>11, <3>2, <4>1
      <4> QED  BY <4>2, <4>3, Neighbours
    <3>4. to[k] = <<a, At(i)>>
      BY <2>8, <3>1, <3>3
    <3> QED  BY <2>9, <3>4
  <2>12. S \subseteq A \union B
    <3>1. SUFFICES ASSUME NEW p \in S PROVE p \in A \union B
      OBVIOUS
    <3>2. p \in Oriented /\ p[1] = a
      BY <1>2, <2>1, <3>1, PairedOff
    <3>3. CASE p \in candidates
      <4>1. PICK i \in 0..(m - 1), k \in 0..(F - 1) : p = <<At(i), At(i + 1 + off[k])>>
        BY <2>5, <3>3
      <4> QED  BY <2>10, <3>2, <4>1
    <3>4. CASE \E q \in candidates : p = Flip(q)
      <4>1. PICK q \in candidates : p = Flip(q)
        BY <3>4
      <4>2. PICK i \in 0..(m - 1), k \in 0..(F - 1) : q = <<At(i), At(i + 1 + off[k])>>
        BY <2>5, <4>1
      <4>3. p = <<At(i + 1 + off[k]), At(i)>>
        BY <4>1, <4>2 DEF Flip
      <4> QED  BY <2>11, <3>2, <4>3
    <3> QED  BY <3>2, <3>3, <3>4 DEF Oriented
  <2>13. /\ IsFiniteSet(A) /\ Cardinality(A) \in Nat /\ Cardinality(A) <= F
         /\ IsFiniteSet(B) /\ Cardinality(B) \in Nat /\ Cardinality(B) <= F
    BY <2>9, FewImages
  <2>14. Cardinality(S) \in Nat /\ Cardinality(S) <= 2 * F
    <3>1. /\ IsFiniteSet(A \union B)
          /\ Cardinality(A \union B)
               = Cardinality(A) + Cardinality(B) - Cardinality(A \intersect B)
      BY <2>13, FS_Union
    <3>2. IsFiniteSet(A \intersect B)
      BY <2>13, FS_Subset
    <3>3. Cardinality(A \intersect B) \in Nat
      BY <3>2, FS_CardinalityType
    <3>4. /\ IsFiniteSet(S) /\ Cardinality(S) <= Cardinality(A \union B)
      BY <2>12, <3>1, FS_Subset
    <3>5. Cardinality(S) \in Nat
      BY <3>4, FS_CardinalityType
    <3> QED  BY <2>13, <3>1, <3>3, <3>4, <3>5
  <2>15. Cardinality(S) <= 2 * x
    BY <2>2, <2>14
  <2> QED  BY <1>2, <1>3, <2>15
<1> QED  BY <1>4, <1>5

-----------------------------------------------------------------------------
(* A multiple of a positive number is no less than the number.             *)
LEMMA MultipleGrows ==
  ASSUME NEW N \in Nat \ {0}, NEW d \in Nat \ {0}
  PROVE  N * d \in Nat /\ N * d >= N
  OBVIOUS

(* What a number is divided into.                                          *)
LEMMA Divided ==
  ASSUME NEW a \in Nat, NEW N \in Nat \ {0}
  PROVE  a % N \in 0..(N - 1) /\ a \div N \in Nat /\ a = N * (a \div N) + (a % N)
  OBVIOUS

(* A remainder is told by what is left of any multiple.                    *)
LEMMA RemainderOf ==
  ASSUME NEW N \in Nat \ {0}, NEW q \in Nat, NEW r \in 0..(N - 1)
  PROVE  (N * q + r) % N = r /\ N * q + r \in Nat
<1>1. PICK a \in Nat : a = N * q + r
  OBVIOUS
<1>2. PICK p \in Nat, m \in 0..(N - 1) : m = a % N /\ a = N * p + m
  BY Divided
<1>3. PICK x \in Nat, y \in Nat : x = N * q /\ y = N * p /\ x + r = y + m
  BY <1>1, <1>2
<1>4. CASE q < p
  <2>1. PICK d \in Nat \ {0} : p = q + d
    BY <1>4
  <2>2. PICK z \in Nat : z = N * d /\ z >= N
    BY MultipleGrows
  <2>3. y = x + z
    BY <1>3, <2>1, <2>2
  <2> QED  BY <1>3, <2>2, <2>3
<1>5. CASE p < q
  <2>1. PICK d \in Nat \ {0} : q = p + d
    BY <1>5
  <2>2. PICK z \in Nat : z = N * d /\ z >= N
    BY MultipleGrows
  <2>3. x = y + z
    BY <1>3, <2>1, <2>2
  <2> QED  BY <1>3, <2>2, <2>3
<1>6. CASE p = q
  BY <1>1, <1>2, <1>3, <1>6
<1> QED  BY <1>4, <1>5, <1>6

(* Of as many numbers in a row as there are remainders, one leaves each.   *)
LEMMA EachRemainder ==
  ASSUME NEW N \in Nat \ {0}, NEW s \in Nat, NEW o \in 0..(N - 1)
  PROVE  \E t \in 0..(N - 1) : (s + t) % N = o
<1>1. PICK q \in Nat, r \in 0..(N - 1) : s = N * q + r
  BY Divided
<1>2. PICK x \in Nat : x = N * q /\ s = x + r
  BY <1>1
<1>3. CASE r <= o
  <2>1. o - r \in 0..(N - 1) /\ s + (o - r) = N * q + o
    BY <1>2, <1>3
  <2>2. (N * q + o) % N = o
    BY RemainderOf
  <2> QED  BY <2>1, <2>2
<1>4. CASE o < r
  <2>1. PICK y \in Nat : y = N * (q + 1) /\ y = x + N
    BY <1>2
  <2>2. o - r + N \in 0..(N - 1) /\ s + (o - r + N) = N * (q + 1) + o
    BY <1>2, <1>4, <2>1
  <2>3. (N * (q + 1) + o) % N = o
    <3>1. q + 1 \in Nat
      OBVIOUS
    <3> QED  BY <3>1, RemainderOf
  <2> QED  BY <2>2, <2>3
<1> QED  BY <1>3, <1>4

(* A number is between two multiples of another.                           *)
Spans(a, b, F, v) == a * F <= v /\ v < b * F

(* A number is in one of the rounds that begin at those multiples.         *)
InRound(a, b, F, v) == \E c \in a..(b - 1), k \in 0..(F - 1) : v = c * F + k

(* A number between two multiples lies in one of the rounds between them.  *)
LEMMA InSomeRound ==
  ASSUME NEW F \in Nat \ {0}, NEW a \in Nat, NEW b \in Nat, NEW v \in Nat,
         Spans(a, b, F, v)
  PROVE  InRound(a, b, F, v)
<1> USE DEF Spans, InRound
<1>1. PICK c \in Nat, k \in 0..(F - 1) : v = F * c + k
  BY Divided
<1>2. PICK x \in Nat : x = F * c /\ v = x + k
  BY <1>1
<1>3. a <= c
  <2>1. SUFFICES ASSUME c < a PROVE FALSE
    OBVIOUS
  <2>2. PICK d \in Nat \ {0} : a = c + d
    BY <2>1
  <2>3. PICK z \in Nat : z = F * d /\ z >= F
    BY MultipleGrows
  <2>4. a * F = x + z
    BY <1>2, <2>2, <2>3
  <2> QED  BY <1>2, <2>3, <2>4
<1>4. c <= b - 1
  <2>1. SUFFICES ASSUME b <= c PROVE FALSE
    OBVIOUS
  <2>2. PICK d \in Nat : c = b + d
    BY <2>1
  <2>3. PICK z \in Nat, y \in Nat : z = F * d /\ y = b * F /\ x = y + z
    BY <1>2, <2>2
  <2> QED  BY <1>2, <2>3
<1>5. v = c * F + k
  BY <1>1
<1> QED  BY <1>3, <1>4, <1>5

-----------------------------------------------------------------------------
(* The pair an agent makes with the peer that an offset leads to.          *)
Pair(i, j) == <<At(i), At(i + 1 + (j % (n - 1)))>>

(* What the cycles written since the last change have measured.            *)
Window ==
    /\ group.plan = "full" /\ calm >= 1 =>
          \A p \in fullMesh : Possible(p) => p \in measured
    /\ group.plan = "partial" /\ n >= 2 =>
          \A c \in (cycles - calm)..(cycles - 1) : \A k \in 0..(Fanout - 1) :
             \A i \in 0..(n - 1) :
                Possible(Pair(i, c * Fanout + k)) => Pair(i, c * Fanout + k) \in measured

MeshInv == MeshType /\ Window

(* Where there is a pair there are two agents.                             *)
LEMMA TwoToPair == fullMesh # {} => n >= 2
<1>1. SUFFICES ASSUME NEW p \in fullMesh PROVE n >= 2
  OBVIOUS
<1>2. PICK a \in Usable, b \in Usable : a # b
  BY DEF fullMesh
<1>3. PICK i \in 0..(n - 1), j \in 0..(n - 1) : At(i) = a /\ At(j) = b
  BY Positions
<1>4. i # j
  BY <1>2, <1>3
<1> QED  BY <1>4, Positions

(* Once the cycles have gone round, every pair has had its turn.           *)
LEMMA WindowCovers ==
  ASSUME MeshInv
  PROVE  CoverageWindow
<1>1. SUFFICES ASSUME group.plan \in {"full", "partial"}, Covered,
                      NEW p \in fullMesh, Possible(p)
               PROVE  p \in measured
  BY DEF CoverageWindow
<1>2. CASE group.plan = "full"
  BY <1>1, <1>2 DEF MeshInv, Window, Covered
<1>3. CASE group.plan = "partial"
  <2>1. PICK m \in Nat : m = n /\ m >= 2
    BY TwoToPair, Positions
  <2>2. PICK F \in Nat \ {0} : F = Fanout
    BY <2>1, FanoutFacts DEF MeshInv
  <2>3. PICK a \in Nat, b \in Nat, d \in Nat :
            b = cycles /\ d = calm /\ a = b - d /\ d * F >= m - 1
    BY <1>1, <1>3, <2>1, <2>2 DEF MeshInv, MeshType, Covered
  <2>4. PICK x \in Usable, y \in Usable : p = <<x, y>> /\ x # y
    BY DEF fullMesh
  <2>5. PICK i \in 0..(m - 1), l \in 0..(m - 1) : At(i) = x /\ At(l) = y
    BY <2>1, Positions
  <2>6. PICK o \in 0..(m - 2) : At(i + 1 + o) = y
    <3>1. i \in 0..(n - 1) /\ l \in 0..(n - 1) /\ l # i /\ n >= 2
      BY <2>1, <2>4, <2>5
    <3>2. PICK o \in 0..(n - 2) : After(i, o) = l
      BY <3>1, Neighbours
    <3>3. At(i + 1 + o) = At(l)
      BY <3>1, <3>2, Neighbours
    <3> QED  BY <2>1, <2>5, <3>2, <3>3
  <2>7. PICK s \in Nat : s = a * F
    OBVIOUS
  <2>8. PICK t \in 0..(m - 2) : (s + t) % (m - 1) = o
    <3>1. PICK N \in Nat \ {0} : N = m - 1 /\ o \in 0..(N - 1)
      BY <2>1
    <3>2. PICK t \in 0..(N - 1) : (s + t) % N = o
      BY <3>1, EachRemainder
    <3>3. t \in 0..(m - 2) /\ (s + t) % (m - 1) = o
      BY <2>1, <3>1, <3>2
    <3> QED  BY <3>3
  <2>9. PICK c \in a..(b - 1), k \in 0..(F - 1) : s + t = c * F + k
    <3>1. PICK v \in Nat : v = s + t
      OBVIOUS
    <3>2. a * F <= v
      BY <2>7, <3>1
    <3>3. v < b * F
      <4>1. b = a + d
        BY <2>3
      <4>2. PICK z \in Nat : z = d * F /\ z >= m - 1 /\ b * F = s + z
        BY <2>3, <2>7, <4>1
      <4> QED  BY <2>1, <3>1, <4>2
    <3>4. Spans(a, b, F, v)
      BY <3>2, <3>3 DEF Spans
    <3>5. InRound(a, b, F, v)
      BY <2>2, <2>3, <3>1, <3>4, InSomeRound
    <3>6. PICK c \in a..(b - 1), k \in 0..(F - 1) : v = c * F + k
      BY <3>5 DEF InRound
    <3> QED  BY <3>1, <3>6
  <2>10. Pair(i, c * F + k) = p
    BY <2>1, <2>4, <2>5, <2>6, <2>8, <2>9 DEF Pair
  <2>11. c \in (cycles - calm)..(cycles - 1) /\ k \in 0..(Fanout - 1) /\ i \in 0..(n - 1)
    BY <2>1, <2>2, <2>3
  <2>12. Possible(Pair(i, c * Fanout + k)) => Pair(i, c * Fanout + k) \in measured
    BY <1>3, <2>1, <2>11 DEF MeshInv, Window
  <2> QED  BY <1>1, <2>2, <2>10, <2>12
<1> QED  BY <1>1, <1>2, <1>3

-----------------------------------------------------------------------------
(* Nothing has been measured when the controller starts.                   *)
LEMMA MeshInitInv == MeshInit => MeshInv
<1>1. SUFFICES ASSUME MeshInit PROVE MeshInv
  OBVIOUS
<1>2. MeshType
  BY <1>1 DEF MeshInit, MeshType
<1>3. cycles = 0 /\ calm = 0 /\ ~(calm >= 1)
  BY <1>1 DEF MeshInit
<1>4. (cycles - calm)..(cycles - 1) = {}
  BY <1>3
<1>5. Window
  BY <1>3, <1>4 DEF Window
<1> QED  BY <1>2, <1>5 DEF MeshInv

(* The next cycle plans what the fanout adds to the window, if it repeats  *)
(* nothing.                                                                *)
LEMMA CycleKeeps ==
  ASSUME MeshInv, Cycle, Repeated(PlanMesh.pairings) = {}
  PROVE  MeshInv'
<1>1. group' = group /\ roster' = roster
  BY DEF Cycle
<1>2. Usable' = Usable
  BY <1>1 DEF Usable
<1>3. n' = n
  BY <1>2 DEF n
<1>4. \A i : At(i)' = At(i)
  BY <1>2, <1>3 DEF At
<1>5. /\ Fanout' = Fanout /\ fullMesh' = fullMesh
      /\ \A p : Possible(p)' = Possible(p)
      /\ \A i, j : Pair(i, j)' = Pair(i, j)
  BY <1>1, <1>2, <1>3, <1>4 DEF Fanout, fullMesh, Possible, orientable, Pair
<1>6. /\ cycles \in Nat /\ calm \in 0..cycles
      /\ cycles' = cycles + 1 /\ calm' = calm + 1
      /\ measured' = measured \union PlanMesh.pairings
  BY DEF MeshInv, MeshType, Cycle
<1>7. MeshType'
  BY <1>1, <1>6 DEF MeshInv, MeshType
<1>8. ASSUME n >= 2, NEW p \in candidates, p[1] # p[2], Possible(p)
      PROVE  p \in measured'
  <2>1. p \in Oriented
    BY <1>8 DEF Oriented
  <2>2. p \in PlanMesh.pairings
    BY <1>8, <2>1, PairedOff DEF MeshInv
  <2> QED  BY <1>6, <2>2
<1>9. ASSUME group.plan = "full", NEW p \in fullMesh, Possible(p)
      PROVE  p \in measured'
  <2>1. n >= 2
    BY TwoToPair
  <2>2. p \in candidates /\ p[1] # p[2]
    BY <1>9 DEF candidates, fullMesh
  <2> QED  BY <1>8, <1>9, <2>1, <2>2
<1>10. ASSUME group.plan = "partial", n >= 2,
              NEW c \in (cycles' - calm')..(cycles' - 1), NEW k \in 0..(Fanout - 1),
              NEW i \in 0..(n - 1), Possible(Pair(i, c * Fanout + k))
       PROVE  Pair(i, c * Fanout + k) \in measured'
  <2>1. CASE c # cycles
    <3>1. c \in (cycles - calm)..(cycles - 1)
      BY <1>6, <2>1
    <3>2. Pair(i, c * Fanout + k) \in measured
      BY <1>10, <3>1 DEF MeshInv, Window
    <3> QED  BY <1>6, <3>2
  <2>2. CASE c = cycles
    <3>1. PICK p : p = Pair(i, c * Fanout + k)
      OBVIOUS
    <3>2. p = <<At(i), At(i + 1 + Offset(k))>>
      BY <2>2, <3>1 DEF Pair, Offset
    <3>3. p \in candidates
      BY <1>10, <3>2 DEF candidates, partial
    <3>4. PICK o \in 0..(n - 2) : o = Offset(k)
      <4>1. PICK F \in Nat : F = Fanout
        BY <1>10, FanoutFacts, Positions DEF MeshInv
      <4>2. k \in Nat
        BY <4>1
      <4> QED  BY <1>10, <4>2, FanoutFacts DEF MeshInv
    <3>5. p[1] # p[2]
      BY <1>10, <3>2, <3>4, Neighbours
    <3> QED  BY <1>8, <1>10, <3>1, <3>3, <3>5
  <2> QED  BY <2>1, <2>2
<1>11. Window'
  <2>1. group'.plan = "full" /\ calm' >= 1 =>
           \A p \in fullMesh' : Possible(p)' => p \in measured'
    BY <1>1, <1>5, <1>9
  <2>2. group'.plan = "partial" /\ n' >= 2 =>
          \A c \in (cycles' - calm')..(cycles' - 1) : \A k \in 0..(Fanout' - 1) :
             \A i \in 0..(n' - 1) :
                Possible(Pair(i, c * Fanout + k))'
                => Pair(i, c * Fanout + k)' \in measured'
    <3>1. SUFFICES ASSUME group.plan = "partial", n >= 2,
                          NEW c \in (cycles' - calm')..(cycles' - 1),
                          NEW k \in 0..(Fanout - 1), NEW i \in 0..(n - 1),
                          Possible(Pair(i, c * Fanout + k))'
                   PROVE  Pair(i, c * Fanout + k)' \in measured'
      BY <1>1, <1>3, <1>5
    <3>2. Pair(i, c * Fanout + k)' = Pair(i, c * Fanout + k)
      BY <1>3, <1>4, <1>5 DEF Pair
    <3>3. Possible(Pair(i, c * Fanout + k))
      BY <1>1, <3>1, <3>2 DEF Possible, orientable
    <3> QED  BY <1>10, <3>1, <3>2, <3>3
  <2> QED  BY <2>1, <2>2 DEF Window
<1> QED  BY <1>7, <1>11 DEF MeshInv

(* Whatever changes, fails or restarts begins a new window.                *)
LEMMA EventKeeps ==
  ASSUME MeshType', calm' = 0
  PROVE  MeshInv'
<1>1. ~(calm' >= 1) /\ (cycles' - calm')..(cycles' - 1) = {}
  <2>1. PICK x \in Nat : x = cycles'
    BY DEF MeshType
  <2>2. (x - 0)..(x - 1) = {} /\ ~(0 >= 1)
    OBVIOUS
  <2>3. ~(calm' >= 1)
    BY <2>2
  <2>4. cycles' - calm' = x - 0 /\ cycles' - 1 = x - 1
    BY <2>1
  <2>5. (cycles' - calm')..(cycles' - 1) = {}
    BY <2>2, <2>4
  <2> QED  BY <2>3, <2>5
<1>2. Window'
  BY <1>1 DEF Window
<1> QED  BY <1>2 DEF MeshInv

(* Every step keeps the invariant.                                         *)
LEMMA MeshNextInv == MeshInv /\ [MeshNext]_meshVars => MeshInv'
<1> SUFFICES ASSUME MeshInv, [MeshNext]_meshVars PROVE MeshInv'
  OBVIOUS
<1> USE DEF MeshInv
<1>1. CASE Cycle
  <2>1. CASE Repeated(PlanMesh.pairings) = {}
    BY <1>1, <2>1, CycleKeeps
  <2>2. CASE Repeated(PlanMesh.pairings) # {}
    <3>1. MeshType' /\ calm' = 0
      BY <1>1, <2>2 DEF Cycle, MeshType
    <3> QED  BY <3>1, EventKeeps
  <2> QED  BY <2>1, <2>2
<1>2. CASE CycleFails
  <2>1. MeshType' /\ calm' = 0
    BY <1>2 DEF CycleFails, Event, MeshType
  <2> QED  BY <2>1, EventKeeps
<1>3. CASE Restart
  <2>1. MeshType' /\ calm' = 0
    BY <1>3 DEF Restart, Event, MeshType
  <2> QED  BY <2>1, EventKeeps
<1>4. CASE \E a \in Members, c \in Candidate : AgentChanges(a, c)
  <2>1. MeshType' /\ calm' = 0
    BY <1>4 DEF AgentChanges, Event, MeshType
  <2> QED  BY <2>1, EventKeeps
<1>5. CASE UNCHANGED meshVars
  <2>1. /\ group' = group /\ roster' = roster /\ cycles' = cycles
        /\ calm' = calm /\ measured' = measured
    BY <1>5 DEF meshVars
  <2>2. n' = n /\ Usable' = Usable
    BY <2>1 DEF n, Usable
  <2>3. \A i : At(i)' = At(i)
    BY <2>2 DEF At
  <2>4. MeshType'
    BY <2>1 DEF MeshType
  <2>5. Fanout' = Fanout /\ fullMesh' = fullMesh /\ \A p : Possible(p)' = Possible(p)
    BY <2>1, <2>2 DEF Fanout, fullMesh, Possible, orientable
  <2>6. group'.plan = "full" /\ calm' >= 1 =>
           \A p \in fullMesh' : Possible(p)' => p \in measured'
    BY <2>1, <2>5 DEF Window
  <2>7. group'.plan = "partial" /\ n' >= 2 =>
          \A c \in (cycles' - calm')..(cycles' - 1) : \A k \in 0..(Fanout' - 1) :
             \A i \in 0..(n' - 1) :
                Possible(Pair(i, c * Fanout + k))'
                => Pair(i, c * Fanout + k)' \in measured'
    <3>1. SUFFICES ASSUME group.plan = "partial", n >= 2,
                          NEW c \in (cycles - calm)..(cycles - 1),
                          NEW k \in 0..(Fanout - 1), NEW i \in 0..(n - 1),
                          Possible(Pair(i, c * Fanout + k))'
                   PROVE  Pair(i, c * Fanout + k)' \in measured'
      BY <2>1, <2>2, <2>5
    <3>2. Pair(i, c * Fanout + k)' = Pair(i, c * Fanout + k)
      BY <2>2, <2>3, <2>5 DEF Pair
    <3>3. Possible(Pair(i, c * Fanout + k))
      BY <2>1, <3>1, <3>2 DEF Possible, orientable
    <3> QED  BY <2>1, <3>1, <3>2, <3>3 DEF Window
  <2>8. Window'
    BY <2>6, <2>7 DEF Window
  <2> QED  BY <2>4, <2>8
<1> QED  BY <1>1, <1>2, <1>3, <1>4, <1>5 DEF MeshNext

(* The group's settings and members stay what they may be, and what the    *)
(* cycles since the last change have measured is known.                    *)
THEOREM MeshInvariance == MeshSpec => []MeshInv
<1> QED  BY MeshInitInv, MeshNextInv, PTL DEF MeshSpec

(* A plan is sound: it declares its gaps, it asks no more of an agent than *)
(* twice the fanout, and the reason it gives for a pair is the one to fix  *)
(* (PlanMesh).                                                             *)
THEOREM PlansAreSound == MeshSpec => []PlanSound
<1>1. MeshInv => PlanSound
  BY GapsAreDeclared, LoadIsBounded, ReasonsBind DEF MeshInv, PlanSound
<1> QED  BY <1>1, MeshInvariance, PTL

(* In as many cycles as the fanout needs to go round the peers once, from  *)
(* whichever cycle on, every agent has been given every other it may probe *)
(* (partial, fullMesh); after a restart, from the first cycle on whose     *)
(* number finds no grants of before (CreateMeshTasks).                     *)
THEOREM RotationCovers == MeshSpec => []CoverageWindow
<1>1. MeshInv => CoverageWindow
  BY WindowCovers
<1> QED  BY <1>1, MeshInvariance, PTL
=============================================================================

----------------------------- MODULE LeaseOrder -----------------------------
(***************************************************************************)
(* The order in which LeaseTasks hands an agent its rows                   *)
(* (server/internal/store/store.go): oldest first, up to a limit.          *)
(* TaskLedger leaves time, and with it this order, open; here time is      *)
(* counted in intervals between the agent's polls, and the table is that   *)
(* of one agent which in every cycle of its mesh probes one peer and       *)
(* answers another.  Nothing is lost and nobody crashes.                   *)
(*                                                                         *)
(* A finished row plays no part in what follows, so the purge is left out. *)
(***************************************************************************)
EXTENDS Integers, FiniteSets, Functions, Sequences

CONSTANTS
    Limit,        \* LIMIT of LeaseTasks: 16
    TaskLease,    \* polls in a lease: 60
    SweepEvery,   \* polls between two sweeps: 6
    MaxCycle      \* bound on the cycles of the scheduler

VARIABLES
    rows,       \* the agent's rows, by scheduled_for
    cycle,      \* the scheduler's cycle counter
    polled,     \* the agent has polled in this interval
    tosweep     \* intervals until the sweeper's next tick

vars == <<rows, cycle, polled, tosweep>>

Row(role) == [role |-> role, state |-> "pending", left |-> 0]

Pending == {i \in DOMAIN rows : rows[i].state = "pending"}

Init == rows = << >> /\ cycle = 0 /\ polled = FALSE /\ tosweep = SweepEvery

(* The pairings of a cycle are spread over its interval, in the order the  *)
(* plan lists them.                                                        *)
CreateMeshTasks ==
    /\ cycle < MaxCycle /\ cycle' = cycle + 1
    /\ \E first \in {"sender", "reflector"} :
          LET second == IF first = "sender" THEN "reflector" ELSE "sender"
          IN  rows' = rows \o <<Row(first), Row(second)>>
    /\ UNCHANGED <<polled, tosweep>>

(* The oldest pending rows, at most Limit of them, are leased.             *)
Claimed == {i \in Pending : Cardinality({j \in Pending : j < i}) < Limit}

LeaseTasks ==
    /\ ~polled /\ polled' = TRUE
    /\ rows' = [i \in DOMAIN rows |->
                  IF i \in Claimed
                  THEN [rows[i] EXCEPT !.state = "leased", !.left = TaskLease]
                  ELSE rows[i]]
    /\ UNCHANGED <<cycle, tosweep>>

(* The agent runs what it sends and reports it; nobody reports on a grant. *)
SaveResult(i) ==
    /\ rows[i].role = "sender" /\ rows[i].state = "leased"
    /\ rows' = [rows EXCEPT ![i].state = "done", ![i].left = 0]
    /\ UNCHANGED <<cycle, polled, tosweep>>

ExpireLeases ==
    /\ tosweep = 0 /\ tosweep' = SweepEvery
    /\ rows' = [i \in DOMAIN rows |->
                  IF rows[i].state = "leased" /\ rows[i].left = 0
                  THEN [rows[i] EXCEPT !.state = "pending"] ELSE rows[i]]
    /\ UNCHANGED <<cycle, polled>>

(* An interval passes; the agent polls in each, the sweeper when its turn  *)
(* comes, and a report is made before the lease is out (TaskLease is       *)
(* "generous relative to any single test").                                *)
Pass ==
    /\ ~\E r \in Range(rows) : r.role = "sender" /\ r.left = 1
    /\ polled /\ polled' = FALSE
    /\ tosweep > 0 /\ tosweep' = tosweep - 1
    /\ rows' = [i \in DOMAIN rows |->
                  [rows[i] EXCEPT !.left = IF @ > 0 THEN @ - 1 ELSE 0]]
    /\ UNCHANGED cycle

Next ==
    \/ CreateMeshTasks \/ LeaseTasks \/ ExpireLeases \/ Pass
    \/ \E i \in DOMAIN rows : SaveResult(i)

(* The agent polls, the sweeper sweeps and time passes; the agent reports  *)
(* on what it was given.                                                   *)
FairSpec ==
    /\ Init /\ [][Next]_vars
    /\ WF_vars(LeaseTasks) /\ WF_vars(ExpireLeases) /\ WF_vars(Pass)
    /\ \A i \in 1..(2 * MaxCycle) : WF_vars(i \in DOMAIN rows /\ SaveResult(i))

-----------------------------------------------------------------------------
(* Agents lease their tasks, run them, and the results land in the         *)
(* database: a measurement that was scheduled is answered.                 *)
MeasurementsLand ==
    \A i \in 1..(2 * MaxCycle) :
        (i \in DOMAIN rows /\ rows[i].role = "sender") ~>
            (i \in DOMAIN rows /\ rows[i].state = "done")
=============================================================================

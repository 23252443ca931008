---------------------------- MODULE ProbeSession ----------------------------
(***************************************************************************)
(* One measurement: the sender (agent/src/probe/sender.rs for MQP, the     *)
(* second half of probe/twamp.rs for TWAMP-Light), the reflector           *)
(* (probe/reflector.rs, the first half of probe/twamp.rs), the UDP path    *)
(* between them, and what the sender concludes (collector/stats.rs,        *)
(* loss_stats and reorder_stats).                                          *)
(*                                                                         *)
(* The two protocols differ in how a reflector admits a request, by        *)
(* session or by address, and in whose replies its counter counts, those   *)
(* of the session or those to everybody.                                   *)
(*                                                                         *)
(* The path may lose, duplicate and reorder packets of either direction.   *)
(* Timestamps are left out: whether a reply comes back within the timeout  *)
(* is open.  A task that is leased again runs its session again, from a    *)
(* new socket, and the grant of a session may be polled before, during or  *)
(* after a run, and again when its own lease has run out.                  *)
(***************************************************************************)
EXTENDS Integers, Sequences, FiniteSetsExt

CONSTANTS
    Count,        \* packets of a run
    MaxTrouble,   \* bound: runs of the session and duplicated packets, together
    MaxGrants,    \* bound: times the session is granted
    None          \* no counter

ASSUME ProbeAssumption ==
    /\ Count \in Nat \ {0} /\ MaxTrouble \in Nat /\ MaxGrants \in Nat
    /\ None \notin Nat

VARIABLES
    protocol,   \* "mqp" or "twamp"
    \* The sender.
    phase,      \* idle, sending, linger or done
    run,        \* which run of the session this is
    seq,        \* next sequence number
    sent_at,    \* sequence numbers that were sent
    samples,    \* accepted replies, in order of arrival
    \* The reflector: whether it answers this sender, and its counter.
    granted, reflector_seq,
    \* The path.
    requests, replies,
    \* History and bounds.
    generated,  \* replies the reflector has made to this run
    grants,     \* times the session was granted
    dups        \* packets the path has duplicated

sender == <<phase, run, seq, sent_at, samples>>
reflector == <<protocol, granted, reflector_seq>>
path == <<requests, replies>>
vars == <<protocol, phase, run, seq, sent_at, samples, granted, reflector_seq,
          requests, replies, generated, grants, dups>>

-----------------------------------------------------------------------------
(* The sender.                                                             *)
Init ==
    /\ phase = "idle" /\ run = 0 /\ seq = 0 /\ sent_at = {} /\ samples = << >>
    /\ protocol \in {"mqp", "twamp"} /\ reflector_seq = 0
    /\ granted \in IF protocol = "mqp" THEN {FALSE} ELSE BOOLEAN
    /\ requests = {} /\ replies = {}
    /\ generated = 0 /\ grants = 0 /\ dups = 0

(* Mutation: every run uses the same port.                                 *)
Start_SamePort ==
    /\ run + dups < MaxTrouble
    /\ phase' = "sending" /\ run' = run + 1
    /\ seq' = 0 /\ sent_at' = {} /\ samples' = << >> /\ generated' = 0
    /\ UNCHANGED <<reflector, path, grants, dups>>

(* sender::run starts with empty tables and a socket of its own, out of    *)
(* reach of the answers to an earlier run.  There is an earlier one when   *)
(* the agent died or was too late to report and the task was leased again. *)
Start ==
    /\ run + dups < MaxTrouble
    /\ phase' = "sending" /\ run' = run + 1
    /\ seq' = 0 /\ sent_at' = {} /\ samples' = << >> /\ generated' = 0
    /\ replies' = {}
    /\ UNCHANGED <<reflector, requests, grants, dups>>

(* Mutation: a run waits until all its packets have been sent.             *)
Tick_WaitAll(ok) ==
    /\ phase = "sending" /\ seq < Count
    /\ IF ok THEN /\ sent_at' = sent_at \union {seq}
                  /\ requests' = requests \union
                                   {[run |-> run, seq |-> seq, copy |-> 0]}
             ELSE UNCHANGED <<sent_at, requests>>
    /\ seq' = seq + 1
    /\ phase' = IF Cardinality(sent_at') = Count THEN "linger" ELSE "sending"
    /\ UNCHANGED <<run, samples, reflector, replies, generated, grants, dups>>

(* A pacing tick: a packet that cannot be sent is not counted as sent.     *)
Tick(ok) ==
    /\ phase = "sending"
    /\ IF ok THEN /\ sent_at' = sent_at \union {seq}
                  /\ requests' = requests \union
                                   {[run |-> run, seq |-> seq, copy |-> 0]}
             ELSE UNCHANGED <<sent_at, requests>>
    /\ seq' = seq + 1
    /\ phase' = IF seq + 1 = Count THEN "linger" ELSE "sending"
    /\ UNCHANGED <<run, samples, reflector, replies, generated, grants, dups>>

(* Mutation: the counter of a TWAMP responder is taken for the session's.  *)
CounterOf_Trusted(p) == p.reflector_seq

(* A TWAMP responder's counter says nothing of this sender's replies.      *)
CounterOf(p) == IF protocol = "twamp" THEN None ELSE p.reflector_seq

(* accept_reply, accept: a reply to a packet this run has sent.  One that  *)
(* comes after the timeout is discarded: the same as never to come.        *)
Receive(p) ==
    /\ phase \in {"sending", "linger"} /\ p \in replies /\ p.seq \in sent_at
    /\ samples' = Append(samples, [seq |-> p.seq, reflector_seq |-> CounterOf(p)])
    /\ replies' = replies \ {p}
    /\ UNCHANGED <<phase, run, seq, sent_at, reflector, requests, generated,
                   grants, dups>>

(* The linger time is over, or receiving fails during it.                  *)
LingerEnds ==
    /\ phase = "linger" /\ phase' = "done"
    /\ UNCHANGED <<run, seq, sent_at, samples, reflector, path, generated,
                   grants, dups>>

-----------------------------------------------------------------------------
(* The reflector.  Registry::grant puts a new session in place of one that *)
(* is there, its counter at zero.                                          *)
Grant ==
    /\ protocol = "mqp"
    /\ grants < MaxGrants /\ grants' = grants + 1
    /\ granted' = TRUE /\ reflector_seq' = 0
    /\ UNCHANGED <<protocol, sender, path, generated, dups>>

(* The sessions are gone with the process; the allow-list comes back.      *)
ReflectorRestarts ==
    /\ granted /\ granted' = (protocol = "twamp") /\ reflector_seq' = 0
    /\ UNCHANGED <<protocol, sender, path, generated, grants, dups>>

ReplyTo(p) ==
    [seq |-> p.seq, copy |-> p.copy, reflector_seq |-> reflector_seq]

(* handle: a request of a session that is not granted, or from an address  *)
(* that is not allowed, is dropped without a word; else the counter is     *)
(* spent whether or not the reply can be sent.                             *)
Reflect(p, ok) ==
    /\ p \in requests /\ granted
    /\ requests' = requests \ {p}
    /\ replies' = IF ok /\ p.run = run THEN replies \union {ReplyTo(p)}
                  ELSE replies
    /\ reflector_seq' = reflector_seq + 1
    /\ generated' = generated + (IF p.run = run THEN 1 ELSE 0)
    /\ UNCHANGED <<protocol, sender, granted, grants, dups>>

(* A TWAMP responder answers somebody else; Count bounds how often.        *)
ReflectOther ==
    /\ protocol = "twamp" /\ reflector_seq < Count
    /\ reflector_seq' = reflector_seq + 1
    /\ UNCHANGED <<protocol, sender, granted, path, generated, grants, dups>>

DropUnknown(p) ==
    /\ p \in requests /\ ~granted
    /\ requests' = requests \ {p}
    /\ UNCHANGED <<sender, reflector, replies, generated, grants, dups>>

-----------------------------------------------------------------------------
(* The path.  A packet that is never delivered is lost.                    *)
Duplicate(p) ==
    /\ run + dups < MaxTrouble /\ dups' = dups + 1
    /\ LET twin == [p EXCEPT !.copy = dups + 1]
       IN  \/ p \in requests /\ requests' = requests \union {twin}
              /\ UNCHANGED replies
           \/ p \in replies /\ replies' = replies \union {twin}
              /\ UNCHANGED requests
    /\ UNCHANGED <<sender, reflector, generated, grants>>

Next ==
    \/ Start \/ LingerEnds
    \/ \E ok \in BOOLEAN : Tick(ok)
    \/ \E p \in replies : Receive(p) \/ Duplicate(p)
    \/ \E p \in requests :
          (\E ok \in BOOLEAN : Reflect(p, ok)) \/ DropUnknown(p) \/ Duplicate(p)
    \/ Grant \/ ReflectorRestarts \/ ReflectOther
    \/ phase = "done" /\ UNCHANGED vars

Spec == Init /\ [][Next]_vars

(* The ticker fires and the linger time passes, whatever the path does.    *)
FairSpec ==
    Spec /\ WF_vars(\E ok \in BOOLEAN : Tick(ok)) /\ WF_vars(LingerEnds)

-----------------------------------------------------------------------------
(* What the sender reports.                                                *)
Minus(x, y) == IF x < y THEN 0 ELSE x - y

highest_reflector_seq == Max({samples[i].reflector_seq : i \in 1..Len(samples)})

(* Mutation: the numbering is taken to start at one.                       *)
replies_generated_OffByOne == highest_reflector_seq

(* The reflector numbered its replies from zero.                           *)
replies_generated == highest_reflector_seq + 1

loss_stats ==
    LET sent == Cardinality(sent_at)
        received == Len(samples)
        missing == Minus(sent, received)
        reverse == Minus(replies_generated, received)
        unattributable == \E i \in 1..Len(samples) : samples[i].reflector_seq = None
    IN  IF samples = << >> \/ unattributable
        THEN [sent |-> sent, received |-> received, forward_lost |-> 0,
              reverse_lost |-> 0, unknown_direction |-> missing]
        ELSE [sent |-> sent, received |-> received,
              forward_lost |-> Minus(missing, reverse),
              reverse_lost |-> Min({reverse, missing}),
              unknown_direction |-> 0]

(* Mutation: only a reversal with the packet just before is seen.          *)
AdvanceWater_Last(w, s) ==
    [high |-> s.seq, reordered |-> w.reordered + IF s.seq < w.high THEN 1 ELSE 0,
     displacement |-> Max({w.displacement, Minus(w.high, s.seq)})]

(* One step of reorder_stats along the order of arrival.                   *)
AdvanceWater(w, s) ==
    [high |-> Max({w.high, s.seq}),
     reordered |-> w.reordered + IF s.seq < w.high THEN 1 ELSE 0,
     displacement |-> Max({w.displacement, Minus(w.high, s.seq)})]

(* Its loop: Water(ss)[n] is where it stands after the first n arrivals.   *)
Water(ss) ==
    LET f[n \in 0..Len(ss)] ==
          IF n = 0 THEN [high |-> 0, reordered |-> 0, displacement |-> 0]
          ELSE AdvanceWater(f[n - 1], ss[n])
    IN  f

reorder_stats ==
    LET walk == Water(samples)[Len(samples)]
    IN  [reordered |-> walk.reordered, max_displacement |-> walk.displacement,
         duplicated |-> Len(samples)
                          - Cardinality({samples[i].seq : i \in 1..Len(samples)})]

-----------------------------------------------------------------------------
Reported == phase = "done"
Clean == run = 1 /\ dups = 0

(* A lost request is never blamed on the way back: without duplication and *)
(* in a session's first run, the reverse loss reported is at most the      *)
(* number of replies that were made and did not arrive in time, whatever   *)
(* was lost, reordered, failed to be sent or granted again on the way, and *)
(* whoever else a TWAMP responder is answering meanwhile.                  *)
ReverseBlamedJustly ==
    (Reported /\ Clean) => loss_stats.reverse_lost <= generated - Len(samples)

(* The attribution is exact when the reflector was granted once and the    *)
(* last reply it made has arrived: each direction is given precisely what  *)
(* it lost.                                                                *)
AttributionExact ==
    (Reported /\ Clean /\ grants = 1 /\ granted
        /\ \E i \in 1..Len(samples) : samples[i].reflector_seq = reflector_seq - 1)
      => /\ loss_stats.reverse_lost = generated - Len(samples)
         /\ loss_stats.forward_lost = Cardinality(sent_at) - generated

(* Only duplication by the path makes the controller reject a report for   *)
(* more packets received than sent (Result.Valid): a run started again is  *)
(* not confused by the answers to the one before it.                       *)
RejectedOnlyForDuplicates ==
    (dups = 0) => Len(samples) <= Cardinality(sent_at)

(* The high-water walk computes RFC 4737 reordering: the packets that      *)
(* arrived after a higher sequence number, and the largest distance.       *)
ReorderIsRfc4737 ==
    LET before(i) == {samples[j].seq : j \in 1..(i - 1)}
        behind == {i \in 1..Len(samples) :
                     \E s \in before(i) : s > samples[i].seq}
    IN  /\ reorder_stats.reordered = Cardinality(behind)
        /\ reorder_stats.max_displacement =
             Max({0} \union {Max(before(i)) - samples[i].seq : i \in behind})

(* A measurement ends, with a report, whatever the path or the reflector   *)
(* does and however many sends fail.                                       *)
RunEnds == phase = "sending" ~> phase = "done"

(* A missing reply whose direction is not known is counted separately and  *)
(* not guessed at: forward loss is reported for requests that were lost.   *)
NoDirectionGuessed ==
    (Reported /\ Clean) =>
        loss_stats.forward_lost <= Cardinality(sent_at) - generated
=============================================================================

------------------------------- MODULE Spool --------------------------------
(***************************************************************************)
(* The agent's bounded in-memory result spool (agent/src/spool.rs) and the *)
(* way the agent drains it (agent/src/agent.rs, enqueue and drain_spool).  *)
(*                                                                         *)
(* A result is abstracted to its identity (the order in which the agent    *)
(* produced it) and the size of its JSON, which is all the spool looks at. *)
(* While a POST is awaited the results it carries are in `batch`, taken    *)
(* out of the spool and neither delivered nor given back yet.              *)
(***************************************************************************)
EXTENDS Integers, Sequences, FiniteSetsExt

CONSTANTS
    CfgEntries,   \* MQ_SPOOL_MAX_ENTRIES as configured
    CfgBytes,     \* MQ_SPOOL_MAX_BYTES as configured
    OnsetPct,     \* the onset fraction, in percent
    SubmitBatch,  \* SUBMIT_BATCH, results per POST
    Sizes,        \* the sizes a result's JSON may have
    MaxResults    \* bound: results produced in a behaviour

ASSUME SpoolAssumption ==
    /\ CfgEntries \in Nat /\ CfgBytes \in Nat /\ OnsetPct \in Nat
    /\ SubmitBatch \in Nat \ {0}
    /\ Sizes \subseteq Nat \ {0}
    /\ MaxResults \in Nat

VARIABLES
    entries,        \* the queue, oldest first
    bytes,          \* the running byte count kept beside it
    dropped,        \* discards since the controller was last told
    dropped_total,  \* discards over the agent's life
    batch,          \* results taken by the POST in progress
    told,           \* the discard count that POST carries
    \* What the environment has seen (history variables).
    nextId,         \* identity of the next result
    acked,          \* results the controller has acknowledged
    lastAcked,      \* the newest of them
    ackedDrops,     \* discards the controller has been told of
    overlapped      \* has a result been queued while a POST was awaited?

vars == <<entries, bytes, dropped, dropped_total, batch, told,
          nextId, acked, lastAcked, ackedDrops, overlapped>>

Entry == [id : Nat, bytes : Sizes]

-----------------------------------------------------------------------------
(* SpoolConfig::new: limits of at least one, and a reserve kept below the  *)
(* capacity so that a full spool always has something to evict.            *)
max_entries == Max({CfgEntries, 1})
max_bytes == Max({CfgBytes, 1})
onset_reserve ==
    Min({(CfgEntries * Min({OnsetPct, 90})) \div 100,
         Max({CfgEntries - 1, 0})})

-----------------------------------------------------------------------------
(* Running(es)[n] is the size of the first n entries.                      *)
Running(es) ==
    LET f[n \in 0..Len(es)] == IF n = 0 THEN 0 ELSE f[n - 1] + es[n].bytes
    IN  f

SumBytes(es) == Running(es)[Len(es)]

Prefix(es, n) == SubSeq(es, 1, Min({n, Len(es)}))

(* Mutation: one entry too many.                                           *)
would_exceed_OffByOne(len, total, incoming) ==
    len > max_entries \/ total + incoming > max_bytes

would_exceed(len, total, incoming) ==
    len >= max_entries \/ total + incoming > max_bytes

(***************************************************************************)
(* push evicts the entry just past the reserve until the newcomer fits or  *)
(* only protected entries are left; after k rounds Evicted(k) is gone and  *)
(* Evict(k) is the queue.                                                  *)
(***************************************************************************)
Protected == Min({onset_reserve, Len(entries)})
Evicted(k) == SubSeq(entries, Protected + 1, Protected + k)
(* Mutation: the oldest entries go, as in a plain ring buffer.             *)
Evict_Oldest(k) == SubSeq(entries, k + 1, Len(entries))

Evict(k) ==
    SubSeq(entries, 1, Protected)
        \o SubSeq(entries, Protected + k + 1, Len(entries))

RoomAfter(k, size) ==
    ~would_exceed(Len(entries) - k, bytes - SumBytes(Evicted(k)), size)

Evictions(size) ==
    LET all == Len(entries) - Protected
    IN  Min({k \in 0..all : RoomAfter(k, size)} \union {all})

(* Mutation: the byte count is not kept up.                                *)
AfterPush_Uncounted(size) ==
    LET k == Evictions(size)
    IN  [queue |-> Append(Evict(k), [id |-> nextId, bytes |-> size]),
         bytes |-> bytes - SumBytes(Evicted(k)), lost |-> k]

AfterPush(size) ==
    LET k == Evictions(size)
        left == bytes - SumBytes(Evicted(k))
    IN  IF RoomAfter(k, size)
        THEN [queue |-> Append(Evict(k), [id |-> nextId, bytes |-> size]),
              bytes |-> left + size, lost |-> k]
        ELSE [queue |-> Evict(k), bytes |-> left, lost |-> k + 1]

(***************************************************************************)
(* return_unsent puts the batch back in front, newest first, discarding    *)
(* from the back whatever no longer fits: the longest prefix of the queue  *)
(* that fits behind the batch survives.                                    *)
(***************************************************************************)
(* Mutation: the last slot is not used.                                    *)
FitsBehind_Strict(k) ==
    /\ Len(batch) + k < max_entries
    /\ SumBytes(batch) + bytes - SumBytes(SubSeq(entries, k + 1, Len(entries)))
         <= max_bytes

FitsBehind(k) ==
    /\ Len(batch) + k <= max_entries
    /\ SumBytes(batch) + bytes - SumBytes(SubSeq(entries, k + 1, Len(entries)))
         <= max_bytes

Kept == Max({k \in 0..Len(entries) : FitsBehind(k)} \union {0})

(* Mutations: the batch goes to the back; what it displaces is uncounted.  *)
AfterReturn_Behind ==
    [queue |-> entries \o batch, bytes |-> SumBytes(batch) + bytes, lost |-> 0]
AfterReturn_Uncounted ==
    [queue |-> batch \o SubSeq(entries, 1, Kept),
     bytes |-> SumBytes(batch \o SubSeq(entries, 1, Kept)), lost |-> 0]

AfterReturn ==
    [queue |-> batch \o SubSeq(entries, 1, Kept),
     bytes |-> SumBytes(batch) + bytes
                 - SumBytes(SubSeq(entries, Kept + 1, Len(entries))),
     lost  |-> Len(entries) - Kept]

(* The queue becomes r.queue, and every discard is counted twice: for the  *)
(* current outage and for the agent's life.                                *)
Install(r) ==
    /\ entries' = r.queue
    /\ bytes' = r.bytes
    /\ dropped' = dropped + r.lost
    /\ dropped_total' = dropped_total + r.lost

-----------------------------------------------------------------------------
Init ==
    /\ entries = << >> /\ bytes = 0
    /\ dropped = 0 /\ dropped_total = 0
    /\ batch = << >> /\ told = 0
    /\ nextId = 1 /\ acked = 0 /\ lastAcked = 0 /\ ackedDrops = 0
    /\ overlapped = FALSE

(* Agent::enqueue: a finished or skipped task leaves a result.  The loop   *)
(* does this between POSTs; the spool itself allows it at any time.        *)
Enqueue(size) ==
    /\ nextId <= MaxResults
    /\ Install(AfterPush(size))
    /\ nextId' = nextId + 1
    /\ overlapped' = (overlapped \/ batch # << >>)
    /\ UNCHANGED <<batch, told, acked, lastAcked, ackedDrops>>

(* drain_spool up to its POST: take the oldest results, read the counter.  *)
Submit ==
    /\ batch = << >> /\ entries # << >>
    /\ LET n == Min({SubmitBatch, Len(entries)})
       IN  /\ batch' = SubSeq(entries, 1, n)
           /\ entries' = SubSeq(entries, n + 1, Len(entries))
           /\ bytes' = bytes - SumBytes(SubSeq(entries, 1, n))
    /\ told' = dropped
    /\ UNCHANGED <<dropped, dropped_total>>
    /\ UNCHANGED <<nextId, acked, lastAcked, ackedDrops, overlapped>>

(* Mutation: the answered batch is put back as well.                       *)
SubmitOk_Keeps ==
    /\ batch # << >>
    /\ acked' = acked + Len(batch) /\ lastAcked' = batch[Len(batch)].id
    /\ ackedDrops' = ackedDrops + told
    /\ entries' = AfterReturn.queue /\ bytes' = AfterReturn.bytes
    /\ dropped' = 0 /\ batch' = << >> /\ told' = 0
    /\ UNCHANGED <<dropped_total, nextId, overlapped>>

(* drain_spool, Ok arm: clear_dropped, the batch is the controller's now.  *)
SubmitOk ==
    /\ batch # << >>
    /\ acked' = acked + Len(batch)
    /\ lastAcked' = batch[Len(batch)].id
    /\ ackedDrops' = ackedDrops + told
    /\ dropped' = 0
    /\ batch' = << >> /\ told' = 0
    /\ UNCHANGED <<entries, bytes, dropped_total, nextId, overlapped>>

(* Mutation: a failed POST clears the discard counter.                     *)
SubmitErr_Clears ==
    /\ batch # << >>
    /\ entries' = AfterReturn.queue /\ bytes' = AfterReturn.bytes
    /\ dropped' = 0 /\ dropped_total' = dropped_total + AfterReturn.lost
    /\ batch' = << >> /\ told' = 0
    /\ UNCHANGED <<nextId, acked, lastAcked, ackedDrops, overlapped>>

(* drain_spool, Err arm.                                                   *)
SubmitErr ==
    /\ batch # << >>
    /\ Install(AfterReturn)
    /\ batch' = << >> /\ told' = 0
    /\ UNCHANGED <<nextId, acked, lastAcked, ackedDrops, overlapped>>

(* A heartbeat carries the counter too, and its success clears it.  The    *)
(* agent's loop never heartbeats during a POST.                            *)
HeartbeatOk ==
    /\ batch = << >>
    /\ ackedDrops' = ackedDrops + dropped
    /\ dropped' = 0
    /\ UNCHANGED <<entries, bytes, dropped_total, batch, told>>
    /\ UNCHANGED <<nextId, acked, lastAcked, overlapped>>

Next ==
    \/ \E size \in Sizes : Enqueue(size)
    \/ Submit \/ SubmitOk \/ SubmitErr
    \/ HeartbeatOk

Spec == Init /\ [][Next]_vars

-----------------------------------------------------------------------------
Held == batch \o entries
Increasing(es) == \A i, j \in 1..Len(es) : i < j => es[i].id < es[j].id

TypeOK ==
    /\ entries \in Seq(Entry) /\ batch \in Seq(Entry)
    /\ bytes \in Nat /\ dropped \in Nat /\ dropped_total \in Nat
    /\ told \in Nat
    /\ nextId \in Nat \ {0} /\ acked \in Nat /\ lastAcked \in Nat
    /\ ackedDrops \in Nat /\ overlapped \in BOOLEAN

(* The ceilings hold at every moment, whatever mix of pushes, partial      *)
(* drains and returned batches came before (would_exceed and the loop of   *)
(* return_unsent), and the running byte count they are enforced with is    *)
(* exactly the size of what is queued.                                     *)
Bounded ==
    /\ Len(entries) <= max_entries
    /\ bytes = SumBytes(entries)
    /\ bytes <= max_bytes

(* Results reach the controller in the order they were produced: what is   *)
(* acknowledged is older than what a POST carries, and that is older than  *)
(* what is queued, through evictions in the middle of the queue and        *)
(* returned batches.                                                       *)
Ordered ==
    /\ Increasing(batch) /\ Increasing(entries)
    /\ \A i \in 1..Len(batch), j \in 1..Len(entries) :
          batch[i].id < entries[j].id
    /\ \A i \in 1..Len(batch) : lastAcked < batch[i].id /\ batch[i].id < nextId
    /\ \A i \in 1..Len(entries) :
          lastAcked < entries[i].id /\ entries[i].id < nextId
    /\ lastAcked < nextId

(* Every discard is counted: a result the agent produced is delivered, in  *)
(* a POST, queued, or counted in dropped_total, and exactly one of these.  *)
Conserved ==
    nextId - 1 = acked + Len(batch) + Len(entries) + dropped_total

(* The counter sent upstream loses nothing: what the controller has been   *)
(* told, through submissions and heartbeats together, plus what the next   *)
(* message will tell it, is every discard there ever was, as long as the   *)
(* agent queues nothing during a POST.                                     *)
DropsReported == ~overlapped => dropped_total = ackedDrops + dropped

(* The oldest onset_reserve results held stay held, in place, until the    *)
(* controller acknowledges a batch: neither a push that evicts nor a       *)
(* failed submission touches the onset of an outage.                       *)
OnsetProtected ==
    [][(~overlapped' /\ acked' = acked)
         => LET onset == Prefix(Held, onset_reserve)
            IN  onset = Prefix(Held', Len(onset))]_vars

(* A failed submission costs nothing: results are discarded only when a    *)
(* new one is queued.                                                      *)
ReturnIsLossless ==
    [][(~overlapped /\ nextId' = nextId) => dropped_total' = dropped_total]_vars

(* The spool, with its ceilings, its reserve and its POSTs that fail, does *)
(* what Delivery promises: each result held in the queue or in a POST is   *)
(* delivered once, oldest first, or discarded and counted.                 *)
Promise ==
    INSTANCE Delivery WITH
        made <- nextId - 1, pending <- [i \in 1..Len(Held) |-> Held[i].id],
        delivered <- acked, last <- lastAcked, lost <- dropped_total,
        known <- ackedDrops
ImplementsDelivery == Promise!Spec
=============================================================================

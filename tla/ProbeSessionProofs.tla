------------------------- MODULE ProbeSessionProofs -------------------------
(***************************************************************************)
(* What a sender may report, for any number of packets, runs, duplicates   *)
(* and grants.                                                             *)
(***************************************************************************)
EXTENDS ProbeSession, DataLemmas, FiniteSetTheorems

Packet == [run : Nat, seq : Nat, copy : Nat]
Reply == [seq : Nat, copy : Nat, reflector_seq : Nat]
Sample == [seq : Nat, reflector_seq : Nat \union {None}]

(* The values of the sender, the reflector and the path.                   *)
TypeOK ==
    /\ protocol \in {"mqp", "twamp"}
    /\ phase \in {"idle", "sending", "linger", "done"} /\ run \in Nat
    /\ phase # "idle" => run >= 1
    /\ seq \in Nat /\ sent_at \subseteq 0..(seq - 1) /\ IsFiniteSet(sent_at)
    /\ samples \in Seq(Sample)
    /\ reflector_seq \in Nat
    /\ requests \subseteq Packet /\ IsFiniteSet(requests)
    /\ \A p \in requests : p.run \in 1..run
    /\ replies \subseteq Reply /\ IsFiniteSet(replies)
    /\ generated \in Nat /\ grants \in Nat /\ dups \in Nat

Current == {p \in requests : p.run = run}

(* Without duplication every packet of the run is in one place: a request  *)
(* on its way, or reflected; and of the replies made, each is on its way,  *)
(* lost or accepted.                                                       *)
Counted ==
    dups = 0 => /\ generated + Cardinality(Current) <= Cardinality(sent_at)
                /\ Len(samples) + Cardinality(replies) <= generated

(* In the first run of an MQP session the reflector's counter counts       *)
(* replies to this run, so a number it gave out is below their count.  A   *)
(* TWAMP responder's counter is not looked at.                             *)
Numbered ==
    /\ run = 0 => generated = 0
    /\ protocol = "twamp" => \A i \in 1..Len(samples) : samples[i].reflector_seq = None
    /\ protocol = "mqp" => \A i \in 1..Len(samples) : samples[i].reflector_seq \in Nat
    /\ (protocol = "mqp" /\ run <= 1) =>
         /\ reflector_seq <= generated
         /\ \A p \in replies : p.reflector_seq < generated
         /\ \A i \in 1..Len(samples) : samples[i].reflector_seq < generated

(* As long as it was granted once and has not restarted, it counts them    *)
(* all.                                                                    *)
GrantedOnce ==
    /\ grants > 0 => protocol = "mqp"
    /\ (protocol = "mqp" /\ grants = 0) => ~granted /\ generated = 0 /\ reflector_seq = 0
    /\ (protocol = "mqp" /\ granted /\ grants = 1 /\ run <= 1)
         => reflector_seq = generated

IInv == TypeOK /\ Counted /\ Numbered /\ GrantedOnce

-----------------------------------------------------------------------------
(* The initial state satisfies the invariant.                              *)
LEMMA InitIInv == Init => IInv
<1> SUFFICES ASSUME Init PROVE IInv
  OBVIOUS
<1>1. TypeOK
  BY FS_EmptySet DEF Init, TypeOK
<1>2. Current = {}
  BY DEF Init, Current
<1>3. Counted
  BY <1>2, FS_EmptySet DEF Init, Counted
<1>4. Numbered
  BY DEF Init, Numbered
<1>5. GrantedOnce
  <2>1. protocol = "mqp" => ~granted
    BY Zenon DEF Init
  <2>2. ~(grants > 0) /\ generated = 0 /\ reflector_seq = 0
    BY DEF Init
  <2> QED  BY <2>1, <2>2, Zenon DEF GrantedOnce
<1> QED  BY <1>1, <1>3, <1>4, <1>5 DEF IInv

(* The sets that are counted are finite, and their sizes are numbers.      *)
LEMMA Sizes ==
  ASSUME TypeOK
  PROVE  /\ Current \subseteq requests /\ IsFiniteSet(Current)
         /\ Cardinality(Current) \in Nat /\ Cardinality(sent_at) \in Nat
         /\ Cardinality(replies) \in Nat /\ Len(samples) \in Nat
<1>1. Current \subseteq requests
  BY DEF Current
<1>2. IsFiniteSet(Current)
  BY <1>1, FS_Subset DEF TypeOK
<1> QED  BY <1>1, <1>2, FS_CardinalityType DEF TypeOK

(* A run starts.                                                           *)
LEMMA StartIInv == ASSUME IInv, Start PROVE IInv'
<1> USE DEF Start, reflector
<1>1. TypeOK'
  BY FS_EmptySet DEF IInv, TypeOK
<1>2. Counted'
  <2>1. Current' = {}
    BY DEF IInv, TypeOK, Current
  <2> QED  BY <2>1, FS_EmptySet DEF Counted
<1>3. Numbered'
  BY DEF IInv, TypeOK, Numbered
<1>4. GrantedOnce'
  BY DEF IInv, TypeOK, Numbered, GrantedOnce
<1> QED  BY <1>1, <1>2, <1>3, <1>4 DEF IInv

(* A packet is due: it is sent, or sending fails.                          *)
LEMMA TickIInv == ASSUME IInv, NEW ok \in BOOLEAN, Tick(ok) PROVE IInv'
<1> DEFINE p == [run |-> run, seq |-> seq, copy |-> 0]
<1>1. /\ seq \in Nat /\ run \in Nat /\ run >= 1 /\ seq \notin sent_at
      /\ IsFiniteSet(sent_at) /\ IsFiniteSet(requests)
  BY DEF IInv, TypeOK, Tick
<1>2. p \in Packet /\ p.run = run
  BY <1>1 DEF Packet
<1>3. /\ seq' = seq + 1 /\ phase' \in {"linger", "sending"}
      /\ UNCHANGED <<run, samples, protocol, granted, reflector_seq, replies,
                     generated, grants, dups>>
      /\ \/ UNCHANGED <<sent_at, requests>>
         \/ sent_at' = sent_at \union {seq} /\ requests' = requests \union {p}
  BY DEF Tick, reflector
<1> HIDE DEF p
<1>4. TypeOK'
  <2>1. IsFiniteSet(sent_at') /\ IsFiniteSet(requests')
    BY <1>1, <1>3, FS_AddElement
  <2>2. sent_at' \subseteq 0..(seq' - 1)
    <3>1. \A i \in sent_at : i \in 0..(seq - 1)
      BY DEF IInv, TypeOK
    <3>2. sent_at \union {seq} \subseteq 0..(seq + 1 - 1)
      BY <1>1, <3>1
    <3> QED  BY <1>3, <3>2
  <2>3. requests' \subseteq Packet /\ \A q \in requests' : q.run \in 1..run'
    BY <1>1, <1>2, <1>3 DEF IInv, TypeOK
  <2> QED  BY <2>1, <2>2, <2>3, <1>1, <1>3 DEF IInv, TypeOK
<1>5. Counted'
  <2>1. CASE UNCHANGED <<sent_at, requests>>
    BY <2>1, <1>3 DEF IInv, Counted, Current
  <2>2. CASE sent_at' = sent_at \union {seq} /\ requests' = requests \union {p}
    <3>1. Current' = Current \union {p}
      BY <1>2, <1>3, <2>2 DEF Current
    <3>2. /\ IsFiniteSet(Current) /\ Cardinality(Current) \in Nat
          /\ Cardinality(sent_at) \in Nat
      BY Sizes DEF IInv
    <3>3. Cardinality(sent_at') = Cardinality(sent_at) + 1
      BY <1>1, <2>2, FS_AddElement
    <3>4. /\ Cardinality(Current') \in Nat
          /\ Cardinality(Current') <= Cardinality(Current) + 1
      BY <3>1, <3>2, FS_AddElement
    <3>5. generated \in Nat
      BY DEF IInv, TypeOK
    <3> QED  BY <1>3, <3>2, <3>3, <3>4, <3>5 DEF IInv, Counted
  <2> QED  BY <1>3, <2>1, <2>2
<1>6. Numbered' /\ GrantedOnce'
  BY <1>3 DEF IInv, Numbered, GrantedOnce
<1> QED  BY <1>4, <1>5, <1>6 DEF IInv

(* A reply is accepted.                                                    *)
LEMMA ReceiveIInv == ASSUME IInv, NEW p \in replies, Receive(p) PROVE IInv'
<1> DEFINE s == [seq |-> p.seq, reflector_seq |-> CounterOf(p)]
<1>1. p \in Reply /\ samples \in Seq(Sample) /\ IsFiniteSet(replies)
  BY DEF IInv, TypeOK
<1>2. /\ s \in Sample
      /\ s.reflector_seq = IF protocol = "twamp" THEN None ELSE p.reflector_seq
      /\ p.reflector_seq \in Nat
  BY <1>1 DEF Sample, CounterOf, Reply
<1>3. /\ samples' = Append(samples, s) /\ replies' = replies \ {p}
      /\ UNCHANGED <<phase, run, seq, sent_at, protocol, granted, reflector_seq,
                     requests, generated, grants, dups>>
  BY DEF Receive, reflector
<1> HIDE DEF s
<1>4. /\ samples' \in Seq(Sample) /\ Len(samples') = Len(samples) + 1
      /\ Len(samples) \in Nat /\ samples'[Len(samples) + 1] = s
      /\ \A i \in 1..Len(samples) : samples'[i] = samples[i]
  BY <1>1, <1>2, <1>3
<1>5. /\ IsFiniteSet(replies') /\ Cardinality(replies') = Cardinality(replies) - 1
      /\ Cardinality(replies) \in Nat
  BY <1>1, <1>3, FS_RemoveElement, FS_CardinalityType
<1>6. TypeOK'
  BY <1>3, <1>4, <1>5 DEF IInv, TypeOK
<1>7. Counted'
  <2>1. Current' = Current
    BY <1>3 DEF Current
  <2> QED  BY <2>1, <1>3, <1>4, <1>5 DEF IInv, TypeOK, Counted
<1>8. Numbered'
  BY <1>2, <1>3, <1>4 DEF IInv, TypeOK, Numbered
<1>9. GrantedOnce'
  BY <1>3 DEF IInv, GrantedOnce
<1> QED  BY <1>6, <1>7, <1>8, <1>9 DEF IInv

-----------------------------------------------------------------------------
(* A request is reflected, and the reply sent or not.                      *)
LEMMA ReflectIInv ==
  ASSUME IInv, NEW p \in requests, NEW ok \in BOOLEAN, Reflect(p, ok)
  PROVE  IInv'
<1> DEFINE r == ReplyTo(p)
<1>1. /\ p \in Packet /\ p.run \in 1..run /\ run \in Nat /\ reflector_seq \in Nat
      /\ generated \in Nat /\ IsFiniteSet(requests) /\ IsFiniteSet(replies)
      /\ granted
  BY DEF IInv, TypeOK, Reflect
<1>2. r \in Reply /\ r.reflector_seq = reflector_seq
  BY <1>1 DEF ReplyTo, Reply, Packet
<1>3. /\ requests' = requests \ {p} /\ reflector_seq' = reflector_seq + 1
      /\ generated' = generated + (IF p.run = run THEN 1 ELSE 0)
      /\ replies' = replies \/ (p.run = run /\ replies' = replies \union {r})
      /\ UNCHANGED <<protocol, phase, run, seq, sent_at, samples, granted, grants, dups>>
  BY DEF Reflect, sender
<1> HIDE DEF r
<1>4. /\ IsFiniteSet(requests') /\ IsFiniteSet(replies')
      /\ Cardinality(replies) \in Nat /\ Cardinality(replies') \in Nat
      /\ Cardinality(replies') <= Cardinality(replies) + (IF p.run = run THEN 1 ELSE 0)
  <2>1. IsFiniteSet(requests') /\ Cardinality(replies) \in Nat
    BY <1>1, <1>3, FS_RemoveElement, FS_CardinalityType
  <2>2. CASE replies' = replies
    BY <1>1, <2>1, <2>2
  <2>3. CASE p.run = run /\ replies' = replies \union {r}
    <3>1. /\ IsFiniteSet(replies')
          /\ \/ Cardinality(replies') = Cardinality(replies)
             \/ Cardinality(replies') = Cardinality(replies) + 1
      BY <1>1, <2>3, FS_AddElement
    <3> QED  BY <2>1, <2>3, <3>1
  <2> QED  BY <1>3, <2>2, <2>3
<1>5. generated' \in Nat /\ reflector_seq' \in Nat
  BY <1>1, <1>3
<1>6. TypeOK'
  BY <1>2, <1>3, <1>4, <1>5 DEF IInv, TypeOK
<1>7. Counted'
  <2>1. /\ IsFiniteSet(Current) /\ Cardinality(Current) \in Nat
        /\ Cardinality(sent_at) \in Nat /\ Len(samples) \in Nat
    BY Sizes DEF IInv
  <2>2. /\ Current' = IF p.run = run THEN Current \ {p} ELSE Current
        /\ p.run = run => p \in Current
    BY <1>3 DEF Current
  <2>3. Cardinality(Current') = Cardinality(Current) - (IF p.run = run THEN 1 ELSE 0)
    <3>1. CASE p.run = run
      <4>1. Cardinality(Current \ {p}) = Cardinality(Current) - 1
        BY <2>1, <2>2, <3>1, FS_RemoveElement
      <4> QED  BY <2>2, <3>1, <4>1
    <3>2. CASE p.run # run
      BY <2>1, <2>2, <3>2
    <3> QED  BY <3>1, <3>2
  <2> QED  BY <1>1, <1>3, <1>4, <2>1, <2>3 DEF IInv, Counted
<1>8. Numbered'
  <2>1. run # 0
    BY <1>1
  <2>2. run <= 1 => p.run = run
    BY <1>1
  <2>3. CASE protocol = "mqp" /\ run <= 1
    <3>1. /\ generated' = generated + 1 /\ reflector_seq' = reflector_seq + 1
          /\ reflector_seq <= generated
          /\ \A q \in replies : q.reflector_seq < generated /\ q.reflector_seq \in Nat
          /\ \A i \in 1..Len(samples) :
                samples[i].reflector_seq < generated /\ samples[i].reflector_seq \in Nat
      <4>1. \A q \in replies : q.reflector_seq \in Nat
        BY DEF IInv, TypeOK, Reply
      <4> QED  BY <1>3, <2>2, <2>3, <4>1 DEF IInv, Numbered
    <3>2. \A q \in replies' : q.reflector_seq < generated'
      BY <1>1, <1>2, <1>3, <3>1
    <3>3. \A i \in 1..Len(samples) : samples[i].reflector_seq < generated'
      BY <1>1, <3>1
    <3>4. reflector_seq' <= generated'
      BY <1>1, <3>1
    <3> QED  BY <1>3, <2>1, <2>3, <3>2, <3>3, <3>4 DEF IInv, Numbered
  <2>4. CASE ~(protocol = "mqp" /\ run <= 1)
    BY <1>3, <2>1, <2>4 DEF IInv, Numbered
  <2> QED  BY <2>3, <2>4
<1>9. GrantedOnce'
  <2>1. run <= 1 => p.run = run
    BY <1>1
  <2>2. ~(protocol = "mqp" /\ grants = 0)
    BY <1>1, Zenon DEF IInv, GrantedOnce
  <2> QED  BY <1>1, <1>3, <2>1, <2>2 DEF IInv, GrantedOnce
<1> QED  BY <1>6, <1>7, <1>8, <1>9 DEF IInv

(* A request for no session is dropped.                                    *)
LEMMA DropIInv == ASSUME IInv, NEW p \in requests, DropUnknown(p) PROVE IInv'
<1>1. /\ requests' = requests \ {p}
      /\ UNCHANGED <<protocol, phase, run, seq, sent_at, samples, granted,
                     reflector_seq, replies, generated, grants, dups>>
  BY DEF DropUnknown, sender, reflector
<1>2. IsFiniteSet(requests')
  BY <1>1, FS_RemoveElement DEF IInv, TypeOK
<1>3. TypeOK'
  BY <1>1, <1>2 DEF IInv, TypeOK
<1>4. Counted'
  <2>1. Current' \subseteq Current
    BY <1>1 DEF Current
  <2>2. /\ IsFiniteSet(Current) /\ Cardinality(Current) \in Nat
        /\ Cardinality(sent_at) \in Nat /\ generated \in Nat
    BY Sizes DEF IInv, TypeOK
  <2>3. Cardinality(Current') \in Nat /\ Cardinality(Current') <= Cardinality(Current)
    BY <2>1, <2>2, FS_Subset, FS_CardinalityType
  <2> QED  BY <1>1, <2>2, <2>3 DEF IInv, Counted
<1>5. Numbered' /\ GrantedOnce'
  BY <1>1 DEF IInv, Numbered, GrantedOnce
<1> QED  BY <1>3, <1>4, <1>5 DEF IInv

(* The path duplicates a packet.                                           *)
LEMMA DuplicateIInv ==
  ASSUME IInv, NEW p \in requests \union replies, Duplicate(p)
  PROVE  IInv'
<1> DEFINE twin == [p EXCEPT !.copy = dups + 1]
<1>1. /\ dups \in Nat /\ dups' = dups + 1 /\ IsFiniteSet(requests)
      /\ IsFiniteSet(replies)
      /\ UNCHANGED <<protocol, phase, run, seq, sent_at, samples, granted,
                     reflector_seq, generated, grants>>
      /\ \/ p \in requests /\ requests' = requests \union {twin} /\ replies' = replies
         \/ p \in replies /\ replies' = replies \union {twin} /\ requests' = requests
  BY DEF IInv, TypeOK, Duplicate, sender, reflector
<1>2. /\ p \in Packet => twin \in Packet /\ twin.run = p.run
      /\ p \in Reply => twin \in Reply /\ twin.reflector_seq = p.reflector_seq
  BY <1>1 DEF Packet, Reply
<1> HIDE DEF twin
<1>3. IsFiniteSet(requests') /\ IsFiniteSet(replies')
  BY <1>1, FS_AddElement
<1>4. /\ requests' \subseteq Packet /\ \A q \in requests' : q.run \in 1..run
      /\ replies' \subseteq Reply
      /\ \A q \in replies' : \E o \in replies : q.reflector_seq = o.reflector_seq
  BY <1>1, <1>2 DEF IInv, TypeOK
<1>5. TypeOK'
  BY <1>1, <1>3, <1>4 DEF IInv, TypeOK
<1>6. Counted'
  BY <1>1 DEF Counted
<1>7. Numbered'
  BY <1>1, <1>4 DEF IInv, Numbered
<1>8. GrantedOnce'
  BY <1>1 DEF IInv, GrantedOnce
<1> QED  BY <1>5, <1>6, <1>7, <1>8 DEF IInv

(* The reflector is granted the session, dies, or answers somebody else.   *)
LEMMA ReflectorIInv ==
  ASSUME IInv, Grant \/ ReflectorRestarts \/ ReflectOther
  PROVE  IInv'
<1>1. /\ UNCHANGED <<protocol, phase, run, seq, sent_at, samples, requests,
                     replies, generated, dups>>
      /\ generated \in Nat /\ reflector_seq \in Nat /\ grants \in Nat
      /\ grants' \in Nat /\ reflector_seq' \in Nat
  BY DEF Grant, ReflectorRestarts, ReflectOther, sender, path, IInv, TypeOK
<1>2. TypeOK' /\ Counted'
  BY <1>1 DEF IInv, TypeOK, Counted, Current
<1>3. reflector_seq' = 0 \/ protocol = "twamp"
  BY DEF Grant, ReflectorRestarts, ReflectOther
<1>4. Numbered'
  BY <1>1, <1>3 DEF IInv, Numbered
<1>5. GrantedOnce'
  <2>1. CASE Grant
    BY <2>1, <1>1 DEF Grant, IInv, GrantedOnce
  <2>2. CASE ReflectorRestarts
    <3>1. protocol = "mqp" => ~granted'
      BY <2>2, Zenon DEF ReflectorRestarts
    <3>2. ~(protocol = "mqp" /\ grants = 0)
      BY <2>2, Zenon DEF ReflectorRestarts, IInv, GrantedOnce
    <3>3. grants' = grants
      BY <2>2 DEF ReflectorRestarts
    <3> QED  BY <3>1, <3>2, <3>3, <1>1 DEF IInv, GrantedOnce
  <2>3. CASE ReflectOther
    BY <2>3, <1>1 DEF ReflectOther, IInv, GrantedOnce
  <2> QED  BY <2>1, <2>2, <2>3
<1> QED  BY <1>2, <1>4, <1>5 DEF IInv

(* Every step keeps the invariant.                                         *)
LEMMA NextIInv == IInv /\ [Next]_vars => IInv'
<1> SUFFICES ASSUME IInv, [Next]_vars PROVE IInv'
  OBVIOUS
<1>1. CASE UNCHANGED vars
  BY <1>1 DEF vars, IInv, TypeOK, Counted, Current, Numbered, GrantedOnce
<1>2. CASE LingerEnds
  <2>1. TypeOK'
    BY <1>2 DEF LingerEnds, reflector, path, IInv, TypeOK
  <2> QED  BY <1>2, <2>1 DEF LingerEnds, reflector, path, IInv, Counted, Current,
                          Numbered, GrantedOnce
<1> QED  BY <1>1, <1>2, StartIInv, TickIInv, ReceiveIInv, ReflectIInv, DropIInv,
            DuplicateIInv, ReflectorIInv DEF Next

(* The inductive invariant holds in every reachable state.                 *)
THEOREM ProbeInvariance == Spec => []IInv
BY InitIInv, NextIInv, PTL DEF Spec

(* Without duplication by the path no more packets are received than were  *)
(* sent, in any run of a session.                                          *)
THEOREM RejectionNeedsDuplicates == Spec => []RejectedOnlyForDuplicates
<1>1. IInv => RejectedOnlyForDuplicates
  <2> SUFFICES ASSUME IInv, dups = 0 PROVE Len(samples) <= Cardinality(sent_at)
    BY DEF RejectedOnlyForDuplicates
  <2>1. /\ Cardinality(Current) \in Nat /\ Cardinality(sent_at) \in Nat
        /\ Cardinality(replies) \in Nat /\ Len(samples) \in Nat /\ generated \in Nat
    BY Sizes DEF IInv, TypeOK
  <2> QED  BY <2>1 DEF IInv, Counted
<1> QED  BY <1>1, ProbeInvariance, PTL

-----------------------------------------------------------------------------
(* The direction of loss.                                                  *)

Unattributable == \E i \in 1..Len(samples) : samples[i].reflector_seq = None

(* What loss_stats says, with the sizes it compares named.                 *)
LEMMA LossFacts ==
  ASSUME NEW sent \in Nat, sent = Cardinality(sent_at),
         NEW received \in Nat, received = Len(samples)
  PROVE  /\ (samples = << >> \/ Unattributable) => loss_stats.reverse_lost = 0
         /\ ~(samples = << >> \/ Unattributable) =>
               /\ loss_stats.reverse_lost =
                     Min({Minus(replies_generated, received), Minus(sent, received)})
               /\ loss_stats.forward_lost =
                     Minus(Minus(sent, received), Minus(replies_generated, received))
<1>1. CASE samples = << >> \/ Unattributable
  BY <1>1 DEF loss_stats, Unattributable
<1>2. CASE ~(samples = << >> \/ Unattributable)
  BY <1>2 DEF loss_stats, Unattributable
<1> QED  BY <1>1, <1>2

(* The sizes that an undisturbed first run leaves, and the highest number  *)
(* among the samples, which the reflector gave to one of its replies.      *)
LEMMA CleanFacts ==
  ASSUME IInv, Clean
  PROVE  /\ Cardinality(sent_at) \in Nat /\ Len(samples) \in Nat /\ generated \in Nat
         /\ Len(samples) <= generated /\ generated <= Cardinality(sent_at)
         /\ ~(samples = << >> \/ Unattributable) =>
               /\ protocol = "mqp" /\ highest_reflector_seq \in Nat
               /\ highest_reflector_seq + 1 <= generated
               /\ \A i \in 1..Len(samples) :
                     samples[i].reflector_seq <= highest_reflector_seq
<1>1. /\ Cardinality(Current) \in Nat /\ Cardinality(sent_at) \in Nat
      /\ Cardinality(replies) \in Nat /\ Len(samples) \in Nat /\ generated \in Nat
      /\ samples \in Seq(Sample) /\ protocol \in {"mqp", "twamp"}
  BY Sizes DEF IInv, TypeOK
<1>2. Len(samples) <= generated /\ generated <= Cardinality(sent_at)
  BY <1>1 DEF IInv, Counted, Clean
<1>3. ASSUME ~(samples = << >> \/ Unattributable)
      PROVE  /\ protocol = "mqp" /\ highest_reflector_seq \in Nat
             /\ highest_reflector_seq + 1 <= generated
             /\ \A i \in 1..Len(samples) :
                     samples[i].reflector_seq <= highest_reflector_seq
  <2> DEFINE T == {samples[i].reflector_seq : i \in 1..Len(samples)}
  <2>1. 1 \in 1..Len(samples)
    BY <1>1, <1>3
  <2>2. protocol = "mqp"
    BY <1>1, <1>3, <2>1 DEF IInv, Numbered, Unattributable
  <2>3. \A i \in 1..Len(samples) :
           samples[i].reflector_seq \in Nat /\ samples[i].reflector_seq < generated
    BY <2>2 DEF IInv, Numbered, Clean
  <2>4. T \subseteq 0..generated /\ T # {} /\ \A t \in T : t < generated
    BY <1>1, <2>1, <2>3
  <2>5. highest_reflector_seq = Max(T)
    BY DEF highest_reflector_seq
  <2>6. \A i \in 1..Len(samples) : samples[i].reflector_seq \in T
    OBVIOUS
  <2> HIDE DEF T
  <2>7. Max(T) \in T /\ \A t \in T : t <= Max(T)
    BY <1>1, <2>4, MaxNat
  <2>8. Max(T) \in 0..generated /\ Max(T) < generated
    BY <2>4, <2>7
  <2> QED  BY <1>1, <2>2, <2>5, <2>6, <2>7, <2>8
<1> QED  BY <1>1, <1>2, <1>3

(* No more is blamed on the way back than was lost there, in the first run *)
(* of a session without duplication: the numbers that came back are below  *)
(* the count of replies made.                                              *)
THEOREM ReverseIsBlamedJustly == Spec => []ReverseBlamedJustly
<1>1. IInv => ReverseBlamedJustly
  <2> SUFFICES ASSUME IInv, Clean
               PROVE  loss_stats.reverse_lost <= generated - Len(samples)
    BY DEF ReverseBlamedJustly
  <2>1. PICK sent \in Nat : sent = Cardinality(sent_at)
    BY CleanFacts
  <2>2. PICK received \in Nat : received = Len(samples)
    BY CleanFacts
  <2>3. generated \in Nat /\ received <= generated
    BY <2>2, CleanFacts
  <2>4. CASE samples = << >> \/ Unattributable
    <3>1. loss_stats.reverse_lost = 0
      BY <2>1, <2>2, <2>4, LossFacts
    <3> QED  BY <2>2, <2>3, <3>1
  <2>5. CASE ~(samples = << >> \/ Unattributable)
    <3>1. replies_generated \in Nat /\ replies_generated <= generated
      BY <2>5, <2>3, CleanFacts DEF replies_generated
    <3> DEFINE rev == Minus(replies_generated, received)
               mis == Minus(sent, received)
    <3>2. rev \in Nat /\ mis \in Nat /\ rev <= generated - received
      BY <2>3, <3>1 DEF Minus
    <3>3. loss_stats.reverse_lost = Min({rev, mis})
      BY <2>1, <2>2, <2>5, LossFacts
    <3> HIDE DEF rev, mis
    <3>4. Min({rev, mis}) = IF rev <= mis THEN rev ELSE mis
      BY <3>2, MinTwo
    <3> QED  BY <2>2, <2>3, <3>2, <3>3, <3>4
  <2> QED  BY <2>4, <2>5
<1> QED  BY <1>1, ProbeInvariance, PTL

(* Each direction is given precisely what it lost when the reflector was   *)
(* granted once and its last reply arrived: that reply's number, plus one, *)
(* is the count of replies made.                                           *)
THEOREM AttributionIsExact == Spec => []AttributionExact
<1>1. IInv => AttributionExact
  <2> SUFFICES ASSUME IInv, Clean, grants = 1, granted,
                      NEW i \in 1..Len(samples),
                      samples[i].reflector_seq = reflector_seq - 1
               PROVE  /\ loss_stats.reverse_lost = generated - Len(samples)
                      /\ loss_stats.forward_lost = Cardinality(sent_at) - generated
    BY DEF AttributionExact
  <2>1. PICK sent \in Nat : sent = Cardinality(sent_at)
    BY CleanFacts
  <2>2. PICK received \in Nat : received = Len(samples)
    BY CleanFacts
  <2>3. generated \in Nat /\ received <= generated /\ generated <= sent
    BY <2>1, <2>2, CleanFacts
  <2>4. protocol = "mqp"
    BY DEF IInv, GrantedOnce
  <2>5. reflector_seq = generated
    <3>1. run <= 1
      BY DEF Clean
    <3> QED  BY <2>4, <3>1, Zenon DEF IInv, GrantedOnce
  <2>6. ~(samples = << >> \/ Unattributable)
    <3>1. \A j \in 1..Len(samples) : samples[j].reflector_seq \in Nat
      BY <2>4 DEF IInv, Numbered
    <3>2. ~Unattributable
      BY <3>1, ProbeAssumption DEF Unattributable
    <3> QED  BY <2>2, <3>2
  <2>7. replies_generated = generated
    <3>1. /\ highest_reflector_seq \in Nat /\ highest_reflector_seq + 1 <= generated
          /\ samples[i].reflector_seq <= highest_reflector_seq
      BY <2>6, CleanFacts
    <3> QED  BY <2>3, <2>5, <3>1 DEF replies_generated
  <2> DEFINE rev == Minus(replies_generated, received)
             mis == Minus(sent, received)
  <2>8. rev = generated - received /\ mis = sent - received
    BY <2>3, <2>7 DEF Minus
  <2>9. /\ loss_stats.reverse_lost = Min({rev, mis})
        /\ loss_stats.forward_lost = Minus(mis, rev)
    BY <2>1, <2>2, <2>6, LossFacts
  <2> HIDE DEF rev, mis
  <2>10. Min({rev, mis}) = rev
    <3>1. rev \in Int /\ mis \in Int /\ rev <= mis
      BY <2>3, <2>8
    <3> QED  BY <3>1, MinTwo
  <2>11. Minus(mis, rev) = sent - generated
    BY <2>3, <2>8 DEF Minus
  <2> QED  BY <2>1, <2>2, <2>8, <2>9, <2>10, <2>11
<1> QED  BY <1>1, ProbeInvariance, PTL

-----------------------------------------------------------------------------
(* Reordering.  Water is a walk along the order of arrival; each claim     *)
(* about it is refuted at a least counterexample.                          *)

Empty == [high |-> 0, reordered |-> 0, displacement |-> 0]

(* A walk exists along every prefix of the samples.                        *)
LEMMA WaterExists ==
  ASSUME NEW ss \in Seq(Sample)
  PROVE  \A n \in 0..Len(ss) :
            \E g : g = [i \in 0..n |-> IF i = 0 THEN Empty
                                       ELSE AdvanceWater(g[i - 1], ss[i])]
<1> DEFINE Ok(n) == \E g : g = [i \in 0..n |-> IF i = 0 THEN Empty
                                        ELSE AdvanceWater(g[i - 1], ss[i])]
           T == {n \in 0..Len(ss) : ~ Ok(n)}
<1>1. SUFFICES ASSUME T # {} PROVE FALSE
  OBVIOUS
<1>2. T \subseteq Nat
  <2> HIDE DEF Ok
  <2> QED  OBVIOUS
<1>3. PICK m \in T : \A k \in T : m <= k
  <2> HIDE DEF T
  <2> QED  BY <1>1, <1>2, LeastNat
<1>4. CASE m = 0
  <2> DEFINE g == [i \in 0..0 |-> Empty]
  <2>1. g = [i \in 0..0 |-> IF i = 0 THEN Empty ELSE AdvanceWater(g[i - 1], ss[i])]
    OBVIOUS
  <2> QED  BY <2>1, <1>4
<1>5. CASE m # 0
  <2>1. m - 1 \in 0..Len(ss) /\ Ok(m - 1)
    <3> HIDE DEF Ok
    <3> QED  BY <1>3, <1>5
  <2>2. PICK g : g = [i \in 0..(m - 1) |-> IF i = 0 THEN Empty
                                           ELSE AdvanceWater(g[i - 1], ss[i])]
    BY <2>1
  <2> DEFINE h == [i \in 0..m |-> IF i = m THEN AdvanceWater(g[m - 1], ss[m])
                                  ELSE g[i]]
  <2>3. ASSUME NEW i \in 0..m
        PROVE  h[i] = IF i = 0 THEN Empty ELSE AdvanceWater(h[i - 1], ss[i])
    BY <2>2, <1>5
  <2>4. h = [i \in 0..m |-> IF i = 0 THEN Empty ELSE AdvanceWater(h[i - 1], ss[i])]
    BY <2>3
  <2> QED  BY <2>4
<1> QED  BY <1>4, <1>5

(* Water satisfies the equation it is defined by.                          *)
LEMMA WaterDef ==
  ASSUME NEW ss \in Seq(Sample)
  PROVE  Water(ss) = [i \in 0..Len(ss) |-> IF i = 0 THEN Empty
                                 ELSE AdvanceWater(Water(ss)[i - 1], ss[i])]
<1>1. \E g : g = [i \in 0..Len(ss) |-> IF i = 0 THEN Empty
                                       ELSE AdvanceWater(g[i - 1], ss[i])]
  BY WaterExists
<1> QED  BY <1>1, Zenon DEF Water, Empty

(* The numbers that arrived before the i-th sample, the samples among the  *)
(* first n that came after a higher number, and by how much.               *)
Before(ss, i) == {ss[j].seq : j \in 1..(i - 1)}
Behind(ss, n) == {i \in 1..n : \E s \in Before(ss, i) : s > ss[i].seq}
Gap(ss, i) == Max(Before(ss, i)) - ss[i].seq

Level == [high : Nat, reordered : Nat, displacement : Nat]

(* What the walk has computed after n arrivals.                            *)
WaterOk(ss, n) ==
    LET w == Water(ss)[n]
    IN  /\ w \in Level
        /\ \A j \in 1..n : ss[j].seq <= w.high
        /\ w.high = 0 \/ \E j \in 1..n : ss[j].seq = w.high
        /\ IsFiniteSet(Behind(ss, n)) /\ w.reordered = Cardinality(Behind(ss, n))
        /\ \A i \in Behind(ss, n) : Gap(ss, i) <= w.displacement
        /\ w.displacement = 0 \/ \E i \in Behind(ss, n) : Gap(ss, i) = w.displacement

(* The greatest element of a set is its Max.                               *)
LEMMA MaxIs ==
  ASSUME NEW T, T \subseteq Int, NEW m \in T, \A t \in T : t <= m
  PROVE  Max(T) = m
<1>1. \E x \in T : \A y \in T : x >= y
  OBVIOUS
<1>2. Max(T) \in T /\ \A y \in T : Max(T) >= y
  BY <1>1 DEF Max
<1> DEFINE x == Max(T)
<1> HIDE DEF x
<1>3. x \in Int /\ m \in Int /\ x >= m /\ x <= m
  BY <1>2 DEF x
<1>4. x = m
  BY <1>3
<1> QED  BY <1>4 DEF x

(* One step of the walk.                                                   *)
LEMMA AdvanceFacts ==
  ASSUME NEW v \in Level, NEW s \in Sample
  PROVE  LET w == AdvanceWater(v, s)
         IN  /\ w \in Level
             /\ w.high = IF v.high <= s.seq THEN s.seq ELSE v.high
             /\ w.reordered = v.reordered + (IF s.seq < v.high THEN 1 ELSE 0)
             /\ w.displacement = IF v.displacement <= Minus(v.high, s.seq)
                                 THEN Minus(v.high, s.seq) ELSE v.displacement
<1>1. v.high \in Nat /\ v.reordered \in Nat /\ v.displacement \in Nat /\ s.seq \in Nat
  BY DEF Level, Sample
<1>2. Minus(v.high, s.seq) \in Nat
  BY <1>1 DEF Minus
<1>3. Max({v.high, s.seq}) = IF v.high <= s.seq THEN s.seq ELSE v.high
  BY <1>1, MaxTwo
<1>4. Max({v.displacement, Minus(v.high, s.seq)}) =
        IF v.displacement <= Minus(v.high, s.seq)
        THEN Minus(v.high, s.seq) ELSE v.displacement
  BY <1>1, <1>2, MaxTwo
<1> DEFINE h == Max({v.high, s.seq})
           r == v.reordered + (IF s.seq < v.high THEN 1 ELSE 0)
           d == Max({v.displacement, Minus(v.high, s.seq)})
<1>5. h \in Nat /\ r \in Nat /\ d \in Nat
  BY <1>1, <1>2, <1>3, <1>4
<1>6. AdvanceWater(v, s) = [high |-> h, reordered |-> r, displacement |-> d]
  BY DEF AdvanceWater
<1> HIDE DEF h, r, d
<1>7. /\ AdvanceWater(v, s) \in Level /\ AdvanceWater(v, s).high = h
      /\ AdvanceWater(v, s).reordered = r /\ AdvanceWater(v, s).displacement = d
  BY <1>5, <1>6 DEF Level
<1> QED  BY <1>3, <1>4, <1>7 DEF h, r, d

(* If the walk is right after n - 1 arrivals it is right after n.          *)
LEMMA WaterStep ==
  ASSUME NEW ss \in Seq(Sample), NEW n \in 1..Len(ss), WaterOk(ss, n - 1)
  PROVE  WaterOk(ss, n)
<1> DEFINE v == Water(ss)[n - 1]
           w == Water(ss)[n]
           s == ss[n]
<1>0. n \in Nat /\ n - 1 \in Nat /\ n \in 0..Len(ss) /\ n # 0
  OBVIOUS
<1>1. w = AdvanceWater(v, s)
  BY <1>0, WaterDef
<1>2. s \in Sample /\ \A j \in 1..Len(ss) : ss[j].seq \in Nat
  <2>1. \A j \in 1..Len(ss) : ss[j] \in Sample
    OBVIOUS
  <2> QED  BY <2>1 DEF Sample
<1>3. /\ v \in Level
      /\ \A j \in 1..(n - 1) : ss[j].seq <= v.high
      /\ v.high = 0 \/ \E j \in 1..(n - 1) : ss[j].seq = v.high
      /\ IsFiniteSet(Behind(ss, n - 1)) /\ v.reordered = Cardinality(Behind(ss, n - 1))
      /\ \A i \in Behind(ss, n - 1) : Gap(ss, i) <= v.displacement
      /\ v.displacement = 0 \/ \E i \in Behind(ss, n - 1) : Gap(ss, i) = v.displacement
  BY DEF WaterOk
<1>s. s = ss[n] /\ s.seq \in Nat /\ \A j \in 1..(n - 1) : j \in 1..Len(ss)
  BY <1>0, <1>2
<1> HIDE DEF v, w, s
<1>4. /\ w \in Level
      /\ w.high = IF v.high <= s.seq THEN s.seq ELSE v.high
      /\ w.reordered = v.reordered + (IF s.seq < v.high THEN 1 ELSE 0)
      /\ w.displacement = IF v.displacement <= Minus(v.high, s.seq)
                          THEN Minus(v.high, s.seq) ELSE v.displacement
  BY <1>1, <1>2, <1>3, AdvanceFacts
<1>5. v.high \in Nat /\ v.displacement \in Nat /\ v.reordered \in Nat
  BY <1>3 DEF Level
<1>6. /\ \A j \in 1..n : ss[j].seq <= w.high
      /\ w.high = 0 \/ \E j \in 1..n : ss[j].seq = w.high
  <2>1. \A j \in 1..n : j = n \/ j \in 1..(n - 1)
    BY <1>0
  <2>2. \A j \in 1..(n - 1) : j \in 1..n
    BY <1>0
  <2>3. \A j \in 1..n : ss[j].seq <= w.high
    BY <1>2, <1>3, <1>4, <1>5, <1>s, <2>1
  <2>4. CASE v.high <= s.seq
    BY <1>0, <1>4, <1>s, <2>3, <2>4
  <2>5. CASE ~(v.high <= s.seq)
    BY <1>3, <1>4, <2>2, <2>3, <2>5
  <2> QED  BY <2>3, <2>4, <2>5
<1>7. (\E t \in Before(ss, n) : t > s.seq) <=> s.seq < v.high
  BY <1>2, <1>3, <1>5, <1>s DEF Before
<1>8. /\ n \notin Behind(ss, n - 1)
      /\ Behind(ss, n) = IF s.seq < v.high THEN Behind(ss, n - 1) \union {n}
                         ELSE Behind(ss, n - 1)
  <2>1. \A i \in 1..n : i = n \/ i \in 1..(n - 1)
    BY <1>0
  <2>2. \A i \in 1..(n - 1) : i \in 1..n /\ i # n
    BY <1>0
  <2>3. n \in 1..n
    BY <1>0
  <2> QED  BY <1>7, <1>s, <2>1, <2>2, <2>3 DEF Behind
<1>9. CASE s.seq < v.high
  <2>1. /\ IsFiniteSet(Behind(ss, n))
        /\ Cardinality(Behind(ss, n)) = Cardinality(Behind(ss, n - 1)) + 1
    <3>1. PICK B : B = Behind(ss, n - 1)
      OBVIOUS
    <3>2. IsFiniteSet(B) /\ n \notin B /\ Behind(ss, n) = B \union {n}
      BY <1>3, <1>8, <1>9, <3>1
    <3>3. IsFiniteSet(B \union {n}) /\ Cardinality(B \union {n}) = Cardinality(B) + 1
      BY <3>2, FS_AddElement
    <3> QED  BY <3>1, <3>2, <3>3
  <2>2. w.reordered = Cardinality(Behind(ss, n))
    BY <1>3, <1>4, <1>9, <2>1
  <2>3. Gap(ss, n) = v.high - s.seq
    <3>1. Before(ss, n) \subseteq Int /\ v.high \in Before(ss, n)
      BY <1>2, <1>3, <1>5, <1>9, <1>s DEF Before
    <3>2. \A t \in Before(ss, n) : t <= v.high
      BY <1>3 DEF Before
    <3>3. Max(Before(ss, n)) = v.high
      BY <3>1, <3>2, MaxIs
    <3> QED  BY <3>3, <1>s DEF Gap
  <2>4. Minus(v.high, s.seq) = Gap(ss, n) /\ Gap(ss, n) \in Nat
    BY <1>5, <1>9, <1>s, <2>3 DEF Minus
  <2> DEFINE g == Gap(ss, n)
             B == Behind(ss, n - 1)
  <2>5. /\ w.displacement = IF v.displacement <= g THEN g ELSE v.displacement
        /\ Behind(ss, n) = B \union {n} /\ g \in Nat
        /\ \A i \in B : Gap(ss, i) <= v.displacement
        /\ v.displacement = 0 \/ \E i \in B : Gap(ss, i) = v.displacement
    BY <1>3, <1>4, <1>8, <1>9, <2>4
  <2>6. \A i \in B : Gap(ss, i) \in Int
    <3> TAKE i \in B
    <3>1. i \in 1..(n - 1) /\ \E t \in Before(ss, i) : t > ss[i].seq
      BY DEF Behind
    <3>2. Before(ss, i) \subseteq 0..v.high /\ Before(ss, i) # {}
      BY <1>2, <1>3, <1>5, <1>s, <3>1 DEF Before
    <3>3. Max(Before(ss, i)) \in 0..v.high
      BY <1>5, <3>2, MaxNat
    <3>4. ss[i].seq \in Nat
      BY <1>2, <1>s, <3>1
    <3> QED  BY <1>5, <3>3, <3>4 DEF Gap
  <2>7. g = Gap(ss, n)
    OBVIOUS
  <2> HIDE DEF g, B
  <2>8. \A i \in Behind(ss, n) : Gap(ss, i) <= w.displacement
    BY <1>5, <2>5, <2>6, <2>7
  <2>9. w.displacement = 0 \/ \E i \in Behind(ss, n) : Gap(ss, i) = w.displacement
    BY <1>5, <2>5, <2>7
  <2> QED  BY <1>4, <1>6, <2>1, <2>2, <2>8, <2>9 DEF WaterOk, w
<1>10. CASE ~(s.seq < v.high)
  <2>1. Minus(v.high, s.seq) = 0
    BY <1>5, <1>10, <1>s DEF Minus
  <2>2. /\ Behind(ss, n) = Behind(ss, n - 1) /\ w.reordered = v.reordered
        /\ w.displacement = v.displacement
    BY <1>4, <1>5, <1>8, <1>10, <2>1
  <2> QED  BY <1>3, <1>4, <1>6, <2>2 DEF WaterOk, w
<1> QED  BY <1>9, <1>10

(* The walk is right after any number of arrivals.                         *)
LEMMA WaterRight ==
  ASSUME NEW ss \in Seq(Sample)
  PROVE  \A n \in 0..Len(ss) : WaterOk(ss, n)
<1> DEFINE T == {n \in 0..Len(ss) : ~WaterOk(ss, n)}
<1>1. SUFFICES ASSUME T # {} PROVE FALSE
  OBVIOUS
<1>2. PICK m \in T : \A k \in T : m <= k
  <2>1. T \subseteq Nat
    OBVIOUS
  <2> HIDE DEF T
  <2> QED  BY <1>1, <2>1, LeastNat
<1>3. WaterOk(ss, 0)
  <2>1. Water(ss)[0] = Empty
    BY WaterDef
  <2>2. Behind(ss, 0) = {}
    BY DEF Behind
  <2>3. IsFiniteSet(Behind(ss, 0)) /\ Cardinality(Behind(ss, 0)) = 0
    BY <2>2, FS_EmptySet
  <2>4. /\ Empty \in Level /\ Empty.high = 0 /\ Empty.reordered = 0
        /\ Empty.displacement = 0
    BY DEF Empty, Level
  <2>5. \A j \in 1..0 : FALSE
    OBVIOUS
  <2> QED  BY <2>1, <2>2, <2>3, <2>4, <2>5 DEF WaterOk
<1>4. m # 0
  BY <1>3
<1>5. m - 1 \in 0..Len(ss) /\ WaterOk(ss, m - 1)
  BY <1>2, <1>4
<1> QED  BY <1>4, <1>5, WaterStep

(* Whatever arrived and in whatever order, reorder_stats reports RFC 4737  *)
(* reordering.                                                             *)
THEOREM ReorderingIsRfc4737 == Spec => []ReorderIsRfc4737
<1>1. IInv => ReorderIsRfc4737
  <2> SUFFICES ASSUME IInv PROVE ReorderIsRfc4737
    OBVIOUS
  <2>1. samples \in Seq(Sample) /\ Len(samples) \in Nat
    BY DEF IInv, TypeOK
  <2> DEFINE w == Water(samples)[Len(samples)]
             B == Behind(samples, Len(samples))
             G == {Max(Before(samples, i)) - samples[i].seq : i \in B}
  <2>2. WaterOk(samples, Len(samples))
    BY <2>1, WaterRight
  <2>3. /\ w \in Level /\ w.reordered = Cardinality(B)
        /\ \A i \in B : Gap(samples, i) <= w.displacement
        /\ w.displacement = 0 \/ \E i \in B : Gap(samples, i) = w.displacement
    BY <2>2 DEF WaterOk
  <2>4. \A g \in G : g \in Int
    <3> SUFFICES ASSUME NEW i \in B
                 PROVE  Max(Before(samples, i)) - samples[i].seq \in Int
      OBVIOUS
    <3>1. i \in 1..Len(samples) /\ \E t \in Before(samples, i) : t > samples[i].seq
      BY DEF Behind
    <3>2. \A j \in 1..Len(samples) : samples[j].seq \in Nat /\ samples[j].seq <= w.high
      <4>1. \A j \in 1..Len(samples) : samples[j] \in Sample
        BY <2>1
      <4> QED  BY <2>2, <4>1 DEF WaterOk, Sample
    <3>3. w.high \in Nat
      BY <2>3 DEF Level
    <3> HIDE DEF w
    <3>4. Before(samples, i) \subseteq 0..w.high /\ Before(samples, i) # {}
      BY <2>1, <3>1, <3>2, <3>3 DEF Before
    <3>5. Max(Before(samples, i)) \in 0..w.high
      BY <3>3, <3>4, MaxNat
    <3> QED  BY <3>1, <3>2, <3>3, <3>5
  <2>5. Max({0} \union G) = w.displacement
    <3>1. w.displacement \in Nat
      BY <2>3 DEF Level
    <3>2. \A g \in G : g <= w.displacement
      BY <2>3 DEF Gap
    <3>3. w.displacement \in {0} \union G
      BY <2>3 DEF Gap
    <3> HIDE DEF G, w
    <3> QED  BY <2>4, <3>1, <3>2, <3>3, MaxIs
  <2>6. /\ reorder_stats.reordered = w.reordered
        /\ reorder_stats.max_displacement = w.displacement
    BY DEF reorder_stats
  <2> QED  BY <2>3, <2>5, <2>6 DEF ReorderIsRfc4737, Behind, Before
<1> QED  BY <1>1, ProbeInvariance, PTL
=============================================================================

----------------------------- MODULE SpoolProofs ----------------------------
(***************************************************************************)
(* The spool's invariants for every configuration, every batch size and    *)
(* every set of result sizes.                                              *)
(***************************************************************************)
EXTENDS SpoolLoops, DataLemmas, SequenceTheorems

-----------------------------------------------------------------------------
(* The size of a queue: Running satisfies its defining equation, and sizes *)
(* add up along concatenation.                                             *)

(* A running total exists up to every length of the queue.                 *)
LEMMA RunningExists ==
  ASSUME NEW es \in Seq(Entry)
  PROVE  \A n \in 0..Len(es) :
            \E g : g = [i \in 0..n |-> IF i = 0 THEN 0
                                       ELSE g[i - 1] + es[i].bytes]
<1> DEFINE Ok(n) == \E g : g = [i \in 0..n |-> IF i = 0 THEN 0
                                               ELSE g[i - 1] + es[i].bytes]
           T == {n \in 0..Len(es) : ~ Ok(n)}
<1>1. SUFFICES ASSUME T # {} PROVE FALSE
  OBVIOUS
<1>2. T \subseteq Nat
  <2> HIDE DEF Ok
  <2> QED  OBVIOUS
<1>3. PICK m \in T : \A k \in T : m <= k
  <2> HIDE DEF T
  <2> QED  BY <1>1, <1>2, LeastNat
<1>4. CASE m = 0
  <2> DEFINE g == [i \in 0..0 |-> 0]
  <2>1. g = [i \in 0..0 |-> IF i = 0 THEN 0 ELSE g[i - 1] + es[i].bytes]
    OBVIOUS
  <2> QED  BY <2>1, <1>4
<1>5. CASE m # 0
  <2>1. m - 1 \in 0..Len(es) /\ Ok(m - 1)
    <3> HIDE DEF Ok
    <3> QED  BY <1>3, <1>5
  <2>2. PICK g : g = [i \in 0..(m - 1) |-> IF i = 0 THEN 0
                                           ELSE g[i - 1] + es[i].bytes]
    BY <2>1
  <2> DEFINE h == [i \in 0..m |-> IF i = m THEN g[m - 1] + es[m].bytes
                                  ELSE g[i]]
  <2>3. ASSUME NEW i \in 0..m
        PROVE  h[i] = IF i = 0 THEN 0 ELSE h[i - 1] + es[i].bytes
    BY <2>2, <1>5
  <2>4. h = [i \in 0..m |-> IF i = 0 THEN 0 ELSE h[i - 1] + es[i].bytes]
    BY <2>3
  <2> QED  BY <2>4
<1> QED  BY <1>4, <1>5

(* Running satisfies the equation it is defined by.                        *)
LEMMA RunningDef ==
  ASSUME NEW es \in Seq(Entry)
  PROVE  Running(es) = [i \in 0..Len(es) |-> IF i = 0 THEN 0
                                 ELSE Running(es)[i - 1] + es[i].bytes]
<1>1. \E g : g = [i \in 0..Len(es) |-> IF i = 0 THEN 0
                                       ELSE g[i - 1] + es[i].bytes]
  BY RunningExists
<1> QED  BY <1>1, Zenon DEF Running

(* Every running total is a natural number.                                *)
LEMMA RunningType ==
  ASSUME NEW es \in Seq(Entry)
  PROVE  \A n \in 0..Len(es) : Running(es)[n] \in Nat
<1> DEFINE R == Running(es)
           T == {n \in 0..Len(es) : R[n] \notin Nat}
<1>0. \A i \in 0..Len(es) : R[i] = IF i = 0 THEN 0 ELSE R[i - 1] + es[i].bytes
  BY RunningDef
<1> HIDE DEF R
<1>1. SUFFICES ASSUME T # {} PROVE FALSE
  BY DEF R
<1>2. PICK m \in T : \A k \in T : m <= k
  <2>1. T \subseteq Nat
    OBVIOUS
  <2> HIDE DEF T
  <2> QED  BY <1>1, <2>1, LeastNat
<1>3. m # 0
  BY <1>0
<1>4. R[m - 1] \in Nat
  BY <1>2, <1>3
<1>5. es[m] \in Entry
  BY <1>3
<1>6. es[m].bytes \in Nat
  BY <1>5, SpoolAssumption DEF Entry
<1> QED  BY <1>0, <1>3, <1>4, <1>6

(* The running totals of a concatenation continue those of its first part. *)
LEMMA RunningConcat ==
  ASSUME NEW a \in Seq(Entry), NEW b \in Seq(Entry)
  PROVE  \A n \in 0..Len(a) + Len(b) :
            Running(a \o b)[n] =
              IF n <= Len(a) THEN Running(a)[n]
              ELSE Running(a)[Len(a)] + Running(b)[n - Len(a)]
<1> DEFINE c == a \o b
           A == Running(a)
           B == Running(b)
           C == Running(c)
           Want(n) == IF n <= Len(a) THEN A[n] ELSE A[Len(a)] + B[n - Len(a)]
           T == {n \in 0..Len(a) + Len(b) : C[n] # Want(n)}
<1>1. c \in Seq(Entry) /\ Len(c) = Len(a) + Len(b)
  OBVIOUS
<1>2. /\ \A i \in 1..Len(a) : c[i] = a[i]
      /\ \A i \in 1..Len(b) : c[Len(a) + i] = b[i]
  OBVIOUS
<1>3. /\ \A i \in 0..Len(a) : A[i] = IF i = 0 THEN 0 ELSE A[i - 1] + a[i].bytes
      /\ \A i \in 0..Len(b) : B[i] = IF i = 0 THEN 0 ELSE B[i - 1] + b[i].bytes
      /\ \A i \in 0..Len(c) : C[i] = IF i = 0 THEN 0 ELSE C[i - 1] + c[i].bytes
  BY <1>1, RunningDef
<1>4. /\ \A i \in 0..Len(a) : A[i] \in Nat
      /\ \A i \in 0..Len(b) : B[i] \in Nat
  BY RunningType
<1>5. /\ \A i \in 1..Len(a) : a[i].bytes \in Nat
      /\ \A i \in 1..Len(b) : b[i].bytes \in Nat
  <2>1. /\ \A i \in 1..Len(a) : a[i] \in Entry
        /\ \A i \in 1..Len(b) : b[i] \in Entry
    OBVIOUS
  <2> QED  BY <2>1, SpoolAssumption DEF Entry
<1> HIDE DEF A, B, C, c
<1>6. SUFFICES ASSUME T # {} PROVE FALSE
  BY DEF A, B, C, c
<1>7. PICK m \in T : \A k \in T : m <= k
  <2>1. T \subseteq Nat
    OBVIOUS
  <2> HIDE DEF T
  <2> QED  BY <1>6, <2>1, LeastNat
<1>8. m # 0
  BY <1>3, <1>1
<1>9. m - 1 \in 0..Len(a) + Len(b) /\ C[m - 1] = Want(m - 1)
  BY <1>7, <1>8
<1>10. C[m] = C[m - 1] + c[m].bytes
  BY <1>1, <1>3, <1>8
<1>11. CASE m <= Len(a)
  <2>1. c[m] = a[m] /\ A[m] = A[m - 1] + a[m].bytes
    BY <1>2, <1>3, <1>8, <1>11
  <2> QED  BY <2>1, <1>9, <1>10, <1>11
<1>12. CASE m > Len(a)
  <2>1. m - Len(a) \in 1..Len(b)
    BY <1>12
  <2>2. c[m] = b[m - Len(a)]
    <3>1. m = Len(a) + (m - Len(a))
      OBVIOUS
    <3> QED  BY <1>2, <2>1, <3>1
  <2>3. B[m - Len(a)] = B[m - Len(a) - 1] + b[m - Len(a)].bytes
    BY <1>3, <2>1
  <2>4. B[0] = 0
    BY <1>3
  <2>5. C[m] = C[m - 1] + b[m - Len(a)].bytes
    BY <1>10, <2>2
  <2>6. C[m - 1] = A[Len(a)] + B[m - 1 - Len(a)]
    <3>1. CASE m - 1 = Len(a)
      <4>1. C[m - 1] = A[Len(a)] /\ B[m - 1 - Len(a)] = 0
        BY <1>9, <2>4, <3>1
      <4> QED  BY <4>1, <1>4
    <3>2. CASE m - 1 > Len(a)
      BY <1>9, <3>2
    <3> QED  BY <3>1, <3>2, <1>12
  <2>7. m - 1 - Len(a) = m - Len(a) - 1
    OBVIOUS
  <2>8. /\ A[Len(a)] \in Nat /\ B[m - Len(a) - 1] \in Nat
        /\ b[m - Len(a)].bytes \in Nat
    BY <1>4, <1>5, <2>1
  <2> QED  BY <2>3, <2>5, <2>6, <2>7, <2>8, <1>12
<1> QED  BY <1>11, <1>12

(* The size of a queue is a natural number, zero when it is empty, and     *)
(* adds up along concatenation.                                            *)
LEMMA SumBytesType ==
  ASSUME NEW es \in Seq(Entry)
  PROVE  SumBytes(es) \in Nat
BY RunningType DEF SumBytes

(* An empty queue has no bytes.                                            *)
LEMMA SumBytesEmpty == SumBytes(<< >>) = 0
<1> DEFINE s == << >>
<1>1. s \in Seq(Entry) /\ Len(s) = 0
  OBVIOUS
<1> HIDE DEF s
<1>2. Running(s)[0] = 0
  <2>1. Running(s) = [i \in 0..Len(s) |-> IF i = 0 THEN 0
                               ELSE Running(s)[i - 1] + s[i].bytes]
    BY <1>1, RunningDef, Zenon
  <2>2. 0 \in 0..Len(s)
    BY <1>1
  <2> QED  BY <2>1, <2>2, Zenon
<1>3. SumBytes(s) = 0
  BY <1>1, <1>2 DEF SumBytes
<1> QED  BY <1>3 DEF s

(* A queue of one entry is as large as the entry.                          *)
LEMMA SumBytesOne ==
  ASSUME NEW e \in Entry
  PROVE  SumBytes(<<e>>) = e.bytes
<1> DEFINE s == <<e>>
<1>1. s \in Seq(Entry) /\ Len(s) = 1 /\ s[1] = e
  OBVIOUS
<1>2. e.bytes \in Nat
  BY SpoolAssumption DEF Entry
<1> HIDE DEF s
<1>3. Running(s)[0] = 0 /\ Running(s)[1] = Running(s)[0] + s[1].bytes
  BY <1>1, RunningDef
<1>4. SumBytes(s) = e.bytes
  BY <1>1, <1>2, <1>3 DEF SumBytes
<1> QED  BY <1>4 DEF s

(* The size of a concatenation is the sum of the sizes.                    *)
LEMMA SumBytesConcat ==
  ASSUME NEW a \in Seq(Entry), NEW b \in Seq(Entry)
  PROVE  SumBytes(a \o b) = SumBytes(a) + SumBytes(b)
<1>1. Len(a \o b) = Len(a) + Len(b)
  OBVIOUS
<1>2. Running(a \o b)[Len(a) + Len(b)] =
        IF Len(b) = 0 THEN Running(a)[Len(a)]
        ELSE Running(a)[Len(a)] + Running(b)[Len(b)]
  <2> DEFINE n == Len(a) + Len(b)
  <2>1. /\ n \in 0..Len(a) + Len(b) /\ n - Len(a) = Len(b)
        /\ n <= Len(a) <=> Len(b) = 0
        /\ Len(b) = 0 => n = Len(a)
    OBVIOUS
  <2>2. Running(a \o b)[n] =
          IF n <= Len(a) THEN Running(a)[n]
          ELSE Running(a)[Len(a)] + Running(b)[n - Len(a)]
    <3> HIDE DEF n
    <3> QED  BY <2>1, RunningConcat
  <2> QED  BY <2>1, <2>2
<1>3. Running(b)[0] = 0
  BY RunningDef
<1>4. Running(a)[Len(a)] \in Nat
  BY RunningType
<1> QED  BY <1>1, <1>2, <1>3, <1>4 DEF SumBytes

-----------------------------------------------------------------------------
(* Cutting a queue in two.                                                 *)
LEMMA Cut ==
  ASSUME NEW es \in Seq(Entry), NEW n \in 0..Len(es)
  PROVE  LET a == SubSeq(es, 1, n)
             b == SubSeq(es, n + 1, Len(es))
         IN  /\ a \in Seq(Entry) /\ Len(a) = n
             /\ b \in Seq(Entry) /\ Len(b) = Len(es) - n
             /\ \A i \in 1..n : a[i] = es[i]
             /\ \A i \in 1..(Len(es) - n) : b[i] = es[n + i]
             /\ es = a \o b
             /\ SumBytes(es) = SumBytes(a) + SumBytes(b)
             /\ SumBytes(a) \in Nat /\ SumBytes(b) \in Nat
<1> DEFINE a == SubSeq(es, 1, n)
           b == SubSeq(es, n + 1, Len(es))
<1>1. /\ a \in Seq(Entry) /\ Len(a) = n
      /\ b \in Seq(Entry) /\ Len(b) = Len(es) - n
      /\ \A i \in 1..n : a[i] = es[i]
      /\ \A i \in 1..(Len(es) - n) : b[i] = es[n + i]
  OBVIOUS
<1>2. es = a \o b
  <2> HIDE DEF a, b
  <2>1. a \o b \in Seq(Entry) /\ Len(a \o b) = Len(es)
    BY <1>1
  <2>2. ASSUME NEW i \in 1..Len(es) PROVE (a \o b)[i] = es[i]
    <3>1. CASE i <= n
      BY <1>1, <3>1
    <3>2. CASE i > n
      <4>1. i - n \in 1..(Len(es) - n) /\ n + (i - n) = i
        BY <3>2
      <4>2. (a \o b)[i] = b[i - n]
        BY <1>1, <3>2, <4>1
      <4> QED  BY <1>1, <4>1, <4>2
    <3>3. i <= n \/ i > n
      OBVIOUS
    <3> QED  BY <3>1, <3>2, <3>3
  <2> QED  BY <2>1, <2>2, SeqEqual
<1> HIDE DEF a, b
<1>3. SumBytes(es) = SumBytes(a) + SumBytes(b)
  BY <1>1, <1>2, SumBytesConcat
<1>4. SumBytes(a) \in Nat /\ SumBytes(b) \in Nat
  BY <1>1, SumBytesType
<1> QED  BY <1>1, <1>2, <1>3, <1>4 DEF a, b

(* The limits are positive and the reserve is below the capacity.          *)
LEMMA Limits ==
  /\ max_entries \in Nat /\ max_bytes \in Nat /\ onset_reserve \in Nat
  /\ onset_reserve < max_entries
<1> DEFINE pct == Min({OnsetPct, 90})
           cap == Max({CfgEntries - 1, 0})
           raw == (CfgEntries * pct) \div 100
<1>1. pct \in Nat
  BY MinTwo, SpoolAssumption
<1>2. cap \in Nat /\ cap = IF CfgEntries = 0 THEN 0 ELSE CfgEntries - 1
  BY MaxTwo, SpoolAssumption
<1>3. raw \in Nat
  <2> HIDE DEF pct
  <2>1. CfgEntries * pct \in Nat
    BY <1>1, SpoolAssumption
  <2> DEFINE x == CfgEntries * pct
  <2> HIDE DEF x
  <2>2. x \in Nat => x \div 100 \in Nat
    OBVIOUS
  <2> QED  BY <2>1, <2>2 DEF x
<1>4. max_entries \in Nat /\ max_entries = IF CfgEntries <= 1 THEN 1 ELSE CfgEntries
  BY MaxTwo, SpoolAssumption DEF max_entries
<1>5. max_bytes \in Nat
  BY MaxTwo, SpoolAssumption DEF max_bytes
<1>6. onset_reserve = Min({raw, cap})
  BY DEF onset_reserve
<1> HIDE DEF raw, cap
<1>7. onset_reserve \in Nat /\ onset_reserve <= cap
  BY <1>2, <1>3, <1>6, MinTwo
<1> QED  BY <1>2, <1>4, <1>5, <1>7, SpoolAssumption

-----------------------------------------------------------------------------
(* What k rounds of eviction leave: k entries fewer, the protected ones in *)
(* place, the others shifted, and sizes that still add up.                 *)
LEMMA EvictFacts ==
  ASSUME entries \in Seq(Entry), NEW k \in 0..(Len(entries) - Protected)
  PROVE  /\ Protected \in 0..Len(entries) /\ Protected <= onset_reserve
         /\ Evict(k) \in Seq(Entry) /\ Len(Evict(k)) = Len(entries) - k
         /\ Evicted(k) \in Seq(Entry) /\ SumBytes(Evicted(k)) \in Nat
         /\ SumBytes(entries) = SumBytes(Evict(k)) + SumBytes(Evicted(k))
         /\ SumBytes(Evict(k)) \in Nat
         /\ \A i \in 1..Len(Evict(k)) :
               Evict(k)[i] = entries[IF i <= Protected THEN i ELSE i + k]
<1> DEFINE p == Protected
           a == SubSeq(entries, 1, p)
           rest == SubSeq(entries, p + 1, Len(entries))
           gone == SubSeq(rest, 1, k)
           b == SubSeq(rest, k + 1, Len(rest))
<1>1. p \in 0..Len(entries) /\ p <= onset_reserve
  BY MinTwo, Limits DEF Protected
<1>2. k \in 0..(Len(entries) - p)
  OBVIOUS
<1> HIDE DEF p
<1>3. /\ a \in Seq(Entry) /\ Len(a) = p
      /\ rest \in Seq(Entry) /\ Len(rest) = Len(entries) - p
      /\ \A i \in 1..p : a[i] = entries[i]
      /\ \A i \in 1..(Len(entries) - p) : rest[i] = entries[p + i]
      /\ SumBytes(entries) = SumBytes(a) + SumBytes(rest)
      /\ SumBytes(a) \in Nat
  BY <1>1, Cut
<1>4. k \in 0..Len(rest)
  <2> HIDE DEF rest
  <2> QED  BY <1>2, <1>3
<1>5. /\ gone \in Seq(Entry) /\ Len(gone) = k
      /\ b \in Seq(Entry) /\ Len(b) = Len(rest) - k
      /\ \A i \in 1..k : gone[i] = rest[i]
      /\ \A i \in 1..(Len(rest) - k) : b[i] = rest[k + i]
      /\ SumBytes(rest) = SumBytes(gone) + SumBytes(b)
      /\ SumBytes(gone) \in Nat /\ SumBytes(b) \in Nat
  <2> HIDE DEF rest
  <2> QED  BY <1>3, <1>4, Cut
<1>6. gone = Evicted(k)
  <2>1. Evicted(k) = SubSeq(entries, p + 1, p + k)
    BY DEF Evicted, p
  <2>2. Evicted(k) \in Seq(Entry) /\ Len(Evicted(k)) = k
    BY <1>1, <1>2, <2>1
  <2>3. \A i \in 1..k : Evicted(k)[i] = entries[p + i]
    BY <1>1, <1>2, <2>1
  <2>4. ASSUME NEW i \in 1..k PROVE gone[i] = entries[p + i]
    <3> HIDE DEF gone, rest
    <3>1. i \in 1..(Len(entries) - p)
      BY <1>1, <1>2
    <3> QED  BY <1>3, <1>5, <3>1
  <2> HIDE DEF gone, rest
  <2> QED  BY <1>5, <2>2, <2>3, <2>4, SeqEqual
<1>7. Evict(k) = a \o b
  <2> DEFINE c == SubSeq(entries, p + k + 1, Len(entries))
  <2>1. Evict(k) = a \o c
    BY DEF Evict, p
  <2>2. c \in Seq(Entry) /\ Len(c) = Len(entries) - p - k
    BY <1>1, <1>2
  <2>3. \A i \in 1..Len(c) : c[i] = entries[p + k + i]
    BY <1>1, <1>2, <2>2
  <2>4. ASSUME NEW i \in 1..Len(b) PROVE b[i] = entries[p + k + i]
    <3> HIDE DEF b, rest
    <3>1. b[i] = rest[k + i] /\ k + i \in 1..(Len(entries) - p)
      BY <1>3, <1>4, <1>5
    <3> QED  BY <1>1, <1>3, <3>1
  <2>5. b = c
    <3> HIDE DEF b, c, rest
    <3> QED  BY <1>3, <1>4, <1>5, <1>1, <2>2, <2>3, <2>4, SeqEqual
  <2> QED  BY <2>1, <2>5
<1> HIDE DEF a, b, rest, gone
<1>8. /\ Evict(k) \in Seq(Entry) /\ Len(Evict(k)) = Len(entries) - k
      /\ \A i \in 1..Len(Evict(k)) :
            Evict(k)[i] = entries[IF i <= p THEN i ELSE i + k]
  <2>0. a \in Seq(Entry) /\ b \in Seq(Entry)
    BY <1>3, <1>5
  <2>1. a \o b \in Seq(Entry) /\ Len(a \o b) = Len(entries) - k
    <3>1. a \o b \in Seq(Entry) /\ Len(a \o b) = Len(a) + Len(b)
      BY <2>0, ConcatProperties
    <3> QED  BY <1>1, <1>2, <1>3, <1>5, <3>1
  <2>2. ASSUME NEW i \in 1..(Len(entries) - k)
        PROVE  (a \o b)[i] = entries[IF i <= p THEN i ELSE i + k]
    <3>1. CASE i <= p
      BY <1>3, <1>5, <1>1, <3>1
    <3>2. CASE i > p
      <4>0. i - p \in 1..(Len(rest) - k) /\ i - p \in 1..Len(b)
        BY <1>1, <1>2, <1>3, <1>5, <3>2
      <4>1. (a \o b)[i] = b[i - p] /\ i - p \in 1..(Len(rest) - k)
        <5>1. Len(a) = p /\ i \in 1..Len(a) + Len(b) /\ ~(i <= Len(a))
          BY <1>1, <1>3, <4>0, <3>2
        <5>2. (a \o b)[i] = b[i - Len(a)]
          BY <2>0, <5>1, ConcatProperties
        <5> QED  BY <4>0, <5>1, <5>2
      <4>2. b[i - p] = rest[k + (i - p)]
        BY <1>5, <4>1
      <4>3. k + (i - p) \in 1..(Len(entries) - p)
        BY <1>1, <1>2, <1>3, <3>2
      <4>4. rest[k + (i - p)] = entries[p + (k + (i - p))]
        BY <1>3, <4>3
      <4>5. p + (k + (i - p)) = i + k
        BY <1>1, <1>2
      <4> QED  BY <4>1, <4>2, <4>4, <4>5, <3>2, <1>1
    <3>3. i <= p \/ i > p
      BY <1>1
    <3> QED  BY <3>1, <3>2, <3>3
  <2> QED  BY <1>7, <2>1, <2>2
<1>9. SumBytes(Evict(k)) = SumBytes(a) + SumBytes(b)
  BY <1>3, <1>5, <1>7, SumBytesConcat
<1> QED  BY <1>1, <1>3, <1>5, <1>6, <1>8, <1>9 DEF p

(* Evictions stops as soon as the newcomer fits, or when only protected    *)
(* entries are left.                                                       *)
LEMMA EvictionsFacts ==
  ASSUME entries \in Seq(Entry), NEW size
  PROVE  /\ Evictions(size) \in 0..(Len(entries) - Protected)
         /\ \/ RoomAfter(Evictions(size), size)
            \/ Evictions(size) = Len(entries) - Protected
<1> DEFINE all == Len(entries) - Protected
           T == {k \in 0..all : RoomAfter(k, size)} \union {all}
<1>1. all \in Nat
  BY MinTwo, Limits DEF Protected
<1> HIDE DEF all
<1>2. T \subseteq Nat /\ T # {} /\ T \subseteq 0..all
  BY <1>1
<1>3. Min(T) \in T
  <2> HIDE DEF T
  <2> QED  BY <1>2, MinNat
<1>4. Evictions(size) = Min(T)
  BY DEF Evictions, all
<1> QED  BY <1>3, <1>4, <1>2 DEF all

(* A push keeps the ceilings and the byte count, moves every entry it does *)
(* not evict without reordering, and accounts for the newcomer.            *)
LEMMA PushFacts ==
  ASSUME TypeOK, Bounded, NEW size \in Sizes
  PROVE  LET r == AfterPush(size)
             k == Evictions(size)
             new == [id |-> nextId, bytes |-> size]
         IN  /\ r.queue \in Seq(Entry) /\ r.bytes \in Nat /\ r.lost \in Nat
             /\ Len(r.queue) <= max_entries
             /\ r.bytes = SumBytes(r.queue) /\ r.bytes <= max_bytes
             /\ Len(r.queue) + r.lost = Len(entries) + 1
             /\ \/ r.queue = Append(Evict(k), new)
                \/ r.queue = Evict(k)
<1> DEFINE r == AfterPush(size)
           k == Evictions(size)
           new == [id |-> nextId, bytes |-> size]
           q == Evict(k)
           left == bytes - SumBytes(Evicted(k))
<1>1. entries \in Seq(Entry) /\ bytes \in Nat /\ nextId \in Nat
  BY DEF TypeOK
<1>2. Len(entries) <= max_entries /\ bytes = SumBytes(entries) /\ bytes <= max_bytes
  BY DEF Bounded
<1>3. k \in 0..(Len(entries) - Protected)
  BY <1>1, EvictionsFacts
<1>4. RoomAfter(k, size) \/ k = Len(entries) - Protected
  BY <1>1, EvictionsFacts
<1> HIDE DEF k
<1>5. /\ Protected \in 0..Len(entries) /\ Protected <= onset_reserve
      /\ q \in Seq(Entry) /\ Len(q) = Len(entries) - k
      /\ SumBytes(Evicted(k)) \in Nat /\ SumBytes(q) \in Nat
      /\ SumBytes(entries) = SumBytes(q) + SumBytes(Evicted(k))
  BY <1>1, <1>3, EvictFacts
<1>6. left = SumBytes(q) /\ left \in Nat /\ left <= max_bytes
  BY <1>1, <1>2, <1>5, Limits
<1>7. r = IF RoomAfter(k, size)
          THEN [queue |-> Append(q, new), bytes |-> left + size, lost |-> k]
          ELSE [queue |-> q, bytes |-> left, lost |-> k + 1]
  BY DEF AfterPush, k
<1>8. size \in Nat /\ new \in Entry /\ new.bytes = size
  BY <1>1, SpoolAssumption DEF Entry
<1>9. CASE RoomAfter(k, size)
  <2>1. Len(entries) - k < max_entries /\ left + size <= max_bytes
    BY <1>9, <1>1, <1>3, <1>6, <1>8, Limits DEF RoomAfter, would_exceed
  <2> HIDE DEF q, left, new, r
  <2>2. /\ r.queue = Append(q, new) /\ r.bytes = left + size /\ r.lost = k
    BY <1>7, <1>9
  <2>3. Append(q, new) \in Seq(Entry) /\ Len(Append(q, new)) = Len(q) + 1
    BY <1>5, <1>8
  <2>4. SumBytes(Append(q, new)) = SumBytes(q) + size
    <3>1. Append(q, new) = q \o <<new>> /\ <<new>> \in Seq(Entry)
      BY <1>5, <1>8
    <3>2. SumBytes(<<new>>) = size
      BY <1>8, SumBytesOne
    <3> QED  BY <1>5, <3>1, <3>2, SumBytesConcat
  <2>5. /\ r.queue \in Seq(Entry) /\ Len(r.queue) = Len(entries) - k + 1
        /\ r.bytes = SumBytes(r.queue) /\ r.bytes \in Nat
        /\ r.bytes <= max_bytes
    BY <2>1, <2>2, <2>3, <2>4, <1>5, <1>6, <1>8
  <2>6. r.lost \in Nat /\ Len(r.queue) + r.lost = Len(entries) + 1
    BY <2>2, <2>5, <1>3, <1>5
  <2>7. Len(r.queue) <= max_entries
    BY <2>1, <2>5, <1>3, <1>5, Limits
  <2> QED  BY <2>2, <2>5, <2>6, <2>7 DEF r, q, new, k
<1>10. CASE ~RoomAfter(k, size)
  <2> HIDE DEF q, left, new, r
  <2>1. r.queue = q /\ r.bytes = left /\ r.lost = k + 1
    BY <1>7, <1>10
  <2>2. /\ r.queue \in Seq(Entry) /\ r.bytes \in Nat /\ r.lost \in Nat
        /\ Len(r.queue) <= max_entries
        /\ r.bytes = SumBytes(r.queue) /\ r.bytes <= max_bytes
        /\ Len(r.queue) + r.lost = Len(entries) + 1
    BY <2>1, <1>2, <1>3, <1>5, <1>6, Limits
  <2> QED  BY <2>1, <2>2 DEF r, q, k
<1> QED  BY <1>9, <1>10

(* The batch alone is within the ceilings.                                 *)
BatchFits == Len(batch) <= max_entries /\ SumBytes(batch) <= max_bytes

(* Putting a batch back keeps the ceilings and the byte count, provided    *)
(* the batch alone is within them, and costs nothing when batch and queue  *)
(* fit together.                                                           *)
LEMMA ReturnFacts ==
  ASSUME TypeOK, Bounded, BatchFits
  PROVE  /\ Kept \in 0..Len(entries)
         /\ AfterReturn.queue = batch \o SubSeq(entries, 1, Kept)
         /\ AfterReturn.queue \in Seq(Entry)
         /\ Len(AfterReturn.queue) = Len(batch) + Kept
         /\ Len(AfterReturn.queue) <= max_entries
         /\ AfterReturn.bytes = SumBytes(AfterReturn.queue)
         /\ AfterReturn.bytes \in Nat /\ AfterReturn.bytes <= max_bytes
         /\ AfterReturn.lost = Len(entries) - Kept
         /\ (/\ Len(batch) + Len(entries) <= max_entries
             /\ SumBytes(batch) + SumBytes(entries) <= max_bytes)
               => Kept = Len(entries)
<1> DEFINE T == {k \in 0..Len(entries) : FitsBehind(k)} \union {0}
           n == Kept
           a == SubSeq(entries, 1, n)
           b == SubSeq(entries, n + 1, Len(entries))
<1>1. entries \in Seq(Entry) /\ batch \in Seq(Entry) /\ bytes \in Nat
  BY DEF TypeOK
<1>2. bytes = SumBytes(entries) /\ bytes <= max_bytes
  BY DEF Bounded
<1>3. SumBytes(batch) \in Nat
  BY <1>1, SumBytesType
<1>4. Len(entries) \in Nat
  BY <1>1
<1>5. T \subseteq 0..Len(entries) /\ T # {}
  BY <1>4
<1>6. n \in T /\ \A k \in T : k <= n
  <2>1. n = Max(T)
    BY DEF Kept
  <2> HIDE DEF T
  <2> QED  BY <1>4, <1>5, <2>1, MaxNat
<1>7. n \in 0..Len(entries)
  BY <1>5, <1>6
<1>8. FitsBehind(0)
  <2> DEFINE whole == SubSeq(entries, 0 + 1, Len(entries))
  <2>1. whole = entries
    BY <1>1
  <2> HIDE DEF whole
  <2>2. SumBytes(batch) + bytes - SumBytes(whole) = SumBytes(batch)
    BY <1>1, <1>2, <1>3, <2>1
  <2> QED  BY <1>1, <2>2, Limits DEF FitsBehind, BatchFits, whole
<1>9. FitsBehind(n)
  BY <1>6, <1>8
<1>10. /\ a \in Seq(Entry) /\ Len(a) = n /\ b \in Seq(Entry)
       /\ SumBytes(entries) = SumBytes(a) + SumBytes(b)
       /\ SumBytes(a) \in Nat /\ SumBytes(b) \in Nat
  <2> HIDE DEF n
  <2> QED  BY <1>1, <1>7, Cut
<1>11. /\ AfterReturn.queue = batch \o a
       /\ AfterReturn.bytes = SumBytes(batch) + bytes - SumBytes(b)
       /\ AfterReturn.lost = Len(entries) - n
  BY DEF AfterReturn
<1>12. Len(batch) + n <= max_entries /\ SumBytes(batch) + bytes - SumBytes(b) <= max_bytes
  BY <1>9 DEF FitsBehind
<1>13. ASSUME /\ Len(batch) + Len(entries) <= max_entries
              /\ SumBytes(batch) + SumBytes(entries) <= max_bytes
       PROVE  n = Len(entries)
  <2> DEFINE none == SubSeq(entries, Len(entries) + 1, Len(entries))
  <2>1. none = << >>
    BY <1>1
  <2>2. SumBytes(none) = 0
    BY <2>1, SumBytesEmpty
  <2> HIDE DEF none
  <2>3. SumBytes(batch) + bytes - SumBytes(none) <= max_bytes
    BY <1>13, <1>2, <1>3, <1>1, <2>2
  <2>4. FitsBehind(Len(entries))
    BY <1>13, <2>3 DEF FitsBehind, none
  <2>5. Len(entries) \in T
    BY <1>4, <2>4
  <2> HIDE DEF T, n
  <2>6. Len(entries) <= n
    BY <1>6, <2>5
  <2> QED  BY <1>4, <1>7, <2>6
<1> HIDE DEF a, b, n
<1>14. /\ batch \o a \in Seq(Entry) /\ Len(batch \o a) = Len(batch) + n
       /\ SumBytes(batch \o a) = SumBytes(batch) + SumBytes(a)
  <2>1. batch \o a \in Seq(Entry) /\ Len(batch \o a) = Len(batch) + Len(a)
    BY <1>1, <1>10, ConcatProperties
  <2> QED  BY <1>1, <1>10, <2>1, SumBytesConcat
<1>15. SumBytes(batch) + bytes - SumBytes(b) = SumBytes(batch) + SumBytes(a)
  BY <1>1, <1>2, <1>3, <1>10
<1>16. /\ AfterReturn.queue = batch \o SubSeq(entries, 1, Kept)
       /\ AfterReturn.queue \in Seq(Entry)
       /\ Len(AfterReturn.queue) = Len(batch) + n
       /\ AfterReturn.bytes = SumBytes(AfterReturn.queue)
       /\ AfterReturn.bytes \in Nat
  BY <1>3, <1>10, <1>11, <1>14, <1>15 DEF a, n
<1>17. Len(AfterReturn.queue) <= max_entries /\ AfterReturn.bytes <= max_bytes
  BY <1>11, <1>12, <1>16
<1> QED  BY <1>7, <1>11, <1>13, <1>16, <1>17 DEF n

-----------------------------------------------------------------------------
(* The inductive invariant.  The batch of a POST came out of the spool, so *)
(* it fits in it; while nothing is queued during a POST, batch and queue   *)
(* still fit together and the count the POST carries is still current.     *)
HeldFits ==
    ~overlapped => /\ Len(batch) + Len(entries) <= max_entries
                   /\ SumBytes(batch) + SumBytes(entries) <= max_bytes
ToldCurrent == ~overlapped /\ batch # << >> => told = dropped

IInv ==
    /\ TypeOK /\ Bounded /\ BatchFits /\ HeldFits
    /\ Ordered /\ Conserved /\ ToldCurrent /\ DropsReported

(* The empty spool satisfies the invariant.                                *)
LEMMA InitIInv == Init => IInv
<1> SUFFICES ASSUME Init PROVE IInv
  OBVIOUS
<1>1. entries = << >> /\ batch = << >> /\ bytes = 0
  BY DEF Init
<1>2. SumBytes(entries) = 0 /\ SumBytes(batch) = 0
  BY <1>1, SumBytesEmpty
<1>3. TypeOK
  <2>1. overlapped \in BOOLEAN
    BY DEF Init
  <2> QED  BY <2>1 DEF Init, TypeOK
<1>4. Bounded /\ BatchFits /\ HeldFits
  BY <1>1, <1>2, Limits DEF Bounded, BatchFits, HeldFits
<1>5. Ordered
  BY DEF Init, Ordered, Increasing
<1>6. Conserved /\ ToldCurrent /\ DropsReported
  BY DEF Init, Conserved, ToldCurrent, DropsReported
<1> QED  BY <1>3, <1>4, <1>5, <1>6 DEF IInv

(* Queuing a result preserves the invariant.                               *)
LEMMA EnqueueIInv ==
  ASSUME IInv, NEW size \in Sizes, Enqueue(size)
  PROVE  IInv'
<1> USE DEF IInv
<1> DEFINE r == AfterPush(size)
           k == Evictions(size)
           new == [id |-> nextId, bytes |-> size]
<1>1. /\ r.queue \in Seq(Entry) /\ r.bytes \in Nat /\ r.lost \in Nat
      /\ Len(r.queue) <= max_entries
      /\ r.bytes = SumBytes(r.queue) /\ r.bytes <= max_bytes
      /\ Len(r.queue) + r.lost = Len(entries) + 1
      /\ r.queue = Append(Evict(k), new) \/ r.queue = Evict(k)
  BY PushFacts
<1>2. /\ entries' = r.queue /\ bytes' = r.bytes
      /\ dropped' = dropped + r.lost /\ dropped_total' = dropped_total + r.lost
      /\ nextId' = nextId + 1
      /\ overlapped' = (overlapped \/ batch # << >>)
      /\ UNCHANGED <<batch, told, acked, lastAcked, ackedDrops>>
  BY DEF Enqueue, Install
<1>3. k \in 0..(Len(entries) - Protected) /\ entries \in Seq(Entry)
  BY EvictionsFacts DEF TypeOK
<1> HIDE DEF r, k
<1>4. TypeOK'
  BY <1>1, <1>2 DEF TypeOK
<1>5. Bounded' /\ BatchFits'
  BY <1>1, <1>2 DEF Bounded, BatchFits
<1>6. HeldFits'
  <2> SUFFICES ASSUME ~overlapped'
               PROVE  /\ Len(batch') + Len(entries') <= max_entries
                      /\ SumBytes(batch') + SumBytes(entries') <= max_bytes
    BY DEF HeldFits
  <2>1. batch' = << >> /\ SumBytes(batch') = 0
    BY <1>2, SumBytesEmpty
  <2>2. Len(batch') = 0
    BY <2>1
  <2> QED  BY <1>1, <1>2, <2>1, <2>2
<1>7. Ordered'
  <2>1. /\ Evict(k) \in Seq(Entry) /\ Len(Evict(k)) = Len(entries) - k
        /\ Protected \in 0..Len(entries)
        /\ \A i \in 1..Len(Evict(k)) :
              Evict(k)[i] = entries[IF i <= Protected THEN i ELSE i + k]
    BY <1>3, EvictFacts
  <2> DEFINE q == Evict(k)
             at(i) == IF i <= Protected THEN i ELSE i + k
  <2>2. ASSUME NEW i \in 1..Len(q)
        PROVE  at(i) \in 1..Len(entries) /\ q[i] = entries[at(i)]
    BY <1>3, <2>1
  <2>3. \A i, j \in 1..Len(q) : i < j => at(i) < at(j)
    BY <1>3, <2>1
  <2> HIDE DEF at, q
  <2>4. /\ Increasing(batch) /\ Increasing(entries)
        /\ \A i \in 1..Len(batch), j \in 1..Len(entries) : batch[i].id < entries[j].id
        /\ \A i \in 1..Len(batch) : lastAcked < batch[i].id /\ batch[i].id < nextId
        /\ \A i \in 1..Len(entries) : lastAcked < entries[i].id /\ entries[i].id < nextId
        /\ lastAcked < nextId
    BY DEF Ordered
  <2>5. /\ \A i \in 1..Len(q) : lastAcked < q[i].id /\ q[i].id < nextId
        /\ \A i, j \in 1..Len(q) : i < j => q[i].id < q[j].id
        /\ \A i \in 1..Len(batch), j \in 1..Len(q) : batch[i].id < q[j].id
    BY <2>2, <2>3, <2>4 DEF Increasing
  <2>6. /\ nextId \in Nat /\ lastAcked \in Nat
        /\ \A i \in 1..Len(batch) : batch[i].id \in Nat
        /\ \A i \in 1..Len(q) : q[i].id \in Nat
    <3>1. /\ \A i \in 1..Len(batch) : batch[i] \in Entry
          /\ \A i \in 1..Len(q) : q[i] \in Entry
      BY <2>1 DEF TypeOK, q
    <3> QED  BY <3>1 DEF TypeOK, Entry
  <2>7. CASE r.queue = q
    <3>1. entries' = q /\ batch' = batch /\ lastAcked' = lastAcked /\ nextId' = nextId + 1
      BY <1>2, <2>7
    <3> QED  BY <2>4, <2>5, <2>6, <3>1 DEF Ordered, Increasing
  <2>8. CASE r.queue = Append(q, new)
    <3> DEFINE t == Append(q, new)
    <3>1. entries' = t /\ batch' = batch /\ lastAcked' = lastAcked /\ nextId' = nextId + 1
      BY <1>2, <2>8
    <3>2. /\ Len(t) = Len(q) + 1 /\ t[Len(q) + 1] = new
          /\ \A i \in 1..Len(q) : t[i] = q[i]
      BY <2>1 DEF q
    <3>3. new.id = nextId /\ Len(q) \in Nat
      BY <2>1 DEF q
    <3> HIDE DEF t, new
    <3>4. /\ \A i \in 1..Len(t) : lastAcked < t[i].id /\ t[i].id <= nextId /\ t[i].id \in Nat
          /\ \A i, j \in 1..Len(t) : i < j => t[i].id < t[j].id
          /\ \A i \in 1..Len(batch), j \in 1..Len(t) : batch[i].id < t[j].id
      <4>1. \A i \in 1..Len(t) : i \in 1..Len(q) \/ i = Len(q) + 1
        BY <3>2, <3>3
      <4>2. \A i \in 1..Len(t) : lastAcked < t[i].id /\ t[i].id <= nextId /\ t[i].id \in Nat
        BY <4>1, <2>4, <2>5, <2>6, <3>2, <3>3
      <4>3. \A i, j \in 1..Len(t) : i < j => t[i].id < t[j].id
        <5> SUFFICES ASSUME NEW i \in 1..Len(t), NEW j \in 1..Len(t), i < j
                     PROVE  t[i].id < t[j].id
          OBVIOUS
        <5>1. i \in 1..Len(q) /\ t[i] = q[i]
          BY <3>2, <3>3
        <5>2. CASE j \in 1..Len(q)
          BY <5>1, <5>2, <3>2, <2>5
        <5>3. CASE j = Len(q) + 1
          BY <5>1, <5>3, <3>2, <3>3, <2>5
        <5> QED  BY <4>1, <5>2, <5>3
      <4>4. \A i \in 1..Len(batch), j \in 1..Len(t) : batch[i].id < t[j].id
        BY <4>1, <2>4, <2>5, <3>2, <3>3
      <4> QED  BY <4>2, <4>3, <4>4
    <3> QED  BY <2>4, <2>6, <3>1, <3>4 DEF Ordered, Increasing
  <2> QED  BY <1>1, <2>7, <2>8 DEF q
<1>8. Conserved'
  <2>1. /\ Len(batch) \in Nat /\ Len(entries) \in Nat /\ Len(r.queue) \in Nat
        /\ nextId \in Nat /\ acked \in Nat /\ dropped_total \in Nat
    BY <1>1 DEF TypeOK
  <2>2. nextId - 1 = acked + Len(batch) + Len(entries) + dropped_total
    BY DEF Conserved
  <2>3. r.lost \in Nat /\ Len(r.queue) + r.lost = Len(entries) + 1
    BY <1>1
  <2> DEFINE lq == Len(r.queue)
             l == r.lost
  <2>4. /\ lq \in Nat /\ l \in Nat /\ lq + l = Len(entries) + 1
        /\ Len(entries') = lq /\ dropped_total' = dropped_total + l
        /\ nextId' = nextId + 1 /\ acked' = acked /\ batch' = batch
    BY <1>2, <2>1, <2>3
  <2> HIDE DEF lq, l
  <2>5. nextId' - 1 = acked' + Len(batch') + Len(entries') + dropped_total'
    BY <2>1, <2>2, <2>4
  <2> QED  BY <2>5 DEF Conserved
<1>9. ToldCurrent' /\ DropsReported'
  <2>1. dropped \in Nat /\ dropped_total \in Nat /\ ackedDrops \in Nat
    BY DEF TypeOK
  <2>2. r.lost \in Nat
    BY <1>1
  <2>3. ToldCurrent'
    BY <1>2 DEF ToldCurrent
  <2>4. dropped_total = ackedDrops + dropped
          => dropped_total + r.lost = ackedDrops + (dropped + r.lost)
    BY <2>1, <2>2
  <2>5. DropsReported'
    BY <1>2, <2>4 DEF DropsReported
  <2> QED  BY <2>3, <2>5
<1> QED  BY <1>4, <1>5, <1>6, <1>7, <1>8, <1>9

(* Taking a batch out preserves the invariant.                             *)
LEMMA SubmitIInv ==
  ASSUME IInv, Submit
  PROVE  IInv'
<1> USE DEF IInv
<1> DEFINE n == Min({SubmitBatch, Len(entries)})
           a == SubSeq(entries, 1, n)
           b == SubSeq(entries, n + 1, Len(entries))
<1>1. entries \in Seq(Entry) /\ bytes \in Nat /\ bytes = SumBytes(entries)
  BY DEF TypeOK, Bounded
<1>2. n \in 0..Len(entries)
  BY <1>1, MinTwo, SpoolAssumption
<1>3. /\ batch = << >> /\ batch' = a /\ entries' = b
      /\ bytes' = bytes - SumBytes(a)
      /\ told' = dropped
      /\ UNCHANGED <<dropped, dropped_total, nextId, acked, lastAcked, ackedDrops,
                     overlapped>>
  BY DEF Submit
<1> HIDE DEF n
<1>4. /\ a \in Seq(Entry) /\ Len(a) = n
      /\ b \in Seq(Entry) /\ Len(b) = Len(entries) - n
      /\ \A i \in 1..n : a[i] = entries[i]
      /\ \A i \in 1..(Len(entries) - n) : b[i] = entries[n + i]
      /\ SumBytes(entries) = SumBytes(a) + SumBytes(b)
      /\ SumBytes(a) \in Nat /\ SumBytes(b) \in Nat
  BY <1>1, <1>2, Cut
<1> HIDE DEF a, b
<1>5. /\ Len(a) + Len(b) = Len(entries) /\ bytes' = SumBytes(b)
      /\ Len(a) \in Nat /\ Len(b) \in Nat /\ Len(entries) \in Nat
  BY <1>1, <1>2, <1>3, <1>4
<1>6. TypeOK'
  BY <1>3, <1>4, <1>5 DEF TypeOK
<1>7. Bounded' /\ BatchFits' /\ HeldFits'
  <2>1. Len(entries) <= max_entries /\ bytes <= max_bytes
    BY DEF Bounded
  <2>2. /\ Len(a) <= max_entries /\ Len(b) <= max_entries
        /\ SumBytes(a) <= max_bytes /\ SumBytes(b) <= max_bytes
        /\ Len(a) + Len(b) <= max_entries
        /\ SumBytes(a) + SumBytes(b) <= max_bytes
    BY <2>1, <1>1, <1>4, <1>5, Limits
  <2> QED  BY <2>2, <1>3, <1>5 DEF Bounded, BatchFits, HeldFits
<1>8. Ordered'
  <2>1. /\ \A i, j \in 1..Len(entries) : i < j => entries[i].id < entries[j].id
        /\ \A i \in 1..Len(entries) : lastAcked < entries[i].id /\ entries[i].id < nextId
        /\ lastAcked < nextId
    BY DEF Ordered, Increasing
  <2>2. \A i \in 1..Len(a) : i \in 1..Len(entries) /\ a[i] = entries[i]
    BY <1>2, <1>4, <1>5
  <2>3. \A i \in 1..Len(b) : n + i \in 1..Len(entries) /\ b[i] = entries[n + i]
    BY <1>2, <1>4, <1>5
  <2>4. \A i \in 1..Len(a), j \in 1..Len(b) : a[i].id < b[j].id
    <3> SUFFICES ASSUME NEW i \in 1..Len(a), NEW j \in 1..Len(b)
                 PROVE  a[i].id < b[j].id
      OBVIOUS
    <3>1. i < n + j
      BY <1>2, <1>4
    <3> QED  BY <2>1, <2>2, <2>3, <3>1
  <2>5. Increasing(a)
    BY <2>1, <2>2 DEF Increasing
  <2>6. Increasing(b)
    <3> SUFFICES ASSUME NEW i \in 1..Len(b), NEW j \in 1..Len(b), i < j
                 PROVE  b[i].id < b[j].id
      BY DEF Increasing
    <3>1. n + i < n + j
      BY <1>2
    <3> QED  BY <2>1, <2>3, <3>1
  <2> QED  BY <2>1, <2>2, <2>3, <2>4, <2>5, <2>6, <1>3 DEF Ordered
<1>9. Conserved'
  <2>1. /\ nextId \in Nat /\ acked \in Nat /\ dropped_total \in Nat
        /\ nextId - 1 = acked + 0 + Len(entries) + dropped_total
    BY <1>3 DEF TypeOK, Conserved
  <2>2. nextId - 1 = acked + Len(a) + Len(b) + dropped_total
    BY <2>1, <1>5
  <2> QED  BY <1>3, <2>2 DEF Conserved
<1>10. ToldCurrent' /\ DropsReported'
  BY <1>3 DEF ToldCurrent, DropsReported
<1> QED  BY <1>6, <1>7, <1>8, <1>9, <1>10

(* An acknowledged batch preserves the invariant.                          *)
LEMMA SubmitOkIInv ==
  ASSUME IInv, SubmitOk
  PROVE  IInv'
<1> USE DEF IInv
<1>1. /\ batch # << >> /\ batch' = << >> /\ told' = 0 /\ dropped' = 0
      /\ acked' = acked + Len(batch)
      /\ lastAcked' = batch[Len(batch)].id
      /\ ackedDrops' = ackedDrops + told
      /\ UNCHANGED <<entries, bytes, dropped_total, nextId, overlapped>>
  BY DEF SubmitOk
<1>2. batch \in Seq(Entry) /\ Len(batch) \in 1..Len(batch) /\ Len(batch) \in Nat
  BY <1>1 DEF TypeOK
<1>3. batch[Len(batch)].id \in Nat
  <2>1. batch[Len(batch)] \in Entry
    BY <1>2
  <2> QED  BY <2>1 DEF Entry
<1>4. TypeOK'
  BY <1>1, <1>2, <1>3 DEF TypeOK
<1>5. Bounded'
  BY <1>1 DEF Bounded
<1>6. Len(batch') = 0 /\ SumBytes(batch') = 0
  BY <1>1, SumBytesEmpty
<1>7. BatchFits' /\ HeldFits'
  <2>1. /\ Len(entries) <= max_entries /\ SumBytes(entries) <= max_bytes
        /\ Len(entries) \in Nat /\ SumBytes(entries) \in Nat
    BY SumBytesType DEF Bounded, TypeOK
  <2> QED  BY <1>1, <1>6, <2>1, Limits DEF BatchFits, HeldFits
<1>8. Ordered'
  BY <1>1, <1>2, <1>6 DEF Ordered, Increasing
<1>9. Conserved'
  <2>1. /\ nextId \in Nat /\ acked \in Nat /\ dropped_total \in Nat /\ Len(entries) \in Nat
        /\ nextId - 1 = acked + Len(batch) + Len(entries) + dropped_total
    BY DEF TypeOK, Conserved
  <2>2. nextId - 1 = (acked + Len(batch)) + 0 + Len(entries) + dropped_total
    BY <1>2, <2>1
  <2> QED  BY <1>1, <1>6, <2>2 DEF Conserved
<1>10. ToldCurrent' /\ DropsReported'
  <2>1. dropped \in Nat /\ dropped_total \in Nat /\ ackedDrops \in Nat /\ told \in Nat
    BY DEF TypeOK
  <2> QED  BY <1>1, <2>1 DEF ToldCurrent, DropsReported
<1> QED  BY <1>4, <1>5, <1>7, <1>8, <1>9, <1>10

(* A batch put back preserves the invariant.                               *)
LEMMA SubmitErrIInv ==
  ASSUME IInv, SubmitErr
  PROVE  IInv'
<1> USE DEF IInv
<1> DEFINE r == AfterReturn
           n == Kept
           a == SubSeq(entries, 1, n)
<1>1. /\ entries' = r.queue /\ bytes' = r.bytes
      /\ dropped' = dropped + r.lost /\ dropped_total' = dropped_total + r.lost
      /\ batch # << >> /\ batch' = << >> /\ told' = 0
      /\ UNCHANGED <<nextId, acked, lastAcked, ackedDrops, overlapped>>
  BY DEF SubmitErr, Install
<1>2. /\ n \in 0..Len(entries)
      /\ r.queue = batch \o a
      /\ r.queue \in Seq(Entry)
      /\ Len(r.queue) = Len(batch) + n
      /\ Len(r.queue) <= max_entries
      /\ r.bytes = SumBytes(r.queue)
      /\ r.bytes \in Nat /\ r.bytes <= max_bytes
      /\ r.lost = Len(entries) - n
      /\ (/\ Len(batch) + Len(entries) <= max_entries
          /\ SumBytes(batch) + SumBytes(entries) <= max_bytes)
            => n = Len(entries)
  BY ReturnFacts
<1>3. /\ entries \in Seq(Entry) /\ batch \in Seq(Entry)
      /\ Len(entries) \in Nat /\ Len(batch) \in Nat
  BY DEF TypeOK
<1> HIDE DEF r, n
<1>4. a \in Seq(Entry) /\ Len(a) = n /\ \A i \in 1..n : a[i] = entries[i]
  BY <1>2, <1>3, Cut
<1> HIDE DEF a
<1>5. r.lost \in Nat
  BY <1>2, <1>3
<1>6. TypeOK'
  BY <1>1, <1>2, <1>5 DEF TypeOK
<1>7. Bounded'
  BY <1>1, <1>2 DEF Bounded
<1>8. Len(batch') = 0 /\ SumBytes(batch') = 0
  BY <1>1, SumBytesEmpty
<1>9. BatchFits' /\ HeldFits'
  BY <1>1, <1>2, <1>8, Limits DEF BatchFits, HeldFits
<1>10. Ordered'
  <2> DEFINE q == r.queue
  <2>1. q = batch \o a /\ Len(q) = Len(batch) + n
    BY <1>2
  <2>2. \A i \in 1..Len(q) :
           \/ i \in 1..Len(batch) /\ q[i] = batch[i]
           \/ /\ i > Len(batch) /\ i - Len(batch) \in 1..Len(entries)
              /\ q[i] = entries[i - Len(batch)]
    <3> SUFFICES ASSUME NEW i \in 1..Len(q)
                 PROVE  \/ i \in 1..Len(batch) /\ q[i] = batch[i]
                        \/ /\ i > Len(batch) /\ i - Len(batch) \in 1..Len(entries)
                           /\ q[i] = entries[i - Len(batch)]
      OBVIOUS
    <3>1. i \in 1..Len(batch) + Len(a)
      BY <2>1, <1>4
    <3>2. q[i] = IF i <= Len(batch) THEN batch[i] ELSE a[i - Len(batch)]
      BY <2>1, <3>1, <1>3, <1>4, ConcatProperties
    <3>3. CASE i <= Len(batch)
      BY <3>1, <3>2, <3>3, <1>3
    <3>4. CASE i > Len(batch)
      <4>1. i - Len(batch) \in 1..n /\ i - Len(batch) \in 1..Len(entries)
        BY <3>1, <3>4, <1>2, <1>3, <1>4
      <4> QED  BY <3>2, <3>4, <4>1, <1>4, <1>3
    <3> QED  BY <3>1, <3>3, <3>4, <1>3
  <2> HIDE DEF q
  <2>3. /\ \A i, j \in 1..Len(batch) : i < j => batch[i].id < batch[j].id
        /\ \A i, j \in 1..Len(entries) : i < j => entries[i].id < entries[j].id
        /\ \A i \in 1..Len(batch), j \in 1..Len(entries) : batch[i].id < entries[j].id
        /\ \A i \in 1..Len(batch) : lastAcked < batch[i].id /\ batch[i].id < nextId
        /\ \A i \in 1..Len(entries) : lastAcked < entries[i].id /\ entries[i].id < nextId
        /\ lastAcked < nextId
    BY DEF Ordered, Increasing
  <2>4. \A i, j \in 1..Len(q) : i < j => q[i].id < q[j].id
    <3> SUFFICES ASSUME NEW i \in 1..Len(q), NEW j \in 1..Len(q), i < j
                 PROVE  q[i].id < q[j].id
      OBVIOUS
    <3>1. CASE j \in 1..Len(batch)
      <4>1. i \in 1..Len(batch) /\ q[i] = batch[i] /\ q[j] = batch[j]
        BY <2>2, <3>1, <1>3
      <4> QED  BY <2>3, <3>1, <4>1
    <3>2. CASE j > Len(batch)
      <4>1. j - Len(batch) \in 1..Len(entries) /\ q[j] = entries[j - Len(batch)]
        BY <2>2, <3>2
      <4>2. CASE i \in 1..Len(batch)
        <5>1. q[i] = batch[i]
          BY <2>2, <4>2
        <5> QED  BY <2>3, <4>1, <4>2, <5>1
      <4>3. CASE i > Len(batch)
        <5>1. /\ i - Len(batch) \in 1..Len(entries) /\ q[i] = entries[i - Len(batch)]
              /\ i - Len(batch) < j - Len(batch)
          BY <2>2, <4>3, <1>3
        <5> QED  BY <2>3, <4>1, <5>1
      <4> QED  BY <2>2, <4>2, <4>3
    <3> QED  BY <2>2, <3>1, <3>2
  <2>5. \A i \in 1..Len(q) : lastAcked < q[i].id /\ q[i].id < nextId
    BY <2>2, <2>3
  <2>6. entries' = q /\ lastAcked' = lastAcked /\ nextId' = nextId
    BY <1>1 DEF q
  <2> QED  BY <1>8, <2>3, <2>4, <2>5, <2>6 DEF Ordered, Increasing
<1>11. Conserved'
  <2>1. /\ nextId \in Nat /\ acked \in Nat /\ dropped_total \in Nat
        /\ nextId - 1 = acked + Len(batch) + Len(entries) + dropped_total
    BY DEF TypeOK, Conserved
  <2>2. nextId - 1 = acked + 0 + Len(r.queue) + (dropped_total + r.lost)
    BY <1>2, <1>3, <2>1
  <2> QED  BY <1>1, <1>8, <2>2 DEF Conserved
<1>12. ToldCurrent' /\ DropsReported'
  <2>1. dropped \in Nat /\ dropped_total \in Nat /\ ackedDrops \in Nat
    BY DEF TypeOK
  <2>2. ToldCurrent'
    BY <1>1 DEF ToldCurrent
  <2>3. dropped_total = ackedDrops + dropped
          => dropped_total + r.lost = ackedDrops + (dropped + r.lost)
    BY <2>1, <1>5
  <2>4. DropsReported'
    BY <1>1, <2>3 DEF DropsReported
  <2> QED  BY <2>2, <2>4
<1> QED  BY <1>6, <1>7, <1>9, <1>10, <1>11, <1>12

(* A heartbeat preserves the invariant.                                    *)
LEMMA HeartbeatOkIInv ==
  ASSUME IInv, HeartbeatOk
  PROVE  IInv'
<1> USE DEF IInv
<1>1. /\ batch = << >> /\ ackedDrops' = ackedDrops + dropped /\ dropped' = 0
      /\ UNCHANGED <<entries, bytes, dropped_total, batch, told, nextId, acked, lastAcked, overlapped>>
  BY DEF HeartbeatOk
<1>2. TypeOK' /\ Bounded' /\ BatchFits' /\ HeldFits'
  BY <1>1 DEF TypeOK, Bounded, BatchFits, HeldFits
<1>3. Ordered' /\ Conserved'
  BY <1>1 DEF Ordered, Increasing, Conserved
<1>4. ToldCurrent' /\ DropsReported'
  BY <1>1 DEF TypeOK, ToldCurrent, DropsReported
<1> QED  BY <1>2, <1>3, <1>4

(* Every step of the spool preserves the invariant.                        *)
LEMMA NextIInv == IInv /\ [Next]_vars => IInv'
<1> SUFFICES ASSUME IInv, [Next]_vars PROVE IInv'
  OBVIOUS
<1>1. CASE \E size \in Sizes : Enqueue(size)
  BY <1>1, EnqueueIInv
<1>2. CASE Submit
  BY <1>2, SubmitIInv
<1>3. CASE SubmitOk
  BY <1>3, SubmitOkIInv
<1>4. CASE SubmitErr
  BY <1>4, SubmitErrIInv
<1>5. CASE HeartbeatOk
  BY <1>5, HeartbeatOkIInv
<1>6. CASE UNCHANGED vars
  BY <1>6 DEF vars, IInv, TypeOK, Bounded, BatchFits, HeldFits, Ordered,
              Increasing, Conserved, ToldCurrent, DropsReported
<1> QED  BY <1>1, <1>2, <1>3, <1>4, <1>5, <1>6 DEF Next

-----------------------------------------------------------------------------
(* The theorems.                                                           *)

(* In every behaviour of the spool, whatever its configuration, the        *)
(* inductive invariant holds.                                              *)
THEOREM Invariance == Spec => []IInv
<1> QED  BY InitIInv, NextIInv, PTL DEF Spec

(* The spool's variables keep their types; in particular the byte count,   *)
(* an unsigned integer in the code, is never driven below zero.            *)
THEOREM TypeCorrect == Spec => []TypeOK
<1>1. IInv => TypeOK
  BY DEF IInv
<1> QED  BY <1>1, Invariance, PTL

(* The entry and byte ceilings hold, with an exact byte count.             *)
THEOREM SpoolIsBounded == Spec => []Bounded
<1>1. IInv => Bounded
  BY DEF IInv
<1> QED  BY <1>1, Invariance, PTL

(* Results reach the controller in the order they were produced.           *)
THEOREM DeliveryInOrder == Spec => []Ordered
<1>1. IInv => Ordered
  BY DEF IInv
<1> QED  BY <1>1, Invariance, PTL

(* No result disappears uncounted.                                         *)
THEOREM NothingUncounted == Spec => []Conserved
<1>1. IInv => Conserved
  BY DEF IInv
<1> QED  BY <1>1, Invariance, PTL

(* When nothing is queued during a POST, every discard is reported.        *)
THEOREM EveryDropReported == Spec => []DropsReported
<1>1. IInv => DropsReported
  BY DEF IInv
<1> QED  BY <1>1, Invariance, PTL

(* When nothing is queued during a POST, a failed one costs nothing.       *)
THEOREM FailedSubmissionIsLossless == Spec => ReturnIsLossless
<1> DEFINE Step == (~overlapped /\ nextId' = nextId) => dropped_total' = dropped_total
<1>1. ASSUME IInv, [Next]_vars PROVE [Step]_vars
  <2> SUFFICES ASSUME ~overlapped, nextId' = nextId, Next
               PROVE  dropped_total' = dropped_total
    BY <1>1
  <2>1. ASSUME NEW size \in Sizes, Enqueue(size) PROVE FALSE
    BY <1>1, <2>1 DEF Enqueue, IInv, TypeOK
  <2>2. CASE SubmitErr
    <3>1. /\ TypeOK /\ Bounded /\ BatchFits
          /\ Len(batch) + Len(entries) <= max_entries
          /\ SumBytes(batch) + SumBytes(entries) <= max_bytes
      BY <1>1 DEF IInv, HeldFits
    <3>2. AfterReturn.lost = Len(entries) - Kept /\ Kept = Len(entries)
      BY <3>1, ReturnFacts
    <3>3. dropped_total' = dropped_total + AfterReturn.lost
      BY <2>2 DEF SubmitErr, Install
    <3>4. Len(entries) \in Nat /\ dropped_total \in Nat
      BY <3>1 DEF TypeOK
    <3> QED  BY <3>2, <3>3, <3>4
  <2>3. CASE Submit \/ SubmitOk \/ HeartbeatOk
    BY <2>3 DEF Submit, SubmitOk, HeartbeatOk
  <2> QED  BY <2>1, <2>2, <2>3 DEF Next
<1>2. IInv /\ [Next]_vars => [Step]_vars
  BY <1>1
<1> QED  BY <1>2, Invariance, PTL DEF Spec, ReturnIsLossless

-----------------------------------------------------------------------------
(* The onset of an outage.                                                 *)

(* What is held, entry by entry: the POST's batch, then the queue.         *)
LEMMA HeldParts ==
  ASSUME NEW b \in Seq(Entry), NEW e \in Seq(Entry)
  PROVE  /\ b \o e \in Seq(Entry) /\ Len(b \o e) = Len(b) + Len(e)
         /\ Len(b) \in Nat /\ Len(e) \in Nat
         /\ \A i \in 1..Len(b) : (b \o e)[i] = b[i]
         /\ \A i \in 1..Len(e) : (b \o e)[Len(b) + i] = e[i]
         /\ \A i \in 1..(Len(b) + Len(e)) :
               \/ i \in 1..Len(b) /\ (b \o e)[i] = b[i]
               \/ i - Len(b) \in 1..Len(e) /\ (b \o e)[i] = e[i - Len(b)]
<1>1. /\ b \o e \in Seq(Entry) /\ Len(b \o e) = Len(b) + Len(e)
      /\ Len(b) \in Nat /\ Len(e) \in Nat
      /\ \A i \in 1..(Len(b) + Len(e)) :
            (b \o e)[i] = IF i <= Len(b) THEN b[i] ELSE e[i - Len(b)]
  BY ConcatProperties
<1>2. \A i \in 1..Len(e) : /\ Len(b) + i \in 1..(Len(b) + Len(e))
                           /\ ~(Len(b) + i <= Len(b)) /\ (Len(b) + i) - Len(b) = i
  BY <1>1
<1>3. \A i \in 1..Len(e) : (b \o e)[Len(b) + i] = e[i]
  BY <1>1, <1>2
<1> QED  BY <1>1, <1>3

(* A queue that starts with the first n entries of another has its onset.  *)
LEMMA SameOnset ==
  ASSUME NEW g \in Seq(Entry), NEW h \in Seq(Entry), NEW n \in Nat,
         NEW m \in Nat, m = IF n <= Len(g) THEN n ELSE Len(g),
         m <= Len(h), \A i \in 1..m : h[i] = g[i]
  PROVE  Prefix(g, n) = Prefix(h, Len(Prefix(g, n)))
<1>1. Len(g) \in Nat /\ Len(h) \in Nat
  OBVIOUS
<1>2. Min({n, Len(g)}) = m
  BY <1>1, MinTwo
<1>3. Prefix(g, n) = SubSeq(g, 1, m)
  BY <1>2 DEF Prefix
<1>4. m \in 0..Len(g) /\ m \in 0..Len(h)
  BY <1>1
<1>5. /\ SubSeq(g, 1, m) \in Seq(Entry) /\ Len(SubSeq(g, 1, m)) = m
      /\ \A i \in 1..m : SubSeq(g, 1, m)[i] = g[i]
  BY <1>4, Cut
<1>6. /\ SubSeq(h, 1, m) \in Seq(Entry) /\ Len(SubSeq(h, 1, m)) = m
      /\ \A i \in 1..m : SubSeq(h, 1, m)[i] = h[i]
  BY <1>4, Cut
<1>7. Min({m, Len(h)}) = m
  BY <1>1, MinTwo
<1>8. Prefix(h, m) = SubSeq(h, 1, m)
  BY <1>7 DEF Prefix
<1>9. SubSeq(g, 1, m) = SubSeq(h, 1, m)
  <2> DEFINE x == SubSeq(g, 1, m)
             y == SubSeq(h, 1, m)
  <2> HIDE DEF x, y
  <2>1. /\ x \in Seq(Entry) /\ Len(x) = m /\ y \in Seq(Entry) /\ Len(y) = m
        /\ \A i \in 1..m : x[i] = y[i]
    BY <1>5, <1>6 DEF x, y
  <2>2. x = y
    BY <2>1, SeqEqual
  <2> QED  BY <2>2 DEF x, y
<1> QED  BY <1>3, <1>5, <1>8, <1>9

(* What is held is not touched when a batch is taken out, nor when it is   *)
(* put back by an agent that queued nothing meanwhile.                     *)
LEMMA HeldKept ==
  ASSUME IInv, Submit \/ (SubmitErr /\ ~overlapped) \/ HeartbeatOk
  PROVE  Held' = Held
<1>1. entries \in Seq(Entry) /\ batch \in Seq(Entry)
  BY DEF IInv, TypeOK
<1>2. CASE Submit
  <2> DEFINE n == Min({SubmitBatch, Len(entries)})
  <2>1. n \in 0..Len(entries)
    BY <1>1, MinTwo, SpoolAssumption
  <2>2. /\ batch = << >> /\ batch' = SubSeq(entries, 1, n)
        /\ entries' = SubSeq(entries, n + 1, Len(entries))
    BY <1>2 DEF Submit
  <2> HIDE DEF n
  <2>3. entries = batch' \o entries'
    BY <1>1, <2>1, <2>2, Cut
  <2>4. batch \o entries = entries
    BY <1>1, <2>2
  <2> QED  BY <2>3, <2>4 DEF Held
<1>3. CASE SubmitErr /\ ~overlapped
  <2>1. /\ entries' = AfterReturn.queue /\ batch' = << >>
    BY <1>3 DEF SubmitErr, Install
  <2>2. /\ AfterReturn.queue = batch \o SubSeq(entries, 1, Kept)
        /\ AfterReturn.queue \in Seq(Entry) /\ Kept = Len(entries)
    BY <1>3, ReturnFacts DEF IInv, HeldFits
  <2>3. SubSeq(entries, 1, Kept) = entries
    BY <1>1, <2>2
  <2>4. << >> \o entries' = entries'
    BY <2>1, <2>2
  <2> QED  BY <2>1, <2>2, <2>3, <2>4 DEF Held
<1>4. CASE HeartbeatOk
  BY <1>4 DEF HeartbeatOk, Held
<1> QED  BY <1>2, <1>3, <1>4

(* A push that finds no POST in progress leaves the onset in place.        *)
LEMMA PushKeepsOnset ==
  ASSUME IInv, NEW size \in Sizes, Enqueue(size), batch = << >>
  PROVE  Prefix(Held, onset_reserve) = Prefix(Held', Len(Prefix(Held, onset_reserve)))
<1> DEFINE k == Evictions(size)
           m == Protected
           new == [id |-> nextId, bytes |-> size]
<1>1. entries \in Seq(Entry) /\ Len(entries) \in Nat
  BY DEF IInv, TypeOK
<1>2. /\ entries' = AfterPush(size).queue /\ batch' = << >>
  BY DEF Enqueue, Install
<1>3. /\ entries' \in Seq(Entry)
      /\ entries' = Append(Evict(k), new) \/ entries' = Evict(k)
  BY <1>2, PushFacts DEF IInv
<1>4. k \in 0..(Len(entries) - Protected)
  BY <1>1, EvictionsFacts
<1>5. /\ m \in 0..Len(entries) /\ Evict(k) \in Seq(Entry)
      /\ Len(Evict(k)) = Len(entries) - k
      /\ \A i \in 1..Len(Evict(k)) :
            Evict(k)[i] = entries[IF i <= m THEN i ELSE i + k]
  <2> HIDE DEF k
  <2> QED  BY <1>1, <1>4, EvictFacts
<1>6. m = IF onset_reserve <= Len(entries) THEN onset_reserve ELSE Len(entries)
  BY <1>1, Limits, MinTwo DEF Protected
<1>7. Held = entries /\ Held' = entries'
  BY <1>1, <1>2, <1>3 DEF Held
<1> HIDE DEF k, m, new
<1>8. m \in Nat /\ m <= Len(Evict(k)) /\ \A i \in 1..m : Evict(k)[i] = entries[i]
  BY <1>1, <1>4, <1>5 DEF m
<1>9. m <= Len(entries') /\ \A i \in 1..m : entries'[i] = entries[i]
  <2>1. CASE entries' = Evict(k)
    BY <1>8, <2>1
  <2>2. CASE entries' = Append(Evict(k), new)
    <3>1. /\ Len(entries') = Len(Evict(k)) + 1
          /\ \A i \in 1..Len(Evict(k)) : entries'[i] = Evict(k)[i]
      BY <1>5, <2>2
    <3> QED  BY <1>5, <1>8, <3>1
  <2> QED  BY <1>3, <2>1, <2>2
<1>10. Prefix(entries, onset_reserve) = Prefix(entries', Len(Prefix(entries, onset_reserve)))
  BY <1>1, <1>3, <1>6, <1>8, <1>9, Limits, SameOnset
<1> QED  BY <1>7, <1>10

(* When nothing is queued during a POST, the oldest results held stay held *)
(* in place until a batch is acknowledged.                                 *)
THEOREM OnsetIsProtected == Spec => OnsetProtected
<1> DEFINE Step == (~overlapped' /\ acked' = acked)
                     => LET onset == Prefix(Held, onset_reserve)
                        IN  onset = Prefix(Held', Len(onset))
<1>1. ASSUME IInv, Next, ~overlapped', acked' = acked
      PROVE  Prefix(Held, onset_reserve) = Prefix(Held', Len(Prefix(Held, onset_reserve)))
  <2>0. /\ entries \in Seq(Entry) /\ batch \in Seq(Entry)
        /\ Held \in Seq(Entry)
    <3>1. entries \in Seq(Entry) /\ batch \in Seq(Entry)
      BY <1>1 DEF IInv, TypeOK
    <3> QED  BY <3>1, HeldParts DEF Held
  <2>1. CASE Held' = Held
    <3> DEFINE m == IF onset_reserve <= Len(Held) THEN onset_reserve ELSE Len(Held)
    <3>1. m \in Nat /\ m <= Len(Held)
      BY <2>0, Limits
    <3> HIDE DEF m
    <3>2. Prefix(Held, onset_reserve) = Prefix(Held, Len(Prefix(Held, onset_reserve)))
      BY <2>0, <3>1, Limits, SameOnset DEF m
    <3> QED  BY <2>1, <3>2
  <2>2. ASSUME NEW size \in Sizes, Enqueue(size)
        PROVE  Prefix(Held, onset_reserve) = Prefix(Held', Len(Prefix(Held, onset_reserve)))
    BY <1>1, <2>2, PushKeepsOnset DEF Enqueue
  <2>3. CASE SubmitOk
    <3>1. Len(batch) \in Nat /\ Len(batch) # 0 /\ acked \in Nat /\ acked' = acked + Len(batch)
      BY <1>1, <2>3, <2>0 DEF SubmitOk, IInv, TypeOK
    <3> QED  BY <1>1, <3>1
  <2>4. CASE Submit \/ SubmitErr \/ HeartbeatOk
    BY <1>1, <2>1, <2>4, HeldKept DEF SubmitErr
  <2> QED  BY <1>1, <2>2, <2>3, <2>4 DEF Next
<1>2. IInv /\ [Next]_vars => [Step]_vars
  BY <1>1
<1> QED  BY <1>2, Invariance, PTL DEF Spec, OnsetProtected

-----------------------------------------------------------------------------
(* The refinement of Delivery.                                             *)

(* The numbers of a queue's results: what Delivery sees of it.             *)
Numbers(es) == [i \in 1..Len(es) |-> es[i].id]

(* A queue's numbers, one by one, and in order when the queue is.          *)
LEMMA NumbersFacts ==
  ASSUME NEW es \in Seq(Entry)
  PROVE  /\ Numbers(es) \in Seq(Nat) /\ Len(Numbers(es)) = Len(es)
         /\ \A i \in 1..Len(es) : Numbers(es)[i] = es[i].id
         /\ Increasing(es) => Promise!Rising(Numbers(es))
<1>1. \A i \in 1..Len(es) : es[i].id \in Nat
  <2>1. \A i \in 1..Len(es) : es[i] \in Entry
    OBVIOUS
  <2> QED  BY <2>1 DEF Entry
<1>2. Len(es) \in Nat
  OBVIOUS
<1>3. Numbers(es) \in Seq(Nat) /\ Len(Numbers(es)) = Len(es)
  BY <1>1, <1>2 DEF Numbers
<1>4. \A i \in 1..Len(es) : Numbers(es)[i] = es[i].id
  BY DEF Numbers
<1> QED  BY <1>3, <1>4 DEF Increasing, Promise!Rising

(* What is held is in order.                                               *)
LEMMA HeldIncreasing ==
  ASSUME NEW b \in Seq(Entry), NEW e \in Seq(Entry), Increasing(b), Increasing(e),
         \A i \in 1..Len(b), j \in 1..Len(e) : b[i].id < e[j].id
  PROVE  Increasing(b \o e)
<1> DEFINE h == b \o e
<1>1. /\ Len(h) = Len(b) + Len(e) /\ Len(b) \in Nat /\ Len(e) \in Nat
      /\ \A i \in 1..(Len(b) + Len(e)) :
               \/ i \in 1..Len(b) /\ h[i] = b[i]
               \/ i - Len(b) \in 1..Len(e) /\ h[i] = e[i - Len(b)]
  BY HeldParts
<1> HIDE DEF h
<1>2. SUFFICES ASSUME NEW i \in 1..(Len(b) + Len(e)),
                      NEW j \in 1..(Len(b) + Len(e)), i < j
               PROVE  h[i].id < h[j].id
  BY <1>1 DEF Increasing, h
<1>3. CASE j \in 1..Len(b) /\ h[j] = b[j]
  <2>1. i \in 1..Len(b) /\ h[i] = b[i]
    BY <1>1, <1>2, <1>3
  <2> QED  BY <1>2, <1>3, <2>1 DEF Increasing
<1>4. CASE j - Len(b) \in 1..Len(e) /\ h[j] = e[j - Len(b)]
  <2>1. CASE i \in 1..Len(b) /\ h[i] = b[i]
    BY <1>4, <2>1
  <2>2. CASE i - Len(b) \in 1..Len(e) /\ h[i] = e[i - Len(b)]
    <3>1. i - Len(b) < j - Len(b)
      BY <1>1, <1>2
    <3> QED  BY <1>4, <2>2, <3>1 DEF Increasing
  <2> QED  BY <1>1, <2>1, <2>2
<1> QED  BY <1>1, <1>3, <1>4

(* The controller is never told of more discards than there were, also     *)
(* when something is queued during a POST: the POST then carries a count   *)
(* that is behind, and clearing the counter loses the difference.          *)
DropsBounded ==
    /\ ackedDrops + dropped <= dropped_total
    /\ told <= dropped
    /\ batch = << >> => told = 0

(* The bound on what the controller is told holds in every state.          *)
LEMMA DropsBoundedInvariant == Spec => [](IInv /\ DropsBounded)
<1>1. Init => DropsBounded
  BY DEF Init, DropsBounded
<1>2. IInv /\ DropsBounded /\ [Next]_vars => DropsBounded'
  <2> SUFFICES ASSUME IInv, DropsBounded, [Next]_vars PROVE DropsBounded'
    OBVIOUS
  <2>1. /\ dropped \in Nat /\ dropped_total \in Nat /\ ackedDrops \in Nat
        /\ told \in Nat
    BY DEF IInv, TypeOK
  <2> USE <2>1 DEF DropsBounded
  <2>2. ASSUME NEW lost \in Nat, dropped' = dropped + lost,
               dropped_total' = dropped_total + lost, ackedDrops' = ackedDrops,
               \/ UNCHANGED <<told, batch>> \/ told' = 0
        PROVE  DropsBounded'
    BY <2>2
  <2>3. ASSUME NEW size \in Sizes, Enqueue(size) PROVE DropsBounded'
    <3>1. AfterPush(size).lost \in Nat
      BY PushFacts DEF IInv
    <3> QED  BY <2>2, <2>3, <3>1 DEF Enqueue, Install
  <2>4. CASE Submit
    <3>1. /\ dropped' = dropped /\ told' = dropped
          /\ dropped_total' = dropped_total /\ ackedDrops' = ackedDrops
      BY <2>4 DEF Submit
    <3>2. batch' # << >>
      <4> DEFINE n == Min({SubmitBatch, Len(entries)})
      <4>1. entries \in Seq(Entry) /\ entries # << >>
        BY <2>4 DEF Submit, IInv, TypeOK
      <4>2. n \in 1..Len(entries)
        BY <4>1, MinTwo, SpoolAssumption
      <4>3. batch' = SubSeq(entries, 1, n)
        BY <2>4 DEF Submit
      <4> HIDE DEF n
      <4> QED  BY <4>1, <4>2, <4>3
    <3> QED  BY <3>1, <3>2
  <2>5. CASE SubmitOk
    BY <2>5 DEF SubmitOk
  <2>6. CASE SubmitErr
    <3>1. AfterReturn.lost \in Nat
      <4>1. AfterReturn.lost = Len(entries) - Kept /\ Kept \in 0..Len(entries)
        BY ReturnFacts DEF IInv
      <4>2. Len(entries) \in Nat
        BY DEF IInv, TypeOK
      <4> QED  BY <4>1, <4>2
    <3> QED  BY <2>2, <2>6, <3>1 DEF SubmitErr, Install
  <2>7. CASE HeartbeatOk
    BY <2>7 DEF HeartbeatOk
  <2>8. CASE UNCHANGED vars
    BY <2>8 DEF vars
  <2> QED  BY <2>3, <2>4, <2>5, <2>6, <2>7, <2>8 DEF Next
<1> QED  BY <1>1, <1>2, Invariance, PTL DEF Spec

(* A step that produces or discards is one of Delivery's when what is held *)
(* after it is in order, was held before or is new, and the rest counted.  *)
LEMMA KeepFacts ==
  ASSUME NEW s \in Seq(Nat), Held' \in Seq(Entry), Increasing(Held'),
         \A i \in 1..Len(Held') : \E j \in 1..Len(s) : Held'[i].id = s[j],
         dropped_total' = dropped_total + Len(s) - Len(Held')
  PROVE  Promise!Keep(s)
<1> DEFINE p == Numbers(Held')
<1>1. /\ Promise!Rising(p) /\ Len(p) = Len(Held')
      /\ \A i \in 1..Len(Held') : p[i] = Held'[i].id
  BY NumbersFacts
<1> HIDE DEF p
<1>2. /\ \A i \in 1..Len(p) : \E j \in 1..Len(s) : p[i] = s[j]
      /\ dropped_total' = dropped_total + Len(s) - Len(p)
  BY <1>1
<1>3. p = [i \in 1..Len(Held') |-> Held'[i].id]
  BY DEF p, Numbers
<1> QED  BY <1>1, <1>2, <1>3, Zenon DEF Promise!Keep

(* A push is a Produce.                                                    *)
LEMMA EnqueueProduces ==
  ASSUME IInv, IInv', NEW size \in Sizes, Enqueue(size)
  PROVE  Promise!Produce
<1> DEFINE k == Evictions(size)
           new == [id |-> nextId, bytes |-> size]
           p == Numbers(Held)
<1>1. /\ entries \in Seq(Entry) /\ batch \in Seq(Entry) /\ nextId \in Nat
      /\ Len(entries) \in Nat /\ Len(batch) \in Nat /\ dropped_total \in Nat
  BY DEF IInv, TypeOK
<1>2. /\ entries' = AfterPush(size).queue /\ batch' = batch
      /\ dropped_total' = dropped_total + AfterPush(size).lost
      /\ nextId' = nextId + 1 /\ UNCHANGED <<acked, lastAcked, ackedDrops>>
  BY DEF Enqueue, Install
<1>3. /\ entries' \in Seq(Entry) /\ AfterPush(size).lost \in Nat
      /\ Len(entries') + AfterPush(size).lost = Len(entries) + 1
      /\ entries' = Append(Evict(k), new) \/ entries' = Evict(k)
  BY <1>2, PushFacts DEF IInv
<1>4. /\ k \in 0..(Len(entries) - Protected)
  BY <1>1, EvictionsFacts
<1>5. /\ Protected \in 0..Len(entries) /\ Evict(k) \in Seq(Entry)
      /\ Len(Evict(k)) = Len(entries) - k
      /\ \A i \in 1..Len(Evict(k)) :
            Evict(k)[i] = entries[IF i <= Protected THEN i ELSE i + k]
  <2> HIDE DEF k
  <2> QED  BY <1>1, <1>4, EvictFacts
<1>6. /\ Held \in Seq(Entry) /\ Len(Held) = Len(batch) + Len(entries)
      /\ \A i \in 1..Len(batch) : Held[i] = batch[i]
      /\ \A i \in 1..Len(entries) : Held[Len(batch) + i] = entries[i]
  BY <1>1, HeldParts DEF Held
<1>7. /\ Held' \in Seq(Entry) /\ Increasing(Held') /\ Len(entries') \in Nat
      /\ Len(Held') = Len(batch) + Len(entries')
      /\ \A i \in 1..Len(Held') :
            \/ i \in 1..Len(batch) /\ Held'[i] = batch[i]
            \/ i - Len(batch) \in 1..Len(entries') /\ Held'[i] = entries'[i - Len(batch)]
  <2>1. /\ Increasing(batch) /\ Increasing(entries')
        /\ \A i \in 1..Len(batch), j \in 1..Len(entries') : batch[i].id < entries'[j].id
    BY <1>2 DEF IInv, Ordered, Increasing
  <2>2. Held' = batch \o entries'
    BY <1>2 DEF Held
  <2>3. Increasing(batch \o entries')
    BY <1>1, <1>3, <2>1, HeldIncreasing
  <2> QED  BY <1>1, <1>3, <2>2, <2>3, HeldParts
<1>8. /\ p \in Seq(Nat) /\ Len(p) = Len(Held)
      /\ \A i \in 1..Len(Held) : p[i] = Held[i].id
  BY <1>6, NumbersFacts
<1> HIDE DEF k, new, p
<1>s. PICK s : s = Append(p, nextId)
  OBVIOUS
<1>9. /\ s \in Seq(Nat) /\ Len(s) = Len(Held) + 1 /\ s[Len(Held) + 1] = nextId
      /\ \A i \in 1..Len(Held) : s[i] = Held[i].id
  BY <1>1, <1>6, <1>8, <1>s
<1>10. \A i \in 1..Len(entries') :
          \/ entries'[i].id = nextId
          \/ \E j \in 1..Len(entries) : entries'[i] = entries[j]
  <2>1. \A i \in 1..Len(Evict(k)) : \E j \in 1..Len(entries) : Evict(k)[i] = entries[j]
    <3> TAKE i \in 1..Len(Evict(k))
    <3> DEFINE j == IF i <= Protected THEN i ELSE i + k
    <3>1. j \in 1..Len(entries)
      BY <1>1, <1>4, <1>5
    <3> QED  BY <3>1, <1>5
  <2>2. CASE entries' = Evict(k)
    BY <2>1, <2>2
  <2>3. CASE entries' = Append(Evict(k), new)
    <3>1. /\ Len(entries') = Len(Evict(k)) + 1 /\ Len(Evict(k)) \in Nat
          /\ \A i \in 1..Len(Evict(k)) : entries'[i] = Evict(k)[i]
          /\ entries'[Len(Evict(k)) + 1] = new
      BY <1>5, <2>3
    <3>2. new.id = nextId
      BY DEF new
    <3> QED  BY <2>1, <3>1, <3>2
  <2> QED  BY <1>3, <2>2, <2>3
<1>11. \A i \in 1..Len(Held') : \E j \in 1..Len(s) : Held'[i].id = s[j]
  <2> TAKE i \in 1..Len(Held')
  <2>1. CASE i \in 1..Len(batch) /\ Held'[i] = batch[i]
    <3>1. i \in 1..Len(Held) /\ i \in 1..Len(s)
      BY <1>1, <1>6, <1>9, <2>1
    <3>2. s[i] = Held'[i].id
      BY <1>6, <1>9, <2>1, <3>1
    <3> QED  BY <3>1, <3>2
  <2>2. CASE i - Len(batch) \in 1..Len(entries') /\ Held'[i] = entries'[i - Len(batch)]
    <3>1. CASE Held'[i].id = nextId
      <4>1. Len(Held) + 1 \in 1..Len(s)
        BY <1>1, <1>6, <1>9
      <4> QED  BY <1>9, <3>1, <4>1
    <3>2. CASE \E j \in 1..Len(entries) : Held'[i] = entries[j]
      <4>1. PICK j \in 1..Len(entries) : Held'[i] = entries[j]
        BY <3>2
      <4>2. Len(batch) + j \in 1..Len(Held) /\ Len(batch) + j \in 1..Len(s)
        BY <1>1, <1>6, <1>9
      <4>3. s[Len(batch) + j] = Held'[i].id
        BY <1>6, <1>9, <4>1, <4>2
      <4> QED  BY <4>2, <4>3
    <3> QED  BY <1>10, <2>2, <3>1, <3>2
  <2> QED  BY <1>7, <2>1, <2>2
<1>12. dropped_total' = dropped_total + Len(s) - Len(Held')
  <2>1. PICK l \in Nat : l = AfterPush(size).lost
    BY <1>3
  <2>2. /\ dropped_total' = dropped_total + l /\ Len(entries') + l = Len(entries) + 1
        /\ Len(s) = Len(batch) + Len(entries) + 1
        /\ Len(Held') = Len(batch) + Len(entries')
    BY <1>2, <1>3, <1>6, <1>7, <1>9, <2>1
  <2>3. Len(entries') \in Nat
    BY <1>7
  <2> QED  BY <1>1, <2>2, <2>3
<1>13. Promise!Keep(s)
  BY <1>7, <1>9, <1>11, <1>12, KeepFacts
<1>14. s = Append([i \in 1..Len(Held) |-> Held[i].id], (nextId - 1) + 1)
  <2>1. (nextId - 1) + 1 = nextId
    BY <1>1
  <2> QED  BY <1>s, <2>1 DEF p, Numbers
<1>15. nextId' - 1 = (nextId - 1) + 1
  BY <1>1, <1>2
<1>16. Promise!Keep(Append([i \in 1..Len(Held) |-> Held[i].id], (nextId - 1) + 1))
  BY <1>13, <1>14, Zenon DEF Promise!Keep
<1> QED  BY <1>2, <1>15, <1>16, Zenon DEF Promise!Produce

(* A batch put back is a Discard of what no longer fits.                   *)
LEMMA SubmitErrDiscards ==
  ASSUME IInv, IInv', SubmitErr
  PROVE  Promise!Discard
<1> DEFINE n == Kept
           p == Numbers(Held)
<1>1. /\ entries \in Seq(Entry) /\ batch \in Seq(Entry)
      /\ Len(entries) \in Nat /\ Len(batch) \in Nat /\ dropped_total \in Nat
  BY DEF IInv, TypeOK
<1>2. /\ entries' = AfterReturn.queue /\ batch' = << >>
      /\ dropped_total' = dropped_total + AfterReturn.lost
      /\ UNCHANGED <<nextId, acked, lastAcked, ackedDrops>>
  BY DEF SubmitErr, Install
<1>3. /\ n \in 0..Len(entries) /\ entries' = batch \o SubSeq(entries, 1, n)
      /\ entries' \in Seq(Entry) /\ dropped_total' = dropped_total + (Len(entries) - n)
  BY <1>2, ReturnFacts DEF IInv
<1> HIDE DEF n
<1>4. /\ SubSeq(entries, 1, n) \in Seq(Entry) /\ Len(SubSeq(entries, 1, n)) = n
      /\ \A i \in 1..n : SubSeq(entries, 1, n)[i] = entries[i]
  BY <1>1, <1>3, Cut
<1>5. /\ Held \in Seq(Entry) /\ Len(Held) = Len(batch) + Len(entries)
      /\ \A i \in 1..Len(batch) : Held[i] = batch[i]
      /\ \A i \in 1..Len(entries) : Held[Len(batch) + i] = entries[i]
  BY <1>1, HeldParts DEF Held
<1>6. Held' = entries' /\ Increasing(Held') /\ Held' \in Seq(Entry)
  <2>1. Held' = entries'
    BY <1>2, <1>3 DEF Held
  <2> QED  BY <1>3, <2>1 DEF IInv, Ordered, Increasing
<1>7. /\ Len(Held') = Len(batch) + n
      /\ \A i \in 1..Len(Held') : i \in 1..Len(Held) /\ Held'[i] = Held[i]
  <2> DEFINE a == SubSeq(entries, 1, n)
  <2>0. a \in Seq(Entry) /\ Len(a) = n /\ \A i \in 1..n : a[i] = entries[i]
    BY <1>4
  <2>x. Held' = batch \o a
    BY <1>3, <1>6
  <2> HIDE DEF a
  <2>1. /\ Len(Held') = Len(batch) + n
        /\ \A i \in 1..(Len(batch) + n) :
              \/ i \in 1..Len(batch) /\ Held'[i] = batch[i]
              \/ i - Len(batch) \in 1..n /\ Held'[i] = a[i - Len(batch)]
    BY <1>1, <2>0, <2>x, HeldParts
  <2>2. \A i \in 1..(Len(batch) + n) : i \in 1..Len(Held) /\ Held'[i] = Held[i]
    <3> TAKE i \in 1..(Len(batch) + n)
    <3>0. i \in 1..Len(Held)
      BY <1>1, <1>3, <1>5
    <3>1. CASE i \in 1..Len(batch) /\ Held'[i] = batch[i]
      BY <1>5, <3>0, <3>1
    <3>2. CASE i - Len(batch) \in 1..n /\ Held'[i] = a[i - Len(batch)]
      <4>1. PICK j \in 1..n : j = i - Len(batch)
        BY <3>2
      <4>2. j \in 1..Len(entries) /\ i = Len(batch) + j
        BY <1>1, <1>3, <4>1
      <4>3. Held'[i] = entries[j] /\ Held[Len(batch) + j] = entries[j]
        BY <1>5, <2>0, <3>2, <4>1, <4>2
      <4> QED  BY <3>0, <4>2, <4>3
    <3> QED  BY <2>1, <3>1, <3>2
  <2> QED  BY <2>1, <2>2
<1>8. /\ p \in Seq(Nat) /\ Len(p) = Len(Held)
      /\ \A i \in 1..Len(Held) : p[i] = Held[i].id
  BY <1>5, NumbersFacts
<1> HIDE DEF p
<1>s. PICK s : s = p
  OBVIOUS
<1>9. \A i \in 1..Len(Held') : \E j \in 1..Len(s) : Held'[i].id = s[j]
  BY <1>7, <1>8, <1>s
<1>10. dropped_total' = dropped_total + Len(s) - Len(Held')
  <2>1. Len(s) = Len(batch) + Len(entries) /\ Len(Held') = Len(batch) + n /\ n \in Nat
    BY <1>1, <1>3, <1>5, <1>7, <1>8, <1>s
  <2> QED  BY <1>1, <1>3, <2>1
<1>11. Promise!Keep(s)
  BY <1>6, <1>8, <1>9, <1>10, <1>s, KeepFacts
<1>12. s = [i \in 1..Len(Held) |-> Held[i].id]
  BY <1>s DEF p, Numbers
<1>13. Promise!Keep([i \in 1..Len(Held) |-> Held[i].id])
  BY <1>11, <1>12, Zenon DEF Promise!Keep
<1> QED  BY <1>2, <1>13, Zenon DEF Promise!Discard

(* What is left of a sequence of numbers when its first n are gone.        *)
LEMMA TailFacts ==
  ASSUME NEW p \in Seq(Nat), NEW n \in 0..Len(p)
  PROVE  LET r == SubSeq(p, n + 1, Len(p))
         IN  /\ r \in Seq(Nat) /\ Len(r) = Len(p) - n
             /\ \A i \in 1..(Len(p) - n) : r[i] = p[n + i]
OBVIOUS

(* An acknowledged batch is a Deliver, and tells the controller no more    *)
(* discards than there were.                                               *)
LEMMA SubmitOkDelivers ==
  ASSUME IInv, DropsBounded, SubmitOk
  PROVE  Promise!Deliver
<1> DEFINE n == Len(batch)
           p == Numbers(Held)
           q == Numbers(Held')
<1>1. /\ entries \in Seq(Entry) /\ batch \in Seq(Entry) /\ n \in Nat
      /\ dropped \in Nat /\ dropped_total \in Nat /\ ackedDrops \in Nat
      /\ told \in Nat /\ Len(entries) \in Nat
  BY DEF IInv, TypeOK
<1>2. /\ batch # << >> /\ batch' = << >> /\ entries' = entries
      /\ acked' = acked + n /\ lastAcked' = batch[n].id
      /\ ackedDrops' = ackedDrops + told
      /\ UNCHANGED <<dropped_total, nextId>>
  BY DEF SubmitOk
<1>3. n \in 1..n
  BY <1>1, <1>2
<1>4. /\ Held \in Seq(Entry) /\ Len(Held) = n + Len(entries)
      /\ \A i \in 1..n : Held[i] = batch[i]
      /\ \A i \in 1..Len(entries) : Held[n + i] = entries[i]
  BY <1>1, HeldParts DEF Held
<1>5. Held' = entries
  BY <1>1, <1>2 DEF Held
<1>6. /\ p \in Seq(Nat) /\ Len(p) = Len(Held)
      /\ \A i \in 1..Len(Held) : p[i] = Held[i].id
      /\ q \in Seq(Nat) /\ Len(q) = Len(entries)
      /\ \A i \in 1..Len(entries) : q[i] = entries[i].id
  BY <1>1, <1>4, <1>5, NumbersFacts
<1> HIDE DEF n, p, q
<1>7. n \in 1..Len(p) /\ lastAcked' = p[n]
  BY <1>1, <1>2, <1>3, <1>4, <1>6
<1>8. q = SubSeq(p, n + 1, Len(p))
  <2> DEFINE r == SubSeq(p, n + 1, Len(p))
  <2>0. p \in Seq(Nat) /\ n \in 1..Len(p) /\ Len(p) - n = Len(entries)
    BY <1>1, <1>4, <1>6, <1>7
  <2>1. /\ r \in Seq(Nat) /\ Len(r) = Len(entries)
        /\ \A i \in 1..Len(entries) : r[i] = p[n + i]
    <3>1. /\ r \in Seq(Nat) /\ Len(r) = Len(p) - n
          /\ \A i \in 1..(Len(p) - n) : r[i] = p[n + i]
      BY <2>0, TailFacts
    <3> QED  BY <2>0, <3>1
  <2> HIDE DEF r
  <2>2. \A i \in 1..Len(entries) : n + i \in 1..Len(Held) /\ p[n + i] = entries[i].id
    BY <1>1, <1>4, <1>6
  <2>3. q = r
    BY <1>6, <2>1, <2>2, SeqEqual
  <2> QED  BY <2>3 DEF r
<1>9. /\ p = [i \in 1..Len(Held) |-> Held[i].id]
      /\ q = [i \in 1..Len(Held') |-> Held'[i].id]
  BY DEF p, q, Numbers
<1>10. Promise!Learn
  BY <1>1, <1>2 DEF Promise!Learn, DropsBounded
<1>11. \E m \in 1..Len(p) : /\ q = SubSeq(p, m + 1, Len(p))
                            /\ acked' = acked + m /\ lastAcked' = p[m]
  BY <1>2, <1>7, <1>8
<1> QED  BY <1>2, <1>9, <1>10, <1>11, Zenon DEF Promise!Deliver

(* The spool, whatever its limits, its batch size and the sizes of its     *)
(* results, does what Delivery promises: each step of the spool is one of  *)
(* Delivery's, or changes nothing that Delivery sees.                      *)
THEOREM SpoolImplementsDelivery == Spec => ImplementsDelivery
<1>1. Init => Promise!Init
  <2> SUFFICES ASSUME Init PROVE Promise!Init
    OBVIOUS
  <2>1. Held = << >>
    BY DEF Init, Held
  <2>2. [i \in 1..Len(Held) |-> Held[i].id] = << >>
    BY <2>1
  <2> QED  BY <2>2 DEF Init, Promise!Init
<1>2. IInv /\ IInv' /\ DropsBounded /\ [Next]_vars => [Promise!Next]_Promise!vars
  <2> SUFFICES ASSUME IInv, IInv', DropsBounded, [Next]_vars
               PROVE  [Promise!Next]_Promise!vars
    OBVIOUS
  <2>1. ASSUME NEW size \in Sizes, Enqueue(size) PROVE Promise!Next
    BY <2>1, EnqueueProduces DEF Promise!Next
  <2>2. CASE Submit
    <3>1. Held' = Held /\ UNCHANGED <<nextId, acked, lastAcked, dropped_total, ackedDrops>>
      BY <2>2, HeldKept DEF Submit
    <3> QED  BY <3>1 DEF Promise!vars
  <2>3. CASE SubmitOk
    BY <2>3, SubmitOkDelivers DEF Promise!Next
  <2>4. CASE SubmitErr
    BY <2>4, SubmitErrDiscards DEF Promise!Next
  <2>5. CASE HeartbeatOk
    <3>1. Held' = Held /\ UNCHANGED <<nextId, acked, lastAcked, dropped_total>>
      BY <2>5, HeldKept DEF HeartbeatOk
    <3>2. ackedDrops' >= ackedDrops /\ ackedDrops' <= dropped_total
      BY <2>5 DEF HeartbeatOk, DropsBounded, IInv, TypeOK
    <3> QED  BY <3>1, <3>2 DEF Promise!Next, Promise!Report, Promise!Learn
  <2>6. CASE UNCHANGED vars
    BY <2>6 DEF vars, Promise!vars, Held
  <2> QED  BY <2>1, <2>2, <2>3, <2>4, <2>5, <2>6 DEF Next
<1> QED  BY <1>1, <1>2, DropsBoundedInvariant, PTL
         DEF Spec, ImplementsDelivery, Promise!Spec

-----------------------------------------------------------------------------
(* The closed forms are the loops.                                         *)

(* The rounds of push can be played up to any number.                      *)
LEMMA PushRoundsExist ==
  ASSUME entries \in Seq(Entry), NEW size
  PROVE  \A n \in 0..Len(entries) :
            \E g : g = [i \in 0..n |->
                          IF i = 0 THEN [queue |-> entries, bytes |-> bytes, lost |-> 0]
                          ELSE PushRound(g[i - 1], size)]
<1> DEFINE start == [queue |-> entries, bytes |-> bytes, lost |-> 0]
           Ok(n) == \E g : g = [i \in 0..n |-> IF i = 0 THEN start
                                               ELSE PushRound(g[i - 1], size)]
           T == {n \in 0..Len(entries) : ~ Ok(n)}
<1> HIDE DEF start
<1>1. SUFFICES ASSUME T # {} PROVE FALSE
  BY DEF start
<1>2. T \subseteq Nat
  <2> HIDE DEF Ok
  <2> QED  OBVIOUS
<1>3. PICK m \in T : \A k \in T : m <= k
  <2> HIDE DEF T
  <2> QED  BY <1>1, <1>2, LeastNat
<1>4. CASE m = 0
  <2> DEFINE g == [i \in 0..0 |-> start]
  <2>1. g = [i \in 0..0 |-> IF i = 0 THEN start ELSE PushRound(g[i - 1], size)]
    OBVIOUS
  <2> QED  BY <2>1, <1>4
<1>5. CASE m # 0
  <2>1. m - 1 \in 0..Len(entries) /\ Ok(m - 1)
    <3> HIDE DEF Ok
    <3> QED  BY <1>3, <1>5
  <2>2. PICK g : g = [i \in 0..(m - 1) |-> IF i = 0 THEN start
                                           ELSE PushRound(g[i - 1], size)]
    BY <2>1
  <2> DEFINE h == [i \in 0..m |-> IF i = m THEN PushRound(g[m - 1], size) ELSE g[i]]
  <2>3. ASSUME NEW i \in 0..m
        PROVE  h[i] = IF i = 0 THEN start ELSE PushRound(h[i - 1], size)
    BY <2>2, <1>5
  <2>4. h = [i \in 0..m |-> IF i = 0 THEN start ELSE PushRound(h[i - 1], size)]
    BY <2>3
  <2> QED  BY <2>4
<1> QED  BY <1>4, <1>5

(* PushRounds satisfies the equation it is defined by.                     *)
LEMMA PushRoundsDef ==
  ASSUME entries \in Seq(Entry), NEW size
  PROVE  /\ PushRounds(size)[0] = [queue |-> entries, bytes |-> bytes, lost |-> 0]
         /\ \A i \in 1..Len(entries) :
               PushRounds(size)[i] = PushRound(PushRounds(size)[i - 1], size)
<1>1. Len(entries) \in 0..Len(entries)
  OBVIOUS
<1>2. \E g : g = [i \in 0..Len(entries) |->
                   IF i = 0 THEN [queue |-> entries, bytes |-> bytes, lost |-> 0]
                   ELSE PushRound(g[i - 1], size)]
  BY <1>1, PushRoundsExist
<1>3. PushRounds(size) = [i \in 0..Len(entries) |->
                   IF i = 0 THEN [queue |-> entries, bytes |-> bytes, lost |-> 0]
                   ELSE PushRound(PushRounds(size)[i - 1], size)]
  BY <1>2, Zenon DEF PushRounds
<1> QED  BY <1>1, <1>3

(* What push holds after k rounds of eviction.                             *)
EvictState(k) ==
    [queue |-> Evict(k), bytes |-> bytes - SumBytes(Evicted(k)), lost |-> k]

(* Before the first round nothing is gone.                                 *)
LEMMA EvictNone ==
  ASSUME entries \in Seq(Entry), bytes \in Nat
  PROVE  EvictState(0) = [queue |-> entries, bytes |-> bytes, lost |-> 0]
<1>1. Protected \in 0..Len(entries)
  BY MinTwo, Limits DEF Protected
<1>2. 0 \in 0..(Len(entries) - Protected)
  BY <1>1
<1>3. Evict(0) = entries
  <2>1. /\ Evict(0) \in Seq(Entry) /\ Len(Evict(0)) = Len(entries) - 0
        /\ \A i \in 1..Len(Evict(0)) :
              Evict(0)[i] = entries[IF i <= Protected THEN i ELSE i + 0]
    BY <1>2, EvictFacts
  <2>2. PICK q \in Seq(Entry) : q = Evict(0)
    BY <2>1
  <2>3. Len(q) = Len(entries) /\ \A i \in 1..Len(q) : q[i] = entries[i]
    BY <1>1, <2>1, <2>2
  <2>4. q = entries
    BY <2>3, SeqEqual
  <2> QED  BY <2>2, <2>4
<1>4. Evicted(0) = << >>
  BY <1>1 DEF Evicted
<1>5. bytes - SumBytes(Evicted(0)) = bytes
  BY <1>4, SumBytesEmpty
<1> QED  BY <1>3, <1>5 DEF EvictState

(* A sequence is what is left of another without the entry after the first *)
(* p.                                                                      *)
Removal(q, p, r) ==
    /\ r \in Seq(Entry) /\ Len(r) = Len(q) - 1
    /\ \A i \in 1..Len(r) : r[i] = q[IF i <= p THEN i ELSE i + 1]

(* Removing an entry joins what is before it and what is after it.         *)
LEMMA RemoveOne ==
  ASSUME NEW q \in Seq(Entry), NEW p \in Nat, p < Len(q), NEW r, Removal(q, p, r)
  PROVE  SubSeq(q, 1, p) \o SubSeq(q, p + 2, Len(q)) = r
<1> DEFINE a == SubSeq(q, 1, p)
           b == SubSeq(q, p + 2, Len(q))
<1>1. /\ a \in Seq(Entry) /\ Len(a) = p
      /\ \A i \in 1..p : a[i] = q[i]
  OBVIOUS
<1>2. /\ b \in Seq(Entry) /\ Len(b) = Len(q) - 1 - p
      /\ \A i \in 1..(Len(q) - 1 - p) : b[i] = q[p + 1 + i]
  OBVIOUS
<1>3. PICK n \in Nat : n = Len(q) /\ p < n
  OBVIOUS
<1> HIDE DEF a, b
<1>4. a \o b \in Seq(Entry) /\ Len(a \o b) = n - 1
  <2>1. a \o b \in Seq(Entry) /\ Len(a \o b) = Len(a) + Len(b)
    BY <1>1, <1>2, ConcatProperties
  <2> QED  BY <1>1, <1>2, <1>3, <2>1
<1>5. r \in Seq(Entry) /\ Len(r) = n - 1
      /\ \A i \in 1..(n - 1) : r[i] = q[IF i <= p THEN i ELSE i + 1]
  BY <1>3 DEF Removal
<1>6. ASSUME NEW i \in 1..(n - 1) PROVE (a \o b)[i] = r[i]
  <2>1. CASE i <= p
    <3>1. (a \o b)[i] = a[i]
      BY <1>1, <1>2, <2>1
    <3> QED  BY <1>1, <1>5, <2>1, <3>1
  <2>2. CASE i > p
    <3>1. i - p \in 1..(n - 1 - p) /\ p + 1 + (i - p) = i + 1
      BY <1>3, <2>2
    <3>2. (a \o b)[i] = b[i - p]
      <4>1. i \in 1..Len(a) + Len(b) /\ ~(i <= Len(a)) /\ Len(a) = p
        BY <1>1, <1>2, <1>3, <2>2
      <4> QED  BY <1>1, <1>2, <4>1, ConcatProperties
    <3>3. b[i - p] = q[i + 1]
      BY <1>2, <1>3, <3>1
    <3> QED  BY <1>5, <2>2, <3>2, <3>3
  <2>3. i <= p \/ i > p
    OBVIOUS
  <2> QED  BY <2>1, <2>2, <2>3
<1>7. a \o b = r
  BY <1>4, <1>5, <1>6, SeqEqual
<1> QED  BY <1>7 DEF a, b

(* The next round of eviction takes the entry just past the reserve.       *)
LEMMA EvictNext ==
  ASSUME entries \in Seq(Entry), NEW k \in Nat, k < Len(entries) - Protected
  PROVE  /\ k \in 0..(Len(entries) - Protected)
         /\ k + 1 \in 0..(Len(entries) - Protected)
         /\ Protected < Len(Evict(k)) /\ Protected \in Nat
         /\ Removal(Evict(k), Protected, Evict(k + 1))
         /\ Evict(k)[Protected + 1] \in Entry
         /\ SumBytes(Evicted(k + 1)) = SumBytes(Evicted(k)) + Evict(k)[Protected + 1].bytes
<1>1. PICK p \in Nat, n \in Nat : p = Protected /\ n = Len(entries) /\ p <= n
  BY MinTwo, Limits DEF Protected
<1>2. k \in 0..(n - p) /\ k + 1 \in 0..(n - p)
  BY <1>1
<1>3. PICK q : q = Evict(k)
  OBVIOUS
<1>4. PICK r : r = Evict(k + 1)
  OBVIOUS
<1>5. /\ q \in Seq(Entry) /\ Len(q) = n - k
      /\ \A i \in 1..(n - k) : q[i] = entries[IF i <= p THEN i ELSE i + k]
  BY <1>1, <1>2, <1>3, EvictFacts
<1>6. /\ r \in Seq(Entry) /\ Len(r) = n - (k + 1)
      /\ \A i \in 1..(n - (k + 1)) : r[i] = entries[IF i <= p THEN i ELSE i + (k + 1)]
  BY <1>1, <1>2, <1>4, EvictFacts
<1>7. Removal(q, p, r)
  <2>1. ASSUME NEW i \in 1..Len(r) PROVE r[i] = q[IF i <= p THEN i ELSE i + 1]
    <3>1. i \in Nat /\ i \in 1..(n - (k + 1)) /\ i \in 1..(n - k) /\ i + 1 \in 1..(n - k)
      BY <1>2, <1>6
    <3>2. CASE i <= p
      BY <1>5, <1>6, <3>1, <3>2
    <3>3. CASE i > p
      <4>1. q[i + 1] = entries[i + 1 + k]
        <5>1. ~(i + 1 <= p)
          BY <1>1, <3>1, <3>3
        <5> QED  BY <1>5, <3>1, <5>1
      <4>2. r[i] = entries[i + (k + 1)]
        BY <1>1, <1>6, <3>1, <3>3
      <4>3. i + 1 + k = i + (k + 1)
        BY <3>1
      <4>4. r[i] = q[i + 1]
        BY <4>1, <4>2, <4>3
      <4> QED  BY <1>1, <3>1, <3>3, <4>4
    <3> QED  BY <1>1, <3>1, <3>2, <3>3
  <2>2. Len(r) = Len(q) - 1
    BY <1>2, <1>5, <1>6
  <2> QED  BY <1>6, <2>1, <2>2 DEF Removal
<1>8. PICK e \in Entry : e = q[p + 1] /\ e = entries[p + (k + 1)]
  <2>1. p + 1 \in 1..(n - k) /\ ~(p + 1 <= p) /\ p + 1 + k = p + (k + 1)
    BY <1>1, <1>2
  <2>2. p + (k + 1) \in 1..Len(entries)
    BY <1>1, <1>2
  <2>3. q[p + 1] = entries[p + 1 + k]
    BY <1>5, <2>1
  <2>4. entries[p + (k + 1)] \in Entry
    BY <2>2
  <2> QED  BY <2>1, <2>3, <2>4
<1>9. PICK x \in Seq(Entry) : /\ x = Evicted(k) /\ Len(x) = k /\ SumBytes(x) \in Nat
                              /\ \A i \in 1..k : x[i] = entries[p + i]
  <2>1. Evicted(k) \in Seq(Entry) /\ SumBytes(Evicted(k)) \in Nat
    BY <1>1, <1>2, EvictFacts
  <2>2. Evicted(k) = SubSeq(entries, p + 1, p + k)
    BY <1>1 DEF Evicted
  <2>3. Len(Evicted(k)) = k /\ \A i \in 1..k : Evicted(k)[i] = entries[p + i]
    BY <1>1, <1>2, <2>2
  <2> QED  BY <2>1, <2>3
<1>10. PICK y \in Seq(Entry) : /\ y = Evicted(k + 1) /\ Len(y) = k + 1
                               /\ \A i \in 1..(k + 1) : y[i] = entries[p + i]
  <2>1. Evicted(k + 1) \in Seq(Entry)
    BY <1>1, <1>2, EvictFacts
  <2>2. Evicted(k + 1) = SubSeq(entries, p + 1, p + (k + 1))
    BY <1>1 DEF Evicted
  <2>3. Len(Evicted(k + 1)) = k + 1
        /\ \A i \in 1..(k + 1) : Evicted(k + 1)[i] = entries[p + i]
    BY <1>1, <1>2, <2>2
  <2> QED  BY <2>1, <2>3
<1>11. y = x \o <<e>>
  <2>1. PICK z : z = x \o <<e>>
    OBVIOUS
  <2>2. z \in Seq(Entry) /\ Len(z) = k + 1 /\ z[k + 1] = e /\ \A i \in 1..k : z[i] = x[i]
    BY <1>8, <1>9, <2>1
  <2>3. ASSUME NEW i \in 1..(k + 1) PROVE y[i] = z[i]
    <3>1. CASE i <= k
      <4>1. i \in 1..k
        BY <3>1
      <4> QED  BY <1>9, <1>10, <2>2, <4>1
    <3>2. CASE i = k + 1
      BY <1>8, <1>10, <2>2, <3>2
    <3> QED  BY <3>1, <3>2
  <2>4. y = z
    BY <1>10, <2>2, <2>3, SeqEqual
  <2> QED  BY <2>1, <2>4
<1>12. SumBytes(y) = SumBytes(x) + e.bytes
  <2>1. <<e>> \in Seq(Entry)
    BY <1>8
  <2>2. SumBytes(<<e>>) = e.bytes
    BY <1>8, SumBytesOne
  <2>3. SumBytes(y) = SumBytes(x) + SumBytes(<<e>>)
    BY <1>9, <1>11, <2>1, SumBytesConcat
  <2> QED  BY <2>2, <2>3
<1>13. p < Len(q)
  BY <1>1, <1>2, <1>5
<1> QED  BY <1>1, <1>2, <1>3, <1>4, <1>7, <1>8, <1>9, <1>10, <1>12, <1>13

(* A round that evicts leads from one such state to the next.              *)
LEMMA EvictOneMore ==
  ASSUME entries \in Seq(Entry), bytes \in Nat, NEW size,
         NEW k \in 0..(Len(entries) - Protected - 1), ~RoomAfter(k, size)
  PROVE  PushRound(EvictState(k), size) = EvictState(k + 1)
<1>1. PICK p \in Nat, n \in Nat : p = Protected /\ n = Len(entries) /\ p <= n
  BY MinTwo, Limits DEF Protected
<1>2. k \in Nat /\ k < Len(entries) - Protected
  BY <1>1
<1>3. p = onset_reserve
  BY <1>1, <1>2, MinTwo, Limits DEF Protected
<1>4. PICK q : q = Evict(k) /\ q \in Seq(Entry) /\ Len(q) = n - k
  BY <1>1, <1>2, EvictNext, EvictFacts
<1>5. PICK x : x = Evicted(k) /\ SumBytes(x) \in Nat
  BY <1>2, EvictNext, EvictFacts
<1>6. PICK e : e = q[p + 1] /\ e \in Entry
  BY <1>1, <1>2, <1>4, EvictNext
<1>7. /\ p < Len(q) /\ Removal(q, p, Evict(k + 1))
      /\ SumBytes(Evicted(k + 1)) = SumBytes(x) + e.bytes
  BY <1>1, <1>2, <1>4, <1>5, <1>6, EvictNext
<1>8. SubSeq(q, 1, p) \o SubSeq(q, p + 2, Len(q)) = Evict(k + 1)
  BY <1>1, <1>4, <1>7, RemoveOne
<1>9. would_exceed(Len(q), bytes - SumBytes(x), size) /\ Len(q) > p
  BY <1>1, <1>4, <1>5, <1>7 DEF RoomAfter
<1>10. e.bytes \in Nat
  BY <1>6, SpoolAssumption DEF Entry
<1>11. bytes - SumBytes(x) - e.bytes = bytes - SumBytes(Evicted(k + 1))
  BY <1>5, <1>7, <1>10
<1>12. PICK s : s = EvictState(k)
  OBVIOUS
<1>13. s.queue = q /\ s.bytes = bytes - SumBytes(x) /\ s.lost = k
  BY <1>4, <1>5, <1>12 DEF EvictState
<1>14. PushRound(s, size) =
          [queue |-> SubSeq(s.queue, 1, onset_reserve)
                       \o SubSeq(s.queue, onset_reserve + 2, Len(s.queue)),
           bytes |-> s.bytes - s.queue[onset_reserve + 1].bytes,
           lost |-> s.lost + 1]
  BY <1>3, <1>9, <1>13 DEF PushRound
<1>15. PushRound(s, size) =
          [queue |-> Evict(k + 1), bytes |-> bytes - SumBytes(Evicted(k + 1)),
           lost |-> k + 1]
  BY <1>3, <1>6, <1>8, <1>11, <1>13, <1>14
<1> QED  BY <1>12, <1>15 DEF EvictState

(* A round after the last changes nothing.                                 *)
LEMMA EvictNoMore ==
  ASSUME entries \in Seq(Entry), NEW size, NEW k \in 0..(Len(entries) - Protected),
         RoomAfter(k, size) \/ k = Len(entries) - Protected
  PROVE  PushRound(EvictState(k), size) = EvictState(k)
<1>1. Len(Evict(k)) = Len(entries) - k /\ Protected <= onset_reserve
      /\ Protected \in 0..Len(entries)
  BY EvictFacts
<1>2. CASE RoomAfter(k, size)
  BY <1>1, <1>2 DEF PushRound, EvictState, RoomAfter
<1>3. CASE k = Len(entries) - Protected
  <2>1. ~(Len(Evict(k)) > onset_reserve)
    BY <1>1, <1>3, Limits
  <2> QED  BY <2>1 DEF PushRound, EvictState
<1> QED  BY <1>2, <1>3

(* push does what AfterPush says.                                          *)
LEMMA PushIsLoop ==
  ASSUME entries \in Seq(Entry), bytes \in Nat, NEW size
  PROVE  AfterPush(size) = push(size)
<1>1. PICK n \in Nat, p \in Nat : n = Len(entries) /\ p = Protected /\ p <= n
  BY MinTwo, Limits DEF Protected
<1>2. PICK m \in 0..(n - p) : /\ m = Evictions(size)
                              /\ RoomAfter(m, size) \/ m = n - p
  BY <1>1, EvictionsFacts
<1>3. ASSUME NEW k \in 0..(m - 1) PROVE ~RoomAfter(k, size)
  <2> DEFINE T == {j \in 0..(n - p) : RoomAfter(j, size)} \union {n - p}
  <2>1. T \subseteq Nat /\ T # {} /\ m = Min(T)
    BY <1>1, <1>2 DEF Evictions
  <2>2. \A j \in T : m <= j
    <3> HIDE DEF T
    <3> QED  BY <2>1, MinNat
  <2>3. k \notin T
    BY <1>2, <2>2
  <2> QED  BY <1>1, <1>2, <2>3
<1> DEFINE f == PushRounds(size)
           T == {i \in 0..n : f[i] # EvictState(IF i <= m THEN i ELSE m)}
<1>4. /\ f[0] = [queue |-> entries, bytes |-> bytes, lost |-> 0]
      /\ \A i \in 1..n : f[i] = PushRound(f[i - 1], size)
  BY <1>1, PushRoundsDef
<1> HIDE DEF f
<1>5. T = {}
  <2>1. SUFFICES ASSUME T # {} PROVE FALSE
    OBVIOUS
  <2>2. T \subseteq Nat
    OBVIOUS
  <2>3. PICK i \in T : \A j \in T : i <= j
    <3> HIDE DEF T
    <3> QED  BY <2>1, <2>2, LeastNat
  <2>4. i # 0
    BY <1>2, <1>4, <2>3, EvictNone
  <2>5. i - 1 \in 0..n /\ i \in 1..n /\ i - 1 \notin T
    <3>1. i - 1 \in 0..n /\ i \in 1..n /\ ~(i <= i - 1)
      BY <2>3, <2>4
    <3> HIDE DEF T
    <3> QED  BY <2>3, <3>1
  <2>6. f[i] = PushRound(f[i - 1], size)
    BY <1>4, <2>5
  <2>7. CASE i <= m
    <3>1. f[i - 1] = EvictState(i - 1)
      BY <1>2, <2>5, <2>7
    <3>2. i - 1 \in 0..(m - 1) /\ i - 1 \in 0..(Len(entries) - Protected - 1)
      BY <1>1, <1>2, <2>5, <2>7
    <3>3. PICK k \in 0..(Len(entries) - Protected - 1) : k = i - 1
      BY <3>2
    <3>4. ~RoomAfter(k, size)
      BY <1>3, <3>2, <3>3
    <3>5. PushRound(EvictState(k), size) = EvictState(k + 1) /\ k + 1 = i
      BY <2>5, <3>3, <3>4, EvictOneMore
    <3>6. f[i] = EvictState(i)
      BY <2>6, <3>1, <3>3, <3>5
    <3> QED  BY <2>3, <2>7, <3>6
  <2>8. CASE i > m
    <3>1. f[i - 1] = EvictState(m)
      <4>1. CASE i - 1 = m
        BY <2>5, <4>1
      <4>2. CASE i - 1 > m
        BY <1>2, <2>5, <4>2
      <4> QED  BY <1>2, <2>5, <2>8, <4>1, <4>2
    <3>2. PushRound(EvictState(m), size) = EvictState(m)
      <4>1. m \in 0..(Len(entries) - Protected)
        BY <1>1, <1>2
      <4> QED  BY <1>1, <1>2, <4>1, EvictNoMore
    <3>3. f[i] = EvictState(m) /\ ~(i <= m)
      BY <1>2, <2>5, <2>6, <2>8, <3>1, <3>2
    <3> QED  BY <2>3, <3>3
  <2> QED  BY <1>2, <2>5, <2>7, <2>8
<1>6. f[n] = EvictState(m)
  <2>1. n \in 0..n /\ n \notin T
    BY <1>5
  <2>2. f[n] = EvictState(IF n <= m THEN n ELSE m)
    BY <2>1
  <2>3. n <= m => n = m
    BY <1>1, <1>2
  <2> QED  BY <2>2, <2>3
<1>7. Len(Evict(m)) = n - m
  BY <1>1, <1>2, EvictFacts
<1>8. PICK s : s = f[n] /\ s = EvictState(m)
  BY <1>6
<1>9. s.queue = Evict(m) /\ s.bytes = bytes - SumBytes(Evicted(m)) /\ s.lost = m
  BY <1>8 DEF EvictState
<1>10. would_exceed(Len(s.queue), s.bytes, size) <=> ~RoomAfter(m, size)
  BY <1>1, <1>7, <1>9 DEF RoomAfter
<1>11. push(size) =
          IF would_exceed(Len(s.queue), s.bytes, size)
          THEN [queue |-> s.queue, bytes |-> s.bytes, lost |-> s.lost + 1]
          ELSE [queue |-> Append(s.queue, [id |-> nextId, bytes |-> size]),
                bytes |-> s.bytes + size, lost |-> s.lost]
  BY <1>1, <1>8 DEF push, f
<1>12. AfterPush(size) =
          IF RoomAfter(m, size)
          THEN [queue |-> Append(Evict(m), [id |-> nextId, bytes |-> size]),
                bytes |-> bytes - SumBytes(Evicted(m)) + size, lost |-> m]
          ELSE [queue |-> Evict(m), bytes |-> bytes - SumBytes(Evicted(m)),
                lost |-> m + 1]
  BY <1>2 DEF AfterPush
<1> QED  BY <1>9, <1>10, <1>11, <1>12

(* The rounds of return_unsent can be played up to any number.             *)
LEMMA ReturnRoundsExist ==
  ASSUME entries \in Seq(Entry), batch \in Seq(Entry)
  PROVE  \A n \in 0..(Len(batch) + Len(entries)) :
            \E g : g = [i \in 0..n |->
              IF i = 0
              THEN [left |-> Len(batch), queue |-> entries, bytes |-> bytes, lost |-> 0]
              ELSE ReturnRound(g[i - 1])]
<1> DEFINE start == [left |-> Len(batch), queue |-> entries, bytes |-> bytes, lost |-> 0]
           Ok(n) == \E g : g = [i \in 0..n |-> IF i = 0 THEN start
                                               ELSE ReturnRound(g[i - 1])]
           T == {n \in 0..(Len(batch) + Len(entries)) : ~ Ok(n)}
<1> HIDE DEF start
<1>1. SUFFICES ASSUME T # {} PROVE FALSE
  BY DEF start
<1>2. T \subseteq Nat
  <2> HIDE DEF Ok
  <2> QED  OBVIOUS
<1>3. PICK m \in T : \A k \in T : m <= k
  <2> HIDE DEF T
  <2> QED  BY <1>1, <1>2, LeastNat
<1>4. CASE m = 0
  <2> DEFINE g == [i \in 0..0 |-> start]
  <2>1. g = [i \in 0..0 |-> IF i = 0 THEN start ELSE ReturnRound(g[i - 1])]
    OBVIOUS
  <2> QED  BY <2>1, <1>4
<1>5. CASE m # 0
  <2>1. m - 1 \in 0..(Len(batch) + Len(entries)) /\ Ok(m - 1)
    <3> HIDE DEF Ok
    <3> QED  BY <1>3, <1>5
  <2>2. PICK g : g = [i \in 0..(m - 1) |-> IF i = 0 THEN start
                                           ELSE ReturnRound(g[i - 1])]
    BY <2>1
  <2> DEFINE h == [i \in 0..m |-> IF i = m THEN ReturnRound(g[m - 1]) ELSE g[i]]
  <2>3. ASSUME NEW i \in 0..m
        PROVE  h[i] = IF i = 0 THEN start ELSE ReturnRound(h[i - 1])
    BY <2>2, <1>5
  <2>4. h = [i \in 0..m |-> IF i = 0 THEN start ELSE ReturnRound(h[i - 1])]
    BY <2>3
  <2> QED  BY <2>4
<1> QED  BY <1>4, <1>5

(* What return_unsent holds when j items are left and k entries stay.      *)
Behind(j, k) == SubSeq(batch, j + 1, Len(batch)) \o SubSeq(entries, 1, k)

ReturnState(j, k) ==
    [left |-> j, queue |-> Behind(j, k), bytes |-> SumBytes(Behind(j, k)),
     lost |-> Len(entries) - k]

(* ReturnRounds satisfies the equation it is defined by.                   *)
LEMMA ReturnRoundsDef ==
  ASSUME entries \in Seq(Entry), batch \in Seq(Entry), NEW N, N = Len(batch) + Len(entries)
  PROVE  /\ ReturnRounds[0] =
              [left |-> Len(batch), queue |-> entries, bytes |-> bytes, lost |-> 0]
         /\ \A i \in 1..N : ReturnRounds[i] = ReturnRound(ReturnRounds[i - 1])
<1>1. N \in Nat /\ N \in 0..(Len(batch) + Len(entries))
  OBVIOUS
<1>2. \E g : g = [i \in 0..(Len(batch) + Len(entries)) |->
            IF i = 0
            THEN [left |-> Len(batch), queue |-> entries, bytes |-> bytes, lost |-> 0]
            ELSE ReturnRound(g[i - 1])]
  <2>1. Len(batch) + Len(entries) \in 0..(Len(batch) + Len(entries))
    OBVIOUS
  <2> QED  BY <2>1, ReturnRoundsExist
<1>3. ReturnRounds = [i \in 0..(Len(batch) + Len(entries)) |->
            IF i = 0
            THEN [left |-> Len(batch), queue |-> entries, bytes |-> bytes, lost |-> 0]
            ELSE ReturnRound(ReturnRounds[i - 1])]
  BY <1>2, Zenon DEF ReturnRounds
<1> QED  BY <1>1, <1>3

(* What is behind: its length, its size, its last entry.                   *)
LEMMA BehindFacts ==
  ASSUME entries \in Seq(Entry), batch \in Seq(Entry),
         NEW j \in 0..Len(batch), NEW k \in 0..Len(entries)
  PROVE  /\ Behind(j, k) \in Seq(Entry)
         /\ Len(Behind(j, k)) = Len(batch) - j + k
         /\ SumBytes(Behind(j, k)) \in Nat
         /\ SumBytes(Behind(j, k)) = SumBytes(SubSeq(batch, j + 1, Len(batch)))
                                       + SumBytes(SubSeq(entries, 1, k))
         /\ SumBytes(SubSeq(batch, j + 1, Len(batch))) \in Nat
         /\ SumBytes(SubSeq(entries, 1, k)) \in Nat
<1>1. /\ SubSeq(batch, j + 1, Len(batch)) \in Seq(Entry)
      /\ Len(SubSeq(batch, j + 1, Len(batch))) = Len(batch) - j
  OBVIOUS
<1>2. SubSeq(entries, 1, k) \in Seq(Entry) /\ Len(SubSeq(entries, 1, k)) = k
  OBVIOUS
<1> DEFINE a == SubSeq(batch, j + 1, Len(batch))
           b == SubSeq(entries, 1, k)
<1> HIDE DEF a, b
<1>3. a \in Seq(Entry) /\ Len(a) = Len(batch) - j /\ b \in Seq(Entry) /\ Len(b) = k
  BY <1>1, <1>2 DEF a, b
<1>4. a \o b \in Seq(Entry) /\ Len(a \o b) = Len(a) + Len(b)
  BY <1>3, ConcatProperties
<1>5. SumBytes(a \o b) = SumBytes(a) + SumBytes(b)
  BY <1>3, SumBytesConcat
<1>6. SumBytes(a) \in Nat /\ SumBytes(b) \in Nat
  BY <1>3, SumBytesType
<1>7. SumBytes(a \o b) \in Nat
  BY <1>5, <1>6
<1>8. Len(a \o b) = Len(batch) - j + k
  BY <1>3, <1>4
<1>9. Behind(j, k) = a \o b
  BY DEF Behind, a, b
<1> QED  BY <1>4, <1>5, <1>6, <1>7, <1>8, <1>9, Zenon DEF a, b

(* Putting one more item in front.                                         *)
LEMMA BehindFront ==
  ASSUME entries \in Seq(Entry), batch \in Seq(Entry),
         NEW j \in 1..Len(batch), NEW k \in 0..Len(entries)
  PROVE  /\ batch[j] \in Entry
         /\ Behind(j - 1, k) = <<batch[j]>> \o Behind(j, k)
         /\ SumBytes(Behind(j - 1, k)) = SumBytes(Behind(j, k)) + batch[j].bytes
<1>1. PICK m \in Nat : m = Len(batch) /\ j \in 1..m
  OBVIOUS
<1>2. PICK a : a = SubSeq(batch, j + 1, Len(batch))
  OBVIOUS
<1>3. a \in Seq(Entry) /\ Len(a) = m - j /\ \A i \in 1..(m - j) : a[i] = batch[j + i]
  BY <1>1, <1>2
<1>4. PICK c : c = SubSeq(batch, (j - 1) + 1, Len(batch))
  OBVIOUS
<1>5. /\ c \in Seq(Entry) /\ Len(c) = m - j + 1
      /\ \A i \in 1..(m - j + 1) : c[i] = batch[j - 1 + i]
  BY <1>1, <1>4
<1>6. PICK e \in Entry : e = batch[j]
  BY <1>1
<1>7. PICK d : d = <<e>> \o a
  OBVIOUS
<1>8. /\ d \in Seq(Entry) /\ Len(d) = m - j + 1 /\ d[1] = e
      /\ \A i \in 2..(m - j + 1) : d[i] = a[i - 1]
  <2>1. <<e>> \in Seq(Entry) /\ Len(<<e>>) = 1 /\ <<e>>[1] = e
    OBVIOUS
  <2>2. /\ d \in Seq(Entry) /\ Len(d) = 1 + (m - j)
        /\ \A i \in 1..(1 + (m - j)) : d[i] = IF i <= 1 THEN <<e>>[i] ELSE a[i - 1]
    <3>1. PICK f \in Seq(Entry) : f = <<e>>
      BY <2>1
    <3>2. Len(f) = 1 /\ d = f \o a /\ Len(f) + Len(a) = 1 + (m - j)
      BY <1>3, <1>7, <2>1, <3>1
    <3>3. /\ f \o a \in Seq(Entry) /\ Len(f \o a) = Len(f) + Len(a)
          /\ \A i \in 1..(Len(f) + Len(a)) :
                (f \o a)[i] = IF i <= Len(f) THEN f[i] ELSE a[i - Len(f)]
      BY <1>3, ConcatProperties
    <3> QED  BY <3>1, <3>2, <3>3
  <2>3. 1 + (m - j) = m - j + 1 /\ 1 \in 1..(1 + (m - j))
    BY <1>1
  <2>4. \A i \in 2..(m - j + 1) : i \in 1..(1 + (m - j)) /\ ~(i <= 1)
    BY <1>1
  <2> QED  BY <2>1, <2>2, <2>3, <2>4
<1>9. c = d
  <2>1. ASSUME NEW i \in 1..(m - j + 1) PROVE c[i] = d[i]
    <3>1. CASE i = 1
      <4>1. j - 1 + 1 = j
        BY <1>1
      <4> QED  BY <1>5, <1>6, <1>8, <3>1, <4>1
    <3>2. CASE i # 1
      <4>1. i \in 2..(m - j + 1) /\ i - 1 \in 1..(m - j) /\ j - 1 + i = j + (i - 1)
        BY <1>1, <3>2
      <4>2. d[i] = a[i - 1]
        BY <1>8, <4>1
      <4>3. a[i - 1] = batch[j + (i - 1)]
        BY <1>3, <4>1
      <4>4. c[i] = batch[j - 1 + i]
        BY <1>5
      <4> QED  BY <4>1, <4>2, <4>3, <4>4
    <3> QED  BY <3>1, <3>2
  <2> QED  BY <1>5, <1>8, <2>1, SeqEqual
<1>10. PICK b \in Seq(Entry) : b = SubSeq(entries, 1, k)
  BY Cut
<1>11. (<<e>> \o a) \o b = <<e>> \o (a \o b)
  BY <1>3
<1>12. Behind(j - 1, k) = <<e>> \o Behind(j, k)
  BY <1>2, <1>4, <1>7, <1>9, <1>10, <1>11 DEF Behind
<1>13. j \in 0..Len(batch) /\ Behind(j, k) \in Seq(Entry) /\ SumBytes(Behind(j, k)) \in Nat
  BY <1>1, BehindFacts
<1>14. SumBytes(<<e>> \o Behind(j, k)) = SumBytes(<<e>>) + SumBytes(Behind(j, k))
  <2>1. <<e>> \in Seq(Entry)
    OBVIOUS
  <2> QED  BY <1>13, <2>1, SumBytesConcat
<1>15. SumBytes(<<e>>) = e.bytes /\ e.bytes \in Nat
  BY SumBytesOne, SpoolAssumption DEF Entry
<1>16. PICK x \in Nat : x = SumBytes(Behind(j, k))
  BY <1>13
<1>17. SumBytes(Behind(j - 1, k)) = x + e.bytes
  <2>1. SumBytes(<<e>>) + x = x + e.bytes
    BY <1>15
  <2> QED  BY <1>12, <1>14, <1>16, <2>1, Zenon
<1> QED  BY <1>6, <1>12, <1>16, <1>17, Zenon

(* Removing the entry at the back.                                         *)
LEMMA BehindBack ==
  ASSUME entries \in Seq(Entry), batch \in Seq(Entry),
         NEW j \in 0..Len(batch), NEW k \in 1..Len(entries)
  PROVE  LET q == Behind(j, k)
         IN  /\ SubSeq(q, 1, Len(q) - 1) = Behind(j, k - 1)
             /\ SumBytes(q) - q[Len(q)].bytes = SumBytes(Behind(j, k - 1))
             /\ q # << >>
<1>1. PICK n \in Nat, m \in Nat :
          n = Len(entries) /\ k \in 1..n /\ m = Len(batch) - j
  OBVIOUS
<1>2. PICK a \in Seq(Entry) : a = SubSeq(batch, j + 1, Len(batch)) /\ Len(a) = m
  BY <1>1, Cut
<1>3. PICK b : b = SubSeq(entries, 1, k)
  OBVIOUS
<1>4. b \in Seq(Entry) /\ Len(b) = k /\ \A i \in 1..k : b[i] = entries[i]
  BY <1>1, <1>3
<1>5. PICK c : c = SubSeq(entries, 1, k - 1)
  OBVIOUS
<1>6. c \in Seq(Entry) /\ Len(c) = k - 1 /\ \A i \in 1..(k - 1) : c[i] = entries[i]
  BY <1>1, <1>5
<1>7. PICK e \in Entry : e = entries[k]
  BY <1>1
<1>8. b = c \o <<e>>
  <2>1. PICK d : d = c \o <<e>>
    OBVIOUS
  <2>2. d \in Seq(Entry) /\ Len(d) = k /\ d[k] = e /\ \A i \in 1..(k - 1) : d[i] = c[i]
    BY <1>1, <1>6, <2>1
  <2>3. ASSUME NEW i \in 1..k PROVE b[i] = d[i]
    <3>1. CASE i = k
      BY <1>4, <1>7, <2>2, <3>1
    <3>2. CASE i # k
      <4>1. i \in 1..(k - 1)
        BY <1>1, <3>2
      <4> QED  BY <1>4, <1>6, <2>2, <4>1
    <3> QED  BY <3>1, <3>2
  <2>4. b = d
    BY <1>4, <2>2, <2>3, SeqEqual
  <2> QED  BY <2>1, <2>4
<1>9. PICK q : q = Behind(j, k)
  OBVIOUS
<1>10. PICK r : r = Behind(j, k - 1)
  OBVIOUS
<1>11. r \in Seq(Entry) /\ Len(r) = m + (k - 1) /\ SumBytes(r) \in Nat
  <2>1. k - 1 \in 0..Len(entries)
    BY <1>1
  <2> QED  BY <1>1, <1>10, <2>1, BehindFacts
<1>12. q = r \o <<e>>
  <2>1. q = a \o (c \o <<e>>) /\ r = a \o c
    BY <1>2, <1>3, <1>5, <1>8, <1>9, <1>10 DEF Behind
  <2>2. a \o (c \o <<e>>) = (a \o c) \o <<e>>
    BY <1>6
  <2> QED  BY <2>1, <2>2
<1>13. PICK l \in Nat : l = Len(r)
  BY <1>11
<1>14. /\ q \in Seq(Entry) /\ Len(q) = l + 1 /\ q[l + 1] = e
       /\ \A i \in 1..l : q[i] = r[i]
  <2>1. <<e>> \in Seq(Entry) /\ Len(<<e>>) = 1 /\ <<e>>[1] = e
    OBVIOUS
  <2>2. /\ q \in Seq(Entry) /\ Len(q) = l + 1
        /\ \A i \in 1..(l + 1) : q[i] = IF i <= l THEN r[i] ELSE <<e>>[i - l]
    BY <1>11, <1>12, <1>13, <2>1, ConcatProperties
  <2>3. l + 1 \in 1..(l + 1) /\ ~(l + 1 <= l) /\ l + 1 - l = 1
        /\ \A i \in 1..l : i \in 1..(l + 1) /\ i <= l
    OBVIOUS
  <2>4. q[l + 1] = e
    BY <2>1, <2>2, <2>3
  <2> QED  BY <2>2, <2>3, <2>4
<1>15. SubSeq(q, 1, Len(q) - 1) = r
  <2>1. PICK s : s = SubSeq(q, 1, Len(q) - 1)
    OBVIOUS
  <2>2. s \in Seq(Entry) /\ Len(s) = l /\ \A i \in 1..l : s[i] = q[i]
    BY <1>14, <2>1
  <2>3. s = r
    BY <1>11, <1>13, <1>14, <2>2, SeqEqual
  <2> QED  BY <2>1, <2>3
<1>16. SumBytes(q) = SumBytes(r) + e.bytes
  <2>1. <<e>> \in Seq(Entry) /\ SumBytes(<<e>>) = e.bytes
    BY SumBytesOne
  <2> QED  BY <1>11, <1>12, <2>1, SumBytesConcat
<1>17. e.bytes \in Nat /\ q[Len(q)] = e /\ q # << >>
  <2>1. e.bytes \in Nat
    BY <1>7, SpoolAssumption DEF Entry
  <2>2. q # << >>
    BY <1>13, <1>14
  <2> QED  BY <1>14, <2>1, <2>2
<1>18. SumBytes(q) - q[Len(q)].bytes = SumBytes(r)
  BY <1>11, <1>16, <1>17
<1> QED  BY <1>9, <1>10, <1>15, <1>17, <1>18

(* What the loop can hold: no less of the queue stays than in the end, and *)
(* once every item is back, the whole fits.                                *)
Ready(j, k) ==
    /\ j \in 0..Len(batch) /\ k \in Kept..Len(entries)
    /\ j = 0 => Len(Behind(j, k)) <= max_entries /\ SumBytes(Behind(j, k)) <= max_bytes

(* Behind the whole batch is the queue that AfterReturn leaves.            *)
LEMMA BehindAll ==
  ASSUME TypeOK, Bounded, BatchFits
  PROVE  /\ Behind(0, Kept) = AfterReturn.queue
         /\ Kept \in 0..Len(entries)
         /\ Len(Behind(0, Kept)) <= max_entries
         /\ SumBytes(Behind(0, Kept)) <= max_bytes
         /\ AfterReturn.bytes = SumBytes(Behind(0, Kept))
         /\ AfterReturn.lost = Len(entries) - Kept
<1>1. SubSeq(batch, 0 + 1, Len(batch)) = batch
  <2>1. batch \in Seq(Entry)
    BY DEF TypeOK
  <2> QED  BY <2>1
<1>2. Behind(0, Kept) = AfterReturn.queue
  BY <1>1, ReturnFacts DEF Behind
<1>3. AfterReturn.bytes = SumBytes(AfterReturn.queue) /\ AfterReturn.bytes <= max_bytes
  BY ReturnFacts
<1>4. Len(AfterReturn.queue) <= max_entries /\ AfterReturn.lost = Len(entries) - Kept
      /\ Kept \in 0..Len(entries)
  BY ReturnFacts
<1> QED  BY <1>2, <1>3, <1>4

(* The more items are back, the larger is what is behind them.             *)
LEMMA BehindGrows ==
  ASSUME entries \in Seq(Entry), batch \in Seq(Entry),
         NEW j \in 0..Len(batch), NEW k \in 0..Len(entries)
  PROVE  /\ Len(Behind(j, k)) <= Len(Behind(0, k))
         /\ SumBytes(Behind(j, k)) <= SumBytes(Behind(0, k))
<1>1. 0 \in 0..Len(batch) /\ Len(batch) \in Nat
  OBVIOUS
<1>2. PICK x \in Nat : x = SumBytes(SubSeq(batch, j + 1, Len(batch)))
  BY BehindFacts
<1>3. PICK y \in Nat : y = SumBytes(SubSeq(entries, 1, k))
  BY BehindFacts
<1>4. PICK z \in Nat : z = SumBytes(SubSeq(batch, 1, j)) /\ SumBytes(batch) = z + x
  BY <1>2, Cut
<1>5. SubSeq(batch, 0 + 1, Len(batch)) = batch
  OBVIOUS
<1>6. SumBytes(Behind(0, k)) = (z + x) + y
  BY <1>1, <1>3, <1>4, <1>5, BehindFacts
<1>7. SumBytes(Behind(j, k)) = x + y
  BY <1>2, <1>3, BehindFacts
<1>8. x + y <= (z + x) + y
  OBVIOUS
<1>9. Len(Behind(j, k)) = Len(batch) - j + k /\ Len(Behind(0, k)) = Len(batch) - 0 + k
  BY <1>1, BehindFacts
<1>10. Len(batch) - j + k <= Len(batch) - 0 + k
  BY <1>1
<1> QED  BY <1>6, <1>7, <1>8, <1>9, <1>10

(* A round puts an item back or discards one entry.                        *)
LEMMA ReturnStep ==
  ASSUME TypeOK, Bounded, BatchFits, NEW j \in Nat, NEW k \in Nat, Ready(j, k), j # 0
  PROVE  \/ /\ Ready(j - 1, k)
            /\ ReturnRound(ReturnState(j, k)) = ReturnState(j - 1, k)
         \/ /\ k > 0 /\ Ready(j, k - 1)
            /\ ReturnRound(ReturnState(j, k)) = ReturnState(j, k - 1)
<1>1. entries \in Seq(Entry) /\ batch \in Seq(Entry)
  BY DEF TypeOK
<1>2. PICK m \in Nat, n \in Nat, l \in Nat :
          m = Len(batch) /\ n = Len(entries) /\ l = Kept
  BY <1>1, BehindAll
<1>3. /\ j \in 1..Len(batch) /\ j \in 0..Len(batch) /\ k \in 0..Len(entries)
      /\ l <= k /\ k <= n /\ j <= m
  BY <1>2 DEF Ready
<1>4. PICK q : q = Behind(j, k)
  OBVIOUS
<1>5. PICK r : r = Behind(j - 1, k)
  OBVIOUS
<1>6. PICK e \in Entry : e = batch[j] /\ e.bytes \in Nat
  BY <1>1, <1>3, BehindFront, SpoolAssumption DEF Entry
<1>7. /\ q \in Seq(Entry) /\ Len(q) = m - j + k /\ SumBytes(q) \in Nat
      /\ r = <<e>> \o q /\ SumBytes(r) = SumBytes(q) + e.bytes
  BY <1>1, <1>2, <1>3, <1>4, <1>5, <1>6, BehindFacts, BehindFront
<1>8. Len(r) = Len(q) + 1
  <2>1. j - 1 \in 0..Len(batch)
    BY <1>2, <1>3
  <2>2. Len(r) = m - (j - 1) + k
    BY <1>1, <1>2, <1>3, <1>5, <2>1, BehindFacts
  <2> QED  BY <1>2, <1>7, <2>2
<1>9. PICK s : s = ReturnState(j, k)
  OBVIOUS
<1>10. s.left = j /\ s.queue = q /\ s.bytes = SumBytes(q) /\ s.lost = n - k
  BY <1>2, <1>4, <1>9 DEF ReturnState
<1>11. would_exceed(Len(q), SumBytes(q), e.bytes)
         <=> ~(Len(r) <= max_entries /\ SumBytes(r) <= max_bytes)
  <2>0. Len(q) \in Nat
    BY <1>7
  <2>1. PICK x \in Nat, y \in Nat, z \in Nat :
            x = Len(q) /\ y = SumBytes(q) /\ z = e.bytes
    BY <1>6, <1>7, <2>0, Zenon
  <2>2. Len(r) = x + 1 /\ SumBytes(r) = y + z
    BY <1>7, <1>8, <2>1
  <2>3. PICK M \in Nat, B \in Nat : M = max_entries /\ B = max_bytes
    BY Limits
  <2>4. (x >= M \/ y + z > B) <=> ~(x + 1 <= M /\ y + z <= B)
    OBVIOUS
  <2> QED  BY <2>1, <2>2, <2>3, <2>4 DEF would_exceed
<1>12. CASE would_exceed(Len(q), SumBytes(q), e.bytes)
  <2>1. k # l
    <3>1. SUFFICES ASSUME k = l PROVE FALSE
      OBVIOUS
    <3>2. j - 1 \in 0..Len(batch)
      BY <1>2, <1>3
    <3>3. Len(r) <= Len(Behind(0, k)) /\ SumBytes(r) <= SumBytes(Behind(0, k))
      BY <1>1, <1>3, <1>5, <3>2, BehindGrows
    <3>4. Len(Behind(0, k)) <= max_entries /\ SumBytes(Behind(0, k)) <= max_bytes
      BY <1>2, <3>1, BehindAll
    <3>5. 0 \in 0..Len(batch)
      BY <1>2
    <3>6. Len(Behind(0, k)) \in Nat /\ SumBytes(Behind(0, k)) \in Nat
      BY <1>1, <1>3, <3>5, BehindFacts
    <3>7. Len(r) <= max_entries /\ SumBytes(r) <= max_bytes
      <4>1. Len(r) \in Nat /\ SumBytes(r) \in Nat
        BY <1>6, <1>7, <1>8
      <4> QED  BY <3>3, <3>4, <3>6, <4>1, Limits
    <3> QED  BY <1>11, <1>12, <3>7
  <2>2. k > 0 /\ k \in 1..Len(entries) /\ k - 1 \in Kept..Len(entries)
    BY <1>2, <1>3, <2>1
  <2>3. /\ SubSeq(q, 1, Len(q) - 1) = Behind(j, k - 1) /\ q # << >>
        /\ SumBytes(q) - q[Len(q)].bytes = SumBytes(Behind(j, k - 1))
    BY <1>1, <1>3, <1>4, <2>2, BehindBack
  <2>4. ReturnRound(s) =
          [left |-> s.left, queue |-> SubSeq(s.queue, 1, Len(s.queue) - 1),
           bytes |-> s.bytes - s.queue[Len(s.queue)].bytes, lost |-> s.lost + 1]
    BY <1>6, <1>10, <1>12, <2>3 DEF ReturnRound
  <2>5. n - k + 1 = n - (k - 1)
    BY <1>2
  <2>6. ReturnRound(s) = ReturnState(j, k - 1)
    BY <1>2, <1>10, <2>3, <2>4, <2>5 DEF ReturnState
  <2>7. Ready(j, k - 1)
    BY <1>3, <2>2 DEF Ready
  <2> QED  BY <1>9, <2>2, <2>6, <2>7
<1>13. CASE ~would_exceed(Len(q), SumBytes(q), e.bytes)
  <2>1. ReturnRound(s) =
          [left |-> s.left - 1, queue |-> <<batch[s.left]>> \o s.queue,
           bytes |-> s.bytes + batch[s.left].bytes, lost |-> s.lost]
    BY <1>6, <1>10, <1>13 DEF ReturnRound
  <2>2. ReturnRound(s) = ReturnState(j - 1, k)
    BY <1>2, <1>5, <1>6, <1>7, <1>10, <2>1 DEF ReturnState
  <2>3. j - 1 \in 0..Len(batch) /\ k \in Kept..Len(entries)
    BY <1>2, <1>3
  <2>4. Ready(j - 1, k)
    BY <1>5, <1>11, <1>13, <2>3 DEF Ready
  <2> QED  BY <1>9, <2>2, <2>4
<1> QED  BY <1>12, <1>13

(* What the rounds have reached: they end before the last.                 *)
Reached(s, i) ==
    \E j \in Nat, k \in Nat :
        /\ Ready(j, k) /\ s = ReturnState(j, k)
        /\ j = 0 \/ j + k + i = Len(batch) + Len(entries)

(* return_unsent does what AfterReturn says.                               *)
LEMMA ReturnIsLoop ==
  ASSUME TypeOK, Bounded, BatchFits, batch # << >>
  PROVE  AfterReturn = return_unsent
<1>1. entries \in Seq(Entry) /\ batch \in Seq(Entry) /\ bytes = SumBytes(entries)
  BY DEF TypeOK, Bounded
<1>2. PICK m \in Nat, n \in Nat, N \in Nat :
          m = Len(batch) /\ n = Len(entries) /\ N = m + n /\ m # 0
  BY <1>1
<1> DEFINE f == ReturnRounds
           T == {i \in 0..N : ~ Reached(f[i], i)}
<1>3. /\ f[0] = [left |-> Len(batch), queue |-> entries, bytes |-> bytes, lost |-> 0]
      /\ \A i \in 1..N : f[i] = ReturnRound(f[i - 1])
  BY <1>1, <1>2, ReturnRoundsDef
<1> HIDE DEF f
<1>4. Reached(f[0], 0)
  <2>1. Behind(m, n) = entries
    <3>1. SubSeq(batch, m + 1, Len(batch)) = << >> /\ SubSeq(entries, 1, n) = entries
      BY <1>1, <1>2
    <3>2. << >> \o entries = entries
      BY <1>1
    <3> QED  BY <3>1, <3>2 DEF Behind
  <2>2. Kept \in 0..n
    BY <1>2, BehindAll
  <2>3. Ready(m, n)
    BY <1>2, <2>2 DEF Ready
  <2>4. f[0] = ReturnState(m, n)
    BY <1>1, <1>2, <1>3, <2>1 DEF ReturnState
  <2>5. m + n + 0 = Len(batch) + Len(entries)
    BY <1>2
  <2> QED  BY <2>3, <2>4, <2>5 DEF Reached
<1>5. ASSUME NEW i \in 1..N, Reached(f[i - 1], i - 1) PROVE Reached(f[i], i)
  <2>1. PICK j \in Nat, k \in Nat :
            /\ Ready(j, k) /\ f[i - 1] = ReturnState(j, k)
            /\ j = 0 \/ j + k + (i - 1) = Len(batch) + Len(entries)
    BY <1>5 DEF Reached
  <2>2. f[i] = ReturnRound(ReturnState(j, k))
    BY <1>3, <2>1
  <2>3. CASE j = 0
    <3>1. ReturnRound(ReturnState(j, k)) = ReturnState(j, k)
      BY <2>3 DEF ReturnRound, ReturnState
    <3> QED  BY <2>1, <2>2, <2>3, <3>1 DEF Reached
  <2>4. CASE j # 0 /\ Ready(j - 1, k) /\ ReturnRound(ReturnState(j, k)) = ReturnState(j - 1, k)
    <3>1. j - 1 \in Nat /\ j - 1 + k + i = Len(batch) + Len(entries)
      BY <1>2, <2>1, <2>4
    <3> QED  BY <2>2, <2>4, <3>1 DEF Reached
  <2>5. CASE /\ j # 0 /\ k > 0 /\ Ready(j, k - 1)
             /\ ReturnRound(ReturnState(j, k)) = ReturnState(j, k - 1)
    <3>1. k - 1 \in Nat /\ j + (k - 1) + i = Len(batch) + Len(entries)
      BY <1>2, <2>1, <2>5
    <3> QED  BY <2>2, <2>5, <3>1 DEF Reached
  <2> QED  BY <2>1, <2>3, <2>4, <2>5, ReturnStep
<1>6. T = {}
  <2>1. SUFFICES ASSUME T # {} PROVE FALSE
    OBVIOUS
  <2>2. T \subseteq Nat
    OBVIOUS
  <2>3. PICK i \in T : \A j \in T : i <= j
    <3> HIDE DEF T
    <3> QED  BY <2>1, <2>2, LeastNat
  <2>4. i # 0
    BY <1>4, <2>3
  <2>5. i \in 1..N /\ i - 1 \in 0..N /\ ~(i <= i - 1)
    BY <2>3, <2>4
  <2>6. i - 1 \notin T
    <3> HIDE DEF T
    <3> QED  BY <2>3, <2>5
  <2>7. Reached(f[i - 1], i - 1)
    BY <2>5, <2>6
  <2> QED  BY <1>5, <2>3, <2>5, <2>7
<1>7. Reached(f[N], N)
  BY <1>2, <1>6
<1>8. PICK k \in Nat : Ready(0, k) /\ f[N] = ReturnState(0, k)
  <2>1. PICK j \in Nat, k \in Nat :
            /\ Ready(j, k) /\ f[N] = ReturnState(j, k)
            /\ j = 0 \/ j + k + N = Len(batch) + Len(entries)
    BY <1>7 DEF Reached
  <2>2. j = 0
    BY <1>2, <2>1
  <2> QED  BY <2>1, <2>2
<1>9. PICK l \in Nat : l = Kept /\ l <= k /\ k <= n /\ l <= n
  BY <1>2, <1>8, BehindAll DEF Ready
<1>10. FitsBehind(k)
  <2>1. 0 \in 0..Len(batch) /\ k \in 0..Len(entries)
    BY <1>2, <1>9
  <2>2. PICK x \in Nat, y \in Nat : /\ x = SumBytes(SubSeq(entries, 1, k))
                                    /\ y = SumBytes(SubSeq(entries, k + 1, Len(entries)))
                                    /\ bytes = x + y
    <3>1. PICK i \in 0..Len(entries) : i = k
      BY <2>1
    <3>2. /\ SumBytes(entries) = SumBytes(SubSeq(entries, 1, i))
                                   + SumBytes(SubSeq(entries, i + 1, Len(entries)))
          /\ SumBytes(SubSeq(entries, 1, i)) \in Nat
          /\ SumBytes(SubSeq(entries, i + 1, Len(entries))) \in Nat
      BY <1>1, Cut
    <3> QED  BY <1>1, <3>1, <3>2, Zenon
  <2>3. SubSeq(batch, 0 + 1, Len(batch)) = batch
    BY <1>1
  <2>4. PICK z \in Nat : z = SumBytes(batch)
    BY <1>1, SumBytesType
  <2>5. SumBytes(Behind(0, k)) = z + x /\ Len(Behind(0, k)) = m + k
    <3>1. Len(batch) - 0 + k = m + k
      BY <1>2
    <3> QED  BY <1>1, <2>1, <2>2, <2>3, <2>4, <3>1, BehindFacts
  <2>6. m + k <= max_entries /\ z + x <= max_bytes
    BY <1>8, <2>5 DEF Ready
  <2>7. z + bytes - y = z + x
    BY <2>2
  <2> QED  BY <1>2, <2>2, <2>4, <2>6, <2>7 DEF FitsBehind
<1>11. k = l
  <2> DEFINE U == {i \in 0..Len(entries) : FitsBehind(i)} \union {0}
  <2>1. U \subseteq 0..n /\ U # {} /\ l = Max(U)
    BY <1>2, <1>9 DEF Kept
  <2>2. k \in U
    BY <1>2, <1>9, <1>10
  <2>3. k <= l
    <3> HIDE DEF U
    <3> QED  BY <1>2, <2>1, <2>2, MaxNat
  <2> QED  BY <1>9, <2>3
<1>12. return_unsent = [queue |-> Behind(0, Kept), bytes |-> SumBytes(Behind(0, Kept)),
                        lost |-> Len(entries) - Kept]
  <2>1. PICK s : s = f[N]
    OBVIOUS
  <2>2. /\ s.queue = Behind(0, Kept) /\ s.bytes = SumBytes(Behind(0, Kept))
        /\ s.lost = Len(entries) - Kept
    BY <1>8, <1>9, <1>11, <2>1 DEF ReturnState
  <2>3. return_unsent = [queue |-> s.queue, bytes |-> s.bytes, lost |-> s.lost]
    BY <1>2, <2>1 DEF return_unsent, f
  <2> QED  BY <2>2, <2>3
<1>13. AfterReturn = [queue |-> AfterReturn.queue, bytes |-> AfterReturn.bytes,
                      lost |-> AfterReturn.lost]
  BY DEF AfterReturn
<1> QED  BY <1>12, <1>13, BehindAll

(* The closed forms that the specification uses are what the loops of push *)
(* and return_unsent compute, whatever is queued and whatever is returned. *)
THEOREM ClosedFormsAreTheLoops == Spec => []LoopsAgree
<1>1. ASSUME IInv PROVE LoopsAgree
  <2>1. entries \in Seq(Entry) /\ bytes \in Nat /\ TypeOK /\ Bounded /\ BatchFits
    BY <1>1 DEF IInv, TypeOK
  <2>2. \A size \in Sizes : AfterPush(size) = push(size)
    BY <2>1, PushIsLoop
  <2>3. batch # << >> => AfterReturn = return_unsent
    BY <2>1, ReturnIsLoop
  <2> QED  BY <2>2, <2>3 DEF LoopsAgree
<1>2. IInv => LoopsAgree
  BY <1>1
<1> QED  BY <1>2, Invariance, PTL
=============================================================================

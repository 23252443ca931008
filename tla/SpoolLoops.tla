----------------------------- MODULE SpoolLoops -----------------------------
(***************************************************************************)
(* The loops of push and return_unsent written round by round, as a        *)
(* reference for the closed forms that Spool uses.  A loop is a recursive  *)
(* function of the number of rounds; a round after the last changes        *)
(* nothing.                                                                *)
(***************************************************************************)
EXTENDS Spool

(* One round of the while loop of push: as long as the newcomer does not   *)
(* fit and more than the reserve is left, the entry just past the reserve  *)
(* is removed.                                                             *)
PushRound(s, size) ==
    IF would_exceed(Len(s.queue), s.bytes, size) /\ Len(s.queue) > onset_reserve
    THEN [queue |-> SubSeq(s.queue, 1, onset_reserve)
                      \o SubSeq(s.queue, onset_reserve + 2, Len(s.queue)),
          bytes |-> s.bytes - s.queue[onset_reserve + 1].bytes,
          lost  |-> s.lost + 1]
    ELSE s

PushRounds(size) ==
    LET f[i \in 0..Len(entries)] ==
            IF i = 0 THEN [queue |-> entries, bytes |-> bytes, lost |-> 0]
            ELSE PushRound(f[i - 1], size)
    IN  f

(* No round removes less than an entry, so that there are no more of them. *)
(* Then the newcomer is refused if it still does not fit, else queued.     *)
push(size) ==
    LET s == PushRounds(size)[Len(entries)]
    IN  IF would_exceed(Len(s.queue), s.bytes, size)
        THEN [queue |-> s.queue, bytes |-> s.bytes, lost |-> s.lost + 1]
        ELSE [queue |-> Append(s.queue, [id |-> nextId, bytes |-> size]),
              bytes |-> s.bytes + size, lost |-> s.lost]

(* One round of the loops of return_unsent: the last of the items that are *)
(* left is put in front if it fits or nothing is queued; else the newest   *)
(* entry is removed from the back, a returned one when no other is left.   *)
ReturnRound(s) ==
    IF s.left = 0
    THEN s
    ELSE IF would_exceed(Len(s.queue), s.bytes, batch[s.left].bytes) /\ s.queue # << >>
    THEN [left  |-> s.left,
          queue |-> SubSeq(s.queue, 1, Len(s.queue) - 1),
          bytes |-> s.bytes - s.queue[Len(s.queue)].bytes,
          lost  |-> s.lost + 1]
    ELSE [left  |-> s.left - 1,
          queue |-> <<batch[s.left]>> \o s.queue,
          bytes |-> s.bytes + batch[s.left].bytes,
          lost  |-> s.lost]

ReturnRounds ==
    LET f[i \in 0..(Len(batch) + Len(entries))] ==
            IF i = 0
            THEN [left |-> Len(batch), queue |-> entries, bytes |-> bytes, lost |-> 0]
            ELSE ReturnRound(f[i - 1])
    IN  f

return_unsent ==
    LET s == ReturnRounds[Len(batch) + Len(entries)]
    IN  [queue |-> s.queue, bytes |-> s.bytes, lost |-> s.lost]

(* The closed forms compute what the loops of push and return_unsent       *)
(* compute, in every state the spool can be in and for every size; and the *)
(* loop over a returned batch never discards one of its own results.       *)
LoopsAgree ==
    /\ \A size \in Sizes : AfterPush(size) = push(size)
    /\ batch # << >> => AfterReturn = return_unsent
=============================================================================

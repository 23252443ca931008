---------------------------- MODULE MCEnrolment -----------------------------
(* Small instances of enrolment for TLC.                                   *)
EXTENDS Enrolment

CONSTANTS d1, d2, n1, n2, t1, t2, g1, g2

(* One device; and two devices of one group that were given the same name. *)
OneName == [d \in {d1} |-> n1]
OneToken == [d \in {d1} |-> t1]
OneGroup == [t \in {t1} |-> g1]
SameName == [d \in {d1, d2} |-> n1]
OwnTokens == [d \in {d1, d2} |-> IF d = d1 THEN t1 ELSE t2]
SameGroup == [t \in {t1, t2} |-> g1]
=============================================================================

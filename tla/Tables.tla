------------------------------- MODULE Tables -------------------------------
(***************************************************************************)
(* What the programs do with tables of rows and lists of agents: keep the  *)
(* rows that pass a test, in their order, add up a column, and go through  *)
(* a set of numbers in order.  Each is defined without a recursive         *)
(* operator, so that it can be reasoned about for tables of any length.    *)
(***************************************************************************)
EXTENDS Integers, Sequences, FiniteSets

(* The k-th of a finite set of numbers, smallest first.                    *)
Nth(I, k) == CHOOSE i \in I : Cardinality({j \in I : j <= i}) = k

(* The rows of a table at the given positions, in their order.             *)
Rows(s, I) == [k \in 1..Cardinality(I) |-> s[Nth(I, k)]]

(* The rows that pass the test.                                            *)
Where(s, Test(_)) == Rows(s, {i \in 1..Len(s) : Test(s[i])})

(* The sum of a sequence of numbers.                                       *)
Total(ns) ==
    LET upTo[k \in 0..Len(ns)] == IF k = 0 THEN 0 ELSE upTo[k - 1] + ns[k]
    IN  upTo[Len(ns)]

(* The sum of a column.                                                    *)
TotalOf(s, Of(_)) == Total([i \in 1..Len(s) |-> Of(s[i])])
=============================================================================

---------------------------- MODULE MCTaskLedger ----------------------------
(* Small instances of the task and result tables for TLC.                  *)
EXTENDS TaskLedger

CONSTANTS a, b

OnePair == {<<a, b>>}
=============================================================================

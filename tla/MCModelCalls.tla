---------------------------- MODULE MCModelCalls ----------------------------
(***************************************************************************)
(* Instance of ModelCalls for TLC: two threads, each with several calls.   *)
(***************************************************************************)
EXTENDS ModelCalls, TLC

CONSTANTS t1, t2

MCThreads == {t1, t2}
=============================================================================

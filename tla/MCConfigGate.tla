---------------------------- MODULE MCConfigGate ----------------------------
(***************************************************************************)
(* Instance of ConfigGate for TLC.                                         *)
(***************************************************************************)
EXTENDS ConfigGate, TLC

CONSTANTS t1, t2, t3, w1, w2

MCTurnTasks == {t1, t2, t3}
MCWriterTasks == {w1, w2}
=============================================================================

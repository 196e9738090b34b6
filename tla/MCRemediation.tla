--------------------------- MODULE MCRemediation ---------------------------
(* Three requests of two clients; the replica that counts in Redis keeps   *)
(* no log.                                                                 *)
EXTENDS Remediation, TLC

MCSymmetry == Permutations(Clients)
On == [autonomy |-> TRUE, dryrun |-> FALSE, redis |-> FALSE, log |-> TRUE]
MCSettings == {On, [On EXCEPT !.redis = TRUE, !.log = FALSE],
               [On EXCEPT !.dryrun = TRUE], [On EXCEPT !.autonomy = FALSE]}
=============================================================================

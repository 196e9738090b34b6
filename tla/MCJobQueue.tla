----------------------------- MODULE MCJobQueue -----------------------------
(***************************************************************************)
(* Instance of JobQueue for TLC: an incident and a service, two replicas.  *)
(***************************************************************************)
EXTENDS JobQueue

CONSTANTS i1, s1, r1, r2, j1, j2

MCIncidents == {i1}
MCServices == {s1}
MCReplicas == {r1, r2}
MCJobs == {j1, j2}
=============================================================================

------------------------------ MODULE BurnRate ------------------------------
(***************************************************************************)
(* When a service's error-budget burn rate pages: compute_burn_rate and    *)
(* _burn_rate of src/app/mcp/servers/datadog/server.py over an error-rate  *)
(* series, and what src/app/slo_poller.py makes of the result.             *)
(*                                                                         *)
(* A rate is given in tenths of the error budget, so that the thresholds   *)
(* 14.4, 6 and 1 are whole numbers.                                        *)
(***************************************************************************)
EXTENDS Naturals, Sequences
LOCAL INSTANCE SequencesExt

CONSTANTS
  Rates,     \* error rates a series is made of
  MaxPoints  \* bound: points of a series

\* The short window is the last point, the long one the mean of the series.
Burns(series, tenths) ==
  /\ Last(series) > tenths
  /\ FoldSeq(+, 0, series) > tenths * Len(series)

Verdict(series) ==
  IF series = <<>> THEN "no data"
  ELSE IF Burns(series, 144) THEN "page (fast burn)"
  ELSE IF Burns(series, 60) THEN "page (moderate burn)"
  ELSE IF Last(series) > 10 THEN "ticket" ELSE "ok"

\* compute_burn_rate: the metric's series, or the error that reading it gave.
Readings ==
  {[error |-> FALSE, verdict |-> Verdict(series)] : series \in BoundedSeq(Rates, MaxPoints)}
    \union {[error |-> TRUE, verdict |-> ""]}

IsPageWorthy(burn) == burn.verdict \in {"page (fast burn)", "page (moderate burn)"}

\* select_alerts: a service whose burn rate cannot be read is left out.
Alerts(burn) == ~burn.error /\ IsPageWorthy(burn)
=============================================================================

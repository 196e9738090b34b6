----------------------------- MODULE RcaReport -----------------------------
(***************************************************************************)
(* The report of an investigation, and what is done to it: parsing,        *)
(* calibration, grounding, the panel of prosecutor and defender, the       *)
(* verification of the fix and the postmortem page (graph/nodes.py,        *)
(* graph/sandbox.py).  A cited item of evidence is "seen" when its words   *)
(* are in the tools' output, "unseen" when they are not, "plain" when it   *)
(* has no word to look for; "empty" items do not survive the parsing.      *)
(***************************************************************************)
EXTENDS Integers, Sequences, FiniteSets

CONSTANTS NoCause,  \* a cause is its text up to case
          NoReply   \* a call that failed, or text with no JSON object in it

Verdicts == {"validated", "invalidated", "inconclusive"}
VerifyVerdicts == {"verified", "unverified", "inconclusive", "no_fix_proposed"}
Unprobed == -1

OneOf(value, known, default) == IF value \in known THEN value ELSE default
UpTo(n, list) == SubSeq(list, 1, IF Len(list) < n THEN Len(list) ELSE n)

\* The items of a list that are at these places.
At(list, places) ==
    [n \in 1 .. Cardinality(places) |->
        list[CHOOSE k \in places : Cardinality({j \in places : j < k}) = n - 1]]
CoerceStrList(n, list) == UpTo(n, At(list, {k \in DOMAIN list : list[k] # "empty"}))

(***************************************************************************)
(* From a reply to a report.                                               *)
(***************************************************************************)
NormalizeHypothesis(h) ==
    [cause |-> h.cause, verdict |-> OneOf(h.verdict, Verdicts, "inconclusive"),
     evidence |-> CoerceStrList(8, h.evidence), support |-> Unprobed]

\* A report as it is parsed: nothing is judged of it yet, and no page written.
Parsed(cause, advised, evidence, hypotheses) ==
    [cause |-> cause, advised |-> advised, evidence |-> evidence, hypotheses |-> hypotheses,
     calibrated |-> "low", abstained |-> FALSE, needs |-> {}, critique |-> "none",
     verification |-> "none", sandbox |-> "none", page |-> <<>>]

NormalizeReport(raw) ==
    LET named == UpTo(10, At(raw.hypotheses, {k \in DOMAIN raw.hypotheses :
                                                raw.hypotheses[k].cause # NoCause}))
    IN  Parsed(raw.cause, raw.advised, CoerceStrList(20, raw.evidence),
               [k \in DOMAIN named |-> NormalizeHypothesis(named[k])])

FallbackReport == Parsed(NoCause, FALSE, <<>>, <<>>)
ParseReport(reply) == IF reply = NoReply THEN FallbackReport ELSE NormalizeReport(reply)

(***************************************************************************)
(* The probe: the first four hypotheses still in contention are scored,    *)
(* and all are put in the order of their scores, the unprobed last.        *)
(***************************************************************************)
Competing(hypotheses) == {k \in DOMAIN hypotheses : hypotheses[k].verdict # "invalidated"}
Targets(hypotheses) ==
    {k \in Competing(hypotheses) : Cardinality({j \in Competing(hypotheses) : j < k}) < 4}

MergeProbeScores(hypotheses, scores) ==
    LET scored == [k \in DOMAIN hypotheses |->
                      IF k \in DOMAIN scores THEN [hypotheses[k] EXCEPT !.support = scores[k]]
                                             ELSE hypotheses[k]]
        ahead(k) == {j \in DOMAIN scored : \/ scored[j].support > scored[k].support
                                           \/ scored[j].support = scored[k].support /\ j < k}
    IN  [n \in DOMAIN scored |->
            scored[CHOOSE k \in DOMAIN scored : Cardinality(ahead(k)) = n - 1]]

(***************************************************************************)
(* Calibration, and the check against the tools' output.                   *)
(***************************************************************************)
\* The items of evidence, by their place: the report's own are those of 0.
CitedEvidence(r) ==
    ({0} \X DOMAIN r.evidence)
      \cup UNION {{k} \X DOMAIN r.hypotheses[k].evidence : k \in DOMAIN r.hypotheses}
Item(r, place) == IF place[1] = 0 THEN r.evidence[place[2]]
                  ELSE r.hypotheses[place[1]].evidence[place[2]]
Total(r) == Cardinality(CitedEvidence(r))

Validated(r) == \E k \in DOMAIN r.hypotheses : r.hypotheses[k].verdict = "validated"

CalibrateConfidence(r) ==
    LET rooted == r.cause # NoCause
        abstained == Total(r) < 2 \/ ~(Validated(r) \/ rooted)
    IN  [r EXCEPT !.calibrated = IF Total(r) >= 3 /\ Validated(r) /\ rooted THEN "high"
                                 ELSE IF Total(r) >= 2 /\ (Validated(r) \/ rooted) THEN "medium"
                                 ELSE "low",
                  !.abstained = abstained,
                  !.needs = IF ~abstained THEN {}
                            ELSE {n \in {"cause", "validation", "evidence"} :
                                     \/ n = "cause" /\ ~rooted
                                     \/ n = "validation" /\ ~Validated(r)
                                     \/ n = "evidence" /\ Total(r) < 2}]

Occurrences(item, r) == Cardinality({place \in CitedEvidence(r) : Item(r, place) = item})
Corroborated(r, observed) ==
    LET grounded == Occurrences("seen", r)
        checked == grounded + Occurrences("unseen", r)
    IN  ~observed \/ checked < 2 \/ 2 * grounded >= checked

Doubted(r, gap) ==
    [r EXCEPT !.calibrated = "low", !.abstained = TRUE, !.needs = @ \cup {gap}]
VerifyGrounding(r, observed) ==
    IF Corroborated(r, observed) THEN r ELSE Doubted(r, "corroboration")

(***************************************************************************)
(* The panel: an objection stands unless the rebuttal at its index meets   *)
(* it.                                                                     *)
(***************************************************************************)
JudgeCritique(objections, rebuttals) ==
    LET standing == {objections[k] : k \in {j \in DOMAIN objections :
                                               ~(j \in DOMAIN rebuttals /\ rebuttals[j])}}
    IN  IF "high" \in standing THEN "refuted"
        ELSE IF "medium" \in standing THEN "weakened" ELSE "upheld"

AdversarialCritique(objections, rebuttals) ==
    IF objections = NoReply THEN "upheld"
    ELSE JudgeCritique(UpTo(5, objections), IF rebuttals = NoReply THEN <<>> ELSE rebuttals)

Downgrade == [high |-> "medium", medium |-> "low", low |-> "low"]

\* A plausible mistake: only a refutation is folded into the confidence.
ApplyRefutation(r, verdict) ==
    IF verdict = "refuted" THEN Doubted([r EXCEPT !.critique = verdict], "objection")
                           ELSE [r EXCEPT !.critique = verdict]

ApplyCritique(r, verdict) ==
    LET critiqued == [r EXCEPT !.critique = verdict]
    IN  CASE verdict = "refuted"  -> Doubted(critiqued, "objection")
          [] verdict = "weakened" -> [critiqued EXCEPT !.calibrated = Downgrade[@]]
          [] OTHER                -> critiqued

(***************************************************************************)
(* The fix.  Its verdict is the model's, unless the fix names nothing the  *)
(* cause and its evidence name, or the reproducer ran before and after it. *)
(* A run that times out or that cannot start counts as a failing one.      *)
(***************************************************************************)
HasFix(r, gathered) == gathered.proposed # "nothing" \/ (r.cause # NoCause /\ r.advised)
HasPatch(gathered) == gathered.proposed = "patch"

NormalizeVerification(verdict, fix) ==
    OneOf(verdict, VerifyVerdicts, IF fix THEN "inconclusive" ELSE "no_fix_proposed")

Exits == {"pass", "fail", "timeout"}
RunCounterfactual(before, applies, after) ==
    IF ~applies THEN "patch_failed"
    ELSE IF before = "pass" THEN "no_repro"
    ELSE IF after = "pass" THEN "resolved" ELSE "not_resolved"
SandboxVerdicts == {RunCounterfactual(b, p, a) : b \in Exits, p \in BOOLEAN, a \in Exits} \cup {"error"}

Reconcile(verdict, onTarget, sandbox) ==
    CASE sandbox = "resolved"                    -> "verified"
      [] sandbox = "not_resolved"                -> "unverified"
      [] verdict = "verified" /\ ~onTarget       -> "inconclusive"
      [] OTHER                                   -> verdict

(***************************************************************************)
(* What the postmortem page says of the report.                            *)
(***************************************************************************)
RenderPostmortem(r) ==
    [confidence |-> r.calibrated, cause |-> r.cause,
     needs      |-> IF r.abstained THEN r.needs ELSE {},
     order      |-> [k \in DOMAIN r.hypotheses |-> r.hypotheses[k].cause],
     review     |-> IF r.critique \in {"weakened", "refuted"} THEN r.critique ELSE "none",
     fix        |-> IF r.verification \in {"none", "no_fix_proposed"} THEN "none"
                    ELSE r.verification,
     sandbox    |-> IF r.verification \in {"none", "no_fix_proposed"} THEN "none" ELSE r.sandbox]
=============================================================================

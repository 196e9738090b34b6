------------------------------- MODULE Policy -------------------------------
(***************************************************************************)
(* The action policy engine (src/app/policy.py): every tool call is        *)
(* allow, notify or approve class, has a risk tier, and a programmatic     *)
(* approver is refused when a risky write rests on thin evidence.  A call  *)
(* is represented by its tool: the one argument-dependent escalation       *)
(* (scale_deployment to zero replicas) lands on the class and the tier the *)
(* table already gives that tool and changes only the explanation.         *)
(***************************************************************************)
EXTENDS Naturals

Levels == {"low", "medium", "high"}

ConfRank == [low |-> 0, medium |-> 1, high |-> 2]

\* The least confidence at which a write of each risk may be auto-approved.
MinAutoApproveConf == [low |-> "low", medium |-> "medium", high |-> "high"]

LOCAL Entry(decision, risk) == [decision |-> decision, risk |-> risk]

PolicyTable ==
  [ create_pull_request  |-> Entry("approve", "medium"),
    add_incident_note    |-> Entry("notify", "low"),
    acknowledge_incident |-> Entry("notify", "low"),
    resolve_incident     |-> Entry("approve", "medium"),
    scale_deployment     |-> Entry("approve", "high"),
    rollback_deployment  |-> Entry("approve", "high"),
    restart_deployment   |-> Entry("approve", "medium") ]

\* A tool the table does not list is taken for a read.
Classify(tool) ==
  IF tool \in DOMAIN PolicyTable THEN PolicyTable[tool]
                                 ELSE Entry("allow", "low")

RequiresApproval(tool) == Classify(tool).decision = "approve"

\* The approve-class calls of a message.
ApproveCalls(calls) == {t \in calls : RequiresApproval(t)}

EvidenceConfidence(count) ==
  CASE count < 2 -> "low"
    [] count \in 2 .. 3 -> "medium"
    [] count > 3 -> "high"

AutoApprovable(risk, confidence) ==
  ConfRank[confidence] >= ConfRank[MinAutoApproveConf[risk]]

HighestRisk(calls) ==
  LET risks == {Classify(t).risk : t \in ApproveCalls(calls)} \union {"low"}
  IN  CHOOSE r \in risks : \A s \in risks : ConfRank[r] >= ConfRank[s]

\* confidence_gate(...)["auto_approve_blocked"]: only approve-class calls block.
AutoApproveBlocked(calls, count) ==
  /\ ApproveCalls(calls) # {}
  /\ ~AutoApprovable(HighestRisk(calls), EvidenceConfidence(count))
=============================================================================

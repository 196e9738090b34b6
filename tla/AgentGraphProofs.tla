-------------------------- MODULE AgentGraphProofs --------------------------
(***************************************************************************)
(* Theorems about AgentGraph, for every value of its constants.            *)
(***************************************************************************)
EXTENDS AgentGraph, FiniteSetTheorems, TLAPS

USE DEF conversation, progress, deliverable, ledger, gateHistory

\* The number of open calls of a message is a natural number.
LEMMA CallCount == TypeOK => Cardinality(calls) \in Nat
  BY ToolsAssumption, FS_Subset, FS_CardinalityType DEF TypeOK

\* A saturating count of tool results stays within its bound.
LEMMA CountedType ==
  ASSUME NEW count \in 0 .. EvidenceBound, NEW n \in Nat
  PROVE  Counted(count, n) \in 0 .. EvidenceBound
  BY BoundsAssumption DEF Counted

\* The verdict the verify node stores is one of the four it knows.
LEMMA JudgeType ==
  ASSUME NEW opinion \in Verdicts, NEW grounded \in BOOLEAN,
         NEW sandbox \in SandboxOutcomes
  PROVE  Judge(opinion, grounded, sandbox) \in Verdicts
  BY DEF Judge, Verdicts, SandboxOutcomes

\* Type correctness of the graph, whatever the bounds and the settings.
THEOREM TypeCorrect == Spec => []TypeOK
<1>1. Init => TypeOK
  <2>1. Init => stranded \in BOOLEAN
    BY DEF Init
  <2>2. QED
    BY <2>1, BoundsAssumption, IterationsAssumption
    DEF Init, TypeOK, Nodes, Verdicts
<1>2. TypeOK /\ [Next]_vars => TypeOK'
  <2> SUFFICES ASSUME TypeOK, [Next]_vars PROVE TypeOK'
    OBVIOUS
  <2> USE IterationsAssumption, CostAssumption, BoundsAssumption
  <2>1. CASE Ask
    <3>1. stranded' \in BOOLEAN
      BY <2>1 DEF Ask, TypeOK
    <3>2. QED
      BY <2>1, <3>1 DEF Ask, TypeOK, Nodes
  <2>2. CASE Answer
    BY <2>2 DEF Answer, Resume, TypeOK
  <2>3. CASE Plan
    BY <2>3 DEF Plan, SuperStep, TypeOK, Nodes
  <2>4. CASE Agent
    BY <2>4 DEF Agent, SuperStep, TypeOK, Nodes,
                NextIteration, RouteAfterAgent
  <2>5. CASE Interrupt
    BY <2>5 DEF Interrupt, Surfaced, SuperStep, TypeOK
  <2>6. CASE Approved
    BY <2>6 DEF Approved, SuperStep, TypeOK, Nodes
  <2>7. CASE Rejected
    <3>1. evidence' \in 0 .. EvidenceBound
      BY <2>7, CallCount, CountedType DEF Rejected, TypeOK
    <3>2. QED
      BY <2>7, <3>1 DEF Rejected, SuperStep, TypeOK, Nodes
  <2>8. CASE RunTools
    <3>1. evidence' \in 0 .. EvidenceBound
      BY <2>8, CallCount, CountedType DEF RunTools, TypeOK
    <3>2. effects' \in [Tools -> Nat]
      BY <2>8 DEF RunTools, Executed, TypeOK
    <3>3. QED
      BY <2>8, <3>1, <3>2 DEF RunTools, SuperStep, TypeOK, Nodes
  <2>9. CASE Reflect
    BY <2>9 DEF Reflect, RouteAfterReflect, SuperStep, TypeOK, Nodes
  <2>10. CASE Report
    BY <2>10 DEF Report, SuperStep, TypeOK, Nodes
  <2>11. CASE VerifyOff
    BY <2>11 DEF VerifyOff, Conclude, Learned, SuperStep, TypeOK, Nodes
  <2>12. CASE VerifyNoFix
    BY <2>12 DEF VerifyNoFix, Conclude, Learned, SuperStep, TypeOK, Nodes,
                 Verdicts
  <2>13. CASE VerifyJudged
    BY <2>13, JudgeType
    DEF VerifyJudged, Conclude, Learned, SuperStep, TypeOK, Nodes
  <2>14. CASE Finish
    BY <2>14 DEF Finish, TypeOK
  <2>15. CASE OutOfSteps
    BY <2>15 DEF OutOfSteps, TypeOK
  <2>16. CASE Abort
    BY <2>16 DEF Abort, Executed, Learned, TypeOK
  <2>17. CASE UNCHANGED vars
    BY <2>17 DEF vars, TypeOK
  <2>18. QED
    BY <2>1, <2>2, <2>3, <2>4, <2>5, <2>6, <2>7, <2>8, <2>9, <2>10, <2>11,
       <2>12, <2>13, <2>14, <2>15, <2>16, <2>17 DEF Next, Node
<1>3. QED
  BY <1>1, <1>2, PTL DEF Spec
-----------------------------------------------------------------------------
(* The approval gate.                                                      *)

\* A message whose tools are about to run has had every write granted.
GateInv == next = "tools" => ApproveCalls(calls) \subseteq granted

LEMMA GateInvHolds == Spec => []GateInv
<1>1. Init => GateInv
  BY DEF Init, GateInv
<1>2. TypeOK /\ GateInv /\ [Next]_vars => GateInv'
  <2> SUFFICES ASSUME TypeOK, GateInv, [Next]_vars PROVE GateInv'
    OBVIOUS
  <2>1. CASE Ask
    BY <2>1 DEF Ask, GateInv
  <2>2. CASE Answer
    BY <2>2 DEF Answer, Resume, GateInv
  <2>3. CASE Plan
    BY <2>3 DEF Plan, SuperStep, GateInv
  <2>4. CASE Agent
    BY <2>4 DEF Agent, SuperStep, RouteAfterAgent, ApproveCalls, GateInv
  <2>5. CASE Interrupt
    BY <2>5 DEF Interrupt, SuperStep, GateInv
  <2>6. CASE Approved
    BY <2>6 DEF Approved, SuperStep, ApproveCalls, GateInv
  <2>7. CASE Rejected
    BY <2>7 DEF Rejected, SuperStep, GateInv
  <2>8. CASE RunTools
    BY <2>8 DEF RunTools, SuperStep, GateInv
  <2>9. CASE Reflect
    BY <2>9 DEF Reflect, RouteAfterReflect, SuperStep, GateInv
  <2>10. CASE Report
    BY <2>10 DEF Report, SuperStep, GateInv
  <2>11. CASE VerifyOff
    BY <2>11 DEF VerifyOff, Conclude, SuperStep, GateInv
  <2>12. CASE VerifyNoFix
    BY <2>12 DEF VerifyNoFix, Conclude, SuperStep, GateInv
  <2>13. CASE VerifyJudged
    BY <2>13 DEF VerifyJudged, Conclude, SuperStep, GateInv
  <2>14. CASE Finish
    BY <2>14 DEF Finish, GateInv
  <2>15. CASE OutOfSteps
    BY <2>15 DEF OutOfSteps, GateInv
  <2>16. CASE Abort
    BY <2>16 DEF Abort, GateInv
  <2>17. CASE UNCHANGED vars
    BY <2>17 DEF vars, GateInv
  <2>18. QED
    BY <2>1, <2>2, <2>3, <2>4, <2>5, <2>6, <2>7, <2>8, <2>9, <2>10, <2>11,
       <2>12, <2>13, <2>14, <2>15, <2>16, <2>17 DEF Next, Node
<1>3. QED
  BY <1>1, <1>2, TypeCorrect, PTL DEF Spec

\* Only the tools node and an invocation dying in it execute anything, and what
\* they execute are open calls of the message.
LEMMA WritesComeFromTools ==
  ASSUME TypeOK, Next, NEW t \in Tools, effects'[t] > effects[t]
  PROVE  /\ t \in calls /\ next = "tools"
         /\ RunTools \/ Abort
<1>1. effects[t] \in Nat /\ ~(effects[t] > effects[t])
  BY DEF TypeOK
<1>2. CASE RunTools
  BY <1>1, <1>2 DEF RunTools, Executed, SuperStep
<1>3. CASE Abort
  BY <1>1, <1>3 DEF Abort, Executed
<1>4. CASE Agent
  BY <1>1, <1>4 DEF Agent, TypeOK
<1>5. CASE UNCHANGED effects
  BY <1>1, <1>5
<1>6. QED
  BY <1>2, <1>3, <1>4, <1>5
  DEF Next, Node, Ask, Answer, Resume, Plan, Interrupt, Approved, Rejected,
      Reflect, Report, VerifyOff, VerifyNoFix, VerifyJudged, Finish, OutOfSteps

\* No write is executed without the approval node's consent, whatever aborts,
\* resumptions and turns asked on a paused thread do (the routing of
\* edges.py and approval_node).
THEOREM GateHolds == Spec => WritesAreGranted
<1>1. TypeOK /\ GateInv /\ [Next]_vars => [WritesExecuted \subseteq granted]_vars
  <2> SUFFICES ASSUME TypeOK, GateInv, Next,
                      NEW t \in ApproveCalls(Tools), effects'[t] > effects[t]
               PROVE  t \in granted
    BY DEF WritesExecuted
  <2>1. t \in Tools /\ RequiresApproval(t)
    BY DEF ApproveCalls
  <2>2. next = "tools" /\ t \in calls
    BY <2>1, WritesComeFromTools
  <2>3. QED
    BY <2>1, <2>2 DEF GateInv, ApproveCalls
<1>2. QED
  BY <1>1, TypeCorrect, GateInvHolds, PTL DEF Spec, WritesAreGranted
-----------------------------------------------------------------------------
(* The message history.                                                    *)

\* Open tool calls exist only between the agent and the node answering them,
\* unless a turn was asked over them.
HistoryInv == calls # {} => next \in {"approval", "tools"} \/ stranded

\* The model sees an unanswered tool call only on a thread where a triggered
\* turn was asked over one, whatever invocations die (agent_node, main.py:1419).
THEOREM HistoryIsAnswered == Spec => []HistoryAnswered
<1>1. Init => HistoryInv
  BY DEF Init, HistoryInv
<1>2. HistoryInv /\ [Next]_vars => HistoryInv'
  <2> SUFFICES ASSUME HistoryInv, [Next]_vars PROVE HistoryInv'
    OBVIOUS
  <2>1. CASE Ask
    <3>1. calls' = calls
      BY <2>1 DEF Ask
    <3>2. CASE ~PendingInterrupt /\ stranded' = stranded
      BY <3>1, <3>2 DEF PendingInterrupt, HistoryInv
    <3>3. CASE stranded' = IF calls # {} THEN TRUE ELSE stranded
      BY <3>1, <3>3, Zenon DEF HistoryInv
    <3>4. QED
      BY <2>1, <3>2, <3>3, Zenon DEF Ask
  <2>2. CASE Answer
    BY <2>2 DEF Answer, Resume, HistoryInv
  <2>3. CASE Plan
    BY <2>3 DEF Plan, SuperStep, HistoryInv
  <2>4. CASE Agent
    BY <2>4 DEF Agent, SuperStep, RouteAfterAgent, HistoryInv
  <2>5. CASE Interrupt
    BY <2>5 DEF Interrupt, SuperStep, HistoryInv
  <2>6. CASE Approved
    BY <2>6 DEF Approved, SuperStep, HistoryInv
  <2>7. CASE Rejected
    BY <2>7 DEF Rejected, SuperStep, HistoryInv
  <2>8. CASE RunTools
    BY <2>8 DEF RunTools, SuperStep, HistoryInv
  <2>9. CASE Reflect
    BY <2>9 DEF Reflect, RouteAfterReflect, SuperStep, HistoryInv
  <2>10. CASE Report
    BY <2>10 DEF Report, SuperStep, HistoryInv
  <2>11. CASE VerifyOff
    BY <2>11 DEF VerifyOff, Conclude, SuperStep, HistoryInv
  <2>12. CASE VerifyNoFix
    BY <2>12 DEF VerifyNoFix, Conclude, SuperStep, HistoryInv
  <2>13. CASE VerifyJudged
    BY <2>13 DEF VerifyJudged, Conclude, SuperStep, HistoryInv
  <2>14. CASE Finish
    BY <2>14 DEF Finish, HistoryInv
  <2>15. CASE OutOfSteps
    BY <2>15 DEF OutOfSteps, HistoryInv
  <2>16. CASE Abort
    BY <2>16 DEF Abort, HistoryInv
  <2>17. CASE UNCHANGED vars
    BY <2>17 DEF vars, HistoryInv
  <2>18. QED
    BY <2>1, <2>2, <2>3, <2>4, <2>5, <2>6, <2>7, <2>8, <2>9, <2>10, <2>11,
       <2>12, <2>13, <2>14, <2>15, <2>16, <2>17 DEF Next, Node
<1>3. HistoryInv => HistoryAnswered
  BY DEF HistoryInv, HistoryAnswered
<1>4. QED
  BY <1>1, <1>2, <1>3, PTL DEF Spec

-----------------------------------------------------------------------------
(* Executions, reports and filings, counted against the invocations that   *)
(* died.                                                                   *)

\* A message that is still to run has run only in invocations that died.
ExecutionInv ==
  \A t \in Tools :
    effects[t] <= (IF next \in {"approval", "tools"} THEN 0 ELSE 1) + aborts

\* One message executes each call at most once per invocation that died, and
\* once more (ToolNode under a resumed checkpoint).
THEOREM ExecutionsAreBounded == Spec => []ExecutionsBounded
<1>1. Init => ExecutionInv
  BY DEF Init, ExecutionInv
<1>2. TypeOK /\ ExecutionInv /\ [Next]_vars => ExecutionInv'
  <2> SUFFICES ASSUME TypeOK, ExecutionInv, [Next]_vars PROVE ExecutionInv'
    OBVIOUS
  <2> USE BoundsAssumption DEF TypeOK
  <2>1. CASE Ask
    BY <2>1 DEF Ask, ExecutionInv
  <2>2. CASE Answer
    BY <2>2 DEF Answer, Resume, ExecutionInv
  <2>3. CASE Plan
    BY <2>3 DEF Plan, SuperStep, ExecutionInv
  <2>4. CASE Agent
    BY <2>4 DEF Agent, SuperStep, RouteAfterAgent, ExecutionInv
  <2>5. CASE Interrupt
    BY <2>5 DEF Interrupt, SuperStep, ExecutionInv
  <2>6. CASE Approved
    BY <2>6 DEF Approved, SuperStep, ExecutionInv
  <2>7. CASE Rejected
    BY <2>7 DEF Rejected, SuperStep, ExecutionInv
  <2>8. CASE RunTools
    BY <2>8 DEF RunTools, SuperStep, Executed, ExecutionInv
  <2>9. CASE Reflect
    BY <2>9 DEF Reflect, RouteAfterReflect, SuperStep, ExecutionInv
  <2>10. CASE Report
    BY <2>10 DEF Report, SuperStep, ExecutionInv
  <2>11. CASE VerifyOff
    BY <2>11 DEF VerifyOff, Conclude, SuperStep, ExecutionInv
  <2>12. CASE VerifyNoFix
    BY <2>12 DEF VerifyNoFix, Conclude, SuperStep, ExecutionInv
  <2>13. CASE VerifyJudged
    BY <2>13 DEF VerifyJudged, Conclude, SuperStep, ExecutionInv
  <2>14. CASE Finish
    BY <2>14 DEF Finish, ExecutionInv
  <2>15. CASE OutOfSteps
    BY <2>15 DEF OutOfSteps, ExecutionInv
  <2>16. CASE Abort
    BY <2>16 DEF Abort, Executed, ExecutionInv
  <2>17. CASE UNCHANGED vars
    BY <2>17 DEF vars, ExecutionInv
  <2>18. QED
    BY <2>1, <2>2, <2>3, <2>4, <2>5, <2>6, <2>7, <2>8, <2>9, <2>10, <2>11,
       <2>12, <2>13, <2>14, <2>15, <2>16, <2>17 DEF Next, Node
<1>3. TypeOK /\ ExecutionInv => ExecutionsBounded
  BY BoundsAssumption DEF TypeOK, ExecutionInv, ExecutionsBounded
<1>4. QED
  BY <1>1, <1>2, <1>3, TypeCorrect, PTL DEF Spec

\* From the report node on, the report is the one of the turn in progress.
ReportInv == next \in {"verify", "end"} => report.turn = turn

\* The report a finished turn returns was made in that turn (report_node).
THEOREM ReportIsFresh == Spec => []ReportAnswersThisTurn
<1>1. Init => ReportInv
  BY DEF Init, ReportInv
<1>2. ReportInv /\ [Next]_vars => ReportInv'
  <2> SUFFICES ASSUME ReportInv, [Next]_vars PROVE ReportInv'
    OBVIOUS
  <2>1. CASE Ask
    BY <2>1 DEF Ask, ReportInv
  <2>2. CASE Answer
    BY <2>2 DEF Answer, Resume, ReportInv
  <2>3. CASE Plan
    BY <2>3 DEF Plan, SuperStep, ReportInv
  <2>4. CASE Agent
    BY <2>4 DEF Agent, SuperStep, RouteAfterAgent, ReportInv
  <2>5. CASE Interrupt
    BY <2>5 DEF Interrupt, SuperStep, ReportInv
  <2>6. CASE Approved
    BY <2>6 DEF Approved, SuperStep, ReportInv
  <2>7. CASE Rejected
    BY <2>7 DEF Rejected, SuperStep, ReportInv
  <2>8. CASE RunTools
    BY <2>8 DEF RunTools, SuperStep, ReportInv
  <2>9. CASE Reflect
    BY <2>9 DEF Reflect, RouteAfterReflect, SuperStep, ReportInv
  <2>10. CASE Report
    BY <2>10 DEF Report, SuperStep, ReportInv
  <2>11. CASE VerifyOff
    BY <2>11 DEF VerifyOff, Conclude, SuperStep, ReportInv
  <2>12. CASE VerifyNoFix
    BY <2>12 DEF VerifyNoFix, Conclude, SuperStep, ReportInv
  <2>13. CASE VerifyJudged
    BY <2>13 DEF VerifyJudged, Conclude, SuperStep, ReportInv
  <2>14. CASE Finish
    BY <2>14 DEF Finish, ReportInv
  <2>15. CASE OutOfSteps
    BY <2>15 DEF OutOfSteps, ReportInv
  <2>16. CASE Abort
    BY <2>16 DEF Abort, ReportInv
  <2>17. CASE UNCHANGED vars
    BY <2>17 DEF vars, ReportInv
  <2>18. QED
    BY <2>1, <2>2, <2>3, <2>4, <2>5, <2>6, <2>7, <2>8, <2>9, <2>10, <2>11,
       <2>12, <2>13, <2>14, <2>15, <2>16, <2>17 DEF Next, Node
<1>3. ReportInv => ReportAnswersThisTurn
  BY DEF ReportInv, ReportAnswersThisTurn
<1>4. QED
  BY <1>1, <1>2, <1>3, PTL DEF Spec

\* An unfinished turn still has its filing to come.
LearnedInv == learned + (IF next = "end" THEN 0 ELSE 1) <= turn + aborts

\* The incident memory gets one report per turn, and at most one more for each
\* invocation that died in the verify node (_maybe_learn before the checkpoint).
THEOREM LearnedIsBounded == Spec => []LearnedOnce
<1>1. Init => LearnedInv
  BY DEF Init, LearnedInv
<1>2. TypeOK /\ LearnedInv /\ [Next]_vars => LearnedInv'
  <2> SUFFICES ASSUME TypeOK, LearnedInv, [Next]_vars PROVE LearnedInv'
    OBVIOUS
  <2>t. learned \in Nat /\ turn \in Nat /\ aborts \in Nat
    BY BoundsAssumption DEF TypeOK
  <2> USE <2>t
  <2>1. CASE Ask
    BY <2>1 DEF Ask, LearnedInv
  <2>2. CASE Answer
    BY <2>2 DEF Answer, Resume, LearnedInv
  <2>3. CASE Plan
    BY <2>3 DEF Plan, SuperStep, LearnedInv
  <2>4. CASE Agent
    BY <2>4 DEF Agent, SuperStep, RouteAfterAgent, LearnedInv
  <2>5. CASE Interrupt
    BY <2>5 DEF Interrupt, SuperStep, LearnedInv
  <2>6. CASE Approved
    BY <2>6 DEF Approved, SuperStep, LearnedInv
  <2>7. CASE Rejected
    BY <2>7 DEF Rejected, SuperStep, LearnedInv
  <2>8. CASE RunTools
    BY <2>8 DEF RunTools, SuperStep, LearnedInv
  <2>9. CASE Reflect
    BY <2>9 DEF Reflect, RouteAfterReflect, SuperStep, LearnedInv
  <2>10. CASE Report
    BY <2>10 DEF Report, SuperStep, LearnedInv
  <2>11. CASE VerifyOff
    BY <2>11 DEF VerifyOff, Conclude, SuperStep, Learned, LearnedInv
  <2>12. CASE VerifyNoFix
    BY <2>12 DEF VerifyNoFix, Conclude, SuperStep, Learned, LearnedInv
  <2>13. CASE VerifyJudged
    <3>1. Learned("agent") = learned /\ Learned("end") \in {learned, learned + 1}
      BY DEF Learned
    <3>2. \/ next' = "agent" /\ learned' = learned
          \/ next' = "end" /\ learned' \in {learned, learned + 1}
      BY <2>13, <3>1 DEF VerifyJudged, Conclude
    <3>3. next = "verify" /\ UNCHANGED <<turn, aborts>>
      BY <2>13 DEF VerifyJudged, SuperStep
    <3>4. QED
      BY <3>2, <3>3 DEF LearnedInv
  <2>14. CASE Finish
    BY <2>14 DEF Finish, LearnedInv
  <2>15. CASE OutOfSteps
    BY <2>15 DEF OutOfSteps, LearnedInv
  <2>16. CASE Abort
    <3>1. Learned("end") = learned \/ Learned("end") = learned + 1
      BY DEF Learned
    <3>2. learned' = learned \/ learned' = learned + 1
      BY <2>16, <3>1 DEF Abort
    <3>3. /\ aborts' = aborts + 1 /\ turn' = turn
          /\ next # "end" /\ next' = next
      BY <2>16 DEF Abort
    <3>4. QED
      BY <3>2, <3>3 DEF LearnedInv
  <2>17. CASE UNCHANGED vars
    BY <2>17 DEF vars, LearnedInv
  <2>18. QED
    BY <2>1, <2>2, <2>3, <2>4, <2>5, <2>6, <2>7, <2>8, <2>9, <2>10, <2>11,
       <2>12, <2>13, <2>14, <2>15, <2>16, <2>17 DEF Next, Node
<1>3. TypeOK /\ LearnedInv => LearnedOnce
  BY BoundsAssumption DEF TypeOK, LearnedInv, LearnedOnce
<1>4. QED
  BY <1>1, <1>2, <1>3, TypeCorrect, PTL DEF Spec
-----------------------------------------------------------------------------
(* The token budget.                                                       *)

\* The last token count at which the turn may still start a tool-calling pass.
Ceiling == IF startTokens < MaxTokens THEN MaxTokens - 1 ELSE startTokens

\* How much of the four nodes' overshoot each node may already have used.
Overshoot ==
  CASE next = "plan" -> 0
    [] next \in {"agent", "approval", "tools"} -> MaxCost
    [] next \in {"reflect", "report"} -> 2 * MaxCost
    [] next = "verify" -> 3 * MaxCost
    [] next = "end" -> 4 * MaxCost

SpendInv == MaxTokens > 0 => tokens <= Ceiling + Overshoot

\* However the model behaves, a turn spends at most four nodes' worth of tokens
\* past its ceiling (the kill switch of agent_node, reflect and verify).
THEOREM OvershootIsBounded == Spec => []OvershootBounded
<1> USE BudgetAssumption, CostAssumption
<1>1. Init => SpendInv
  BY DEF Init, SpendInv, Ceiling, Overshoot
<1>2. TypeOK /\ SpendInv /\ [Next]_vars => SpendInv'
  <2> SUFFICES ASSUME TypeOK, SpendInv, [Next]_vars, MaxTokens > 0
               PROVE  tokens' <= (Ceiling + Overshoot)'
    BY DEF SpendInv
  <2>0. tokens <= Ceiling + Overshoot
    BY DEF SpendInv
  <2>t. tokens \in Nat /\ startTokens \in Nat /\ next \in Nodes \union {"end"}
    BY DEF TypeOK
  <2> USE <2>0, <2>t DEF Ceiling, Overshoot, Nodes, OverTokenBudget
  <2>1. CASE Ask
    BY <2>1 DEF Ask
  <2>2. CASE Answer
    BY <2>2 DEF Answer, Resume
  <2>3. CASE Plan
    BY <2>3 DEF Plan, SuperStep
  <2>4. CASE Agent
    BY <2>4 DEF Agent, SuperStep, RouteAfterAgent, AtCap
  <2>5. CASE Interrupt
    BY <2>5 DEF Interrupt, SuperStep
  <2>6. CASE Approved
    BY <2>6 DEF Approved, SuperStep
  <2>7. CASE Rejected
    BY <2>7 DEF Rejected, SuperStep
  <2>8. CASE RunTools
    BY <2>8 DEF RunTools, SuperStep
  <2>9. CASE Reflect
    BY <2>9 DEF Reflect, RouteAfterReflect, SuperStep
  <2>10. CASE Report
    BY <2>10 DEF Report, SuperStep
  <2>11. CASE VerifyOff
    BY <2>11 DEF VerifyOff, Conclude, SuperStep
  <2>12. CASE VerifyNoFix
    BY <2>12 DEF VerifyNoFix, Conclude, SuperStep
  <2>13. CASE VerifyJudged
    <3>1. next = "verify" /\ startTokens' = startTokens
      BY <2>13 DEF VerifyJudged, SuperStep
    <3>2. tokens' <= tokens + MaxCost
      BY <2>13 DEF VerifyJudged
    <3>3. next' = "end" \/ (next' = "agent" /\ ~OverTokenBudget)
      BY <2>13 DEF VerifyJudged, Conclude, CanRetry
    <3>4. tokens' \in Nat
      BY <2>13 DEF VerifyJudged
    <3>5. QED
      BY <3>1, <3>2, <3>3, <3>4
  <2>14. CASE Finish
    BY <2>14 DEF Finish
  <2>15. CASE OutOfSteps
    BY <2>15 DEF OutOfSteps
  <2>16. CASE Abort
    BY <2>16 DEF Abort
  <2>17. CASE UNCHANGED vars
    BY <2>17 DEF vars
  <2>18. QED
    BY <2>1, <2>2, <2>3, <2>4, <2>5, <2>6, <2>7, <2>8, <2>9, <2>10, <2>11,
       <2>12, <2>13, <2>14, <2>15, <2>16, <2>17 DEF Next, Node
<1>3. TypeOK /\ SpendInv => OvershootBounded
  BY DEF TypeOK, SpendInv, Ceiling, Overshoot, OvershootBounded, Nodes
<1>4. QED
  BY <1>1, <1>2, <1>3, TypeCorrect, PTL DEF Spec

-----------------------------------------------------------------------------
(* The recursion limit.                                                    *)

\* Passes through agent that may still call tools or be sent on by reflect.
ToolPasses ==
  IF iteration + 1 < MaxIterations THEN MaxIterations - 1 - iteration ELSE 0

\* Super-steps left for revisions: each takes four.
Spare == 2 * MaxIterations + 6 - 4 * attempts

\* The most super-steps the invocation in flight can still take.
StepsToGo ==
  CASE next = "plan" -> 1 + 2 * (MaxIterations - 1) + 4 + Spare
    [] next = "agent" -> 2 * ToolPasses + 4 + Spare
    [] next = "tools" -> 1 + 2 * ToolPasses + 4 + Spare
    [] next = "approval" ->
         IF cmd = "none" THEN 1 ELSE 2 + 2 * ToolPasses + 4 + Spare
    [] next = "reflect" ->
         IF iteration < MaxIterations THEN 5 + 2 * ToolPasses + Spare
                                      ELSE 3 + Spare
    [] next = "report" -> 2 + 2 * ToolPasses + Spare
    [] next = "verify" -> 1 + 2 * ToolPasses + Spare
    [] next = "end" -> 0

StepInv ==
  Spare >= 0 /\ phase = "running" => steps + StepsToGo <= RecursionLimit

LEMMA StepInvHolds == Spec => []StepInv
<1> USE IterationsAssumption, AttemptsAssumption
<1>1. Init => StepInv
  BY DEF Init, StepInv
<1>2. TypeOK /\ StepInv /\ [Next]_vars => StepInv'
  <2> SUFFICES ASSUME TypeOK, StepInv, [Next]_vars PROVE StepInv'
    OBVIOUS
  <2>t. /\ iteration \in Nat /\ attempts \in Nat /\ steps \in Nat
        /\ next \in Nodes \union {"end"}
    BY DEF TypeOK
  <2> USE <2>t DEF StepsToGo, ToolPasses, Spare, RecursionLimit, Nodes
  <2>1. CASE Ask
    BY <2>1 DEF Ask, StepInv
  <2>2. CASE Answer
    BY <2>2 DEF Answer, Resume, StepInv
  <2>3. CASE Plan
    BY <2>3 DEF Plan, SuperStep, StepInv
  <2>4. CASE Agent
    BY <2>4
    DEF Agent, SuperStep, RouteAfterAgent, AtCap, NextIteration, StepInv
  <2>5. CASE Interrupt
    BY <2>5 DEF Interrupt, SuperStep, StepInv
  <2>6. CASE Approved
    BY <2>6 DEF Approved, SuperStep, StepInv
  <2>7. CASE Rejected
    BY <2>7 DEF Rejected, SuperStep, StepInv
  <2>8. CASE RunTools
    BY <2>8 DEF RunTools, SuperStep, StepInv
  <2>9. CASE Reflect
    BY <2>9 DEF Reflect, RouteAfterReflect, SuperStep, StepInv
  <2>10. CASE Report
    BY <2>10 DEF Report, SuperStep, StepInv
  <2>11. CASE VerifyOff
    BY <2>11 DEF VerifyOff, Conclude, SuperStep, StepInv
  <2>12. CASE VerifyNoFix
    BY <2>12 DEF VerifyNoFix, Conclude, SuperStep, StepInv
  <2>13. CASE VerifyJudged
    <3>1. /\ phase = "running" /\ next = "verify" /\ phase' = phase
          /\ steps' = steps + 1 /\ iteration' = iteration
      BY <2>13 DEF VerifyJudged, SuperStep
    <3>2. \/ next' = "end" /\ attempts' = attempts
          \/ /\ next' = "agent" /\ attempts' = attempts + 1
             /\ attempts < VerifyMaxAttempts
      BY <2>13 DEF VerifyJudged, Conclude, CanRetry
    <3>3. QED
      BY <3>1, <3>2 DEF StepInv
  <2>14. CASE Finish
    BY <2>14 DEF Finish, StepInv
  <2>15. CASE OutOfSteps
    BY <2>15 DEF OutOfSteps, StepInv
  <2>16. CASE Abort
    BY <2>16 DEF Abort, StepInv
  <2>17. CASE UNCHANGED vars
    BY <2>17 DEF vars, StepInv
  <2>18. QED
    BY <2>1, <2>2, <2>3, <2>4, <2>5, <2>6, <2>7, <2>8, <2>9, <2>10, <2>11,
       <2>12, <2>13, <2>14, <2>15, <2>16, <2>17 DEF Next, Node
<1>3. QED
  BY <1>1, <1>2, TypeCorrect, PTL DEF Spec

\* recursion_limit = 4 * cap + 10 is enough for every invocation, aborted and
\* resumed ones included, until the thread has been revised more often than
\* that leaves room for (_config).
THEOREM RecursionLimitSuffices == Spec => []NoRecursionError
<1>1. TypeOK /\ StepInv => NoRecursionError
  BY IterationsAssumption, AttemptsAssumption
  DEF TypeOK, StepInv, NoRecursionError, StepsToGo, ToolPasses, Spare,
      RecursionLimit, Nodes
<1>2. QED
  BY <1>1, StepInvHolds, TypeCorrect, PTL
-----------------------------------------------------------------------------
(* The reviewer.                                                           *)

Approvals == {"approve", "auto"}

CardSeen == shown = calls \/ "approval" \in cutAt

\* A thread waits at the gate with its card shown, and a write that runs was on
\* the card and follows an approval, unless the thread was cut off in the node.
ReviewInv ==
  /\ phase = "idle" /\ next = "tools" => "tools" \in cutAt
  /\ next = "approval" /\ (phase = "idle" \/ cmd # "none") => CardSeen
  /\ phase = "running" /\ cmd = "approve" => ruling \in Approvals
  /\ next = "tools" /\ ApproveCalls(calls) # {} =>
       CardSeen /\ (ruling \in Approvals \/ "tools" \in cutAt)

LEMMA ReviewInvHolds == Spec => []ReviewInv
<1>1. Init => ReviewInv
  BY DEF Init, ReviewInv
<1>2. TypeOK /\ ReviewInv /\ [Next]_vars => ReviewInv'
  <2> SUFFICES ASSUME TypeOK, ReviewInv, [Next]_vars PROVE ReviewInv'
    OBVIOUS
  <2>t. cmd \in {"none", "approve", "reject"}
    BY DEF TypeOK
  <2> USE <2>t DEF Approvals, CardSeen
  <2>1. CASE Ask
    BY <2>1 DEF Ask, ReviewInv
  <2>2. CASE Answer
    BY <2>2 DEF Answer, Resume, PendingInterrupt, ReviewInv
  <2>3. CASE Plan
    BY <2>3 DEF Plan, SuperStep, ReviewInv
  <2>4. CASE Agent
    BY <2>4 DEF Agent, SuperStep, RouteAfterAgent, ReviewInv
  <2>5. CASE Interrupt
    BY <2>5 DEF Interrupt, SuperStep, Surfaced, ReviewInv
  <2>6. CASE Approved
    BY <2>6 DEF Approved, SuperStep, ApproveCalls, ReviewInv
  <2>7. CASE Rejected
    BY <2>7 DEF Rejected, SuperStep, ReviewInv
  <2>8. CASE RunTools
    BY <2>8 DEF RunTools, SuperStep, ReviewInv
  <2>9. CASE Reflect
    BY <2>9 DEF Reflect, RouteAfterReflect, SuperStep, ReviewInv
  <2>10. CASE Report
    BY <2>10 DEF Report, SuperStep, ReviewInv
  <2>11. CASE VerifyOff
    BY <2>11 DEF VerifyOff, Conclude, SuperStep, ReviewInv
  <2>12. CASE VerifyNoFix
    BY <2>12 DEF VerifyNoFix, Conclude, SuperStep, ReviewInv
  <2>13. CASE VerifyJudged
    BY <2>13 DEF VerifyJudged, Conclude, SuperStep, ReviewInv
  <2>14. CASE Finish
    BY <2>14 DEF Finish, ReviewInv
  <2>15. CASE OutOfSteps
    BY <2>15 DEF OutOfSteps, ReviewInv
  <2>16. CASE Abort
    BY <2>16 DEF Abort, ReviewInv
  <2>17. CASE UNCHANGED vars
    BY <2>17 DEF vars, ReviewInv
  <2>18. QED
    BY <2>1, <2>2, <2>3, <2>4, <2>5, <2>6, <2>7, <2>8, <2>9, <2>10, <2>11,
       <2>12, <2>13, <2>14, <2>15, <2>16, <2>17 DEF Next, Node
<1>3. QED
  BY <1>1, <1>2, TypeCorrect, PTL DEF Spec

\* Whatever invocations die or run out of steps, no write is executed while the
\* reviewer's latest answer is not an approval, unless the thread was cut off in
\* the tools node (approval_node, session.py:84).
THEOREM ApprovalIsFollowed == Spec => WritesFollowApproval
<1>1. TypeOK /\ ReviewInv /\ [Next]_vars =>
        [WritesExecuted # {} =>
           ruling \in {"approve", "auto"} \/ "tools" \in cutAt]_vars
  <2> SUFFICES ASSUME TypeOK, ReviewInv, Next, NEW t \in WritesExecuted
               PROVE  ruling \in {"approve", "auto"} \/ "tools" \in cutAt
    OBVIOUS
  <2>1. t \in Tools /\ RequiresApproval(t) /\ effects'[t] > effects[t]
    BY DEF WritesExecuted, ApproveCalls
  <2>2. next = "tools" /\ t \in calls
    BY <2>1, WritesComeFromTools
  <2>3. QED
    BY <2>1, <2>2 DEF ReviewInv, ApproveCalls, Approvals
<1>2. QED
  BY <1>1, TypeCorrect, ReviewInvHolds, PTL DEF Spec, WritesFollowApproval

\* All that runs together with a write was on the approval card the reviewer
\* answered, unless the thread was cut off before it surfaced the card
\* (approval_node's list of actions).
THEOREM ExecutedWasShown == Spec => WritesWereShown
<1>1. TypeOK /\ ReviewInv /\ [Next]_vars =>
        [WritesExecuted # {} =>
           \/ \A t \in Tools : effects'[t] > effects[t] => t \in shown
           \/ "approval" \in cutAt]_vars
  <2> SUFFICES ASSUME TypeOK, ReviewInv, Next, "approval" \notin cutAt,
                      NEW w \in WritesExecuted,
                      NEW t \in Tools, effects'[t] > effects[t]
               PROVE  t \in shown
    OBVIOUS
  <2>1. w \in Tools /\ RequiresApproval(w) /\ effects'[w] > effects[w]
    BY DEF WritesExecuted, ApproveCalls
  <2>2. next = "tools" /\ w \in calls /\ t \in calls
    BY <2>1, WritesComeFromTools
  <2>3. QED
    BY <2>1, <2>2 DEF ReviewInv, CardSeen, ApproveCalls
<1>2. QED
  BY <1>1, TypeCorrect, ReviewInvHolds, PTL DEF Spec, WritesWereShown
=============================================================================

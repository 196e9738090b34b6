----------------------------- MODULE AgentGraph -----------------------------
(***************************************************************************)
(* One conversation thread of the agent: the LangGraph state machine of    *)
(* src/app/graph (plan, agent, approval, tools, reflect, report, verify),  *)
(* driven by the turns of src/app/session.py.                              *)
(*                                                                         *)
(* What the checkpointer persists after every super-step is one group of   *)
(* variables, what lives in the invocation in flight another; the third    *)
(* group is history, read by the properties only.  What a model answers is *)
(* a nondeterministic choice; the text of messages, plans, feedback and    *)
(* postmortems is left out.                                                *)
(***************************************************************************)
EXTENDS Naturals, FiniteSets, Policy

CONSTANTS
  Tools,             \* names of the tools bound to the agent
  MaxIterations,     \* copilot_max_iterations
  MaxTokens,         \* copilot_max_tokens_per_run, 0 = no budget
  VerifyMaxAttempts, \* copilot_verify_max_attempts
  VerifySettings,    \* the values of copilot_verify_fix to consider
  ConfidenceGate,    \* copilot_confidence_gate
  MaxCost,           \* most the model calls of one node add to tokens_used
  EvidenceBound,     \* bound: tool results are counted up to here
  MaxTurns,          \* bound: turns asked on the thread
  MaxAborts,         \* bound: invocations that die (error, cancel, crash)
  AskWhilePaused     \* may a turn be asked on a thread that is mid-run?

ASSUME IterationsAssumption == MaxIterations \in Nat \ {0}
ASSUME BudgetAssumption == MaxTokens \in Nat
ASSUME AttemptsAssumption == VerifyMaxAttempts \in Nat
ASSUME CostAssumption == MaxCost \in Nat
ASSUME ToolsAssumption == IsFiniteSet(Tools)
ASSUME BoundsAssumption ==
  MaxTurns \in Nat /\ MaxAborts \in Nat /\ EvidenceBound \in Nat

VARIABLES
  next,        \* the node the checkpoint will run next, "end" when finished
  calls,       \* tool calls of the last AIMessage that nothing answered yet
  evidence,    \* number of ToolMessages in the history, up to EvidenceBound
  proposed,    \* the create_pull_request calls the history holds
  iteration,
  status,
  tokens,      \* tokens_used, an additive channel
  attempts,    \* verify_attempts, an additive channel
  report,      \* the RCA: turn it answers, proposes a fix?, worth learning?
  verdict,     \* verification["verdict"]
  phase,       \* is an invocation (ask or resume) of the graph running or not?
  steps,       \* super-steps it has taken
  cmd,         \* its Command(resume=...), visible to the first super-step
  turn,        \* history: turns asked so far
  startTokens, \* history: tokens_used when the turn was asked
  stranded,    \* history: a turn was asked while tool calls were open
  learned,     \* history: reports filed in the incident memory
  shown,       \* history: calls of the message surfaced in an approval card
  granted,     \* history: calls of the message the approval node let pass
  ruling,      \* history: latest answer a resume carried for the message
  effects,     \* history: times each call of the message was executed
  cutAt,       \* history: which of approval and tools was cut off on the message
  aborts

conversation == <<calls, evidence, proposed>>
progress == <<iteration, status, tokens, attempts>>
deliverable == <<report, verdict>>
ledger == <<turn, startTokens, stranded>>
gateHistory == <<shown, granted, ruling, effects, cutAt>>
vars == <<next, conversation, progress, deliverable, phase, steps, cmd,
          ledger, learned, gateHistory, aborts>>

Nodes == {"plan", "agent", "approval", "tools", "reflect", "report", "verify"}
Verdicts == {"verified", "unverified", "inconclusive", "no_fix_proposed"}

OverTokenBudget == MaxTokens > 0 /\ tokens >= MaxTokens

\* session._config: the super-steps LangGraph grants one invocation.
RecursionLimit == MaxIterations * 4 + 10

Init ==
  /\ next = "end" /\ calls = {} /\ evidence = 0 /\ proposed = {}
  /\ iteration = 0 /\ status = "done" /\ tokens = 0 /\ attempts = 0
  /\ report = [turn |-> 0, fix |-> FALSE, learnable |-> FALSE]
  /\ verdict = "none"
  /\ phase = "idle" /\ steps = 0 /\ cmd = "none"
  /\ turn = 0 /\ startTokens = 0 /\ stranded = FALSE /\ learned = 0
  /\ shown = {} /\ granted = {} /\ ruling = "none"
  /\ effects = [t \in Tools |-> 0] /\ cutAt = {} /\ aborts = 0

-----------------------------------------------------------------------------
(* The caller: session.ask and session.resume.                             *)

\* Mutant: only a node that waits for a reviewer counts as pending.
PendingAtGateOnly == next = "approval"

\* pending_interrupt(): the checkpoint still has a node to run.
PendingInterrupt == next # "end"

\* A new HumanMessage starts the graph over at START.  /chat asks only when
\* nothing is pending; a triggered investigation does not look.
Ask ==
  /\ phase = "idle" /\ turn < MaxTurns
  /\ \/ ~PendingInterrupt /\ stranded' = stranded
     \/ AskWhilePaused /\ stranded' = IF calls # {} THEN TRUE ELSE stranded
  /\ next' = "plan"
  /\ phase' = "running" /\ steps' = 0 /\ cmd' = "none"
  /\ turn' = turn + 1 /\ startTokens' = tokens
  /\ UNCHANGED <<conversation, progress, deliverable, learned, gateHistory,
                 aborts>>

\* The confidence gate turns a programmatic approval into a rejection.
Resume(approved, auto) ==
  LET blocked == auto /\ ConfidenceGate /\ AutoApproveBlocked(calls, evidence)
  IN  /\ phase = "idle" /\ PendingInterrupt
      /\ phase' = "running" /\ steps' = 0
      /\ cmd' = IF approved /\ ~blocked THEN "approve" ELSE "reject"
      /\ ruling' = CASE cmd' = "reject" -> "reject"
                     [] cmd' = "approve" /\ auto -> "auto"
                     [] cmd' = "approve" /\ ~auto -> "approve"
      /\ UNCHANGED <<next, conversation, progress, deliverable, ledger,
                     learned, shown, granted, effects, cutAt, aborts>>

-----------------------------------------------------------------------------
(* The nodes.  A super-step needs room under the recursion limit; the      *)
(* resume value is gone after the first one.                               *)

SuperStep(node) ==
  /\ phase = "running" /\ next = node /\ steps < RecursionLimit
  /\ steps' = steps + 1 /\ cmd' = "none"

Plan ==
  /\ SuperStep("plan")
  /\ next' = "agent" /\ iteration' = 0 /\ status' = "investigating"
  /\ \E c \in 0 .. MaxCost : tokens' = tokens + c
  /\ UNCHANGED <<attempts, conversation, deliverable, phase, ledger,
                 learned, gateHistory, aborts>>

\* Mutant: the gate opens for a message unless all of it is approve-class.
RouteOnlyPureWrites(toolCalls) ==
  IF toolCalls = {} THEN "reflect"
  ELSE IF ApproveCalls(toolCalls) = toolCalls THEN "approval" ELSE "tools"

RouteAfterAgent(toolCalls) ==
  IF toolCalls = {} THEN "reflect"
  ELSE IF ApproveCalls(toolCalls) # {} THEN "approval" ELSE "tools"

\* n more tool results: the confidence tiers stop telling counts apart at 4.
Counted(count, n) ==
  IF count + n > EvidenceBound THEN EvidenceBound ELSE count + n

\* Mutant: the loop guard is never advanced.
NextIterationStuck == iteration

NextIteration == iteration + 1

\* Mutants: one of the two reasons to withhold the tools is forgotten.
AtCapByBudget == OverTokenBudget
AtCapBySteps == NextIteration >= MaxIterations

\* At the step cap or over budget the model is called without tools.
AtCap == NextIteration >= MaxIterations \/ OverTokenBudget

Agent ==
  /\ SuperStep("agent")
  /\ iteration' = NextIteration
  /\ \E c \in 0 .. MaxCost : tokens' = tokens + c
  /\ calls' \in IF AtCap THEN {{}} ELSE SUBSET Tools
  /\ proposed' = proposed \union (calls' \intersect {"create_pull_request"})
  /\ next' = RouteAfterAgent(calls')
  /\ shown' = {} /\ granted' = {} /\ ruling' = "none"
  /\ effects' = [t \in Tools |-> 0] /\ cutAt' = {}
  /\ UNCHANGED <<evidence, status, attempts, deliverable, phase, ledger,
                 learned, aborts>>

\* Mutant: the card lists the writes and hides the reads bundled with them.
SurfacedWrites == ApproveCalls(calls)

Surfaced == calls

\* interrupt(): surface every call of the message and end the invocation.
Interrupt ==
  /\ SuperStep("approval") /\ cmd = "none"
  /\ phase' = "idle" /\ shown' = Surfaced
  /\ UNCHANGED <<next, conversation, progress, deliverable, ledger,
                 learned, granted, ruling, effects, cutAt, aborts>>

\* Approved: the message stands and the tools run it.
Approved ==
  /\ SuperStep("approval") /\ cmd = "approve"
  /\ next' = "tools" /\ granted' = calls
  /\ UNCHANGED <<conversation, progress, deliverable, phase, ledger,
                 learned, shown, ruling, effects, cutAt, aborts>>

\* Rejected: one ToolMessage answers each call, so that none is left open.
Rejected ==
  /\ SuperStep("approval") /\ cmd = "reject"
  /\ next' = "agent" /\ calls' = {}
  /\ evidence' = Counted(evidence, Cardinality(calls))
  /\ UNCHANGED <<proposed, progress, deliverable, phase, ledger,
                 learned, gateHistory, aborts>>

\* Mutant: a retry wrapped around the tool call executes it again.
ExecutedTwice(S) == [t \in Tools |-> IF t \in S THEN effects[t] + 2 ELSE effects[t]]

Executed(S) == [t \in Tools |-> IF t \in S THEN effects[t] + 1 ELSE effects[t]]

\* The ToolNode executes the whole message and answers every call.
RunTools ==
  /\ SuperStep("tools")
  /\ effects' = Executed(calls)
  /\ evidence' = Counted(evidence, Cardinality(calls))
  /\ calls' = {} /\ next' = "agent"
  /\ UNCHANGED <<proposed, progress, deliverable, phase, ledger,
                 learned, shown, granted, ruling, cutAt, aborts>>

\* Mutant: a thread that has a report is not given another.
RouteToExistingReport ==
  IF status' # "done" THEN "agent"
  ELSE IF report.turn = 0 THEN "report" ELSE "verify"

RouteAfterReflect == IF status' = "done" THEN "report" ELSE "agent"

\* At the cap or over budget the node answers DONE without a model call.
Reflect ==
  /\ SuperStep("reflect")
  /\ \/ /\ iteration >= MaxIterations \/ OverTokenBudget
        /\ status' = "done" /\ tokens' = tokens
     \/ /\ iteration < MaxIterations /\ ~OverTokenBudget
        /\ status' \in {"done", "investigating"}
        /\ \E c \in 0 .. MaxCost : tokens' = tokens + c
  /\ next' = RouteAfterReflect
  /\ UNCHANGED <<iteration, attempts, conversation, deliverable, phase,
                 ledger, learned, gateHistory, aborts>>

\* Every failure of the synthesis falls back to a minimal report.
Report ==
  /\ SuperStep("report")
  /\ next' = "verify" /\ status' = "done"
  /\ report' \in [turn : {turn}, fix : BOOLEAN, learnable : BOOLEAN]
  /\ \E c \in 0 .. MaxCost : tokens' = tokens + c
  /\ UNCHANGED <<iteration, attempts, conversation, verdict, phase, ledger,
                 learned, gateHistory, aborts>>

\* A pull request anywhere in the history counts, else the report's actions.
HasFix == proposed # {} \/ report.fix

\* Mutant: the sandbox's own verdict is stored as the verification's.
JudgeBySandbox(opinion, grounded, sandbox) ==
  IF sandbox # "none" THEN sandbox ELSE opinion

\* The model's verdict, downgraded when the fix does not touch the cause, then
\* overridden by a conclusive run of the patch in the sandbox.
Judge(opinion, grounded, sandbox) ==
  CASE sandbox = "resolved" -> "verified"
    [] sandbox = "not_resolved" -> "unverified"
    [] OTHER -> IF opinion = "verified" /\ ~grounded THEN "inconclusive"
                ELSE opinion

\* The sandbox runs only where a pull request carries a patch.
SandboxOutcomes ==
  {"none"} \union IF proposed # {} THEN {"resolved", "not_resolved"} ELSE {}

\* Mutant: the report is filed before the verdict is acted on.
LearnedEarly(destination) == IF report.learnable THEN learned + 1 ELSE learned

\* _maybe_learn: a report that ends the turn is filed in the incident memory.
Learned(destination) ==
  IF report.learnable /\ destination = "end" THEN learned + 1 ELSE learned

Conclude ==
  /\ next' = "end" /\ status' = "done"
  /\ learned' = Learned("end")
  /\ UNCHANGED attempts

VerifyOff ==
  /\ SuperStep("verify") /\ FALSE \in VerifySettings
  /\ Conclude
  /\ UNCHANGED <<iteration, tokens, conversation, deliverable, phase, ledger,
                 gateHistory, aborts>>

VerifyNoFix ==
  /\ SuperStep("verify") /\ TRUE \in VerifySettings /\ ~HasFix
  /\ verdict' = "no_fix_proposed"
  /\ Conclude
  /\ UNCHANGED <<iteration, tokens, report, conversation, phase, ledger,
                 gateHistory, aborts>>

CanRetry ==
  /\ verdict' = "unverified"
  /\ attempts < VerifyMaxAttempts
  /\ ~OverTokenBudget

\* An unverified fix bounces back to the agent, within the attempts and budget.
VerifyJudged ==
  /\ SuperStep("verify") /\ TRUE \in VerifySettings /\ HasFix
  /\ \E opinion \in Verdicts, grounded \in BOOLEAN, sandbox \in SandboxOutcomes :
       verdict' = Judge(opinion, grounded, sandbox)
  /\ \E c \in 0 .. MaxCost : tokens' = tokens + c
  /\ \/ /\ CanRetry
        /\ next' = "agent" /\ status' = "investigating"
        /\ attempts' = attempts + 1
        /\ learned' = Learned("agent")
     \/ ~CanRetry /\ Conclude
  /\ UNCHANGED <<iteration, report, conversation, phase, ledger,
                 gateHistory, aborts>>

-----------------------------------------------------------------------------
(* The end of an invocation.                                               *)

\* "done": the caller gets the report and tokens_used.
Finish ==
  /\ phase = "running" /\ next = "end"
  /\ phase' = "idle"
  /\ UNCHANGED <<next, conversation, progress, deliverable, steps, cmd, ledger,
                 learned, gateHistory, aborts>>

\* GraphRecursionError: "done" without report, and the checkpoint stays mid-run.
OutOfSteps ==
  /\ phase = "running" /\ next # "end" /\ steps >= RecursionLimit
  /\ phase' = "idle" /\ cutAt' = cutAt \union ({next} \intersect {"approval", "tools"})
  /\ UNCHANGED <<next, conversation, progress, deliverable, steps, cmd, ledger,
                 learned, shown, granted, ruling, effects, aborts>>

\* The invocation dies in a node: nothing of the node is checkpointed, but the
\* tools may have executed any part of the message, and verify may have filed
\* the report.
Abort ==
  /\ phase = "running" /\ next # "end" /\ aborts < MaxAborts
  /\ phase' = "idle" /\ cmd' = "none" /\ aborts' = aborts + 1
  /\ cutAt' = cutAt \union ({next} \intersect {"approval", "tools"})
  /\ \E S \in IF next = "tools" THEN SUBSET calls ELSE {{}} :
       effects' = Executed(S)
  /\ learned' \in {learned} \union IF next = "verify" THEN {Learned("end")} ELSE {}
  /\ UNCHANGED <<next, conversation, progress, deliverable, steps, ledger,
                 shown, granted, ruling>>

-----------------------------------------------------------------------------
Node ==
  \/ Plan \/ Agent \/ Interrupt \/ Approved \/ Rejected \/ RunTools \/ Reflect
  \/ Report \/ VerifyOff \/ VerifyNoFix \/ VerifyJudged \/ Finish \/ OutOfSteps

Answer == \E approved, auto \in BOOLEAN : Resume(approved, auto)

Next ==
  \/ Ask
  \/ Answer
  \/ Node
  \/ Abort

Spec == Init /\ [][Next]_vars

\* The event loop drives an invocation in flight: a node that can run, runs.
\* The second conjunct is the assumption that the reviewer answers.
FairSpec == Spec /\ WF_vars(Node) /\ WF_vars(Answer)

-----------------------------------------------------------------------------
(* Properties.                                                             *)

\* The type invariant.
TypeOK ==
  /\ next \in Nodes \union {"end"}
  /\ calls \subseteq Tools /\ evidence \in 0 .. EvidenceBound /\ proposed \subseteq Tools
  /\ iteration \in Nat /\ status \in {"investigating", "done"}
  /\ tokens \in Nat /\ attempts \in Nat
  /\ report \in [turn : Nat, fix : BOOLEAN, learnable : BOOLEAN]
  /\ verdict \in Verdicts \union {"none"}
  /\ phase \in {"idle", "running"} /\ steps \in Nat
  /\ cmd \in {"none", "approve", "reject"}
  /\ turn \in Nat /\ startTokens \in Nat
  /\ stranded \in BOOLEAN /\ learned \in Nat
  /\ shown \subseteq Tools /\ granted \subseteq Tools
  /\ ruling \in {"none", "approve", "auto", "reject"}
  /\ effects \in [Tools -> Nat] /\ cutAt \subseteq {"approval", "tools"}
  /\ aborts \in 0 .. MaxAborts

\* The approve-class tools this step executes.
WritesExecuted == {t \in ApproveCalls(Tools) : effects'[t] > effects[t]}

\* No write is executed unless the approval node let its message pass: neither
\* a routing decision nor a dead and resumed invocation gets around the gate.
WritesAreGranted == [][WritesExecuted \subseteq granted]_vars

\* No write is executed while the latest answer a reviewer gave on the thread,
\* since the message was produced, is anything but an approval, unless an
\* invocation was cut off in the tools node, which a resume then runs again
\* whatever it answers (session.py:84).
WritesFollowApproval ==
  [][WritesExecuted # {} => ruling \in {"approve", "auto"} \/ "tools" \in cutAt]_vars

\* What the documentation says without that exception: "rejected -> answer the
\* tool calls with rejection ToolMessages" (nodes.py:218).
RejectionStopsWrites ==
  [][WritesExecuted # {} => ruling \in {"approve", "auto"}]_vars

\* Whatever runs together with a write, the reviewer saw all of it on the card,
\* unless an invocation was cut off in the approval node, before it surfaced
\* the card that a resume then answers (nodes.py:224, session.py:84).
WritesWereShown ==
  [][WritesExecuted # {} =>
       \/ \A t \in Tools : effects'[t] > effects[t] => t \in shown
       \/ "approval" \in cutAt]_vars

\* The model is called on a history with unanswered tool calls, which the
\* provider would refuse, only where a triggered turn was asked on a thread
\* that had them open (nodes.py:127, main.py:1419).
HistoryAnswered == phase = "running" /\ next = "agent" => calls = {} \/ stranded

\* One message executes each of its calls once, and once more at most for each
\* invocation that died.
ExecutionsBounded == \A t \in Tools : effects[t] <= 1 + aborts

\* The invocation ends before LangGraph's recursion limit cuts it off, unless
\* the thread was revised more often than the limit leaves room for
\* (session.py:69).
NoRecursionError ==
  phase = "running" /\ next # "end" /\ steps >= RecursionLimit
    => 4 * attempts > 2 * MaxIterations + 6

\* What a turn may spend past the budget: four nodes' worth of model calls past
\* the last token under the ceiling, or past what the thread had spent before.
OvershootBounded ==
  MaxTokens > 0 =>
    tokens <= 4 * MaxCost
              + (IF startTokens < MaxTokens THEN MaxTokens - 1 ELSE startTokens)

\* The report a finished turn returns answers that turn, never an earlier one.
ReportAnswersThisTurn == next = "end" => report.turn = turn

\* A turn files one report in the incident memory, one more at most for each
\* invocation that died.
LearnedOnce == learned <= turn + aborts

\* While a reviewer keeps answering, every turn asked ends.
TurnCompletes == (next # "end") ~> (next = "end")
=============================================================================

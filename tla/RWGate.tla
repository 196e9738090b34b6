------------------------------- MODULE RWGate -------------------------------
(***************************************************************************)
(* What the configuration gate of src/app/api/main.py promises: agent      *)
(* turns share it, a configuration change has it alone, and a turn that    *)
(* comes while a change waits lets the change go first.                    *)
(***************************************************************************)
CONSTANTS TurnTasks, WriterTasks

VARIABLES
  turns,     \* turns inside the gate
  waiting,   \* configuration changes waiting for the turns to drain
  exclusive  \* the configuration change inside the gate, if any

gvars == <<turns, waiting, exclusive>>

GateInit == turns = {} /\ waiting = {} /\ exclusive = {}

EnterTurn(p) ==
  /\ p \notin turns /\ waiting = {} /\ exclusive = {}
  /\ turns' = turns \union {p} /\ UNCHANGED <<waiting, exclusive>>

LeaveTurn(p) ==
  /\ p \in turns
  /\ turns' = turns \ {p} /\ UNCHANGED <<waiting, exclusive>>

AskExclusive(p) ==
  /\ p \notin waiting \union exclusive
  /\ waiting' = waiting \union {p} /\ UNCHANGED <<turns, exclusive>>

\* Mutant: a change waits for the other changes only.
EnterExclusiveUndrained(p) ==
  /\ p \notin exclusive /\ exclusive = {}
  /\ exclusive' = {p} /\ waiting' = waiting \ {p} /\ UNCHANGED turns

\* A change that finds the gate empty need not wait.
EnterExclusive(p) ==
  /\ p \notin exclusive /\ turns = {} /\ exclusive = {}
  /\ exclusive' = {p} /\ waiting' = waiting \ {p} /\ UNCHANGED turns

GiveUp(p) ==
  /\ p \in waiting
  /\ waiting' = waiting \ {p} /\ UNCHANGED <<turns, exclusive>>

LeaveExclusive(p) ==
  /\ p \in exclusive
  /\ exclusive' = exclusive \ {p} /\ UNCHANGED <<turns, waiting>>

GateNext ==
  \/ \E p \in TurnTasks : EnterTurn(p) \/ LeaveTurn(p)
  \/ \E p \in WriterTasks :
       \/ AskExclusive(p) \/ EnterExclusive(p) \/ GiveUp(p)
       \/ LeaveExclusive(p)

GateSpec == GateInit /\ [][GateNext]_gvars
=============================================================================

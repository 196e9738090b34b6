--------------------------- MODULE MCSessionPool ----------------------------
(***************************************************************************)
(* Instances of SessionPool for TLC.                                       *)
(***************************************************************************)
EXTENDS SessionPool, TLC

CONSTANTS a, b, r1, r2, r3, r4, c, p1, p2, k, unset, host

MCThreads == {a, b}
MCTasks == {r1, r2, r3, r4}
MCWriters == {c}
MCProviders == {p1, p2}

\* The .env has a key for p1 only, and no GitHub repository.
MCEnv == [provider |-> p1, keys |-> (p1 :> "env-key" @@ p2 :> unset), model |-> unset,
          github |-> unset, repo |-> "repo", logs |-> "logs", secrets |-> "host"]

MCDefaultModel == p1 :> "model-1" @@ p2 :> "model-2"

\* A tenant with a key for the default provider, and no GitHub repository.
MCTenant ==
  TenantConfig([provider |-> unset, keys |-> (p1 :> "tenant-key" @@ p2 :> unset),
                model |-> unset, github |-> unset, secrets |-> "tenant"])

\* Three requests for thread a and one for thread b.
MCThreadOf == [p \in TurnTasks |-> IF p = r4 THEN b ELSE a]

\* One tenant, or many: a triggered investigation has none.
MCSingleTenant == [p \in TurnTasks \union WriterTasks |-> host]
MCMultiTenant ==
  [p \in TurnTasks \union WriterTasks |-> IF p = r4 THEN host ELSE MCTenant]

MCKind == r1 :> "chat" @@ r2 :> "answer" @@ r3 :> "stream" @@ r4 :> "trigger"
MCPlainKind == r1 :> "chat" @@ r2 :> "approve" @@ r3 :> "slack" @@ r4 :> "trigger"

\* A model is asked for with a key, and without one when the .env has none either.
MCModels ==
  {[what |-> "model", provider |-> p2, key |-> key, model |-> unset] : key \in {k, unset}}

MCSources ==
  {[what |-> "github", to |-> "octo"], [what |-> "github", to |-> "gone"],
   [what |-> "logs", to |-> "mine"], [what |-> "repo", to |-> "outside"],
   [what |-> "reset"]}

MCReachable == {"octo", "mine"}
=============================================================================

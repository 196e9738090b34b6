--------------------------- MODULE RuntimeConfig ----------------------------
(***************************************************************************)
(* src/app/runtime.py: the configuration that can be changed while the     *)
(* program runs, kept in memory and put over the .env settings; what a     *)
(* session reads of it when it is built; and the endpoints of              *)
(* src/app/api/main.py that change it.  A request made for a tenant reads  *)
(* the tenant's own configuration instead.                                 *)
(*                                                                         *)
(* Keys, models, repositories and directories are opaque values; Unset is  *)
(* the empty string.  The two models of a provider go together.            *)
(***************************************************************************)
CONSTANTS
  Providers,    \* PROVIDERS
  DefaultModel, \* the model of each provider
  Env,          \* the .env settings, in the form of a tenant's
  Reachable,    \* the repositories GitHub lets its token see, and the
                \* directories inside the allowed root
  Unset,        \* no override, or no value
  Host          \* the tenant of a request that has none

\* The process-global overrides, _ov and _keys, as reset() leaves them.
NoOverrides ==
  [provider |-> Unset, keys |-> [p \in Providers |-> Unset], model |-> Unset,
   github |-> Unset, repo |-> Unset, logs |-> Unset]

\* build_tenant_config: nothing stored for a tenant is a directory.
TenantConfig(stored) ==
  [provider |-> stored.provider, keys |-> stored.keys, model |-> stored.model,
   github |-> stored.github, repo |-> Unset, logs |-> Unset,
   secrets |-> stored.secrets]

Or(value, fallback) == IF value # Unset THEN value ELSE fallback

Layer(tenant, ov) == IF tenant # Host THEN tenant ELSE ov

Provider(tenant, ov) == Or(Layer(tenant, ov).provider, Env.provider)

\* A tenant never falls back to the host's keys or repository on GitHub.
ProviderKey(tenant, ov, p) ==
  IF tenant # Host THEN tenant.keys[p] ELSE Or(ov.keys[p], Env.keys[p])

Github(tenant, ov) ==
  IF tenant # Host THEN tenant.github ELSE Or(ov.github, Env.github)

RepoPath(tenant, ov) == Or(Layer(tenant, ov).repo, Env.repo)

LogsPath(tenant, ov) == Or(Layer(tenant, ov).logs, Env.logs)

\* _server_config: what the tool servers of a new session are started with.
ServerConfig(tenant, ov) ==
  [github |-> Github(tenant, ov), repo |-> RepoPath(tenant, ov),
   logs |-> LogsPath(tenant, ov), secrets |-> Layer(tenant, Env).secrets]

\* get_llm: what the models of a new session are built with.
ModelConfig(tenant, ov) ==
  LET p == Provider(tenant, ov)
      chosen == Or(Layer(tenant, ov).model, Env.model)
  IN  [provider |-> p, key |-> ProviderKey(tenant, ov, p),
       model |-> Or(chosen, DefaultModel[p])]

\* set_model: an empty key gives the one of the .env back.
SetModel(ov, provider, key, model) ==
  [ov EXCEPT !.provider = provider, !.keys[provider] = key, !.model = model]

\* active_api_key
ActiveKey(tenant, ov) == ModelConfig(tenant, ov).key

\* /model/configure: tried, and rolled back if that leaves no key.
ConfigureModel(tenant, ov, change) ==
  LET tried == SetModel(ov, change.provider, change.key, change.model)
  IN  IF ActiveKey(tenant, tried) # Unset THEN tried ELSE ov

\* /github/connect, after GitHub answered, and /github/disconnect.
ConnectGithub(ov, change) ==
  IF change.to \in Reachable \union {Unset} THEN [ov EXCEPT !.github = change.to]
  ELSE ov

\* /sources/repo and /sources/logs.
SetSource(ov, change) ==
  IF change.to \notin Reachable THEN ov
  ELSE IF change.what = "repo" THEN [ov EXCEPT !.repo = change.to]
  ELSE [ov EXCEPT !.logs = change.to]

\* What a request for a change sets, before it waits for anything.
Changed(tenant, ov, change) ==
  CASE change.what = "model"  -> ConfigureModel(tenant, ov, change)
    [] change.what = "github" -> ConnectGithub(ov, change)
    [] change.what \in {"repo", "logs"} -> SetSource(ov, change)
    [] change.what = "reset"  -> NoOverrides

\* A change that is refused answers at once; the others go on to evict.
RefusedChange(tenant, ov, change) ==
  \/ /\ change.what = "model"
     /\ ActiveKey(tenant, SetModel(ov, change.provider, change.key, change.model))
          = Unset
  \/ change.what = "github" /\ change.to \notin Reachable \union {Unset}
  \/ change.what \in {"repo", "logs"} /\ change.to \notin Reachable
=============================================================================

--------------------------- MODULE TenantRequests ---------------------------
(***************************************************************************)
(* Requests in flight against the tenant store: the admin, SCIM, sign-up   *)
(* and billing endpoints of src/app/api/main.py, an investigation from its *)
(* quota gate to its metering, and the operations an operator runs (key    *)
(* rotation, erasure, retention, the Stripe sync).                         *)
(*                                                                         *)
(* A request is a script of store calls.  Each call opens a connection of  *)
(* its own and awaits, so requests interleave between any two of them, in  *)
(* one process or several; what a request read before is kept in `seen`.   *)
(***************************************************************************)
EXTENDS TenantStore, Sequences

CONSTANTS
  Workloads, \* sequences of request kinds: the requests that are run together
  Headers,   \* workload -> the X-Request-ID of each of its requests
  TokenCap,  \* copilot_global_token_cap, 0 = no cap
  MaxTokens  \* most tokens a turn that completes reports

ASSUME CapAssumption == TokenCap \in Nat /\ MaxTokens \in Nat

VARIABLES
  work,    \* the kinds of this run's requests; never changes
  db,      \* the tenant database
  at,      \* request -> position in its script
  out,     \* request -> "open", "done", "refused" (4xx) or "failed" (5xx)
  seen,    \* request -> what its earlier calls returned
  spend,   \* tokens the fleet spent in this window
  billed,  \* external: the meter events Stripe holds, by identifier
  raced,   \* history: did a key change overlap another change of the secrets?
  written, \* history: secret name -> request that wrote it last
  late,    \* history: requests in flight for organization 0 when it was erased
  peak,    \* history: the most requests of a kind ever at work past their check
  blind    \* history: investigations let in because the cap could not be read

history == <<raced, written, late, blind>>
vars == <<work, db, at, out, seen, spend, billed, history, peak>>

Requests == 1 .. Len(work)

\* require_auth: a tenant key or a JWT, then the organization and its secrets.
ByKey == <<"key", "org", "dek", "rows">>
ByJwt == <<"membership", "org", "dek", "rows">>

Scripts ==
  [create_key  |-> ByKey \o <<"countKeys", "issueKey">>,
   revoke_key  |-> ByKey \o <<"revokeKey">>,
   add_member  |-> ByJwt \o <<"countMembers", "findUser", "insertUser", "addMember">>,
   set_secret  |-> ByJwt \o <<"dekToWrite", "write">>,
   view_org    |-> ByKey \o <<"org">>,
   view_secrets |-> ByKey \o <<"dek", "rows">>,
   set_plan    |-> ByKey \o <<"setPlan">>,
   investigate |-> ByKey \o <<"quota", "cap", "run", "meter", "meterTokens", "charge">>,
   approve     |-> ByKey \o <<"run", "meter", "meterTokens", "charge">>,
   triggered   |-> <<"run", "charge">>,
   stripe      |-> <<"setPlan">>,
   provision   |-> <<"lookUser", "findUser", "insertUser", "addMember">>,
   deprovision |-> <<"lookUser", "removeMember">>,
   signup      |-> <<"seekMembership", "insertOrg", "findUser", "insertUser",
                     "addMember", "issueKey">>,
   rotate      |-> <<"dekToRetire", "dek", "rows", "swap">>,
   erase       |-> <<"shred", "delete">>,
   link        |-> <<"linkCustomer">>,
   purge       |-> <<"purge">>,
   sync        |-> <<"unsynced", "send", "markSynced">>]

\* A workload is made of requests that have a script.
ASSUME WorkloadsAssumption == Workloads \subseteq Seq(DOMAIN Scripts)

\* The caller chooses its request id; nothing makes two of them differ.
ASSUME HeadersAssumption == \A w \in Workloads : Headers[w] \in [1 .. Len(w) -> Nat]

RequestId(r) == Headers[work][r]

\* The position of the check that a kind of request passes before it adds to
\* what the check is about.
Gate == [create_key |-> 5, add_member |-> 5, investigate |-> 5]

\* The permission a route depends on.
Permission ==
  [view_org |-> "view", view_secrets |-> "manage_integrations",
   create_key |-> "manage_api_keys", revoke_key |-> "manage_api_keys",
   add_member |-> "manage_members", set_secret |-> "manage_integrations",
   set_plan |-> "manage_billing", investigate |-> "run_investigation",
   approve |-> "approve_action"]

\* The identities of the runs: an owner, and one address that is not known yet.
Owner == "owner@acme"
Newcomer == "new@acme"

Spare(full, rows) == IF full THEN rows ELSE {}

NothingSeen ==
  [org |-> 0, plan |-> "free", role |-> "viewer", dek |-> NoDek,
   values |-> <<>>, rows |-> {}, sent |-> {}, tokens |-> 0]

\* Organization 0 has an owner, a key and a secret, its month's investigations
\* in the row of request 0, and one of each quota left, or none.
Init ==
  /\ work \in Workloads
  /\ \E dek \in {0, NoDek}, customer, full \in BOOLEAN :
       db = [orgs |-> [o \in {0} |-> [plan |-> "free", dek |-> dek, customer |-> customer]],
             users |-> {Owner, "viewer@acme"} \union Spare(full, {"sre@acme"}),
             members |-> [m \in {0} \X ({Owner, "viewer@acme"} \union Spare(full, {"sre@acme"})) |->
                            IF m[2] = Owner THEN "owner" ELSE "viewer"],
             keys |-> [k \in {0} \union Spare(full, {-1}) |->
                         [org |-> 0, role |-> "owner", state |-> "active"]],
             secrets |-> [s \in {<<0, "github">>} |-> Encrypted(dek, 0)],
             usage |-> [u \in {<<0, "investigation", 0>>} |->
                          [amount |-> IF full THEN 50 ELSE 49, synced |-> FALSE]]]
  /\ at = [r \in Requests |-> 1] /\ out = [r \in Requests |-> "open"]
  /\ seen = [r \in Requests |-> NothingSeen]
  /\ spend = 0 /\ billed = {}
  /\ raced = FALSE /\ written = [name \in {"github"} |-> 0] /\ late = {}
  /\ peak = [kind \in DOMAIN Gate |-> 0] /\ blind = 0

-----------------------------------------------------------------------------
(* Steps of a script.                                                      *)

Now(r, step) == out[r] = "open" /\ Scripts[work[r]][at[r]] = step

\* The next call of the script; past the last one the request is answered.
Go(r, n) ==
  IF at[r] + n > Len(Scripts[work[r]])
  THEN out' = [out EXCEPT ![r] = "done"] /\ UNCHANGED at
  ELSE at' = [at EXCEPT ![r] = @ + n] /\ UNCHANGED out

Stop(r, outcome) == out' = [out EXCEPT ![r] = outcome] /\ UNCHANGED at

See(r, field, value) == seen' = [seen EXCEPT ![r][field] = value]

Frame == UNCHANGED <<work, spend, billed, history>>

\* A check: the request goes on or is refused.
Check(r, step, ok) ==
  /\ Now(r, step)
  /\ IF ok THEN Go(r, 1) ELSE Stop(r, "refused")
  /\ UNCHANGED <<db, seen>> /\ Frame

\* A read: on success its result is kept, otherwise the request is refused.
Read(r, step, ok, field, value) ==
  /\ Now(r, step)
  /\ \/ ok /\ Go(r, 1) /\ See(r, field, value)
     \/ ~ok /\ Stop(r, "refused") /\ UNCHANGED seen
  /\ UNCHANGED db /\ Frame

-----------------------------------------------------------------------------
(* require_auth and require_perm.                                          *)

\* resolve_api_key: the key's role is what the request goes on with.
Key(r) ==
  Read(r, "key", KeyResolves(db, 0), "role",
       IF 0 \in DOMAIN db.keys THEN db.keys[0].role ELSE "viewer")

\* Time passes: the key of the requests reaches its expiry.
Expire ==
  /\ KeyResolves(db, 0) /\ db' = [db EXCEPT !.keys[0].state = "expired"]
  /\ UNCHANGED <<at, out, seen>> /\ Frame

\* resolve_jwt: the first membership of the claim's email.
Membership(r) ==
  /\ Now(r, "membership")
  /\ \/ /\ MembershipsOf(db, Owner) = {}
        /\ Stop(r, "refused") /\ UNCHANGED seen
     \/ \E m \in MembershipsOf(db, Owner) :
          /\ seen' = [seen EXCEPT ![r].org = m[1], ![r].role = db.members[m]]
          /\ Go(r, 1)
  /\ UNCHANGED db /\ Frame

GetOrg(r) ==
  LET org == seen[r].org
  IN  Read(r, "org", org \in DOMAIN db.orgs, "plan",
           IF org \in DOMAIN db.orgs THEN db.orgs[org].plan ELSE "free")

\* get_integration_secrets reads the data key in one connection ...
GetDek(r) == Read(r, "dek", TRUE, "dek", WrappedDek(db, seen[r].org))

\* ... and the rows in another; a row of another key raises.  An authenticated
\* request then meets its route's permission.
GetRows(r) ==
  LET rows == SecretsOf(db, seen[r].org)
  IN  /\ Now(r, "rows")
      /\ \/ /\ \E name \in DOMAIN rows : ~Decrypts(seen[r].dek, rows[name])
            /\ Stop(r, "failed") /\ UNCHANGED seen
         \/ /\ \A name \in DOMAIN rows : Decrypts(seen[r].dek, rows[name])
            /\ See(r, "values", [name \in DOMAIN rows |-> rows[name].value])
            /\ IF work[r] \in DOMAIN Permission
                    /\ ~Can(seen[r].role, Permission[work[r]])
               THEN Stop(r, "refused") ELSE Go(r, 1)
      /\ UNCHANGED db /\ Frame
-----------------------------------------------------------------------------
(* Keys and members: a quota is counted in one call and used in another,   *)
(* against the plan that authentication saw.                               *)

CountKeys(r) ==
  Check(r, "countKeys",
        WithinQuota(seen[r].plan, "api_keys", CountActiveKeys(db, seen[r].org)))

CountSeats(r) ==
  Check(r, "countMembers",
        WithinQuota(seen[r].plan, "seats", CountMembers(db, seen[r].org)))

\* A write: one transaction of the store, then the next call.
Write(r, step, newDb) ==
  /\ Now(r, step) /\ db' = newDb
  /\ Go(r, 1) /\ UNCHANGED seen /\ Frame

\* Sign-up makes owners, the other endpoints give the role they are asked for.
Roles(r) == IF work[r] = "signup" THEN {"owner"} ELSE {"responder", "superuser"}

IssueKey(r) ==
  \E role \in Roles(r) :
    Write(r, "issueKey", InsertKey(db, r, seen[r].org, NormalizeRole(role)))

\* Any key may be named, the caller's own included.
Revoke(r) ==
  /\ Now(r, "revokeKey")
  /\ \E key \in DOMAIN db.keys \union {0} : db' = RevokeKey(db, key, seen[r].org)
  /\ IF db' = db THEN Stop(r, "refused") ELSE Go(r, 1)
  /\ UNCHANGED seen /\ Frame

\* scim_create_user and scim_deprovision_user look the user up first; only the
\* latter has nothing to do when there is none.
LookUser(r) ==
  /\ Now(r, "lookUser")
  /\ IF Newcomer \in db.users
     THEN Go(r, IF work[r] = "provision" THEN 3 ELSE 1)
     ELSE IF work[r] = "provision" THEN Go(r, 1) ELSE Stop(r, "done")
  /\ UNCHANGED <<db, seen>> /\ Frame

\* create_user returns the user when there is one.
FindUser(r) ==
  /\ Now(r, "findUser")
  /\ Go(r, IF Newcomer \in db.users THEN 2 ELSE 1)
  /\ UNCHANGED <<db, seen>> /\ Frame

\* The email is UNIQUE: whoever lost the race gets an IntegrityError.
InsertUser(r) ==
  /\ Now(r, "insertUser")
  /\ \/ /\ Newcomer \in db.users
        /\ Stop(r, "failed") /\ UNCHANGED db
     \/ /\ Newcomer \notin db.users
        /\ db' = [db EXCEPT !.users = @ \union {Newcomer}] /\ Go(r, 1)
  /\ UNCHANGED seen /\ Frame

AddMember(r) ==
  \E role \in Roles(r) :
    Write(r, "addMember", InsertMember(db, seen[r].org, Newcomer, NormalizeRole(role)))

RemoveMember(r) == Write(r, "removeMember", DeleteMember(db, seen[r].org, Newcomer))

\* signup: one organization per address.
SeekMembership(r) == Check(r, "seekMembership", MembershipsOf(db, Newcomer) = {})

CreateOrg(r) ==
  /\ Now(r, "insertOrg")
  /\ db' = InsertOrg(db, r, "free", r)
  /\ See(r, "org", r) /\ Go(r, 1) /\ Frame

\* admin_set_plan normalizes what it is asked for.
SetPlan(r) ==
  \E plan \in {"free", "team", "gold"} :
    /\ work[r] = "set_plan"
    /\ Write(r, "setPlan", UpdatePlan(db, seen[r].org, NormalizePlan(plan)))

\* plan_from_stripe_event: the plan an event asks for, "ignored" if none.
PlanFromStripe(event, plan) ==
  CASE event = "deleted" -> "free"
    [] event \in {"created", "updated"} /\ plan \in DOMAIN PlanQuotas -> plan
    [] OTHER -> "ignored"

StripeEvent(r) ==
  \E event \in {"updated", "deleted", "paid"}, plan \in {"team", "gold"} :
    LET asked == PlanFromStripe(event, plan)
    IN  /\ work[r] = "stripe"
        /\ Write(r, "setPlan",
                 IF asked = "ignored" THEN db ELSE UpdatePlan(db, seen[r].org, asked))

-----------------------------------------------------------------------------
(* Secrets and keys.  A change of the secrets reads the data key in one    *)
(* connection and commits in another.                                      *)

\* Requests that have read what they will write back, and not written it yet.
Writing == {r \in Requests : Now(r, "write")}
Rotating == {r \in Requests : Now(r, "swap")}

\* Rotations that have found a data key to retire.
Retiring == {r \in Requests : work[r] = "rotate" /\ out[r] = "open" /\ at[r] > 1}

\* A rotation or erasure that commits while another change is under way, a
\* secret written while a rotation is under way, and an organization deleted
\* under a rotation, whose UPDATEs find the rows but not the organization, race.
Races(r) ==
  raced' = (\/ raced
            \/ Rotating \ {r} # {}
            \/ work[r] # "set_secret" /\ Writing # {}
            \/ Now(r, "delete") /\ Retiring # {})

DekToWrite(r) == Read(r, "dekToWrite", TRUE, "dek", WrappedDek(db, seen[r].org))

\* INSERT OR REPLACE of the new or of a known name.
WriteSecret(r) ==
  \E name \in {"github", "datadog"} :
    /\ Now(r, "write")
    /\ db' = InsertSecret(db, seen[r].org, name, Encrypted(seen[r].dek, r))
    /\ written' = Put(written, name, r)
    /\ Races(r) /\ Go(r, 1)
    /\ UNCHANGED <<work, seen, spend, billed, late, blind>>

\* rotate_org_dek returns False without a data key; it reads the key again
\* together with the secrets.
DekToRetire(r) ==
  /\ Now(r, "dekToRetire")
  /\ IF WrappedDek(db, seen[r].org) = NoDek THEN Stop(r, "done") ELSE Go(r, 1)
  /\ UNCHANGED <<db, seen>> /\ Frame

Swap(r) ==
  /\ Now(r, "swap")
  /\ db' = SwapDek(db, seen[r].org, r, seen[r].values)
  /\ Races(r) /\ Go(r, 1)
  /\ UNCHANGED <<work, seen, spend, billed, written, late, blind>>

\* gdpr_delete_org: the keys are shredded, then the rows deleted.  (The SELECT
\* that tells whether the organization exists changes nothing.)
Shred(r) ==
  /\ Now(r, "shred")
  /\ db' = ShredOrg(db, seen[r].org)
  /\ Races(r) /\ Go(r, 1)
  /\ UNCHANGED <<work, seen, spend, billed, written, late, blind>>

\* A request of the organization that is past its authentication.
InFlight(r) ==
  /\ work[r] \in DOMAIN Permission
  /\ out[r] = "open" /\ at[r] > 2 /\ seen[r].org = 0

Delete(r) ==
  /\ Now(r, "delete")
  /\ db' = DeleteOrg(db, seen[r].org)
  /\ late' = late \union {q \in Requests : InFlight(q)}
  /\ Races(r) /\ Go(r, 1)
  /\ UNCHANGED <<work, seen, spend, billed, written, blind>>

-----------------------------------------------------------------------------
(* An investigation: gated by what was used before, metered afterwards.    *)
(* One that pauses ends its request unmetered; the request that approves   *)
(* it, and an investigation that an incident triggered, run without any    *)
(* gate, and a triggered one has no tenant to be metered for.              *)

Quota(r) ==
  Check(r, "quota", WithinQuota(seen[r].plan, "investigations",
                                UsageTotal(db, seen[r].org, "investigation")))

OverCap(total) == TokenCap > 0 /\ total >= TokenCap

\* A Redis that fails answers 0 ...
Cap(r) ==
  /\ Now(r, "cap")
  /\ \E total \in {spend, 0} :
       /\ IF OverCap(total) THEN Stop(r, "refused") ELSE Go(r, 1)
       /\ blind' = IF OverCap(spend) /\ ~OverCap(total) THEN blind + 1 ELSE blind
  /\ UNCHANGED <<work, db, seen, spend, billed, raced, written, late>>

\* Only a turn that completes is metered.
Run(r) ==
  /\ Now(r, "run")
  /\ \/ \E tokens \in 0 .. MaxTokens : See(r, "tokens", tokens) /\ Go(r, 1)
     \/ Stop(r, "done") /\ UNCHANGED seen
  /\ UNCHANGED db /\ Frame

\* record_investigation: an exception is logged and costs both rows, and a row
\* whose request id was used before is dropped.
Meter(r) ==
  /\ Now(r, "meter")
  /\ \/ /\ db' = RecordUsage(db, seen[r].org, "investigation", 1, RequestId(r))
        /\ Go(r, IF seen[r].tokens = 0 THEN 2 ELSE 1)
     \/ UNCHANGED db /\ Go(r, 2)
  /\ UNCHANGED seen /\ Frame

MeterTokens(r) ==
  Write(r, "meterTokens", RecordUsage(db, seen[r].org, "tokens", seen[r].tokens, RequestId(r)))

\* ... and counts nothing.  _record_spend: without a cap nothing is counted.
Charge(r) ==
  /\ Now(r, "charge")
  /\ spend' \in {spend, IF TokenCap > 0 THEN spend + seen[r].tokens ELSE spend}
  /\ Go(r, 1)
  /\ UNCHANGED <<work, db, seen, billed, history>>

\* _roll, RedisSpend._key: the window is over.
Roll == spend > 0 /\ spend' = 0 /\ UNCHANGED <<work, db, at, out, seen, billed, history>>

-----------------------------------------------------------------------------
(* Billing and retention.                                                  *)

LinkCustomer(r) ==
  Write(r, "linkCustomer",
        IF 0 \in DOMAIN db.orgs THEN [db EXCEPT !.orgs[0].customer = TRUE] ELSE db)

Purge(r) ==
  \E expired \in SUBSET {u \in DOMAIN db.usage : u[3] = 0} :
    Write(r, "purge", PurgeUsage(db, expired))

Unsynced(r) == Read(r, "unsynced", TRUE, "rows", UnsyncedUsage(db, "investigation"))

\* Mutant: every attempt to send gets an identifier of its own.
AttemptIdentifier(r, row) == <<row, r>>

\* Stripe drops a meter event whose identifier it has.
Identifier(r, row) == row

HasCustomer(row) == row[1] \in DOMAIN db.orgs /\ db.orgs[row[1]].customer

Sent(r, row, ok) == IF ok THEN seen[r].sent \union {row} ELSE seen[r].sent

\* One row: no customer, sent, or failed and left for the next sync.
Send(r) ==
  /\ Now(r, "send")
  /\ \/ \E row \in seen[r].rows, ok \in BOOLEAN :
          /\ seen' = [seen EXCEPT ![r].rows = @ \ {row},
                                  ![r].sent = Sent(r, row, ok /\ HasCustomer(row))]
          /\ billed' = IF ok /\ HasCustomer(row)
                       THEN billed \union {[id |-> Identifier(r, row), row |-> row]}
                       ELSE billed
          /\ UNCHANGED <<at, out>>
     \/ seen[r].rows = {} /\ Go(r, 1) /\ UNCHANGED <<seen, billed>>
  /\ UNCHANGED <<work, db, spend, history>>

Mark(r) == Write(r, "markSynced", MarkSynced(db, seen[r].sent))

\* The process dies between two calls of a sync.
Crash(r) ==
  /\ work[r] = "sync" /\ out[r] = "open" /\ at[r] > 1
  /\ Stop(r, "failed") /\ UNCHANGED <<db, seen>> /\ Frame

-----------------------------------------------------------------------------
Authenticate(r) == Key(r) \/ Membership(r) \/ GetOrg(r) \/ GetDek(r) \/ GetRows(r)

Administer(r) ==
  \/ CountKeys(r) \/ CountSeats(r) \/ IssueKey(r) \/ Revoke(r) \/ SetPlan(r)
  \/ StripeEvent(r)
  \/ LookUser(r) \/ FindUser(r) \/ InsertUser(r) \/ AddMember(r)
  \/ RemoveMember(r) \/ SeekMembership(r) \/ CreateOrg(r)

Secure(r) ==
  DekToWrite(r) \/ WriteSecret(r) \/ DekToRetire(r) \/ Swap(r) \/ Shred(r) \/ Delete(r)

Spend(r) == Quota(r) \/ Cap(r) \/ Run(r) \/ Meter(r) \/ MeterTokens(r) \/ Charge(r)

Bill(r) ==
  LinkCustomer(r) \/ Purge(r) \/ Unsynced(r) \/ Send(r) \/ Mark(r) \/ Crash(r)

\* Requests past the check of their kind and not answered yet.
Past(kind) ==
  {r \in Requests : work[r] = kind /\ out[r] = "open" /\ at[r] > Gate[kind]}

Observe ==
  peak' = [kind \in DOMAIN Gate |-> Max({peak[kind], Cardinality(Past(kind)')})]

Next ==
  /\ \/ \E r \in Requests :
          Authenticate(r) \/ Administer(r) \/ Secure(r) \/ Spend(r) \/ Bill(r)
     \/ Roll
     \/ Expire
  /\ Observe

Spec == Init /\ [][Next]_vars

-----------------------------------------------------------------------------
(* Properties.                                                             *)

\* The type invariant.
TypeOK ==
  /\ \A r \in Requests : at[r] \in 1 .. Len(Scripts[work[r]])
  /\ out \in [Requests -> {"open", "done", "refused", "failed"}]
  /\ spend \in Nat /\ raced \in BOOLEAN /\ late \subseteq Requests
  /\ \A o \in DOMAIN db.orgs :
       /\ o \in 0 .. Len(work) /\ db.orgs[o].plan \in DOMAIN PlanQuotas
       /\ db.orgs[o].dek \in -1 .. Len(work)
  /\ \A k \in DOMAIN db.keys :
       /\ db.keys[k].role \in DOMAIN RoleRank
       /\ db.keys[k].state \in {"active", "expired", "revoked"}
  /\ \A m \in DOMAIN db.members : m[2] \in db.users /\ db.members[m] \in DOMAIN RoleRank
  /\ \A u \in DOMAIN db.usage : db.usage[u].amount \in Nat

Of(kinds) == Cardinality({r \in Requests : work[r] \in kinds})

\* n requests past the check together overshoot a limit by n - 1 at most.
Overshoot(limit, n) == IF n = 0 THEN limit ELSE limit + n - 1

PlanStays == Of({"set_plan", "stripe"}) = 0

\* A quota is counted in one store call and used in another: an organization on
\* the free plan has more active keys, seats or investigations than its plan
\* allows by those requests that were past the check at the same time and by
\* those that pass no check at all, and the fleet spends past its cap what such
\* investigations cost, and those let in while the cap could not be read.  Of the
\* unchecked ones, provisioning by SCIM takes seats, an approval uses a unit of
\* the quota and spends tokens, a triggered investigation spends tokens
\* (main.py:509-524, 941-963, 1060-1096, 1213, 1239, 1410-1425).
LimitsOvershootByOverlap ==
  /\ PlanStays =>
       /\ CountActiveKeys(db, 0) <= Overshoot(2, peak.create_key)
       /\ CountMembers(db, 0) <= Overshoot(3, peak.add_member) + Of({"provision"})
       /\ UsageTotal(db, 0, "investigation")
            <= Overshoot(50, peak.investigate) + Of({"approve"})
  /\ TokenCap > 0 =>
       spend <= TokenCap - 1
                + (peak.investigate + blind + Of({"approve", "triggered"})) * MaxTokens

\* Whatever is stored can be read back, with the value that was written last,
\* over any number of rotations, as long as no two changes of an organization's
\* secrets, of which one changes its key, overlap.
SecretsReadable ==
  raced \/ \A s \in DOMAIN db.secrets :
    /\ Decrypts(WrappedDek(db, s[1]), db.secrets[s])
    /\ db.secrets[s].value = written[s[2]]

\* What is found of an organization that was erased was written by requests
\* that were past their authentication when it was, or by SCIM, which does not
\* look whether its organization exists.  (Only a rotation that read the secrets
\* before the erasure can bring an old value back, into such a late row.)
ErasureLeavesNothing ==
  0 \notin DOMAIN db.orgs =>
    /\ \A k \in DOMAIN db.keys : db.keys[k].org = 0 => k \in late
    /\ \A s \in DOMAIN db.secrets : s[1] = 0 => raced \/ db.secrets[s].value \in late
    /\ \A u \in DOMAIN db.usage : u[1] = 0 => \E r \in late : u[3] = RequestId(r)
    /\ \A m \in DOMAIN db.members :
         m[1] = 0 => \E r \in Requests :
           work[r] = "provision" \/ (r \in late /\ work[r] = "add_member")

\* A row marked as synced is billed, and no row is billed twice, whatever
\* crashes between the send and the mark and however many syncs run at once.
BillingMatchesLedger ==
  /\ \A u \in DOMAIN db.usage :
       db.usage[u].synced => \E e \in billed : e.row = u
  /\ \A e, f \in billed : e.row = f.row => e = f

\* An address owns one organization: sign-up refuses a known address.
OneOrgPerEmail ==
  Cardinality({m \in MembershipsOf(db, Newcomer) : db.members[m] = "owner"}) <= 1
=============================================================================

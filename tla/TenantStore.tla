---------------------------- MODULE TenantStore ----------------------------
(***************************************************************************)
(* The tenant database of src/app/tenancy as a value: one record of        *)
(* tables, one operator for each SQL statement of store.py that a request  *)
(* runs, and the role and quota tables of models.py.                       *)
(*                                                                         *)
(* A statement, or the statements of one transaction, is atomic in SQLite; *)
(* two statements of one method are not, and TenantRequests takes them in  *)
(* separate steps.  A user is its email (UNIQUE in the schema); keys, new  *)
(* organizations and data keys are named after the request that made them. *)
(***************************************************************************)
EXTENDS Integers, FiniteSets, FiniteSetsExt

\* models.ROLE_RANK and _PERMISSIONS.
RoleRank == [viewer |-> 0, responder |-> 1, admin |-> 2, owner |-> 3]

NeededRole ==
  [view |-> "viewer", run_investigation |-> "responder",
   approve_action |-> "responder", manage_integrations |-> "admin",
   manage_members |-> "admin", manage_api_keys |-> "admin",
   manage_billing |-> "owner", delete_org |-> "owner"]

Can(role, action) ==
  /\ role \in DOMAIN RoleRank /\ action \in DOMAIN NeededRole
  /\ RoleRank[role] >= RoleRank[NeededRole[action]]

\* models.PLAN_QUOTAS: -1 is no limit.
PlanQuotas ==
  [free |-> [investigations |-> 50, seats |-> 3, api_keys |-> 2],
   team |-> [investigations |-> 1000, seats |-> 25, api_keys |-> 20],
   enterprise |-> [investigations |-> -1, seats |-> -1, api_keys |-> -1]]

NormalizeRole(role) == IF role \in DOMAIN RoleRank THEN role ELSE "viewer"

\* Mutant: the plan is taken as it comes.
PlanAsAsked(plan) == plan

NormalizePlan(plan) == IF plan \in DOMAIN PlanQuotas THEN plan ELSE "free"

\* Mutant: the limit itself is still within the quota.
WithinQuotaInclusive(plan, key, current) ==
  LET limit == PlanQuotas[plan][key] IN limit < 0 \/ current <= limit

WithinQuota(plan, key, current) ==
  LET limit == PlanQuotas[plan][key] IN limit < 0 \/ current < limit

\* INSERT OR REPLACE: this row of a table has this value.
Put(table, row, value) ==
  [r \in DOMAIN table \union {row} |-> IF r = row THEN value ELSE table[r]]

\* DELETE: these rows of a table are gone.
Without(table, gone) == [row \in DOMAIN table \ gone |-> table[row]]

\* The rows of an organization, by a key that begins with it.
OwnRows(table, org) == {row \in DOMAIN table : row[1] = org}

-----------------------------------------------------------------------------
(* Organizations, users and members.                                       *)

InsertOrg(db, org, plan, dek) ==
  [db EXCEPT !.orgs = Put(@, org, [plan |-> plan, dek |-> dek, customer |-> FALSE])]

UpdatePlan(db, org, plan) ==
  IF org \in DOMAIN db.orgs THEN [db EXCEPT !.orgs[org].plan = plan] ELSE db

InsertMember(db, org, email, role) ==
  [db EXCEPT !.members = Put(@, <<org, email>>, role)]

DeleteMember(db, org, email) ==
  [db EXCEPT !.members = Without(@, {<<org, email>>})]

\* get_membership_by_email takes LIMIT 1: any of them.
MembershipsOf(db, email) == {m \in DOMAIN db.members : m[2] = email}

CountMembers(db, org) == Cardinality({m \in DOMAIN db.members : m[1] = org})

-----------------------------------------------------------------------------
(* API keys.                                                               *)

InsertKey(db, id, org, role) ==
  [db EXCEPT !.keys = Put(@, id, [org |-> org, role |-> role, state |-> "active"])]

\* resolve_api_key, for a key whose secret is right.
KeyResolves(db, id) == id \in DOMAIN db.keys /\ db.keys[id].state = "active"

\* The UPDATE is scoped to the caller's organization.
RevokeKey(db, id, org) ==
  IF id \in DOMAIN db.keys /\ db.keys[id].org = org
  THEN [db EXCEPT !.keys[id].state = "revoked"] ELSE db

\* An expired key still counts.
CountActiveKeys(db, org) ==
  Cardinality({k \in DOMAIN db.keys :
                 db.keys[k].org = org /\ db.keys[k].state # "revoked"})

-----------------------------------------------------------------------------
(* Integration secrets, encrypted under the organization's data key (dek). *)

\* No data key: the secrets are under the vault's own key.
NoDek == -1

\* Also of an organization that does not exist.
WrappedDek(db, org) == IF org \in DOMAIN db.orgs THEN db.orgs[org].dek ELSE NoDek

Encrypted(dek, value) == [under |-> dek, value |-> value]

\* decrypt() raises on a token of another key.
Decrypts(dek, token) == token.under = dek

SecretsOf(db, org) ==
  LET rows == {s \in DOMAIN db.secrets : s[1] = org}
  IN  [name \in {s[2] : s \in rows} |-> db.secrets[<<org, name>>]]

InsertSecret(db, org, name, token) ==
  [db EXCEPT !.secrets = Put(@, <<org, name>>, token)]

\* Mutant: the rows are encrypted again under the key that is retired.
SwapDekKeepRows(db, org, dek, values) ==
  IF org \in DOMAIN db.orgs THEN [db EXCEPT !.orgs[org].dek = dek] ELSE db

\* One transaction: the new key and the rows that were read before it began.
SwapDek(db, org, dek, values) ==
  [db EXCEPT
     !.orgs = [o \in DOMAIN @ |->
                 IF o = org THEN [db.orgs[o] EXCEPT !.dek = dek] ELSE @[o]],
     !.secrets = [s \in DOMAIN @ |->
                    IF s[1] = org /\ s[2] \in DOMAIN values
                    THEN Encrypted(dek, values[s[2]]) ELSE @[s]]]

ShredOrg(db, org) ==
  IF org \notin DOMAIN db.orgs THEN db
  ELSE [db EXCEPT !.secrets = Without(@, OwnRows(@, org)),
                  !.orgs[org].dek = NoDek]

\* Mutant: a table is missing from the list of those that are scoped to an org.
DeleteOrgButUsage(db, org) ==
  IF org \notin DOMAIN db.orgs THEN db
  ELSE [db EXCEPT !.members = Without(@, OwnRows(@, org)),
                  !.keys = Without(@, {k \in DOMAIN @ : db.keys[k].org = org}),
                  !.secrets = Without(@, OwnRows(@, org)),
                  !.orgs = Without(@, {org})]

DeleteOrg(db, org) ==
  IF org \notin DOMAIN db.orgs THEN db
  ELSE [db EXCEPT !.members = Without(@, OwnRows(@, org)),
                  !.keys = Without(@, {k \in DOMAIN @ : db.keys[k].org = org}),
                  !.secrets = Without(@, OwnRows(@, org)),
                  !.usage = Without(@, OwnRows(@, org)),
                  !.orgs = Without(@, {org})]

-----------------------------------------------------------------------------
(* Usage: rows keyed by their event_key <<organization, kind, request>>.   *)

\* INSERT OR IGNORE on the unique event_key.
RecordUsage(db, org, kind, amount, idem) ==
  IF <<org, kind, idem>> \in DOMAIN db.usage THEN db
  ELSE [db EXCEPT !.usage =
          Put(@, <<org, kind, idem>>, [amount |-> amount, synced |-> FALSE])]

\* SUM(amount): the rows of a kind, unit by unit.
Units(db, org, kind) ==
  UNION {{u} \X (1 .. db.usage[u].amount) :
           u \in {row \in OwnRows(db.usage, org) : row[2] = kind}}
UsageTotal(db, org, kind) == Cardinality(Units(db, org, kind))

UnsyncedUsage(db, kind) ==
  {u \in DOMAIN db.usage : u[2] = kind /\ ~db.usage[u].synced}

MarkSynced(db, rows) ==
  [db EXCEPT !.usage = [u \in DOMAIN @ |->
                          IF u \in rows THEN [@[u] EXCEPT !.synced = TRUE] ELSE @[u]]]

PurgeUsage(db, expired) ==
  [db EXCEPT !.usage = Without(@, expired)]
=============================================================================

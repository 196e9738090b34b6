------------------------ MODULE TenantRequestsProofs ------------------------
(***************************************************************************)
(* Proofs about TenantRequests, for any workloads, cap and tokens: the     *)
(* billing ledger, the secrets, the erasure of an organization, and the    *)
(* limits.                                                                 *)
(***************************************************************************)
EXTENDS TenantRequests, SequenceTheorems, FiniteSetTheorems, TLAPS

-----------------------------------------------------------------------------
(* The scripts, written out.                                               *)

LEMMA FourAndOne ==
  ASSUME NEW a, NEW b, NEW c, NEW d, NEW e
  PROVE  <<a, b, c, d>> \o <<e>> = <<a, b, c, d, e>>
<1> DEFINE S == {a, b, c, d, e}
<1>1. <<a, b, c, d>> \in Seq(S) /\ <<e>> \in Seq(S) /\ <<a, b, c, d, e>> \in Seq(S)
  OBVIOUS
<1>2. <<a, b, c, d>> \o <<e>> \in Seq(S) BY <1>1
<1>3. Len(<<a, b, c, d>> \o <<e>>) = 5 BY <1>1
<1>4. \A i \in 1 .. 5 : (<<a, b, c, d>> \o <<e>>)[i] = <<a, b, c, d, e>>[i] BY <1>1
<1> QED BY <1>1, <1>2, <1>3, <1>4, SeqEqual

LEMMA FourAndTwo ==
  ASSUME NEW a, NEW b, NEW c, NEW d, NEW e, NEW f
  PROVE  <<a, b, c, d>> \o <<e, f>> = <<a, b, c, d, e, f>>
<1> DEFINE S == {a, b, c, d, e, f}
<1>1. /\ <<a, b, c, d>> \in Seq(S) /\ <<e, f>> \in Seq(S)
      /\ <<a, b, c, d, e, f>> \in Seq(S)
  OBVIOUS
<1>2. <<a, b, c, d>> \o <<e, f>> \in Seq(S) BY <1>1
<1>3. Len(<<a, b, c, d>> \o <<e, f>>) = 6 BY <1>1
<1>4. \A i \in 1 .. 6 : (<<a, b, c, d>> \o <<e, f>>)[i] = <<a, b, c, d, e, f>>[i]
  BY <1>1
<1> QED BY <1>1, <1>2, <1>3, <1>4, SeqEqual

LEMMA FourAndFour ==
  ASSUME NEW a, NEW b, NEW c, NEW d, NEW e, NEW f, NEW g, NEW h
  PROVE  <<a, b, c, d>> \o <<e, f, g, h>> = <<a, b, c, d, e, f, g, h>>
<1> DEFINE S == {a, b, c, d, e, f, g, h}
<1>1. /\ <<a, b, c, d>> \in Seq(S) /\ <<e, f, g, h>> \in Seq(S)
      /\ <<a, b, c, d, e, f, g, h>> \in Seq(S)
  OBVIOUS
<1>2. <<a, b, c, d>> \o <<e, f, g, h>> \in Seq(S) BY <1>1
<1>3. Len(<<a, b, c, d>> \o <<e, f, g, h>>) = 8 BY <1>1
<1>4. \A i \in 1 .. 8 :
        (<<a, b, c, d>> \o <<e, f, g, h>>)[i] = <<a, b, c, d, e, f, g, h>>[i]
  BY <1>1
<1> QED BY <1>1, <1>2, <1>3, <1>4, SeqEqual

LEMMA FourAndSix ==
  ASSUME NEW a, NEW b, NEW c, NEW d, NEW e, NEW f, NEW g, NEW h, NEW i, NEW j
  PROVE  <<a, b, c, d>> \o <<e, f, g, h, i, j>> = <<a, b, c, d, e, f, g, h, i, j>>
<1> DEFINE S == {a, b, c, d, e, f, g, h, i, j}
<1>1. /\ <<a, b, c, d>> \in Seq(S) /\ <<e, f, g, h, i, j>> \in Seq(S)
      /\ <<a, b, c, d, e, f, g, h, i, j>> \in Seq(S)
  OBVIOUS
<1>2. <<a, b, c, d>> \o <<e, f, g, h, i, j>> \in Seq(S) BY <1>1
<1>3. Len(<<a, b, c, d>> \o <<e, f, g, h, i, j>>) = 10 BY <1>1
<1>4. \A n \in 1 .. 10 :
        (<<a, b, c, d>> \o <<e, f, g, h, i, j>>)[n] = <<a, b, c, d, e, f, g, h, i, j>>[n]
  BY <1>1
<1> QED BY <1>1, <1>2, <1>3, <1>4, SeqEqual

Kinds == DOMAIN Scripts

LEMMA KindsAre ==
  Kinds = {"create_key", "revoke_key", "add_member", "set_secret", "view_org",
           "view_secrets", "set_plan", "investigate", "approve", "triggered",
           "stripe", "provision", "deprovision", "signup", "rotate", "erase", "link", "purge", "sync"}
BY DEF Kinds, Scripts

LEMMA ScriptsAre ==
  /\ Scripts["create_key"] = <<"key", "org", "dek", "rows", "countKeys", "issueKey">>
  /\ Scripts["revoke_key"] = <<"key", "org", "dek", "rows", "revokeKey">>
  /\ Scripts["add_member"] = <<"membership", "org", "dek", "rows",
                               "countMembers", "findUser", "insertUser", "addMember">>
  /\ Scripts["set_secret"] = <<"membership", "org", "dek", "rows", "dekToWrite", "write">>
  /\ Scripts["view_org"] = <<"key", "org", "dek", "rows", "org">>
  /\ Scripts["view_secrets"] = <<"key", "org", "dek", "rows", "dek", "rows">>
  /\ Scripts["set_plan"] = <<"key", "org", "dek", "rows", "setPlan">>
  /\ Scripts["investigate"] = <<"key", "org", "dek", "rows",
                                "quota", "cap", "run", "meter", "meterTokens", "charge">>
  /\ Scripts["approve"] = <<"key", "org", "dek", "rows",
                            "run", "meter", "meterTokens", "charge">>
  /\ Scripts["triggered"] = <<"run", "charge">>
  /\ Scripts["stripe"] = <<"setPlan">>
  /\ Scripts["provision"] = <<"lookUser", "findUser", "insertUser", "addMember">>
  /\ Scripts["deprovision"] = <<"lookUser", "removeMember">>
  /\ Scripts["signup"] = <<"seekMembership", "insertOrg", "findUser", "insertUser",
                           "addMember", "issueKey">>
  /\ Scripts["rotate"] = <<"dekToRetire", "dek", "rows", "swap">>
  /\ Scripts["erase"] = <<"shred", "delete">>
  /\ Scripts["link"] = <<"linkCustomer">>
  /\ Scripts["purge"] = <<"purge">>
  /\ Scripts["sync"] = <<"unsynced", "send", "markSynced">>
BY FourAndOne, FourAndTwo, FourAndFour, FourAndSix DEF Scripts, ByKey, ByJwt

LEMMA LengthsAre ==
  /\ Len(Scripts["create_key"]) = 6 /\ Len(Scripts["revoke_key"]) = 5
  /\ Len(Scripts["add_member"]) = 8 /\ Len(Scripts["set_secret"]) = 6
  /\ Len(Scripts["view_org"]) = 5 /\ Len(Scripts["view_secrets"]) = 6
  /\ Len(Scripts["set_plan"]) = 5 /\ Len(Scripts["investigate"]) = 10
  /\ Len(Scripts["approve"]) = 8 /\ Len(Scripts["triggered"]) = 2
  /\ Len(Scripts["stripe"]) = 1 /\ Len(Scripts["provision"]) = 4
  /\ Len(Scripts["deprovision"]) = 2 /\ Len(Scripts["signup"]) = 6
  /\ Len(Scripts["rotate"]) = 4 /\ Len(Scripts["erase"]) = 2
  /\ Len(Scripts["link"]) = 1 /\ Len(Scripts["purge"]) = 1
  /\ Len(Scripts["sync"]) = 3
BY ScriptsAre

\* Where the calls are in the scripts.
CallAt(k, i, call) ==
  /\ call = "key" => i = 1
  /\ call = "membership" => i = 1 /\ k \in {"add_member", "set_secret"}
  /\ call = "dekToWrite" => i = 5 /\ k = "set_secret"
  /\ call = "write" => i = 6 /\ k = "set_secret"
  /\ call = "countKeys" => i = 5 /\ k = "create_key"
  /\ call = "issueKey" => i = 6 /\ k \in {"create_key", "signup"}
  /\ call = "revokeKey" => i = 5 /\ k = "revoke_key"
  /\ call = "countMembers" => i = 5 /\ k = "add_member"
  /\ call = "quota" => i = 5 /\ k = "investigate"
  /\ call = "cap" => i = 6 /\ k = "investigate"
  /\ call = "run" => \/ i = 7 /\ k = "investigate"
                     \/ i = 5 /\ k = "approve"
                     \/ i = 1 /\ k = "triggered"
  /\ call = "meter" => \/ i = 8 /\ k = "investigate"
                       \/ i = 6 /\ k = "approve"
  /\ call = "meterTokens" => \/ i = 9 /\ k = "investigate"
                             \/ i = 7 /\ k = "approve"
  /\ call = "charge" => \/ i = 10 /\ k = "investigate"
                        \/ i = 8 /\ k = "approve"
                        \/ i = 2 /\ k = "triggered"
  /\ call = "seekMembership" => i = 1 /\ k = "signup"
  /\ call = "insertOrg" => i = 2 /\ k = "signup"
  /\ call = "dekToRetire" => i = 1 /\ k = "rotate"
  /\ call = "swap" => i = 4 /\ k = "rotate"
  /\ call = "shred" => i = 1 /\ k = "erase"
  /\ call = "delete" => i = 2 /\ k = "erase"
  /\ call = "setPlan" => k \in {"set_plan", "stripe"}
  /\ call = "lookUser" => i = 1 /\ k \in {"provision", "deprovision"}
  /\ call = "findUser" => \/ i = 6 /\ k = "add_member"
                          \/ i = 2 /\ k = "provision"
                          \/ i = 3 /\ k = "signup"
  /\ call = "insertUser" => \/ i = 7 /\ k = "add_member"
                            \/ i = 3 /\ k = "provision"
                            \/ i = 4 /\ k = "signup"
  /\ call = "addMember" => \/ i = 8 /\ k = "add_member"
                           \/ i = 4 /\ k = "provision"
                           \/ i = 5 /\ k = "signup"

LEMMA CallsAreAt ==
  ASSUME NEW k \in Kinds, NEW i \in 1 .. Len(Scripts[k])
  PROVE  CallAt(k, i, Scripts[k][i])
<1> USE DEF CallAt
<1>1. CASE k = "create_key" BY <1>1, ScriptsAre, SMTT(30)
<1>2. CASE k = "revoke_key" BY <1>2, ScriptsAre, SMTT(30)
<1>3. CASE k = "add_member" BY <1>3, ScriptsAre, SMTT(30)
<1>4. CASE k = "set_secret" BY <1>4, ScriptsAre, SMTT(30)
<1>5. CASE k = "view_org" BY <1>5, ScriptsAre, SMTT(30)
<1>6. CASE k = "view_secrets" BY <1>6, ScriptsAre, SMTT(30)
<1>7. CASE k = "set_plan" BY <1>7, ScriptsAre, SMTT(30)
<1>8. CASE k = "investigate" BY <1>8, ScriptsAre, SMTT(30)
<1>9. CASE k = "stripe" BY <1>9, ScriptsAre, SMTT(30)
<1>10. CASE k = "provision" BY <1>10, ScriptsAre, SMTT(30)
<1>11. CASE k = "deprovision" BY <1>11, ScriptsAre, SMTT(30)
<1>12. CASE k = "signup" BY <1>12, ScriptsAre, SMTT(30)
<1>13. CASE k = "rotate"
  <2>1. Scripts[k] = <<"dekToRetire", "dek", "rows", "swap">> BY <1>13, ScriptsAre
  <2>2. \/ i = 1 /\ Scripts[k][i] = "dekToRetire"
        \/ i \in {2, 3} /\ Scripts[k][i] \in {"dek", "rows"}
        \/ i = 4 /\ Scripts[k][i] = "swap"
    BY <2>1
  <2> QED BY <2>2, <1>13
<1>14. CASE k = "erase" BY <1>14, ScriptsAre, SMTT(30)
<1>15. CASE k = "link" BY <1>15, ScriptsAre, SMTT(30)
<1>16. CASE k = "purge" BY <1>16, ScriptsAre, SMTT(30)
<1>17. CASE k = "sync" BY <1>17, ScriptsAre, SMTT(30)
<1>18. CASE k = "approve" BY <1>18, ScriptsAre, SMTT(30)
<1>19. CASE k = "triggered" BY <1>19, ScriptsAre, SMTT(30)
<1> QED
  BY <1>1, <1>2, <1>3, <1>4, <1>5, <1>6, <1>7, <1>8, <1>9, <1>10, <1>11, <1>12, <1>13,
     <1>14, <1>15, <1>16, <1>17, <1>18, <1>19, KindsAre

\* The converse, for the calls that write to the tables of an organization.
LEMMA CallsOf ==
  ASSUME NEW k \in Kinds
  PROVE  /\ k \in DOMAIN Permission =>
              /\ Len(Scripts[k]) > 3
              /\ Scripts[k][1] \in {"key", "membership"} /\ Scripts[k][2] = "org"
              /\ Scripts[k][3] = "dek" /\ Scripts[k][4] = "rows"
         /\ Scripts["set_secret"][5] = "dekToWrite" /\ Scripts["set_secret"][6] = "write"
         /\ Scripts["rotate"] = <<"dekToRetire", "dek", "rows", "swap">>
         /\ Scripts["signup"] = <<"seekMembership", "insertOrg", "findUser", "insertUser",
                                  "addMember", "issueKey">>
<1>1. CASE k = "create_key" BY <1>1, ScriptsAre DEF Permission
<1>2. CASE k = "revoke_key" BY <1>2, ScriptsAre DEF Permission
<1>3. CASE k = "add_member" BY <1>3, ScriptsAre DEF Permission
<1>4. CASE k = "set_secret" BY <1>4, ScriptsAre DEF Permission
<1>5. CASE k = "view_org" BY <1>5, ScriptsAre DEF Permission
<1>6. CASE k = "view_secrets" BY <1>6, ScriptsAre DEF Permission
<1>7. CASE k = "set_plan" BY <1>7, ScriptsAre DEF Permission
<1>8. CASE k = "investigate" BY <1>8, ScriptsAre DEF Permission
<1>9. CASE k = "stripe" BY <1>9, ScriptsAre DEF Permission
<1>10. CASE k = "provision" BY <1>10, ScriptsAre DEF Permission
<1>11. CASE k = "deprovision" BY <1>11, ScriptsAre DEF Permission
<1>12. CASE k = "signup" BY <1>12, ScriptsAre DEF Permission
<1>13. CASE k = "rotate" BY <1>13, ScriptsAre DEF Permission
<1>14. CASE k = "erase" BY <1>14, ScriptsAre DEF Permission
<1>15. CASE k = "link" BY <1>15, ScriptsAre DEF Permission
<1>16. CASE k = "purge" BY <1>16, ScriptsAre DEF Permission
<1>17. CASE k = "sync" BY <1>17, ScriptsAre DEF Permission
<1>18. CASE k = "approve" BY <1>18, ScriptsAre DEF Permission
<1>19. CASE k = "triggered" BY <1>19, ScriptsAre DEF Permission
<1> QED
  BY <1>1, <1>2, <1>3, <1>4, <1>5, <1>6, <1>7, <1>8, <1>9, <1>10, <1>11, <1>12, <1>13,
     <1>14, <1>15, <1>16, <1>17, <1>18, <1>19, KindsAre

-----------------------------------------------------------------------------
(* What every step does to the requests, and to the tables.                *)

Plans == DOMAIN PlanQuotas
Roles4 == DOMAIN RoleRank
Ids == 0 .. Len(work)

\* What a request has seen, as far as the proofs need it.
SeenTyped(s) ==
  /\ DOMAIN s = DOMAIN NothingSeen
  /\ s.org \in Ids /\ s.plan \in Plans /\ s.dek \in Ids \union {NoDek}
  /\ s.tokens \in Nat

\* The requests: a position in the script, an outcome, what was seen.  Only a
\* sign-up leaves organization 0, for the one it creates.
RequestsInv ==
  /\ work \in Seq(Kinds)
  /\ at \in [Requests -> Nat]
  /\ \A r \in Requests : at[r] \in 1 .. Len(Scripts[work[r]])
  /\ out \in [Requests -> {"open", "done", "refused", "failed"}]
  /\ seen = [r \in Requests |-> seen[r]]
  /\ \A r \in Requests : SeenTyped(seen[r])
  /\ \A r \in Requests :
       seen[r].org = IF work[r] = "signup" /\ at[r] > 2 THEN r ELSE 0

OrgRow == [plan : Plans, dek : Ids \union {NoDek}, customer : BOOLEAN]
KeyRow == [org : Ids, role : Roles4, state : {"active", "expired", "revoked"}]
UsageRow == [amount : Nat, synced : BOOLEAN]

\* The tables: the rows that can be read, and whose they are.  The owner belongs
\* to organization 0 alone, and so do the secrets.
TablesInv ==
  /\ DOMAIN db = {"orgs", "users", "members", "keys", "secrets", "usage"}
  /\ \A o \in DOMAIN db.orgs :
       /\ o \in Ids
       /\ db.orgs[o] \in OrgRow
  /\ \A k \in DOMAIN db.keys :
       db.keys[k] \in KeyRow
  /\ \A m \in DOMAIN db.members :
       m[2] \in db.users /\ db.members[m] \in Roles4 /\ (m[2] = Owner => m[1] = 0)
  /\ \A s \in DOMAIN db.secrets : s = <<0, s[2]>>
  /\ \A u \in DOMAIN db.usage : db.usage[u] \in UsageRow

\* addMember comes after the user is known to exist.
NewcomerIsBound ==
  \A r \in Requests : Now(r, "addMember") => Newcomer \in db.users

Histories == spend \in Nat /\ raced \in BOOLEAN /\ late \subseteq Requests

TypeInv == RequestsInv /\ TablesInv /\ NewcomerIsBound /\ Histories

Act(r) == Authenticate(r) \/ Administer(r) \/ Secure(r) \/ Spend(r) \/ Bill(r)

\* How a step of r moves it: it is answered, stays, or goes on in its script.
Moved(r) ==
  /\ out[r] = "open"
  /\ \/ at' = at /\ \E o \in {"done", "refused", "failed"} : out' = [out EXCEPT ![r] = o]
     \/ at' = at /\ out' = out
     \/ /\ out' = out
        /\ \E n \in {1, 2, 3} : /\ at[r] + n <= Len(Scripts[work[r]])
                                /\ at' = [at EXCEPT ![r] = @ + n]

LEMMA GoMoves ==
  ASSUME RequestsInv, NEW r \in Requests, NEW n \in {1, 2, 3}, out[r] = "open", Go(r, n)
  PROVE  Moved(r)
BY DEF RequestsInv, Go, Moved

LEMMA StopMoves ==
  ASSUME NEW r \in Requests, out[r] = "open",
         NEW o \in {"done", "refused", "failed"}, Stop(r, o)
  PROVE  Moved(r)
BY DEF Stop, Moved

LEMMA ActMoves ==
  ASSUME RequestsInv, NEW r \in Requests, Act(r)
  PROVE  Moved(r) /\ work' = work
<1> USE GoMoves, StopMoves DEF Now
<1>1. CASE Authenticate(r)
  BY <1>1 DEF Authenticate, Key, Membership, GetOrg, GetDek, GetRows, Read, Frame
<1>2. CASE Administer(r)
  <2> USE DEF Check, Write, Frame
  <2>1. CASE CountKeys(r) \/ CountSeats(r) \/ SeekMembership(r)
    BY <2>1 DEF CountKeys, CountSeats, SeekMembership
  <2>2. CASE IssueKey(r) \/ AddMember(r) \/ RemoveMember(r) \/ SetPlan(r) \/ StripeEvent(r)
    BY <2>2 DEF IssueKey, AddMember, RemoveMember, SetPlan, StripeEvent
  <2>3. CASE Revoke(r) \/ FindUser(r) \/ InsertUser(r) \/ CreateOrg(r)
    BY <2>3 DEF Revoke, FindUser, InsertUser, CreateOrg
  <2>4. CASE LookUser(r)
    BY <2>4 DEF LookUser
  <2> QED BY <1>2, <2>1, <2>2, <2>3, <2>4 DEF Administer
<1>3. CASE Secure(r)
  BY <1>3 DEF Secure, DekToWrite, WriteSecret, DekToRetire, Swap, Shred, Delete,
              Read, Frame
<1>4. CASE Spend(r)
  BY <1>4 DEF Spend, Quota, Cap, Run, Meter, MeterTokens, Charge, Check, Write, Frame
<1>5. CASE Bill(r)
  <2>1. CASE Send(r)
    BY <2>1 DEF Send, Moved
  <2>2. CASE LinkCustomer(r) \/ Purge(r) \/ Unsynced(r) \/ Mark(r) \/ Crash(r)
    BY <2>2 DEF LinkCustomer, Purge, Unsynced, Mark, Crash, Read, Write, Frame
  <2> QED BY <1>5, <2>1, <2>2 DEF Bill
<1> QED BY <1>1, <1>2, <1>3, <1>4, <1>5 DEF Act

\* What a step of r does to what the requests have seen.
Saw(r) ==
  /\ seen' = [q \in Requests |-> seen'[q]]
  /\ \A q \in Requests \ {r} : seen'[q] = seen[q]
  /\ SeenTyped(seen'[r])
  /\ IF CreateOrg(r) THEN seen'[r].org = r ELSE seen'[r].org = seen[r].org

LEMMA DekIsTyped ==
  ASSUME TablesInv, NEW o
  PROVE  WrappedDek(db, o) \in Ids \union {NoDek}
BY DEF TablesInv, OrgRow, WrappedDek

\* Only the owner's membership is ever looked up, and it is in organization 0.
LEMMA MembershipIsOwn ==
  ASSUME TablesInv, NEW m \in MembershipsOf(db, Owner)
  PROVE  m[1] = 0
BY DEF TablesInv, MembershipsOf

Fields == {"org", "plan", "role", "dek", "values", "rows", "sent", "tokens"}

LEMMA FieldsAre == DOMAIN NothingSeen = Fields
BY DEF NothingSeen, Fields

\* A request that keeps what it read sees that, and what it saw before.
LEMMA SeeOne ==
  ASSUME RequestsInv, NEW r \in Requests, NEW f \in Fields, NEW v, See(r, f, v)
  PROVE  /\ seen' = [q \in Requests |-> seen'[q]]
         /\ \A q \in Requests \ {r} : seen'[q] = seen[q]
         /\ DOMAIN seen'[r] = Fields
         /\ \A g \in Fields : seen'[r][g] = IF g = f THEN v ELSE seen[r][g]
<1>1. \A q \in Requests : DOMAIN seen[q] = Fields
  BY FieldsAre DEF RequestsInv, SeenTyped
<1> QED BY <1>1 DEF RequestsInv, See, Fields

LEMMA SeeIsSeen ==
  ASSUME RequestsInv, NEW r \in Requests, ~CreateOrg(r),
         NEW f \in Fields \ {"org"}, NEW v, See(r, f, v),
         f = "plan" => v \in Plans,
         f = "dek" => v \in Ids \union {NoDek},
         f = "tokens" => v \in Nat
  PROVE  Saw(r)
<1>1. SeenTyped(seen[r]) BY DEF RequestsInv
<1> QED BY <1>1, SeeOne, FieldsAre DEF Saw, SeenTyped, Fields

LEMMA NothingIsSeen ==
  ASSUME RequestsInv, NEW r \in Requests, ~CreateOrg(r), seen' = seen
  PROVE  Saw(r)
BY DEF RequestsInv, Saw

LEMMA NowIsTyped ==
  ASSUME RequestsInv, NEW r \in Requests
  PROVE  work[r] \in Kinds /\ at[r] \in 1 .. Len(Scripts[work[r]])
BY DEF RequestsInv, Requests

LEMMA NextCall ==
  ASSUME RequestsInv, NEW r \in Requests, NEW call, Now(r, call)
  PROVE  CallAt(work[r], at[r], call)
BY CallsAreAt, NowIsTyped DEF Now

LEMMA OtherCall ==
  ASSUME NEW r \in Requests, NEW call, Now(r, call), call # "insertOrg"
  PROVE  ~CreateOrg(r)
BY DEF CreateOrg, Now

LEMMA ActSees ==
  ASSUME RequestsInv, TablesInv, NEW r \in Requests, Act(r)
  PROVE  Saw(r)
<1> USE OtherCall, NothingIsSeen
<1>a. /\ {"role", "dek", "values", "rows", "tokens", "plan"} \subseteq Fields \ {"org"}
      /\ "org" \in Fields /\ "sent" \in Fields
  BY DEF Fields
<1>b. SeenTyped(seen[r]) BY DEF RequestsInv
<1>1. CASE Key(r)
  <2>1. ~CreateOrg(r) BY <1>1 DEF Key, Read
  <2>2. seen' = seen \/ \E v : See(r, "role", v) BY <1>1 DEF Key, Read
  <2> QED BY <2>1, <2>2, <1>a, SeeIsSeen
<1>2. CASE Membership(r)
  <2>1. ~CreateOrg(r) BY <1>2 DEF Membership
  <2>2. CASE seen' = seen BY <2>1, <2>2
  <2>3. ASSUME NEW m \in MembershipsOf(db, Owner),
               seen' = [seen EXCEPT ![r].org = m[1], ![r].role = db.members[m]]
        PROVE  Saw(r)
    <3>1. m[1] = 0 BY <2>3, MembershipIsOwn
    <3>2. at[r] = 1 /\ seen[r].org = 0
      BY <1>2, NextCall DEF Membership, CallAt, RequestsInv
    <3>3. DOMAIN seen[r] = Fields BY <1>b, FieldsAre DEF SeenTyped
    <3>4. /\ seen' = [q \in Requests |-> seen'[q]]
          /\ \A q \in Requests \ {r} : seen'[q] = seen[q]
          /\ DOMAIN seen'[r] = Fields
          /\ \A g \in Fields \ {"role"} : seen'[r][g] = seen[r][g]
      BY <2>3, <3>1, <3>2, <3>3 DEF RequestsInv, Fields
    <3> QED BY <2>1, <3>4, <1>b, FieldsAre DEF Saw, SeenTyped, Fields
  <2> QED BY <1>2, <2>2, <2>3 DEF Membership
<1>3. CASE GetOrg(r)
  <2>1. ~CreateOrg(r) BY <1>3 DEF GetOrg, Read
  <2>2. "free" \in Plans BY DEF Plans, PlanQuotas
  <2>3. \A o \in DOMAIN db.orgs : db.orgs[o].plan \in Plans BY DEF TablesInv, OrgRow
  <2>4. seen' = seen \/ \E v \in Plans : See(r, "plan", v)
    BY <1>3, <2>2, <2>3 DEF GetOrg, Read
  <2> QED BY <2>1, <2>4, <1>a, SeeIsSeen
<1>4. CASE GetDek(r) \/ DekToWrite(r)
  <2>1. ~CreateOrg(r) BY <1>4 DEF GetDek, DekToWrite, Read
  <2>2. seen' = seen \/ \E v \in Ids \union {NoDek} : See(r, "dek", v)
    BY <1>4, DekIsTyped DEF GetDek, DekToWrite, Read
  <2> QED BY <2>1, <2>2, <1>a, SeeIsSeen
<1>5. CASE GetRows(r) \/ Unsynced(r)
  <2>1. ~CreateOrg(r) BY <1>5 DEF GetRows, Unsynced, Read
  <2>2. seen' = seen \/ (\E v : See(r, "values", v)) \/ (\E v : See(r, "rows", v))
    BY <1>5 DEF GetRows, Unsynced, Read
  <2> QED BY <2>1, <2>2, <1>a, SeeIsSeen
<1>6. CASE Run(r)
  <2>1. ~CreateOrg(r) BY <1>6 DEF Run
  <2>2. seen' = seen \/ \E v \in Nat : See(r, "tokens", v)
    BY <1>6, CapAssumption DEF Run
  <2> QED BY <2>1, <2>2, <1>a, SeeIsSeen
<1>7. CASE Send(r)
  <2>1. ~CreateOrg(r) BY <1>7 DEF Send
  <2>2. CASE seen' = seen BY <2>1, <2>2
  <2>3. ASSUME NEW v, NEW w, seen' = [seen EXCEPT ![r].rows = v, ![r].sent = w]
        PROVE  Saw(r)
    <3>1. DOMAIN seen[r] = Fields BY <1>b, FieldsAre DEF SeenTyped
    <3>2. /\ seen' = [q \in Requests |-> seen'[q]]
          /\ \A q \in Requests \ {r} : seen'[q] = seen[q]
          /\ DOMAIN seen'[r] = Fields
          /\ \A g \in Fields \ {"rows", "sent"} : seen'[r][g] = seen[r][g]
      BY <2>3, <3>1 DEF RequestsInv, Fields
    <3> QED BY <2>1, <3>2, <1>b, FieldsAre DEF Saw, SeenTyped, Fields
  <2>4. \/ seen' = seen
        \/ \E v, w : seen' = [seen EXCEPT ![r].rows = v, ![r].sent = w]
    BY <1>7 DEF Send
  <2> QED BY <2>2, <2>3, <2>4
<1>8. CASE CreateOrg(r)
  <2>1. See(r, "org", r) BY <1>8 DEF CreateOrg
  <2>2. r \in Ids BY DEF Requests, Ids
  <2> QED BY <1>8, <2>1, <2>2, <1>a, <1>b, SeeOne, FieldsAre DEF Saw, SeenTyped, Fields
<1>9. CASE \/ CountKeys(r) \/ CountSeats(r) \/ IssueKey(r) \/ Revoke(r) \/ SetPlan(r)
           \/ StripeEvent(r) \/ LookUser(r) \/ FindUser(r) \/ InsertUser(r) \/ AddMember(r)
           \/ RemoveMember(r) \/ SeekMembership(r)
  <2>1. seen' = seen
    BY <1>9 DEF CountKeys, CountSeats, IssueKey, Revoke, SetPlan, StripeEvent, LookUser,
                FindUser, InsertUser, AddMember, RemoveMember, SeekMembership, Check, Write
  <2>2. ~CreateOrg(r)
    BY <1>9 DEF CountKeys, CountSeats, IssueKey, Revoke, SetPlan, StripeEvent, LookUser,
                FindUser, InsertUser, AddMember, RemoveMember, SeekMembership, Check, Write
  <2> QED BY <2>1, <2>2
<1>10. CASE \/ WriteSecret(r) \/ DekToRetire(r) \/ Swap(r) \/ Shred(r) \/ Delete(r)
            \/ Quota(r) \/ Cap(r) \/ Meter(r) \/ MeterTokens(r) \/ Charge(r)
  <2>1. seen' = seen
    BY <1>10 DEF WriteSecret, DekToRetire, Swap, Shred, Delete, Quota, Cap, Meter,
                 MeterTokens, Charge, Check, Write
  <2>2. ~CreateOrg(r)
    BY <1>10 DEF WriteSecret, DekToRetire, Swap, Shred, Delete, Quota, Cap, Meter,
                 MeterTokens, Charge, Check, Write
  <2> QED BY <2>1, <2>2
<1>11. CASE LinkCustomer(r) \/ Purge(r) \/ Mark(r) \/ Crash(r)
  <2>1. seen' = seen BY <1>11 DEF LinkCustomer, Purge, Mark, Crash, Write
  <2>2. ~CreateOrg(r)
    <3>1. CASE Crash(r)
      BY <3>1, NextCall DEF Crash, CreateOrg, CallAt
    <3> QED BY <1>11, <3>1 DEF LinkCustomer, Purge, Mark, Write
  <2> QED BY <2>1, <2>2
<1> QED
  BY <1>1, <1>2, <1>3, <1>4, <1>5, <1>6, <1>7, <1>8, <1>9, <1>10, <1>11
  DEF Act, Authenticate, Administer, Secure, Spend, Bill

\* A step of a request is the one its next call asks for, or the crash of a sync.
LEMMA StepIsTheCall ==
  ASSUME NEW r \in Requests, Act(r), ~Crash(r), NEW call, Now(r, call)
  PROVE  /\ call = "key" => Key(r)
         /\ call = "membership" => Membership(r)
         /\ call = "org" => GetOrg(r)
         /\ call = "dek" => GetDek(r)
         /\ call = "rows" => GetRows(r)
         /\ call = "countKeys" => CountKeys(r)
         /\ call = "countMembers" => CountSeats(r)
         /\ call = "issueKey" => IssueKey(r)
         /\ call = "revokeKey" => Revoke(r)
         /\ call = "lookUser" => LookUser(r)
         /\ call = "findUser" => FindUser(r)
         /\ call = "insertUser" => InsertUser(r)
         /\ call = "addMember" => AddMember(r)
         /\ call = "removeMember" => RemoveMember(r)
         /\ call = "seekMembership" => SeekMembership(r)
         /\ call = "insertOrg" => CreateOrg(r)
         /\ call = "dekToWrite" => DekToWrite(r)
         /\ call = "write" => WriteSecret(r)
         /\ call = "dekToRetire" => DekToRetire(r)
         /\ call = "swap" => Swap(r)
         /\ call = "shred" => Shred(r)
         /\ call = "delete" => Delete(r)
         /\ call = "quota" => Quota(r)
         /\ call = "cap" => Cap(r)
         /\ call = "run" => Run(r)
         /\ call = "meter" => Meter(r)
         /\ call = "meterTokens" => MeterTokens(r)
         /\ call = "charge" => Charge(r)
         /\ call = "linkCustomer" => LinkCustomer(r)
         /\ call = "purge" => Purge(r)
         /\ call = "unsynced" => Unsynced(r)
         /\ call = "send" => Send(r)
         /\ call = "markSynced" => Mark(r)
<1>1. \A other : Now(r, other) => other = call BY DEF Now
<1> HIDE DEF Now
<1> QED
  BY <1>1
  DEF Act, Authenticate, Administer, Secure, Spend, Bill, Key, Membership, GetOrg,
      GetDek, GetRows, CountKeys, CountSeats, IssueKey, Revoke, LookUser, FindUser,
      InsertUser, AddMember, RemoveMember, SeekMembership, CreateOrg, DekToWrite,
      WriteSecret, DekToRetire, Swap, Shred, Delete, Quota, Cap, Run, Meter,
      MeterTokens, Charge, LinkCustomer, Purge, Unsynced, Send, Mark, SetPlan,
      StripeEvent, Read, Check, Write

LEMMA RequestsKept ==
  ASSUME RequestsInv, TablesInv, NEW r \in Requests, Act(r)
  PROVE  RequestsInv'
<1>1. Moved(r) /\ work' = work BY ActMoves
<1>2. Saw(r) BY ActSees
<1>3. Requests' = Requests BY <1>1 DEF Requests
<1>4. /\ at' \in [Requests -> Nat]
      /\ \A q \in Requests : at'[q] \in 1 .. Len(Scripts[work[q]])
      /\ out' \in [Requests -> {"open", "done", "refused", "failed"}]
      /\ \A q \in Requests \ {r} : at'[q] = at[q]
      /\ at'[r] >= at[r]
  <2> USE DEF RequestsInv
  <2>1. CASE at' = at BY <1>1, <2>1 DEF Moved
  <2>2. CASE at' # at
    <3>1. PICK n \in {1, 2, 3} : /\ at[r] + n <= Len(Scripts[work[r]])
                                /\ at' = [at EXCEPT ![r] = @ + n]
      BY <1>1, <2>2 DEF Moved
    <3>2. out' = out BY <1>1, <2>2 DEF Moved
    <3> QED BY <3>1, <3>2
  <2> QED BY <2>1, <2>2
<1>5. \A q \in Requests : SeenTyped(seen[q])' 
  <2> TAKE q \in Requests
  <2>1. SeenTyped(seen'[q]) BY <1>2 DEF Saw, RequestsInv
  <2> QED BY <2>1, <1>1 DEF SeenTyped, Ids, Plans
<1>6. ASSUME work[r] = "signup", at[r] = 1
      PROVE  at'[r] <= 2 /\ ~CreateOrg(r)
  <2>1. Scripts[work[r]][at[r]] = "seekMembership" BY <1>6, CallsOf, NowIsTyped
  <2>2. work[r] # "sync" /\ Len(Scripts[work[r]]) = 6 BY <1>6, ScriptsAre
  <2>3. ~Crash(r) /\ Now(r, "seekMembership") BY <1>1, <2>1, <2>2 DEF Crash, Moved, Now
  <2>4. SeekMembership(r) BY <2>3, StepIsTheCall
  <2>5. at'[r] <= 2
    BY <2>4, <1>6, <2>2 DEF SeekMembership, Check, Go, Stop, RequestsInv
  <2> QED BY <2>4, <2>5, OtherCall DEF SeekMembership, Check
<1>7. CASE CreateOrg(r)
  <2>1. work[r] = "signup" /\ at[r] = 2 /\ Len(Scripts["signup"]) = 6
    BY <1>7, NextCall, ScriptsAre DEF CreateOrg, CallAt
  <2>2. at'[r] = 3 BY <1>7, <2>1 DEF CreateOrg, Go, RequestsInv
  <2> QED BY <1>1, <1>2, <1>3, <1>4, <1>5, <1>7, <2>1, <2>2 DEF RequestsInv, Saw
<1>8. CASE ~CreateOrg(r)
  <2>1. work[r] = "signup" => at[r] # 2
    <3> SUFFICES ASSUME work[r] = "signup", at[r] = 2 PROVE FALSE OBVIOUS
    <3>1. Scripts[work[r]][at[r]] = "insertOrg" BY CallsOf, NowIsTyped
    <3>2. ~Crash(r) /\ Now(r, "insertOrg") BY <1>1, <3>1 DEF Crash, Moved, Now
    <3> QED BY <3>2, <1>8, StepIsTheCall
  <2>2. work[r] = "signup" => (at'[r] > 2 <=> at[r] > 2)
    BY <2>1, <1>4, <1>6 DEF RequestsInv
  <2> QED BY <1>1, <1>2, <1>3, <1>4, <1>5, <1>8, <2>2 DEF RequestsInv, Saw
<1> QED BY <1>7, <1>8

\* What a step of r may write to the tables, and with what it saw.
Written(r) ==
  \/ db' = db
  \/ /\ Now(r, "issueKey")
     /\ \E role \in Roles4 : db' = InsertKey(db, r, seen[r].org, role)
  \/ \E key : db' = RevokeKey(db, key, seen[r].org)
  \/ Newcomer \notin db.users /\ db' = [db EXCEPT !.users = @ \union {Newcomer}]
  \/ /\ Now(r, "addMember")
     /\ \E role \in Roles4 : db' = InsertMember(db, seen[r].org, Newcomer, role)
  \/ db' = DeleteMember(db, seen[r].org, Newcomer)
  \/ Now(r, "insertOrg") /\ db' = InsertOrg(db, r, "free", r)
  \/ Now(r, "setPlan") /\ \E plan \in Plans : db' = UpdatePlan(db, seen[r].org, plan)
  \/ /\ Now(r, "write")
     /\ \E name : db' = InsertSecret(db, seen[r].org, name, Encrypted(seen[r].dek, r))
  \/ Now(r, "swap") /\ db' = SwapDek(db, seen[r].org, r, seen[r].values)
  \/ Now(r, "shred") /\ db' = ShredOrg(db, seen[r].org)
  \/ Now(r, "delete") /\ db' = DeleteOrg(db, seen[r].org)
  \/ Now(r, "meter") /\ db' = RecordUsage(db, seen[r].org, "investigation", 1, RequestId(r))
  \/ /\ Now(r, "meterTokens")
     /\ db' = RecordUsage(db, seen[r].org, "tokens", seen[r].tokens, RequestId(r))
  \/ 0 \in DOMAIN db.orgs /\ db' = [db EXCEPT !.orgs[0].customer = TRUE]
  \/ \E expired : db' = PurgeUsage(db, expired)
  \/ db' = MarkSynced(db, seen[r].sent)

LEMMA RolesAreNormal ==
  ASSUME NEW role
  PROVE  NormalizeRole(role) \in Roles4
BY DEF NormalizeRole, Roles4, RoleRank

LEMMA PlansAreNormal ==
  ASSUME NEW plan
  PROVE  NormalizePlan(plan) \in Plans
BY DEF NormalizePlan, Plans, PlanQuotas

LEMMA ActWrites ==
  ASSUME NEW r \in Requests, Act(r)
  PROVE  Written(r)
<1>1. CASE IssueKey(r)
  BY <1>1, RolesAreNormal DEF IssueKey, Write, Written
<1>2. CASE Revoke(r)
  BY <1>2 DEF Revoke, Written
<1>3. CASE InsertUser(r)
  BY <1>3 DEF InsertUser, Written
<1>4. CASE AddMember(r)
  BY <1>4, RolesAreNormal DEF AddMember, Write, Written
<1>5. CASE RemoveMember(r) \/ CreateOrg(r)
  BY <1>5 DEF RemoveMember, CreateOrg, Write, Written
<1>6. CASE SetPlan(r)
  BY <1>6, PlansAreNormal DEF SetPlan, Write, Written
<1>7. CASE StripeEvent(r)
  <2>1. PICK event \in {"updated", "deleted", "paid"}, plan \in {"team", "gold"} :
          Write(r, "setPlan",
                IF PlanFromStripe(event, plan) = "ignored" THEN db
                ELSE UpdatePlan(db, seen[r].org, PlanFromStripe(event, plan)))
    BY <1>7 DEF StripeEvent
  <2>2. PlanFromStripe(event, plan) \in Plans \union {"ignored"}
    BY DEF PlanFromStripe, Plans, PlanQuotas
  <2> QED BY <2>1, <2>2 DEF Write, Written
<1>8. CASE WriteSecret(r)
  BY <1>8 DEF WriteSecret, Written
<1>9. CASE Swap(r) \/ Shred(r) \/ Delete(r)
  BY <1>9 DEF Swap, Shred, Delete, Written
<1>10. CASE Meter(r) \/ MeterTokens(r)
  BY <1>10 DEF Meter, MeterTokens, Write, Written
<1>11. CASE LinkCustomer(r) \/ Purge(r) \/ Mark(r)
  BY <1>11 DEF LinkCustomer, Purge, Mark, Write, Written
<1>12. CASE \/ Authenticate(r) \/ CountKeys(r) \/ CountSeats(r) \/ LookUser(r) \/ FindUser(r)
            \/ SeekMembership(r) \/ DekToWrite(r) \/ DekToRetire(r) \/ Quota(r) \/ Cap(r)
            \/ Run(r) \/ Charge(r) \/ Unsynced(r) \/ Send(r) \/ Crash(r)
  <2>1. db' = db
    BY <1>12 DEF Authenticate, Key, Membership, GetOrg, GetDek, GetRows, CountKeys, CountSeats,
                 LookUser, FindUser, SeekMembership, DekToWrite, DekToRetire, Quota, Cap,
                 Run, Charge, Unsynced, Send, Crash, Check, Read
  <2> QED BY <2>1 DEF Written
<1> QED
  BY <1>1, <1>2, <1>3, <1>4, <1>5, <1>6, <1>7, <1>8, <1>9, <1>10, <1>11, <1>12
  DEF Act, Administer, Secure, Spend, Bill

LEMMA RowIsPut ==
  ASSUME NEW t, NEW k, NEW v
  PROVE  /\ DOMAIN Put(t, k, v) = {k} \union DOMAIN t
         /\ \A x \in {k} \union DOMAIN t : Put(t, k, v)[x] = IF x = k THEN v ELSE t[x]
BY DEF Put

LEMMA RowsStayTyped ==
  ASSUME NEW t, NEW k, NEW T, NEW v \in T, \A x \in DOMAIN t : t[x] \in T
  PROVE  \A x \in DOMAIN Put(t, k, v) : Put(t, k, v)[x] \in T
BY DEF Put

LEMMA TablesKept ==
  ASSUME RequestsInv, TablesInv, NewcomerIsBound, NEW r \in Requests, Act(r)
  PROVE  TablesInv' /\ db.users \subseteq db'.users
<1> DEFINE org == seen[r].org
<1>1. Written(r) BY ActWrites
<1>2. Ids' = Ids BY ActMoves DEF Ids
<1>3. org \in Ids /\ r \in Ids BY DEF RequestsInv, SeenTyped, Requests, Ids
<1>4. Plans' = Plans /\ Roles4' = Roles4 BY DEF Plans, Roles4
<1>a. /\ OrgRow' = OrgRow /\ KeyRow' = KeyRow /\ UsageRow' = UsageRow
  BY <1>2, <1>4 DEF OrgRow, KeyRow, UsageRow
<1> USE <1>2, <1>3, <1>a DEF TablesInv, OrgRow, KeyRow, UsageRow
<1>5. CASE db' = db BY <1>5
<1>6. ASSUME NEW role \in Roles4, db' = InsertKey(db, r, org, role)
      PROVE  TablesInv' /\ db.users \subseteq db'.users
  <2> DEFINE row == [org |-> org, role |-> role, state |-> "active"]
             table == Put(db.keys, r, row)
  <2>1. db' = [db EXCEPT !.keys = table] BY <1>6 DEF InsertKey
  <2>2. row \in KeyRow BY <1>6
  <2>3. \A k \in DOMAIN table :
          table[k] \in KeyRow
    BY <2>2, RowsStayTyped
  <2> HIDE DEF row, table
  <2> QED BY <2>1, <2>3
<1>7. ASSUME NEW key, db' = RevokeKey(db, key, org)
      PROVE  TablesInv' /\ db.users \subseteq db'.users
  BY <1>7 DEF RevokeKey
<1>8. CASE db' = [db EXCEPT !.users = @ \union {Newcomer}]
  BY <1>8
<1>9. ASSUME NEW role \in Roles4, Now(r, "addMember"),
             db' = InsertMember(db, org, Newcomer, role)
      PROVE  TablesInv' /\ db.users \subseteq db'.users
  <2> DEFINE new == <<org, Newcomer>>
             table == Put(db.members, new, role)
  <2>1. db' = [db EXCEPT !.members = table] BY <1>9 DEF InsertMember
  <2>2. \A m \in DOMAIN table :
          /\ m[2] \in db.users \union {Newcomer} /\ table[m] \in Roles4
          /\ m[2] = Owner => m[1] = 0
    <3> TAKE m \in DOMAIN table
    <3>1. new[2] = Newcomer /\ Newcomer # Owner BY DEF Newcomer, Owner
    <3> HIDE DEF new
    <3>2. CASE m = new BY <3>1, <3>2, <1>9 DEF Put
    <3>3. CASE m # new BY <3>3 DEF Put
    <3> QED BY <3>2, <3>3
  <2>3. Newcomer \in db.users BY <1>9 DEF NewcomerIsBound
  <2> HIDE DEF table
  <2> QED BY <2>1, <2>2, <2>3
<1>10. CASE db' = DeleteMember(db, org, Newcomer)
  BY <1>10 DEF DeleteMember, Without
<1>11. CASE db' = InsertOrg(db, r, "free", r)
  <2> DEFINE row == [plan |-> "free", dek |-> r, customer |-> FALSE]
             table == Put(db.orgs, r, row)
  <2>1. db' = [db EXCEPT !.orgs = table] BY <1>11 DEF InsertOrg
  <2>2. row \in OrgRow BY DEF Plans, PlanQuotas
  <2>3. \A o \in DOMAIN table :
          /\ o \in Ids
          /\ table[o] \in OrgRow
    <3>1. \A o \in DOMAIN db.orgs : db.orgs[o] \in OrgRow OBVIOUS
    <3>2. \A o \in DOMAIN table : table[o] \in OrgRow BY <2>2, <3>1, RowsStayTyped
    <3>3. DOMAIN table = {r} \union DOMAIN db.orgs BY RowIsPut
    <3> HIDE DEF table
    <3> QED BY <3>2, <3>3
  <2> HIDE DEF row, table
  <2> QED BY <2>1, <2>3
<1>12. ASSUME NEW plan \in Plans, db' = UpdatePlan(db, org, plan)
       PROVE  TablesInv' /\ db.users \subseteq db'.users
  BY <1>12 DEF UpdatePlan
<1>13. ASSUME Now(r, "write"), NEW name,
              db' = InsertSecret(db, org, name, Encrypted(seen[r].dek, r))
       PROVE  TablesInv' /\ db.users \subseteq db'.users
  <2>1. org = 0 BY <1>13, NextCall DEF RequestsInv, CallAt
  <2> DEFINE table == Put(db.secrets, <<org, name>>, Encrypted(seen[r].dek, r))
  <2>2. db' = [db EXCEPT !.secrets = table] BY <1>13 DEF InsertSecret
  <2>a. DOMAIN table = {<<0, name>>} \union DOMAIN db.secrets BY <2>1 DEF Put
  <2>b. \A s \in DOMAIN db.secrets : s = <<0, s[2]>> OBVIOUS
  <2>3. \A s \in DOMAIN table : s = <<0, s[2]>>
    <3> HIDE DEF table
    <3> QED BY <2>a, <2>b
  <2> HIDE DEF table
  <2> QED BY <2>2, <2>3
<1>14. CASE db' = SwapDek(db, org, r, seen[r].values)
  BY <1>14 DEF SwapDek
<1>15. CASE db' = ShredOrg(db, org)
  BY <1>15 DEF ShredOrg, Without, OwnRows
<1>16. CASE db' = DeleteOrg(db, org)
  BY <1>16 DEF DeleteOrg, Without, OwnRows
<1>17. CASE \/ db' = RecordUsage(db, org, "investigation", 1, RequestId(r))
            \/ db' = RecordUsage(db, org, "tokens", seen[r].tokens, RequestId(r))
  <2>1. seen[r].tokens \in Nat BY DEF RequestsInv, SeenTyped
  <2>2. PICK kind \in {"investigation", "tokens"}, amount \in Nat :
           db' = RecordUsage(db, org, kind, amount, RequestId(r))
    <3>1. CASE db' = RecordUsage(db, org, "investigation", 1, RequestId(r)) BY <3>1
    <3>2. CASE db' = RecordUsage(db, org, "tokens", seen[r].tokens, RequestId(r)) BY <2>1, <3>2
    <3> QED BY <1>17, <3>1, <3>2
  <2> DEFINE row == [amount |-> amount, synced |-> FALSE]
             table == Put(db.usage, <<org, kind, RequestId(r)>>, row)
  <2>3. db' = db \/ db' = [db EXCEPT !.usage = table] BY <2>2 DEF RecordUsage
  <2>4. \A u \in DOMAIN table : table[u] \in UsageRow
    BY RowsStayTyped
  <2> HIDE DEF row, table, OrgRow, KeyRow, UsageRow
  <2>5. CASE db' = db BY <2>5
  <2>6. CASE db' = [db EXCEPT !.usage = table] BY <2>4, <2>6
  <2> QED BY <2>3, <2>5, <2>6
<1>18. CASE 0 \in DOMAIN db.orgs /\ db' = [db EXCEPT !.orgs[0].customer = TRUE]
  <2> DEFINE row == [db.orgs[0] EXCEPT !.customer = TRUE]
             table == [db.orgs EXCEPT ![0] = row]
  <2>1. db' = [db EXCEPT !.orgs = table] BY <1>18
  <2>2. \A o \in DOMAIN db.orgs : o \in Ids /\ db.orgs[o] \in OrgRow OBVIOUS
  <2>3. row \in OrgRow BY <1>18, <2>2
  <2>4. \A o \in DOMAIN table : o \in Ids /\ table[o] \in OrgRow
    <3> HIDE DEF row, OrgRow
    <3> QED BY <2>2, <2>3
  <2> HIDE DEF row, table, OrgRow
  <2> QED BY <2>1, <2>4
<1>19. ASSUME NEW expired, db' = PurgeUsage(db, expired)
       PROVE  TablesInv' /\ db.users \subseteq db'.users
  BY <1>19 DEF PurgeUsage, Without
<1>20. CASE db' = MarkSynced(db, seen[r].sent)
  <2> DEFINE table == [u \in DOMAIN db.usage |->
                         IF u \in seen[r].sent
                         THEN [db.usage[u] EXCEPT !.synced = TRUE] ELSE db.usage[u]]
  <2>1. db' = [db EXCEPT !.usage = table] BY <1>20 DEF MarkSynced
  <2>2. ASSUME NEW row \in UsageRow PROVE [row EXCEPT !.synced = TRUE] \in UsageRow
    OBVIOUS
  <2>3. \A u \in DOMAIN db.usage : db.usage[u] \in UsageRow OBVIOUS
  <2>4. \A u \in DOMAIN table : table[u] \in UsageRow
    <3> HIDE DEF UsageRow, TablesInv
    <3> QED BY <2>2, <2>3
  <2> HIDE DEF table
  <2> QED BY <2>1, <2>4
<1> QED
  BY <1>1, <1>5, <1>6, <1>7, <1>8, <1>9, <1>10, <1>11, <1>12, <1>13, <1>14, <1>15,
     <1>16, <1>17, <1>18, <1>19, <1>20 DEF Written

\* Who is about to be added exists: it was found, or inserted, in the call before.
LEMMA NewcomerKept ==
  ASSUME RequestsInv, TablesInv, NewcomerIsBound, NEW r \in Requests, Act(r)
  PROVE  NewcomerIsBound'
<1>1. Moved(r) /\ work' = work BY ActMoves
<1>2. RequestsInv' BY RequestsKept
<1>3. db.users \subseteq db'.users BY TablesKept
<1>4. Requests' = Requests BY <1>1 DEF Requests
<1> SUFFICES ASSUME NEW q \in Requests, Now(q, "addMember")'
             PROVE  Newcomer \in db'.users
  BY <1>4 DEF NewcomerIsBound
<1>5. CASE Now(q, "addMember")
  BY <1>3, <1>5 DEF NewcomerIsBound
<1>6. CASE ~Now(q, "addMember")
  <2>1. out'[q] = "open" /\ Scripts[work[q]][at'[q]] = "addMember" BY <1>1 DEF Now
  <2>2. q = r
    <3> SUFFICES ASSUME q # r PROVE FALSE OBVIOUS
    <3>1. at'[q] = at[q] /\ out'[q] = out[q] BY <1>1 DEF Moved, RequestsInv
    <3> QED BY <3>1, <2>1, <1>6 DEF Now
  <2>3. at' # at /\ out' = out /\ out[r] = "open"
    <3>1. out[r] = "open" BY <1>1 DEF Moved
    <3>2. out'[r] = "open" BY <2>1, <2>2
    <3>3. out' = out BY <1>1, <3>1, <3>2 DEF Moved, RequestsInv
    <3> QED BY <2>1, <2>2, <3>1, <3>3, <1>6 DEF Now
  <2>4. PICK n \in {1, 2, 3} : at' = [at EXCEPT ![r] = @ + n]
    BY <1>1, <2>3 DEF Moved
  <2>5. at'[r] = at[r] + n /\ at[r] \in Nat /\ at[r] >= 1 BY <2>4 DEF RequestsInv
  <2>6. ~Crash(r) BY <2>3 DEF Crash, Stop
  <2>7. \/ at'[r] = 8 /\ work[r] = "add_member"
        \/ at'[r] = 4 /\ work[r] = "provision"
        \/ at'[r] = 5 /\ work[r] = "signup"
    <3>1. at'[r] \in 1 .. Len(Scripts[work[r]]) BY <1>1, <1>2, <1>4 DEF RequestsInv
    <3> QED BY <2>1, <2>2, <3>1, CallsAreAt, NowIsTyped DEF CallAt
  <2>8. Newcomer \in db.users \/ InsertUser(r)
    <3>1. CASE work[r] = "add_member"
      <4>1. at[r] \in {5, 6, 7} BY <2>5, <2>7, <3>1
      <4>2. \/ at[r] = 5 /\ Now(r, "countMembers")
            \/ at[r] = 6 /\ Now(r, "findUser")
            \/ at[r] = 7 /\ Now(r, "insertUser")
        <5>1. /\ Scripts["add_member"][5] = "countMembers"
              /\ Scripts["add_member"][6] = "findUser"
              /\ Scripts["add_member"][7] = "insertUser"
          BY ScriptsAre
        <5> QED BY <5>1, <4>1, <2>3, <3>1 DEF Now
      <4>3. \/ at[r] = 5 /\ CountSeats(r)
            \/ at[r] = 6 /\ FindUser(r)
            \/ InsertUser(r)
        BY <4>2, <2>6, StepIsTheCall
      <4>4. Len(Scripts[work[r]]) = 8 BY <3>1, ScriptsAre
      <4> QED
        BY <4>3, <4>4, <2>5, <2>3, <2>7, <3>1
        DEF CountSeats, Check, FindUser, Go, Stop, RequestsInv
    <3>2. CASE work[r] = "provision"
      <4>1. at[r] \in {1, 2, 3} BY <2>5, <2>7, <3>2
      <4>2. \/ at[r] = 1 /\ Now(r, "lookUser")
            \/ at[r] = 2 /\ Now(r, "findUser")
            \/ at[r] = 3 /\ Now(r, "insertUser")
        <5>1. /\ Scripts["provision"][1] = "lookUser" /\ Scripts["provision"][2] = "findUser"
              /\ Scripts["provision"][3] = "insertUser"
          BY ScriptsAre
        <5> QED BY <5>1, <4>1, <2>3, <3>2 DEF Now
      <4>3. \/ at[r] = 1 /\ LookUser(r)
            \/ at[r] = 2 /\ FindUser(r)
            \/ InsertUser(r)
        BY <4>2, <2>6, StepIsTheCall
      <4>4. Len(Scripts[work[r]]) = 4 BY <3>2, ScriptsAre
      <4> QED
        BY <4>3, <4>4, <2>5, <2>3, <2>7, <3>2 DEF LookUser, FindUser, Go, Stop, RequestsInv
    <3>3. CASE work[r] = "signup"
      <4>1. at[r] \in {2, 3, 4} BY <2>5, <2>7, <3>3
      <4>2. \/ at[r] = 2 /\ Now(r, "insertOrg")
            \/ at[r] = 3 /\ Now(r, "findUser")
            \/ at[r] = 4 /\ Now(r, "insertUser")
        <5>1. /\ Scripts["signup"][2] = "insertOrg" /\ Scripts["signup"][3] = "findUser"
              /\ Scripts["signup"][4] = "insertUser"
          BY ScriptsAre
        <5> QED BY <5>1, <4>1, <2>3, <3>3 DEF Now
      <4>3. \/ at[r] = 2 /\ CreateOrg(r)
            \/ at[r] = 3 /\ FindUser(r)
            \/ InsertUser(r)
        BY <4>2, <2>6, StepIsTheCall
      <4>4. Len(Scripts[work[r]]) = 6 BY <3>3, ScriptsAre
      <4> QED
        BY <4>3, <4>4, <2>5, <2>3, <2>7, <3>3 DEF CreateOrg, FindUser, Go, Stop, RequestsInv
    <3> QED BY <2>7, <3>1, <3>2, <3>3
  <2>9. CASE InsertUser(r)
    <3>1. Newcomer \in db'.users
      BY <2>3, <2>9 DEF InsertUser, Stop, TablesInv, RequestsInv
    <3> QED BY <3>1
  <2> QED BY <1>3, <2>8, <2>9
<1> QED BY <1>5, <1>6

LEMMA HistoriesKept ==
  ASSUME RequestsInv, Histories, NEW r \in Requests, Act(r)
  PROVE  Histories'
<1>1. Requests' = Requests BY ActMoves DEF Requests
<1>2. spend' \in Nat
  <2>1. CASE Charge(r)
    BY <2>1 DEF Charge, Histories, RequestsInv, SeenTyped
  <2>2. CASE ~Charge(r)
    BY <2>2
    DEF Histories, Act, Authenticate, Administer, Secure, Spend, Bill, Key, Membership, GetOrg,
        GetDek, GetRows, CountKeys, CountSeats, IssueKey, Revoke, LookUser, FindUser,
        InsertUser, AddMember, RemoveMember, SeekMembership, CreateOrg, DekToWrite,
        WriteSecret, DekToRetire, Swap, Shred, Delete, Quota, Cap, Run, Meter, MeterTokens,
        LinkCustomer, Purge, Unsynced, Send, Mark, Crash, SetPlan, StripeEvent, Read, Check,
        Write, Frame
  <2> QED BY <2>1, <2>2
<1>3. raced' \in BOOLEAN /\ late' \subseteq Requests
  BY DEF Histories, Act, Authenticate, Administer, Secure, Spend, Bill, Key, Membership,
        GetOrg, GetDek, GetRows, CountKeys, CountSeats, IssueKey, Revoke, LookUser, FindUser,
        InsertUser, AddMember, RemoveMember, SeekMembership, CreateOrg, DekToWrite,
        WriteSecret, DekToRetire, Swap, Shred, Delete, Quota, Cap, Run, Meter, MeterTokens,
        Charge, LinkCustomer, Purge, Unsynced, Send, Mark, Crash, SetPlan, StripeEvent, Read,
        Check, Write, Frame, history, Races
<1> QED BY <1>1, <1>2, <1>3 DEF Histories

\* Which step changes which field of what a request saw.
LEMMA FieldsKept ==
  ASSUME RequestsInv, NEW r \in Requests, Act(r)
  PROVE  /\ Send(r) \/ seen'[r].sent = seen[r].sent
         /\ GetDek(r) \/ DekToWrite(r) \/ seen'[r].dek = seen[r].dek
         /\ GetRows(r) \/ seen'[r].values = seen[r].values
         /\ GetOrg(r) \/ seen'[r].plan = seen[r].plan
         /\ Run(r) \/ seen'[r].tokens = seen[r].tokens
<1> USE DEF Fields
<1>a. DOMAIN seen[r] = Fields BY FieldsAre DEF RequestsInv, SeenTyped
<1>b. r \in DOMAIN seen BY DEF RequestsInv
<1>1. CASE Key(r)
  <2>1. seen' = seen \/ \E v : See(r, "role", v) BY <1>1 DEF Key, Read
  <2> QED BY <2>1, SeeOne
<1>2. CASE Membership(r)
  <2>1. \/ seen' = seen
        \/ \E v, w : seen' = [seen EXCEPT ![r].org = v, ![r].role = w]
    BY <1>2 DEF Membership
  <2>2. ASSUME NEW v, NEW w, seen' = [seen EXCEPT ![r].org = v, ![r].role = w]
        PROVE  \A g \in Fields \ {"org", "role"} : seen'[r][g] = seen[r][g]
    BY <2>2, <1>a, <1>b
  <2> QED BY <2>1, <2>2
<1>3. CASE GetOrg(r)
  <2>1. seen' = seen \/ \E v : See(r, "plan", v) BY <1>3 DEF GetOrg, Read
  <2> QED BY <1>3, <2>1, SeeOne
<1>4. CASE GetDek(r) \/ DekToWrite(r)
  <2>1. seen' = seen \/ \E v : See(r, "dek", v) BY <1>4 DEF GetDek, DekToWrite, Read
  <2> QED BY <1>4, <2>1, SeeOne
<1>5. CASE GetRows(r)
  <2>1. seen' = seen \/ \E v : See(r, "values", v) BY <1>5 DEF GetRows
  <2> QED BY <1>5, <2>1, SeeOne
<1>6. CASE Unsynced(r)
  <2>1. seen' = seen \/ \E v : See(r, "rows", v) BY <1>6 DEF Unsynced, Read
  <2> QED BY <2>1, SeeOne
<1>7. CASE Run(r)
  <2>1. seen' = seen \/ \E v : See(r, "tokens", v) BY <1>7 DEF Run
  <2> QED BY <1>7, <2>1, SeeOne
<1>8. CASE Send(r)
  <2>1. \/ seen' = seen
        \/ \E v, w : seen' = [seen EXCEPT ![r].rows = v, ![r].sent = w]
    BY <1>8 DEF Send
  <2>2. ASSUME NEW v, NEW w, seen' = [seen EXCEPT ![r].rows = v, ![r].sent = w]
        PROVE  \A g \in Fields \ {"rows", "sent"} : seen'[r][g] = seen[r][g]
    BY <2>2, <1>a, <1>b
  <2> QED BY <1>8, <2>1, <2>2
<1>9. CASE CreateOrg(r)
  <2>1. See(r, "org", r) BY <1>9 DEF CreateOrg
  <2> QED BY <2>1, SeeOne
<1>10. CASE \/ CountKeys(r) \/ CountSeats(r) \/ IssueKey(r) \/ Revoke(r) \/ SetPlan(r)
            \/ StripeEvent(r) \/ LookUser(r) \/ FindUser(r) \/ InsertUser(r) \/ AddMember(r)
            \/ RemoveMember(r) \/ SeekMembership(r) \/ WriteSecret(r) \/ DekToRetire(r)
            \/ Swap(r) \/ Shred(r) \/ Delete(r) \/ Quota(r) \/ Cap(r) \/ Meter(r)
            \/ MeterTokens(r) \/ Charge(r) \/ LinkCustomer(r) \/ Purge(r) \/ Mark(r)
            \/ Crash(r)
  <2>1. seen' = seen
    BY <1>10
    DEF CountKeys, CountSeats, IssueKey, Revoke, SetPlan, StripeEvent, LookUser, FindUser,
        InsertUser, AddMember, RemoveMember, SeekMembership, WriteSecret, DekToRetire, Swap,
        Shred, Delete, Quota, Cap, Meter, MeterTokens, Charge, LinkCustomer, Purge, Mark,
        Crash, Check, Write
  <2> QED BY <2>1
<1> QED
  BY <1>1, <1>2, <1>3, <1>4, <1>5, <1>6, <1>7, <1>8, <1>9, <1>10
  DEF Act, Authenticate, Administer, Secure, Spend, Bill

-----------------------------------------------------------------------------
(* The type invariant holds at first, and every step keeps it.             *)

LEMMA WorkIsScripted ==
  ASSUME Init
  PROVE  work \in Seq(Kinds)
BY WorkloadsAssumption DEF Init, Kinds

LEMMA InitTyped ==
  ASSUME Init
  PROVE  TypeInv
<1>1. work \in Seq(Kinds) BY WorkIsScripted
<1>2. \A k \in Kinds : 1 \in 1 .. Len(Scripts[k])
  <2>1. \A k \in Kinds : Len(Scripts[k]) \in {1, 2, 3, 4, 5, 6, 8, 10}
    BY KindsAre, LengthsAre
  <2> SUFFICES ASSUME NEW k \in Kinds PROVE 1 \in 1 .. Len(Scripts[k]) OBVIOUS
  <2>2. ASSUME NEW n \in {1, 2, 3, 4, 5, 6, 8, 10} PROVE 1 \in 1 .. n OBVIOUS
  <2> QED BY <2>1, <2>2
<1>3. RequestsInv
  <2>1. \A r \in Requests : work[r] \in Kinds BY <1>1 DEF Requests
  <2>2. SeenTyped(NothingSeen) /\ NothingSeen.org = 0
    <3>1. Len(work) \in Nat BY <1>1
    <3> QED BY <3>1 DEF SeenTyped, NothingSeen, Ids, Plans, PlanQuotas, NoDek
  <2> QED BY <1>1, <1>2, <2>1, <2>2 DEF Init, RequestsInv
<1>4. TablesInv
  <2>1. 0 \in Ids /\ NoDek \in Ids \union {NoDek}
    <3>1. Len(work) \in Nat BY <1>1
    <3> QED BY <3>1 DEF Ids
  <2>2. PICK dek \in {0, NoDek}, customer \in BOOLEAN, full \in BOOLEAN :
          db = [orgs |-> [o \in {0} |-> [plan |-> "free", dek |-> dek, customer |-> customer]],
                users |-> {Owner, "viewer@acme"} \union Spare(full, {"sre@acme"}),
                members |-> [m \in {0} \X
                                    ({Owner, "viewer@acme"} \union Spare(full, {"sre@acme"})) |->
                               IF m[2] = Owner THEN "owner" ELSE "viewer"],
                keys |-> [k \in {0} \union Spare(full, {-1}) |->
                            [org |-> 0, role |-> "owner", state |-> "active"]],
                secrets |-> [s \in {<<0, "github">>} |-> Encrypted(dek, 0)],
                usage |-> [u \in {<<0, "investigation", 0>>} |->
                             [amount |-> IF full THEN 50 ELSE 49, synced |-> FALSE]]]
    BY DEF Init
  <2> QED
    BY <2>1, <2>2 DEF TablesInv, OrgRow, KeyRow, UsageRow, Plans, PlanQuotas, Roles4, RoleRank
<1>5. NewcomerIsBound
  <2>1. \A r \in Requests : Now(r, "addMember") => at[r] # 1
    BY <1>3, NextCall DEF CallAt
  <2> QED BY <2>1 DEF Init, NewcomerIsBound
<1>6. Histories BY DEF Init, Histories
<1> QED BY <1>3, <1>4, <1>5, <1>6 DEF TypeInv

LEMMA ExpireKeeps ==
  ASSUME TypeInv, Expire
  PROVE  TypeInv'
<1>1. /\ UNCHANGED <<work, at, out, seen, spend, raced, late>>
      /\ db' = [db EXCEPT !.keys[0].state = "expired"]
  BY DEF Expire, Frame, history
<1>2. RequestsInv' BY <1>1 DEF TypeInv, RequestsInv, Requests, SeenTyped, Ids, Plans
<1>3. TablesInv'
  BY <1>1 DEF TypeInv, TablesInv, Ids, Plans, Roles4, OrgRow, KeyRow, UsageRow
<1>4. NewcomerIsBound'
  BY <1>1 DEF TypeInv, TablesInv, NewcomerIsBound, Now, Requests
<1>5. Histories' BY <1>1 DEF TypeInv, Histories, Requests
<1> QED BY <1>2, <1>3, <1>4, <1>5 DEF TypeInv

LEMMA QuietKeeps ==
  ASSUME TypeInv, UNCHANGED <<work, db, at, out, seen>>, Histories'
  PROVE  TypeInv'
BY DEF TypeInv, RequestsInv, Requests, SeenTyped, TablesInv, Ids, Plans, Roles4, OrgRow, KeyRow,
       UsageRow, NewcomerIsBound, Now

LEMMA TypeKept ==
  ASSUME TypeInv, [Next]_vars
  PROVE  TypeInv'
<1>1. ASSUME NEW r \in Requests, Act(r) PROVE TypeInv'
  BY <1>1, RequestsKept, TablesKept, NewcomerKept, HistoriesKept DEF TypeInv
<1>2. CASE Roll
  <2>1. Histories' BY <1>2 DEF Roll, TypeInv, Histories, Requests, history
  <2> QED BY <1>2, <2>1, QuietKeeps DEF Roll
<1>3. CASE Expire BY <1>3, ExpireKeeps
<1>4. CASE UNCHANGED vars
  <2>1. Histories' BY <1>4 DEF vars, TypeInv, Histories, Requests, history
  <2> QED BY <1>4, <2>1, QuietKeeps DEF vars
<1> QED BY <1>1, <1>2, <1>3, <1>4 DEF Next, Act

LEMMA TypeInvariance == Spec => []TypeInv
<1>1. Init => TypeInv BY InitTyped
<1>2. TypeInv /\ [Next]_vars => TypeInv' BY TypeKept
<1> QED BY <1>1, <1>2, PTL DEF Spec

\* Every request stays within its script, and every row is one that the code reads
\* back: roles, plans and key states that it knows, members that are users.
THEOREM RowsAreTyped == Spec => []TypeOK
<1>1. TypeInv => TypeOK
  <2> SUFFICES ASSUME TypeInv PROVE TypeOK OBVIOUS
  <2> USE DEF TypeInv
  <2>1. /\ \A r \in Requests : at[r] \in 1 .. Len(Scripts[work[r]])
        /\ out \in [Requests -> {"open", "done", "refused", "failed"}]
    BY DEF RequestsInv
  <2>2. spend \in Nat /\ raced \in BOOLEAN /\ late \subseteq Requests BY DEF Histories
  <2>3. \A o \in DOMAIN db.orgs :
          /\ o \in 0 .. Len(work) /\ db.orgs[o].plan \in DOMAIN PlanQuotas
          /\ db.orgs[o].dek \in -1 .. Len(work)
    <3>1. Len(work) \in Nat BY DEF RequestsInv
    <3> QED BY <3>1 DEF TablesInv, OrgRow, Ids, Plans, NoDek
  <2>4. \A k \in DOMAIN db.keys :
          /\ db.keys[k].role \in DOMAIN RoleRank
          /\ db.keys[k].state \in {"active", "expired", "revoked"}
    BY DEF TablesInv, KeyRow, Roles4
  <2>5. /\ \A m \in DOMAIN db.members :
             m[2] \in db.users /\ db.members[m] \in DOMAIN RoleRank
        /\ \A u \in DOMAIN db.usage : db.usage[u].amount \in Nat
    BY DEF TablesInv, UsageRow, Roles4
  <2> QED BY <2>1, <2>2, <2>3, <2>4, <2>5 DEF TypeOK
<1> QED BY <1>1, TypeInvariance, PTL

-----------------------------------------------------------------------------
(* Billing.                                                                *)

\* A sync has sent what it is about to mark, and what it sent is billed.
Ledger ==
  /\ \A e \in billed : e = [id |-> e.row, row |-> e.row]
  /\ \A r \in Requests : \A row \in seen[r].sent : \E e \in billed : e.row = row
  /\ \A u \in DOMAIN db.usage : db.usage[u].synced => \E e \in billed : e.row = u

LEMMA SyncedWereSent ==
  ASSUME TypeInv, NEW r \in Requests, Act(r),
         NEW u \in DOMAIN db'.usage, db'.usage[u].synced
  PROVE  (u \in DOMAIN db.usage /\ db.usage[u].synced) \/ u \in seen[r].sent
<1>1. Written(r) BY ActWrites
<1>2. CASE db'.usage = db.usage BY <1>2
<1>3. ASSUME NEW kind, NEW amount,
             db' = RecordUsage(db, seen[r].org, kind, amount, RequestId(r)),
             db' # db
      PROVE  u \in DOMAIN db.usage /\ db.usage[u].synced
  <2> DEFINE new == <<seen[r].org, kind, RequestId(r)>>
             row == [amount |-> amount, synced |-> FALSE]
  <2>1. db'.usage = Put(db.usage, new, row) BY <1>3 DEF RecordUsage, TypeInv, TablesInv
  <2>2. ~row.synced OBVIOUS
  <2> HIDE DEF new, row
  <2>3. u # new BY <2>1, <2>2 DEF Put
  <2> QED BY <2>1, <2>3 DEF Put
<1>4. ASSUME NEW expired, db' = PurgeUsage(db, expired)
      PROVE  u \in DOMAIN db.usage /\ db.usage[u].synced
  BY <1>4 DEF PurgeUsage, Without, TypeInv, TablesInv
<1>5. CASE db' = MarkSynced(db, seen[r].sent)
  BY <1>5 DEF MarkSynced, TypeInv, TablesInv
<1>6. CASE db' = DeleteOrg(db, seen[r].org)
  BY <1>6 DEF DeleteOrg, Without, TypeInv, TablesInv
<1> QED
  BY <1>1, <1>2, <1>3, <1>4, <1>5, <1>6
  DEF Written, TypeInv, TablesInv, InsertKey, RevokeKey, InsertMember, DeleteMember, InsertOrg,
      UpdatePlan, InsertSecret, SwapDek, ShredOrg

\* Only a send adds to the bill, and to what a sync sent.
LEMMA SentIsBilled ==
  ASSUME TypeInv, Ledger, NEW r \in Requests, Act(r)
  PROVE  /\ \A e \in billed' : e = [id |-> e.row, row |-> e.row]
         /\ billed \subseteq billed'
         /\ \A row \in seen'[r].sent : \E e \in billed' : e.row = row
<1>1. CASE Send(r)
  <2>1. CASE UNCHANGED <<seen, billed>> BY <2>1 DEF Ledger
  <2>2. ASSUME NEW row \in seen[r].rows, NEW ok \in BOOLEAN,
               seen' = [seen EXCEPT ![r].rows = @ \ {row},
                                    ![r].sent = Sent(r, row, ok /\ HasCustomer(row))],
               billed' = IF ok /\ HasCustomer(row)
                         THEN billed \union {[id |-> Identifier(r, row), row |-> row]}
                         ELSE billed
        PROVE  /\ \A e \in billed' : e = [id |-> e.row, row |-> e.row]
               /\ billed \subseteq billed'
               /\ \A sent \in seen'[r].sent : \E e \in billed' : e.row = sent
    <3>1. DOMAIN seen[r] = Fields /\ r \in DOMAIN seen
      BY FieldsAre DEF TypeInv, RequestsInv, SeenTyped
    <3>2. seen'[r].sent = Sent(r, row, ok /\ HasCustomer(row)) BY <2>2, <3>1 DEF Fields
    <3>3. CASE ok /\ HasCustomer(row)
      <4> DEFINE event == [id |-> row, row |-> row]
      <4>1. event = [id |-> event.row, row |-> event.row] /\ event.row = row OBVIOUS
      <4>2. billed' = billed \union {event} BY <2>2, <3>3 DEF Identifier
      <4>3. seen'[r].sent = seen[r].sent \union {row} BY <3>2, <3>3 DEF Sent
      <4> HIDE DEF event
      <4> QED BY <4>1, <4>2, <4>3 DEF Ledger
    <3>4. CASE ~(ok /\ HasCustomer(row))
      BY <2>2, <3>2, <3>4 DEF Sent, Ledger
    <3> QED BY <3>3, <3>4
  <2> QED BY <1>1, <2>1, <2>2 DEF Send
<1>2. CASE ~Send(r)
  <2>1. billed' = billed
    BY <1>2
    DEF Act, Authenticate, Administer, Secure, Spend, Bill, Key, Membership, GetOrg, GetDek,
        GetRows, CountKeys, CountSeats, IssueKey, Revoke, LookUser, FindUser, InsertUser,
        AddMember, RemoveMember, SeekMembership, CreateOrg, DekToWrite, WriteSecret,
        DekToRetire, Swap, Shred, Delete, Quota, Cap, Run, Meter, MeterTokens, Charge,
        LinkCustomer, Purge, Unsynced, Mark, Crash, SetPlan, StripeEvent, Read, Check, Write,
        Frame
  <2>2. seen'[r].sent = seen[r].sent BY <1>2, FieldsKept DEF TypeInv
  <2> QED BY <2>1, <2>2 DEF Ledger
<1> QED BY <1>1, <1>2

LEMMA LedgerKept ==
  ASSUME TypeInv, Ledger, [Next]_vars
  PROVE  Ledger'
<1>1. ASSUME NEW r \in Requests, Act(r) PROVE Ledger'
  <2>1. Saw(r) /\ Requests' = Requests BY <1>1, ActSees, ActMoves DEF TypeInv, Requests
  <2>2. \A q \in Requests : \A row \in seen'[q].sent : \E e \in billed' : e.row = row
    <3> TAKE q \in Requests
    <3>1. CASE q = r BY <1>1, <3>1, SentIsBilled
    <3>2. CASE q # r BY <1>1, <2>1, <3>2, SentIsBilled DEF Saw, Ledger
    <3> QED BY <3>1, <3>2
  <2>3. \A u \in DOMAIN db'.usage : db'.usage[u].synced => \E e \in billed' : e.row = u
    BY <1>1, SyncedWereSent, SentIsBilled DEF Ledger
  <2> QED BY <1>1, <2>1, <2>2, <2>3, SentIsBilled DEF Ledger
<1>2. CASE Roll BY <1>2 DEF Roll, Ledger, Requests
<1>3. CASE Expire
  BY <1>3 DEF Expire, Frame, Ledger, Requests, TypeInv, TablesInv
<1>4. CASE UNCHANGED vars BY <1>4 DEF vars, Ledger, Requests
<1> QED BY <1>1, <1>2, <1>3, <1>4 DEF Next, Act

LEMMA InitLedger ==
  ASSUME Init
  PROVE  Ledger
BY DEF Init, Ledger, NothingSeen

\* A row that is marked as synced is billed and no row is billed twice, for any
\* number of syncs at once and wherever they crash.
THEOREM EachRowIsBilledOnce == Spec => []BillingMatchesLedger
<1>1. Init => Ledger BY InitLedger
<1>2. TypeInv /\ Ledger /\ [Next]_vars => Ledger' BY LedgerKept
<1>3. Ledger => BillingMatchesLedger
  <2> SUFFICES ASSUME Ledger PROVE BillingMatchesLedger OBVIOUS
  <2>1. ASSUME NEW e \in billed, NEW f \in billed, e.row = f.row PROVE e = f
    BY <2>1 DEF Ledger
  <2> QED BY <2>1 DEF Ledger, BillingMatchesLedger
<1> QED BY <1>1, <1>2, <1>3, TypeInvariance, PTL DEF Spec

-----------------------------------------------------------------------------
(* Erasure.                                                                *)

\* What holds once organization 0 is erased: who is in flight was so then, and a
\* rotation brings back what those wrote.
Erased ==
  0 \notin DOMAIN db.orgs =>
    /\ \A r \in Requests : InFlight(r) => r \in late
    /\ \A r \in Rotating : \A name \in DOMAIN seen[r].values :
         raced \/ seen[r].values[name] \in late
    /\ ErasureLeavesNothing

\* The histories only grow.
LEMMA HistoryGrows ==
  ASSUME Histories, NEW r \in Requests, Act(r)
  PROVE  (raced => raced') /\ late \subseteq late'
BY DEF Histories, Act, Authenticate, Administer, Secure, Spend, Bill, Key, Membership,
      GetOrg, GetDek, GetRows, CountKeys, CountSeats, IssueKey, Revoke, LookUser, FindUser,
      InsertUser, AddMember, RemoveMember, SeekMembership, CreateOrg, DekToWrite,
      WriteSecret, DekToRetire, Swap, Shred, Delete, Quota, Cap, Run, Meter, MeterTokens,
      Charge, LinkCustomer, Purge, Unsynced, Send, Mark, Crash, SetPlan, StripeEvent, Read,
      Check, Write, Frame, history, Races

\* A request comes in flight while its organization exists.
LEMMA InFlightEnters ==
  ASSUME TypeInv, NEW r \in Requests, Act(r), NEW q \in Requests, InFlight(q)', ~InFlight(q)
  PROVE  0 \in DOMAIN db'.orgs
<1> USE DEF TypeInv
<1>1. Moved(r) /\ work' = work BY ActMoves
<1>2. /\ work[q] \in DOMAIN Permission /\ out'[q] = "open" /\ at'[q] > 2
      /\ seen'[q].org = 0
  BY <1>1 DEF InFlight
<1>3. work[q] # "signup" /\ work[q] # "sync" BY <1>2 DEF Permission
<1>4. seen[q].org = 0 BY <1>3 DEF RequestsInv
<1>5. out[q] = "open" BY <1>1, <1>2 DEF Moved, RequestsInv
<1>6. at[q] \in {1, 2} BY <1>2, <1>4, <1>5 DEF InFlight, RequestsInv
<1>7. q = r /\ at' # at BY <1>1, <1>2, <1>6 DEF Moved, RequestsInv
<1>8. ~Crash(r) BY <1>3, <1>7 DEF Crash
<1>9. Len(Scripts[work[r]]) > 3 /\ at[r] \in Nat
  BY <1>2, <1>7, CallsOf, NowIsTyped DEF RequestsInv
<1>10. CASE at[r] = 1
  <2>1. Scripts[work[r]][1] \in {"key", "membership"} BY <1>2, <1>7, CallsOf, NowIsTyped
  <2>2. Now(r, "key") \/ Now(r, "membership") BY <1>5, <1>7, <1>10, <2>1 DEF Now
  <2>3. Key(r) \/ Membership(r) BY <1>8, <2>2, StepIsTheCall
  <2>4. Go(r, 1) BY <2>3, <1>7 DEF Key, Membership, Read, Stop
  <2>5. at'[r] = 2 BY <2>4, <1>9, <1>10 DEF Go, RequestsInv
  <2> QED BY <2>5, <1>2, <1>7
<1>11. CASE at[r] = 2
  <2>1. Scripts[work[r]][2] = "org" BY <1>2, <1>7, CallsOf, NowIsTyped
  <2>2. GetOrg(r) BY <1>5, <1>7, <1>8, <1>11, <2>1, StepIsTheCall DEF Now
  <2> QED BY <2>2, <1>4, <1>7 DEF GetOrg, Read, Stop
<1> QED BY <1>6, <1>7, <1>10, <1>11

\* Only a deletion erases organization 0.
LEMMA OnlyDeletionErases ==
  ASSUME TypeInv, NEW r \in Requests, Act(r), 0 \notin DOMAIN db'.orgs
  PROVE  0 \notin DOMAIN db.orgs \/ Delete(r)
<1> USE DEF TypeInv
<1>1. Written(r) BY ActWrites
<1>2. CASE Now(r, "delete")
  BY <1>2, NextCall, StepIsTheCall DEF CallAt, Crash
<1>3. CASE Now(r, "insertOrg") /\ db' = InsertOrg(db, r, "free", r)
  BY <1>3 DEF InsertOrg, TablesInv, Put
<1> QED
  BY <1>1, <1>2, <1>3
  DEF Written, TablesInv, InsertKey, RevokeKey, InsertMember, DeleteMember, UpdatePlan,
      InsertSecret, SwapDek, ShredOrg, RecordUsage, PurgeUsage, MarkSynced

\* What is deleted with an organization.
LEMMA DeletionEmpties ==
  ASSUME TypeInv, NEW r \in Requests, Delete(r), 0 \in DOMAIN db.orgs
  PROVE  /\ \A k \in DOMAIN db'.keys : db'.keys[k].org # 0
         /\ \A s \in DOMAIN db'.secrets : s[1] # 0
         /\ \A u \in DOMAIN db'.usage : u[1] # 0
         /\ \A m \in DOMAIN db'.members : m[1] # 0
<1>1. seen[r].org = 0 BY NextCall DEF TypeInv, RequestsInv, Delete, CallAt
<1>2. db' = DeleteOrg(db, 0) BY <1>1 DEF Delete
<1> QED BY <1>2 DEF DeleteOrg, Without, OwnRows, TypeInv, TablesInv

\* The calls that write rows of organization 0, but SCIM's, are made in flight.
LEMMA WritersAreInFlight ==
  ASSUME TypeInv, NEW r \in Requests, seen[r].org = 0,
         \/ Now(r, "issueKey") \/ Now(r, "write") \/ Now(r, "meter") \/ Now(r, "meterTokens")
         \/ Now(r, "addMember") /\ work[r] # "provision"
  PROVE  InFlight(r) /\ (Now(r, "addMember") => work[r] = "add_member")
<1> USE DEF TypeInv
<1>1. out[r] = "open" BY DEF Now
<1>2. r # 0 BY DEF Requests
<1>3. work[r] = "signup" => at[r] <= 2 BY <1>2 DEF RequestsInv
<1>4. /\ work[r] \in {"create_key", "set_secret", "investigate", "approve", "add_member"}
      /\ at[r] > 2
      /\ Now(r, "addMember") => work[r] = "add_member"
  BY <1>3, NextCall DEF CallAt
<1> QED BY <1>1, <1>4 DEF InFlight, Permission

LEMMA KeysAfterErasure ==
  ASSUME TypeInv, Erased, NEW r \in Requests, Act(r), 0 \notin DOMAIN db.orgs,
         NEW k \in DOMAIN db'.keys, db'.keys[k].org = 0
  PROVE  k \in late
<1> USE DEF TypeInv
<1>1. Written(r) BY ActWrites
<1>2. \A x \in DOMAIN db.keys : db.keys[x].org = 0 => x \in late
  BY DEF Erased, ErasureLeavesNothing
<1>3. ASSUME NEW role, Now(r, "issueKey"), db' = InsertKey(db, r, seen[r].org, role)
      PROVE  k \in late
  <2> DEFINE row == [org |-> seen[r].org, role |-> role, state |-> "active"]
  <2>1. db'.keys = Put(db.keys, r, row) BY <1>3 DEF InsertKey, TablesInv
  <2>2. row.org = seen[r].org OBVIOUS
  <2> HIDE DEF row
  <2>3. CASE k = r
    <3>1. seen[r].org = 0 BY <2>1, <2>2, <2>3 DEF Put
    <3> QED BY <2>3, <3>1, <1>3, WritersAreInFlight DEF Erased
  <2>4. CASE k # r BY <2>1, <2>4, <1>2 DEF Put
  <2> QED BY <2>3, <2>4
<1>4. ASSUME NEW key, db' = RevokeKey(db, key, seen[r].org) PROVE k \in late
  BY <1>4, <1>2 DEF RevokeKey, TablesInv, KeyRow
<1>5. CASE db' = DeleteOrg(db, seen[r].org)
  BY <1>5, <1>2 DEF DeleteOrg, Without, TablesInv
<1>6. CASE db'.keys = db.keys BY <1>6, <1>2
<1> QED
  BY <1>1, <1>3, <1>4, <1>5, <1>6
  DEF Written, TablesInv, InsertMember, DeleteMember, InsertOrg, UpdatePlan, InsertSecret,
      SwapDek, ShredOrg, RecordUsage, PurgeUsage, MarkSynced

LEMMA SecretsAfterErasure ==
  ASSUME TypeInv, Erased, NEW r \in Requests, Act(r), 0 \notin DOMAIN db.orgs,
         NEW s \in DOMAIN db'.secrets, s[1] = 0
  PROVE  raced \/ db'.secrets[s].value \in late
<1> USE DEF TypeInv
<1>1. Written(r) BY ActWrites
<1>2. \A x \in DOMAIN db.secrets : x[1] = 0 => raced \/ db.secrets[x].value \in late
  BY DEF Erased, ErasureLeavesNothing
<1>3. ASSUME NEW name, Now(r, "write"),
             db' = InsertSecret(db, seen[r].org, name, Encrypted(seen[r].dek, r))
      PROVE  raced \/ db'.secrets[s].value \in late
  <2> DEFINE new == <<seen[r].org, name>>
             row == Encrypted(seen[r].dek, r)
  <2>1. db'.secrets = Put(db.secrets, new, row) BY <1>3 DEF InsertSecret, TablesInv
  <2>2. row.value = r /\ new[1] = seen[r].org BY DEF Encrypted
  <2> HIDE DEF row, new
  <2>3. CASE s = new
    <3>1. r \in late BY <2>2, <2>3, <1>3, WritersAreInFlight DEF Erased
    <3> QED BY <2>1, <2>2, <2>3, <3>1 DEF Put
  <2>4. CASE s # new BY <2>1, <2>4, <1>2 DEF Put
  <2> QED BY <2>3, <2>4
<1>4. CASE Now(r, "swap") /\ db' = SwapDek(db, seen[r].org, r, seen[r].values)
  <2>1. /\ DOMAIN db'.secrets = DOMAIN db.secrets
        /\ db'.secrets[s] = IF s[1] = seen[r].org /\ s[2] \in DOMAIN seen[r].values
                            THEN Encrypted(r, seen[r].values[s[2]]) ELSE db.secrets[s]
    BY <1>4 DEF SwapDek, TablesInv
  <2>2. r \in Rotating BY <1>4 DEF Rotating
  <2>3. CASE s[1] = seen[r].org /\ s[2] \in DOMAIN seen[r].values
    <3>1. raced \/ seen[r].values[s[2]] \in late BY <2>2, <2>3 DEF Erased
    <3> QED BY <2>1, <2>3, <3>1 DEF Encrypted
  <2>4. CASE ~(s[1] = seen[r].org /\ s[2] \in DOMAIN seen[r].values)
    BY <2>1, <2>4, <1>2
  <2> QED BY <2>3, <2>4
<1>5. CASE db' = DeleteOrg(db, seen[r].org)
  BY <1>5, <1>2 DEF DeleteOrg, Without, TablesInv
<1>6. CASE db' = ShredOrg(db, seen[r].org)
  BY <1>6, <1>2 DEF ShredOrg, Without, TablesInv
<1>7. CASE db'.secrets = db.secrets BY <1>7, <1>2
<1> QED
  BY <1>1, <1>3, <1>4, <1>5, <1>6, <1>7
  DEF Written, TablesInv, InsertKey, RevokeKey, InsertMember, DeleteMember, InsertOrg,
      UpdatePlan, RecordUsage, PurgeUsage, MarkSynced

LEMMA UsageAfterErasure ==
  ASSUME TypeInv, Erased, NEW r \in Requests, Act(r), 0 \notin DOMAIN db.orgs,
         NEW u \in DOMAIN db'.usage, u[1] = 0
  PROVE  \E q \in late : u[3] = RequestId(q)
<1> USE DEF TypeInv
<1>1. Written(r) BY ActWrites
<1> DEFINE Late == \E q \in late : u[3] = RequestId(q)
<1>2. \A x \in DOMAIN db.usage : x[1] = 0 => \E q \in late : x[3] = RequestId(q)
  BY DEF Erased, ErasureLeavesNothing
<1>3. ASSUME NEW kind, NEW amount, Now(r, "meter") \/ Now(r, "meterTokens"),
             db' = RecordUsage(db, seen[r].org, kind, amount, RequestId(r)), db' # db
      PROVE  Late
  <2> DEFINE new == <<seen[r].org, kind, RequestId(r)>>
  <2>1. DOMAIN db'.usage = {new} \union DOMAIN db.usage
    BY <1>3 DEF RecordUsage, TablesInv, Put
  <2>2. new[1] = seen[r].org /\ new[3] = RequestId(r) OBVIOUS
  <2> HIDE DEF new
  <2>3. CASE u = new BY <2>2, <2>3, <1>3, WritersAreInFlight DEF Erased
  <2> QED BY <2>1, <2>3, <1>2
<1>4. DOMAIN db'.usage \subseteq DOMAIN db.usage => Late BY <1>2
<1>5. CASE db' = DeleteOrg(db, seen[r].org)
  BY <1>5, <1>4 DEF DeleteOrg, Without, TablesInv
<1>6. ASSUME NEW gone, db' = PurgeUsage(db, gone) PROVE Late
  BY <1>6, <1>4 DEF PurgeUsage, Without, TablesInv
<1>7. CASE db' = MarkSynced(db, seen[r].sent)
  BY <1>7, <1>4 DEF MarkSynced, TablesInv
<1>8. CASE db'.usage = db.usage BY <1>8, <1>4
<1> QED
  BY <1>1, <1>3, <1>5, <1>6, <1>7, <1>8
  DEF Written, TablesInv, InsertKey, RevokeKey, InsertMember, DeleteMember, InsertOrg,
      UpdatePlan, InsertSecret, SwapDek, ShredOrg, RecordUsage

LEMMA MembersAfterErasure ==
  ASSUME TypeInv, Erased, NEW r \in Requests, Act(r), 0 \notin DOMAIN db.orgs,
         NEW m \in DOMAIN db'.members, m[1] = 0
  PROVE  \E q \in Requests :
           work[q] = "provision" \/ (q \in late /\ work[q] = "add_member")
<1> USE DEF TypeInv
<1>1. Written(r) BY ActWrites
<1> DEFINE Late == \E q \in Requests :
                     work[q] = "provision" \/ (q \in late /\ work[q] = "add_member")
<1>2. \A x \in DOMAIN db.members : x[1] = 0 => Late
  BY DEF Erased, ErasureLeavesNothing
<1>3. ASSUME NEW role, Now(r, "addMember"),
             db' = InsertMember(db, seen[r].org, Newcomer, role)
      PROVE  Late
  <2> DEFINE new == <<seen[r].org, Newcomer>>
  <2>1. DOMAIN db'.members = {new} \union DOMAIN db.members
    BY <1>3 DEF InsertMember, TablesInv, Put
  <2>2. new[1] = seen[r].org OBVIOUS
  <2> HIDE DEF new
  <2>3. CASE m = new
    <3>1. CASE work[r] = "provision" BY <3>1
    <3>2. CASE work[r] # "provision"
      BY <2>2, <2>3, <3>2, <1>3, WritersAreInFlight DEF Erased
    <3> QED BY <3>1, <3>2
  <2> QED BY <2>1, <2>3, <1>2
<1>4. DOMAIN db'.members \subseteq DOMAIN db.members => Late BY <1>2
<1>5. CASE db' = DeleteOrg(db, seen[r].org)
  BY <1>5, <1>4 DEF DeleteOrg, Without, TablesInv
<1>6. CASE db' = DeleteMember(db, seen[r].org, Newcomer)
  BY <1>6, <1>4 DEF DeleteMember, Without, TablesInv
<1>7. CASE db'.members = db.members BY <1>7, <1>4
<1>8. DOMAIN db = {"orgs", "users", "members", "keys", "secrets", "usage"} BY DEF TablesInv
<1>9. \/ db'.members = db.members
      \/ Now(r, "addMember") /\ \E role : db' = InsertMember(db, seen[r].org, Newcomer, role)
      \/ db' = DeleteMember(db, seen[r].org, Newcomer)
      \/ db' = DeleteOrg(db, seen[r].org)
  BY <1>1, <1>8
  DEF Written, InsertKey, RevokeKey, InsertOrg, UpdatePlan, InsertSecret, SwapDek, ShredOrg,
      PurgeUsage, MarkSynced, RecordUsage
<1> QED BY <1>3, <1>5, <1>6, <1>7, <1>9

LEMMA RotatingEnters ==
  ASSUME TypeInv, NEW r \in Requests, Act(r), NEW q \in Rotating', q \notin Rotating
  PROVE  q = r /\ GetRows(r) /\ work[r] = "rotate" /\ db' = db
<1> USE DEF TypeInv
<1>1. Moved(r) /\ work' = work /\ RequestsInv' BY ActMoves, RequestsKept
<1>2. Requests' = Requests BY <1>1 DEF Requests
<1>3. q \in Requests /\ out'[q] = "open" /\ Scripts[work[q]][at'[q]] = "swap"
  BY <1>1, <1>2 DEF Rotating, Now
<1>4. at'[q] \in 1 .. Len(Scripts[work[q]]) /\ work[q] \in Kinds
  BY <1>1, <1>2, <1>3, NowIsTyped DEF RequestsInv
<1>5. work[q] = "rotate" /\ at'[q] = 4 BY <1>3, <1>4, CallsAreAt DEF CallAt
<1>6. out[q] = "open" BY <1>1, <1>3 DEF Moved, RequestsInv
<1>7. at[q] # 4 BY <1>3, <1>5, <1>6 DEF Rotating, Now
<1>8. q = r /\ at[r] \in {1, 2, 3} BY <1>1, <1>5, <1>7, <1>3 DEF Moved, RequestsInv
<1>9. ~Crash(r) BY <1>5, <1>8 DEF Crash
<1>10. Len(Scripts[work[r]]) = 4 BY <1>5, <1>8, LengthsAre
<1>11. at[r] = 3
  <2>1. CASE at[r] = 1
    <3>1. Now(r, "dekToRetire") BY <2>1, <1>5, <1>6, <1>8, CallsOf, NowIsTyped DEF Now
    <3>2. DekToRetire(r) BY <3>1, <1>9, StepIsTheCall
    <3> QED BY <3>2, <2>1, <1>5, <1>8, <1>10 DEF DekToRetire, Go, Stop, RequestsInv
  <2>2. CASE at[r] = 2
    <3>1. Now(r, "dek") BY <2>2, <1>5, <1>6, <1>8, CallsOf, NowIsTyped DEF Now
    <3>2. GetDek(r) BY <3>1, <1>9, StepIsTheCall
    <3> QED BY <3>2, <2>2, <1>5, <1>8, <1>10 DEF GetDek, Read, Go, Stop, RequestsInv
  <2> QED BY <2>1, <2>2, <1>8
<1>12. Now(r, "rows") BY <1>5, <1>6, <1>8, <1>11, CallsOf, NowIsTyped DEF Now
<1>13. GetRows(r) BY <1>9, <1>12, StepIsTheCall
<1> QED BY <1>5, <1>8, <1>13 DEF GetRows

\* What a rotation has read are the secrets of organization 0 at that time.
LEMMA RotationReads ==
  ASSUME TypeInv, NEW r \in Requests, Act(r), NEW q \in Rotating', q \notin Rotating
  PROVE  /\ \A s \in DOMAIN db.secrets : s[2] \in DOMAIN seen'[q].values
         /\ \A name \in DOMAIN seen'[q].values :
              /\ <<0, name>> \in DOMAIN db.secrets
              /\ seen'[q].values[name] = db.secrets[<<0, name>>].value
<1> USE DEF TypeInv
<1>1. q = r /\ GetRows(r) /\ work[r] = "rotate" BY RotatingEnters
<1>2. seen[r].org = 0 BY <1>1 DEF RequestsInv
<1> DEFINE rows == SecretsOf(db, 0)
           vals == [name \in DOMAIN rows |-> rows[name].value]
<1>3. at'[r] # at[r]
  <2>1. work'[r] = work[r] BY ActMoves
  <2>2. Moved(r) BY ActMoves
  <2>3. Requests' = Requests BY ActMoves DEF Requests
  <2>4. out'[r] = "open" BY <1>1 DEF Rotating, Now
  <2>5. out[r] = "open" BY <2>2 DEF Moved
  <2> QED BY <1>1, <2>1, <2>3, <2>4, <2>5 DEF Rotating, Now
<1>4. See(r, "values", vals) BY <1>1, <1>2, <1>3 DEF GetRows, Stop
<1>5. seen'[r].values = vals
  <2> HIDE DEF vals
  <2> QED BY <1>4, SeeOne DEF Fields
<1>6. \A s \in DOMAIN db.secrets : s = <<0, s[2]>> /\ s[1] = 0 BY DEF TablesInv
<1>7. DOMAIN vals = {s[2] : s \in DOMAIN db.secrets}
  BY <1>6 DEF SecretsOf
<1>8. \A name \in DOMAIN vals : /\ <<0, name>> \in DOMAIN db.secrets
                                /\ vals[name] = db.secrets[<<0, name>>].value
  BY <1>6 DEF SecretsOf
<1> HIDE DEF vals
<1> QED BY <1>1, <1>5, <1>7, <1>8

LEMMA ErasedKept ==
  ASSUME TypeInv, Erased, NEW r \in Requests, Act(r)
  PROVE  Erased'
<1> USE DEF TypeInv
<1>1. Requests' = Requests /\ work' = work BY ActMoves DEF Requests
<1>2. (raced => raced') /\ late \subseteq late' BY HistoryGrows
<1> SUFFICES ASSUME 0 \notin DOMAIN db'.orgs
             PROVE  /\ \A q \in Requests : InFlight(q)' => q \in late'
                    /\ \A q \in Rotating' : \A name \in DOMAIN seen'[q].values :
                         raced' \/ seen'[q].values[name] \in late'
                    /\ ErasureLeavesNothing'
  BY <1>1 DEF Erased
<1>3. CASE 0 \notin DOMAIN db.orgs
  <2>1. \A q \in Requests : InFlight(q)' => q \in late'
    BY <1>2, <1>3, InFlightEnters DEF Erased
  <2>2. ASSUME NEW q \in Rotating', NEW name \in DOMAIN seen'[q].values
        PROVE  raced' \/ seen'[q].values[name] \in late'
    <3>1. CASE q \in Rotating
      <4>1. q \in Requests /\ (GetRows(r) => q # r)
        BY <3>1 DEF Rotating, GetRows, Now
      <4>2. seen'[q].values = seen[q].values
        BY <4>1, FieldsKept, ActSees DEF Saw
      <4> QED BY <3>1, <4>2, <2>2, <1>2, <1>3 DEF Erased
    <3>2. CASE q \notin Rotating
      BY <3>2, <2>2, <1>2, <1>3, RotationReads DEF Erased, ErasureLeavesNothing
    <3> QED BY <3>1, <3>2
  <2>3. ErasureLeavesNothing'
    <3>1. \A k \in DOMAIN db'.keys : db'.keys[k].org = 0 => k \in late'
      BY <1>2, <1>3, KeysAfterErasure
    <3>2. \A s \in DOMAIN db'.secrets : s[1] = 0 => raced' \/ db'.secrets[s].value \in late'
      BY <1>2, <1>3, SecretsAfterErasure
    <3>3. \A u \in DOMAIN db'.usage : u[1] = 0 => \E q \in late' : u[3] = RequestId(q)
      BY <1>2, <1>3, UsageAfterErasure
    <3>4. \A m \in DOMAIN db'.members :
            m[1] = 0 => \E q \in Requests :
              work[q] = "provision" \/ (q \in late' /\ work[q] = "add_member")
      BY <1>2, <1>3, MembersAfterErasure
    <3>5. \A q : RequestId(q)' = RequestId(q) BY <1>1 DEF RequestId
    <3> QED BY <1>1, <3>1, <3>2, <3>3, <3>4, <3>5 DEF ErasureLeavesNothing
  <2> QED BY <2>1, <2>2, <2>3
<1>4. CASE 0 \in DOMAIN db.orgs
  <2>1. Delete(r) BY <1>4, OnlyDeletionErases
  <2>2. late' = late \union {q \in Requests : InFlight(q)} BY <2>1 DEF Delete
  <2>3. \A q \in Requests : InFlight(q)' => q \in late'
    BY <1>4, <2>2, InFlightEnters
  <2>4. Rotating' \subseteq Rotating \ {r}
    <3>1. ~GetRows(r) BY <2>1 DEF Delete, GetRows, Now
    <3>2. r \notin Rotating'
      BY <2>1, <3>1, RotatingEnters DEF Rotating, Delete, Now
    <3> QED BY <3>1, <3>2, RotatingEnters
  <2>5. Rotating' # {} => raced' BY <2>1, <2>4 DEF Delete, Races
  <2>6. ErasureLeavesNothing'
    BY <2>1, <1>4, <1>1, DeletionEmpties DEF ErasureLeavesNothing
  <2> QED BY <2>3, <2>5, <2>6
<1> QED BY <1>3, <1>4

LEMMA InitErased ==
  ASSUME Init
  PROVE  Erased
<1>1. 0 \in DOMAIN db.orgs BY DEF Init
<1> QED BY <1>1 DEF Erased

\* Whatever is found of an erased organization was written by requests that were in
\* flight when it was erased, or by SCIM: for any requests in any order.
THEOREM ErasureIsComplete == Spec => []ErasureLeavesNothing
<1>1. Init => Erased BY InitErased
<1>2. TypeInv /\ Erased /\ [Next]_vars => Erased'
  <2> SUFFICES ASSUME TypeInv, Erased, [Next]_vars PROVE Erased' OBVIOUS
  <2>1. ASSUME NEW r \in Requests, Act(r) PROVE Erased' BY <2>1, ErasedKept
  <2>2. CASE Roll
    BY <2>2 DEF Roll, history, Erased, ErasureLeavesNothing, InFlight, Rotating, Now, Requests, RequestId
  <2>3. CASE Expire
    <3>1. /\ UNCHANGED <<work, at, out, seen, raced, late>>
          /\ db' = [db EXCEPT !.keys[0].state = "expired"]
      BY <2>3 DEF Expire, Frame, history
    <3>2. /\ db'.orgs = db.orgs /\ db'.secrets = db.secrets /\ db'.usage = db.usage
          /\ db'.members = db.members /\ DOMAIN db'.keys = DOMAIN db.keys
          /\ \A k \in DOMAIN db.keys : db'.keys[k].org = db.keys[k].org
      BY <3>1 DEF TypeInv, TablesInv, KeyRow
    <3> QED
      BY <3>1, <3>2 DEF Erased, ErasureLeavesNothing, InFlight, Rotating, Now, Requests, RequestId
  <2>4. CASE UNCHANGED vars
    BY <2>4
    DEF vars, history, Erased, ErasureLeavesNothing, InFlight, Rotating, Now, Requests, RequestId
  <2> QED BY <2>1, <2>2, <2>3, <2>4 DEF Next, Act
<1>3. Erased => ErasureLeavesNothing BY DEF Erased, ErasureLeavesNothing
<1> QED BY <1>1, <1>2, <1>3, TypeInvariance, PTL DEF Spec

-----------------------------------------------------------------------------
(* Secrets.                                                                *)

\* As long as no changes raced: who is about to write has the key that the rows
\* are under, a rotation has the values it will write back, and the organization
\* of a rotation exists.
SecretsInv ==
  raced \/
    /\ \A s \in DOMAIN db.secrets :
         /\ db.secrets[s].under = WrappedDek(db, 0)
         /\ s[2] \in DOMAIN written /\ db.secrets[s].value = written[s[2]]
    /\ \A r \in Writing : seen[r].dek = WrappedDek(db, 0)
    /\ \A r \in Rotating : \A s \in DOMAIN db.secrets :
         s[2] \in DOMAIN seen[r].values /\ seen[r].values[s[2]] = written[s[2]]
    /\ Retiring # {} => 0 \in DOMAIN db.orgs

LEMMA WritingEnters ==
  ASSUME TypeInv, NEW r \in Requests, Act(r), NEW q \in Writing', q \notin Writing
  PROVE  q = r /\ DekToWrite(r) /\ seen'[r].dek = WrappedDek(db, 0)
<1> USE DEF TypeInv
<1>1. Moved(r) /\ work' = work /\ RequestsInv' BY ActMoves, RequestsKept
<1>2. Requests' = Requests BY <1>1 DEF Requests
<1>3. q \in Requests /\ out'[q] = "open" /\ Scripts[work[q]][at'[q]] = "write"
  BY <1>1, <1>2 DEF Writing, Now
<1>4. at'[q] \in 1 .. Len(Scripts[work[q]]) /\ work[q] \in Kinds
  BY <1>1, <1>2, <1>3, NowIsTyped DEF RequestsInv
<1>5. work[q] = "set_secret" /\ at'[q] = 6 BY <1>3, <1>4, CallsAreAt DEF CallAt
<1>6. out[q] = "open" BY <1>1, <1>3 DEF Moved, RequestsInv
<1>7. at[q] # 6 BY <1>3, <1>5, <1>6 DEF Writing, Now
<1>8. q = r /\ at[r] \in {3, 4, 5} BY <1>1, <1>5, <1>7, <1>3 DEF Moved, RequestsInv
<1>9. ~Crash(r) BY <1>5, <1>8 DEF Crash
<1>10. Len(Scripts[work[r]]) = 6 BY <1>5, <1>8, LengthsAre
<1>11. Scripts[work[r]][3] = "dek" /\ Scripts[work[r]][4] = "rows"
  BY <1>4, <1>5, <1>8, CallsOf DEF Permission
<1>12. at[r] = 5
  <2>1. CASE at[r] = 3
    <3>1. GetDek(r) BY <2>1, <1>6, <1>8, <1>9, <1>11, StepIsTheCall DEF Now
    <3> QED BY <3>1, <2>1, <1>5, <1>8, <1>10 DEF GetDek, Read, Go, Stop, RequestsInv
  <2>2. CASE at[r] = 4
    <3>1. GetRows(r) BY <2>2, <1>6, <1>8, <1>9, <1>11, StepIsTheCall DEF Now
    <3> QED BY <3>1, <2>2, <1>5, <1>8, <1>10 DEF GetRows, Go, Stop, RequestsInv
  <2> QED BY <2>1, <2>2, <1>8
<1>13. Now(r, "dekToWrite") BY <1>5, <1>6, <1>8, <1>12, <1>4, CallsOf DEF Now
<1>14. DekToWrite(r) BY <1>9, <1>13, StepIsTheCall
<1>15. seen[r].org = 0 BY <1>5, <1>8 DEF RequestsInv
<1>16. See(r, "dek", WrappedDek(db, 0)) BY <1>14, <1>15 DEF DekToWrite, Read
<1> QED BY <1>8, <1>14, <1>16, SeeOne DEF Fields

LEMMA RetiringEnters ==
  ASSUME TypeInv, NEW r \in Requests, Act(r), NEW q \in Retiring', q \notin Retiring
  PROVE  DekToRetire(r) /\ 0 \in DOMAIN db.orgs
<1> USE DEF TypeInv
<1>1. Moved(r) /\ work' = work BY ActMoves
<1>2. Requests' = Requests BY <1>1 DEF Requests
<1>3. q \in Requests /\ out'[q] = "open" /\ work[q] = "rotate" /\ at'[q] > 1
  BY <1>1, <1>2 DEF Retiring
<1>4. out[q] = "open" BY <1>1, <1>3 DEF Moved, RequestsInv
<1>5. at[q] = 1 BY <1>3, <1>4 DEF Retiring, RequestsInv
<1>6. q = r /\ at'[r] # at[r] BY <1>1, <1>3, <1>5 DEF Moved, RequestsInv
<1>7. ~Crash(r) BY <1>3, <1>6 DEF Crash
<1>8. Now(r, "dekToRetire") BY <1>3, <1>4, <1>5, <1>6, CallsOf, NowIsTyped DEF Now
<1>9. DekToRetire(r) BY <1>7, <1>8, StepIsTheCall
<1>10. seen[r].org = 0 BY <1>3, <1>6 DEF RequestsInv
<1>11. WrappedDek(db, 0) # NoDek BY <1>6, <1>9, <1>10 DEF DekToRetire, Stop
<1> QED BY <1>9, <1>11 DEF WrappedDek

\* Only four calls touch the secrets, or the key of organization 0.
LEMMA SecretsOtherwiseKept ==
  ASSUME TypeInv, NEW r \in Requests, Act(r),
         ~WriteSecret(r), ~Swap(r), ~Shred(r), ~Delete(r)
  PROVE  /\ db'.secrets = db.secrets /\ WrappedDek(db', 0) = WrappedDek(db, 0)
         /\ UNCHANGED <<written, raced>>
<1> USE DEF TypeInv
<1>1. UNCHANGED <<written, raced>>
  BY DEF Act, Authenticate, Administer, Secure, Spend, Bill, Key, Membership,
      GetOrg, GetDek, GetRows, CountKeys, CountSeats, IssueKey, Revoke, LookUser, FindUser,
      InsertUser, AddMember, RemoveMember, SeekMembership, CreateOrg, DekToWrite,
      DekToRetire, Quota, Cap, Run, Meter, MeterTokens,
      Charge, LinkCustomer, Purge, Unsynced, Send, Mark, Crash, SetPlan, StripeEvent, Read,
      Check, Write, Frame, history
<1>2. \A call \in {"write", "swap", "shred", "delete"} : ~Now(r, call)
  <2> SUFFICES ASSUME NEW call \in {"write", "swap", "shred", "delete"}, Now(r, call)
               PROVE  FALSE
    OBVIOUS
  <2>1. ~Crash(r) BY NextCall DEF CallAt, Crash
  <2> QED BY <2>1, StepIsTheCall
<1>3. Written(r) BY ActWrites
<1>4. DOMAIN db = {"orgs", "users", "members", "keys", "secrets", "usage"} BY DEF TablesInv
<1>5. CASE Now(r, "insertOrg") /\ db' = InsertOrg(db, r, "free", r)
  <2>1. r # 0 BY DEF Requests
  <2>2. db'.orgs = Put(db.orgs, r, [plan |-> "free", dek |-> r, customer |-> FALSE])
    BY <1>4, <1>5 DEF InsertOrg
  <2>3. WrappedDek(db', 0) = WrappedDek(db, 0) BY <2>1, <2>2 DEF Put, WrappedDek
  <2> QED BY <1>1, <1>4, <1>5, <2>3 DEF InsertOrg
<1>6. ASSUME NEW plan, db' = UpdatePlan(db, seen[r].org, plan)
      PROVE  db'.secrets = db.secrets /\ WrappedDek(db', 0) = WrappedDek(db, 0)
  <2>1. CASE seen[r].org \notin DOMAIN db.orgs BY <1>6, <2>1 DEF UpdatePlan
  <2>2. CASE seen[r].org \in DOMAIN db.orgs
    <3>1. db' = [db EXCEPT !.orgs[seen[r].org].plan = plan] BY <1>6, <2>2 DEF UpdatePlan
    <3>2. db.orgs[seen[r].org] \in OrgRow BY <2>2 DEF TablesInv
    <3> QED BY <3>1, <3>2, <1>4 DEF OrgRow, WrappedDek
  <2> QED BY <2>1, <2>2
<1>7. CASE 0 \in DOMAIN db.orgs /\ db' = [db EXCEPT !.orgs[0].customer = TRUE]
  <2>1. db.orgs[0] \in OrgRow BY <1>7 DEF TablesInv
  <2> QED BY <1>1, <1>4, <1>7, <2>1 DEF OrgRow, WrappedDek
<1>8. CASE db'.secrets = db.secrets /\ db'.orgs = db.orgs
  BY <1>1, <1>8 DEF WrappedDek
<1> QED
  BY <1>1, <1>2, <1>3, <1>4, <1>5, <1>6, <1>7, <1>8
  DEF Written, InsertKey, RevokeKey, InsertMember, DeleteMember, RecordUsage, PurgeUsage,
      MarkSynced

\* A new secret is under the key that its writer has seen.
LEMMA WriteKeepsSecrets ==
  ASSUME TypeInv, SecretsInv, NEW r \in Requests, Act(r), WriteSecret(r)
  PROVE  SecretsInv'
<1> USE DEF TypeInv
<1> SUFFICES ASSUME ~raced' PROVE SecretsInv' BY DEF SecretsInv
<1>1. ~raced /\ Rotating \ {r} = {} BY DEF WriteSecret, Races
<1>2. r \in Writing /\ r \notin Rotating BY DEF WriteSecret, Writing, Rotating, Now
<1>3. PICK name : /\ db' = InsertSecret(db, seen[r].org, name, Encrypted(seen[r].dek, r))
                  /\ written' = Put(written, name, r)
  BY DEF WriteSecret
<1>4. seen[r].org = 0 /\ seen[r].dek = WrappedDek(db, 0)
  BY <1>1, <1>2, NextCall DEF WriteSecret, CallAt, RequestsInv, SecretsInv
<1> DEFINE new == <<0, name>>
           row == Encrypted(seen[r].dek, r)
<1>5. db' = [db EXCEPT !.secrets = Put(db.secrets, new, row)]
  BY <1>3, <1>4 DEF InsertSecret, TablesInv
<1>6. db'.secrets = Put(db.secrets, new, row) /\ db'.orgs = db.orgs
  BY <1>5 DEF TablesInv
<1>7. WrappedDek(db', 0) = WrappedDek(db, 0) BY <1>6 DEF WrappedDek
<1>8. row.under = WrappedDek(db, 0) /\ row.value = r /\ new[2] = name BY <1>4 DEF Encrypted
<1>9. \A s \in DOMAIN db.secrets : s # new => s[2] # name BY DEF TablesInv
<1> HIDE DEF new, row
<1>10. ASSUME NEW s \in DOMAIN db'.secrets
       PROVE  /\ db'.secrets[s].under = WrappedDek(db', 0)
              /\ s[2] \in DOMAIN written' /\ db'.secrets[s].value = written'[s[2]]
  <2>1. CASE s = new BY <2>1, <1>3, <1>6, <1>7, <1>8 DEF Put
  <2>2. CASE s # new
    <3>1. s \in DOMAIN db.secrets /\ db'.secrets[s] = db.secrets[s] BY <2>2, <1>6 DEF Put
    <3>2. /\ db.secrets[s].under = WrappedDek(db, 0)
          /\ s[2] \in DOMAIN written /\ db.secrets[s].value = written[s[2]]
      BY <3>1, <1>1 DEF SecretsInv
    <3>3. s[2] \in DOMAIN written' /\ written'[s[2]] = written[s[2]]
      BY <2>2, <3>1, <3>2, <1>3, <1>9 DEF Put
    <3> QED BY <3>1, <3>2, <3>3, <1>7
  <2> QED BY <2>1, <2>2
<1>11. ~GetRows(r) /\ ~DekToWrite(r) /\ ~DekToRetire(r)
  BY DEF WriteSecret, GetRows, DekToWrite, DekToRetire, Read, Now
<1>12. Rotating' = {} BY <1>1, <1>2, <1>11, RotatingEnters
<1>13. \A q \in Writing' : seen'[q].dek = WrappedDek(db', 0)
  <2> TAKE q \in Writing'
  <2>1. q \in Writing BY <1>11, WritingEnters
  <2>2. seen' = seen BY DEF WriteSecret
  <2> QED BY <1>1, <1>7, <2>1, <2>2 DEF SecretsInv
<1>14. Retiring' # {} => 0 \in DOMAIN db'.orgs
  BY <1>1, <1>6, <1>11, RetiringEnters DEF SecretsInv
<1> QED BY <1>10, <1>12, <1>13, <1>14 DEF SecretsInv

\* A rotation that races with nothing writes back what holds, under the new key.
LEMMA SwapKeepsSecrets ==
  ASSUME TypeInv, SecretsInv, NEW r \in Requests, Act(r), Swap(r)
  PROVE  SecretsInv'
<1> USE DEF TypeInv
<1> SUFFICES ASSUME ~raced' PROVE SecretsInv' BY DEF SecretsInv
<1>1. work[r] = "rotate" /\ at[r] = 4 /\ out[r] = "open" /\ seen[r].org = 0
  BY NextCall DEF Swap, CallAt, RequestsInv, Now
<1>2. ~raced /\ Rotating \ {r} = {} /\ Writing = {} BY <1>1 DEF Swap, Races
<1>3. r \in Rotating /\ r \in Retiring BY <1>1 DEF Swap, Rotating, Retiring
<1>4. 0 \in DOMAIN db.orgs BY <1>2, <1>3 DEF SecretsInv
<1>5. db' = SwapDek(db, 0, r, seen[r].values) /\ written' = written BY <1>1 DEF Swap
<1>6. WrappedDek(db', 0) = r /\ DOMAIN db'.orgs = DOMAIN db.orgs
  <2>1. db.orgs[0] \in OrgRow BY <1>4 DEF TablesInv
  <2>2. db'.orgs = [o \in DOMAIN db.orgs |->
                      IF o = 0 THEN [db.orgs[o] EXCEPT !.dek = r] ELSE db.orgs[o]]
    BY <1>5 DEF SwapDek, TablesInv
  <2> QED BY <1>4, <2>1, <2>2 DEF WrappedDek, OrgRow
<1>7. ASSUME NEW s \in DOMAIN db'.secrets
      PROVE  /\ db'.secrets[s].under = WrappedDek(db', 0)
             /\ s[2] \in DOMAIN written' /\ db'.secrets[s].value = written'[s[2]]
  <2>1. /\ s \in DOMAIN db.secrets
        /\ s[1] = 0 /\ s[2] \in DOMAIN seen[r].values
           => db'.secrets[s] = Encrypted(r, seen[r].values[s[2]])
    BY <1>5 DEF SwapDek, TablesInv
  <2>2. /\ s[2] \in DOMAIN written /\ s[2] \in DOMAIN seen[r].values
        /\ seen[r].values[s[2]] = written[s[2]]
    BY <2>1, <1>2, <1>3 DEF SecretsInv
  <2>3. s[1] = 0 BY <2>1 DEF TablesInv
  <2> QED BY <2>1, <2>2, <2>3, <1>5, <1>6 DEF Encrypted
<1>8. ~GetRows(r) /\ ~DekToWrite(r) BY DEF Swap, GetRows, DekToWrite, Read, Now
<1>9. Writing' = {} BY <1>2, <1>8, WritingEnters
<1>10. Rotating' = {}
  <2>1. Rotating' \subseteq {r} BY <1>2, <1>8, RotatingEnters
  <2>2. Len(Scripts[work[r]]) = 4 BY <1>1, LengthsAre
  <2>3. out'[r] = "done" BY <1>1, <2>2 DEF Swap, Go, RequestsInv
  <2> QED BY <2>1, <2>3 DEF Rotating, Now
<1> QED BY <1>4, <1>6, <1>7, <1>9, <1>10 DEF SecretsInv

LEMMA ShredKeepsSecrets ==
  ASSUME TypeInv, SecretsInv, NEW r \in Requests, Act(r), Shred(r)
  PROVE  SecretsInv'
<1> USE DEF TypeInv
<1> SUFFICES ASSUME ~raced' PROVE SecretsInv' BY DEF SecretsInv
<1>1. work[r] = "erase" /\ seen[r].org = 0 BY NextCall DEF Shred, CallAt, RequestsInv
<1>2. ~raced /\ Rotating \ {r} = {} /\ Writing = {} BY <1>1 DEF Shred, Races
<1>3. r \notin Rotating /\ ~GetRows(r) /\ ~DekToWrite(r) /\ ~DekToRetire(r)
  BY DEF Shred, Rotating, GetRows, DekToWrite, DekToRetire, Read, Now
<1>4. Rotating' = {} /\ Writing' = {} BY <1>2, <1>3, RotatingEnters, WritingEnters
<1>5. db' = ShredOrg(db, 0) /\ written' = written BY <1>1 DEF Shred
<1>6. DOMAIN db'.orgs = DOMAIN db.orgs BY <1>5 DEF ShredOrg, TablesInv
<1>7. Retiring' # {} => 0 \in DOMAIN db'.orgs
  BY <1>2, <1>3, <1>6, RetiringEnters DEF SecretsInv
<1>8. CASE 0 \notin DOMAIN db.orgs
  <2>1. db' = db BY <1>5, <1>8 DEF ShredOrg
  <2> QED BY <1>2, <1>4, <1>5, <1>7, <2>1 DEF SecretsInv
<1>9. CASE 0 \in DOMAIN db.orgs
  <2>1. DOMAIN db'.secrets = {}
    BY <1>5, <1>9 DEF ShredOrg, Without, OwnRows, TablesInv
  <2> QED BY <1>4, <1>7, <2>1 DEF SecretsInv
<1> QED BY <1>8, <1>9

LEMMA DeleteKeepsSecrets ==
  ASSUME TypeInv, SecretsInv, NEW r \in Requests, Act(r), Delete(r)
  PROVE  SecretsInv'
<1> USE DEF TypeInv
<1> SUFFICES ASSUME ~raced' PROVE SecretsInv' BY DEF SecretsInv
<1>1. work[r] = "erase" /\ seen[r].org = 0 BY NextCall DEF Delete, CallAt, RequestsInv
<1>2. ~raced /\ Rotating \ {r} = {} /\ Writing = {} /\ Retiring = {}
  BY <1>1 DEF Delete, Races
<1>3. r \notin Rotating /\ ~GetRows(r) /\ ~DekToWrite(r) /\ ~DekToRetire(r)
  BY DEF Delete, Rotating, GetRows, DekToWrite, DekToRetire, Read, Now
<1>4. Rotating' = {} /\ Writing' = {} /\ Retiring' = {}
  BY <1>2, <1>3, RotatingEnters, WritingEnters, RetiringEnters
<1>5. db' = DeleteOrg(db, 0) /\ written' = written BY <1>1 DEF Delete
<1>6. CASE 0 \notin DOMAIN db.orgs
  <2>1. db' = db BY <1>5, <1>6 DEF DeleteOrg
  <2> QED BY <1>2, <1>4, <1>5, <2>1 DEF SecretsInv
<1>7. CASE 0 \in DOMAIN db.orgs
  <2>1. DOMAIN db'.secrets = {}
    <3>1. \A s \in DOMAIN db'.secrets : s[1] # 0 BY <1>7, DeletionEmpties
    <3>2. \A s \in DOMAIN db'.secrets : s = <<0, s[2]>>
      BY TablesKept DEF TablesInv
    <3> QED BY <3>1, <3>2
  <2> QED BY <1>4, <2>1 DEF SecretsInv
<1> QED BY <1>6, <1>7

LEMMA OthersKeepSecrets ==
  ASSUME TypeInv, SecretsInv, NEW r \in Requests, Act(r),
         ~WriteSecret(r), ~Swap(r), ~Shred(r), ~Delete(r)
  PROVE  SecretsInv'
<1> USE DEF TypeInv
<1> SUFFICES ASSUME ~raced' PROVE SecretsInv' BY DEF SecretsInv
<1>1. /\ db'.secrets = db.secrets /\ WrappedDek(db', 0) = WrappedDek(db, 0)
      /\ written' = written /\ ~raced
  BY SecretsOtherwiseKept
<1>2. Saw(r) BY ActSees
<1>3. \A q \in Writing' : seen'[q].dek = WrappedDek(db', 0)
  <2> TAKE q \in Writing'
  <2>1. CASE q \notin Writing BY <2>1, <1>1, WritingEnters
  <2>2. CASE q \in Writing
    <3>1. q = r => ~GetDek(r) /\ ~DekToWrite(r)
      BY <2>2 DEF Writing, GetDek, DekToWrite, Read, Now
    <3>2. seen'[q].dek = seen[q].dek BY <2>2, <3>1, <1>2, FieldsKept DEF Saw, Writing
    <3> QED BY <2>2, <3>2, <1>1 DEF SecretsInv
  <2> QED BY <2>1, <2>2
<1>4. ASSUME NEW q \in Rotating', NEW s \in DOMAIN db.secrets
      PROVE  s[2] \in DOMAIN seen'[q].values /\ seen'[q].values[s[2]] = written[s[2]]
  <2>1. CASE q \notin Rotating
    <3>1. /\ s[2] \in DOMAIN seen'[q].values
          /\ seen'[q].values[s[2]] = db.secrets[<<0, s[2]>>].value
      BY <1>4, <2>1, RotationReads
    <3>2. s = <<0, s[2]>> BY DEF TablesInv
    <3> QED BY <3>1, <3>2, <1>1 DEF SecretsInv
  <2>2. CASE q \in Rotating
    <3>1. q = r => ~GetRows(r) BY <2>2 DEF Rotating, GetRows, Now
    <3>2. seen'[q].values = seen[q].values
      BY <2>2, <3>1, <1>2, FieldsKept DEF Saw, Rotating
    <3> QED BY <2>2, <3>2, <1>1 DEF SecretsInv
  <2> QED BY <2>1, <2>2
<1>5. Retiring' # {} => 0 \in DOMAIN db'.orgs
  <2>1. Retiring' # {} => 0 \in DOMAIN db.orgs BY <1>1, RetiringEnters DEF SecretsInv
  <2> QED BY <2>1, OnlyDeletionErases
<1> QED BY <1>1, <1>3, <1>4, <1>5 DEF SecretsInv

LEMMA InitSecrets ==
  ASSUME Init
  PROVE  SecretsInv
<1>1. PICK dek \in {0, NoDek} :
        /\ WrappedDek(db, 0) = dek
        /\ db.secrets = [s \in {<<0, "github">>} |-> Encrypted(dek, 0)]
        /\ 0 \in DOMAIN db.orgs
  BY DEF Init, WrappedDek
<1>2. written = [name \in {"github"} |-> 0] BY DEF Init
<1>3. Writing = {} /\ Rotating = {}
  <2>1. TypeInv BY InitTyped
  <2>2. \A r \in Requests : at[r] = 1 BY DEF Init
  <2> QED BY <2>1, <2>2, NextCall DEF TypeInv, Writing, Rotating, CallAt
<1> QED BY <1>1, <1>2, <1>3 DEF SecretsInv, Encrypted

\* Whatever is stored can be read back, with the value written last, over any number
\* of rotations, shreddings and erasures, unless two changes overlapped of which one
\* changes the key.
THEOREM SecretsStayReadable == Spec => []SecretsReadable
<1>1. Init => SecretsInv BY InitSecrets
<1>2. TypeInv /\ SecretsInv /\ [Next]_vars => SecretsInv'
  <2> SUFFICES ASSUME TypeInv, SecretsInv, [Next]_vars PROVE SecretsInv' OBVIOUS
  <2>1. ASSUME NEW r \in Requests, Act(r) PROVE SecretsInv'
    BY <2>1, WriteKeepsSecrets, SwapKeepsSecrets, ShredKeepsSecrets, DeleteKeepsSecrets,
       OthersKeepSecrets
  <2>2. CASE Roll
    BY <2>2 DEF Roll, history, SecretsInv, Writing, Rotating, Retiring, Now, Requests
  <2>3. CASE Expire
    <3>1. /\ UNCHANGED <<work, at, out, seen, raced, written>>
          /\ db'.orgs = db.orgs /\ db'.secrets = db.secrets
      BY <2>3 DEF Expire, Frame, history, TypeInv, TablesInv
    <3> QED
      BY <3>1 DEF SecretsInv, WrappedDek, Writing, Rotating, Retiring, Now, Requests
  <2>4. CASE UNCHANGED vars
    BY <2>4 DEF vars, history, SecretsInv, Writing, Rotating, Retiring, Now, Requests
  <2> QED BY <2>1, <2>2, <2>3, <2>4 DEF Next, Act
<1>3. TypeInv /\ SecretsInv => SecretsReadable
  BY DEF TypeInv, TablesInv, SecretsInv, SecretsReadable, Decrypts
<1> QED BY <1>1, <1>2, <1>3, TypeInvariance, PTL DEF Spec
-----------------------------------------------------------------------------
(* Limits: what is used, and who is about to use more.                     *)

Active(base) == {k \in DOMAIN base.keys : base.keys[k].org = 0 /\ base.keys[k].state # "revoked"}
Seats(base) == {m \in DOMAIN base.members : m[1] = 0}
Spent(base) == Units(base, 0, "investigation")

\* The requests that may still add to each: past the check and not yet at the
\* write, and those that are not checked at all.
Kind(kinds) == {r \in Requests : work[r] \in kinds}
Keying == Past("create_key")
Seating == Past("add_member") \union {r \in Kind({"provision"}) : out[r] = "open"}
Metering ==
  {r \in Past("investigate") : at[r] <= 8}
  \union {r \in Kind({"approve"}) : out[r] = "open" /\ at[r] <= 6}
Charging ==
  {r \in Past("investigate") : at[r] > 6}
  \union {r \in Kind({"approve", "triggered"}) : out[r] = "open"}

\* The requests that spend without a look at the cap.
Unchecked == Of({"approve", "triggered"})

\* Nobody asks for another plan, and none has one.
PlanInv ==
  PlanStays => /\ \A o \in DOMAIN db.orgs : db.orgs[o].plan = "free"
               /\ \A r \in Requests : seen[r].plan = "free"

PeakInv ==
  /\ peak \in [DOMAIN Gate -> Nat] /\ blind \in Nat
  /\ \A kind \in DOMAIN Gate : Cardinality(Past(kind)) <= peak[kind]

\* Room: what is used and what may still be added stay within the overshoot.
Room(S, P, limit, n, extra) ==
  IsFiniteSet(S) /\ Cardinality(S) + Cardinality(P) <= Overshoot(limit, n) + extra

RoomInv ==
  PlanStays =>
    /\ Room(Active(db), Keying, 2, peak.create_key, 0)
    /\ Room(Seats(db), Seating, 3, peak.add_member, Of({"provision"}))
    /\ Room(Spent(db), Metering, 50, peak.investigate, Of({"approve"}))

SpendInv ==
  TokenCap > 0 =>
    spend + Cardinality(Charging) * MaxTokens
      <= (TokenCap - 1) + (peak.investigate + blind + Unchecked) * MaxTokens
TokensInv == \A r \in Requests : seen[r].tokens <= MaxTokens

LimitsInv == PlanInv /\ PeakInv /\ RoomInv /\ SpendInv /\ TokensInv

LEMMA RequestsAreFinite ==
  ASSUME RequestsInv, NEW S \in SUBSET Requests
  PROVE  IsFiniteSet(S) /\ Cardinality(S) \in Nat
<1>1. Len(work) \in Nat BY DEF RequestsInv
<1>2. IsFiniteSet(Requests) BY <1>1, FS_Interval DEF Requests
<1> QED BY <1>2, FS_Subset, FS_CardinalityType

LEMMA KindsAreFinite ==
  ASSUME RequestsInv, NEW kinds
  PROVE  /\ IsFiniteSet(Kind(kinds)) /\ Of(kinds) = Cardinality(Kind(kinds))
         /\ Of(kinds) \in Nat
BY RequestsAreFinite DEF Kind, Of

LEMMA NobodyAsks ==
  ASSUME RequestsInv, PlanStays, NEW r \in Requests
  PROVE  work[r] # "set_plan" /\ work[r] # "stripe"
<1>1. Kind({"set_plan", "stripe"}) = {}
  BY KindsAreFinite, FS_EmptySet DEF PlanStays
<1> QED BY <1>1 DEF Kind

\* A set within two others has no more elements than they have.
LEMMA WithinTwo ==
  ASSUME NEW A, NEW B, NEW Q, IsFiniteSet(A), IsFiniteSet(B), Q \subseteq A \union B
  PROVE  Cardinality(Q) <= Cardinality(A) + Cardinality(B)
<1> DEFINE both == A \union B
<1>1. IsFiniteSet(A \cap B) BY FS_Intersection
<1>2. /\ IsFiniteSet(both)
      /\ Cardinality(both) = Cardinality(A) + Cardinality(B) - Cardinality(A \cap B)
  BY FS_Union
<1>3. IsFiniteSet(Q) /\ Cardinality(Q) <= Cardinality(both)
  <2> HIDE DEF both
  <2>1. Q \subseteq both BY DEF both
  <2> QED BY <1>2, <2>1, FS_Subset
<1>4. /\ Cardinality(A) \in Nat /\ Cardinality(B) \in Nat /\ Cardinality(both) \in Nat
      /\ Cardinality(Q) \in Nat /\ Cardinality(A \cap B) \in Nat
  BY <1>1, <1>2, <1>3, FS_CardinalityType
<1> HIDE DEF both
<1> QED BY <1>2, <1>3, <1>4

LEMMA GreaterOfTwo ==
  ASSUME NEW a \in Nat, NEW b \in Nat
  PROVE  Max({a, b}) \in Nat /\ Max({a, b}) >= a /\ Max({a, b}) >= b
<1>1. \E x \in {a, b} : \A y \in {a, b} : x >= y OBVIOUS
<1>2. Max({a, b}) \in {a, b} /\ \A y \in {a, b} : Max({a, b}) >= y
  BY <1>1 DEF Max
<1> QED BY <1>2

\* What a step may do to what is used and to those who may use more: nothing is
\* added; one of them adds one and is done; or the check lets some in.
Stepped(S, T, P, Q, limit, n, extra) ==
  \/ T \subseteq S /\ Q \subseteq P
  \/ \E x : T \subseteq S \union {x} /\ \E r \in P : Q \subseteq P \ {r}
  \/ T \subseteq S /\ Cardinality(S) < limit /\ Cardinality(Q) <= n + extra

LEMMA RoomStays ==
  ASSUME NEW S, NEW T, NEW P, NEW Q, NEW limit \in Nat, NEW m \in Nat, NEW n \in Nat,
         NEW extra \in Nat, n >= m, Room(S, P, limit, m, extra),
         IsFiniteSet(P), IsFiniteSet(Q), limit > 0, Stepped(S, T, P, Q, limit, n, extra)
  PROVE  Room(T, Q, limit, n, extra)
<1> USE DEF Room
<1>1. /\ Cardinality(S) \in Nat /\ Cardinality(P) \in Nat /\ Cardinality(Q) \in Nat
  BY FS_CardinalityType
<1>2. Overshoot(limit, m) \in Nat /\ Overshoot(limit, n) >= Overshoot(limit, m)
      /\ Overshoot(limit, n) >= (limit - 1) + n /\ Overshoot(limit, n) \in Nat
  BY DEF Overshoot
<1> HIDE DEF Overshoot
<1>3. CASE T \subseteq S /\ Q \subseteq P
  <2>1. IsFiniteSet(T) /\ Cardinality(T) <= Cardinality(S) /\ Cardinality(T) \in Nat
    BY <1>3, FS_Subset, FS_CardinalityType
  <2>2. Cardinality(Q) <= Cardinality(P) BY <1>3, FS_Subset
  <2> QED BY <1>1, <1>2, <2>1, <2>2
<1>4. ASSUME NEW x, T \subseteq S \union {x}, NEW r \in P, Q \subseteq P \ {r}
      PROVE  Room(T, Q, limit, n, extra)
  <2>1. /\ IsFiniteSet(S \union {x}) /\ Cardinality(S \union {x}) <= Cardinality(S) + 1
        /\ Cardinality(S \union {x}) \in Nat
    <3>1. /\ IsFiniteSet(S \union {x})
          /\ Cardinality(S \union {x})
               = IF x \in S THEN Cardinality(S) ELSE Cardinality(S) + 1
      BY FS_AddElement
    <3> QED BY <1>1, <3>1
  <2>2. IsFiniteSet(T) /\ Cardinality(T) <= Cardinality(S \union {x})
    BY <1>4, <2>1, FS_Subset
  <2>3. IsFiniteSet(P \ {r}) /\ Cardinality(P \ {r}) = Cardinality(P) - 1
    BY FS_RemoveElement
  <2>4. Cardinality(Q) <= Cardinality(P \ {r}) BY <1>4, <2>3, FS_Subset
  <2>5. Cardinality(T) \in Nat BY <2>2, FS_CardinalityType
  <2>6. Cardinality(P \ {r}) \in Nat BY <2>3, FS_CardinalityType
  <2> QED BY <1>1, <1>2, <2>1, <2>2, <2>3, <2>4, <2>5, <2>6
<1>5. CASE T \subseteq S /\ Cardinality(S) < limit /\ Cardinality(Q) <= n + extra
  <2>1. IsFiniteSet(T) /\ Cardinality(T) <= Cardinality(S) /\ Cardinality(T) \in Nat
    BY <1>5, FS_Subset, FS_CardinalityType
  <2> QED BY <1>1, <1>2, <1>5, <2>1
<1> QED BY <1>3, <1>4, <1>5 DEF Stepped

\* A request comes past its check by passing it.
LEMMA PassesTheCheck ==
  ASSUME TypeInv, NEW r \in Requests, Act(r), NEW kind \in DOMAIN Gate,
         NEW q \in Past(kind)', q \notin Past(kind)
  PROVE  /\ q = r /\ at[r] = 5 /\ at' = [at EXCEPT ![r] = 6] /\ out' = out
         /\ work[r] = kind
         /\ kind = "create_key" => CountKeys(r)
         /\ kind = "add_member" => CountSeats(r)
         /\ kind = "investigate" => Quota(r)
<1> USE DEF TypeInv
<1>1. Moved(r) /\ work' = work BY ActMoves
<1>2. kind \in {"create_key", "add_member", "investigate"} /\ Gate[kind] = 5 BY DEF Gate
<1>3. q \in Requests /\ work[q] = kind /\ out'[q] = "open" /\ at'[q] > 5
  BY <1>1, <1>2 DEF Past, Requests
<1>4. out[q] = "open" BY <1>1, <1>3 DEF Moved, RequestsInv
<1>5. at[q] \in 1 .. 5 BY <1>2, <1>3, <1>4 DEF Past, RequestsInv
<1>6. q = r /\ at' # at BY <1>1, <1>3, <1>5 DEF Moved, RequestsInv
<1>7. out' = out /\ at[r] \in {3, 4, 5} BY <1>1, <1>3, <1>5, <1>6 DEF Moved, RequestsInv
<1>8. ~Crash(r) BY <1>2, <1>3, <1>6 DEF Crash
<1>9. /\ Scripts[kind][3] = "dek" /\ Scripts[kind][4] = "rows"
      /\ kind = "create_key" => Scripts[kind][5] = "countKeys"
      /\ kind = "add_member" => Scripts[kind][5] = "countMembers"
      /\ kind = "investigate" => Scripts[kind][5] = "quota"
  BY <1>2, ScriptsAre
<1>10. Len(Scripts[kind]) \in {6, 8, 10} BY <1>2, LengthsAre
<1>11. CASE at[r] = 3
  <2>1. GetDek(r) BY <1>3, <1>4, <1>6, <1>8, <1>9, <1>11, StepIsTheCall DEF Now
  <2> QED BY <2>1, <1>3, <1>6, <1>10, <1>11 DEF GetDek, Read, Go, Stop, RequestsInv
<1>12. CASE at[r] = 4
  <2>1. GetRows(r) BY <1>3, <1>4, <1>6, <1>8, <1>9, <1>12, StepIsTheCall DEF Now
  <2> QED BY <2>1, <1>3, <1>6, <1>10, <1>12 DEF GetRows, Go, Stop, RequestsInv
<1>13. CASE at[r] = 5
  <2>1. /\ kind = "create_key" => CountKeys(r)
        /\ kind = "add_member" => CountSeats(r)
        /\ kind = "investigate" => Quota(r)
    BY <1>3, <1>4, <1>6, <1>8, <1>9, <1>13, StepIsTheCall DEF Now
  <2>2. Go(r, 1) \/ UNCHANGED at
    BY <2>1, <1>2 DEF CountKeys, CountSeats, Quota, Check, Stop
  <2>3. at' = [at EXCEPT ![r] = 6]
    BY <2>2, <1>3, <1>6, <1>10, <1>13 DEF Go, RequestsInv
  <2> QED BY <2>1, <2>3, <1>3, <1>6, <1>7, <1>13
<1> QED BY <1>7, <1>11, <1>12, <1>13

\* Who adds to what is used: a key, a member or a row is written by its call.
LEMMA KeysAreIssued ==
  ASSUME TypeInv, NEW r \in Requests, Act(r)
  PROVE  \/ Active(db') \subseteq Active(db)
         \/ /\ r \in Keying /\ Now(r, "issueKey")
            /\ Active(db') \subseteq Active(db) \union {r}
<1> USE DEF TypeInv, Active
<1>1. Written(r) BY ActWrites
<1>2. ASSUME Now(r, "issueKey"), NEW role, db' = InsertKey(db, r, seen[r].org, role)
      PROVE  \/ Active(db') \subseteq Active(db)
             \/ /\ r \in Keying /\ Now(r, "issueKey")
                /\ Active(db') \subseteq Active(db) \union {r}
  <2> DEFINE row == [org |-> seen[r].org, role |-> role, state |-> "active"]
  <2>1. db' = [db EXCEPT !.keys = Put(db.keys, r, row)] BY <1>2 DEF InsertKey
  <2>2. DOMAIN db'.keys = {r} \union DOMAIN db.keys
        /\ \A k \in DOMAIN db'.keys : db'.keys[k] = IF k = r THEN row ELSE db.keys[k]
    BY <2>1 DEF TablesInv, Put
  <2>3. at[r] = 6 BY <1>2, NextCall DEF CallAt
  <2>4. CASE work[r] = "signup"
    <3>1. seen[r].org = r BY <2>3, <2>4 DEF RequestsInv
    <3>2. r # 0 BY DEF Requests, RequestsInv
    <3> QED BY <2>2, <3>1, <3>2
  <2>5. CASE work[r] = "create_key"
    <3>1. r \in Keying
      BY <1>2, <2>3, <2>5 DEF Keying, Past, Gate, Now
    <3>2. Active(db') \subseteq Active(db) \union {r} BY <2>2
    <3> QED BY <1>2, <3>1, <3>2
  <2> QED BY <1>2, <2>4, <2>5, NextCall DEF CallAt
<1>3. ASSUME NEW key, db' = RevokeKey(db, key, seen[r].org)
      PROVE  Active(db') \subseteq Active(db)
  BY <1>3 DEF RevokeKey, TablesInv
<1>4. CASE db' = DeleteOrg(db, seen[r].org)
  BY <1>4 DEF DeleteOrg, Without, TablesInv
<1>5. CASE db'.keys = db.keys BY <1>5
<1> QED
  BY <1>1, <1>2, <1>3, <1>4, <1>5
  DEF Written, TablesInv, InsertMember, DeleteMember, InsertOrg, UpdatePlan, InsertSecret,
      SwapDek, ShredOrg, RecordUsage, PurgeUsage, MarkSynced

LEMMA MembersAreAdded ==
  ASSUME TypeInv, NEW r \in Requests, Act(r)
  PROVE  \/ Seats(db') \subseteq Seats(db)
         \/ /\ r \in Seating /\ Now(r, "addMember")
            /\ \E x : Seats(db') \subseteq Seats(db) \union {x}
<1> USE DEF TypeInv, Seats
<1>1. Written(r) BY ActWrites
<1>2. ASSUME Now(r, "addMember"), NEW role,
             db' = InsertMember(db, seen[r].org, Newcomer, role)
      PROVE  \/ Seats(db') \subseteq Seats(db)
             \/ /\ r \in Seating /\ Now(r, "addMember")
                /\ \E x : Seats(db') \subseteq Seats(db) \union {x}
  <2> DEFINE new == <<seen[r].org, Newcomer>>
  <2>1. DOMAIN db'.members = {new} \union DOMAIN db.members
    BY <1>2 DEF InsertMember, TablesInv, Put
  <2>2. new[1] = seen[r].org OBVIOUS
  <2> HIDE DEF new
  <2>3. Seats(db') \subseteq Seats(db) \union {new} BY <2>1
  <2>4. CASE work[r] = "signup"
    <3>1. at[r] = 5 BY <1>2, <2>4, NextCall DEF CallAt
    <3>2. seen[r].org = r /\ r # 0 BY <2>4, <3>1 DEF RequestsInv, Requests
    <3> QED BY <2>1, <2>2, <3>2
  <2>5. CASE work[r] = "add_member" \/ work[r] = "provision"
    <3>1. work[r] = "add_member" => at[r] = 8 BY <1>2, NextCall DEF CallAt
    <3>2. r \in Seating BY <1>2, <2>5, <3>1 DEF Seating, Past, Gate, Kind, Now
    <3> QED BY <1>2, <2>3, <3>2
  <2> QED BY <1>2, <2>4, <2>5, NextCall DEF CallAt
<1>3. CASE db' = DeleteMember(db, seen[r].org, Newcomer)
  BY <1>3 DEF DeleteMember, Without, TablesInv
<1>4. CASE db' = DeleteOrg(db, seen[r].org)
  BY <1>4 DEF DeleteOrg, Without, TablesInv
<1>5. CASE db'.members = db.members BY <1>5
<1>6. DOMAIN db = {"orgs", "users", "members", "keys", "secrets", "usage"} BY DEF TablesInv
<1>7. \/ db'.members = db.members
      \/ Now(r, "addMember") /\ \E role : db' = InsertMember(db, seen[r].org, Newcomer, role)
      \/ db' = DeleteMember(db, seen[r].org, Newcomer)
      \/ db' = DeleteOrg(db, seen[r].org)
  BY <1>1, <1>6
  DEF Written, InsertKey, RevokeKey, InsertOrg, UpdatePlan, InsertSecret, SwapDek, ShredOrg,
      PurgeUsage, MarkSynced, RecordUsage
<1> QED BY <1>2, <1>3, <1>4, <1>5, <1>7

\* A unit is a row with a number up to its amount.
LEMMA UnitsAre ==
  ASSUME NEW base, NEW x
  PROVE  x \in Spent(base) <=>
           \E u \in DOMAIN base.usage : \E n \in 1 .. base.usage[u].amount :
             u[1] = 0 /\ u[2] = "investigation" /\ x = <<u, n>>
<1>1. x \in Spent(base) <=>
        \E u \in {row \in OwnRows(base.usage, 0) : row[2] = "investigation"} :
          x \in {u} \X (1 .. base.usage[u].amount)
  BY DEF Spent, Units
<1> QED BY <1>1 DEF OwnRows

LEMMA RowsAreMetered ==
  ASSUME TypeInv, NEW r \in Requests, Act(r)
  PROVE  \/ Spent(db') \subseteq Spent(db)
         \/ /\ r \in Metering /\ Now(r, "meter")
            /\ \E x : Spent(db') \subseteq Spent(db) \union {x}
<1> USE DEF TypeInv
<1>1. Written(r) BY ActWrites
<1>2. ASSUME \A u \in DOMAIN db'.usage :
               u[1] = 0 /\ u[2] = "investigation"
                 => u \in DOMAIN db.usage /\ db'.usage[u].amount = db.usage[u].amount
      PROVE  Spent(db') \subseteq Spent(db)
  BY <1>2, UnitsAre
<1>3. ASSUME NEW kind, NEW amount,
             db' = RecordUsage(db, seen[r].org, kind, amount, RequestId(r)),
             \/ kind = "tokens"
             \/ kind = "investigation" /\ amount = 1 /\ Now(r, "meter")
      PROVE  \/ Spent(db') \subseteq Spent(db)
             \/ /\ r \in Metering /\ Now(r, "meter")
                /\ \E x : Spent(db') \subseteq Spent(db) \union {x}
  <2> DEFINE new == <<seen[r].org, kind, RequestId(r)>>
             row == [amount |-> amount, synced |-> FALSE]
  <2>1. CASE db' = db BY <2>1
  <2>2. CASE db' # db
    <3>1. db' = [db EXCEPT !.usage = Put(db.usage, new, row)] BY <1>3, <2>2 DEF RecordUsage
    <3>2. /\ DOMAIN db'.usage = {new} \union DOMAIN db.usage
          /\ \A u \in DOMAIN db'.usage : db'.usage[u] = IF u = new THEN row ELSE db.usage[u]
      BY <3>1 DEF TablesInv, Put
    <3>3. new[2] = kind /\ row.amount = amount OBVIOUS
    <3> HIDE DEF new, row
    <3>4. CASE kind = "tokens" BY <3>2, <3>3, <3>4, <1>2
    <3>5. CASE kind = "investigation" /\ amount = 1 /\ Now(r, "meter")
      <4>1. r \in Metering
        BY <3>5, NextCall DEF CallAt, Metering, Past, Kind, Gate, Now
      <4>2. Spent(db') \subseteq Spent(db) \union {<<new, 1>>}
        BY <3>2, <3>3, <3>5, UnitsAre
      <4> QED BY <3>5, <4>1, <4>2
    <3> QED BY <1>3, <3>4, <3>5
  <2> QED BY <2>1, <2>2
<1>4. CASE db' = DeleteOrg(db, seen[r].org)
  <2>1. /\ DOMAIN db'.usage \subseteq DOMAIN db.usage
        /\ \A u \in DOMAIN db'.usage : db'.usage[u] = db.usage[u]
    BY <1>4 DEF DeleteOrg, Without, TablesInv
  <2> QED BY <2>1, <1>2
<1>5. ASSUME NEW gone, db' = PurgeUsage(db, gone) PROVE Spent(db') \subseteq Spent(db)
  BY <1>5, <1>2 DEF PurgeUsage, Without, TablesInv
<1>6. CASE db' = MarkSynced(db, seen[r].sent)
  <2>1. \A u \in DOMAIN db.usage : db.usage[u] \in UsageRow BY DEF TablesInv
  <2>2. \A row \in UsageRow : [row EXCEPT !.synced = TRUE].amount = row.amount
    BY DEF UsageRow
  <2>3. /\ DOMAIN db'.usage = DOMAIN db.usage
        /\ \A u \in DOMAIN db.usage :
             db'.usage[u] = IF u \in seen[r].sent THEN [db.usage[u] EXCEPT !.synced = TRUE]
                            ELSE db.usage[u]
    BY <1>6 DEF MarkSynced, TablesInv
  <2> QED BY <2>1, <2>2, <2>3, <1>2
<1>7. CASE db'.usage = db.usage BY <1>7, <1>2
<1>8. DOMAIN db = {"orgs", "users", "members", "keys", "secrets", "usage"} BY DEF TablesInv
<1>9. \/ db'.usage = db.usage
      \/ Now(r, "meter") /\ db' = RecordUsage(db, seen[r].org, "investigation", 1, RequestId(r))
      \/ db' = RecordUsage(db, seen[r].org, "tokens", seen[r].tokens, RequestId(r))
      \/ db' = DeleteOrg(db, seen[r].org)
      \/ \E gone : db' = PurgeUsage(db, gone)
      \/ db' = MarkSynced(db, seen[r].sent)
  BY <1>1, <1>8
  DEF Written, InsertKey, RevokeKey, InsertMember, DeleteMember, InsertOrg, UpdatePlan,
      InsertSecret, SwapDek, ShredOrg
<1> QED BY <1>3, <1>4, <1>5, <1>6, <1>7, <1>9

\* Who has written adds no more.
LEMMA WritersAreDone ==
  ASSUME TypeInv, NEW r \in Requests, Act(r)
  PROVE  /\ Now(r, "issueKey") => r \notin Keying'
         /\ Now(r, "addMember") => r \notin Seating'
         /\ Now(r, "meter") => r \notin Metering'
         /\ Now(r, "charge") => r \notin Charging'
<1> USE DEF TypeInv
<1>1. work' = work /\ r \in Requests' BY ActMoves DEF Requests
<1>2. ASSUME Now(r, "issueKey") PROVE r \notin Keying'
  <2>1. at[r] = 6 /\ work[r] \in {"create_key", "signup"} BY <1>2, NextCall DEF CallAt
  <2>2. IssueKey(r) BY <1>2, <2>1, StepIsTheCall DEF Crash
  <2>3. Len(Scripts[work[r]]) = 6 BY <2>1, LengthsAre
  <2>4. out'[r] = "done" BY <2>1, <2>2, <2>3 DEF IssueKey, Write, Go, RequestsInv
  <2> QED BY <2>4 DEF Keying, Past
<1>3. ASSUME Now(r, "addMember") PROVE r \notin Seating'
  <2>1. \/ at[r] = 8 /\ work[r] = "add_member"
        \/ at[r] = 4 /\ work[r] = "provision"
        \/ at[r] = 5 /\ work[r] = "signup"
    BY <1>3, NextCall DEF CallAt
  <2>2. AddMember(r) BY <1>3, <2>1, StepIsTheCall DEF Crash
  <2>3. CASE work[r] = "signup" BY <1>1, <2>3 DEF Seating, Past, Kind
  <2>4. CASE work[r] # "signup"
    <3>1. Len(Scripts[work[r]]) = at[r] /\ at[r] \in Nat
      <4>1. CASE work[r] = "add_member" BY <2>1, <4>1, LengthsAre
      <4>2. CASE work[r] = "provision" BY <2>1, <4>2, LengthsAre
      <4> QED BY <2>1, <2>4, <4>1, <4>2
    <3>2. out'[r] = "done" BY <2>2, <3>1 DEF AddMember, Write, Go, RequestsInv
    <3> QED BY <3>2 DEF Seating, Past, Kind
  <2> QED BY <2>3, <2>4
<1>4. ASSUME Now(r, "meter") PROVE r \notin Metering'
  <2>1. \/ at[r] = 8 /\ work[r] = "investigate"
        \/ at[r] = 6 /\ work[r] = "approve"
    BY <1>4, NextCall DEF CallAt
  <2>2. Meter(r) BY <1>4, <2>1, StepIsTheCall DEF Crash
  <2>3. Len(Scripts[work[r]]) = at[r] + 2
    <3>1. CASE work[r] = "investigate" BY <2>1, <3>1, LengthsAre
    <3>2. CASE work[r] = "approve" BY <2>1, <3>2, LengthsAre
    <3> QED BY <2>1, <3>1, <3>2
  <2>4. at'[r] \in Nat /\ at'[r] > at[r]
    <3>1. Go(r, 1) \/ Go(r, 2) BY <2>2 DEF Meter
    <3> QED BY <2>1, <2>3, <3>1 DEF Go, RequestsInv
  <2>5. CASE work[r] = "investigate"
    <3>1. ~(at'[r] <= 8) BY <2>1, <2>4, <2>5
    <3> QED BY <1>1, <2>5, <3>1 DEF Metering, Kind
  <2>6. CASE work[r] = "approve"
    <3>1. ~(at'[r] <= 6) BY <2>1, <2>4, <2>6
    <3> QED BY <1>1, <2>6, <3>1 DEF Metering, Past
  <2> QED BY <2>1, <2>5, <2>6
<1>5. ASSUME Now(r, "charge") PROVE r \notin Charging'
  <2>1. \/ at[r] = 10 /\ work[r] = "investigate"
        \/ at[r] = 8 /\ work[r] = "approve"
        \/ at[r] = 2 /\ work[r] = "triggered"
    BY <1>5, NextCall DEF CallAt
  <2>2. Charge(r) BY <1>5, <2>1, StepIsTheCall DEF Crash
  <2>3. Len(Scripts[work[r]]) = at[r]
    <3>1. CASE work[r] = "investigate" BY <2>1, <3>1, LengthsAre
    <3>2. CASE work[r] = "approve" BY <2>1, <3>2, LengthsAre
    <3>3. CASE work[r] = "triggered" BY <2>1, <3>3, LengthsAre
    <3> QED BY <2>1, <3>1, <3>2, <3>3
  <2>4. out'[r] = "done" BY <2>1, <2>2, <2>3 DEF Charge, Go, RequestsInv
  <2> QED BY <2>4 DEF Charging, Past, Kind
<1> QED BY <1>2, <1>3, <1>4, <1>5

\* Who does not write or pass the check stays, or leaves.
LEMMA OthersStay ==
  ASSUME TypeInv, NEW r \in Requests, Act(r)
  PROVE  /\ Keying' \subseteq Keying \union {r}
         /\ Seating' \subseteq Seating \union {r}
         /\ Metering' \subseteq Metering \union {r}
         /\ Charging' \subseteq Charging \union {r}
<1>1. Moved(r) /\ work' = work BY ActMoves DEF TypeInv
<1>2. Requests' = Requests BY <1>1 DEF Requests
<1>3. \A q \in Requests \ {r} : at'[q] = at[q] /\ out'[q] = out[q]
  BY <1>1 DEF Moved, TypeInv, RequestsInv
<1> QED BY <1>1, <1>2, <1>3 DEF Keying, Seating, Metering, Charging, Past, Kind

LEMMA WhoComesIn ==
  ASSUME TypeInv, NEW r \in Requests, Act(r)
  PROVE  /\ ~(Keying' \subseteq Keying) =>
              CountKeys(r) /\ at[r] = 5 /\ at' # at /\ work[r] = "create_key"
         /\ ~(Seating' \subseteq Seating) =>
              CountSeats(r) /\ at[r] = 5 /\ at' # at /\ work[r] = "add_member"
         /\ ~(Metering' \subseteq Metering) =>
              Quota(r) /\ at[r] = 5 /\ at' # at /\ work[r] = "investigate"
         /\ ~(Charging' \subseteq Charging) =>
              Cap(r) /\ at[r] = 6 /\ at' # at /\ work[r] = "investigate"
<1> USE DEF TypeInv
<1>1. Moved(r) /\ work' = work BY ActMoves
<1>2. Requests' = Requests BY <1>1 DEF Requests
<1>3. DOMAIN Gate = {"create_key", "add_member", "investigate"}
      /\ \A kind \in DOMAIN Gate : Gate[kind] = 5
  BY DEF Gate
<1>4. \A kind \in DOMAIN Gate : \A q \in Past(kind)' \ Past(kind) :
        /\ q = r /\ at[r] = 5 /\ at' # at /\ work[r] = kind
        /\ kind = "create_key" => CountKeys(r)
        /\ kind = "add_member" => CountSeats(r)
        /\ kind = "investigate" => Quota(r)
  <2> SUFFICES ASSUME NEW kind \in DOMAIN Gate, NEW q \in Past(kind)' \ Past(kind)
               PROVE  /\ q = r /\ at[r] = 5 /\ at' # at /\ work[r] = kind
                      /\ kind = "create_key" => CountKeys(r)
                      /\ kind = "add_member" => CountSeats(r)
                      /\ kind = "investigate" => Quota(r)
    OBVIOUS
  <2>1. /\ q = r /\ at[r] = 5 /\ at' = [at EXCEPT ![r] = 6] /\ work[r] = kind
        /\ kind = "create_key" => CountKeys(r)
        /\ kind = "add_member" => CountSeats(r)
        /\ kind = "investigate" => Quota(r)
    BY PassesTheCheck
  <2>2. at'[r] = 6 BY <2>1 DEF RequestsInv
  <2> QED BY <2>1, <2>2
<1>5. ~(Keying' \subseteq Keying) =>
        CountKeys(r) /\ at[r] = 5 /\ at' # at /\ work[r] = "create_key"
  BY <1>3, <1>4 DEF Keying
<1>6. ASSUME NEW q \in Seating', q \notin Seating
      PROVE  CountSeats(r) /\ at[r] = 5 /\ at' # at /\ work[r] = "add_member"
  <2>1. q \notin Kind({"provision"})
    <3>1. out'[q] = "open" => out[q] = "open" BY <1>1, <1>2 DEF Moved, RequestsInv, Seating, Past, Kind
    <3> QED BY <3>1, <1>1, <1>2, <1>6 DEF Seating, Past, Kind
  <2>2. q \in Past("add_member")' \ Past("add_member")
    BY <2>1, <1>1, <1>2, <1>6 DEF Seating, Kind
  <2> QED BY <2>2, <1>3, <1>4
<1>7. ASSUME NEW q \in Metering', q \notin Metering
      PROVE  Quota(r) /\ at[r] = 5 /\ at' # at /\ work[r] = "investigate"
  <2>a. q \in Requests BY <1>2, <1>7 DEF Metering, Past, Kind
  <2>2. at'[q] >= at[q] /\ at[q] \in Nat /\ at'[q] \in Nat
    BY <1>1, <2>a DEF Moved, RequestsInv
  <2>b. out'[q] = "open" => out[q] = "open" BY <1>1, <2>a DEF Moved, RequestsInv
  <2>1. q \in Past("investigate")' /\ at'[q] <= 8
    BY <1>1, <1>2, <1>7, <2>2, <2>b DEF Metering, Kind
  <2>3. q \notin Past("investigate") BY <1>7, <2>1, <2>2 DEF Metering
  <2> QED BY <2>1, <2>3, <1>3, <1>4
<1>8. ASSUME NEW q \in Charging', q \notin Charging
      PROVE  Cap(r) /\ at[r] = 6 /\ at' # at /\ work[r] = "investigate"
  <2>a. q \in Requests BY <1>2, <1>8 DEF Charging, Past, Kind
  <2>b. out'[q] = "open" => out[q] = "open" BY <1>1, <2>a DEF Moved, RequestsInv
  <2>c. q \in Past("investigate")' /\ at'[q] > 6
    BY <1>1, <1>2, <1>8, <2>b DEF Charging, Kind
  <2>1. /\ q \in Past("investigate")' /\ at'[q] > 6 /\ q \in Requests /\ work[q] = "investigate"
        /\ out'[q] = "open"
    BY <2>a, <2>c, <1>1, <1>2 DEF Past
  <2>2. q \in Past("investigate")
    <3> SUFFICES ASSUME q \notin Past("investigate") PROVE FALSE OBVIOUS
    <3>1. q = r /\ at' = [at EXCEPT ![r] = 6] BY <2>1, <1>3, PassesTheCheck
    <3> QED BY <3>1, <2>1 DEF RequestsInv
  <2>3. at[q] = 6 /\ out[q] = "open"
    BY <2>1, <2>2, <1>3, <1>8 DEF Charging, Past, RequestsInv
  <2>4. q = r /\ at' # at BY <2>1, <2>3, <1>1 DEF Moved, RequestsInv
  <2>5. Now(r, "cap") BY <2>1, <2>3, <2>4, ScriptsAre DEF Now
  <2>6. Cap(r) BY <2>1, <2>4, <2>5, StepIsTheCall DEF Crash
  <2> QED BY <2>1, <2>3, <2>4, <2>6
<1> QED BY <1>5, <1>6, <1>7, <1>8

LEMMA PlanKept ==
  ASSUME TypeInv, PlanInv, NEW r \in Requests, Act(r)
  PROVE  PlanInv'
<1> USE DEF TypeInv
<1>1. work' = work /\ Requests' = Requests BY ActMoves DEF Requests
<1>2. SUFFICES ASSUME PlanStays
               PROVE  /\ \A o \in DOMAIN db'.orgs : db'.orgs[o].plan = "free"
                      /\ \A q \in Requests : seen'[q].plan = "free"
  BY <1>1 DEF PlanInv, PlanStays, Of
<1>3. /\ \A o \in DOMAIN db.orgs : db.orgs[o].plan = "free"
      /\ \A q \in Requests : seen[q].plan = "free"
  BY <1>2 DEF PlanInv
<1>4. ~Now(r, "setPlan") BY <1>2, NobodyAsks, NextCall DEF CallAt
<1>5. \A q \in Requests : seen'[q].plan = "free"
  <2>1. CASE GetOrg(r)
    <3>1. seen' = seen \/ See(r, "plan", "free") BY <1>3, <2>1 DEF GetOrg, Read
    <3>2. ASSUME See(r, "plan", "free") PROVE seen'[r].plan = "free"
      BY <3>2, SeeOne DEF Fields
    <3> QED BY <3>1, <3>2, <1>3, ActSees DEF Saw
  <2>2. CASE seen'[r].plan = seen[r].plan BY <2>2, <1>3, ActSees DEF Saw
  <2> QED BY <2>1, <2>2, FieldsKept
<1>6. \A o \in DOMAIN db'.orgs : db'.orgs[o].plan = "free"
  <2>1. Written(r) BY ActWrites
  <2>2. CASE db' = InsertOrg(db, r, "free", r)
    <3> DEFINE row == [plan |-> "free", dek |-> r, customer |-> FALSE]
    <3>1. /\ DOMAIN db'.orgs = {r} \union DOMAIN db.orgs
          /\ \A o \in DOMAIN db'.orgs : db'.orgs[o] = IF o = r THEN row ELSE db.orgs[o]
      BY <2>2 DEF InsertOrg, TablesInv, Put
    <3> QED BY <3>1, <1>3
  <2>3. ASSUME DOMAIN db'.orgs \subseteq DOMAIN db.orgs,
               \A o \in DOMAIN db'.orgs :
                 \/ db'.orgs[o] = db.orgs[o]
                 \/ \E v : db'.orgs[o] = [db.orgs[o] EXCEPT !.dek = v]
                 \/ \E v : db'.orgs[o] = [db.orgs[o] EXCEPT !.customer = v]
        PROVE  \A o \in DOMAIN db'.orgs : db'.orgs[o].plan = "free"
    <3>1. ASSUME NEW o \in DOMAIN db'.orgs PROVE db'.orgs[o].plan = "free"
      <4>1. db.orgs[o] \in OrgRow /\ db.orgs[o].plan = "free" BY <1>3, <2>3 DEF TablesInv
      <4>2. ASSUME NEW row \in OrgRow, NEW v
            PROVE  /\ [row EXCEPT !.dek = v].plan = row.plan
                   /\ [row EXCEPT !.customer = v].plan = row.plan
        BY DEF OrgRow
      <4>3. CASE \E v : db'.orgs[o] = [db.orgs[o] EXCEPT !.dek = v] BY <4>1, <4>2, <4>3
      <4>4. CASE \E v : db'.orgs[o] = [db.orgs[o] EXCEPT !.customer = v] BY <4>1, <4>2, <4>4
      <4> QED BY <4>1, <4>3, <4>4, <2>3
    <3> QED BY <3>1
  <2>4. CASE db' = SwapDek(db, seen[r].org, r, seen[r].values)
    BY <2>3, <2>4 DEF SwapDek, TablesInv
  <2>5. CASE db' = ShredOrg(db, seen[r].org)
    BY <2>3, <2>5 DEF ShredOrg, TablesInv
  <2>6. CASE db' = DeleteOrg(db, seen[r].org)
    BY <2>3, <2>6 DEF DeleteOrg, Without, TablesInv
  <2>7. CASE 0 \in DOMAIN db.orgs /\ db' = [db EXCEPT !.orgs[0].customer = TRUE]
    BY <2>3, <2>7 DEF TablesInv
  <2>8. CASE db'.orgs = db.orgs BY <2>3, <2>8
  <2> QED
    BY <2>1, <2>2, <2>4, <2>5, <2>6, <2>7, <2>8, <1>4
    DEF Written, TablesInv, InsertKey, RevokeKey, InsertMember, DeleteMember, InsertSecret,
        RecordUsage, PurgeUsage, MarkSynced
<1> QED BY <1>5, <1>6

LEMMA TokensKept ==
  ASSUME TypeInv, TokensInv, NEW r \in Requests, Act(r)
  PROVE  TokensInv'
<1> USE DEF TypeInv
<1>1. Requests' = Requests BY ActMoves DEF Requests
<1>2. seen'[r].tokens <= MaxTokens
  <2>1. CASE Run(r)
    <3>1. \/ seen' = seen
          \/ \E n \in 0 .. MaxTokens : See(r, "tokens", n)
      BY <2>1 DEF Run
    <3>2. ASSUME NEW n \in 0 .. MaxTokens, See(r, "tokens", n) PROVE seen'[r].tokens = n
      BY <3>2, SeeOne DEF Fields
    <3> QED BY <3>1, <3>2, CapAssumption DEF TokensInv
  <2>2. CASE seen'[r].tokens = seen[r].tokens BY <2>2 DEF TokensInv
  <2> QED BY <2>1, <2>2, FieldsKept
<1> QED BY <1>1, <1>2, ActSees DEF TokensInv, Saw

\* The history of peaks covers what is past the checks.
LEMMA PeakKept ==
  ASSUME TypeInv, PeakInv, work' = work, blind' \in Nat, Observe
  PROVE  /\ PeakInv' /\ \A kind \in DOMAIN Gate : peak'[kind] >= peak[kind]
<1>1. \A kind \in DOMAIN Gate :
        /\ peak'[kind] \in Nat /\ peak'[kind] >= peak[kind]
        /\ Cardinality(Past(kind)') <= peak'[kind]
  <2> SUFFICES ASSUME NEW kind \in DOMAIN Gate
               PROVE  /\ peak'[kind] \in Nat /\ peak'[kind] >= peak[kind]
                      /\ Cardinality(Past(kind)') <= peak'[kind]
    OBVIOUS
  <2>1. Past(kind)' \in SUBSET Requests BY DEF Past, Requests
  <2>2. Cardinality(Past(kind)') \in Nat BY <2>1, RequestsAreFinite DEF TypeInv
  <2>3. peak'[kind] = Max({peak[kind], Cardinality(Past(kind)')}) BY DEF Observe
  <2>4. peak[kind] \in Nat BY DEF PeakInv
  <2> QED BY <2>2, <2>3, <2>4, GreaterOfTwo
<1>2. peak' = [kind \in DOMAIN Gate |-> peak'[kind]] BY DEF Observe
<1> QED BY <1>1, <1>2 DEF PeakInv

\* The plan of organization 0, and what it leaves.
LEMMA FreeQuotas ==
  ASSUME NEW n
  PROVE  /\ WithinQuota("free", "api_keys", n) => n < 2
         /\ WithinQuota("free", "seats", n) => n < 3
         /\ WithinQuota("free", "investigations", n) => n < 50
BY DEF WithinQuota, PlanQuotas

LEMMA RoomKept ==
  ASSUME TypeInv, PlanInv, PeakInv, RoomInv, NEW r \in Requests, Act(r), Observe,
         blind' \in Nat
  PROVE  RoomInv'
<1> USE DEF TypeInv
<1>1. work' = work /\ Requests' = Requests BY ActMoves DEF Requests
<1>2. SUFFICES ASSUME PlanStays
               PROVE  /\ Room(Active(db'), Keying', 2, peak'.create_key, 0)
                      /\ Room(Seats(db'), Seating', 3, peak'.add_member, Of({"provision"}))
                      /\ Room(Spent(db'), Metering', 50, peak'.investigate, Of({"approve"}))
  BY <1>1 DEF RoomInv, PlanStays, Of
<1>3. /\ Room(Active(db), Keying, 2, peak.create_key, 0)
      /\ Room(Seats(db), Seating, 3, peak.add_member, Of({"provision"}))
      /\ Room(Spent(db), Metering, 50, peak.investigate, Of({"approve"}))
  BY <1>2 DEF RoomInv
<1>4. /\ Keying \in SUBSET Requests /\ Keying' \in SUBSET Requests
      /\ Seating \in SUBSET Requests /\ Seating' \in SUBSET Requests
      /\ Metering \in SUBSET Requests /\ Metering' \in SUBSET Requests
  BY <1>1 DEF Keying, Seating, Metering, Past, Kind
<1>5. /\ IsFiniteSet(Keying) /\ IsFiniteSet(Keying')
      /\ IsFiniteSet(Seating) /\ IsFiniteSet(Seating')
      /\ IsFiniteSet(Metering) /\ IsFiniteSet(Metering')
  BY <1>4, RequestsAreFinite
<1>6. /\ PeakInv'
      /\ peak.create_key \in Nat /\ peak'.create_key \in Nat
      /\ peak'.create_key >= peak.create_key
      /\ peak.add_member \in Nat /\ peak'.add_member \in Nat
      /\ peak'.add_member >= peak.add_member
      /\ peak.investigate \in Nat /\ peak'.investigate \in Nat
      /\ peak'.investigate >= peak.investigate
  <2>1. /\ "create_key" \in DOMAIN Gate /\ "add_member" \in DOMAIN Gate
        /\ "investigate" \in DOMAIN Gate
    BY DEF Gate
  <2>2. PeakInv' /\ \A kind \in DOMAIN Gate : peak'[kind] >= peak[kind] BY <1>1, PeakKept
  <2> QED BY <2>1, <2>2 DEF PeakInv
<1>7. Of({"provision"}) \in Nat /\ Of({"approve"}) \in Nat BY KindsAreFinite
<1>8. seen[r].plan = "free" BY <1>2 DEF PlanInv
<1>9. Stepped(Active(db), Active(db'), Keying, Keying', 2, peak'.create_key, 0)
  <2>1. CASE Active(db') \subseteq Active(db) /\ Keying' \subseteq Keying
    BY <2>1 DEF Stepped
  <2>2. CASE /\ r \in Keying /\ Now(r, "issueKey")
             /\ Active(db') \subseteq Active(db) \union {r}
    <3>1. Keying' \subseteq Keying \ {r} BY <2>2, WritersAreDone, OthersStay
    <3> QED BY <2>2, <3>1 DEF Stepped
  <2>3. CASE ~(Keying' \subseteq Keying)
    <3>1. CountKeys(r) /\ at[r] = 5 /\ at' # at /\ work[r] = "create_key" BY <2>3, WhoComesIn
    <3>2. seen[r].org = 0 BY <3>1 DEF RequestsInv
    <3>3. WithinQuota("free", "api_keys", Cardinality(Active(db)))
      BY <3>1, <3>2, <1>8 DEF CountKeys, Check, Stop, CountActiveKeys, Active
    <3>4. Cardinality(Active(db)) < 2 BY <3>3, FreeQuotas
    <3>5. db' = db BY <3>1 DEF CountKeys, Check
    <3>6. Cardinality(Keying') <= peak'.create_key BY <1>6 DEF PeakInv, Keying, Gate
    <3> QED BY <3>4, <3>5, <3>6, <1>6 DEF Stepped
  <2> QED BY <2>1, <2>2, <2>3, KeysAreIssued
<1>10. Stepped(Seats(db), Seats(db'), Seating, Seating', 3, peak'.add_member, Of({"provision"}))
  <2>1. CASE Seats(db') \subseteq Seats(db) /\ Seating' \subseteq Seating
    BY <2>1 DEF Stepped
  <2>2. CASE /\ r \in Seating /\ Now(r, "addMember")
             /\ \E x : Seats(db') \subseteq Seats(db) \union {x}
    <3>1. Seating' \subseteq Seating \ {r} BY <2>2, WritersAreDone, OthersStay
    <3> QED BY <2>2, <3>1 DEF Stepped
  <2>3. CASE ~(Seating' \subseteq Seating)
    <3>1. CountSeats(r) /\ at[r] = 5 /\ at' # at /\ work[r] = "add_member" BY <2>3, WhoComesIn
    <3>2. seen[r].org = 0 BY <3>1 DEF RequestsInv
    <3>3. WithinQuota("free", "seats", Cardinality(Seats(db)))
      BY <3>1, <3>2, <1>8 DEF CountSeats, Check, Stop, CountMembers, Seats
    <3>4. Cardinality(Seats(db)) < 3 BY <3>3, FreeQuotas
    <3>5. db' = db BY <3>1 DEF CountSeats, Check
    <3>6. Cardinality(Past("add_member")') <= peak'.add_member BY <1>6 DEF PeakInv, Gate
    <3>7. Cardinality(Seating') <= peak'.add_member + Of({"provision"})
      <4>1. Past("add_member")' \in SUBSET Requests BY <1>1 DEF Past
      <4>2. /\ IsFiniteSet(Past("add_member")') /\ Cardinality(Past("add_member")') \in Nat
            /\ Cardinality(Seating') \in Nat
        BY <4>1, <1>4, RequestsAreFinite
      <4>3. Seating' \subseteq Past("add_member")' \union Kind({"provision"})
        BY <1>1 DEF Seating, Kind
      <4>4. Cardinality(Seating') <= Cardinality(Past("add_member")') + Of({"provision"})
        BY <4>2, <4>3, WithinTwo, KindsAreFinite
      <4> QED BY <4>2, <4>4, <3>6, <1>6, <1>7
    <3> QED BY <3>4, <3>5, <3>7 DEF Stepped
  <2> QED BY <2>1, <2>2, <2>3, MembersAreAdded
<1>11. Stepped(Spent(db), Spent(db'), Metering, Metering', 50, peak'.investigate, Of({"approve"}))
  <2>1. CASE Spent(db') \subseteq Spent(db) /\ Metering' \subseteq Metering
    BY <2>1 DEF Stepped
  <2>2. CASE /\ r \in Metering /\ Now(r, "meter")
             /\ \E x : Spent(db') \subseteq Spent(db) \union {x}
    <3>1. Metering' \subseteq Metering \ {r} BY <2>2, WritersAreDone, OthersStay
    <3> QED BY <2>2, <3>1 DEF Stepped
  <2>3. CASE ~(Metering' \subseteq Metering)
    <3>1. Quota(r) /\ at[r] = 5 /\ at' # at /\ work[r] = "investigate" BY <2>3, WhoComesIn
    <3>2. seen[r].org = 0 BY <3>1 DEF RequestsInv
    <3>3. WithinQuota("free", "investigations", Cardinality(Spent(db)))
      BY <3>1, <3>2, <1>8 DEF Quota, Check, Stop, UsageTotal, Spent
    <3>4. Cardinality(Spent(db)) < 50 BY <3>3, FreeQuotas
    <3>5. db' = db BY <3>1 DEF Quota, Check
    <3>6. Cardinality(Metering') <= peak'.investigate + Of({"approve"})
      <4>1. Past("investigate")' \in SUBSET Requests BY <1>1 DEF Past
      <4>2. /\ IsFiniteSet(Past("investigate")') /\ Cardinality(Past("investigate")') \in Nat
            /\ Cardinality(Metering') \in Nat
        BY <4>1, <1>4, RequestsAreFinite
      <4>3. Metering' \subseteq Past("investigate")' \union Kind({"approve"})
        BY <1>1 DEF Metering, Kind
      <4>4. Cardinality(Metering') <= Cardinality(Past("investigate")') + Of({"approve"})
        BY <4>2, <4>3, WithinTwo, KindsAreFinite
      <4>5. Cardinality(Past("investigate")') <= peak'.investigate BY <1>6 DEF PeakInv, Gate
      <4> QED BY <4>2, <4>4, <4>5, <1>6, <1>7
    <3> QED BY <3>4, <3>5, <3>6, <1>6 DEF Stepped
  <2> QED BY <2>1, <2>2, <2>3, RowsAreMetered
<1>12. ASSUME NEW S, NEW T, NEW P, NEW Q, NEW limit \in Nat \ {0}, NEW m \in Nat,
              NEW n \in Nat, NEW extra \in Nat, n >= m, Room(S, P, limit, m, extra),
              IsFiniteSet(P), IsFiniteSet(Q), Stepped(S, T, P, Q, limit, n, extra)
       PROVE  Room(T, Q, limit, n, extra)
  BY <1>12, RoomStays
<1> QED BY <1>9, <1>10, <1>11, <1>12, <1>3, <1>5, <1>6, <1>7

LEMMA Times ==
  ASSUME NEW a \in Nat, NEW b \in Nat, NEW m \in Nat
  PROVE  /\ a * m \in Nat
         /\ (a + b) * m = a * m + b * m
         /\ a <= b => a * m <= b * m
<1>1. \A x, y, z \in Nat : x * z \in Nat /\ (x + y) * z = x * z + y * z OBVIOUS
<1>2. ASSUME a <= b PROVE a * m <= b * m
  <2>1. b - a \in Nat /\ b = a + (b - a) BY <1>2
  <2>2. b * m = a * m + (b - a) * m BY <2>1, <1>1
  <2>3. a * m \in Nat /\ (b - a) * m \in Nat /\ b * m \in Nat BY <2>1, <1>1
  <2> QED BY <2>2, <2>3
<1> QED BY <1>1, <1>2

LEMMA Charged ==
  ASSUME NEW s \in Nat, NEW t \in Nat, NEW c \in Nat, NEW d \in Nat, NEW n \in Nat,
         NEW m \in Nat, NEW most \in Nat, NEW cap \in Int,
         t <= s + most, d + most <= c, n <= m, s + c <= cap + n
  PROVE  t + d <= cap + m
OBVIOUS

\* Only the cap and the charge touch what is spent.
LEMMA SpendMoves ==
  ASSUME NEW r \in Requests, Act(r)
  PROVE  Cap(r) \/ Charge(r) \/ (spend' = spend /\ blind' = blind)
BY DEF Act, Authenticate, Administer, Secure, Spend, Bill, Key, Membership,
       GetOrg, GetDek, GetRows, CountKeys, CountSeats, IssueKey, Revoke, LookUser, FindUser,
       InsertUser, AddMember, RemoveMember, SeekMembership, CreateOrg, DekToWrite,
       WriteSecret, DekToRetire, Swap, Shred, Delete, Quota, Run, Meter, MeterTokens,
       LinkCustomer, Purge, Unsynced, Send, Mark, Crash, SetPlan, StripeEvent, Read,
       Check, Write, Frame, history

LEMMA BlindGrows ==
  ASSUME NEW r \in Requests, Act(r), blind \in Nat
  PROVE  blind' \in Nat /\ blind' >= blind
BY SpendMoves DEF Cap, Charge, history

LEMMA SpendKept ==
  ASSUME TypeInv, PeakInv, SpendInv, TokensInv, NEW r \in Requests, Act(r), Observe
  PROVE  SpendInv'
<1> USE DEF TypeInv
<1>1. work' = work /\ Requests' = Requests BY ActMoves DEF Requests
<1>2. SUFFICES ASSUME TokenCap > 0
               PROVE  spend' + Cardinality(Charging') * MaxTokens
                        <= (TokenCap - 1) + (peak'.investigate + blind' + Unchecked) * MaxTokens
  BY <1>1 DEF SpendInv, Unchecked, Of
<1>3. spend + Cardinality(Charging) * MaxTokens
        <= (TokenCap - 1) + (peak.investigate + blind + Unchecked) * MaxTokens
  BY <1>2 DEF SpendInv
<1>4. /\ Charging \in SUBSET Requests /\ Charging' \in SUBSET Requests
      /\ Past("investigate")' \in SUBSET Requests
      /\ Charging' \subseteq Past("investigate")' \union Kind({"approve", "triggered"})
  BY <1>1 DEF Charging, Past, Kind
<1>5. /\ IsFiniteSet(Charging) /\ Cardinality(Charging) \in Nat
      /\ IsFiniteSet(Charging') /\ Cardinality(Charging') \in Nat
      /\ IsFiniteSet(Past("investigate")') /\ Cardinality(Past("investigate")') \in Nat
  BY <1>4, RequestsAreFinite
<1>6. /\ blind \in Nat /\ blind' \in Nat /\ blind' >= blind
  BY BlindGrows DEF PeakInv
<1>7. /\ peak.investigate \in Nat /\ peak'.investigate \in Nat
      /\ peak'.investigate >= peak.investigate
      /\ Cardinality(Charging') <= peak'.investigate + Unchecked /\ Unchecked \in Nat
  <2>1. "investigate" \in DOMAIN Gate BY DEF Gate
  <2>2. PeakInv' /\ \A kind \in DOMAIN Gate : peak'[kind] >= peak[kind] BY <1>1, <1>6, PeakKept
  <2>3. Cardinality(Past("investigate")') <= peak'.investigate BY <2>1, <2>2 DEF PeakInv
  <2>6. /\ IsFiniteSet(Kind({"approve", "triggered"})) /\ Unchecked \in Nat
        /\ Cardinality(Kind({"approve", "triggered"})) = Unchecked
    BY KindsAreFinite DEF Unchecked
  <2>4. Cardinality(Charging') <= Cardinality(Past("investigate")') + Unchecked
    BY <1>4, <1>5, <2>6, WithinTwo
  <2>5. peak.investigate \in Nat /\ peak'.investigate \in Nat
        /\ peak'.investigate >= peak.investigate
    BY <2>1, <2>2 DEF PeakInv
  <2> QED BY <2>3, <2>4, <2>5, <2>6, <1>5
<1>8. spend \in Nat /\ TokenCap \in Nat /\ MaxTokens \in Nat BY CapAssumption DEF Histories
<1> DEFINE c == Cardinality(Charging)
           d == Cardinality(Charging')
           n == peak.investigate + blind + Unchecked
           m == peak'.investigate + blind' + Unchecked
<1>9. c \in Nat /\ d \in Nat /\ n \in Nat /\ m \in Nat /\ n <= m
  BY <1>5, <1>6, <1>7
<1>10. spend + c * MaxTokens <= (TokenCap - 1) + n * MaxTokens BY <1>3
<1>11. SUFFICES spend' + d * MaxTokens <= (TokenCap - 1) + m * MaxTokens OBVIOUS
<1>12. /\ c * MaxTokens \in Nat /\ d * MaxTokens \in Nat /\ n * MaxTokens \in Nat
       /\ m * MaxTokens \in Nat /\ n * MaxTokens <= m * MaxTokens
       /\ d <= c => d * MaxTokens <= c * MaxTokens
       /\ d <= m => d * MaxTokens <= m * MaxTokens
       /\ d <= c + 1 => d * MaxTokens <= c * MaxTokens + MaxTokens
       /\ d + 1 <= c => d * MaxTokens + MaxTokens <= c * MaxTokens
       /\ n + 1 <= m => n * MaxTokens + MaxTokens <= m * MaxTokens
  <2> HIDE DEF c, d, n, m
  <2>1. /\ c * MaxTokens \in Nat /\ d * MaxTokens \in Nat /\ n * MaxTokens \in Nat
        /\ m * MaxTokens \in Nat /\ n * MaxTokens <= m * MaxTokens
        /\ d <= c => d * MaxTokens <= c * MaxTokens
        /\ d <= m => d * MaxTokens <= m * MaxTokens
    BY <1>8, <1>9, Times
  <2>2. \A x \in Nat : x + 1 \in Nat /\ (x + 1) * MaxTokens = x * MaxTokens + MaxTokens
    BY <1>8
  <2>3. d <= c + 1 => d * MaxTokens <= (c + 1) * MaxTokens BY <1>8, <1>9, <2>2, Times
  <2>4. d + 1 <= c => (d + 1) * MaxTokens <= c * MaxTokens BY <1>8, <1>9, <2>2, Times
  <2>5. n + 1 <= m => (n + 1) * MaxTokens <= m * MaxTokens BY <1>8, <1>9, <2>2, Times
  <2> QED BY <1>9, <2>1, <2>2, <2>3, <2>4, <2>5
<1>13. ASSUME spend' = spend, d <= c PROVE spend' + d * MaxTokens <= (TokenCap - 1) + m * MaxTokens
  <2> HIDE DEF c, d, n, m
  <2> QED BY <1>8, <1>9, <1>10, <1>12, <1>13
<1>14. ~Cap(r) => Charging' \subseteq Charging BY WhoComesIn
<1>15. Charging' \subseteq Charging => d <= c BY <1>5, FS_Subset
<1>16. CASE Cap(r)
  <2>1. PICK total \in {spend, 0} :
          /\ IF OverCap(total) THEN Stop(r, "refused") ELSE Go(r, 1)
          /\ blind' = IF OverCap(spend) /\ ~OverCap(total) THEN blind + 1 ELSE blind
    BY <1>16 DEF Cap
  <2>2. spend' = spend BY <1>16 DEF Cap
  <2>3. CASE Charging' \subseteq Charging BY <2>2, <2>3, <1>13, <1>15
  <2>4. CASE ~(Charging' \subseteq Charging)
    <3>1. ~OverCap(total)
      <4>1. at' # at BY <2>4, WhoComesIn
      <4> QED BY <4>1, <2>1 DEF Stop
    <3>2. CASE ~OverCap(spend)
      <4>1. spend <= TokenCap - 1 BY <1>2, <1>8, <3>2 DEF OverCap
      <4>2. d <= m BY <1>6, <1>7, <1>9
      <4> HIDE DEF c, d, n, m
      <4> QED BY <1>8, <1>9, <1>12, <2>2, <4>1, <4>2
    <3>3. CASE OverCap(spend)
      <4>1. n + 1 <= m BY <1>6, <1>7, <2>1, <3>1, <3>3
      <4>2. d <= c + 1
        <5>1. Charging' \subseteq Charging \union {r} BY OthersStay
        <5>2. /\ IsFiniteSet(Charging \union {r})
              /\ Cardinality(Charging \union {r}) = IF r \in Charging THEN c ELSE c + 1
          BY <1>5, FS_AddElement
        <5>3. d <= Cardinality(Charging \union {r}) BY <5>1, <5>2, FS_Subset
        <5> HIDE DEF c, d
        <5> QED BY <5>2, <5>3, <1>9
      <4> HIDE DEF c, d, n, m
      <4> QED BY <1>8, <1>9, <1>10, <1>12, <2>2, <4>1, <4>2
    <3> QED BY <3>2, <3>3
  <2> QED BY <2>3, <2>4
<1>17. CASE Charge(r)
  <2>1. seen[r].tokens \in Nat /\ seen[r].tokens <= MaxTokens
    BY DEF RequestsInv, SeenTyped, TokensInv
  <2>2. spend' = spend \/ spend' = spend + seen[r].tokens BY <1>17 DEF Charge
  <2>3. spend' \in Nat /\ spend' <= spend + MaxTokens BY <1>8, <2>1, <2>2
  <2>4. r \in Charging
    BY <1>17, NextCall DEF Charge, CallAt, Charging, Past, Kind, Gate, Now
  <2>5. Charging' \subseteq Charging \ {r} BY <1>17, <2>4, WritersAreDone, OthersStay DEF Charge
  <2>6. d + 1 <= c
    <3>1. IsFiniteSet(Charging \ {r}) /\ Cardinality(Charging \ {r}) = c - 1
      BY <1>5, <2>4, FS_RemoveElement
    <3>2. d <= Cardinality(Charging \ {r}) BY <2>5, <3>1, FS_Subset
    <3> HIDE DEF c, d
    <3> QED BY <3>1, <3>2, <1>9
  <2> DEFINE cm == c * MaxTokens
             dm == d * MaxTokens
             nm == n * MaxTokens
             mm == m * MaxTokens
  <2>7. /\ cm \in Nat /\ dm \in Nat /\ nm \in Nat /\ mm \in Nat
        /\ dm + MaxTokens <= cm /\ nm <= mm /\ spend + cm <= (TokenCap - 1) + nm
    BY <1>10, <1>12, <2>6
  <2> HIDE DEF cm, dm, nm, mm
  <2>8. TokenCap - 1 \in Int BY <1>8
  <2>9. spend' + dm <= (TokenCap - 1) + mm BY <1>8, <2>3, <2>7, <2>8, Charged
  <2> QED BY <2>9 DEF dm, mm
<1>18. CASE ~Cap(r) /\ ~Charge(r)
  <2>1. spend' = spend BY <1>18, SpendMoves
  <2> QED BY <2>1, <1>13, <1>14, <1>15, <1>18
<1> QED BY <1>16, <1>17, <1>18

\* A step that only lets time pass.
LEMMA TimePasses ==
  ASSUME TypeInv, LimitsInv, UNCHANGED <<work, at, out, seen, blind>>,
         spend' = spend \/ spend' = 0, db'.orgs = db.orgs,
         Active(db') \subseteq Active(db), Seats(db') \subseteq Seats(db),
         Spent(db') \subseteq Spent(db),
         PeakInv', \A kind \in DOMAIN Gate : peak'[kind] >= peak[kind]
  PROVE  LimitsInv'
<1> USE DEF TypeInv, LimitsInv
<1>1. PlanInv' /\ TokensInv' BY DEF PlanInv, TokensInv, PlanStays, Of, Requests
<1>2. /\ Keying' = Keying /\ Seating' = Seating /\ Metering' = Metering /\ Charging' = Charging
      /\ Past("investigate")' = Past("investigate")
  BY DEF Keying, Seating, Metering, Charging, Past, Kind, Requests
<1>3. /\ Keying \in SUBSET Requests /\ Seating \in SUBSET Requests
      /\ Metering \in SUBSET Requests /\ Charging \in SUBSET Requests
      /\ Past("investigate") \in SUBSET Requests
      /\ Charging \subseteq Past("investigate") \union Kind({"approve", "triggered"})
  BY DEF Keying, Seating, Metering, Charging, Past, Kind
<1>4. /\ IsFiniteSet(Keying) /\ IsFiniteSet(Seating) /\ IsFiniteSet(Metering)
      /\ IsFiniteSet(Charging) /\ Cardinality(Charging) \in Nat
      /\ IsFiniteSet(Past("investigate")) /\ Cardinality(Past("investigate")) \in Nat
  BY <1>3, RequestsAreFinite
<1>5. /\ "create_key" \in DOMAIN Gate /\ "add_member" \in DOMAIN Gate
      /\ "investigate" \in DOMAIN Gate
  BY DEF Gate
<1>6. /\ peak.create_key \in Nat /\ peak'.create_key \in Nat
      /\ peak'.create_key >= peak.create_key
      /\ peak.add_member \in Nat /\ peak'.add_member \in Nat
      /\ peak'.add_member >= peak.add_member
      /\ peak.investigate \in Nat /\ peak'.investigate \in Nat
      /\ peak'.investigate >= peak.investigate
  BY <1>5 DEF PeakInv
<1>7. RoomInv'
  <2>1. SUFFICES ASSUME PlanStays
                 PROVE  /\ Room(Active(db'), Keying, 2, peak'.create_key, 0)
                        /\ Room(Seats(db'), Seating, 3, peak'.add_member, Of({"provision"}))
                        /\ Room(Spent(db'), Metering, 50, peak'.investigate, Of({"approve"}))
    BY <1>2 DEF RoomInv, PlanStays, Of, Requests
  <2>2. /\ Room(Active(db), Keying, 2, peak.create_key, 0)
        /\ Room(Seats(db), Seating, 3, peak.add_member, Of({"provision"}))
        /\ Room(Spent(db), Metering, 50, peak.investigate, Of({"approve"}))
    BY <2>1 DEF RoomInv
  <2>3. Of({"provision"}) \in Nat /\ Of({"approve"}) \in Nat BY KindsAreFinite
  <2>4. ASSUME NEW S, NEW T, NEW P, NEW limit \in Nat \ {0}, NEW m \in Nat,
               NEW n \in Nat, NEW extra \in Nat, n >= m, Room(S, P, limit, m, extra),
               IsFiniteSet(P), T \subseteq S
        PROVE  Room(T, P, limit, n, extra)
    <3>1. Stepped(S, T, P, P, limit, n, extra) BY <2>4 DEF Stepped
    <3> QED BY <2>4, <3>1, RoomStays
  <2> QED BY <2>2, <2>3, <2>4, <1>4, <1>6
<1>8. SpendInv'
  <2>1. SUFFICES ASSUME TokenCap > 0
                 PROVE  spend' + Cardinality(Charging) * MaxTokens
                          <= (TokenCap - 1) + (peak'.investigate + blind + Unchecked) * MaxTokens
    BY <1>2 DEF SpendInv, Unchecked, Of, Requests
  <2> DEFINE c == Cardinality(Charging)
             n == peak.investigate + blind + Unchecked
             m == peak'.investigate + blind + Unchecked
             cm == c * MaxTokens
             nm == n * MaxTokens
             mm == m * MaxTokens
  <2>2. /\ spend \in Nat /\ spend' \in Nat /\ TokenCap - 1 \in Nat /\ MaxTokens \in Nat
        /\ blind \in Nat
    BY <2>1, CapAssumption DEF Histories, PeakInv
  <2>3. c <= peak.investigate + Unchecked /\ Unchecked \in Nat
    <3>1. Cardinality(Past("investigate")) <= peak.investigate BY <1>5 DEF PeakInv
    <3>2. /\ IsFiniteSet(Kind({"approve", "triggered"})) /\ Unchecked \in Nat
          /\ Cardinality(Kind({"approve", "triggered"})) = Unchecked
      BY KindsAreFinite DEF Unchecked
    <3>3. c <= Cardinality(Past("investigate")) + Unchecked BY <1>3, <1>4, <3>2, WithinTwo
    <3>4. c \in Nat BY <1>4
    <3> HIDE DEF c
    <3> QED BY <3>1, <3>2, <3>3, <3>4, <1>4, <1>6
  <2>4. c \in Nat /\ n \in Nat /\ m \in Nat /\ c <= m /\ n <= m BY <1>4, <1>6, <2>2, <2>3
  <2>5. spend + cm <= (TokenCap - 1) + nm BY <2>1 DEF SpendInv
  <2>6. cm \in Nat /\ nm \in Nat /\ mm \in Nat /\ cm <= mm /\ nm <= mm
    <3> HIDE DEF c, n, m
    <3> QED BY <2>2, <2>4, Times
  <2>7. SUFFICES spend' + cm <= (TokenCap - 1) + mm OBVIOUS
  <2> HIDE DEF cm, nm, mm
  <2>8. CASE spend' = spend
    <3>1. ASSUME NEW s \in Nat, NEW a \in Nat, NEW b \in Nat, NEW e \in Nat, NEW cap \in Nat,
                 s + a <= cap + b, b <= e
          PROVE  s + a <= cap + e
      BY <3>1
    <3> QED BY <3>1, <2>2, <2>5, <2>6, <2>8
  <2>9. CASE spend' = 0
    <3>1. ASSUME NEW a \in Nat, NEW e \in Nat, NEW cap \in Nat, a <= e
          PROVE  0 + a <= cap + e
      BY <3>1
    <3> QED BY <3>1, <2>2, <2>6, <2>9
  <2> QED BY <2>8, <2>9
<1> QED BY <1>1, <1>7, <1>8

LEMMA LimitsKept ==
  ASSUME TypeInv, LimitsInv, [Next]_vars
  PROVE  LimitsInv'
<1> USE DEF LimitsInv
<1>1. ASSUME NEW r \in Requests, Act(r), Observe PROVE LimitsInv'
  <2>1. blind' \in Nat BY <1>1, BlindGrows DEF PeakInv
  <2>2. work' = work BY <1>1, ActMoves DEF TypeInv
  <2> QED BY <1>1, <2>1, <2>2, PlanKept, PeakKept, RoomKept, SpendKept, TokensKept
<1>2. CASE Roll /\ Observe
  <2>1. UNCHANGED <<work, db, at, out, seen, blind>> /\ spend' = 0
    BY <1>2 DEF Roll, history
  <2>2. /\ Active(db') = Active(db) /\ Seats(db') = Seats(db) /\ Spent(db') = Spent(db)
        /\ blind' \in Nat
    BY <2>1 DEF PeakInv
  <2>3. PeakInv' /\ \A kind \in DOMAIN Gate : peak'[kind] >= peak[kind]
    BY <1>2, <2>1, <2>2, PeakKept
  <2> QED BY <2>1, <2>2, <2>3, TimePasses
<1>3. CASE Expire /\ Observe
  <2>1. /\ UNCHANGED <<work, at, out, seen, spend, blind>>
        /\ db' = [db EXCEPT !.keys[0].state = "expired"]
        /\ 0 \in DOMAIN db.keys /\ db.keys[0].state = "active"
    BY <1>3 DEF Expire, Frame, history, KeyResolves
  <2>2. db'.orgs = db.orgs /\ db'.members = db.members /\ db'.usage = db.usage
    BY <2>1 DEF TypeInv, TablesInv
  <2>3. Active(db') \subseteq Active(db)
    BY <2>1 DEF Active, TypeInv, TablesInv, KeyRow
  <2>4. Seats(db') = Seats(db) /\ Spent(db') = Spent(db)
    BY <2>2 DEF Seats, Spent, Units, OwnRows
  <2>5. blind' \in Nat BY <2>1 DEF PeakInv
  <2>6. PeakInv' /\ \A kind \in DOMAIN Gate : peak'[kind] >= peak[kind]
    BY <1>3, <2>1, <2>5, PeakKept
  <2> QED BY <2>1, <2>2, <2>3, <2>4, <2>6, TimePasses
<1>4. CASE UNCHANGED vars
  <2>1. UNCHANGED <<work, db, at, out, seen, spend, blind, peak>> BY <1>4 DEF vars, history
  <2>2. PeakInv' BY <2>1 DEF PeakInv, Past, Requests
  <2>3. \A kind \in DOMAIN Gate : peak'[kind] >= peak[kind] BY <2>1 DEF PeakInv
  <2> QED BY <2>1, <2>2, <2>3, TimePasses
<1> QED BY <1>1, <1>2, <1>3, <1>4 DEF Next, Act

LEMMA InitLimits ==
  ASSUME Init
  PROVE  LimitsInv
<1>1. TypeInv BY InitTyped
<1>2. PICK dek \in {0, NoDek}, customer \in BOOLEAN, full \in BOOLEAN :
        db = [orgs |-> [o \in {0} |-> [plan |-> "free", dek |-> dek, customer |-> customer]],
              users |-> {Owner, "viewer@acme"} \union Spare(full, {"sre@acme"}),
              members |-> [m \in {0} \X
                                  ({Owner, "viewer@acme"} \union Spare(full, {"sre@acme"})) |->
                             IF m[2] = Owner THEN "owner" ELSE "viewer"],
              keys |-> [k \in {0} \union Spare(full, {-1}) |->
                          [org |-> 0, role |-> "owner", state |-> "active"]],
              secrets |-> [s \in {<<0, "github">>} |-> Encrypted(dek, 0)],
              usage |-> [u \in {<<0, "investigation", 0>>} |->
                           [amount |-> IF full THEN 50 ELSE 49, synced |-> FALSE]]]
  BY DEF Init
<1>3. DOMAIN Gate = {"create_key", "add_member", "investigate"}
      /\ \A kind \in DOMAIN Gate : Gate[kind] = 5
  BY DEF Gate
<1>4. \A kind \in DOMAIN Gate : Past(kind) = {} BY <1>3 DEF Init, Past
<1>5. /\ Keying = {} /\ Past("add_member") = {} /\ Past("investigate") = {}
      /\ Cardinality({}) = 0 /\ IsFiniteSet({})
  BY <1>3, <1>4, FS_EmptySet DEF Keying
<1>a. ASSUME NEW kinds, NEW P, P \subseteq Kind(kinds)
      PROVE  /\ Cardinality(P) <= Of(kinds) /\ Cardinality(P) \in Nat
             /\ Of(kinds) \in Nat
  <2>1. /\ IsFiniteSet(Kind(kinds)) /\ Cardinality(Kind(kinds)) = Of(kinds)
        /\ Of(kinds) \in Nat
    BY <1>1, KindsAreFinite DEF TypeInv
  <2>2. IsFiniteSet(P) /\ Cardinality(P) <= Cardinality(Kind(kinds)) BY <1>a, <2>1, FS_Subset
  <2> QED BY <2>1, <2>2, FS_CardinalityType
<1>6. PlanInv BY <1>2 DEF Init, PlanInv, NothingSeen
<1>7. PeakInv
  <2>1. peak = [kind \in DOMAIN Gate |-> 0] /\ blind = 0 BY DEF Init
  <2>2. peak \in [DOMAIN Gate -> Nat] BY <2>1
  <2>3. \A kind \in DOMAIN Gate : peak[kind] = 0 /\ Cardinality(Past(kind)) = 0
    BY <2>1, <1>4, <1>5
  <2> QED BY <2>1, <2>2, <2>3 DEF PeakInv
<1>8. TokensInv BY CapAssumption DEF Init, TokensInv, NothingSeen
<1>9. peak.create_key = 0 /\ peak.add_member = 0 /\ peak.investigate = 0 BY <1>3 DEF Init
<1>10. SpendInv
  <2>1. Charging \subseteq Kind({"approve", "triggered"}) BY <1>5 DEF Charging
  <2>2. /\ Cardinality(Charging) <= Unchecked /\ Cardinality(Charging) \in Nat
        /\ Unchecked \in Nat
    BY <2>1, <1>a DEF Unchecked
  <2> DEFINE c == Cardinality(Charging) * MaxTokens
             m == Unchecked * MaxTokens
  <2>3. c \in Nat /\ m \in Nat /\ c <= m BY <2>2, CapAssumption, Times
  <2>4. peak.investigate + blind + Unchecked = Unchecked BY <1>9, <2>2 DEF Init
  <2>5. spend = 0 /\ TokenCap \in Nat BY CapAssumption DEF Init
  <2>6. SUFFICES ASSUME TokenCap > 0 PROVE spend + c <= (TokenCap - 1) + m
    BY <2>4 DEF SpendInv
  <2> HIDE DEF c, m
  <2> QED BY <2>3, <2>5, <2>6
<1>11. Room(Active(db), Keying, 2, 0, 0)
  <2>1. Active(db) \subseteq {0} \union {-1} BY <1>2 DEF Active, Spare
  <2>2. IsFiniteSet({0}) /\ Cardinality({0}) = 1 BY FS_Singleton
  <2>3. /\ IsFiniteSet({0} \union {-1}) /\ Cardinality({0} \union {-1}) = 2
    BY <2>2, FS_AddElement
  <2>4. IsFiniteSet(Active(db)) /\ Cardinality(Active(db)) <= 2 BY <2>1, <2>3, FS_Subset
  <2>5. Cardinality(Active(db)) \in Nat BY <2>4, FS_CardinalityType
  <2> QED BY <2>4, <2>5, <1>5 DEF Room, Overshoot
<1>12. Room(Seats(db), Seating, 3, 0, Of({"provision"}))
  <2> DEFINE a == <<0, Owner>>
             b == <<0, "viewer@acme">>
             e == <<0, "sre@acme">>
  <2>1. Seats(db) \subseteq ({a} \union {b}) \union {e} BY <1>2 DEF Seats, Spare
  <2> HIDE DEF a, b, e
  <2>2. IsFiniteSet({a}) /\ Cardinality({a}) = 1 BY FS_Singleton
  <2>3. /\ IsFiniteSet({a} \union {b})
        /\ Cardinality({a} \union {b}) = IF b \in {a} THEN 1 ELSE 2
    BY <2>2, FS_AddElement
  <2>4. /\ IsFiniteSet(({a} \union {b}) \union {e})
        /\ Cardinality(({a} \union {b}) \union {e}) \in {1, 2, 3}
    <3> DEFINE ab == {a} \union {b}
    <3>1. IsFiniteSet(ab) /\ Cardinality(ab) \in {1, 2} BY <2>3
    <3> HIDE DEF ab
    <3>2. /\ IsFiniteSet(ab \union {e})
          /\ Cardinality(ab \union {e})
               = IF e \in ab THEN Cardinality(ab) ELSE Cardinality(ab) + 1
      BY <3>1, FS_AddElement
    <3>3. IsFiniteSet(ab \union {e}) /\ Cardinality(ab \union {e}) \in {1, 2, 3}
      BY <3>1, <3>2
    <3> QED BY <3>3 DEF ab
  <2>5. IsFiniteSet(Seats(db))
        /\ Cardinality(Seats(db)) <= Cardinality(({a} \union {b}) \union {e})
    BY <2>1, <2>4, FS_Subset
  <2>6. Cardinality(Seats(db)) \in Nat BY <2>5, FS_CardinalityType
  <2>7. Cardinality(Seating) <= Of({"provision"}) /\ Cardinality(Seating) \in Nat
    <3>1. Seating \subseteq Kind({"provision"}) BY <1>5 DEF Seating, Kind
    <3> QED BY <3>1, <1>a
  <2>8. Of({"provision"}) \in Nat BY <1>1, KindsAreFinite DEF TypeInv
  <2> QED BY <2>4, <2>5, <2>6, <2>7, <2>8 DEF Room, Overshoot
<1>13. Room(Spent(db), Metering, 50, 0, Of({"approve"}))
  <2> DEFINE row == <<0, "investigation", 0>>
             n == IF full THEN 50 ELSE 49
  <2>1. DOMAIN db.usage = {row} /\ db.usage[row].amount = n BY <1>2
  <2>2. row[1] = 0 /\ row[2] = "investigation" OBVIOUS
  <2>3. n \in Nat /\ n <= 50 OBVIOUS
  <2> HIDE DEF row, n
  <2>4. Spent(db) = {row} \X (1 .. n) BY <2>1, <2>2, UnitsAre
  <2>5. IsFiniteSet({row}) /\ Cardinality({row}) = 1 BY FS_Singleton
  <2>6. IsFiniteSet(1 .. n) /\ Cardinality(1 .. n) = n BY <2>3, FS_Interval
  <2>7. IsFiniteSet(Spent(db)) /\ Cardinality(Spent(db)) = 1 * n
    <3>1. /\ IsFiniteSet({row} \X (1 .. n))
          /\ Cardinality({row} \X (1 .. n)) = Cardinality({row}) * Cardinality(1 .. n)
      BY <2>5, <2>6, FS_Product
    <3> QED BY <2>4, <2>5, <2>6, <3>1
  <2>8. Metering \subseteq Kind({"approve"}) BY <1>5 DEF Metering
  <2>9. /\ Cardinality(Metering) <= Of({"approve"}) /\ Cardinality(Metering) \in Nat
        /\ Of({"approve"}) \in Nat
    BY <2>8, <1>a
  <2> QED BY <2>3, <2>7, <2>9 DEF Room, Overshoot
<1>14. RoomInv BY <1>9, <1>11, <1>12, <1>13 DEF RoomInv
<1> QED BY <1>6, <1>7, <1>8, <1>10, <1>14 DEF LimitsInv

\* A limit is overshot by requests that were past its check at the same time and by
\* those that pass no check, each by what it may add, and the cap also by investigations
\* let in while it could not be read.
THEOREM LimitsAreOvershotByOverlap == Spec => []LimitsOvershootByOverlap
<1>1. TypeInv /\ LimitsInv => LimitsOvershootByOverlap
  <2> SUFFICES ASSUME TypeInv, LimitsInv PROVE LimitsOvershootByOverlap OBVIOUS
  <2> USE DEF TypeInv, LimitsInv
  <2>1. ASSUME NEW S, NEW P, NEW limit, NEW n, NEW extra, Overshoot(limit, n) + extra \in Nat,
               IsFiniteSet(P), Room(S, P, limit, n, extra)
        PROVE  Cardinality(S) <= Overshoot(limit, n) + extra
    BY <2>1, FS_CardinalityType DEF Room
  <2>2. /\ Keying \in SUBSET Requests /\ Seating \in SUBSET Requests
        /\ Metering \in SUBSET Requests /\ Charging \in SUBSET Requests
    BY DEF Keying, Seating, Metering, Charging, Past, Kind
  <2>3. /\ IsFiniteSet(Keying) /\ IsFiniteSet(Seating) /\ IsFiniteSet(Metering)
        /\ Cardinality(Charging) \in Nat
    BY <2>2, RequestsAreFinite
  <2>4. peak.create_key \in Nat /\ peak.add_member \in Nat /\ peak.investigate \in Nat
    BY DEF PeakInv, Gate
  <2>5. /\ Of({"provision"}) \in Nat /\ Of({"approve"}) \in Nat
        /\ Of({"approve", "triggered"}) \in Nat
    BY KindsAreFinite
  <2>6. /\ Overshoot(2, peak.create_key) \in Nat /\ Overshoot(3, peak.add_member) \in Nat
        /\ Overshoot(50, peak.investigate) \in Nat
    BY <2>4 DEF Overshoot
  <2>7. PlanStays =>
          /\ CountActiveKeys(db, 0) <= Overshoot(2, peak.create_key)
          /\ CountMembers(db, 0) <= Overshoot(3, peak.add_member) + Of({"provision"})
          /\ UsageTotal(db, 0, "investigation")
               <= Overshoot(50, peak.investigate) + Of({"approve"})
    <3> SUFFICES ASSUME PlanStays
                 PROVE  /\ Cardinality(Active(db)) <= Overshoot(2, peak.create_key)
                        /\ Cardinality(Seats(db))
                             <= Overshoot(3, peak.add_member) + Of({"provision"})
                        /\ Cardinality(Spent(db))
                             <= Overshoot(50, peak.investigate) + Of({"approve"})
      BY DEF CountActiveKeys, Active, CountMembers, Seats, UsageTotal, Spent
    <3>1. Cardinality(Active(db)) <= Overshoot(2, peak.create_key) + 0
      BY <2>1, <2>3, <2>6 DEF RoomInv
    <3>2. Cardinality(Seats(db)) <= Overshoot(3, peak.add_member) + Of({"provision"})
      BY <2>1, <2>3, <2>5, <2>6 DEF RoomInv
    <3>3. Cardinality(Spent(db)) <= Overshoot(50, peak.investigate) + Of({"approve"})
      BY <2>1, <2>3, <2>5, <2>6 DEF RoomInv
    <3> QED BY <3>1, <3>2, <3>3, <2>6
  <2>8. TokenCap > 0 =>
          spend <= TokenCap - 1
                   + (peak.investigate + blind + Of({"approve", "triggered"})) * MaxTokens
    <3> SUFFICES ASSUME TokenCap > 0
                 PROVE  spend <= (TokenCap - 1) + (peak.investigate + blind + Unchecked) * MaxTokens
      BY DEF Unchecked
    <3> DEFINE all == peak.investigate + blind + Unchecked
               cm == Cardinality(Charging) * MaxTokens
               nm == all * MaxTokens
    <3>1. all \in Nat BY <2>4, <2>5 DEF PeakInv, Unchecked
    <3>2. cm \in Nat /\ nm \in Nat /\ spend \in Nat /\ TokenCap - 1 \in Nat
      <4> HIDE DEF all
      <4> QED BY <2>3, <3>1, CapAssumption, Times DEF Histories
    <3>3. spend + cm <= (TokenCap - 1) + nm BY DEF SpendInv
    <3> HIDE DEF cm, nm
    <3>4. spend <= (TokenCap - 1) + nm BY <3>2, <3>3
    <3> QED BY <3>4 DEF nm
  <2> QED BY <2>7, <2>8 DEF LimitsOvershootByOverlap
<1>2. Init => LimitsInv BY InitLimits
<1>3. TypeInv /\ LimitsInv /\ [Next]_vars => LimitsInv' BY LimitsKept
<1> QED BY <1>1, <1>2, <1>3, TypeInvariance, PTL DEF Spec
=============================================================================

-------------------------- MODULE MCTenantRequests --------------------------
(***************************************************************************)
(* Instances of TenantRequests for TLC: requests that meet in one table.   *)
(***************************************************************************)
EXTENDS TenantRequests

\* Two or three requests over keys and plans, members, secrets, money.
MCWorkloads ==
  {<<"create_key", "create_key", "revoke_key">>, <<"create_key", "stripe">>,
   <<"create_key", "set_plan">>,
   <<"add_member", "add_member">>, <<"add_member", "provision", "deprovision">>,
   <<"signup", "signup">>, <<"signup", "provision">>,
   <<"set_secret", "rotate", "rotate">>, <<"set_secret", "set_secret", "rotate">>,
   <<"erase", "set_secret", "rotate">>, <<"erase", "set_secret", "provision">>, <<"erase", "create_key", "add_member">>,
   <<"erase", "rotate", "investigate">>, <<"erase", "view_org", "view_secrets">>,
   <<"investigate", "investigate", "investigate">>, <<"investigate", "purge">>,
   <<"investigate", "approve", "triggered">>, <<"approve", "approve", "erase">>,
   <<"investigate", "investigate", "approve">>,
   <<"sync", "sync", "link">>, <<"sync", "investigate", "erase">>}

\* A client that sends one id with all of its requests.
OneId == {<<"investigate", "investigate", "approve">>}

MCHeaders ==
  [w \in MCWorkloads \union {<<"signup", "signup">>} |->
     [r \in 1 .. Len(w) |-> IF w \in OneId THEN 1 ELSE r]]

MCSignups == {<<"signup", "signup">>}
=============================================================================

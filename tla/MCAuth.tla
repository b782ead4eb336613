------------------------------- MODULE MCAuth -------------------------------
(***************************************************************************)
(* The parts of the auth service share no state: a behaviour exercises one *)
(* of them.                                                                *)
(*   service      four calls are two registrations of one address and two  *)
(*                logins, or one user who logs in three times with right   *)
(*                and wrong passwords, or two provisionings of one slug    *)
(*                with registrations in the new tenant (the third; of the  *)
(*                first two one is not active); any hash may be rejected;  *)
(*   codes        two clients try each other's codes, before and after     *)
(*                they expire, with verifiers that belong to them or not,  *)
(*                while clients are registered again;                      *)
(*   revocations  tokens revoked again for longer and for shorter;         *)
(*   roles        standard roles replaced until inheritance is circular,   *)
(*                and a role that nobody registers;                        *)
(*   policy       every request the four rules tell apart.                 *)
(***************************************************************************)
EXTENDS Auth, AuthorizationCodes, RevocationList, RoleHierarchy, PolicyRules

VARIABLE part

authVars == <<part, vars, codeVars, listVars, roleVars, request>>

MCTenants == <<[slug |-> "acme", isActive |-> TRUE], [slug |-> "old", isActive |-> FALSE]>>

User(t, p) == [tenant |-> t, email |-> "ann", password |-> p]

MCRegistrations == {User(1, "p"), User(1, "q"), User(2, "p"), User(3, "q")}

MCLogins == {User(1, "p"), User(1, "q")}

MCTenantRequests == {[slug |-> "new", email |-> "ann", password |-> "p"]}

Role(r, parents) == [roleId |-> r, inheritsFrom |-> parents]

MCRoleDefinitions ==
    {Role("SUPER_ADMIN", <<>>), Role("SUPER_ADMIN", <<"AUDITOR">>),
     Role("OPERATIONS_MANAGER", <<"AUDITOR">>), Role("OPERATIONS_MANAGER", <<"GHOST", "DISPATCHER">>),
     Role("DISPATCHER", <<"OPERATIONS_MANAGER">>), Role("DISPATCHER", <<"DISPATCHER", "AUDITOR">>),
     Role("AUDITOR", <<>>), Role("AUDITOR", <<"DISPATCHER", "SUPER_ADMIN">>),
     Role("AUDITOR", <<"GHOST", "INVENTORY_MANAGER">>)}

MCRoleLists ==
    {<<>>, <<"AUDITOR">>, <<"GHOST">>, <<"DISPATCHER">>, <<"OPERATIONS_MANAGER">>,
     <<"DISPATCHER", "SUPER_ADMIN">>, <<"SUPER_ADMIN", "DISPATCHER">>, <<"AUDITOR", "DISPATCHER", "AUDITOR">>}

MCRequests ==
    [roles : SUBSET {"SUPER_ADMIN", "TENANT_ADMIN", "DRIVER"}, sameTenant : BOOLEAN,
     assigned : BOOLEAN, action : {"read", "cancel"}]

AuthInit ==
    /\ part \in {"service", "codes", "revocations", "roles", "policy"}
    /\ Init /\ CodesInit /\ ListInit /\ RolesInit
    /\ request \in IF part = "policy" THEN Requests ELSE {CHOOSE q \in Requests : TRUE}

AuthNext ==
    /\ UNCHANGED part
    /\ \/ /\ part = "service" /\ Next
          /\ UNCHANGED <<codeVars, listVars, roleVars, request>>
       \/ /\ part = "codes" /\ CodesNext
          /\ UNCHANGED <<vars, listVars, roleVars, request>>
       \/ /\ part = "revocations" /\ ListNext
          /\ UNCHANGED <<vars, codeVars, roleVars, request>>
       \/ /\ part = "roles" /\ RolesNext
          /\ UNCHANGED <<vars, codeVars, listVars, request>>
       \/ /\ part = "policy" /\ PolicyNext
          /\ UNCHANGED <<vars, codeVars, listVars, roleVars>>

AuthSpec == AuthInit /\ [][AuthNext]_authVars

----------------------------------------------------------------------------
\* Both ways of deciding who may do what agree with what they stand for: the
\* permissions of a user are those inheritance leads to, in circles too, what
\* a list of roles grants is what its roles grant, and the first rule that
\* applies decides as if denials came first.
AccessAgrees == EffectiveAgrees /\ GrantsAddUp /\ DenyFirst
=============================================================================

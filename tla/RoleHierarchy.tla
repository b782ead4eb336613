---------------------------- MODULE RoleHierarchy ---------------------------
(***************************************************************************)
(* HierarchicalRolePermissionEvaluator (auth-service/src/policies).  Roles *)
(* refer to one another by name: a parent may be registered later, be      *)
(* replaced or never be there, and inheritance may be circular.            *)
(*                                                                         *)
(* A role is the list it inherits from; it has one permission of its own,  *)
(* with the name of the role, and that of SUPER_ADMIN is '*'.              *)
(***************************************************************************)
EXTENDS Naturals, Sequences, FiniteSets, SequencesExt

CONSTANTS
    RoleIds,            \* role identifiers, registered or not
    RoleDefinitions,    \* what is registered: [roleId, inheritsFrom]
    RoleLists           \* the lists of roles users have

ASSUME RolesAssumption ==
    /\ IsFiniteSet(RoleIds)
    /\ {"SUPER_ADMIN", "OPERATIONS_MANAGER", "DISPATCHER", "INVENTORY_MANAGER"} \subseteq RoleIds
    /\ "unknown" \notin RoleIds
    /\ RoleDefinitions \subseteq [roleId : RoleIds, inheritsFrom : Seq(RoleIds)]
    /\ RoleLists \subseteq Seq(RoleIds)

VARIABLES
    roles,              \* roles[r]: the list r inherits from, or Unknown
    ctx                 \* the last context evaluateAccess was called with

roleVars == <<roles, ctx>>

Unknown == <<"unknown">>

\* isOwner: the user owns the resource and wants to read or to update it.
Contexts ==
    [userRoles : RoleLists, sameTenant : BOOLEAN, required : RoleIds, isOwner : BOOLEAN]

\* initializeStandardRoles
RolesInit ==
    /\ roles = [r \in RoleIds |->
            CASE r \in {"SUPER_ADMIN", "DISPATCHER", "INVENTORY_MANAGER"} -> <<>>
              [] r = "OPERATIONS_MANAGER" -> <<"DISPATCHER", "INVENTORY_MANAGER">>
              [] OTHER -> Unknown]
    /\ ctx \in {c \in Contexts : c.userRoles = <<>> /\ c.required = "DISPATCHER"
                                /\ ~c.sameTenant /\ ~c.isOwner}

registerRole(role) ==
    /\ roles' = [roles EXCEPT ![role.roleId] = role.inheritsFrom]
    /\ UNCHANGED ctx

\* The roles visited, and the calls of traverseRole still to be made, in order
Walks == [visited : SUBSET RoleIds, calls : Seq(RoleIds)]

Parents(r) == IF roles[r] = Unknown THEN <<>> ELSE roles[r]

\* Variant with one plausible mistake: a role inherits from its parents, not
\* from theirs.
ParentsOnly(walk) ==
    LET r == Head(walk.calls)
    IN  [visited |-> walk.visited \cup {r} \cup ToSet(Parents(r)), calls |-> Tail(walk.calls)]

\* The next call: nothing for a role that was visited, else it calls itself for
\* the parents before the calls that were waiting go on.
traverseRole(walk) ==
    LET r == Head(walk.calls)
    IN  IF r \in walk.visited
        THEN [walk EXCEPT !.calls = Tail(@)]
        ELSE [visited |-> walk.visited \cup {r}, calls |-> Parents(r) \o Tail(walk.calls)]

\* What is visited when no call is left
visitedRoles[walk \in Walks] ==
    IF walk.calls = <<>> THEN walk.visited ELSE visitedRoles[traverseRole(walk)]

getEffectivePermissions(roleIds) ==
    {r \in visitedRoles[[visited |-> {}, calls |-> roleIds]] : roles[r] # Unknown}

\* Variant: the guard looks at the user's first role only.
GuardByFirstRole(userRoles, sameTenant) ==
    sameTenant \/ (userRoles # <<>> /\ Head(userRoles) = "SUPER_ADMIN")

PassesTenantGuard(userRoles, sameTenant) ==
    sameTenant \/ "SUPER_ADMIN" \in ToSet(userRoles)

\* The answer of evaluateAccess
Grants(c) ==
    /\ PassesTenantGuard(c.userRoles, c.sameTenant)
    /\ LET effectivePermissions == getEffectivePermissions(c.userRoles)
       IN  \/ "SUPER_ADMIN" \in effectivePermissions
           \/ c.required \in effectivePermissions
           \/ c.isOwner

evaluateAccess(c) ==
    /\ ctx' = c
    /\ UNCHANGED roles

RolesNext ==
    \/ \E role \in RoleDefinitions : registerRole(role)
    \/ \E c \in Contexts : evaluateAccess(c)

RolesSpec == RolesInit /\ [][RolesNext]_roleVars

----------------------------------------------------------------------------
Inherited(S) ==
    \A r \in S : roles[r] # Unknown => ToSet(roles[r]) \subseteq S

\* However roles inherit from one another, in circles or from roles that are
\* not there, the walk ends and finds the permissions of exactly the roles
\* that inheritance leads to: the least set with the user's roles and, with
\* every role, those it inherits from.
EffectiveAgrees ==
    getEffectivePermissions(ctx.userRoles) =
        {r \in RoleIds :
            /\ roles[r] # Unknown
            /\ \A S \in SUBSET RoleIds :
                ToSet(ctx.userRoles) \subseteq S /\ Inherited(S) => r \in S}

\* Whoever has more roles may do more, in whatever order they are listed.
GrantsAddUp ==
    \A few \in RoleLists :
        ToSet(few) \subseteq ToSet(ctx.userRoles) /\ Grants([ctx EXCEPT !.userRoles = few])
            => Grants(ctx)
=============================================================================

----------------------------- MODULE PolicyRules ----------------------------
(***************************************************************************)
(* PolicyEngine (packages/common/src/security): four fixed rules, tried in *)
(* order.  A request is what their conditions look at: the subject's       *)
(* roles, whether its tenant is the resource's, whether the resource is a  *)
(* shipment assigned to the subject, and the action.                       *)
(***************************************************************************)
EXTENDS Naturals, Sequences

CONSTANT Requests       \* [roles, sameTenant, assigned, action]

VARIABLE request        \* the request that is evaluated

PolicyInit == request \in Requests

Rule(id, effect) == [id |-> id, effect |-> effect]

\* Variant with one plausible mistake: the guard comes after what it guards.
GuardLast ==
    <<Rule("SUPER_ADMIN_ALL_ACCESS", "ALLOW"), Rule("TENANT_ADMIN_TENANT_ACCESS", "ALLOW"),
      Rule("DRIVER_ASSIGNED_SHIPMENT_ACCESS", "ALLOW"), Rule("TENANT_ISOLATION_GUARD", "DENY")>>

rules ==
    <<Rule("SUPER_ADMIN_ALL_ACCESS", "ALLOW"), Rule("TENANT_ISOLATION_GUARD", "DENY"),
      Rule("TENANT_ADMIN_TENANT_ACCESS", "ALLOW"), Rule("DRIVER_ASSIGNED_SHIPMENT_ACCESS", "ALLOW")>>

Applies(rule, q) ==
    CASE rule.id = "SUPER_ADMIN_ALL_ACCESS" -> "SUPER_ADMIN" \in q.roles
      [] rule.id = "TENANT_ISOLATION_GUARD" -> "SUPER_ADMIN" \notin q.roles /\ ~q.sameTenant
      [] rule.id = "TENANT_ADMIN_TENANT_ACCESS" -> "TENANT_ADMIN" \in q.roles /\ q.sameTenant
      [] rule.id = "DRIVER_ASSIGNED_SHIPMENT_ACCESS" ->
            "DRIVER" \in q.roles /\ q.assigned /\ q.action \in {"read", "update_telemetry", "submit_pod"}

\* The first rule that applies decides; without one the answer is no.
isAllowed(q) ==
    \E i \in DOMAIN rules :
        /\ Applies(rules[i], q)
        /\ rules[i].effect = "ALLOW"
        /\ \A k \in 1 .. i - 1 : ~Applies(rules[k], q)

evaluate(q) == request' = q

PolicyNext == \E q \in Requests : evaluate(q)

----------------------------------------------------------------------------
\* evaluate calls itself deny-first and yet takes the first rule that applies,
\* and the first rule allows.  The two agree for the rules there are: a request
\* is allowed if and only if a rule allows it and none denies it.
DenyFirst ==
    LET effects == {rules[i].effect : i \in {k \in DOMAIN rules : Applies(rules[k], request)}}
    IN  isAllowed(request) <=> "ALLOW" \in effects /\ "DENY" \notin effects
=============================================================================

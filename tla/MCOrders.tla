------------------------------ MODULE MCOrders ------------------------------
(***************************************************************************)
(* The order service: its sagas, its event outbox and its fulfilment       *)
(* workflows.  The code does not connect them, so a behaviour exercises    *)
(* one and leaves the others as they started.                              *)
(*   saga      two orders and two cancellations, which may hit the same    *)
(*             order;                                                      *)
(*   outbox    batches smaller than the backlog, handlers that subscribe   *)
(*             while a flush is under way, and two flushes that overlap;   *)
(*   workflow  two workflows of five steps, one whose results arrive once  *)
(*             and one whose results may arrive again at any time.         *)
(***************************************************************************)
EXTENDS OrderSaga, Outbox, FulfillmentWorkflow

VARIABLE part

ordersVars == <<part, vars, outboxVars, workflowVars>>

OrdersInit ==
    /\ part \in {"saga", "outbox", "workflow"}
    /\ Init /\ OutboxInit /\ WorkflowInit

OrdersNext ==
    /\ UNCHANGED part
    /\ IF part = "saga" THEN Next ELSE UNCHANGED vars
    /\ IF part = "outbox" THEN OutboxNext ELSE UNCHANGED outboxVars
    /\ IF part = "workflow" THEN WorkflowNext ELSE UNCHANGED workflowVars

OrdersSpec ==
    /\ OrdersInit /\ [][OrdersNext]_ordersVars
    /\ \/ part = "saga" /\ Fairness
       \/ part = "outbox" /\ OutboxFairness
       \/ part = "workflow" /\ WorkflowFairness

----------------------------------------------------------------------------
\* The workflows whose results arrive once finish (Finishes of
\* FulfillmentWorkflow), in the behaviours that exercise them: every advanceStep
\* that is not the last leaves a step under way.
WorkflowsFinish == part = "workflow" => Finishes
=============================================================================

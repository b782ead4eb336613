------------------------------ MODULE OrderSaga ------------------------------
(***************************************************************************)
(* OrderService.createOrder and cancelOrder with the saga that createOrder *)
(* launches and does not await (OrderSagaOrchestrator), over               *)
(* OrderRepository and SagaRepository.                                     *)
(*                                                                         *)
(* An action is the code between two awaits.  pc[o] names the await the    *)
(* saga of order o is suspended at.  A lookup of the saga's own instance   *)
(* is read by nobody else and is part of the step that uses it.            *)
(*                                                                         *)
(* Both repositories update by merging the fields given onto the stored    *)
(* object, so a writer replaces only what it names; cancelOrder decides on *)
(* the object it read before its await.  Items, prices, addresses and ids  *)
(* do not influence any of this and are left out.                          *)
(***************************************************************************)
EXTENDS Naturals

CONSTANTS
    Orders,
    Cancels     \* the calls of cancelOrder, each with its own reason

\* "none" stands for an absent order id and an absent reason.
ASSUME SagaAssumption == "none" \notin Orders /\ "none" \notin Cancels

VARIABLES
    order,      \* orders: [status, linked, reason], or NoOrder
    saga,       \* sagas: [status, currentStep, done], or NoSaga
    pc,         \* where createOrder and then the saga of o is
    cancel      \* cancel[c]: [pc, order, seen], seen the status it read

vars == <<order, saga, pc, cancel>>

\* Calls that have not been made, orders and sagas that do not exist
NoOrder == [status |-> "NONE", linked |-> FALSE, reason |-> "none"]
NoSaga == [status |-> "NONE", currentStep |-> "NONE", done |-> {}]

\* The members of the enum that this code assigns or compares with
OrderStatus == {"PENDING_VALIDATION", "INVENTORY_RESERVING", "PAYMENT_PROCESSING",
                "DISPATCH_SCHEDULED", "DELIVERED", "CANCELLED"}

StepNames == {"VALIDATE_ORDER", "RESERVE_INVENTORY", "AUTHORIZE_PAYMENT",
              "SCHEDULE_DISPATCH"}

Init ==
    /\ order = [o \in Orders |-> NoOrder]
    /\ saga = [o \in Orders |-> NoSaga]
    /\ pc = [o \in Orders |-> "idle"]
    /\ cancel = [c \in Cancels |-> [pc |-> "idle", order |-> "none", seen |-> "NONE"]]

----------------------------------------------------------------------------
(* Variants of the definitions below, each with one plausible mistake.     *)

\* cancelOrder stores the object it read, with the new fields: the saga id
\* written in between is lost.
UpdateFromSnapshot(o, c) ==
    [order EXCEPT ![o] = [status |-> "CANCELLED",
        linked |-> cancel[c].seen # "PENDING_VALIDATION", reason |-> c]]

\* The payment step announces the order before the saga is completed.
CompleteLate(o) ==
    saga' = [saga EXCEPT ![o].done = @ \cup {"AUTHORIZE_PAYMENT", "SCHEDULE_DISPATCH"}]

\* createOrder returns without launching the saga.
NeverLaunched(o) ==
    /\ pc[o] = "created"
    /\ pc' = [pc EXCEPT ![o] = "finished"]
    /\ UNCHANGED <<order, saga, cancel>>

\* executeStepInventory moves on without marking its step.
StepNotMarked(o) ==
    /\ pc[o] = "linked"
    /\ pc' = [pc EXCEPT ![o] = "reserved"]
    /\ saga' = [saga EXCEPT ![o].status = "IN_PROGRESS",
                            ![o].currentStep = "AUTHORIZE_PAYMENT"]
    /\ UNCHANGED <<order, cancel>>

----------------------------------------------------------------------------
(* createOrder and startOrderSaga                                          *)

\* OrderRepository.update(o, {status}) by the saga
SetStatus(o, status) == [order EXCEPT ![o].status = status]

Goto(o, from, to) == pc[o] = from /\ pc' = [pc EXCEPT ![o] = to]

\* createOrder up to `await this.orderRepo.create`
createOrder(o) ==
    /\ Goto(o, "idle", "created")
    /\ order' = [order EXCEPT ![o] =
            [status |-> "PENDING_VALIDATION", linked |-> FALSE, reason |-> "none"]]
    /\ UNCHANGED <<saga, cancel>>

\* createOrder launches the saga and returns; startOrderSaga stores it
startOrderSaga(o) ==
    /\ Goto(o, "created", "launched")
    /\ saga' = [saga EXCEPT ![o] = [status |-> "STARTED",
            currentStep |-> "RESERVE_INVENTORY", done |-> {"VALIDATE_ORDER"}]]
    /\ UNCHANGED <<order, cancel>>

\* startOrderSaga sets sagaInstanceId and the status of the order
LinkSaga(o) ==
    /\ Goto(o, "launched", "linked")
    /\ order' = [order EXCEPT ![o].linked = TRUE, ![o].status = "INVENTORY_RESERVING"]
    /\ UNCHANGED <<saga, cancel>>

\* executeStepInventory up to the update of the saga
executeStepInventory(o) ==
    /\ Goto(o, "linked", "reserved")
    /\ saga' = [saga EXCEPT ![o] = [status |-> "IN_PROGRESS",
            currentStep |-> "AUTHORIZE_PAYMENT",
            done |-> @.done \cup {"RESERVE_INVENTORY"}]]
    /\ UNCHANGED <<order, cancel>>

\* executeStepInventory, the update of the order
OrderPaymentProcessing(o) ==
    /\ Goto(o, "reserved", "paying")
    /\ order' = SetStatus(o, "PAYMENT_PROCESSING")
    /\ UNCHANGED <<saga, cancel>>

\* Both remaining steps succeed and the saga is completed
CompleteSaga(o) ==
    saga' = [saga EXCEPT ![o] = [status |-> "COMPLETED", currentStep |-> "COMPLETED",
            done |-> @.done \cup {"AUTHORIZE_PAYMENT", "SCHEDULE_DISPATCH"}]]

\* executeStepPayment up to the update of the saga
executeStepPayment(o) ==
    /\ Goto(o, "paying", "completed")
    /\ CompleteSaga(o)
    /\ UNCHANGED <<order, cancel>>

\* executeStepPayment, the update of the order
OrderDispatchScheduled(o) ==
    /\ Goto(o, "completed", "finished")
    /\ order' = SetStatus(o, "DISPATCH_SCHEDULED")
    /\ UNCHANGED <<saga, cancel>>

----------------------------------------------------------------------------
(* cancelOrder                                                             *)

\* cancelOrder up to `await this.orderRepo.findById`
cancelOrder(c, o) ==
    /\ cancel[c].pc = "idle"
    /\ cancel' = [cancel EXCEPT ![c] =
            [pc |-> "found", order |-> o, seen |-> order[o].status]]
    /\ UNCHANGED <<order, saga, pc>>

\* OrderRepository.update(o, {status: CANCELLED, cancellationReason})
UpdateCancelled(o, c) ==
    [order EXCEPT ![o].status = "CANCELLED", ![o].reason = c]

\* Resumed: NotFoundException, ConflictException, or the update
FinishCancel(c) ==
    LET o == cancel[c].order
        refused == cancel[c].seen \in {"NONE", "DELIVERED", "CANCELLED"}
    IN  /\ cancel[c].pc = "found"
        /\ cancel' = [cancel EXCEPT ![c].pc = IF refused THEN "refused" ELSE "cancelled"]
        /\ order' = IF refused THEN order ELSE UpdateCancelled(o, c)
        /\ UNCHANGED <<saga, pc>>

----------------------------------------------------------------------------
SagaStep(o) ==
    \/ startOrderSaga(o)
    \/ LinkSaga(o)
    \/ executeStepInventory(o)
    \/ OrderPaymentProcessing(o)
    \/ executeStepPayment(o)
    \/ OrderDispatchScheduled(o)

Next ==
    \/ \E o \in Orders : createOrder(o) \/ SagaStep(o)
    \/ \E c \in Cancels :
        \/ \E o \in Orders : cancelOrder(c, o)
        \/ FinishCancel(c)

\* The event loop runs every continuation of a settled promise: a saga that
\* was launched goes on, a cancelOrder that was called returns.  Nobody has
\* to create or cancel an order.
Fairness ==
    /\ \A o \in Orders : WF_vars(SagaStep(o))
    /\ \A c \in Cancels : WF_vars(FinishCancel(c))

Spec == Init /\ [][Next]_vars

FairSpec == Spec /\ Fairness

----------------------------------------------------------------------------
\* Where everything can be
TypeOK ==
    /\ order \in [Orders -> [status : OrderStatus \cup {"NONE"}, linked : BOOLEAN,
                             reason : Cancels \cup {"none"}]]
    /\ saga \in [Orders -> [status : {"NONE", "STARTED", "IN_PROGRESS", "COMPLETED"},
                            currentStep : StepNames \cup {"NONE", "COMPLETED"},
                            done : SUBSET StepNames]]
    /\ pc \in [Orders -> {"idle", "created", "launched", "linked", "reserved",
                          "paying", "completed", "finished"}]
    /\ cancel \in [Cancels -> [pc : {"idle", "found", "refused", "cancelled"},
                               order : Orders \cup {"none"},
                               seen : OrderStatus \cup {"NONE"}]]

\* The saga stored, and the status the saga gave the order last, when the
\* saga is suspended at p
SagaAt(p) ==
    CASE p \in {"idle", "created"} -> NoSaga
      [] p \in {"launched", "linked"} ->
            [status |-> "STARTED", currentStep |-> "RESERVE_INVENTORY",
             done |-> {"VALIDATE_ORDER"}]
      [] p \in {"reserved", "paying"} ->
            [status |-> "IN_PROGRESS", currentStep |-> "AUTHORIZE_PAYMENT",
             done |-> {"VALIDATE_ORDER", "RESERVE_INVENTORY"}]
      [] OTHER ->
            [status |-> "COMPLETED", currentStep |-> "COMPLETED", done |-> StepNames]

StatusAt(p) ==
    CASE p = "idle" -> "NONE"
      [] p \in {"created", "launched"} -> "PENDING_VALIDATION"
      [] p \in {"linked", "reserved"} -> "INVENTORY_RESERVING"
      [] p \in {"paying", "completed"} -> "PAYMENT_PROCESSING"
      [] OTHER -> "DISPATCH_SCHEDULED"

\* An order that was not created has no trace in the repository.
NotYetCreated == \A o \in Orders : pc[o] = "idle" => order[o] = NoOrder

\* Both repositories hold exactly what the await the saga is suspended at
\* implies, except that a cancelOrder may have replaced the status, and then
\* the reason is there.
SagaFollows == \A o \in Orders : saga[o] = SagaAt(pc[o])

StatusFollows ==
    \A o \in Orders :
        \/ order[o].status = StatusAt(pc[o])
        \/ pc[o] # "idle" /\ order[o].status = "CANCELLED" /\ order[o].reason # "none"

LinkFollows ==
    \A o \in Orders : pc[o] \notin {"idle", "created", "launched"} => order[o].linked

\* A cancelOrder that is about to update has read an order that exists.
CancelFollows ==
    \A c \in Cancels :
        cancel[c].pc = "found" =>
            /\ cancel[c].order \in Orders
            /\ cancel[c].seen # "NONE" => pc[cancel[c].order] # "idle"

\* The inductive invariant of createOrder, the saga and cancelOrder: whatever
\* cancelOrder writes in between, the stored saga and the stored order are
\* those of the await the saga is suspended at.
SagaInv ==
    /\ TypeOK
    /\ NotYetCreated
    /\ SagaFollows
    /\ StatusFollows
    /\ LinkFollows
    /\ CancelFollows

\* The order never claims more than its saga has done, although the two are
\* stored by separate updates with awaits between them and cancelOrder
\* writes in the middle.
StatusBacked ==
    \A o \in Orders :
        /\ order[o].status = "INVENTORY_RESERVING" =>
            saga[o] # NoSaga /\ order[o].linked
        /\ order[o].status = "PAYMENT_PROCESSING" =>
            "RESERVE_INVENTORY" \in saga[o].done /\ saga[o].status # "STARTED"
        /\ order[o].status = "DISPATCH_SCHEDULED" =>
            saga[o].status = "COMPLETED" /\ saga[o].done = StepNames

\* No update is lost: the link to the saga, and the reason given by a cancel
\* that succeeded, survive every later update of the order.
NoLostUpdate ==
    [][\A o \in Orders :
        /\ order[o].linked => order'[o].linked
        /\ order[o].reason # "none" => order'[o].reason # "none"]_vars

\* Every order that was created ends up dispatched or cancelled, and stays so
\* (a late cancel may still turn the first into the second).
OrderSettles ==
    \A o \in Orders :
        (pc[o] # "idle") ~> [](order[o].status \in {"DISPATCH_SCHEDULED", "CANCELLED"})

----------------------------------------------------------------------------
\* "saga state machine with automatic compensating transactions"
\* (docs/features/order-saga-orchestration.md:4), and cancelOrder treats
\* CANCELLED as final: an order that was cancelled is never set going again.
CancelledIsFinal ==
    [][\A o \in Orders : order[o].status = "CANCELLED"
        => order'[o].status = "CANCELLED"]_vars
=============================================================================

----------------------------- MODULE OrderProofs -----------------------------
(***************************************************************************)
(* Theorems about the order service: OrderSaga, for any orders and any     *)
(* cancellations, Outbox, for any messages and handlers, finitely many     *)
(* flushers and any batch sizes, and FulfillmentWorkflow, for any number   *)
(* of workflows and steps.  Liveness (OrderSettles, EventuallySettled and  *)
(* Finishes) stays with TLC.                                               *)
(***************************************************************************)
EXTENDS OrderSaga, Outbox, FulfillmentWorkflow, Sums, SequenceTheorems, TLAPS

OrderRecord == [status : OrderStatus \cup {"NONE"}, linked : BOOLEAN,
                reason : Cancels \cup {"none"}]
SagaRecord == [status : {"NONE", "STARTED", "IN_PROGRESS", "COMPLETED"},
               currentStep : StepNames \cup {"NONE", "COMPLETED"},
               done : SUBSET StepNames]
Awaits == {"idle", "created", "launched", "linked", "reserved",
           "paying", "completed", "finished"}

\* The types under the names used in this module.
LEMMA TypeFacts ==
  ASSUME TypeOK
  PROVE  order \in [Orders -> OrderRecord] /\ saga \in [Orders -> SagaRecord]
         /\ pc \in [Orders -> Awaits]
  BY DEF TypeOK, OrderRecord, SagaRecord, Awaits

\* The stored saga at every await
LEMMA SagaAtFacts ==
  /\ SagaAt("idle") = NoSaga
  /\ SagaAt("created") = NoSaga
  /\ SagaAt("launched") = [status |-> "STARTED", currentStep |-> "RESERVE_INVENTORY",
                           done |-> {"VALIDATE_ORDER"}]
  /\ SagaAt("linked") = SagaAt("launched")
  /\ SagaAt("reserved") = [status |-> "IN_PROGRESS", currentStep |-> "AUTHORIZE_PAYMENT",
                           done |-> {"VALIDATE_ORDER", "RESERVE_INVENTORY"}]
  /\ SagaAt("paying") = SagaAt("reserved")
  /\ SagaAt("completed") = [status |-> "COMPLETED", currentStep |-> "COMPLETED",
                            done |-> StepNames]
  /\ SagaAt("finished") = SagaAt("completed")
  BY DEF SagaAt

\* What SagaAt expects to be stored is a saga.
LEMMA SagaAtType == \A p \in Awaits : SagaAt(p) \in SagaRecord
<1>1. NoSaga \in SagaRecord
  BY DEF NoSaga, SagaRecord, StepNames
<1>2. /\ [status |-> "STARTED", currentStep |-> "RESERVE_INVENTORY",
          done |-> {"VALIDATE_ORDER"}] \in SagaRecord
      /\ [status |-> "IN_PROGRESS", currentStep |-> "AUTHORIZE_PAYMENT",
          done |-> {"VALIDATE_ORDER", "RESERVE_INVENTORY"}] \in SagaRecord
      /\ [status |-> "COMPLETED", currentStep |-> "COMPLETED",
          done |-> StepNames] \in SagaRecord
  BY DEF SagaRecord, StepNames
<1> QED
  BY <1>1, <1>2, SagaAtFacts DEF Awaits

\* The status of the order at every await
LEMMA StatusAtFacts ==
  /\ StatusAt("idle") = "NONE"
  /\ StatusAt("created") = "PENDING_VALIDATION"
  /\ StatusAt("launched") = "PENDING_VALIDATION"
  /\ StatusAt("linked") = "INVENTORY_RESERVING"
  /\ StatusAt("reserved") = "INVENTORY_RESERVING"
  /\ StatusAt("paying") = "PAYMENT_PROCESSING"
  /\ StatusAt("completed") = "PAYMENT_PROCESSING"
  /\ StatusAt("finished") = "DISPATCH_SCHEDULED"
  BY DEF StatusAt

\* Before any call both repositories are empty.
LEMMA SagaInvInit == Init => SagaInv
<1> SUFFICES ASSUME Init PROVE SagaInv
  OBVIOUS
<1>1. NoOrder \in OrderRecord /\ NoSaga \in SagaRecord
  BY DEF NoOrder, NoSaga, OrderRecord, SagaRecord, StepNames
<1>2. /\ order \in [Orders -> OrderRecord] /\ saga \in [Orders -> SagaRecord]
      /\ pc \in [Orders -> Awaits]
  BY <1>1 DEF Init, Awaits
<1>3. TypeOK
  BY <1>2 DEF Init, TypeOK, OrderRecord, SagaRecord, Awaits
<1>4. SagaFollows /\ StatusFollows
  BY SagaAtFacts, StatusAtFacts DEF Init, SagaFollows, StatusFollows, NoOrder
<1>5. LinkFollows /\ CancelFollows /\ NotYetCreated
  BY DEF Init, LinkFollows, CancelFollows, NotYetCreated
<1> QED
  BY <1>3, <1>4, <1>5 DEF SagaInv

\* A step of the saga that stores the saga and leaves the order alone.
LEMMA SagaUpdate ==
  ASSUME SagaInv, NEW o \in Orders, NEW from \in Awaits, NEW to \in Awaits,
         from # "idle", to # "idle", Goto(o, from, to),
         saga' = [saga EXCEPT ![o] = SagaAt(to)],
         StatusAt(to) = StatusAt(from),
         to \in {"idle", "created", "launched"} \/ from \notin {"idle", "created", "launched"},
         UNCHANGED <<order, cancel>>
  PROVE  SagaInv'
<1> USE DEF SagaInv
<1>1. /\ order \in [Orders -> OrderRecord] /\ saga \in [Orders -> SagaRecord]
      /\ pc \in [Orders -> Awaits]
  BY TypeFacts
<1>2. pc[o] = from /\ pc' = [pc EXCEPT ![o] = to]
  BY DEF Goto
<1>3. TypeOK'
  <2>1. SagaAt(to) \in SagaRecord
    BY SagaAtType
  <2>2. saga' \in [Orders -> SagaRecord] /\ pc' \in [Orders -> Awaits]
    BY <1>1, <1>2, <2>1
  <2> QED
    BY <2>2 DEF TypeOK, SagaRecord, Awaits
<1>4. SagaFollows'
  BY <1>1, <1>2 DEF SagaFollows
<1>5. StatusFollows'
  BY <1>1, <1>2 DEF StatusFollows
<1>6. LinkFollows'
  BY <1>1, <1>2 DEF LinkFollows
<1>7. CancelFollows' /\ NotYetCreated'
  BY <1>1, <1>2 DEF CancelFollows, NotYetCreated
<1> QED
  BY <1>3, <1>4, <1>5, <1>6, <1>7

\* A step of createOrder or of the saga that stores the order and leaves the
\* saga alone.
LEMMA OrderUpdate ==
  ASSUME SagaInv, NEW o \in Orders, NEW from \in Awaits, NEW to \in Awaits,
         to # "idle", Goto(o, from, to), NEW new \in OrderRecord,
         order' = [order EXCEPT ![o] = new],
         new.status = StatusAt(to),
         to \notin {"idle", "created", "launched"} => new.linked,
         SagaAt(to) = SagaAt(from),
         UNCHANGED <<saga, cancel>>
  PROVE  SagaInv'
<1> USE DEF SagaInv
<1>1. /\ order \in [Orders -> OrderRecord] /\ saga \in [Orders -> SagaRecord]
      /\ pc \in [Orders -> Awaits]
  BY TypeFacts
<1>2. pc[o] = from /\ pc' = [pc EXCEPT ![o] = to]
  BY DEF Goto
<1>3. TypeOK'
  <2>1. order' \in [Orders -> OrderRecord] /\ pc' \in [Orders -> Awaits]
    BY <1>1, <1>2
  <2> QED
    BY <2>1 DEF TypeOK, OrderRecord, Awaits
<1>4. SagaFollows'
  BY <1>1, <1>2 DEF SagaFollows
<1>5. StatusFollows'
  BY <1>1, <1>2 DEF StatusFollows
<1>6. LinkFollows'
  BY <1>1, <1>2 DEF LinkFollows
<1>7. CancelFollows' /\ NotYetCreated'
  BY <1>1, <1>2 DEF CancelFollows, NotYetCreated
<1> QED
  BY <1>3, <1>4, <1>5, <1>6, <1>7

\* OrderRepository.update merges: what it does not name stays.
LEMMA MergeFacts ==
  ASSUME TypeOK, NEW o \in Orders, NEW status \in OrderStatus
  PROVE  LET new == [order[o] EXCEPT !.status = status]
         IN  /\ new \in OrderRecord
             /\ new.status = status
             /\ new.linked = order[o].linked
             /\ new.reason = order[o].reason
<1>1. order[o] \in OrderRecord
  BY TypeFacts
<1> QED
  BY <1>1 DEF OrderRecord

\* One case for each step of createOrder, of the saga and of cancelOrder.
LEMMA SagaInvNext == SagaInv /\ [Next]_vars => SagaInv'
<1> SUFFICES ASSUME SagaInv, [Next]_vars PROVE SagaInv'
  OBVIOUS
<1>t. TypeOK /\ SagaFollows
  BY DEF SagaInv
<1>1. ASSUME NEW o \in Orders, createOrder(o) PROVE SagaInv'
  <2> DEFINE new == [status |-> "PENDING_VALIDATION", linked |-> FALSE, reason |-> "none"]
  <2>1. new \in OrderRecord /\ new.status = "PENDING_VALIDATION"
    BY DEF OrderRecord, OrderStatus
  <2>2. /\ Goto(o, "idle", "created")
        /\ order' = [order EXCEPT ![o] = new]
        /\ UNCHANGED <<saga, cancel>>
    BY <1>1 DEF createOrder
  <2> HIDE DEF new
  <2> QED
    BY <2>1, <2>2, OrderUpdate, SagaAtFacts, StatusAtFacts DEF Awaits
<1>2. ASSUME NEW o \in Orders, startOrderSaga(o) PROVE SagaInv'
  <2>1. /\ Goto(o, "created", "launched")
        /\ saga' = [saga EXCEPT ![o] = SagaAt("launched")]
        /\ UNCHANGED <<order, cancel>>
    BY <1>2, SagaAtFacts DEF startOrderSaga
  <2> QED
    BY <2>1, SagaUpdate, StatusAtFacts DEF Awaits
<1>3. ASSUME NEW o \in Orders, LinkSaga(o) PROVE SagaInv'
  <2> DEFINE new == [order[o] EXCEPT !.linked = TRUE, !.status = "INVENTORY_RESERVING"]
  <2>1. order[o] \in OrderRecord
    BY <1>t, TypeFacts
  <2>2. new \in OrderRecord /\ new.status = "INVENTORY_RESERVING" /\ new.linked
    BY <2>1 DEF OrderRecord, OrderStatus
  <2>3. /\ Goto(o, "launched", "linked")
        /\ order' = [order EXCEPT ![o] = new]
        /\ UNCHANGED <<saga, cancel>>
    BY <1>3 DEF LinkSaga
  <2> HIDE DEF new
  <2> QED
    BY <2>2, <2>3, OrderUpdate, SagaAtFacts, StatusAtFacts DEF Awaits
<1>4. ASSUME NEW o \in Orders, executeStepInventory(o) PROVE SagaInv'
  <2>1. saga[o] = SagaAt("linked")
    BY <1>4, <1>t DEF executeStepInventory, Goto, SagaFollows
  <2>2. saga[o].done \cup {"RESERVE_INVENTORY"} = {"VALIDATE_ORDER", "RESERVE_INVENTORY"}
    BY <2>1, SagaAtFacts
  <2>3. /\ Goto(o, "linked", "reserved")
        /\ saga' = [saga EXCEPT ![o] = SagaAt("reserved")]
        /\ UNCHANGED <<order, cancel>>
    BY <1>4, <2>2, SagaAtFacts DEF executeStepInventory
  <2> QED
    BY <2>3, SagaUpdate, StatusAtFacts DEF Awaits
<1>5. ASSUME NEW o \in Orders, OrderPaymentProcessing(o) PROVE SagaInv'
  <2> DEFINE new == [order[o] EXCEPT !.status = "PAYMENT_PROCESSING"]
  <2>1. /\ Goto(o, "reserved", "paying")
        /\ order' = [order EXCEPT ![o] = new]
        /\ UNCHANGED <<saga, cancel>>
    BY <1>5 DEF OrderPaymentProcessing, SetStatus
  <2>2. new \in OrderRecord /\ new.status = "PAYMENT_PROCESSING" /\ new.linked = order[o].linked
    BY <1>t, MergeFacts DEF OrderStatus
  <2>3. order[o].linked
    BY <2>1 DEF Goto, SagaInv, LinkFollows
  <2> HIDE DEF new
  <2> QED
    BY <2>1, <2>2, <2>3, OrderUpdate, SagaAtFacts, StatusAtFacts DEF Awaits
<1>6. ASSUME NEW o \in Orders, executeStepPayment(o) PROVE SagaInv'
  <2>1. saga[o] = SagaAt("paying")
    BY <1>6, <1>t DEF executeStepPayment, Goto, SagaFollows
  <2>2. saga[o].done \cup {"AUTHORIZE_PAYMENT", "SCHEDULE_DISPATCH"} = StepNames
    BY <2>1, SagaAtFacts DEF StepNames
  <2>3. /\ Goto(o, "paying", "completed")
        /\ saga' = [saga EXCEPT ![o] = SagaAt("completed")]
        /\ UNCHANGED <<order, cancel>>
    BY <1>6, <2>2, SagaAtFacts DEF executeStepPayment, CompleteSaga
  <2> QED
    BY <2>3, SagaUpdate, StatusAtFacts DEF Awaits
<1>7. ASSUME NEW o \in Orders, OrderDispatchScheduled(o) PROVE SagaInv'
  <2> DEFINE new == [order[o] EXCEPT !.status = "DISPATCH_SCHEDULED"]
  <2>1. /\ Goto(o, "completed", "finished")
        /\ order' = [order EXCEPT ![o] = new]
        /\ UNCHANGED <<saga, cancel>>
    BY <1>7 DEF OrderDispatchScheduled, SetStatus
  <2>2. new \in OrderRecord /\ new.status = "DISPATCH_SCHEDULED" /\ new.linked = order[o].linked
    BY <1>t, MergeFacts DEF OrderStatus
  <2>3. order[o].linked
    BY <2>1 DEF Goto, SagaInv, LinkFollows
  <2> HIDE DEF new
  <2> QED
    BY <2>1, <2>2, <2>3, OrderUpdate, SagaAtFacts, StatusAtFacts DEF Awaits
<1>8. ASSUME NEW c \in Cancels, NEW o \in Orders, cancelOrder(c, o) PROVE SagaInv'
  <2>1. TypeOK'
    BY <1>8, <1>t DEF cancelOrder, TypeOK
  <2>2. SagaFollows' /\ StatusFollows' /\ LinkFollows' /\ NotYetCreated'
    BY <1>8 DEF cancelOrder, SagaInv, SagaFollows, StatusFollows, LinkFollows, NotYetCreated
  <2>3. order[o].status # "NONE" => pc[o] # "idle"
    BY StatusAtFacts DEF SagaInv, StatusFollows
  <2>4. CancelFollows'
    BY <1>8, <1>t, <2>3 DEF cancelOrder, SagaInv, CancelFollows, TypeOK
  <2> QED
    BY <2>1, <2>2, <2>4 DEF SagaInv
<1>9. ASSUME NEW c \in Cancels, FinishCancel(c) PROVE SagaInv'
  <2> DEFINE o == cancel[c].order
             refused == cancel[c].seen \in {"NONE", "DELIVERED", "CANCELLED"}
             new == [order[o] EXCEPT !.status = "CANCELLED", !.reason = c]
  <2>1. /\ cancel' = [cancel EXCEPT ![c].pc = IF refused THEN "refused" ELSE "cancelled"]
        /\ order' = IF refused THEN order ELSE [order EXCEPT ![o] = new]
        /\ UNCHANGED <<saga, pc>>
        /\ cancel[c].pc = "found"
    BY <1>9 DEF FinishCancel, UpdateCancelled
  <2>2. o \in Orders /\ (~refused => pc[o] # "idle")
    BY <2>1 DEF SagaInv, CancelFollows
  <2>3. order[o] \in OrderRecord
    BY <1>t, <2>2, TypeFacts
  <2>4. /\ new \in OrderRecord
        /\ new.status = "CANCELLED"
        /\ new.linked = order[o].linked
        /\ new.reason = c
    BY <2>3 DEF OrderRecord, OrderStatus
  <2>5. c # "none"
    BY SagaAssumption
  <2>6. cancel' \in [Cancels -> [pc : {"idle", "found", "refused", "cancelled"},
                                order : Orders \cup {"none"},
                                seen : OrderStatus \cup {"NONE"}]]
    <3> DEFINE Call == [pc : {"idle", "found", "refused", "cancelled"},
                        order : Orders \cup {"none"}, seen : OrderStatus \cup {"NONE"}]
               end == IF refused THEN "refused" ELSE "cancelled"
    <3>1. cancel \in [Cancels -> Call]
      BY <1>t DEF TypeOK
    <3>2. cancel[c] \in Call /\ end \in {"refused", "cancelled"}
      BY <3>1
    <3>3. [cancel[c] EXCEPT !.pc = end] \in Call
      BY <3>2
    <3> HIDE DEF Call, end
    <3>4. cancel' = [cancel EXCEPT ![c] = [cancel[c] EXCEPT !.pc = end]]
      BY <2>1 DEF end
    <3>5. cancel' \in [Cancels -> Call]
      BY <3>1, <3>3, <3>4
    <3> QED
      BY <3>5 DEF Call
  <2>7. CancelFollows'
    BY <1>t, <2>1 DEF SagaInv, CancelFollows, TypeOK
  <2> HIDE DEF o, refused, new
  <2>8. order' \in [Orders -> OrderRecord]
    BY <1>t, <2>1, <2>4, TypeFacts
  <2>9. TypeOK'
    BY <1>t, <2>1, <2>6, <2>8 DEF TypeOK, OrderRecord
  <2>10. SagaFollows'
    BY <1>t, <2>1 DEF SagaFollows
  <2>11. \A p \in Orders :
            \/ order'[p] = order[p]
            \/ p = o /\ ~refused /\ order'[p] = new
    BY <1>t, <2>1, <2>2, TypeFacts
  <2>12. StatusFollows'
    BY <2>1, <2>2, <2>4, <2>5, <2>11 DEF SagaInv, StatusFollows
  <2>13. LinkFollows' /\ NotYetCreated'
    BY <2>1, <2>2, <2>4, <2>11 DEF SagaInv, LinkFollows, NotYetCreated
  <2> QED
    BY <2>7, <2>9, <2>10, <2>12, <2>13 DEF SagaInv
<1>10. CASE UNCHANGED vars
  <2>1. TypeOK'
    BY <1>10, <1>t DEF vars, TypeOK
  <2>2. SagaFollows' /\ StatusFollows' /\ LinkFollows' /\ CancelFollows' /\ NotYetCreated'
    BY <1>10 DEF vars, SagaInv, SagaFollows, StatusFollows, LinkFollows, CancelFollows,
                 NotYetCreated
  <2> QED
    BY <2>1, <2>2 DEF SagaInv
<1> QED
  BY <1>1, <1>2, <1>3, <1>4, <1>5, <1>6, <1>7, <1>8, <1>9, <1>10 DEF Next, SagaStep

\* Both repositories follow the saga's awaits, whatever cancelOrder does.
THEOREM SagaInvCorrect == Spec => []SagaInv
  BY SagaInvInit, SagaInvNext, PTL DEF Spec

\* The status of an order never claims more than its saga has done.
THEOREM StatusBackedCorrect == Spec => []StatusBacked
<1>1. SagaInv => StatusBacked
  <2> SUFFICES ASSUME SagaInv, NEW o \in Orders
               PROVE  /\ order[o].status = "INVENTORY_RESERVING" =>
                            saga[o] # NoSaga /\ order[o].linked
                      /\ order[o].status = "PAYMENT_PROCESSING" =>
                            "RESERVE_INVENTORY" \in saga[o].done /\ saga[o].status # "STARTED"
                      /\ order[o].status = "DISPATCH_SCHEDULED" =>
                            saga[o].status = "COMPLETED" /\ saga[o].done = StepNames
    BY DEF StatusBacked
  <2>1. pc[o] \in Awaits
    BY TypeFacts DEF SagaInv
  <2>2. saga[o] = SagaAt(pc[o])
    BY DEF SagaInv, SagaFollows
  <2>3. order[o].status # "CANCELLED" => order[o].status = StatusAt(pc[o])
    BY DEF SagaInv, StatusFollows
  <2>4. ASSUME order[o].status = "INVENTORY_RESERVING"
        PROVE  saga[o] # NoSaga /\ order[o].linked
    <3>1. pc[o] \in {"linked", "reserved"}
      BY <2>1, <2>3, <2>4, StatusAtFacts DEF Awaits
    <3>2. saga[o].status \in {"STARTED", "IN_PROGRESS"}
      BY <2>2, <3>1, SagaAtFacts
    <3>3. order[o].linked
      BY <3>1 DEF SagaInv, LinkFollows
    <3> QED
      BY <3>2, <3>3 DEF NoSaga
  <2>5. ASSUME order[o].status = "PAYMENT_PROCESSING"
        PROVE  "RESERVE_INVENTORY" \in saga[o].done /\ saga[o].status # "STARTED"
    <3>1. pc[o] \in {"paying", "completed"}
      BY <2>1, <2>3, <2>5, StatusAtFacts DEF Awaits
    <3> QED
      BY <2>2, <3>1, SagaAtFacts DEF StepNames
  <2>6. ASSUME order[o].status = "DISPATCH_SCHEDULED"
        PROVE  saga[o].status = "COMPLETED" /\ saga[o].done = StepNames
    <3>1. pc[o] = "finished"
      BY <2>1, <2>3, <2>6, StatusAtFacts DEF Awaits
    <3> QED
      BY <2>2, <3>1, SagaAtFacts
  <2> QED
    BY <2>4, <2>5, <2>6
<1> QED
  BY <1>1, SagaInvCorrect, PTL

\* The saga's updates and cancelOrder's updates never undo each other's
\* fields: both merge onto the stored order.
THEOREM NoLostUpdateCorrect == Spec => NoLostUpdate
<1> DEFINE Kept == \A o \in Orders :
        /\ order[o].linked => order'[o].linked
        /\ order[o].reason # "none" => order'[o].reason # "none"
<1>1. SagaInv /\ [Next]_vars => [Kept]_vars
  <2> SUFFICES ASSUME SagaInv, Next PROVE Kept
    BY DEF vars
  <2>t. TypeOK /\ order \in [Orders -> OrderRecord]
    BY TypeFacts DEF SagaInv
  <2>0. ASSUME NEW o \in Orders, NEW new \in OrderRecord, order' = [order EXCEPT ![o] = new],
               order[o].linked => new.linked,
               order[o].reason # "none" => new.reason # "none"
        PROVE  Kept
    BY <2>0, <2>t
  <2>1. ASSUME NEW o \in Orders, createOrder(o) PROVE Kept
    <3> DEFINE new == [status |-> "PENDING_VALIDATION", linked |-> FALSE, reason |-> "none"]
    <3>1. new \in OrderRecord
      BY DEF OrderRecord, OrderStatus
    <3>2. ~order[o].linked /\ order[o].reason = "none"
      BY <2>1 DEF createOrder, Goto, SagaInv, NotYetCreated, NoOrder
    <3>3. order' = [order EXCEPT ![o] = new]
      BY <2>1 DEF createOrder
    <3> HIDE DEF new
    <3> QED
      BY <2>0, <3>1, <3>2, <3>3
  <2>2. ASSUME NEW o \in Orders, LinkSaga(o) PROVE Kept
    <3> DEFINE new == [order[o] EXCEPT !.linked = TRUE, !.status = "INVENTORY_RESERVING"]
    <3>1. new \in OrderRecord /\ new.linked /\ new.reason = order[o].reason
      BY <2>t DEF OrderRecord, OrderStatus
    <3>2. order' = [order EXCEPT ![o] = new]
      BY <2>2 DEF LinkSaga
    <3> HIDE DEF new
    <3> QED
      BY <2>0, <3>1, <3>2
  <2>3. ASSUME NEW o \in Orders, NEW status \in OrderStatus, order' = SetStatus(o, status)
        PROVE  Kept
    <3> DEFINE new == [order[o] EXCEPT !.status = status]
    <3>1. new \in OrderRecord /\ new.linked = order[o].linked /\ new.reason = order[o].reason
      BY <2>t, MergeFacts
    <3>2. order' = [order EXCEPT ![o] = new]
      BY <2>3 DEF SetStatus
    <3> HIDE DEF new
    <3> QED
      BY <2>0, <3>1, <3>2
  <2>4. ASSUME NEW c \in Cancels, FinishCancel(c) PROVE Kept
    <3> DEFINE o == cancel[c].order
               new == [order[o] EXCEPT !.status = "CANCELLED", !.reason = c]
    <3>1. o \in Orders
      BY <2>4 DEF FinishCancel, SagaInv, CancelFollows
    <3>2. new \in OrderRecord /\ new.linked = order[o].linked /\ new.reason = c
      BY <2>t, <3>1 DEF OrderRecord, OrderStatus
    <3>3. UNCHANGED order \/ order' = [order EXCEPT ![o] = new]
      BY <2>4 DEF FinishCancel, UpdateCancelled
    <3>4. c # "none"
      BY SagaAssumption
    <3> HIDE DEF new, o
    <3> QED
      BY <2>0, <3>1, <3>2, <3>3, <3>4
  <2>5. CASE UNCHANGED order
    BY <2>5
  <2>6. "PAYMENT_PROCESSING" \in OrderStatus /\ "DISPATCH_SCHEDULED" \in OrderStatus
    BY DEF OrderStatus
  <2> QED
    BY <2>1, <2>2, <2>3, <2>4, <2>5, <2>6
    DEF Next, SagaStep, startOrderSaga, executeStepInventory, OrderPaymentProcessing,
        executeStepPayment, OrderDispatchScheduled, cancelOrder
<1> QED
  BY <1>1, SagaInvCorrect, PTL DEF Spec, NoLostUpdate
----------------------------------------------------------------------------
(* The batch of a flush                                                    *)

\* No element twice
Distinct(s) == \A i, j \in 1 .. Len(s) : s[i] = s[j] => i = j

\* g filters the first n messages of the queue.
Filters(g, n) ==
    g = [i \in 0 .. n |->
            IF i = 0 THEN << >>
            ELSE IF IsPending(outboxQueue[i]) THEN Append(g[i - 1], outboxQueue[i])
                 ELSE g[i - 1]]

\* A filter of any number of messages exists: it is computed one by one.
LEMMA FilterExists == \A n \in Nat : \E g : Filters(g, n)
<1> DEFINE P == {n \in Nat : \E g : Filters(g, n)}
<1>1. 0 \in P
  <2> DEFINE g == [i \in 0 .. 0 |-> << >>]
  <2>1. g = [i \in 0 .. 0 |->
                IF i = 0 THEN << >>
                ELSE IF IsPending(outboxQueue[i]) THEN Append(g[i - 1], outboxQueue[i])
                     ELSE g[i - 1]]
    OBVIOUS
  <2> HIDE DEF g
  <2>2. Filters(g, 0)
    BY <2>1, Zenon DEF Filters
  <2> QED
    BY <2>2
<1>2. ASSUME NEW n \in Nat, n \in P PROVE n + 1 \in P
  <2>1. PICK g : Filters(g, n)
    BY <1>2
  <2> DEFINE next == IF IsPending(outboxQueue[n + 1]) THEN Append(g[n], outboxQueue[n + 1])
                     ELSE g[n]
             k == [i \in 0 .. n + 1 |-> IF i = n + 1 THEN next ELSE g[i]]
             e == [i \in 0 .. n + 1 |->
                     IF i = 0 THEN << >>
                     ELSE IF IsPending(outboxQueue[i]) THEN Append(k[i - 1], outboxQueue[i])
                          ELSE k[i - 1]]
  <2>2. \A i \in 0 .. n : g[i] = IF i = 0 THEN << >>
            ELSE IF IsPending(outboxQueue[i]) THEN Append(g[i - 1], outboxQueue[i])
                 ELSE g[i - 1]
    BY <2>1 DEF Filters
  <2>3. ASSUME NEW i \in 0 .. n + 1 PROVE k[i] = e[i]
    <3>1. CASE i = n + 1
      <4>1. i # 0 /\ i - 1 = n /\ n \in 0 .. n + 1 /\ n # n + 1
        BY <3>1
      <4>2. k[i - 1] = g[n]
        BY <4>1
      <4>3. k[i] = next
        BY <3>1
      <4>4. e[i] = IF IsPending(outboxQueue[i]) THEN Append(k[i - 1], outboxQueue[i])
                   ELSE k[i - 1]
        BY <4>1
      <4> QED
        BY <3>1, <4>2, <4>3, <4>4
    <3>2. CASE i \in 0 .. n
      <4>1. k[i] = g[i]
        BY <3>2
      <4>2. i # 0 => k[i - 1] = g[i - 1]
        BY <3>2
      <4> QED
        BY <3>2, <4>1, <4>2, <2>2
    <3> QED
      BY <3>1, <3>2
  <2>4. k = e
    BY <2>3
  <2>5. Filters(k, n + 1)
    BY <2>4, Zenon DEF Filters
  <2> QED
    BY <2>5
<1> HIDE DEF P
<1>3. \A n \in Nat : n \in P
  BY <1>1, <1>2, SetInduction
<1> QED
  BY <1>3 DEF P

\* The messages a flush may take: as queued, all pending, none twice
LEMMA PendingFacts ==
  ASSUME outboxQueue \in Seq(Messages), Distinct(outboxQueue)
  PROVE  /\ Pending \in Seq(Messages) /\ Distinct(Pending)
         /\ \A i \in 1 .. Len(Pending) : IsPending(Pending[i])
<1> DEFINE N == Len(outboxQueue)
           g == CHOOSE g : Filters(g, N)
<1>1. Pending = g[N]
  BY Zenon DEF Pending, Filters
<1>2. N \in Nat /\ \A i \in 1 .. N : outboxQueue[i] \in Messages
  BY LenProperties, ElementOfSeq
<1>3. Filters(g, N)
  BY <1>2, FilterExists, Zenon
<1> HIDE DEF g
<1>3a. \A i \in 0 .. N :
         g[i] = IF i = 0 THEN << >>
                ELSE IF IsPending(outboxQueue[i]) THEN Append(g[i - 1], outboxQueue[i])
                     ELSE g[i - 1]
  <2> DEFINE e(i) == IF i = 0 THEN << >>
                     ELSE IF IsPending(outboxQueue[i]) THEN Append(g[i - 1], outboxQueue[i])
                          ELSE g[i - 1]
  <2>1. g = [i \in 0 .. N |-> e(i)]
    BY <1>3, Zenon DEF Filters
  <2> HIDE DEF e
  <2>2. \A i \in 0 .. N : g[i] = e(i)
    BY <2>1
  <2> QED
    BY <2>2, Zenon DEF e
<1>4. g[0] = << >> /\ \A i \in 1 .. N :
         g[i] = IF IsPending(outboxQueue[i]) THEN Append(g[i - 1], outboxQueue[i])
                ELSE g[i - 1]
  BY <1>2, <1>3a
<1> DEFINE Good(n) ==
             /\ g[n] \in Seq(Messages) /\ Distinct(g[n])
             /\ \A i \in 1 .. Len(g[n]) :
                  IsPending(g[n][i]) /\ \E j \in 1 .. n : g[n][i] = outboxQueue[j]
           P == {n \in Nat : n <= N => Good(n)}
<1>5. 0 \in P
  <2>1. Len(g[0]) = 0 /\ g[0] \in Seq(Messages) /\ 1 .. Len(g[0]) = {}
    BY <1>4
  <2> QED
    BY <2>1 DEF Distinct
<1>6. ASSUME NEW n \in Nat, n \in P PROVE n + 1 \in P
  <2> SUFFICES ASSUME n + 1 <= N PROVE Good(n + 1)
    OBVIOUS
  <2>1. Good(n) /\ n + 1 \in 1 .. N
    BY <1>2, <1>6
  <2> DEFINE x == outboxQueue[n + 1]
             s == g[n]
             t == g[n + 1]
  <2>2. x \in Messages /\ s \in Seq(Messages) /\ Len(s) \in Nat
    BY <2>1, <1>2
  <2>3. t = IF IsPending(x) THEN Append(s, x) ELSE s
    <3>1. (n + 1) - 1 = n
      OBVIOUS
    <3> QED
      BY <3>1, <2>1, <1>4
  <2>4. /\ Distinct(s)
        /\ \A i \in 1 .. Len(s) :
             IsPending(s[i]) /\ \E j \in 1 .. n : s[i] = outboxQueue[j]
    BY <2>1
  <2>5. \A i \in 1 .. Len(s) : \E j \in 1 .. n + 1 : s[i] = outboxQueue[j]
    BY <2>4
  <2>6. \A i \in 1 .. Len(s) : s[i] # x
    BY <2>1, <2>4, <1>2 DEF Distinct
  <2> HIDE DEF s, t, x
  <2>7. CASE ~IsPending(x)
    <3>1. t = s
      BY <2>3, <2>7
    <3>2. /\ t \in Seq(Messages) /\ Distinct(t)
          /\ \A i \in 1 .. Len(t) :
               IsPending(t[i]) /\ \E j \in 1 .. n + 1 : t[i] = outboxQueue[j]
      BY <3>1, <2>2, <2>4, <2>5
    <3> QED
      BY <3>2 DEF t
  <2>8. CASE IsPending(x)
    <3>1. /\ t \in Seq(Messages) /\ Len(t) = Len(s) + 1 /\ t[Len(t)] = x
          /\ \A i \in 1 .. Len(s) : t[i] = s[i]
      BY <2>3, <2>8, <2>2
    <3>2. \A i \in 1 .. Len(t) : i \in 1 .. Len(s) \/ i = Len(t)
      BY <3>1, <2>2
    <3>3. Distinct(t)
      BY SMTT(30), <3>1, <3>2, <2>2, <2>4, <2>6 DEF Distinct
    <3>4. ASSUME NEW i \in 1 .. Len(t)
          PROVE  IsPending(t[i]) /\ \E j \in 1 .. n + 1 : t[i] = outboxQueue[j]
      <4>1. CASE i \in 1 .. Len(s)
        BY <4>1, <3>1, <2>4, <2>5
      <4>2. CASE i = Len(t)
        <5>1. t[i] = x /\ n + 1 \in 1 .. n + 1
          BY <4>2, <3>1
        <5> QED
          BY <5>1, <2>8 DEF x
      <4> QED
        BY <4>1, <4>2, <3>2
    <3> QED
      BY <3>1, <3>3, <3>4 DEF t
  <2> QED
    BY <2>7, <2>8
<1>7. \A n \in Nat : n \in P
  <2> HIDE DEF P
  <2> QED
    BY <1>5, <1>6, SetInduction
<1>8. Good(N)
  BY <1>2, <1>7
<1> QED
  BY <1>1, <1>8

\* A flush takes a part of these messages, from the first on.
LEMMA BatchFacts ==
  ASSUME outboxQueue \in Seq(Messages), Distinct(outboxQueue), NEW b \in BatchSizes
  PROVE  /\ PendingBatch(b) \in Seq(Messages) /\ Distinct(PendingBatch(b))
         /\ \A i \in 1 .. Len(PendingBatch(b)) : IsPending(PendingBatch(b)[i])
<1> DEFINE s == Pending
           k == Min({Len(s), b})
<1>1. /\ s \in Seq(Messages) /\ Distinct(s) /\ Len(s) \in Nat
      /\ \A i \in 1 .. Len(s) : IsPending(s[i])
  BY PendingFacts
<1>2. b \in Nat
  BY OutboxAssumption
<1>3. k \in Nat /\ k <= Len(s)
  <2>1. \E x \in {Len(s), b} : \A y \in {Len(s), b} : x <= y
    BY <1>1, <1>2
  <2>2. k \in {Len(s), b} /\ \A y \in {Len(s), b} : k <= y
    BY <2>1, Zenon DEF Min
  <2> QED
    BY <2>2, <1>1, <1>2
<1> HIDE DEF s, k
<1>4. \A i \in 1 .. k : s[i] \in Messages
  BY <1>1, <1>3, ElementOfSeq
<1>5. /\ SubSeq(s, 1, k) \in Seq(Messages)
      /\ Len(SubSeq(s, 1, k)) = k
      /\ \A i \in 1 .. k : SubSeq(s, 1, k)[i] = s[i]
  BY <1>1, <1>3, <1>4, SubSeqProperties
<1>6. PendingBatch(b) = SubSeq(s, 1, k)
  BY Zenon DEF PendingBatch, s, k
<1> QED
  BY <1>1, <1>3, <1>5, <1>6 DEF Distinct

----------------------------------------------------------------------------
(* The outbox                                                              *)

MessageRecord == [status : {"NONE", "PENDING", "PUBLISHED", "DEAD_LETTER"}, retryCount : Nat]
FlushRecord == [batch : Seq(Messages), h : Nat]

OutboxTypeOK ==
  /\ outboxQueue \in Seq(Messages)
  /\ message \in [Messages -> MessageRecord]
  /\ subscribers \in Seq(Handlers)
  /\ received \in [Messages -> [Handlers -> Nat]]
  /\ flush \in [Flushers -> FlushRecord]

\* A flush in state p has called handler h for the message m it is at.
Given(p, m, h) ==
  p.batch # << >> /\ Head(p.batch) = m /\ \E i \in 1 .. p.h : subscribers[i] = h

\* A flush in state p may still call handler h for message m.
Owes(p, m, h) == (\E i \in 1 .. Len(p.batch) : p.batch[i] = m) /\ ~Given(p, m, h)

Givers(m, h) == {f \in Flushers : Given(flush[f], m, h)}
Owers(m, h) == {f \in Flushers : Owes(flush[f], m, h)}

\* A flush in state p has a message no more than once, and the handlers before
\* the one it awaits were given the message it is at.
FlushOK(p) ==
  p.batch # << >> =>
    /\ Distinct(p.batch)
    /\ p.h \in 1 .. Len(subscribers)
    /\ \A i \in 1 .. p.h : received[Head(p.batch)][subscribers[i]] > 0

\* While a message is not settled, every time it was given to a handler is
\* accounted for by a failure or by a flush that is at it; after that, the
\* flushes that still have it in their batch give it once more at most.
Accounted(m, h) ==
  IF message[m].status \in Settled
  THEN received[m][h] + Cardinality(Owers(m, h)) <= 4 + Cardinality(Flushers)
  ELSE received[m][h] <= message[m].retryCount + Cardinality(Givers(m, h))

Tried(m) ==
  /\ message[m].status \in {"NONE", "PENDING"} => message[m].retryCount < 5
  /\ message[m].status = "DEAD_LETTER" => message[m].retryCount >= 5

OutboxInv ==
  /\ OutboxTypeOK
  /\ Distinct(outboxQueue) /\ Distinct(subscribers)
  /\ \A i \in 1 .. Len(outboxQueue) : message[outboxQueue[i]].status # "NONE"
  /\ \A f \in Flushers : FlushOK(flush[f])
  /\ \A m \in Messages : Tried(m)
  /\ \A m \in Messages, h \in Handlers : Accounted(m, h)

One(x) == IF x THEN 1 ELSE 0

\* Given and Owes, counted
Gives(p, m, h) == IF Given(p, m, h) THEN 1 ELSE 0
Due(p, m, h) == IF Owes(p, m, h) THEN 1 ELSE 0

\* Both sets are finite, and no flush is in both.
LEMMA GiverFacts ==
  ASSUME NEW m, NEW h
  PROVE  /\ IsFiniteSet(Givers(m, h)) /\ Cardinality(Givers(m, h)) \in Nat
         /\ IsFiniteSet(Owers(m, h)) /\ Cardinality(Owers(m, h)) \in Nat
         /\ Cardinality(Flushers) \in Nat
         /\ Cardinality(Givers(m, h)) + Cardinality(Owers(m, h)) <= Cardinality(Flushers)
<1> DEFINE S == Givers(m, h)
           T == Owers(m, h)
           R == Flushers \ S
<1>1. IsFiniteSet(Flushers)
  BY OutboxAssumption
<1>2. S \in SUBSET Flushers /\ T \in SUBSET R /\ R \in SUBSET Flushers
  BY DEF Givers, Owers, Owes
<1>3. Flushers \ R = S /\ S \cap R = {} /\ S \cup R = Flushers
  BY <1>2
<1> HIDE DEF S, T, R
<1>4. IsFiniteSet(S) /\ IsFiniteSet(R)
  BY <1>1, <1>2, FS_Subset
<1>5. IsFiniteSet(T) /\ Cardinality(T) <= Cardinality(R)
  BY <1>2, <1>4, FS_Subset
<1>6. /\ Cardinality(S) \in Nat /\ Cardinality(T) \in Nat /\ Cardinality(R) \in Nat
      /\ Cardinality(Flushers) \in Nat
  BY <1>1, <1>4, <1>5, FS_CardinalityType
<1>7. Cardinality(Flushers) = Cardinality(S) + Cardinality(R)
  <2>1. Cardinality(S \cup R) = Cardinality(S) + Cardinality(R) - Cardinality(S \cap R)
    BY <1>4, FS_Union
  <2>2. Cardinality(S \cap R) = 0
    BY <1>3, FS_EmptySet, Zenon
  <2>3. Cardinality(S \cup R) = Cardinality(Flushers)
    BY <1>3, Zenon
  <2> QED
    BY <2>1, <2>2, <2>3, <1>6
<1>8. Cardinality(S) + Cardinality(T) <= Cardinality(Flushers)
  BY <1>5, <1>6, <1>7
<1> QED
  BY <1>4, <1>5, <1>6, <1>8 DEF S, T

\* The cardinality of a set of which one member may come or go
LEMMA OneMoves ==
  ASSUME NEW S, IsFiniteSet(S), NEW f, NEW T, NEW x \in BOOLEAN,
         T = IF x THEN S \cup {f} ELSE S \ {f}
  PROVE  Cardinality(T) = Cardinality(S) + One(x) - One(f \in S)
<1>1. Cardinality(S) \in Nat
  BY FS_CardinalityType
<1>2. Cardinality(S \cup {f}) = IF f \in S THEN Cardinality(S) ELSE Cardinality(S) + 1
  BY FS_AddElement
<1>3. Cardinality(S \ {f}) = IF f \in S THEN Cardinality(S) - 1 ELSE Cardinality(S)
  BY FS_RemoveElement
<1>4. CASE x
  <2>1. T = S \cup {f} /\ One(x) = 1
    BY <1>4 DEF One
  <2>2. Cardinality(T) = IF f \in S THEN Cardinality(S) ELSE Cardinality(S) + 1
    BY <2>1, <1>2
  <2> QED
    BY <2>1, <2>2, <1>1 DEF One
<1>5. CASE ~x
  <2>1. T = S \ {f} /\ One(x) = 0
    BY <1>5 DEF One
  <2>2. Cardinality(T) = IF f \in S THEN Cardinality(S) - 1 ELSE Cardinality(S)
    BY <2>1, <1>3
  <2> QED
    BY <2>1, <2>2, <1>1 DEF One
<1> QED
  BY <1>4, <1>5

\* The two sets when flush f moves to state q
GiversAfter(f, q, m, h) ==
  IF Given(q, m, h) THEN Givers(m, h) \cup {f} ELSE Givers(m, h) \ {f}
OwersAfter(f, q, m, h) ==
  IF Owes(q, m, h) THEN Owers(m, h) \cup {f} ELSE Owers(m, h) \ {f}

\* The move changes their sizes by one at most.
LEMMA FlushCounts ==
  ASSUME NEW f \in Flushers, NEW q, NEW m, NEW h
  PROVE  /\ Cardinality(GiversAfter(f, q, m, h)) = Cardinality(Givers(m, h))
                + Gives(q, m, h) - Gives(flush[f], m, h)
         /\ Cardinality(OwersAfter(f, q, m, h)) = Cardinality(Owers(m, h))
                + Due(q, m, h) - Due(flush[f], m, h)
<1>1. IsFiniteSet(Givers(m, h)) /\ IsFiniteSet(Owers(m, h))
  BY GiverFacts
<1>2. (f \in Givers(m, h) <=> Given(flush[f], m, h)) /\ (f \in Owers(m, h) <=> Owes(flush[f], m, h))
  BY DEF Givers, Owers
<1>3. Given(q, m, h) \in BOOLEAN /\ Owes(q, m, h) \in BOOLEAN
  BY DEF Given, Owes
<1>4. Cardinality(GiversAfter(f, q, m, h)) = Cardinality(Givers(m, h))
                + One(Given(q, m, h)) - One(f \in Givers(m, h))
  BY <1>1, <1>3, OneMoves DEF GiversAfter
<1>5. Cardinality(OwersAfter(f, q, m, h)) = Cardinality(Owers(m, h))
                + One(Owes(q, m, h)) - One(f \in Owers(m, h))
  BY <1>1, <1>3, OneMoves DEF OwersAfter
<1> QED
  BY <1>2, <1>4, <1>5 DEF One, Gives, Due

\* What a step in which a flush goes from state p to state q and gives the
\* pairs of D, a message and a handler each, may do for m and h.
Move(p, q, D, m, h) ==
  /\ <<m, h>> \in D =>
       /\ Given(q, m, h) /\ ~Given(p, m, h) /\ message'[m] = message[m]
       /\ message[m].status \in Settled => Owes(p, m, h)
  /\ Owes(q, m, h) =>
       \/ Owes(p, m, h)
       \/ message[m].status \notin Settled /\ message'[m].status \notin Settled
  /\ \/ /\ message'[m] = message[m]
        /\ Given(p, m, h) => Given(q, m, h) \/ message[m].status \in Settled
     \/ message'[m].status = "PUBLISHED"
     \/ message'[m] = CountFailure(m)

\* Such a step keeps the account.
LEMMA AccountKept ==
  ASSUME OutboxTypeOK, message' \in [Messages -> MessageRecord],
         NEW f \in Flushers, NEW q, NEW D,
         flush' = [flush EXCEPT ![f] = q], subscribers' = subscribers,
         NEW m \in Messages, NEW h \in Handlers,
         received'[m][h] = received[m][h] + One(<<m, h>> \in D),
         Move(flush[f], q, D, m, h), Accounted(m, h), Tried(m)
  PROVE  Accounted(m, h)'
<1> DEFINE G == Cardinality(Givers(m, h))
           O == Cardinality(Owers(m, h))
           N == Cardinality(Flushers)
           H == Cardinality(Givers(m, h)')
           P == Cardinality(Owers(m, h)')
           x == received[m][h]
           y == received'[m][h]
           n == message[m].retryCount
           k == message'[m].retryCount
           p == flush[f]
<1>1. G \in Nat /\ O \in Nat /\ N \in Nat /\ G + O <= N
  BY GiverFacts
<1>2. /\ H = G + Gives(q, m, h) - Gives(p, m, h)
      /\ P = O + Due(q, m, h) - Due(p, m, h)
  <2>1. \A g \in Flushers : flush'[g] = IF g = f THEN q ELSE flush[g]
    BY DEF OutboxTypeOK
  <2>2. Givers(m, h)' = GiversAfter(f, q, m, h)
    <3>1. \A g \in Flushers : Given(flush[g], m, h)' <=>
                              IF g = f THEN Given(q, m, h) ELSE Given(flush[g], m, h)
      BY <2>1 DEF Given
    <3>2. \A g : g \in Givers(m, h)' <=> g \in Flushers /\ Given(flush[g], m, h)'
      BY DEF Givers
    <3>3. \A g : g \in Givers(m, h) <=> g \in Flushers /\ Given(flush[g], m, h)
      BY DEF Givers
    <3> QED
      BY <3>1, <3>2, <3>3 DEF GiversAfter
  <2>3. Owers(m, h)' = OwersAfter(f, q, m, h)
    <3>1. \A g \in Flushers : Owes(flush[g], m, h)' <=>
                              IF g = f THEN Owes(q, m, h) ELSE Owes(flush[g], m, h)
      BY <2>1 DEF Owes, Given
    <3>2. \A g : g \in Owers(m, h)' <=> g \in Flushers /\ Owes(flush[g], m, h)'
      BY DEF Owers
    <3>3. \A g : g \in Owers(m, h) <=> g \in Flushers /\ Owes(flush[g], m, h)
      BY DEF Owers
    <3> QED
      BY <3>1, <3>2, <3>3 DEF OwersAfter
  <2> QED
    BY <2>2, <2>3, FlushCounts
<1>3. /\ x \in Nat /\ n \in Nat /\ k \in Nat
      /\ message[m].status \in {"NONE", "PENDING", "PUBLISHED", "DEAD_LETTER"}
  BY DEF OutboxTypeOK, MessageRecord
<1>4. Accounted(m, h)' <=> IF message'[m].status \in Settled THEN y + P <= 4 + N
                           ELSE y <= k + H
  BY DEF Accounted, Settled
<1>5. IF message[m].status \in Settled THEN x + O <= 4 + N ELSE x <= n + G
  BY DEF Accounted
<1>6. y = x + One(<<m, h>> \in D)
  OBVIOUS
<1>7. /\ <<m, h>> \in D =>
           /\ Given(q, m, h) /\ ~Given(p, m, h) /\ message'[m] = message[m]
           /\ message[m].status \in Settled => Owes(p, m, h)
      /\ Owes(q, m, h) =>
           \/ Owes(p, m, h)
           \/ message[m].status \notin Settled /\ message'[m].status \notin Settled
  BY DEF Move
<1>8. Owes(q, m, h) => ~Given(q, m, h)
  BY DEF Owes
<1>9. /\ message[m].status \in {"NONE", "PENDING"} => n < 5
      /\ message[m].status = "DEAD_LETTER" => n >= 5
  BY DEF Tried
<1>10. /\ One(<<m, h>> \in D) \in {0, 1}
       /\ Gives(p, m, h) \in {0, 1} /\ Gives(q, m, h) \in {0, 1}
       /\ Due(p, m, h) \in {0, 1} /\ Due(q, m, h) \in {0, 1}
  BY DEF One, Gives, Due
<1> DEFINE a == Gives(p, m, h)
           b == Gives(q, m, h)
           c == Due(p, m, h)
           d == Due(q, m, h)
           e == One(<<m, h>> \in D)
<1>11. /\ a \in {0, 1} /\ b \in {0, 1} /\ c \in {0, 1} /\ d \in {0, 1} /\ e \in {0, 1}
       /\ H = G + b - a /\ P = O + d - c /\ y = x + e
  BY <1>2, <1>6, <1>10
<1>12. /\ e = 1 <=> <<m, h>> \in D
       /\ (a = 1 <=> Given(p, m, h)) /\ (b = 1 <=> Given(q, m, h))
       /\ (c = 1 <=> Owes(p, m, h)) /\ (d = 1 <=> Owes(q, m, h))
  BY DEF One, Gives, Due
<1>13. /\ e = 1 => b = 1 /\ a = 0 /\ d = 0 /\ message'[m] = message[m]
                   /\ (message[m].status \in Settled => c = 1)
       /\ d = 1 => c = 1 \/ (message[m].status \notin Settled /\ message'[m].status \notin Settled)
  BY <1>7, <1>8, <1>11, <1>12
<1> HIDE DEF a, b, c, d, e, G, O, N, H, P, x, y, n, k
<1>14. CASE /\ message'[m] = message[m]
            /\ Given(p, m, h) => Given(q, m, h) \/ message[m].status \in Settled
  <2>1. k = n
    BY <1>14 DEF k, n
  <2>2. message[m].status \notin Settled => (a = 1 => b = 1)
    BY <1>12, <1>14
  <2>4. CASE message[m].status \in Settled
    <3>1. e = 1 => d = 0 /\ c = 1
      BY <1>13, <2>4
    <3>2. d = 1 => c = 1
      BY <1>13, <2>4
    <3>3. x + O <= 4 + N
      BY <1>5, <2>4
    <3>4. y + P <= 4 + N
      BY <1>1, <1>3, <1>11, <3>1, <3>2, <3>3
    <3> QED
      BY <1>4, <1>14, <2>4, <3>4
  <2>5. CASE message[m].status \notin Settled
    <3>1. x <= n + G
      BY <1>5, <2>5
    <3>2. (e = 1 => b = 1 /\ a = 0) /\ (a = 1 => b = 1)
      BY <1>13, <2>2, <2>5
    <3>3. y <= k + H
      BY <1>1, <1>3, <1>11, <2>1, <3>1, <3>2
    <3> QED
      BY <1>4, <1>14, <2>5, <3>3
  <2> QED
    BY <2>4, <2>5
<1>15. ASSUME ~(message'[m] = message[m]) PROVE e = 0
  BY <1>11, <1>13, <1>15
<1>16. ASSUME e = 0, message'[m].status \in Settled PROVE y + P <= 4 + N
  <2>1. d = 1 => c = 1
    BY <1>13, <1>16
  <2>2. CASE message[m].status \in Settled
    BY <1>5, <2>2, <2>1, <1>16, <1>1, <1>3, <1>11
  <2>3. CASE message[m].status \notin Settled
    <3>1. n < 5 /\ x <= n + G
      BY <1>3, <1>5, <1>9, <2>3 DEF Settled
    <3> QED
      BY <3>1, <2>1, <1>16, <1>1, <1>3, <1>11
  <2> QED
    BY <2>2, <2>3
<1>17. CASE message'[m].status = "PUBLISHED" /\ ~(message'[m] = message[m])
  <2>1. message'[m].status \in Settled
    BY <1>17 DEF Settled
  <2> QED
    BY <2>1, <1>4, <1>15, <1>16, <1>17
<1>18. CASE message'[m] = CountFailure(m) /\ ~(message'[m] = message[m])
  <2>1. /\ k = n + 1
        /\ message'[m].status = IF n + 1 >= 5 THEN "DEAD_LETTER" ELSE message[m].status
    BY <1>18 DEF CountFailure, IsDead, MaxRetries, k, n
  <2>3. CASE message'[m].status \in Settled
    BY <2>3, <1>4, <1>15, <1>16, <1>18
  <2>4. CASE message'[m].status \notin Settled
    <3>1. message[m].status \notin Settled
      BY <2>1, <2>4, <1>3 DEF Settled
    <3>2. x <= n + G /\ e = 0
      BY <3>1, <1>5, <1>15, <1>18
    <3>3. y <= k + H
      BY <3>2, <2>1, <1>1, <1>3, <1>11
    <3> QED
      BY <3>3, <2>4, <1>4
  <2> QED
    BY <2>3, <2>4
<1>19. \/ /\ message'[m] = message[m]
          /\ Given(p, m, h) => Given(q, m, h) \/ message[m].status \in Settled
       \/ message'[m].status = "PUBLISHED" /\ ~(message'[m] = message[m])
       \/ message'[m] = CountFailure(m) /\ ~(message'[m] = message[m])
       \/ message'[m] = message[m] /\ (message[m].status = "PUBLISHED" \/ message[m] = CountFailure(m))
  BY DEF Move
<1>20. message[m] # CountFailure(m)
  <2>1. CountFailure(m).retryCount = n + 1
    BY DEF CountFailure, n
  <2> QED
    BY <2>1, <1>3 DEF n
<1>21. CASE message'[m] = message[m] /\ message[m].status = "PUBLISHED"
  BY <1>21, <1>14 DEF Settled
<1> QED
  BY <1>14, <1>17, <1>18, <1>19, <1>20, <1>21

\* What such a step may do to message m
MessageMove(m) ==
  \/ message'[m] = message[m]
  \/ message'[m].status = "PUBLISHED"
  \/ message'[m] = CountFailure(m)

LEMMA TriedKept ==
  ASSUME OutboxTypeOK, NEW m \in Messages, MessageMove(m), Tried(m)
  PROVE  Tried(m)'
<1>1. message[m].retryCount \in Nat
  BY DEF OutboxTypeOK, MessageRecord
<1>2. CASE message'[m] = message[m]
  BY <1>2 DEF Tried
<1>3. CASE message'[m].status = "PUBLISHED"
  BY <1>3 DEF Tried
<1>4. CASE message'[m] = CountFailure(m)
  <2>1. /\ message'[m].retryCount = message[m].retryCount + 1
        /\ message'[m].status = IF message[m].retryCount + 1 >= 5 THEN "DEAD_LETTER"
                                  ELSE message[m].status
    BY <1>4 DEF CountFailure, IsDead, MaxRetries
  <2> QED
    BY <2>1, <1>1 DEF Tried
<1> QED
  BY <1>2, <1>3, <1>4 DEF MessageMove

\* A step that moves one flush and gives the pairs of D keeps the invariant.
LEMMA FlushMoves ==
  ASSUME OutboxInv, NEW f \in Flushers, NEW q \in FlushRecord, NEW D,
         flush' = [flush EXCEPT ![f] = q],
         outboxQueue' = outboxQueue, subscribers' = subscribers,
         received' \in [Messages -> [Handlers -> Nat]],
         \A m \in Messages, h \in Handlers :
             received'[m][h] = received[m][h] + One(<<m, h>> \in D),
         message' \in [Messages -> MessageRecord],
         \A m \in Messages : MessageMove(m),
         q.batch # << >> =>
             /\ Distinct(q.batch) /\ q.h \in 1 .. Len(subscribers)
             /\ \A i \in 1 .. q.h : received'[Head(q.batch)][subscribers[i]] > 0,
         \A m \in Messages, h \in Handlers : Move(flush[f], q, D, m, h)
  PROVE  OutboxInv'
<1>1. OutboxTypeOK /\ OutboxTypeOK'
  BY DEF OutboxInv, OutboxTypeOK
<1>2. \A m \in Messages : Tried(m) /\ \A h \in Handlers : Accounted(m, h)
  BY DEF OutboxInv
<1>3. ASSUME NEW m \in Messages, NEW h \in Handlers PROVE Accounted(m, h)'
  <2>1. /\ received'[m][h] = received[m][h] + One(<<m, h>> \in D)
        /\ Move(flush[f], q, D, m, h)
    OBVIOUS
  <2>2. Accounted(m, h) /\ Tried(m)
    BY <1>2
  <2> QED
    BY <1>1, <2>1, <2>2, AccountKept
<1>4. (Distinct(outboxQueue) /\ Distinct(subscribers))'
  BY DEF OutboxInv, Distinct
<1>5. \A i \in 1 .. Len(outboxQueue') : message'[outboxQueue'[i]].status # "NONE"
  <2>1. \A i \in 1 .. Len(outboxQueue) : outboxQueue[i] \in Messages
    BY <1>1, ElementOfSeq DEF OutboxTypeOK
  <2>2. \A i \in 1 .. Len(outboxQueue) : message[outboxQueue[i]].status # "NONE"
    BY DEF OutboxInv
  <2>3. \A m \in Messages : message[m].status # "NONE" => message'[m].status # "NONE"
    BY SMTT(30) DEF MessageMove, CountFailure
  <2> QED
    BY <2>1, <2>2, <2>3
<1>6. ASSUME NEW e \in Flushers PROVE FlushOK(flush[e])'
  <2>1. CASE e = f
    <3>1. flush'[e] = q
      BY <2>1, <1>1 DEF OutboxTypeOK
    <3> QED
      BY <3>1 DEF FlushOK, Distinct
  <2>2. CASE e # f
    <3> DEFINE p == flush[e]
    <3>1. flush'[e] = p /\ p \in FlushRecord
      BY <2>2, <1>1 DEF OutboxTypeOK
    <3>2. SUFFICES ASSUME p.batch # << >>
                   PROVE  /\ Distinct(p.batch)
                          /\ p.h \in 1 .. Len(subscribers)
                          /\ \A i \in 1 .. p.h : received'[Head(p.batch)][subscribers[i]] > 0
      BY <3>1 DEF FlushOK, Distinct
    <3>3. FlushOK(p)
      BY DEF OutboxInv
    <3> HIDE DEF p
    <3>4. Head(p.batch) \in Messages
      BY <3>1, <3>2 DEF FlushRecord
    <3>5. \A i \in 1 .. Len(subscribers) : subscribers[i] \in Handlers
      BY <1>1, ElementOfSeq DEF OutboxTypeOK
    <3>6. /\ Distinct(p.batch) /\ p.h \in 1 .. Len(subscribers)
          /\ \A i \in 1 .. p.h : received[Head(p.batch)][subscribers[i]] > 0
      BY <3>2, <3>3 DEF FlushOK
    <3>7. Len(subscribers) \in Nat
      BY <1>1, LenProperties DEF OutboxTypeOK
    <3>8. ASSUME NEW i \in 1 .. p.h PROVE received'[Head(p.batch)][subscribers[i]] > 0
      <4>1. subscribers[i] \in Handlers
        BY <3>5, <3>6, <3>7
      <4>2. received[Head(p.batch)][subscribers[i]] \in Nat
        BY <3>4, <4>1, <1>1 DEF OutboxTypeOK
      <4>3. received'[Head(p.batch)][subscribers[i]]
              = received[Head(p.batch)][subscribers[i]]
                  + One(<<Head(p.batch), subscribers[i]>> \in D)
        BY <3>4, <4>1
      <4>4. One(<<Head(p.batch), subscribers[i]>> \in D) \in {0, 1}
        BY DEF One
      <4> QED
        BY <3>6, <4>2, <4>3, <4>4
    <3> QED
      BY <3>6, <3>8
  <2> QED
    BY <2>1, <2>2
<1>7. ASSUME NEW m \in Messages PROVE Tried(m)'
  BY <1>1, <1>2, TriedKept
<1> QED
  BY <1>1, <1>3, <1>4, <1>5, <1>6, <1>7 DEF OutboxInv

\* What Start does: the handlers given are those of the state it goes to.
LEMMA StartFacts ==
  ASSUME OutboxTypeOK, NEW f \in Flushers, NEW batch \in Seq(Messages), Distinct(batch),
         Len(subscribers) >= 1, Start(f, batch)
  PROVE  \E q \in FlushRecord, D \in SUBSET (Messages \X Handlers) :
           /\ flush' = [flush EXCEPT ![f] = q]
           /\ received' \in [Messages -> [Handlers -> Nat]]
           /\ \A m \in Messages, h \in Handlers :
                received'[m][h] = received[m][h] + One(<<m, h>> \in D)
           /\ q.batch # << >> =>
                /\ Distinct(q.batch) /\ q.h \in 1 .. Len(subscribers)
                /\ \A i \in 1 .. q.h : received'[Head(q.batch)][subscribers[i]] > 0
           /\ \A m \in Messages, h \in Handlers :
                /\ <<m, h>> \in D <=> Given(q, m, h)
                /\ Given(q, m, h) \/ Owes(q, m, h) => \E i \in 1 .. Len(batch) : batch[i] = m
<1>1. CASE batch = << >>
  <2> DEFINE D == {}
             q == [batch |-> << >>, h |-> 0]
  <2>1. q \in FlushRecord /\ D \in SUBSET (Messages \X Handlers) /\ q.batch = << >>
    BY DEF FlushRecord
  <2>2. flush' = [flush EXCEPT ![f] = q] /\ received' = received
    BY <1>1 DEF Start, Idle
  <2>3. received \in [Messages -> [Handlers -> Nat]]
    BY DEF OutboxTypeOK
  <2>4. \A m \in Messages, h \in Handlers : received'[m][h] = received[m][h] + One(<<m, h>> \in D)
    BY <2>2, <2>3 DEF One
  <2>5. \A m \in Messages, h \in Handlers :
          <<m, h>> \notin D /\ ~Given(q, m, h) /\ ~Owes(q, m, h)
    <3>1. 1 .. Len(q.batch) = {}
      BY <2>1
    <3> QED
      BY <2>1, <3>1 DEF Given, Owes
  <2> HIDE DEF D, q
  <2> QED
    BY <2>1, <2>2, <2>3, <2>4, <2>5
<1>2. CASE batch # << >>
  <2> DEFINE a == Head(batch)
             b == subscribers[1]
             D == {<<a, b>>}
             q == [batch |-> batch, h |-> 1]
             row == [received[a] EXCEPT ![b] = received[a][b] + 1]
  <2>1. a \in Messages /\ b \in Handlers /\ Len(batch) \in Nat /\ Len(batch) >= 1 /\ a = batch[1]
    <3>1. Len(subscribers) \in Nat /\ 1 \in 1 .. Len(subscribers) /\ subscribers \in Seq(Handlers)
      BY LenProperties DEF OutboxTypeOK
    <3>2. b \in Handlers
      BY <3>1, ElementOfSeq
    <3> QED
      BY <1>2, <3>2
  <2>2. received \in [Messages -> [Handlers -> Nat]]
    BY DEF OutboxTypeOK
  <2>3. received' = [received EXCEPT ![a] = row]
    BY <1>2, <2>1, <2>2 DEF Start
  <2>4. row \in [Handlers -> Nat] /\ \A h \in Handlers : row[h] = received[a][h] + One(h = b)
    <3>1. received[a] \in [Handlers -> Nat]
      BY <2>1, <2>2
    <3> QED
      BY <3>1, <2>1 DEF One
  <2>5. q \in FlushRecord /\ D \in SUBSET (Messages \X Handlers) /\ q.batch = batch /\ q.h = 1
    BY <2>1 DEF FlushRecord
  <2>6. flush' = [flush EXCEPT ![f] = q]
    BY <1>2 DEF Start
  <2>7. \A m \in Messages, h \in Handlers : <<m, h>> \in D <=> m = a /\ h = b
    OBVIOUS
  <2>8. \A m \in Messages, h \in Handlers : Given(q, m, h) <=> m = a /\ h = b
    <3>1. \A i : i \in 1 .. 1 <=> i = 1
      OBVIOUS
    <3> QED
      BY <1>2, <2>5, <3>1 DEF Given
  <2>9. \A m \in Messages, h \in Handlers :
          Owes(q, m, h) => \E i \in 1 .. Len(batch) : batch[i] = m
    BY <2>5 DEF Owes
  <2>10. Len(subscribers) \in Nat /\ 1 \in 1 .. Len(subscribers)
    BY LenProperties DEF OutboxTypeOK
  <2> HIDE DEF D, q, row, a, b
  <2>11. received' \in [Messages -> [Handlers -> Nat]]
    BY <2>2, <2>3, <2>4
  <2>12. ASSUME NEW m \in Messages, NEW h \in Handlers
         PROVE  received'[m][h] = received[m][h] + One(<<m, h>> \in D)
    <3>1. CASE m = a
      BY <3>1, <2>2, <2>3, <2>4, <2>7 DEF One
    <3>2. CASE m # a
      BY <3>2, <2>2, <2>3, <2>7 DEF One
    <3> QED
      BY <3>1, <3>2
  <2>13. \A i \in 1 .. q.h : received'[Head(q.batch)][subscribers[i]] > 0
    <3>1. received'[a][b] = received[a][b] + 1 /\ received[a][b] \in Nat
      <4>1. <<a, b>> \in D
        BY <2>1, <2>7
      <4>2. One(<<a, b>> \in D) = 1
        BY <4>1 DEF One
      <4>3. received'[a][b] = received[a][b] + One(<<a, b>> \in D)
        BY <2>1, <2>12
      <4> QED
        BY <4>2, <4>3, <2>1, <2>2
    <3>2. \A i \in 1 .. q.h : i = 1
      BY <2>5
    <3> QED
      BY <3>1, <3>2, <2>5 DEF a, b
  <2>14. \A m \in Messages, h \in Handlers :
           /\ <<m, h>> \in D <=> Given(q, m, h)
           /\ Given(q, m, h) \/ Owes(q, m, h) => \E i \in 1 .. Len(batch) : batch[i] = m
    <3>1. 1 \in 1 .. Len(batch)
      BY <2>1
    <3> QED
      BY <2>1, <2>7, <2>8, <2>9, <3>1
  <2> QED
    BY <2>5, <2>6, <2>10, <2>11, <2>12, <2>13, <2>14
<1> QED
  BY <1>1, <1>2

\* The invariant holds at first.
LEMMA OutboxInvInit == OutboxInit => OutboxInv
<1> SUFFICES ASSUME OutboxInit PROVE OutboxInv
  OBVIOUS
<1>1. OutboxTypeOK
  BY DEF OutboxInit, OutboxTypeOK, MessageRecord, FlushRecord, Idle
<1>2. \A f \in Flushers : flush[f].batch = << >>
  BY DEF OutboxInit, Idle
<1>3. \A m \in Messages : message[m].status = "NONE" /\ message[m].retryCount = 0
  BY DEF OutboxInit
<1>4. ASSUME NEW m \in Messages, NEW h \in Handlers PROVE Accounted(m, h)
  <2>1. received[m][h] = 0
    BY DEF OutboxInit
  <2>2. Cardinality(Givers(m, h)) \in Nat
    BY GiverFacts
  <2> QED
    BY <1>3, <2>1, <2>2 DEF Accounted, Settled
<1>5. Distinct(outboxQueue) /\ Distinct(subscribers) /\ 1 .. Len(outboxQueue) = {}
  BY DEF OutboxInit, Distinct
<1> QED
  BY <1>1, <1>2, <1>3, <1>4, <1>5 DEF OutboxInv, FlushOK, Tried

\* Every step keeps the invariant: one lemma for each action.
LEMMA QueueEventKeeps ==
  ASSUME OutboxInv, NEW m \in Messages, queueEvent(m)
  PROVE  OutboxInv'
<1>1. /\ OutboxTypeOK /\ message[m].status = "NONE"
      /\ outboxQueue' = Append(outboxQueue, m)
      /\ message' = [message EXCEPT ![m].status = "PENDING"]
      /\ subscribers' = subscribers /\ received' = received /\ flush' = flush
  BY DEF queueEvent, OutboxInv
<1>2. /\ outboxQueue \in Seq(Messages) /\ Len(outboxQueue) \in Nat
      /\ message \in [Messages -> MessageRecord]
  BY <1>1 DEF OutboxTypeOK
<1>3. /\ message' \in [Messages -> MessageRecord]
      /\ \A k \in Messages : /\ message'[k].retryCount = message[k].retryCount
                             /\ message'[k].status = IF k = m THEN "PENDING" ELSE message[k].status
  BY <1>1, <1>2 DEF MessageRecord
<1>4. /\ outboxQueue' \in Seq(Messages) /\ Len(outboxQueue') = Len(outboxQueue) + 1
      /\ outboxQueue'[Len(outboxQueue) + 1] = m
      /\ \A i \in 1 .. Len(outboxQueue) :
           outboxQueue'[i] = outboxQueue[i] /\ outboxQueue[i] \in Messages
  BY <1>1, <1>2
<1>5. OutboxTypeOK'
  BY <1>1, <1>3, <1>4 DEF OutboxTypeOK
<1>6. \A i \in 1 .. Len(outboxQueue') : i \in 1 .. Len(outboxQueue) \/ i = Len(outboxQueue) + 1
  BY <1>2, <1>4
<1>7. \A i \in 1 .. Len(outboxQueue) : outboxQueue[i] # m /\ message[outboxQueue[i]].status # "NONE"
  BY <1>1 DEF OutboxInv
<1>8. Distinct(outboxQueue)'
  <2>1. Distinct(outboxQueue)
    BY DEF OutboxInv
  <2> QED
    BY <2>1, <1>2, <1>4, <1>6, <1>7 DEF Distinct
<1>9. \A i \in 1 .. Len(outboxQueue') : message'[outboxQueue'[i]].status # "NONE"
  BY <1>3, <1>4, <1>6, <1>7
<1>10. ASSUME NEW k \in Messages PROVE Tried(k)' /\ \A h \in Handlers : Accounted(k, h)'
  <2>1. Tried(k) /\ \A h \in Handlers : Accounted(k, h)
    BY DEF OutboxInv
  <2>2. \A h \in Handlers : Givers(k, h)' = Givers(k, h) /\ Owers(k, h)' = Owers(k, h)
    BY <1>1 DEF Givers, Owers, Given, Owes
  <2>3. /\ message'[k].status \in Settled <=> message[k].status \in Settled
        /\ message'[k].status = "DEAD_LETTER" <=> message[k].status = "DEAD_LETTER"
        /\ message'[k].status \in {"NONE", "PENDING"} <=> message[k].status \in {"NONE", "PENDING"}
    BY <1>1, <1>3 DEF Settled
  <2>4. Tried(k)'
    BY <2>1, <2>3, <1>3 DEF Tried
  <2>5. \A h \in Handlers : Accounted(k, h)'
    BY <1>1, <2>1, <2>2, <2>3, <1>3 DEF Accounted, Settled
  <2> QED
    BY <2>4, <2>5
<1>11. Distinct(subscribers)' /\ \A f \in Flushers : FlushOK(flush[f])'
  BY <1>1 DEF OutboxInv, Distinct, FlushOK
<1> QED
  BY <1>5, <1>8, <1>9, <1>10, <1>11 DEF OutboxInv

LEMMA SubscribeKeeps ==
  ASSUME OutboxInv, NEW h \in Handlers, subscribe(h)
  PROVE  OutboxInv'
<1> DEFINE s == subscribers
           t == Append(subscribers, h)
<1>1. /\ OutboxTypeOK /\ h \notin ToSet(s) /\ subscribers' = t
      /\ outboxQueue' = outboxQueue /\ message' = message /\ received' = received /\ flush' = flush
  BY DEF subscribe, OutboxInv
<1>2. /\ s \in Seq(Handlers) /\ Len(s) \in Nat
      /\ \A i \in 1 .. Len(s) : s[i] \in Handlers /\ s[i] # h
  <2>1. s \in Seq(Handlers) /\ Len(s) \in Nat /\ DOMAIN s = 1 .. Len(s)
    BY <1>1 DEF OutboxTypeOK
  <2> QED
    BY <2>1, <1>1 DEF ToSet
<1>3. /\ t \in Seq(Handlers) /\ Len(t) = Len(s) + 1 /\ t[Len(s) + 1] = h
      /\ \A i \in 1 .. Len(s) : t[i] = s[i]
  BY <1>2
<1> HIDE DEF s, t
<1>4. OutboxTypeOK'
  BY <1>1, <1>3 DEF OutboxTypeOK
<1>5. \A i \in 1 .. Len(t) : i \in 1 .. Len(s) \/ i = Len(s) + 1
  BY <1>2, <1>3
<1>6. Distinct(t)
  <2>1. Distinct(s)
    BY DEF OutboxInv, s
  <2> QED
    BY <2>1, <1>2, <1>3, <1>5 DEF Distinct
<1>7. ASSUME NEW f \in Flushers
      PROVE  /\ FlushOK(flush[f])'
             /\ \A m, g : (Given(flush[f], m, g)' <=> Given(flush[f], m, g))
                          /\ (Owes(flush[f], m, g)' <=> Owes(flush[f], m, g))
  <2> DEFINE p == flush[f]
  <2>1. flush'[f] = p
    BY <1>1
  <2>2. p.batch # << >> => p.h \in 1 .. Len(s) /\ \A i \in 1 .. p.h : t[i] = s[i]
    <3>1. p.batch # << >> => p.h \in 1 .. Len(s)
      BY DEF OutboxInv, FlushOK, s
    <3> QED
      BY <3>1, <1>2, <1>3
  <2>3. FlushOK(p)
    BY DEF OutboxInv
  <2> HIDE DEF p
  <2>4. FlushOK(flush[f])'
    <3>1. SUFFICES ASSUME p.batch # << >>
                   PROVE  /\ Distinct(p.batch) /\ p.h \in 1 .. Len(t)
                          /\ \A i \in 1 .. p.h : received[Head(p.batch)][t[i]] > 0
      BY <1>1, <2>1 DEF FlushOK, Distinct
    <3>2. /\ Distinct(p.batch) /\ p.h \in 1 .. Len(s)
          /\ \A i \in 1 .. p.h : received[Head(p.batch)][s[i]] > 0
      BY <3>1, <2>3 DEF FlushOK, s
    <3> QED
      BY <3>1, <3>2, <2>2, <1>2, <1>3
  <2>5. \A m, g : Given(flush[f], m, g)' <=> Given(p, m, g)
    BY <1>1, <2>1, <2>2 DEF Given, s
  <2> QED
    BY <2>1, <2>4, <2>5 DEF Owes, p
<1>8. ASSUME NEW m \in Messages, NEW g \in Handlers PROVE Accounted(m, g)'
  <2>1. Givers(m, g)' = Givers(m, g) /\ Owers(m, g)' = Owers(m, g)
    <3>1. /\ \A f : f \in Givers(m, g)' <=> f \in Flushers /\ Given(flush[f], m, g)'
          /\ \A f : f \in Owers(m, g)' <=> f \in Flushers /\ Owes(flush[f], m, g)'
      BY DEF Givers, Owers
    <3>2. /\ \A f : f \in Givers(m, g) <=> f \in Flushers /\ Given(flush[f], m, g)
          /\ \A f : f \in Owers(m, g) <=> f \in Flushers /\ Owes(flush[f], m, g)
      BY DEF Givers, Owers
    <3> QED
      BY <3>1, <3>2, <1>7
  <2>2. Accounted(m, g)
    BY DEF OutboxInv
  <2> QED
    BY <1>1, <2>1, <2>2 DEF Accounted, Settled
<1>9. \A m \in Messages : Tried(m)'
  BY <1>1 DEF OutboxInv, Tried
<1>10. Distinct(outboxQueue)' /\ \A i \in 1 .. Len(outboxQueue') : message'[outboxQueue'[i]].status # "NONE"
  BY <1>1 DEF OutboxInv, Distinct
<1>11. Distinct(subscribers)'
  BY <1>1, <1>6 DEF Distinct
<1> QED
  BY <1>4, <1>7, <1>8, <1>9, <1>10, <1>11 DEF OutboxInv

LEMMA FlushOutboxKeeps ==
  ASSUME OutboxInv, NEW f \in Flushers, NEW b \in BatchSizes, flushOutbox(f, b)
  PROVE  OutboxInv'
<1> DEFINE pending == PendingBatch(b)
           p == flush[f]
<1>1. /\ OutboxTypeOK /\ p = Idle
      /\ outboxQueue' = outboxQueue /\ subscribers' = subscribers
  BY DEF flushOutbox, OutboxInv
<1>2. /\ outboxQueue \in Seq(Messages) /\ subscribers \in Seq(Handlers)
      /\ message \in [Messages -> MessageRecord]
      /\ received \in [Messages -> [Handlers -> Nat]]
      /\ flush \in [Flushers -> FlushRecord] /\ p \in FlushRecord
  BY <1>1 DEF OutboxTypeOK
<1>3. /\ pending \in Seq(Messages) /\ Distinct(pending)
      /\ \A i \in 1 .. Len(pending) : message[pending[i]].status = "PENDING"
  <2>1. Distinct(outboxQueue)
    BY DEF OutboxInv
  <2> QED
    BY <1>2, <2>1, BatchFacts DEF IsPending
<1>4. p.batch = << >> /\ \A m, h : ~Given(p, m, h) /\ ~Owes(p, m, h)
  <2>1. p.batch = << >>
    BY <1>1 DEF Idle
  <2>2. 1 .. Len(p.batch) = {}
    BY <2>1
  <2> QED
    BY <2>1, <2>2 DEF Given, Owes
<1> HIDE DEF pending, p
<1>5. CASE subscribers = << >>
  <2> DEFINE D == {}
  <2>1. /\ message' = [m \in Messages |->
                         IF m \in ToSet(pending)
                         THEN [message[m] EXCEPT !.status = "PUBLISHED"] ELSE message[m]]
        /\ received' = received /\ flush' = flush
    BY <1>5 DEF flushOutbox, pending
  <2>2. flush' = [flush EXCEPT ![f] = p]
    BY <2>1, <1>2 DEF p
  <2>3. /\ message' \in [Messages -> MessageRecord]
        /\ \A m \in Messages : message'[m] = message[m] \/ message'[m].status = "PUBLISHED"
    BY <2>1, <1>2 DEF MessageRecord
  <2>4. \A m \in Messages, h \in Handlers :
          <<m, h>> \notin D /\ received'[m][h] = received[m][h] + One(<<m, h>> \in D)
    BY <2>1, <1>2 DEF One
  <2>5. \A m \in Messages : MessageMove(m)
    BY <2>3 DEF MessageMove
  <2>6. \A m \in Messages, h \in Handlers : Move(p, p, D, m, h)
    BY <2>3, <2>4, <1>4 DEF Move
  <2>7. received' \in [Messages -> [Handlers -> Nat]]
    BY <2>1, <1>2
  <2> HIDE DEF D
  <2> QED
    BY <1>1, <1>2, <1>4, <2>2, <2>3, <2>4, <2>5, <2>6, <2>7, FlushMoves DEF p
<1>6. CASE subscribers # << >>
  <2>1. Start(f, pending) /\ message' = message
    BY <1>6 DEF flushOutbox, pending
  <2>2. Len(subscribers) >= 1
    BY <1>2, <1>6
  <2>3. PICK q \in FlushRecord, D \in SUBSET (Messages \X Handlers) :
           /\ flush' = [flush EXCEPT ![f] = q]
           /\ received' \in [Messages -> [Handlers -> Nat]]
           /\ \A m \in Messages, h \in Handlers :
                received'[m][h] = received[m][h] + One(<<m, h>> \in D)
           /\ q.batch # << >> =>
                /\ Distinct(q.batch) /\ q.h \in 1 .. Len(subscribers)
                /\ \A i \in 1 .. q.h : received'[Head(q.batch)][subscribers[i]] > 0
           /\ \A m \in Messages, h \in Handlers :
                /\ <<m, h>> \in D <=> Given(q, m, h)
                /\ Given(q, m, h) \/ Owes(q, m, h) => \E i \in 1 .. Len(pending) : pending[i] = m
    BY ZenonT(40), <1>1, <1>3, <2>1, <2>2, StartFacts
  <2>4. \A m \in Messages : MessageMove(m)
    BY <2>1 DEF MessageMove
  <2>5. \A m \in Messages, h \in Handlers :
          Given(q, m, h) \/ Owes(q, m, h) => message[m].status \notin Settled
    BY <2>3, <1>3 DEF Settled
  <2>6. \A m \in Messages, h \in Handlers : Move(p, q, D, m, h)
    BY <2>1, <2>3, <2>5, <1>4 DEF Move
  <2>7. message' \in [Messages -> MessageRecord]
    BY <2>1, <1>2
  <2> QED
    BY <1>1, <2>3, <2>4, <2>6, <2>7, FlushMoves DEF p
<1> QED
  BY <1>5, <1>6

\* A flush is done with the message it is at, which was settled or failed, and
\* goes on with the rest of its batch.
LEMMA NextMessageKeeps ==
  ASSUME OutboxInv, NEW f \in Flushers, flush[f].batch # << >>,
         outboxQueue' = outboxQueue, subscribers' = subscribers,
         Start(f, Tail(flush[f].batch)),
         NEW w \in MessageRecord, message' = [message EXCEPT ![Head(flush[f].batch)] = w],
         w.status = "PUBLISHED" \/ w = CountFailure(Head(flush[f].batch))
  PROVE  OutboxInv'
<1> DEFINE p == flush[f]
           a == Head(p.batch)
           rest == Tail(p.batch)
<1>1. /\ OutboxTypeOK /\ subscribers \in Seq(Handlers)
      /\ message \in [Messages -> MessageRecord]
      /\ flush \in [Flushers -> FlushRecord] /\ p \in FlushRecord
      /\ p.batch \in Seq(Messages) /\ p.batch # << >>
  BY DEF OutboxInv, OutboxTypeOK, FlushRecord
<1>2. Distinct(p.batch) /\ p.h \in 1 .. Len(subscribers)
  BY <1>1 DEF OutboxInv, FlushOK
<1>3. /\ a \in Messages /\ a = p.batch[1] /\ Len(p.batch) \in Nat /\ Len(p.batch) >= 1
      /\ rest \in Seq(Messages) /\ Len(rest) = Len(p.batch) - 1
      /\ \A i \in 1 .. Len(rest) : rest[i] = p.batch[i + 1]
  BY <1>1
<1>4. Start(f, rest) /\ message' = [message EXCEPT ![a] = w]
  OBVIOUS
<1> HIDE DEF p, a, rest
<1>5. \A i \in 1 .. Len(rest) : i + 1 \in 1 .. Len(p.batch) /\ i + 1 # 1
  BY <1>3
<1>6. Distinct(rest) /\ \A i \in 1 .. Len(rest) : rest[i] # a
  <2>1. ASSUME NEW i \in 1 .. Len(rest), NEW j \in 1 .. Len(rest), rest[i] = rest[j]
        PROVE  i = j
    BY <2>1, <1>2, <1>3, <1>5 DEF Distinct
  <2>2. 1 \in 1 .. Len(p.batch)
    BY <1>3
  <2>3. \A i \in 1 .. Len(rest) : rest[i] # a
    BY <2>2, <1>2, <1>3, <1>5 DEF Distinct
  <2> QED
    BY <2>1, <2>3 DEF Distinct
<1>7. Len(subscribers) >= 1
  <2>1. Len(subscribers) \in Nat
    BY <1>1
  <2> QED
    BY <2>1, <1>2
<1>8. PICK q \in FlushRecord, D \in SUBSET (Messages \X Handlers) :
           /\ flush' = [flush EXCEPT ![f] = q]
           /\ received' \in [Messages -> [Handlers -> Nat]]
           /\ \A m \in Messages, h \in Handlers :
                received'[m][h] = received[m][h] + One(<<m, h>> \in D)
           /\ q.batch # << >> =>
                /\ Distinct(q.batch) /\ q.h \in 1 .. Len(subscribers)
                /\ \A i \in 1 .. q.h : received'[Head(q.batch)][subscribers[i]] > 0
           /\ \A m \in Messages, h \in Handlers :
                /\ <<m, h>> \in D <=> Given(q, m, h)
                /\ Given(q, m, h) \/ Owes(q, m, h) => \E i \in 1 .. Len(rest) : rest[i] = m
  <2>1. OutboxTypeOK /\ rest \in Seq(Messages) /\ Distinct(rest) /\ Start(f, rest)
    BY <1>1, <1>3, <1>4, <1>6
  <2> QED
    BY ZenonT(40), <2>1, <1>7, StartFacts
<1>9. /\ message' \in [Messages -> MessageRecord]
      /\ \A m \in Messages : message'[m] = IF m = a THEN w ELSE message[m]
  BY <1>1, <1>4
<1>10. w.status = "PUBLISHED" \/ w = CountFailure(a)
  BY DEF a, p
<1>11. \A m \in Messages : MessageMove(m)
  BY <1>9, <1>10 DEF MessageMove
<1>12. ASSUME NEW m \in Messages, NEW h \in Handlers PROVE Move(p, q, D, m, h)
  <2>1. Given(q, m, h) \/ Owes(q, m, h) =>
          m # a /\ \E i \in 1 .. Len(p.batch) : p.batch[i] = m
    <3> SUFFICES ASSUME Given(q, m, h) \/ Owes(q, m, h)
                 PROVE  m # a /\ \E i \in 1 .. Len(p.batch) : p.batch[i] = m
      OBVIOUS
    <3>1. PICK i \in 1 .. Len(rest) : rest[i] = m
      BY <1>8
    <3>2. m # a /\ p.batch[i + 1] = m /\ i + 1 \in 1 .. Len(p.batch)
      BY <3>1, <1>3, <1>5, <1>6
    <3> QED
      BY <3>2
  <2>2. Given(p, m, h) => m = a
    BY DEF Given, a
  <2>3. Given(q, m, h) \/ Owes(q, m, h) => m # a /\ ~Given(p, m, h) /\ Owes(p, m, h)
    BY <2>1, <2>2 DEF Owes
  <2>4. <<m, h>> \in D <=> Given(q, m, h)
    BY <1>8
  <2>5. CASE m = a
    BY <2>3, <2>4, <2>5, <1>9, <1>10 DEF Move
  <2>6. CASE m # a
    BY <2>2, <2>3, <2>4, <2>6, <1>9 DEF Move
  <2> QED
    BY <2>5, <2>6
<1> QED
  BY <1>8, <1>9, <1>11, <1>12, FlushMoves DEF p

LEMMA HandlerDoneKeeps ==
  ASSUME OutboxInv, NEW f \in Flushers, HandlerDone(f)
  PROVE  OutboxInv'
<1> DEFINE p == flush[f]
           a == Head(p.batch)
           n == p.h + 1
           b == subscribers[n]
<1>1. /\ OutboxTypeOK /\ p.batch # << >>
      /\ outboxQueue' = outboxQueue /\ subscribers' = subscribers
  BY DEF HandlerDone, OutboxInv
<1>2. /\ subscribers \in Seq(Handlers) /\ Len(subscribers) \in Nat
      /\ message \in [Messages -> MessageRecord]
      /\ received \in [Messages -> [Handlers -> Nat]]
      /\ flush \in [Flushers -> FlushRecord] /\ p \in FlushRecord
      /\ p.batch \in Seq(Messages) /\ p.h \in Nat
  BY <1>1 DEF OutboxTypeOK, FlushRecord
<1>3. /\ Distinct(p.batch) /\ p.h \in 1 .. Len(subscribers)
      /\ \A i \in 1 .. p.h : received[a][subscribers[i]] > 0
  BY <1>1 DEF OutboxInv, FlushOK
<1>4. a \in Messages /\ a = p.batch[1] /\ 1 \in 1 .. Len(p.batch)
  <2>1. Len(p.batch) \in Nat /\ Len(p.batch) >= 1
    BY <1>1, <1>2
  <2> QED
    BY <2>1, <1>1, <1>2
<1>5. CASE LastHandler(f)
  <2> DEFINE w == [message[a] EXCEPT !.status = "PUBLISHED"]
  <2>1. message' = [message EXCEPT ![a] = w] /\ Start(f, Tail(p.batch))
    BY <1>5 DEF HandlerDone
  <2>2. w \in MessageRecord /\ w.status = "PUBLISHED"
    <3>1. message[a] \in MessageRecord
      BY <1>2, <1>4
    <3> QED
      BY <3>1 DEF MessageRecord
  <2> HIDE DEF w
  <2> QED
    BY <1>1, <2>1, <2>2, NextMessageKeeps
<1>6. CASE ~LastHandler(f)
  <2> DEFINE q == [p EXCEPT !.h = n]
             D == {<<a, b>>}
             row == [received[a] EXCEPT ![b] = received[a][b] + 1]
  <2>1. n \in 1 .. Len(subscribers) /\ b \in Handlers
    <3>1. p.h # Len(subscribers)
      BY <1>6 DEF LastHandler
    <3>2. n \in 1 .. Len(subscribers)
      BY <3>1, <1>2, <1>3
    <3> QED
      BY <3>2, <1>2, ElementOfSeq
  <2>2. /\ message' = message /\ received' = [received EXCEPT ![a] = row]
        /\ flush' = [flush EXCEPT ![f] = q]
    <3>1. /\ message' = message
          /\ received' = [received EXCEPT ![a][b] = @ + 1]
          /\ flush' = [flush EXCEPT ![f].h = n]
      BY <1>6 DEF HandlerDone
    <3> HIDE DEF a, b, n
    <3>2. received' = [received EXCEPT ![a] = row]
      BY <3>1, <1>2, <1>4, <2>1
    <3>3. flush' = [flush EXCEPT ![f] = q]
      BY <3>1, <1>2
    <3> QED
      BY <3>1, <3>2, <3>3
  <2>3. q \in FlushRecord /\ q.batch = p.batch /\ q.h = n
    <3>1. n \in Nat
      BY <1>2
    <3> HIDE DEF n, p
    <3> QED
      BY <3>1, <1>2 DEF FlushRecord
  <2>4. \A m \in Messages, h \in Handlers : <<m, h>> \in D <=> m = a /\ h = b
    OBVIOUS
  <2>5. row \in [Handlers -> Nat] /\ \A h \in Handlers : row[h] = received[a][h] + One(h = b)
    <3>1. received[a] \in [Handlers -> Nat]
      BY <1>2, <1>4
    <3> HIDE DEF a, b, n, p
    <3> QED
      BY <3>1, <2>1 DEF One
  <2>6. \A i \in 1 .. p.h : i \in 1 .. n /\ i # n /\ i \in 1 .. Len(subscribers)
    BY <1>2, <1>3
  <2>7. n \in 1 .. n /\ \A i \in 1 .. n : i \in 1 .. p.h \/ i = n
    BY <1>2
  <2>8. \A i \in 1 .. p.h : subscribers[i] # b
    <3>1. Distinct(subscribers)
      BY DEF OutboxInv
    <3> QED
      BY <3>1, <2>1, <2>6 DEF Distinct
  <2>9. \A m \in Messages, h \in Handlers :
          /\ Given(q, m, h) <=> Given(p, m, h) \/ (m = a /\ h = b)
          /\ ~Given(p, a, b)
    <3>1. \A h : (\E i \in 1 .. n : subscribers[i] = h)
                   <=> (\E i \in 1 .. p.h : subscribers[i] = h) \/ h = b
      BY <2>6, <2>7
    <3>2. ~(\E i \in 1 .. p.h : subscribers[i] = b)
      BY <2>8
    <3> HIDE DEF a, b, n, q, p
    <3> QED
      BY <3>1, <3>2, <2>3, <1>1 DEF Given, a
  <2>10. \A i \in 1 .. p.h : subscribers[i] \in Handlers
    BY <2>6, <1>2, ElementOfSeq
  <2> HIDE DEF a, b, n, q, p, D, row
  <2>11. received' \in [Messages -> [Handlers -> Nat]]
    BY <1>2, <1>4, <2>2, <2>5
  <2>12. ASSUME NEW m \in Messages, NEW h \in Handlers
         PROVE  received'[m][h] = received[m][h] + One(<<m, h>> \in D)
    <3>1. CASE m = a
      BY <3>1, <1>2, <2>2, <2>4, <2>5 DEF One
    <3>2. CASE m # a
      BY <3>2, <1>2, <2>2, <2>4 DEF One
    <3> QED
      BY <3>1, <3>2
  <2>13. \A i \in 1 .. q.h : received'[Head(q.batch)][subscribers[i]] > 0
    <3> SUFFICES ASSUME NEW i \in 1 .. n PROVE received'[a][subscribers[i]] > 0
      BY <2>3 DEF a
    <3>1. CASE i = n
      <4>1. received'[a] = row
        BY <1>2, <1>4, <2>2
      <4>2. row[b] = received[a][b] + 1 /\ received[a][b] \in Nat
        BY <1>2, <1>4, <2>1, <2>5 DEF One
      <4> QED
        BY <3>1, <4>1, <4>2 DEF b
    <3>2. CASE i \in 1 .. p.h
      <4> DEFINE h == subscribers[i]
      <4>1. h \in Handlers /\ received[a][h] > 0 /\ received[a][h] \in Nat
        BY <3>2, <1>2, <1>3, <1>4, <2>10
      <4>2. received'[a][h] = received[a][h] + One(<<a, h>> \in D)
        BY <4>1, <1>4, <2>12
      <4>3. One(<<a, h>> \in D) \in {0, 1}
        BY DEF One
      <4> HIDE DEF h
      <4>4. received'[a][h] > 0
        BY <4>1, <4>2, <4>3
      <4> QED
        BY <4>4 DEF h
    <3> QED
      BY <3>1, <3>2, <2>7
  <2>14. ASSUME NEW m \in Messages, NEW h \in Handlers PROVE Move(p, q, D, m, h)
    <3>1. <<m, h>> \in D => Given(q, m, h) /\ ~Given(p, m, h) /\ Owes(p, m, h)
      <4>1. SUFFICES ASSUME m = a, h = b
                     PROVE  Given(q, m, h) /\ ~Given(p, m, h) /\ Owes(p, m, h)
        BY <2>4
      <4> QED
        BY <4>1, <2>9, <1>4 DEF Owes
    <3>2. Owes(q, m, h) => Owes(p, m, h)
      BY <2>3, <2>9 DEF Owes
    <3>3. Given(p, m, h) => Given(q, m, h)
      BY <2>9
    <3> QED
      BY <3>1, <3>2, <3>3, <2>2 DEF Move
  <2>15. \A m \in Messages : MessageMove(m)
    BY <2>2 DEF MessageMove
  <2>16. message' \in [Messages -> MessageRecord]
    BY <2>2, <1>2
  <2>17. q.batch # << >> =>
             /\ Distinct(q.batch) /\ q.h \in 1 .. Len(subscribers)
             /\ \A i \in 1 .. q.h : received'[Head(q.batch)][subscribers[i]] > 0
    BY <2>3, <2>13, <1>3, <2>1
  <2> QED
    BY <1>1, <2>2, <2>3, <2>11, <2>12, <2>14, <2>15, <2>16, <2>17, FlushMoves DEF p
<1> QED
  BY <1>5, <1>6

LEMMA HandlerThrowsKeeps ==
  ASSUME OutboxInv, NEW f \in Flushers, HandlerThrows(f)
  PROVE  OutboxInv'
<1> DEFINE a == Head(flush[f].batch)
           w == CountFailure(a)
<1>1. /\ flush[f].batch # << >> /\ outboxQueue' = outboxQueue /\ subscribers' = subscribers
      /\ Start(f, Tail(flush[f].batch)) /\ message' = [message EXCEPT ![a] = w]
  BY DEF HandlerThrows
<1>2. w \in MessageRecord
  <2>1. flush[f] \in FlushRecord /\ message \in [Messages -> MessageRecord]
    BY DEF OutboxInv, OutboxTypeOK
  <2>2. a \in Messages
    BY <1>1, <2>1 DEF FlushRecord
  <2> QED
    BY <2>1, <2>2 DEF CountFailure, MessageRecord
<1> HIDE DEF w
<1>3. w.status = "PUBLISHED" \/ w = CountFailure(Head(flush[f].batch))
  BY DEF w
<1> QED
  BY <1>1, <1>2, <1>3, NextMessageKeeps

LEMMA OutboxInvNext == OutboxInv /\ [OutboxNext]_outboxVars => OutboxInv'
<1> SUFFICES ASSUME OutboxInv, [OutboxNext]_outboxVars PROVE OutboxInv'
  OBVIOUS
<1>1. CASE \E m \in Messages : queueEvent(m)
  BY <1>1, QueueEventKeeps
<1>2. CASE \E h \in Handlers : subscribe(h)
  BY <1>2, SubscribeKeeps
<1>3. CASE \E f \in Flushers, batchSize \in BatchSizes : flushOutbox(f, batchSize)
  BY <1>3, FlushOutboxKeeps
<1>4. CASE \E f \in Flushers : HandlerDone(f) \/ HandlerThrows(f)
  BY <1>4, HandlerDoneKeeps, HandlerThrowsKeeps
<1>5. CASE UNCHANGED outboxVars
  <2>1. /\ outboxQueue' = outboxQueue /\ message' = message /\ subscribers' = subscribers
        /\ received' = received /\ flush' = flush
    BY <1>5 DEF outboxVars
  <2>2. \A m, h : Givers(m, h)' = Givers(m, h) /\ Owers(m, h)' = Owers(m, h)
    BY <2>1 DEF Givers, Owers, Given, Owes
  <2>3. \A m \in Messages : Tried(m)' /\ \A h \in Handlers : Accounted(m, h)'
    BY <2>1, <2>2 DEF OutboxInv, Tried, Accounted, Settled
  <2>4. \A f \in Flushers : FlushOK(flush[f])'
    BY <2>1 DEF OutboxInv, FlushOK, Distinct
  <2>5. /\ OutboxTypeOK' /\ (Distinct(outboxQueue) /\ Distinct(subscribers))'
        /\ \A i \in 1 .. Len(outboxQueue') : message'[outboxQueue'[i]].status # "NONE"
    BY <2>1 DEF OutboxInv, OutboxTypeOK, Distinct
  <2> QED
    BY <2>3, <2>4, <2>5 DEF OutboxInv
<1> QED
  BY <1>1, <1>2, <1>3, <1>4, <1>5 DEF OutboxNext

\* OutboxInv holds in every reachable state: flushes that overlap, and handlers
\* that subscribe meanwhile, keep the account of what was given to whom.
THEOREM OutboxInvCorrect == OutboxSpec => []OutboxInv
  BY OutboxInvInit, OutboxInvNext, PTL DEF OutboxSpec

\* A handler is given a message four times at most and once more for every
\* flush there can be; and a message is given up after five failures, not
\* before: BoundedRedelivery holds for any number of messages and handlers.
THEOREM BoundedRedeliveryCorrect == OutboxSpec => []BoundedRedelivery
<1>1. OutboxInv => BoundedRedelivery
  <2> SUFFICES ASSUME OutboxInv, NEW m \in Messages
               PROVE  /\ \A h \in Handlers : received[m][h] <= 4 + Cardinality(Flushers)
                      /\ message[m].status = "DEAD_LETTER" => message[m].retryCount >= 5
                      /\ message[m].status = "PENDING" => message[m].retryCount < 5
    BY DEF BoundedRedelivery
  <2>1. Tried(m) /\ message[m] \in MessageRecord /\ received[m] \in [Handlers -> Nat]
    BY DEF OutboxInv, OutboxTypeOK
  <2>2. ASSUME NEW h \in Handlers PROVE received[m][h] <= 4 + Cardinality(Flushers)
    <3> DEFINE G == Cardinality(Givers(m, h))
               O == Cardinality(Owers(m, h))
               N == Cardinality(Flushers)
               x == received[m][h]
               n == message[m].retryCount
    <3>1. G \in Nat /\ O \in Nat /\ N \in Nat /\ G + O <= N /\ x \in Nat /\ n \in Nat
      BY <2>1, GiverFacts DEF MessageRecord
    <3>2. Accounted(m, h)
      BY DEF OutboxInv
    <3>3. IF message[m].status \in Settled THEN x + O <= 4 + N ELSE x <= n + G
      BY <3>2 DEF Accounted
    <3>4. message[m].status \notin Settled => n < 5
      BY <2>1 DEF Tried, MessageRecord, Settled
    <3> HIDE DEF G, O, N, x, n
    <3>5. x <= 4 + N
      BY <3>1, <3>3, <3>4
    <3> QED
      BY <3>5 DEF x, N
  <2> QED
    BY <2>1, <2>2 DEF Tried
<1> QED
  BY <1>1, OutboxInvCorrect, PTL

\* No step brings a settled message back, and a step that publishes one finds
\* that every handler subscribed by then was given it: SettledForGood holds
\* for any number of messages, handlers and flushes.
THEOREM SettledForGoodCorrect == OutboxSpec => SettledForGood
<1> DEFINE Good ==
      \A m \in Messages :
        /\ message[m].status \in Settled => message'[m].status \in Settled
        /\ message[m].status = "PENDING" /\ message'[m].status = "PUBLISHED" =>
            \A h \in ToSet(subscribers) : received[m][h] > 0
<1>1. OutboxInv /\ [OutboxNext]_outboxVars => [Good]_outboxVars
  <2> SUFFICES ASSUME OutboxInv, OutboxNext, NEW m \in Messages
               PROVE  /\ message[m].status \in Settled => message'[m].status \in Settled
                      /\ message[m].status = "PENDING" /\ message'[m].status = "PUBLISHED" =>
                          \A h \in ToSet(subscribers) : received[m][h] > 0
    OBVIOUS
  <2>1. /\ message \in [Messages -> MessageRecord] /\ flush \in [Flushers -> FlushRecord]
        /\ subscribers \in Seq(Handlers)
    BY DEF OutboxInv, OutboxTypeOK
  <2>2. CASE message' = message
    BY <2>2
  <2>3. ASSUME NEW k \in Messages, queueEvent(k)
        PROVE  /\ message[m].status \in Settled => message'[m].status \in Settled
               /\ ~(message[m].status = "PENDING" /\ message'[m].status = "PUBLISHED")
    BY <2>1, <2>3 DEF queueEvent, Settled, MessageRecord
  <2>4. ASSUME NEW f \in Flushers, NEW b \in BatchSizes, flushOutbox(f, b), message' # message
        PROVE  /\ message[m].status \in Settled => message'[m].status \in Settled
               /\ ToSet(subscribers) = {}
    <3>1. /\ subscribers = << >>
          /\ message' = [k \in Messages |->
                IF k \in ToSet(PendingBatch(b))
                THEN [message[k] EXCEPT !.status = "PUBLISHED"] ELSE message[k]]
      BY <2>4 DEF flushOutbox
    <3>2. ToSet(subscribers) = {}
      BY <3>1 DEF ToSet
    <3>3. message'[m] = message[m] \/ message'[m] = [message[m] EXCEPT !.status = "PUBLISHED"]
      BY <3>1
    <3>4. message[m].status \in Settled => message'[m].status \in Settled
      BY <2>1, <3>3 DEF Settled, MessageRecord
    <3> QED
      BY <3>2, <3>4
  <2>5. ASSUME NEW f \in Flushers, HandlerDone(f), message' # message
        PROVE  /\ message[m].status \in Settled => message'[m].status \in Settled
               /\ message[m].status = "PENDING" /\ message'[m].status = "PUBLISHED" =>
                    \A h \in ToSet(subscribers) : received[m][h] > 0
    <3> DEFINE a == Head(flush[f].batch)
    <3>1. /\ flush[f].batch # << >> /\ flush[f].h = Len(subscribers)
          /\ message' = [message EXCEPT ![a].status = "PUBLISHED"]
      BY <2>5 DEF HandlerDone, LastHandler
    <3>2. \A i \in 1 .. Len(subscribers) : received[a][subscribers[i]] > 0
      BY <3>1 DEF OutboxInv, FlushOK
    <3>3. \A h \in ToSet(subscribers) : \E i \in 1 .. Len(subscribers) : h = subscribers[i]
      <4>1. DOMAIN subscribers = 1 .. Len(subscribers)
        BY <2>1
      <4> QED
        BY <4>1 DEF ToSet
    <3> HIDE DEF a
    <3>4. message'[m] = IF m = a THEN [message[m] EXCEPT !.status = "PUBLISHED"] ELSE message[m]
      BY <2>1, <3>1
    <3>5. CASE m = a
      <4>1. message'[m].status = "PUBLISHED"
        BY <2>1, <3>4, <3>5 DEF MessageRecord
      <4> QED
        BY <4>1, <3>2, <3>3, <3>5 DEF Settled
    <3>6. CASE m # a
      BY <3>4, <3>6
    <3> QED
      BY <3>5, <3>6
  <2>6. ASSUME NEW f \in Flushers, HandlerThrows(f)
        PROVE  /\ message[m].status \in Settled => message'[m].status \in Settled
               /\ ~(message[m].status = "PENDING" /\ message'[m].status = "PUBLISHED")
    <3> DEFINE a == Head(flush[f].batch)
    <3>1. message' = [message EXCEPT ![a] = CountFailure(a)]
      BY <2>6 DEF HandlerThrows
    <3>2. message'[m] = IF m = a THEN CountFailure(m) ELSE message[m]
      BY <2>1, <3>1
    <3>3. /\ CountFailure(m).status \in {"DEAD_LETTER", message[m].status}
          /\ CountFailure(m).status # "PENDING" \/ message[m].status = "PENDING"
      BY DEF CountFailure
    <3> HIDE DEF a
    <3> QED
      BY <3>2, <3>3 DEF Settled
  <2>7. CASE \E h \in Handlers : subscribe(h)
    BY <2>2, <2>7 DEF subscribe
  <2> QED
    BY <2>2, <2>3, <2>4, <2>5, <2>6, <2>7 DEF OutboxNext
<1> QED
  BY <1>1, OutboxInvCorrect, PTL DEF OutboxSpec, SettledForGood, Good
----------------------------------------------------------------------------
(* The fulfilment workflow                                                 *)
(*                                                                         *)
(* OverallAgrees is inductive with the types and holds however often a     *)
(* result arrives.  OneAtATime needs results that arrive once and rests on *)
(* InOrder: a result that has not been applied is of the step under way.   *)

StatusOf(st, overall) ==
    /\ overall = "FULFILLED" => \A i \in Steps : st[i] = "COMPLETED"
    /\ overall = "CANCELLED" =>
        /\ \A i \in Steps : st[i] # "COMPLETED"
        /\ \E i \in Steps : st[i] = "FAILED"

StepVectors == [Steps -> StepStatus]

OverallStatus == {"INITIALIZED", "PROCESSING", "FULFILLED", "CANCELLED"}

\* What advanceStep makes of the steps of a workflow, and of its status
AfterSuccess(old, i) ==
    LET st == [old EXCEPT ![i] = "COMPLETED"]
    IN  IF AllCompleted(st) THEN st ELSE StartNext(st)

StatusAfterSuccess(old, i) ==
    IF AllCompleted([old EXCEPT ![i] = "COMPLETED"]) THEN "FULFILLED" ELSE "PROCESSING"

AfterFailure(old, i) == triggerCompensation([old EXCEPT ![i] = "FAILED"])

\* The two ways advanceStep changes one workflow keep types and agreement.
LEMMA SuccessOK ==
  ASSUME NEW old \in StepVectors, NEW i \in Steps
  PROVE  /\ AfterSuccess(old, i) \in StepVectors
         /\ StatusAfterSuccess(old, i) \in OverallStatus
         /\ StatusOf(AfterSuccess(old, i), StatusAfterSuccess(old, i))
<1> DEFINE st == [old EXCEPT ![i] = "COMPLETED"]
<1>1. st \in StepVectors
  BY DEF StepVectors, StepStatus
<1>2. StartNext(st) \in StepVectors
  <2>1. \A j \in Steps : st[j] \in StepStatus /\ "IN_PROGRESS" \in StepStatus
    BY <1>1 DEF StepVectors, StepStatus
  <2> HIDE DEF st
  <2> QED
    BY <2>1 DEF StartNext, StepVectors
<1> HIDE DEF st
<1>3. CASE AllCompleted(st)
  BY <1>1, <1>3 DEF AfterSuccess, StatusAfterSuccess, StatusOf, OverallStatus, AllCompleted, st
<1>4. CASE ~AllCompleted(st)
  BY <1>2, <1>4 DEF AfterSuccess, StatusAfterSuccess, StatusOf, OverallStatus, st
<1> QED
  BY <1>3, <1>4

\* A step that failed: the completed ones are compensated.
LEMMA FailureOK ==
  ASSUME NEW old \in StepVectors, NEW i \in Steps
  PROVE  /\ AfterFailure(old, i) \in StepVectors
         /\ "CANCELLED" \in OverallStatus
         /\ StatusOf(AfterFailure(old, i), "CANCELLED")
<1> DEFINE st == [old EXCEPT ![i] = "FAILED"]
<1>1. \A j \in Steps : st[j] \in StepStatus
  BY DEF StepVectors, StepStatus
<1>2. st[i] = "FAILED"
  BY DEF StepVectors
<1> HIDE DEF st
<1>3. AfterFailure(old, i) = [j \in Steps |-> IF st[j] = "COMPLETED" THEN "COMPENSATED" ELSE st[j]]
  BY DEF AfterFailure, triggerCompensation, st
<1>4. AfterFailure(old, i) \in StepVectors
  BY <1>1, <1>3 DEF StepVectors, StepStatus
<1>5. AfterFailure(old, i)[i] = "FAILED"
  BY <1>2, <1>3
<1>6. \A j \in Steps : AfterFailure(old, i)[j] # "COMPLETED"
  BY <1>3
<1> QED
  BY <1>4, <1>5, <1>6 DEF StatusOf, OverallStatus

\* advanceStep in terms of the above
LEMMA AdvanceCases ==
  ASSUME WorkflowTypeOK, NEW w \in Workflows, NEW i \in Steps, advanceStep(w, i)
  PROVE  \/ /\ step' = [step EXCEPT ![w] = AfterSuccess(step[w], i)]
            /\ overallStatus' = [overallStatus EXCEPT ![w] = StatusAfterSuccess(step[w], i)]
         \/ /\ step' = [step EXCEPT ![w] = AfterFailure(step[w], i)]
            /\ overallStatus' = [overallStatus EXCEPT ![w] = "CANCELLED"]
<1>1. CASE result[w][i] = "SUCCESS"
  BY <1>1 DEF advanceStep, Succeed, AfterSuccess, StatusAfterSuccess
<1>2. CASE result[w][i] # "SUCCESS"
  BY <1>2 DEF advanceStep, Fail, AfterFailure
<1> QED
  BY <1>1, <1>2

Agreement == WorkflowTypeOK /\ OverallAgrees

\* initializeWorkflow leaves every step PENDING.
LEMMA AgreementInit == WorkflowInit => Agreement
<1> SUFFICES ASSUME WorkflowInit PROVE Agreement
  OBVIOUS
<1>1. WorkflowTypeOK
  BY DEF WorkflowInit, WorkflowTypeOK, StepStatus
<1>2. OverallAgrees
  BY DEF WorkflowInit, OverallAgrees
<1> QED
  BY <1>1, <1>2 DEF Agreement

\* Report touches no step; advanceStep is one of the two cases above.
LEMMA AgreementNext == Agreement /\ [WorkflowNext]_workflowVars => Agreement'
<1> SUFFICES ASSUME Agreement, [WorkflowNext]_workflowVars PROVE Agreement'
  OBVIOUS
<1>1. ASSUME NEW w \in Workflows, NEW i \in Steps, NEW r \in {"SUCCESS", "FAILURE"},
             Report(w, i, r)
      PROVE  Agreement'
  <2>1. result' \in [Workflows -> [Steps -> {"NONE", "SUCCESS", "FAILURE"}]]
    BY <1>1 DEF Report, Agreement, WorkflowTypeOK
  <2> QED
    BY <1>1, <2>1 DEF Report, Agreement, WorkflowTypeOK, OverallAgrees
<1>2. ASSUME NEW w \in Workflows, NEW i \in Steps, advanceStep(w, i) PROVE Agreement'
  <2>1. PICK st, overall :
            /\ step' = [step EXCEPT ![w] = st]
            /\ overallStatus' = [overallStatus EXCEPT ![w] = overall]
            /\ st \in StepVectors /\ overall \in OverallStatus /\ StatusOf(st, overall)
    <3>1. step[w] \in StepVectors
      BY DEF Agreement, WorkflowTypeOK, StepVectors
    <3> QED
      BY <1>2, <3>1, AdvanceCases, SuccessOK, FailureOK DEF Agreement
  <2>2. result' = result /\ applied' = applied \cup {<<w, i>>}
    BY <1>2 DEF advanceStep
  <2>3. WorkflowTypeOK'
    <3>1. step' \in [Workflows -> [Steps -> StepStatus]]
      BY <2>1 DEF Agreement, WorkflowTypeOK, StepVectors
    <3>2. overallStatus' \in [Workflows -> OverallStatus]
      BY <2>1 DEF Agreement, WorkflowTypeOK, OverallStatus
    <3> QED
      BY <2>2, <3>1, <3>2 DEF Agreement, WorkflowTypeOK, OverallStatus
  <2>4. \A v \in Workflows : StatusOf(step'[v], overallStatus'[v])
    BY <2>1 DEF Agreement, WorkflowTypeOK, OverallAgrees, StatusOf
  <2> QED
    BY <2>3, <2>4 DEF Agreement, OverallAgrees, StatusOf
<1>3. CASE UNCHANGED workflowVars
  BY <1>3 DEF workflowVars, Agreement, WorkflowTypeOK, OverallAgrees
<1> QED
  BY <1>1, <1>2, <1>3 DEF WorkflowNext

\* Types and agreement of overallStatus with the steps hold in every state that
\* advanceStep and the services can reach.
THEOREM AgreementCorrect == WorkflowSpec => []Agreement
  BY AgreementInit, AgreementNext, PTL DEF WorkflowSpec

\* A FULFILLED workflow has every step completed and a CANCELLED one has every
\* completed step compensated, in whatever order and however often results
\* reach advanceStep.
THEOREM OverallAgreesCorrect == WorkflowSpec => []OverallAgrees
  BY AgreementCorrect, PTL DEF Agreement

----------------------------------------------------------------------------
\* When each result arrives once: the steps before the first that is not
\* finished are finished, those after it have not begun, and a result that
\* was reported and not applied is of that first step.
Done == {"COMPLETED", "COMPENSATED"}

Once == Workflows \ Redeliver

Prefix(st) == \A i, j \in Steps : i < j /\ st[j] # "PENDING" => st[i] \in Done

Live(w, i) == step[w][i] = "IN_PROGRESS" \/ (i = 1 /\ overallStatus[w] = "INITIALIZED")

InOrder ==
    \A w \in Once :
        /\ Prefix(step[w])
        /\ overallStatus[w] = "INITIALIZED" => \A i \in Steps : step[w][i] = "PENDING"
        /\ \A i \in Steps :
            /\ step[w][i] \in {"PENDING", "IN_PROGRESS"} => <<w, i>> \notin applied
            /\ result[w][i] # "NONE" /\ <<w, i>> \notin applied => Live(w, i)

OrderInv == Agreement /\ InOrder

\* The step that is under way is the first that is not finished.
LEMMA LiveIsFirst ==
  ASSUME OrderInv, NEW w \in Once, NEW i \in Steps, Live(w, i)
  PROVE  /\ step[w][i] \in {"PENDING", "IN_PROGRESS"}
         /\ \A j \in Steps : j < i => step[w][j] \in Done
         /\ \A j \in Steps : i < j => step[w][j] = "PENDING"
<1>1. step[w][i] \in {"PENDING", "IN_PROGRESS"}
  BY DEF Live, OrderInv, InOrder
<1>2. step[w][i] \notin Done
  BY <1>1 DEF Done
<1>3. \A j \in Steps : i < j => step[w][j] = "PENDING"
  BY <1>2 DEF OrderInv, InOrder, Prefix
<1>4. \A j \in Steps : j < i => step[w][j] \in Done
  <2>1. CASE step[w][i] = "IN_PROGRESS"
    BY <2>1 DEF OrderInv, InOrder, Prefix
  <2>2. CASE step[w][i] # "IN_PROGRESS"
    <3>1. i = 1
      BY <2>2 DEF Live
    <3> QED
      BY <3>1 DEF Steps
  <2> QED
    BY <2>1, <2>2
<1> QED
  BY <1>1, <1>3, <1>4

\* What advanceStep makes of steps whose first unfinished one is i
LEMMA SuccessInOrder ==
  ASSUME NEW old \in StepVectors, NEW i \in Steps,
         \A j \in Steps : j < i => old[j] \in Done,
         \A j \in Steps : i < j => old[j] = "PENDING"
  PROVE  /\ Prefix(AfterSuccess(old, i))
         /\ AfterSuccess(old, i)[i] = "COMPLETED"
         /\ \A j \in Steps : j < i => AfterSuccess(old, i)[j] \in Done
         /\ \A j \in Steps : i < j => AfterSuccess(old, i)[j] \in {"PENDING", "IN_PROGRESS"}
<1> USE WorkflowAssumption DEF Steps
<1> DEFINE st == [old EXCEPT ![i] = "COMPLETED"]
<1>1. /\ st[i] = "COMPLETED"
      /\ \A j \in Steps : j < i => st[j] = old[j]
      /\ \A j \in Steps : i < j => st[j] = old[j]
  BY DEF StepVectors
<1> HIDE DEF st
<1>2. /\ \A j \in Steps : j <= i => st[j] \in Done
      /\ \A j \in Steps : i < j => st[j] = "PENDING"
  <2>1. \A j \in Steps : j <= i => j = i \/ j < i
    OBVIOUS
  <2>2. "COMPLETED" \in Done
    BY DEF Done
  <2> QED
    BY <1>1, <2>1, <2>2
<1>3. CASE AllCompleted(st)
  <2>1. AfterSuccess(old, i) = st
    BY <1>3 DEF AfterSuccess, st
  <2>2. \A j \in Steps : st[j] = "COMPLETED" /\ ~(i < j)
    BY <1>2, <1>3 DEF AllCompleted
  <2>3. Prefix(st)
    BY <2>2 DEF Prefix, Done
  <2> QED
    BY <1>2, <2>1, <2>2, <2>3
<1>4. CASE ~AllCompleted(st)
  <2>0. AfterSuccess(old, i) = StartNext(st)
    BY <1>4 DEF AfterSuccess, st
  <2> DEFINE new == StartNext(st)
  <2>1. \A j \in Steps : j <= i => new[j] = st[j]
    BY <1>2 DEF StartNext, Done
  <2>2. \A j \in Steps : i < j => new[j] \in {"PENDING", "IN_PROGRESS"}
    BY <1>2 DEF StartNext
  <2>3. \A j \in Steps : i + 1 < j => new[j] = "PENDING"
    <3> SUFFICES ASSUME NEW j \in Steps, i + 1 < j PROVE new[j] = "PENDING"
      OBVIOUS
    <3>1. i + 1 \in 1 .. j - 1 /\ i + 1 \in Steps /\ st[i + 1] = "PENDING"
      BY <1>2
    <3> QED
      BY <3>1, <1>2 DEF StartNext
  <2> HIDE DEF new
  <2>4. Prefix(new)
    <3> SUFFICES ASSUME NEW a \in Steps, NEW b \in Steps, a < b, new[b] # "PENDING"
                 PROVE  new[a] \in Done
      BY DEF Prefix
    <3>1. ~(i + 1 < b)
      BY <2>3
    <3>2. a <= i
      BY <3>1
    <3> QED
      BY <1>2, <2>1, <3>2
  <2>5. new[i] = "COMPLETED"
    BY <1>1, <2>1
  <2>6. \A j \in Steps : j < i => new[j] \in Done
    BY <1>2, <2>1
  <2> QED
    BY <2>0, <2>2, <2>4, <2>5, <2>6 DEF new
<1> QED
  BY <1>3, <1>4

\* The same for a failure of the step under way.
LEMMA FailureInOrder ==
  ASSUME NEW old \in StepVectors, NEW i \in Steps,
         \A j \in Steps : j < i => old[j] \in Done,
         \A j \in Steps : i < j => old[j] = "PENDING"
  PROVE  /\ Prefix(AfterFailure(old, i))
         /\ AfterFailure(old, i)[i] = "FAILED"
         /\ \A j \in Steps : j < i => AfterFailure(old, i)[j] \in Done
         /\ \A j \in Steps : i < j => AfterFailure(old, i)[j] = "PENDING"
<1> USE WorkflowAssumption DEF Steps
<1> DEFINE new == AfterFailure(old, i)
<1>1. new[i] = "FAILED"
  BY DEF AfterFailure, triggerCompensation, StepVectors
<1>2. \A j \in Steps : j < i => new[j] \in Done
  BY DEF AfterFailure, triggerCompensation, StepVectors, Done
<1>3. \A j \in Steps : i < j => new[j] = "PENDING"
  BY DEF AfterFailure, triggerCompensation, StepVectors
<1> HIDE DEF new
<1>4. Prefix(new)
  <2> SUFFICES ASSUME NEW a \in Steps, NEW b \in Steps, a < b, new[b] # "PENDING"
               PROVE  new[a] \in Done
    BY DEF Prefix
  <2>1. ~(i < b)
    BY <1>3
  <2> QED
    BY <1>2, <2>1
<1> QED
  BY <1>1, <1>2, <1>3, <1>4 DEF new

\* No step has begun and no result was reported.
LEMMA OrderInit == WorkflowInit => OrderInv
<1> SUFFICES ASSUME WorkflowInit PROVE InOrder
  BY AgreementInit DEF OrderInv
<1>1. \A w \in Once, i \in Steps : step[w][i] = "PENDING" /\ result[w][i] = "NONE"
  BY DEF WorkflowInit, Once
<1>2. applied = {}
  BY DEF WorkflowInit
<1>3. \A w \in Once : Prefix(step[w])
  BY <1>1 DEF Prefix
<1> QED
  BY <1>1, <1>2, <1>3 DEF InOrder

\* A service reports the step it was given.
LEMMA OrderReport ==
  ASSUME OrderInv, NEW w \in Workflows, NEW i \in Steps, NEW r \in {"SUCCESS", "FAILURE"},
         Report(w, i, r)
  PROVE  InOrder'
<1>1. Live(w, i)
  BY DEF Report, Live
<1>2. /\ step' = step
      /\ overallStatus' = overallStatus
      /\ applied' = applied
      /\ result' = [result EXCEPT ![w][i] = r]
  BY DEF Report
<1>3. \A v \in Once, j \in Steps : result'[v][j] # "NONE" =>
          result[v][j] # "NONE" \/ (v = w /\ j = i)
  BY <1>2 DEF OrderInv, Agreement, WorkflowTypeOK, Once
<1>4. \A v \in Once, j \in Steps :
          result'[v][j] # "NONE" /\ <<v, j>> \notin applied => Live(v, j)
  BY <1>1, <1>3 DEF OrderInv, InOrder
<1> QED
  BY <1>2, <1>4 DEF OrderInv, InOrder, Live

\* advanceStep finishes the step under way and starts the next.
LEMMA OrderAdvance ==
  ASSUME OrderInv, NEW w \in Once, NEW i \in Steps, advanceStep(w, i)
  PROVE  InOrder'
<1>1. /\ result[w][i] # "NONE"
      /\ <<w, i>> \notin applied
      /\ result' = result
      /\ applied' = applied \cup {<<w, i>>}
      /\ w \in Workflows
  BY DEF advanceStep, Once
<1>2. Live(w, i)
  BY <1>1 DEF OrderInv, InOrder
<1>3. step[w] \in StepVectors
  BY <1>1 DEF OrderInv, Agreement, WorkflowTypeOK, StepVectors
<1>4. /\ step[w][i] \in {"PENDING", "IN_PROGRESS"}
      /\ \A j \in Steps : j < i => step[w][j] \in Done
      /\ \A j \in Steps : i < j => step[w][j] = "PENDING"
  BY <1>2, LiveIsFirst
<1>5. PICK st, overall :
          /\ step' = [step EXCEPT ![w] = st]
          /\ overallStatus' = [overallStatus EXCEPT ![w] = overall]
          /\ overall # "INITIALIZED"
          /\ Prefix(st)
          /\ st[i] \notin {"PENDING", "IN_PROGRESS"}
          /\ \A j \in Steps : j < i => st[j] \in Done
          /\ \A j \in Steps : i < j => st[j] \in {"PENDING", "IN_PROGRESS"}
  <2>1. CASE /\ step' = [step EXCEPT ![w] = AfterSuccess(step[w], i)]
             /\ overallStatus' = [overallStatus EXCEPT ![w] = StatusAfterSuccess(step[w], i)]
    <3> DEFINE new == AfterSuccess(step[w], i)
               overall == StatusAfterSuccess(step[w], i)
    <3>1. overall # "INITIALIZED"
      BY DEF StatusAfterSuccess
    <3>2. /\ Prefix(new)
          /\ new[i] = "COMPLETED"
          /\ \A j \in Steps : j < i => new[j] \in Done
          /\ \A j \in Steps : i < j => new[j] \in {"PENDING", "IN_PROGRESS"}
      BY <1>3, <1>4, SuccessInOrder
    <3> HIDE DEF new, overall
    <3>3. /\ step' = [step EXCEPT ![w] = new]
          /\ overallStatus' = [overallStatus EXCEPT ![w] = overall]
          /\ new[i] \notin {"PENDING", "IN_PROGRESS"}
      BY <2>1, <3>2 DEF new, overall
    <3> WITNESS new, overall
    <3> QED
      BY <3>1, <3>2, <3>3
  <2>2. CASE /\ step' = [step EXCEPT ![w] = AfterFailure(step[w], i)]
             /\ overallStatus' = [overallStatus EXCEPT ![w] = "CANCELLED"]
    <3> DEFINE new == AfterFailure(step[w], i)
    <3>1. /\ Prefix(new)
          /\ new[i] = "FAILED"
          /\ \A j \in Steps : j < i => new[j] \in Done
          /\ \A j \in Steps : i < j => new[j] \in {"PENDING", "IN_PROGRESS"}
      BY <1>3, <1>4, FailureInOrder
    <3> HIDE DEF new
    <3>2. step' = [step EXCEPT ![w] = new] /\ new[i] \notin {"PENDING", "IN_PROGRESS"}
      BY <2>2, <3>1 DEF new
    <3> WITNESS new, "CANCELLED"
    <3> QED
      BY <2>2, <3>1, <3>2
  <2> QED
    BY <1>1, <2>1, <2>2, AdvanceCases DEF OrderInv, Agreement
<1>6. /\ step'[w] = st /\ overallStatus'[w] = overall
      /\ \A v \in Once : v # w =>
            step'[v] = step[v] /\ overallStatus'[v] = overallStatus[v]
  BY <1>1, <1>5 DEF OrderInv, Agreement, WorkflowTypeOK, Once
\* No other step of w has a result that is not applied.
<1>7. \A j \in Steps : j # i => result[w][j] = "NONE" \/ <<w, j>> \in applied
  <2> SUFFICES ASSUME NEW j \in Steps, j # i, result[w][j] # "NONE", <<w, j>> \notin applied
               PROVE  FALSE
    OBVIOUS
  <2>1. Live(w, j)
    BY DEF OrderInv, InOrder
  <2>2. /\ step[w][j] \in {"PENDING", "IN_PROGRESS"}
        /\ \A k \in Steps : k < j => step[w][k] \in Done
    BY <2>1, LiveIsFirst
  <2>3. i < j \/ j < i
    BY WorkflowAssumption DEF Steps
  <2> QED
    BY <1>4, <2>2, <2>3 DEF Done
<1>8. ASSUME NEW j \in Steps
      PROVE  /\ st[j] \in {"PENDING", "IN_PROGRESS"} => <<w, j>> \notin applied'
             /\ result'[w][j] # "NONE" => <<w, j>> \in applied'
  <2>1. j # i /\ st[j] \in {"PENDING", "IN_PROGRESS"} => i < j
    BY <1>5, WorkflowAssumption DEF Steps, Done
  <2>2. i < j => <<w, j>> \notin applied
    BY <1>4 DEF OrderInv, InOrder
  <2> QED
    BY <1>1, <1>5, <1>7, <2>1, <2>2
<1>9. ASSUME NEW v \in Once, v # w, NEW j \in Steps
      PROVE  /\ step'[v][j] \in {"PENDING", "IN_PROGRESS"} => <<v, j>> \notin applied'
             /\ result'[v][j] # "NONE" /\ <<v, j>> \notin applied' => Live(v, j)'
  BY <1>1, <1>6, <1>9 DEF OrderInv, InOrder, Live
<1>10. ASSUME NEW v \in Once
       PROVE  /\ Prefix(step'[v])
              /\ overallStatus'[v] = "INITIALIZED" => \A j \in Steps : step'[v][j] = "PENDING"
  <2>1. CASE v = w
    BY <1>5, <1>6, <2>1
  <2>2. CASE v # w
    BY <1>6, <2>2 DEF OrderInv, InOrder
  <2> QED
    BY <2>1, <2>2
<1>11. \A v \in Once, j \in Steps :
          /\ step'[v][j] \in {"PENDING", "IN_PROGRESS"} => <<v, j>> \notin applied'
          /\ result'[v][j] # "NONE" /\ <<v, j>> \notin applied' => Live(v, j)'
  BY <1>6, <1>8, <1>9
<1>12. \A v \in Once : Prefix(step[v])'
  BY <1>10 DEF Prefix
<1> QED
  BY <1>10, <1>11, <1>12 DEF InOrder

\* advanceStep on a workflow whose results may arrive again leaves the others
\* alone.
LEMMA OrderOther ==
  ASSUME OrderInv, NEW w \in Redeliver, w \in Workflows, NEW i \in Steps, advanceStep(w, i)
  PROVE  InOrder'
<1>1. \A v \in Once : v \in Workflows /\ v # w
  BY DEF Once
<1>2. result' = result /\ applied' = applied \cup {<<w, i>>}
  BY DEF advanceStep
<1>3. \A v \in Once : step'[v] = step[v] /\ overallStatus'[v] = overallStatus[v]
  BY <1>1, AdvanceCases DEF OrderInv, Agreement, WorkflowTypeOK
<1>4. \A v \in Once, j \in Steps : <<v, j>> \in applied' <=> <<v, j>> \in applied
  BY <1>1, <1>2
<1>5. \A v \in Once, j \in Steps : Live(v, j)' <=> Live(v, j)
  BY <1>3 DEF Live
<1>6. \A v \in Once : Prefix(step[v])'
  BY <1>3 DEF OrderInv, InOrder, Prefix
<1> QED
  BY <1>2, <1>3, <1>4, <1>5, <1>6 DEF OrderInv, InOrder

\* Every step keeps the order of the workflows whose results arrive once.
LEMMA OrderNext == OrderInv /\ [WorkflowNext]_workflowVars => OrderInv'
<1> SUFFICES ASSUME OrderInv, [WorkflowNext]_workflowVars PROVE OrderInv'
  OBVIOUS
<1>1. Agreement'
  BY AgreementNext DEF OrderInv
<1>2. CASE UNCHANGED workflowVars
  BY <1>2 DEF workflowVars, OrderInv, InOrder, Prefix, Live, Agreement, WorkflowTypeOK, OverallAgrees
<1>3. ASSUME NEW w \in Workflows, NEW i \in Steps, advanceStep(w, i) PROVE InOrder'
  <2>1. w \in Once \/ w \in Redeliver
    BY DEF Once
  <2> QED
    BY <1>3, <2>1, OrderAdvance, OrderOther
<1> QED
  BY <1>1, <1>2, <1>3, OrderReport DEF WorkflowNext, OrderInv

\* A workflow whose results arrive once executes its steps one at a time and
\* in order (advanceStep starts the first PENDING step only when the one
\* before has succeeded), for any number of steps, whatever happens to other
\* workflows.
THEOREM OneAtATimeCorrect == WorkflowSpec => []OneAtATime
<1>1. OrderInv => OneAtATime
  BY DEF OrderInv, InOrder, Prefix, Done, Once, OneAtATime
<1> QED
  BY <1>1, OrderInit, OrderNext, PTL DEF WorkflowSpec
=============================================================================

------------------------------ MODULE Billing ------------------------------
(***************************************************************************)
(* BillingService.createInvoice and processPayment over BillingRepository, *)
(* with the journal of DoubleEntryLedgerService.                           *)
(*                                                                         *)
(* An action is the code between two awaits, so an invoice and its posting *)
(* are two steps, and a payment is recorded, applied to the invoice and    *)
(* posted in three.  The accounts are seeded once and never change, and an *)
(* invoice is never deleted: the awaits of listAccounts and of             *)
(* findInvoiceById are part of the step that follows.  The repository      *)
(* hands out its own invoice object, so a payment adds to the amounts of   *)
(* that moment, not of the lookup.                                         *)
(***************************************************************************)
EXTENDS Integers, Sequences, FiniteSets, Functions

CONSTANTS
    Invoices,       \* calls of createInvoice
    Payments,       \* calls of processPayment
    Totals,         \* subtotalCents + taxCents
    Amounts,        \* amountCents
    Adjustments,    \* other calls of postJournalEntry
    Adjustment      \* Adjustment[a]: the lines of a, balanced or not

\* CreateInvoiceSchema and ProcessPaymentSchema accept positive amounts only.
ASSUME BillingAssumption ==
    /\ Totals \subseteq Nat \ {0}
    /\ Amounts \subseteq Nat \ {0}

\* A process has received finitely many calls.
ASSUME CallsAssumption == IsFiniteSet(Invoices) /\ IsFiniteSet(Payments)

\* The account numbers of seedDefaultAccounts
Accounts == {"1010", "1200", "1300", "2010", "4010", "5010"}

\* JournalEntryLine: the amounts are not validated
Line == [account : Accounts, debit : Int, credit : Int]

ASSUME LinesAssumption == Adjustment \in [Adjustments -> Seq(Line)]

VARIABLES
    invoice,        \* invoice[i]: [status, posted, total, paid, due]
    payment,        \* payment[p]: [step, invoice, amount]
    journals        \* the journal entries [type, ref, lines], in the order posted

vars == <<invoice, payment, journals>>

\* Calls that have not been made
NoInvoice == [status |-> "NONE"]
NoPayment == [step |-> "NONE"]

Init ==
    /\ invoice = [i \in Invoices |-> NoInvoice]
    /\ payment = [p \in Payments |-> NoPayment]
    /\ journals = << >>

DebitLine(account, amount) == [account |-> account, debit |-> amount, credit |-> 0]
CreditLine(account, amount) == [account |-> account, debit |-> 0, credit |-> amount]

\* totalDebits and totalCredits
Debits(lines) == SumFunctionOnSet([k \in DOMAIN lines |-> lines[k].debit], DOMAIN lines)
Credits(lines) == SumFunctionOnSet([k \in DOMAIN lines |-> lines[k].credit], DOMAIN lines)

Posted(type, ref) ==
    \E k \in DOMAIN journals : journals[k].type = type /\ journals[k].ref = ref

----------------------------------------------------------------------------
(* Variants of the definitions below, each with one plausible mistake.     *)

\* The amount replaces what was paid before.
ApplyOverwriting(inv, amount) == [inv EXCEPT !.paid = amount, !.due = inv.total - amount,
    !.status = IF inv.total - amount <= 0 THEN "PAID" ELSE "PARTIALLY_PAID"]

\* due goes below zero and is compared with zero.
ApplyUnclamped(inv, amount) ==
    LET due == inv.total - inv.paid - amount
    IN  [inv EXCEPT !.paid = inv.paid + amount, !.due = due,
                    !.status = IF due = 0 THEN "PAID" ELSE "PARTIALLY_PAID"]

\* Two credits of one amount: refused by the ledger, after the payment was
\* captured.
TwoCredits(amount) == <<CreditLine("1010", amount), CreditLine("1200", amount)>>

----------------------------------------------------------------------------
(* DoubleEntryLedgerService                                                *)

\* `if (totalDebits !== totalCredits)`: UnbalancedLedgerException
Balanced(lines) == Debits(lines) = Credits(lines)

recordJournalTransaction(type, ref, lines) ==
    journals' = Append(journals, [type |-> type, ref |-> ref, lines |-> lines])

\* An entry that is not balanced is refused and leaves the journal alone.
postJournalEntry(type, ref, lines) ==
    IF Balanced(lines) THEN recordJournalTransaction(type, ref, lines)
                       ELSE UNCHANGED journals

\* external: a caller of the ledger other than BillingService
adjust(a) ==
    /\ postJournalEntry("ADJUSTMENT", a, Adjustment[a])
    /\ UNCHANGED <<invoice, payment>>

----------------------------------------------------------------------------
(* createInvoice                                                           *)

\* up to `await this.billingRepo.createInvoice`
createInvoice(i, total) ==
    /\ invoice[i] = NoInvoice
    /\ invoice' = [invoice EXCEPT ![i] = [status |-> "ISSUED", posted |-> FALSE,
            total |-> total, paid |-> 0, due |-> total]]
    /\ UNCHANGED <<payment, journals>>

\* Accounts Receivable Debit, Fulfillment Revenue Credit
InvoiceLines(total) == <<DebitLine("1200", total), CreditLine("4010", total)>>

\* createInvoice goes on
PostInvoice(i) ==
    /\ invoice[i] # NoInvoice
    /\ ~invoice[i].posted
    /\ postJournalEntry("INVOICE", i, InvoiceLines(invoice[i].total))
    /\ invoice' = [invoice EXCEPT ![i].posted = TRUE]
    /\ UNCHANGED payment

----------------------------------------------------------------------------
(* processPayment                                                          *)

\* up to `await this.billingRepo.recordPayment`.  NotFoundException changes
\* nothing.
processPayment(p, i, amount) ==
    /\ payment[p] = NoPayment
    /\ invoice[i] # NoInvoice
    /\ payment' = [payment EXCEPT ![p] =
            [step |-> "CAPTURED", invoice |-> i, amount |-> amount]]
    /\ UNCHANGED <<invoice, journals>>

\* What the payment does to the invoice object
Apply(inv, amount) ==
    LET paid == inv.paid + amount
        due == IF inv.total > paid THEN inv.total - paid ELSE 0
    IN  [inv EXCEPT !.paid = paid, !.due = due,
                    !.status = IF due = 0 THEN "PAID" ELSE "PARTIALLY_PAID"]

ApplyPayment(p) ==
    /\ payment[p].step = "CAPTURED"
    /\ invoice' = [invoice EXCEPT ![payment[p].invoice] = Apply(@, payment[p].amount)]
    /\ payment' = [payment EXCEPT ![p].step = "APPLIED"]
    /\ UNCHANGED journals

\* Cash Inflow Debit, Accounts Receivable Credit
PaymentLines(amount) == <<DebitLine("1010", amount), CreditLine("1200", amount)>>

PostPayment(p) ==
    /\ payment[p].step = "APPLIED"
    /\ postJournalEntry("PAYMENT", p, PaymentLines(payment[p].amount))
    /\ payment' = [payment EXCEPT ![p].step = "DONE"]
    /\ UNCHANGED invoice

----------------------------------------------------------------------------
Next ==
    \/ \E a \in Adjustments : ~Posted("ADJUSTMENT", a) /\ adjust(a)
    \/ \E i \in Invoices : PostInvoice(i) \/ \E total \in Totals : createInvoice(i, total)
    \/ \E p \in Payments :
        \/ \E i \in Invoices, amount \in Amounts : processPayment(p, i, amount)
        \/ ApplyPayment(p)
        \/ PostPayment(p)

Spec == Init /\ [][Next]_vars

\* The event loop runs every continuation: a call that was made goes on.
Fairness ==
    /\ \A i \in Invoices : WF_vars(PostInvoice(i))
    /\ \A p \in Payments : WF_vars(ApplyPayment(p)) /\ WF_vars(PostPayment(p))

FairSpec == Spec /\ Fairness

----------------------------------------------------------------------------
(* Properties                                                              *)

Issued == {i \in Invoices : invoice[i] # NoInvoice}

Invoice == [status : {"ISSUED", "PARTIALLY_PAID", "PAID"}, posted : BOOLEAN,
            total : Totals, paid : Nat, due : Nat]
Payment == [step : {"CAPTURED", "APPLIED", "DONE"}, invoice : Invoices, amount : Amounts]

\* What was paid and what is due never go negative, and a payment is captured
\* only for an invoice that exists.
TypeOK ==
    /\ invoice \in [Invoices -> Invoice \cup {NoInvoice}]
    /\ payment \in [Payments -> Payment \cup {NoPayment}]
    /\ \A p \in Payments : payment[p] # NoPayment => payment[p].invoice \in Issued

\* The status and the amount due that processPayment leaves behind agree with
\* what was paid, under any interleaving of payments and over-payment.
StatusAgrees ==
    \A i \in Issued :
        LET inv == invoice[i]
        IN  /\ inv.status = "ISSUED" <=> inv.paid = 0
            /\ inv.status = "PAID" <=> inv.paid >= inv.total
            /\ inv.due = 0 <=> inv.status = "PAID"
            /\ inv.paid < inv.total => inv.paid + inv.due = inv.total

\* An invoice that is PAID stays PAID and owes nothing, whatever payments are
\* still under way.
PaidIsFinal ==
    [][\A i \in Issued :
        invoice[i].status = "PAID" => invoice'[i].status = "PAID" /\ invoice'[i].due = 0]_vars

\* What a payment has added to invoice i
AppliedTo(i) ==
    [p \in Payments |->
        IF payment[p].step \in {"APPLIED", "DONE"} /\ payment[p].invoice = i
        THEN payment[p].amount ELSE 0]

\* No payment is lost or counted twice by the payments of the same invoice
\* that overlap with it: what is paid is the sum of what was captured, less
\* the payments that are still to be applied.
NoPaymentLost ==
    \A i \in Issued : invoice[i].paid = SumFunctionOnSet(AppliedTo(i), Payments)

\* The debits and the credits of the whole journal
AllDebits ==
    SumFunctionOnSet([k \in DOMAIN journals |-> Debits(journals[k].lines)], DOMAIN journals)
AllCredits ==
    SumFunctionOnSet([k \in DOMAIN journals |-> Credits(journals[k].lines)], DOMAIN journals)

\* The trial balance: all debits ever posted equal all credits, the refused
\* adjustments leaving no trace.
TrialBalance == AllDebits = AllCredits

\* What one entry adds to an account
Net(lines, account) ==
    SumFunctionOnSet(
        [k \in DOMAIN lines |->
            IF lines[k].account = account THEN lines[k].debit - lines[k].credit ELSE 0],
        DOMAIN lines)

\* What the invoices and the payments add to an account
Balance(account) ==
    SumFunctionOnSet(
        [k \in DOMAIN journals |->
            IF journals[k].type # "ADJUSTMENT" THEN Net(journals[k].lines, account) ELSE 0],
        DOMAIN journals)

AllPosted ==
    /\ \A i \in Issued : invoice[i].posted
    /\ \A p \in Payments : payment[p].step \in {"NONE", "DONE"}

Owed == [i \in Issued |-> invoice[i].total - invoice[i].paid]

\* Whenever no call is under way, the receivables account of the journal is,
\* other callers' entries aside, what the invoices say customers owe, less
\* what they paid in excess.
ReceivablesAgree == AllPosted => Balance("1200") = SumFunctionOnSet(Owed, Issued)

\* The books agree with one another: payments with invoices, debits with
\* credits, and the receivables account with what is owed.
BooksAgree == NoPaymentLost /\ TrialBalance /\ ReceivablesAgree

\* A payment that was captured is on the journal in the end: no call stops
\* between the capture and the posting.
CapturedIsPosted == \A p \in Payments : payment[p] # NoPayment ~> Posted("PAYMENT", p)
=============================================================================

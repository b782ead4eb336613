--------------------------- MODULE BillingProofs ---------------------------
(***************************************************************************)
(* Invoices, payments and the journal for any number of calls and any      *)
(* positive amounts.                                                       *)
(***************************************************************************)
EXTENDS Billing, Sums, SequenceTheorems, TLAPS

InvoiceOK(inv) ==
    /\ inv.status = "ISSUED" <=> inv.paid = 0
    /\ inv.status = "PAID" <=> inv.paid >= inv.total
    /\ inv.due = 0 <=> inv.status = "PAID"
    /\ inv.paid < inv.total => inv.paid + inv.due = inv.total

\* What Apply makes of an invoice: an invoice of the right type whose status
\* and amounts agree, with more paid than before and PAID if it was PAID.
LEMMA ApplyOK ==
  ASSUME NEW inv \in Invoice, NEW amount \in Amounts
  PROVE  /\ Apply(inv, amount) \in Invoice
         /\ InvoiceOK(Apply(inv, amount))
         /\ Apply(inv, amount) # NoInvoice
         /\ Apply(inv, amount).posted = inv.posted
         /\ inv.paid >= inv.total =>
              Apply(inv, amount).status = "PAID" /\ Apply(inv, amount).due = 0
<1> DEFINE paid == inv.paid + amount
           due == IF inv.total > paid THEN inv.total - paid ELSE 0
           status == IF due = 0 THEN "PAID" ELSE "PARTIALLY_PAID"
           new == Apply(inv, amount)
<1>0. amount \in Nat /\ amount > 0
  BY BillingAssumption
<1>1. inv.total \in Totals /\ inv.total \in Nat /\ inv.total > 0 /\ inv.paid \in Nat
  <2>1. inv.total \in Totals /\ inv.paid \in Nat
    BY DEF Invoice
  <2>2. \A t \in Totals : t \in Nat /\ t > 0
    BY BillingAssumption
  <2> QED
    BY <2>1, <2>2
<1>2. paid \in Nat /\ due \in Nat /\ paid > 0
  BY <1>0, <1>1
<1>3. status \in {"ISSUED", "PARTIALLY_PAID", "PAID"}
  OBVIOUS
<1>4. new = [inv EXCEPT !.paid = paid, !.due = due, !.status = status]
  BY DEF Apply
<1>5. inv = [status |-> inv.status, posted |-> inv.posted, total |-> inv.total,
             paid |-> inv.paid, due |-> inv.due]
  BY DEF Invoice
<1>6. /\ new = [status |-> status, posted |-> inv.posted, total |-> inv.total,
               paid |-> paid, due |-> due]
      /\ inv.posted \in BOOLEAN
  BY <1>4, <1>5 DEF Invoice
<1>7. /\ new.status = status
      /\ new.posted = inv.posted
      /\ new.total = inv.total
      /\ new.paid = paid
      /\ new.due = due
  BY <1>6
<1>8. new \in Invoice
  BY <1>1, <1>2, <1>3, <1>6 DEF Invoice
<1>9. new # NoInvoice
  BY <1>2, <1>7 DEF NoInvoice
<1>10. InvoiceOK(new)
  BY <1>0, <1>1, <1>2, <1>7 DEF InvoiceOK
<1>11. inv.paid >= inv.total => new.status = "PAID" /\ new.due = 0
  BY <1>0, <1>1, <1>7
<1> QED
  BY <1>7, <1>8, <1>9, <1>10, <1>11

----------------------------------------------------------------------------
\* StatusAgrees with the types it needs is inductive.
Inv == TypeOK /\ StatusAgrees

\* Before any call there is no invoice and no payment.
LEMMA InvInit == Init => Inv
  BY DEF Init, Inv, TypeOK, StatusAgrees, Issued

\* createInvoice stores an invoice of which nothing is paid.
LEMMA CreateInv ==
  ASSUME Inv, NEW i \in Invoices, NEW total \in Totals, createInvoice(i, total)
  PROVE  Inv'
<1> DEFINE new == [status |-> "ISSUED", posted |-> FALSE, total |-> total,
                   paid |-> 0, due |-> total]
<1>1. total \in Nat /\ total > 0
  BY BillingAssumption
<1>2. new \in Invoice
  BY <1>1 DEF Invoice
<1>3. new # NoInvoice /\ InvoiceOK(new)
  BY <1>1 DEF NoInvoice, InvoiceOK
<1>4. invoice' = [invoice EXCEPT ![i] = new] /\ payment' = payment
  BY DEF createInvoice
<1> HIDE DEF new
<1>5. TypeOK'
  BY <1>2, <1>3, <1>4 DEF Inv, TypeOK, Issued
<1>6. \A j \in Issued' : InvoiceOK(invoice'[j])
  BY <1>3, <1>4 DEF Inv, TypeOK, StatusAgrees, Issued, InvoiceOK
<1> QED
  BY <1>5, <1>6 DEF Inv, StatusAgrees, InvoiceOK

\* PostInvoice changes nothing an invoice owes.
LEMMA PostInvoiceInv ==
  ASSUME Inv, NEW i \in Invoices, PostInvoice(i)
  PROVE  Inv'
<1> DEFINE old == invoice[i]
           new == [old EXCEPT !.posted = TRUE]
<1>1. old \in Invoice /\ i \in Issued /\ InvoiceOK(old)
  BY DEF Inv, TypeOK, StatusAgrees, PostInvoice, Issued, InvoiceOK
<1>2. new \in Invoice
  BY <1>1 DEF Invoice
<1>3. /\ new.status = old.status
      /\ new.total = old.total
      /\ new.paid = old.paid
      /\ new.due = old.due
      /\ old.status # "NONE"
  BY <1>1 DEF Invoice
<1>4. new # NoInvoice /\ InvoiceOK(new)
  BY <1>1, <1>3 DEF NoInvoice, InvoiceOK
<1>5. invoice' = [invoice EXCEPT ![i] = new] /\ payment' = payment
  BY DEF PostInvoice
<1> HIDE DEF new
<1>6. TypeOK'
  BY <1>2, <1>4, <1>5 DEF Inv, TypeOK, Issued
<1>7. \A j \in Issued' : InvoiceOK(invoice'[j])
  BY <1>4, <1>5 DEF Inv, TypeOK, StatusAgrees, Issued, InvoiceOK
<1> QED
  BY <1>6, <1>7 DEF Inv, StatusAgrees, InvoiceOK

\* A payment of an invoice that exists is recorded.
LEMMA ProcessInv ==
  ASSUME Inv, NEW p \in Payments, NEW i \in Invoices, NEW amount \in Amounts,
         processPayment(p, i, amount)
  PROVE  Inv'
<1> DEFINE new == [step |-> "CAPTURED", invoice |-> i, amount |-> amount]
<1>1. new \in Payment /\ new.invoice = i /\ i \in Issued
  BY DEF Payment, processPayment, Issued
<1>2. payment' = [payment EXCEPT ![p] = new] /\ invoice' = invoice
  BY DEF processPayment
<1> HIDE DEF new
<1>3. TypeOK'
  BY <1>1, <1>2 DEF Inv, TypeOK, Issued
<1> QED
  BY <1>2, <1>3 DEF Inv, StatusAgrees, Issued

\* A payment record moves on to another step.
LEMMA StepChanged ==
  ASSUME NEW pay \in Payment, NEW step \in {"CAPTURED", "APPLIED", "DONE"}
  PROVE  /\ [pay EXCEPT !.step = step] \in Payment
         /\ [pay EXCEPT !.step = step].invoice = pay.invoice
  BY DEF Payment

\* ApplyPayment keeps Inv: the invoice is changed by Apply only.
LEMMA ApplyInv ==
  ASSUME Inv, NEW p \in Payments, ApplyPayment(p)
  PROVE  Inv'
<1> DEFINE i == payment[p].invoice
           new == Apply(invoice[i], payment[p].amount)
           pay == [payment[p] EXCEPT !.step = "APPLIED"]
<1>1. payment[p] \in Payment /\ i \in Issued
  BY DEF Inv, TypeOK, ApplyPayment, NoPayment
<1>2. i \in Invoices /\ payment[p].amount \in Amounts /\ invoice[i] \in Invoice
  BY <1>1 DEF Payment, Issued, Inv, TypeOK
<1>3. new \in Invoice /\ InvoiceOK(new) /\ new # NoInvoice
  BY <1>2, ApplyOK
<1>4. pay \in Payment /\ pay.invoice = i
  BY <1>1, StepChanged
<1>5. invoice' = [invoice EXCEPT ![i] = new] /\ payment' = [payment EXCEPT ![p] = pay]
  BY DEF ApplyPayment
<1> HIDE DEF new, pay, i
<1>6. TypeOK'
  BY <1>1, <1>2, <1>3, <1>4, <1>5 DEF Inv, TypeOK, Issued
<1>7. \A j \in Issued' : InvoiceOK(invoice'[j])
  BY <1>2, <1>3, <1>5 DEF Inv, TypeOK, StatusAgrees, Issued, InvoiceOK
<1> QED
  BY <1>6, <1>7 DEF Inv, StatusAgrees, InvoiceOK

\* PostPayment leaves the invoices alone.
LEMMA PostPaymentInv ==
  ASSUME Inv, NEW p \in Payments, PostPayment(p)
  PROVE  Inv'
<1> DEFINE pay == [payment[p] EXCEPT !.step = "DONE"]
<1>1. payment[p] \in Payment /\ payment[p].invoice \in Issued
  BY DEF Inv, TypeOK, PostPayment, NoPayment
<1>2. pay \in Payment /\ pay.invoice = payment[p].invoice
  BY <1>1, StepChanged
<1>3. payment' = [payment EXCEPT ![p] = pay] /\ invoice' = invoice
  BY DEF PostPayment
<1> HIDE DEF pay
<1>4. TypeOK'
  BY <1>1, <1>2, <1>3 DEF Inv, TypeOK, Issued
<1> QED
  BY <1>3, <1>4 DEF Inv, StatusAgrees, Issued

\* Every step of BillingService and of the ledger keeps Inv.
LEMMA InvNext == Inv /\ [Next]_vars => Inv'
<1> SUFFICES ASSUME Inv, [Next]_vars PROVE Inv'
  OBVIOUS
<1>1. ASSUME NEW a \in Adjustments, adjust(a) PROVE Inv'
  BY <1>1 DEF adjust, Inv, TypeOK, StatusAgrees, Issued
<1>2. CASE UNCHANGED vars
  BY <1>2 DEF vars, Inv, TypeOK, StatusAgrees, Issued
<1> QED
  BY <1>1, <1>2, CreateInv, PostInvoiceInv, ProcessInv, ApplyInv, PostPaymentInv DEF Next

\* Inv holds in every reachable state.
THEOREM InvCorrect == Spec => []Inv
  BY InvInit, InvNext, PTL DEF Spec

\* Every variable keeps its type, and a payment is always of an invoice that
\* was issued.
THEOREM TypeCorrect == Spec => []TypeOK
  BY InvCorrect, PTL DEF Inv

\* Status, amount paid and amount due of every invoice agree, for any number
\* of overlapping payments and any over-payment (processPayment).
THEOREM StatusAgreesCorrect == Spec => []StatusAgrees
  BY InvCorrect, PTL DEF Inv

\* A PAID invoice stays PAID and owes nothing.
THEOREM PaidIsFinalCorrect == Spec => PaidIsFinal
<1>1. ASSUME Inv, [Next]_vars, NEW i \in Issued, invoice[i].status = "PAID"
      PROVE  invoice'[i].status = "PAID" /\ invoice'[i].due = 0
  <2>1. /\ i \in Invoices /\ invoice[i] \in Invoice /\ invoice[i] # NoInvoice
        /\ invoice[i].due = 0 /\ invoice[i].paid >= invoice[i].total
    BY <1>1 DEF Inv, TypeOK, StatusAgrees, Issued
  <2>2. CASE invoice' = invoice
    BY <1>1, <2>1, <2>2
  <2>3. ASSUME NEW j \in Invoices, NEW total \in Totals, createInvoice(j, total)
        PROVE  invoice'[i] = invoice[i]
    BY <2>1, <2>3, <1>1 DEF createInvoice, Inv, TypeOK
  <2>4. ASSUME NEW j \in Invoices, PostInvoice(j)
        PROVE  invoice'[i].status = invoice[i].status /\ invoice'[i].due = invoice[i].due
    <3>1. invoice' = [invoice EXCEPT ![j] = [@ EXCEPT !.posted = TRUE]]
      BY <2>4 DEF PostInvoice
    <3>2. CASE i # j
      BY <3>1, <3>2, <1>1, <2>1 DEF Inv, TypeOK
    <3>3. CASE i = j
      <4>1. invoice'[i] = [invoice[i] EXCEPT !.posted = TRUE]
        BY <3>1, <3>3, <1>1, <2>1 DEF Inv, TypeOK
      <4> QED
        BY <4>1, <2>1 DEF Invoice
    <3> QED
      BY <3>2, <3>3
  <2>5. ASSUME NEW p \in Payments, ApplyPayment(p)
        PROVE  invoice'[i].status = "PAID" /\ invoice'[i].due = 0
    <3>1. payment[p] \in Payment
      BY <2>5, <1>1 DEF Inv, TypeOK, ApplyPayment, NoPayment
    <3>2. payment[p].amount \in Amounts
      BY <3>1 DEF Payment
    <3>3. CASE i # payment[p].invoice
      BY <3>3, <2>5, <1>1, <2>1 DEF ApplyPayment, Inv, TypeOK
    <3>4. CASE i = payment[p].invoice
      <4>1. invoice'[i] = Apply(invoice[i], payment[p].amount)
        BY <3>4, <2>5, <1>1, <2>1 DEF ApplyPayment, Inv, TypeOK
      <4> QED
        BY <4>1, <3>2, <2>1, ApplyOK
    <3> QED
      BY <3>3, <3>4
  <2>6. ASSUME NEW a \in Adjustments, adjust(a) PROVE invoice' = invoice
    BY <2>6 DEF adjust
  <2>7. ASSUME NEW p \in Payments, PostPayment(p) PROVE invoice' = invoice
    BY <2>7 DEF PostPayment
  <2>8. ASSUME NEW p \in Payments, NEW j \in Invoices, NEW amount \in Amounts,
               processPayment(p, j, amount)
        PROVE  invoice' = invoice
    BY <2>8 DEF processPayment
  <2>9. UNCHANGED vars => invoice' = invoice
    BY DEF vars
  <2> QED
    BY <1>1, <2>1, <2>2, <2>3, <2>4, <2>5, <2>6, <2>7, <2>8, <2>9 DEF Next
<1>2. Inv /\ [Next]_vars =>
        [\A i \in Issued :
            invoice[i].status = "PAID" => invoice'[i].status = "PAID" /\ invoice'[i].due = 0]_vars
  BY <1>1
<1> QED
  BY <1>2, InvCorrect, PTL DEF Spec, PaidIsFinal

----------------------------------------------------------------------------
(* The journal.                                                            *)

Entry == [type : {"INVOICE", "PAYMENT", "ADJUSTMENT"},
          ref : Invoices \cup Payments \cup Adjustments, lines : Seq(Line)]

\* Every entry that was recorded is balanced.
JournalOK ==
    /\ journals \in Seq(Entry)
    /\ \A k \in DOMAIN journals : Balanced(journals[k].lines)

\* Amounts are numbers.
LEMMA AmountsFacts == (\A t \in Totals : t \in Int) /\ (\A a \in Amounts : a \in Int)
  BY BillingAssumption

\* The totals of an entry are numbers.
LEMMA LinesFacts ==
  ASSUME NEW lines \in Seq(Line), NEW account
  PROVE  Debits(lines) \in Int /\ Credits(lines) \in Int /\ Net(lines, account) \in Int
<1>1. /\ Len(lines) \in Nat /\ DOMAIN lines = 1 .. Len(lines)
      /\ \A k \in 1 .. Len(lines) : lines[k] \in Line
  BY LenProperties
<1>2. IsFiniteSet(DOMAIN lines)
  BY <1>1, FS_Interval
<1>3. \A k \in DOMAIN lines : lines[k].debit \in Int /\ lines[k].credit \in Int
  BY <1>1 DEF Line
<1> DEFINE d == [k \in DOMAIN lines |-> lines[k].debit]
           c == [k \in DOMAIN lines |-> lines[k].credit]
           n == [k \in DOMAIN lines |->
                    IF lines[k].account = account THEN lines[k].debit - lines[k].credit ELSE 0]
<1>4. \A k \in DOMAIN lines : d[k] \in Int /\ c[k] \in Int /\ n[k] \in Int
  BY <1>3
<1> HIDE DEF d, c, n
<1>5. /\ SumFunctionOnSet(d, DOMAIN lines) \in Int
      /\ SumFunctionOnSet(c, DOMAIN lines) \in Int
      /\ SumFunctionOnSet(n, DOMAIN lines) \in Int
  BY <1>2, <1>4, SumType
<1> QED
  BY <1>5 DEF Debits, Credits, Net, d, c, n

\* The entries BillingService posts are balanced; the first account gains the
\* amount and the second loses it.
LEMMA TwoLines ==
  ASSUME NEW x \in Accounts, NEW y \in Accounts, x # y, NEW amount \in Int
  PROVE  LET lines == <<DebitLine(x, amount), CreditLine(y, amount)>>
         IN  /\ lines \in Seq(Line)
             /\ Balanced(lines)
             /\ Net(lines, x) = amount
             /\ Net(lines, y) = 0 - amount
<1> DEFINE lines == <<DebitLine(x, amount), CreditLine(y, amount)>>
<1>1. lines \in Seq(Line) /\ DOMAIN lines = 1 .. 2
  BY DEF DebitLine, CreditLine, Line
<1>2. /\ lines[1].debit = amount /\ lines[2].debit = 0
      /\ lines[1].credit = 0 /\ lines[2].credit = amount
      /\ lines[1].account = x /\ lines[2].account = y
  BY DEF DebitLine, CreditLine
<1> HIDE DEF lines
<1> DEFINE d == [k \in DOMAIN lines |-> lines[k].debit]
           c == [k \in DOMAIN lines |-> lines[k].credit]
           n(a) == [k \in DOMAIN lines |->
                    IF lines[k].account = a THEN lines[k].debit - lines[k].credit ELSE 0]
<1>3. d[1] = amount /\ d[2] = 0 /\ c[1] = 0 /\ c[2] = amount
  BY <1>1, <1>2
<1>4. n(x)[1] = amount /\ n(x)[2] = 0 /\ n(y)[1] = 0 /\ n(y)[2] = 0 - amount
  BY <1>1, <1>2
<1>5. /\ Debits(lines) = SumFunctionOnSet(d, 1 .. 2)
      /\ Credits(lines) = SumFunctionOnSet(c, 1 .. 2)
      /\ Net(lines, x) = SumFunctionOnSet(n(x), 1 .. 2)
      /\ Net(lines, y) = SumFunctionOnSet(n(y), 1 .. 2)
  BY <1>1, Zenon DEF Debits, Credits, Net
<1> HIDE DEF d, c, n
<1>6. /\ SumFunctionOnSet(d, 1 .. 2) = d[1] + d[2]
      /\ SumFunctionOnSet(c, 1 .. 2) = c[1] + c[2]
      /\ SumFunctionOnSet(n(x), 1 .. 2) = n(x)[1] + n(x)[2]
      /\ SumFunctionOnSet(n(y), 1 .. 2) = n(y)[1] + n(y)[2]
  BY <1>3, <1>4, SumPair
<1>7. Balanced(lines) /\ Net(lines, x) = amount /\ Net(lines, y) = 0 - amount
  BY <1>3, <1>4, <1>5, <1>6 DEF Balanced
<1> QED
  BY <1>1, <1>7 DEF lines

\* What a recorded entry adds to the receivables account
Receivable(e) == IF e.type # "ADJUSTMENT" THEN Net(e.lines, "1200") ELSE 0

\* An entry that is recorded adds to the receivables account what it says.
LEMMA RecordFacts ==
  ASSUME JournalOK, NEW e \in Entry, Balanced(e.lines), journals' = Append(journals, e)
  PROVE  /\ JournalOK'
         /\ Balance("1200")' = Balance("1200") + Receivable(e)
<1> DEFINE n == Len(journals)
           f == [k \in DOMAIN journals |-> Receivable(journals[k])]
           g == [k \in DOMAIN journals' |-> Receivable(journals'[k])]
<1>0. journals \in Seq(Entry)
  BY DEF JournalOK
<1>1. /\ journals' \in Seq(Entry) /\ Len(journals') = n + 1
      /\ \A k \in 1 .. n : journals'[k] = journals[k]
      /\ journals'[n + 1] = e
  BY <1>0, AppendProperties
<1>2. n \in Nat /\ DOMAIN journals = 1 .. n /\ DOMAIN journals' = 1 .. n + 1
  BY <1>0, <1>1, LenProperties
<1>3. JournalOK'
  BY <1>1, <1>2 DEF JournalOK
<1>4. \A x \in Entry : Receivable(x) \in Int
  BY LinesFacts DEF Receivable, Entry
<1>5. \A k \in 1 .. n : journals[k] \in Entry
  BY <1>0, <1>2
<1>6. /\ g[n + 1] = Receivable(e) /\ g[n + 1] \in Int
      /\ \A k \in 1 .. n : g[k] \in Int /\ g[k] = f[k]
  BY <1>1, <1>2, <1>4, <1>5
<1>7. /\ Balance("1200") = SumFunctionOnSet(f, 1 .. n)
      /\ Balance("1200")' = SumFunctionOnSet(g, 1 .. n + 1)
  BY <1>2, Zenon DEF Balance, Receivable
<1> HIDE DEF f, g, n
<1>8. SumFunctionOnSet(g, 1 .. n + 1) = SumFunctionOnSet(f, 1 .. n) + g[n + 1]
  BY <1>2, <1>6, SumAppend
<1> QED
  BY <1>3, <1>6, <1>7, <1>8

----------------------------------------------------------------------------
(* The sums behind the books.                                              *)

\* What of an invoice has been posted, and paid
PostedOf(inv) == IF inv # NoInvoice /\ inv.posted = TRUE THEN inv.total ELSE 0
PaidOf(inv) == IF inv # NoInvoice THEN inv.paid ELSE 0

\* What of a payment has been posted, applied, and applied to invoice i
DoneOf(pay) == IF pay.step = "DONE" THEN pay.amount ELSE 0
AppliedOf(pay) == IF pay.step \in {"APPLIED", "DONE"} THEN pay.amount ELSE 0
AppliedToOf(pay, i) ==
    IF pay.step \in {"APPLIED", "DONE"} /\ pay.invoice = i THEN pay.amount ELSE 0

PostedTotal == SumFunctionOnSet([i \in Invoices |-> PostedOf(invoice[i])], Invoices)
PaidTotal == SumFunctionOnSet([i \in Invoices |-> PaidOf(invoice[i])], Invoices)
DoneTotal == SumFunctionOnSet([p \in Payments |-> DoneOf(payment[p])], Payments)
AppliedTotal == SumFunctionOnSet([p \in Payments |-> AppliedOf(payment[p])], Payments)
AppliedToTotal(i) == SumFunctionOnSet([p \in Payments |-> AppliedToOf(payment[p], i)], Payments)

\* The receivables account is what was posted for invoices less what was
\* posted for payments, and what was paid is what was applied, in all and for
\* each invoice: true between any two awaits.
BooksInv ==
    /\ JournalOK
    /\ Balance("1200") = PostedTotal - DoneTotal
    /\ PaidTotal = AppliedTotal
    /\ NoPaymentLost

\* The values the sums are made of are numbers.
LEMMA ValuesFacts ==
  /\ \A inv \in Invoice \cup {NoInvoice} : PostedOf(inv) \in Int /\ PaidOf(inv) \in Int
  /\ \A pay \in Payment \cup {NoPayment} : /\ DoneOf(pay) \in Int
                                           /\ AppliedOf(pay) \in Int
                                           /\ \A i : AppliedToOf(pay, i) \in Int
<1>2. \A inv \in Invoice : inv.total \in Int /\ inv.paid \in Int
  BY AmountsFacts DEF Invoice
<1>3. \A pay \in Payment : pay.amount \in Int
  BY AmountsFacts DEF Payment
<1>4. NoPayment.step = "NONE"
  BY DEF NoPayment
<1> QED
  BY <1>2, <1>3, <1>4 DEF PostedOf, PaidOf, DoneOf, AppliedOf, AppliedToOf

\* A step that changes one invoice changes the sums by that invoice.
LEMMA InvoiceSums ==
  ASSUME Inv, NEW i \in Invoices, NEW new \in Invoice,
         invoice' = [invoice EXCEPT ![i] = new]
  PROVE  /\ PostedTotal \in Int /\ PaidTotal \in Int
         /\ PostedTotal' = PostedTotal + PostedOf(new) - PostedOf(invoice[i])
         /\ PaidTotal' = PaidTotal + PaidOf(new) - PaidOf(invoice[i])
<1> DEFINE f == [j \in Invoices |-> PostedOf(invoice[j])]
           g == [j \in Invoices |-> PostedOf(invoice'[j])]
           h == [j \in Invoices |-> PaidOf(invoice[j])]
           k == [j \in Invoices |-> PaidOf(invoice'[j])]
<1>1. invoice \in [Invoices -> Invoice \cup {NoInvoice}]
  BY DEF Inv, TypeOK
<1>2. invoice'[i] = new /\ \A j \in Invoices : j # i => invoice'[j] = invoice[j]
  BY <1>1
<1>3. /\ \A j \in Invoices : f[j] \in Int /\ h[j] \in Int
      /\ g[i] = PostedOf(new) /\ g[i] \in Int /\ k[i] = PaidOf(new) /\ k[i] \in Int
      /\ \A j \in Invoices : j # i => g[j] = f[j] /\ k[j] = h[j]
      /\ f[i] = PostedOf(invoice[i]) /\ h[i] = PaidOf(invoice[i])
  BY <1>1, <1>2, ValuesFacts
<1>4. /\ PostedTotal = SumFunctionOnSet(f, Invoices) /\ PostedTotal' = SumFunctionOnSet(g, Invoices)
      /\ PaidTotal = SumFunctionOnSet(h, Invoices) /\ PaidTotal' = SumFunctionOnSet(k, Invoices)
  BY Zenon DEF PostedTotal, PaidTotal
<1> HIDE DEF f, g, h, k
<1>5. /\ SumFunctionOnSet(g, Invoices) = SumFunctionOnSet(f, Invoices) + g[i] - f[i]
      /\ SumFunctionOnSet(k, Invoices) = SumFunctionOnSet(h, Invoices) + k[i] - h[i]
  BY <1>3, CallsAssumption, SumChange
<1>6. SumFunctionOnSet(f, Invoices) \in Int /\ SumFunctionOnSet(h, Invoices) \in Int
  BY <1>3, CallsAssumption, SumType
<1> QED
  BY <1>3, <1>4, <1>5, <1>6

\* A step that changes one payment changes the sums by that payment.
LEMMA PaymentSums ==
  ASSUME Inv, NEW p \in Payments, NEW new \in Payment,
         payment' = [payment EXCEPT ![p] = new]
  PROVE  /\ DoneTotal \in Int /\ AppliedTotal \in Int
         /\ DoneTotal' = DoneTotal + DoneOf(new) - DoneOf(payment[p])
         /\ AppliedTotal' = AppliedTotal + AppliedOf(new) - AppliedOf(payment[p])
         /\ \A i : /\ AppliedToTotal(i) \in Int
                   /\ AppliedToTotal(i)' = AppliedToTotal(i) + AppliedToOf(new, i)
                                             - AppliedToOf(payment[p], i)
<1>1. payment \in [Payments -> Payment \cup {NoPayment}]
  BY DEF Inv, TypeOK
<1>2. payment'[p] = new /\ \A j \in Payments : j # p => payment'[j] = payment[j]
  BY <1>1
<1>3. /\ DoneTotal \in Int
      /\ DoneTotal' = DoneTotal + DoneOf(new) - DoneOf(payment[p])
  <2> DEFINE f == [j \in Payments |-> DoneOf(payment[j])]
             g == [j \in Payments |-> DoneOf(payment'[j])]
  <2>1. /\ \A j \in Payments : f[j] \in Int
        /\ g[p] = DoneOf(new) /\ g[p] \in Int /\ f[p] = DoneOf(payment[p])
        /\ \A j \in Payments : j # p => g[j] = f[j]
    BY <1>1, <1>2, ValuesFacts
  <2>2. DoneTotal = SumFunctionOnSet(f, Payments) /\ DoneTotal' = SumFunctionOnSet(g, Payments)
    BY Zenon DEF DoneTotal
  <2> HIDE DEF f, g
  <2> QED
    BY <2>1, <2>2, CallsAssumption, SumChange, SumType
<1>4. /\ AppliedTotal \in Int
      /\ AppliedTotal' = AppliedTotal + AppliedOf(new) - AppliedOf(payment[p])
  <2> DEFINE f == [j \in Payments |-> AppliedOf(payment[j])]
             g == [j \in Payments |-> AppliedOf(payment'[j])]
  <2>1. /\ \A j \in Payments : f[j] \in Int
        /\ g[p] = AppliedOf(new) /\ g[p] \in Int /\ f[p] = AppliedOf(payment[p])
        /\ \A j \in Payments : j # p => g[j] = f[j]
    BY <1>1, <1>2, ValuesFacts
  <2>2. AppliedTotal = SumFunctionOnSet(f, Payments) /\ AppliedTotal' = SumFunctionOnSet(g, Payments)
    BY Zenon DEF AppliedTotal
  <2> HIDE DEF f, g
  <2> QED
    BY <2>1, <2>2, CallsAssumption, SumChange, SumType
<1>5. ASSUME NEW i
      PROVE  /\ AppliedToTotal(i) \in Int
             /\ AppliedToTotal(i)' = AppliedToTotal(i) + AppliedToOf(new, i)
                                       - AppliedToOf(payment[p], i)
  <2> DEFINE f == [j \in Payments |-> AppliedToOf(payment[j], i)]
             g == [j \in Payments |-> AppliedToOf(payment'[j], i)]
  <2>1. /\ \A j \in Payments : f[j] \in Int
        /\ g[p] = AppliedToOf(new, i) /\ g[p] \in Int /\ f[p] = AppliedToOf(payment[p], i)
        /\ \A j \in Payments : j # p => g[j] = f[j]
    BY <1>1, <1>2, ValuesFacts
  <2>2. /\ AppliedToTotal(i) = SumFunctionOnSet(f, Payments)
        /\ AppliedToTotal(i)' = SumFunctionOnSet(g, Payments)
    BY Zenon DEF AppliedToTotal
  <2> HIDE DEF f, g
  <2> QED
    BY <2>1, <2>2, CallsAssumption, SumChange, SumType
<1> QED
  BY <1>3, <1>4, <1>5

\* The sums are numbers.
LEMMA TotalsFacts ==
  ASSUME Inv
  PROVE  DoneTotal \in Int /\ PostedTotal \in Int /\ PaidTotal \in Int
<1>1. /\ invoice \in [Invoices -> Invoice \cup {NoInvoice}]
      /\ payment \in [Payments -> Payment \cup {NoPayment}]
  BY DEF Inv, TypeOK
<1>2. DoneTotal \in Int
  <2>1. \A p \in Payments : [q \in Payments |-> DoneOf(payment[q])][p] \in Int
    BY <1>1, ValuesFacts
  <2> QED
    BY <2>1, CallsAssumption, SumType DEF DoneTotal
<1>3. PostedTotal \in Int
  <2>1. \A i \in Invoices : [j \in Invoices |-> PostedOf(invoice[j])][i] \in Int
    BY <1>1, ValuesFacts
  <2> QED
    BY <2>1, CallsAssumption, SumType DEF PostedTotal
<1>4. PaidTotal \in Int
  <2>1. \A i \in Invoices : [j \in Invoices |-> PaidOf(invoice[j])][i] \in Int
    BY <1>1, ValuesFacts
  <2> QED
    BY <2>1, CallsAssumption, SumType DEF PaidTotal
<1> QED
  BY <1>2, <1>3, <1>4

\* NoPaymentLost in terms of these sums
LEMMA NoPaymentLostForm ==
  /\ NoPaymentLost <=> \A i \in Issued : invoice[i].paid = AppliedToTotal(i)
  /\ NoPaymentLost' <=> \A i \in Issued' : invoice'[i].paid = AppliedToTotal(i)'
  BY Zenon DEF NoPaymentLost, AppliedTo, AppliedToTotal, AppliedToOf

\* Before any call every sum is 0.
LEMMA BooksInit == Init => BooksInv
<1> SUFFICES ASSUME Init PROVE BooksInv
  OBVIOUS
<1>1. journals = << >> /\ DOMAIN journals = {} /\ journals \in Seq(Entry)
  BY DEF Init
<1>2. JournalOK
  BY <1>1 DEF JournalOK
<1>3. Balance("1200") = 0
  BY <1>1, SumEmpty DEF Balance
<1>4. /\ \A i \in Invoices : invoice[i] = NoInvoice
      /\ \A p \in Payments : payment[p] = NoPayment
  BY DEF Init
<1>5. PostedTotal = 0
  <2>1. \A i \in Invoices : [j \in Invoices |-> PostedOf(invoice[j])][i] = 0
    BY <1>4 DEF PostedOf
  <2> QED
    BY <2>1, CallsAssumption, SumZero DEF PostedTotal
<1>6. PaidTotal = 0
  <2>1. \A i \in Invoices : [j \in Invoices |-> PaidOf(invoice[j])][i] = 0
    BY <1>4 DEF PaidOf
  <2> QED
    BY <2>1, CallsAssumption, SumZero DEF PaidTotal
<1>n. NoPayment.step = "NONE"
  BY DEF NoPayment
<1>7. DoneTotal = 0
  <2>1. \A p \in Payments : [q \in Payments |-> DoneOf(payment[q])][p] = 0
    BY <1>4, <1>n DEF DoneOf
  <2> QED
    BY <2>1, CallsAssumption, SumZero DEF DoneTotal
<1>8. AppliedTotal = 0
  <2>1. \A p \in Payments : [q \in Payments |-> AppliedOf(payment[q])][p] = 0
    BY <1>4, <1>n DEF AppliedOf
  <2> QED
    BY <2>1, CallsAssumption, SumZero DEF AppliedTotal
<1>9. NoPaymentLost
  BY <1>4 DEF NoPaymentLost, Issued
<1> QED
  BY <1>2, <1>3, <1>5, <1>6, <1>7, <1>8, <1>9 DEF BooksInv

\* createInvoice: nothing is posted for the new invoice, and no payment can
\* have been made for it.
LEMMA CreateBooks ==
  ASSUME Inv, BooksInv, NEW i \in Invoices, NEW total \in Totals, createInvoice(i, total)
  PROVE  BooksInv'
<1> DEFINE new == [status |-> "ISSUED", posted |-> FALSE, total |-> total,
                   paid |-> 0, due |-> total]
<1>1. /\ invoice' = [invoice EXCEPT ![i] = new] /\ invoice[i] = NoInvoice
      /\ UNCHANGED <<payment, journals>>
  BY DEF createInvoice
<1>2. total \in Nat
  BY BillingAssumption
<1>3. new \in Invoice /\ new.posted # TRUE /\ new.paid = 0 /\ new # NoInvoice
  BY <1>2 DEF Invoice, NoInvoice
<1> HIDE DEF new
<1>4. PostedOf(new) = 0 /\ PaidOf(new) = 0 /\ PostedOf(invoice[i]) = 0 /\ PaidOf(invoice[i]) = 0
  BY <1>1, <1>3 DEF PostedOf, PaidOf
<1>5. PostedTotal' = PostedTotal /\ PaidTotal' = PaidTotal
  <2>1. /\ PostedTotal \in Int /\ PaidTotal \in Int
        /\ PostedTotal' = PostedTotal + PostedOf(new) - PostedOf(invoice[i])
        /\ PaidTotal' = PaidTotal + PaidOf(new) - PaidOf(invoice[i])
    BY <1>1, <1>3, InvoiceSums
  <2> QED
    BY <1>4, <2>1
<1>6. /\ JournalOK' = JournalOK /\ Balance("1200")' = Balance("1200")
      /\ DoneTotal' = DoneTotal /\ AppliedTotal' = AppliedTotal
      /\ \A j : AppliedToTotal(j)' = AppliedToTotal(j)
  BY <1>1, Zenon DEF JournalOK, Balance, DoneTotal, AppliedTotal, AppliedToTotal
<1>7. AppliedToTotal(i) = 0
  <2>1. \A p \in Payments : AppliedToOf(payment[p], i) = 0
    <3>1. \A p \in Payments : payment[p] # NoPayment => payment[p].invoice # i
      BY <1>1 DEF Inv, TypeOK, Issued
    <3>2. NoPayment.step = "NONE"
      BY DEF NoPayment
    <3> QED
      BY <3>1, <3>2 DEF AppliedToOf
  <2>2. \A p \in Payments : [q \in Payments |-> AppliedToOf(payment[q], i)][p] = 0
    BY <2>1
  <2> QED
    BY <2>2, CallsAssumption, SumZero DEF AppliedToTotal
<1>8. NoPaymentLost'
  <2>1. \A j \in Issued' : j # i => j \in Issued /\ invoice'[j] = invoice[j]
    BY <1>1 DEF Issued, Inv, TypeOK
  <2>2. invoice'[i] = new
    BY <1>1 DEF Inv, TypeOK
  <2> QED
    BY <1>3, <1>6, <1>7, <2>1, <2>2, NoPaymentLostForm DEF BooksInv
<1> QED
  BY <1>5, <1>6, <1>8 DEF BooksInv

\* PostInvoice: the journal and the posted flag grow together.
LEMMA PostInvoiceBooks ==
  ASSUME Inv, BooksInv, NEW i \in Invoices, PostInvoice(i)
  PROVE  BooksInv'
<1> DEFINE old == invoice[i]
           new == [old EXCEPT !.posted = TRUE]
           e == [type |-> "INVOICE", ref |-> i, lines |-> InvoiceLines(old.total)]
<1>1. old \in Invoice /\ old # NoInvoice /\ old.posted # TRUE
  BY DEF Inv, TypeOK, PostInvoice
<1>2. old.total \in Totals /\ old.total \in Int
  <2>1. old.total \in Totals
    BY <1>1 DEF Invoice
  <2> QED
    BY <2>1, AmountsFacts
<1>3. /\ InvoiceLines(old.total) \in Seq(Line) /\ Balanced(InvoiceLines(old.total))
      /\ Net(InvoiceLines(old.total), "1200") = old.total
  BY <1>2, TwoLines DEF InvoiceLines, Accounts
<1>4. e \in Entry /\ Receivable(e) = old.total /\ e.lines = InvoiceLines(old.total)
  BY <1>3 DEF Entry, Receivable
<1>5. journals' = Append(journals, e) /\ invoice' = [invoice EXCEPT ![i] = new] /\ payment' = payment
  BY <1>3 DEF PostInvoice, postJournalEntry, recordJournalTransaction
<1>6. /\ new \in Invoice /\ new.posted = TRUE /\ new.total = old.total /\ new.paid = old.paid
      /\ new # NoInvoice
  <2>1. /\ new \in Invoice /\ new.posted = TRUE /\ new.total = old.total /\ new.paid = old.paid
        /\ new.status = old.status /\ old.status # "NONE"
    BY <1>1 DEF Invoice
  <2> QED
    BY <2>1 DEF NoInvoice
<1> HIDE DEF new, e
<1>7. JournalOK' /\ Balance("1200")' = Balance("1200") + old.total
  <2>1. JournalOK
    BY DEF BooksInv
  <2> QED
    BY <1>3, <1>4, <1>5, <2>1, RecordFacts
<1>8. /\ PostedOf(new) = old.total /\ PaidOf(new) = old.paid
      /\ PostedOf(old) = 0 /\ PaidOf(old) = old.paid
  BY <1>1, <1>6 DEF PostedOf, PaidOf
<1>9. old.paid \in Int
  BY <1>1 DEF Invoice
<1>10. /\ PostedTotal \in Int /\ PaidTotal \in Int
       /\ PostedTotal' = PostedTotal + old.total - 0
       /\ PaidTotal' = PaidTotal + old.paid - old.paid
  <2>1. /\ PostedTotal \in Int /\ PaidTotal \in Int
        /\ PostedTotal' = PostedTotal + PostedOf(new) - PostedOf(invoice[i])
        /\ PaidTotal' = PaidTotal + PaidOf(new) - PaidOf(invoice[i])
    BY <1>5, <1>6, InvoiceSums
  <2> QED
    BY <2>1, <1>8
<1>11. DoneTotal' = DoneTotal /\ AppliedTotal' = AppliedTotal
       /\ \A j : AppliedToTotal(j)' = AppliedToTotal(j)
  BY <1>5, Zenon DEF DoneTotal, AppliedTotal, AppliedToTotal
<1>12. DoneTotal \in Int
  BY TotalsFacts
<1>13. NoPaymentLost'
  <2>1. \A j \in Issued' : j \in Issued /\ (j # i => invoice'[j] = invoice[j])
    BY <1>1, <1>5 DEF Issued, Inv, TypeOK
  <2>2. invoice'[i] = new
    BY <1>5 DEF Inv, TypeOK
  <2>3. \A j \in Issued' : invoice'[j].paid = invoice[j].paid
    BY <1>6, <2>1, <2>2
  <2> QED
    BY <1>11, <2>1, <2>3, NoPaymentLostForm DEF BooksInv
<1>14. Balance("1200")' = PostedTotal' - DoneTotal' /\ PaidTotal' = AppliedTotal'
  <2>1. Balance("1200") = PostedTotal - DoneTotal /\ PaidTotal = AppliedTotal
    BY DEF BooksInv
  <2> HIDE DEF old
  <2> QED
    BY <1>2, <1>7, <1>9, <1>10, <1>11, <1>12, <2>1
<1> QED
  BY <1>7, <1>13, <1>14 DEF BooksInv

\* processPayment: a captured payment is in none of the sums yet.
LEMMA ProcessBooks ==
  ASSUME Inv, BooksInv, NEW p \in Payments, NEW i \in Invoices, NEW amount \in Amounts,
         processPayment(p, i, amount)
  PROVE  BooksInv'
<1> DEFINE new == [step |-> "CAPTURED", invoice |-> i, amount |-> amount]
<1>1. /\ payment' = [payment EXCEPT ![p] = new] /\ payment[p] = NoPayment
      /\ UNCHANGED <<invoice, journals>>
  BY DEF processPayment
<1>2. new \in Payment /\ new.step = "CAPTURED" /\ NoPayment.step = "NONE"
  BY DEF Payment, NoPayment
<1> HIDE DEF new
<1>3. /\ DoneOf(new) = 0 /\ AppliedOf(new) = 0 /\ \A j : AppliedToOf(new, j) = 0
      /\ DoneOf(payment[p]) = 0 /\ AppliedOf(payment[p]) = 0
      /\ \A j : AppliedToOf(payment[p], j) = 0
  BY <1>1, <1>2 DEF DoneOf, AppliedOf, AppliedToOf
<1>4. /\ DoneTotal \in Int /\ AppliedTotal \in Int
      /\ DoneTotal' = DoneTotal + DoneOf(new) - DoneOf(payment[p])
      /\ AppliedTotal' = AppliedTotal + AppliedOf(new) - AppliedOf(payment[p])
      /\ \A j : /\ AppliedToTotal(j) \in Int
                /\ AppliedToTotal(j)' = AppliedToTotal(j) + AppliedToOf(new, j)
                                          - AppliedToOf(payment[p], j)
  BY <1>1, <1>2, PaymentSums
<1>5. DoneTotal' = DoneTotal /\ AppliedTotal' = AppliedTotal
      /\ \A j : AppliedToTotal(j)' = AppliedToTotal(j)
  BY <1>3, <1>4
<1>6. /\ JournalOK' = JournalOK /\ Balance("1200")' = Balance("1200")
      /\ PostedTotal' = PostedTotal /\ PaidTotal' = PaidTotal /\ Issued' = Issued
  BY <1>1, Zenon DEF JournalOK, Balance, PostedTotal, PaidTotal, Issued
<1>7. NoPaymentLost'
  BY <1>1, <1>5, <1>6, NoPaymentLostForm DEF BooksInv
<1> QED
  BY <1>5, <1>6, <1>7 DEF BooksInv

\* ApplyPayment: the invoice object gains what the payment is worth, whatever
\* other payments did to it since the lookup.
LEMMA ApplyBooks ==
  ASSUME Inv, BooksInv, NEW p \in Payments, ApplyPayment(p)
  PROVE  BooksInv'
<1> DEFINE i == payment[p].invoice
           amount == payment[p].amount
           old == invoice[i]
           new == Apply(old, amount)
           pay == [payment[p] EXCEPT !.step = "APPLIED"]
<1>1. payment[p] \in Payment /\ i \in Issued /\ payment[p].step = "CAPTURED"
  BY DEF Inv, TypeOK, ApplyPayment, NoPayment
<1>2. i \in Invoices /\ amount \in Amounts /\ old \in Invoice /\ old # NoInvoice
  BY <1>1 DEF Payment, Issued, Inv, TypeOK
<1>3. amount \in Int /\ old.paid \in Int
  <2>1. old.paid \in Int
    BY <1>2 DEF Invoice
  <2> QED
    BY <1>2, <2>1, AmountsFacts
<1>4. /\ new \in Invoice /\ new # NoInvoice /\ new.posted = old.posted
  BY <1>2, ApplyOK
<1>5. new.total = old.total /\ new.paid = old.paid + amount
  BY <1>2 DEF Apply, Invoice
<1>6. pay \in Payment /\ pay.invoice = i /\ pay.step = "APPLIED" /\ pay.amount = amount
  BY <1>1 DEF Payment
<1>7. /\ invoice' = [invoice EXCEPT ![i] = new] /\ payment' = [payment EXCEPT ![p] = pay]
      /\ journals' = journals
  BY DEF ApplyPayment
<1>8. PICK j \in Invoices : j = i
  BY <1>2
<1> HIDE DEF i, amount, old, new, pay
<1>9. /\ PostedOf(new) = PostedOf(old) /\ PaidOf(new) = old.paid + amount /\ PaidOf(old) = old.paid
      /\ PostedOf(old) \in Int
  BY <1>2, <1>4, <1>5, ValuesFacts DEF PostedOf, PaidOf
<1>10. /\ PostedTotal \in Int /\ PaidTotal \in Int
       /\ PostedTotal' = PostedTotal + PostedOf(new) - PostedOf(old)
       /\ PaidTotal' = PaidTotal + PaidOf(new) - PaidOf(old)
  <2>1. invoice' = [invoice EXCEPT ![j] = new] /\ old = invoice[j]
    BY <1>7, <1>8 DEF old
  <2> QED
    BY <1>4, <2>1, InvoiceSums
<1>11. PostedTotal' = PostedTotal /\ PaidTotal' = PaidTotal + amount
  BY <1>3, <1>9, <1>10
<1>12. /\ DoneOf(pay) = 0 /\ DoneOf(payment[p]) = 0
       /\ AppliedOf(pay) = amount /\ AppliedOf(payment[p]) = 0
       /\ \A k : AppliedToOf(pay, k) = (IF k = j THEN amount ELSE 0)
                 /\ AppliedToOf(payment[p], k) = 0
  BY <1>1, <1>6, <1>8 DEF DoneOf, AppliedOf, AppliedToOf
<1>13. /\ DoneTotal \in Int /\ AppliedTotal \in Int
       /\ DoneTotal' = DoneTotal + DoneOf(pay) - DoneOf(payment[p])
       /\ AppliedTotal' = AppliedTotal + AppliedOf(pay) - AppliedOf(payment[p])
       /\ \A k : /\ AppliedToTotal(k) \in Int
                 /\ AppliedToTotal(k)' = AppliedToTotal(k) + AppliedToOf(pay, k)
                                           - AppliedToOf(payment[p], k)
  BY <1>6, <1>7, PaymentSums
<1>14. /\ DoneTotal' = DoneTotal /\ AppliedTotal' = AppliedTotal + amount
       /\ \A k : AppliedToTotal(k)' = AppliedToTotal(k) + (IF k = j THEN amount ELSE 0)
  BY <1>3, <1>12, <1>13
<1>15. JournalOK' = JournalOK /\ Balance("1200")' = Balance("1200")
  BY <1>7, Zenon DEF JournalOK, Balance
<1>16. NoPaymentLost'
  <2>1. Issued' = Issued
    BY <1>2, <1>4, <1>7 DEF Issued, Inv, TypeOK, old
  <2>2. \A k \in Issued : invoice'[k].paid = invoice[k].paid + (IF k = j THEN amount ELSE 0)
    <3>1. \A k \in Invoices : invoice'[k] = IF k = j THEN new ELSE invoice[k]
      BY <1>7, <1>8 DEF Inv, TypeOK
    <3>2. \A k \in Issued : k \in Invoices /\ invoice[k].paid \in Int
      BY DEF Issued, Inv, TypeOK, Invoice
    <3> QED
      BY <1>5, <1>8, <3>1, <3>2 DEF old
  <2>3. \A k \in Issued : invoice[k].paid = AppliedToTotal(k)
    BY NoPaymentLostForm DEF BooksInv
  <2>4. \A k \in Issued' : invoice'[k].paid = AppliedToTotal(k)'
    BY <1>14, <2>1, <2>2, <2>3
  <2> QED
    BY <2>4, NoPaymentLostForm
<1> QED
  BY <1>11, <1>14, <1>15, <1>16 DEF BooksInv

\* PostPayment: the journal and the DONE payments grow together.
LEMMA PostPaymentBooks ==
  ASSUME Inv, BooksInv, NEW p \in Payments, PostPayment(p)
  PROVE  BooksInv'
<1> DEFINE amount == payment[p].amount
           pay == [payment[p] EXCEPT !.step = "DONE"]
           e == [type |-> "PAYMENT", ref |-> p, lines |-> PaymentLines(amount)]
<1>1. payment[p] \in Payment /\ payment[p].step = "APPLIED"
  BY DEF Inv, TypeOK, PostPayment, NoPayment
<1>2. amount \in Int
  <2>1. amount \in Amounts
    BY <1>1 DEF Payment
  <2> QED
    BY <2>1, AmountsFacts
<1>3. /\ PaymentLines(amount) \in Seq(Line) /\ Balanced(PaymentLines(amount))
      /\ Net(PaymentLines(amount), "1200") = 0 - amount
  BY <1>2, TwoLines DEF PaymentLines, Accounts
<1>4. e \in Entry /\ Receivable(e) = 0 - amount /\ e.lines = PaymentLines(amount)
  BY <1>3 DEF Entry, Receivable
<1>5. journals' = Append(journals, e) /\ payment' = [payment EXCEPT ![p] = pay] /\ invoice' = invoice
  BY <1>3 DEF PostPayment, postJournalEntry, recordJournalTransaction
<1>6. /\ pay \in Payment /\ pay.step = "DONE" /\ pay.amount = amount
      /\ pay.invoice = payment[p].invoice
  BY <1>1 DEF Payment
<1> HIDE DEF pay, e
<1>7. JournalOK' /\ Balance("1200")' = Balance("1200") + (0 - amount)
  <2>1. JournalOK
    BY DEF BooksInv
  <2> QED
    BY <1>3, <1>4, <1>5, <2>1, RecordFacts
<1>8. /\ DoneOf(pay) = amount /\ DoneOf(payment[p]) = 0
      /\ AppliedOf(pay) = amount /\ AppliedOf(payment[p]) = amount
      /\ \A k : AppliedToOf(pay, k) = AppliedToOf(payment[p], k) /\ AppliedToOf(pay, k) \in Int
  BY <1>1, <1>2, <1>6 DEF DoneOf, AppliedOf, AppliedToOf
<1>9. /\ DoneTotal \in Int /\ AppliedTotal \in Int
      /\ DoneTotal' = DoneTotal + DoneOf(pay) - DoneOf(payment[p])
      /\ AppliedTotal' = AppliedTotal + AppliedOf(pay) - AppliedOf(payment[p])
      /\ \A k : /\ AppliedToTotal(k) \in Int
                /\ AppliedToTotal(k)' = AppliedToTotal(k) + AppliedToOf(pay, k)
                                          - AppliedToOf(payment[p], k)
  BY <1>5, <1>6, PaymentSums
<1>10. /\ DoneTotal' = DoneTotal + amount /\ AppliedTotal' = AppliedTotal
       /\ \A k : AppliedToTotal(k)' = AppliedToTotal(k)
  BY <1>2, <1>8, <1>9
<1>11. PostedTotal' = PostedTotal /\ PaidTotal' = PaidTotal /\ Issued' = Issued
  BY <1>5, Zenon DEF PostedTotal, PaidTotal, Issued
<1>12. NoPaymentLost'
  BY <1>5, <1>10, <1>11, NoPaymentLostForm DEF BooksInv
<1>13. PostedTotal \in Int
  BY TotalsFacts
<1>14. Balance("1200")' = PostedTotal' - DoneTotal' /\ PaidTotal' = AppliedTotal'
  <2>1. Balance("1200") = PostedTotal - DoneTotal /\ PaidTotal = AppliedTotal
    BY DEF BooksInv
  <2> HIDE DEF amount
  <2> QED
    BY <1>2, <1>7, <1>9, <1>10, <1>11, <1>13, <2>1
<1> QED
  BY <1>7, <1>12, <1>14 DEF BooksInv

\* Other callers of the ledger post balanced entries or none, and theirs do
\* not count as invoices or payments.
LEMMA AdjustBooks ==
  ASSUME Inv, BooksInv, NEW a \in Adjustments, adjust(a)
  PROVE  BooksInv'
<1> DEFINE e == [type |-> "ADJUSTMENT", ref |-> a, lines |-> Adjustment[a]]
<1>1. e \in Entry /\ Receivable(e) = 0 /\ e.lines = Adjustment[a]
  BY LinesAssumption DEF Entry, Receivable
<1>2. \/ journals' = Append(journals, e) /\ Balanced(e.lines)
      \/ journals' = journals
  BY DEF adjust, postJournalEntry, recordJournalTransaction
<1>3. Balance("1200") \in Int
  BY TotalsFacts DEF BooksInv
<1> HIDE DEF e
<1>4. JournalOK' /\ Balance("1200")' = Balance("1200")
  <2>1. JournalOK
    BY DEF BooksInv
  <2>2. CASE journals' = Append(journals, e) /\ Balanced(e.lines)
    BY <1>1, <1>3, <2>1, <2>2, RecordFacts
  <2>3. CASE journals' = journals
    BY <2>1, <2>3 DEF JournalOK, Balance
  <2> QED
    BY <1>2, <2>2, <2>3
<1>5. invoice' = invoice /\ payment' = payment
  BY DEF adjust
<1>6. /\ PostedTotal' = PostedTotal /\ PaidTotal' = PaidTotal /\ DoneTotal' = DoneTotal
      /\ AppliedTotal' = AppliedTotal
      /\ NoPaymentLost' = NoPaymentLost
  BY <1>5, Zenon DEF PostedTotal, PaidTotal, DoneTotal, AppliedTotal, NoPaymentLost,
     AppliedTo, Issued
<1> QED
  BY <1>4, <1>6 DEF BooksInv

\* BooksInv holds in every reachable state.
THEOREM BooksInvCorrect == Spec => []BooksInv
<1>1. Inv /\ BooksInv /\ [Next]_vars => BooksInv'
  <2> SUFFICES ASSUME Inv, BooksInv, [Next]_vars PROVE BooksInv'
    OBVIOUS
  <2>1. CASE UNCHANGED vars
    BY <2>1, Zenon DEF vars, BooksInv, JournalOK, Balance, PostedTotal, PaidTotal, DoneTotal,
       AppliedTotal, NoPaymentLost, AppliedTo, Issued
  <2> QED
    BY <2>1, CreateBooks, PostInvoiceBooks, ProcessBooks, ApplyBooks, PostPaymentBooks,
       AdjustBooks DEF Next
<1> QED
  BY <1>1, BooksInit, InvCorrect, PTL DEF Spec

\* Balanced entries make a balanced journal.
LEMMA TrialBalanceHolds ==
  ASSUME JournalOK
  PROVE  TrialBalance
<1> DEFINE f == [k \in DOMAIN journals |-> Debits(journals[k].lines)]
           g == [k \in DOMAIN journals |-> Credits(journals[k].lines)]
<1>1. DOMAIN journals = 1 .. Len(journals) /\ Len(journals) \in Nat
  BY LenProperties DEF JournalOK
<1>2. IsFiniteSet(DOMAIN journals)
  BY <1>1, FS_Interval
<1>3. \A k \in DOMAIN journals : f[k] = g[k]
  BY DEF JournalOK, Balanced
<1> HIDE DEF f, g
<1>4. SumFunctionOnSet(f, DOMAIN journals) = SumFunctionOnSet(g, DOMAIN journals)
  BY <1>2, <1>3, SumCongruence
<1> QED
  BY <1>4 DEF TrialBalance, AllDebits, AllCredits, f, g

\* When no call is under way, everything is posted and applied.
LEMMA ReceivablesHold ==
  ASSUME Inv, BooksInv
  PROVE  ReceivablesAgree
<1> SUFFICES ASSUME AllPosted PROVE Balance("1200") = SumFunctionOnSet(Owed, Issued)
  BY DEF ReceivablesAgree
<1> DEFINE owed == [i \in Invoices |-> PostedOf(invoice[i]) - PaidOf(invoice[i])]
           posted == [i \in Invoices |-> PostedOf(invoice[i])]
           paid == [i \in Invoices |-> PaidOf(invoice[i])]
<1>1. /\ invoice \in [Invoices -> Invoice \cup {NoInvoice}]
      /\ payment \in [Payments -> Payment \cup {NoPayment}]
  BY DEF Inv, TypeOK
<1>2. \A i \in Invoices : /\ PostedOf(invoice[i]) \in Int /\ PaidOf(invoice[i]) \in Int
                          /\ posted[i] = owed[i] + paid[i] /\ owed[i] \in Int /\ paid[i] \in Int
  BY <1>1, ValuesFacts
<1>3. PostedTotal = SumFunctionOnSet(owed, Invoices) + PaidTotal
  <2>1. PostedTotal = SumFunctionOnSet(posted, Invoices) /\ PaidTotal = SumFunctionOnSet(paid, Invoices)
    BY DEF PostedTotal, PaidTotal
  <2> HIDE DEF owed, posted, paid
  <2> QED
    BY <1>2, <2>1, CallsAssumption, SumPlus
<1>4. DoneTotal = AppliedTotal
  <2> DEFINE f == [p \in Payments |-> DoneOf(payment[p])]
             g == [p \in Payments |-> AppliedOf(payment[p])]
  <2>1. \A p \in Payments : f[p] = g[p]
    BY DEF AllPosted, DoneOf, AppliedOf
  <2>2. DoneTotal = SumFunctionOnSet(f, Payments) /\ AppliedTotal = SumFunctionOnSet(g, Payments)
    BY DEF DoneTotal, AppliedTotal
  <2> HIDE DEF f, g
  <2> QED
    BY <2>1, <2>2, CallsAssumption, SumCongruence
<1>5. SumFunctionOnSet(owed, Invoices) \in Int
  BY <1>2, CallsAssumption, SumType
<1>6. Balance("1200") = SumFunctionOnSet(owed, Invoices)
  BY <1>3, <1>4, <1>5, TotalsFacts DEF BooksInv
<1>7. SumFunctionOnSet(Owed, Issued) = SumFunctionOnSet(owed, Invoices)
  <2>1. Issued \in SUBSET Invoices
    BY DEF Issued
  <2>2. \A i \in Issued : /\ Owed[i] \in Int
                          /\ owed[i] = Owed[i]
    <3> SUFFICES ASSUME NEW i \in Issued PROVE Owed[i] \in Int /\ owed[i] = Owed[i]
      OBVIOUS
    <3>1. i \in Invoices /\ invoice[i] # NoInvoice /\ invoice[i] \in Invoice
      BY <1>1 DEF Issued
    <3>2. invoice[i].posted = TRUE
      BY <3>1 DEF AllPosted, Invoice
    <3>3. PostedOf(invoice[i]) = invoice[i].total /\ PaidOf(invoice[i]) = invoice[i].paid
      BY <3>1, <3>2 DEF PostedOf, PaidOf
    <3> QED
      BY <1>2, <3>1, <3>3 DEF Owed
  <2>3. \A i \in Invoices \ Issued : owed[i] = 0
    BY DEF Issued, PostedOf, PaidOf
  <2> HIDE DEF owed
  <2> QED
    BY <2>1, <2>2, <2>3, CallsAssumption, SumFilter
<1> QED
  BY <1>6, <1>7

\* The books agree for any number of overlapping calls and any amounts: no
\* payment is lost or counted twice, the trial balance is 0, and between
\* calls the receivables account is what the invoices say is owed.
THEOREM BooksAgreeCorrect == Spec => []BooksAgree
<1>1. Inv /\ BooksInv => BooksAgree
  BY TrialBalanceHolds, ReceivablesHold DEF BooksInv, BooksAgree
<1> QED
  BY <1>1, InvCorrect, BooksInvCorrect, PTL
=============================================================================

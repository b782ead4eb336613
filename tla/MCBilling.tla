----------------------------- MODULE MCBilling -----------------------------
\* Two invoices and two payments, which may hit the same invoice and pay
\* too much, beside the two journal entries of tests/unit/ledger.test.ts.
EXTENDS Billing, TLC

MCAdjustment == "tc07" :> <<DebitLine("1010", 2), CreditLine("4010", 2)>>
             @@ "tc08" :> <<DebitLine("1010", 2), CreditLine("4010", 1)>>
=============================================================================

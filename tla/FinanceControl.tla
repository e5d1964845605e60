---------------------------- MODULE FinanceControl ----------------------------
(***************************************************************************)
(* Budget versions, client invoices and payments of one event              *)
(* (apps/api/src/finance-control).                                         *)
(*                                                                         *)
(* A status is read and checked by one statement and written by a later    *)
(* READ COMMITTED transaction.  Two transactions have more than one        *)
(* statement that matters: approving a budget version first supersedes the *)
(* other effective versions, and clearing a payment reads the invoice it   *)
(* then adds to.  Between the two statements other transactions commit.    *)
(***************************************************************************)
EXTENDS Integers, FiniteSets, FiniteSetsExt, Functions, Tables

CONSTANTS
    Handler,     \* concurrently running request handlers
    BudgetType,  \* types of budget versions
    MaxBudget,   \* bound on the versions of a type
    Invoice,     \* ids of client invoices
    Payment,     \* ids of payments
    Total,       \* totals of invoices
    Amount,      \* amounts of payments
    MaxPaid      \* bound on what an invoice shows as paid

ASSUME FinanceAssumption ==
    /\ MaxBudget \in Nat /\ MaxPaid \in Nat
    /\ Total \subseteq Nat /\ Amount \subseteq Nat \ {0}

\* FinanceVersionStatus; Approved and Locked versions are effective.
VersionStatus == {"Draft", "Submitted", "Approved", "Superseded", "Locked", "Rejected"}
Effective == {"Approved", "Locked"}

\* FinanceInvoiceStatus.  Overdue, Disputed, Credited and Cancelled are treated
\* alike, as Other.
InvoiceStatus == {"Draft", "Approved", "Issued", "PartiallyPaid", "Paid", "Other"}

\* FinancePaymentStatus.  Planned, PendingApproval, Approved, Failed and Reversed
\* are treated alike, as Open.
PaymentStatus == {"Open", "Submitted", "Cleared"}

VARIABLES
    budget,    \* [<<type, version>> -> its status]
    invoice,   \* [ids -> the invoice]
    payment,   \* [ids -> the payment]
    financeCall,   \* [Handler -> the handler in progress and what it has read]
    crossed,   \* history: the types and invoices for which two such transactions
               \* ran at the same time
    recleared, \* history: the invoices with a payment cleared when it was Cleared
    reopened   \* history: the invoices with a payment that was Cleared and was
               \* given another status

histories == <<crossed, recleared, reopened>>

financeVars == <<budget, invoice, payment, financeCall, histories>>

InvoiceRow == [status: InvoiceStatus, total: Total, paid: Nat, balance: Nat]
PaymentRow == [status: PaymentStatus, invoice: Invoice, amount: Amount]

Version == BudgetType \X (1..MaxBudget)

\* step: "check" when the status was checked, "write" within the transaction.
NoCall == [op |-> "idle"]
BudgetCall == [op: {"budget"}, step: {"check", "write"}, row: Version,
               status: VersionStatus, seen: SUBSET Version]
CreateCall == [op: {"createBudget"}, row: Version]
InvoiceCall == [op: {"invoice"}, row: Invoice, status: InvoiceStatus]
PaymentCall == [op: {"payment"}, step: {"check", "write"}, row: Payment,
                status: PaymentStatus, seen: Nat]

FinanceTypeOK ==
    /\ budget \in PartialOn(Version, VersionStatus)
    /\ DOMAIN invoice \subseteq Invoice /\ Range(invoice) \subseteq InvoiceRow
    /\ DOMAIN payment \subseteq Payment /\ Range(payment) \subseteq PaymentRow
    /\ \A p \in Handler :
          financeCall[p] \in {NoCall} \cup BudgetCall \cup CreateCall
                             \cup InvoiceCall \cup PaymentCall
    /\ crossed \subseteq BudgetType \cup Invoice
    /\ recleared \subseteq Invoice /\ reopened \subseteq Invoice

FinanceInit ==
    /\ budget = Empty /\ invoice = Empty /\ payment = Empty
    /\ financeCall = [p \in Handler |-> NoCall]
    /\ crossed = {} /\ recleared = {} /\ reopened = {}

-----------------------------------------------------------------------------

financeRows == <<budget, invoice, payment>>

Check(p, call) ==
    /\ financeCall[p] = NoCall
    /\ financeCall' = [financeCall EXCEPT ![p] = call]
    /\ UNCHANGED <<financeRows, histories>>

End(p) == financeCall' = [financeCall EXCEPT ![p] = NoCall]

\* The transaction fails, or the handler is lost.
Throw(p) == financeCall[p] # NoCall /\ End(p) /\ UNCHANGED <<financeRows, histories>>

\* The type of the budget version, or the invoice, a transaction writes to.
Subject(c) == CASE c.op = "budget" -> c.row[1]
                [] c.op = "payment" -> payment[c.row].invoice

\* The transaction of p reaches its second statement, with what it has seen.
Proceed(p, seen) ==
    LET c == financeCall[p]
        overlapping == {q \in Handler \ {p} : /\ financeCall[q].op = c.op
                                           /\ financeCall[q].step = "write"
                                           /\ Subject(financeCall[q]) = Subject(c)}
    IN  /\ financeCall' = [financeCall EXCEPT ![p] = [c EXCEPT !.step = "write", !.seen = seen]]
        /\ crossed' = IF overlapping = {} THEN crossed ELSE crossed \cup {Subject(c)}
        /\ UNCHANGED <<financeRows, recleared, reopened>>

\* The row of a payment is locked from its update to the end of the transaction.
Unlocked(p, y) ==
    \A q \in Handler \ {p} :
        ~(financeCall[q].op = "payment" /\ financeCall[q].step = "write"
                                        /\ financeCall[q].row = y)

-----------------------------------------------------------------------------
(***************************************************************************)
(* Budget versions                                                         *)
(***************************************************************************)

Versions(t) == {n \in 1..MaxBudget : <<t, n>> \in DOMAIN budget}

latest(t) == IF Versions(t) = {} THEN 0 ELSE Max(Versions(t))

ReadLatest(p, t) ==
    \E n \in 1..MaxBudget :
        /\ n = latest(t) + 1
        /\ Check(p, [op |-> "createBudget", row |-> <<t, n>>])

\* @@unique([financeWorkspaceId, versionType, version])
createBudgetVersion(p) ==
    /\ financeCall[p].op = "createBudget"
    /\ financeCall[p].row \notin DOMAIN budget
    /\ budget' = Put(budget, financeCall[p].row, "Draft")
    /\ End(p)
    /\ UNCHANGED <<invoice, payment, histories>>

EffectiveVersions(t) == {v \in DOMAIN budget : v[1] = t /\ budget[v] \in Effective}

CheckBudget(p, v, status) ==
    /\ budget[v] \notin Effective
    /\ Check(p, [op |-> "budget", step |-> "check", row |-> v, status |-> status,
                 seen |-> {}])

\* Faulty variant: a locked version is not superseded.
supersedableApproved(v) == {w \in EffectiveVersions(v[1]) \ {v} : budget[w] = "Approved"}

supersedable(v) == EffectiveVersions(v[1]) \ {v}

\* updateMany, for a status that makes the version effective.
supersedeOthers(p) ==
    LET c == financeCall[p] IN
    /\ c.op = "budget" /\ c.step = "check" /\ c.status \in Effective
    /\ Proceed(p, supersedable(c.row))

\* The versions updateMany found become visible as Superseded with the new status;
\* one that is no longer effective was left alone.
changeBudgetStatus(p) ==
    LET c == financeCall[p] IN
    /\ c.op = "budget" /\ (c.step = "write" \/ c.status \notin Effective)
    /\ budget' = [v \in DOMAIN budget |->
           IF v = c.row THEN c.status
           ELSE IF v \in c.seen /\ budget[v] \in Effective THEN "Superseded"
           ELSE budget[v]]
    /\ End(p)
    /\ UNCHANGED <<invoice, payment, histories>>

-----------------------------------------------------------------------------
(***************************************************************************)
(* Invoices and payments                                                   *)
(***************************************************************************)

createInvoice(i, total) ==
    /\ i \notin DOMAIN invoice
    /\ invoice' = Put(invoice, i, [status |-> "Draft", total |-> total, paid |-> 0,
                                   balance |-> total])
    /\ UNCHANGED <<budget, payment, financeCall, histories>>

\* Any status but Issued is written over any other.
CheckInvoice(p, i, status) ==
    /\ status = "Issued" => invoice[i].status = "Approved"
    /\ Check(p, [op |-> "invoice", row |-> i, status |-> status])

changeInvoiceStatus(p) ==
    /\ financeCall[p].op = "invoice"
    /\ invoice' = [invoice EXCEPT ![financeCall[p].row].status = financeCall[p].status]
    /\ End(p)
    /\ UNCHANGED <<budget, payment, histories>>

\* Payments of commitments change no invoice and are left out.
createPayment(y, i, amount) ==
    /\ y \notin DOMAIN payment /\ i \in DOMAIN invoice
    /\ payment' = Put(payment, y, [status |-> "Open", invoice |-> i, amount |-> amount])
    /\ UNCHANGED <<budget, invoice, financeCall, histories>>

Clearable(y) == payment[y].status = "Submitted"

CheckPayment(p, y, status) ==
    /\ status = "Cleared" => Clearable(y)
    /\ Check(p, [op |-> "payment", step |-> "check", row |-> y, status |-> status,
                 seen |-> 0])

\* The row of the payment is updated, and the invoice is read.
readInvoice(p) ==
    LET c == financeCall[p] IN
    /\ c.op = "payment" /\ c.step = "check" /\ c.status = "Cleared"
    /\ Unlocked(p, c.row)
    /\ Proceed(p, invoice[payment[c.row].invoice].paid)

\* Faulty variant: the balance is not kept from falling below 0.
balanceSigned(total, paid, amount) == total - (paid + amount)

balanceAfter(total, paid, amount) ==
    IF paid + amount >= total THEN 0 ELSE total - (paid + amount)

\* Faulty variant: the amount replaces what was paid before.
paidByPayment(seen, amount) == amount

paidAfter(seen, amount) == seen + amount

\* A payment may be Cleared, or no longer Submitted, by the time it is written.
changePaymentStatus(p) ==
    LET c == financeCall[p]
        y == payment[c.row]
        row == invoice[y.invoice]
        balance == balanceAfter(row.total, c.seen, y.amount)
        again == IF y.status = "Cleared" THEN {y.invoice} ELSE {}
    IN  /\ c.op = "payment"
        /\ IF c.status # "Cleared"
           THEN /\ Unlocked(p, c.row)
                /\ reopened' = reopened \cup again
                /\ UNCHANGED <<invoice, recleared>>
           ELSE /\ c.step = "write"
                /\ c.seen + y.amount <= MaxPaid
                /\ invoice' = [invoice EXCEPT ![y.invoice] =
                       [total |-> row.total, balance |-> balance,
                        paid |-> paidAfter(c.seen, y.amount),
                        status |-> IF balance = 0 THEN "Paid" ELSE "PartiallyPaid"]]
                /\ recleared' = recleared \cup again
                /\ UNCHANGED reopened
        /\ payment' = [payment EXCEPT ![c.row].status = c.status]
        /\ End(p)
        /\ UNCHANGED <<budget, crossed>>

-----------------------------------------------------------------------------

NewCall(p) ==
    \/ \E t \in BudgetType : ReadLatest(p, t)
    \/ \E v \in DOMAIN budget, status \in VersionStatus : CheckBudget(p, v, status)
    \/ \E i \in DOMAIN invoice, status \in InvoiceStatus : CheckInvoice(p, i, status)
    \/ \E y \in DOMAIN payment, status \in PaymentStatus : CheckPayment(p, y, status)

Write(p) ==
    \/ createBudgetVersion(p) \/ supersedeOthers(p) \/ changeBudgetStatus(p)
    \/ changeInvoiceStatus(p) \/ readInvoice(p) \/ changePaymentStatus(p)

FinanceNext ==
    \/ \E p \in Handler : NewCall(p) \/ Write(p) \/ Throw(p)
    \/ \E i \in Invoice, total \in Total : createInvoice(i, total)
    \/ \E y \in Payment, i \in Invoice, amount \in Amount : createPayment(y, i, amount)

FinanceSpec == FinanceInit /\ [][FinanceNext]_financeVars

-----------------------------------------------------------------------------
(***************************************************************************)
(* Properties                                                              *)
(***************************************************************************)

\* At most one version of a type is in force, by whatever mixture of approvals,
\* locks and stale checks it came there: two are only after two approvals that
\* overlapped.
OneEffectiveBudget ==
    \A t \in BudgetType \ crossed : Cardinality(EffectiveVersions(t)) <= 1

\* The units of money of the payments of i that are Cleared.
ClearedUnits(i) ==
    UNION {{y} \X (1..payment[y].amount) :
              y \in {y \in DOMAIN payment : payment[y].invoice = i /\ payment[y].status = "Cleared"}}

\* What an invoice shows as paid is the sum of its payments that are Cleared: it is
\* never more, and it is less only after two clearings of it overlapped.  Left out
\* are the invoices with a payment that was cleared and then cleared again, which
\* ClearedOnce is about, or given another status, which no amount follows.
PaidIsCleared ==
    \A i \in DOMAIN invoice \ (recleared \cup reopened) :
        /\ invoice[i].paid <= Cardinality(ClearedUnits(i))
        /\ i \notin crossed => invoice[i].paid = Cardinality(ClearedUnits(i))

\* What changePaymentStatus says of a clearing, "Only submitted payments may be
\* marked cleared": a payment that is cleared is counted once, as long as none is
\* taken back.
ClearedOnce ==
    \A i \in DOMAIN invoice \ reopened : invoice[i].paid <= Cardinality(ClearedUnits(i))

=============================================================================

------------------------- MODULE FinanceControlProofs -------------------------
(***************************************************************************)
(* What the run checks of budget versions and payments, for any number of  *)
(* handlers, versions, invoices and payments.                              *)
(*                                                                         *)
(* The argument: a transaction between its two statements has seen every   *)
(* effective version, or the amount paid, of its type or invoice, and it   *)
(* is the only such transaction, unless the type or invoice was crossed    *)
(* (BudgetSeen, PaidSeen); what it has seen is at most the sum of the      *)
(* Cleared payments in any case, unless one was cleared again or reopened. *)
(***************************************************************************)
EXTENDS FinanceControl, FiniteSetTheorems, TLAPS

Call == {NoCall} \cup BudgetCall \cup CreateCall \cup InvoiceCall \cup PaymentCall

BudgetTypeOK ==
    /\ DOMAIN budget \subseteq Version
    /\ budget \in [DOMAIN budget -> VersionStatus]

InvoiceTypeOK ==
    /\ DOMAIN invoice \subseteq Invoice
    /\ invoice \in [DOMAIN invoice -> InvoiceRow]

\* A payment of an invoice refers to one that exists.
PaymentTypeOK ==
    /\ DOMAIN payment \subseteq Payment
    /\ payment \in [DOMAIN payment -> PaymentRow]
    /\ \A y \in DOMAIN payment : payment[y].invoice \in DOMAIN invoice

\* A handler refers to a payment that exists.
CallTypeOK ==
    /\ financeCall \in [Handler -> Call]
    /\ \A p \in Handler : financeCall[p].op = "payment" => financeCall[p].row \in DOMAIN payment

HistoryTypeOK ==
    /\ crossed \subseteq BudgetType \cup Invoice
    /\ recleared \subseteq Invoice /\ reopened \subseteq Invoice

TypeInv ==
    /\ BudgetTypeOK
    /\ InvoiceTypeOK
    /\ PaymentTypeOK
    /\ CallTypeOK
    /\ HistoryTypeOK

\* Transactions between their two statements.
Approving(p) == financeCall[p].op = "budget" /\ financeCall[p].step = "write"
Clearing(p) == financeCall[p].op = "payment" /\ financeCall[p].step = "write"

BudgetOf(p) == financeCall[p].row[1]
InvoiceOf(p) == payment[financeCall[p].row].invoice

\* What an approval and a clearing have seen between their two statements.
BudgetSeen ==
    \A p \in Handler : Approving(p) =>
        /\ financeCall[p].status \in Effective
        /\ BudgetOf(p) \notin crossed =>
              /\ EffectiveVersions(BudgetOf(p)) \subseteq financeCall[p].seen \cup {financeCall[p].row}
              /\ \A q \in Handler : Approving(q) /\ BudgetOf(q) = BudgetOf(p) => q = p

Recounted == recleared \cup reopened

PaidSeen ==
    \A p \in Handler : Clearing(p) =>
        /\ financeCall[p].status = "Cleared"
        /\ InvoiceOf(p) \notin Recounted =>
              financeCall[p].seen <= Cardinality(ClearedUnits(InvoiceOf(p)))
        /\ InvoiceOf(p) \notin crossed =>
              /\ financeCall[p].seen = invoice[InvoiceOf(p)].paid
              /\ \A q \in Handler : Clearing(q) /\ InvoiceOf(q) = InvoiceOf(p) => q = p

OneEffective ==
    \A t \in BudgetType \ crossed : \A v, w \in EffectiveVersions(t) : v = w

BudgetInv == BudgetSeen /\ OneEffective

UnitsFinite == \A i \in Invoice : IsFiniteSet(ClearedUnits(i))

PaidInv == PaidSeen /\ PaidIsCleared /\ UnitsFinite

-----------------------------------------------------------------------------
(***************************************************************************)
(* Types                                                                   *)
(***************************************************************************)

\* The kind of call its op says it is.
LEMMA CallKind ==
    ASSUME NEW c \in Call
    PROVE  /\ c.op = "budget" => c \in BudgetCall
           /\ c.op = "createBudget" => c \in CreateCall
           /\ c.op = "invoice" => c \in InvoiceCall
           /\ c.op = "payment" => c \in PaymentCall
BY DEF Call, NoCall, BudgetCall, CreateCall, InvoiceCall, PaymentCall

LEMMA TypeInit == FinanceInit => TypeInv
<1> SUFFICES ASSUME FinanceInit PROVE TypeInv
  OBVIOUS
<1>1. DOMAIN Empty = {} /\ \A S : Empty \in [{} -> S]
  BY DEF Empty
<1>2. BudgetTypeOK /\ InvoiceTypeOK /\ PaymentTypeOK
  BY <1>1 DEF FinanceInit, BudgetTypeOK, InvoiceTypeOK, PaymentTypeOK
<1>3. CallTypeOK
  BY DEF FinanceInit, CallTypeOK, Call, NoCall
<1>4. HistoryTypeOK
  BY DEF FinanceInit, HistoryTypeOK
<1> QED
  BY <1>2, <1>3, <1>4 DEF TypeInv

\* Call p proceeds from c to new, writing down what it has seen.
Proceeding(p, c, new, seen) ==
    /\ financeCall' = [financeCall EXCEPT ![p] = new]
    /\ new.op = c.op /\ new.row = c.row /\ new.status = c.status
    /\ new.step = "write" /\ new.seen = seen
    /\ crossed \subseteq crossed'
    /\ crossed' \subseteq crossed \cup {Subject(c)}
    /\ Subject(c) \notin crossed' =>
          \A q \in Handler \ {p} :
             ~ /\ financeCall[q].op = c.op /\ financeCall[q].step = "write"
               /\ Subject(financeCall[q]) = Subject(c)
    /\ UNCHANGED <<financeRows, recleared, reopened>>

\* What a second statement writes down.
LEMMA ProceedStep ==
    ASSUME TypeInv, NEW p \in Handler, NEW seen, Proceed(p, seen),
           financeCall[p].op \in {"budget", "payment"}
    PROVE  Proceeding(p, financeCall[p],
                      [financeCall[p] EXCEPT !.step = "write", !.seen = seen], seen)
<1> DEFINE c == financeCall[p]
           new == [c EXCEPT !.step = "write", !.seen = seen]
<1>1. c \in BudgetCall \cup PaymentCall
  BY CallKind DEF TypeInv, CallTypeOK
<1>2. /\ new.op = c.op /\ new.row = c.row /\ new.status = c.status
      /\ new.step = "write" /\ new.seen = seen
  BY <1>1 DEF BudgetCall, PaymentCall
<1>3. financeCall' = [financeCall EXCEPT ![p] = new] /\ UNCHANGED <<financeRows, recleared, reopened>>
  BY DEF Proceed
<1> HIDE DEF new
<1>4. /\ crossed \subseteq crossed'
      /\ crossed' \subseteq crossed \cup {Subject(c)}
      /\ Subject(c) \notin crossed' =>
            \A q \in Handler \ {p} :
               ~ /\ financeCall[q].op = c.op /\ financeCall[q].step = "write"
                 /\ Subject(financeCall[q]) = Subject(c)
  BY DEF Proceed
<1>5. Proceeding(p, c, new, seen)
  BY <1>2, <1>3, <1>4 DEF Proceeding, new
<1> QED
  BY <1>5 DEF new

\* Starting or ending a call leaves the tables as they are typed.
LEMMA CheckStep ==
    ASSUME TypeInv, NEW p \in Handler, NEW c \in Call, Check(p, c),
           c.op = "payment" => c.row \in DOMAIN payment
    PROVE  TypeInv'
<1>1. UNCHANGED <<financeRows, histories>>
  BY DEF Check, financeRows, histories
<1>2. financeCall' = [financeCall EXCEPT ![p] = c]
  BY DEF Check
<1>3. CallTypeOK'
  BY <1>1, <1>2 DEF TypeInv, CallTypeOK, financeRows
<1> QED
  BY <1>1, <1>3 DEF TypeInv, BudgetTypeOK, InvoiceTypeOK, PaymentTypeOK, HistoryTypeOK,
                    financeRows, histories

LEMMA EndStep ==
    ASSUME TypeInv, NEW p \in Handler, End(p), DOMAIN payment' = DOMAIN payment
    PROVE  CallTypeOK'
BY DEF End, TypeInv, CallTypeOK, Call, NoCall

LEMMA NewCallTypeStep ==
    ASSUME TypeInv, NEW p \in Handler, NewCall(p)
    PROVE  TypeInv'
<1>1. ASSUME NEW t \in BudgetType, ReadLatest(p, t) PROVE TypeInv'
  <2>1. PICK n \in 1..MaxBudget : Check(p, [op |-> "createBudget", row |-> <<t, n>>])
    BY <1>1 DEF ReadLatest
  <2>2. [op |-> "createBudget", row |-> <<t, n>>] \in Call
    BY DEF Call, CreateCall, Version
  <2> QED
    BY <2>1, <2>2, CheckStep
<1>2. ASSUME NEW v \in DOMAIN budget, NEW status \in VersionStatus, CheckBudget(p, v, status)
      PROVE  TypeInv'
  <2> DEFINE c == [op |-> "budget", step |-> "check", row |-> v, status |-> status, seen |-> {}]
  <2>1. c \in Call
    BY DEF Call, BudgetCall, TypeInv, BudgetTypeOK
  <2>2. c.op # "payment" /\ Check(p, c)
    BY <1>2 DEF CheckBudget
  <2> QED
    BY <2>1, <2>2, CheckStep
<1>3. ASSUME NEW i \in DOMAIN invoice, NEW status \in InvoiceStatus, CheckInvoice(p, i, status)
      PROVE  TypeInv'
  <2> DEFINE c == [op |-> "invoice", row |-> i, status |-> status]
  <2>1. c \in Call
    BY DEF Call, InvoiceCall, TypeInv, InvoiceTypeOK
  <2>2. c.op # "payment" /\ Check(p, c)
    BY <1>3 DEF CheckInvoice
  <2> QED
    BY <2>1, <2>2, CheckStep
<1>4. ASSUME NEW y \in DOMAIN payment, NEW status \in PaymentStatus, CheckPayment(p, y, status)
      PROVE  TypeInv'
  <2> DEFINE c == [op |-> "payment", step |-> "check", row |-> y, status |-> status, seen |-> 0]
  <2>1. c \in Call
    BY DEF Call, PaymentCall, TypeInv, PaymentTypeOK
  <2>2. c.row \in DOMAIN payment /\ Check(p, c)
    BY <1>4 DEF CheckPayment
  <2> QED
    BY <2>1, <2>2, CheckStep
<1> QED
  BY <1>1, <1>2, <1>3, <1>4 DEF NewCall

\* The first statement of an approval and of a clearing.
LEMMA FirstTypeStep ==
    ASSUME TypeInv, NEW p \in Handler, supersedeOthers(p) \/ readInvoice(p)
    PROVE  TypeInv'
<1> DEFINE c == financeCall[p]
<1>1. c \in Call /\ (c.op = "payment" => c.row \in DOMAIN payment)
  BY DEF TypeInv, CallTypeOK
<1>2. PICK seen : /\ Proceed(p, seen)
                  /\ \/ c.op = "budget" /\ seen \subseteq Version /\ Subject(c) \in BudgetType
                     \/ c.op = "payment" /\ seen \in Nat /\ Subject(c) \in Invoice
  <2>1. CASE supersedeOthers(p)
    <3>1. c \in BudgetCall /\ c.op = "budget"
      BY <1>1, <2>1, CallKind DEF supersedeOthers
    <3>2. supersedable(c.row) \subseteq Version
      BY DEF supersedable, EffectiveVersions, TypeInv, BudgetTypeOK
    <3>3. Subject(c) \in BudgetType
      BY <3>1 DEF Subject, BudgetCall, Version
    <3> QED
      BY <2>1, <3>1, <3>2, <3>3 DEF supersedeOthers
  <2>2. CASE readInvoice(p)
    <3>1. c.op = "payment" /\ payment[c.row].invoice \in DOMAIN invoice
      BY <1>1, <2>2 DEF readInvoice, TypeInv, PaymentTypeOK
    <3>2. invoice[payment[c.row].invoice].paid \in Nat
      BY <3>1 DEF TypeInv, InvoiceTypeOK, InvoiceRow
    <3>3. Subject(c) \in Invoice
      BY <3>1 DEF Subject, TypeInv, InvoiceTypeOK
    <3> QED
      BY <2>2, <3>1, <3>2, <3>3 DEF readInvoice
  <2> QED
    BY <2>1, <2>2
<1> DEFINE new == [c EXCEPT !.step = "write", !.seen = seen]
<1>3. /\ financeCall' = [financeCall EXCEPT ![p] = new]
      /\ new.op = c.op /\ new.row = c.row
      /\ crossed' \subseteq crossed \cup {Subject(c)}
      /\ UNCHANGED <<financeRows, recleared, reopened>>
  <2>1. financeCall[p].op \in {"budget", "payment"}
    BY <1>2
  <2>2. Proceeding(p, financeCall[p],
                   [financeCall[p] EXCEPT !.step = "write", !.seen = seen], seen)
    BY <1>2, <2>1, ProceedStep
  <2> QED
    BY <2>2 DEF Proceeding
<1>4. new \in Call
  <2>1. CASE c.op = "budget"
    <3>1. c \in BudgetCall /\ seen \subseteq Version
      BY <1>1, <1>2, <2>1, CallKind
    <3> QED
      BY <3>1 DEF Call, BudgetCall
  <2>2. CASE c.op = "payment"
    <3>1. c \in PaymentCall /\ seen \in Nat
      BY <1>1, <1>2, <2>2, CallKind
    <3> QED
      BY <3>1 DEF Call, PaymentCall
  <2> QED
    BY <1>2, <2>1, <2>2
<1> HIDE DEF new
<1>5. CallTypeOK'
  BY <1>1, <1>3, <1>4 DEF TypeInv, CallTypeOK, financeRows
<1>6. HistoryTypeOK'
  BY <1>2, <1>3 DEF TypeInv, HistoryTypeOK, financeRows
<1> QED
  BY <1>3, <1>5, <1>6 DEF TypeInv, BudgetTypeOK, InvoiceTypeOK, PaymentTypeOK, financeRows

LEMMA BalanceType ==
    ASSUME NEW total \in Nat, NEW paid \in Nat, NEW amount \in Nat
    PROVE  balanceAfter(total, paid, amount) \in Nat /\ paidAfter(paid, amount) \in Nat
BY DEF balanceAfter, paidAfter

\* The statement of changePaymentStatus that adds to the invoice.
LEMMA ClearingStep ==
    ASSUME TypeInv, NEW p \in Handler, changePaymentStatus(p), financeCall[p].status = "Cleared"
    PROVE  LET c == financeCall[p]
               i == InvoiceOf(p)
           IN  /\ c \in PaymentCall /\ i \in DOMAIN invoice /\ c.step = "write"
               /\ invoice[i] \in InvoiceRow /\ payment[c.row] \in PaymentRow
               /\ DOMAIN invoice' = DOMAIN invoice
               /\ invoice' \in [DOMAIN invoice -> InvoiceRow]
               /\ invoice'[i].paid = c.seen + payment[c.row].amount
               /\ \A j \in DOMAIN invoice \ {i} : invoice'[j] = invoice[j]
               /\ recleared' = recleared \cup IF payment[c.row].status = "Cleared" THEN {i} ELSE {}
               /\ UNCHANGED reopened
<1> DEFINE c == financeCall[p]
           y == payment[c.row]
           i == y.invoice
           row == invoice[i]
           balance == balanceAfter(row.total, c.seen, y.amount)
           new == [total |-> row.total, balance |-> balance, paid |-> paidAfter(c.seen, y.amount),
                   status |-> IF balance = 0 THEN "Paid" ELSE "PartiallyPaid"]
<1>1. c.op = "payment" /\ c \in PaymentCall
  BY CallKind DEF changePaymentStatus, TypeInv, CallTypeOK
<1>2. c.row \in DOMAIN payment /\ y \in PaymentRow /\ i \in DOMAIN invoice /\ row \in InvoiceRow
  BY <1>1 DEF TypeInv, CallTypeOK, PaymentTypeOK, InvoiceTypeOK
<1>3. row.total \in Total /\ row.total \in Nat /\ c.seen \in Nat /\ y.amount \in Nat
  BY <1>1, <1>2, FinanceAssumption DEF InvoiceRow, PaymentCall, PaymentRow
<1>4. balance \in Nat /\ paidAfter(c.seen, y.amount) \in Nat
  BY <1>3, BalanceType
<1>5. /\ c.step = "write" /\ invoice' = [invoice EXCEPT ![i] = new]
      /\ recleared' = recleared \cup IF y.status = "Cleared" THEN {i} ELSE {}
      /\ UNCHANGED reopened
  BY <1>1 DEF changePaymentStatus
<1> HIDE DEF balance
<1>6. new \in InvoiceRow /\ new.paid = c.seen + y.amount
  BY <1>3, <1>4 DEF InvoiceRow, InvoiceStatus, paidAfter
<1> HIDE DEF new
<1>7. /\ DOMAIN invoice' = DOMAIN invoice
      /\ invoice' \in [DOMAIN invoice -> InvoiceRow]
      /\ invoice'[i] = new
      /\ \A j \in DOMAIN invoice \ {i} : invoice'[j] = invoice[j]
  BY <1>2, <1>5, <1>6 DEF TypeInv, InvoiceTypeOK
<1> QED
  BY <1>1, <1>2, <1>5, <1>6, <1>7 DEF InvoiceOf

LEMMA WriteTypeStep ==
    ASSUME TypeInv, NEW p \in Handler, Write(p)
    PROVE  TypeInv'
<1> DEFINE c == financeCall[p]
<1>0. c \in Call /\ (c.op = "payment" => c.row \in DOMAIN payment)
  BY DEF TypeInv, CallTypeOK
<1>1. CASE createBudgetVersion(p)
  <2>1. c \in CreateCall
    BY <1>0, <1>1, CallKind DEF createBudgetVersion
  <2>2. /\ DOMAIN budget' \subseteq Version
        /\ budget' \in [DOMAIN budget' -> VersionStatus]
    <3>1. c.row \in Version /\ "Draft" \in VersionStatus
      BY <2>1 DEF CreateCall, VersionStatus
    <3>2. budget' = Put(budget, c.row, "Draft")
      BY <1>1 DEF createBudgetVersion
    <3> QED
      BY <3>1, <3>2 DEF Put, TypeInv, BudgetTypeOK
  <2>3. UNCHANGED <<invoice, payment, histories>> /\ End(p)
    BY <1>1 DEF createBudgetVersion
  <2> QED
    BY <2>2, <2>3, EndStep
       DEF TypeInv, BudgetTypeOK, InvoiceTypeOK, PaymentTypeOK, HistoryTypeOK, histories
<1>2. CASE changeBudgetStatus(p)
  <2>1. c \in BudgetCall
    BY <1>0, <1>2, CallKind DEF changeBudgetStatus
  <2>2. /\ DOMAIN budget' \subseteq Version
        /\ budget' \in [DOMAIN budget' -> VersionStatus]
    <3>1. c.status \in VersionStatus /\ "Superseded" \in VersionStatus
      BY <2>1 DEF BudgetCall, VersionStatus
    <3> QED
      BY <1>2, <3>1 DEF changeBudgetStatus, TypeInv, BudgetTypeOK
  <2>3. UNCHANGED <<invoice, payment, histories>> /\ End(p)
    BY <1>2 DEF changeBudgetStatus
  <2> QED
    BY <2>2, <2>3, EndStep
       DEF TypeInv, BudgetTypeOK, InvoiceTypeOK, PaymentTypeOK, HistoryTypeOK, histories
<1>3. CASE changeInvoiceStatus(p)
  <2>1. c \in InvoiceCall
    BY <1>0, <1>3, CallKind DEF changeInvoiceStatus
  <2>2. DOMAIN invoice' = DOMAIN invoice /\ invoice' \in [DOMAIN invoice -> InvoiceRow]
    <3>1. c.status \in InvoiceStatus
      BY <2>1 DEF InvoiceCall
    <3>2. \A i \in DOMAIN invoice : [invoice[i] EXCEPT !.status = c.status] \in InvoiceRow
      BY <3>1 DEF TypeInv, InvoiceTypeOK, InvoiceRow
    <3>3. invoice' = [invoice EXCEPT ![c.row] = [invoice[c.row] EXCEPT !.status = c.status]]
      BY <1>3 DEF changeInvoiceStatus
    <3> QED
      BY <3>2, <3>3 DEF TypeInv, InvoiceTypeOK
  <2>3. UNCHANGED <<budget, payment, histories>> /\ End(p)
    BY <1>3 DEF changeInvoiceStatus
  <2> QED
    BY <2>2, <2>3, EndStep
       DEF TypeInv, BudgetTypeOK, InvoiceTypeOK, PaymentTypeOK, HistoryTypeOK, histories
<1>4. CASE changePaymentStatus(p)
  <2>1. c \in PaymentCall /\ c.row \in DOMAIN payment
    BY <1>0, <1>4, CallKind DEF changePaymentStatus
  <2>2. /\ DOMAIN payment' = DOMAIN payment
        /\ payment' \in [DOMAIN payment -> PaymentRow]
        /\ \A y \in DOMAIN payment : payment'[y].invoice = payment[y].invoice
    <3> DEFINE new == [payment[c.row] EXCEPT !.status = c.status]
    <3>1. payment[c.row] \in PaymentRow /\ c.status \in PaymentStatus
      BY <2>1 DEF TypeInv, PaymentTypeOK, PaymentCall
    <3>2. new \in PaymentRow /\ new.invoice = payment[c.row].invoice
      BY <3>1 DEF PaymentRow
    <3>3. payment' = [payment EXCEPT ![c.row] = new]
      BY <1>4 DEF changePaymentStatus
    <3> HIDE DEF new
    <3> QED
      BY <2>1, <3>2, <3>3 DEF TypeInv, PaymentTypeOK
  <2>3. /\ DOMAIN invoice' = DOMAIN invoice
        /\ invoice' \in [DOMAIN invoice -> InvoiceRow]
        /\ recleared' \subseteq Invoice /\ reopened' \subseteq Invoice
    <3>1. InvoiceOf(p) \in Invoice
      BY <2>1 DEF InvoiceOf, TypeInv, PaymentTypeOK, PaymentRow
    <3>2. CASE c.status = "Cleared"
      BY <1>4, <3>1, <3>2, ClearingStep DEF TypeInv, HistoryTypeOK
    <3>3. CASE c.status # "Cleared"
      BY <1>4, <3>1, <3>3
         DEF changePaymentStatus, InvoiceOf, TypeInv, HistoryTypeOK, InvoiceTypeOK
    <3> QED
      BY <3>2, <3>3
  <2>4. UNCHANGED <<budget, crossed>> /\ End(p)
    BY <1>4 DEF changePaymentStatus
  <2>5. CallTypeOK'
    BY <2>2, <2>4, EndStep
  <2>6. PaymentTypeOK' /\ InvoiceTypeOK'
    BY <2>2, <2>3 DEF TypeInv, PaymentTypeOK, InvoiceTypeOK
  <2> QED
    BY <2>3, <2>4, <2>5, <2>6 DEF TypeInv, BudgetTypeOK, HistoryTypeOK
<1> QED
  BY <1>1, <1>2, <1>3, <1>4, FirstTypeStep DEF Write

LEMMA TypeStep ==
    ASSUME TypeInv, [FinanceNext]_financeVars
    PROVE  TypeInv'
<1>1. CASE UNCHANGED financeVars
  BY <1>1 DEF financeVars, histories, TypeInv, BudgetTypeOK, InvoiceTypeOK, PaymentTypeOK, CallTypeOK,
      HistoryTypeOK
<1>2. ASSUME NEW p \in Handler, Throw(p) PROVE TypeInv'
  <2>1. End(p) /\ UNCHANGED <<financeRows, histories>>
    BY <1>2 DEF Throw
  <2> QED
    BY <2>1, EndStep
       DEF financeRows, histories, TypeInv, BudgetTypeOK, InvoiceTypeOK, PaymentTypeOK, HistoryTypeOK
<1>3. ASSUME NEW i \in Invoice, NEW total \in Total, createInvoice(i, total) PROVE TypeInv'
  <2> DEFINE row == [status |-> "Draft", total |-> total, paid |-> 0, balance |-> total]
  <2>1. row \in InvoiceRow
    BY FinanceAssumption DEF InvoiceRow, InvoiceStatus
  <2>2. invoice' = Put(invoice, i, row)
    BY <1>3 DEF createInvoice
  <2> HIDE DEF row
  <2>3. InvoiceTypeOK' /\ DOMAIN invoice \subseteq DOMAIN invoice'
    BY <2>1, <2>2 DEF Put, TypeInv, InvoiceTypeOK
  <2>4. UNCHANGED <<budget, payment, financeCall, histories>>
    BY <1>3 DEF createInvoice
  <2> QED
    BY <2>3, <2>4 DEF TypeInv, BudgetTypeOK, PaymentTypeOK, CallTypeOK, HistoryTypeOK,
       histories
<1>4. ASSUME NEW y \in Payment, NEW i \in Invoice, NEW amount \in Amount, createPayment(y, i, amount)
      PROVE  TypeInv'
  <2> DEFINE row == [status |-> "Open", invoice |-> i, amount |-> amount]
  <2>1. row \in PaymentRow /\ row.invoice = i
    BY DEF PaymentRow, PaymentStatus
  <2>2. payment' = Put(payment, y, row) /\ i \in DOMAIN invoice /\ y \notin DOMAIN payment
    BY <1>4 DEF createPayment
  <2> HIDE DEF row
  <2>3. UNCHANGED <<budget, invoice, financeCall, histories>>
    BY <1>4 DEF createPayment
  <2>4. PaymentTypeOK' /\ DOMAIN payment \subseteq DOMAIN payment'
    <3>1. /\ DOMAIN payment' = DOMAIN payment \cup {y}
          /\ DOMAIN payment' \subseteq Payment
          /\ payment' \in [DOMAIN payment \cup {y} -> PaymentRow]
          /\ payment'[y] = row
          /\ \A k \in DOMAIN payment \ {y} : payment'[k] = payment[k]
      BY <2>1, <2>2 DEF Put, TypeInv, PaymentTypeOK
    <3> QED
      BY <2>1, <2>2, <2>3, <3>1 DEF TypeInv, PaymentTypeOK
  <2> QED
    BY <2>3, <2>4 DEF TypeInv, BudgetTypeOK, InvoiceTypeOK, CallTypeOK, HistoryTypeOK,
       histories
<1> QED
  BY <1>1, <1>2, <1>3, <1>4, NewCallTypeStep, WriteTypeStep DEF FinanceNext

-----------------------------------------------------------------------------
(***************************************************************************)
(* Steps                                                                   *)
(***************************************************************************)

\* A handler that takes a step other than the first statement of a transaction is
\* not between two statements after it.
LEMMA CallStep ==
    ASSUME TypeInv, [FinanceNext]_financeVars,
           ~ \E p \in Handler : supersedeOthers(p) \/ readInvoice(p)
    PROVE  /\ UNCHANGED crossed
           /\ \A q \in Handler : \/ financeCall'[q] = financeCall[q]
                              \/ financeCall'[q] = NoCall
                              \/ financeCall'[q].op \in {"createBudget", "invoice"}
                              \/ financeCall'[q].step = "check"
<1> DEFINE Started == \A q \in Handler : \/ financeCall'[q] = financeCall[q]
                                      \/ financeCall'[q] = NoCall
                                      \/ financeCall'[q].op \in {"createBudget", "invoice"}
                                      \/ financeCall'[q].step = "check"
<1>0. financeCall \in [Handler -> Call]
  BY DEF TypeInv, CallTypeOK
<1>1. CASE UNCHANGED financeVars
  BY <1>1 DEF financeVars, histories
<1>2. ASSUME NEW p \in Handler, End(p) PROVE Started
  BY <1>0, <1>2 DEF End
<1>3. ASSUME NEW p \in Handler, NewCall(p) PROVE UNCHANGED crossed /\ Started
  <2>1. ASSUME NEW c, Check(p, c), c.op \in {"createBudget", "invoice"} \/ c.step = "check"
        PROVE  UNCHANGED crossed /\ Started
    BY <1>0, <2>1 DEF Check, financeRows, histories
  <2>2. ASSUME NEW t \in BudgetType, ReadLatest(p, t) PROVE UNCHANGED crossed /\ Started
    <3>1. PICK n \in 1..MaxBudget : Check(p, [op |-> "createBudget", row |-> <<t, n>>])
      BY <2>2 DEF ReadLatest
    <3> QED
      BY <2>1, <3>1
  <2>3. ASSUME NEW v, NEW status, CheckBudget(p, v, status) PROVE UNCHANGED crossed /\ Started
    BY <2>1, <2>3 DEF CheckBudget
  <2>4. ASSUME NEW i, NEW status, CheckInvoice(p, i, status) PROVE UNCHANGED crossed /\ Started
    BY <2>1, <2>4 DEF CheckInvoice
  <2>5. ASSUME NEW y, NEW status, CheckPayment(p, y, status) PROVE UNCHANGED crossed /\ Started
    BY <2>1, <2>5 DEF CheckPayment
  <2> QED
    BY <1>3, <2>2, <2>3, <2>4, <2>5 DEF NewCall
<1>4. ASSUME NEW p \in Handler, Throw(p) PROVE UNCHANGED crossed /\ Started
  BY <1>2, <1>4 DEF Throw, financeRows, histories
<1>5. ASSUME NEW p \in Handler, \/ createBudgetVersion(p) \/ changeBudgetStatus(p)
                             \/ changeInvoiceStatus(p) \/ changePaymentStatus(p)
      PROVE  UNCHANGED crossed /\ Started
  BY <1>2, <1>5 DEF histories, createBudgetVersion, changeBudgetStatus, changeInvoiceStatus,
                    changePaymentStatus
<1>6. ASSUME \/ \E i \in Invoice, total \in Total : createInvoice(i, total)
             \/ \E y \in Payment, i \in Invoice, amount \in Amount : createPayment(y, i, amount)
      PROVE  UNCHANGED crossed /\ Started
  BY <1>6 DEF histories, createInvoice, createPayment
<1> QED
  BY <1>1, <1>3, <1>4, <1>5, <1>6 DEF FinanceNext, Write

\* Which statements change the budget versions, and how.
LEMMA BudgetStep ==
    ASSUME TypeInv, [FinanceNext]_financeVars
    PROVE  \/ UNCHANGED budget
           \/ \E p \in Handler : createBudgetVersion(p) \/ changeBudgetStatus(p)
BY DEF FinanceNext, NewCall, Write, Throw, ReadLatest, CheckBudget, CheckInvoice, CheckPayment,
       Check, supersedeOthers, readInvoice, Proceed, changeInvoiceStatus,
       changePaymentStatus, createInvoice, createPayment, financeRows, histories, financeVars

\* A step after which no version is effective that was not, and nobody has begun
\* an approval, keeps the invariant.
LEMMA BudgetKept ==
    ASSUME TypeInv, BudgetInv, crossed \subseteq crossed',
           \A t \in BudgetType : EffectiveVersions(t)' \subseteq EffectiveVersions(t),
           \A q \in Handler : Approving(q)' => financeCall'[q] = financeCall[q]
    PROVE  BudgetInv'
<1>1. ASSUME NEW q \in Handler, Approving(q)'
      PROVE  Approving(q) /\ UNCHANGED financeCall[q] /\ BudgetOf(q)' = BudgetOf(q)
             /\ BudgetOf(q) \in BudgetType
  <2>1. Approving(q) /\ UNCHANGED financeCall[q]
    BY <1>1 DEF Approving
  <2>2. financeCall[q] \in BudgetCall
    BY <2>1, CallKind DEF Approving, TypeInv, CallTypeOK
  <2> QED
    BY <2>1, <2>2 DEF BudgetOf, BudgetCall, Version
<1>2. BudgetSeen'
  <2> SUFFICES ASSUME NEW p \in Handler, Approving(p)'
               PROVE  /\ financeCall'[p].status \in Effective
                      /\ BudgetOf(p)' \notin crossed' =>
                            /\ EffectiveVersions(BudgetOf(p))' \subseteq financeCall'[p].seen \cup {financeCall'[p].row}
                            /\ \A q \in Handler : Approving(q)' /\ BudgetOf(q)' = BudgetOf(p)' => q = p
    BY DEF BudgetSeen
  <2>1. EffectiveVersions(BudgetOf(p))' \subseteq EffectiveVersions(BudgetOf(p))
    BY <1>1 DEF EffectiveVersions, BudgetOf
  <2> QED
    BY <1>1, <2>1 DEF BudgetInv, BudgetSeen
<1>3. OneEffective'
  BY DEF BudgetInv, OneEffective
<1> QED
  BY <1>2, <1>3 DEF BudgetInv

LEMMA BudgetInvStep ==
    ASSUME TypeInv, BudgetInv, [FinanceNext]_financeVars
    PROVE  BudgetInv'
<1>0. financeCall \in [Handler -> Call] /\ BudgetTypeOK
  BY DEF TypeInv, CallTypeOK
<1>1. CASE ~ \E p \in Handler : supersedeOthers(p) \/ readInvoice(p)
  <2>1. /\ UNCHANGED crossed
        /\ \A q \in Handler : Approving(q)' => financeCall'[q] = financeCall[q]
    BY <1>1, CallStep DEF Approving, NoCall
  <2>2. CASE UNCHANGED budget
    BY <2>1, <2>2, BudgetKept DEF EffectiveVersions
  <2>3. ASSUME NEW p \in Handler, createBudgetVersion(p)
        PROVE  BudgetInv'
    <3>1. budget' = Put(budget, financeCall[p].row, "Draft") /\ financeCall[p].row \notin DOMAIN budget
      BY <2>3 DEF createBudgetVersion
    <3>2. \A t \in BudgetType : EffectiveVersions(t)' \subseteq EffectiveVersions(t)
      BY <3>1 DEF EffectiveVersions, Put, Effective
    <3> QED
      BY <2>1, <3>2, BudgetKept
  <2>4. ASSUME NEW p \in Handler, changeBudgetStatus(p) PROVE BudgetInv'
    <3> DEFINE c == financeCall[p]
    <3>1. /\ c.op = "budget" /\ (c.step = "write" \/ c.status \notin Effective)
          /\ budget' = [v \in DOMAIN budget |->
                 IF v = c.row THEN c.status
                 ELSE IF v \in c.seen /\ budget[v] \in Effective THEN "Superseded"
                 ELSE budget[v]]
          /\ financeCall' = [financeCall EXCEPT ![p] = NoCall]
      BY <2>4 DEF changeBudgetStatus, End
    <3>2. \A v \in DOMAIN budget' :
             budget'[v] \in Effective =>
                \/ v = c.row /\ c.status \in Effective
                \/ v # c.row /\ v \notin c.seen /\ budget[v] \in Effective
      BY <3>1 DEF Effective
    <3>3. DOMAIN budget' = DOMAIN budget
      BY <3>1
    <3>4. CASE c.status \notin Effective
      BY <2>1, <3>2, <3>3, <3>4, BudgetKept DEF EffectiveVersions
    <3>5. CASE c.status \in Effective
      <4>1. Approving(p) /\ ~Approving(p)'
        BY <1>0, <3>1, <3>5 DEF Approving, NoCall
      <4>2. c \in BudgetCall
        BY <1>0, <3>1, CallKind
      <4>3. c.row \in Version /\ BudgetOf(p) \in BudgetType /\ BudgetOf(p) = c.row[1]
        BY <4>2 DEF BudgetCall, BudgetOf, Version
      <4>4. \A t \in BudgetType \ {BudgetOf(p)} :
               EffectiveVersions(t)' \subseteq EffectiveVersions(t)
        BY <3>2, <3>3, <4>3 DEF EffectiveVersions
      <4>5. ASSUME NEW t \in BudgetType \ crossed, t = BudgetOf(p)
            PROVE  EffectiveVersions(t)' \subseteq {c.row}
        <5>1. EffectiveVersions(t) \subseteq c.seen \cup {c.row}
          BY <4>1, <4>5 DEF BudgetInv, BudgetSeen
        <5> QED
          BY <3>2, <3>3, <4>3, <5>1 DEF EffectiveVersions
      <4>6. ASSUME NEW q \in Handler, Approving(q)'
            PROVE  /\ Approving(q) /\ UNCHANGED financeCall[q] /\ BudgetOf(q)' = BudgetOf(q)
                   /\ BudgetOf(q) \in BudgetType /\ q # p
        <5>1. Approving(q) /\ UNCHANGED financeCall[q] /\ q # p
          BY <2>1, <4>1, <4>6 DEF Approving
        <5>2. financeCall[q] \in BudgetCall
          BY <1>0, <5>1, CallKind DEF Approving
        <5> QED
          BY <5>1, <5>2 DEF BudgetOf, BudgetCall, Version
      <4>7. BudgetSeen'
        <5> SUFFICES ASSUME NEW q \in Handler, Approving(q)'
                     PROVE  /\ financeCall[q].status \in Effective
                            /\ BudgetOf(q) \notin crossed =>
                                  /\ EffectiveVersions(BudgetOf(q))' \subseteq financeCall[q].seen \cup {financeCall[q].row}
                                  /\ \A x \in Handler : Approving(x)' /\ BudgetOf(x)' = BudgetOf(q) => x = q
          BY <2>1, <4>6 DEF BudgetSeen
        <5> QED
          BY <4>1, <4>4, <4>6 DEF BudgetInv, BudgetSeen
      <4>8. OneEffective'
        BY <2>1, <4>4, <4>5 DEF OneEffective, BudgetInv
      <4> QED
        BY <4>7, <4>8 DEF BudgetInv
    <3> QED
      BY <3>4, <3>5
  <2> QED
    BY <2>2, <2>3, <2>4, BudgetStep
<1>2. ASSUME NEW p \in Handler, readInvoice(p) PROVE BudgetInv'
  <2> DEFINE c == financeCall[p]
             seen == invoice[payment[c.row].invoice].paid
             new == [c EXCEPT !.step = "write", !.seen = seen]
  <2>1. c.op = "payment" /\ Proceed(p, seen)
    BY <1>2 DEF readInvoice
  <2> HIDE DEF seen
  <2>2. /\ financeCall' = [financeCall EXCEPT ![p] = new] /\ new.op = "payment"
        /\ crossed \subseteq crossed' /\ UNCHANGED budget
    <3>1. Proceeding(p, c, new, seen)
      BY <2>1, ProceedStep
    <3> QED
      BY <2>1, <3>1 DEF Proceeding, financeRows
  <2> HIDE DEF new
  <2>3. \A q \in Handler : Approving(q)' => financeCall'[q] = financeCall[q]
    BY <1>0, <2>2 DEF Approving
  <2> QED
    BY <2>2, <2>3, BudgetKept DEF EffectiveVersions
<1>3. ASSUME NEW p \in Handler, supersedeOthers(p) PROVE BudgetInv'
  <2> DEFINE c == financeCall[p]
             t == BudgetOf(p)
             seen == supersedable(c.row)
             new == [c EXCEPT !.step = "write", !.seen = seen]
  <2>1. c.op = "budget" /\ c.status \in Effective /\ Proceed(p, seen) /\ Subject(c) = t
    BY <1>3 DEF supersedeOthers, Subject, BudgetOf
  <2>2. c \in BudgetCall
    BY <1>0, <2>1, CallKind
  <2> HIDE DEF t, seen
  <2>3. /\ financeCall' = [financeCall EXCEPT ![p] = new]
        /\ new.op = "budget" /\ new.row = c.row /\ new.status = c.status
        /\ new.step = "write" /\ new.seen = seen
        /\ crossed \subseteq crossed'
        /\ Subject(c) \notin crossed' =>
              \A q \in Handler \ {p} :
                 ~ /\ financeCall[q].op = c.op /\ financeCall[q].step = "write"
                   /\ Subject(financeCall[q]) = Subject(c)
        /\ UNCHANGED <<financeRows, recleared, reopened>>
    <3>1. Proceeding(p, c, new, seen)
      BY <2>1, ProceedStep
    <3> QED
      BY <2>1, <3>1 DEF Proceeding
  <2> HIDE DEF new
  <2>4. financeCall'[p] = new /\ \A q \in Handler \ {p} : financeCall'[q] = financeCall[q]
    BY <1>0, <2>3
  <2>5. \A x : EffectiveVersions(x)' = EffectiveVersions(x)
    BY <2>3 DEF EffectiveVersions, financeRows
  <2> USE DEF t
  <2>6. BudgetOf(p)' = t /\ \A q \in Handler \ {p} : /\ BudgetOf(q)' = BudgetOf(q)
                                                 /\ Approving(q)' = Approving(q)
    BY <2>3, <2>4 DEF BudgetOf, Approving
  <2>7. t \notin crossed' => \A q \in Handler \ {p} : ~(Approving(q) /\ BudgetOf(q) = t)
    BY <2>1, <2>3 DEF Approving, BudgetOf, Subject
  <2>8. EffectiveVersions(t) \subseteq seen \cup {c.row}
    BY DEF supersedable, BudgetOf, seen
  <2> HIDE DEF t
  <2>9. ASSUME NEW q \in Handler, Approving(q)'
        PROVE  /\ financeCall'[q].status \in Effective
               /\ BudgetOf(q)' \notin crossed' =>
                     /\ EffectiveVersions(BudgetOf(q)') \subseteq financeCall'[q].seen \cup {financeCall'[q].row}
                     /\ \A x \in Handler : Approving(x)' /\ BudgetOf(x)' = BudgetOf(q)' => x = q
    <3>1. CASE q = p
      BY <2>1, <2>3, <2>4, <2>6, <2>7, <2>8, <3>1
    <3>2. CASE q # p
      BY <2>3, <2>4, <2>6, <2>7, <2>9, <3>2 DEF BudgetInv, BudgetSeen
    <3> QED
      BY <3>1, <3>2
  <2>10. BudgetSeen'
    BY <2>5, <2>9 DEF BudgetSeen, EffectiveVersions
  <2>11. OneEffective'
    BY <2>3, <2>5 DEF BudgetInv, OneEffective
  <2> QED
    BY <2>10, <2>11 DEF BudgetInv
<1> QED
  BY <1>1, <1>2, <1>3

\* Which statements change what an invoice shows as paid, or its payments, and how.
LEMMA PaidStep ==
    ASSUME TypeInv, [FinanceNext]_financeVars
    PROVE  \/ UNCHANGED <<invoice, payment, recleared, reopened>>
           \/ UNCHANGED <<payment, recleared, reopened>> /\
                 \/ \E p \in Handler : changeInvoiceStatus(p)
                 \/ \E i \in Invoice, total \in Total : createInvoice(i, total)
           \/ UNCHANGED <<invoice, recleared, reopened>> /\
                 \E y \in Payment, i \in Invoice, amount \in Amount : createPayment(y, i, amount)
           \/ \E p \in Handler : changePaymentStatus(p)
BY DEF FinanceNext, NewCall, Write, Throw, ReadLatest, CheckBudget, CheckInvoice, CheckPayment,
       Check, supersedeOthers, readInvoice, Proceed, changeInvoiceStatus,
       createBudgetVersion, changeBudgetStatus, createInvoice, createPayment, financeRows,
       histories, financeVars

\* The units of the payments of j, when all payments but y stay as they are and y
\* keeps its invoice and amount.
LEMMA UnitsOfOthers ==
    ASSUME TypeInv, NEW y \in DOMAIN payment, DOMAIN payment' = DOMAIN payment,
           \A z \in DOMAIN payment \ {y} : payment'[z] = payment[z],
           payment'[y].invoice = payment[y].invoice, payment'[y].amount = payment[y].amount,
           NEW j
    PROVE  LET mine == {y} \X (1..payment[y].amount) IN
           /\ payment[y].invoice # j => ClearedUnits(j)' = ClearedUnits(j)
           /\ payment'[y].status = payment[y].status => ClearedUnits(j)' = ClearedUnits(j)
           /\ payment'[y].status # "Cleared" => ClearedUnits(j)' \subseteq ClearedUnits(j)
           /\ payment'[y].status # "Cleared" /\ payment[y].status # "Cleared"
                 => ClearedUnits(j)' = ClearedUnits(j)
           /\ payment'[y].status = "Cleared" /\ payment[y].invoice = j
                 => ClearedUnits(j)' = ClearedUnits(j) \cup mine
           /\ payment[y].status # "Cleared" => ClearedUnits(j) \cap mine = {}
<1> DEFINE mine == {y} \X (1..payment[y].amount)
           Cleared(z) == payment[z].invoice = j /\ payment[z].status = "Cleared"
           others == UNION {{z} \X (1..payment[z].amount) :
                               z \in {z \in DOMAIN payment \ {y} : Cleared(z)}}
<1>1. ClearedUnits(j) = others \cup IF Cleared(y) THEN mine ELSE {}
  BY DEF ClearedUnits
<1>2. ClearedUnits(j)' = others \cup
          IF payment[y].invoice = j /\ payment'[y].status = "Cleared" THEN mine ELSE {}
  BY DEF ClearedUnits
<1>3. others \cap mine = {}
  OBVIOUS
<1> HIDE DEF mine, others
<1> QED
  BY <1>1, <1>2, <1>3 DEF mine

\* The units an invoice has before and after the status of one of its payments is
\* changed.
LEMMA UnitsStep ==
    ASSUME TypeInv, NEW p \in Handler, changePaymentStatus(p), NEW i, i = InvoiceOf(p)
    PROVE  LET c == financeCall[p]
               mine == {c.row} \X (1..payment[c.row].amount)
           IN  /\ i \in Invoice /\ i \in DOMAIN invoice
               /\ c.row \in DOMAIN payment /\ payment[c.row].amount \in Nat
               /\ \A j \in Invoice \ {i} : ClearedUnits(j)' = ClearedUnits(j)
               /\ c.status # "Cleared" =>
                     /\ ClearedUnits(i)' \subseteq ClearedUnits(i)
                     /\ i \notin reopened' => ClearedUnits(i)' = ClearedUnits(i)
               /\ c.status = "Cleared" =>
                     /\ ClearedUnits(i)' = ClearedUnits(i) \cup mine
                     /\ i \notin recleared' => ClearedUnits(i) \cap mine = {}
<1> DEFINE c == financeCall[p]
           y == c.row
           new == [payment[y] EXCEPT !.status = c.status]
<1>1. c \in PaymentCall /\ y \in DOMAIN payment
  BY CallKind DEF changePaymentStatus, TypeInv, CallTypeOK
<1>2. payment[y] \in PaymentRow /\ i = payment[y].invoice /\ i \in DOMAIN invoice /\ i \in Invoice
  BY <1>1 DEF TypeInv, PaymentTypeOK, InvoiceTypeOK, InvoiceOf
<1>3. payment[y].amount \in Nat
  BY <1>2, FinanceAssumption DEF PaymentRow
<1>4. new.invoice = payment[y].invoice /\ new.amount = payment[y].amount /\ new.status = c.status
  BY <1>2 DEF PaymentRow
<1>5. payment' = [payment EXCEPT ![y] = new]
  BY DEF changePaymentStatus
<1> HIDE DEF new
<1>6. /\ DOMAIN payment' = DOMAIN payment /\ payment'[y] = new
      /\ \A z \in DOMAIN payment \ {y} : payment'[z] = payment[z]
  BY <1>1, <1>5 DEF TypeInv, PaymentTypeOK
<1> DEFINE mine == {y} \X (1..payment[y].amount)
<1>7. \A j : /\ payment[y].invoice # j => ClearedUnits(j)' = ClearedUnits(j)
             /\ c.status # "Cleared" => ClearedUnits(j)' \subseteq ClearedUnits(j)
             /\ c.status # "Cleared" /\ payment[y].status # "Cleared"
                   => ClearedUnits(j)' = ClearedUnits(j)
             /\ c.status = "Cleared" /\ payment[y].invoice = j
                   => ClearedUnits(j)' = ClearedUnits(j) \cup mine
             /\ payment[y].status # "Cleared" => ClearedUnits(j) \cap mine = {}
  BY <1>1, <1>4, <1>6, UnitsOfOthers
<1>8. /\ c.status # "Cleared" /\ i \notin reopened' => payment[y].status # "Cleared"
      /\ c.status = "Cleared" /\ i \notin recleared' => payment[y].status # "Cleared"
  BY <1>2 DEF changePaymentStatus
<1> HIDE DEF mine
<1>9. /\ \A j \in Invoice \ {i} : ClearedUnits(j)' = ClearedUnits(j)
      /\ c.status # "Cleared" =>
            /\ ClearedUnits(i)' \subseteq ClearedUnits(i)
            /\ i \notin reopened' => ClearedUnits(i)' = ClearedUnits(i)
      /\ c.status = "Cleared" =>
            /\ ClearedUnits(i)' = ClearedUnits(i) \cup mine
            /\ i \notin recleared' => ClearedUnits(i) \cap mine = {}
  BY <1>2, <1>7, <1>8
<1> QED
  BY <1>1, <1>2, <1>3, <1>9 DEF mine

\* A step that changes no amount, adds no unit and after which nobody has begun a
\* clearing keeps the invariant.
LEMMA PaidKept ==
    ASSUME TypeInv, PaidInv, crossed \subseteq crossed', Recounted \subseteq Recounted',
           DOMAIN invoice \subseteq DOMAIN invoice', DOMAIN payment \subseteq DOMAIN payment',
           \A i \in DOMAIN invoice : invoice'[i].paid = invoice[i].paid,
           \A i \in DOMAIN invoice' \ DOMAIN invoice : i \in Invoice /\ invoice'[i].paid = 0,
           \A i \in Invoice :
              /\ ClearedUnits(i)' \subseteq ClearedUnits(i)
              /\ i \notin Recounted' => ClearedUnits(i)' = ClearedUnits(i),
           \A y \in DOMAIN payment : payment'[y].invoice = payment[y].invoice,
           \A q \in Handler : Clearing(q)' => financeCall'[q] = financeCall[q]
    PROVE  PaidInv'
<1>1. ASSUME NEW q \in Handler, Clearing(q)'
      PROVE  Clearing(q) /\ UNCHANGED financeCall[q] /\ InvoiceOf(q)' = InvoiceOf(q)
             /\ InvoiceOf(q) \in DOMAIN invoice
  <2>1. Clearing(q) /\ UNCHANGED financeCall[q]
    BY <1>1 DEF Clearing
  <2>2. financeCall[q].row \in DOMAIN payment
    BY <2>1 DEF Clearing, TypeInv, CallTypeOK
  <2> QED
    BY <2>1, <2>2 DEF InvoiceOf, TypeInv, PaymentTypeOK
<1>2. DOMAIN invoice \subseteq Invoice
  BY DEF TypeInv, InvoiceTypeOK
<1>3. PaidSeen'
  <2> SUFFICES ASSUME NEW p \in Handler, Clearing(p)'
               PROVE  /\ financeCall'[p].status = "Cleared"
                      /\ InvoiceOf(p)' \notin Recounted' =>
                            financeCall'[p].seen <= Cardinality(ClearedUnits(InvoiceOf(p))')
                      /\ InvoiceOf(p)' \notin crossed' =>
                            /\ financeCall'[p].seen = invoice'[InvoiceOf(p)'].paid
                            /\ \A q \in Handler : Clearing(q)' /\ InvoiceOf(q)' = InvoiceOf(p)' => q = p
    BY DEF PaidSeen
  <2> DEFINE i == InvoiceOf(p)
  <2>1. Clearing(p) /\ UNCHANGED financeCall[p] /\ i' = i /\ i \in DOMAIN invoice
    BY <1>1
  <2>2. i \notin Recounted' => ClearedUnits(InvoiceOf(p))' = ClearedUnits(i)
    BY <1>2, <2>1 DEF ClearedUnits
  <2> QED
    BY <1>1, <2>1, <2>2 DEF PaidInv, PaidSeen
<1>4. PaidIsCleared'
  <2> SUFFICES ASSUME NEW i \in DOMAIN invoice', i \notin Recounted'
               PROVE  /\ invoice'[i].paid <= Cardinality(ClearedUnits(i)')
                      /\ i \notin crossed' => invoice'[i].paid = Cardinality(ClearedUnits(i)')
    BY DEF PaidIsCleared, Recounted
  <2>1. CASE i \in DOMAIN invoice
    BY <1>2, <2>1 DEF PaidInv, PaidIsCleared, Recounted
  <2>2. CASE i \notin DOMAIN invoice
    <3>1. ClearedUnits(i) = {}
      BY <2>2 DEF ClearedUnits, TypeInv, PaymentTypeOK
    <3>2. Cardinality(ClearedUnits(i)') = 0
      BY <2>2, <3>1, FS_EmptySet
    <3> QED
      BY <2>2, <3>2
  <2> QED
    BY <2>1, <2>2
<1>5. UnitsFinite'
  <2> SUFFICES ASSUME NEW i \in Invoice PROVE IsFiniteSet(ClearedUnits(i)')
    BY DEF UnitsFinite
  <2> QED
    BY FS_Subset DEF PaidInv, UnitsFinite
<1> QED
  BY <1>3, <1>4, <1>5 DEF PaidInv

\* The units of a payment that becomes Cleared are counted for its invoice.
LEMMA ClearingInvStep ==
    ASSUME TypeInv, PaidInv, [FinanceNext]_financeVars, UNCHANGED crossed,
           \A q \in Handler : Clearing(q)' => financeCall'[q] = financeCall[q],
           NEW p \in Handler, changePaymentStatus(p), financeCall[p].status = "Cleared"
    PROVE  PaidInv'
<1> PICK i : i = InvoiceOf(p)
  OBVIOUS
<1> DEFINE c == financeCall[p]
           amount == payment[c.row].amount
           mine == {c.row} \X (1..amount)
<1>0. /\ financeCall \in [Handler -> Call] /\ InvoiceTypeOK /\ PaymentTypeOK /\ HistoryTypeOK
      /\ \A q \in Handler : financeCall[q].op = "payment" => financeCall[q].row \in DOMAIN payment
  BY DEF TypeInv, CallTypeOK
<1>1. /\ Clearing(p) /\ i \in DOMAIN invoice /\ c \in PaymentCall /\ c.seen \in Nat
      /\ DOMAIN invoice' = DOMAIN invoice
      /\ invoice'[i].paid = c.seen + amount
      /\ \A j \in DOMAIN invoice \ {i} : invoice'[j] = invoice[j]
      /\ Recounted \subseteq Recounted'
  <2>1. c.op = "payment"
    BY DEF changePaymentStatus
  <2> QED
    BY <2>1, ClearingStep DEF Clearing, PaymentCall, Recounted
<1>2. /\ i \in Invoice /\ amount \in Nat
      /\ \A j \in Invoice \ {i} : ClearedUnits(j)' = ClearedUnits(j)
      /\ ClearedUnits(i)' = ClearedUnits(i) \cup mine
      /\ i \notin Recounted' => ClearedUnits(i) \cap mine = {}
  BY UnitsStep DEF Recounted
<1>3. /\ \A q \in Handler : InvoiceOf(q)' = InvoiceOf(q) \/ ~Clearing(q)'
      /\ financeCall'[p] = NoCall
  <2> DEFINE new == [payment[c.row] EXCEPT !.status = c.status]
  <2>1. payment' = [payment EXCEPT ![c.row] = new] /\ financeCall'[p] = NoCall
    BY <1>0 DEF changePaymentStatus, End
  <2>2. new.invoice = payment[c.row].invoice
    BY <1>0, <1>1 DEF PaymentTypeOK, PaymentRow, Clearing
  <2> HIDE DEF new
  <2>3. \A y \in DOMAIN payment : payment'[y].invoice = payment[y].invoice
    BY <2>1, <2>2
  <2> QED
    BY <1>0, <2>1, <2>3 DEF InvoiceOf, Clearing
<1>4. /\ c.seen <= Cardinality(ClearedUnits(i)) \/ i \in Recounted
      /\ i \notin crossed =>
            /\ c.seen = invoice[i].paid
            /\ \A q \in Handler : Clearing(q) /\ InvoiceOf(q) = i => q = p
  BY <1>1 DEF PaidInv, PaidSeen
<1>5. ASSUME NEW q \in Handler, Clearing(q)'
      PROVE  Clearing(q) /\ UNCHANGED financeCall[q] /\ InvoiceOf(q)' = InvoiceOf(q)
             /\ InvoiceOf(q) \in DOMAIN invoice /\ q # p /\ financeCall[q].seen \in Nat
  <2>1. Clearing(q) /\ UNCHANGED financeCall[q]
    BY <1>5 DEF Clearing
  <2>2. financeCall[q].row \in DOMAIN payment /\ financeCall[q] \in PaymentCall
    BY <1>0, <2>1, CallKind DEF Clearing
  <2>3. q # p
    BY <1>3, <1>5 DEF Clearing, NoCall
  <2> QED
    BY <1>0, <1>3, <1>5, <2>1, <2>2, <2>3 DEF InvoiceOf, PaymentTypeOK, PaymentCall
<1>6. IsFiniteSet(mine) /\ Cardinality(mine) = amount
  <2> HIDE DEF amount
  <2>1. IsFiniteSet({c.row}) /\ Cardinality({c.row}) = 1
    BY FS_Singleton
  <2>2. IsFiniteSet(1..amount) /\ Cardinality(1..amount) = amount
    BY <1>2, FS_Interval
  <2>3. IsFiniteSet(mine) /\ Cardinality(mine) = Cardinality({c.row}) * Cardinality(1..amount)
    BY <2>1, <2>2, FS_Product
  <2> QED
    BY <1>2, <2>1, <2>2, <2>3
<1> HIDE DEF mine, amount
<1>7. /\ IsFiniteSet(ClearedUnits(i)') /\ Cardinality(ClearedUnits(i)) \in Nat
      /\ Cardinality(ClearedUnits(i)) <= Cardinality(ClearedUnits(i)')
      /\ i \notin Recounted' => Cardinality(ClearedUnits(i)') = Cardinality(ClearedUnits(i)) + amount
  <2>1. IsFiniteSet(ClearedUnits(i)) /\ Cardinality(ClearedUnits(i)) \in Nat
    BY <1>2, FS_CardinalityType DEF PaidInv, UnitsFinite
  <2>2. IsFiniteSet(ClearedUnits(i) \cup mine)
    BY <1>6, <2>1, FS_Union
  <2>3. ClearedUnits(i) \subseteq ClearedUnits(i) \cup mine
    OBVIOUS
  <2>4. Cardinality(ClearedUnits(i)) <= Cardinality(ClearedUnits(i) \cup mine)
    BY <2>2, <2>3, FS_Subset
  <2>5. ASSUME i \notin Recounted'
        PROVE  Cardinality(ClearedUnits(i) \cup mine) = Cardinality(ClearedUnits(i)) + amount
    <3>1. Cardinality(ClearedUnits(i) \cap mine) = 0
      BY <1>2, <2>5, FS_EmptySet
    <3>2. Cardinality(ClearedUnits(i) \cup mine) =
             Cardinality(ClearedUnits(i)) + Cardinality(mine) - Cardinality(ClearedUnits(i) \cap mine)
      BY <1>6, <2>1, FS_Union
    <3> QED
      BY <1>2, <1>6, <2>1, <3>1, <3>2
  <2> QED
    BY <1>2, <2>1, <2>2, <2>4, <2>5
<1>8. \A j \in Invoice :
         /\ IsFiniteSet(ClearedUnits(j)')
         /\ Cardinality(ClearedUnits(j)) \in Nat /\ Cardinality(ClearedUnits(j)') \in Nat
         /\ Cardinality(ClearedUnits(j)) <= Cardinality(ClearedUnits(j)')
         /\ j # i => Cardinality(ClearedUnits(j)') = Cardinality(ClearedUnits(j))
  <2> SUFFICES ASSUME NEW j \in Invoice
               PROVE  /\ IsFiniteSet(ClearedUnits(j)')
                      /\ Cardinality(ClearedUnits(j)) \in Nat /\ Cardinality(ClearedUnits(j)') \in Nat
                      /\ Cardinality(ClearedUnits(j)) <= Cardinality(ClearedUnits(j)')
                      /\ j # i => Cardinality(ClearedUnits(j)') = Cardinality(ClearedUnits(j))
    OBVIOUS
  <2>1. CASE j = i
    BY <1>7, <2>1, FS_CardinalityType
  <2>2. CASE j # i
    <3>1. IsFiniteSet(ClearedUnits(j)) /\ Cardinality(ClearedUnits(j)) \in Nat
      BY FS_CardinalityType DEF PaidInv, UnitsFinite
    <3>2. ClearedUnits(j)' = ClearedUnits(j)
      BY <1>2, <2>2
    <3> QED
      BY <3>1, <3>2
  <2> QED
    BY <2>1, <2>2
<1>9. \A j \in DOMAIN invoice : j \in Invoice
  BY <1>0 DEF InvoiceTypeOK
<1>10. PaidSeen'
  <2> SUFFICES ASSUME NEW q \in Handler, Clearing(q)'
               PROVE  /\ financeCall'[q].status = "Cleared"
                      /\ InvoiceOf(q)' \notin Recounted' =>
                            financeCall'[q].seen <= Cardinality(ClearedUnits(InvoiceOf(q))')
                      /\ InvoiceOf(q)' \notin crossed' =>
                            /\ financeCall'[q].seen = invoice'[InvoiceOf(q)'].paid
                            /\ \A x \in Handler : Clearing(x)' /\ InvoiceOf(x)' = InvoiceOf(q)' => x = q
    BY DEF PaidSeen
  <2> PICK j : j = InvoiceOf(q)
    OBVIOUS
  <2>1. /\ Clearing(q) /\ financeCall'[q] = financeCall[q] /\ InvoiceOf(q)' = j
        /\ j \in DOMAIN invoice /\ j \in Invoice /\ q # p /\ financeCall[q].seen \in Nat
    BY <1>5, <1>9
  <2>2. /\ financeCall[q].status = "Cleared"
        /\ j \notin Recounted => financeCall[q].seen <= Cardinality(ClearedUnits(j))
        /\ j \notin crossed =>
              /\ financeCall[q].seen = invoice[j].paid
              /\ \A x \in Handler : Clearing(x) /\ InvoiceOf(x) = j => x = q
    BY <2>1 DEF PaidInv, PaidSeen
  <2>3. j \notin crossed => j # i
    BY <1>4, <2>1
  <2>4. ClearedUnits(InvoiceOf(q))' = ClearedUnits(j)'
    BY <2>1 DEF ClearedUnits
  <2>5. j \notin Recounted' => financeCall[q].seen <= Cardinality(ClearedUnits(j)')
    <3> DEFINE before == Cardinality(ClearedUnits(j))
               after == Cardinality(ClearedUnits(j)')
    <3>1. before \in Nat /\ after \in Nat /\ before <= after
      BY <1>8, <2>1
    <3>2. j \notin Recounted' => financeCall[q].seen <= before
      BY <1>1, <2>2
    <3> HIDE DEF before, after
    <3>3. j \notin Recounted' => financeCall[q].seen <= after
      BY <2>1, <3>1, <3>2
    <3> QED
      BY <3>3 DEF after
  <2>6. \A x \in Handler : Clearing(x)' => Clearing(x) /\ InvoiceOf(x)' = InvoiceOf(x)
    BY <1>5
  <2> QED
    BY <1>1, <2>1, <2>2, <2>3, <2>4, <2>5, <2>6
<1>11. PaidIsCleared'
  <2> SUFFICES ASSUME NEW j \in DOMAIN invoice', j \notin Recounted'
               PROVE  /\ invoice'[j].paid <= Cardinality(ClearedUnits(j)')
                      /\ j \notin crossed' => invoice'[j].paid = Cardinality(ClearedUnits(j)')
    BY DEF PaidIsCleared, Recounted
  <2>1. CASE j = i
    <3> DEFINE before == Cardinality(ClearedUnits(i))
               after == Cardinality(ClearedUnits(i)')
    <3>1. i \notin crossed => invoice[i].paid = before
      BY <1>1, <2>1 DEF PaidInv, PaidIsCleared, Recounted
    <3>2. before \in Nat /\ after = before + amount /\ c.seen <= before
      BY <1>1, <1>4, <1>7, <2>1
    <3>3. invoice'[i].paid = c.seen + amount /\ (i \notin crossed => c.seen = before)
      BY <1>1, <1>4, <3>1
    <3> HIDE DEF before, after
    <3>4. invoice'[i].paid <= after /\ (i \notin crossed => invoice'[i].paid = after)
      BY <1>1, <1>2, <3>2, <3>3
    <3> QED
      BY <2>1, <3>4 DEF after
  <2>2. CASE j # i
    <3>1. j \in DOMAIN invoice /\ invoice'[j] = invoice[j] /\ j \notin Recounted
      BY <1>1, <2>2
    <3>2. Cardinality(ClearedUnits(j)') = Cardinality(ClearedUnits(j))
      BY <1>8, <1>9, <2>2, <3>1
    <3> QED
      BY <3>1, <3>2 DEF PaidInv, PaidIsCleared, Recounted
  <2> QED
    BY <2>1, <2>2
<1>12. UnitsFinite'
  BY <1>8 DEF UnitsFinite
<1> QED
  BY <1>10, <1>11, <1>12 DEF PaidInv

LEMMA PaidInvStep ==
    ASSUME TypeInv, PaidInv, [FinanceNext]_financeVars
    PROVE  PaidInv'
<1>0. /\ financeCall \in [Handler -> Call] /\ InvoiceTypeOK /\ PaymentTypeOK /\ HistoryTypeOK
      /\ \A q \in Handler : financeCall[q].op = "payment" => financeCall[q].row \in DOMAIN payment
  BY DEF TypeInv, CallTypeOK
<1>1. CASE ~ \E p \in Handler : supersedeOthers(p) \/ readInvoice(p)
  <2>1. /\ UNCHANGED crossed
        /\ \A q \in Handler : Clearing(q)' => financeCall'[q] = financeCall[q]
    BY <1>1, CallStep DEF Clearing, NoCall
  <2>2. ASSUME UNCHANGED <<payment, recleared, reopened>>
        PROVE  Recounted' = Recounted /\ \A i : ClearedUnits(i)' = ClearedUnits(i)
    BY <2>2 DEF Recounted, ClearedUnits
  <2>3. CASE UNCHANGED <<invoice, payment, recleared, reopened>>
    BY <2>1, <2>2, <2>3, PaidKept
  <2>4. ASSUME NEW p \in Handler, changeInvoiceStatus(p), UNCHANGED <<payment, recleared, reopened>>
        PROVE  PaidInv'
    <3>1. invoice' = [invoice EXCEPT ![financeCall[p].row] =
                         [invoice[financeCall[p].row] EXCEPT !.status = financeCall[p].status]]
      BY <2>4 DEF changeInvoiceStatus
    <3>2. DOMAIN invoice' = DOMAIN invoice
      BY <3>1
    <3>3. \A i \in DOMAIN invoice : invoice'[i].paid = invoice[i].paid
      <4> SUFFICES ASSUME NEW i \in DOMAIN invoice PROVE invoice'[i].paid = invoice[i].paid
        OBVIOUS
      <4>1. invoice[i] \in InvoiceRow
        BY <1>0 DEF InvoiceTypeOK
      <4>2. [invoice[i] EXCEPT !.status = financeCall[p].status].paid = invoice[i].paid
        BY <4>1 DEF InvoiceRow
      <4> QED
        BY <3>1, <4>2
    <3> QED
      BY <2>1, <2>2, <2>4, <3>2, <3>3, PaidKept
  <2>5. ASSUME NEW i \in Invoice, NEW total \in Total, createInvoice(i, total),
               UNCHANGED <<payment, recleared, reopened>>
        PROVE  PaidInv'
    <3> DEFINE row == [status |-> "Draft", total |-> total, paid |-> 0, balance |-> total]
    <3>1. row.paid = 0 /\ i \notin DOMAIN invoice /\ invoice' = Put(invoice, i, row)
      BY <2>5 DEF createInvoice
    <3> HIDE DEF row
    <3>2. /\ DOMAIN invoice' = DOMAIN invoice \cup {i} /\ invoice'[i] = row
          /\ \A j \in DOMAIN invoice : invoice'[j] = invoice[j]
      BY <3>1 DEF Put
    <3> QED
      BY <2>1, <2>2, <2>5, <3>1, <3>2, PaidKept
  <2>6. ASSUME NEW y \in Payment, NEW i \in Invoice, NEW amount \in Amount,
               createPayment(y, i, amount), UNCHANGED <<invoice, recleared, reopened>>
        PROVE  PaidInv'
    <3> DEFINE row == [status |-> "Open", invoice |-> i, amount |-> amount]
    <3>1. y \notin DOMAIN payment /\ payment' = Put(payment, y, row) /\ row.status # "Cleared"
      BY <2>6 DEF createPayment
    <3> HIDE DEF row
    <3>2. /\ DOMAIN payment' = DOMAIN payment \cup {y} /\ payment'[y] = row
          /\ \A j \in DOMAIN payment : payment'[j] = payment[j]
      BY <3>1 DEF Put
    <3>3. \A j : ClearedUnits(j)' = ClearedUnits(j)
      BY <3>1, <3>2 DEF ClearedUnits
    <3> QED
      BY <2>1, <2>6, <3>2, <3>3, PaidKept DEF Recounted
  <2>7. ASSUME NEW p \in Handler, changePaymentStatus(p), financeCall[p].status # "Cleared"
        PROVE  PaidInv'
    <3> DEFINE c == financeCall[p]
               new == [payment[c.row] EXCEPT !.status = c.status]
    <3>1. c.row \in DOMAIN payment
      BY <2>7, UnitsStep
    <3>2. new.invoice = payment[c.row].invoice /\ payment' = [payment EXCEPT ![c.row] = new]
      BY <1>0, <2>7, <3>1 DEF PaymentTypeOK, PaymentRow, changePaymentStatus
    <3> HIDE DEF new
    <3>3. /\ DOMAIN payment' = DOMAIN payment
          /\ \A y \in DOMAIN payment : payment'[y].invoice = payment[y].invoice
      BY <3>1, <3>2
    <3>4. UNCHANGED <<invoice, recleared>> /\ Recounted \subseteq Recounted'
      BY <2>7 DEF changePaymentStatus, Recounted
    <3>5. \A i \in Invoice : /\ ClearedUnits(i)' \subseteq ClearedUnits(i)
                             /\ i \notin Recounted' => ClearedUnits(i)' = ClearedUnits(i)
      BY <2>7, UnitsStep DEF Recounted
    <3> QED
      BY <2>1, <3>3, <3>4, <3>5, PaidKept
  <2>8. ASSUME NEW p \in Handler, changePaymentStatus(p), financeCall[p].status = "Cleared"
        PROVE  PaidInv'
    BY <2>1, <2>8, ClearingInvStep
  <2> QED
    BY <2>3, <2>4, <2>5, <2>6, <2>7, <2>8, PaidStep
<1>2. ASSUME NEW p \in Handler, supersedeOthers(p) PROVE PaidInv'
  <2> DEFINE c == financeCall[p]
             seen == supersedable(c.row)
             new == [c EXCEPT !.step = "write", !.seen = seen]
  <2>1. c.op = "budget" /\ Proceed(p, seen)
    BY <1>2 DEF supersedeOthers
  <2> HIDE DEF seen
  <2>2. /\ financeCall' = [financeCall EXCEPT ![p] = new] /\ new.op = "budget"
        /\ crossed \subseteq crossed' /\ UNCHANGED <<invoice, payment, recleared, reopened>>
    <3>1. Proceeding(p, c, new, seen)
      BY <2>1, ProceedStep
    <3> QED
      BY <2>1, <3>1 DEF Proceeding, financeRows
  <2> HIDE DEF new
  <2>3. \A q \in Handler : Clearing(q)' => financeCall'[q] = financeCall[q]
    BY <1>0, <2>2 DEF Clearing
  <2>4. Recounted' = Recounted /\ \A i : ClearedUnits(i)' = ClearedUnits(i)
    BY <2>2 DEF Recounted, ClearedUnits
  <2> QED
    BY <2>2, <2>3, <2>4, PaidKept
<1>3. ASSUME NEW p \in Handler, readInvoice(p) PROVE PaidInv'
  <2> DEFINE c == financeCall[p]
             i == InvoiceOf(p)
             seen == invoice[i].paid
             new == [c EXCEPT !.step = "write", !.seen = seen]
  <2>1. c.op = "payment" /\ c.status = "Cleared" /\ Proceed(p, seen) /\ Subject(c) = i
    BY <1>3 DEF readInvoice, Subject, InvoiceOf
  <2>2. i \in DOMAIN invoice
    BY <1>0, <2>1 DEF PaymentTypeOK, InvoiceOf
  <2>3. /\ i \notin Recounted => seen <= Cardinality(ClearedUnits(i))
        /\ UNCHANGED <<invoice, payment, recleared, reopened>>
    BY <2>1, <2>2 DEF PaidInv, PaidIsCleared, Recounted, Proceed, financeRows
  <2>4. Recounted' = Recounted /\ \A j : ClearedUnits(j)' = ClearedUnits(j)
    BY <2>3 DEF Recounted, ClearedUnits
  <2> HIDE DEF seen, i
  <2>5. /\ financeCall' = [financeCall EXCEPT ![p] = new]
        /\ new.op = "payment" /\ new.row = c.row /\ new.status = c.status
        /\ new.step = "write" /\ new.seen = seen
        /\ crossed \subseteq crossed'
        /\ Subject(c) \notin crossed' =>
              \A q \in Handler \ {p} :
                 ~ /\ financeCall[q].op = c.op /\ financeCall[q].step = "write"
                    /\ Subject(financeCall[q]) = Subject(c)
    <3>1. Proceeding(p, c, new, seen)
      BY <2>1, ProceedStep
    <3> QED
      BY <2>1, <3>1 DEF Proceeding
  <2> HIDE DEF new
  <2>6. financeCall'[p] = new /\ \A q \in Handler \ {p} : financeCall'[q] = financeCall[q]
    BY <1>0, <2>5
  <2>7. InvoiceOf(p)' = i /\ \A q \in Handler \ {p} : /\ InvoiceOf(q)' = InvoiceOf(q)
                                                  /\ Clearing(q)' = Clearing(q)
    BY <2>3, <2>5, <2>6 DEF InvoiceOf, Clearing, i
  <2>8. i \notin crossed' => \A q \in Handler \ {p} : ~(Clearing(q) /\ InvoiceOf(q) = i)
    BY <2>1, <2>5 DEF Clearing, InvoiceOf, Subject
  <2>9. \A q \in Handler : ClearedUnits(InvoiceOf(q))' = ClearedUnits(InvoiceOf(q)')
    BY <2>3 DEF ClearedUnits
  <2>10. ASSUME NEW q \in Handler, Clearing(q)'
        PROVE  /\ financeCall'[q].status = "Cleared"
               /\ InvoiceOf(q)' \notin Recounted' =>
                     financeCall'[q].seen <= Cardinality(ClearedUnits(InvoiceOf(q)'))
               /\ InvoiceOf(q)' \notin crossed' =>
                     /\ financeCall'[q].seen = invoice'[InvoiceOf(q)'].paid
                     /\ \A x \in Handler : Clearing(x)' /\ InvoiceOf(x)' = InvoiceOf(q)' => x = q
    <3>1. CASE q = p
      BY <2>1, <2>3, <2>4, <2>5, <2>6, <2>7, <2>8, <3>1 DEF seen
    <3>2. CASE q # p
      BY <2>3, <2>4, <2>5, <2>6, <2>7, <2>8, <2>10, <3>2 DEF PaidInv, PaidSeen
    <3> QED
      BY <3>1, <3>2
  <2>11. PaidSeen'
    BY <2>9, <2>10 DEF PaidSeen
  <2>12. PaidIsCleared' /\ UnitsFinite'
    BY <2>3, <2>4, <2>5 DEF PaidInv, PaidIsCleared, UnitsFinite, Recounted
  <2> QED
    BY <2>11, <2>12 DEF PaidInv
<1> QED
  BY <1>1, <1>2, <1>3

-----------------------------------------------------------------------------
(***************************************************************************)
(* Theorems                                                                *)
(***************************************************************************)

FinanceInv == TypeInv /\ BudgetInv /\ PaidInv

THEOREM Invariance == FinanceSpec => []FinanceInv
<1>1. FinanceInit => FinanceInv
  <2> SUFFICES ASSUME FinanceInit PROVE FinanceInv
    OBVIOUS
  <2>1. \A p \in Handler : ~Approving(p) /\ ~Clearing(p)
    BY DEF FinanceInit, Approving, Clearing, NoCall
  <2>2. DOMAIN budget = {} /\ DOMAIN invoice = {} /\ DOMAIN payment = {}
    BY DEF FinanceInit, Empty
  <2>3. BudgetInv
    BY <2>1, <2>2 DEF BudgetInv, BudgetSeen, OneEffective, EffectiveVersions
  <2>4. \A i : ClearedUnits(i) = {}
    BY <2>2 DEF ClearedUnits
  <2>5. PaidInv
    BY <2>1, <2>2, <2>4, FS_EmptySet DEF PaidInv, PaidSeen, PaidIsCleared, UnitsFinite
  <2> QED
    BY <2>3, <2>5, TypeInit DEF FinanceInv
<1>2. FinanceInv /\ [FinanceNext]_financeVars => FinanceInv'
  BY TypeStep, BudgetInvStep, PaidInvStep DEF FinanceInv
<1> QED
  BY <1>1, <1>2, PTL DEF FinanceSpec

\* The tables and the calls keep their types.
THEOREM FinanceTypes == FinanceSpec => []FinanceTypeOK
<1>1. FinanceInv => FinanceTypeOK
  <2> SUFFICES ASSUME TypeInv PROVE FinanceTypeOK
    BY DEF FinanceInv
  <2>1. budget \in PartialOn(Version, VersionStatus)
    BY DEF TypeInv, BudgetTypeOK, PartialOn
  <2>2. Range(invoice) \subseteq InvoiceRow /\ Range(payment) \subseteq PaymentRow
    BY DEF TypeInv, InvoiceTypeOK, PaymentTypeOK, Range
  <2>3. \A p \in Handler : financeCall[p] \in {NoCall} \cup BudgetCall \cup CreateCall
                                           \cup InvoiceCall \cup PaymentCall
    BY DEF TypeInv, CallTypeOK, Call
  <2> QED
    BY <2>1, <2>2, <2>3
       DEF TypeInv, InvoiceTypeOK, PaymentTypeOK, HistoryTypeOK, FinanceTypeOK
<1> QED
  BY <1>1, Invariance, PTL

\* Two versions of a budget type are in force only after two approvals of the type
\* overlapped.
THEOREM OneBudgetInForce == FinanceSpec => []OneEffectiveBudget
<1>1. FinanceInv => OneEffectiveBudget
  <2> SUFFICES ASSUME FinanceInv, NEW t \in BudgetType \ crossed
               PROVE  Cardinality(EffectiveVersions(t)) <= 1
    BY DEF OneEffectiveBudget
  <2>1. \A v, w \in EffectiveVersions(t) : v = w
    BY DEF FinanceInv, BudgetInv, OneEffective
  <2>2. CASE EffectiveVersions(t) = {}
    BY <2>2, FS_EmptySet
  <2>3. CASE EffectiveVersions(t) # {}
    <3>1. PICK v : EffectiveVersions(t) = {v}
      BY <2>1, <2>3
    <3>2. Cardinality({v}) = 1
      BY FS_Singleton
    <3> QED
      BY <3>1, <3>2
  <2> QED
    BY <2>2, <2>3
<1> QED
  BY <1>1, Invariance, PTL

\* An invoice shows as paid the sum of its payments that are Cleared, less only
\* after two clearings of it overlapped and more only after one of them was cleared
\* again or taken back.
THEOREM PaymentsAddUp == FinanceSpec => []PaidIsCleared
BY Invariance, PTL DEF FinanceInv, PaidInv

=============================================================================

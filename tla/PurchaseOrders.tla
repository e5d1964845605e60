---------------------------- MODULE PurchaseOrders ----------------------------
(***************************************************************************)
(* Purchase orders and goods receipts                                      *)
(* (apps/api/src/purchase-orders/purchase-orders.service.ts) together with *)
(* the stock they move.                                                    *)
(*                                                                         *)
(* Every change of an order reads and checks it in one statement and       *)
(* writes it in a later one that looks at nothing; a draft whose lines are *)
(* replaced has two, which delete lines and create lines.  A goods receipt *)
(* is one READ COMMITTED transaction: it reads the order and its lines,    *)
(* inserts the receipt, adds to each line, moves stock for it, reads the   *)
(* lines again and writes the status of the order.                         *)
(***************************************************************************)
EXTENDS StockLedger, FiniteSets, Functions

CONSTANTS
    Order,          \* rows of PurchaseOrder (bounds how many exist)
    Line,           \* rows of PurchaseOrderLineItem (bounds how many exist)
    LineList,       \* lists of [item, ordered] a client may order
    ReceiptLines,   \* lists of [line, item, accepted, damaged] a client may receive
    NoOrder,
    NoItem          \* of a line whose product matches no inventory item

OrderStatus == {"Draft", "PendingApproval", "Approved", "Sent",
                "PartiallyReceived", "FullyReceived", "Cancelled"}

VARIABLES
    order,      \* [Order -> its status and whether it is archived]
    line,       \* [Line -> a line of an order]
    receipted,  \* [Line -> Nat]: sum of quantityReceived of its GoodsReceiptLines
    decision,   \* [Proc -> the checked change of an order not written yet]
    receipt,    \* [Proc -> the goods receipt in progress]
    late        \* history: lines created beside lines the deletion before it missed

orderVars == <<order, line, receipted, decision, receipt, late>>

allVars == <<stockVars, orderVars>>

\* "None": not created yet; "Deleted": gone.
OrderRow == [status: OrderStatus \cup {"None", "Deleted"}, archived: BOOLEAN]

LineRow == [order: Order \cup {NoOrder}, item: Item \cup {NoItem}, ordered: Nat, received: Nat]

Change == OrderStatus \cup {"archive", "restore", "delete", "lines", "replace"}

Content == [item: Item \cup {NoItem}, ordered: Nat \ {0}]

ReceivedLine == [line: Line, item: Item, accepted: 0..MaxQuantity,
                 damaged: 0..MaxQuantity]

ASSUME PurchaseAssumption ==
    /\ NoOrder \notin Order
    /\ LineList \subseteq Seq(Content) \ {<<>>}
    /\ ReceiptLines \subseteq Seq(ReceivedLine) \ {<<>>}

\* found: the lines the deletion of a "replace" found, which are gone with it.
Decision == [order: Order, change: Change, lines: Seq(Content), found: SUBSET Line]

NoDecision == [order |-> NoOrder, change |-> "none", lines |-> <<>>, found |-> {}]

\* seen: the status it read; lines: its receipt lines, todo those not added yet;
\* added: the increments so far, whose rows it keeps locked; next: the status.
\* Once past "check" it keeps the lines it refers to from being deleted.
Receipt == [stage: {"check", "lines", "commit"}, order: Order, location: Location,
            seen: OrderStatus \ {"Cancelled", "FullyReceived"},
            lines: Seq(ReceivedLine), todo: Seq(ReceivedLine),
            added: [Line -> Nat], next: OrderStatus]

NoReceipt == [stage |-> "none", order |-> NoOrder, location |-> "none",
              seen |-> "None", lines |-> <<>>, todo |-> <<>>,
              added |-> [l \in Line |-> 0], next |-> "None"]

received(d) == d.accepted + d.damaged

PurchaseTypeOK ==
    /\ StockTypeOK
    /\ order \in [Order -> OrderRow]
    /\ line \in [Line -> LineRow]
    /\ receipted \in [Line -> Nat]
    /\ decision \in [Proc -> Decision \cup {NoDecision}]
    /\ receipt \in [Proc -> Receipt \cup {NoReceipt}]
    /\ late \subseteq Line

PurchaseInit ==
    /\ StockInit
    /\ order = [o \in Order |-> [status |-> "None", archived |-> FALSE]]
    /\ line = [l \in Line |-> [order |-> NoOrder, item |-> NoItem,
                               ordered |-> 0, received |-> 0]]
    /\ receipted = [l \in Line |-> 0]
    /\ decision = [p \in Proc |-> NoDecision]
    /\ receipt = [p \in Proc |-> NoReceipt]
    /\ late = {}

Exists(o) == order[o].status \notin {"None", "Deleted"}

LinesOf(o) == {l \in Line : line[l].order = o}

Free(p) == decision[p] = NoDecision /\ receipt[p] = NoReceipt /\ work[p] = NoWork

-----------------------------------------------------------------------------
(***************************************************************************)
(* The lines of an order                                                   *)
(***************************************************************************)

\* Rows not used yet for the lines of a list: generated ids are unique.
FreshLines(list) ==
    LET unused == {l \in Line : line[l].ordered = 0}
    IN  {f \in [DOMAIN list -> unused] : IsInjective(f)}

\* The table after the lines gone are deleted and those of the list created for
\* o, with the ids f.  A deleted line keeps its contents but belongs to no order.
WithLines(o, gone, list, f) ==
    [l \in Line |->
        IF \E n \in DOMAIN list : f[n] = l
        THEN LET n == CHOOSE n \in DOMAIN list : f[n] = l
             IN  [order |-> o, item |-> list[n].item,
                  ordered |-> list[n].ordered, received |-> 0]
        ELSE IF l \in gone THEN [line[l] EXCEPT !.order = NoOrder] ELSE line[l]]

\* The lines a receipt in progress refers to.
Referred(p) ==
    {l \in Line : /\ receipt[p].stage \in {"lines", "commit"}
                  /\ \E n \in DOMAIN receipt[p].lines : receipt[p].lines[n].line = l}

\* Faulty variant: GoodsReceiptLine.purchaseOrderLineItem cascades.
LinesCascade(lines) == TRUE

\* GoodsReceiptLine.purchaseOrderLineItem is onDelete: Restrict: a delete waits
\* for receipts in progress and fails once there is one.
LinesDeletable(lines) ==
    \A l \in lines : receipted[l] = 0 /\ \A p \in Proc : l \notin Referred(p)

create(p, o, list) ==
    /\ Free(p) /\ order[o].status = "None" /\ FreshLines(list) # {}
    /\ order' = [order EXCEPT ![o] = [status |-> "Draft", archived |-> FALSE]]
    /\ line' = WithLines(o, {}, list, CHOOSE f \in FreshLines(list) : TRUE)
    /\ UNCHANGED <<stockVars, receipted, decision, receipt, late>>

-----------------------------------------------------------------------------
(***************************************************************************)
(* Changes of an order: the read with its checks, then the write           *)
(***************************************************************************)

Decide(p, o, change, list) ==
    /\ Free(p) /\ Exists(o)
    /\ decision' = [decision EXCEPT ![p] =
           [order |-> o, change |-> change, lines |-> list, found |-> {}]]
    /\ UNCHANGED <<stockVars, order, line, receipted, receipt, late>>

updateDraft(p, o, list) ==
    /\ order[o].status = "Draft" /\ ~order[o].archived
    /\ Decide(p, o, "lines", list)

archive(p, o) == ~order[o].archived /\ Decide(p, o, "archive", <<>>)

restore(p, o) == order[o].archived /\ Decide(p, o, "restore", <<>>)

delete(p, o) ==
    /\ \A l \in LinesOf(o) : receipted[l] = 0
    /\ Decide(p, o, "delete", <<>>)

submitForApproval(p, o) ==
    /\ order[o].status = "Draft" /\ ~order[o].archived
    /\ Decide(p, o, "PendingApproval", <<>>)

approve(p, o) ==
    /\ order[o].status = "PendingApproval" /\ ~order[o].archived
    /\ Decide(p, o, "Approved", <<>>)

returnToDraft(p, o) ==
    order[o].status = "PendingApproval" /\ Decide(p, o, "Draft", <<>>)

markSent(p, o) ==
    /\ order[o].status = "Approved" /\ ~order[o].archived
    /\ Decide(p, o, "Sent", <<>>)

cancel(p, o) ==
    /\ order[o].status \notin {"FullyReceived", "Cancelled"}
    /\ Decide(p, o, "Cancelled", <<>>)

\* updateDraft's deleteMany deletes the lines that were committed when it began;
\* others see that only when its transaction commits.
DeleteLines(p) ==
    /\ decision[p].change = "lines"
    /\ decision' = [decision EXCEPT ![p].change = "replace",
                                    ![p].found = LinesOf(decision[p].order)]
    /\ UNCHANGED <<stockVars, order, line, receipted, receipt, late>>

\* The lines of the list are created and the transaction commits.  Lines another
\* updateDraft has committed since the deletion began stay beside them.
ReplaceLines(p) ==
    LET o == decision[p].order
        gone == LinesOf(o) \cap decision[p].found
        f == CHOOSE f \in FreshLines(decision[p].lines) : TRUE
    IN  /\ decision[p].change = "replace"
        /\ LinesDeletable(gone) /\ FreshLines(decision[p].lines) # {}
        /\ line' = WithLines(o, gone, decision[p].lines, f)
        /\ late' = IF gone = LinesOf(o) THEN late ELSE late \cup Range(f)
        /\ UNCHANGED order

\* The write of a checked change; the record may be gone by then.
WriteChange(p) ==
    LET o == decision[p].order
        change == decision[p].change
    IN  /\ decision[p] # NoDecision /\ Exists(o)
        /\ \/ ReplaceLines(p)
           \/ /\ change = "delete"
              /\ LinesDeletable(LinesOf(o))
              /\ line' = WithLines(o, LinesOf(o), <<>>, <<>>)
              /\ order' = [order EXCEPT ![o].status = "Deleted"]
              /\ UNCHANGED late
           \/ /\ change \in {"archive", "restore"}
              /\ order' = [order EXCEPT ![o].archived = (change = "archive")]
              /\ UNCHANGED <<line, late>>
           \/ /\ change \in OrderStatus
              /\ order' = [order EXCEPT ![o].status = change]
              /\ UNCHANGED <<line, late>>
        /\ decision' = [decision EXCEPT ![p] = NoDecision]
        /\ UNCHANGED <<stockVars, receipted, receipt>>

DropChange(p) ==
    /\ decision[p] # NoDecision
    /\ decision' = [decision EXCEPT ![p] = NoDecision]
    /\ UNCHANGED <<stockVars, order, line, receipted, receipt, late>>

-----------------------------------------------------------------------------
(***************************************************************************)
(* createGoodsReceipt                                                      *)
(***************************************************************************)

\* The order is read and checked.
createGoodsReceipt(p, o, location, lines) ==
    /\ Free(p) /\ Exists(o)
    /\ ~order[o].archived
    /\ order[o].status \notin {"Cancelled", "FullyReceived"}
    /\ receipt' = [receipt EXCEPT ![p] =
           [stage |-> "check", order |-> o, location |-> location,
            seen |-> order[o].status, lines |-> lines, todo |-> lines,
            added |-> [l \in Line |-> 0], next |-> order[o].status]]
    /\ UNCHANGED <<stockVars, order, line, receipted, decision, late>>

\* Its lines are read and each line of the request is checked against them on
\* its own; then the receipt and its lines are inserted.
CheckAndInsert(p) ==
    LET lines == receipt[p].lines
    IN  /\ receipt[p].stage = "check"
        /\ \A n \in DOMAIN lines :
              /\ line[lines[n].line].order = receipt[p].order
              /\ line[lines[n].line].item = lines[n].item
              /\ received(lines[n]) <= line[lines[n].line].ordered
                                          - line[lines[n].line].received
        /\ receipt' = [receipt EXCEPT ![p].stage = "lines"]
        /\ UNCHANGED <<stockVars, order, line, receipted, decision, late>>

\* Faulty variant: the lines of the request are kept in a map by line, so that a
\* second mention of a line replaces the first.
AddedOnce(p, d) == received(d)

Added(p, d) == receipt[p].added[d.line] + received(d)

\* The increment of quantityReceived of the next line, and the call of
\* applyGoodsReceiptMovements for it.
IncrementLine(p) ==
    LET d == Head(receipt[p].todo)
        cell == <<d.item, receipt[p].location>>
    IN  /\ receipt[p].stage = "lines" /\ receipt[p].todo # <<>>
        /\ \A q \in Proc \ {p} : receipt[q].added[d.line] = 0
        /\ receipt' = [receipt EXCEPT ![p].added[d.line] = Added(p, d),
                                      ![p].todo = Tail(@)]
        /\ applyGoodsReceiptMovements(p, cell, d.accepted, d.damaged)
        /\ UNCHANGED <<order, line, receipted, decision, late>>

\* Faulty variant: the status is computed from the lines of the request only.
CountedLinesOfRequest(p) ==
    {l \in LinesOf(receipt[p].order) : receipt[p].added[l] > 0}

CountedLines(p) == LinesOf(receipt[p].order)

\* Faulty variant: the status of another enumeration is written.
nextStatusOfReceipt(p) == "Received"

\* The lines are read again: what others committed and what this receipt added.
nextStatus(p) ==
    LET quantityReceived(l) == line[l].received + receipt[p].added[l]
        allReceived == \A l \in CountedLines(p) : quantityReceived(l) >= line[l].ordered
        anyReceived == \E l \in CountedLines(p) : quantityReceived(l) > 0
    IN  IF allReceived THEN "FullyReceived"
        ELSE IF anyReceived THEN "PartiallyReceived" ELSE receipt[p].seen

RefreshLines(p) ==
    /\ receipt[p].stage = "lines" /\ receipt[p].todo = <<>>
    /\ work[p].legs = <<>>
    /\ receipt' = [receipt EXCEPT ![p].stage = "commit", ![p].next = nextStatus(p)]
    /\ UNCHANGED <<stockVars, order, line, receipted, decision, late>>

\* The units the first n lines of a receipt bring for line l.
UnitsReceived(lines, n, l) ==
    Cardinality({u \in (1..n) \X (1..2 * MaxQuantity) :
                    lines[u[1]].line = l /\ u[2] <= received(lines[u[1]])})

\* The status is written if it is not the one read at first, and the
\* transaction commits: the inserted receipt lines are there.
ReceiptCommit(p) ==
    LET r == receipt[p]
    IN  /\ r.stage = "commit"
        /\ CommitStock(p)
        /\ order' = IF r.next = r.seen THEN order
                    ELSE [order EXCEPT ![r.order].status = r.next]
        /\ line' = [l \in Line |-> [line[l] EXCEPT !.received = @ + r.added[l]]]
        /\ receipted' = [l \in Line |->
               receipted[l] + UnitsReceived(r.lines, Len(r.lines), l)]
        /\ receipt' = [receipt EXCEPT ![p] = NoReceipt]
        /\ UNCHANGED <<decision, late>>

ReceiptAbort(p) ==
    /\ receipt[p] # NoReceipt
    /\ RollBackStock(p)
    /\ receipt' = [receipt EXCEPT ![p] = NoReceipt]
    /\ UNCHANGED <<order, line, receipted, decision, late>>

-----------------------------------------------------------------------------

OrderRequest(p) ==
    \E o \in Order :
        \/ \E list \in LineList : create(p, o, list) \/ updateDraft(p, o, list)
        \/ archive(p, o) \/ restore(p, o) \/ delete(p, o)
        \/ submitForApproval(p, o) \/ approve(p, o) \/ returnToDraft(p, o)
        \/ markSent(p, o) \/ cancel(p, o)
        \/ \E location \in Location, lines \in ReceiptLines :
              createGoodsReceipt(p, o, location, lines)

OrderStep(p) ==
    \/ DeleteLines(p) \/ WriteChange(p) \/ DropChange(p)
    \/ CheckAndInsert(p) \/ IncrementLine(p) \/ RefreshLines(p)
    \/ ReceiptCommit(p) \/ ReceiptAbort(p)

\* A stock operation of its own, or the stock leg of a receipt.
StockOperation(p) ==
    /\ \/ Free(p) /\ StockRequest(p)
       \/ StockStep(p)
       \/ receipt[p] = NoReceipt /\ StockEnd(p)
    /\ UNCHANGED orderVars

PurchaseNext ==
    \E p \in Proc : OrderRequest(p) \/ OrderStep(p) \/ StockOperation(p)

PurchaseSpec == PurchaseInit /\ [][PurchaseNext]_allVars

-----------------------------------------------------------------------------
(***************************************************************************)
(* Properties                                                              *)
(***************************************************************************)

\* quantityReceived of a line is the sum of its receipt lines, also when a
\* request names a line twice and when receipts for the same line overlap.
ReceivedIsReceipted == \A l \in Line : line[l].received = receipted[l]

\* An order that says FullyReceived has received its lines in full, whatever is
\* received, replaced and written late meanwhile.  Only an updateDraft that left
\* the lines of another one beside its own may leave its own open: nothing asks
\* for the status again when it creates them.
FullyReceivedIsReceived ==
    \A o \in Order : order[o].status = "FullyReceived" =>
        \A l \in LinesOf(o) \ late : line[l].received >= line[l].ordered

\* A line that goods were received for stays a line of its order, with the
\* quantity ordered, and its order is not deleted, although updateDraft and
\* delete check for that in an earlier statement.
ReceiptsKeepTheirOrder ==
    [][\A l \in Line : receipted[l] > 0 =>
          /\ line'[l] = [line[l] EXCEPT !.received = line'[l].received]
          /\ order'[line[l].order].status # "Deleted"]_allVars

\* What createGoodsReceipt says it rejects: goods are never received beyond the
\* quantity ordered.
ReceivedWithinOrdered == \A l \in Line : line[l].received <= line[l].ordered

=============================================================================

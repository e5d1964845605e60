------------------------- MODULE PurchaseOrdersProofs -------------------------
(***************************************************************************)
(* Proofs about StockLedger, and about PurchaseOrders, which composes      *)
(* purchase orders and goods receipts with it.                             *)
(*                                                                         *)
(* Stock is never negative, and levels are the sum of their movements      *)
(* except where a write was overtaken.  Whatever orders and receipts do,   *)
(* stock changes only as the ledger allows, so this holds with them.       *)
(* Receipts stay accounted for on the lines of their order, and an order   *)
(* that says it is fully received is, but for lines created late.          *)
(***************************************************************************)
EXTENDS PurchaseOrders, FiniteSetTheorems, TLAPS

-----------------------------------------------------------------------------
(***************************************************************************)
(* The stock ledger                                                        *)
(***************************************************************************)

\* The next level, once the present one is read, was checked to be no less
\* than zero; and a transaction between two operations has nothing read.
Checked ==
    \A p \in Proc :
        /\ work[p].legs = <<>> => work[p].reading
        /\ work[p].legs # <<>> /\ ~work[p].reading =>
               work[p].read + Head(work[p].legs).delta >= 0

\* No two transactions hold the same row.
Exclusive ==
    \A p, q \in Proc : p # q => work[p].locked \cap work[q].locked = {}

\* What a transaction has written but not committed is not negative, and is the
\* committed level plus its movements unless it wrote over an unseen level.
Pending ==
    \A p \in Proc, c \in Cell :
        /\ c \in work[p].locked => work[p].own[c] >= 0
        /\ c \in work[p].locked \ work[p].stale =>
               work[p].own[c] = level[c] + work[p].moved[c]
        /\ c \notin work[p].locked => work[p].moved[c] = 0

StockInv ==
    /\ StockTypeOK
    /\ Checked
    /\ Exclusive
    /\ Pending
    /\ StockNeverNegative
    /\ LevelIsSumOfMovements

-----------------------------------------------------------------------------

\* A transaction that does nothing is well typed.
LEMMA NoWorkType == NoWork \in Work
BY DEF NoWork, Work, Cell, Leg

\* What a transaction sees is a level.
LEMMA VisibleType ==
    ASSUME StockTypeOK, NEW p \in Proc, NEW c \in Cell
    PROVE  Visible(p, c) \in Int
BY DEF StockTypeOK, Visible, Work

\* What a transaction sees is not negative.
LEMMA VisibleNotNegative ==
    ASSUME StockInv, NEW p \in Proc, NEW c \in Cell
    PROVE  Visible(p, c) >= 0
BY DEF StockInv, StockTypeOK, Visible, Work, Pending, StockNeverNegative

\* The invariant holds initially.
LEMMA StockInvInit == StockInit => StockInv
<1> SUFFICES ASSUME StockInit PROVE StockInv
    OBVIOUS
<1>1. StockTypeOK
    BY NoWorkType, StockAssumption DEF StockInit, StockTypeOK
<1>2. Checked /\ Exclusive /\ Pending
    BY DEF StockInit, Checked, Exclusive, Pending, NoWork
<1>3. StockNeverNegative /\ LevelIsSumOfMovements
    BY StockAssumption DEF StockInit, StockNeverNegative, LevelIsSumOfMovements
<1> QED
    BY <1>1, <1>2, <1>3 DEF StockInv

-----------------------------------------------------------------------------

\* A step that changes only the legs, what was read and the number of movements
\* of one transaction, keeping it well typed and checked.
LEMMA LocalStep ==
    ASSUME StockInv, NEW p \in Proc, NEW w \in Work,
           work' = [work EXCEPT ![p] = w],
           UNCHANGED <<level, recorded, movements, overtaken>>,
           w.own = work[p].own, w.locked = work[p].locked,
           w.moved = work[p].moved, w.stale = work[p].stale,
           w.legs = <<>> => w.reading,
           w.legs # <<>> /\ ~w.reading => w.read + Head(w.legs).delta >= 0
    PROVE  StockInv'
<1>1. StockTypeOK'
    BY DEF StockInv, StockTypeOK
<1>2. Checked'
    BY DEF StockInv, StockTypeOK, Checked
<1>3. \A q \in Proc : /\ work'[q].own = work[q].own
                      /\ work'[q].locked = work[q].locked
                      /\ work'[q].moved = work[q].moved
                      /\ work'[q].stale = work[q].stale
    BY DEF StockInv, StockTypeOK
<1>4. Exclusive' /\ Pending'
    BY <1>3 DEF StockInv, Exclusive, Pending
<1>5. StockNeverNegative' /\ LevelIsSumOfMovements'
    BY DEF StockInv, StockNeverNegative, LevelIsSumOfMovements
<1> QED
    BY <1>1, <1>2, <1>4, <1>5 DEF StockInv

\* The start of an operation preserves the invariant.
LEMMA PerformStep ==
    ASSUME StockInv, NEW p \in Proc, NEW legs \in Seq(Leg), legs # <<>>,
           Perform(p, legs)
    PROVE  StockInv'
<1> DEFINE w == [work[p] EXCEPT !.legs = legs]
<1>1. work[p] \in Work /\ work[p].reading
    BY NoWorkType DEF Perform, NoWork
<1>2. w \in Work /\ w.reading
    BY <1>1 DEF Work
<1>3. work' = [work EXCEPT ![p] = w]
    BY DEF Perform
<1> QED
    BY <1>1, <1>2, <1>3, LocalStep DEF Perform, Work

\* The call for one line of a goods receipt preserves the invariant.
LEMMA GoodsReceiptStep ==
    ASSUME StockInv, NEW p \in Proc, NEW c \in Cell,
           NEW accepted \in 0..MaxQuantity, NEW damaged \in 0..MaxQuantity,
           applyGoodsReceiptMovements(p, c, accepted, damaged)
    PROVE  StockInv'
<1> DEFINE legs == IF accepted > 0 THEN << [cell |-> c, delta |-> accepted] >>
                                   ELSE <<>>
           rows == IF damaged > 0 THEN work[p].rows + 1 ELSE work[p].rows
           w == [work[p] EXCEPT !.legs = legs, !.rows = rows]
<1>1. work[p] \in Work /\ work[p].legs = <<>> /\ work[p].reading
    BY DEF StockInv, StockTypeOK, Checked, applyGoodsReceiptMovements
<1>2. legs \in Seq(Leg) /\ rows \in Nat
  <2>1. [cell |-> c, delta |-> accepted] \in Leg
    BY StockAssumption DEF Leg
  <2>2. << [cell |-> c, delta |-> accepted] >> \in Seq(Leg) /\ <<>> \in Seq(Leg)
    BY <2>1
  <2>3. work[p].rows \in Nat
    BY <1>1 DEF Work
  <2> QED
    BY <2>2, <2>3
<1>3. w \in Work /\ w.reading
    BY <1>1, <1>2 DEF Work
<1>4. work' = [work EXCEPT ![p] = w]
    BY DEF applyGoodsReceiptMovements
<1> HIDE DEF legs, rows
<1>5. /\ w.own = work[p].own /\ w.locked = work[p].locked
      /\ w.moved = work[p].moved /\ w.stale = work[p].stale
    BY <1>1 DEF Work
<1> QED
    BY <1>3, <1>4, <1>5, LocalStep DEF applyGoodsReceiptMovements

\* Reading a level, with its check, preserves the invariant.
LEMMA ReadStep ==
    ASSUME StockInv, NEW p \in Proc, ReadLevel(p)
    PROVE  StockInv'
<1> DEFINE leg == Head(work[p].legs)
           onHand == Visible(p, leg.cell)
           w == [work[p] EXCEPT !.reading = FALSE, !.read = onHand]
<1>1. work[p] \in Work /\ work[p].legs # <<>>
    BY DEF StockInv, StockTypeOK, ReadLevel
<1>2. leg \in Leg
    BY <1>1 DEF Work
<1>3. onHand \in Int /\ onHand >= 0
    BY <1>2, VisibleType, VisibleNotNegative DEF StockInv, Leg
<1>4. leg.delta < 0 => -leg.delta <= onHand
    BY DEF ReadLevel
<1>5. onHand + leg.delta >= 0
    BY <1>2, <1>3, <1>4 DEF Leg
<1>6. work' = [work EXCEPT ![p] = w]
    BY DEF ReadLevel
<1> HIDE DEF onHand
<1>7. w \in Work
    BY <1>1, <1>3 DEF Work
<1>8. /\ w.own = work[p].own /\ w.locked = work[p].locked
      /\ w.moved = work[p].moved /\ w.stale = work[p].stale
      /\ w.legs = work[p].legs /\ w.read = onHand
    BY <1>1 DEF Work
<1>9. w.legs # <<>> /\ w.read + Head(w.legs).delta >= 0
    BY <1>1, <1>5, <1>8
<1> QED
    BY <1>6, <1>7, <1>8, <1>9, LocalStep DEF ReadLevel

\* Writing a level preserves the invariant: the value written was checked.
LEMMA WriteStep ==
    ASSUME StockInv, NEW p \in Proc, WriteLevel(p)
    PROVE  StockInv'
<1> DEFINE leg == Head(work[p].legs)
           c == leg.cell
           w == [legs |-> Tail(work[p].legs), reading |-> TRUE, read |-> 0,
                 own |-> [work[p].own EXCEPT ![c] = nextOnHand(p, leg)],
                 locked |-> work[p].locked \cup {c},
                 moved |-> [work[p].moved EXCEPT ![c] = @ + leg.delta],
                 rows |-> work[p].rows + 1,
                 stale |-> IF work[p].read = Visible(p, c) THEN work[p].stale
                           ELSE work[p].stale \cup {c}]
<1>1. /\ work[p] \in Work /\ work[p].legs # <<>> /\ ~work[p].reading
      /\ work' = [work EXCEPT ![p] = w]
      /\ UNCHANGED <<level, recorded, movements, overtaken>>
      /\ RowAvailable(p, c)
    BY DEF StockInv, StockTypeOK, WriteLevel
<1>2. leg \in Leg /\ c \in Cell /\ leg.delta \in Int
  <2>1. work[p].legs \in Seq(Leg)
    BY <1>1 DEF Work
  <2>2. Head(work[p].legs) \in Leg
    BY <1>1, <2>1
  <2> QED
    BY <2>2 DEF Leg
<1>3. nextOnHand(p, leg) \in Int /\ nextOnHand(p, leg) >= 0
    BY <1>1, <1>2 DEF StockInv, Checked, Work, nextOnHand
<1>4. w \in Work
  <2>0. /\ work[p].legs \in Seq(Leg) /\ work[p].own \in [Cell -> Int]
        /\ work[p].moved \in [Cell -> Int] /\ work[p].locked \in SUBSET Cell
        /\ work[p].stale \in SUBSET Cell /\ work[p].rows \in Nat
    BY <1>1 DEF Work
  <2>1. w.legs \in Seq(Leg) /\ w.reading \in BOOLEAN /\ w.read \in Int
    BY <1>1, <2>0
  <2>2. w.own \in [Cell -> Int] /\ w.moved \in [Cell -> Int]
    <3> DEFINE n == nextOnHand(p, leg)
               m == work[p].moved[c] + leg.delta
    <3>1. n \in Int /\ m \in Int
      BY <1>2, <1>3, <2>0
    <3>2. w.own = [work[p].own EXCEPT ![c] = n] /\ w.moved = [work[p].moved EXCEPT ![c] = m]
      OBVIOUS
    <3> HIDE DEF n, m, w
    <3> QED
      BY <1>2, <2>0, <3>1, <3>2
  <2>3. w.locked \in SUBSET Cell /\ w.stale \in SUBSET Cell /\ w.rows \in Nat
    BY <1>2, <2>0
  <2> QED
    BY <2>1, <2>2, <2>3 DEF Work
<1>5. /\ work'[p] = w
      /\ \A q \in Proc \ {p} : work'[q] = work[q]
    BY <1>1 DEF StockInv, StockTypeOK
<1>6. StockTypeOK'
    BY <1>1, <1>4 DEF StockInv, StockTypeOK
<1>7. Checked'
    BY <1>5 DEF StockInv, Checked
<1>8. Exclusive'
  <2>1. w.locked = work[p].locked \cup {c} /\ \A q \in Proc \ {p} : c \notin work[q].locked
    BY <1>1 DEF RowAvailable
  <2>2. \A q, r \in Proc : q # r => work[q].locked \cap work[r].locked = {}
    BY DEF StockInv, Exclusive
  <2> HIDE DEF w, c
  <2> SUFFICES ASSUME NEW q \in Proc, NEW r \in Proc, q # r
               PROVE  work'[q].locked \cap work'[r].locked = {}
    BY DEF Exclusive
  <2>3. CASE q # p /\ r # p
    BY <1>5, <2>2, <2>3
  <2>4. CASE q = p
    BY <1>5, <2>1, <2>2, <2>4
  <2>5. CASE r = p
    BY <1>5, <2>1, <2>2, <2>5
  <2> QED
    BY <2>3, <2>4, <2>5
<1>9. ASSUME NEW d \in Cell
      PROVE  /\ d \in w.locked => w.own[d] >= 0
             /\ d \in w.locked \ w.stale => w.own[d] = level[d] + w.moved[d]
             /\ d \notin w.locked => w.moved[d] = 0
  <2>1. CASE d # c
    BY <1>1, <1>2, <2>1 DEF StockInv, Pending, Work
  <2>2. CASE d = c
    <3>1. w.own[d] = nextOnHand(p, leg) /\ w.moved[d] = work[p].moved[c] + leg.delta
        BY <1>1, <1>2, <2>2 DEF Work
    <3>2. ASSUME d \notin w.stale
          PROVE  nextOnHand(p, leg) = level[c] + work[p].moved[c] + leg.delta
      <4>1. work[p].read = Visible(p, c) /\ c \notin work[p].stale
          BY <2>2, <3>2
      <4>2. Visible(p, c) = level[c] + work[p].moved[c]
        <5>1. level[c] \in Int
            BY <1>2 DEF StockInv, StockTypeOK
        <5>2. /\ c \in work[p].locked => work[p].own[c] = level[c] + work[p].moved[c]
              /\ c \notin work[p].locked => work[p].moved[c] = 0
            BY <1>2, <4>1 DEF StockInv, Pending
        <5> QED
            BY <5>1, <5>2 DEF Visible
      <4> QED
          BY <4>1, <4>2 DEF nextOnHand
    <3>3. d \in w.locked /\ (d \in w.locked \ w.stale =>
                                w.own[d] = level[d] + w.moved[d])
      <4>1. level[c] \in Int /\ work[p].moved[c] \in Int
        BY <1>1, <1>2 DEF Work, StockInv, StockTypeOK
      <4>2. d \in w.locked
        BY <2>2
      <4>3. nextOnHand(p, leg) = level[c] + work[p].moved[c] + leg.delta =>
               w.own[d] = level[d] + w.moved[d]
        BY <1>2, <2>2, <3>1, <4>1
      <4> QED
        BY <3>2, <4>2, <4>3
    <3> QED
      BY <1>3, <3>1, <3>3
  <2> QED
    BY <2>1, <2>2
<1>10. Pending'
  <2> SUFFICES ASSUME NEW q \in Proc, NEW d \in Cell
               PROVE  /\ d \in work'[q].locked => work'[q].own[d] >= 0
                      /\ d \in work'[q].locked \ work'[q].stale =>
                             work'[q].own[d] = level[d] + work'[q].moved[d]
                      /\ d \notin work'[q].locked => work'[q].moved[d] = 0
    <3>1. level' = level
      BY <1>1
    <3> QED
      BY <3>1 DEF Pending
  <2>1. CASE q = p
    BY <1>5, <1>9, <2>1
  <2>2. CASE q # p
    BY <1>5, <2>2 DEF StockInv, Pending
  <2> QED
    BY <2>1, <2>2
<1>11. StockNeverNegative' /\ LevelIsSumOfMovements'
    BY <1>1 DEF StockInv, StockNeverNegative, LevelIsSumOfMovements
<1> QED
    BY <1>6, <1>7, <1>8, <1>10, <1>11 DEF StockInv

\* The rollback of a transaction preserves the invariant.
LEMMA RollBackStep ==
    ASSUME StockInv, NEW p \in Proc, RollBackStock(p)
    PROVE  StockInv'
<1>1. /\ work'[p] = NoWork
      /\ \A q \in Proc \ {p} : work'[q] = work[q]
    BY DEF StockInv, StockTypeOK, RollBackStock
<1>2. StockTypeOK'
    BY NoWorkType DEF StockInv, StockTypeOK, RollBackStock
<1>3. Checked' /\ Exclusive'
    BY <1>1 DEF StockInv, Checked, Exclusive, NoWork
<1>4. Pending'
    BY <1>1 DEF StockInv, Pending, NoWork, RollBackStock
<1>5. StockNeverNegative' /\ LevelIsSumOfMovements'
    BY DEF StockInv, StockNeverNegative, LevelIsSumOfMovements, RollBackStock
<1> QED
    BY <1>2, <1>3, <1>4, <1>5 DEF StockInv

\* The commit of a transaction preserves the invariant: others hold no row it
\* changes, so what they have pending is still based on the committed levels.
LEMMA CommitStep ==
    ASSUME StockInv, NEW p \in Proc, CommitStock(p)
    PROVE  StockInv'
<1>1. /\ work'[p] = NoWork
      /\ \A q \in Proc \ {p} : work'[q] = work[q]
    BY DEF StockInv, StockTypeOK, CommitStock
<1>2. /\ level' = [c \in Cell |-> Visible(p, c)]
      /\ recorded' = [c \in Cell |-> recorded[c] + work[p].moved[c]]
      /\ overtaken' = overtaken \cup work[p].stale
      /\ movements' = movements + work[p].rows
      /\ movements + work[p].rows <= MaxMovements
    BY DEF CommitStock
<1>3. work[p] \in Work
    BY DEF StockInv, StockTypeOK
<1>4. StockTypeOK'
  <2>1. level' \in [Cell -> Int] /\ recorded' \in [Cell -> Int]
    BY <1>2, <1>3, VisibleType DEF StockInv, StockTypeOK, Work
  <2>2. movements' \in 0..MaxMovements
    BY <1>2, <1>3, StockAssumption DEF StockInv, StockTypeOK, Work
  <2>3. overtaken' \subseteq Cell
    BY <1>2, <1>3 DEF StockInv, StockTypeOK, Work
  <2>4. work' \in [Proc -> Work]
    BY NoWorkType DEF StockInv, StockTypeOK, CommitStock
  <2> QED
    BY <2>1, <2>2, <2>3, <2>4 DEF StockTypeOK
<1>5. Checked' /\ Exclusive'
    BY <1>1 DEF StockInv, Checked, Exclusive, NoWork
<1>6. Pending'
  <2> SUFFICES ASSUME NEW q \in Proc, NEW c \in Cell
               PROVE  /\ c \in work'[q].locked => work'[q].own[c] >= 0
                      /\ c \in work'[q].locked \ work'[q].stale =>
                             work'[q].own[c] = level'[c] + work'[q].moved[c]
                      /\ c \notin work'[q].locked => work'[q].moved[c] = 0
    BY DEF Pending
  <2>1. CASE q = p
    BY <1>1, <2>1 DEF NoWork
  <2>2. CASE q # p
    <3>1. work'[q] = work[q]
        BY <1>1, <2>2
    <3>2. c \in work[q].locked => level'[c] = level[c]
        BY <1>2, <2>2 DEF StockInv, Exclusive, Visible
    <3> QED
        BY <3>1, <3>2 DEF StockInv, Pending
  <2> QED
    BY <2>1, <2>2
<1>7. StockNeverNegative'
    BY <1>2, VisibleNotNegative DEF StockNeverNegative
<1>8. LevelIsSumOfMovements'
  <2> SUFFICES ASSUME NEW c \in Cell, c \notin overtaken, c \notin work[p].stale
               PROVE  Visible(p, c) = recorded[c] + work[p].moved[c]
    BY <1>2 DEF LevelIsSumOfMovements
  <2>1. level[c] = recorded[c]
    BY DEF StockInv, LevelIsSumOfMovements
  <2>2. level[c] \in Int /\ recorded[c] \in Int /\ work[p].moved[c] \in Int
    BY <1>3 DEF StockInv, StockTypeOK, Work
  <2>3. Visible(p, c) = level[c] + work[p].moved[c]
    BY <2>2 DEF StockInv, Pending, Visible
  <2> QED
    BY <2>1, <2>2, <2>3
<1> QED
    BY <1>4, <1>5, <1>6, <1>7, <1>8 DEF StockInv

-----------------------------------------------------------------------------

\* The legs of the three operations clients start.
LEMMA RequestStep ==
    ASSUME StockInv, NEW p \in Proc, StockRequest(p)
    PROVE  StockInv'
<1>1. ASSUME NEW c \in Cell, NEW q \in Quantity, createOpeningBalance(p, c, q)
      PROVE  StockInv'
  <2>1. << [cell |-> c, delta |-> q] >> \in Seq(Leg)
    BY StockAssumption DEF Leg, Quantity
  <2> QED
    BY <1>1, <2>1, PerformStep DEF createOpeningBalance
<1>2. ASSUME NEW c \in Cell, NEW q \in Quantity, NEW isIncrease \in BOOLEAN,
             createStockAdjustment(p, c, q, isIncrease)
      PROVE  StockInv'
  <2> DEFINE delta == IF isIncrease THEN q ELSE -q
  <2>1. delta \in Int
    BY StockAssumption DEF Quantity
  <2> HIDE DEF delta
  <2>2. << [cell |-> c, delta |-> delta] >> \in Seq(Leg)
    BY <2>1 DEF Leg
  <2> USE DEF delta
  <2> QED
    BY <1>2, <2>2, PerformStep DEF createStockAdjustment
<1>3. ASSUME NEW item \in Item, NEW source \in Location,
             NEW destination \in Location, NEW q \in Quantity,
             createStockTransfer(p, item, source, destination, q)
      PROVE  StockInv'
  <2>1. << [cell |-> <<item, source>>, delta |-> -q],
           [cell |-> <<item, destination>>, delta |-> q] >> \in Seq(Leg)
    <3>1. /\ [cell |-> <<item, source>>, delta |-> -q] \in Leg
          /\ [cell |-> <<item, destination>>, delta |-> q] \in Leg
        BY StockAssumption DEF Leg, Cell, Quantity
    <3> QED
        BY <3>1
  <2> QED
    BY <1>3, <2>1, PerformStep DEF createStockTransfer
<1> QED
    BY <1>1, <1>2, <1>3 DEF StockRequest

\* Every step preserves the invariant.
LEMMA StockInvStep == StockInv /\ [StockNext]_stockVars => StockInv'
<1> SUFFICES ASSUME StockInv, [StockNext]_stockVars PROVE StockInv'
    OBVIOUS
<1>1. CASE StockNext
    BY <1>1, RequestStep, GoodsReceiptStep, ReadStep, WriteStep, CommitStep,
       RollBackStep DEF StockNext, StockStep, StockEnd
<1>2. CASE UNCHANGED stockVars
    BY <1>2 DEF stockVars, StockInv, StockTypeOK, Checked, Exclusive, Pending,
                StockNeverNegative, LevelIsSumOfMovements, Visible
<1> QED
    BY <1>1, <1>2

\* Every variable of the stock ledger keeps its type.
THEOREM StockTypeCorrect == StockSpec => []StockTypeOK
<1>1. StockInv => StockTypeOK
    BY DEF StockInv
<1> QED
    BY <1>1, StockInvInit, StockInvStep, PTL DEF StockSpec

\* createStockAdjustment, createStockTransfer and createOpeningBalance leave no
\* negative stock on hand, however they and goods receipts interleave.
THEOREM NonNegativeStock == StockSpec => []StockNeverNegative
<1>1. StockInv => StockNeverNegative
    BY DEF StockInv
<1> QED
    BY <1>1, StockInvInit, StockInvStep, PTL DEF StockSpec

\* Levels and movements of the same transactions agree: only a write computed
\* from an outdated level makes them differ.
THEOREM LevelsExplained == StockSpec => []LevelIsSumOfMovements
<1>1. StockInv => LevelIsSumOfMovements
    BY DEF StockInv
<1> QED
    BY <1>1, StockInvInit, StockInvStep, PTL DEF StockSpec

-----------------------------------------------------------------------------
(***************************************************************************)
(* Orders and receipts implement the stock ledger                          *)
(***************************************************************************)

OrderTypeOK ==
    /\ order \in [Order -> OrderRow]
    /\ decision \in [Proc -> Decision \cup {NoDecision}]

ReceiptTypeOK == receipt \in [Proc -> Receipt \cup {NoReceipt}]

PurchaseInv == StockInv /\ OrderTypeOK /\ ReceiptTypeOK

-----------------------------------------------------------------------------

\* Ending a transaction that did nothing changes nothing.
LEMMA EmptyCommit ==
    ASSUME StockTypeOK, NEW p \in Proc, work[p] = NoWork, CommitStock(p)
    PROVE  UNCHANGED stockVars
<1>1. level' = level /\ recorded' = recorded
  <2>1. \A c \in Cell : Visible(p, c) = level[c] /\ recorded[c] + 0 = recorded[c]
    BY DEF Visible, NoWork, StockTypeOK
  <2>2. \A c \in Cell : work[p].moved[c] = 0
    BY DEF NoWork
  <2> QED
    BY <2>1, <2>2 DEF CommitStock, StockTypeOK
<1>2. movements' = movements /\ overtaken' = overtaken /\ work' = work
    BY DEF CommitStock, StockTypeOK, NoWork
<1> QED
    BY <1>1, <1>2 DEF stockVars

\* A line of a receipt is added by a step of the ledger.
LEMMA IncrementIsStockStep ==
    ASSUME PurchaseInv, NEW p \in Proc, IncrementLine(p)
    PROVE  StockNext
<1> DEFINE d == Head(receipt[p].todo)
           c == <<d.item, receipt[p].location>>
<1>1. receipt[p] \in Receipt
  <2>1. receipt[p] \in Receipt \cup {NoReceipt}
    BY DEF PurchaseInv, ReceiptTypeOK
  <2>2. receipt[p].todo # <<>> /\ NoReceipt.todo = <<>>
    BY DEF IncrementLine, NoReceipt
  <2> QED
    BY <2>1, <2>2
<1>2. receipt[p].todo \in Seq(ReceivedLine) /\ receipt[p].location \in Location
    BY <1>1 DEF Receipt
<1>3. d \in ReceivedLine
  <2>1. receipt[p].todo # <<>>
    BY DEF IncrementLine
  <2> QED
    BY <1>2, <2>1
<1>4. c \in Cell /\ d.accepted \in 0..MaxQuantity /\ d.damaged \in 0..MaxQuantity
    BY <1>2, <1>3 DEF Cell, ReceivedLine
<1>5. applyGoodsReceiptMovements(p, c, d.accepted, d.damaged)
    BY DEF IncrementLine
<1> HIDE DEF c, d
<1> QED
    BY <1>4, <1>5 DEF StockNext

\* Every step of the composition is a step of the ledger or leaves it alone.
LEMMA StepIsStockStep ==
    ASSUME PurchaseInv, [PurchaseNext]_allVars
    PROVE  [StockNext]_stockVars
<1>1. CASE UNCHANGED allVars
    BY <1>1 DEF allVars
<1>2. ASSUME NEW p \in Proc, OrderRequest(p)
      PROVE  UNCHANGED stockVars
    BY <1>2 DEF OrderRequest, create, updateDraft, archive, restore, delete,
                submitForApproval, approve, returnToDraft, markSent, cancel,
                Decide, createGoodsReceipt
<1>3. ASSUME NEW p \in Proc, OrderStep(p)
      PROVE  [StockNext]_stockVars
  <2>1. CASE \/ DeleteLines(p) \/ WriteChange(p) \/ DropChange(p)
             \/ CheckAndInsert(p) \/ RefreshLines(p)
    BY <2>1 DEF DeleteLines, WriteChange, DropChange, CheckAndInsert, RefreshLines
  <2>2. CASE IncrementLine(p)
    BY <2>2, IncrementIsStockStep
  <2>3. CASE ReceiptCommit(p)
    <3>1. CommitStock(p)
        BY <2>3 DEF ReceiptCommit
    <3>2. CASE work[p] = NoWork
        BY <3>1, <3>2, EmptyCommit DEF PurchaseInv, StockInv
    <3>3. CASE work[p] # NoWork
        BY <3>1, <3>3 DEF StockNext, StockEnd
    <3> QED
        BY <3>2, <3>3
  <2>4. CASE ReceiptAbort(p)
    <3>1. RollBackStock(p)
        BY <2>4 DEF ReceiptAbort
    <3>2. CASE work[p] = NoWork
      <4>1. work' = work
          BY <3>1, <3>2 DEF RollBackStock, PurchaseInv, StockInv, StockTypeOK
      <4> QED
          BY <3>1, <4>1 DEF RollBackStock, stockVars
    <3>3. CASE work[p] # NoWork
        BY <3>1, <3>3 DEF StockNext, StockEnd
    <3> QED
        BY <3>2, <3>3
  <2> QED
    BY <1>3, <2>1, <2>2, <2>3, <2>4 DEF OrderStep
<1>4. ASSUME NEW p \in Proc, StockOperation(p)
      PROVE  [StockNext]_stockVars
    BY <1>4 DEF StockOperation, StockNext
<1> QED
    BY <1>1, <1>2, <1>3, <1>4 DEF PurchaseNext

-----------------------------------------------------------------------------

\* Receipts in progress keep their type.
LEMMA ReceiptTypeStep ==
    ASSUME OrderTypeOK, ReceiptTypeOK, [PurchaseNext]_allVars
    PROVE  ReceiptTypeOK'
<1>1. CASE UNCHANGED receipt
    BY <1>1 DEF ReceiptTypeOK
<1>2. ASSUME NEW p \in Proc, NEW o \in Order, NEW location \in Location,
             NEW lines \in ReceiptLines, createGoodsReceipt(p, o, location, lines)
      PROVE  ReceiptTypeOK'
  <2> DEFINE r == [stage |-> "check", order |-> o, location |-> location,
                   seen |-> order[o].status, lines |-> lines, todo |-> lines,
                   added |-> [l \in Line |-> 0], next |-> order[o].status]
  <2>1. receipt' = [receipt EXCEPT ![p] = r]
    BY <1>2 DEF createGoodsReceipt
  <2>2. lines \in Seq(ReceivedLine)
    BY PurchaseAssumption
  <2>3. order[o].status \in OrderStatus \ {"Cancelled", "FullyReceived"}
    BY <1>2 DEF createGoodsReceipt, Exists, OrderTypeOK, OrderRow
  <2>4. r \in Receipt
    <3> DEFINE status == order[o].status
    <3>1. [l \in Line |-> 0] \in [Line -> Nat]
        OBVIOUS
    <3>2. status \in OrderStatus \ {"Cancelled", "FullyReceived"}
        BY <2>3
    <3> HIDE DEF status
    <3> QED
        BY <2>2, <3>1, <3>2 DEF Receipt, status
  <2> QED
    BY <2>1, <2>4 DEF ReceiptTypeOK
<1>3. ASSUME NEW p \in Proc, CheckAndInsert(p) \/ RefreshLines(p)
      PROVE  ReceiptTypeOK'
  <2>1. receipt[p] \in Receipt
    <3>1. receipt[p].stage \in {"check", "lines"}
      BY <1>3 DEF CheckAndInsert, RefreshLines
    <3>2. receipt[p] \in Receipt \cup {NoReceipt} /\ NoReceipt.stage = "none"
      BY DEF ReceiptTypeOK, NoReceipt
    <3> QED
      BY <3>1, <3>2
  <2>2. CASE CheckAndInsert(p)
    <3> DEFINE r == [receipt[p] EXCEPT !.stage = "lines"]
    <3>1. r \in Receipt
      BY <2>1 DEF Receipt
    <3> HIDE DEF r
    <3> QED
      BY <2>2, <3>1 DEF CheckAndInsert, ReceiptTypeOK, r
  <2>3. CASE RefreshLines(p)
    <3>1. nextStatus(p) \in OrderStatus
        BY <2>1 DEF nextStatus, Receipt, OrderStatus
    <3> QED
        BY <2>1, <2>3, <3>1 DEF RefreshLines, ReceiptTypeOK, Receipt
  <2> QED
    BY <1>3, <2>2, <2>3
<1>4. ASSUME NEW p \in Proc, IncrementLine(p)
      PROVE  ReceiptTypeOK'
  <2> DEFINE d == Head(receipt[p].todo)
             r == [receipt[p] EXCEPT !.added = [receipt[p].added EXCEPT ![d.line] = Added(p, d)],
                                     !.todo = Tail(receipt[p].todo)]
  <2>1. receipt[p] \in Receipt /\ receipt[p].todo # <<>>
    BY <1>4 DEF ReceiptTypeOK, IncrementLine, NoReceipt
  <2>2. receipt[p].todo \in Seq(ReceivedLine) /\ receipt[p].added \in [Line -> Nat]
    BY <2>1 DEF Receipt
  <2>3. d \in ReceivedLine /\ Tail(receipt[p].todo) \in Seq(ReceivedLine)
    BY <2>1, <2>2
  <2>4. Added(p, d) \in Nat
    <3>1. /\ d.line \in Line
          /\ d.accepted \in 0..MaxQuantity /\ d.damaged \in 0..MaxQuantity
        BY <2>3 DEF ReceivedLine
    <3>2. receipt[p].added[d.line] \in Nat
        BY <2>2, <3>1
    <3> HIDE DEF d
    <3> QED
        BY <3>1, <3>2, StockAssumption DEF Added, received
  <2>5. r \in Receipt
    BY <2>1, <2>2, <2>3, <2>4 DEF Receipt
  <2>6. receipt' = [receipt EXCEPT ![p] = r]
    <3>1. receipt' = [receipt EXCEPT ![p].added[d.line] = Added(p, d),
                                     ![p].todo = Tail(@)]
        BY <1>4 DEF IncrementLine
    <3> QED
        BY <3>1 DEF ReceiptTypeOK
  <2> HIDE DEF r
  <2> QED
    BY <2>5, <2>6 DEF ReceiptTypeOK
<1>5. ASSUME NEW p \in Proc, ReceiptCommit(p) \/ ReceiptAbort(p)
      PROVE  ReceiptTypeOK'
    BY <1>5 DEF ReceiptCommit, ReceiptAbort, ReceiptTypeOK
<1>6. ASSUME NEW p \in Proc,
             \/ DeleteLines(p) \/ WriteChange(p) \/ DropChange(p) \/ StockOperation(p)
             \/ \E o \in Order :
                   \/ \E list \in LineList : create(p, o, list) \/ updateDraft(p, o, list)
                   \/ archive(p, o) \/ restore(p, o) \/ delete(p, o)
                   \/ submitForApproval(p, o) \/ approve(p, o) \/ returnToDraft(p, o)
                   \/ markSent(p, o) \/ cancel(p, o)
      PROVE  UNCHANGED receipt
    BY <1>6 DEF DeleteLines, WriteChange, DropChange, StockOperation, orderVars, create,
                updateDraft, archive, restore, delete, submitForApproval, approve,
                returnToDraft, markSent, cancel, Decide
<1> QED
    BY <1>1, <1>2, <1>3, <1>4, <1>5, <1>6
    DEF PurchaseNext, OrderRequest, OrderStep, allVars, orderVars

\* Orders and checked changes keep their type.
LEMMA OrderTypeStep ==
    ASSUME OrderTypeOK, ReceiptTypeOK, [PurchaseNext]_allVars
    PROVE  OrderTypeOK'
<1>1. CASE UNCHANGED <<order, decision>>
    BY <1>1 DEF OrderTypeOK
<1>2. ASSUME NEW p \in Proc, NEW o \in Order, NEW list \in LineList, create(p, o, list)
      PROVE  OrderTypeOK'
    BY <1>2 DEF create, OrderTypeOK, OrderRow, OrderStatus
<1>3. ASSUME NEW p \in Proc, NEW o \in Order, NEW change \in Change,
             NEW list \in Seq(Content), Decide(p, o, change, list)
      PROVE  OrderTypeOK'
  <2>1. [order |-> o, change |-> change, lines |-> list, found |-> {}] \in Decision
    BY DEF Decision
  <2> QED
    BY <1>3, <2>1 DEF Decide, OrderTypeOK
<1>4. ASSUME NEW p \in Proc, NEW o \in Order,
             \/ \E list \in LineList : updateDraft(p, o, list)
             \/ archive(p, o) \/ restore(p, o) \/ delete(p, o)
             \/ submitForApproval(p, o) \/ approve(p, o) \/ returnToDraft(p, o)
             \/ markSent(p, o) \/ cancel(p, o)
      PROVE  OrderTypeOK'
  <2>1. /\ <<>> \in Seq(Content)
        /\ \A list \in LineList : list \in Seq(Content)
    BY PurchaseAssumption
  <2>2. \E change \in Change, list \in Seq(Content) : Decide(p, o, change, list)
    BY <1>4, <2>1 DEF updateDraft, archive, restore, delete, submitForApproval,
                      approve, returnToDraft, markSent, cancel, Change, OrderStatus
  <2> QED
    BY <1>3, <2>2
<1>5. ASSUME NEW p \in Proc, WriteChange(p)
      PROVE  OrderTypeOK'
  <2> DEFINE o == decision[p].order
             change == decision[p].change
  <2>1. decision[p] \in Decision /\ o \in Order
    BY <1>5 DEF WriteChange, OrderTypeOK, Decision
  <2>2. decision' \in [Proc -> Decision \cup {NoDecision}]
    BY <1>5 DEF WriteChange, OrderTypeOK
  <2>3. \/ UNCHANGED order
        \/ order' = [order EXCEPT ![o].status = "Deleted"]
        \/ order' = [order EXCEPT ![o].archived = (change = "archive")]
        \/ change \in OrderStatus /\ order' = [order EXCEPT ![o].status = change]
    BY <1>5 DEF WriteChange, ReplaceLines
  <2> HIDE DEF o, change
  <2>4. order' \in [Order -> OrderRow]
    <3>1. order \in [Order -> OrderRow] /\ order[o] \in OrderRow
      BY <2>1 DEF OrderTypeOK
    <3>2. /\ [order[o] EXCEPT !.status = "Deleted"] \in OrderRow
          /\ [order[o] EXCEPT !.archived = (change = "archive")] \in OrderRow
          /\ change \in OrderStatus => [order[o] EXCEPT !.status = change] \in OrderRow
      BY <3>1 DEF OrderRow
    <3> QED
      BY <2>1, <2>3, <3>1, <3>2
  <2> QED
    BY <2>2, <2>4 DEF OrderTypeOK
<1>6. ASSUME NEW p \in Proc, DropChange(p)
      PROVE  OrderTypeOK'
    BY <1>6 DEF DropChange, OrderTypeOK
<1>9. ASSUME NEW p \in Proc, DeleteLines(p)
      PROVE  OrderTypeOK'
  <2>1. decision[p] \in Decision /\ order' = order
    BY <1>9 DEF DeleteLines, OrderTypeOK, NoDecision
  <2>2. LinesOf(decision[p].order) \subseteq Line
    BY DEF LinesOf
  <2>3. [decision[p] EXCEPT !.change = "replace",
                            !.found = LinesOf(decision[p].order)] \in Decision
    BY <2>1, <2>2 DEF Decision, Change
  <2> QED
    BY <1>9, <2>1, <2>3 DEF DeleteLines, OrderTypeOK
<1>7. ASSUME NEW p \in Proc, ReceiptCommit(p)
      PROVE  OrderTypeOK'
  <2> DEFINE r == receipt[p]
  <2>1. r \in Receipt
    <3>1. receipt[p].stage = "commit"
        BY <1>7 DEF ReceiptCommit
    <3> QED
        BY <3>1 DEF ReceiptTypeOK, NoReceipt
  <2>2. r.order \in Order /\ r.next \in OrderStatus
    BY <2>1 DEF Receipt
  <2>3. order' = order \/ order' = [order EXCEPT ![r.order].status = r.next]
    BY <1>7 DEF ReceiptCommit
  <2>4. decision' = decision
    BY <1>7 DEF ReceiptCommit
  <2> HIDE DEF r
  <2> QED
    BY <2>2, <2>3, <2>4 DEF OrderTypeOK, OrderRow
<1>8. ASSUME NEW p \in Proc,
             \/ CheckAndInsert(p) \/ IncrementLine(p) \/ RefreshLines(p)
             \/ ReceiptAbort(p) \/ StockOperation(p)
             \/ \E o \in Order, location \in Location, lines \in ReceiptLines :
                   createGoodsReceipt(p, o, location, lines)
      PROVE  UNCHANGED <<order, decision>>
    BY <1>8 DEF CheckAndInsert, IncrementLine, RefreshLines, ReceiptAbort,
                StockOperation, orderVars, createGoodsReceipt
<1> QED
    BY <1>1, <1>2, <1>4, <1>5, <1>6, <1>7, <1>8, <1>9
    DEF PurchaseNext, OrderRequest, OrderStep, allVars, orderVars

\* The invariant of the composition.
LEMMA PurchaseInvariant == PurchaseSpec => []PurchaseInv
<1>1. PurchaseInit => PurchaseInv
    BY StockInvInit DEF PurchaseInit, PurchaseInv, ReceiptTypeOK, OrderTypeOK, OrderRow
<1>2. PurchaseInv /\ [PurchaseNext]_allVars => PurchaseInv'
  <2> SUFFICES ASSUME PurchaseInv, [PurchaseNext]_allVars PROVE PurchaseInv'
    OBVIOUS
  <2>1. StockInv'
    BY StepIsStockStep, StockInvStep DEF PurchaseInv
  <2> QED
    BY <2>1, OrderTypeStep, ReceiptTypeStep DEF PurchaseInv
<1> QED
    BY <1>1, <1>2, PTL DEF PurchaseSpec

\* Purchase orders and goods receipts change stock only by steps of the stock
\* ledger.
THEOREM OrdersImplementLedger == PurchaseSpec => StockSpec
<1>1. PurchaseInit => StockInit
    BY DEF PurchaseInit
<1>2. PurchaseInv /\ [PurchaseNext]_allVars => [StockNext]_stockVars
    BY StepIsStockStep
<1> QED
    BY <1>1, <1>2, PurchaseInvariant, PTL DEF PurchaseSpec, StockSpec

\* With orders and receipts in progress too, stock on hand is never negative.
THEOREM NonNegativeStockWithOrders == PurchaseSpec => []StockNeverNegative
BY OrdersImplementLedger, NonNegativeStock, PTL

\* With orders and receipts in progress too, only a write computed from an
\* outdated level makes levels and movements differ.
THEOREM LevelsExplainedWithOrders == PurchaseSpec => []LevelIsSumOfMovements
BY OrdersImplementLedger, LevelsExplained, PTL

-----------------------------------------------------------------------------
(***************************************************************************)
(* Receipts and the lines of their order: the invariant                    *)
(*                                                                         *)
(* A receipt checks the lines once and writes the status of the order at   *)
(* its end.  In between its increments are the units of the part of the    *)
(* request it is done with, and the lines it refers to cannot be deleted.  *)
(***************************************************************************)

LineTypeOK ==
    /\ line \in [Line -> LineRow]
    /\ receipted \in [Line -> Nat]
    /\ late \subseteq Line

\* A line of an order is for some quantity, its order is there, and lines that
\* goods were received for stay lines of an order.
LinesInv ==
    /\ ReceivedIsReceipted
    /\ \A l \in Line :
          /\ line[l].order # NoOrder => line[l].ordered > 0 /\ Exists(line[l].order)
          /\ receipted[l] > 0 => line[l].order # NoOrder

\* How many lines of its request a receipt has added.
Done(r) == Len(r.lines) - Len(r.todo)

\* The lines whose quantities a receipt may still rely on when it has computed the
\* status: those of its request, and those of its order that were not created late.
Covered(r) ==
    {l \in Line : \/ line[l].order = r.order /\ l \notin late
                  \/ \E n \in 1..Len(r.lines) : r.lines[n].line = l}

\* What a receipt in progress has added so far, and what it may still rely on.
Progress(r) ==
    /\ r.lines # <<>> /\ Len(r.todo) <= Len(r.lines)
    /\ \A n \in 1..Len(r.todo) : r.todo[n] = r.lines[Done(r) + n]
    /\ \A l \in Line : r.added[l] = UnitsReceived(r.lines, Done(r), l)
    /\ r.stage = "commit" => r.todo = <<>>
    /\ r.stage # "check" =>
          \A n \in 1..Len(r.lines) : line[r.lines[n].line].order = r.order
    /\ r.stage = "commit" /\ r.next = "FullyReceived" =>
          \A l \in Covered(r) : line[l].received + r.added[l] >= line[l].ordered

\* Goods were received for some line of an order that is FullyReceived, so that no
\* deletion finds all its lines, and only a receipt makes an order FullyReceived.
FullInv ==
    /\ FullyReceivedIsReceived
    /\ \A o \in Order : order[o].status = "FullyReceived" =>
          \E l \in LinesOf(o) : receipted[l] > 0
    /\ \A p \in Proc : decision[p].change # "FullyReceived"

ReceiptsInv ==
    /\ LineTypeOK /\ LinesInv /\ FullInv
    /\ \A p \in Proc : receipt[p] # NoReceipt => Progress(receipt[p])

-----------------------------------------------------------------------------
(***************************************************************************)
(* The units of a receipt                                                  *)
(***************************************************************************)

\* Disjoint sets count together what each counts.
LEMMA DisjointUnion ==
    ASSUME NEW S, IsFiniteSet(S), NEW T, IsFiniteSet(T), S \cap T = {}
    PROVE  Cardinality(S \cup T) = Cardinality(S) + Cardinality(T)
<1>1. Cardinality(S \cap T) = 0
  BY FS_EmptySet
<1>2. Cardinality(S) \in Nat /\ Cardinality(T) \in Nat
  BY FS_CardinalityType
<1>3. Cardinality(S \cup T) = Cardinality(S) + Cardinality(T) - Cardinality(S \cap T)
  BY FS_Union
<1>. QED
  BY <1>1, <1>2, <1>3

\* The first n lines of a request bring as many units for l as lines 1 to n - 1
\* do, and those of line n when it is for l.
LEMMA UnitsOfNext ==
    ASSUME NEW lines \in Seq(ReceivedLine), NEW n \in 0..(Len(lines) - 1), NEW l
    PROVE  /\ UnitsReceived(lines, n, l) \in Nat
           /\ UnitsReceived(lines, n + 1, l) =
                 UnitsReceived(lines, n, l)
                     + IF lines[n + 1].line = l THEN received(lines[n + 1]) ELSE 0
<1>. DEFINE Units(m) == {u \in (1..m) \X (1..2 * MaxQuantity) :
                            lines[u[1]].line = l /\ u[2] <= received(lines[u[1]])}
            k == IF lines[n + 1].line = l THEN received(lines[n + 1]) ELSE 0
            new == {n + 1} \X (1..k)
<1>1. lines[n + 1] \in ReceivedLine /\ n \in Nat
  OBVIOUS
<1>2. received(lines[n + 1]) \in 0..(2 * MaxQuantity)
  BY <1>1, StockAssumption DEF ReceivedLine, received
<1>3. k \in 0..(2 * MaxQuantity) /\ 2 * MaxQuantity \in Nat
  BY <1>2, StockAssumption
<1>4. IsFiniteSet(Units(n)) /\ Cardinality(Units(n)) \in Nat
  <2>1. IsFiniteSet(1..n) /\ IsFiniteSet(1..2 * MaxQuantity)
    BY <1>1, <1>3, FS_Interval
  <2>2. IsFiniteSet((1..n) \X (1..2 * MaxQuantity))
    BY <2>1, FS_Product
  <2>3. Units(n) \subseteq (1..n) \X (1..2 * MaxQuantity)
    OBVIOUS
  <2>. QED
    BY <2>2, <2>3, FS_Subset, FS_CardinalityType
<1>5. IsFiniteSet(new) /\ Cardinality(new) = k
  <2>. HIDE DEF k
  <2>1. IsFiniteSet({n + 1}) /\ Cardinality({n + 1}) = 1
    BY FS_Singleton
  <2>2. IsFiniteSet(1..k) /\ Cardinality(1..k) = k
    <3>1. k \in Nat
      BY <1>3
    <3>. QED
      BY <3>1, FS_Interval
  <2>3. IsFiniteSet(new) /\ Cardinality(new) = Cardinality({n + 1}) * Cardinality(1..k)
    BY <2>1, <2>2, FS_Product
  <2>. QED
    BY <1>3, <2>1, <2>2, <2>3
<1>6. Units(n + 1) = Units(n) \cup new
  <2>. DEFINE max == 2 * MaxQuantity
              quantity == received(lines[n + 1])
              same == lines[n + 1].line = l
  <2>1. \A u \in (1..(n + 1)) \X (1..max) : u \in (1..n) \X (1..max) \/ u[1] = n + 1
    BY <1>1
  <2>2. Units(n + 1) \subseteq Units(n) \cup new
    <3>1. ASSUME NEW u \in Units(n + 1) PROVE u \in Units(n) \cup new
      <4>1. CASE u[1] = n + 1
        <5>1. lines[n + 1].line = l /\ u[2] <= k /\ u[2] \in 1..max /\ u = <<n + 1, u[2]>>
          BY <4>1
        <5>2. u[2] \in 1..k
          BY <1>3, <5>1
        <5>. QED
          BY <5>1, <5>2
      <4>2. CASE u[1] # n + 1
        BY <2>1, <4>2
      <4>. QED
        BY <4>1, <4>2
    <3>. QED
      BY <3>1
  <2>3. Units(n) \subseteq Units(n + 1)
    <3>1. (1..n) \subseteq 1..(n + 1)
      BY <1>1
    <3>. QED
      BY <3>1
  <2>4. new \subseteq Units(n + 1)
    <3>1. ASSUME NEW i \in 1..k PROVE <<n + 1, i>> \in Units(n + 1)
      <4>1. lines[n + 1].line = l /\ i <= received(lines[n + 1])
        BY <1>3, <3>1
      <4>2. n + 1 \in 1..(n + 1) /\ i \in 1..(2 * MaxQuantity)
        BY <1>1, <1>3, <3>1
      <4>. QED
        BY <4>1, <4>2
    <3>. HIDE DEF k
    <3>. QED
      BY <3>1
  <2>. QED
    BY <2>2, <2>3, <2>4
<1>7. Units(n) \cap new = {}
  BY <1>1
<1>. HIDE DEF Units, new, k
<1>8. Cardinality(Units(n + 1)) = Cardinality(Units(n)) + k
  <2>1. Cardinality(Units(n) \cup new) = Cardinality(Units(n)) + Cardinality(new)
    BY <1>4, <1>5, <1>7, DisjointUnion
  <2>. QED
    BY <1>5, <1>6, <2>1
<1>. QED
  BY <1>4, <1>8 DEF UnitsReceived, Units, k

\* No line brings nothing.
LEMMA UnitsOfNone ==
    ASSUME NEW lines, NEW l
    PROVE  UnitsReceived(lines, 0, l) = 0
<1>1. {u \in (1..0) \X (1..2 * MaxQuantity) :
          lines[u[1]].line = l /\ u[2] <= received(lines[u[1]])} = {}
  OBVIOUS
<1>. QED
  BY <1>1, FS_EmptySet DEF UnitsReceived

-----------------------------------------------------------------------------
(***************************************************************************)
(* What a step leaves of the lines of an order                             *)
(***************************************************************************)

\* The lines a receipt refers to stay lines of their order, and those it relies on
\* keep the quantity ordered, with no less received, and get no others.
KeepsLines(r) ==
    /\ \A n \in 1..Len(r.lines) :
          line'[r.lines[n].line].order = line[r.lines[n].line].order
    /\ \A l \in Covered(r)' : /\ l \in Covered(r)
                              /\ line'[l].ordered = line[l].ordered
                              /\ line'[l].received >= line[l].received

\* A receipt that does not step keeps its progress when the lines it refers to
\* are kept.
LEMMA ProgressKept ==
    ASSUME LineTypeOK, LineTypeOK', NEW r \in Receipt, Progress(r),
           r.stage # "check" => KeepsLines(r)
    PROVE  Progress(r)'
<1>1. ASSUME r.stage # "check", NEW n \in 1..Len(r.lines)
      PROVE  line'[r.lines[n].line].order = r.order
  BY <1>1 DEF Progress, KeepsLines
<1>2. ASSUME r.stage = "commit", r.next = "FullyReceived", NEW l \in Covered(r)'
      PROVE  line'[l].received + r.added[l] >= line'[l].ordered
  <2>1. /\ l \in Covered(r) /\ line'[l].ordered = line[l].ordered
        /\ line'[l].received >= line[l].received
    BY <1>2 DEF KeepsLines
  <2>2. line[l].received + r.added[l] >= line[l].ordered
    BY <1>2, <2>1 DEF Progress
  <2>3. l \in Line /\ r.added \in [Line -> Nat]
    BY <2>1 DEF Covered, Receipt
  <2>4. /\ line[l].received \in Nat /\ line'[l].received \in Nat
        /\ line[l].ordered \in Nat /\ r.added[l] \in Nat
    BY <2>3 DEF LineTypeOK, LineRow
  <2>. QED
    BY <2>1, <2>2, <2>4
<1>3. /\ r.lines # <<>> /\ Len(r.todo) <= Len(r.lines)
      /\ \A n \in 1..Len(r.todo) : r.todo[n] = r.lines[Done(r) + n]
      /\ \A l \in Line : r.added[l] = UnitsReceived(r.lines, Done(r), l)
      /\ r.stage = "commit" => r.todo = <<>>
  BY DEF Progress
<1>. QED
  BY <1>1, <1>2, <1>3 DEF Progress

\* The receipts that do not step.
LEMMA OthersProgress ==
    ASSUME LineTypeOK, LineTypeOK', ReceiptTypeOK, NEW q \in Proc,
           receipt[q] # NoReceipt => Progress(receipt[q]), receipt'[q] = receipt[q],
           \A r \in Receipt : r = receipt[q] /\ r.stage # "check" => KeepsLines(r)
    PROVE  receipt'[q] # NoReceipt => Progress(receipt[q])'
<1>1. CASE receipt[q] = NoReceipt
  BY <1>1
<1>2. CASE receipt[q] # NoReceipt
  <2>1. receipt[q] \in Receipt
    BY <1>2 DEF ReceiptTypeOK
  <2>2. PICK r \in Receipt : r = receipt[q]
    BY <2>1
  <2>3. Progress(r) /\ (r.stage # "check" => KeepsLines(r))
    BY <1>2, <2>2
  <2>4. Progress(r)'
    BY <2>3, ProgressKept
  <2>. QED
    BY <2>2, <2>4
<1>. QED
  BY <1>1, <1>2

\* When lines change in nothing but quantities that grow, receipts keep theirs.
LEMMA LinesGrow ==
    ASSUME LineTypeOK, late' = late, NEW r \in Receipt,
           \A l \in Line : /\ line'[l].order = line[l].order
                           /\ line'[l].ordered = line[l].ordered
                           /\ line'[l].received >= line[l].received
    PROVE  KeepsLines(r)
<1>1. \A n \in 1..Len(r.lines) : r.lines[n] \in ReceivedLine
  BY DEF Receipt
<1>2. \A n \in 1..Len(r.lines) : r.lines[n].line \in Line
  BY <1>1 DEF ReceivedLine
<1>3. Covered(r)' = Covered(r)
  BY DEF Covered
<1>. QED
  BY <1>2, <1>3 DEF KeepsLines, Covered

\* What becomes of a line when those of a set are deleted and others created for o.
Relined(o, gone, l) ==
    \/ /\ line[l].ordered = 0 /\ line'[l].order = o
       /\ line'[l].ordered > 0 /\ line'[l].received = 0
    \/ l \in gone /\ line'[l] = [line[l] EXCEPT !.order = NoOrder]
    \/ l \notin gone /\ line'[l] = line[l]

\* The rows of the lines created for a list.
Ids(list, f) == {f[n] : n \in 1..Len(list)}

\* WithLines uses rows that were not used yet.
LEMMA WithLinesRows ==
    ASSUME LineTypeOK, NEW o \in Order, NEW gone, NEW list \in Seq(Content), NEW f,
           \A n \in 1..Len(list) : f[n] \in Line /\ line[f[n]].ordered = 0,
           line' = WithLines(o, gone, list, f)
    PROVE  /\ line' \in [Line -> LineRow]
           /\ \A l \in Line : Relined(o, gone, l)
           /\ \A l \in Line : line[l].ordered = 0 /\ line'[l].ordered # 0 =>
                 l \in Ids(list, f)
<1>. DEFINE Row(l) ==
        IF \E n \in 1..Len(list) : f[n] = l
        THEN LET n == CHOOSE n \in 1..Len(list) : f[n] = l
             IN  [order |-> o, item |-> list[n].item,
                  ordered |-> list[n].ordered, received |-> 0]
        ELSE IF l \in gone THEN [line[l] EXCEPT !.order = NoOrder] ELSE line[l]
<1>1. line' = [l \in Line |-> Row(l)]
  BY DEF WithLines
<1>2. ASSUME NEW l \in Line
      PROVE  /\ Row(l) \in LineRow
             /\ \/ /\ line[l].ordered = 0 /\ Row(l).order = o
                   /\ Row(l).ordered > 0 /\ Row(l).received = 0
                \/ l \in gone /\ Row(l) = [line[l] EXCEPT !.order = NoOrder]
                \/ l \notin gone /\ Row(l) = line[l]
             /\ Row(l).ordered # line[l].ordered => l \in Ids(list, f)
  <2>1. line[l] \in LineRow
    BY DEF LineTypeOK
  <2>2. CASE \E n \in 1..Len(list) : f[n] = l
    <3>. DEFINE n == CHOOSE n \in 1..Len(list) : f[n] = l
    <3>1. n \in 1..Len(list) /\ f[n] = l
      BY <2>2
    <3>2. Row(l) = [order |-> o, item |-> list[n].item,
                    ordered |-> list[n].ordered, received |-> 0]
      BY <2>2
    <3>. HIDE DEF n, Row
    <3>3. list[n] \in Content /\ line[l].ordered = 0
      BY <3>1
    <3>. QED
      BY <2>2, <3>2, <3>3 DEF Content, LineRow, Ids
  <2>3. CASE ~\E n \in 1..Len(list) : f[n] = l
    BY <2>1, <2>3 DEF LineRow
  <2>. QED
    BY <2>2, <2>3
<1>. HIDE DEF Row
<1>4. \A l \in Line : Row(l) \in LineRow
  BY <1>2
<1>5. \A l \in Line : Relined(o, gone, l)
  BY <1>1, <1>2 DEF Relined
<1>. QED
  BY <1>1, <1>2, <1>4, <1>5

\* Lines are deleted only while nothing refers to them, and those created are late
\* unless the deletion left no line of their order.
LEMMA LinesStep ==
    ASSUME ReceiptsInv, ReceiptTypeOK, NEW o \in Order, NEW gone \in SUBSET LinesOf(o),
           line' \in [Line -> LineRow], \A l \in Line : Relined(o, gone, l),
           late \subseteq late', late' \subseteq Line,
           \A l \in Line : line[l].ordered = 0 /\ line'[l].ordered # 0 =>
               l \in late' \/ gone = LinesOf(o),
           LinesDeletable(gone), receipted' = receipted, receipt' = receipt,
           \A p \in Proc : decision'[p].change # "FullyReceived",
           \A q \in Order \ {o} : order'[q] = order[q],
           order'[o].status = "FullyReceived" => order[o].status = "FullyReceived",
           (\E l \in Line : line'[l].order = o) => Exists(o)'
    PROVE  ReceiptsInv'
<1>1. o # NoOrder
  BY PurchaseAssumption
<1>2. \A l \in Line : line[l] \in LineRow
  BY DEF ReceiptsInv, LineTypeOK
<1>3. LineTypeOK'
  BY DEF ReceiptsInv, LineTypeOK
<1>4. ASSUME NEW l \in Line
      PROVE  /\ line[l].ordered = 0 => line[l].order = NoOrder /\ receipted[l] = 0
             /\ l \in gone => receipted[l] = 0
             /\ line[l].received = receipted[l]
             /\ receipted[l] \in Nat
  BY <1>2, <1>4 DEF ReceiptsInv, LineTypeOK, LinesInv, ReceivedIsReceipted,
                    LinesDeletable, LineRow
<1>5. ASSUME NEW l \in Line
      PROVE  /\ line'[l].received = receipted[l]
             /\ line'[l].order # NoOrder => line'[l].ordered > 0 /\ Exists(line[l].order)'
             /\ receipted[l] > 0 => line'[l].order # NoOrder
  <2>1. CASE /\ line[l].ordered = 0 /\ line'[l].order = o
             /\ line'[l].ordered > 0 /\ line'[l].received = 0
    <3>1. Exists(line[l].order)'
      BY <2>1
    <3>. QED
      BY <1>1, <1>4, <2>1, <3>1
  <2>2. CASE l \in gone /\ line'[l] = [line[l] EXCEPT !.order = NoOrder]
    BY <1>2, <1>4, <2>2 DEF LineRow
  <2>3. CASE l \notin gone /\ line'[l] = line[l]
    <3>1. /\ line[l].order # NoOrder => line[l].ordered > 0 /\ Exists(line[l].order)
          /\ receipted[l] > 0 => line[l].order # NoOrder
      BY DEF ReceiptsInv, LinesInv
    <3>2. line[l].order # NoOrder => line[l].order \in Order
      BY <1>2 DEF LineRow
    <3>3. CASE line[l].order = o
      <4>1. Exists(line[l].order)'
        BY <2>3, <3>3
      <4>. QED
        BY <1>4, <2>3, <3>1, <4>1
    <3>4. CASE line[l].order # o
      BY <1>4, <2>3, <3>1, <3>2, <3>4 DEF Exists
    <3>. QED
      BY <3>3, <3>4
  <2>. QED
    BY <2>1, <2>2, <2>3 DEF Relined
<1>6. LinesInv'
  BY <1>5 DEF LinesInv, ReceivedIsReceipted
<1>7. ASSUME NEW l \in Line, line[l].order # NoOrder, l \notin gone
      PROVE  line'[l] = line[l]
  <2>1. line[l].ordered > 0
    BY <1>7 DEF ReceiptsInv, LinesInv
  <2>. QED
    BY <1>7, <2>1 DEF Relined
\* While some line of q is not deleted, the lines q has and has not late are old.
<1>8. ASSUME NEW q \in Order, NEW m \in LinesOf(q), m \notin gone,
             NEW l \in Line, line'[l].order = q, l \notin late'
      PROVE  line'[l] = line[l] /\ l \notin late
  <2>1. CASE /\ line[l].ordered = 0 /\ line'[l].order = o
             /\ line'[l].ordered > 0 /\ line'[l].received = 0
    <3>1. gone = LinesOf(o) /\ q = o
      BY <1>8, <2>1
    <3>. QED
      BY <1>8, <3>1
  <2>2. CASE l \in gone /\ line'[l] = [line[l] EXCEPT !.order = NoOrder]
    BY <1>2, <1>8, <2>2, PurchaseAssumption DEF LineRow
  <2>3. CASE l \notin gone /\ line'[l] = line[l]
    BY <1>8, <2>3
  <2>. QED
    BY <2>1, <2>2, <2>3 DEF Relined
<1>9. FullInv'
  <2>1. ASSUME NEW q \in Order, order'[q].status = "FullyReceived"
        PROVE  /\ \A l \in Line : line'[l].order = q /\ l \notin late' =>
                     line'[l].received >= line'[l].ordered
               /\ \E l \in Line : line'[l].order = q /\ receipted[l] > 0
    <3>1. order[q].status = "FullyReceived"
      BY <2>1
    <3>2. PICK m \in LinesOf(q) : receipted[m] > 0
      BY <3>1 DEF ReceiptsInv, FullInv
    <3>3. m \in Line /\ line[m].order = q /\ m \notin gone
      BY <1>4, <3>2 DEF LinesOf
    <3>4. line'[m] = line[m]
      BY <1>7, <3>3, PurchaseAssumption
    <3>5. ASSUME NEW l \in Line, line'[l].order = q, l \notin late'
          PROVE  line'[l].received >= line'[l].ordered
      <4>1. line'[l] = line[l] /\ l \notin late
        BY <1>8, <3>3, <3>5
      <4>2. l \in LinesOf(q) \ late
        BY <3>5, <4>1 DEF LinesOf
      <4>. QED
        BY <3>1, <4>1, <4>2 DEF ReceiptsInv, FullInv, FullyReceivedIsReceived
    <3>. QED
      BY <3>2, <3>3, <3>4, <3>5
  <2>. QED
    BY <2>1 DEF FullInv, FullyReceivedIsReceived, LinesOf
<1>10. ASSUME NEW q \in Proc, NEW r \in Receipt, r = receipt[q], r.stage # "check"
       PROVE  KeepsLines(r)
  <2>1. /\ r.stage \in {"lines", "commit"} /\ r.lines \in Seq(ReceivedLine)
        /\ r.order \in Order
    BY <1>10 DEF Receipt
  <2>2. Progress(r)
    BY <1>10, <2>1 DEF ReceiptsInv, NoReceipt
  <2>3. ASSUME NEW n \in 1..Len(r.lines)
        PROVE  /\ r.lines[n].line \in LinesOf(r.order) \ gone
               /\ line'[r.lines[n].line] = line[r.lines[n].line]
    <3>1. r.lines[n].line \in Line
      <4>1. r.lines[n] \in ReceivedLine
        BY <2>1
      <4>. QED
        BY <4>1 DEF ReceivedLine
    <3>2. line[r.lines[n].line].order = r.order
      BY <1>10, <2>2 DEF Progress
    <3>3. r.lines[n].line \in Referred(q)
      BY <1>10, <2>1, <3>1 DEF Referred
    <3>. QED
      BY <1>7, <2>1, <3>1, <3>2, <3>3, PurchaseAssumption DEF LinesDeletable, LinesOf
  <2>4. 1 \in 1..Len(r.lines)
    BY <2>1, <2>2 DEF Progress
  <2>5. ASSUME NEW l \in Covered(r)'
        PROVE  l \in Covered(r) /\ line'[l] = line[l]
    <3>1. l \in Line
      BY DEF Covered
    <3>2. CASE \E n \in 1..Len(r.lines) : r.lines[n].line = l
      BY <2>3, <3>1, <3>2 DEF Covered
    <3>3. CASE line'[l].order = r.order /\ l \notin late'
      <4>1. line'[l] = line[l] /\ l \notin late
        BY <1>8, <2>1, <2>3, <2>4, <3>1, <3>3
      <4>. QED
        BY <3>1, <3>3, <4>1 DEF Covered
    <3>. QED
      BY <3>2, <3>3 DEF Covered
  <2>6. \A l \in Covered(r) : line[l].received \in Nat
    BY <1>2 DEF Covered, LineRow
  <2>. QED
    BY <2>3, <2>5, <2>6 DEF KeepsLines
<1>11. ASSUME NEW q \in Proc, receipt'[q] # NoReceipt PROVE Progress(receipt[q])'
  BY <1>3, <1>10, <1>11, OthersProgress DEF ReceiptsInv
<1>. QED
  BY <1>3, <1>6, <1>9, <1>11 DEF ReceiptsInv

\* A change of a status, or of what is decided, keeps the lines.
LEMMA StatusStep ==
    ASSUME ReceiptsInv, ReceiptTypeOK, UNCHANGED <<line, receipted, receipt, late>>,
           \A p \in Proc : decision'[p].change # "FullyReceived",
           \A o \in Order :
              /\ order'[o].status = "FullyReceived" => order[o].status = "FullyReceived"
              /\ (\E l \in Line : line[l].order = o) => Exists(o)'
    PROVE  ReceiptsInv'
<1>1. LineTypeOK'
  BY DEF ReceiptsInv, LineTypeOK
<1>2. LinesInv'
  <2>1. ASSUME NEW l \in Line, line[l].order # NoOrder PROVE Exists(line[l].order)'
    <3>1. line[l].order \in Order
      BY <2>1 DEF ReceiptsInv, LineTypeOK, LineRow
    <3>2. PICK o \in Order : o = line[l].order
      BY <3>1
    <3>3. Exists(o)' /\ line'[l].order = o
      BY <3>2
    <3>. QED
      BY <3>3 DEF Exists
  <2>. QED
    BY <2>1 DEF ReceiptsInv, LinesInv, ReceivedIsReceipted
<1>3. FullInv'
  BY DEF ReceiptsInv, FullInv, FullyReceivedIsReceived, LinesOf
<1>4. \A r \in Receipt : KeepsLines(r)
  BY LinesGrow DEF ReceiptsInv, LineTypeOK, LineRow
<1>5. ASSUME NEW q \in Proc, receipt'[q] # NoReceipt PROVE Progress(receipt[q])'
  BY <1>1, <1>4, <1>5, OthersProgress DEF ReceiptsInv
<1>. QED
  BY <1>1, <1>2, <1>3, <1>5 DEF ReceiptsInv

\* A receipt that goes on, or ends, before its commit.
LEMMA ReceiptStep ==
    ASSUME ReceiptsInv, ReceiptTypeOK, UNCHANGED <<order, line, receipted, decision, late>>,
           NEW p \in Proc, \A q \in Proc \ {p} : receipt'[q] = receipt[q],
           receipt'[p] # NoReceipt => Progress(receipt[p])'
    PROVE  ReceiptsInv'
<1>1. LineTypeOK'
  BY DEF ReceiptsInv, LineTypeOK
<1>2. LinesInv' /\ FullInv'
  BY DEF ReceiptsInv, LinesInv, ReceivedIsReceipted, Exists, FullInv,
         FullyReceivedIsReceived, LinesOf
<1>3. \A r \in Receipt : KeepsLines(r)
  BY LinesGrow DEF ReceiptsInv, LineTypeOK, LineRow
<1>4. ASSUME NEW q \in Proc, receipt'[q] # NoReceipt PROVE Progress(receipt[q])'
  BY <1>1, <1>3, <1>4, OthersProgress DEF ReceiptsInv
<1>. QED
  BY <1>1, <1>2, <1>4 DEF ReceiptsInv

-----------------------------------------------------------------------------
(***************************************************************************)
(* Every step keeps the invariant                                          *)
(***************************************************************************)

\* The lines of a list are created with rows nobody uses.
LEMMA FreshRows ==
    ASSUME NEW list \in Seq(Content), FreshLines(list) # {}
    PROVE  LET f == CHOOSE f \in FreshLines(list) : TRUE
           IN  \A n \in 1..Len(list) : f[n] \in Line /\ line[f[n]].ordered = 0
<1>1. PICK f : f = CHOOSE g \in FreshLines(list) : TRUE
  OBVIOUS
<1>2. f \in FreshLines(list)
  BY <1>1
<1>3. DOMAIN list = 1..Len(list)
  OBVIOUS
<1>. QED
  BY <1>1, <1>2, <1>3 DEF FreshLines

\* create: the order is new, so that nothing refers to lines of it.
LEMMA CreateReceipts ==
    ASSUME ReceiptsInv, OrderTypeOK, ReceiptTypeOK,
           NEW p \in Proc, NEW o \in Order, NEW list \in LineList, create(p, o, list)
    PROVE  ReceiptsInv'
<1>1. list \in Seq(Content)
  BY PurchaseAssumption
<1>. DEFINE f == CHOOSE f \in FreshLines(list) : TRUE
<1>2. /\ order[o].status = "None" /\ line' = WithLines(o, {}, list, f)
      /\ order' = [order EXCEPT ![o] = [status |-> "Draft", archived |-> FALSE]]
      /\ UNCHANGED <<receipted, decision, receipt, late>>
      /\ FreshLines(list) # {}
  BY DEF create
<1>3. \A n \in 1..Len(list) : f[n] \in Line /\ line[f[n]].ordered = 0
  BY <1>1, <1>2, FreshRows
<1>. HIDE DEF f
<1>4. line' \in [Line -> LineRow] /\ \A l \in Line : Relined(o, {}, l)
  BY <1>1, <1>2, <1>3, WithLinesRows DEF ReceiptsInv
<1>5. LinesOf(o) = {}
  BY <1>2, PurchaseAssumption DEF ReceiptsInv, LinesInv, Exists, LinesOf
<1>6. order'[o].status = "Draft" /\ \A q \in Order \ {o} : order'[q] = order[q]
  BY <1>2 DEF OrderTypeOK
<1>7. \A q \in Proc : decision'[q].change # "FullyReceived"
  BY <1>2 DEF ReceiptsInv, FullInv
<1>8. Exists(o)' /\ LinesDeletable({})
  BY <1>6 DEF Exists, LinesDeletable
<1>9. late' = late /\ late' \subseteq Line
  BY <1>2 DEF ReceiptsInv, LineTypeOK
<1>. QED
  BY <1>2, <1>4, <1>5, <1>6, <1>7, <1>8, <1>9, LinesStep

\* The checks of a change decide on none that makes an order FullyReceived.
LEMMA DecideReceipts ==
    ASSUME ReceiptsInv, OrderTypeOK, ReceiptTypeOK,
           NEW p \in Proc, NEW o \in Order,
           \/ \E list \in LineList : updateDraft(p, o, list)
           \/ archive(p, o) \/ restore(p, o) \/ delete(p, o)
           \/ submitForApproval(p, o) \/ approve(p, o) \/ returnToDraft(p, o)
           \/ markSent(p, o) \/ cancel(p, o)
    PROVE  ReceiptsInv'
<1>1. PICK change, list : Decide(p, o, change, list) /\ change # "FullyReceived"
  BY DEF updateDraft, archive, restore, delete, submitForApproval, approve,
         returnToDraft, markSent, cancel
<1>2. /\ UNCHANGED <<order, line, receipted, receipt, late>>
      /\ decision' = [decision EXCEPT ![p] =
             [order |-> o, change |-> change, lines |-> list, found |-> {}]]
  BY <1>1 DEF Decide
<1>3. \A q \in Proc : decision'[q].change # "FullyReceived"
  BY <1>1, <1>2 DEF ReceiptsInv, FullInv, OrderTypeOK
<1>4. ASSUME NEW q \in Order, NEW l \in Line, line[l].order = q
      PROVE  Exists(q)'
  BY <1>2, <1>4, PurchaseAssumption DEF ReceiptsInv, LinesInv, Exists
<1>. QED
  BY <1>2, <1>3, <1>4, StatusStep

\* The lines updateDraft's deletion finds are no change of status.
LEMMA DeleteLinesReceipts ==
    ASSUME ReceiptsInv, OrderTypeOK, ReceiptTypeOK, NEW p \in Proc, DeleteLines(p)
    PROVE  ReceiptsInv'
<1>1. /\ UNCHANGED <<order, line, receipted, receipt, late>>
      /\ decision' = [decision EXCEPT ![p].change = "replace",
                                      ![p].found = LinesOf(decision[p].order)]
  BY DEF DeleteLines
<1>2. decision[p] \in Decision
  BY DEF DeleteLines, OrderTypeOK, NoDecision
<1>3. decision'[p].change = "replace" /\ \A q \in Proc \ {p} : decision'[q] = decision[q]
  BY <1>1, <1>2 DEF OrderTypeOK, Decision
<1>4. \A q \in Proc : decision'[q].change # "FullyReceived"
  BY <1>3 DEF ReceiptsInv, FullInv
<1>5. ASSUME NEW q \in Order, NEW l \in Line, line[l].order = q
      PROVE  Exists(q)'
  BY <1>1, <1>5, PurchaseAssumption DEF ReceiptsInv, LinesInv, Exists
<1>. QED
  BY <1>1, <1>4, <1>5, StatusStep

\* The write of a change.
LEMMA WriteReceipts ==
    ASSUME ReceiptsInv, OrderTypeOK, ReceiptTypeOK, NEW p \in Proc, WriteChange(p)
    PROVE  ReceiptsInv'
<1>1. PICK o \in Order, list \in Seq(Content), change \in Change, found \in SUBSET Line :
          decision[p] = [order |-> o, change |-> change, lines |-> list, found |-> found]
  BY DEF WriteChange, OrderTypeOK, Decision
<1>2. /\ receipted' = receipted /\ receipt' = receipt /\ Exists(o)
      /\ decision' = [decision EXCEPT ![p] = NoDecision]
  BY <1>1 DEF WriteChange
<1>3. /\ change # "FullyReceived"
      /\ \A q \in Proc : decision'[q].change # "FullyReceived"
  BY <1>1, <1>2 DEF ReceiptsInv, FullInv, OrderTypeOK, NoDecision
<1>4. \A q \in Order, l \in Line : line[l].order = q => Exists(q)
  BY PurchaseAssumption DEF ReceiptsInv, LinesInv
<1>l. late \subseteq Line
  BY DEF ReceiptsInv, LineTypeOK
<1>5. ASSUME NEW gone, gone = LinesOf(o) \cap found,
             NEW f, f = CHOOSE g \in FreshLines(list) : TRUE,
             LinesDeletable(gone), FreshLines(list) # {},
             line' = WithLines(o, gone, list, f),
             late' = (IF gone = LinesOf(o) THEN late ELSE late \cup Range(f)),
             order' = order
      PROVE  ReceiptsInv'
  <2>1. \A n \in 1..Len(list) : f[n] \in Line /\ line[f[n]].ordered = 0
    BY <1>5, FreshRows
  <2>2. /\ line' \in [Line -> LineRow] /\ \A l \in Line : Relined(o, gone, l)
        /\ \A l \in Line : line[l].ordered = 0 /\ line'[l].ordered # 0 =>
               l \in Ids(list, f)
    <3>1. line' = WithLines(o, gone, list, f)
      BY <1>5
    <3>2. LineTypeOK
      BY DEF ReceiptsInv
    <3>. QED
      BY <1>1, <2>1, <3>1, <3>2, WithLinesRows
  <2>3. Range(f) = Ids(list, f)
    <3>1. f \in FreshLines(list) /\ DOMAIN list = 1..Len(list)
      BY <1>5
    <3>2. DOMAIN f = 1..Len(list)
      BY <3>1 DEF FreshLines
    <3>. QED
      BY <3>2 DEF Range, Ids
  <2>4. /\ late \subseteq late' /\ late' \subseteq Line
        /\ \A l \in Line : line[l].ordered = 0 /\ line'[l].ordered # 0 =>
               l \in late' \/ gone = LinesOf(o)
    <3>1. \/ late' = late /\ gone = LinesOf(o)
          \/ late' = late \cup Range(f)
      BY <1>5
    <3>2. Range(f) \subseteq Line
      BY <2>1, <2>3 DEF Ids
    <3>. QED
      BY <1>l, <2>2, <2>3, <3>1, <3>2
  <2>5. Exists(o)' /\ gone \in SUBSET LinesOf(o)
    BY <1>2, <1>5 DEF Exists
  <2>. QED
    BY <1>2, <1>3, <1>5, <2>2, <2>4, <2>5, LinesStep
<1>6. CASE /\ LinesDeletable(LinesOf(o)) /\ line' = WithLines(o, LinesOf(o), <<>>, <<>>)
           /\ order' = [order EXCEPT ![o].status = "Deleted"] /\ late' = late
  <2>1. PICK none \in Seq(Content) : none = <<>>
    <3>1. <<>> \in Seq(Content)
      OBVIOUS
    <3>. QED
      BY <3>1
  <2>2. line' = WithLines(o, LinesOf(o), none, none)
    BY <1>6, <2>1
  <2>3. \A n \in 1..Len(none) : none[n] \in Line /\ line[none[n]].ordered = 0
    <3>1. Len(none) = 0
      BY <2>1
    <3>. QED
      BY <3>1
  <2>4. line' \in [Line -> LineRow] /\ \A l \in Line : Relined(o, LinesOf(o), l)
    BY <1>1, <2>1, <2>2, <2>3, WithLinesRows DEF ReceiptsInv
  <2>5. \A l \in Line : line'[l].order # o
    <3>1. line' = [l \in Line |-> IF l \in LinesOf(o)
                                  THEN [line[l] EXCEPT !.order = NoOrder] ELSE line[l]]
      BY <1>6 DEF WithLines
    <3>2. \A l \in Line : line[l] \in LineRow
      BY DEF ReceiptsInv, LineTypeOK
    <3>. QED
      BY <1>1, <3>1, <3>2, PurchaseAssumption DEF LineRow, LinesOf
  <2>6. order'[o].status = "Deleted" /\ \A q \in Order \ {o} : order'[q] = order[q]
    BY <1>6 DEF OrderTypeOK, OrderRow
  <2>7. late' \subseteq Line /\ LinesOf(o) \in SUBSET LinesOf(o)
    BY <1>6, <1>l
  <2>. QED
    BY <1>1, <1>2, <1>3, <1>6, <2>4, <2>5, <2>6, <2>7, LinesStep
<1>7. CASE /\ \/ order' = [order EXCEPT ![o].archived = (change = "archive")]
              \/ change \in OrderStatus /\ order' = [order EXCEPT ![o].status = change]
           /\ UNCHANGED <<line, late>>
  <2>1. ASSUME NEW q \in Order
        PROVE  /\ order'[q].status = "FullyReceived" => order[q].status = "FullyReceived"
               /\ Exists(q) => Exists(q)'
    <3>1. order[q] \in OrderRow
      BY DEF OrderTypeOK
    <3>2. /\ order'[q].status \in {order[q].status, change}
          /\ order'[q].status = change => change \in OrderStatus \/ order[q].status = change
      BY <1>1, <1>7, <3>1 DEF OrderTypeOK, OrderRow
    <3>. QED
      BY <1>3, <3>2 DEF Exists, OrderStatus
  <2>. QED
    BY <1>2, <1>3, <1>4, <1>7, <2>1, StatusStep
<1>8. CASE ReplaceLines(p)
  <2>1. PICK gone : gone = LinesOf(o) \cap found
    OBVIOUS
  <2>2. PICK f : f = CHOOSE g \in FreshLines(list) : TRUE
    OBVIOUS
  <2>3. /\ LinesDeletable(gone) /\ FreshLines(list) # {}
        /\ line' = WithLines(o, gone, list, f)
        /\ late' = (IF gone = LinesOf(o) THEN late ELSE late \cup Range(f))
        /\ order' = order
    BY <1>1, <1>8, <2>1, <2>2 DEF ReplaceLines
  <2>. QED
    BY <1>5, <2>1, <2>2, <2>3
<1>. QED
  BY <1>1, <1>6, <1>7, <1>8 DEF WriteChange

\* A new receipt has added nothing.
LEMMA NewReceipt ==
    ASSUME ReceiptsInv, OrderTypeOK, ReceiptTypeOK, NEW p \in Proc, NEW o \in Order,
           NEW location \in Location, NEW lines \in ReceiptLines,
           createGoodsReceipt(p, o, location, lines)
    PROVE  ReceiptsInv'
<1>. DEFINE r == [stage |-> "check", order |-> o, location |-> location,
                  seen |-> order[o].status, lines |-> lines, todo |-> lines,
                  added |-> [l \in Line |-> 0], next |-> order[o].status]
<1>1. lines \in Seq(ReceivedLine) /\ lines # <<>>
  BY PurchaseAssumption
<1>2. /\ receipt' = [receipt EXCEPT ![p] = r]
      /\ UNCHANGED <<order, line, receipted, decision, late>>
  BY DEF createGoodsReceipt
<1>3. receipt'[p] = r /\ \A q \in Proc \ {p} : receipt'[q] = receipt[q]
  BY <1>2 DEF ReceiptTypeOK
<1>4. Progress(receipt[p])'
  <2>1. /\ r.lines = lines /\ r.todo = lines /\ r.stage = "check"
        /\ \A l \in Line : r.added[l] = 0
    OBVIOUS
  <2>. HIDE DEF r
  <2>2. Done(r) = 0 /\ \A n \in 1..Len(r.todo) : r.todo[n] = r.lines[Done(r) + n]
    BY <1>1, <2>1 DEF Done
  <2>3. \A l \in Line : r.added[l] = UnitsReceived(r.lines, Done(r), l)
    BY <2>1, <2>2, UnitsOfNone
  <2>. QED
    BY <1>1, <1>3, <2>1, <2>2, <2>3 DEF Progress, Done
<1>. QED
  BY <1>2, <1>3, <1>4, ReceiptStep

\* The check looks at every line of the request.
LEMMA CheckReceipts ==
    ASSUME ReceiptsInv, ReceiptTypeOK, NEW p \in Proc, CheckAndInsert(p)
    PROVE  ReceiptsInv'
<1>1. receipt[p] \in Receipt /\ Progress(receipt[p])
  BY DEF CheckAndInsert, ReceiptsInv, ReceiptTypeOK, NoReceipt
<1>2. PICK r \in Receipt : r = receipt[p]
  BY <1>1
<1>. DEFINE s == [r EXCEPT !.stage = "lines"]
<1>3. /\ receipt'[p] = s
      /\ \A q \in Proc \ {p} : receipt'[q] = receipt[q]
      /\ UNCHANGED <<order, line, receipted, decision, late>>
  BY <1>2 DEF CheckAndInsert, ReceiptTypeOK
<1>4. /\ s.stage = "lines" /\ s.order = r.order /\ s.lines = r.lines
      /\ s.todo = r.todo /\ s.added = r.added
  BY DEF Receipt
<1>. HIDE DEF s
<1>5. \A n \in 1..Len(r.lines) : line[r.lines[n].line].order = r.order
  <2>1. DOMAIN r.lines = 1..Len(r.lines)
    BY DEF Receipt
  <2>. QED
    BY <1>2, <2>1 DEF CheckAndInsert
<1>6. Progress(receipt[p])'
  BY <1>1, <1>2, <1>3, <1>4, <1>5 DEF Progress, Done
<1>. QED
  BY <1>3, <1>6, ReceiptStep

\* An increment adds the units of the next line of the request, also when the
\* request names that line before.
LEMMA IncrementReceipts ==
    ASSUME ReceiptsInv, ReceiptTypeOK, NEW p \in Proc, IncrementLine(p)
    PROVE  ReceiptsInv'
<1>1. receipt[p] \in Receipt /\ Progress(receipt[p])
  <2>1. receipt[p] # NoReceipt
    BY DEF IncrementLine, NoReceipt
  <2>. QED
    BY <2>1 DEF ReceiptsInv, ReceiptTypeOK
<1>2. PICK r \in Receipt : r = receipt[p]
  BY <1>1
<1>3. /\ r.lines \in Seq(ReceivedLine) /\ r.todo \in Seq(ReceivedLine)
      /\ r.todo # <<>> /\ r.added \in [Line -> Nat] /\ r.stage = "lines"
  BY <1>2 DEF IncrementLine, Receipt
<1>4. PICK d \in ReceivedLine : d = Head(r.todo)
  BY <1>3
<1>5. /\ Len(r.lines) \in Nat /\ Len(r.todo) \in Nat \ {0}
      /\ Len(r.todo) <= Len(r.lines)
      /\ Len(Tail(r.todo)) = Len(r.todo) - 1
  <2>1. Len(r.todo) <= Len(r.lines)
    BY <1>1, <1>2 DEF Progress
  <2>. QED
    BY <1>3, <2>1
<1>6. PICK n \in 0..(Len(r.lines) - 1) : n = Done(r) /\ Len(r.todo) = Len(r.lines) - n
  <2>. DEFINE all == Len(r.lines)
              left == Len(r.todo)
  <2>1. all \in Nat /\ left \in Nat \ {0} /\ left <= all /\ Done(r) = all - left
    BY <1>5 DEF Done
  <2>. HIDE DEF all, left
  <2>2. Done(r) \in 0..(all - 1) /\ left = all - Done(r)
    BY <2>1
  <2>. QED
    BY <2>2 DEF all, left
<1>7. d = r.lines[n + 1]
  <2>1. 1 \in 1..Len(r.todo) /\ d = r.todo[1]
    BY <1>3, <1>4, <1>5
  <2>. QED
    BY <1>1, <1>2, <1>6, <2>1 DEF Progress
<1>. DEFINE s == [r EXCEPT !.added = [r.added EXCEPT ![d.line] = r.added[d.line] + received(d)],
                           !.todo = Tail(r.todo)]
<1>8. /\ receipt'[p] = s
      /\ \A q \in Proc \ {p} : receipt'[q] = receipt[q]
      /\ UNCHANGED <<order, line, receipted, decision, late>>
  <2>1. receipt' = [receipt EXCEPT ![p].added[d.line] = r.added[d.line] + received(d),
                                   ![p].todo = Tail(@)]
    BY <1>2, <1>4 DEF IncrementLine, Added
  <2>. QED
    BY <1>2, <2>1 DEF ReceiptTypeOK, IncrementLine
<1>9. /\ s.stage = "lines" /\ s.order = r.order /\ s.lines = r.lines
      /\ s.todo = Tail(r.todo)
      /\ s.added = [r.added EXCEPT ![d.line] = r.added[d.line] + received(d)]
  BY <1>3 DEF Receipt
<1>. HIDE DEF s
<1>10. Len(s.todo) = Len(r.todo) - 1 /\ Done(s) = n + 1
  <2>1. Len(s.todo) = Len(r.todo) - 1 /\ Len(s.lines) = Len(r.lines)
    BY <1>5, <1>9
  <2>. DEFINE all == Len(r.lines)
              left == Len(r.todo)
  <2>2. all \in Nat /\ left \in Nat \ {0} /\ left = all - n /\ n \in Nat
    BY <1>5, <1>6
  <2>3. Done(s) = all - (left - 1)
    BY <2>1 DEF Done
  <2>. HIDE DEF all, left
  <2>4. Done(s) = n + 1
    BY <2>2, <2>3
  <2>. QED
    BY <2>1, <2>4
<1>11. ASSUME NEW i \in 1..Len(s.todo) PROVE s.todo[i] = s.lines[Done(s) + i]
  <2>1. s.todo[i] = r.todo[i + 1] /\ i + 1 \in 1..Len(r.todo)
    BY <1>3, <1>9, <1>10
  <2>2. r.todo[i + 1] = r.lines[n + (i + 1)]
    BY <1>1, <1>2, <1>6, <2>1 DEF Progress
  <2>3. n + (i + 1) = Done(s) + i
    BY <1>10
  <2>. QED
    BY <1>9, <2>1, <2>2, <2>3
<1>12. ASSUME NEW l \in Line PROVE s.added[l] = UnitsReceived(s.lines, Done(s), l)
  <2>1. r.added[l] = UnitsReceived(r.lines, n, l)
    BY <1>1, <1>2, <1>6 DEF Progress
  <2>2. UnitsReceived(r.lines, n + 1, l) =
            UnitsReceived(r.lines, n, l) + IF d.line = l THEN received(d) ELSE 0
    BY <1>3, <1>6, <1>7, UnitsOfNext
  <2>3. s.added[l] = r.added[l] + IF d.line = l THEN received(d) ELSE 0
    BY <1>3, <1>9
  <2>. QED
    BY <1>9, <1>10, <2>1, <2>2, <2>3
<1>13. /\ s.lines # <<>> /\ Len(s.todo) <= Len(s.lines)
       /\ \A i \in 1..Len(s.lines) : line[s.lines[i].line].order = s.order
  <2>1. /\ r.lines # <<>>
        /\ \A i \in 1..Len(r.lines) : line[r.lines[i].line].order = r.order
    BY <1>1, <1>2, <1>3 DEF Progress
  <2>. QED
    BY <1>5, <1>6, <1>9, <1>10, <2>1
<1>14. Progress(receipt[p])'
  BY <1>8, <1>9, <1>11, <1>12, <1>13 DEF Progress, Done
<1>. QED
  BY <1>8, <1>14, ReceiptStep

\* The status is computed from all lines of the order.
LEMMA RefreshReceipts ==
    ASSUME ReceiptsInv, ReceiptTypeOK, NEW p \in Proc, RefreshLines(p)
    PROVE  ReceiptsInv'
<1>1. receipt[p] \in Receipt /\ Progress(receipt[p])
  BY DEF RefreshLines, ReceiptsInv, ReceiptTypeOK, NoReceipt
<1>2. PICK r, next : r \in Receipt /\ r = receipt[p] /\ next = nextStatus(p)
  BY <1>1
<1>. DEFINE s == [r EXCEPT !.stage = "commit", !.next = next]
<1>3. /\ receipt'[p] = s
      /\ \A q \in Proc \ {p} : receipt'[q] = receipt[q]
      /\ UNCHANGED <<order, line, receipted, decision, late>>
      /\ r.todo = <<>> /\ r.stage = "lines"
  BY <1>2 DEF RefreshLines, ReceiptTypeOK
<1>4. /\ s.stage = "commit" /\ s.order = r.order /\ s.lines = r.lines
      /\ s.todo = r.todo /\ s.added = r.added /\ s.next = next
  BY <1>2 DEF Receipt
<1>. HIDE DEF s
<1>5. ASSUME next = "FullyReceived", NEW l \in Covered(r)
      PROVE  line[l].received + r.added[l] >= line[l].ordered
  <2>1. r.seen # "FullyReceived"
    BY <1>2 DEF Receipt
  <2>2. \A k \in CountedLines(p) : line[k].received + r.added[k] >= line[k].ordered
    BY <1>2, <1>5, <2>1 DEF nextStatus
  <2>3. l \in LinesOf(r.order)
    BY <1>1, <1>2, <1>3 DEF Covered, LinesOf, Progress
  <2>. QED
    BY <1>2, <2>2, <2>3 DEF CountedLines
<1>6. Progress(receipt[p])'
  <2>1. Covered(s)' = Covered(r)
    BY <1>3, <1>4 DEF Covered
  <2>. QED
    BY <1>1, <1>2, <1>3, <1>4, <1>5, <2>1 DEF Progress, Done
<1>. QED
  BY <1>3, <1>6, ReceiptStep

\* The commit adds to the lines what is receipted, and writes the status the
\* lines, which only grew since, still justify.
LEMMA CommitReceipts ==
    ASSUME ReceiptsInv, OrderTypeOK, ReceiptTypeOK, NEW p \in Proc, ReceiptCommit(p)
    PROVE  ReceiptsInv'
<1>1. receipt[p] \in Receipt /\ Progress(receipt[p]) /\ receipt[p].stage = "commit"
  BY DEF ReceiptCommit, ReceiptsInv, ReceiptTypeOK, NoReceipt
<1>2. PICK r \in Receipt : r = receipt[p]
  BY <1>1
<1>3. /\ r.lines \in Seq(ReceivedLine) /\ r.lines # <<>> /\ r.added \in [Line -> Nat]
      /\ r.order \in Order /\ r.next \in OrderStatus /\ r.seen # "FullyReceived"
      /\ r.stage = "commit"
  BY <1>1, <1>2 DEF Receipt, Progress
<1>4. /\ order' = order \/ order' = [order EXCEPT ![r.order].status = r.next]
      /\ line' = [l \in Line |-> [line[l] EXCEPT !.received = line[l].received + r.added[l]]]
      /\ receipted' = [l \in Line |->
             receipted[l] + UnitsReceived(r.lines, Len(r.lines), l)]
      /\ receipt' = [receipt EXCEPT ![p] = NoReceipt]
      /\ decision' = decision /\ late' = late
  BY <1>2 DEF ReceiptCommit
<1>5. ASSUME NEW l \in Line
      PROVE  /\ line[l] \in LineRow /\ line[l].received = receipted[l]
             /\ receipted[l] \in Nat /\ r.added[l] \in Nat
             /\ line'[l].order = line[l].order /\ line'[l].item = line[l].item
             /\ line'[l].ordered = line[l].ordered
             /\ line'[l].received = line[l].received + r.added[l]
             /\ line'[l] \in LineRow
             /\ receipted'[l] = receipted[l] + r.added[l]
             /\ r.added[l] = UnitsReceived(r.lines, Len(r.lines), l)
  <2>1. line[l] \in LineRow /\ line[l].received = receipted[l] /\ receipted[l] \in Nat
    BY DEF ReceiptsInv, LineTypeOK, LinesInv, ReceivedIsReceipted
  <2>2. line'[l] = [line[l] EXCEPT !.received = line[l].received + r.added[l]]
    BY <1>4
  <2>3. r.added[l] \in Nat
    BY <1>3
  <2>4. /\ receipted'[l] = receipted[l] + r.added[l]
        /\ r.added[l] = UnitsReceived(r.lines, Len(r.lines), l)
    <3>1. r.todo = <<>>
      BY <1>1, <1>2 DEF Progress
    <3>2. Done(r) = Len(r.lines)
      BY <1>3, <3>1 DEF Done
    <3>3. r.added[l] = UnitsReceived(r.lines, Len(r.lines), l)
      BY <1>1, <1>2, <3>2 DEF Progress
    <3>. QED
      BY <1>4, <3>3
  <2>. QED
    BY <2>1, <2>2, <2>3, <2>4 DEF LineRow
<1>6. LineTypeOK'
  <2>1. /\ line' = [l \in Line |-> line'[l]]
        /\ receipted' = [l \in Line |-> receipted'[l]]
    BY <1>4
  <2>2. late' \subseteq Line
    BY <1>4 DEF ReceiptsInv, LineTypeOK
  <2>3. line' \in [Line -> LineRow]
    BY <1>5, <2>1
  <2>4. receipted' \in [Line -> Nat]
    BY <1>5, <2>1
  <2>. QED
    BY <2>2, <2>3, <2>4 DEF LineTypeOK
<1>7. \A s \in Receipt : KeepsLines(s)
  <2>1. \A l \in Line : line'[l].received >= line[l].received
    BY <1>5
  <2>. QED
    BY <1>4, <1>5, <2>1, LinesGrow DEF ReceiptsInv
<1>8. PICK k \in Line : line[k].order = r.order /\ \E n \in 1..Len(r.lines) : r.lines[n].line = k
  <2>1. 1 \in 1..Len(r.lines) /\ r.lines[1] \in ReceivedLine
    BY <1>3
  <2>2. line[r.lines[1].line].order = r.order
    BY <1>1, <1>2, <1>3, <2>1 DEF Progress
  <2>. QED
    BY <2>1, <2>2 DEF ReceivedLine
<1>9. ASSUME NEW o \in Order
      PROVE  /\ Exists(o) => Exists(o)'
             /\ \/ order'[o].status = order[o].status
                \/ o = r.order /\ order'[o].status = r.next
  <2>1. order[o] \in OrderRow
    BY DEF OrderTypeOK
  <2>2. \/ order'[o].status = order[o].status
        \/ o = r.order /\ order'[o].status = r.next
    BY <1>4, <2>1 DEF OrderTypeOK, OrderRow
  <2>. QED
    BY <1>3, <2>2 DEF Exists, OrderStatus
<1>10. LinesInv'
  <2>1. ASSUME NEW l \in Line
        PROVE  /\ line'[l].received = receipted'[l]
               /\ line'[l].order # NoOrder => line'[l].ordered > 0
               /\ receipted'[l] > 0 => line'[l].order # NoOrder
    <3>1. /\ line[l].order # NoOrder => line[l].ordered > 0
          /\ receipted[l] > 0 => line[l].order # NoOrder
      BY DEF ReceiptsInv, LinesInv
    <3>2. r.added[l] > 0 => line[l].order # NoOrder
      <4>1. ASSUME r.added[l] > 0
            PROVE  \E n \in 1..Len(r.lines) : r.lines[n].line = l
        <5>1. UnitsReceived(r.lines, Len(r.lines), l) # 0
          BY <1>5, <4>1
        <5>. QED
          BY <5>1, FS_EmptySet DEF UnitsReceived
      <4>. QED
        BY <1>1, <1>2, <1>3, <4>1, PurchaseAssumption DEF Progress
    <3>. QED
      BY <1>5, <3>1, <3>2
  <2>2. ASSUME NEW l \in Line, line[l].order # NoOrder PROVE Exists(line[l].order)'
    <3>1. PICK o \in Order : o = line[l].order
      BY <1>5, <2>2 DEF LineRow
    <3>2. Exists(o)'
      BY <1>9, <2>2, <3>1 DEF ReceiptsInv, LinesInv
    <3>3. line'[l].order = o
      BY <1>5, <3>1
    <3>. QED
      BY <3>2, <3>3
  <2>. QED
    BY <1>5, <2>1, <2>2 DEF LinesInv, ReceivedIsReceipted
<1>11. FullInv'
  <2>1. ASSUME NEW o \in Order, order'[o].status = "FullyReceived"
        PROVE  /\ \A l \in Line : line[l].order = o /\ l \notin late =>
                     line[l].received + r.added[l] >= line[l].ordered
               /\ \E l \in Line : line[l].order = o /\ receipted'[l] > 0
    <3>1. CASE order[o].status = "FullyReceived"
      <4>1. \A l \in Line : line[l].order = o /\ l \notin late =>
                line[l].received >= line[l].ordered
        BY <3>1 DEF ReceiptsInv, FullInv, FullyReceivedIsReceived, LinesOf
      <4>2. \E l \in Line : line[l].order = o /\ receipted[l] > 0
        BY <3>1 DEF ReceiptsInv, FullInv, LinesOf
      <4>3. \A l \in Line : /\ line[l].received \in Nat /\ line[l].ordered \in Nat
                            /\ r.added[l] \in Nat /\ receipted[l] \in Nat
                            /\ receipted'[l] = receipted[l] + r.added[l]
        BY <1>5 DEF LineRow
      <4>. QED
        BY <4>1, <4>2, <4>3
    <3>2. CASE o = r.order /\ r.next = "FullyReceived"
      <4>1. \A l \in Covered(r) : line[l].received + r.added[l] >= line[l].ordered
        BY <1>1, <1>2, <3>2 DEF Progress
      <4>2. k \in Covered(r) /\ line[k].ordered > 0
        BY <1>3, <1>8, PurchaseAssumption DEF Covered, ReceiptsInv, LinesInv
      <4>3. receipted'[k] > 0
        BY <1>5, <4>1, <4>2 DEF LineRow
      <4>. QED
        BY <1>8, <3>2, <4>1, <4>3 DEF Covered
    <3>. QED
      BY <1>9, <2>1, <3>1, <3>2
  <2>2. ASSUME NEW o \in Order, order'[o].status = "FullyReceived"
        PROVE  /\ \A l \in LinesOf(o)' \ late' : line'[l].received >= line'[l].ordered
               /\ \E l \in LinesOf(o)' : receipted'[l] > 0
    <3>1. LinesOf(o)' = LinesOf(o) /\ late' = late
      BY <1>4, <1>5 DEF LinesOf
    <3>2. ASSUME NEW l \in LinesOf(o) \ late PROVE line'[l].received >= line'[l].ordered
      BY <1>5, <2>1, <2>2, <3>2 DEF LinesOf
    <3>3. \E l \in LinesOf(o) : receipted'[l] > 0
      BY <2>1, <2>2 DEF LinesOf
    <3>. QED
      BY <3>1, <3>2, <3>3
  <2>. QED
    BY <1>4, <2>2 DEF ReceiptsInv, FullInv, FullyReceivedIsReceived
<1>12. ASSUME NEW q \in Proc, receipt'[q] # NoReceipt PROVE Progress(receipt[q])'
  <2>1. receipt'[q] = receipt[q]
    BY <1>4, <1>12 DEF ReceiptTypeOK
  <2>. QED
    BY <1>6, <1>7, <1>12, <2>1, OthersProgress DEF ReceiptsInv
<1>. QED
  BY <1>6, <1>10, <1>11, <1>12 DEF ReceiptsInv

\* The rollback of a receipt leaves nothing.
LEMMA AbortReceipts ==
    ASSUME ReceiptsInv, ReceiptTypeOK, NEW p \in Proc, ReceiptAbort(p)
    PROVE  ReceiptsInv'
<1>1. /\ receipt'[p] = NoReceipt
      /\ \A q \in Proc \ {p} : receipt'[q] = receipt[q]
      /\ UNCHANGED <<order, line, receipted, decision, late>>
  BY DEF ReceiptAbort, ReceiptTypeOK
<1>. QED
  BY <1>1, ReceiptStep

\* Nothing that orders, their lines or receipts consist of changes.
LEMMA NoOrderStep ==
    ASSUME ReceiptsInv, ReceiptTypeOK, UNCHANGED <<order, line, receipted, receipt, late>>,
           \A p \in Proc : decision'[p].change # "FullyReceived"
    PROVE  ReceiptsInv'
<1>1. ASSUME NEW o \in Order, NEW l \in Line, line[l].order = o PROVE Exists(o)'
  BY <1>1, PurchaseAssumption DEF ReceiptsInv, LinesInv, Exists
<1>. QED
  BY <1>1, StatusStep

LEMMA ReceiptsNext ==
    ReceiptsInv /\ OrderTypeOK /\ ReceiptTypeOK /\ [PurchaseNext]_allVars => ReceiptsInv'
<1>1. SUFFICES ASSUME ReceiptsInv, OrderTypeOK, ReceiptTypeOK, [PurchaseNext]_allVars
               PROVE  ReceiptsInv'
  OBVIOUS
<1>2. ASSUME UNCHANGED orderVars PROVE ReceiptsInv'
  BY <1>1, <1>2, NoOrderStep DEF orderVars, ReceiptsInv, FullInv
<1>3. ASSUME NEW p \in Proc, OrderRequest(p) PROVE ReceiptsInv'
  BY <1>1, <1>3, CreateReceipts, DecideReceipts, NewReceipt DEF OrderRequest
<1>4. ASSUME NEW p \in Proc, DropChange(p) PROVE ReceiptsInv'
  <2>1. \A q \in Proc : decision'[q].change # "FullyReceived"
    BY <1>1, <1>4 DEF DropChange, OrderTypeOK, NoDecision, ReceiptsInv, FullInv
  <2>. QED
    BY <1>1, <1>4, <2>1, NoOrderStep DEF DropChange
<1>5. ASSUME NEW p \in Proc, OrderStep(p) PROVE ReceiptsInv'
  BY <1>1, <1>4, <1>5, DeleteLinesReceipts, WriteReceipts, CheckReceipts, IncrementReceipts,
     RefreshReceipts, CommitReceipts, AbortReceipts DEF OrderStep
<1>6. ASSUME NEW p \in Proc, StockOperation(p) PROVE ReceiptsInv'
  BY <1>2, <1>6 DEF StockOperation
<1>7. CASE UNCHANGED allVars
  BY <1>2, <1>7 DEF allVars
<1>. QED
  BY <1>1, <1>3, <1>5, <1>6, <1>7 DEF PurchaseNext

LEMMA ReceiptsInvariant == PurchaseSpec => [](PurchaseInv /\ ReceiptsInv)
<1>1. PurchaseInit => ReceiptsInv
  <2>1. SUFFICES ASSUME PurchaseInit PROVE ReceiptsInv
    OBVIOUS
  <2>2. /\ \A l \in Line : /\ line[l].order = NoOrder /\ line[l].received = 0
                           /\ receipted[l] = 0
        /\ \A o \in Order : order[o].status = "None"
        /\ \A p \in Proc : /\ decision[p].change = "none"
                           /\ receipt[p] = NoReceipt
    BY <2>1 DEF PurchaseInit, NoDecision
  <2>3. LineTypeOK
    BY <2>1 DEF PurchaseInit, LineTypeOK, LineRow
  <2>. QED
    BY <2>2, <2>3 DEF ReceiptsInv, LinesInv, ReceivedIsReceipted, FullInv,
                      FullyReceivedIsReceived
<1>2. PurchaseInv /\ ReceiptsInv /\ [PurchaseNext]_allVars => ReceiptsInv'
  BY ReceiptsNext DEF PurchaseInv
<1>. QED
  BY <1>1, <1>2, PurchaseInvariant, PTL DEF PurchaseSpec

-----------------------------------------------------------------------------
(***************************************************************************)
(* Receipts and orders agree                                               *)
(***************************************************************************)

\* Orders, lines, checked changes and receipts in progress are of their types,
\* whatever handlers and stock operations do at once.
THEOREM PurchaseTypeCorrect == PurchaseSpec => []PurchaseTypeOK
<1>1. PurchaseInv /\ ReceiptsInv => PurchaseTypeOK
  BY DEF PurchaseInv, StockInv, OrderTypeOK, ReceiptTypeOK, ReceiptsInv, LineTypeOK,
         PurchaseTypeOK
<1>. QED
  BY <1>1, ReceiptsInvariant, PTL

\* quantityReceived of a line is what its goods receipt lines sum to, however
\* often a request names it and whatever receipts are in progress.
THEOREM ReceiptsAddUp == PurchaseSpec => []ReceivedIsReceipted
<1>1. ReceiptsInv => ReceivedIsReceipted
  BY DEF ReceiptsInv, LinesInv
<1>. QED
  BY <1>1, ReceiptsInvariant, PTL

\* createGoodsReceipt makes an order FullyReceived only when all its lines are, and
\* a draft edited late opens it again only beside lines its deletion missed.
THEOREM FullyReceivedIsTrue == PurchaseSpec => []FullyReceivedIsReceived
<1>1. ReceiptsInv => FullyReceivedIsReceived
  BY DEF ReceiptsInv, FullInv
<1>. QED
  BY <1>1, ReceiptsInvariant, PTL

\* Neither an edit nor a delete of the order that was checked before goods came
\* takes away, or changes the quantity of, a line they were received for.
THEOREM ReceivedLinesStay == PurchaseSpec => ReceiptsKeepTheirOrder
<1>1. PurchaseInv /\ ReceiptsInv /\ [PurchaseNext]_allVars =>
          \A l \in Line : receipted[l] > 0 =>
              /\ line'[l] = [line[l] EXCEPT !.received = line'[l].received]
              /\ order'[line[l].order].status # "Deleted"
  <2>1. SUFFICES ASSUME PurchaseInv, ReceiptsInv, [PurchaseNext]_allVars,
                        NEW l \in Line, receipted[l] > 0
                 PROVE  /\ line'[l] = [line[l] EXCEPT !.received = line'[l].received]
                        /\ order'[line[l].order].status # "Deleted"
    OBVIOUS
  <2>2. PICK o \in Order : o = line[l].order
    BY <2>1 DEF ReceiptsInv, LinesInv, LineTypeOK, LineRow
  <2>3. /\ line[l] \in LineRow /\ line[l].ordered > 0 /\ Exists(o)
        /\ order[o] \in OrderRow /\ o # NoOrder
    BY <2>1, <2>2, PurchaseAssumption
    DEF ReceiptsInv, LinesInv, LineTypeOK, PurchaseInv, OrderTypeOK
  <2>4. ASSUME UNCHANGED <<order, line>>
        PROVE  /\ line'[l] = [line[l] EXCEPT !.received = line'[l].received]
               /\ order'[o].status # "Deleted"
    BY <2>3, <2>4 DEF LineRow, Exists
  <2>5. ASSUME NEW q \in Order, NEW gone, NEW list \in Seq(Content), FreshLines(list) # {},
               LinesDeletable(gone),
               line' = WithLines(q, gone, list, CHOOSE f \in FreshLines(list) : TRUE)
        PROVE  line'[l] = line[l]
    <3>1. PICK f : f = CHOOSE g \in FreshLines(list) : TRUE
      OBVIOUS
    <3>2. \A n \in 1..Len(list) : f[n] \in Line /\ line[f[n]].ordered = 0
      BY <2>5, <3>1, FreshRows
    <3>3. Relined(q, gone, l)
      BY <2>1, <2>5, <3>1, <3>2, WithLinesRows DEF ReceiptsInv
    <3>4. l \notin gone
      BY <2>1, <2>5 DEF LinesDeletable
    <3>5. line[l].ordered # 0
      BY <2>3
    <3>. QED
      BY <3>3, <3>4, <3>5 DEF Relined
  <2>6. ASSUME NEW p \in Proc, NEW q \in Order, NEW list \in LineList, create(p, q, list)
        PROVE  /\ line'[l] = [line[l] EXCEPT !.received = line'[l].received]
               /\ order'[o].status # "Deleted"
    <3>1. \A k \in Line : line[k].order # q
      BY <2>1, <2>6, PurchaseAssumption DEF create, ReceiptsInv, LinesInv, Exists
    <3>2. list \in Seq(Content) /\ LinesDeletable({})
      BY PurchaseAssumption DEF LinesDeletable
    <3>3. line'[l] = line[l]
      BY <2>5, <2>6, <3>2 DEF create
    <3>4. order'[o] = order[o]
      BY <2>1, <2>2, <2>6, <3>1 DEF create, PurchaseInv, OrderTypeOK
    <3>. QED
      BY <2>3, <3>3, <3>4 DEF LineRow, Exists
  <2>7. ASSUME NEW p \in Proc, WriteChange(p)
        PROVE  /\ line'[l] = [line[l] EXCEPT !.received = line'[l].received]
               /\ order'[o].status # "Deleted"
    <3>1. PICK q \in Order, list \in Seq(Content), change \in Change, found \in SUBSET Line :
              decision[p] =
                  [order |-> q, change |-> change, lines |-> list, found |-> found]
      BY <2>1, <2>7 DEF WriteChange, PurchaseInv, OrderTypeOK, Decision
    <3>2. ASSUME NEW gone, LinesDeletable(gone), FreshLines(list) # {},
                 line' = WithLines(q, gone, list, CHOOSE f \in FreshLines(list) : TRUE),
                 UNCHANGED order
          PROVE  /\ line'[l] = [line[l] EXCEPT !.received = line'[l].received]
                 /\ order'[o].status # "Deleted"
      <4>1. line'[l] = line[l]
        BY <2>5, <3>2
      <4>. QED
        BY <2>3, <3>2, <4>1 DEF LineRow, Exists
    <3>3. CASE /\ LinesDeletable(LinesOf(q))
               /\ line' = WithLines(q, LinesOf(q), <<>>, <<>>)
               /\ order' = [order EXCEPT ![q].status = "Deleted"]
      <4>1. o # q
        BY <2>1, <2>2, <3>3 DEF LinesDeletable, LinesOf
      <4>2. line'[l] = line[l]
        BY <2>2, <3>3, <4>1 DEF WithLines, LinesOf
      <4>3. order'[o] = order[o]
        BY <2>1, <3>3, <4>1 DEF PurchaseInv, OrderTypeOK
      <4>. QED
        BY <2>3, <4>2, <4>3 DEF LineRow, Exists
    <3>4. CASE /\ \/ order' = [order EXCEPT ![q].archived = (change = "archive")]
                  \/ change \in OrderStatus /\ order' = [order EXCEPT ![q].status = change]
               /\ UNCHANGED line
      <4>1. order'[o].status \in {order[o].status} \cup OrderStatus
        BY <2>1, <2>3, <3>4 DEF PurchaseInv, OrderTypeOK, OrderRow
      <4>. QED
        BY <2>3, <3>4, <4>1 DEF LineRow, Exists, OrderStatus
    <3>. QED
      BY <2>7, <3>1, <3>2, <3>3, <3>4 DEF WriteChange, ReplaceLines
  <2>8. ASSUME NEW p \in Proc, ReceiptCommit(p)
        PROVE  /\ line'[l] = [line[l] EXCEPT !.received = line'[l].received]
               /\ order'[o].status # "Deleted"
    <3>1. PICK r \in Receipt : r = receipt[p]
      BY <2>1, <2>8 DEF ReceiptCommit, PurchaseInv, ReceiptTypeOK, NoReceipt
    <3>2. r.next \in OrderStatus /\ r.order \in Order
      BY DEF Receipt
    <3>3. /\ order' = order \/ order' = [order EXCEPT ![r.order].status = r.next]
          /\ line'[l] = [line[l] EXCEPT !.received = line[l].received + r.added[l]]
      BY <2>8, <3>1 DEF ReceiptCommit
    <3>4. order'[o].status \in {order[o].status} \cup OrderStatus
      BY <2>1, <2>3, <3>2, <3>3 DEF PurchaseInv, OrderTypeOK, OrderRow
    <3>. QED
      BY <2>3, <3>3, <3>4 DEF LineRow, Exists, OrderStatus
  <2>9. ASSUME NEW p \in Proc,
               \/ DeleteLines(p) \/ DropChange(p) \/ CheckAndInsert(p)
               \/ IncrementLine(p) \/ RefreshLines(p) \/ ReceiptAbort(p) \/ StockOperation(p)
               \/ \E q \in Order :
                     \/ \E list \in LineList : updateDraft(p, q, list)
                     \/ archive(p, q) \/ restore(p, q) \/ delete(p, q)
                     \/ submitForApproval(p, q) \/ approve(p, q) \/ returnToDraft(p, q)
                     \/ markSent(p, q) \/ cancel(p, q)
                     \/ \E location \in Location, lines \in ReceiptLines :
                           createGoodsReceipt(p, q, location, lines)
        PROVE  UNCHANGED <<order, line>>
    BY <2>9 DEF DeleteLines, DropChange, CheckAndInsert, IncrementLine, RefreshLines, ReceiptAbort,
                StockOperation, orderVars, updateDraft, archive, restore, delete,
                submitForApproval, approve, returnToDraft, markSent, cancel, Decide,
                createGoodsReceipt
  <2>10. CASE UNCHANGED allVars
    BY <2>2, <2>4, <2>10 DEF allVars, orderVars
  <2>. QED
    BY <2>1, <2>2, <2>4, <2>6, <2>7, <2>8, <2>9, <2>10
    DEF PurchaseNext, OrderRequest, OrderStep
<1>. QED
  BY <1>1, ReceiptsInvariant, PTL DEF PurchaseSpec, ReceiptsKeepTheirOrder

=============================================================================

----------------------------- MODULE StockLedger -----------------------------
(***************************************************************************)
(* Stock levels and stock movements                                        *)
(* (apps/api/src/inventory/inventory.service.ts).                          *)
(*                                                                         *)
(* Every stock operation is a READ COMMITTED transaction that reads the    *)
(* level of an item at a location, computes the next level from what it    *)
(* read, writes it back as an absolute value and inserts a movement.  Each *)
(* statement sees what is committed when it runs and what its own          *)
(* transaction wrote; a written row stays locked until the end, so         *)
(* another writer of the row waits and then writes over it.                *)
(*                                                                         *)
(* quantityReserved is left out: no operation ever writes anything but the *)
(* initial 0, so what is available is what is on hand.                     *)
(***************************************************************************)
EXTENDS Integers, Sequences

CONSTANTS
    Item, Location,   \* stock-keeping items and storage locations
    Proc,             \* concurrently running request handlers
    InitialStock,     \* [Cell -> Nat]: what earlier movements left on hand
    MaxQuantity,      \* bound on the quantity of one operation
    MaxMovements      \* bound on the rows of StockMovement inserted

Cell == Item \X Location

Quantity == 1..MaxQuantity

ASSUME StockAssumption ==
    /\ Item # {} /\ Location # {}
    /\ InitialStock \in [Cell -> Nat]
    /\ MaxQuantity \in Nat \ {0} /\ MaxMovements \in Nat

VARIABLES
    level,      \* [Cell -> Int]: quantityOnHand, 0 where there is no row
    recorded,   \* [Cell -> Int]: signed sum of the StockMovement rows
    movements,  \* how many StockMovement rows were inserted
    work,       \* [Proc -> stock transaction in progress, or NoWork]
    overtaken   \* history: cells whose level was replaced by a write computed
                \* from a level that was no longer the present one

stockVars == <<level, recorded, movements, work, overtaken>>

\* One leg of an operation: the level it reads and writes, and the change.
Leg == [cell: Cell, delta: Int]

\* legs: still to do; reading: the level of the first is still to be read; read:
\* what was read; own: the levels written, on the cells locked; moved, rows: the
\* movements inserted; stale: the cells whose write replaced an unseen level.
Work == [legs: Seq(Leg), reading: BOOLEAN, read: Int, own: [Cell -> Int],
         locked: SUBSET Cell, moved: [Cell -> Int], rows: Nat,
         stale: SUBSET Cell]

NoWork == [legs |-> <<>>, reading |-> TRUE, read |-> 0,
           own |-> [c \in Cell |-> 0], locked |-> {},
           moved |-> [c \in Cell |-> 0], rows |-> 0, stale |-> {}]

StockTypeOK ==
    /\ level \in [Cell -> Int]
    /\ recorded \in [Cell -> Int]
    /\ movements \in 0..MaxMovements
    /\ work \in [Proc -> Work]
    /\ overtaken \subseteq Cell

StockInit ==
    /\ level = InitialStock
    /\ recorded = InitialStock
    /\ movements = 0
    /\ work = [p \in Proc |-> NoWork]
    /\ overtaken = {}

-----------------------------------------------------------------------------
(***************************************************************************)
(* Statements                                                              *)
(***************************************************************************)

\* Faulty variant: the level is read outside the transaction.
VisibleOutside(p, c) == level[c]

Visible(p, c) == IF c \in work[p].locked THEN work[p].own[c] ELSE level[c]

RowAvailable(p, c) == \A q \in Proc \ {p} : c \notin work[q].locked

\* stockLevel.findUnique, and the check of a decrease against what is available.
ReadLevel(p) ==
    /\ work[p].legs # <<>> /\ work[p].reading
    /\ LET leg == Head(work[p].legs)
           onHand == Visible(p, leg.cell)
       IN  /\ leg.delta < 0 => -leg.delta <= onHand
           /\ work' = [work EXCEPT ![p].reading = FALSE, ![p].read = onHand]
    /\ UNCHANGED <<level, recorded, movements, overtaken>>

\* Faulty variant: the database adds the change to the present level.
nextOnHandIncrement(p, leg) == Visible(p, leg.cell) + leg.delta

nextOnHand(p, leg) == work[p].read + leg.delta

\* stockLevel.upsert and stockMovement.create.
WriteLevel(p) ==
    /\ work[p].legs # <<>> /\ ~work[p].reading
    /\ LET leg == Head(work[p].legs)
           c == leg.cell
       IN  /\ RowAvailable(p, c)
           /\ movements + work[p].rows < MaxMovements
           /\ work' = [work EXCEPT ![p] =
                [legs |-> Tail(work[p].legs), reading |-> TRUE, read |-> 0,
                 own |-> [work[p].own EXCEPT ![c] = nextOnHand(p, leg)],
                 locked |-> work[p].locked \cup {c},
                 moved |-> [work[p].moved EXCEPT ![c] = @ + leg.delta],
                 rows |-> work[p].rows + 1,
                 stale |-> IF work[p].read = Visible(p, c) THEN work[p].stale
                           ELSE work[p].stale \cup {c}]]
    /\ UNCHANGED <<level, recorded, movements, overtaken>>

\* What the commit of the transaction of p does to the two tables.
CommitStock(p) ==
    /\ work[p].legs = <<>>
    /\ movements + work[p].rows <= MaxMovements
    /\ level' = [c \in Cell |-> Visible(p, c)]
    /\ recorded' = [c \in Cell |-> recorded[c] + work[p].moved[c]]
    /\ movements' = movements + work[p].rows
    /\ overtaken' = overtaken \cup work[p].stale
    /\ work' = [work EXCEPT ![p] = NoWork]

\* A check fails (the item or the location is inactive, the stock does not
\* suffice), PostgreSQL breaks a deadlock, the process is lost: nothing stays.
RollBackStock(p) ==
    /\ work' = [work EXCEPT ![p] = NoWork]
    /\ UNCHANGED <<level, recorded, movements, overtaken>>

-----------------------------------------------------------------------------
(***************************************************************************)
(* Operations                                                              *)
(***************************************************************************)

Perform(p, legs) ==
    /\ work[p] = NoWork
    /\ work' = [work EXCEPT ![p].legs = legs]
    /\ UNCHANGED <<level, recorded, movements, overtaken>>

createOpeningBalance(p, c, q) == Perform(p, << [cell |-> c, delta |-> q] >>)

createStockAdjustment(p, c, q, isIncrease) ==
    Perform(p, << [cell |-> c, delta |-> IF isIncrease THEN q ELSE -q] >>)

createStockTransfer(p, item, source, destination, q) ==
    /\ source # destination
    /\ Perform(p, << [cell |-> <<item, source>>, delta |-> -q],
                     [cell |-> <<item, destination>>, delta |-> q] >>)

\* Called for one line of a goods receipt in the transaction of the receipt:
\* accepted goods are a leg, damaged ones a movement that changes no level.
applyGoodsReceiptMovements(p, c, accepted, damaged) ==
    /\ work[p].legs = <<>>
    /\ work' = [work EXCEPT
           ![p].legs = IF accepted > 0 THEN << [cell |-> c, delta |-> accepted] >>
                                       ELSE <<>>,
           ![p].rows = IF damaged > 0 THEN @ + 1 ELSE @]
    /\ UNCHANGED <<level, recorded, movements, overtaken>>

StockRequest(p) ==
    \/ \E c \in Cell, q \in Quantity :
          \/ createOpeningBalance(p, c, q)
          \/ \E isIncrease \in BOOLEAN :
                createStockAdjustment(p, c, q, isIncrease)
    \/ \E item \in Item, source, destination \in Location, q \in Quantity :
          createStockTransfer(p, item, source, destination, q)

StockStep(p) == ReadLevel(p) \/ WriteLevel(p)

StockEnd(p) == work[p] # NoWork /\ (CommitStock(p) \/ RollBackStock(p))

StockNext ==
    \E p \in Proc :
        \/ StockRequest(p)
        \/ \E c \in Cell, accepted, damaged \in 0..MaxQuantity :
              applyGoodsReceiptMovements(p, c, accepted, damaged)
        \/ StockStep(p)
        \/ StockEnd(p)

StockSpec == StockInit /\ [][StockNext]_stockVars

-----------------------------------------------------------------------------
(***************************************************************************)
(* Properties                                                              *)
(***************************************************************************)

\* The stock on hand is never negative, although decreases and transfers check
\* a level that other handlers may change before the new one is written: the
\* value written is the one that was checked.
StockNeverNegative == \A c \in Cell : level[c] >= 0

\* The level of an item at a location is the sum of its movements, unless a
\* handler replaced it by a value computed from a level that had meanwhile
\* changed: no failure between the legs of an operation and no second line of
\* the same receipt makes the two disagree.
LevelIsSumOfMovements ==
    \A c \in Cell : c \notin overtaken => level[c] = recorded[c]

=============================================================================

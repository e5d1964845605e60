--------------------- MODULE ResourceReservationsProofs ---------------------
(***************************************************************************)
(* Proofs about ResourceReservations: its type invariant, that admission   *)
(* never overbooks a resource, and that the allocations of events are      *)
(* accounted for.                                                          *)
(*                                                                         *)
(* Two transactions that commit may each have decided on a snapshot the    *)
(* other made stale, so NoOverbooking is not inductive: a commit is safe   *)
(* because of what the transaction in progress already satisfies.  Sound   *)
(* below collects that, and says what each part is for.  Orderly does the  *)
(* same for allocations, and Prepared for what a commit is to Booking.     *)
(***************************************************************************)
EXTENDS ResourceReservations, FiniteSetTheorems, SequenceTheorems, TLAPS

-----------------------------------------------------------------------------
(***************************************************************************)
(* Loads and availability                                                  *)
(***************************************************************************)

\* The units reservations hold are a finite set, so its cardinality counts them.
LEMMA UnitsFinite ==
    ASSUME NEW U \in SUBSET (Slot \X Quantity)
    PROVE  IsFiniteSet(U) /\ Cardinality(U) \in Nat
<1>1. IsFiniteSet(Quantity)
  BY FS_Interval, ConstantsAssumption DEF Quantity
<1>2. IsFiniteSet(Slot \X Quantity)
  BY <1>1, FS_Product, ConstantsAssumption
<1>. QED
  BY <1>2, FS_Subset, FS_CardinalityType

\* A load is a natural number, and a smaller set of units is a smaller load.
LEMMA LoadMonotone ==
    ASSUME NEW rows, NEW rows2, NEW r, NEW t,
           UnitsAt(rows, r, t) \subseteq UnitsAt(rows2, r, t)
    PROVE  /\ Load(rows, r, t) \in Nat /\ Load(rows2, r, t) \in Nat
           /\ Load(rows, r, t) <= Load(rows2, r, t)
<1>1. UnitsAt(rows2, r, t) \in SUBSET (Slot \X Quantity)
  BY DEF UnitsAt
<1>. QED
  BY <1>1, UnitsFinite, FS_Subset DEF Load

\* A load is a natural number.
LEMMA LoadType ==
    ASSUME NEW rows, NEW r, NEW t
    PROVE  Load(rows, r, t) \in Nat
BY LoadMonotone

\* availableQuantity is a natural number; a positive quantity it admits is in
\* service and fits beside the units that overlap.
LEMMA AvailableQuantity ==
    ASSUME NEW res \in ResourceRow, NEW rows, NEW r, NEW w, NEW excluded,
           NEW q \in Nat \ {0},
           q <= availableQuantity(res, rows, r, w, excluded)
    PROVE  /\ ~res.unavailable
           /\ Cardinality(OverlappingUnits(rows, r, w, excluded)) + q <= res.total
<1>1. Cardinality(OverlappingUnits(rows, r, w, excluded)) \in Nat
  BY UnitsFinite DEF OverlappingUnits
<1>2. res.total \in Nat /\ res.unavailable \in BOOLEAN
  BY DEF ResourceRow
<1>. QED
  BY <1>1, <1>2 DEF availableQuantity, Monus

\* An available quantity is a natural number.
LEMMA AvailableType ==
    ASSUME NEW res \in ResourceRow, NEW rows, NEW r, NEW w, NEW excluded
    PROVE  availableQuantity(res, rows, r, w, excluded) \in Nat
<1>1. Cardinality(OverlappingUnits(rows, r, w, excluded)) \in Nat
  BY UnitsFinite DEF OverlappingUnits
<1>2. res.total \in Nat
  BY DEF ResourceRow
<1>. QED
  BY <1>1, <1>2 DEF availableQuantity, Monus

\* Writing a row that fits beside the units overlapping its window keeps the
\* load within the total at every instant its window covers.
LEMMA LoadAfterWrite ==
    ASSUME NEW rows \in [Slot -> Row], NEW i \in Slot, NEW row \in Row,
           NEW excluded, excluded \in {NoSlot, i},
           NEW total \in Nat, NEW t \in Nat, Covers(row.window, t),
           Cardinality(OverlappingUnits(rows, row.resource, row.window, excluded))
               + row.quantity <= total
    PROVE  Load([rows EXCEPT ![i] = row], row.resource, t) <= total
<1>. DEFINE A == OverlappingUnits(rows, row.resource, row.window, excluded)
            B == {i} \X (1..row.quantity)
            C == UnitsAt([rows EXCEPT ![i] = row], row.resource, t)
<1>1. row.quantity \in Quantity /\ row.quantity \in Nat /\ Quantity \subseteq Nat
  BY ConstantsAssumption DEF Row, Quantity
<1>2. IsFiniteSet(A) /\ Cardinality(A) \in Nat
  BY UnitsFinite DEF OverlappingUnits
<1>3. IsFiniteSet(B) /\ Cardinality(B) = row.quantity
  <2>1. IsFiniteSet({i}) /\ Cardinality({i}) = 1
    BY FS_Singleton
  <2>2. IsFiniteSet(1..row.quantity) /\ Cardinality(1..row.quantity) = row.quantity
    BY <1>1, FS_Interval
  <2>3. /\ IsFiniteSet(B)
        /\ Cardinality(B) = Cardinality({i}) * Cardinality(1..row.quantity)
    BY <2>1, <2>2, FS_Product
  <2>. QED
    BY <1>1, <2>1, <2>2, <2>3
<1>4. C \subseteq A \cup B
  <2>1. SUFFICES ASSUME NEW u \in C, u \notin B PROVE u \in A
    OBVIOUS
  <2>2. u \in Slot \X Quantity /\ u[1] \in Slot /\ u[2] \in Quantity /\ u[2] \in Nat
    BY <2>1, <1>1 DEF UnitsAt
  <2>3. u[1] # i
    <3>1. SUFFICES ASSUME u[1] = i PROVE FALSE
      OBVIOUS
    <3>2. u[2] <= row.quantity
      BY <2>1, <2>2, <3>1 DEF UnitsAt
    <3>3. u[2] \in 1..row.quantity
      BY <2>2, <3>2, <1>1, ConstantsAssumption DEF Quantity
    <3>. QED
      BY <2>1, <2>2, <3>1, <3>3
  <2>4. u[1] # excluded
    BY <2>2, <2>3, ConstantsAssumption
  <2>5. Overlaps(rows[u[1]].window, row.window)
    <3>1. Covers(rows[u[1]].window, t)
      BY <2>1, <2>2, <2>3 DEF UnitsAt
    <3>2. rows[u[1]].window \in Nat \X Nat /\ row.window \in Nat \X Nat
      BY <2>2, ConstantsAssumption DEF Row
    <3>. QED
      BY <3>1, <3>2 DEF Covers, Overlaps
  <2>. QED
    BY <2>1, <2>2, <2>3, <2>4, <2>5 DEF UnitsAt, OverlappingUnits
<1>5. /\ IsFiniteSet(A \cup B)
      /\ Cardinality(A \cup B) = Cardinality(A) + Cardinality(B) - Cardinality(A \cap B)
  BY <1>2, <1>3, FS_Union
<1>6. Cardinality(A \cap B) \in Nat
  BY <1>2, FS_Intersection, FS_CardinalityType
<1>7. Cardinality(C) <= Cardinality(A \cup B) /\ Cardinality(C) \in Nat
  BY <1>4, <1>5, FS_Subset, FS_CardinalityType
<1>. QED
  BY <1>1, <1>2, <1>3, <1>5, <1>6, <1>7 DEF Load

-----------------------------------------------------------------------------
(***************************************************************************)
(* Type correctness                                                        *)
(***************************************************************************)

\* The steps a transaction has still to take fit what it does: a step is left
\* until the commit, and the step of an update names a row.
TodoOK ==
    \A p \in Proc :
        /\ txn[p].op \in {"create", "update", "allocate"} => txn[p].todo # << >>
        /\ txn[p].op = "update" => Head(txn[p].todo).slot \in Slot

TypeInv == TypeOK /\ TodoOK

\* A transaction in progress is a record of Txn, and only such a one is active.
LEMMA ActiveTxn ==
    ASSUME TypeOK, NEW p \in Proc
    PROVE  /\ Active(p) <=> txn[p] \in Txn
           /\ ~Active(p) <=> txn[p] = Idle
           /\ ~Active(p) => txn[p].op = "idle"
<1>1. txn[p] \in Txn \cup {Idle}
  BY DEF TypeOK
<1>2. Idle.op = "idle"
  BY DEF Idle
<1>3. ASSUME NEW T \in Txn PROVE T.op # "idle"
  BY <1>3 DEF Txn
<1>. QED
  BY <1>1, <1>2, <1>3 DEF Active

\* The initial state is well typed.
LEMMA TypeInit == Init => TypeInv
<1>. SUFFICES ASSUME Init PROVE TypeInv
  OBVIOUS
<1>1. AnyResource \in Resource /\ AnyWindow \in Window
  BY ConstantsAssumption DEF AnyResource, AnyWindow
<1>2. FreeRow \in Row
  BY <1>1, ConstantsAssumption DEF FreeRow, Row, Quantity, ReservationStatus
<1>3. FreeAlloc \in AllocRow
  BY <1>1 DEF FreeAlloc, AllocRow
<1>4. PICK given \in [Resource -> ResourceInput] :
          /\ resource = [r \in Resource |-> NewResource(given[r])]
          /\ seen = [r \in Resource |-> {<<given[r].mode, given[r].total>>}]
  BY DEF Init
<1>5. \A r \in Resource : given[r] \in [mode: QuantityMode, total: Nat,
                                        unavailable: BOOLEAN]
  BY <1>4, ConstantsAssumption
<1>6. resource \in [Resource -> ResourceRow]
  BY <1>4, <1>5 DEF NewResource, ResourceRow
<1>7. seen \in [Resource -> SUBSET (QuantityMode \X Nat)]
  BY <1>4, <1>5
<1>. QED
  BY <1>2, <1>3, <1>6, <1>7 DEF Init, TypeInv, TypeOK, TodoOK, Idle

\* A new transaction is typed if its steps are.
LEMMA BeginType ==
    ASSUME TypeInv, NEW p \in Proc,
           NEW op \in {"create", "update", "allocate", "release"},
           NEW event \in Event \cup {NoEvent},
           NEW reason \in {"", "Completed", "Cancelled"},
           NEW todo \in Seq(Request),
           op # "release" => todo # << >>,
           op = "update" => Head(todo).slot \in Slot,
           Begin(p, op, event, reason, todo)
    PROVE  TypeInv'
<1>. DEFINE T == [op |-> op, event |-> event, reason |-> reason, todo |-> todo,
                  catalog |-> resource, rows |-> reservation, allocs |-> allocation,
                  locks |-> {}, wrote |-> {}, stale |-> {}, claims |-> {},
                  rivals |-> {}]
<1>1. T \in Txn
  BY DEF TypeInv, TypeOK, Txn
<1>2. txn' = [txn EXCEPT ![p] = T] /\ UNCHANGED <<tables, seen>>
  BY DEF Begin
<1>. HIDE DEF T
<1>3. TypeOK'
  BY <1>1, <1>2 DEF TypeInv, TypeOK, tables
<1>4. TodoOK'
  <2>1. T.op = op /\ T.todo = todo
    BY DEF T
  <2>. QED
    BY <1>2, <2>1 DEF TypeInv, TypeOK, TodoOK
<1>. QED
  BY <1>3, <1>4 DEF TypeInv

\* Every request starts a typed transaction with its steps.
LEMMA NewRequestType ==
    ASSUME TypeInv, NEW p \in Proc, NewRequest(p)
    PROVE  TypeInv'
<1>1. CASE \E r \in Resource, q \in Quantity, w \in Window, s \in InputStatus,
              e \in Event \cup {NoEvent} : BeginCreate(p, r, q, w, s, e)
  <2>1. PICK r \in Resource, q \in Quantity, w \in Window, s \in InputStatus,
             e \in Event \cup {NoEvent} : BeginCreate(p, r, q, w, s, e)
    BY <1>1
  <2>. DEFINE req == [slot |-> NoSlot, resource |-> r, quantity |-> q,
                      window |-> w, status |-> s, allowPartial |-> FALSE]
  <2>2. req \in Request
    BY ConstantsAssumption DEF Request
  <2>3. <<req>> \in Seq(Request) /\ <<req>> # << >>
    BY <2>2
  <2>. QED
    BY <2>1, <2>3, BeginType DEF BeginCreate
<1>2. ASSUME NEW i \in Slot, NEW q \in Quantity, NEW w \in Window,
             NEW s \in ReservationStatus, BeginUpdate(p, i, q, w, s)
      PROVE  TypeInv'
  <2>. DEFINE req == [slot |-> i, resource |-> reservation[i].resource,
                      quantity |-> q, window |-> w, status |-> s,
                      allowPartial |-> FALSE]
  <2>1. reservation[i].resource \in Resource
    BY DEF TypeInv, TypeOK, Row
  <2>2. req \in Request
    BY <2>1, ConstantsAssumption DEF Request
  <2>3. <<req>> \in Seq(Request) /\ <<req>> # << >> /\ Head(<<req>>).slot = i
    BY <2>2
  <2>4. Begin(p, "update", NoEvent, "", <<req>>)
    BY <1>2 DEF BeginUpdate
  <2>. HIDE DEF req
  <2>. QED
    BY <2>3, <2>4, BeginType
<1>3. CASE \E i \in Slot, q \in Quantity, w \in Window, s \in InputStatus :
              BeginUpdate(p, i, q, w, s)
  BY <1>2, <1>3, ConstantsAssumption
<1>4. CASE \E i \in Slot : BeginConfirm(p, i)
  <2>1. PICK i \in Slot : BeginConfirm(p, i)
    BY <1>4
  <2>2. reservation[i].quantity \in Quantity /\ reservation[i].window \in Window
    BY DEF TypeInv, TypeOK, Row
  <2>. QED
    BY <1>2, <2>1, <2>2 DEF BeginConfirm, ReservationStatus,
                            CAPACITY_CONSUMING_STATUSES
<1>5. CASE \E e \in Event, requests \in EventRequest : BeginAllocate(p, e, requests)
  BY <1>5, BeginType, ConstantsAssumption DEF BeginAllocate
<1>6. CASE \E e \in Event, reason \in {"Completed", "Cancelled"} :
              BeginRelease(p, e, reason)
  <2>1. << >> \in Seq(Request)
    OBVIOUS
  <2>. QED
    BY <1>6, <2>1, BeginType DEF BeginRelease
<1>. QED
  BY <1>1, <1>3, <1>4, <1>5, <1>6 DEF NewRequest

\* Writing a typed row into the snapshot of a transaction in progress.
LEMMA WriteRowType ==
    ASSUME TypeOK, NEW p \in Proc, txn[p] \in Txn, txn[p].todo # << >>,
           NEW i \in Slot, NEW row \in Row
    PROVE  WriteRow(p, i, row) \in Txn
<1>. DEFINE T == txn[p]
<1>1. /\ T.rows \in [Slot -> Row] /\ T.locks \in SUBSET Resource
      /\ T.wrote \in SUBSET (Slot \cup AllocId) /\ T.claims \in SUBSET Claim
      /\ T.todo \in Seq(Request)
  BY DEF Txn
<1>2. [T.rows EXCEPT ![i] = row] \in [Slot -> Row]
  BY <1>1
<1>3. T.locks \cup {row.resource} \in SUBSET Resource
  BY <1>1 DEF Row
<1>4. ClaimOf(T.catalog[row.resource], row.resource, row.window, row.status)
          \in SUBSET Claim
  BY DEF ClaimOf, Claim, Row
<1>5. Tail(T.todo) \in Seq(Request)
  BY <1>1, HeadTailProperties
<1>. QED
  BY <1>1, <1>2, <1>3, <1>4, <1>5 DEF Txn, WriteRow

\* Replacing the record of one transaction by a typed one.
LEMMA TxnStepType ==
    ASSUME TypeInv, NEW p \in Proc, NEW T \in Txn,
           T.op \in {"create", "update", "allocate"} => T.todo # << >>,
           T.op = "update" => Head(T.todo).slot \in Slot,
           txn' = [txn EXCEPT ![p] = T], UNCHANGED <<tables, seen>>
    PROVE  TypeInv'
BY DEF TypeInv, TypeOK, TodoOK, tables

\* The next step of a transaction is a request, and what remains after it are
\* requests.
LEMMA TodoHead ==
    ASSUME TypeInv, NEW p \in Proc, txn[p].op \in {"create", "update", "allocate"}
    PROVE  /\ txn[p] \in Txn
           /\ txn[p].todo # << >>
           /\ Head(txn[p].todo) \in Request
           /\ Tail(txn[p].todo) \in Seq(Request)
           /\ Len(txn[p].todo) # 1 => Tail(txn[p].todo) # << >>
<1>1. txn[p] \in Txn /\ txn[p].todo # << >>
  BY ActiveTxn DEF Active, TypeInv, TodoOK
<1>2. txn[p].todo \in Seq(Request)
  BY <1>1 DEF Txn
<1>3. /\ Head(txn[p].todo) \in Request /\ Tail(txn[p].todo) \in Seq(Request)
      /\ Len(Tail(txn[p].todo)) = Len(txn[p].todo) - 1
  BY <1>1, <1>2, HeadTailProperties
<1>4. Len(txn[p].todo) \in Nat /\ Len(<< >>) = 0
  BY <1>1, <1>2, EmptySeq
<1>5. Tail(txn[p].todo) = << >> => Len(Tail(txn[p].todo)) = 0
  BY <1>4, Zenon
<1>6. Len(txn[p].todo) # 1 => Tail(txn[p].todo) # << >>
  <2>. DEFINE n == Len(txn[p].todo)
              m == Len(Tail(txn[p].todo))
  <2>1. n \in Nat /\ m = n - 1
    BY <1>3, <1>4
  <2>. HIDE DEF n, m
  <2>2. m = 0 => n = 1
    BY <2>1
  <2>. QED
    BY <1>5, <2>2, Zenon DEF n, m
<1>. QED
  BY <1>1, <1>3, <1>6

\* createReservation keeps the types.
LEMMA CreateType ==
    ASSUME TypeInv, NEW p \in Proc, createReservation(p)
    PROVE  TypeInv'
<1>. DEFINE req == Head(txn[p].todo)
            i == CHOOSE i \in FreshSlots : TRUE
            row == [resource |-> req.resource, quantity |-> req.quantity,
                    window |-> req.window, status |-> req.status,
                    event |-> txn[p].event]
            T == [WriteRow(p, i, row) EXCEPT !.op = "commit"]
<1>1. txn[p] \in Txn /\ txn[p].todo # << >> /\ req \in Request
  BY TodoHead DEF createReservation
<1>2. i \in Slot
  BY DEF createReservation, FreshSlots
<1>3. row \in Row
  BY <1>1 DEF Request, Row, Txn
<1>4. WriteRow(p, i, row) \in Txn
  BY <1>1, <1>2, <1>3, WriteRowType DEF TypeInv
<1>5. txn' = [txn EXCEPT ![p] = T] /\ UNCHANGED <<tables, seen>>
  BY DEF createReservation
<1>6. T \in Txn /\ T.op = "commit"
  BY <1>4 DEF Txn
<1>. QED
  BY <1>5, <1>6, TxnStepType

\* updateReservation and confirmReservation keep the types.
LEMMA UpdateType ==
    ASSUME TypeInv, NEW p \in Proc, updateReservation(p)
    PROVE  TypeInv'
<1>. DEFINE req == Head(txn[p].todo)
            i == req.slot
            row == [txn[p].rows[i] EXCEPT !.quantity = req.quantity,
                                          !.window = req.window,
                                          !.status = req.status]
            T == [WriteRow(p, i, row) EXCEPT !.op = "commit"]
<1>1. txn[p] \in Txn /\ txn[p].todo # << >> /\ req \in Request
  BY TodoHead DEF updateReservation
<1>2. i \in Slot
  BY DEF updateReservation, TypeInv, TodoOK
<1>3. row \in Row
  <2>1. txn[p].rows[i] \in Row
    BY <1>1, <1>2 DEF Txn
  <2>. QED
    BY <1>1, <2>1 DEF Request, Row
<1>4. WriteRow(p, i, row) \in Txn
  BY <1>1, <1>2, <1>3, WriteRowType DEF TypeInv
<1>5. txn' = [txn EXCEPT ![p] = T] /\ UNCHANGED <<tables, seen>>
  BY DEF updateReservation
<1>6. T \in Txn /\ T.op = "commit"
  BY <1>4 DEF Txn
<1>. QED
  BY <1>5, <1>6, TxnStepType

\* The quantity reserveResourcesForEvent reserves is at most what was asked for,
\* and available unless the resource has no limit.
LEMMA QuantityReserved ==
    ASSUME NEW res \in ResourceRow, NEW rows, NEW req \in Request
    PROVE  /\ quantityReserved(res, rows, req) \in 0..req.quantity
           /\ res.mode # "UNLIMITED" =>
                  quantityReserved(res, rows, req) <=
                      availableQuantity(res, rows, req.resource, req.window, NoSlot)
<1>. DEFINE available == availableQuantity(res, rows, req.resource, req.window, NoSlot)
<1>1. req.quantity \in Nat \ {0}
  BY ConstantsAssumption DEF Request, Quantity
<1>2. available \in Nat
  BY AvailableType
<1>. HIDE DEF available
<1>3. quantityReserved(res, rows, req) =
          IF canFulfill(res, rows, req.resource, req.window, req.quantity, NoSlot)
          THEN req.quantity
          ELSE IF available <= req.quantity THEN available ELSE req.quantity
  BY DEF quantityReserved, available
<1>4. canFulfill(res, rows, req.resource, req.window, req.quantity, NoSlot) =>
          res.mode = "UNLIMITED" \/ req.quantity <= available
  BY DEF canFulfill, available
<1>5. quantityReserved(res, rows, req) \in 0..req.quantity
  BY <1>1, <1>2, <1>3
<1>6. res.mode # "UNLIMITED" => quantityReserved(res, rows, req) <= available
  BY <1>1, <1>2, <1>3, <1>4
<1>. QED
  BY <1>5, <1>6 DEF available

\* One request of reserveResourcesForEvent keeps the types.
LEMMA AllocateType ==
    ASSUME TypeInv, NEW p \in Proc, reserveResourcesForEvent(p)
    PROVE  TypeInv'
<1>. DEFINE req == Head(txn[p].todo)
            res == txn[p].catalog[req.resource]
            reserved == quantityReserved(res, txn[p].rows, req)
            i == IF reserved > 0 THEN CHOOSE i \in FreshSlots : TRUE ELSE NoSlot
            a == CHOOSE a \in FreshAllocs : TRUE
            row == [resource |-> req.resource, quantity |-> reserved,
                    window |-> req.window, status |-> "RESERVED",
                    event |-> txn[p].event]
            wrote == IF reserved > 0
                     THEN WriteRow(p, i, row)
                     ELSE [txn[p] EXCEPT !.locks = @ \cup {req.resource},
                                         !.todo = Tail(@)]
            alloc == AllocationRow(txn[p].event, req, i, reserved)
            op == IF Len(txn[p].todo) = 1 THEN "commit" ELSE wrote.op
            T == [wrote EXCEPT !.allocs = [@ EXCEPT ![a] = alloc],
                               !.wrote = @ \cup {a},
                               !.op = IF Len(txn[p].todo) = 1 THEN "commit" ELSE @]
<1>1. /\ txn[p] \in Txn /\ txn[p].todo # << >> /\ req \in Request
      /\ Tail(txn[p].todo) \in Seq(Request)
      /\ Len(txn[p].todo) # 1 => Tail(txn[p].todo) # << >>
  BY TodoHead DEF reserveResourcesForEvent
<1>2. req.resource \in Resource /\ req.quantity \in Quantity /\ req.window \in Window
  BY <1>1 DEF Request
<1>3. reserved \in 0..req.quantity
  <2>1. res \in ResourceRow
    BY <1>1, <1>2 DEF Txn
  <2>. QED
    BY <1>1, <2>1, QuantityReserved
<1>. HIDE DEF reserved
<1>4. reserved \in Nat /\ (reserved > 0 => reserved \in Quantity)
  BY <1>2, <1>3, ConstantsAssumption DEF Quantity
<1>5. reserved > 0 => i \in Slot
  BY DEF reserveResourcesForEvent, FreshSlots, reserved
<1>6. i \in Slot \cup {NoSlot} /\ a \in AllocId
  BY <1>5 DEF reserveResourcesForEvent, FreshAllocs
<1>. HIDE DEF i, a
<1>7. wrote \in Txn /\ wrote.op = "allocate" /\ wrote.todo = Tail(txn[p].todo)
  <2>1. txn[p].op = "allocate"
    BY DEF reserveResourcesForEvent
  <2>2. CASE reserved > 0
    <3>1. row \in Row
      BY <1>1, <1>2, <1>4, <2>2 DEF Row, Txn, ReservationStatus,
                                    CAPACITY_CONSUMING_STATUSES
    <3>2. WriteRow(p, i, row) \in Txn
      BY <1>1, <1>5, <2>2, <3>1, WriteRowType DEF TypeInv
    <3>3. WriteRow(p, i, row).op = txn[p].op /\ WriteRow(p, i, row).todo = Tail(txn[p].todo)
      BY <1>1 DEF WriteRow, Txn
    <3>. QED
      BY <2>1, <2>2, <3>2, <3>3
  <2>3. CASE ~(reserved > 0)
    <3>1. txn[p].locks \cup {req.resource} \in SUBSET Resource
      BY <1>1, <1>2 DEF Txn
    <3>. HIDE DEF req
    <3>. QED
      BY <1>1, <2>1, <2>3, <3>1 DEF Txn
  <2>. QED
    BY <2>2, <2>3
<1>8. alloc \in AllocRow
  <2>1. Monus(req.quantity, reserved) \in Nat
    BY <1>2, <1>4, ConstantsAssumption DEF Monus, Quantity
  <2>2. req.quantity \in Nat
    BY <1>2, ConstantsAssumption DEF Quantity
  <2>3. txn[p].event \in Event \cup {NoEvent}
    BY <1>1 DEF Txn
  <2>. HIDE DEF req
  <2>. QED
    BY <1>2, <1>4, <1>6, <2>1, <2>2, <2>3 DEF AllocationRow, AllocRow
<1>9. txn' = [txn EXCEPT ![p] = T] /\ UNCHANGED <<tables, seen>>
  BY DEF reserveResourcesForEvent, reserved, i, a
<1>. HIDE DEF wrote, alloc
<1>10. T \in Txn /\ T.todo = Tail(txn[p].todo)
       /\ T.op = IF Len(txn[p].todo) = 1 THEN "commit" ELSE "allocate"
  <2>1. [wrote.allocs EXCEPT ![a] = alloc] \in [AllocId -> AllocRow]
    BY <1>6, <1>7, <1>8 DEF Txn
  <2>2. wrote.wrote \cup {a} \in SUBSET (Slot \cup AllocId)
    BY <1>6, <1>7 DEF Txn
  <2>. QED
    BY <1>7, <2>1, <2>2 DEF Txn
<1>. HIDE DEF T
<1>. QED
  BY <1>1, <1>9, <1>10, TxnStepType

\* Settling one allocation keeps the types.
LEMMA ReleaseAllocationType ==
    ASSUME TypeInv, NEW p \in Proc, NEW a \in AllocId, releaseAllocation(p, a)
    PROVE  TypeInv'
<1>. DEFINE old == txn[p].allocs[a]
            done == txn[p].reason = "Completed"
            rows == IF old.slot = NoSlot THEN txn[p].rows
                    ELSE [txn[p].rows EXCEPT ![old.slot].status =
                              IF done THEN "RELEASED" ELSE "CANCELLED"]
            allocs == [txn[p].allocs EXCEPT ![a] =
                          [old EXCEPT
                              !.status = IF done THEN "Returned" ELSE "Cancelled",
                              !.returned = IF done THEN old.reserved ELSE old.returned]]
            T == [txn[p] EXCEPT
                     !.locks = @ \cup {old.resource},
                     !.rows = rows,
                     !.allocs = allocs,
                     !.wrote = @ \cup {a} \cup ({old.slot} \ {NoSlot})]
<1>1. txn[p] \in Txn /\ txn[p].op = "release"
  BY ActiveTxn DEF releaseAllocation, Active, TypeInv
<1>2. /\ txn[p].rows \in [Slot -> Row] /\ txn[p].allocs \in [AllocId -> AllocRow]
      /\ txn[p].locks \in SUBSET Resource
      /\ txn[p].wrote \in SUBSET (Slot \cup AllocId)
  BY <1>1 DEF Txn
<1>3. old \in AllocRow /\ old.resource \in Resource /\ old.slot \in Slot \cup {NoSlot}
      /\ old.reserved \in Nat
  BY <1>2 DEF AllocRow
<1>. HIDE DEF old
<1>4. rows \in [Slot -> Row]
  BY <1>2, <1>3 DEF Row, ReservationStatus
<1>5. allocs \in [AllocId -> AllocRow]
  BY <1>2, <1>3 DEF AllocRow
<1>6. txn' = [txn EXCEPT ![p] = T] /\ UNCHANGED <<tables, seen>>
  BY DEF releaseAllocation, old
<1>. HIDE DEF rows, allocs
<1>7. T \in Txn /\ T.op = "release"
  BY <1>1, <1>2, <1>3, <1>4, <1>5 DEF Txn
<1>. HIDE DEF T
<1>. QED
  BY <1>6, <1>7, TxnStepType

\* Closing the outstandings of an event keeps the types.
LEMMA CancelOutstandingsType ==
    ASSUME TypeInv, NEW p \in Proc, cancelOutstandings(p)
    PROVE  TypeInv'
<1>. DEFINE open == OpenOutstandings(p)
            allocs == [a \in AllocId |->
                          IF a \in open THEN [txn[p].allocs[a] EXCEPT !.open = FALSE]
                                        ELSE txn[p].allocs[a]]
            T == [txn[p] EXCEPT !.allocs = allocs, !.wrote = @ \cup open,
                                !.op = "commit"]
<1>1. txn[p] \in Txn
  BY ActiveTxn DEF cancelOutstandings, Active, TypeInv
<1>2. open \subseteq AllocId
  BY DEF OpenOutstandings
<1>. HIDE DEF open
<1>3. allocs \in [AllocId -> AllocRow]
  <2>1. ASSUME NEW a \in AllocId
        PROVE  /\ txn[p].allocs[a] \in AllocRow
               /\ [txn[p].allocs[a] EXCEPT !.open = FALSE] \in AllocRow
    <3>1. txn[p].allocs[a] \in AllocRow
      BY <1>1, <2>1 DEF Txn
    <3>. QED
      BY <3>1 DEF AllocRow
  <2>. QED
    BY <2>1
<1>4. txn[p].wrote \cup open \in SUBSET (Slot \cup AllocId)
  BY <1>1, <1>2 DEF Txn
<1>5. txn' = [txn EXCEPT ![p] = T] /\ UNCHANGED <<tables, seen>>
  BY DEF cancelOutstandings, open
<1>. HIDE DEF allocs
<1>6. T \in Txn /\ T.op = "commit"
  BY <1>1, <1>3, <1>4 DEF Txn
<1>. HIDE DEF T
<1>. QED
  BY <1>5, <1>6, TxnStepType

\* A rollback keeps the types.
LEMMA AbortType ==
    ASSUME TypeInv, NEW p \in Proc, Abort(p)
    PROVE  TypeInv'
BY DEF Abort, TypeInv, TypeOK, TodoOK, Idle, tables

\* What a commit publishes keeps every other transaction typed, and its steps.
LEMMA PublishType ==
    ASSUME TypeInv, NEW p \in Proc, NEW written \in SUBSET (Slot \cup AllocId),
           NEW claims \in SUBSET Claim, txn' = Publish(p, written, claims)
    PROVE  txn' \in [Proc -> Txn \cup {Idle}] /\ TodoOK'
<1>1. ASSUME NEW q \in Proc
      PROVE  /\ txn'[q] \in Txn \cup {Idle}
             /\ txn'[q] = Idle \/ (txn'[q].op = txn[q].op /\ txn'[q].todo = txn[q].todo)
  <2>1. CASE q = p \/ ~Active(q)
    BY <2>1 DEF Publish
  <2>2. CASE ~(q = p \/ ~Active(q))
    <3>1. txn[q] \in Txn
      BY <2>2, ActiveTxn DEF TypeInv
    <3>2. txn[q].stale \cup written \in SUBSET (Slot \cup AllocId)
          /\ txn[q].rivals \cup claims \in SUBSET Claim
      BY <3>1 DEF Txn
    <3>3. txn'[q] = [txn[q] EXCEPT !.stale = @ \cup written, !.rivals = @ \cup claims]
      BY <2>2 DEF Publish
    <3>. QED
      BY <3>1, <3>2, <3>3 DEF Txn
  <2>. QED
    BY <2>1, <2>2
<1>2. Idle.op = "idle"
  BY DEF Idle
<1>. QED
  BY <1>1, <1>2 DEF TypeInv, TodoOK, Publish

\* A commit keeps the types.
LEMMA CommitType ==
    ASSUME TypeInv, NEW p \in Proc, Commit(p)
    PROVE  TypeInv'
<1>1. txn[p] \in Txn
  BY ActiveTxn DEF Commit, Active, TypeInv
<1>2. /\ txn[p].rows \in [Slot -> Row] /\ txn[p].allocs \in [AllocId -> AllocRow]
      /\ txn[p].wrote \in SUBSET (Slot \cup AllocId)
      /\ txn[p].claims \in SUBSET Claim
  BY <1>1 DEF Txn
<1>3. txn' = Publish(p, txn[p].wrote, txn[p].claims)
  BY DEF Commit
<1>4. txn' \in [Proc -> Txn \cup {Idle}] /\ TodoOK'
  BY <1>2, <1>3, PublishType
<1>5. reservation' \in [Slot -> Row] /\ allocation' \in [AllocId -> AllocRow]
  BY <1>2 DEF Commit, TypeInv, TypeOK
<1>. QED
  BY <1>4, <1>5 DEF Commit, TypeInv, TypeOK

\* Cancelling, releasing, editing, archiving and restoring keep the types.
LEMMA PlainUpdateType ==
    ASSUME TypeInv, PlainUpdate
    PROVE  TypeInv'
<1>1. ASSUME NEW i \in Slot, NEW target \in FreedStatus,
             transitionReservationWithoutCapacityCheck(i, target)
      PROVE  TypeInv'
  <2>1. reservation' \in [Slot -> Row]
    <3>1. target \in ReservationStatus
      BY ConstantsAssumption DEF ReservationStatus
    <3>. QED
      BY <1>1, <3>1 DEF transitionReservationWithoutCapacityCheck, TypeInv, TypeOK, Row
  <2>2. ASSUME NEW q \in Proc
        PROVE  /\ txn'[q] \in Txn \cup {Idle}
               /\ txn'[q] = Idle \/ (txn'[q].op = txn[q].op /\ txn'[q].todo = txn[q].todo)
    <3>1. CASE ~Active(q)
      BY <1>1, <3>1 DEF transitionReservationWithoutCapacityCheck
    <3>2. CASE Active(q)
      <4>1. txn[q] \in Txn
        BY <3>2, ActiveTxn DEF TypeInv
      <4>2. txn[q].stale \cup {i} \in SUBSET (Slot \cup AllocId)
        BY <4>1 DEF Txn
      <4>3. txn'[q] = [txn[q] EXCEPT !.stale = @ \cup {i}]
        BY <1>1, <3>2 DEF transitionReservationWithoutCapacityCheck
      <4>. QED
        BY <4>1, <4>2, <4>3 DEF Txn
    <3>. QED
      BY <3>1, <3>2
  <2>3. Idle.op = "idle"
    BY DEF Idle
  <2>4. txn' \in [Proc -> Txn \cup {Idle}] /\ TodoOK'
    BY <1>1, <2>2, <2>3 DEF transitionReservationWithoutCapacityCheck, TypeInv, TodoOK
  <2>. QED
    BY <1>1, <2>1, <2>4 DEF transitionReservationWithoutCapacityCheck, TypeInv, TypeOK
<1>2. ASSUME NEW r \in Resource, NEW s \in ResourceInput, updateResource(r, s)
      PROVE  TypeInv'
  <2>1. s \in [mode: QuantityMode, total: Nat, unavailable: BOOLEAN]
    BY ConstantsAssumption
  <2>2. resource[r].archived \in BOOLEAN
    BY DEF TypeInv, TypeOK, ResourceRow
  <2>3. [NewResource(s) EXCEPT !.archived = resource[r].archived] \in ResourceRow
    BY <2>1, <2>2 DEF NewResource, ResourceRow
  <2>4. seen[r] \cup {<<s.mode, s.total>>} \in SUBSET (QuantityMode \X Nat)
    BY <2>1 DEF TypeInv, TypeOK
  <2>. QED
    BY <1>2, <2>3, <2>4 DEF updateResource, TypeInv, TypeOK, TodoOK
<1>3. ASSUME NEW r \in Resource, archiveResource(r) \/ restoreResource(r)
      PROVE  TypeInv'
  <2>1. resource[r] \in ResourceRow
    BY DEF TypeInv, TypeOK
  <2>2. /\ [resource[r] EXCEPT !.archived = TRUE] \in ResourceRow
        /\ [resource[r] EXCEPT !.archived = FALSE] \in ResourceRow
    BY <2>1 DEF ResourceRow
  <2>3. resource' \in [Resource -> ResourceRow]
    <3>1. \/ resource' = [resource EXCEPT ![r] = [resource[r] EXCEPT !.archived = TRUE]]
          \/ resource' = [resource EXCEPT ![r] = [resource[r] EXCEPT !.archived = FALSE]]
      BY <1>3 DEF archiveResource, restoreResource
    <3>. QED
      BY <2>2, <3>1 DEF TypeInv, TypeOK
  <2>. QED
    BY <1>3, <2>3 DEF archiveResource, restoreResource, TypeInv, TypeOK, TodoOK
<1>. QED
  BY <1>1, <1>2, <1>3, ConstantsAssumption DEF PlainUpdate

\* Every step keeps the types.
LEMMA TypeNext == TypeInv /\ [Next]_vars => TypeInv'
<1>. SUFFICES ASSUME TypeInv, [Next]_vars PROVE TypeInv'
  OBVIOUS
<1>1. CASE UNCHANGED vars
  BY <1>1 DEF vars, TypeInv, TypeOK, TodoOK
<1>2. CASE PlainUpdate
  BY <1>2, PlainUpdateType
<1>3. ASSUME NEW p \in Proc, NewRequest(p) PROVE TypeInv'
  BY <1>3, NewRequestType
<1>4. ASSUME NEW p \in Proc, Step(p) PROVE TypeInv'
  BY <1>4, CreateType, UpdateType, AllocateType, ReleaseAllocationType,
     CancelOutstandingsType, CommitType, AbortType DEF Step
<1>. QED
  BY <1>1, <1>2, <1>3, <1>4 DEF Next

\* Every variable of the specification keeps its type, for any number of
\* resources, handlers and rows and any window and quantity: in particular a
\* transaction in progress always has a step left until it commits, and never
\* writes a quantity outside 1..MaxQuantity or an unknown status.
THEOREM TypeCorrect == Spec => []TypeOK
<1>1. Init => TypeInv
  BY TypeInit
<1>2. TypeInv /\ [Next]_vars => TypeInv'
  BY TypeNext
<1>3. TypeInv => TypeOK
  BY DEF TypeInv
<1>. QED
  BY <1>1, <1>2, <1>3, PTL DEF Spec

-----------------------------------------------------------------------------
(***************************************************************************)
(* The inductive invariant of admission                                    *)
(***************************************************************************)

\* A reservation committed by another handler that the snapshot does not show is
\* known to PostgreSQL as a rival.
Tracked(T) ==
    \A i \in Slot \ T.wrote :
        statusConsumesCapacity(reservation[i].status) /\ Metered(reservation[i].resource) =>
            \/ T.rows[i] = reservation[i]
            \/ <<reservation[i].resource, reservation[i].window>> \in T.rivals

\* Within a window the transaction claimed, its view stays within a capacity in
\* service.
Bounded(T) ==
    \A r \in Resource, t \in Instant :
        Metered(r) /\ (\E c \in T.claims : c[1] = r /\ Covers(c[2], t)) =>
            /\ ~T.catalog[r].archived /\ ~T.catalog[r].unavailable
            /\ Load(T.rows, r, t) <= T.catalog[r].total

\* A capacity-consuming row is written only in a window claimed.
Claimed(T) ==
    \A i \in Slot \cap T.wrote :
        statusConsumesCapacity(T.rows[i].status) /\ Metered(T.rows[i].resource) =>
            <<T.rows[i].resource, T.rows[i].window>> \in T.claims

\* The catalogue read is one the resource has had.
Known(T) == \A r \in Resource : <<T.catalog[r].mode, T.catalog[r].total>> \in seen[r]

Sound(T) == Tracked(T) /\ Bounded(T) /\ Claimed(T) /\ Known(T)

CatalogSeen == \A r \in Resource : <<resource[r].mode, resource[r].total>> \in seen[r]

SoundInv == \A p \in Proc : Active(p) => Sound(txn[p])

IInv == TypeInv /\ NoOverbooking /\ CatalogSeen /\ SoundInv

\* Instants are natural numbers.
LEMMA InstantType == Instant \subseteq Nat
BY ConstantsAssumption DEF Instant

\* Soundness looks at the rows, the claims, the rivals and the catalogue only.
LEMMA SoundFields ==
    ASSUME NEW T, NEW T2, Sound(T), T2.rows = T.rows, T2.catalog = T.catalog,
           T2.claims = T.claims, T2.rivals = T.rivals,
           Slot \cap T2.wrote = Slot \cap T.wrote
    PROVE  Sound(T2)
<1>1. Slot \ T2.wrote = Slot \ T.wrote
  OBVIOUS
<1>2. Tracked(T2)
  BY <1>1 DEF Sound, Tracked
<1>3. Bounded(T2)
  BY DEF Sound, Bounded
<1>4. Claimed(T2)
  BY DEF Sound, Claimed
<1>5. Known(T2)
  BY DEF Sound, Known
<1>. QED
  BY <1>2, <1>3, <1>4, <1>5 DEF Sound

\* Writing a row that passed the check, or consumes nothing, keeps a transaction
\* sound.
LEMMA SoundAfterWrite ==
    ASSUME NEW T \in Txn, Sound(T), NEW T2 \in Txn, NEW i \in Slot, NEW row \in Row,
           T2.rows = [T.rows EXCEPT ![i] = row],
           T2.catalog = T.catalog, T2.rivals = T.rivals,
           T2.claims = T.claims \cup ClaimOf(T.catalog[row.resource], row.resource,
                                             row.window, row.status),
           Slot \cap T2.wrote = (Slot \cap T.wrote) \cup {i},
           statusConsumesCapacity(row.status) /\ T.catalog[row.resource].mode # "UNLIMITED" =>
               /\ ~T.catalog[row.resource].archived
               /\ \E excluded \in {NoSlot, i} :
                      row.quantity <= availableQuantity(T.catalog[row.resource], T.rows,
                                          row.resource, row.window, excluded)
    PROVE  Sound(T2)
<1>1. /\ T.rows \in [Slot -> Row] /\ T2.rows \in [Slot -> Row]
      /\ T.catalog \in [Resource -> ResourceRow]
      /\ T.claims \subseteq Claim /\ T2.claims \subseteq Claim
  BY DEF Txn
<1>2. /\ row.resource \in Resource /\ row.window \in Window
      /\ row.quantity \in Nat \ {0}
  BY ConstantsAssumption DEF Row, Quantity
<1>3. ASSUME Metered(row.resource)
      PROVE  T.catalog[row.resource].mode # "UNLIMITED"
  BY <1>2, <1>3 DEF Sound, Known, Metered
<1>4. Tracked(T2)
  BY <1>1 DEF Sound, Tracked
<1>5. Known(T2)
  BY DEF Sound, Known
<1>6. Claimed(T2)
  <2>1. SUFFICES ASSUME NEW j \in Slot \cap T2.wrote,
                        statusConsumesCapacity(T2.rows[j].status),
                        Metered(T2.rows[j].resource)
                 PROVE  <<T2.rows[j].resource, T2.rows[j].window>> \in T2.claims
    BY DEF Claimed
  <2>2. CASE j = i
    BY <1>1, <1>3, <2>1, <2>2 DEF ClaimOf
  <2>3. CASE j # i
    BY <1>1, <2>1, <2>3 DEF Sound, Claimed
  <2>. QED
    BY <2>2, <2>3
<1>7. Bounded(T2)
  <2>1. SUFFICES ASSUME NEW r \in Resource, NEW t \in Instant, Metered(r),
                        NEW c \in T2.claims, c[1] = r, Covers(c[2], t)
                 PROVE  /\ ~T.catalog[r].archived /\ ~T.catalog[r].unavailable
                        /\ Load(T2.rows, r, t) <= T.catalog[r].total
    BY DEF Bounded
  <2>2. T.catalog[r] \in ResourceRow /\ T.catalog[r].total \in Nat
    BY <1>1 DEF ResourceRow
  <2>3. t \in Nat
    BY InstantType
  <2>4. CASE /\ statusConsumesCapacity(row.status)
             /\ row.resource = r /\ Covers(row.window, t)
    <3>1. /\ ~T.catalog[r].archived
          /\ \E excluded \in {NoSlot, i} :
                 row.quantity <= availableQuantity(T.catalog[r], T.rows, r,
                                                   row.window, excluded)
      BY <1>3, <2>1, <2>4
    <3>2. PICK excluded \in {NoSlot, i} :
              row.quantity <= availableQuantity(T.catalog[r], T.rows, r,
                                                row.window, excluded)
      BY <3>1
    <3>3. /\ ~T.catalog[r].unavailable
          /\ Cardinality(OverlappingUnits(T.rows, r, row.window, excluded))
                 + row.quantity <= T.catalog[r].total
      BY <1>2, <2>2, <3>2, AvailableQuantity
    <3>4. Load([T.rows EXCEPT ![i] = row], r, t) <= T.catalog[r].total
      BY <1>1, <2>2, <2>3, <2>4, <3>3, LoadAfterWrite
    <3>. QED
      BY <3>1, <3>3, <3>4
  <2>5. CASE ~(/\ statusConsumesCapacity(row.status)
               /\ row.resource = r /\ Covers(row.window, t))
    <3>1. c \in T.claims
      BY <2>1, <2>5 DEF ClaimOf
    <3>2. /\ ~T.catalog[r].archived /\ ~T.catalog[r].unavailable
          /\ Load(T.rows, r, t) <= T.catalog[r].total
      BY <2>1, <3>1 DEF Sound, Bounded
    <3>3. UnitsAt(T2.rows, r, t) \subseteq UnitsAt(T.rows, r, t)
      BY <1>1, <2>5 DEF UnitsAt
    <3>4. /\ Load(T2.rows, r, t) \in Nat /\ Load(T.rows, r, t) \in Nat
          /\ Load(T2.rows, r, t) <= Load(T.rows, r, t)
      BY <3>3, LoadMonotone
    <3>. QED
      BY <2>2, <3>2, <3>4
  <2>. QED
    BY <2>4, <2>5
<1>. QED
  BY <1>4, <1>5, <1>6, <1>7 DEF Sound

-----------------------------------------------------------------------------
(***************************************************************************)
(* The steps of a transaction                                              *)
(***************************************************************************)

\* A step that replaces one transaction by a sound one and leaves the tables alone.
LEMMA TxnStepInv ==
    ASSUME IInv, TypeInv', NEW p \in Proc, NEW T, Sound(T),
           txn' = [txn EXCEPT ![p] = T], UNCHANGED <<tables, seen>>
    PROVE  IInv'
<1>1. reservation' = reservation /\ resource' = resource /\ seen' = seen
  BY DEF tables
<1>2. NoOverbooking'
  BY <1>1 DEF IInv, NoOverbooking, Metered
<1>3. CatalogSeen'
  BY <1>1 DEF IInv, CatalogSeen
<1>4. ASSUME NEW q \in Proc, Active(q)'
      PROVE  Sound(txn[q])'
  <2>1. Sound(txn'[q])
    <3>1. CASE q = p
      BY <3>1 DEF IInv, TypeInv, TypeOK
    <3>2. CASE q # p
      <4>1. txn'[q] = txn[q]
        BY <3>2 DEF IInv, TypeInv, TypeOK
      <4>. QED
        BY <1>4, <4>1 DEF IInv, SoundInv, Active
    <3>. QED
      BY <3>1, <3>2
  <2>2. Tracked(txn[q])'
    BY <1>1, <2>1 DEF Sound, Tracked, Metered
  <2>3. Bounded(txn[q])'
    BY <1>1, <2>1 DEF Sound, Bounded, Metered
  <2>4. Claimed(txn[q])'
    BY <1>1, <2>1 DEF Sound, Claimed, Metered
  <2>5. Known(txn[q])'
    BY <1>1, <2>1 DEF Sound, Known
  <2>. QED
    BY <2>2, <2>3, <2>4, <2>5 DEF Sound
<1>. QED
  BY <1>2, <1>3, <1>4 DEF IInv, SoundInv

\* A transaction that has read and written nothing yet is sound.
LEMMA BeginInv ==
    ASSUME IInv, TypeInv', NEW p \in Proc, NEW op, NEW event, NEW reason, NEW todo,
           Begin(p, op, event, reason, todo)
    PROVE  IInv'
<1>. DEFINE T == [op |-> op, event |-> event, reason |-> reason, todo |-> todo,
                  catalog |-> resource, rows |-> reservation, allocs |-> allocation,
                  locks |-> {}, wrote |-> {}, stale |-> {}, claims |-> {},
                  rivals |-> {}]
<1>1. Sound(T)
  <2>1. T.rows = reservation /\ T.catalog = resource /\ T.wrote = {} /\ T.claims = {}
    OBVIOUS
  <2>. HIDE DEF T
  <2>2. Tracked(T) /\ Bounded(T) /\ Claimed(T)
    BY <2>1 DEF Tracked, Bounded, Claimed
  <2>3. Known(T)
    BY <2>1 DEF Known, IInv, CatalogSeen
  <2>. QED
    BY <2>2, <2>3 DEF Sound
<1>2. txn' = [txn EXCEPT ![p] = T] /\ UNCHANGED <<tables, seen>>
  BY DEF Begin
<1>. HIDE DEF T
<1>. QED
  BY <1>1, <1>2, TxnStepInv

\* Every request starts a sound transaction.
LEMMA NewRequestInv ==
    ASSUME IInv, TypeInv', NEW p \in Proc, NewRequest(p)
    PROVE  IInv'
BY BeginInv DEF NewRequest, BeginCreate, BeginUpdate, BeginConfirm, BeginAllocate,
                BeginRelease

\* createReservation keeps its transaction sound: it inserts what the check of
\* its own snapshot admitted.
LEMMA CreateInv ==
    ASSUME IInv, TypeInv', NEW p \in Proc, createReservation(p)
    PROVE  IInv'
<1>. DEFINE req == Head(txn[p].todo)
            res == txn[p].catalog[req.resource]
            i == CHOOSE i \in FreshSlots : TRUE
            row == [resource |-> req.resource, quantity |-> req.quantity,
                    window |-> req.window, status |-> req.status,
                    event |-> txn[p].event]
            T == [WriteRow(p, i, row) EXCEPT !.op = "commit"]
<1>1. txn[p] \in Txn /\ txn[p].todo # << >> /\ req \in Request
  BY TodoHead DEF createReservation, IInv
<1>2. i \in Slot
  BY DEF createReservation, FreshSlots
<1>3. row \in Row
  BY <1>1 DEF Request, Row, Txn
<1>4. WriteRow(p, i, row) \in Txn
  BY <1>1, <1>2, <1>3, WriteRowType DEF TypeInv, IInv
<1>5. txn' = [txn EXCEPT ![p] = T] /\ UNCHANGED <<tables, seen>>
  BY DEF createReservation
<1>6. Sound(txn[p])
  BY DEF IInv, SoundInv, createReservation, Active
<1>7. statusConsumesCapacity(req.status) /\ res.mode # "UNLIMITED" =>
          /\ ~res.archived
          /\ req.quantity <= availableQuantity(res, txn[p].rows, req.resource,
                                               req.window, NoSlot)
  BY DEF createReservation, canFulfill
<1>8. Sound(T)
  <2>1. T \in Txn
    BY <1>4 DEF Txn
  <2>2. /\ T.rows = [txn[p].rows EXCEPT ![i] = row]
        /\ T.catalog = txn[p].catalog /\ T.rivals = txn[p].rivals
        /\ T.claims = txn[p].claims \cup ClaimOf(txn[p].catalog[row.resource],
                                         row.resource, row.window, row.status)
        /\ T.wrote = txn[p].wrote \cup {i}
    BY <1>1 DEF WriteRow, Txn
  <2>3. Slot \cap T.wrote = (Slot \cap txn[p].wrote) \cup {i}
    BY <1>2, <2>2
  <2>4. /\ row.resource = req.resource /\ row.quantity = req.quantity
        /\ row.window = req.window /\ row.status = req.status
    OBVIOUS
  <2>. HIDE DEF T, row, i, req
  <2>. QED
    BY <1>1, <1>2, <1>3, <1>6, <1>7, <2>1, <2>2, <2>3, <2>4, SoundAfterWrite
<1>. HIDE DEF T
<1>. QED
  BY <1>5, <1>8, TxnStepInv

\* updateReservation and confirmReservation keep their transaction sound.
LEMMA UpdateInv ==
    ASSUME IInv, TypeInv', NEW p \in Proc, updateReservation(p)
    PROVE  IInv'
<1>. DEFINE req == Head(txn[p].todo)
            i == req.slot
            current == txn[p].rows[i]
            res == txn[p].catalog[current.resource]
            row == [current EXCEPT !.quantity = req.quantity,
                                   !.window = req.window,
                                   !.status = req.status]
            T == [WriteRow(p, i, row) EXCEPT !.op = "commit"]
<1>1. txn[p] \in Txn /\ txn[p].todo # << >> /\ req \in Request
  BY TodoHead DEF updateReservation, IInv
<1>2. i \in Slot
  BY DEF updateReservation, TypeInv, TodoOK, IInv
<1>3. /\ row \in Row /\ row.resource = current.resource
      /\ row.quantity = req.quantity
      /\ row.window = req.window /\ row.status = req.status
  <2>1. current \in Row
    BY <1>1, <1>2 DEF Txn
  <2>. QED
    BY <1>1, <2>1 DEF Request, Row
<1>4. WriteRow(p, i, row) \in Txn
  BY <1>1, <1>2, <1>3, WriteRowType DEF TypeInv, IInv
<1>5. txn' = [txn EXCEPT ![p] = T] /\ UNCHANGED <<tables, seen>>
  BY DEF updateReservation
<1>6. Sound(txn[p])
  BY DEF IInv, SoundInv, updateReservation, Active
<1>7. statusConsumesCapacity(req.status) /\ res.mode # "UNLIMITED" =>
          /\ ~res.archived
          /\ req.quantity <= availableQuantity(res, txn[p].rows, current.resource,
                                               req.window, i)
  BY DEF updateReservation, canFulfill
<1>8. Sound(T)
  <2>1. T \in Txn
    BY <1>4 DEF Txn
  <2>2. /\ T.rows = [txn[p].rows EXCEPT ![i] = row]
        /\ T.catalog = txn[p].catalog /\ T.rivals = txn[p].rivals
        /\ T.claims = txn[p].claims \cup ClaimOf(txn[p].catalog[row.resource],
                                         row.resource, row.window, row.status)
        /\ T.wrote = txn[p].wrote \cup {i}
    BY <1>1 DEF WriteRow, Txn
  <2>3. Slot \cap T.wrote = (Slot \cap txn[p].wrote) \cup {i}
    BY <1>2, <2>2
  <2>. HIDE DEF T, row, i, req, current
  <2>. QED
    BY <1>1, <1>2, <1>3, <1>6, <1>7, <2>1, <2>2, <2>3, SoundAfterWrite
<1>. HIDE DEF T
<1>. QED
  BY <1>5, <1>8, TxnStepInv

\* One request of reserveResourcesForEvent keeps its transaction sound.
LEMMA AllocateInv ==
    ASSUME IInv, TypeInv', NEW p \in Proc, reserveResourcesForEvent(p)
    PROVE  IInv'
<1>. DEFINE req == Head(txn[p].todo)
            res == txn[p].catalog[req.resource]
            reserved == quantityReserved(res, txn[p].rows, req)
            i == IF reserved > 0 THEN CHOOSE i \in FreshSlots : TRUE ELSE NoSlot
            a == CHOOSE a \in FreshAllocs : TRUE
            row == [resource |-> req.resource, quantity |-> reserved,
                    window |-> req.window, status |-> "RESERVED",
                    event |-> txn[p].event]
            wrote == IF reserved > 0
                     THEN WriteRow(p, i, row)
                     ELSE [txn[p] EXCEPT !.locks = @ \cup {req.resource},
                                         !.todo = Tail(@)]
            alloc == AllocationRow(txn[p].event, req, i, reserved)
            T == [wrote EXCEPT !.allocs = [@ EXCEPT ![a] = alloc],
                               !.wrote = @ \cup {a},
                               !.op = IF Len(txn[p].todo) = 1 THEN "commit" ELSE @]
<1>1. txn[p] \in Txn /\ txn[p].todo # << >> /\ req \in Request
      /\ Tail(txn[p].todo) \in Seq(Request)
  BY TodoHead DEF reserveResourcesForEvent, IInv
<1>2. req.resource \in Resource /\ req.quantity \in Quantity /\ req.window \in Window
  BY <1>1 DEF Request
<1>3. /\ reserved \in 0..req.quantity
      /\ res.mode # "UNLIMITED" =>
             reserved <= availableQuantity(res, txn[p].rows, req.resource,
                                           req.window, NoSlot)
  <2>1. res \in ResourceRow
    BY <1>1, <1>2 DEF Txn
  <2>. QED
    BY <1>1, <2>1, QuantityReserved
<1>4. ~res.archived /\ (reserved > 0 => i \in Slot) /\ a \in AllocId
  BY DEF reserveResourcesForEvent, FreshSlots, FreshAllocs
<1>5. txn' = [txn EXCEPT ![p] = T] /\ UNCHANGED <<tables, seen>>
  BY DEF reserveResourcesForEvent
<1>6. Sound(txn[p])
  BY DEF IInv, SoundInv, reserveResourcesForEvent, Active
<1>. HIDE DEF reserved, a
<1>7. wrote \in Txn /\ Sound(wrote)
  <2>1. CASE reserved > 0
    <3>1. i \in Slot /\ reserved \in Quantity
      BY <1>2, <1>3, <1>4, <2>1, ConstantsAssumption DEF Quantity
    <3>. HIDE DEF i
    <3>2. row \in Row
      BY <1>1, <1>2, <3>1 DEF Row, Txn, ReservationStatus, CAPACITY_CONSUMING_STATUSES
    <3>3. WriteRow(p, i, row) \in Txn
      BY <1>1, <3>1, <3>2, WriteRowType DEF TypeInv, IInv
    <3>. DEFINE W == WriteRow(p, i, row)
    <3>4. /\ W.rows = [txn[p].rows EXCEPT ![i] = row]
          /\ W.catalog = txn[p].catalog /\ W.rivals = txn[p].rivals
          /\ W.claims = txn[p].claims \cup ClaimOf(txn[p].catalog[row.resource],
                                           row.resource, row.window, row.status)
          /\ W.wrote = txn[p].wrote \cup {i}
      BY <1>1 DEF WriteRow, Txn
    <3>5. Slot \cap W.wrote = (Slot \cap txn[p].wrote) \cup {i}
      BY <3>1, <3>4
    <3>6. /\ row.resource = req.resource /\ row.quantity = reserved
          /\ row.window = req.window
      OBVIOUS
    <3>7. W \in Txn
      BY <3>3
    <3>. HIDE DEF W, row, req
    <3>8. Sound(W)
      BY <1>1, <1>3, <1>4, <1>6, <3>1, <3>2, <3>4, <3>5, <3>6, <3>7, SoundAfterWrite
    <3>. QED
      BY <2>1, <3>7, <3>8 DEF W
  <2>2. CASE ~(reserved > 0)
    <3>. DEFINE W == [txn[p] EXCEPT !.locks = @ \cup {req.resource}, !.todo = Tail(@)]
    <3>1. txn[p].locks \cup {req.resource} \in SUBSET Resource
      BY <1>1, <1>2 DEF Txn
    <3>. HIDE DEF req
    <3>2. W \in Txn
      BY <1>1, <3>1 DEF Txn
    <3>3. /\ W.rows = txn[p].rows /\ W.catalog = txn[p].catalog
          /\ W.claims = txn[p].claims /\ W.rivals = txn[p].rivals
          /\ W.wrote = txn[p].wrote
      BY <1>1 DEF Txn
    <3>. HIDE DEF W
    <3>4. Sound(W)
      BY <1>6, <3>3, SoundFields
    <3>. QED
      BY <2>2, <3>2, <3>4 DEF W
  <2>. QED
    BY <2>1, <2>2
<1>. HIDE DEF wrote, alloc
<1>8. Sound(T)
  <2>1. /\ T.rows = wrote.rows /\ T.catalog = wrote.catalog
        /\ T.claims = wrote.claims /\ T.rivals = wrote.rivals
        /\ T.wrote = wrote.wrote \cup {a}
    BY <1>7 DEF Txn
  <2>2. Slot \cap T.wrote = Slot \cap wrote.wrote
    BY <1>4, <2>1, ConstantsAssumption
  <2>. HIDE DEF T
  <2>. QED
    BY <1>7, <2>1, <2>2, SoundFields
<1>. HIDE DEF T
<1>. QED
  BY <1>5, <1>8, TxnStepInv

\* Settling an allocation keeps its transaction sound: it only frees capacity.
LEMMA ReleaseAllocationInv ==
    ASSUME IInv, TypeInv', NEW p \in Proc, NEW a \in AllocId, releaseAllocation(p, a)
    PROVE  IInv'
<1>. DEFINE old == txn[p].allocs[a]
            status == IF txn[p].reason = "Completed" THEN "RELEASED" ELSE "CANCELLED"
            row == [txn[p].rows[old.slot] EXCEPT !.status = status]
            T == txn'[p]
<1>1. txn[p] \in Txn /\ txn[p].op = "release"
  BY ActiveTxn DEF releaseAllocation, Active, TypeInv, IInv
<1>2. /\ txn[p].rows \in [Slot -> Row] /\ txn[p].allocs \in [AllocId -> AllocRow]
      /\ txn[p].claims \subseteq Claim
  BY <1>1 DEF Txn
<1>3. old.slot \in Slot \cup {NoSlot}
  BY <1>2 DEF AllocRow
<1>4. /\ T.rows = IF old.slot = NoSlot THEN txn[p].rows
                  ELSE [txn[p].rows EXCEPT ![old.slot] = row]
      /\ T.catalog = txn[p].catalog /\ T.rivals = txn[p].rivals
      /\ T.claims = txn[p].claims
      /\ T.wrote = txn[p].wrote \cup {a} \cup ({old.slot} \ {NoSlot})
      /\ T.op = "release"
  BY <1>1 DEF releaseAllocation, IInv, TypeInv, TypeOK, Txn
<1>5. T \in Txn
  <2>1. T \in Txn \cup {Idle}
    BY DEF TypeInv, TypeOK
  <2>2. Idle.op # "release"
    BY DEF Idle
  <2>. QED
    BY <1>4, <2>1, <2>2
<1>6. /\ txn' = [txn EXCEPT ![p] = T]
      /\ UNCHANGED <<tables, seen>>
  <2>1. \E R : txn' = [txn EXCEPT ![p] = R]
    BY DEF releaseAllocation
  <2>. QED
    BY <2>1 DEF releaseAllocation, IInv, TypeInv, TypeOK
<1>7. Sound(txn[p])
  BY <1>1 DEF IInv, SoundInv, Active
<1>. HIDE DEF T, old
<1>8. Sound(T)
  <2>1. CASE old.slot = NoSlot
    <3>1. Slot \cap T.wrote = Slot \cap txn[p].wrote
      BY <1>4, <2>1, ConstantsAssumption
    <3>. QED
      BY <1>4, <1>7, <2>1, <3>1, SoundFields
  <2>2. CASE old.slot # NoSlot
    <3>1. old.slot \in Slot
      BY <1>3, <2>2
    <3>2. row \in Row /\ ~statusConsumesCapacity(row.status)
      <4>1. txn[p].rows[old.slot] \in Row
        BY <1>2, <3>1
      <4>2. status \in ReservationStatus /\ ~statusConsumesCapacity(status)
        BY DEF ReservationStatus, statusConsumesCapacity, CAPACITY_CONSUMING_STATUSES
      <4>. QED
        BY <4>1, <4>2 DEF Row
    <3>. HIDE DEF row
    <3>3. T.claims = txn[p].claims \cup ClaimOf(txn[p].catalog[row.resource],
                                       row.resource, row.window, row.status)
      BY <1>4, <3>2 DEF ClaimOf
    <3>4. Slot \cap T.wrote = (Slot \cap txn[p].wrote) \cup {old.slot}
      BY <1>4, <2>2, <3>1, ConstantsAssumption
    <3>5. T.rows = [txn[p].rows EXCEPT ![old.slot] = row]
      BY <1>4, <2>2
    <3>. QED
      BY <1>1, <1>4, <1>5, <1>7, <3>1, <3>2, <3>3, <3>4, <3>5, SoundAfterWrite
  <2>. QED
    BY <2>1, <2>2
<1>. QED
  BY <1>6, <1>8, TxnStepInv

\* Closing outstandings writes no reservation.
LEMMA CancelOutstandingsInv ==
    ASSUME IInv, TypeInv', NEW p \in Proc, cancelOutstandings(p)
    PROVE  IInv'
<1>. DEFINE open == OpenOutstandings(p)
            allocs == [a \in AllocId |->
                          IF a \in open THEN [txn[p].allocs[a] EXCEPT !.open = FALSE]
                                        ELSE txn[p].allocs[a]]
            T == [txn[p] EXCEPT !.allocs = allocs, !.wrote = @ \cup open,
                                !.op = "commit"]
<1>1. txn[p] \in Txn
  BY ActiveTxn DEF cancelOutstandings, Active, TypeInv, IInv
<1>2. open \subseteq AllocId
  BY DEF OpenOutstandings
<1>3. txn' = [txn EXCEPT ![p] = T] /\ UNCHANGED <<tables, seen>>
  BY DEF cancelOutstandings
<1>4. Sound(txn[p])
  BY DEF IInv, SoundInv, cancelOutstandings, Active
<1>. HIDE DEF open, allocs
<1>5. /\ T.rows = txn[p].rows /\ T.catalog = txn[p].catalog
      /\ T.claims = txn[p].claims /\ T.rivals = txn[p].rivals
      /\ T.wrote = txn[p].wrote \cup open
  BY <1>1 DEF Txn
<1>6. Slot \cap T.wrote = Slot \cap txn[p].wrote
  BY <1>2, <1>5, ConstantsAssumption
<1>. HIDE DEF T
<1>7. Sound(T)
  BY <1>4, <1>5, <1>6, SoundFields
<1>. QED
  BY <1>3, <1>7, TxnStepInv

\* A rollback leaves the tables and the other transactions alone.
LEMMA AbortInv ==
    ASSUME IInv, TypeInv', NEW p \in Proc, Abort(p)
    PROVE  IInv'
<1>1. reservation' = reservation /\ resource' = resource /\ seen' = seen
  BY DEF Abort, tables
<1>2. NoOverbooking' /\ CatalogSeen'
  BY <1>1 DEF IInv, NoOverbooking, CatalogSeen, Metered
<1>3. ASSUME NEW q \in Proc, Active(q)'
      PROVE  Sound(txn[q])'
  <2>1. q # p /\ txn'[q] = txn[q]
    BY <1>3 DEF Abort, Active, Idle, IInv, TypeInv, TypeOK
  <2>2. Sound(txn[q])
    BY <1>3, <2>1 DEF IInv, SoundInv, Active
  <2>. QED
    BY <1>1, <2>1, <2>2 DEF Sound, Tracked, Bounded, Claimed, Known, Metered
<1>. QED
  BY <1>2, <1>3 DEF IInv, SoundInv

-----------------------------------------------------------------------------
(***************************************************************************)
(* Commits                                                                 *)
(***************************************************************************)

\* A commit raises the load of a resource at an instant only within the
\* capacity its own snapshot showed: where it claimed no window covering the
\* instant it added nothing, and where it did, every other reservation counted
\* now was in its view, or it would conflict with a rival.
LEMMA CommitLoad ==
    ASSUME IInv, NEW p \in Proc, Commit(p), NEW r \in Resource, NEW t \in Instant,
           Metered(r)
    PROVE  \/ Load(reservation', r, t) <= Load(reservation, r, t)
           \/ /\ ~txn[p].catalog[r].archived /\ ~txn[p].catalog[r].unavailable
              /\ Load(reservation', r, t) <= txn[p].catalog[r].total
<1>. DEFINE T == txn[p]
<1>1. T \in Txn /\ Sound(T)
  BY ActiveTxn DEF Commit, Active, IInv, TypeInv, SoundInv
<1>2. /\ T.rows \in [Slot -> Row] /\ T.wrote \in SUBSET (Slot \cup AllocId)
      /\ T.claims \subseteq Claim /\ T.catalog[r].total \in Nat
  BY <1>1 DEF Txn, ResourceRow
<1>3. \A i \in Slot : reservation'[i] = IF i \in T.wrote THEN T.rows[i] ELSE reservation[i]
  BY DEF Commit
<1>4. reservation \in [Slot -> Row]
  BY DEF IInv, TypeInv, TypeOK
<1>5. t \in Nat
  BY InstantType
<1>. HIDE DEF T
<1>6. CASE \E c \in T.claims : c[1] = r /\ Covers(c[2], t)
  <2>1. PICK c \in T.claims : c[1] = r /\ Covers(c[2], t)
    BY <1>6
  <2>2. /\ ~T.catalog[r].archived /\ ~T.catalog[r].unavailable
        /\ Load(T.rows, r, t) <= T.catalog[r].total
    BY <1>1, <2>1 DEF Sound, Bounded
  <2>3. ASSUME NEW i \in Slot, i \notin T.wrote,
               statusConsumesCapacity(reservation[i].status),
               reservation[i].resource = r, Covers(reservation[i].window, t)
        PROVE  T.rows[i] = reservation[i]
    <3>1. SUFFICES ASSUME <<r, reservation[i].window>> \in T.rivals PROVE FALSE
      BY <1>1, <2>3 DEF Sound, Tracked
    <3>2. c[2] \in Nat \X Nat /\ reservation[i].window \in Nat \X Nat
      BY <1>2, <1>4, <2>1, ConstantsAssumption DEF Claim, Row
    <3>3. Overlaps(c[2], reservation[i].window)
      BY <1>5, <2>1, <2>3, <3>2 DEF Covers, Overlaps
    <3>4. SerializationConflict(p)
      BY <2>1, <3>1, <3>3 DEF SerializationConflict, T
    <3>. QED
      BY <3>4 DEF Commit
  <2>4. UnitsAt(reservation', r, t) \subseteq UnitsAt(T.rows, r, t)
    <3>1. SUFFICES ASSUME NEW u \in UnitsAt(reservation', r, t)
                   PROVE  u \in UnitsAt(T.rows, r, t)
      OBVIOUS
    <3>2. u \in Slot \X Quantity /\ u[1] \in Slot
      BY <3>1 DEF UnitsAt
    <3>3. reservation'[u[1]] = T.rows[u[1]]
      BY <1>3, <2>3, <3>1, <3>2 DEF UnitsAt
    <3>. QED
      BY <3>1, <3>2, <3>3 DEF UnitsAt
  <2>5. /\ Load(reservation', r, t) \in Nat /\ Load(T.rows, r, t) \in Nat
        /\ Load(reservation', r, t) <= Load(T.rows, r, t)
    BY <2>4, LoadMonotone
  <2>6. Load(reservation', r, t) <= T.catalog[r].total
    BY <1>2, <2>2, <2>5
  <2>. QED
    BY <2>2, <2>6 DEF T
<1>7. CASE ~ \E c \in T.claims : c[1] = r /\ Covers(c[2], t)
  <2>1. UnitsAt(reservation', r, t) \subseteq UnitsAt(reservation, r, t)
    <3>1. SUFFICES ASSUME NEW u \in UnitsAt(reservation', r, t)
                   PROVE  u \in UnitsAt(reservation, r, t)
      OBVIOUS
    <3>2. u \in Slot \X Quantity /\ u[1] \in Slot
      BY <3>1 DEF UnitsAt
    <3>3. /\ statusConsumesCapacity(reservation'[u[1]].status)
          /\ reservation'[u[1]].resource = r /\ Covers(reservation'[u[1]].window, t)
      BY <3>1 DEF UnitsAt
    <3>4. u[1] \notin T.wrote
      <4>1. SUFFICES ASSUME u[1] \in T.wrote PROVE FALSE
        OBVIOUS
      <4>. DEFINE c == <<r, reservation'[u[1]].window>>
      <4>2. reservation'[u[1]] = T.rows[u[1]]
        BY <1>3, <3>2, <4>1
      <4>3. c \in T.claims
        BY <1>1, <3>2, <3>3, <4>1, <4>2 DEF Sound, Claimed
      <4>4. c[1] = r /\ Covers(c[2], t)
        BY <3>3
      <4>. QED
        BY <1>7, <4>3, <4>4
    <3>. QED
      BY <1>3, <3>1, <3>2, <3>4 DEF UnitsAt
  <2>. QED
    BY <2>1, LoadMonotone
<1>. QED
  BY <1>6, <1>7

\* A commit keeps the invariant, and the transactions still in progress learn
\* enough of it to stay sound.
LEMMA CommitInv ==
    ASSUME IInv, TypeInv', NEW p \in Proc, Commit(p)
    PROVE  IInv'
<1>1. txn[p] \in Txn /\ Sound(txn[p])
  BY ActiveTxn DEF Commit, Active, IInv, TypeInv, SoundInv
<1>2. resource' = resource /\ seen' = seen
  BY DEF Commit
<1>3. NoOverbooking'
  <2>1. SUFFICES ASSUME NEW r \in Resource, NEW t \in Instant, Metered(r)
                 PROVE  \E s \in seen[r] : Load(reservation', r, t) <= s[2]
    BY <1>2 DEF NoOverbooking, Metered
  <2>2. Load(reservation', r, t) \in Nat /\ Load(reservation, r, t) \in Nat
    BY LoadType
  <2>3. CASE Load(reservation', r, t) <= Load(reservation, r, t)
    <3>1. PICK s \in seen[r] : Load(reservation, r, t) <= s[2]
      BY <2>1 DEF IInv, NoOverbooking
    <3>2. s[2] \in Nat
      <4>1. seen[r] \subseteq QuantityMode \X Nat
        BY DEF IInv, TypeInv, TypeOK
      <4>2. s \in QuantityMode \X Nat
        BY <4>1
      <4>. QED
        BY <4>2
    <3>3. Load(reservation', r, t) <= s[2]
      BY <2>2, <2>3, <3>1, <3>2
    <3>. QED
      BY <3>3
  <2>4. CASE Load(reservation', r, t) <= txn[p].catalog[r].total
    <3>. DEFINE s == <<txn[p].catalog[r].mode, txn[p].catalog[r].total>>
    <3>1. s \in seen[r] /\ s[2] = txn[p].catalog[r].total
      BY <1>1 DEF Sound, Known
    <3>2. Load(reservation', r, t) <= s[2]
      BY <2>4
    <3>. QED
      BY <3>1, <3>2
  <2>. QED
    BY <2>1, <2>3, <2>4, CommitLoad
<1>4. CatalogSeen'
  BY <1>2 DEF IInv, CatalogSeen
<1>5. ASSUME NEW q \in Proc, Active(q)'
      PROVE  Sound(txn[q])'
  <2>1. q # p /\ Active(q)
    BY <1>5 DEF Commit, Publish, Active, Idle
  <2>2. txn[q] \in Txn /\ Sound(txn[q])
    BY <2>1, ActiveTxn DEF IInv, TypeInv, SoundInv
  <2>3. txn'[q] = [txn[q] EXCEPT !.stale = @ \cup txn[p].wrote,
                                 !.rivals = @ \cup txn[p].claims]
    BY <2>1 DEF Commit, Publish
  <2>4. /\ txn'[q].rows = txn[q].rows /\ txn'[q].catalog = txn[q].catalog
        /\ txn'[q].claims = txn[q].claims /\ txn'[q].wrote = txn[q].wrote
        /\ txn'[q].rivals = txn[q].rivals \cup txn[p].claims
    BY <2>2, <2>3 DEF Txn
  <2>5. Tracked(txn[q])'
    <3>1. SUFFICES ASSUME NEW i \in Slot \ txn[q].wrote,
                          statusConsumesCapacity(reservation'[i].status),
                          Metered(reservation'[i].resource)
                   PROVE  \/ txn[q].rows[i] = reservation'[i]
                          \/ <<reservation'[i].resource, reservation'[i].window>>
                                 \in txn[q].rivals \cup txn[p].claims
      BY <1>2, <2>4 DEF Tracked, Metered
    <3>2. CASE i \in txn[p].wrote
      <4>1. reservation'[i] = txn[p].rows[i]
        BY <3>2 DEF Commit
      <4>. QED
        BY <1>1, <3>1, <3>2, <4>1 DEF Sound, Claimed
    <3>3. CASE i \notin txn[p].wrote
      <4>1. reservation'[i] = reservation[i]
        BY <3>3 DEF Commit
      <4>. QED
        BY <2>2, <3>1, <4>1 DEF Sound, Tracked
    <3>. QED
      BY <3>2, <3>3
  <2>6. Bounded(txn[q])' /\ Claimed(txn[q])' /\ Known(txn[q])'
    BY <1>2, <2>2, <2>4 DEF Sound, Bounded, Claimed, Known, Metered
  <2>. QED
    BY <2>5, <2>6 DEF Sound
<1>. QED
  BY <1>3, <1>4, <1>5 DEF IInv, SoundInv

-----------------------------------------------------------------------------
(***************************************************************************)
(* Plain updates                                                           *)
(***************************************************************************)

\* A plain cancel or release lowers loads only; a transaction that has written
\* the same row can no longer commit.
LEMMA FreedInv ==
    ASSUME IInv, TypeInv', NEW i \in Slot, NEW target \in FreedStatus,
           transitionReservationWithoutCapacityCheck(i, target)
    PROVE  IInv'
<1>1. resource' = resource /\ seen' = seen
  BY DEF transitionReservationWithoutCapacityCheck
<1>2. ~statusConsumesCapacity(target)
  BY ConstantsAssumption DEF statusConsumesCapacity, CAPACITY_CONSUMING_STATUSES
<1>3. /\ ~statusConsumesCapacity(reservation'[i].status)
      /\ \A j \in Slot \ {i} : reservation'[j] = reservation[j]
  <2>1. reservation[i] \in Row /\ reservation \in [Slot -> Row]
    BY DEF IInv, TypeInv, TypeOK
  <2>2. reservation'[i].status = target
    BY <2>1 DEF transitionReservationWithoutCapacityCheck, Row
  <2>. QED
    BY <1>2, <2>1, <2>2 DEF transitionReservationWithoutCapacityCheck
<1>4. NoOverbooking'
  <2>1. SUFFICES ASSUME NEW r \in Resource, NEW t \in Instant, Metered(r)
                 PROVE  \E s \in seen[r] : Load(reservation', r, t) <= s[2]
    BY <1>1 DEF NoOverbooking, Metered
  <2>2. UnitsAt(reservation', r, t) \subseteq UnitsAt(reservation, r, t)
    BY <1>3 DEF UnitsAt
  <2>3. /\ Load(reservation', r, t) \in Nat /\ Load(reservation, r, t) \in Nat
        /\ Load(reservation', r, t) <= Load(reservation, r, t)
    BY <2>2, LoadMonotone
  <2>4. PICK s \in seen[r] : Load(reservation, r, t) <= s[2]
    BY <2>1 DEF IInv, NoOverbooking
  <2>5. s[2] \in Nat
    <3>1. s \in QuantityMode \X Nat
      BY DEF IInv, TypeInv, TypeOK
    <3>. QED
      BY <3>1
  <2>. QED
    BY <2>3, <2>4, <2>5
<1>5. CatalogSeen'
  BY <1>1 DEF IInv, CatalogSeen
<1>6. ASSUME NEW q \in Proc, Active(q)'
      PROVE  Sound(txn[q])'
  <2>1. Active(q)
    BY <1>6 DEF transitionReservationWithoutCapacityCheck, Active, Idle
  <2>2. txn[q] \in Txn /\ Sound(txn[q])
    BY <2>1, ActiveTxn DEF IInv, TypeInv, SoundInv
  <2>3. txn'[q] = [txn[q] EXCEPT !.stale = @ \cup {i}]
    BY <2>1 DEF transitionReservationWithoutCapacityCheck
  <2>4. /\ txn'[q].rows = txn[q].rows /\ txn'[q].catalog = txn[q].catalog
        /\ txn'[q].claims = txn[q].claims /\ txn'[q].wrote = txn[q].wrote
        /\ txn'[q].rivals = txn[q].rivals
    BY <2>2, <2>3 DEF Txn
  <2>5. Tracked(txn[q])'
    BY <1>1, <1>3, <2>2, <2>4 DEF Sound, Tracked, Metered
  <2>6. Bounded(txn[q])' /\ Claimed(txn[q])' /\ Known(txn[q])'
    BY <1>1, <2>2, <2>4 DEF Sound, Bounded, Claimed, Known, Metered
  <2>. QED
    BY <2>5, <2>6 DEF Sound
<1>. QED
  BY <1>4, <1>5, <1>6 DEF IInv, SoundInv

\* Editing, archiving or restoring a resource only adds to what it has been.
LEMMA ResourceEditInv ==
    ASSUME IInv, TypeInv', reservation' = reservation, txn' = txn, CatalogSeen',
           \A r \in Resource : seen[r] \subseteq seen'[r]
    PROVE  IInv'
<1>1. ASSUME NEW r \in Resource, Metered(r)'
      PROVE  Metered(r)
  BY <1>1 DEF Metered
<1>2. NoOverbooking'
  <2>1. SUFFICES ASSUME NEW r \in Resource, NEW t \in Instant, Metered(r)
                 PROVE  \E s \in seen'[r] : Load(reservation, r, t) <= s[2]
    BY <1>1 DEF NoOverbooking
  <2>. QED
    BY <2>1 DEF IInv, NoOverbooking
<1>3. ASSUME NEW q \in Proc, Active(q)'
      PROVE  Sound(txn[q])'
  <2>1. txn[q] \in Txn /\ Sound(txn[q])
    BY <1>3, ActiveTxn DEF IInv, TypeInv, SoundInv, Active
  <2>2. txn[q].rows \in [Slot -> Row] /\ reservation \in [Slot -> Row]
    BY <2>1 DEF Txn, IInv, TypeInv, TypeOK
  <2>3. Tracked(txn[q])'
    <3>1. \A i \in Slot : reservation[i].resource \in Resource
      BY <2>2 DEF Row
    <3>. QED
      BY <1>1, <2>1, <3>1 DEF Sound, Tracked
  <2>4. Bounded(txn[q])'
    BY <1>1, <2>1 DEF Sound, Bounded
  <2>5. Claimed(txn[q])'
    <3>1. \A i \in Slot : txn[q].rows[i].resource \in Resource
      BY <2>2 DEF Row
    <3>. QED
      BY <1>1, <2>1, <3>1 DEF Sound, Claimed
  <2>6. Known(txn[q])'
    BY <2>1 DEF Sound, Known
  <2>. QED
    BY <2>3, <2>4, <2>5, <2>6 DEF Sound
<1>. QED
  BY <1>2, <1>3 DEF IInv, SoundInv

\* The plain updates keep the invariant.
LEMMA PlainUpdateInv ==
    ASSUME IInv, TypeInv', PlainUpdate
    PROVE  IInv'
<1>1. ASSUME NEW r \in Resource, NEW s \in ResourceInput, updateResource(r, s)
      PROVE  IInv'
  <2>1. /\ resource' = [resource EXCEPT ![r] =
                            [NewResource(s) EXCEPT !.archived = resource[r].archived]]
        /\ seen' = [seen EXCEPT ![r] = seen[r] \cup {<<s.mode, s.total>>}]
        /\ reservation' = reservation /\ txn' = txn
    BY <1>1 DEF updateResource
  <2>2. \A x \in Resource : seen[x] \subseteq seen'[x]
    BY <2>1 DEF IInv, TypeInv, TypeOK
  <2>3. resource'[r].mode = s.mode /\ resource'[r].total = s.total
    BY <2>1 DEF NewResource, IInv, TypeInv, TypeOK
  <2>4. CatalogSeen'
    BY <2>1, <2>3 DEF CatalogSeen, IInv, TypeInv, TypeOK
  <2>. QED
    BY <2>1, <2>2, <2>4, ResourceEditInv
<1>2. ASSUME NEW r \in Resource, archiveResource(r) \/ restoreResource(r)
      PROVE  IInv'
  <2>1. reservation' = reservation /\ txn' = txn /\ seen' = seen
    BY <1>2 DEF archiveResource, restoreResource
  <2>2. \A x \in Resource : /\ resource'[x].mode = resource[x].mode
                            /\ resource'[x].total = resource[x].total
    <3>1. resource \in [Resource -> ResourceRow]
      BY DEF IInv, TypeInv, TypeOK
    <3>. QED
      BY <1>2, <3>1 DEF archiveResource, restoreResource, ResourceRow
  <2>3. CatalogSeen'
    BY <2>1, <2>2 DEF CatalogSeen, IInv
  <2>. QED
    BY <2>1, <2>3, ResourceEditInv
<1>. QED
  BY <1>1, <1>2, FreedInv, ConstantsAssumption DEF PlainUpdate

-----------------------------------------------------------------------------
(***************************************************************************)
(* Admission is safe                                                       *)
(***************************************************************************)

\* The invariant holds initially.
LEMMA IInvInit == Init => IInv
<1>. SUFFICES ASSUME Init PROVE IInv
  OBVIOUS
<1>1. TypeInv
  BY TypeInit
<1>2. PICK given \in [Resource -> ResourceInput] :
          /\ resource = [r \in Resource |-> NewResource(given[r])]
          /\ seen = [r \in Resource |-> {<<given[r].mode, given[r].total>>}]
  BY DEF Init
<1>3. CatalogSeen
  BY <1>2 DEF CatalogSeen, NewResource
<1>4. NoOverbooking
  <2>1. SUFFICES ASSUME NEW r \in Resource, NEW t \in Instant
                 PROVE  \E s \in seen[r] : Load(reservation, r, t) <= s[2]
    BY DEF NoOverbooking
  <2>2. UnitsAt(reservation, r, t) = {}
    BY DEF Init, UnitsAt, FreeRow, statusConsumesCapacity, CAPACITY_CONSUMING_STATUSES
  <2>3. Load(reservation, r, t) = 0
    BY <2>2, FS_EmptySet DEF Load
  <2>4. <<resource[r].mode, resource[r].total>> \in seen[r] /\ resource[r].total \in Nat
    BY <1>1, <1>3 DEF CatalogSeen, TypeInv, TypeOK, ResourceRow
  <2>5. 0 <= <<resource[r].mode, resource[r].total>>[2]
    BY <2>4
  <2>. QED
    BY <2>3, <2>4, <2>5
<1>5. SoundInv
  BY DEF SoundInv, Active, Init, Idle
<1>. QED
  BY <1>1, <1>3, <1>4, <1>5 DEF IInv

\* Every step keeps the invariant.
LEMMA IInvNext == IInv /\ [Next]_vars => IInv'
<1>. SUFFICES ASSUME IInv, [Next]_vars PROVE IInv'
  OBVIOUS
<1>1. TypeInv'
  BY TypeNext DEF IInv
<1>2. CASE UNCHANGED vars
  BY <1>1, <1>2, ResourceEditInv DEF vars, IInv, CatalogSeen
<1>3. CASE PlainUpdate
  BY <1>1, <1>3, PlainUpdateInv
<1>4. ASSUME NEW p \in Proc, NewRequest(p) PROVE IInv'
  BY <1>1, <1>4, NewRequestInv
<1>5. ASSUME NEW p \in Proc, Step(p) PROVE IInv'
  BY <1>1, <1>5, CreateInv, UpdateInv, AllocateInv, ReleaseAllocationInv,
     CancelOutstandingsInv, CommitInv, AbortInv DEF Step
<1>. QED
  BY <1>2, <1>3, <1>4, <1>5 DEF Next

\* However many handlers create, change, confirm, allocate and release
\* reservations at once, and whatever plain updates run between their steps, the
\* reservations of a metered resource never add up to more than the largest
\* total it has had.
THEOREM OverbookingFree == Spec => []NoOverbooking
<1>1. Init => IInv
  BY IInvInit
<1>2. IInv /\ [Next]_vars => IInv'
  BY IInvNext
<1>3. IInv => NoOverbooking
  BY DEF IInv
<1>. QED
  BY <1>1, <1>2, <1>3, PTL DEF Spec

\* A step that raises a load is a commit.
LEMMA RaisingStep ==
    ASSUME IInv, Next, NEW r \in Resource, NEW t \in Instant,
           Load(reservation', r, t) > Load(reservation, r, t)
    PROVE  \E p \in Proc : Commit(p)
<1>1. Load(reservation', r, t) \in Nat /\ Load(reservation, r, t) \in Nat
  BY LoadType
<1>2. reservation' # reservation
  BY <1>1
<1>3. CASE PlainUpdate
  <2>1. PICK i \in Slot, target \in FreedStatus :
            transitionReservationWithoutCapacityCheck(i, target)
    BY <1>2, <1>3 DEF PlainUpdate, updateResource, archiveResource, restoreResource
  <2>2. ~statusConsumesCapacity(target)
    BY ConstantsAssumption DEF statusConsumesCapacity, CAPACITY_CONSUMING_STATUSES
  <2>3. reservation[i] \in Row /\ reservation \in [Slot -> Row]
    BY DEF IInv, TypeInv, TypeOK
  <2>4. reservation'[i].status = target
    BY <2>1, <2>3 DEF transitionReservationWithoutCapacityCheck, Row
  <2>5. \A j \in Slot \ {i} : reservation'[j] = reservation[j]
    BY <2>1, <2>3 DEF transitionReservationWithoutCapacityCheck
  <2>6. UnitsAt(reservation', r, t) \subseteq UnitsAt(reservation, r, t)
    BY <2>2, <2>4, <2>5 DEF UnitsAt
  <2>7. Load(reservation', r, t) <= Load(reservation, r, t)
    BY <2>6, LoadMonotone
  <2>. QED
    BY <1>1, <2>7
<1>4. ASSUME NEW p \in Proc, NewRequest(p) PROVE FALSE
  BY <1>2, <1>4 DEF NewRequest, BeginCreate, BeginUpdate, BeginConfirm, BeginAllocate,
                    BeginRelease, Begin, tables
<1>5. ASSUME NEW p \in Proc, Step(p) PROVE Commit(p)
  BY <1>2, <1>5 DEF Step, createReservation, updateReservation, tables,
                    reserveResourcesForEvent, releaseAllocation, cancelOutstandings, Abort
<1>. QED
  BY <1>3, <1>4, <1>5 DEF Next

\* A step that raises a load is a commit whose own snapshot admits what results.
LEMMA RaisingAdmitted ==
    ASSUME IInv, [Next]_vars, NEW r \in Resource, NEW t \in Instant, Metered(r),
           Load(reservation', r, t) > Load(reservation, r, t)
    PROVE  \E p \in Proc :
              /\ txn[p].op = "commit"
              /\ ~txn[p].catalog[r].archived
              /\ ~txn[p].catalog[r].unavailable
              /\ Load(reservation', r, t) <= txn[p].catalog[r].total
<1>1. Load(reservation', r, t) \in Nat /\ Load(reservation, r, t) \in Nat
  BY LoadType
<1>2. ~UNCHANGED vars
  <2>1. UNCHANGED vars => Load(reservation', r, t) = Load(reservation, r, t)
    BY DEF vars
  <2>. QED
    BY <1>1, <2>1
<1>3. PICK p \in Proc : Commit(p)
  BY <1>2, RaisingStep
<1>4. \/ Load(reservation', r, t) <= Load(reservation, r, t)
      \/ /\ ~txn[p].catalog[r].archived /\ ~txn[p].catalog[r].unavailable
         /\ Load(reservation', r, t) <= txn[p].catalog[r].total
  BY <1>3, CommitLoad
<1>. QED
  BY <1>1, <1>3, <1>4 DEF Commit

\* No admission is decided on capacity another handler was given in the meantime:
\* whatever raises a load is a commit whose own snapshot had the resource active,
\* in service and large enough for the load that results.
THEOREM AdmissionSound == Spec => AdmissionWithinCapacity
<1>1. Init => IInv
  BY IInvInit
<1>2. IInv /\ [Next]_vars => IInv'
  BY IInvNext
<1>3. IInv /\ [Next]_vars =>
          \A r \in Resource, t \in Instant :
              Metered(r) /\ Load(reservation', r, t) > Load(reservation, r, t) =>
                  \E p \in Proc :
                      /\ txn[p].op = "commit"
                      /\ ~txn[p].catalog[r].archived
                      /\ ~txn[p].catalog[r].unavailable
                      /\ Load(reservation', r, t) <= txn[p].catalog[r].total
  BY RaisingAdmitted
<1>. QED
  BY <1>1, <1>2, <1>3, PTL DEF Spec, AdmissionWithinCapacity

-----------------------------------------------------------------------------
(***************************************************************************)
(* Allocations: the invariant                                              *)
(*                                                                         *)
(* A commit writes the rows of a snapshot over the tables, so what relates *)
(* an allocation to its reservation survives only because rows keep their  *)
(* identity, because a row two transactions wrote makes the later one fail *)
(* (stale), and because the rows one inserts nobody else has.              *)
(***************************************************************************)

\* Allocations that exist.
Live(row) == row.status \notin {"Free", "Deleted"}

Settled(row) == row.status \notin {"Free", "Reserved"}

\* The rows of an allocation and its reservation agree.
Backed(allocs, rows) ==
    \A a \in AllocId : LET row == allocs[a] IN
        Live(row) =>
            /\ row.requested = row.reserved + row.outstanding
            /\ (row.slot = NoSlot) <=> (row.reserved = 0)
            /\ row.slot # NoSlot => /\ rows[row.slot].status # "FREE"
                                    /\ rows[row.slot].event = row.event
                                    /\ rows[row.slot].resource = row.resource

\* No reservation is that of two allocations.
Unshared(allocs) ==
    \A a, b \in AllocId :
        a # b /\ Live(allocs[a]) /\ Live(allocs[b]) /\ allocs[a].slot # NoSlot =>
            allocs[b].slot # allocs[a].slot

OpenWhileReserved(allocs) ==
    \A a \in AllocId :
        allocs[a].open => allocs[a].status = "Reserved" /\ allocs[a].outstanding > 0

TablesInv ==
    /\ Backed(allocation, reservation) /\ Unshared(allocation)
    /\ OpenWhileReserved(allocation)

\* What a transaction sees is accounted for too, but for the outstandings a
\* release closes at its end.
ViewInv(T) ==
    /\ Backed(T.allocs, T.rows) /\ Unshared(T.allocs)
    /\ \A a \in AllocId : T.allocs[a].open =>
          /\ T.allocs[a].outstanding > 0
          /\ \/ T.allocs[a].status = "Reserved"
             \/ T.op = "release" /\ a \in T.wrote /\ T.allocs[a].event = T.event

\* A reservation that exists keeps its event and resource; one the tables do not
\* have yet is one the transaction inserted.
RowsFollow(T) ==
    /\ \A i \in Slot : T.rows[i].status # "FREE" =>
          IF reservation[i].status = "FREE" THEN i \in T.wrote
          ELSE /\ T.rows[i].event = reservation[i].event
               /\ T.rows[i].resource = reservation[i].resource
    /\ \A i \in Slot \cap T.wrote : T.rows[i].status # "FREE"

\* The same of allocations, their event and their reservation; and one inserted
\* together with its reservation stays without it in the tables.
AllocsFollow(T) ==
    /\ \A a \in AllocId : T.allocs[a].status # "Free" =>
          IF allocation[a].status = "Free" THEN a \in T.wrote
          ELSE /\ T.allocs[a].event = allocation[a].event
               /\ T.allocs[a].slot = allocation[a].slot
    /\ \A a \in AllocId \cap T.wrote :
          /\ Live(T.allocs[a])
          /\ allocation[a].status = "Free" /\ T.allocs[a].slot # NoSlot =>
                /\ T.allocs[a].slot \in T.wrote
                /\ reservation[T.allocs[a].slot].status = "FREE"

\* What PostgreSQL has not marked stale is as the transaction saw it; what was
\* settled stays settled.
AllocsFresh(T) ==
    \A a \in AllocId :
        /\ a \in T.wrote /\ a \notin T.stale => ~Settled(allocation[a])
        /\ a \notin T.wrote /\ a \notin T.stale => T.allocs[a] = allocation[a]
        /\ a \notin T.wrote /\ Settled(T.allocs[a]) => Settled(allocation[a])

\* A settled allocation has given up its reservation.
Freed(T) ==
    \A a \in AllocId \cap T.wrote :
        Settled(T.allocs[a]) /\ T.allocs[a].slot # NoSlot =>
            /\ T.allocs[a].slot \in T.wrote
            /\ T.rows[T.allocs[a].slot].status \in {"RELEASED", "CANCELLED"}

\* A release writes allocations that exist, and all those of its event.
ReleaseWhole(T) ==
    IF T.reason = "" THEN T.op # "release"
    ELSE /\ T.op \in {"release", "commit"}
         /\ \A a \in AllocId \cap T.wrote : allocation[a].status # "Free"
         /\ T.op = "commit" => \A a \in AllocId :
               T.allocs[a].event = T.event => T.allocs[a].status # "Reserved"

\* A reservation is inserted, or updated, with a status.
Started(T) ==
    /\ T.op \in {"create", "update"} =>
          T.wrote = {} /\ Head(T.todo).status # "FREE"
    /\ T.op = "update" => T.rows[Head(T.todo).slot].status # "FREE"

Orderly(T) ==
    /\ ViewInv(T) /\ RowsFollow(T) /\ AllocsFollow(T) /\ AllocsFresh(T)
    /\ Freed(T) /\ ReleaseWhole(T) /\ Started(T)

\* A row that does not exist yet is inserted by one transaction at most.
Exclusively ==
    \A p, q \in Proc : p # q =>
        /\ \A i \in Slot \cap txn[p].wrote \cap txn[q].wrote : reservation[i].status # "FREE"
        /\ \A a \in AllocId \cap txn[p].wrote \cap txn[q].wrote : allocation[a].status # "Free"

AllocInv == TablesInv /\ Exclusively /\ \A p \in Proc : Active(p) => Orderly(txn[p])

-----------------------------------------------------------------------------
(***************************************************************************)
(* A transaction with an orderly view                                      *)
(***************************************************************************)

\* The fields of a transaction in progress.
LEMMA TxnFields ==
    ASSUME NEW T \in Txn
    PROVE  /\ T.rows \in [Slot -> Row] /\ T.allocs \in [AllocId -> AllocRow]
           /\ T.wrote \subseteq Slot \cup AllocId /\ T.stale \subseteq Slot \cup AllocId
BY DEF Txn

\* Whether a view is orderly depends on the committed tables only.
LEMMA OrderlyPrime ==
    ASSUME NEW q \in Proc, Orderly(txn'[q]), UNCHANGED <<reservation, allocation>>
    PROVE  Orderly(txn[q])'
<1>1. ViewInv(txn[q])'
  BY DEF Orderly, ViewInv, Backed, Unshared
<1>2. RowsFollow(txn[q])'
  BY DEF Orderly, RowsFollow
<1>3. AllocsFollow(txn[q])'
  BY DEF Orderly, AllocsFollow
<1>4. AllocsFresh(txn[q])'
  BY DEF Orderly, AllocsFresh
<1>5. Freed(txn[q])' /\ ReleaseWhole(txn[q])' /\ Started(txn[q])'
  BY DEF Orderly, Freed, ReleaseWhole, Started
<1>. QED
  BY <1>1, <1>2, <1>3, <1>4, <1>5 DEF Orderly

\* A step of one transaction, which writes rows that exist already, are its own,
\* or are in no other transaction.
LEMMA OrderlyStep ==
    ASSUME TypeInv, AllocInv, NEW p \in Proc, NEW T, Orderly(T),
           txn' = [txn EXCEPT ![p] = T], UNCHANGED <<reservation, allocation>>,
           \A i \in Slot \cap T.wrote :
              \/ i \in txn[p].wrote \/ reservation[i].status # "FREE"
              \/ \A q \in Proc : i \notin txn[q].wrote,
           \A a \in AllocId \cap T.wrote :
              \/ a \in txn[p].wrote \/ allocation[a].status # "Free"
              \/ \A q \in Proc : a \notin txn[q].wrote
    PROVE  AllocInv'
<1>1. /\ txn'[p] = T
      /\ \A q \in Proc \ {p} : txn'[q] = txn[q]
  BY DEF TypeInv, TypeOK
<1>2. TablesInv'
  BY DEF AllocInv, TablesInv, Backed, Unshared, OpenWhileReserved
<1>3. Exclusively'
  <2>1. SUFFICES ASSUME NEW q \in Proc, NEW r \in Proc, q # r
                 PROVE  /\ \A i \in Slot \cap txn'[q].wrote \cap txn'[r].wrote :
                               reservation[i].status # "FREE"
                        /\ \A a \in AllocId \cap txn'[q].wrote \cap txn'[r].wrote :
                               allocation[a].status # "Free"
    BY DEF Exclusively
  <2>. QED
    BY <1>1, <2>1 DEF AllocInv, Exclusively
<1>4. ASSUME NEW q \in Proc, Active(q)'
      PROVE  Orderly(txn[q])'
  <2>1. Orderly(txn'[q])
    BY <1>1, <1>4 DEF AllocInv, Active
  <2>. QED
    BY <2>1, OrderlyPrime
<1>. QED
  BY <1>2, <1>3, <1>4 DEF AllocInv

\* The snapshot a transaction starts with is that of tables that agree.
LEMMA BeginAlloc ==
    ASSUME TypeInv, AllocInv, NEW p \in Proc, NEW op, NEW event, NEW reason, NEW todo,
           Begin(p, op, event, reason, todo),
           op \in {"create", "update", "allocate", "release"},
           op = "release" <=> reason # "",
           op \in {"create", "update"} => Head(todo).status # "FREE",
           op = "update" => reservation[Head(todo).slot].status # "FREE"
    PROVE  AllocInv'
<1>. DEFINE T == [op |-> op, event |-> event, reason |-> reason, todo |-> todo,
                  catalog |-> resource, rows |-> reservation, allocs |-> allocation,
                  locks |-> {}, wrote |-> {}, stale |-> {}, claims |-> {},
                  rivals |-> {}]
<1>1. /\ T.op = op /\ T.reason = reason /\ T.todo = todo /\ T.rows = reservation
      /\ T.allocs = allocation /\ T.wrote = {} /\ T.stale = {}
  OBVIOUS
<1>2. txn' = [txn EXCEPT ![p] = T] /\ UNCHANGED <<reservation, allocation>>
  BY DEF Begin, tables
<1>. HIDE DEF T
<1>3. ViewInv(T)
  BY <1>1 DEF ViewInv, AllocInv, TablesInv, OpenWhileReserved
<1>4. RowsFollow(T) /\ AllocsFollow(T)
  BY <1>1 DEF RowsFollow, AllocsFollow
<1>5. AllocsFresh(T) /\ Freed(T) /\ ReleaseWhole(T) /\ Started(T)
  BY <1>1 DEF AllocsFresh, Freed, ReleaseWhole, Started
<1>6. Orderly(T)
  BY <1>3, <1>4, <1>5 DEF Orderly
<1>. QED
  BY <1>1, <1>2, <1>6, OrderlyStep

\* Every request starts with such a view.
LEMMA NewRequestAlloc ==
    ASSUME TypeInv, AllocInv, NEW p \in Proc, NewRequest(p)
    PROVE  AllocInv'
<1>1. ASSUME NEW r \in Resource, NEW q \in Quantity, NEW w \in Window,
             NEW s \in InputStatus, NEW e \in Event \cup {NoEvent},
             BeginCreate(p, r, q, w, s, e)
      PROVE  AllocInv'
  <2>. DEFINE req == [slot |-> NoSlot, resource |-> r, quantity |-> q,
                      window |-> w, status |-> s, allowPartial |-> FALSE]
  <2>1. s # "FREE"
    BY ConstantsAssumption
  <2>2. Head(<<req>>).status # "FREE"
    BY <2>1
  <2>3. Begin(p, "create", e, "", <<req>>)
    BY <1>1 DEF BeginCreate
  <2>. HIDE DEF req
  <2>. QED
    BY <2>2, <2>3, BeginAlloc
<1>2. ASSUME NEW i \in Slot, NEW q, NEW w, NEW s, s # "FREE", BeginUpdate(p, i, q, w, s)
      PROVE  AllocInv'
  <2>. DEFINE req == [slot |-> i, resource |-> reservation[i].resource, quantity |-> q,
                      window |-> w, status |-> s, allowPartial |-> FALSE]
  <2>1. Head(<<req>>).status # "FREE" /\ Head(<<req>>).slot = i
    BY <1>2
  <2>2. Begin(p, "update", NoEvent, "", <<req>>) /\ reservation[i].status # "FREE"
    BY <1>2 DEF BeginUpdate
  <2>. HIDE DEF req
  <2>. QED
    BY <2>1, <2>2, BeginAlloc
<1>3. ASSUME NEW i \in Slot, BeginConfirm(p, i)
      PROVE  AllocInv'
  BY <1>2, <1>3 DEF BeginConfirm
<1>4. ASSUME NEW i \in Slot, NEW q \in Quantity, NEW w \in Window, NEW s \in InputStatus,
             BeginUpdate(p, i, q, w, s)
      PROVE  AllocInv'
  <2>1. s # "FREE"
    BY ConstantsAssumption
  <2>. QED
    BY <1>2, <1>4, <2>1
<1>5. ASSUME NEW e \in Event, NEW requests \in EventRequest, BeginAllocate(p, e, requests)
      PROVE  AllocInv'
  BY <1>5, BeginAlloc DEF BeginAllocate
<1>6. ASSUME NEW e \in Event, NEW reason \in {"Completed", "Cancelled"},
             BeginRelease(p, e, reason)
      PROVE  AllocInv'
  BY <1>6, BeginAlloc DEF BeginRelease
<1>. QED
  BY <1>1, <1>3, <1>4, <1>5, <1>6 DEF NewRequest

\* A row that nobody has inserted is in no view.
LEMMA FreshRow ==
    ASSUME AllocInv, NEW p \in Proc, Active(p)
    PROVE  /\ \A i \in FreshSlots : /\ i \in Slot /\ reservation[i].status = "FREE"
                                    /\ txn[p].rows[i].status = "FREE"
                                    /\ \A q \in Proc : i \notin txn[q].wrote
           /\ \A a \in FreshAllocs : /\ a \in AllocId /\ allocation[a].status = "Free"
                                     /\ txn[p].allocs[a].status = "Free"
                                     /\ \A q \in Proc : a \notin txn[q].wrote
<1>1. Orderly(txn[p])
  BY DEF AllocInv
<1>. QED
  BY <1>1 DEF FreshSlots, FreshAllocs, Orderly, RowsFollow, AllocsFollow

\* Reservations that keep their event and resource back the same allocations.
LEMMA BackedRows ==
    ASSUME NEW allocs \in [AllocId -> AllocRow], NEW rows, NEW rows2,
           Backed(allocs, rows),
           \A i \in Slot : rows[i].status # "FREE" =>
              /\ rows2[i].status # "FREE"
              /\ rows2[i].event = rows[i].event
              /\ rows2[i].resource = rows[i].resource
    PROVE  Backed(allocs, rows2)
<1>1. SUFFICES ASSUME NEW a \in AllocId, Live(allocs[a]), allocs[a].slot # NoSlot
               PROVE  LET i == allocs[a].slot IN
                      /\ rows2[i].status # "FREE"
                      /\ rows2[i].event = allocs[a].event
                      /\ rows2[i].resource = allocs[a].resource
  BY DEF Backed
<1>2. allocs[a].slot \in Slot
  BY <1>1 DEF AllocRow
<1>. QED
  BY <1>1, <1>2 DEF Backed

\* So do allocations that keep what they are accounted with.
LEMMA BackedAllocs ==
    ASSUME NEW allocs, NEW allocs2, NEW rows, Backed(allocs, rows),
           \A a \in AllocId : Live(allocs2[a]) =>
              /\ Live(allocs[a])
              /\ allocs2[a].requested = allocs[a].requested
              /\ allocs2[a].reserved = allocs[a].reserved
              /\ allocs2[a].outstanding = allocs[a].outstanding
              /\ allocs2[a].slot = allocs[a].slot
              /\ allocs2[a].event = allocs[a].event
              /\ allocs2[a].resource = allocs[a].resource
    PROVE  Backed(allocs2, rows)
BY DEF Backed

\* Inserting a reservation keeps a view orderly.
LEMMA OrderlyInsert ==
    ASSUME NEW T \in Txn, Orderly(T), NEW i \in Slot, NEW row \in Row,
           T.rows[i].status = "FREE", reservation[i].status = "FREE",
           row.status # "FREE", T.op \in {"create", "allocate"},
           NEW T2 \in Txn, T2.allocs = T.allocs,
           \A j \in Slot : T2.rows[j] = IF j = i THEN row ELSE T.rows[j],
           T2.wrote = T.wrote \cup {i}, T2.stale = T.stale, T2.reason = T.reason,
           T2.op \in {"allocate", "commit"}
    PROVE  /\ Orderly(T2)
           /\ \A a \in AllocId : Live(T.allocs[a]) => T.allocs[a].slot # i
<1>0. /\ T.rows \in [Slot -> Row] /\ T.allocs \in [AllocId -> AllocRow]
      /\ T.wrote \subseteq Slot \cup AllocId
  BY TxnFields
<1>1. ASSUME NEW a \in AllocId, Live(T.allocs[a])
      PROVE  T.allocs[a].slot # i
  <2>1. Backed(T.allocs, T.rows)
    BY DEF Orderly, ViewInv
  <2>. QED
    BY <1>1, <2>1, ConstantsAssumption DEF Backed
<1>3. AllocId \cap T2.wrote = AllocId \cap T.wrote
  BY ConstantsAssumption
<1>4. i \notin T.wrote
  BY DEF Orderly, RowsFollow
<1>5. ViewInv(T2)
  <2>1. Backed(T2.allocs, T2.rows)
    <3>1. Backed(T.allocs, T.rows)
      BY DEF Orderly, ViewInv
    <3>2. \A j \in Slot : T.rows[j].status # "FREE" =>
              /\ T2.rows[j].status # "FREE"
              /\ T2.rows[j].event = T.rows[j].event
              /\ T2.rows[j].resource = T.rows[j].resource
      OBVIOUS
    <3>3. Backed(T.allocs, T2.rows)
      BY <1>0, <3>1, <3>2, BackedRows
    <3>. QED
      BY <3>3
  <2>. QED
    BY <2>1 DEF Orderly, ViewInv
<1>6. RowsFollow(T2)
  BY DEF Orderly, RowsFollow
<1>7. AllocsFollow(T2)
  BY <1>3 DEF Orderly, AllocsFollow
<1>8. AllocsFresh(T2)
  BY <1>3 DEF Orderly, AllocsFresh
<1>9. Freed(T2)
  <2>1. SUFFICES ASSUME NEW a \in AllocId \cap T.wrote, Settled(T.allocs[a]),
                        T.allocs[a].slot # NoSlot
                 PROVE  /\ T.allocs[a].slot \in T.wrote
                        /\ T2.rows[T.allocs[a].slot].status \in {"RELEASED", "CANCELLED"}
    BY <1>3 DEF Freed
  <2>2. /\ T.allocs[a].slot \in T.wrote
        /\ T.rows[T.allocs[a].slot].status \in {"RELEASED", "CANCELLED"}
    BY <2>1 DEF Orderly, Freed
  <2>3. T.allocs[a].slot \in Slot
    BY <1>0, <2>1 DEF AllocRow
  <2>. QED
    BY <1>4, <2>2, <2>3
<1>10. ReleaseWhole(T2) /\ Started(T2)
  BY DEF Orderly, ReleaseWhole, Started
<1>. QED
  BY <1>1, <1>5, <1>6, <1>7, <1>8, <1>9, <1>10 DEF Orderly

\* Inserting an allocation together with its reservation keeps a view orderly.
LEMMA OrderlyAllocate ==
    ASSUME NEW T \in Txn, Orderly(T), T.op = "allocate",
           NEW a \in AllocId, NEW new \in AllocRow,
           allocation[a].status = "Free", T.allocs[a].status = "Free",
           new.status = "Reserved", new.requested = new.reserved + new.outstanding,
           (new.slot = NoSlot) <=> (new.reserved = 0),
           new.open => new.outstanding > 0,
           new.slot # NoSlot =>
              /\ new.slot \in T.wrote /\ reservation[new.slot].status = "FREE"
              /\ T.rows[new.slot].status # "FREE"
              /\ T.rows[new.slot].event = new.event
              /\ T.rows[new.slot].resource = new.resource
              /\ \A b \in AllocId : Live(T.allocs[b]) => T.allocs[b].slot # new.slot,
           NEW T2 \in Txn, T2.rows = T.rows, 
           \A b \in AllocId : T2.allocs[b] = IF b = a THEN new ELSE T.allocs[b],
           T2.wrote = T.wrote \cup {a}, T2.stale = T.stale, T2.reason = T.reason,
           T2.op \in {"allocate", "commit"}
    PROVE  Orderly(T2)
<1>0. /\ T.rows \in [Slot -> Row] /\ T.allocs \in [AllocId -> AllocRow]
      /\ T.wrote \subseteq Slot \cup AllocId
  BY TxnFields
<1>1. T2.allocs[a] = new /\ \A b \in AllocId \ {a} : T2.allocs[b] = T.allocs[b]
  OBVIOUS
<1>2. Slot \cap T2.wrote = Slot \cap T.wrote
  BY ConstantsAssumption
<1>3. Live(new) /\ ~Settled(new) /\ T.reason = ""
  BY DEF Live, Settled, Orderly, ReleaseWhole
<1>4. ViewInv(T2)
  <2>1. Backed(T.allocs, T.rows) /\ Unshared(T.allocs)
    BY DEF Orderly, ViewInv
  <2>2. Backed(T2.allocs, T2.rows)
    BY <1>1, <2>1 DEF Backed
  <2>3. Unshared(T2.allocs)
    <3>1. ASSUME NEW b \in AllocId, NEW c \in AllocId, b # c,
                 Live(T2.allocs[b]), Live(T2.allocs[c]), T2.allocs[b].slot # NoSlot
          PROVE  T2.allocs[c].slot # T2.allocs[b].slot
      <4>1. CASE b = a
        BY <1>1, <3>1, <4>1
      <4>2. CASE c = a
        BY <1>1, <3>1, <4>2
      <4>3. CASE b # a /\ c # a
        BY <1>1, <2>1, <3>1, <4>3 DEF Unshared
      <4>. QED
        BY <4>1, <4>2, <4>3
    <3>. QED
      BY <3>1 DEF Unshared
  <2>4. \A b \in AllocId : T2.allocs[b].open =>
           T2.allocs[b].outstanding > 0 /\ T2.allocs[b].status = "Reserved"
    BY <1>1 DEF Orderly, ViewInv
  <2>. QED
    BY <2>2, <2>3, <2>4 DEF ViewInv
<1>5. RowsFollow(T2)
  <2>1. RowsFollow(T)
    BY DEF Orderly
  <2>2. \A i \in Slot : i \in T2.wrote <=> i \in T.wrote
    BY <1>2
  <2>3. \A i \in Slot : T2.rows[i] = T.rows[i]
    OBVIOUS
  <2>. QED
    BY <2>1, <2>2, <2>3 DEF RowsFollow
<1>6. AllocsFollow(T2)
  <2>1. AllocsFollow(T)
    BY DEF Orderly
  <2>2. ASSUME NEW b \in AllocId, T2.allocs[b].status # "Free"
        PROVE  IF allocation[b].status = "Free" THEN b \in T2.wrote
               ELSE /\ T2.allocs[b].event = allocation[b].event
                    /\ T2.allocs[b].slot = allocation[b].slot
    BY <1>1, <2>1, <2>2 DEF AllocsFollow
  <2>3. ASSUME NEW b \in AllocId \cap T2.wrote
        PROVE  /\ Live(T2.allocs[b])
               /\ allocation[b].status = "Free" /\ T2.allocs[b].slot # NoSlot =>
                     /\ T2.allocs[b].slot \in T2.wrote
                     /\ reservation[T2.allocs[b].slot].status = "FREE"
    <3>1. CASE b = a
      BY <1>1, <1>3, <3>1
    <3>2. CASE b # a
      BY <1>1, <2>1, <2>3, <3>2 DEF AllocsFollow
    <3>. QED
      BY <3>1, <3>2
  <2>. QED
    BY <2>2, <2>3 DEF AllocsFollow
<1>7. AllocsFresh(T2)
  BY <1>1 DEF Orderly, AllocsFresh, Settled
<1>8. Freed(T2)
  BY <1>1, <1>3 DEF Orderly, Freed
<1>9. ReleaseWhole(T2) /\ Started(T2)
  BY <1>3 DEF ReleaseWhole, Started
<1>. QED
  BY <1>4, <1>5, <1>6, <1>7, <1>8, <1>9 DEF Orderly

\* createReservation inserts a reservation of no allocation.
LEMMA CreateAlloc ==
    ASSUME TypeInv, AllocInv, NEW p \in Proc, createReservation(p)
    PROVE  AllocInv'
<1>. DEFINE req == Head(txn[p].todo)
            i == CHOOSE i \in FreshSlots : TRUE
            row == [resource |-> req.resource, quantity |-> req.quantity,
                    window |-> req.window, status |-> req.status,
                    event |-> txn[p].event]
            T == [WriteRow(p, i, row) EXCEPT !.op = "commit"]
<1>1. txn[p] \in Txn /\ txn[p].todo # << >> /\ req \in Request
  BY TodoHead DEF createReservation
<1>2. i \in FreshSlots /\ i \in Slot
  BY DEF createReservation, FreshSlots
<1>3. row \in Row /\ row.status = req.status
  BY <1>1 DEF Request, Row, Txn
<1>4. txn' = [txn EXCEPT ![p] = T] /\ UNCHANGED <<reservation, allocation>>
  BY DEF createReservation, tables
<1>5. Active(p) /\ txn[p].op = "create"
  BY DEF createReservation, Active
<1>6. Orderly(txn[p]) /\ txn[p].wrote = {} /\ req.status # "FREE" /\ txn[p].reason = ""
  BY <1>5 DEF AllocInv, Orderly, Started, ReleaseWhole
<1>. HIDE DEF i, row
<1>7. WriteRow(p, i, row) \in Txn
  BY <1>1, <1>2, <1>3, WriteRowType DEF TypeInv
<1>8. /\ T \in Txn /\ T.op = "commit"
      /\ \A j \in Slot : T.rows[j] = IF j = i THEN row ELSE txn[p].rows[j]
      /\ T.allocs = txn[p].allocs /\ T.wrote = txn[p].wrote \cup {i} /\ T.stale = txn[p].stale
      /\ T.reason = txn[p].reason
  BY <1>1, <1>7 DEF WriteRow, Txn
<1>. HIDE DEF T
<1>9. /\ reservation[i].status = "FREE" /\ txn[p].rows[i].status = "FREE"
      /\ \A q \in Proc : i \notin txn[q].wrote
  BY <1>2, <1>5, FreshRow
<1>10. Orderly(T)
  BY <1>1, <1>2, <1>3, <1>5, <1>6, <1>8, <1>9, OrderlyInsert
<1>11. AllocId \cap T.wrote = {} /\ Slot \cap T.wrote = {i}
  <2>1. T.wrote = {i}
    BY <1>6, <1>8
  <2>. QED
    BY <1>2, <2>1, ConstantsAssumption
<1>. QED
  BY <1>4, <1>9, <1>10, <1>11, OrderlyStep

\* updateReservation keeps the event and the resource of the reservation.
LEMMA UpdateAlloc ==
    ASSUME TypeInv, AllocInv, NEW p \in Proc, updateReservation(p)
    PROVE  AllocInv'
<1>. DEFINE req == Head(txn[p].todo)
            i == req.slot
            old == txn[p].rows[i]
            row == [old EXCEPT !.quantity = req.quantity, !.window = req.window,
                               !.status = req.status]
            T == [WriteRow(p, i, row) EXCEPT !.op = "commit"]
<1>1. txn[p] \in Txn /\ txn[p].todo # << >> /\ req \in Request
  BY TodoHead DEF updateReservation
<1>2. i \in Slot
  BY DEF updateReservation, TypeInv, TodoOK
<1>3. row \in Row /\ row.status = req.status /\ row.event = old.event
      /\ row.resource = old.resource
  <2>1. old \in Row
    BY <1>1, <1>2 DEF Txn
  <2>. QED
    BY <1>1, <2>1 DEF Request, Row
<1>4. txn' = [txn EXCEPT ![p] = T] /\ UNCHANGED <<reservation, allocation>>
  BY DEF updateReservation, tables
<1>5. Active(p) /\ txn[p].op = "update"
  BY DEF updateReservation, Active
<1>6. /\ Orderly(txn[p]) /\ txn[p].wrote = {} /\ req.status # "FREE"
      /\ old.status # "FREE" /\ txn[p].reason = ""
  BY <1>5 DEF AllocInv, Orderly, Started, ReleaseWhole
<1>. HIDE DEF row
<1>7. WriteRow(p, i, row) \in Txn
  BY <1>1, <1>2, <1>3, WriteRowType DEF TypeInv
<1>. HIDE DEF i
<1>8. /\ T.op = "commit"
      /\ T.rows = [txn[p].rows EXCEPT ![i] = row] /\ T.allocs = txn[p].allocs
      /\ T.wrote = {i} /\ T.stale = txn[p].stale
      /\ T.reason = "" /\ T.todo = Tail(txn[p].todo)
  BY <1>1, <1>6, <1>7 DEF WriteRow, Txn
<1>. HIDE DEF T
<1>9. /\ txn[p].rows \in [Slot -> Row] /\ txn[p].allocs \in [AllocId -> AllocRow]
  BY <1>1, TxnFields
<1>10. \A j \in Slot : /\ T.rows[j].status # "FREE" <=> txn[p].rows[j].status # "FREE"
                       /\ T.rows[j].event = txn[p].rows[j].event
                       /\ T.rows[j].resource = txn[p].rows[j].resource
  BY <1>3, <1>6, <1>8, <1>9 DEF old
<1>11. AllocId \cap T.wrote = {} /\ Slot \cap T.wrote = {i}
  BY <1>2, <1>8, ConstantsAssumption
<1>12. reservation[i].status # "FREE"
  BY <1>2, <1>6 DEF Orderly, RowsFollow
<1>13. ViewInv(T)
  <2>2. Backed(txn[p].allocs, txn[p].rows) /\ Unshared(txn[p].allocs)
    BY <1>6 DEF Orderly, ViewInv
  <2>3. Backed(T.allocs, T.rows)
    <3>1. Backed(txn[p].allocs, T.rows)
      BY <1>9, <1>10, <2>2, BackedRows
    <3>. QED
      BY <1>8, <3>1
  <2>4. \A a \in AllocId : T.allocs[a].open =>
           T.allocs[a].outstanding > 0 /\ T.allocs[a].status = "Reserved"
    BY <1>5, <1>6, <1>8 DEF Orderly, ViewInv
  <2>. QED
    BY <1>8, <2>2, <2>3, <2>4 DEF ViewInv
<1>14. RowsFollow(T)
  BY <1>6, <1>10, <1>11, <1>12 DEF Orderly, RowsFollow
<1>15. AllocsFollow(T)
  BY <1>6, <1>8, <1>11 DEF Orderly, AllocsFollow
<1>16. AllocsFresh(T)
  BY <1>6, <1>8, <1>11 DEF Orderly, AllocsFresh
<1>17. Freed(T) /\ ReleaseWhole(T) /\ Started(T)
  BY <1>8, <1>11 DEF Freed, ReleaseWhole, Started
<1>18. Orderly(T)
  BY <1>13, <1>14, <1>15, <1>16, <1>17 DEF Orderly
<1>. QED
  BY <1>4, <1>11, <1>12, <1>18, OrderlyStep

\* A statement that writes neither a reservation nor an allocation.
LEMMA OrderlySame ==
    ASSUME NEW T, Orderly(T), NEW T2, T2.op = T.op, T2.event = T.event,
           T2.reason = T.reason, T2.rows = T.rows, T2.allocs = T.allocs,
           T2.wrote = T.wrote, T2.stale = T.stale, T2.op \notin {"create", "update"}
    PROVE  Orderly(T2)
<1>1. ViewInv(T2) /\ RowsFollow(T2)
  BY DEF Orderly, ViewInv, RowsFollow
<1>2. AllocsFollow(T2) /\ AllocsFresh(T2)
  BY DEF Orderly, AllocsFollow, AllocsFresh
<1>3. Freed(T2) /\ ReleaseWhole(T2) /\ Started(T2)
  BY DEF Orderly, Freed, ReleaseWhole, Started
<1>. QED
  BY <1>1, <1>2, <1>3 DEF Orderly

\* What is reserved and what is outstanding add up to what was asked for.
LEMMA Shortfall ==
    ASSUME NEW n \in Nat, NEW reserved \in 0..n
    PROVE  /\ n = reserved + Monus(n, reserved)
           /\ Monus(n, reserved) \in Nat
           /\ n > reserved => Monus(n, reserved) > 0
BY DEF Monus

\* reserveResourcesForEvent inserts an allocation that is accounted for.
LEMMA AllocateAlloc ==
    ASSUME TypeInv, AllocInv, NEW p \in Proc, reserveResourcesForEvent(p)
    PROVE  AllocInv'
<1>. DEFINE req == Head(txn[p].todo)
            res == txn[p].catalog[req.resource]
            reserved == quantityReserved(res, txn[p].rows, req)
            i == IF reserved > 0 THEN CHOOSE i \in FreshSlots : TRUE ELSE NoSlot
            a == CHOOSE a \in FreshAllocs : TRUE
            row == [resource |-> req.resource, quantity |-> reserved,
                    window |-> req.window, status |-> "RESERVED",
                    event |-> txn[p].event]
            W == IF reserved > 0
                 THEN WriteRow(p, i, row)
                 ELSE [txn[p] EXCEPT !.locks = @ \cup {req.resource},
                                     !.todo = Tail(@)]
            alloc == AllocationRow(txn[p].event, req, i, reserved)
            T == [W EXCEPT !.allocs = [@ EXCEPT ![a] = alloc],
                           !.wrote = @ \cup {a},
                           !.op = IF Len(txn[p].todo) = 1 THEN "commit" ELSE @]
<1>1. /\ txn[p] \in Txn /\ txn[p].todo # << >> /\ req \in Request
      /\ Tail(txn[p].todo) \in Seq(Request)
  BY TodoHead DEF reserveResourcesForEvent
<1>2. /\ req.resource \in Resource /\ req.quantity \in Nat /\ req.window \in Window
      /\ req.quantity \in Quantity
  <2>1. req.resource \in Resource /\ req.quantity \in Quantity /\ req.window \in Window
    BY <1>1 DEF Request
  <2>. HIDE DEF req
  <2>. QED
    BY <2>1, ConstantsAssumption DEF Quantity
<1>3. reserved \in 0..req.quantity
  <2>1. res \in ResourceRow
    BY <1>1, <1>2 DEF Txn
  <2>. QED
    BY <1>1, <2>1, QuantityReserved
<1>4. Active(p) /\ txn[p].op = "allocate" /\ Orderly(txn[p])
  BY DEF reserveResourcesForEvent, AllocInv, Active
<1>5. txn' = [txn EXCEPT ![p] = T] /\ UNCHANGED <<reservation, allocation>>
  BY DEF reserveResourcesForEvent, tables
<1>. HIDE DEF reserved
<1>6. reserved > 0 => i \in FreshSlots
  BY DEF reserveResourcesForEvent, reserved
<1>7. a \in FreshAllocs
  BY DEF reserveResourcesForEvent
<1>8. ~(reserved > 0) => i = NoSlot
  OBVIOUS
<1>. HIDE DEF i, a
<1>9. /\ a \in AllocId /\ allocation[a].status = "Free"
      /\ txn[p].allocs[a].status = "Free"
      /\ \A q \in Proc : a \notin txn[q].wrote
      /\ reserved > 0 => /\ i \in Slot /\ reservation[i].status = "FREE"
                         /\ txn[p].rows[i].status = "FREE"
                         /\ \A q \in Proc : i \notin txn[q].wrote
  BY <1>4, <1>6, <1>7, FreshRow
<1>10. /\ reserved \in Nat
       /\ reserved > 0 => reserved \in Quantity
       /\ reserved > 0 \/ reserved = 0
  <2>. HIDE DEF req
  <2>. QED
    BY <1>2, <1>3, ConstantsAssumption DEF Quantity
<1>11. /\ alloc.slot = i /\ alloc.event = txn[p].event /\ alloc.resource = req.resource
       /\ alloc.requested = req.quantity /\ alloc.reserved = reserved
       /\ alloc.status = "Reserved" /\ alloc.outstanding = Monus(req.quantity, reserved)
       /\ alloc.open = (req.quantity > reserved) /\ alloc \in AllocRow
  <2>1. Monus(req.quantity, reserved) \in Nat
    BY <1>2, <1>3, Shortfall
  <2>2. i \in Slot \cup {NoSlot} /\ txn[p].event \in Event \cup {NoEvent}
    BY <1>1, <1>8, <1>9, <1>10 DEF Txn
  <2>. HIDE DEF req
  <2>. QED
    BY <1>2, <1>10, <2>1, <2>2 DEF AllocationRow, AllocRow
<1>12. /\ W \in Txn /\ W.op = "allocate" /\ W.stale = txn[p].stale
       /\ W.reason = txn[p].reason /\ W.allocs = txn[p].allocs
       /\ Orderly(W)
       /\ reserved > 0 =>
             /\ W.rows[i] = row /\ W.wrote = txn[p].wrote \cup {i}
             /\ \A b \in AllocId : Live(W.allocs[b]) => W.allocs[b].slot # i
       /\ reserved = 0 => W.wrote = txn[p].wrote
  <2>1. CASE reserved > 0
    <3>1. row \in Row /\ row.status # "FREE"
      BY <1>1, <1>2, <1>10, <2>1 DEF Row, Txn, ReservationStatus,
                                     CAPACITY_CONSUMING_STATUSES
    <3>. HIDE DEF row
    <3>2. W = WriteRow(p, i, row) /\ WriteRow(p, i, row) \in Txn
      BY <1>1, <1>9, <2>1, <3>1, WriteRowType DEF TypeInv
    <3>. HIDE DEF W
    <3>3. /\ W.op = "allocate" /\ W.stale = txn[p].stale
          /\ W.reason = txn[p].reason /\ W.allocs = txn[p].allocs
          /\ \A j \in Slot : W.rows[j] = IF j = i THEN row ELSE txn[p].rows[j]
          /\ W.wrote = txn[p].wrote \cup {i}
      BY <1>1, <1>4, <3>2 DEF WriteRow, Txn
    <3>4. Orderly(W) /\ \A b \in AllocId : Live(txn[p].allocs[b]) => txn[p].allocs[b].slot # i
      BY <1>1, <1>4, <1>9, <2>1, <3>1, <3>2, <3>3, OrderlyInsert
    <3>. QED
      BY <1>9, <2>1, <3>2, <3>3, <3>4
  <2>2. CASE reserved = 0
    <3>1. W = [txn[p] EXCEPT !.locks = @ \cup {req.resource}, !.todo = Tail(@)]
      BY <2>2
    <3>2. txn[p].locks \cup {req.resource} \in SUBSET Resource
      BY <1>1, <1>2 DEF Txn
    <3>. HIDE DEF req, W
    <3>3. W \in Txn
      BY <1>1, <3>1, <3>2 DEF Txn
    <3>4. /\ W.op = txn[p].op /\ W.event = txn[p].event /\ W.reason = txn[p].reason
          /\ W.rows = txn[p].rows /\ W.allocs = txn[p].allocs
          /\ W.wrote = txn[p].wrote /\ W.stale = txn[p].stale
      BY <1>1, <3>1 DEF Txn
    <3>5. Orderly(W)
      BY <1>4, <3>4, OrderlySame
    <3>. QED
      BY <1>4, <2>2, <3>3, <3>4, <3>5
  <2>. QED
    BY <1>10, <2>1, <2>2
<1>. HIDE DEF W
<1>13. /\ T \in Txn /\ T.rows = W.rows
       /\ \A b \in AllocId : T.allocs[b] = IF b = a THEN alloc ELSE W.allocs[b]
       /\ T.wrote = W.wrote \cup {a} /\ T.stale = W.stale /\ T.reason = W.reason
       /\ T.op \in {"allocate", "commit"}
  <2>. HIDE DEF alloc
  <2>1. [W.allocs EXCEPT ![a] = alloc] \in [AllocId -> AllocRow]
    BY <1>9, <1>11, <1>12 DEF Txn
  <2>2. W.wrote \cup {a} \in SUBSET (Slot \cup AllocId)
    BY <1>9, <1>12 DEF Txn
  <2>. QED
    BY <1>12, <2>1, <2>2 DEF Txn
<1>. HIDE DEF T, alloc
<1>14. Orderly(T)
  <2>1. alloc.slot # NoSlot =>
           /\ alloc.slot \in W.wrote /\ reservation[alloc.slot].status = "FREE"
           /\ W.rows[alloc.slot].status # "FREE"
           /\ W.rows[alloc.slot].event = alloc.event
           /\ W.rows[alloc.slot].resource = alloc.resource
           /\ \A b \in AllocId : Live(W.allocs[b]) => W.allocs[b].slot # alloc.slot
    BY <1>8, <1>9, <1>10, <1>11, <1>12
  <2>2. (alloc.slot = NoSlot) <=> (alloc.reserved = 0)
    BY <1>8, <1>9, <1>10, <1>11, ConstantsAssumption
  <2>3. /\ alloc.requested = alloc.reserved + alloc.outstanding
        /\ alloc.open => alloc.outstanding > 0
    BY <1>2, <1>3, <1>11, Shortfall
  <2>4. /\ W \in Txn /\ Orderly(W) /\ W.op = "allocate"
        /\ a \in AllocId /\ alloc \in AllocRow
        /\ allocation[a].status = "Free" /\ W.allocs[a].status = "Free"
        /\ alloc.status = "Reserved"
    BY <1>9, <1>11, <1>12
  <2>. QED
    BY <1>13, <2>1, <2>2, <2>3, <2>4, OrderlyAllocate
<1>15. \/ T.wrote = txn[p].wrote \cup {a}
       \/ reserved > 0 /\ T.wrote = txn[p].wrote \cup {i, a}
  BY <1>10, <1>12, <1>13
<1>16. \A j \in Slot \cap T.wrote : j \in txn[p].wrote \/ \A q \in Proc : j \notin txn[q].wrote
  BY <1>9, <1>15, ConstantsAssumption
<1>17. \A b \in AllocId \cap T.wrote :
          b \in txn[p].wrote \/ \A q \in Proc : b \notin txn[q].wrote
  BY <1>9, <1>15, ConstantsAssumption
<1>. QED
  BY <1>5, <1>14, <1>16, <1>17, OrderlyStep

\* Settling an allocation frees its reservation in the same view.
LEMMA ReleaseAllocationAlloc ==
    ASSUME TypeInv, AllocInv, NEW p \in Proc, NEW a \in AllocId, releaseAllocation(p, a)
    PROVE  AllocInv'
<1>. DEFINE old == txn[p].allocs[a]
            done == txn[p].reason = "Completed"
            target == IF done THEN "RELEASED" ELSE "CANCELLED"
            rows == IF old.slot = NoSlot THEN txn[p].rows
                    ELSE [txn[p].rows EXCEPT ![old.slot].status = target]
            new == [old EXCEPT
                       !.status = IF done THEN "Returned" ELSE "Cancelled",
                       !.returned = IF done THEN old.reserved ELSE old.returned]
            T == [txn[p] EXCEPT
                     !.locks = @ \cup {old.resource},
                     !.rows = rows,
                     !.allocs = [@ EXCEPT ![a] = new],
                     !.wrote = @ \cup {a} \cup ({old.slot} \ {NoSlot})]
<1>1. txn[p] \in Txn /\ txn[p].op = "release" /\ Active(p)
  BY ActiveTxn DEF releaseAllocation, Active, TypeInv
<1>2. /\ txn[p].rows \in [Slot -> Row] /\ txn[p].allocs \in [AllocId -> AllocRow]
      /\ txn[p].wrote \subseteq Slot \cup AllocId
  BY <1>1, TxnFields
<1>3. old \in AllocRow /\ old.slot \in Slot \cup {NoSlot}
  BY <1>2 DEF AllocRow
<1>4. old.status = "Reserved" /\ old.event = txn[p].event
  BY DEF releaseAllocation, Unsettled
<1>5. txn' = [txn EXCEPT ![p] = T] /\ UNCHANGED <<reservation, allocation>>
  BY DEF releaseAllocation, tables
<1>. HIDE DEF old
<1>6. /\ new.slot = old.slot /\ new.event = old.event /\ new.resource = old.resource
      /\ new.requested = old.requested /\ new.reserved = old.reserved
      /\ new.outstanding = old.outstanding /\ new.open = old.open
      /\ new.status \in {"Returned", "Cancelled"}
  BY <1>3 DEF AllocRow
<1>. HIDE DEF new, done
<1>7. /\ Orderly(txn[p]) /\ Live(old) /\ Live(new) /\ Settled(new)
      /\ txn[p].reason # ""
  BY <1>1, <1>4, <1>6 DEF AllocInv, Live, Settled, Orderly, ReleaseWhole
<1>8. old.slot # NoSlot => /\ old.slot \in Slot
                           /\ txn[p].rows[old.slot].status # "FREE"
  BY <1>3, <1>7 DEF Orderly, ViewInv, Backed, old
<1>9. \A i \in Slot :
         /\ i # old.slot => rows[i] = txn[p].rows[i]
         /\ i = old.slot => /\ rows[i].status = target
                            /\ rows[i].event = txn[p].rows[i].event
                            /\ rows[i].resource = txn[p].rows[i].resource
  <2>1. CASE old.slot = NoSlot
    BY <2>1, ConstantsAssumption
  <2>2. CASE old.slot # NoSlot
    <3>1. rows = [txn[p].rows EXCEPT ![old.slot].status = target]
      BY <2>2
    <3>2. \A i \in Slot : txn[p].rows[i] \in Row
      BY <1>2
    <3>. HIDE DEF rows, target
    <3>. QED
      BY <1>2, <1>8, <2>2, <3>1, <3>2 DEF Row
  <2>. QED
    BY <2>1, <2>2
<1>10. target \in {"RELEASED", "CANCELLED"}
  OBVIOUS
<1>. HIDE DEF rows, target
<1>11. /\ T.op = "release" /\ T.event = txn[p].event /\ T.reason = txn[p].reason
       /\ T.rows = rows /\ T.stale = txn[p].stale
       /\ T.allocs = [txn[p].allocs EXCEPT ![a] = new]
       /\ T.wrote = txn[p].wrote \cup {a} \cup ({old.slot} \ {NoSlot})
  BY <1>1 DEF Txn
<1>. HIDE DEF T
<1>12. T.allocs[a] = new /\ \A b \in AllocId \ {a} : T.allocs[b] = txn[p].allocs[b]
  BY <1>2, <1>11
<1>13. /\ \A b \in AllocId : b \in T.wrote <=> b \in txn[p].wrote \/ b = a
       /\ \A i \in Slot : i \in T.wrote <=> i \in txn[p].wrote \/ i = old.slot
       /\ \A i \in txn[p].wrote : i \in T.wrote
  BY <1>3, <1>11, ConstantsAssumption
<1>14. ViewInv(T)
  <2>1. Backed(txn[p].allocs, txn[p].rows) /\ Unshared(txn[p].allocs)
    BY <1>7 DEF Orderly, ViewInv
  <2>2. Backed(txn[p].allocs, T.rows)
    <3>1. \A i \in Slot : txn[p].rows[i].status # "FREE" =>
             /\ T.rows[i].status # "FREE"
             /\ T.rows[i].event = txn[p].rows[i].event
             /\ T.rows[i].resource = txn[p].rows[i].resource
      BY <1>9, <1>10, <1>11
    <3>. QED
      BY <1>2, <2>1, <3>1, BackedRows
  <2>3. Backed(T.allocs, T.rows)
    <3>1. \A b \in AllocId : Live(T.allocs[b]) =>
             /\ Live(txn[p].allocs[b])
             /\ T.allocs[b].requested = txn[p].allocs[b].requested
             /\ T.allocs[b].reserved = txn[p].allocs[b].reserved
             /\ T.allocs[b].outstanding = txn[p].allocs[b].outstanding
             /\ T.allocs[b].slot = txn[p].allocs[b].slot
             /\ T.allocs[b].event = txn[p].allocs[b].event
             /\ T.allocs[b].resource = txn[p].allocs[b].resource
      BY <1>6, <1>7, <1>12 DEF old
    <3>. QED
      BY <2>2, <3>1, BackedAllocs
  <2>4. \A b \in AllocId : /\ Live(T.allocs[b]) <=> Live(txn[p].allocs[b])
                           /\ T.allocs[b].slot = txn[p].allocs[b].slot
    BY <1>6, <1>7, <1>12 DEF old
  <2>5. Unshared(T.allocs)
    BY <2>1, <2>4 DEF Unshared
  <2>6. ASSUME NEW b \in AllocId, T.allocs[b].open
        PROVE  /\ T.allocs[b].outstanding > 0
               /\ \/ T.allocs[b].status = "Reserved"
                  \/ T.op = "release" /\ b \in T.wrote /\ T.allocs[b].event = T.event
    <3>1. CASE b = a
      BY <1>4, <1>6, <1>7, <1>11, <1>12, <1>13, <2>6, <3>1 DEF Orderly, ViewInv, old
    <3>2. CASE b # a
      <4>1. /\ T.allocs[b] = txn[p].allocs[b]
            /\ T.op = txn[p].op /\ T.event = txn[p].event
            /\ b \in txn[p].wrote => b \in T.wrote
        BY <1>1, <1>11, <1>12, <1>13, <3>2
      <4>2. ViewInv(txn[p]) /\ txn[p].allocs[b].open
        BY <1>7, <2>6, <4>1 DEF Orderly
      <4>. QED
        BY <4>1, <4>2 DEF ViewInv
    <3>. QED
      BY <3>1, <3>2
  <2>. QED
    BY <2>3, <2>5, <2>6 DEF ViewInv
<1>15. RowsFollow(T)
  <2>1. RowsFollow(txn[p])
    BY <1>7 DEF Orderly
  <2>2. ASSUME NEW i \in Slot, T.rows[i].status # "FREE"
        PROVE  IF reservation[i].status = "FREE" THEN i \in T.wrote
               ELSE /\ T.rows[i].event = reservation[i].event
                    /\ T.rows[i].resource = reservation[i].resource
    <3>1. txn[p].rows[i].status # "FREE"
      <4>1. CASE i = old.slot
        BY <1>8, <4>1, ConstantsAssumption
      <4>2. CASE i # old.slot
        BY <1>9, <1>11, <2>2, <4>2
      <4>. QED
        BY <4>1, <4>2
    <3>2. T.rows[i].event = txn[p].rows[i].event /\ T.rows[i].resource = txn[p].rows[i].resource
      BY <1>9, <1>11
    <3>. QED
      BY <1>13, <2>1, <3>1, <3>2 DEF RowsFollow
  <2>3. ASSUME NEW i \in Slot, i \in T.wrote
        PROVE  T.rows[i].status # "FREE"
    BY <1>9, <1>10, <1>11, <1>13, <2>1, <2>3 DEF RowsFollow
  <2>. QED
    BY <2>2, <2>3 DEF RowsFollow
<1>16. allocation[a].status # "Free"
  BY <1>1, <1>4, <1>7 DEF Orderly, AllocsFollow, ReleaseWhole, old
<1>17. AllocsFollow(T)
  <2>1. AllocsFollow(txn[p])
    BY <1>7 DEF Orderly
  <2>2. ASSUME NEW b \in AllocId, T.allocs[b].status # "Free"
        PROVE  IF allocation[b].status = "Free" THEN b \in T.wrote
               ELSE /\ T.allocs[b].event = allocation[b].event
                    /\ T.allocs[b].slot = allocation[b].slot
    <3>1. CASE b = a
      BY <1>4, <1>6, <1>12, <1>16, <2>1, <3>1 DEF AllocsFollow, old
    <3>2. CASE b # a
      BY <1>12, <1>13, <2>1, <2>2, <3>2 DEF AllocsFollow
    <3>. QED
      BY <3>1, <3>2
  <2>3. ASSUME NEW b \in AllocId \cap T.wrote
        PROVE  /\ Live(T.allocs[b])
               /\ allocation[b].status = "Free" /\ T.allocs[b].slot # NoSlot =>
                     /\ T.allocs[b].slot \in T.wrote
                     /\ reservation[T.allocs[b].slot].status = "FREE"
    <3>1. CASE b = a
      BY <1>7, <1>12, <1>16, <3>1
    <3>2. CASE b # a
      BY <1>12, <1>13, <2>1, <2>3, <3>2 DEF AllocsFollow
    <3>. QED
      BY <3>1, <3>2
  <2>. QED
    BY <2>2, <2>3 DEF AllocsFollow
<1>18. AllocsFresh(T)
  <2>1. AllocsFresh(txn[p])
    BY <1>7 DEF Orderly
  <2>2. ~Settled(old)
    BY <1>4 DEF Settled
  <2>3. a \notin T.stale => ~Settled(allocation[a])
    BY <1>11, <2>1, <2>2 DEF AllocsFresh, old
  <2>. QED
    BY <1>11, <1>12, <1>13, <2>1, <2>3 DEF AllocsFresh
<1>19. Freed(T)
  <2>1. Freed(txn[p]) /\ \A b \in AllocId : txn[p].allocs[b].slot \in Slot \cup {NoSlot}
    BY <1>2, <1>7 DEF Orderly, AllocRow
  <2>2. ASSUME NEW b \in AllocId \cap T.wrote, Settled(T.allocs[b]),
               T.allocs[b].slot # NoSlot
        PROVE  /\ T.allocs[b].slot \in T.wrote
               /\ T.rows[T.allocs[b].slot].status \in {"RELEASED", "CANCELLED"}
    <3>1. CASE b = a
      BY <1>6, <1>8, <1>9, <1>10, <1>11, <1>12, <1>13, <2>2, <3>1
    <3>2. CASE b # a
      <4>1. T.allocs[b] = txn[p].allocs[b] /\ b \in txn[p].wrote
        BY <1>12, <1>13, <2>2, <3>2
      <4>2. /\ T.allocs[b].slot \in txn[p].wrote
            /\ txn[p].rows[T.allocs[b].slot].status \in {"RELEASED", "CANCELLED"}
        BY <2>1, <2>2, <4>1 DEF Freed
      <4>3. T.allocs[b].slot \in Slot
        BY <2>1, <2>2, <4>1
      <4>4. \A i \in Slot : rows[i].status \in {txn[p].rows[i].status, "RELEASED", "CANCELLED"}
        BY <1>9, <1>10
      <4>. QED
        BY <1>11, <1>13, <4>2, <4>3, <4>4
    <3>. QED
      BY <3>1, <3>2
  <2>. QED
    BY <2>2 DEF Freed
<1>20. ReleaseWhole(T) /\ Started(T)
  BY <1>7, <1>11, <1>13, <1>16 DEF Orderly, ReleaseWhole, Started
<1>21. Orderly(T)
  BY <1>14, <1>15, <1>17, <1>18, <1>19, <1>20 DEF Orderly
<1>22. \A i \in Slot \cap T.wrote : i \in txn[p].wrote \/ reservation[i].status # "FREE"
  <2>1. RowsFollow(txn[p])
    BY <1>7 DEF Orderly
  <2>2. ASSUME NEW i \in Slot, i \in T.wrote, i \notin txn[p].wrote
        PROVE  reservation[i].status # "FREE"
    <3>1. i = old.slot /\ old.slot # NoSlot
      BY <1>13, <2>2, ConstantsAssumption
    <3>. QED
      BY <1>8, <2>1, <2>2, <3>1 DEF RowsFollow
  <2>. QED
    BY <2>2
<1>23. \A b \in AllocId \cap T.wrote : b \in txn[p].wrote \/ allocation[b].status # "Free"
  BY <1>13, <1>16
<1>. QED
  BY <1>5, <1>21, <1>22, <1>23, OrderlyStep

\* The outstandings still open in a release are of allocations it has settled.
LEMMA CancelOutstandingsAlloc ==
    ASSUME TypeInv, AllocInv, NEW p \in Proc, cancelOutstandings(p)
    PROVE  AllocInv'
<1>. DEFINE open == OpenOutstandings(p)
            allocs == [a \in AllocId |->
                          IF a \in open THEN [txn[p].allocs[a] EXCEPT !.open = FALSE]
                                        ELSE txn[p].allocs[a]]
            T == [txn[p] EXCEPT !.allocs = allocs, !.wrote = @ \cup open,
                                !.op = "commit"]
<1>1. txn[p] \in Txn /\ txn[p].op = "release" /\ Active(p)
  BY ActiveTxn DEF cancelOutstandings, Active, TypeInv
<1>2. /\ Orderly(txn[p]) /\ txn[p].reason # ""
      /\ txn[p].allocs \in [AllocId -> AllocRow]
  BY <1>1, TxnFields DEF AllocInv, Orderly, ReleaseWhole
<1>3. \A a \in AllocId : txn[p].allocs[a].event = txn[p].event =>
                         txn[p].allocs[a].status # "Reserved"
  BY DEF cancelOutstandings, Unsettled
<1>4. open \subseteq AllocId \cap txn[p].wrote
  BY <1>2, <1>3 DEF OpenOutstandings, Orderly, ViewInv
<1>5. txn' = [txn EXCEPT ![p] = T] /\ UNCHANGED <<reservation, allocation>>
  BY DEF cancelOutstandings, tables
<1>6. \A a \in AllocId : a \in open <=> /\ txn[p].allocs[a].event = txn[p].event
                                        /\ txn[p].allocs[a].open
  BY DEF OpenOutstandings
<1>. HIDE DEF open
<1>7. \A a \in AllocId :
         /\ a \notin open => allocs[a] = txn[p].allocs[a]
         /\ a \in open => ~allocs[a].open
         /\ allocs[a].status = txn[p].allocs[a].status
         /\ allocs[a].event = txn[p].allocs[a].event
         /\ allocs[a].resource = txn[p].allocs[a].resource
         /\ allocs[a].slot = txn[p].allocs[a].slot
         /\ allocs[a].requested = txn[p].allocs[a].requested
         /\ allocs[a].reserved = txn[p].allocs[a].reserved
         /\ allocs[a].outstanding = txn[p].allocs[a].outstanding
  <2>1. \A a \in AllocId : txn[p].allocs[a] \in AllocRow
    BY <1>2
  <2>. QED
    BY <2>1 DEF AllocRow
<1>. HIDE DEF allocs
<1>8. /\ T.op = "commit" /\ T.event = txn[p].event /\ T.reason = txn[p].reason
      /\ T.rows = txn[p].rows /\ T.stale = txn[p].stale /\ T.allocs = allocs
      /\ T.wrote = txn[p].wrote
  <2>1. T.wrote = txn[p].wrote \cup open
    BY <1>1 DEF Txn
  <2>2. txn[p].wrote \cup open = txn[p].wrote
    BY <1>4
  <2>. QED
    BY <1>1, <2>1, <2>2 DEF Txn
<1>. HIDE DEF T
<1>9. \A a \in AllocId : /\ Live(allocs[a]) <=> Live(txn[p].allocs[a])
                         /\ Settled(allocs[a]) <=> Settled(txn[p].allocs[a])
  BY <1>7 DEF Live, Settled
<1>10. ViewInv(T)
  <2>1. Backed(allocs, T.rows)
    <3>1. Backed(txn[p].allocs, txn[p].rows)
      BY <1>2 DEF Orderly, ViewInv
    <3>2. Backed(allocs, txn[p].rows)
      BY <1>7, <1>9, <3>1, BackedAllocs
    <3>. QED
      BY <1>8, <3>2
  <2>2. Unshared(allocs)
    <3>1. Unshared(txn[p].allocs)
      BY <1>2 DEF Orderly, ViewInv
    <3>2. \A a \in AllocId : /\ Live(allocs[a]) <=> Live(txn[p].allocs[a])
                             /\ allocs[a].slot = txn[p].allocs[a].slot
      BY <1>7, <1>9
    <3>. QED
      BY <3>1, <3>2 DEF Unshared
  <2>3. \A a \in AllocId : allocs[a].open =>
           allocs[a].outstanding > 0 /\ allocs[a].status = "Reserved"
    BY <1>2, <1>6, <1>7 DEF Orderly, ViewInv
  <2>. QED
    BY <1>8, <2>1, <2>2, <2>3 DEF ViewInv
<1>11. RowsFollow(T) /\ Started(T)
  BY <1>2, <1>8 DEF Orderly, RowsFollow, Started
<1>12. AllocsFollow(T)
  <2>1. AllocsFollow(txn[p])
    BY <1>2 DEF Orderly
  <2>2. ASSUME NEW a \in AllocId, allocs[a].status # "Free"
        PROVE  IF allocation[a].status = "Free" THEN a \in txn[p].wrote
               ELSE /\ allocs[a].event = allocation[a].event
                    /\ allocs[a].slot = allocation[a].slot
    BY <1>7, <2>1, <2>2 DEF AllocsFollow
  <2>3. ASSUME NEW a \in AllocId \cap txn[p].wrote
        PROVE  /\ Live(allocs[a])
               /\ allocation[a].status = "Free" /\ allocs[a].slot # NoSlot =>
                     /\ allocs[a].slot \in txn[p].wrote
                     /\ reservation[allocs[a].slot].status = "FREE"
    BY <1>7, <1>9, <2>1 DEF AllocsFollow
  <2>. QED
    BY <1>8, <2>2, <2>3 DEF AllocsFollow
<1>13. AllocsFresh(T)
  <2>1. AllocsFresh(txn[p])
    BY <1>2 DEF Orderly
  <2>2. \A a \in AllocId : a \notin txn[p].wrote => allocs[a] = txn[p].allocs[a]
    BY <1>4, <1>7
  <2>. QED
    BY <1>8, <1>9, <2>1, <2>2 DEF AllocsFresh
<1>14. Freed(T)
  <2>1. Freed(txn[p])
    BY <1>2 DEF Orderly
  <2>2. \A a \in AllocId : /\ Settled(T.allocs[a]) <=> Settled(txn[p].allocs[a])
                           /\ T.allocs[a].slot = txn[p].allocs[a].slot
    BY <1>7, <1>8, <1>9
  <2>. QED
    BY <1>8, <2>1, <2>2 DEF Freed
<1>15. ReleaseWhole(T)
  <2>1. T.reason # "" /\ T.op = "commit"
    BY <1>2, <1>8
  <2>2. \A a \in AllocId \cap T.wrote : allocation[a].status # "Free"
    <3>1. ReleaseWhole(txn[p]) /\ T.wrote = txn[p].wrote
      BY <1>2, <1>8 DEF Orderly
    <3>. QED
      BY <1>2, <3>1 DEF ReleaseWhole
  <2>3. ASSUME NEW a \in AllocId, T.allocs[a].event = T.event
        PROVE  T.allocs[a].status # "Reserved"
    <3>1. T.allocs[a].event = txn[p].allocs[a].event /\ T.event = txn[p].event
          /\ T.allocs[a].status = txn[p].allocs[a].status
      BY <1>7, <1>8
    <3>. QED
      BY <1>3, <2>3, <3>1
  <2>. QED
    BY <2>1, <2>2, <2>3 DEF ReleaseWhole
<1>16. Orderly(T)
  BY <1>10, <1>11, <1>12, <1>13, <1>14, <1>15 DEF Orderly
<1>. QED
  BY <1>5, <1>8, <1>16, OrderlyStep

\* A rollback leaves a transaction that has written nothing.
LEMMA AbortAlloc ==
    ASSUME TypeInv, AllocInv, NEW p \in Proc, Abort(p)
    PROVE  AllocInv'
<1>1. UNCHANGED <<reservation, allocation>>
  BY DEF Abort, tables
<1>2. /\ txn'[p] = Idle /\ Idle.op = "idle" /\ Idle.wrote = {}
      /\ \A q \in Proc \ {p} : txn'[q] = txn[q]
  BY DEF Abort, TypeInv, TypeOK, Idle
<1>3. TablesInv'
  BY <1>1 DEF AllocInv, TablesInv, Backed, Unshared, OpenWhileReserved
<1>4. Exclusively'
  <2>1. SUFFICES ASSUME NEW q \in Proc, NEW r \in Proc, q # r
                 PROVE  /\ \A i \in Slot \cap txn'[q].wrote \cap txn'[r].wrote :
                               reservation[i].status # "FREE"
                        /\ \A a \in AllocId \cap txn'[q].wrote \cap txn'[r].wrote :
                               allocation[a].status # "Free"
    BY <1>1 DEF Exclusively
  <2>. QED
    BY <1>2, <2>1 DEF AllocInv, Exclusively
<1>5. ASSUME NEW q \in Proc, Active(q)'
      PROVE  Orderly(txn[q])'
  <2>1. q # p
    BY <1>2, <1>5 DEF Active
  <2>2. Orderly(txn'[q])
    BY <1>2, <1>5, <2>1 DEF AllocInv, Active
  <2>. QED
    BY <1>1, <2>2, OrderlyPrime
<1>. QED
  BY <1>3, <1>4, <1>5 DEF AllocInv

-----------------------------------------------------------------------------
(***************************************************************************)
(* Changes of the tables                                                   *)
(***************************************************************************)

\* How a change of the tables by another transaction, or by a plain update, meets
\* the transaction of q: rows keep their identity, what is settled stays settled,
\* q has inserted none of the new rows, and learns which allocations changed.
Meets(q) ==
    /\ \A i \in Slot :
          IF reservation[i].status = "FREE"
          THEN reservation'[i].status # "FREE" => i \notin txn[q].wrote
          ELSE /\ reservation'[i].status # "FREE"
               /\ reservation'[i].event = reservation[i].event
               /\ reservation'[i].resource = reservation[i].resource
    /\ \A a \in AllocId :
          /\ IF allocation[a].status = "Free"
             THEN allocation'[a].status # "Free" => a \notin txn[q].wrote
             ELSE /\ allocation'[a].status # "Free"
                  /\ allocation'[a].event = allocation[a].event
                  /\ allocation'[a].slot = allocation[a].slot
          /\ Settled(allocation[a]) => Settled(allocation'[a])
          /\ allocation'[a] # allocation[a] => a \in txn'[q].stale
    /\ txn'[q].op = txn[q].op /\ txn'[q].event = txn[q].event
    /\ txn'[q].reason = txn[q].reason /\ txn'[q].todo = txn[q].todo
    /\ txn'[q].rows = txn[q].rows /\ txn'[q].allocs = txn[q].allocs
    /\ txn'[q].wrote = txn[q].wrote /\ txn[q].stale \subseteq txn'[q].stale

\* Such a change keeps the view of q orderly.
LEMMA OrderlyTables ==
    ASSUME NEW q \in Proc, txn[q] \in Txn, Orderly(txn[q]), Meets(q)
    PROVE  Orderly(txn[q])'
<1>. DEFINE T == txn[q]
<1>1. /\ T'.op = T.op /\ T'.event = T.event /\ T'.reason = T.reason
      /\ T'.todo = T.todo /\ T'.rows = T.rows /\ T'.allocs = T.allocs
      /\ T'.wrote = T.wrote /\ T.stale \subseteq T'.stale
  BY DEF Meets
<1>2. ViewInv(T)'
  <2>1. Backed(T.allocs, T.rows) /\ Unshared(T.allocs)
    BY DEF Orderly, ViewInv
  <2>2. Backed(T'.allocs, T'.rows) /\ Unshared(T'.allocs)
    BY <1>1, <2>1
  <2>3. \A a \in AllocId : T'.allocs[a].open =>
           /\ T'.allocs[a].outstanding > 0
           /\ \/ T'.allocs[a].status = "Reserved"
              \/ T'.op = "release" /\ a \in T'.wrote /\ T'.allocs[a].event = T'.event
    BY <1>1 DEF Orderly, ViewInv
  <2>. QED
    BY <2>2, <2>3 DEF ViewInv, Backed, Unshared
<1>3. RowsFollow(T)'
  <2>1. RowsFollow(T)
    BY DEF Orderly
  <2>2. ASSUME NEW i \in Slot, T.rows[i].status # "FREE"
        PROVE  IF reservation'[i].status = "FREE" THEN i \in T.wrote
               ELSE /\ T.rows[i].event = reservation'[i].event
                    /\ T.rows[i].resource = reservation'[i].resource
    BY <2>1, <2>2 DEF RowsFollow, Meets
  <2>. QED
    BY <1>1, <2>1, <2>2 DEF RowsFollow
<1>4. AllocsFollow(T)'
  <2>1. AllocsFollow(T) /\ RowsFollow(T)
    BY DEF Orderly
  <2>2. ASSUME NEW a \in AllocId, T.allocs[a].status # "Free"
        PROVE  IF allocation'[a].status = "Free" THEN a \in T.wrote
               ELSE /\ T.allocs[a].event = allocation'[a].event
                    /\ T.allocs[a].slot = allocation'[a].slot
    BY <2>1, <2>2 DEF AllocsFollow, Meets
  <2>3. ASSUME NEW a \in AllocId \cap T.wrote, allocation'[a].status = "Free",
               T.allocs[a].slot # NoSlot
        PROVE  /\ T.allocs[a].slot \in T.wrote
               /\ reservation'[T.allocs[a].slot].status = "FREE"
    <3>0. T.allocs[a].slot \in Slot
      <4>1. T.allocs[a] \in AllocRow
        BY TxnFields
      <4>. QED
        BY <2>3, <4>1 DEF AllocRow
    <3>1. /\ T.allocs[a].slot \in T.wrote
          /\ reservation[T.allocs[a].slot].status = "FREE"
      BY <2>1, <2>3 DEF AllocsFollow, Meets
    <3>. QED
      BY <2>3, <3>0, <3>1 DEF Meets
  <2>. QED
    BY <1>1, <2>1, <2>2, <2>3 DEF AllocsFollow
<1>5. AllocsFresh(T)'
  <2>1. AllocsFresh(T)
    BY DEF Orderly
  <2>2. ASSUME NEW a \in AllocId
        PROVE  /\ a \in T.wrote /\ a \notin T'.stale => ~Settled(allocation'[a])
               /\ a \notin T.wrote /\ a \notin T'.stale => T.allocs[a] = allocation'[a]
               /\ a \notin T.wrote /\ Settled(T.allocs[a]) => Settled(allocation'[a])
    <3>1. /\ a \notin T'.stale => allocation'[a] = allocation[a] /\ a \notin T.stale
          /\ Settled(allocation[a]) => Settled(allocation'[a])
      BY DEF Meets
    <3>. QED
      BY <2>1, <3>1 DEF AllocsFresh
  <2>. QED
    BY <1>1, <2>2 DEF AllocsFresh, Settled
<1>6. Freed(T)'
  BY <1>1 DEF Orderly, Freed, Settled
<1>7. ReleaseWhole(T)'
  BY <1>1 DEF Orderly, ReleaseWhole, Meets
<1>8. Started(T)'
  BY <1>1 DEF Orderly, Started
<1>. QED
  BY <1>2, <1>3, <1>4, <1>5, <1>6, <1>7, <1>8 DEF Orderly

\* So it keeps the invariant if the rows still agree.
LEMMA TablesAlloc ==
    ASSUME TypeInv, TypeInv', AllocInv, TablesInv',
           \A q \in Proc : Active(q)' => Active(q) /\ Meets(q)
    PROVE  AllocInv'
<1>1. ASSUME NEW q \in Proc
      PROVE  \/ Active(q)' /\ Active(q) /\ Meets(q) /\ txn[q] \in Txn
             \/ ~Active(q)' /\ txn'[q].wrote = {}
  <2>1. CASE Active(q)'
    BY <2>1, ActiveTxn DEF TypeInv
  <2>2. CASE ~Active(q)'
    <3>1. txn'[q] \in Txn \cup {Idle}
      BY DEF TypeInv, TypeOK
    <3>2. txn'[q] = Idle
      BY <2>2, <3>1 DEF Active, Txn
    <3>. QED
      BY <2>2, <3>2 DEF Idle
  <2>. QED
    BY <2>1, <2>2
<1>2. Exclusively'
  <2>1. SUFFICES ASSUME NEW q \in Proc, NEW r \in Proc, q # r
                 PROVE  /\ \A i \in Slot \cap txn'[q].wrote \cap txn'[r].wrote :
                               reservation'[i].status # "FREE"
                        /\ \A a \in AllocId \cap txn'[q].wrote \cap txn'[r].wrote :
                               allocation'[a].status # "Free"
    BY DEF Exclusively
  <2>2. CASE txn'[q].wrote = {} \/ txn'[r].wrote = {}
    BY <2>2
  <2>3. CASE Meets(q) /\ Meets(r)
    <3>1. txn'[q].wrote = txn[q].wrote /\ txn'[r].wrote = txn[r].wrote
      BY <2>3 DEF Meets
    <3>2. /\ \A i \in Slot \cap txn[q].wrote \cap txn[r].wrote : reservation[i].status # "FREE"
          /\ \A a \in AllocId \cap txn[q].wrote \cap txn[r].wrote : allocation[a].status # "Free"
      BY <2>1 DEF AllocInv, Exclusively
    <3>3. /\ \A i \in Slot : reservation[i].status # "FREE" => reservation'[i].status # "FREE"
          /\ \A a \in AllocId : allocation[a].status # "Free" => allocation'[a].status # "Free"
      BY <2>3 DEF Meets
    <3>. QED
      BY <3>1, <3>2, <3>3
  <2>. QED
    BY <1>1, <2>2, <2>3
<1>3. ASSUME NEW q \in Proc, Active(q)'
      PROVE  Orderly(txn[q])'
  BY <1>1, <1>3, OrderlyTables DEF AllocInv
<1>. QED
  BY <1>2, <1>3 DEF AllocInv

\* How a commit changes the rows: those that exist keep their identity, and new
\* ones are the transaction's.
LEMMA CommitRows ==
    ASSUME TypeInv, AllocInv, NEW p \in Proc, Commit(p)
    PROVE  /\ \A i \in Slot : reservation[i].status # "FREE" =>
                 /\ reservation'[i].status # "FREE"
                 /\ reservation'[i].event = reservation[i].event
                 /\ reservation'[i].resource = reservation[i].resource
           /\ \A i \in Slot : txn[p].rows[i].status # "FREE" =>
                 /\ reservation'[i].status # "FREE"
                 /\ reservation'[i].event = txn[p].rows[i].event
                 /\ reservation'[i].resource = txn[p].rows[i].resource
           /\ \A i \in Slot \ txn[p].wrote : reservation'[i] = reservation[i]
           /\ \A a \in AllocId : allocation[a].status # "Free" =>
                 /\ allocation'[a].status # "Free"
                 /\ allocation'[a].event = allocation[a].event
                 /\ allocation'[a].slot = allocation[a].slot
           /\ \A a \in AllocId \ txn[p].wrote : allocation'[a] = allocation[a]
           /\ \A a \in AllocId \cap txn[p].wrote :
                 /\ allocation'[a] = txn[p].allocs[a]
                 /\ ~Settled(allocation[a])
                 /\ Live(allocation'[a])
<1>1. Orderly(txn[p]) /\ txn[p].wrote \cap txn[p].stale = {}
  BY DEF Commit, UpdateConflict, AllocInv, Active
<1>2. RowsFollow(txn[p]) /\ AllocsFollow(txn[p]) /\ AllocsFresh(txn[p])
  BY <1>1 DEF Orderly
<1>3. /\ \A i \in Slot : reservation'[i] = IF i \in txn[p].wrote THEN txn[p].rows[i]
                                                                 ELSE reservation[i]
      /\ \A a \in AllocId : allocation'[a] = IF a \in txn[p].wrote THEN txn[p].allocs[a]
                                                                   ELSE allocation[a]
  BY DEF Commit
<1>4. ASSUME NEW i \in Slot, reservation[i].status # "FREE"
      PROVE  /\ reservation'[i].status # "FREE"
             /\ reservation'[i].event = reservation[i].event
             /\ reservation'[i].resource = reservation[i].resource
  BY <1>2, <1>3, <1>4 DEF RowsFollow
<1>5. ASSUME NEW i \in Slot, txn[p].rows[i].status # "FREE"
      PROVE  /\ reservation'[i].status # "FREE"
             /\ reservation'[i].event = txn[p].rows[i].event
             /\ reservation'[i].resource = txn[p].rows[i].resource
  BY <1>2, <1>3, <1>5 DEF RowsFollow
<1>6. ASSUME NEW a \in AllocId, a \in txn[p].wrote
      PROVE  /\ allocation'[a] = txn[p].allocs[a]
             /\ ~Settled(allocation[a])
             /\ Live(allocation'[a])
  BY <1>1, <1>2, <1>3, <1>6 DEF AllocsFollow, AllocsFresh
<1>7. ASSUME NEW a \in AllocId, allocation[a].status # "Free"
      PROVE  /\ allocation'[a].status # "Free"
             /\ allocation'[a].event = allocation[a].event
             /\ allocation'[a].slot = allocation[a].slot
  <2>1. CASE a \in txn[p].wrote
    BY <1>2, <1>6, <1>7, <2>1 DEF AllocsFollow, Live
  <2>2. CASE a \notin txn[p].wrote
    BY <1>3, <1>7, <2>2
  <2>. QED
    BY <2>1, <2>2
<1>. QED
  BY <1>3, <1>4, <1>5, <1>6, <1>7

\* The tables agree after a commit.
LEMMA CommitTables ==
    ASSUME TypeInv, AllocInv, NEW p \in Proc, Commit(p)
    PROVE  TablesInv'
<1>1. /\ Orderly(txn[p]) /\ txn[p].op = "commit"
      /\ Backed(txn[p].allocs, txn[p].rows) /\ Unshared(txn[p].allocs)
      /\ AllocsFollow(txn[p])
  BY DEF Commit, AllocInv, Active, Orderly, ViewInv
<1>2. TablesInv
  BY DEF AllocInv
<1>3. /\ txn[p].allocs \in [AllocId -> AllocRow] /\ allocation \in [AllocId -> AllocRow]
  BY ActiveTxn, TxnFields DEF Commit, Active, TypeInv, TypeOK
<1>4. Backed(txn[p].allocs, reservation') /\ Backed(allocation, reservation')
  <2>1. Backed(txn[p].allocs, reservation')
    <3>1. \A i \in Slot : txn[p].rows[i].status # "FREE" =>
             /\ reservation'[i].status # "FREE"
             /\ reservation'[i].event = txn[p].rows[i].event
             /\ reservation'[i].resource = txn[p].rows[i].resource
      BY CommitRows
    <3>. QED
      BY <1>1, <1>3, <3>1, BackedRows
  <2>2. Backed(allocation, reservation')
    BY <1>2, <1>3, CommitRows, BackedRows DEF TablesInv
  <2>. QED
    BY <2>1, <2>2
<1>5. \A a \in AllocId : allocation'[a] = IF a \in txn[p].wrote THEN txn[p].allocs[a]
                                                                ELSE allocation[a]
  BY CommitRows
<1>6. Backed(allocation', reservation')
  BY <1>4, <1>5 DEF Backed
<1>7. Unshared(allocation')
  <2>1. ASSUME NEW a \in AllocId, NEW b \in AllocId, a \in txn[p].wrote, b \notin txn[p].wrote,
               Live(allocation'[a]), Live(allocation'[b]),
               allocation'[a].slot # NoSlot, allocation'[b].slot = allocation'[a].slot
        PROVE  FALSE
    <3>1. allocation'[a] = txn[p].allocs[a] /\ allocation'[b] = allocation[b] /\ a # b
      BY <1>5, <2>1
    <3>2. ~Settled(allocation[a])
      BY <2>1, CommitRows
    <3>3. CASE allocation[a].status = "Free"
      <4>1. reservation[txn[p].allocs[a].slot].status = "FREE"
        BY <1>1, <2>1, <3>1, <3>3 DEF AllocsFollow
      <4>2. reservation[allocation[b].slot].status # "FREE"
        BY <1>2, <2>1, <3>1 DEF TablesInv, Backed
      <4>. QED
        BY <2>1, <3>1, <4>1, <4>2
    <3>4. CASE allocation[a].status # "Free"
      <4>1. Live(allocation[a]) /\ allocation[a].slot = allocation'[a].slot
        BY <3>2, <3>4, CommitRows DEF Live, Settled
      <4>. QED
        BY <1>2, <2>1, <3>1, <4>1 DEF TablesInv, Unshared
    <3>. QED
      BY <3>3, <3>4
  <2>2. ASSUME NEW a \in AllocId, NEW b \in AllocId, a # b,
               Live(allocation'[a]), Live(allocation'[b]), allocation'[a].slot # NoSlot
        PROVE  allocation'[b].slot # allocation'[a].slot
    <3>1. CASE a \in txn[p].wrote /\ b \in txn[p].wrote
      BY <1>1, <1>5, <2>2, <3>1 DEF Unshared
    <3>2. CASE a \notin txn[p].wrote /\ b \notin txn[p].wrote
      BY <1>2, <1>5, <2>2, <3>2 DEF TablesInv, Unshared
    <3>3. CASE a \in txn[p].wrote /\ b \notin txn[p].wrote
      BY <2>1, <2>2, <3>3
    <3>4. CASE a \notin txn[p].wrote /\ b \in txn[p].wrote
      BY <2>1, <2>2, <3>4
    <3>. QED
      BY <3>1, <3>2, <3>3, <3>4
  <2>. QED
    BY <2>2 DEF Unshared
<1>8. OpenWhileReserved(allocation')
  <2>1. \A a \in AllocId : txn[p].allocs[a].open =>
           txn[p].allocs[a].outstanding > 0 /\ txn[p].allocs[a].status = "Reserved"
    BY <1>1 DEF Orderly, ViewInv
  <2>. QED
    BY <1>2, <1>5, <2>1 DEF TablesInv, OpenWhileReserved
<1>. QED
  BY <1>6, <1>7, <1>8 DEF TablesInv, Backed, Unshared, OpenWhileReserved

\* A commit meets the transactions still in progress.
LEMMA CommitAlloc ==
    ASSUME TypeInv, TypeInv', AllocInv, NEW p \in Proc, Commit(p)
    PROVE  AllocInv'
<1>1. TablesInv'
  BY CommitTables
<1>2. ASSUME NEW q \in Proc, Active(q)'
      PROVE  Active(q) /\ Meets(q)
  <2>1. q # p /\ Active(q)
    BY <1>2 DEF Commit, Publish, Active, Idle
  <2>2. txn[q] \in Txn
    BY <2>1, ActiveTxn DEF TypeInv
  <2>3. txn'[q] = [txn[q] EXCEPT !.stale = @ \cup txn[p].wrote,
                                 !.rivals = @ \cup txn[p].claims]
    BY <2>1 DEF Commit, Publish
  <2>4. /\ txn'[q].op = txn[q].op /\ txn'[q].event = txn[q].event
        /\ txn'[q].reason = txn[q].reason /\ txn'[q].todo = txn[q].todo
        /\ txn'[q].rows = txn[q].rows /\ txn'[q].allocs = txn[q].allocs
        /\ txn'[q].wrote = txn[q].wrote
        /\ txn'[q].stale = txn[q].stale \cup txn[p].wrote
    BY <2>2, <2>3 DEF Txn
  <2>5. /\ \A i \in Slot \cap txn[p].wrote \cap txn[q].wrote : reservation[i].status # "FREE"
        /\ \A a \in AllocId \cap txn[p].wrote \cap txn[q].wrote : allocation[a].status # "Free"
    BY <2>1 DEF AllocInv, Exclusively
  <2>6. ASSUME NEW i \in Slot
        PROVE  IF reservation[i].status = "FREE"
               THEN reservation'[i].status # "FREE" => i \notin txn[q].wrote
               ELSE /\ reservation'[i].status # "FREE"
                    /\ reservation'[i].event = reservation[i].event
                    /\ reservation'[i].resource = reservation[i].resource
    <3>1. CASE reservation[i].status = "FREE"
      <4>1. reservation'[i].status # "FREE" => i \in txn[p].wrote
        BY <3>1, CommitRows
      <4>. QED
        BY <2>5, <3>1, <4>1
    <3>2. CASE reservation[i].status # "FREE"
      BY <3>2, CommitRows
    <3>. QED
      BY <3>1, <3>2
  <2>7. ASSUME NEW a \in AllocId
        PROVE  /\ IF allocation[a].status = "Free"
                  THEN allocation'[a].status # "Free" => a \notin txn[q].wrote
                  ELSE /\ allocation'[a].status # "Free"
                       /\ allocation'[a].event = allocation[a].event
                       /\ allocation'[a].slot = allocation[a].slot
               /\ Settled(allocation[a]) => Settled(allocation'[a])
               /\ allocation'[a] # allocation[a] => a \in txn'[q].stale
    <3>1. allocation'[a] # allocation[a] => a \in txn[p].wrote
      BY CommitRows
    <3>2. Settled(allocation[a]) => allocation'[a] = allocation[a]
      BY CommitRows
    <3>3. CASE allocation[a].status = "Free"
      BY <2>4, <2>5, <3>1, <3>2, <3>3
    <3>4. CASE allocation[a].status # "Free"
      <4>1. /\ allocation'[a].status # "Free"
            /\ allocation'[a].event = allocation[a].event
            /\ allocation'[a].slot = allocation[a].slot
        BY <3>4, CommitRows
      <4>. QED
        BY <2>4, <3>1, <3>2, <3>4, <4>1
    <3>. QED
      BY <3>3, <3>4
  <2>. QED
    BY <2>1, <2>4, <2>6, <2>7 DEF Meets
<1>. QED
  BY <1>1, <1>2, TablesAlloc

\* A plain cancel or release keeps the event and the resource of its row.
LEMMA FreedAlloc ==
    ASSUME TypeInv, TypeInv', AllocInv, NEW i \in Slot, NEW target \in FreedStatus,
           transitionReservationWithoutCapacityCheck(i, target)
    PROVE  AllocInv'
<1>1. allocation' = allocation /\ reservation[i].status # "FREE" /\ target # "FREE"
  BY ConstantsAssumption DEF transitionReservationWithoutCapacityCheck
<1>2. \A j \in Slot : /\ reservation'[j].status # "FREE" <=> reservation[j].status # "FREE"
                      /\ reservation'[j].event = reservation[j].event
                      /\ reservation'[j].resource = reservation[j].resource
  <2>1. reservation \in [Slot -> Row]
    BY DEF TypeInv, TypeOK
  <2>2. reservation' = [reservation EXCEPT ![i].status = target]
    BY DEF transitionReservationWithoutCapacityCheck
  <2>3. ASSUME NEW j \in Slot, j # i PROVE reservation'[j] = reservation[j]
    BY <2>1, <2>2, <2>3
  <2>4. /\ reservation'[i].status = target
        /\ reservation'[i].event = reservation[i].event
        /\ reservation'[i].resource = reservation[i].resource
    <3>1. reservation[i] \in Row
      BY <2>1
    <3>2. reservation'[i] = [reservation[i] EXCEPT !.status = target]
      BY <2>1, <2>2
    <3>. QED
      BY <3>1, <3>2 DEF Row
  <2>. QED
    BY <1>1, <2>3, <2>4
<1>3. TablesInv'
  <2>1. TablesInv /\ allocation \in [AllocId -> AllocRow]
    BY DEF AllocInv, TypeInv, TypeOK
  <2>2. Backed(allocation, reservation) /\ Unshared(allocation) /\ OpenWhileReserved(allocation)
    BY <2>1 DEF TablesInv
  <2>3. Backed(allocation, reservation')
    BY <1>2, <2>1, <2>2, BackedRows
  <2>. QED
    BY <1>1, <2>2, <2>3 DEF TablesInv, Backed, Unshared, OpenWhileReserved
<1>4. ASSUME NEW q \in Proc, Active(q)'
      PROVE  Active(q) /\ Meets(q)
  <2>1. Active(q)
    BY <1>4 DEF transitionReservationWithoutCapacityCheck, Active, Idle
  <2>2. txn[q] \in Txn
    BY <2>1, ActiveTxn DEF TypeInv
  <2>3. txn'[q] = [txn[q] EXCEPT !.stale = @ \cup {i}]
    BY <2>1 DEF transitionReservationWithoutCapacityCheck
  <2>4. /\ txn'[q].op = txn[q].op /\ txn'[q].event = txn[q].event
        /\ txn'[q].reason = txn[q].reason /\ txn'[q].todo = txn[q].todo
        /\ txn'[q].rows = txn[q].rows /\ txn'[q].allocs = txn[q].allocs
        /\ txn'[q].wrote = txn[q].wrote
        /\ txn'[q].stale = txn[q].stale \cup {i}
    BY <2>2, <2>3 DEF Txn
  <2>. QED
    BY <1>1, <1>2, <2>1, <2>4 DEF Meets
<1>. QED
  BY <1>3, <1>4, TablesAlloc

\* Nothing in the invariant depends on the resources.
LEMMA SameAlloc ==
    ASSUME AllocInv, UNCHANGED <<reservation, allocation, txn>>
    PROVE  AllocInv'
<1>1. TablesInv'
  BY DEF AllocInv, TablesInv, Backed, Unshared, OpenWhileReserved
<1>2. Exclusively'
  BY DEF AllocInv, Exclusively
<1>3. ASSUME NEW q \in Proc, Active(q)'
      PROVE  Orderly(txn[q])'
  <2>1. Orderly(txn'[q])
    BY <1>3 DEF AllocInv, Active
  <2>. QED
    BY <2>1, OrderlyPrime
<1>. QED
  BY <1>1, <1>2, <1>3 DEF AllocInv

\* The plain updates keep the invariant.
LEMMA PlainUpdateAlloc ==
    ASSUME TypeInv, TypeInv', AllocInv, PlainUpdate
    PROVE  AllocInv'
<1>1. ASSUME NEW r \in Resource, NEW s, updateResource(r, s)
      PROVE  AllocInv'
  BY <1>1, SameAlloc DEF updateResource
<1>2. ASSUME NEW r \in Resource, archiveResource(r) \/ restoreResource(r)
      PROVE  AllocInv'
  BY <1>2, SameAlloc DEF archiveResource, restoreResource
<1>. QED
  BY <1>1, <1>2, FreedAlloc, ConstantsAssumption DEF PlainUpdate

-----------------------------------------------------------------------------
(***************************************************************************)
(* Allocations are accounted for                                           *)
(***************************************************************************)

\* The invariant holds initially.
LEMMA AllocInit == Init => AllocInv
<1>. SUFFICES ASSUME Init PROVE AllocInv
  OBVIOUS
<1>1. /\ \A a \in AllocId : ~Live(allocation[a]) /\ ~allocation[a].open
      /\ \A p \in Proc : ~Active(p) /\ txn[p].wrote = {}
  BY DEF Init, FreeAlloc, Idle, Live, Active
<1>2. TablesInv
  BY <1>1 DEF TablesInv, Backed, Unshared, OpenWhileReserved
<1>3. Exclusively
  BY <1>1 DEF Exclusively
<1>. QED
  BY <1>1, <1>2, <1>3 DEF AllocInv

\* Every step of the engine keeps it.
LEMMA AllocNext ==
    ASSUME TypeInv, TypeInv', AllocInv, [Next]_vars
    PROVE  AllocInv'
<1>1. CASE UNCHANGED vars
  BY <1>1, SameAlloc DEF vars
<1>2. CASE PlainUpdate
  BY <1>2, PlainUpdateAlloc
<1>3. ASSUME NEW p \in Proc, NewRequest(p) PROVE AllocInv'
  BY <1>3, NewRequestAlloc
<1>4. ASSUME NEW p \in Proc, Step(p) PROVE AllocInv'
  BY <1>4, CreateAlloc, UpdateAlloc, AllocateAlloc, ReleaseAllocationAlloc,
     CancelOutstandingsAlloc, CommitAlloc, AbortAlloc DEF Step
<1>. QED
  BY <1>1, <1>2, <1>3, <1>4 DEF Next

\* The types and the invariant together, which is inductive.
AccountedInv == TypeInv /\ AllocInv

LEMMA AccountedInvariant == Spec => []AccountedInv
<1>1. Init => AccountedInv
  BY TypeInit, AllocInit DEF AccountedInv
<1>2. AccountedInv /\ [Next]_vars => AccountedInv'
  BY TypeNext, AllocNext DEF AccountedInv
<1>. QED
  BY <1>1, <1>2, PTL DEF Spec

\* What the tables satisfy is what is promised of allocations.
LEMMA TablesAccount ==
    ASSUME TypeInv, AllocInv
    PROVE  AllocationsAccounted
<1>1. SUFFICES ASSUME NEW a \in AllocId, Live(allocation[a])
               PROVE  LET row == allocation[a] IN
                      /\ row.requested = row.reserved + row.outstanding
                      /\ row.open => row.status = "Reserved" /\ row.outstanding > 0
                      /\ (row.slot = NoSlot) = (row.reserved = 0)
                      /\ row.slot # NoSlot =>
                            /\ reservation[row.slot].event = row.event
                            /\ reservation[row.slot].resource = row.resource
                            /\ \A b \in AllocId \ {a} :
                                  allocation[b].status \notin {"Free", "Deleted"} =>
                                      allocation[b].slot # row.slot
  BY DEF AllocationsAccounted, Live
<1>2. Backed(allocation, reservation) /\ Unshared(allocation) /\ OpenWhileReserved(allocation)
  BY DEF AllocInv, TablesInv
<1>3. /\ allocation[a].requested = allocation[a].reserved + allocation[a].outstanding
      /\ (allocation[a].slot = NoSlot) <=> (allocation[a].reserved = 0)
      /\ allocation[a].slot # NoSlot =>
            /\ reservation[allocation[a].slot].event = allocation[a].event
            /\ reservation[allocation[a].slot].resource = allocation[a].resource
  BY <1>1, <1>2 DEF Backed
<1>4. allocation[a].open => allocation[a].status = "Reserved" /\ allocation[a].outstanding > 0
  BY <1>2 DEF OpenWhileReserved
<1>5. allocation[a].slot # NoSlot =>
         \A b \in AllocId \ {a} : allocation[b].status \notin {"Free", "Deleted"} =>
             allocation[b].slot # allocation[a].slot
  BY <1>1, <1>2 DEF Unshared, Live
<1>. QED
  BY <1>3, <1>4, <1>5

\* Whatever handlers run at once, every unit an event asked for is reserved or
\* outstanding, an outstanding is open only while its allocation is Reserved, and
\* the reserved quantity is backed by a reservation of that event and resource
\* which no other allocation refers to.
THEOREM AllocationsAreAccounted == Spec => []AllocationsAccounted
<1>1. AccountedInv => AllocationsAccounted
  BY TablesAccount DEF AccountedInv
<1>. QED
  BY <1>1, AccountedInvariant, PTL

\* Only a commit changes an allocation, and none that is settled.
LEMMA EngineChangesAlloc ==
    ASSUME TypeInv, AllocInv, [Next]_vars, NEW a \in AllocId,
           allocation'[a] # allocation[a]
    PROVE  \E p \in Proc : Commit(p) /\ a \in txn[p].wrote /\ ~Settled(allocation[a])
<1>1. CASE UNCHANGED vars
  BY <1>1 DEF vars
<1>2. CASE PlainUpdate
  BY <1>2 DEF PlainUpdate, transitionReservationWithoutCapacityCheck, updateResource,
              archiveResource, restoreResource
<1>3. ASSUME NEW p \in Proc, NewRequest(p) PROVE FALSE
  BY <1>3 DEF NewRequest, BeginCreate, BeginUpdate, BeginConfirm, BeginAllocate,
              BeginRelease, Begin, tables
<1>4. ASSUME NEW p \in Proc, Step(p) PROVE Commit(p)
  BY <1>4 DEF Step, createReservation, updateReservation, tables,
              reserveResourcesForEvent, releaseAllocation, cancelOutstandings, Abort
<1>5. ASSUME NEW p \in Proc, Commit(p)
      PROVE  a \in txn[p].wrote /\ ~Settled(allocation[a])
  BY <1>5, CommitRows
<1>. QED
  BY <1>1, <1>2, <1>3, <1>4, <1>5 DEF Next

\* No concurrent or later release changes the status or the returned quantity of
\* an allocation that releaseEventAllocations has settled.
THEOREM SettledOnce == Spec => AllocationSettledOnce
<1>1. AccountedInv /\ [Next]_vars =>
          \A a \in AllocId : allocation[a].status \in {"Returned", "Cancelled"} =>
              \/ allocation'[a] = allocation[a]
              \/ allocation'[a].status = "Deleted"
  BY EngineChangesAlloc DEF AccountedInv, Settled
<1>. QED
  BY <1>1, AccountedInvariant, PTL DEF Spec, AllocationSettledOnce

\* A commit that settles an allocation frees its reservation and closes its
\* outstanding.
LEMMA CommitFrees ==
    ASSUME TypeInv, AllocInv, NEW p \in Proc, Commit(p), NEW a \in AllocId,
           a \in txn[p].wrote, Settled(allocation'[a]), allocation[a].status # "Free"
    PROVE  /\ ~allocation'[a].open
           /\ allocation[a].slot # NoSlot =>
                 ~statusConsumesCapacity(reservation'[allocation[a].slot].status)
<1>1. Orderly(txn[p]) /\ txn[p].op = "commit"
  BY DEF Commit, AllocInv, Active
<1>2. allocation'[a] = txn[p].allocs[a] /\ allocation[a].slot = txn[p].allocs[a].slot
  BY CommitRows
<1>3. ~allocation'[a].open
  BY <1>1, <1>2 DEF Orderly, ViewInv, Settled
<1>4. ASSUME allocation[a].slot # NoSlot
      PROVE  ~statusConsumesCapacity(reservation'[allocation[a].slot].status)
  <2>1. /\ allocation[a].slot \in txn[p].wrote
        /\ txn[p].rows[allocation[a].slot].status \in {"RELEASED", "CANCELLED"}
    BY <1>1, <1>2, <1>4 DEF Orderly, Freed
  <2>2. allocation[a].slot \in Slot
    <3>1. allocation[a] \in AllocRow
      BY DEF TypeInv, TypeOK
    <3>. QED
      BY <1>4, <3>1 DEF AllocRow
  <2>3. reservation'[allocation[a].slot] = txn[p].rows[allocation[a].slot]
    BY <2>1, <2>2 DEF Commit
  <2>. QED
    BY <2>1, <2>3 DEF statusConsumesCapacity, CAPACITY_CONSUMING_STATUSES
<1>. QED
  BY <1>3, <1>4

\* Only a commit settles an allocation.
LEMMA SettlingStep ==
    ASSUME AccountedInv, [Next]_vars, NEW a \in AllocId,
           allocation[a].status = "Reserved",
           allocation'[a].status \in {"Returned", "Cancelled"}
    PROVE  /\ ~allocation'[a].open
           /\ allocation[a].slot # NoSlot =>
                 ~statusConsumesCapacity(reservation'[allocation[a].slot].status)
<1>1. TypeInv /\ AllocInv
  BY DEF AccountedInv
<1>2. PICK p \in Proc : Commit(p) /\ a \in txn[p].wrote
  BY <1>1, EngineChangesAlloc
<1>. QED
  BY <1>1, <1>2, CommitFrees DEF Settled

\* The step that settles an allocation frees the capacity its reservation holds
\* and closes its outstanding in that same step.
THEOREM SettlingFrees == Spec => SettlingFreesCapacity
<1>1. AccountedInv /\ [Next]_vars =>
          \A a \in AllocId :
              allocation[a].status = "Reserved" /\ allocation'[a].status \in {"Returned", "Cancelled"} =>
                  /\ ~allocation'[a].open
                  /\ allocation[a].slot # NoSlot =>
                         ~statusConsumesCapacity(reservation'[allocation[a].slot].status)
  BY SettlingStep
<1>. QED
  BY <1>1, AccountedInvariant, PTL DEF Spec, SettlingFreesCapacity

-----------------------------------------------------------------------------
(***************************************************************************)
(* The engine works in whole steps                                         *)
(*                                                                         *)
(* A commit is one step of Booking because of what the transaction has     *)
(* prepared.  Every row a statement of it wrote was as in the tables; one  *)
(* another handler changed since is stale and makes the commit fail, so    *)
(* what is said of a row need hold only as long as it is not.              *)
(***************************************************************************)

\* A row neither written nor stale is as in the tables.
RowsFresh(T) ==
    \A i \in Slot : i \notin T.wrote /\ i \notin T.stale => T.rows[i] = reservation[i]

\* A transaction that commits writes one reservation only, or each reservation
\* together with its allocation.
Paired(T) ==
    IF T.reason = "" /\ T.op = "commit" /\ AllocId \cap T.wrote = {}
    THEN \E i \in Slot : T.wrote = {i}
    ELSE \A i \in Slot \cap T.wrote : \E a \in AllocId \cap T.wrote : T.allocs[a].slot = i

\* An allocation inserted is of the event asked for, met by what its reservation
\* holds and, but for that, outstanding; and it is new.
Met(row, event, rows) ==
    /\ row.event = event /\ row.status = "Reserved" /\ row.returned = 0
    /\ row.open <=> row.outstanding > 0
    /\ row.slot # NoSlot => /\ rows[row.slot].status = "RESERVED"
                            /\ rows[row.slot].quantity = row.reserved

Inserts(T) ==
    /\ T.op = "allocate" => T.event \in Event
    /\ \A a \in AllocId \cap T.wrote :
          /\ T.event \in Event /\ Met(T.allocs[a], T.event, T.rows)
          /\ a \notin T.stale => allocation[a].status = "Free"

FreedAs(reason) == IF reason = "Completed" THEN "RELEASED" ELSE "CANCELLED"

SettledFrom(new, old, reason) ==
    /\ new.status = IF reason = "Completed" THEN "Returned" ELSE "Cancelled"
    /\ new.returned = IF reason = "Completed" THEN old.reserved ELSE old.returned
    /\ new.event = old.event /\ new.resource = old.resource /\ new.slot = old.slot
    /\ new.requested = old.requested /\ new.reserved = old.reserved
    /\ new.outstanding = old.outstanding

\* A release writes allocations of its event that are Reserved, and settles them
\* and their reservations.
Settles(T) ==
    /\ T.event \in Event
    /\ \A a \in AllocId \cap T.wrote : a \notin T.stale =>
          /\ allocation[a].event = T.event /\ allocation[a].status = "Reserved"
          /\ SettledFrom(T.allocs[a], allocation[a], T.reason)
    /\ \A i \in Slot \cap T.wrote : i \notin T.stale =>
          T.rows[i] = [reservation[i] EXCEPT !.status = FreedAs(T.reason)]

Prepared(T) ==
    /\ RowsFresh(T) /\ Paired(T)
    /\ IF T.reason = "" THEN Inserts(T) ELSE Settles(T)

PreparedInv == \A p \in Proc : Active(p) => Prepared(txn[p])

\* How a change of the tables by another transaction, or by a plain update, meets
\* the transaction of q: it learns of every row that changed.
Informed(q) ==
    /\ \A i \in Slot : reservation'[i] # reservation[i] => i \in txn'[q].stale
    /\ \A a \in AllocId : allocation'[a] # allocation[a] => a \in txn'[q].stale
    /\ txn'[q].op = txn[q].op /\ txn'[q].event = txn[q].event
    /\ txn'[q].reason = txn[q].reason
    /\ txn'[q].rows = txn[q].rows /\ txn'[q].allocs = txn[q].allocs
    /\ txn'[q].wrote = txn[q].wrote /\ txn[q].stale \subseteq txn'[q].stale

\* What q has prepared stays prepared.
LEMMA InformedPrepared ==
    ASSUME NEW q \in Proc, Prepared(txn[q]), Informed(q)
    PROVE  Prepared(txn[q])'
<1>. DEFINE T == txn[q]
<1>1. /\ T'.op = T.op /\ T'.event = T.event /\ T'.reason = T.reason
      /\ T'.rows = T.rows /\ T'.allocs = T.allocs
      /\ T'.wrote = T.wrote
  BY DEF Informed
<1>2. /\ \A i \in Slot : i \notin T'.stale => i \notin T.stale /\ reservation'[i] = reservation[i]
      /\ \A a \in AllocId : a \notin T'.stale => a \notin T.stale /\ allocation'[a] = allocation[a]
  BY DEF Informed
<1>3. RowsFresh(T)'
  <2>1. RowsFresh(T)
    BY DEF Prepared
  <2>. QED
    BY <1>1, <1>2, <2>1 DEF RowsFresh
<1>4. Paired(T)'
  <2>1. Paired(T)
    BY DEF Prepared
  <2>. QED
    BY <1>1, <2>1 DEF Paired
<1>5. ASSUME T.reason = "" PROVE Inserts(T)'
  <2>1. Inserts(T)
    BY <1>5 DEF Prepared
  <2>2. \A a \in AllocId \cap T.wrote : a \notin T'.stale => allocation'[a].status = "Free"
    BY <1>2, <2>1 DEF Inserts
  <2>3. /\ T'.op = "allocate" => T'.event \in Event
        /\ \A a \in AllocId \cap T'.wrote :
              T'.event \in Event /\ Met(T'.allocs[a], T'.event, T'.rows)
    BY <1>1, <2>1 DEF Inserts
  <2>. QED
    BY <1>1, <2>2, <2>3 DEF Inserts, Met
<1>6. ASSUME T.reason # "" PROVE Settles(T)'
  <2>1. Settles(T)
    BY <1>6 DEF Prepared
  <2>2. \A a \in AllocId \cap T.wrote : a \notin T'.stale =>
           /\ allocation'[a].event = T.event /\ allocation'[a].status = "Reserved"
           /\ SettledFrom(T.allocs[a], allocation'[a], T.reason)
    BY <1>2, <2>1 DEF Settles
  <2>3. \A i \in Slot \cap T.wrote : i \notin T'.stale =>
           T.rows[i] = [reservation'[i] EXCEPT !.status = FreedAs(T.reason)]
    BY <1>2, <2>1 DEF Settles
  <2>4. T.event \in Event
    BY <2>1 DEF Settles
  <2>. QED
    BY <1>1, <2>2, <2>3, <2>4 DEF Settles, SettledFrom, FreedAs
<1>. QED
  BY <1>1, <1>3, <1>4, <1>5, <1>6 DEF Prepared

\* A step of one transaction that leaves the tables alone.
LEMMA PreparedStep ==
    ASSUME TypeInv, PreparedInv, NEW p \in Proc, NEW T, Prepared(T),
           txn' = [txn EXCEPT ![p] = T], UNCHANGED <<reservation, allocation>>
    PROVE  PreparedInv'
<1>1. /\ txn'[p] = T
      /\ \A q \in Proc \ {p} : txn'[q] = txn[q]
  BY DEF TypeInv, TypeOK
<1>2. ASSUME NEW q \in Proc, Active(q)' PROVE Prepared(txn[q])'
  <2>1. Prepared(txn'[q])
    BY <1>1, <1>2 DEF PreparedInv, Active
  <2>2. RowsFresh(txn[q])' /\ Paired(txn[q])'
    BY <2>1 DEF Prepared, RowsFresh, Paired
  <2>3. ASSUME txn'[q].reason = "" PROVE Inserts(txn[q])'
    <3>1. Inserts(txn'[q])
      BY <2>1, <2>3 DEF Prepared
    <3>. QED
      BY <3>1 DEF Inserts, Met
  <2>4. ASSUME txn'[q].reason # "" PROVE Settles(txn[q])'
    <3>1. Settles(txn'[q])
      BY <2>1, <2>4 DEF Prepared
    <3>. QED
      BY <3>1 DEF Settles, SettledFrom, FreedAs
  <2>. QED
    BY <2>2, <2>3, <2>4 DEF Prepared
<1>. QED
  BY <1>2 DEF PreparedInv

\* A transaction starts with nothing written.
LEMMA BeginPrepared ==
    ASSUME TypeInv, PreparedInv, NEW p \in Proc, NEW op, NEW event, NEW reason, NEW todo,
           Begin(p, op, event, reason, todo),
           op \in {"create", "update", "allocate", "release"},
           reason # "" \/ op = "allocate" => event \in Event
    PROVE  PreparedInv'
<1>. DEFINE T == [op |-> op, event |-> event, reason |-> reason, todo |-> todo,
                  catalog |-> resource, rows |-> reservation, allocs |-> allocation,
                  locks |-> {}, wrote |-> {}, stale |-> {}, claims |-> {},
                  rivals |-> {}]
<1>1. /\ T.op = op /\ T.event = event /\ T.reason = reason /\ T.rows = reservation
      /\ T.allocs = allocation /\ T.wrote = {}
  OBVIOUS
<1>2. txn' = [txn EXCEPT ![p] = T] /\ UNCHANGED <<reservation, allocation>>
  BY DEF Begin, tables
<1>. HIDE DEF T
<1>3. Prepared(T)
  BY <1>1 DEF Prepared, RowsFresh, Paired, Inserts, Settles
<1>. QED
  BY <1>2, <1>3, PreparedStep

\* Every request starts so.
LEMMA NewRequestPrepared ==
    ASSUME TypeInv, PreparedInv, NEW p \in Proc, NewRequest(p)
    PROVE  PreparedInv'
<1>1. ASSUME NEW r \in Resource, NEW q \in Quantity, NEW w \in Window,
             NEW s \in InputStatus, NEW e \in Event \cup {NoEvent},
             BeginCreate(p, r, q, w, s, e)
      PROVE  PreparedInv'
  <2>1. \E todo : Begin(p, "create", e, "", todo)
    BY <1>1 DEF BeginCreate
  <2>. QED
    BY <2>1, BeginPrepared
<1>2. ASSUME NEW i, NEW q, NEW w, NEW s, BeginUpdate(p, i, q, w, s)
      PROVE  PreparedInv'
  <2>1. \E todo : Begin(p, "update", NoEvent, "", todo)
    BY <1>2 DEF BeginUpdate
  <2>. QED
    BY <2>1, BeginPrepared
<1>3. ASSUME NEW i \in Slot, BeginConfirm(p, i)
      PROVE  PreparedInv'
  BY <1>2, <1>3 DEF BeginConfirm
<1>4. ASSUME NEW e \in Event, NEW requests \in EventRequest, BeginAllocate(p, e, requests)
      PROVE  PreparedInv'
  BY <1>4, BeginPrepared DEF BeginAllocate
<1>5. ASSUME NEW e \in Event, NEW reason \in {"Completed", "Cancelled"},
             BeginRelease(p, e, reason)
      PROVE  PreparedInv'
  BY <1>5, BeginPrepared DEF BeginRelease
<1>. QED
  BY <1>1, <1>2, <1>3, <1>4, <1>5 DEF NewRequest

\* A transaction that wrote one reservation and no allocation.
LEMMA PreparedOne ==
    ASSUME TypeInv, PreparedInv, NEW p \in Proc, Active(p), NEW T, NEW i \in Slot,
           txn[p].wrote = {}, T.wrote = {i}, T.op = "commit", T.reason = "",
           T.stale = txn[p].stale, \A j \in Slot \ {i} : T.rows[j] = txn[p].rows[j],
           txn' = [txn EXCEPT ![p] = T], UNCHANGED <<reservation, allocation>>
    PROVE  PreparedInv'
<1>1. AllocId \cap T.wrote = {}
  <2>1. i \notin AllocId
    BY ConstantsAssumption
  <2>. QED
    BY <2>1
<1>2. RowsFresh(T)
  <2>1. RowsFresh(txn[p])
    BY DEF PreparedInv, Prepared
  <2>. QED
    BY <2>1 DEF RowsFresh
<1>3. Paired(T) /\ Inserts(T)
  BY <1>1 DEF Paired, Inserts
<1>4. Prepared(T)
  BY <1>2, <1>3 DEF Prepared
<1>. QED
  BY <1>4, PreparedStep

\* createReservation and updateReservation write one reservation.
LEMMA CreatePrepared ==
    ASSUME TypeInv, AllocInv, PreparedInv, NEW p \in Proc, createReservation(p)
    PROVE  PreparedInv'
<1>. DEFINE req == Head(txn[p].todo)
            i == CHOOSE i \in FreshSlots : TRUE
            row == [resource |-> req.resource, quantity |-> req.quantity,
                    window |-> req.window, status |-> req.status,
                    event |-> txn[p].event]
            T == [WriteRow(p, i, row) EXCEPT !.op = "commit"]
<1>1. i \in FreshSlots /\ i \in Slot
  BY DEF createReservation, FreshSlots
<1>2. txn' = [txn EXCEPT ![p] = T] /\ UNCHANGED <<reservation, allocation>>
  BY DEF createReservation, tables
<1>3. Active(p) /\ txn[p].op = "create" /\ txn[p] \in Txn
  BY ActiveTxn DEF createReservation, Active, TypeInv
<1>4. txn[p].wrote = {} /\ txn[p].reason = ""
  BY <1>3 DEF AllocInv, Orderly, Started, ReleaseWhole
<1>. HIDE DEF i, row
<1>5. /\ T.op = "commit" /\ T.reason = txn[p].reason /\ T.stale = txn[p].stale
      /\ T.rows = [txn[p].rows EXCEPT ![i] = row]
      /\ T.wrote = txn[p].wrote \cup {i}
  BY <1>3 DEF WriteRow, Txn
<1>. HIDE DEF T
<1>6. \A j \in Slot \ {i} : T.rows[j] = txn[p].rows[j]
  BY <1>3, <1>5 DEF Txn
<1>7. T.wrote = {i}
  BY <1>4, <1>5
<1>. QED
  BY <1>1, <1>2, <1>3, <1>4, <1>5, <1>6, <1>7, PreparedOne

LEMMA UpdatePrepared ==
    ASSUME TypeInv, AllocInv, PreparedInv, NEW p \in Proc, updateReservation(p)
    PROVE  PreparedInv'
<1>. DEFINE req == Head(txn[p].todo)
            i == req.slot
            row == [txn[p].rows[i] EXCEPT !.quantity = req.quantity,
                               !.window = req.window, !.status = req.status]
            T == [WriteRow(p, i, row) EXCEPT !.op = "commit"]
<1>1. i \in Slot
  BY DEF updateReservation, TypeInv, TodoOK
<1>2. txn' = [txn EXCEPT ![p] = T] /\ UNCHANGED <<reservation, allocation>>
  BY DEF updateReservation, tables
<1>3. Active(p) /\ txn[p].op = "update" /\ txn[p] \in Txn
  BY ActiveTxn DEF updateReservation, Active, TypeInv
<1>4. txn[p].wrote = {} /\ txn[p].reason = ""
  BY <1>3 DEF AllocInv, Orderly, Started, ReleaseWhole
<1>. HIDE DEF i, row
<1>5. /\ T.op = "commit" /\ T.reason = txn[p].reason /\ T.stale = txn[p].stale
      /\ T.rows = [txn[p].rows EXCEPT ![i] = row]
      /\ T.wrote = txn[p].wrote \cup {i}
  BY <1>3 DEF WriteRow, Txn
<1>. HIDE DEF T
<1>6. \A j \in Slot \ {i} : T.rows[j] = txn[p].rows[j]
  BY <1>3, <1>5 DEF Txn
<1>7. T.wrote = {i}
  BY <1>4, <1>5
<1>. QED
  BY <1>1, <1>2, <1>3, <1>4, <1>5, <1>6, <1>7, PreparedOne

\* T is the transaction of p after n units are reserved, in row i, for allocation a;
\* i is NoSlot if nothing is reserved.
Allocated(p, T, a, i, n) ==
    /\ T.op \in {"allocate", "commit"}
    /\ T.event = txn[p].event /\ T.reason = txn[p].reason /\ T.stale = txn[p].stale
    /\ \A b \in AllocId \ {a} : T.allocs[b] = txn[p].allocs[b]
    /\ T.allocs[a].event = txn[p].event /\ T.allocs[a].slot = i
    /\ T.allocs[a].status = "Reserved" /\ T.allocs[a].returned = 0
    /\ T.allocs[a].reserved = n
    /\ T.allocs[a].open <=> T.allocs[a].outstanding > 0
    /\ T.wrote = txn[p].wrote \cup {a} \cup ({i} \ {NoSlot})
    /\ i # NoSlot => /\ i \in FreshSlots
                     /\ T.rows[i].status = "RESERVED" /\ T.rows[i].quantity = n
    /\ \A j \in Slot \ {i} : T.rows[j] = txn[p].rows[j]

\* An iteration of reserveResourcesForEvent writes an allocation nobody has
\* inserted and, if something is reserved, a reservation nobody has inserted.
LEMMA AllocateWrites ==
    ASSUME TypeInv, NEW p \in Proc, reserveResourcesForEvent(p)
    PROVE  /\ UNCHANGED <<reservation, allocation>>
           /\ \E T : \E a \in FreshAllocs, i \in Slot \cup {NoSlot}, n \in Nat :
                 txn' = [txn EXCEPT ![p] = T] /\ Allocated(p, T, a, i, n)
<1>. DEFINE req == Head(txn[p].todo)
            res == txn[p].catalog[req.resource]
            reserved == quantityReserved(res, txn[p].rows, req)
            i == IF reserved > 0 THEN CHOOSE i \in FreshSlots : TRUE ELSE NoSlot
            a == CHOOSE a \in FreshAllocs : TRUE
            row == [resource |-> req.resource, quantity |-> reserved,
                    window |-> req.window, status |-> "RESERVED",
                    event |-> txn[p].event]
            W == IF reserved > 0
                 THEN WriteRow(p, i, row)
                 ELSE [txn[p] EXCEPT !.locks = @ \cup {req.resource},
                                     !.todo = Tail(@)]
            alloc == AllocationRow(txn[p].event, req, i, reserved)
            T == [W EXCEPT !.allocs = [@ EXCEPT ![a] = alloc],
                           !.wrote = @ \cup {a},
                           !.op = IF Len(txn[p].todo) = 1 THEN "commit" ELSE @]
<1>1. /\ txn[p] \in Txn /\ txn[p].todo # << >> /\ req \in Request
      /\ txn[p].op = "allocate"
  BY TodoHead DEF reserveResourcesForEvent
<1>2. /\ req.resource \in Resource /\ req.quantity \in Nat
  <2>1. req.resource \in Resource /\ req.quantity \in Quantity
    BY <1>1 DEF Request
  <2>. HIDE DEF req
  <2>. QED
    BY <2>1, ConstantsAssumption DEF Quantity
<1>3. reserved \in 0..req.quantity
  <2>1. res \in ResourceRow
    BY <1>1, <1>2 DEF Txn
  <2>. QED
    BY <1>1, <2>1, QuantityReserved
<1>4. txn' = [txn EXCEPT ![p] = T] /\ UNCHANGED <<reservation, allocation>>
  BY DEF reserveResourcesForEvent, tables
<1>. HIDE DEF reserved
<1>5. reserved > 0 => i \in FreshSlots
  BY DEF reserveResourcesForEvent, reserved
<1>6. a \in FreshAllocs
  BY DEF reserveResourcesForEvent
<1>7. ~(reserved > 0) => i = NoSlot
  OBVIOUS
<1>. HIDE DEF i, a
<1>8. /\ reserved \in Nat
      /\ reserved > 0 => reserved \in Quantity
      /\ reserved > 0 \/ reserved = 0
  <2>1. req.quantity \in Quantity
    BY <1>1 DEF Request
  <2>. HIDE DEF req
  <2>. QED
    BY <1>2, <1>3, <2>1, ConstantsAssumption DEF Quantity
<1>9. a \in AllocId /\ i \in Slot \cup {NoSlot} /\ (reserved > 0 => i \in Slot)
  BY <1>5, <1>6, <1>7 DEF FreshSlots, FreshAllocs
<1>10. /\ alloc.slot = i /\ alloc.event = txn[p].event /\ alloc.reserved = reserved
       /\ alloc.status = "Reserved" /\ alloc.outstanding = Monus(req.quantity, reserved)
       /\ alloc.returned = 0 /\ (alloc.open <=> Monus(req.quantity, reserved) > 0)
       /\ Monus(req.quantity, reserved) \in Nat
  <2>1. Monus(req.quantity, reserved) \in Nat
    BY <1>2, <1>3, Shortfall
  <2>2. req.quantity > reserved <=> Monus(req.quantity, reserved) > 0
    <3>. HIDE DEF req
    <3>. QED
      BY <1>2, <1>3 DEF Monus
  <2>. HIDE DEF req
  <2>. QED
    BY <2>1, <2>2 DEF AllocationRow
<1>11. /\ W \in Txn /\ W.op = "allocate" /\ W.stale = txn[p].stale
       /\ W.event = txn[p].event /\ W.reason = txn[p].reason
       /\ W.allocs = txn[p].allocs
       /\ reserved > 0 => /\ W.rows = [txn[p].rows EXCEPT ![i] = row]
                          /\ W.wrote = txn[p].wrote \cup {i}
       /\ reserved = 0 => W.rows = txn[p].rows /\ W.wrote = txn[p].wrote
  <2>1. CASE reserved > 0
    <3>1. row \in Row
      BY <1>1, <1>2, <1>8, <2>1 DEF Row, Txn, ReservationStatus,
                                     CAPACITY_CONSUMING_STATUSES, Request
    <3>. HIDE DEF row
    <3>2. W = WriteRow(p, i, row) /\ WriteRow(p, i, row) \in Txn
      BY <1>1, <1>9, <2>1, <3>1, WriteRowType DEF TypeInv
    <3>. HIDE DEF W
    <3>3. /\ W.op = "allocate" /\ W.stale = txn[p].stale /\ W.event = txn[p].event
          /\ W.reason = txn[p].reason /\ W.allocs = txn[p].allocs
          /\ W.rows = [txn[p].rows EXCEPT ![i] = row]
          /\ W.wrote = txn[p].wrote \cup {i}
      BY <1>1, <3>2 DEF WriteRow, Txn
    <3>. QED
      BY <2>1, <3>2, <3>3
  <2>2. CASE reserved = 0
    <3>1. W = [txn[p] EXCEPT !.locks = @ \cup {req.resource}, !.todo = Tail(@)]
      BY <2>2
    <3>2. txn[p].locks \cup {req.resource} \in SUBSET Resource
      BY <1>1, <1>2 DEF Txn
    <3>3. Tail(txn[p].todo) \in Seq(Request)
      BY TodoHead DEF reserveResourcesForEvent
    <3>. HIDE DEF req, W
    <3>4. W \in Txn
      BY <1>1, <3>1, <3>2, <3>3 DEF Txn
    <3>5. /\ W.op = txn[p].op /\ W.event = txn[p].event /\ W.reason = txn[p].reason
          /\ W.rows = txn[p].rows /\ W.allocs = txn[p].allocs
          /\ W.wrote = txn[p].wrote /\ W.stale = txn[p].stale
      BY <1>1, <3>1 DEF Txn
    <3>. QED
      BY <1>1, <2>2, <3>4, <3>5
  <2>. QED
    BY <1>8, <2>1, <2>2
<1>. HIDE DEF W
<1>12. /\ T.rows = W.rows /\ T.wrote = W.wrote \cup {a} /\ T.stale = W.stale
       /\ T.allocs = [W.allocs EXCEPT ![a] = alloc]
       /\ T.event = W.event /\ T.reason = W.reason /\ T.op \in {"allocate", "commit"}
  <2>. HIDE DEF alloc
  <2>. QED
    BY <1>11 DEF Txn
<1>. HIDE DEF T, alloc
<1>13. T.allocs[a] = alloc /\ \A b \in AllocId \ {a} : T.allocs[b] = txn[p].allocs[b]
  <2>1. txn[p].allocs \in [AllocId -> AllocRow]
    BY <1>1, TxnFields
  <2>. QED
    BY <1>9, <1>11, <1>12, <2>1
<1>14. /\ reserved > 0 => /\ T.wrote = txn[p].wrote \cup {a} \cup {i}
                          /\ T.rows[i] = row /\ i # NoSlot
                          /\ \A j \in Slot \ {i} : T.rows[j] = txn[p].rows[j]
       /\ reserved = 0 => /\ T.wrote = txn[p].wrote \cup {a}
                          /\ T.rows = txn[p].rows
  <2>1. txn[p].rows \in [Slot -> Row]
    BY <1>1, TxnFields
  <2>. HIDE DEF row
  <2>. QED
    BY <1>9, <1>11, <1>12, <2>1, ConstantsAssumption
<1>15. /\ T.wrote = txn[p].wrote \cup {a} \cup ({i} \ {NoSlot})
       /\ \A j \in Slot \ {i} : T.rows[j] = txn[p].rows[j]
  BY <1>7, <1>8, <1>14
<1>16. i # NoSlot => /\ i \in FreshSlots
                     /\ T.rows[i].status = "RESERVED" /\ T.rows[i].quantity = reserved
  BY <1>5, <1>7, <1>14
<1>17. /\ T.event = txn[p].event /\ T.reason = txn[p].reason /\ T.stale = txn[p].stale
  BY <1>11, <1>12
<1>18. /\ T.allocs[a].event = txn[p].event /\ T.allocs[a].slot = i
       /\ T.allocs[a].status = "Reserved" /\ T.allocs[a].returned = 0
       /\ T.allocs[a].reserved = reserved
       /\ T.allocs[a].outstanding = Monus(req.quantity, reserved)
       /\ T.allocs[a].open <=> Monus(req.quantity, reserved) > 0
  BY <1>10, <1>13
<1>19. Allocated(p, T, a, i, reserved)
  BY <1>12, <1>13, <1>15, <1>16, <1>17, <1>18 DEF Allocated
<1>. QED
  BY <1>4, <1>6, <1>8, <1>9, <1>19

\* What is inserted so far stays prepared, the new rows being in no view yet.
LEMMA AllocatePrepared ==
    ASSUME TypeInv, AllocInv, PreparedInv, NEW p \in Proc, reserveResourcesForEvent(p)
    PROVE  PreparedInv'
<1>1. /\ Active(p) /\ txn[p].op = "allocate" /\ txn[p] \in Txn
  BY ActiveTxn DEF reserveResourcesForEvent, Active, TypeInv
<1>2. Orderly(txn[p]) /\ txn[p].reason = "" /\ Prepared(txn[p])
  BY <1>1 DEF AllocInv, PreparedInv, Orderly, ReleaseWhole
<1>0. PICK T : \E a \in FreshAllocs, i \in Slot \cup {NoSlot}, n \in Nat :
         txn' = [txn EXCEPT ![p] = T] /\ Allocated(p, T, a, i, n)
  BY AllocateWrites
<1>3. PICK a \in FreshAllocs, i \in Slot \cup {NoSlot}, n \in Nat :
         txn' = [txn EXCEPT ![p] = T] /\ Allocated(p, T, a, i, n)
  BY <1>0
<1>4. UNCHANGED <<reservation, allocation>>
  BY AllocateWrites
<1>5. /\ a \in AllocId /\ allocation[a].status = "Free"
      /\ \A q \in Proc : a \notin txn[q].wrote
  BY <1>1, FreshRow
<1>6. i # NoSlot => /\ i \in Slot /\ txn[p].rows[i].status = "FREE"
                    /\ \A q \in Proc : i \notin txn[q].wrote
  BY <1>1, <1>3, FreshRow DEF Allocated
<1>7. /\ \A b \in AllocId : b \in T.wrote <=> b \in txn[p].wrote \/ b = a
      /\ \A j \in Slot : j \in T.wrote <=> j \in txn[p].wrote \/ j = i
  BY <1>3, <1>5, ConstantsAssumption DEF Allocated
<1>8. RowsFresh(T)
  <2>1. RowsFresh(txn[p])
    BY <1>2 DEF Prepared
  <2>. QED
    BY <1>3, <1>7, <2>1 DEF RowsFresh, Allocated
<1>9. Paired(T)
  <2>1. \A j \in Slot \cap txn[p].wrote : \E b \in AllocId \cap txn[p].wrote :
           txn[p].allocs[b].slot = j
    BY <1>1, <1>2 DEF Prepared, Paired
  <2>2. a \in AllocId \cap T.wrote
    BY <1>5, <1>7
  <2>3. ASSUME NEW j \in Slot \cap T.wrote
        PROVE  \E b \in AllocId \cap T.wrote : T.allocs[b].slot = j
    <3>1. CASE j = i
      BY <1>3, <2>2, <3>1 DEF Allocated
    <3>2. CASE j # i
      <4>1. PICK b \in AllocId \cap txn[p].wrote : txn[p].allocs[b].slot = j
        BY <1>7, <2>1, <2>3, <3>2
      <4>2. b # a /\ b \in T.wrote
        BY <1>5, <1>7, <4>1
      <4>3. T.allocs[b] = txn[p].allocs[b]
        BY <1>3, <4>1, <4>2 DEF Allocated
      <4>. QED
        BY <4>1, <4>2, <4>3
    <3>. QED
      BY <3>1, <3>2
  <2>. QED
    BY <2>2, <2>3 DEF Paired
<1>10. Inserts(T)
  <2>1. Inserts(txn[p])
    BY <1>2 DEF Prepared
  <2>2. T.event \in Event
    BY <1>1, <1>3, <2>1 DEF Inserts, Allocated
  <2>3. ASSUME NEW b \in AllocId \cap T.wrote
        PROVE  /\ Met(T.allocs[b], T.event, T.rows)
               /\ b \notin T.stale => allocation[b].status = "Free"
    <3>1. CASE b = a
      BY <1>3, <1>5, <3>1 DEF Allocated, Met
    <3>2. CASE b # a
      <4>1. T.allocs[b] = txn[p].allocs[b] /\ b \in txn[p].wrote
        BY <1>3, <1>7, <3>2 DEF Allocated
      <4>2. /\ Met(T.allocs[b], T.event, txn[p].rows)
            /\ b \notin T.stale => allocation[b].status = "Free"
        <5>1. T.event = txn[p].event /\ T.stale = txn[p].stale
          BY <1>3 DEF Allocated
        <5>. QED
          BY <2>1, <4>1, <5>1 DEF Inserts
      <4>3. ASSUME T.allocs[b].slot # NoSlot
            PROVE  /\ T.rows[T.allocs[b].slot].status = "RESERVED"
                   /\ T.rows[T.allocs[b].slot].quantity = T.allocs[b].reserved
        <5>1. /\ txn[p].rows[T.allocs[b].slot].status = "RESERVED"
              /\ txn[p].rows[T.allocs[b].slot].quantity = T.allocs[b].reserved
          BY <4>2, <4>3 DEF Met
        <5>2. T.allocs[b].slot \in Slot
          <6>1. txn[p].allocs[b] \in AllocRow
            BY <1>1, TxnFields
          <6>. QED
            BY <4>1, <4>3, <6>1 DEF AllocRow
        <5>3. T.allocs[b].slot # i
          BY <1>6, <4>3, <5>1
        <5>4. T.rows[T.allocs[b].slot] = txn[p].rows[T.allocs[b].slot]
          BY <1>3, <5>2, <5>3 DEF Allocated
        <5>. QED
          BY <5>1, <5>4
      <4>. QED
        BY <4>2, <4>3 DEF Met
    <3>. QED
      BY <3>1, <3>2
  <2>. QED
    BY <2>2, <2>3 DEF Inserts
<1>11. Prepared(T)
  BY <1>2, <1>3, <1>8, <1>9, <1>10 DEF Prepared, Allocated
<1>. QED
  BY <1>3, <1>4, <1>11, PreparedStep

\* Settling an allocation prepares it and its reservation.
LEMMA ReleaseAllocationPrepared ==
    ASSUME TypeInv, AllocInv, PreparedInv, NEW p \in Proc, NEW a \in AllocId,
           releaseAllocation(p, a)
    PROVE  PreparedInv'
<1>. DEFINE V == txn[p]
            old == V.allocs[a]
            done == V.reason = "Completed"
            rows == IF old.slot = NoSlot THEN V.rows
                    ELSE [V.rows EXCEPT ![old.slot].status =
                              IF done THEN "RELEASED" ELSE "CANCELLED"]
            new == [old EXCEPT
                       !.status = IF done THEN "Returned" ELSE "Cancelled",
                       !.returned = IF done THEN old.reserved ELSE old.returned]
            T == [V EXCEPT
                     !.locks = @ \cup {old.resource},
                     !.rows = rows,
                     !.allocs = [@ EXCEPT ![a] = new],
                     !.wrote = @ \cup {a} \cup ({old.slot} \ {NoSlot})]
<1>1. V \in Txn /\ V.op = "release" /\ Active(p)
  BY ActiveTxn DEF releaseAllocation, Active, TypeInv
<1>2. /\ Orderly(V) /\ V.reason # "" /\ Prepared(V)
      /\ V.rows \in [Slot -> Row] /\ V.allocs \in [AllocId -> AllocRow]
  BY <1>1, TxnFields DEF AllocInv, PreparedInv, Orderly, ReleaseWhole
<1>3. AllocsFresh(V) /\ RowsFresh(V) /\ Paired(V) /\ Settles(V)
  BY <1>2 DEF Orderly, Prepared
<1>4. old \in AllocRow /\ old.slot \in Slot \cup {NoSlot}
  BY <1>2 DEF AllocRow
<1>5. old.status = "Reserved" /\ old.event = V.event
  BY DEF releaseAllocation, Unsettled
<1>6. txn' = [txn EXCEPT ![p] = T] /\ UNCHANGED <<reservation, allocation>>
  BY DEF releaseAllocation, tables
<1>7. /\ \A i \in Slot \ {old.slot} : rows[i] = V.rows[i]
      /\ old.slot # NoSlot =>
            rows[old.slot] = [V.rows[old.slot] EXCEPT !.status = FreedAs(V.reason)]
  <2>. HIDE DEF old
  <2>1. CASE old.slot = NoSlot
    BY <2>1
  <2>2. CASE old.slot # NoSlot
    <3>1. old.slot \in Slot
      BY <1>4, <2>2
    <3>. QED
      BY <1>2, <2>2, <3>1 DEF FreedAs
  <2>. QED
    BY <2>1, <2>2
<1>8. SettledFrom(new, old, V.reason)
  <2>. HIDE DEF old
  <2>. QED
    BY <1>4 DEF SettledFrom, AllocRow
<1>. HIDE DEF rows, new, done
<1>9. /\ T.op = "release" /\ T.event = V.event /\ T.reason = V.reason
      /\ T.rows = rows /\ T.stale = V.stale
      /\ T.allocs = [V.allocs EXCEPT ![a] = new]
      /\ T.wrote = V.wrote \cup {a} \cup ({old.slot} \ {NoSlot})
  <2>. HIDE DEF old
  <2>. QED
    BY <1>1 DEF Txn
<1>. HIDE DEF T
<1>10. T.allocs[a] = new /\ \A b \in AllocId \ {a} : T.allocs[b] = V.allocs[b]
  BY <1>2, <1>9
<1>. HIDE DEF old
<1>11. /\ \A b \in AllocId : b \in T.wrote <=> b \in V.wrote \/ b = a
       /\ \A i \in Slot : i \in T.wrote <=> i \in V.wrote \/ i = old.slot
  BY <1>4, <1>9, ConstantsAssumption
<1>12. RowsFresh(T)
  BY <1>3, <1>7, <1>9, <1>11 DEF RowsFresh
<1>13. Paired(T)
  <2>1. \A b \in AllocId : T.allocs[b].slot = V.allocs[b].slot
    BY <1>8, <1>10 DEF SettledFrom, old
  <2>2. \A i \in Slot \cap V.wrote : \E b \in AllocId \cap V.wrote : V.allocs[b].slot = i
    BY <1>2, <1>3 DEF Paired
  <2>3. ASSUME NEW i \in Slot \cap T.wrote
        PROVE  \E b \in AllocId \cap T.wrote : T.allocs[b].slot = i
    <3>1. CASE i = old.slot
      BY <1>11, <2>1, <3>1 DEF old
    <3>2. CASE i # old.slot
      BY <1>11, <2>1, <2>2, <3>2
    <3>. QED
      BY <3>1, <3>2
  <2>. QED
    BY <1>2, <1>9, <2>3 DEF Paired
<1>14. ASSUME NEW b \in AllocId \cap T.wrote, b \notin T.stale
       PROVE  /\ allocation[b].event = T.event /\ allocation[b].status = "Reserved"
              /\ SettledFrom(T.allocs[b], allocation[b], T.reason)
  <2>1. CASE b = a
    <3>1. a \notin V.wrote
      BY <1>3, <1>5, <1>9, <1>14, <2>1 DEF Settles, SettledFrom, old
    <3>2. old = allocation[a]
      BY <1>3, <1>9, <1>14, <2>1, <3>1 DEF AllocsFresh, old
    <3>. QED
      BY <1>5, <1>8, <1>9, <1>10, <2>1, <3>2
  <2>2. CASE b # a
    <3>1. b \in V.wrote /\ T.allocs[b] = V.allocs[b]
      BY <1>10, <1>11, <2>2
    <3>. QED
      BY <1>3, <1>9, <1>14, <3>1 DEF Settles
  <2>. QED
    BY <2>1, <2>2
<1>15. ASSUME NEW i \in Slot \cap T.wrote, i \notin T.stale
       PROVE  T.rows[i] = [reservation[i] EXCEPT !.status = FreedAs(T.reason)]
  <2>1. i \in V.wrote => V.rows[i] = [reservation[i] EXCEPT !.status = FreedAs(V.reason)]
    BY <1>3, <1>9, <1>15 DEF Settles
  <2>2. i \notin V.wrote => V.rows[i] = reservation[i]
    BY <1>3, <1>9, <1>15 DEF RowsFresh
  <2>3. CASE i = old.slot
    <3>1. T.rows[i] = [V.rows[i] EXCEPT !.status = FreedAs(V.reason)]
      BY <1>7, <1>9, <2>3, ConstantsAssumption
    <3>2. reservation[i] \in Row
      BY DEF TypeInv, TypeOK
    <3>3. CASE i \in V.wrote
      BY <1>9, <2>1, <3>1, <3>2, <3>3 DEF Row
    <3>4. CASE i \notin V.wrote
      BY <1>9, <2>2, <3>1, <3>4
    <3>. QED
      BY <3>3, <3>4
  <2>4. CASE i # old.slot
    BY <1>7, <1>9, <1>11, <2>1, <2>4
  <2>. QED
    BY <2>3, <2>4
<1>16. Settles(T)
  <2>1. T.event \in Event
    BY <1>3, <1>9 DEF Settles
  <2>. QED
    BY <1>14, <1>15, <2>1 DEF Settles
<1>17. Prepared(T)
  BY <1>2, <1>9, <1>12, <1>13, <1>16 DEF Prepared
<1>. QED
  BY <1>6, <1>17, PreparedStep

\* Closing the outstandings changes nothing else of what is prepared.
LEMMA CancelOutstandingsPrepared ==
    ASSUME TypeInv, AllocInv, PreparedInv, NEW p \in Proc, cancelOutstandings(p)
    PROVE  PreparedInv'
<1>. DEFINE V == txn[p]
            open == OpenOutstandings(p)
            allocs == [a \in AllocId |->
                          IF a \in open THEN [V.allocs[a] EXCEPT !.open = FALSE]
                                        ELSE V.allocs[a]]
            T == [V EXCEPT !.allocs = allocs, !.wrote = @ \cup open,
                                !.op = "commit"]
<1>1. V \in Txn /\ V.op = "release" /\ Active(p)
  BY ActiveTxn DEF cancelOutstandings, Active, TypeInv
<1>2. /\ Orderly(V) /\ V.reason # "" /\ Prepared(V)
      /\ V.allocs \in [AllocId -> AllocRow]
  BY <1>1, TxnFields DEF AllocInv, PreparedInv, Orderly, ReleaseWhole
<1>3. RowsFresh(V) /\ Paired(V) /\ Settles(V)
  BY <1>2 DEF Prepared
<1>4. open \subseteq AllocId \cap V.wrote
  <2>1. \A a \in AllocId : V.allocs[a].event = V.event => V.allocs[a].status # "Reserved"
    BY DEF cancelOutstandings, Unsettled
  <2>. QED
    BY <1>2, <2>1 DEF OpenOutstandings, Orderly, ViewInv
<1>5. txn' = [txn EXCEPT ![p] = T] /\ UNCHANGED <<reservation, allocation>>
  BY DEF cancelOutstandings, tables
<1>. HIDE DEF open
<1>6. \A a \in AllocId :
         /\ allocs[a].status = V.allocs[a].status /\ allocs[a].returned = V.allocs[a].returned
         /\ allocs[a].event = V.allocs[a].event /\ allocs[a].resource = V.allocs[a].resource
         /\ allocs[a].slot = V.allocs[a].slot /\ allocs[a].requested = V.allocs[a].requested
         /\ allocs[a].reserved = V.allocs[a].reserved
         /\ allocs[a].outstanding = V.allocs[a].outstanding
  <2>1. \A a \in AllocId : V.allocs[a] \in AllocRow
    BY <1>2
  <2>. QED
    BY <2>1 DEF AllocRow
<1>. HIDE DEF allocs
<1>7. /\ T.op = "commit" /\ T.event = V.event /\ T.reason = V.reason
      /\ T.rows = V.rows /\ T.stale = V.stale /\ T.allocs = allocs
      /\ T.wrote = V.wrote
  <2>1. T.wrote = V.wrote \cup open
    BY <1>1 DEF Txn
  <2>2. V.wrote \cup open = V.wrote
    BY <1>4
  <2>. QED
    BY <1>1, <2>1, <2>2 DEF Txn
<1>. HIDE DEF T
<1>8. RowsFresh(T)
  BY <1>3, <1>7 DEF RowsFresh
<1>9. Paired(T)
  <2>1. \A i \in Slot \cap V.wrote : \E a \in AllocId \cap V.wrote : V.allocs[a].slot = i
    BY <1>2, <1>3 DEF Paired
  <2>2. \A i \in Slot \cap T.wrote : \E a \in AllocId \cap T.wrote : T.allocs[a].slot = i
    BY <1>6, <1>7, <2>1
  <2>. QED
    BY <1>2, <1>7, <2>2 DEF Paired
<1>10. ASSUME NEW a \in AllocId \cap T.wrote, a \notin T.stale
       PROVE  /\ allocation[a].event = T.event /\ allocation[a].status = "Reserved"
              /\ SettledFrom(T.allocs[a], allocation[a], T.reason)
  <2>1. /\ allocation[a].event = V.event /\ allocation[a].status = "Reserved"
        /\ SettledFrom(V.allocs[a], allocation[a], V.reason)
    BY <1>3, <1>7, <1>10 DEF Settles
  <2>. QED
    BY <1>6, <1>7, <2>1 DEF SettledFrom
<1>11. Settles(T)
  <2>1. /\ T.event \in Event
        /\ \A i \in Slot \cap T.wrote : i \notin T.stale =>
              T.rows[i] = [reservation[i] EXCEPT !.status = FreedAs(T.reason)]
    BY <1>3, <1>7 DEF Settles
  <2>. QED
    BY <1>10, <2>1 DEF Settles
<1>12. Prepared(T)
  BY <1>2, <1>7, <1>8, <1>9, <1>11 DEF Prepared
<1>. QED
  BY <1>5, <1>12, PreparedStep

\* Whoever changes the tables informs the transactions still in progress.
LEMMA TablesPrepared ==
    ASSUME PreparedInv, \A q \in Proc : Active(q)' => Active(q) /\ Informed(q)
    PROVE  PreparedInv'
BY InformedPrepared DEF PreparedInv

\* So does whatever publishes the rows it wrote.
LEMMA PublishInforms ==
    ASSUME TypeInv, NEW p \in Proc, NEW written, NEW claims, txn' = Publish(p, written, claims),
           \A i \in Slot : reservation'[i] # reservation[i] => i \in written,
           \A a \in AllocId : allocation'[a] # allocation[a] => a \in written,
           NEW q \in Proc, Active(q)'
    PROVE  Active(q) /\ Informed(q)
<1>1. q # p /\ Active(q)
  BY DEF Publish, Active, Idle
<1>2. txn[q] \in Txn
  BY <1>1, ActiveTxn DEF TypeInv
<1>3. txn'[q] = [txn[q] EXCEPT !.stale = @ \cup written, !.rivals = @ \cup claims]
  BY <1>1 DEF Publish
<1>4. /\ txn'[q].op = txn[q].op /\ txn'[q].event = txn[q].event
      /\ txn'[q].reason = txn[q].reason
      /\ txn'[q].rows = txn[q].rows /\ txn'[q].allocs = txn[q].allocs
      /\ txn'[q].wrote = txn[q].wrote
      /\ txn'[q].stale = txn[q].stale \cup written
  BY <1>2, <1>3 DEF Txn
<1>. QED
  BY <1>1, <1>4 DEF Informed

LEMMA CommitPrepared ==
    ASSUME TypeInv, PreparedInv, NEW p \in Proc, Commit(p)
    PROVE  PreparedInv'
<1>1. /\ \A i \in Slot : reservation'[i] # reservation[i] => i \in txn[p].wrote
      /\ \A a \in AllocId : allocation'[a] # allocation[a] => a \in txn[p].wrote
      /\ txn' = Publish(p, txn[p].wrote, txn[p].claims)
  BY DEF Commit
<1>. QED
  BY <1>1, PublishInforms, TablesPrepared

LEMMA AbortPrepared ==
    ASSUME TypeInv, PreparedInv, NEW p \in Proc, Abort(p)
    PROVE  PreparedInv'
<1>1. /\ txn'[p] = Idle /\ Idle.op = "idle"
      /\ \A q \in Proc \ {p} : txn'[q] = txn[q]
      /\ UNCHANGED <<reservation, allocation>>
  BY DEF Abort, TypeInv, TypeOK, Idle, tables
<1>2. ASSUME NEW q \in Proc, Active(q)' PROVE Active(q) /\ Informed(q)
  BY <1>1, <1>2 DEF Active, Informed
<1>. QED
  BY <1>2, TablesPrepared

LEMMA PlainUpdatePrepared ==
    ASSUME TypeInv, PreparedInv, PlainUpdate
    PROVE  PreparedInv'
<1>1. ASSUME UNCHANGED <<reservation, allocation, txn>>
      PROVE  PreparedInv'
  <2>1. \A q \in Proc : Active(q)' => Active(q) /\ Informed(q)
    BY <1>1 DEF Active, Informed
  <2>. QED
    BY <2>1, TablesPrepared
<1>2. ASSUME NEW i \in Slot, NEW target,
             transitionReservationWithoutCapacityCheck(i, target)
      PROVE  PreparedInv'
  <2>1. ASSUME NEW q \in Proc, Active(q)'
        PROVE  Active(q) /\ Informed(q)
    <3>1. Active(q)
      BY <1>2, <2>1 DEF transitionReservationWithoutCapacityCheck, Active, Idle
    <3>2. txn[q] \in Txn
      BY <3>1, ActiveTxn DEF TypeInv
    <3>3. txn'[q] = [txn[q] EXCEPT !.stale = @ \cup {i}]
      BY <1>2, <3>1 DEF transitionReservationWithoutCapacityCheck
    <3>4. /\ txn'[q].op = txn[q].op /\ txn'[q].event = txn[q].event
          /\ txn'[q].reason = txn[q].reason
          /\ txn'[q].rows = txn[q].rows /\ txn'[q].allocs = txn[q].allocs
          /\ txn'[q].wrote = txn[q].wrote
          /\ txn'[q].stale = txn[q].stale \cup {i}
      BY <3>2, <3>3 DEF Txn
    <3>5. \A j \in Slot : reservation'[j] # reservation[j] => j = i
      BY <1>2 DEF transitionReservationWithoutCapacityCheck, TypeInv, TypeOK
    <3>6. allocation' = allocation
      BY <1>2 DEF transitionReservationWithoutCapacityCheck
    <3>. QED
      BY <3>1, <3>4, <3>5, <3>6 DEF Informed
  <2>. QED
    BY <2>1, TablesPrepared
<1>. QED
  BY <1>1, <1>2 DEF PlainUpdate, updateResource, archiveResource, restoreResource

\* Every step of the engine keeps what is prepared.
LEMMA PreparedNext ==
    ASSUME TypeInv, AllocInv, PreparedInv, [Next]_vars
    PROVE  PreparedInv'
<1>1. CASE UNCHANGED vars
  <2>1. \A q \in Proc : Active(q)' => Active(q) /\ Informed(q)
    BY <1>1 DEF vars, Active, Informed
  <2>. QED
    BY <2>1, TablesPrepared
<1>2. CASE PlainUpdate
  BY <1>2, PlainUpdatePrepared
<1>3. ASSUME NEW p \in Proc, NewRequest(p) PROVE PreparedInv'
  BY <1>3, NewRequestPrepared
<1>4. ASSUME NEW p \in Proc, Step(p) PROVE PreparedInv'
  BY <1>4, CreatePrepared, UpdatePrepared, AllocatePrepared, ReleaseAllocationPrepared,
     CancelOutstandingsPrepared, CommitPrepared, AbortPrepared DEF Step
<1>. QED
  BY <1>1, <1>2, <1>3, <1>4 DEF Next

\* Allocations with the same fields are the same.
LEMMA AllocRowEqual ==
    ASSUME NEW x \in AllocRow, NEW y \in AllocRow,
           x.event = y.event, x.resource = y.resource, x.slot = y.slot,
           x.requested = y.requested, x.reserved = y.reserved, x.returned = y.returned,
           x.status = y.status, x.outstanding = y.outstanding, x.open <=> y.open
    PROVE  x = y
BY DEF AllocRow

\* What a commit may book fits.
LEMMA FitsAfter ==
    ASSUME NoOverbooking', UNCHANGED seen
    PROVE  Atomic!Fits(reservation')
BY DEF NoOverbooking, Metered, Atomic!Fits

\* What a transaction that commits has prepared, none of it stale.
LEMMA CommitView ==
    ASSUME TypeInv, AllocInv, PreparedInv, NEW p \in Proc, Commit(p)
    PROVE  /\ Orderly(txn[p]) /\ Prepared(txn[p]) /\ txn[p].op = "commit"
           /\ txn[p].wrote \cap txn[p].stale = {}
           /\ txn[p].allocs \in [AllocId -> AllocRow]
<1>1. txn[p].op = "commit" /\ Active(p)
  BY DEF Commit, Active
<1>2. txn[p].allocs \in [AllocId -> AllocRow]
  <2>1. txn[p] \in Txn
    BY <1>1, ActiveTxn DEF TypeInv
  <2>. QED
    BY <2>1, TxnFields
<1>3. Orderly(txn[p]) /\ Prepared(txn[p])
  BY <1>1 DEF AllocInv, PreparedInv
<1>. QED
  BY <1>1, <1>2, <1>3 DEF Commit, UpdateConflict

\* The tables it leaves.
LEMMA CommitWrites ==
    ASSUME TypeInv, NEW p \in Proc, Commit(p)
    PROVE  /\ \A i \in Slot : reservation'[i] = IF i \in txn[p].wrote THEN txn[p].rows[i]
                                                                      ELSE reservation[i]
           /\ \A a \in AllocId : allocation'[a] = IF a \in txn[p].wrote THEN txn[p].allocs[a]
                                                                        ELSE allocation[a]
BY DEF Commit

LEMMA CommitKeepsTypes ==
    ASSUME TypeInv, NEW p \in Proc, Commit(p)
    PROVE  /\ reservation \in [Slot -> Row] /\ reservation' \in [Slot -> Row]
           /\ allocation \in [AllocId -> AllocRow] /\ allocation' \in [AllocId -> AllocRow]
<1>1. TypeInv'
  BY CommitType
<1>. QED
  BY <1>1 DEF TypeInv, TypeOK

\* The commit of a create or an update books one reservation.
LEMMA CommitBooks ==
    ASSUME TypeInv, AllocInv, PreparedInv, NoOverbooking', NEW p \in Proc, Commit(p),
           txn[p].reason = "", AllocId \cap txn[p].wrote = {}
    PROVE  \E i \in Slot : Atomic!Book(i)
<1>1. Orderly(txn[p]) /\ Prepared(txn[p]) /\ txn[p].op = "commit"
  BY CommitView
<1>2. PICK i \in Slot : txn[p].wrote = {i}
  BY <1>1 DEF Prepared, Paired
<1>3. reservation' = Atomic!Written(reservation, {i}, reservation')
  <2>1. reservation \in [Slot -> Row] /\ reservation' \in [Slot -> Row]
    BY CommitKeepsTypes
  <2>2. \A j \in Slot \ {i} : reservation'[j] = reservation[j]
    BY <1>2, CommitWrites
  <2>. QED
    BY <2>1, <2>2 DEF Atomic!Written
<1>4. reservation'[i].status # "FREE"
  <2>1. RowsFollow(txn[p])
    BY <1>1 DEF Orderly
  <2>. QED
    BY <1>2, <2>1, CommitWrites DEF RowsFollow
<1>5. reservation[i].status # "FREE" =>
         /\ reservation'[i].event = reservation[i].event
         /\ reservation'[i].resource = reservation[i].resource
  BY CommitRows
<1>6. UNCHANGED <<seen, allocation>>
  <2>1. \A a \in AllocId : a \notin txn[p].wrote
    OBVIOUS
  <2>2. allocation' = [a \in AllocId |-> allocation[a]]
    BY <2>1 DEF Commit
  <2>3. allocation = [a \in AllocId |-> allocation[a]]
    BY CommitKeepsTypes
  <2>. QED
    BY <2>2, <2>3 DEF Commit
<1>7. Atomic!Fits(reservation')
  BY <1>6, FitsAfter
<1>. QED
  BY <1>3, <1>4, <1>5, <1>6, <1>7 DEF Atomic!Book

\* The commit of a release settles allocations of its event.
LEMMA CommitSettles ==
    ASSUME TypeInv, AllocInv, PreparedInv, NEW p \in Proc, Commit(p),
           txn[p].reason # ""
    PROVE  LET ids == AllocId \cap txn[p].wrote IN
           txn[p].event \in Event /\ Atomic!Settle(txn[p].event, ids, txn[p].reason = "Completed")
<1>. DEFINE V == txn[p]
            ids == AllocId \cap V.wrote
            completed == V.reason = "Completed"
            slots == Atomic!SlotsOf(allocation, ids)
<1>0. /\ Orderly(V) /\ Prepared(V) /\ V.op = "commit" /\ V.wrote \cap V.stale = {}
      /\ V.allocs \in [AllocId -> AllocRow]
  BY CommitView
<1>1. /\ V.event \in Event
      /\ \A a \in ids : /\ allocation[a].event = V.event
                        /\ allocation[a].status = "Reserved"
                        /\ SettledFrom(V.allocs[a], allocation[a], V.reason)
      /\ \A i \in Slot \cap V.wrote :
            V.rows[i] = [reservation[i] EXCEPT !.status = FreedAs(V.reason)]
  <2>1. Settles(V)
    BY <1>0 DEF Prepared
  <2>. QED
    BY <1>0, <2>1 DEF Settles
<1>2. \A a \in ids : ~V.allocs[a].open
  <2>1. ViewInv(V)
    BY <1>0 DEF Orderly
  <2>2. \A a \in ids : V.allocs[a].status # "Reserved"
    BY <1>1 DEF SettledFrom
  <2>. QED
    BY <1>0, <2>1, <2>2 DEF ViewInv
<1>3. allocation' = [a \in AllocId |->
         IF a \notin ids THEN allocation[a]
         ELSE [allocation[a] EXCEPT
                  !.status = IF completed THEN "Returned" ELSE "Cancelled",
                  !.returned = IF completed THEN allocation[a].reserved ELSE @,
                  !.open = FALSE]]
  <2>1. ASSUME NEW a \in ids
        PROVE  V.allocs[a] = [allocation[a] EXCEPT
                  !.status = IF completed THEN "Returned" ELSE "Cancelled",
                  !.returned = IF completed THEN allocation[a].reserved ELSE @,
                  !.open = FALSE]
    <3>. DEFINE new == [allocation[a] EXCEPT
                  !.status = IF completed THEN "Returned" ELSE "Cancelled",
                  !.returned = IF completed THEN allocation[a].reserved ELSE @,
                  !.open = FALSE]
    <3>1. allocation[a] \in AllocRow /\ V.allocs[a] \in AllocRow
      BY <1>0, CommitKeepsTypes
    <3>2. /\ new \in AllocRow /\ SettledFrom(new, allocation[a], V.reason)
          /\ ~new.open
      BY <3>1 DEF AllocRow, SettledFrom
    <3>. HIDE DEF new
    <3>3. SettledFrom(V.allocs[a], allocation[a], V.reason) /\ ~V.allocs[a].open
      BY <1>1, <1>2
    <3>4. /\ V.allocs[a].event = new.event /\ V.allocs[a].resource = new.resource
          /\ V.allocs[a].slot = new.slot /\ V.allocs[a].requested = new.requested
          /\ V.allocs[a].reserved = new.reserved /\ V.allocs[a].returned = new.returned
          /\ V.allocs[a].status = new.status
          /\ V.allocs[a].outstanding = new.outstanding
      BY <3>2, <3>3 DEF SettledFrom
    <3>5. V.allocs[a] = new
      BY <3>1, <3>2, <3>3, <3>4, AllocRowEqual
    <3>. QED
      BY <3>5 DEF new
  <2>2. allocation' = [a \in AllocId |-> IF a \in V.wrote THEN V.allocs[a] ELSE allocation[a]]
    BY DEF Commit
  <2>3. \A a \in AllocId : a \in V.wrote <=> a \in ids
    OBVIOUS
  <2>. HIDE DEF ids, completed
  <2>. QED
    BY <2>1, <2>2, <2>3
<1>4. \A a \in ids : V.allocs[a].slot = allocation[a].slot
  BY <1>1 DEF SettledFrom
<1>5. \A i \in Slot : i \in V.wrote <=> i \in slots
  <2>1. ASSUME NEW i \in Slot, i \in V.wrote PROVE i \in slots
    <3>1. Paired(V)
      BY <1>0 DEF Prepared
    <3>2. \E a \in ids : V.allocs[a].slot = i
      BY <2>1, <3>1 DEF Paired
    <3>3. \E a \in ids : allocation[a].slot = i
      BY <1>4, <3>2
    <3>4. i # NoSlot
      BY ConstantsAssumption
    <3>. QED
      BY <3>3, <3>4 DEF Atomic!SlotsOf
  <2>2. ASSUME NEW a \in ids, allocation[a].slot # NoSlot
        PROVE  allocation[a].slot \in V.wrote
    <3>1. Settled(V.allocs[a])
      BY <1>1 DEF SettledFrom, Settled
    <3>2. V.allocs[a].slot = allocation[a].slot
      BY <1>4
    <3>3. Freed(V)
      BY <1>0 DEF Orderly
    <3>. QED
      BY <2>2, <3>1, <3>2, <3>3 DEF Freed
  <2>3. \A i \in slots : i \in V.wrote
    BY <2>2 DEF Atomic!SlotsOf
  <2>. QED
    BY <2>1, <2>3
<1>6. reservation' = [i \in Slot |->
         IF i \notin slots THEN reservation[i]
         ELSE [reservation[i] EXCEPT
                  !.status = IF completed THEN "RELEASED" ELSE "CANCELLED"]]
  <2>1. reservation' = [i \in Slot |-> IF i \in V.wrote THEN V.rows[i] ELSE reservation[i]]
    BY DEF Commit
  <2>2. \A i \in Slot : i \in V.wrote =>
           V.rows[i] = [reservation[i] EXCEPT
                           !.status = IF completed THEN "RELEASED" ELSE "CANCELLED"]
    BY <1>1 DEF FreedAs
  <2>. HIDE DEF slots, completed
  <2>. QED
    BY <1>5, <2>1, <2>2
<1>7. UNCHANGED seen
  BY DEF Commit
<1>. QED
  BY <1>1, <1>3, <1>6, <1>7 DEF Atomic!Settle

\* The commit of reserveResourcesForEvent inserts all it was asked for.
LEMMA CommitAllocates ==
    ASSUME TypeInv, AllocInv, PreparedInv, NoOverbooking', NEW p \in Proc, Commit(p),
           txn[p].reason = "", AllocId \cap txn[p].wrote # {}
    PROVE  LET ids == AllocId \cap txn[p].wrote IN
           txn[p].event \in Event /\ Atomic!Allocate(txn[p].event, ids)
<1>. DEFINE V == txn[p]
            ids == AllocId \cap V.wrote
            slots == Atomic!SlotsOf(allocation', ids)
<1>0. /\ Orderly(V) /\ Prepared(V) /\ V.op = "commit" /\ V.wrote \cap V.stale = {}
      /\ V.allocs \in [AllocId -> AllocRow]
  BY CommitView
<1>1. Inserts(V) /\ Paired(V)
  BY <1>0 DEF Prepared
<1>2. /\ V.event \in Event
      /\ \A a \in ids : /\ allocation[a].status = "Free"
                        /\ Met(V.allocs[a], V.event, V.rows)
                        /\ allocation'[a] = V.allocs[a]
  <2>1. \A a \in ids : allocation'[a] = V.allocs[a]
    BY CommitWrites
  <2>2. ids # {} /\ \A a \in ids : a \notin V.stale
    BY <1>0
  <2>. QED
    BY <1>1, <2>1, <2>2 DEF Inserts
<1>3. ASSUME NEW a \in ids, V.allocs[a].slot # NoSlot
      PROVE  /\ V.allocs[a].slot \in Slot \cap V.wrote
             /\ reservation[V.allocs[a].slot].status = "FREE"
             /\ reservation'[V.allocs[a].slot] = V.rows[V.allocs[a].slot]
  <2>1. V.allocs[a] \in AllocRow
    BY <1>0
  <2>2. V.allocs[a].slot \in Slot
    BY <1>3, <2>1 DEF AllocRow
  <2>3. /\ V.allocs[a].slot \in V.wrote
        /\ reservation[V.allocs[a].slot].status = "FREE"
    <3>1. AllocsFollow(V)
      BY <1>0 DEF Orderly
    <3>. QED
      BY <1>2, <1>3, <3>1 DEF AllocsFollow
  <2>. QED
    BY <2>2, <2>3, CommitWrites
<1>5. ASSUME NEW i \in slots
      PROVE  i \in Slot /\ i \in V.wrote /\ reservation[i].status = "FREE"
  <2>1. PICK a \in ids : allocation'[a].slot = i /\ i # NoSlot
    BY DEF Atomic!SlotsOf
  <2>2. V.allocs[a].slot = i
    BY <1>2, <2>1
  <2>. QED
    BY <1>3, <2>1, <2>2
<1>4. \A i \in Slot : i \in V.wrote <=> i \in slots
  <2>1. ASSUME NEW i \in Slot, i \in V.wrote PROVE i \in slots
    <3>1. \E a \in ids : V.allocs[a].slot = i
      BY <1>1, <2>1 DEF Paired
    <3>2. \E a \in ids : allocation'[a].slot = i
      BY <1>2, <3>1
    <3>3. i # NoSlot
      BY ConstantsAssumption
    <3>. QED
      BY <3>2, <3>3 DEF Atomic!SlotsOf
  <2>. QED
    BY <1>5, <2>1
<1>6. allocation' = Atomic!Written(allocation, ids, allocation')
  <2>1. allocation \in [AllocId -> AllocRow] /\ allocation' \in [AllocId -> AllocRow]
    BY CommitKeepsTypes
  <2>2. \A a \in AllocId \ ids : allocation'[a] = allocation[a]
    BY CommitWrites
  <2>. HIDE DEF ids
  <2>. QED
    BY <2>1, <2>2 DEF Atomic!Written
<1>7. reservation' = Atomic!Written(reservation, slots, reservation')
  <2>1. ASSUME NEW i \in Slot \ slots PROVE reservation'[i] = reservation[i]
    <3>1. i \notin V.wrote
      BY <1>4
    <3>. QED
      BY <3>1, CommitWrites
  <2>2. reservation \in [Slot -> Row] /\ reservation' \in [Slot -> Row]
    BY CommitKeepsTypes
  <2>. HIDE DEF slots
  <2>. QED
    BY <2>1, <2>2 DEF Atomic!Written
<1>8. ASSUME NEW a \in ids
      PROVE  LET row == allocation'[a] IN
              /\ row.event = V.event /\ row.status = "Reserved" /\ row.returned = 0
              /\ row.requested = row.reserved + row.outstanding
              /\ row.open <=> row.outstanding > 0
              /\ (row.slot = NoSlot) <=> (row.reserved = 0)
              /\ row.slot # NoSlot =>
                    /\ row.slot \in Slot
                    /\ reservation'[row.slot].status = "RESERVED"
                    /\ reservation'[row.slot].event = V.event
                    /\ reservation'[row.slot].resource = row.resource
                    /\ reservation'[row.slot].quantity = row.reserved
                    /\ \A b \in ids \ {a} : allocation'[b].slot # row.slot
  <2>1. Met(V.allocs[a], V.event, V.rows)
    BY <1>2
  <2>2. Backed(V.allocs, V.rows) /\ Unshared(V.allocs)
    BY <1>0 DEF Orderly, ViewInv
  <2>3. \A b \in ids : Live(V.allocs[b])
    BY <1>2 DEF Met, Live
  <2>4. /\ V.allocs[a].requested = V.allocs[a].reserved + V.allocs[a].outstanding
        /\ (V.allocs[a].slot = NoSlot) <=> (V.allocs[a].reserved = 0)
        /\ V.allocs[a].slot # NoSlot =>
              /\ V.rows[V.allocs[a].slot].event = V.allocs[a].event
              /\ V.rows[V.allocs[a].slot].resource = V.allocs[a].resource
    BY <2>2, <2>3 DEF Backed
  <2>5. V.allocs[a].slot # NoSlot =>
           \A b \in ids \ {a} : allocation'[b].slot # V.allocs[a].slot
    BY <1>2, <2>2, <2>3 DEF Unshared
  <2>6. allocation'[a] = V.allocs[a]
    BY <1>2
  <2>7. V.allocs[a].slot # NoSlot =>
           LET row == V.allocs[a] IN
           /\ row.slot \in Slot
           /\ reservation'[row.slot].status = "RESERVED"
           /\ reservation'[row.slot].event = V.event
           /\ reservation'[row.slot].resource = row.resource
           /\ reservation'[row.slot].quantity = row.reserved
    BY <1>3, <2>1, <2>4 DEF Met
  <2>8. /\ V.allocs[a].event = V.event /\ V.allocs[a].status = "Reserved"
        /\ V.allocs[a].returned = 0
        /\ V.allocs[a].open <=> V.allocs[a].outstanding > 0
    BY <2>1 DEF Met
  <2>. QED
    BY <2>4, <2>5, <2>6, <2>7, <2>8
<1>9. Atomic!Fits(reservation') /\ UNCHANGED seen
  <2>1. UNCHANGED seen
    BY DEF Commit
  <2>. QED
    BY <2>1, FitsAfter
<1>. HIDE DEF ids
<1>. QED
  BY <1>2, <1>5, <1>6, <1>7, <1>8, <1>9 DEF Atomic!Allocate, ids

\* Every step of the engine is one of Booking, or changes nothing it promises.
LEMMA EngineBooks ==
    ASSUME TypeInv, AllocInv, PreparedInv, NoOverbooking', [Next]_vars
    PROVE  [Atomic!BookingNext]_(Atomic!bookingVars)
<1>1. CASE UNCHANGED vars
  BY <1>1 DEF vars, Atomic!bookingVars
<1>2. ASSUME NEW i \in Slot, NEW target \in FreedStatus,
             transitionReservationWithoutCapacityCheck(i, target)
      PROVE  Atomic!BookingNext
  <2>1. target \in {"RELEASED", "CANCELLED"}
    BY ConstantsAssumption
  <2>2. Atomic!Free(i, target)
    BY <1>2 DEF transitionReservationWithoutCapacityCheck, Atomic!Free
  <2>. QED
    BY <2>1, <2>2 DEF Atomic!BookingNext
<1>3. ASSUME NEW r \in Editable, NEW s \in ResourceInput, updateResource(r, s)
      PROVE  Atomic!BookingNext
  <2>1. r \in Resource
    BY ConstantsAssumption
  <2>2. seen[r] \subseteq seen'[r] /\ seen' = [seen EXCEPT ![r] = seen'[r]]
    BY <1>3, <2>1 DEF updateResource, TypeInv, TypeOK
  <2>3. Atomic!Edit(r)
    BY <1>3, <2>2 DEF updateResource, Atomic!Edit
  <2>. QED
    BY <2>1, <2>3 DEF Atomic!BookingNext
<1>4. ASSUME NEW r \in Editable, archiveResource(r) \/ restoreResource(r)
      PROVE  UNCHANGED Atomic!bookingVars
  BY <1>4 DEF archiveResource, restoreResource, Atomic!bookingVars
<1>5. ASSUME NEW p \in Proc, NewRequest(p)
      PROVE  UNCHANGED Atomic!bookingVars
  BY <1>5 DEF NewRequest, BeginCreate, BeginUpdate, BeginConfirm, BeginAllocate,
              BeginRelease, Begin, tables, Atomic!bookingVars
<1>6. ASSUME NEW p \in Proc, Commit(p)
      PROVE  Atomic!BookingNext
  <2>1. CASE txn[p].reason # ""
    BY <1>6, <2>1, CommitSettles DEF Atomic!BookingNext
  <2>2. CASE txn[p].reason = "" /\ AllocId \cap txn[p].wrote = {}
    BY <1>6, <2>2, CommitBooks DEF Atomic!BookingNext
  <2>3. CASE txn[p].reason = "" /\ AllocId \cap txn[p].wrote # {}
    BY <1>6, <2>3, CommitAllocates DEF Atomic!BookingNext
  <2>. QED
    BY <2>1, <2>2, <2>3
<1>7. ASSUME NEW p \in Proc, Step(p)
      PROVE  Commit(p) \/ UNCHANGED Atomic!bookingVars
  BY <1>7 DEF Step, createReservation, updateReservation, tables, Atomic!bookingVars,
              reserveResourcesForEvent, releaseAllocation, cancelOutstandings, Abort
<1>. QED
  BY <1>1, <1>2, <1>3, <1>4, <1>5, <1>6, <1>7 DEF Next, PlainUpdate

\* The engine starts where Booking does, with nothing in progress.
LEMMA BookingStarts ==
    ASSUME Init
    PROVE  Atomic!BookingInit /\ PreparedInv
<1>1. \A r \in Resource : \E s \in seen[r] : seen[r] = {s}
  BY DEF Init
<1>2. Atomic!BookingInit
  BY <1>1 DEF Init, FreeRow, FreeAlloc, Atomic!BookingInit
<1>3. PreparedInv
  BY DEF Init, Idle, Active, PreparedInv
<1>. QED
  BY <1>2, <1>3

\* Whatever its transactions see and however they interleave, fail and roll back,
\* what the engine does to its tables is what Booking says: a reservation is made
\* or changed, all the requests of an event are met, the allocations of an event
\* are settled, each in one step, on the rows as they then are and within what a
\* resource has had.
THEOREM EngineBooksAtomically == Spec => BooksAtomically
<1>1. Init => Atomic!BookingInit /\ PreparedInv
  BY BookingStarts
<1>2. AccountedInv /\ PreparedInv /\ [Next]_vars => PreparedInv'
  BY PreparedNext DEF AccountedInv
<1>3. AccountedInv /\ PreparedInv /\ NoOverbooking' /\ [Next]_vars =>
          [Atomic!BookingNext]_(Atomic!bookingVars)
  BY EngineBooks DEF AccountedInv
<1>. QED
  BY <1>1, <1>2, <1>3, AccountedInvariant, OverbookingFree, PTL
     DEF Spec, BooksAtomically, Atomic!BookingSpec

=============================================================================

------------------------ MODULE ResourceReservations ------------------------
(***************************************************************************)
(* The resource engine: reservations of a shared resource over half-open   *)
(* time windows, their admission against the capacity of the resource, and *)
(* the allocations an event holds (apps/api/src/resources).                *)
(*                                                                         *)
(* Several request handlers run at once.  Each admission is a PostgreSQL   *)
(* SERIALIZABLE transaction that takes an advisory lock per resource; the  *)
(* first statement of the transaction fixes its snapshot, so the snapshot  *)
(* may be older than the lock.  Plain updates (cancel, release, edit of a  *)
(* resource) run at READ COMMITTED and take no lock.                       *)
(*                                                                         *)
(* A transaction is a record: the snapshot it reads together with its own  *)
(* writes (rows, allocs, catalog), and what PostgreSQL tracks about it:    *)
(* the rows others committed since its snapshot (stale), the predicates it *)
(* both read and wrote (claims) and those of the serializable transactions *)
(* that committed since its snapshot (rivals).                             *)
(***************************************************************************)
EXTENDS Naturals, FiniteSets, Sequences

CONSTANTS
    Resource,       \* resources of one organization
    Event,          \* events of that organization
    Proc,           \* concurrently running request handlers
    Slot,           \* rows of ResourceReservation (bounds how many exist)
    AllocId,        \* rows of EventResourceAllocation (bounds how many exist)
    Window,         \* time windows <<start, end>>, half open
    MaxQuantity,    \* bound on the quantity of one reservation
    ResourceInput,  \* quantity mode, total and condition a client may give
    InputStatus,    \* reservation statuses a client may ask for
    FreedStatus,    \* RELEASED, CANCELLED: the plain updates clients ask for
    Editable,       \* resources whose row is edited while handlers run
    EventRequest,   \* request lists of reserveResourcesForEvent
    NoEvent, NoSlot

Quantity == 1..MaxQuantity

QuantityMode == {"SERIALIZED", "QUANTITY", "CAPACITY", "UNLIMITED"}

CAPACITY_CONSUMING_STATUSES == {"PENDING", "RESERVED", "CONFIRMED", "DISPATCHED"}

\* "FREE" marks a row that does not exist.
ReservationStatus == CAPACITY_CONSUMING_STATUSES \cup
    {"FREE", "DRAFT", "RELEASED", "CANCELLED", "EXPIRED", "RETURNED"}

\* A step of a transaction: a reservation to insert (slot = NoSlot), or the
\* next contents of an existing one.
Request == [slot: Slot \cup {NoSlot}, resource: Resource, quantity: Quantity,
            window: Window, status: ReservationStatus, allowPartial: BOOLEAN]

ASSUME ConstantsAssumption ==
    /\ IsFiniteSet(Slot) /\ NoSlot \notin Slot
    /\ NoEvent \notin Event
    /\ Slot \cap AllocId = {}
    /\ MaxQuantity \in Nat \ {0}
    /\ Resource # {} /\ Window # {}
    /\ Window \subseteq {w \in Nat \X Nat : w[1] < w[2]}
    /\ ResourceInput \subseteq [mode: QuantityMode, total: Nat,
                                unavailable: BOOLEAN]
    /\ InputStatus \subseteq ReservationStatus \ {"FREE"}
    /\ FreedStatus \subseteq {"RELEASED", "CANCELLED"}
    /\ Editable \subseteq Resource
    /\ EventRequest \subseteq Seq(Request) \ {<<>>}

-----------------------------------------------------------------------------
(***************************************************************************)
(* Availability                                                            *)
(***************************************************************************)

statusConsumesCapacity(status) == status \in CAPACITY_CONSUMING_STATUSES

Overlaps(v, w) == v[1] < w[2] /\ w[1] < v[2]

Covers(w, t) == w[1] <= t /\ t < w[2]

\* The units held by reservations of r whose window overlaps w, the row
\* excluded left out: one element per unit, so the sum of their quantities is
\* a cardinality.
OverlappingUnits(rows, r, w, excluded) ==
    {u \in Slot \X Quantity :
        /\ u[1] # excluded
        /\ statusConsumesCapacity(rows[u[1]].status)
        /\ rows[u[1]].resource = r
        /\ Overlaps(rows[u[1]].window, w)
        /\ u[2] <= rows[u[1]].quantity}

Monus(a, b) == IF a >= b THEN a - b ELSE 0

\* Faulty variant: operational unavailability is not deducted.
availableQuantityInService(res, rows, r, w, excluded) ==
    Monus(res.total, Cardinality(OverlappingUnits(rows, r, w, excluded)))

availableQuantity(res, rows, r, w, excluded) ==
    Monus(res.total, Cardinality(OverlappingUnits(rows, r, w, excluded))
                        + (IF res.unavailable THEN res.total ELSE 0))

\* What makes computeAvailability throw rather than answer.
QuantityFitsMode(res, q) == ~res.archived /\ res.mode = "SERIALIZED" => q = 1

canFulfill(res, rows, r, w, q, excluded) ==
    /\ ~res.archived
    /\ \/ res.mode = "UNLIMITED"
       \/ q <= availableQuantity(res, rows, r, w, excluded)

-----------------------------------------------------------------------------
(***************************************************************************)
(* State                                                                   *)
(***************************************************************************)
VARIABLES
    resource,     \* [Resource -> ResourceRow]: the Resource table
    reservation,  \* [Slot -> Row]: the ResourceReservation table
    allocation,   \* [AllocId -> AllocRow]: allocations and their outstandings
    txn,          \* [Proc -> transaction in progress, or Idle]
    seen          \* history: the <<mode, total>> each Resource row has had

tables == <<resource, reservation, allocation>>
vars == <<resource, reservation, allocation, txn, seen>>

\* unavailable stands for the statuses and conditions computeAvailability calls
\* operationalUnavailable.
ResourceRow == [mode: QuantityMode, total: Nat, unavailable: BOOLEAN,
                archived: BOOLEAN]

Row == [resource: Resource, quantity: Quantity, window: Window,
        status: ReservationStatus, event: Event \cup {NoEvent}]

\* An allocation and its outstanding: open while the outstanding is Open.
\* "Free" marks a row not inserted yet, "Deleted" one removed with its event.
AllocRow == [event: Event \cup {NoEvent}, resource: Resource,
             slot: Slot \cup {NoSlot}, requested: Nat, reserved: Nat,
             returned: Nat, status: {"Free", "Reserved", "Returned", "Cancelled", "Deleted"},
             outstanding: Nat, open: BOOLEAN]

Idle == [op |-> "idle", locks |-> {}, wrote |-> {}, claims |-> {}]

Claim == Resource \X Window

Txn == [op: {"create", "update", "allocate", "release", "commit"},
        event: Event \cup {NoEvent}, reason: {"", "Completed", "Cancelled"},
        todo: Seq(Request),
        catalog: [Resource -> ResourceRow], rows: [Slot -> Row],
        allocs: [AllocId -> AllocRow], locks: SUBSET Resource,
        wrote: SUBSET (Slot \cup AllocId), stale: SUBSET (Slot \cup AllocId),
        claims: SUBSET Claim, rivals: SUBSET Claim]

TypeOK ==
    /\ resource \in [Resource -> ResourceRow]
    /\ reservation \in [Slot -> Row]
    /\ allocation \in [AllocId -> AllocRow]
    /\ txn \in [Proc -> Txn \cup {Idle}]
    /\ seen \in [Resource -> SUBSET (QuantityMode \X Nat)]

AnyResource == CHOOSE r \in Resource : TRUE

AnyWindow == CHOOSE w \in Window : TRUE

FreeRow == [resource |-> AnyResource, quantity |-> 1, window |-> AnyWindow,
            status |-> "FREE", event |-> NoEvent]

FreeAlloc == [event |-> NoEvent, resource |-> AnyResource, slot |-> NoSlot,
              requested |-> 0, reserved |-> 0, returned |-> 0,
              status |-> "Free", outstanding |-> 0, open |-> FALSE]

\* createResource
NewResource(s) == [mode |-> s.mode, total |-> s.total,
                   unavailable |-> s.unavailable, archived |-> FALSE]

Init ==
    /\ \E given \in [Resource -> ResourceInput] :
           /\ resource = [r \in Resource |-> NewResource(given[r])]
           /\ seen = [r \in Resource |-> {<<given[r].mode, given[r].total>>}]
    /\ reservation = [i \in Slot |-> FreeRow]
    /\ allocation = [a \in AllocId |-> FreeAlloc]
    /\ txn = [p \in Proc |-> Idle]

-----------------------------------------------------------------------------
(***************************************************************************)
(* Transactions                                                            *)
(***************************************************************************)

Active(p) == txn[p].op # "idle"

\* The first statement of a SERIALIZABLE transaction takes its snapshot.
Begin(p, op, event, reason, todo) ==
    /\ ~Active(p)
    /\ txn' = [txn EXCEPT ![p] =
           [op |-> op, event |-> event, reason |-> reason, todo |-> todo,
            catalog |-> resource, rows |-> reservation, allocs |-> allocation,
            locks |-> {}, wrote |-> {}, stale |-> {}, claims |-> {},
            rivals |-> {}]]
    /\ UNCHANGED <<tables, seen>>

\* pg_advisory_xact_lock: held until the transaction ends.
LockAvailable(p, r) == \A q \in Proc \ {p} : r \notin txn[q].locks

\* A reservation row the transaction may insert: generated ids are unique.
FreshSlots == {i \in Slot : /\ reservation[i].status = "FREE"
                            /\ \A q \in Proc : i \notin txn[q].wrote}

FreshAllocs == {a \in AllocId : /\ allocation[a].status = "Free"
                                /\ \A q \in Proc : a \notin txn[q].wrote}

\* The predicate a transaction reads with findMany(overlaps) and then writes a
\* matching row into: nothing when the row does not consume capacity, or when
\* availability is answered without reading reservations.
ClaimOf(res, r, w, status) ==
    IF statusConsumesCapacity(status) /\ res.mode # "UNLIMITED"
    THEN {<<r, w>>} ELSE {}

\* Writing row i in the transaction of p, the first step of which is done.
WriteRow(p, i, row) ==
    [txn[p] EXCEPT !.rows = [@ EXCEPT ![i] = row],
                   !.locks = @ \cup {row.resource},
                   !.wrote = @ \cup {i},
                   !.claims = @ \cup ClaimOf(txn[p].catalog[row.resource],
                                             row.resource, row.window, row.status),
                   !.todo = Tail(@)]

\* createReservation after lockResource: check, then insert.
createReservation(p) ==
    /\ txn[p].op = "create" /\ txn[p].todo # <<>>
    /\ LET req == Head(txn[p].todo)
           res == txn[p].catalog[req.resource]
       IN  /\ ~res.archived
           /\ LockAvailable(p, req.resource)
           /\ statusConsumesCapacity(req.status) =>
                  /\ QuantityFitsMode(res, req.quantity)
                  /\ canFulfill(res, txn[p].rows, req.resource, req.window,
                                req.quantity, NoSlot)
           /\ FreshSlots # {}
           /\ LET i == CHOOSE i \in FreshSlots : TRUE
                  row == [resource |-> req.resource, quantity |-> req.quantity,
                          window |-> req.window, status |-> req.status,
                          event |-> txn[p].event]
              IN  txn' = [txn EXCEPT ![p] = [WriteRow(p, i, row)
                                               EXCEPT !.op = "commit"]]
    /\ UNCHANGED <<tables, seen>>

\* updateReservation, and confirmReservation through
\* transitionReservationWithCapacityCheck, after lockResource: the row is read
\* again and left out of the sum; its present status is not looked at.
updateReservation(p) ==
    /\ txn[p].op = "update"
    /\ LET req == Head(txn[p].todo)
           i == req.slot
           current == txn[p].rows[i]
           res == txn[p].catalog[current.resource]
       IN  /\ LockAvailable(p, current.resource)
           /\ statusConsumesCapacity(req.status) =>
                  /\ QuantityFitsMode(res, req.quantity)
                  /\ canFulfill(res, txn[p].rows, current.resource, req.window,
                                req.quantity, i)
           /\ LET row == [current EXCEPT !.quantity = req.quantity,
                                         !.window = req.window,
                                         !.status = req.status]
              IN  txn' = [txn EXCEPT ![p] = [WriteRow(p, i, row)
                                               EXCEPT !.op = "commit"]]
    /\ UNCHANGED <<tables, seen>>

\* Faulty variant: the shortfall is not recorded when part of it was reserved.
AllocationRowAllOrNothing(event, req, slot, reserved) ==
    [event |-> event, resource |-> req.resource, slot |-> slot,
     requested |-> req.quantity, reserved |-> reserved, returned |-> 0,
     status |-> "Reserved", outstanding |-> IF reserved = 0 THEN req.quantity ELSE 0,
     open |-> reserved = 0]

AllocationRow(event, req, slot, reserved) ==
    [event |-> event, resource |-> req.resource, slot |-> slot,
     requested |-> req.quantity, reserved |-> reserved, returned |-> 0,
     status |-> "Reserved", outstanding |-> Monus(req.quantity, reserved),
     open |-> req.quantity > reserved]

quantityReserved(res, rows, req) ==
    LET available == availableQuantity(res, rows, req.resource, req.window, NoSlot)
    IN  IF canFulfill(res, rows, req.resource, req.window, req.quantity, NoSlot)
        THEN req.quantity
        ELSE IF available <= req.quantity THEN available ELSE req.quantity

\* One iteration of the loop of reserveResourcesForEvent: the locks of all
\* requests are taken one after the other and kept, and later requests see the
\* reservations earlier ones inserted.
reserveResourcesForEvent(p) ==
    /\ txn[p].op = "allocate"
    /\ LET req == Head(txn[p].todo)
           res == txn[p].catalog[req.resource]
           reserved == quantityReserved(res, txn[p].rows, req)
       IN  /\ ~res.archived
           /\ LockAvailable(p, req.resource)
           /\ QuantityFitsMode(res, req.quantity)
           /\ req.allowPartial
                \/ canFulfill(res, txn[p].rows, req.resource, req.window,
                              req.quantity, NoSlot)
           /\ reserved > 0 => FreshSlots # {}
           /\ FreshAllocs # {}
           /\ LET i == IF reserved > 0 THEN CHOOSE i \in FreshSlots : TRUE
                                       ELSE NoSlot
                  a == CHOOSE a \in FreshAllocs : TRUE
                  row == [resource |-> req.resource, quantity |-> reserved,
                          window |-> req.window, status |-> "RESERVED",
                          event |-> txn[p].event]
                  wrote == IF reserved > 0
                           THEN WriteRow(p, i, row)
                           ELSE [txn[p] EXCEPT !.locks = @ \cup {req.resource},
                                               !.todo = Tail(@)]
              IN  txn' = [txn EXCEPT ![p] =
                      [wrote EXCEPT
                          !.allocs = [@ EXCEPT ![a] =
                              AllocationRow(txn[p].event, req, i, reserved)],
                          !.wrote = @ \cup {a},
                          !.op = IF Len(txn[p].todo) = 1 THEN "commit" ELSE @]]
    /\ UNCHANGED <<tables, seen>>

\* Faulty variant: the findMany does not filter on the status.
UnsettledAnyStatus(p) == {a \in AllocId : /\ txn[p].allocs[a].event = txn[p].event
                                          /\ a \notin txn[p].wrote}

\* Faulty variant: allocations without a reservation are passed over.
UnsettledWithReservation(p) ==
    {a \in AllocId : /\ txn[p].allocs[a].event = txn[p].event
                     /\ txn[p].allocs[a].status = "Reserved"
                     /\ txn[p].allocs[a].slot # NoSlot}

\* The allocations releaseEventAllocations has still to settle: findMany leaves
\* the Cancelled and Returned ones out.
Unsettled(p) == {a \in AllocId : /\ txn[p].allocs[a].event = txn[p].event
                                 /\ txn[p].allocs[a].status = "Reserved"}

\* One iteration of its loop, in an order the query does not fix.
releaseAllocation(p, a) ==
    /\ txn[p].op = "release" /\ a \in Unsettled(p)
    /\ LET old == txn[p].allocs[a]
           done == txn[p].reason = "Completed"
       IN  /\ LockAvailable(p, old.resource)
           /\ txn' = [txn EXCEPT ![p] =
                [txn[p] EXCEPT
                   !.locks = @ \cup {old.resource},
                   !.rows = IF old.slot = NoSlot THEN @
                            ELSE [@ EXCEPT ![old.slot].status =
                                      IF done THEN "RELEASED" ELSE "CANCELLED"],
                   !.allocs = [@ EXCEPT ![a] =
                       [old EXCEPT
                           !.status = IF done THEN "Returned" ELSE "Cancelled",
                           !.returned = IF done THEN old.reserved ELSE old.returned]],
                   !.wrote = @ \cup {a} \cup ({old.slot} \ {NoSlot})]]
    /\ UNCHANGED <<tables, seen>>

\* Faulty variant: outstandings are closed only when the event is cancelled.
OpenOutstandingsOfCancelled(p) ==
    {a \in AllocId : /\ txn[p].allocs[a].event = txn[p].event
                     /\ txn[p].allocs[a].open
                     /\ txn[p].reason = "Cancelled"}

OpenOutstandings(p) == {a \in AllocId : /\ txn[p].allocs[a].event = txn[p].event
                                        /\ txn[p].allocs[a].open}

\* The updateMany that closes the outstandings of the event, after the loop.
cancelOutstandings(p) ==
    /\ txn[p].op = "release" /\ Unsettled(p) = {}
    /\ LET open == OpenOutstandings(p)
       IN  txn' = [txn EXCEPT ![p] =
               [txn[p] EXCEPT
                   !.allocs = [a \in AllocId |->
                       IF a \in open THEN [txn[p].allocs[a] EXCEPT !.open = FALSE]
                                     ELSE txn[p].allocs[a]],
                   !.wrote = @ \cup open,
                   !.op = "commit"]]
    /\ UNCHANGED <<tables, seen>>

-----------------------------------------------------------------------------
(***************************************************************************)
(* Commit and abort                                                        *)
(***************************************************************************)

\* Faulty variant: the transactions run at READ COMMITTED.
NoUpdateConflict(p) == FALSE

\* First updater wins: a row this transaction wrote was changed by a
\* transaction that committed after the snapshot.
UpdateConflict(p) == txn[p].wrote \cap txn[p].stale # {}

\* Faulty variant: the transactions run at REPEATABLE READ.
NoSerializationConflict(p) == FALSE

\* Serializable snapshot isolation never lets two concurrent SERIALIZABLE
\* transactions commit if each wrote a row the predicate of the other matches.
\* PostgreSQL may abort more than this; Abort allows it.
SerializationConflict(p) ==
    \E c \in txn[p].claims, d \in txn[p].rivals :
        c[1] = d[1] /\ Overlaps(c[2], d[2])

\* Faulty variant: pg_advisory_lock, which the end of the transaction keeps.
PublishSessionLock(p, written, claims) ==
    [q \in Proc |->
        IF q = p THEN [Idle EXCEPT !.locks = txn[p].locks]
        ELSE IF ~Active(q) THEN txn[q]
        ELSE [txn[q] EXCEPT !.stale = @ \cup written, !.rivals = @ \cup claims]]

\* What the other transactions in progress learn of a commit.
Publish(p, written, claims) ==
    [q \in Proc |->
        IF q = p \/ ~Active(q) THEN Idle
        ELSE [txn[q] EXCEPT !.stale = @ \cup written, !.rivals = @ \cup claims]]

Commit(p) ==
    /\ txn[p].op = "commit"
    /\ ~UpdateConflict(p)
    /\ ~SerializationConflict(p)
    /\ reservation' = [i \in Slot |-> IF i \in txn[p].wrote THEN txn[p].rows[i]
                                                            ELSE reservation[i]]
    /\ allocation' = [a \in AllocId |-> IF a \in txn[p].wrote THEN txn[p].allocs[a]
                                                              ELSE allocation[a]]
    /\ txn' = Publish(p, txn[p].wrote, txn[p].claims)
    /\ UNCHANGED <<resource, seen>>

\* The handler throws (a check fails, serialization failure, deadlock victim,
\* timeout) and the transaction rolls back.  No caller retries it.
Abort(p) ==
    /\ Active(p)
    /\ txn' = [txn EXCEPT ![p] = Idle]
    /\ UNCHANGED <<tables, seen>>

-----------------------------------------------------------------------------
(***************************************************************************)
(* Requests                                                                *)
(***************************************************************************)

BeginCreate(p, r, q, w, s, e) ==
    Begin(p, "create", e, "",
          << [slot |-> NoSlot, resource |-> r, quantity |-> q, window |-> w,
              status |-> s, allowPartial |-> FALSE] >>)

\* A field the client leaves out keeps its present value, one of those below.
BeginUpdate(p, i, q, w, s) ==
    /\ reservation[i].status # "FREE"
    /\ Begin(p, "update", NoEvent, "",
             << [slot |-> i, resource |-> reservation[i].resource, quantity |-> q,
                 window |-> w, status |-> s, allowPartial |-> FALSE] >>)

\* Faulty variant: the status of another enumeration is written.
BeginConfirmEventStatus(p, i) ==
    BeginUpdate(p, i, reservation[i].quantity, reservation[i].window, "Confirmed")

BeginConfirm(p, i) ==
    BeginUpdate(p, i, reservation[i].quantity, reservation[i].window, "CONFIRMED")

BeginAllocate(p, e, requests) == Begin(p, "allocate", e, "", requests)

BeginRelease(p, e, reason) == Begin(p, "release", e, reason, << >>)

\* releaseReservation and cancelReservation through
\* transitionReservationWithoutCapacityCheck: one plain update, no lock, no
\* look at the present status.
transitionReservationWithoutCapacityCheck(i, target) ==
    /\ reservation[i].status # "FREE"
    /\ reservation' = [reservation EXCEPT ![i].status = target]
    /\ txn' = [q \in Proc |->
                  IF Active(q) THEN [txn[q] EXCEPT !.stale = @ \cup {i}] ELSE Idle]
    /\ UNCHANGED <<resource, allocation, seen>>

updateResource(r, s) ==
    /\ resource' = [resource EXCEPT ![r] =
                       [NewResource(s) EXCEPT !.archived = resource[r].archived]]
    /\ seen' = [seen EXCEPT ![r] = @ \cup {<<s.mode, s.total>>}]
    /\ UNCHANGED <<reservation, allocation, txn>>

archiveResource(r) ==
    /\ resource' = [resource EXCEPT ![r].archived = TRUE]
    /\ UNCHANGED <<reservation, allocation, txn, seen>>

restoreResource(r) ==
    /\ resource' = [resource EXCEPT ![r].archived = FALSE]
    /\ UNCHANGED <<reservation, allocation, txn, seen>>

NewRequest(p) ==
    \/ \E r \in Resource, q \in Quantity, w \in Window, s \in InputStatus,
          e \in Event \cup {NoEvent} : BeginCreate(p, r, q, w, s, e)
    \/ \E i \in Slot, q \in Quantity, w \in Window, s \in InputStatus :
          BeginUpdate(p, i, q, w, s)
    \/ \E i \in Slot : BeginConfirm(p, i)
    \/ \E e \in Event, requests \in EventRequest : BeginAllocate(p, e, requests)
    \/ \E e \in Event, reason \in {"Completed", "Cancelled"} :
          BeginRelease(p, e, reason)

Step(p) ==
    \/ createReservation(p)
    \/ updateReservation(p)
    \/ reserveResourcesForEvent(p)
    \/ \E a \in AllocId : releaseAllocation(p, a)
    \/ cancelOutstandings(p)
    \/ Commit(p)
    \/ Abort(p)

PlainUpdate ==
    \/ \E i \in Slot, target \in FreedStatus :
          transitionReservationWithoutCapacityCheck(i, target)
    \/ \E r \in Editable, s \in ResourceInput : updateResource(r, s)
    \/ \E r \in Editable : archiveResource(r) \/ restoreResource(r)

Next ==
    \/ \E p \in Proc : NewRequest(p) \/ Step(p)
    \/ PlainUpdate

Spec == Init /\ [][Next]_vars

-----------------------------------------------------------------------------
(***************************************************************************)
(* Fairness                                                                *)
(***************************************************************************)

\* A statement of the transaction of p, up to its commit.
Advance(p) ==
    \/ createReservation(p)
    \/ updateReservation(p)
    \/ reserveResourcesForEvent(p)
    \/ \E a \in AllocId : releaseAllocation(p, a)
    \/ cancelOutstandings(p)
    \/ Commit(p)

\* The resources of which the next statement of p locks one.
NextLocks(p) ==
    CASE txn[p].op \in {"create", "allocate"} -> {Head(txn[p].todo).resource}
      [] txn[p].op = "update" -> {txn[p].rows[Head(txn[p].todo).slot].resource}
      [] txn[p].op = "release" -> {txn[p].allocs[a].resource : a \in Unsettled(p)}
      [] OTHER -> {}

Waiting(p) == NextLocks(p) # {} /\ \A r \in NextLocks(p) : ~LockAvailable(p, r)

WaitsFor(p, q) == Waiting(p) /\ NextLocks(p) \cap txn[q].locks # {}

\* The handlers of S wait for each other.
Deadlocked(S) == S # {} /\ \A p \in S : \E q \in S \ {p} : WaitsFor(p, q)

\* The detector of PostgreSQL ends one of the transactions of a deadlock.
DetectDeadlock ==
    \E S \in SUBSET Proc : Deadlocked(S) /\ \E p \in S : Abort(p)

\* A statement that waits for no lock and cannot succeed throws.
Reject(p) == ~Waiting(p) /\ ~ENABLED Advance(p) /\ Abort(p)

\* The event loop resumes a handler whose statement has returned, and the lock
\* manager grants a lock in the order of the requests, so that a handler whose
\* statement is again and again possible performs it in the end.  Clients need
\* not make any request, and no transaction need be aborted that is not
\* deadlocked or rejected.
FairSpec ==
    /\ Spec
    /\ \A p \in Proc : SF_vars(Advance(p) \/ Reject(p))
    /\ WF_vars(DetectDeadlock)

-----------------------------------------------------------------------------
(***************************************************************************)
(* Properties                                                              *)
(***************************************************************************)

\* The units of r in use at instant t, and how many there are.
UnitsAt(rows, r, t) ==
    {u \in Slot \X Quantity :
        /\ statusConsumesCapacity(rows[u[1]].status)
        /\ rows[u[1]].resource = r
        /\ Covers(rows[u[1]].window, t)
        /\ u[2] <= rows[u[1]].quantity}

Load(rows, r, t) == Cardinality(UnitsAt(rows, r, t))

\* A window covers an instant only if it covers the start of some window too,
\* so these instants see every maximum of the load.
Instant == {w[1] : w \in Window}

Metered(r) == \A s \in seen[r] : s[1] # "UNLIMITED"

\* At no instant do the capacity-consuming reservations of a resource add up to
\* more than the largest total quantity the resource has had, however the
\* admissions of createReservation, updateReservation, confirmReservation and
\* reserveResourcesForEvent interleave with each other and with plain updates.
NoOverbooking ==
    \A r \in Resource, t \in Instant :
        Metered(r) => \E s \in seen[r] : Load(reservation, r, t) <= s[2]

\* A step that raises the load of a resource at some instant is the commit of a
\* transaction whose own snapshot had the resource active, in service and large
\* enough for the load that results: no admission is decided on capacity that
\* another handler was given in the meantime.
AdmissionWithinCapacity ==
    [][\A r \in Resource, t \in Instant :
          Metered(r) /\ Load(reservation', r, t) > Load(reservation, r, t) =>
              \E p \in Proc :
                  /\ txn[p].op = "commit"
                  /\ ~txn[p].catalog[r].archived
                  /\ ~txn[p].catalog[r].unavailable
                  /\ Load(reservation', r, t) <= txn[p].catalog[r].total]_vars

\* An event's allocation is settled once: after releaseEventAllocations made it
\* Returned or Cancelled, no concurrent or later release changes its status or
\* the quantity it returned.
AllocationSettledOnce ==
    [][\A a \in AllocId :
          allocation[a].status \in {"Returned", "Cancelled"} =>
              \/ allocation'[a] = allocation[a]
              \/ allocation'[a].status = "Deleted"]_vars

\* The step that settles an allocation frees, in the same step, the capacity its
\* reservation holds and closes the outstanding that belongs to it.
SettlingFreesCapacity ==
    [][\A a \in AllocId :
          allocation[a].status = "Reserved" /\ allocation'[a].status \in {"Returned", "Cancelled"} =>
              /\ ~allocation'[a].open
              /\ allocation[a].slot # NoSlot =>
                     ~statusConsumesCapacity(reservation'[allocation[a].slot].status)]_vars

\* Every unit an event asked for is either reserved or outstanding; an
\* outstanding is open only while its allocation is Reserved; and a reserved
\* quantity is backed by a reservation row of that event and resource, which no
\* other allocation refers to.
AllocationsAccounted ==
    \A a \in AllocId : LET row == allocation[a] IN
        row.status \notin {"Free", "Deleted"} =>
            /\ row.requested = row.reserved + row.outstanding
            /\ row.open => row.status = "Reserved" /\ row.outstanding > 0
            /\ (row.slot = NoSlot) = (row.reserved = 0)
            /\ row.slot # NoSlot =>
                  /\ reservation[row.slot].event = row.event
                  /\ reservation[row.slot].resource = row.resource
                  /\ \A b \in AllocId \ {a} :
                        allocation[b].status \notin {"Free", "Deleted"} =>
                            allocation[b].slot # row.slot

\* Whatever its transactions see and however they interleave, the engine is one
\* that books, allocates and settles in whole steps, as Booking says.
Atomic == INSTANCE Booking

BooksAtomically == Atomic!BookingSpec

\* A transaction of the resource engine ends, committed or rolled back, even when
\* it waits for the lock of a resource: no handler keeps waiting because others
\* take the locks of the same resources in another order.
EveryTransactionEnds == \A p \in Proc : Active(p) ~> ~Active(p)

=============================================================================

------------------------ MODULE EventResourcesProofs ------------------------
(***************************************************************************)
(* Proofs about EventResources: no allocation outlives its event, and an   *)
(* update of an event that reports success has settled its allocations.    *)
(*                                                                         *)
(* Every step is one of the resource engine or the delete of an event,     *)
(* which keeps the invariants of the engine too.  On top of them EventInv  *)
(* says what a handler of EventsService may rely on between its            *)
(* transactions.                                                           *)
(***************************************************************************)
EXTENDS EventResources, ResourceReservationsProofs

-----------------------------------------------------------------------------
(***************************************************************************)
(* The invariant                                                           *)
(***************************************************************************)

\* Allocations are those of an event, in the tables and in every view.
Named(T) ==
    /\ T.op = "allocate" => T.event \in Event
    /\ \A a \in AllocId : T.allocs[a].status # "Free" => T.allocs[a].event \in Event

NamedInv ==
    /\ \A a \in AllocId : allocation[a].status # "Free" => allocation[a].event \in Event
    /\ \A p \in Proc : Active(p) => Named(txn[p])

\* A handler releases the allocations of its event in a transaction of its own,
\* and has none in progress before or after.
Releasing(p) ==
    IF At(p, "releasing")
    THEN /\ Active(p) /\ txn[p].reason # "" /\ txn[p].event = handler[p].event
         /\ \A a \in handler[p].owed : /\ txn[p].allocs[a].status # "Free"
                                       /\ txn[p].allocs[a].event = handler[p].event
    ELSE handler[p] # NoHandler => ~Active(p)

\* It does so for a terminal status, and what it owes are allocations of its event.
Owing(p) ==
    At(p, "release") \/ At(p, "releasing") =>
        /\ handler[p].next \in TerminalStatus
        /\ handler[p].owed \subseteq owed
        /\ \A a \in handler[p].owed : /\ allocation[a].status # "Free"
                                      /\ allocation[a].event = handler[p].event

HandlersInv == \A p \in Proc : Releasing(p) /\ Owing(p)

VouchedSettled == \A a \in vouched : Settled(allocation[a])

\* The handlers and the events agree with the allocations.
EventInv ==
    /\ EventTypeOK /\ AccountedInv
    /\ NamedInv /\ HandlersInv /\ VouchedSettled /\ AllocationsHaveEvent

-----------------------------------------------------------------------------
(***************************************************************************)
(* Deleting an event keeps what the engine relies on                       *)
(***************************************************************************)

\* A delete changes the allocations of the event only, all of which it marks.
LEMMA DeleteAllocs ==
    ASSUME TypeInv, NEW p \in Proc, RemoveDelete(p)
    PROVE  /\ \A a \in AllocId :
                 /\ allocation'[a] \in AllocRow
                 /\ allocation'[a].event = allocation[a].event
                 /\ allocation'[a].slot = allocation[a].slot
                 /\ \/ allocation'[a] = allocation[a]
                    \/ /\ allocation'[a].status = "Deleted" /\ ~allocation'[a].open
                       /\ allocation[a].status # "Free"
                       /\ a \in CascadeToAllocations(handler[p].event)
                 /\ a \in CascadeToAllocations(handler[p].event) =>
                       allocation'[a].status = "Deleted"
           /\ UNCHANGED <<resource, reservation, seen>>
           /\ txn' = Publish(p, CascadeToAllocations(handler[p].event), {})
<1>. DEFINE gone == CascadeToAllocations(handler[p].event)
<1>1. /\ allocation' = [a \in AllocId |->
             IF a \in gone THEN [allocation[a] EXCEPT !.status = "Deleted", !.open = FALSE]
                           ELSE allocation[a]]
      /\ UNCHANGED <<resource, reservation, seen>>
      /\ txn' = Publish(p, gone, {})
  BY DEF RemoveDelete
<1>2. \A a \in gone : allocation[a].status # "Free"
  BY DEF CascadeToAllocations
<1>. HIDE DEF gone
<1>3. ASSUME NEW a \in AllocId
      PROVE  /\ allocation'[a] \in AllocRow
             /\ allocation'[a].event = allocation[a].event
             /\ allocation'[a].slot = allocation[a].slot
             /\ \/ allocation'[a] = allocation[a]
                \/ /\ allocation'[a].status = "Deleted" /\ ~allocation'[a].open
                   /\ allocation[a].status # "Free"
                   /\ a \in gone
             /\ a \in gone => allocation'[a].status = "Deleted"
  <2>1. allocation[a] \in AllocRow
    BY DEF TypeInv, TypeOK
  <2>2. CASE a \in gone
    <3>1. allocation'[a] = [allocation[a] EXCEPT !.status = "Deleted", !.open = FALSE]
      BY <1>1, <2>2
    <3>. QED
      BY <1>2, <2>1, <2>2, <3>1 DEF AllocRow
  <2>3. CASE a \notin gone
    BY <1>1, <2>1, <2>3
  <2>. QED
    BY <2>2, <2>3
<1>. QED
  BY <1>1, <1>3 DEF gone

\* A delete keeps the types.
LEMMA DeleteType ==
    ASSUME TypeInv, NEW p \in Proc, RemoveDelete(p)
    PROVE  TypeInv'
<1>1. CascadeToAllocations(handler[p].event) \in SUBSET (Slot \cup AllocId)
  BY DEF CascadeToAllocations
<1>2. txn' \in [Proc -> Txn \cup {Idle}] /\ TodoOK'
  <2>1. txn' = Publish(p, CascadeToAllocations(handler[p].event), {})
    BY DeleteAllocs
  <2>2. {} \in SUBSET Claim
    OBVIOUS
  <2>. QED
    BY <1>1, <2>1, <2>2, PublishType
<1>3. allocation' \in [AllocId -> AllocRow]
  <2>1. allocation' = [a \in AllocId |-> allocation'[a]]
    BY DEF RemoveDelete
  <2>. QED
    BY <2>1, DeleteAllocs
<1>. QED
  BY <1>2, <1>3, DeleteAllocs DEF TypeInv, TypeOK

\* What a transaction in progress learns of a delete.
LEMMA DeletePublished ==
    ASSUME TypeInv, NEW p \in Proc, RemoveDelete(p), NEW q \in Proc, Active(q)'
    PROVE  /\ q # p /\ Active(q) /\ txn[q] \in Txn
           /\ txn'[q].op = txn[q].op /\ txn'[q].event = txn[q].event
           /\ txn'[q].reason = txn[q].reason /\ txn'[q].todo = txn[q].todo
           /\ txn'[q].rows = txn[q].rows /\ txn'[q].allocs = txn[q].allocs
           /\ txn'[q].catalog = txn[q].catalog /\ txn'[q].claims = txn[q].claims
           /\ txn'[q].wrote = txn[q].wrote /\ txn'[q].rivals = txn[q].rivals
           /\ txn'[q].stale = txn[q].stale \cup CascadeToAllocations(handler[p].event)
<1>1. txn' = Publish(p, CascadeToAllocations(handler[p].event), {})
  BY DeleteAllocs
<1>2. q # p /\ Active(q)
  BY <1>1 DEF Publish, Active, Idle
<1>3. txn[q] \in Txn
  BY <1>2, ActiveTxn DEF TypeInv
<1>4. txn'[q] = [txn[q] EXCEPT !.stale = @ \cup CascadeToAllocations(handler[p].event),
                               !.rivals = @ \cup {}]
  BY <1>1, <1>2 DEF Publish
<1>5. txn'[q].stale = txn[q].stale \cup CascadeToAllocations(handler[p].event)
      /\ txn'[q].rivals = txn[q].rivals
  <2>1. txn[q].rivals \cup {} = txn[q].rivals
    OBVIOUS
  <2>2. {"stale", "rivals"} \subseteq DOMAIN txn[q]
    BY <1>3 DEF Txn
  <2>. QED
    BY <1>4, <2>1, <2>2
<1>6. /\ txn'[q].op = txn[q].op /\ txn'[q].event = txn[q].event
      /\ txn'[q].reason = txn[q].reason /\ txn'[q].todo = txn[q].todo
      /\ txn'[q].rows = txn[q].rows /\ txn'[q].allocs = txn[q].allocs
      /\ txn'[q].catalog = txn[q].catalog /\ txn'[q].claims = txn[q].claims
      /\ txn'[q].wrote = txn[q].wrote
  <2>1. {"op", "event", "reason", "todo", "rows", "allocs", "catalog", "claims", "wrote"}
           \subseteq DOMAIN txn[q]
    BY <1>3 DEF Txn
  <2>. QED
    BY <1>4, <2>1
<1>. QED
  BY <1>2, <1>3, <1>5, <1>6

\* A delete keeps the allocations accounted for.
LEMMA DeleteAlloc ==
    ASSUME TypeInv, TypeInv', AllocInv, NEW p \in Proc, RemoveDelete(p)
    PROVE  AllocInv'
<1>1. \A a \in AllocId : Live(allocation'[a]) => allocation'[a] = allocation[a]
  BY DeleteAllocs DEF Live
<1>2. TablesInv'
  <2>1. Backed(allocation, reservation) /\ Unshared(allocation)
        /\ OpenWhileReserved(allocation)
    BY DEF AllocInv, TablesInv
  <2>2. reservation' = reservation
    BY DeleteAllocs
  <2>3. Backed(allocation', reservation)
    BY <1>1, <2>1, BackedAllocs
  <2>4. Unshared(allocation')
    BY <1>1, <2>1 DEF Unshared
  <2>5. OpenWhileReserved(allocation')
    BY <2>1, DeleteAllocs DEF OpenWhileReserved
  <2>. QED
    BY <2>2, <2>3, <2>4, <2>5 DEF TablesInv, Backed, Unshared, OpenWhileReserved
<1>3. ASSUME NEW q \in Proc, Active(q)'
      PROVE  Active(q) /\ Meets(q)
  <2>1. ASSUME NEW a \in AllocId
        PROVE  /\ IF allocation[a].status = "Free"
                  THEN allocation'[a].status # "Free" => a \notin txn[q].wrote
                  ELSE /\ allocation'[a].status # "Free"
                       /\ allocation'[a].event = allocation[a].event
                       /\ allocation'[a].slot = allocation[a].slot
               /\ Settled(allocation[a]) => Settled(allocation'[a])
               /\ allocation'[a] # allocation[a] => a \in txn'[q].stale
    <3>1. allocation'[a] # allocation[a] => a \in txn'[q].stale
      BY <1>3, DeleteAllocs, DeletePublished
    <3>2. Settled(allocation[a]) => Settled(allocation'[a])
      BY DeleteAllocs DEF Settled
    <3>3. CASE allocation[a].status = "Free"
      BY <3>1, <3>2, <3>3, DeleteAllocs
    <3>4. CASE allocation[a].status # "Free"
      BY <3>1, <3>2, <3>4, DeleteAllocs
    <3>. QED
      BY <3>3, <3>4
  <2>2. reservation' = reservation
    BY DeleteAllocs
  <2>. QED
    BY <1>3, <2>1, <2>2, DeletePublished DEF Meets
<1>. QED
  BY <1>2, <1>3, TablesAlloc

\* A delete changes no load and no decision on one.
LEMMA DeleteIInv ==
    ASSUME IInv, TypeInv', NEW p \in Proc, RemoveDelete(p)
    PROVE  IInv'
<1>1. resource' = resource /\ reservation' = reservation /\ seen' = seen
  BY DeleteAllocs DEF IInv
<1>2. NoOverbooking' /\ CatalogSeen'
  BY <1>1 DEF IInv, NoOverbooking, CatalogSeen, Metered, Load, UnitsAt
<1>3. ASSUME NEW q \in Proc, Active(q)'
      PROVE  Sound(txn[q])'
  <2>1. /\ txn'[q].rows = txn[q].rows /\ txn'[q].catalog = txn[q].catalog
        /\ txn'[q].claims = txn[q].claims /\ txn'[q].wrote = txn[q].wrote
        /\ txn'[q].rivals = txn[q].rivals
        /\ Sound(txn[q])
    BY <1>3, DeletePublished DEF IInv, SoundInv
  <2>2. Tracked(txn[q])'
    BY <1>1, <2>1 DEF Sound, Tracked, Metered
  <2>3. Bounded(txn[q])' /\ Claimed(txn[q])' /\ Known(txn[q])'
    BY <1>1, <2>1 DEF Sound, Bounded, Claimed, Known, Metered
  <2>. QED
    BY <2>2, <2>3 DEF Sound
<1>. QED
  BY <1>2, <1>3 DEF IInv, SoundInv

-----------------------------------------------------------------------------
(***************************************************************************)
(* What a step leaves of transactions and allocations                      *)
(***************************************************************************)

\* The transaction of q stays that of its event: the allocations it sees keep
\* theirs, and it inserts others for its own event only.
Keeps(q) ==
    /\ Active(q)' <=> Active(q)
    /\ Active(q) =>
          /\ txn'[q].event = txn[q].event /\ txn'[q].reason = txn[q].reason
          /\ txn'[q].op = "allocate" => txn[q].op = "allocate"
          /\ \A a \in AllocId :
                IF txn[q].allocs[a].status # "Free"
                THEN /\ txn'[q].allocs[a].status # "Free"
                     /\ txn'[q].allocs[a].event = txn[q].allocs[a].event
                ELSE txn'[q].allocs[a].status # "Free" =>
                         /\ txn[q].op = "allocate"
                         /\ txn'[q].allocs[a].event = txn[q].event

\* Allocations that exist keep their event.
TablesKeep ==
    \A a \in AllocId : allocation[a].status # "Free" =>
        /\ allocation'[a].status # "Free"
        /\ allocation'[a].event = allocation[a].event

\* One statement of the transaction of p.
Statement(p) ==
    \/ createReservation(p)
    \/ updateReservation(p)
    \/ reserveResourcesForEvent(p)
    \/ \E a \in AllocId : releaseAllocation(p, a)
    \/ cancelOutstandings(p)

\* A transaction that is not changed is kept.
LEMMA UnchangedKeeps ==
    ASSUME NEW q, txn'[q] = txn[q]
    PROVE  Keeps(q)
BY DEF Keeps, Active

\* A statement changes its own transaction only, and not the tables.
LEMMA StatementOwn ==
    ASSUME TypeInv, NEW p \in Proc, Statement(p)
    PROVE  /\ UNCHANGED <<tables, seen>>
           /\ \A q \in Proc \ {p} : txn'[q] = txn[q]
           /\ Active(p)
BY DEF TypeInv, TypeOK, Statement, createReservation, updateReservation,
       reserveResourcesForEvent, releaseAllocation, cancelOutstandings, Active

\* Writing a reservation leaves the rest of a transaction alone.
LEMMA WriteRowKeeps ==
    ASSUME NEW p \in Proc, txn[p] \in Txn, NEW i, NEW row
    PROVE  LET W == WriteRow(p, i, row) IN
           /\ W.op = txn[p].op /\ W.event = txn[p].event /\ W.reason = txn[p].reason
           /\ W.allocs = txn[p].allocs /\ W.wrote = txn[p].wrote \cup {i}
           /\ [W EXCEPT !.op = "commit"].op = "commit"
           /\ [W EXCEPT !.op = "commit"].event = txn[p].event
           /\ [W EXCEPT !.op = "commit"].reason = txn[p].reason
           /\ [W EXCEPT !.op = "commit"].allocs = txn[p].allocs
BY DEF WriteRow, Txn

\* createReservation and updateReservation see the same allocations as before.
LEMMA ReserveKeeps ==
    ASSUME TypeInv, NEW p \in Proc, createReservation(p) \/ updateReservation(p)
    PROVE  Keeps(p)
<1>1. txn[p] \in Txn /\ Active(p)
  BY ActiveTxn DEF TypeInv, Active, createReservation, updateReservation
<1>2. PICK i, row : txn' = [txn EXCEPT ![p] = [WriteRow(p, i, row) EXCEPT !.op = "commit"]]
  BY DEF createReservation, updateReservation
<1>. DEFINE T == [WriteRow(p, i, row) EXCEPT !.op = "commit"]
<1>3. /\ T.op = "commit" /\ T.event = txn[p].event /\ T.reason = txn[p].reason
      /\ T.allocs = txn[p].allocs
  BY <1>1, WriteRowKeeps
<1>. HIDE DEF T
<1>4. txn'[p] = T
  BY <1>2 DEF TypeInv, TypeOK, T
<1>. QED
  BY <1>1, <1>3, <1>4 DEF Keeps, Active

\* reserveResourcesForEvent inserts an allocation of its own event.
LEMMA AllocateKeeps ==
    ASSUME TypeInv, AllocInv, NEW p \in Proc, reserveResourcesForEvent(p)
    PROVE  Keeps(p)
<1>. DEFINE req == Head(txn[p].todo)
            res == txn[p].catalog[req.resource]
            reserved == quantityReserved(res, txn[p].rows, req)
            i == IF reserved > 0 THEN CHOOSE i \in FreshSlots : TRUE ELSE NoSlot
            a == CHOOSE a \in FreshAllocs : TRUE
            row == [resource |-> req.resource, quantity |-> reserved,
                    window |-> req.window, status |-> "RESERVED",
                    event |-> txn[p].event]
            W == IF reserved > 0
                 THEN WriteRow(p, i, row)
                 ELSE [txn[p] EXCEPT !.locks = @ \cup {req.resource},
                                     !.todo = Tail(@)]
            alloc == AllocationRow(txn[p].event, req, i, reserved)
            T == [W EXCEPT !.allocs = [@ EXCEPT ![a] = alloc],
                           !.wrote = @ \cup {a},
                           !.op = IF Len(txn[p].todo) = 1 THEN "commit" ELSE @]
<1>1. txn[p] \in Txn /\ Active(p) /\ txn[p].op = "allocate"
  BY ActiveTxn DEF TypeInv, Active, reserveResourcesForEvent
<1>2. txn' = [txn EXCEPT ![p] = T]
  BY DEF reserveResourcesForEvent
<1>3. a \in FreshAllocs
  BY DEF reserveResourcesForEvent
<1>. HIDE DEF a
<1>4. a \in AllocId /\ txn[p].allocs[a].status = "Free"
  BY <1>1, <1>3, FreshRow
<1>5. alloc.event = txn[p].event
  BY DEF AllocationRow
<1>. HIDE DEF alloc, reserved, i, row, req
<1>6. /\ W.op = txn[p].op /\ W.event = txn[p].event /\ W.reason = txn[p].reason
      /\ W.allocs = txn[p].allocs
      /\ T.event = W.event /\ T.reason = W.reason
      /\ T.op \in {"commit", W.op}
      /\ T.allocs = [W.allocs EXCEPT ![a] = alloc]
  <2>1. CASE reserved > 0
    <3>1. W = WriteRow(p, i, row)
      BY <2>1
    <3>. QED
      BY <1>1, <3>1 DEF WriteRow, Txn
  <2>2. CASE ~(reserved > 0)
    <3>1. W = [txn[p] EXCEPT !.locks = @ \cup {req.resource}, !.todo = Tail(@)]
      BY <2>2
    <3>. QED
      BY <1>1, <3>1 DEF Txn
  <2>. QED
    BY <2>1, <2>2
<1>. HIDE DEF W, T
<1>7. txn'[p] = T
  BY <1>2 DEF TypeInv, TypeOK
<1>8. \A b \in AllocId : T.allocs[b] = IF b = a THEN alloc ELSE txn[p].allocs[b]
  BY <1>1, <1>6, TxnFields
<1>. QED
  BY <1>1, <1>4, <1>5, <1>6, <1>7, <1>8 DEF Keeps, Active

\* A release keeps the event of the allocations it settles.
LEMMA ReleaseKeeps ==
    ASSUME TypeInv, NEW p \in Proc,
           cancelOutstandings(p) \/ \E a \in AllocId : releaseAllocation(p, a)
    PROVE  Keeps(p)
<1>1. txn[p] \in Txn /\ Active(p) /\ txn[p].op = "release"
  BY ActiveTxn DEF TypeInv, Active, releaseAllocation, cancelOutstandings
<1>2. /\ txn[p].allocs \in [AllocId -> AllocRow]
      /\ \A b \in AllocId : txn[p].allocs[b] \in AllocRow
  BY <1>1, TxnFields
<1>3. ASSUME NEW T, NEW allocs, txn' = [txn EXCEPT ![p] = T], T.event = txn[p].event,
             T.reason = txn[p].reason, T.op \in {"release", "commit"}, T.allocs = allocs,
             \A b \in AllocId : IF txn[p].allocs[b].status # "Free"
                               THEN /\ allocs[b].status # "Free"
                                    /\ allocs[b].event = txn[p].allocs[b].event
                               ELSE allocs[b].status = "Free"
      PROVE  Keeps(p)
  <2>1. txn'[p] = T
    BY <1>3 DEF TypeInv, TypeOK
  <2>. QED
    BY <1>1, <1>3, <2>1 DEF Keeps, Active
<1>4. CASE cancelOutstandings(p)
  <2>. DEFINE open == OpenOutstandings(p)
              allocs == [a \in AllocId |->
                            IF a \in open THEN [txn[p].allocs[a] EXCEPT !.open = FALSE]
                                          ELSE txn[p].allocs[a]]
              T == [txn[p] EXCEPT !.allocs = allocs, !.wrote = @ \cup open,
                                  !.op = "commit"]
  <2>1. txn' = [txn EXCEPT ![p] = T]
    BY <1>4 DEF cancelOutstandings
  <2>2. \A b \in AllocId : /\ allocs[b].status = txn[p].allocs[b].status
                           /\ allocs[b].event = txn[p].allocs[b].event
    BY <1>2 DEF AllocRow
  <2>. HIDE DEF allocs, open
  <2>3. /\ T.event = txn[p].event /\ T.reason = txn[p].reason
        /\ T.op = "commit" /\ T.allocs = allocs
    BY <1>1 DEF Txn
  <2>. HIDE DEF T
  <2>4. \A b \in AllocId : IF txn[p].allocs[b].status # "Free"
                          THEN /\ allocs[b].status # "Free"
                               /\ allocs[b].event = txn[p].allocs[b].event
                          ELSE allocs[b].status = "Free"
    BY <2>2
  <2>. QED
    BY <1>3, <2>1, <2>3, <2>4
<1>5. ASSUME NEW a \in AllocId, releaseAllocation(p, a) PROVE Keeps(p)
  <2>. DEFINE old == txn[p].allocs[a]
              done == txn[p].reason = "Completed"
              rows == IF old.slot = NoSlot THEN txn[p].rows
                      ELSE [txn[p].rows EXCEPT ![old.slot].status =
                                IF done THEN "RELEASED" ELSE "CANCELLED"]
              new == [old EXCEPT
                         !.status = IF done THEN "Returned" ELSE "Cancelled",
                         !.returned = IF done THEN old.reserved ELSE old.returned]
              allocs == [txn[p].allocs EXCEPT ![a] = new]
              T == [txn[p] EXCEPT
                       !.locks = @ \cup {old.resource},
                       !.rows = rows,
                       !.allocs = allocs,
                       !.wrote = @ \cup {a} \cup ({old.slot} \ {NoSlot})]
  <2>1. txn' = [txn EXCEPT ![p] = T]
    BY <1>5 DEF releaseAllocation
  <2>2. old.status = "Reserved"
    BY <1>5 DEF releaseAllocation, Unsettled
  <2>3. new.event = old.event /\ new.status # "Free"
    BY <1>2 DEF AllocRow
  <2>. HIDE DEF new
  <2>4. \A b \in AllocId : allocs[b] = IF b = a THEN new ELSE txn[p].allocs[b]
    BY <1>2
  <2>. HIDE DEF rows, allocs
  <2>5. /\ T.event = txn[p].event /\ T.reason = txn[p].reason
        /\ T.op = "release" /\ T.allocs = allocs
    BY <1>1 DEF Txn
  <2>. HIDE DEF T
  <2>. QED
    <3>1. ASSUME NEW b \in AllocId
          PROVE  IF txn[p].allocs[b].status # "Free"
                 THEN /\ allocs[b].status # "Free"
                      /\ allocs[b].event = txn[p].allocs[b].event
                 ELSE allocs[b].status = "Free"
      BY <2>2, <2>3, <2>4
    <3>. HIDE DEF old
    <3>. QED
      BY <1>3, <2>1, <2>5, <3>1
<1>. QED
  BY <1>4, <1>5

\* So a statement keeps every transaction.
LEMMA StatementKeeps ==
    ASSUME TypeInv, AllocInv, NEW p \in Proc, Statement(p)
    PROVE  TablesKeep /\ \A q \in Proc : Keeps(q)
<1>1. Keeps(p)
  BY ReserveKeeps, AllocateKeeps, ReleaseKeeps DEF Statement
<1>2. ASSUME NEW q \in Proc \ {p} PROVE Keeps(q)
  BY StatementOwn, UnchangedKeeps
<1>3. TablesKeep
  BY StatementOwn DEF tables, TablesKeep
<1>. QED
  BY <1>1, <1>2, <1>3

\* A request starts a transaction for its event.
LEMMA RequestKeeps ==
    ASSUME TypeInv, NEW p \in Proc, NewRequest(p)
    PROVE  /\ \A q \in Proc \ {p} : Keeps(q)
           /\ UNCHANGED <<tables, seen>> /\ ~Active(p)
           /\ txn'[p].allocs = allocation
           /\ txn'[p].op = "allocate" => txn'[p].event \in Event
<1>1. PICK op, event, reason, todo :
          Begin(p, op, event, reason, todo) /\ (op = "allocate" => event \in Event)
  <2>. DEFINE Begun == \E op, event, reason, todo :
                  Begin(p, op, event, reason, todo) /\ (op = "allocate" => event \in Event)
  <2>1. ASSUME NEW r, NEW q, NEW w, NEW st, NEW e, BeginCreate(p, r, q, w, st, e)
        PROVE  Begun
    <3>1. \E todo : Begin(p, "create", e, "", todo)
      BY <2>1, Zenon DEF BeginCreate
    <3>2. "create" # "allocate"
      OBVIOUS
    <3>. QED
      BY <3>1, <3>2, Zenon
  <2>2. ASSUME NEW i, NEW q, NEW w, NEW st, BeginUpdate(p, i, q, w, st)
        PROVE  Begun
    <3>1. \E todo : Begin(p, "update", NoEvent, "", todo)
      BY <2>2, Zenon DEF BeginUpdate
    <3>2. "update" # "allocate"
      OBVIOUS
    <3>. QED
      BY <3>1, <3>2, Zenon
  <2>3. ASSUME NEW e \in Event, NEW requests, BeginAllocate(p, e, requests)
        PROVE  Begun
    BY <2>3, Zenon DEF BeginAllocate
  <2>4. ASSUME NEW e, NEW reason, BeginRelease(p, e, reason)
        PROVE  Begun
    BY <2>4 DEF BeginRelease
  <2>. HIDE DEF Begun
  <2>5. Begun
    BY <2>1, <2>2, <2>3, <2>4 DEF NewRequest, BeginConfirm
  <2>. QED
    BY <2>5 DEF Begun
<1>2. /\ \A q \in Proc \ {p} : txn'[q] = txn[q]
      /\ txn'[p].allocs = allocation /\ txn'[p].op = op /\ txn'[p].event = event
      /\ UNCHANGED <<tables, seen>> /\ ~Active(p)
  BY <1>1 DEF Begin, TypeInv, TypeOK
<1>. QED
  BY <1>1, <1>2, UnchangedKeeps

\* A commit ends its transaction and keeps the others.
LEMMA CommitKeeps ==
    ASSUME TypeInv, AllocInv, NEW p \in Proc, Commit(p)
    PROVE  /\ \A q \in Proc \ {p} : Keeps(q)
           /\ ~Active(p)' /\ TablesKeep
<1>1. ASSUME NEW q \in Proc \ {p} PROVE Keeps(q)
  <2>1. CASE ~Active(q)
    BY <2>1 DEF Commit, Publish, Keeps, Active, Idle
  <2>2. CASE Active(q)
    <3>1. txn[q] \in Txn
      BY <2>2, ActiveTxn DEF TypeInv
    <3>2. txn'[q] = [txn[q] EXCEPT !.stale = @ \cup txn[p].wrote,
                                   !.rivals = @ \cup txn[p].claims]
      BY <2>2 DEF Commit, Publish
    <3>3. /\ txn'[q].op = txn[q].op /\ txn'[q].event = txn[q].event
          /\ txn'[q].reason = txn[q].reason /\ txn'[q].allocs = txn[q].allocs
      BY <3>1, <3>2 DEF Txn
    <3>. QED
      BY <3>3 DEF Keeps, Active
  <2>. QED
    BY <2>1, <2>2
<1>2. ~Active(p)'
  BY DEF Commit, Publish, Active, Idle
<1>3. TablesKeep
  BY CommitRows DEF TablesKeep
<1>. QED
  BY <1>1, <1>2, <1>3

\* A rollback ends its transaction and keeps the others.
LEMMA AbortKeeps ==
    ASSUME TypeInv, NEW p \in Proc, Abort(p)
    PROVE  /\ \A q \in Proc \ {p} : Keeps(q)
           /\ ~Active(p)' /\ UNCHANGED <<tables, seen>>
<1>1. /\ \A q \in Proc \ {p} : txn'[q] = txn[q]
      /\ txn'[p] = Idle /\ UNCHANGED <<tables, seen>>
  BY DEF Abort, TypeInv, TypeOK
<1>. QED
  BY <1>1, UnchangedKeeps DEF Active, Idle

\* A plain update keeps all.
LEMMA PlainUpdateKeeps ==
    ASSUME TypeInv, PlainUpdate
    PROVE  allocation' = allocation /\ \A q \in Proc : Keeps(q)
<1>1. ASSUME NEW i \in Slot, NEW target,
             transitionReservationWithoutCapacityCheck(i, target), NEW q \in Proc
      PROVE  Keeps(q)
  <2>1. CASE ~Active(q)
    BY <1>1, <2>1 DEF transitionReservationWithoutCapacityCheck, Keeps, Active, Idle
  <2>2. CASE Active(q)
    <3>1. txn[q] \in Txn
      BY <2>2, ActiveTxn DEF TypeInv
    <3>2. txn'[q] = [txn[q] EXCEPT !.stale = @ \cup {i}]
      BY <1>1, <2>2 DEF transitionReservationWithoutCapacityCheck
    <3>3. /\ txn'[q].op = txn[q].op /\ txn'[q].event = txn[q].event
          /\ txn'[q].reason = txn[q].reason /\ txn'[q].allocs = txn[q].allocs
      BY <3>1, <3>2 DEF Txn
    <3>. QED
      BY <3>3 DEF Keeps, Active
  <2>. QED
    BY <2>1, <2>2
<1>2. allocation' = allocation
  BY DEF PlainUpdate, transitionReservationWithoutCapacityCheck, updateResource,
         archiveResource, restoreResource
<1>3. CASE txn' = txn
  BY <1>2, <1>3, UnchangedKeeps
<1>. QED
  BY <1>1, <1>2, <1>3 DEF PlainUpdate, updateResource, archiveResource, restoreResource

\* A delete keeps the transactions of the others.
LEMMA DeleteKeeps ==
    ASSUME TypeInv, NEW p \in Proc, RemoveDelete(p)
    PROVE  /\ \A q \in Proc \ {p} : Keeps(q)
           /\ ~Active(p)' /\ TablesKeep
<1>1. txn' = Publish(p, CascadeToAllocations(handler[p].event), {})
  BY DeleteAllocs
<1>2. ASSUME NEW q \in Proc \ {p} PROVE Keeps(q)
  <2>1. CASE ~Active(q)
    BY <1>1, <2>1 DEF Publish, Keeps, Active, Idle
  <2>2. CASE Active(q)
    <3>1. Active(q)'
      <4>1. txn[q] \in Txn
        BY <2>2, ActiveTxn DEF TypeInv
      <4>2. txn'[q].op = txn[q].op
        BY <1>1, <2>2, <4>1 DEF Publish, Txn
      <4>. QED
        BY <2>2, <4>2 DEF Active
    <3>. QED
      BY <2>2, <3>1, DeletePublished DEF Keeps
  <2>. QED
    BY <2>1, <2>2
<1>3. ~Active(p)'
  BY <1>1 DEF Publish, Active, Idle
<1>4. TablesKeep
  BY DeleteAllocs DEF TablesKeep
<1>. QED
  BY <1>2, <1>3, <1>4

-----------------------------------------------------------------------------
(***************************************************************************)
(* Every step keeps the invariant                                          *)
(***************************************************************************)

\* The invariants of the engine are kept by its steps and by a delete.
LEMMA AccountedEvent ==
    ASSUME AccountedInv, [Next]_vars \/ \E p \in Proc : RemoveDelete(p)
    PROVE  AccountedInv'
BY TypeNext, AllocNext, DeleteType, DeleteAlloc DEF AccountedInv

\* What is kept of transactions and tables keeps allocations those of an event.
LEMMA NamedKept ==
    ASSUME NamedInv, NEW q \in Proc, Keeps(q), Active(q)'
    PROVE  Named(txn[q])'
<1>1. Active(q) /\ Named(txn[q])
  BY DEF Keeps, NamedInv
<1>2. /\ txn'[q].op = "allocate" => txn'[q].event \in Event
      /\ \A a \in AllocId : txn'[q].allocs[a].status # "Free" =>
                             txn'[q].allocs[a].event \in Event
  BY <1>1 DEF Named, Keeps
<1>. QED
  BY <1>2 DEF Named

\* Allocations are always those of an event.
LEMMA NamedStep ==
    ASSUME AccountedInv, NamedInv, [Next]_vars \/ \E p \in Proc : RemoveDelete(p)
    PROVE  NamedInv'
<1>. USE DEF AccountedInv
<1>1. ASSUME \A a \in AllocId : allocation'[a].status # "Free" => allocation'[a].event \in Event,
             \A q \in Proc : Keeps(q) \/ ~Active(q)'
      PROVE  NamedInv'
  BY <1>1, NamedKept DEF NamedInv
<1>2. CASE UNCHANGED vars
  <2>1. \A q \in Proc : Keeps(q)
    BY <1>2, UnchangedKeeps DEF vars
  <2>. QED
    BY <1>1, <1>2, <2>1 DEF vars, NamedInv
<1>3. CASE PlainUpdate
  BY <1>1, <1>3, PlainUpdateKeeps DEF NamedInv
<1>4. ASSUME NEW p \in Proc, NewRequest(p) PROVE NamedInv'
  <2>1. /\ \A q \in Proc \ {p} : Keeps(q)
        /\ allocation' = allocation
        /\ txn'[p].allocs = allocation
        /\ txn'[p].op = "allocate" => txn'[p].event \in Event
    BY <1>4, RequestKeeps DEF tables
  <2>2. Named(txn[p])'
    BY <2>1 DEF Named, NamedInv
  <2>3. ASSUME NEW q \in Proc, Active(q)' PROVE Named(txn[q])'
    BY <2>1, <2>2, <2>3, NamedKept
  <2>. QED
    BY <2>1, <2>3 DEF NamedInv
<1>5. ASSUME NEW p \in Proc, Statement(p) PROVE NamedInv'
  <2>1. allocation' = allocation /\ \A q \in Proc : Keeps(q)
    BY <1>5, StatementOwn, StatementKeeps DEF tables
  <2>. QED
    BY <1>1, <2>1 DEF NamedInv
<1>6. ASSUME NEW p \in Proc, Commit(p) PROVE NamedInv'
  <2>1. ASSUME NEW a \in AllocId, allocation'[a].status # "Free"
        PROVE  allocation'[a].event \in Event
    <3>1. Active(p)
      BY <1>6 DEF Commit, Active
    <3>2. allocation'[a] = allocation[a] \/ allocation'[a] = txn[p].allocs[a]
      BY <1>6 DEF Commit
    <3>. QED
      BY <2>1, <3>1, <3>2 DEF NamedInv, Named
  <2>. QED
    BY <1>1, <1>6, <2>1, CommitKeeps
<1>7. ASSUME NEW p \in Proc, Abort(p) PROVE NamedInv'
  <2>1. allocation' = allocation /\ \A q \in Proc : Keeps(q) \/ ~Active(q)'
    BY <1>7, AbortKeeps DEF tables
  <2>. QED
    BY <1>1, <2>1 DEF NamedInv
<1>8. ASSUME NEW p \in Proc, RemoveDelete(p) PROVE NamedInv'
  <2>1. ASSUME NEW a \in AllocId, allocation'[a].status # "Free"
        PROVE  allocation'[a].event \in Event
    <3>1. allocation[a].status # "Free" /\ allocation'[a].event = allocation[a].event
      BY <1>8, <2>1, DeleteAllocs
    <3>. QED
      BY <3>1 DEF NamedInv
  <2>. QED
    BY <1>1, <1>8, <2>1, DeleteKeeps
<1>. QED
  BY <1>2, <1>3, <1>4, <1>5, <1>6, <1>7, <1>8 DEF Next, Step, Statement

\* A handler that is not the one to step keeps what it relies on.
LEMMA HandlerKept ==
    ASSUME NEW q \in Proc, Keeps(q), TablesKeep, Releasing(q), Owing(q),
           EventTypeOK, handler'[q] = handler[q], owed \subseteq owed'
    PROVE  Releasing(q)' /\ Owing(q)'
<1>1. \A stage : At(q, stage)' <=> At(q, stage)
  BY DEF At
<1>2. handler[q] # NoHandler => handler[q].owed \subseteq AllocId
  BY DEF EventTypeOK, Handler
<1>3. Releasing(q)'
  <2>1. CASE At(q, "releasing")
    <3>1. handler[q].owed \subseteq AllocId
      BY <1>2, <2>1 DEF At
    <3>. QED
      BY <1>1, <2>1, <3>1 DEF Releasing, Keeps
  <2>2. CASE ~At(q, "releasing")
    BY <1>1, <2>2 DEF Releasing, Keeps
  <2>. QED
    BY <2>1, <2>2
<1>4. Owing(q)'
  <2>1. CASE At(q, "release") \/ At(q, "releasing")
    <3>1. handler[q].owed \subseteq AllocId
      BY <1>2, <2>1 DEF At
    <3>. QED
      BY <1>1, <2>1, <3>1 DEF Owing, TablesKeep
  <2>2. CASE ~(At(q, "release") \/ At(q, "releasing"))
    BY <1>1, <2>2 DEF Owing
  <2>. QED
    BY <2>1, <2>2
<1>. QED
  BY <1>3, <1>4

\* A handler is not NoHandler.
LEMMA HandlerIsOne == NoHandler \notin Handler
BY DEF NoHandler, Handler

\* A process that has no handler any more relies on nothing.
LEMMA HandlerGone ==
    ASSUME NEW p, handler'[p] = NoHandler
    PROVE  Releasing(p)' /\ Owing(p)'
BY DEF Releasing, Owing, At

\* What is settled stays settled.
LEMMA SettledStays ==
    ASSUME AccountedInv, [Next]_vars \/ \E p \in Proc : RemoveDelete(p),
           NEW a \in AllocId, Settled(allocation[a])
    PROVE  Settled(allocation'[a])
<1>1. CASE [Next]_vars
  BY <1>1, EngineChangesAlloc DEF AccountedInv
<1>2. ASSUME NEW p \in Proc, RemoveDelete(p) PROVE Settled(allocation'[a])
  BY <1>2, DeleteAllocs DEF AccountedInv, Settled
<1>. QED
  BY <1>1, <1>2

\* What is left to show of a step that reports no allocation as released.
LEMMA EventStep ==
    ASSUME EventInv, [Next]_vars \/ \E p \in Proc : RemoveDelete(p),
           eventStatus' \in [Event -> EventStatus \cup {"Deleted"}],
           handler' \in [Proc -> Handler \cup {NoHandler}],
           owed \subseteq owed', owed' \subseteq AllocId, vouched' \subseteq owed',
           \A a \in vouched' : a \in vouched \/ Settled(allocation'[a]),
           \A q \in Proc : Releasing(q)' /\ Owing(q)',
           AllocationsHaveEvent'
    PROVE  EventInv'
<1>1. AccountedInv' /\ NamedInv'
  BY AccountedEvent, NamedStep DEF EventInv
<1>2. EventTypeOK'
  BY <1>1 DEF EventTypeOK, AccountedInv, TypeInv
<1>3. VouchedSettled'
  BY SettledStays DEF EventInv, VouchedSettled, EventTypeOK
<1>. QED
  BY <1>1, <1>2, <1>3 DEF EventInv, HandlersInv

\* The steps of the engine and the plain updates change no handler.
LEMMA EngineEvent ==
    ASSUME EventInv, [Next]_vars, UNCHANGED eventVars,
           \A q \in Proc : Keeps(q) \/ handler[q] = NoHandler,
           TablesKeep, AllocationsHaveEvent'
    PROVE  EventInv'
<1>1. /\ eventStatus' = eventStatus /\ handler' = handler
      /\ owed' = owed /\ vouched' = vouched
  BY DEF eventVars
<1>2. \A q \in Proc : Releasing(q)' /\ Owing(q)'
  BY <1>1, HandlerKept, HandlerGone DEF EventInv, HandlersInv
<1>. QED
  BY <1>1, <1>2, EventStep DEF EventInv, EventTypeOK

\* No allocation changes: each still has its event.
LEMMA SameHaveEvent ==
    ASSUME AllocationsHaveEvent, allocation' = allocation, eventStatus' = eventStatus
    PROVE  AllocationsHaveEvent'
BY DEF AllocationsHaveEvent

\* Plain updates, requests to the engine and the steps of their transactions.
LEMMA EngineStepEvent ==
    ASSUME EventInv, NEW p \in Proc, EngineRequest(p) \/ EngineStep(p)
    PROVE  EventInv'
<1>1. TypeInv /\ AllocInv /\ AllocationsHaveEvent
  BY DEF EventInv, AccountedInv
<1>2. CASE EngineRequest(p)
  <2>1. /\ handler[p] = NoHandler /\ NewRequest(p) /\ UNCHANGED eventVars
        /\ [Next]_vars
    BY <1>2 DEF EngineRequest, Next
  <2>2. \A q \in Proc \ {p} : Keeps(q)
    BY <1>1, <2>1, RequestKeeps
  <2>3. allocation' = allocation
    BY <1>1, <2>1, RequestKeeps DEF tables
  <2>4. TablesKeep /\ AllocationsHaveEvent'
    BY <1>1, <2>1, <2>3, SameHaveEvent DEF TablesKeep, eventVars
  <2>. QED
    BY <2>1, <2>2, <2>4, EngineEvent
<1>3. CASE EngineStep(p)
  <2>1. UNCHANGED eventVars /\ [Next]_vars
    BY <1>3 DEF EngineStep, Next, Step
  <2>2. CASE Statement(p)
    <3>1. allocation' = allocation
      BY <1>1, <2>2, StatementOwn DEF tables
    <3>2. AllocationsHaveEvent'
      BY <1>1, <2>1, <3>1, SameHaveEvent DEF eventVars
    <3>. QED
      BY <1>1, <2>1, <2>2, <3>2, StatementKeeps, EngineEvent
  <2>3. CASE /\ handler[p] = NoHandler
             /\ \A a \in AllocId \cap txn[p].wrote :
                   eventStatus[txn[p].allocs[a].event] # "Deleted"
             /\ Commit(p)
    <3>1. AllocationsHaveEvent'
      <4>1. ASSUME NEW a \in AllocId,
                   allocation'[a].status \in {"Reserved", "Returned", "Cancelled"}
            PROVE  eventStatus[allocation'[a].event] # "Deleted"
        <5>1. CASE a \in txn[p].wrote
          BY <1>1, <2>3, <5>1, CommitRows
        <5>2. CASE a \notin txn[p].wrote
          <6>1. allocation'[a] = allocation[a]
            BY <1>1, <2>3, <5>2, CommitRows
          <6>. QED
            BY <1>1, <4>1, <6>1 DEF AllocationsHaveEvent
        <5>. QED
          BY <5>1, <5>2
      <4>. QED
        BY <2>1, <4>1 DEF AllocationsHaveEvent, eventVars
    <3>2. TablesKeep /\ \A q \in Proc \ {p} : Keeps(q)
      BY <1>1, <2>3, CommitKeeps
    <3>. QED
      BY <2>1, <2>3, <3>1, <3>2, EngineEvent
  <2>4. CASE handler[p] = NoHandler /\ Abort(p)
    <3>1. allocation' = allocation /\ \A q \in Proc \ {p} : Keeps(q)
      BY <1>1, <2>4, AbortKeeps DEF tables
    <3>2. AllocationsHaveEvent' /\ TablesKeep
      BY <1>1, <2>1, <3>1, SameHaveEvent DEF eventVars, TablesKeep
    <3>. QED
      BY <2>1, <2>4, <3>1, <3>2, EngineEvent
  <2>. QED
    BY <1>3, <2>2, <2>3, <2>4 DEF EngineStep, Statement
<1>. QED
  BY <1>2, <1>3

\* A plain update changes no allocation and no handler.
LEMMA PlainUpdateEvent ==
    ASSUME EventInv, PlainUpdate, UNCHANGED eventVars
    PROVE  EventInv'
<1>1. TypeInv /\ AllocationsHaveEvent
  BY DEF EventInv, AccountedInv
<1>2. allocation' = allocation /\ \A q \in Proc : Keeps(q)
  BY <1>1, PlainUpdateKeeps
<1>3. AllocationsHaveEvent' /\ TablesKeep
  BY <1>1, <1>2, SameHaveEvent DEF eventVars, TablesKeep
<1>. QED
  BY <1>2, <1>3, EngineEvent DEF Next

\* What is left to show of a step of the handler of p.
LEMMA HandlerStep ==
    ASSUME EventInv, [Next]_vars \/ \E p \in Proc : RemoveDelete(p),
           NEW p \in Proc, NEW h \in Handler \cup {NoHandler},
           handler' = [handler EXCEPT ![p] = h],
           \A q \in Proc \ {p} : Keeps(q), TablesKeep,
           Releasing(p)' /\ Owing(p)',
           eventStatus' \in [Event -> EventStatus \cup {"Deleted"}],
           owed \subseteq owed', owed' \subseteq AllocId, vouched' \subseteq owed',
           \A a \in vouched' : a \in vouched \/ Settled(allocation'[a]),
           AllocationsHaveEvent'
    PROVE  EventInv'
<1>1. handler' \in [Proc -> Handler \cup {NoHandler}]
  BY DEF EventInv, EventTypeOK
<1>2. ASSUME NEW q \in Proc \ {p} PROVE Releasing(q)' /\ Owing(q)'
  BY HandlerKept DEF EventInv, HandlersInv, EventTypeOK
<1>. QED
  BY <1>1, <1>2, EventStep

\* The handler of p goes on, or ends, and nothing else changes.
LEMMA HandlerOnly ==
    ASSUME EventInv, NEW p \in Proc, NEW h \in Handler \cup {NoHandler},
           handler' = [handler EXCEPT ![p] = h],
           UNCHANGED <<vars, eventStatus, owed, vouched>>,
           Releasing(p)' /\ Owing(p)'
    PROVE  EventInv'
<1>1. allocation' = allocation /\ txn' = txn
  BY DEF vars
<1>2. TablesKeep /\ \A q \in Proc : Keeps(q)
  BY <1>1, UnchangedKeeps DEF TablesKeep
<1>3. AllocationsHaveEvent'
  BY <1>1, SameHaveEvent DEF EventInv
<1>4. /\ eventStatus' \in [Event -> EventStatus \cup {"Deleted"}]
      /\ owed' \subseteq AllocId /\ vouched' \subseteq owed'
  BY DEF EventInv, EventTypeOK
<1>. QED
  BY <1>2, <1>3, <1>4, HandlerStep

\* A handler reads its event before it writes or releases anything.
LEMMA ReadEvent ==
    ASSUME EventInv, NEW p \in Proc, NEW e \in Event, NEW next \in EventStatus,
           UpdateRead(p, e, next) \/ RemoveRead(p, e)
    PROVE  EventInv'
<1>1. PICK h : /\ handler' = [handler EXCEPT ![p] = h]
               /\ \/ h = [kind |-> "update", stage |-> "write", event |-> e,
                          previous |-> eventStatus[e], next |-> next, owed |-> {}]
                  \/ h = [kind |-> "remove", stage |-> "release", event |-> e,
                          previous |-> eventStatus[e], next |-> "Cancelled", owed |-> {}]
  BY DEF UpdateRead, RemoveRead
<1>2. eventStatus[e] \in EventStatus /\ next \in EventStatus /\ ~Active(p)
  BY NextStatusAssumption DEF UpdateRead, RemoveRead, EventInv, EventTypeOK
<1>3. /\ h \in Handler /\ h.owed = {} /\ h.stage # "releasing"
      /\ h.stage = "release" => h.next \in TerminalStatus
  BY <1>1, <1>2 DEF Handler, EventStatus, TerminalStatus
<1>4. handler'[p] = h /\ h # NoHandler
  BY <1>1, <1>3, HandlerIsOne DEF EventInv, EventTypeOK
<1>5. UNCHANGED <<vars, eventStatus, owed, vouched>> /\ ~Active(p)'
  BY <1>2 DEF UpdateRead, RemoveRead, vars, Active
<1>6. Releasing(p)' /\ Owing(p)'
  BY <1>3, <1>4, <1>5 DEF Releasing, Owing, At
<1>. QED
  BY <1>1, <1>3, <1>5, <1>6, HandlerOnly

\* A handler that fails between two database calls.
LEMMA FailsEvent ==
    ASSUME EventInv, NEW p \in Proc, HandlerFails(p)
    PROVE  EventInv'
<1>1. handler'[p] = NoHandler
  BY DEF HandlerFails, EventInv, EventTypeOK
<1>2. Releasing(p)' /\ Owing(p)'
  BY <1>1, HandlerGone
<1>. QED
  BY <1>2, HandlerOnly DEF HandlerFails

\* The update of the row owes the allocations the event then holds.
LEMMA WriteEvent ==
    ASSUME EventInv, NEW p \in Proc, UpdateWrite(p)
    PROVE  EventInv'
<1>. DEFINE h == handler[p]
            releases == isLifecycleTerminalTransition(h.previous, h.next)
            due == IF releases THEN ReservedFor(h.event) ELSE {}
            g == IF releases THEN [h EXCEPT !.stage = "release", !.owed = due]
                             ELSE NoHandler
<1>1. /\ h # NoHandler /\ h.stage = "write" /\ eventStatus[h.event] # "Deleted"
      /\ eventStatus' = [eventStatus EXCEPT ![h.event] = h.next]
      /\ owed' = owed \cup due /\ vouched' = vouched
      /\ handler' = [handler EXCEPT ![p] = g]
      /\ UNCHANGED vars
  BY DEF UpdateWrite, At
<1>2. h \in Handler
  BY <1>1 DEF EventInv, EventTypeOK
<1>3. /\ due \subseteq AllocId
      /\ \A a \in due : allocation[a].status = "Reserved" /\ allocation[a].event = h.event
  BY DEF ReservedFor
<1>4. releases => h.next \in TerminalStatus
  BY DEF isLifecycleTerminalTransition
<1>. HIDE DEF due, releases
<1>5. g \in Handler \cup {NoHandler}
  BY <1>2, <1>3 DEF Handler
<1>6. /\ handler'[p] = g
      /\ releases => /\ g.stage = "release" /\ g.owed = due
                     /\ g.next = h.next /\ g.event = h.event
      /\ ~releases => g = NoHandler
  BY <1>1, <1>2 DEF EventInv, EventTypeOK, Handler
<1>7. ~Active(p) /\ allocation' = allocation /\ txn' = txn
  BY <1>1 DEF EventInv, HandlersInv, Releasing, At, vars
<1>. HIDE DEF g
<1>8. Releasing(p)' /\ Owing(p)'
  <2>1. CASE releases
    <3>1. handler'[p].stage = "release" /\ ~Active(p)'
      BY <1>6, <1>7, <2>1 DEF Active
    <3>2. Releasing(p)'
      BY <3>1 DEF Releasing, At
    <3>3. Owing(p)'
      BY <1>1, <1>3, <1>4, <1>6, <1>7, <2>1 DEF Owing
    <3>. QED
      BY <3>2, <3>3
  <2>2. CASE ~releases
    BY <1>6, <2>2, HandlerGone
  <2>. QED
    BY <2>1, <2>2
<1>9. eventStatus' \in [Event -> EventStatus \cup {"Deleted"}]
  BY <1>1, <1>2 DEF EventInv, EventTypeOK, Handler
<1>10. AllocationsHaveEvent'
  <2>1. \A e \in Event : eventStatus[e] # "Deleted" => eventStatus'[e] # "Deleted"
    BY <1>1, <1>2 DEF EventInv, EventTypeOK, Handler, EventStatus
  <2>2. ASSUME NEW a \in AllocId,
               allocation[a].status \in {"Reserved", "Returned", "Cancelled"}
        PROVE  eventStatus'[allocation[a].event] # "Deleted"
    <3>1. allocation[a].event \in Event
      BY <2>2 DEF EventInv, NamedInv
    <3>. QED
      BY <2>1, <2>2, <3>1 DEF EventInv, AllocationsHaveEvent
  <2>. QED
    BY <1>7, <2>2 DEF AllocationsHaveEvent
<1>11. TablesKeep /\ \A q \in Proc : Keeps(q)
  BY <1>7, UnchangedKeeps DEF TablesKeep
<1>12. owed \subseteq owed' /\ owed' \subseteq AllocId /\ vouched' \subseteq owed'
  BY <1>1, <1>3 DEF EventInv, EventTypeOK
<1>. QED
  BY <1>1, <1>5, <1>8, <1>9, <1>10, <1>11, <1>12, HandlerStep

\* The call of releaseEventAllocations is a request to the engine.
LEMMA CallReleaseRequests ==
    ASSUME EventInv, NEW p \in Proc, CallRelease(p)
    PROVE  NewRequest(p)
<1>1. handler[p] \in Handler
  BY DEF CallRelease, At, EventInv, EventTypeOK
<1>2. handler[p].next \in TerminalStatus
  BY DEF CallRelease, EventInv, HandlersInv, Owing
<1>3. handler[p].event \in Event
  BY <1>1 DEF Handler
<1>. QED
  BY <1>2, <1>3 DEF CallRelease, NewRequest, TerminalStatus

\* It sees every allocation the handler owes.
LEMMA CallReleaseEvent ==
    ASSUME EventInv, NEW p \in Proc, CallRelease(p)
    PROVE  EventInv'
<1>. DEFINE h == handler[p]
            g == [h EXCEPT !.stage = "releasing"]
<1>1. NewRequest(p) /\ [Next]_vars
  BY CallReleaseRequests DEF Next
<1>2. /\ h \in Handler /\ h # NoHandler /\ At(p, "release")
      /\ handler' = [handler EXCEPT ![p] = g]
      /\ eventStatus' = eventStatus /\ owed' = owed /\ vouched' = vouched
      /\ Begin(p, "release", h.event, h.next, << >>)
  BY DEF CallRelease, At, EventInv, EventTypeOK, BeginRelease
<1>3. TypeInv /\ AllocationsHaveEvent
  BY DEF EventInv, AccountedInv
<1>4. /\ g \in Handler /\ g.stage = "releasing" /\ g.event = h.event
      /\ g.next = h.next /\ g.owed = h.owed
  BY <1>2 DEF Handler
<1>5. handler'[p] = g /\ g # NoHandler
  BY <1>2, <1>4, HandlerIsOne DEF EventInv, EventTypeOK
<1>. HIDE DEF g
<1>6. /\ txn'[p].op = "release" /\ txn'[p].event = h.event /\ txn'[p].reason = h.next
      /\ txn'[p].allocs = allocation
  BY <1>2, <1>3 DEF Begin, TypeInv, TypeOK
<1>7. allocation' = allocation /\ \A q \in Proc \ {p} : Keeps(q)
  BY <1>1, <1>3, RequestKeeps DEF tables
<1>8. AllocationsHaveEvent' /\ TablesKeep
  BY <1>2, <1>3, <1>7, SameHaveEvent DEF TablesKeep
<1>9. /\ h.next \in TerminalStatus /\ h.owed \subseteq owed
      /\ \A a \in h.owed : allocation[a].status # "Free" /\ allocation[a].event = h.event
  BY <1>2 DEF EventInv, HandlersInv, Owing
<1>. HIDE DEF h
<1>10. Releasing(p)'
  BY <1>4, <1>5, <1>6, <1>9 DEF Releasing, At, Active, TerminalStatus
<1>11. Owing(p)'
  BY <1>2, <1>4, <1>5, <1>7, <1>9 DEF Owing
<1>12. /\ eventStatus' \in [Event -> EventStatus \cup {"Deleted"}]
       /\ owed \subseteq owed' /\ owed' \subseteq AllocId /\ vouched' \subseteq owed'
  BY <1>2 DEF EventInv, EventTypeOK
<1>. QED
  BY <1>1, <1>2, <1>4, <1>7, <1>8, <1>10, <1>11, <1>12, HandlerStep

\* When its transaction commits, all it owes is settled, also what it did not
\* write: no other transaction takes a settlement back.
LEMMA OwedSettled ==
    ASSUME EventInv, NEW p \in Proc, At(p, "releasing"), Commit(p),
           NEW a \in handler[p].owed
    PROVE  Settled(allocation'[a])
<1>1. TypeInv /\ AllocInv /\ Orderly(txn[p]) /\ Active(p)
  BY DEF EventInv, AccountedInv, AllocInv, Commit, Active
<1>2. a \in AllocId
  BY DEF At, EventInv, EventTypeOK, Handler
<1>3. /\ txn[p].reason # "" /\ txn[p].allocs[a].status # "Free"
      /\ txn[p].allocs[a].event = txn[p].event
  BY DEF EventInv, HandlersInv, Releasing
<1>4. txn[p].allocs[a].status # "Reserved"
  BY <1>1, <1>2, <1>3 DEF Commit, Orderly, ReleaseWhole
<1>5. Settled(txn[p].allocs[a])
  BY <1>3, <1>4 DEF Settled
<1>6. CASE a \in txn[p].wrote
  BY <1>1, <1>2, <1>5, <1>6, CommitRows
<1>7. CASE a \notin txn[p].wrote
  <2>1. Settled(allocation[a])
    BY <1>1, <1>2, <1>5, <1>7 DEF Orderly, AllocsFresh
  <2>2. allocation'[a] = allocation[a]
    BY <1>1, <1>2, <1>7, CommitRows
  <2>. QED
    BY <2>1, <2>2
<1>. QED
  BY <1>6, <1>7

\* A release inserts no allocation, so it needs no event to be there.
LEMMA ReleaseHasEvent ==
    ASSUME EventInv, NEW p \in Proc, At(p, "releasing"), Commit(p),
           eventStatus' = eventStatus
    PROVE  AllocationsHaveEvent'
<1>1. TypeInv /\ AllocInv /\ Orderly(txn[p]) /\ AllocationsHaveEvent
  BY DEF EventInv, AccountedInv, AllocInv, Commit, Active
<1>2. txn[p].reason # ""
  BY DEF EventInv, HandlersInv, Releasing
<1>3. ASSUME NEW a \in AllocId,
             allocation'[a].status \in {"Reserved", "Returned", "Cancelled"}
      PROVE  eventStatus[allocation'[a].event] # "Deleted"
  <2>1. CASE a \in txn[p].wrote
    <3>1. allocation[a].status # "Free"
      BY <1>1, <1>2, <2>1 DEF Orderly, ReleaseWhole
    <3>2. allocation[a].status = "Reserved"
      BY <1>1, <2>1, <3>1, CommitRows DEF Settled
    <3>3. allocation'[a].event = allocation[a].event
      BY <1>1, <3>1, CommitRows
    <3>. QED
      BY <1>1, <3>2, <3>3 DEF AllocationsHaveEvent
  <2>2. CASE a \notin txn[p].wrote
    <3>1. allocation'[a] = allocation[a]
      BY <1>1, <2>2, CommitRows
    <3>. QED
      BY <1>1, <1>3, <3>1 DEF AllocationsHaveEvent
  <2>. QED
    BY <2>1, <2>2
<1>. QED
  BY <1>3 DEF AllocationsHaveEvent

LEMMA ReleaseCommittedEvent ==
    ASSUME EventInv, NEW p \in Proc, ReleaseCommitted(p)
    PROVE  EventInv'
<1>. DEFINE h == handler[p]
            g == IF h.kind = "update" THEN NoHandler ELSE [h EXCEPT !.stage = "delete"]
<1>1. /\ At(p, "releasing") /\ Commit(p) /\ h \in Handler
      /\ handler' = [handler EXCEPT ![p] = g]
      /\ eventStatus' = eventStatus /\ owed' = owed
      /\ vouched' \in {vouched, vouched \cup h.owed}
  BY DEF ReleaseCommitted, At, EventInv, EventTypeOK
<1>2. TypeInv /\ AllocInv /\ [Next]_vars
  BY <1>1 DEF EventInv, AccountedInv, Next, Step
<1>3. /\ g \in Handler \cup {NoHandler}
      /\ g = NoHandler \/ g.stage = "delete"
  BY <1>1 DEF Handler
<1>4. handler'[p] = g
  BY <1>1 DEF EventInv, EventTypeOK
<1>5. /\ TablesKeep /\ ~Active(p)' /\ \A q \in Proc \ {p} : Keeps(q)
  BY <1>1, <1>2, CommitKeeps
<1>. HIDE DEF g
<1>6. Releasing(p)' /\ Owing(p)'
  BY <1>3, <1>4, <1>5 DEF Releasing, Owing, At
<1>7. AllocationsHaveEvent'
  BY <1>1, ReleaseHasEvent
<1>8. h.owed \subseteq owed
  BY <1>1 DEF EventInv, HandlersInv, Owing
<1>9. /\ eventStatus' \in [Event -> EventStatus \cup {"Deleted"}]
      /\ owed \subseteq owed' /\ owed' \subseteq AllocId /\ vouched' \subseteq owed'
  BY <1>1, <1>8 DEF EventInv, EventTypeOK
<1>10. \A a \in vouched' : a \in vouched \/ Settled(allocation'[a])
  BY <1>1, OwedSettled
<1>. QED
  BY <1>1, <1>2, <1>3, <1>5, <1>6, <1>7, <1>9, <1>10, HandlerStep

LEMMA ReleaseAbortedEvent ==
    ASSUME EventInv, NEW p \in Proc, ReleaseAborted(p)
    PROVE  EventInv'
<1>1. /\ Abort(p) /\ handler' = [handler EXCEPT ![p] = NoHandler]
      /\ eventStatus' = eventStatus /\ owed' = owed /\ vouched' = vouched
  BY DEF ReleaseAborted
<1>2. TypeInv /\ AllocInv /\ [Next]_vars /\ AllocationsHaveEvent
  BY <1>1 DEF EventInv, AccountedInv, Next, Step
<1>3. allocation' = allocation /\ \A q \in Proc \ {p} : Keeps(q)
  BY <1>1, <1>2, AbortKeeps DEF tables
<1>4. AllocationsHaveEvent' /\ TablesKeep
  BY <1>1, <1>2, <1>3, SameHaveEvent DEF TablesKeep
<1>5. handler'[p] = NoHandler
  BY <1>1 DEF EventInv, EventTypeOK
<1>6. Releasing(p)' /\ Owing(p)'
  BY <1>5, HandlerGone
<1>7. /\ eventStatus' \in [Event -> EventStatus \cup {"Deleted"}]
      /\ owed \subseteq owed' /\ owed' \subseteq AllocId /\ vouched' \subseteq owed'
  BY <1>1 DEF EventInv, EventTypeOK
<1>. QED
  BY <1>1, <1>2, <1>3, <1>4, <1>6, <1>7, HandlerStep

\* The cascade leaves no allocation to the event that is deleted.
LEMMA DeleteEvent ==
    ASSUME EventInv, NEW p \in Proc, RemoveDelete(p)
    PROVE  EventInv'
<1>. DEFINE e == handler[p].event
<1>1. TypeInv /\ AllocationsHaveEvent
  BY DEF EventInv, AccountedInv
<1>2. /\ eventStatus' = [eventStatus EXCEPT ![e] = "Deleted"]
      /\ handler' = [handler EXCEPT ![p] = NoHandler]
      /\ owed' = owed /\ vouched' = vouched /\ At(p, "delete")
  BY DEF RemoveDelete
<1>3. handler[p] \in Handler /\ e \in Event
  <2>1. handler[p] \in Handler
    BY <1>2 DEF At, EventInv, EventTypeOK
  <2>. QED
    BY <2>1 DEF Handler
<1>4. /\ \A q \in Proc \ {p} : Keeps(q)
      /\ TablesKeep
  BY <1>1, DeleteKeeps
<1>5. handler'[p] = NoHandler
  BY <1>2 DEF EventInv, EventTypeOK
<1>6. Releasing(p)' /\ Owing(p)'
  BY <1>5, HandlerGone
<1>7. /\ eventStatus' \in [Event -> EventStatus \cup {"Deleted"}]
      /\ owed \subseteq owed' /\ owed' \subseteq AllocId /\ vouched' \subseteq owed'
  BY <1>2, <1>3 DEF EventInv, EventTypeOK
<1>8. AllocationsHaveEvent'
  <2>1. ASSUME NEW a \in AllocId,
               allocation'[a].status \in {"Reserved", "Returned", "Cancelled"}
        PROVE  eventStatus'[allocation'[a].event] # "Deleted"
    <3>1. a \notin CascadeToAllocations(e)
      BY <1>1, <2>1, DeleteAllocs
    <3>2. allocation'[a] = allocation[a]
      BY <1>1, <3>1, DeleteAllocs
    <3>3. allocation[a].event \in Event /\ allocation[a].event # e
      BY <2>1, <3>1, <3>2 DEF CascadeToAllocations, EventInv, NamedInv
    <3>4. eventStatus'[allocation[a].event] = eventStatus[allocation[a].event]
      BY <1>2, <3>3 DEF EventInv, EventTypeOK
    <3>. QED
      BY <1>1, <2>1, <3>2, <3>4 DEF AllocationsHaveEvent
  <2>. QED
    BY <2>1 DEF AllocationsHaveEvent
<1>9. \A a \in vouched' : a \in vouched \/ Settled(allocation'[a])
  BY <1>2
<1>10. \E q \in Proc : RemoveDelete(q)
  OBVIOUS
<1>. HIDE DEF e
<1>. QED
  BY <1>2, <1>4, <1>6, <1>7, <1>8, <1>9, <1>10, HandlerStep

LEMMA EventInvInit == EventInit => EventInv
<1>1. SUFFICES ASSUME EventInit PROVE EventInv
  OBVIOUS
<1>2. AccountedInv
  BY <1>1, TypeInit, AllocInit DEF EventInit, AccountedInv
<1>3. /\ \A a \in AllocId : allocation[a].status = "Free"
      /\ \A p \in Proc : ~Active(p)
  BY <1>1 DEF EventInit, Init, Active, Idle, FreeAlloc
<1>4. /\ \A p \in Proc : handler[p] = NoHandler
      /\ owed = {} /\ vouched = {}
  BY <1>1 DEF EventInit
<1>5. EventTypeOK
  BY <1>1, <1>2 DEF EventInit, AccountedInv, TypeInv, EventTypeOK, EventStatus
<1>6. NamedInv /\ VouchedSettled /\ AllocationsHaveEvent
  BY <1>3, <1>4 DEF NamedInv, VouchedSettled, AllocationsHaveEvent
<1>7. HandlersInv
  BY <1>4 DEF HandlersInv, Releasing, Owing, At
<1>. QED
  BY <1>2, <1>5, <1>6, <1>7 DEF EventInv

\* Whatever happens is a step of the engine or a delete.
LEMMA EngineOrDelete ==
    EventInv /\ [EventNext]_allVars => [Next]_vars \/ \E p \in Proc : RemoveDelete(p)
<1>1. SUFFICES ASSUME EventInv, [EventNext]_allVars
               PROVE  [Next]_vars \/ \E p \in Proc : RemoveDelete(p)
  OBVIOUS
<1>2. CASE UNCHANGED allVars
  BY <1>2 DEF allVars
<1>3. CASE PlainUpdate
  BY <1>3 DEF Next
<1>4. ASSUME NEW p \in Proc, EngineRequest(p) \/ EngineStep(p) PROVE [Next]_vars
  BY <1>4 DEF EngineRequest, EngineStep, Next, Step
<1>5. ASSUME NEW p \in Proc, EventHandlerStep(p) PROVE [Next]_vars \/ RemoveDelete(p)
  <2>1. CASE CallRelease(p)
    BY <1>1, <2>1, CallReleaseRequests DEF Next
  <2>2. CASE ReleaseCommitted(p) \/ ReleaseAborted(p)
    BY <2>2 DEF ReleaseCommitted, ReleaseAborted, Next, Step
  <2>. QED
    BY <1>5, <2>1, <2>2 DEF EventHandlerStep, UpdateRead, RemoveRead, UpdateWrite,
                            HandlerFails
<1>. QED
  BY <1>1, <1>2, <1>3, <1>4, <1>5 DEF EventNext

LEMMA EventInvNext == EventInv /\ [EventNext]_allVars => EventInv'
<1>1. SUFFICES ASSUME EventInv, [EventNext]_allVars PROVE EventInv'
  OBVIOUS
<1>2. CASE UNCHANGED allVars
  <2>1. UNCHANGED vars /\ UNCHANGED eventVars
    BY <1>2 DEF allVars
  <2>2. allocation' = allocation /\ txn' = txn
    BY <2>1 DEF vars
  <2>3. TablesKeep /\ \A q \in Proc : Keeps(q)
    BY <2>2, UnchangedKeeps DEF TablesKeep
  <2>4. AllocationsHaveEvent'
    BY <1>1, <2>1, <2>2, SameHaveEvent DEF EventInv, eventVars
  <2>. QED
    BY <1>1, <2>1, <2>3, <2>4, EngineEvent
<1>3. CASE PlainUpdate /\ UNCHANGED eventVars
  BY <1>1, <1>3, PlainUpdateEvent
<1>4. ASSUME NEW p \in Proc, EngineRequest(p) \/ EngineStep(p) PROVE EventInv'
  BY <1>1, <1>4, EngineStepEvent
<1>5. ASSUME NEW p \in Proc, EventHandlerStep(p) PROVE EventInv'
  <2>1. ASSUME NEW e \in Event, NEW next \in NextStatus, UpdateRead(p, e, next)
        PROVE  EventInv'
    BY <1>1, <2>1, NextStatusAssumption, ReadEvent
  <2>2. ASSUME NEW e \in Event, RemoveRead(p, e) PROVE EventInv'
    <3>1. "Draft" \in EventStatus
      BY DEF EventStatus
    <3>. QED
      BY <1>1, <2>2, <3>1, ReadEvent
  <2>3. CASE UpdateWrite(p)
    BY <1>1, <2>3, WriteEvent
  <2>4. CASE CallRelease(p)
    BY <1>1, <2>4, CallReleaseEvent
  <2>5. CASE ReleaseCommitted(p)
    BY <1>1, <2>5, ReleaseCommittedEvent
  <2>6. CASE ReleaseAborted(p)
    BY <1>1, <2>6, ReleaseAbortedEvent
  <2>7. CASE RemoveDelete(p)
    BY <1>1, <2>7, DeleteEvent
  <2>8. CASE HandlerFails(p)
    BY <1>1, <2>8, FailsEvent
  <2>. QED
    BY <1>5, <2>1, <2>2, <2>3, <2>4, <2>5, <2>6, <2>7, <2>8 DEF EventHandlerStep
<1>. QED
  BY <1>1, <1>2, <1>3, <1>4, <1>5 DEF EventNext

LEMMA EventInvariant == EventSpec => []EventInv
<1>. QED
  BY EventInvInit, EventInvNext, PTL DEF EventSpec

-----------------------------------------------------------------------------
(***************************************************************************)
(* The properties                                                          *)
(***************************************************************************)

\* Events, handlers and the state of the engine are of their types, whatever
\* EventsService and the engine do at once.
THEOREM EventTypeCorrect == EventSpec => []EventTypeOK
<1>1. EventInv => EventTypeOK
  BY DEF EventInv
<1>. QED
  BY <1>1, EventInvariant, PTL

\* No allocation is left of an event that was deleted, also when one was being
\* inserted, or settled, while EventsService deleted the event.
THEOREM NoOrphanAllocations == EventSpec => []AllocationsHaveEvent
<1>1. EventInv => AllocationsHaveEvent
  BY DEF EventInv
<1>. QED
  BY <1>1, EventInvariant, PTL

\* When EventsService.update answers that an event is Completed or Cancelled, no
\* allocation it had when its status changed is, or will again be, Reserved.
THEOREM TransitionReleases == EventSpec => []SuccessfulTransitionReleases
<1>1. EventInv => SuccessfulTransitionReleases
  BY DEF EventInv, VouchedSettled, Settled, SuccessfulTransitionReleases
<1>. QED
  BY <1>1, EventInvariant, PTL

\* Neither an update nor a delete of an event makes a settled allocation change,
\* but for the delete that removes it.
THEOREM SettledOnceByHandlers == EventSpec => AllocationSettledOnce
<1>1. EventInv /\ [EventNext]_allVars =>
          \A a \in AllocId : allocation[a].status \in {"Returned", "Cancelled"} =>
              \/ allocation'[a] = allocation[a]
              \/ allocation'[a].status = "Deleted"
  <2>1. SUFFICES ASSUME EventInv, [EventNext]_allVars, NEW a \in AllocId,
                        allocation[a].status \in {"Returned", "Cancelled"}
                 PROVE  \/ allocation'[a] = allocation[a]
                        \/ allocation'[a].status = "Deleted"
    OBVIOUS
  <2>2. TypeInv /\ AllocInv /\ Settled(allocation[a])
    BY <2>1 DEF EventInv, AccountedInv, Settled
  <2>3. CASE [Next]_vars
    BY <2>2, <2>3, EngineChangesAlloc
  <2>4. ASSUME NEW p \in Proc, RemoveDelete(p)
        PROVE  allocation'[a] = allocation[a] \/ allocation'[a].status = "Deleted"
    BY <2>2, <2>4, DeleteAllocs
  <2>. QED
    BY <2>1, <2>3, <2>4, EngineOrDelete
<1>. QED
  BY <1>1, EventInvariant, PTL DEF EventSpec, AllocationSettledOnce

\* Deleting events leaves no allocation, and no outstanding, unaccounted for.
THEOREM EventsKeepAccounts == EventSpec => []AllocationsAccounted
<1>1. EventInv => AllocationsAccounted
  BY TablesAccount DEF EventInv, AccountedInv
<1>. QED
  BY <1>1, EventInvariant, PTL

\* The invariant behind admission holds with EventsService too.
LEMMA AdmissionInvariant == EventSpec => []IInv
<1>1. EventInit => IInv
  BY IInvInit DEF EventInit
<1>2. EventInv /\ IInv /\ [EventNext]_allVars => IInv'
  <2>1. SUFFICES ASSUME EventInv, IInv, [EventNext]_allVars PROVE IInv'
    OBVIOUS
  <2>2. CASE [Next]_vars
    BY <2>1, <2>2, IInvNext
  <2>3. ASSUME NEW p \in Proc, RemoveDelete(p) PROVE IInv'
    <3>1. TypeInv'
      BY <2>1, <2>3, DeleteType DEF IInv
    <3>. QED
      BY <2>1, <2>3, <3>1, DeleteIInv
  <2>. QED
    BY <2>1, <2>2, <2>3, EngineOrDelete
<1>. QED
  BY <1>1, <1>2, EventInvariant, PTL DEF EventSpec

\* Releasing the allocations of an event, and deleting it, frees capacity only:
\* together with EventsService the engine never reserves more than there is.
THEOREM EventsOverbookNothing == EventSpec => []NoOverbooking
<1>1. IInv => NoOverbooking
  BY DEF IInv
<1>. QED
  BY <1>1, AdmissionInvariant, PTL

\* A load rises only by a commit whose own snapshot admits it, also while events
\* are completed and deleted: neither handler of EventsService raises one.
THEOREM EventsAdmitWithinCapacity == EventSpec => AdmissionWithinCapacity
<1>1. EventInv /\ IInv /\ [EventNext]_allVars =>
          \A r \in Resource, t \in Instant :
              Metered(r) /\ Load(reservation', r, t) > Load(reservation, r, t) =>
                  \E p \in Proc :
                      /\ txn[p].op = "commit"
                      /\ ~txn[p].catalog[r].archived
                      /\ ~txn[p].catalog[r].unavailable
                      /\ Load(reservation', r, t) <= txn[p].catalog[r].total
  <2>1. SUFFICES ASSUME EventInv, IInv, [EventNext]_allVars,
                        NEW r \in Resource, NEW t \in Instant, Metered(r),
                        Load(reservation', r, t) > Load(reservation, r, t)
                 PROVE  \E p \in Proc :
                            /\ txn[p].op = "commit"
                            /\ ~txn[p].catalog[r].archived
                            /\ ~txn[p].catalog[r].unavailable
                            /\ Load(reservation', r, t) <= txn[p].catalog[r].total
    OBVIOUS
  <2>2. ASSUME NEW p \in Proc, RemoveDelete(p) PROVE FALSE
    <3>1. Load(reservation', r, t) = Load(reservation, r, t)
      BY <2>2 DEF RemoveDelete
    <3>2. Load(reservation, r, t) \in Nat
      BY LoadType
    <3>. QED
      BY <2>1, <3>1, <3>2
  <2>3. [Next]_vars
    BY <2>1, <2>2, EngineOrDelete
  <2>. QED
    BY <2>1, <2>3, RaisingAdmitted
<1>. QED
  BY <1>1, AdmissionInvariant, EventInvariant, PTL DEF EventSpec, AdmissionWithinCapacity

\* Settling an allocation frees its capacity in the same step when EventsService
\* asks for it, too; a delete settles none.
THEOREM EventsSettlingFrees == EventSpec => SettlingFreesCapacity
<1>1. EventInv /\ [EventNext]_allVars =>
          \A a \in AllocId :
              allocation[a].status = "Reserved" /\ allocation'[a].status \in {"Returned", "Cancelled"} =>
                  /\ ~allocation'[a].open
                  /\ allocation[a].slot # NoSlot =>
                         ~statusConsumesCapacity(reservation'[allocation[a].slot].status)
  <2>1. SUFFICES ASSUME EventInv, [EventNext]_allVars, NEW a \in AllocId,
                        allocation[a].status = "Reserved",
                        allocation'[a].status \in {"Returned", "Cancelled"}
                 PROVE  /\ ~allocation'[a].open
                        /\ allocation[a].slot # NoSlot =>
                              ~statusConsumesCapacity(reservation'[allocation[a].slot].status)
    OBVIOUS
  <2>2. TypeInv /\ AccountedInv
    BY <2>1 DEF EventInv, AccountedInv
  <2>3. ASSUME NEW p \in Proc, RemoveDelete(p) PROVE FALSE
    BY <2>1, <2>2, <2>3, DeleteAllocs
  <2>4. [Next]_vars
    BY <2>1, <2>3, EngineOrDelete
  <2>. QED
    BY <2>1, <2>2, <2>4, SettlingStep
<1>. QED
  BY <1>1, EventInvariant, PTL DEF EventSpec, SettlingFreesCapacity

-----------------------------------------------------------------------------
(***************************************************************************)
(* Deleting an event is one step of Booking                                *)
(***************************************************************************)

\* A delete leaves what the other transactions have prepared: they learn of every
\* allocation it marks.
LEMMA DeletePrepared ==
    ASSUME TypeInv, PreparedInv, NEW p \in Proc, RemoveDelete(p)
    PROVE  PreparedInv'
<1>1. ASSUME NEW q \in Proc, Active(q)'
      PROVE  Prepared(txn[q])'
  <2>1. Active(q) /\ Prepared(txn[q])
    BY <1>1, DeletePublished DEF PreparedInv
  <2>2. reservation' = reservation
    BY DeleteAllocs
  <2>3. \A a \in AllocId : allocation'[a] # allocation[a] => a \in txn'[q].stale
    BY <1>1, DeleteAllocs, DeletePublished
  <2>4. Informed(q)
    BY <1>1, <2>2, <2>3, DeletePublished DEF Informed
  <2>. QED
    BY <2>1, <2>4, InformedPrepared
<1>. QED
  BY <1>1 DEF PreparedInv

\* A delete takes the allocations of its event away, and nothing else.
LEMMA DeleteBooks ==
    ASSUME EventInv, NEW p \in Proc, RemoveDelete(p)
    PROVE  Atomic!BookingNext
<1>1. handler[p].event \in Event
  <2>1. handler[p] \in Handler \cup {NoHandler} /\ handler[p] # NoHandler
    BY DEF RemoveDelete, At, EventInv, EventTypeOK
  <2>. QED
    BY <2>1 DEF Handler
<1>2. /\ allocation' = [a \in AllocId |->
             IF a \in CascadeToAllocations(handler[p].event)
             THEN [allocation[a] EXCEPT !.status = "Deleted", !.open = FALSE]
             ELSE allocation[a]]
      /\ UNCHANGED <<seen, reservation>>
  BY DEF RemoveDelete
<1>3. Atomic!Delete(handler[p].event)
  BY <1>2 DEF Atomic!Delete, CascadeToAllocations
<1>. QED
  BY <1>1, <1>3 DEF Atomic!BookingNext

\* Together with EventsService the engine still is what Booking says: deleting an
\* event, in the middle of whatever else is in progress, is one more whole step.
THEOREM EventsBookAtomically == EventSpec => BooksAtomically
<1>1. EventInit => Atomic!BookingInit /\ PreparedInv
  BY BookingStarts DEF EventInit
<1>2. EventInv /\ PreparedInv /\ [EventNext]_allVars => PreparedInv'
  <2>1. SUFFICES ASSUME EventInv, PreparedInv, [EventNext]_allVars
                 PROVE  PreparedInv'
    OBVIOUS
  <2>2. TypeInv /\ AllocInv
    BY <2>1 DEF EventInv, AccountedInv
  <2>3. CASE [Next]_vars
    BY <2>1, <2>2, <2>3, PreparedNext
  <2>4. ASSUME NEW p \in Proc, RemoveDelete(p) PROVE PreparedInv'
    BY <2>1, <2>2, <2>4, DeletePrepared
  <2>. QED
    BY <2>1, <2>3, <2>4, EngineOrDelete
<1>3. EventInv /\ PreparedInv /\ NoOverbooking' /\ [EventNext]_allVars =>
          [Atomic!BookingNext]_(Atomic!bookingVars)
  <2>1. SUFFICES ASSUME EventInv, PreparedInv, NoOverbooking', [EventNext]_allVars
                 PROVE  [Atomic!BookingNext]_(Atomic!bookingVars)
    OBVIOUS
  <2>2. TypeInv /\ AllocInv
    BY <2>1 DEF EventInv, AccountedInv
  <2>3. CASE [Next]_vars
    BY <2>1, <2>2, <2>3, EngineBooks
  <2>4. ASSUME NEW p \in Proc, RemoveDelete(p) PROVE Atomic!BookingNext
    BY <2>1, <2>4, DeleteBooks
  <2>. QED
    BY <2>1, <2>3, <2>4, EngineOrDelete
<1>. QED
  BY <1>1, <1>2, <1>3, EventInvariant, EventsOverbookNothing, PTL
     DEF EventSpec, BooksAtomically, Atomic!BookingSpec

=============================================================================

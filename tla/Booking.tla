------------------------------ MODULE Booking ------------------------------
(***************************************************************************)
(* What the resource engine is for its clients: a table of reservations    *)
(* and one of allocations that change in whole steps.  A booking, all the  *)
(* requests of an event, all that a release settles take effect at once,   *)
(* on the rows as they are at that moment, and book no more of a resource  *)
(* than it has had.  There are no transactions, snapshots or locks.        *)
(***************************************************************************)
EXTENDS Naturals

CONSTANTS
    Resource, Event, Slot, AllocId, NoSlot,
    Instant,         \* the instants at which the use of a resource is looked at
    Load(_, _, _)    \* the units of a resource that rows use at an instant

VARIABLES
    seen,         \* [Resource -> the <<mode, total>> it has had]
    reservation,  \* [Slot -> row]: rows that do not exist are "FREE"
    allocation    \* [AllocId -> row]: rows that do not exist are "Free"

bookingVars == <<seen, reservation, allocation>>

BookingInit ==
    /\ \A r \in Resource : \E s \in seen[r] : seen[r] = {s}
    /\ \A i \in Slot : reservation[i].status = "FREE"
    /\ \A a \in AllocId : allocation[a].status = "Free"

\* A resource whose quantity has always been limited is used within a quantity
\* it has had.
Fits(rows) ==
    \A r \in Resource, t \in Instant :
        (\A s \in seen[r] : s[1] # "UNLIMITED") =>
            \E s \in seen[r] : Load(rows, r, t) <= s[2]

\* The table with some of its rows written.
Written(table, ids, rows) ==
    [i \in DOMAIN table |-> IF i \in ids THEN rows[i] ELSE table[i]]

\* A reservation is made, or changed; it stays one of its event and resource.
Book(i) ==
    /\ reservation' = Written(reservation, {i}, reservation')
    /\ reservation'[i].status # "FREE"
    /\ reservation[i].status # "FREE" =>
          /\ reservation'[i].event = reservation[i].event
          /\ reservation'[i].resource = reservation[i].resource
    /\ Fits(reservation')
    /\ UNCHANGED <<seen, allocation>>

\* A reservation is released or cancelled.
Free(i, status) ==
    /\ reservation[i].status # "FREE"
    /\ reservation' = [reservation EXCEPT ![i].status = status]
    /\ UNCHANGED <<seen, allocation>>

SlotsOf(allocs, ids) == {allocs[a].slot : a \in ids} \ {NoSlot}

\* All the requests of an event are met, each with an allocation: what is reserved
\* of it is one new reservation, and the rest is outstanding.
Allocate(e, ids) ==
    LET slots == SlotsOf(allocation', ids)
    IN  /\ \A a \in ids : allocation[a].status = "Free"
        /\ \A i \in slots : reservation[i].status = "FREE"
        /\ allocation' = Written(allocation, ids, allocation')
        /\ reservation' = Written(reservation, slots, reservation')
        /\ \A a \in ids : LET row == allocation'[a] IN
              /\ row.event = e /\ row.status = "Reserved" /\ row.returned = 0
              /\ row.requested = row.reserved + row.outstanding
              /\ row.open <=> row.outstanding > 0
              /\ (row.slot = NoSlot) <=> (row.reserved = 0)
              /\ row.slot # NoSlot =>
                    /\ row.slot \in Slot
                    /\ reservation'[row.slot].status = "RESERVED"
                    /\ reservation'[row.slot].event = e
                    /\ reservation'[row.slot].resource = row.resource
                    /\ reservation'[row.slot].quantity = row.reserved
                    /\ \A b \in ids \ {a} : allocation'[b].slot # row.slot
        /\ Fits(reservation')
        /\ UNCHANGED seen

\* Allocations of an event are settled: their reservations end with them, and
\* nothing of them is outstanding any more.
Settle(e, ids, completed) ==
    LET slots == SlotsOf(allocation, ids)
    IN  /\ \A a \in ids : allocation[a].event = e /\ allocation[a].status = "Reserved"
        /\ allocation' = [a \in AllocId |->
               IF a \notin ids THEN allocation[a]
               ELSE [allocation[a] EXCEPT
                        !.status = IF completed THEN "Returned" ELSE "Cancelled",
                        !.returned = IF completed THEN allocation[a].reserved ELSE @,
                        !.open = FALSE]]
        /\ reservation' = [i \in Slot |->
               IF i \notin slots THEN reservation[i]
               ELSE [reservation[i] EXCEPT
                        !.status = IF completed THEN "RELEASED" ELSE "CANCELLED"]]
        /\ UNCHANGED seen

\* The allocations of an event go with it; its reservations stay.
Delete(e) ==
    /\ allocation' = [a \in AllocId |->
           IF allocation[a].event = e /\ allocation[a].status # "Free"
           THEN [allocation[a] EXCEPT !.status = "Deleted", !.open = FALSE]
           ELSE allocation[a]]
    /\ UNCHANGED <<seen, reservation>>

\* A resource is edited.
Edit(r) ==
    /\ seen[r] \subseteq seen'[r]
    /\ seen' = [seen EXCEPT ![r] = seen'[r]]
    /\ UNCHANGED <<reservation, allocation>>

BookingNext ==
    \/ \E i \in Slot : Book(i) \/ \E s \in {"RELEASED", "CANCELLED"} : Free(i, s)
    \/ \E e \in Event, ids \in SUBSET AllocId :
          Allocate(e, ids) \/ \E completed \in BOOLEAN : Settle(e, ids, completed)
    \/ \E e \in Event : Delete(e)
    \/ \E r \in Resource : Edit(r)

BookingSpec == BookingInit /\ [][BookingNext]_bookingVars

=============================================================================

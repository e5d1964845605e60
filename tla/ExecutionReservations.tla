------------------------ MODULE ExecutionReservations ------------------------
(***************************************************************************)
(* The resource engine together with the two operations of                 *)
(* EventExecutionService that write its ResourceReservation table          *)
(* themselves: reserveResources inserts rows, releaseResources updates     *)
(* them, each statement a READ COMMITTED transaction of its own that takes *)
(* no lock and computes no availability.                                   *)
(***************************************************************************)
EXTENDS ResourceReservations

CONSTANTS
    ExecutionRequest   \* the resourceRequests clients send: sequences of records
                       \* of a resource, a quantity and a window

VARIABLES
    executionStatus,  \* [Event -> status of the execution of the event]
    reserving         \* [Proc -> the reserveResources call in progress]

executionVars == <<executionStatus, reserving>>

allVars == <<vars, executionVars>>

NotReserving == [event |-> NoEvent, todo |-> << >>]

ExecutionInit ==
    /\ Init
    /\ executionStatus = [e \in Event |-> "Draft"]
    /\ reserving = [p \in Proc |-> NotReserving]

\* What transactions in progress learn of rows written outside any of them:
\* serialization conflicts are tracked between SERIALIZABLE transactions only.
WrittenAside(written) ==
    [q \in Proc |-> IF Active(q) THEN [txn[q] EXCEPT !.stale = @ \cup written]
                                 ELSE Idle]

\* reserveResources, up to its loop.
reserveResources(p, e, requests) ==
    /\ reserving[p] = NotReserving /\ ~Active(p)
    /\ reserving' = [reserving EXCEPT ![p] = [event |-> e, todo |-> requests]]
    /\ UNCHANGED <<vars, executionStatus>>

\* One iteration: neither the state of the resource nor its load is looked at.
ReserveNext(p) ==
    /\ reserving[p].todo # << >> /\ FreshSlots # {}
    /\ LET req == Head(reserving[p].todo)
           i == CHOOSE i \in FreshSlots : TRUE
       IN  /\ reservation' = [reservation EXCEPT ![i] =
                  [resource |-> req.resource, quantity |-> req.quantity,
                   window |-> req.window, status |-> "RESERVED",
                   event |-> reserving[p].event]]
           /\ txn' = WrittenAside({i})
           /\ reserving' = [reserving EXCEPT ![p].todo = Tail(@)]
    /\ UNCHANGED <<resource, allocation, seen, executionStatus>>

\* The status is written after the last request.
ReserveDone(p) ==
    /\ reserving[p] # NotReserving /\ reserving[p].todo = << >>
    /\ executionStatus' = [executionStatus EXCEPT ![reserving[p].event] = "ResourcesReserved"]
    /\ reserving' = [reserving EXCEPT ![p] = NotReserving]
    /\ UNCHANGED vars

\* A later request is malformed or names no resource, or the process is lost:
\* the rows already inserted stay.
ReserveFails(p) ==
    /\ reserving[p] # NotReserving
    /\ reserving' = [reserving EXCEPT ![p] = NotReserving]
    /\ UNCHANGED <<vars, executionStatus>>

\* One updateMany over the ids the client names, restricted to the event.
releaseResources(e, ids) ==
    LET released == {i \in ids : /\ reservation[i].status # "FREE"
                                 /\ reservation[i].event = e}
    IN  /\ reservation' = [i \in Slot |->
               IF i \in released THEN [reservation[i] EXCEPT !.status = "RELEASED"]
                                 ELSE reservation[i]]
        /\ txn' = WrittenAside(released)
        /\ UNCHANGED <<resource, allocation, seen, executionVars>>

ExecutionNext ==
    \/ /\ \E p \in Proc : (reserving[p] = NotReserving /\ NewRequest(p)) \/ Step(p)
       /\ UNCHANGED executionVars
    \/ PlainUpdate /\ UNCHANGED executionVars
    \/ \E p \in Proc :
          \/ \E e \in Event, requests \in ExecutionRequest :
                reserveResources(p, e, requests)
          \/ ReserveNext(p)
          \/ ReserveDone(p)
          \/ ReserveFails(p)
    \/ \E e \in Event, ids \in SUBSET Slot : releaseResources(e, ids)

ExecutionSpec == ExecutionInit /\ [][ExecutionNext]_allVars

=============================================================================

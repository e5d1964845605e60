--------------------------- MODULE EventResources ---------------------------
(***************************************************************************)
(* The resource engine together with EventsService, which changes the      *)
(* status of an event, or deletes it, and releases the allocations of the  *)
(* event in a transaction of its own.                                      *)
(***************************************************************************)
EXTENDS ResourceReservations

CONSTANTS NextStatus   \* statuses clients give an event

VARIABLES
    eventStatus,  \* [Event -> EventStatus \cup {"Deleted"}]
    handler,      \* [Proc -> the EventsService handler in progress]
    owed,         \* history: allocations Reserved when their event became terminal
    vouched       \* history: those of them a handler reported as released

eventVars == <<eventStatus, handler, owed, vouched>>

allVars == <<vars, eventVars>>

EventStatus == {"Draft", "Planned", "Confirmed", "Completed", "Cancelled"}

TerminalStatus == {"Completed", "Cancelled"}

ASSUME NextStatusAssumption == NextStatus \subseteq EventStatus

NoHandler == [kind |-> "none"]

Handler == [kind: {"update", "remove"},
            stage: {"write", "release", "releasing", "delete"},
            event: Event, previous: EventStatus, next: EventStatus,
            owed: SUBSET AllocId]

EventTypeOK ==
    /\ TypeOK
    /\ eventStatus \in [Event -> EventStatus \cup {"Deleted"}]
    /\ handler \in [Proc -> Handler \cup {NoHandler}]
    /\ owed \subseteq AllocId /\ vouched \subseteq owed

EventInit ==
    /\ Init
    /\ eventStatus = [e \in Event |-> "Draft"]
    /\ handler = [p \in Proc |-> NoHandler]
    /\ owed = {} /\ vouched = {}

ReservedFor(e) == {a \in AllocId : /\ allocation[a].event = e
                                   /\ allocation[a].status = "Reserved"}

At(p, stage) == handler[p] # NoHandler /\ handler[p].stage = stage

-----------------------------------------------------------------------------
(***************************************************************************)
(* EventsService.update                                                    *)
(***************************************************************************)

\* The event is read before anything is written: previousStatus is the status
\* of this read.
UpdateRead(p, e, next) ==
    /\ handler[p] = NoHandler /\ ~Active(p)
    /\ eventStatus[e] # "Deleted"
    /\ handler' = [handler EXCEPT ![p] =
           [kind |-> "update", stage |-> "write", event |-> e,
            previous |-> eventStatus[e], next |-> next, owed |-> {}]]
    /\ UNCHANGED <<vars, eventStatus, owed, vouched>>

\* Whether update goes on to release the allocations of the event.
isLifecycleTerminalTransition(previous, next) ==
    next # previous /\ next \in TerminalStatus

\* The row is updated and committed on its own.
UpdateWrite(p) ==
    LET h == handler[p]
        releases == isLifecycleTerminalTransition(h.previous, h.next)
        due == IF releases THEN ReservedFor(h.event) ELSE {}
    IN  /\ At(p, "write")
        /\ eventStatus[h.event] # "Deleted"
        /\ eventStatus' = [eventStatus EXCEPT ![h.event] = h.next]
        /\ owed' = owed \cup due
        /\ handler' = [handler EXCEPT ![p] =
               IF releases THEN [h EXCEPT !.stage = "release", !.owed = due]
                           ELSE NoHandler]
        /\ UNCHANGED <<vars, vouched>>

-----------------------------------------------------------------------------
(***************************************************************************)
(* EventsService.remove                                                    *)
(***************************************************************************)

RemoveRead(p, e) ==
    /\ handler[p] = NoHandler /\ ~Active(p)
    /\ eventStatus[e] # "Deleted"
    /\ handler' = [handler EXCEPT ![p] =
           [kind |-> "remove", stage |-> "release", event |-> e,
            previous |-> eventStatus[e], next |-> "Cancelled", owed |-> {}]]
    /\ UNCHANGED <<vars, eventStatus, owed, vouched>>

\* Faulty variant: the allocations are not removed with the event.
CascadeNothing(e) == {}

\* Allocations and outstandings go with the event (onDelete: Cascade), its
\* reservations stay: sourceId is no foreign key.
CascadeToAllocations(e) ==
    {a \in AllocId : allocation[a].event = e /\ allocation[a].status # "Free"}

RemoveDelete(p) ==
    LET e == handler[p].event
        gone == CascadeToAllocations(e)
    IN  /\ At(p, "delete")
        /\ eventStatus[e] # "Deleted"
        /\ eventStatus' = [eventStatus EXCEPT ![e] = "Deleted"]
        /\ allocation' = [a \in AllocId |->
               IF a \in gone THEN [allocation[a] EXCEPT !.status = "Deleted",
                                                        !.open = FALSE]
                             ELSE allocation[a]]
        /\ txn' = Publish(p, gone, {})
        /\ handler' = [handler EXCEPT ![p] = NoHandler]
        /\ UNCHANGED <<resource, reservation, seen, owed, vouched>>

-----------------------------------------------------------------------------
(***************************************************************************)
(* The call of releaseEventAllocations both handlers make                  *)
(***************************************************************************)

CallRelease(p) ==
    /\ At(p, "release") /\ ~Active(p)
    /\ eventStatus[handler[p].event] # "Deleted"
    /\ BeginRelease(p, handler[p].event, handler[p].next)
    /\ handler' = [handler EXCEPT ![p].stage = "releasing"]
    /\ UNCHANGED <<eventStatus, owed, vouched>>

ReleaseCommitted(p) ==
    /\ At(p, "releasing")
    /\ Commit(p)
    /\ IF handler[p].kind = "update"
       THEN /\ handler' = [handler EXCEPT ![p] = NoHandler]
            /\ vouched' = vouched \cup handler[p].owed
       ELSE /\ handler' = [handler EXCEPT ![p].stage = "delete"]
            /\ UNCHANGED vouched
    /\ UNCHANGED <<eventStatus, owed>>

ReleaseAborted(p) ==
    /\ At(p, "releasing")
    /\ Abort(p)
    /\ handler' = [handler EXCEPT ![p] = NoHandler]
    /\ UNCHANGED <<eventStatus, owed, vouched>>

\* Anything between two database calls that ends the handler: the record is
\* gone, the actor lacks the resource permission, an execution, a finance
\* workspace or a meeting note restricts the delete, the connection or the
\* process is lost.
HandlerFails(p) ==
    /\ handler[p] # NoHandler /\ handler[p].stage # "releasing"
    /\ handler' = [handler EXCEPT ![p] = NoHandler]
    /\ UNCHANGED <<vars, eventStatus, owed, vouched>>

-----------------------------------------------------------------------------

\* A new request to the engine.  The event it names is looked up first.
EngineRequest(p) ==
    /\ handler[p] = NoHandler
    /\ NewRequest(p)
    /\ txn'[p].event # NoEvent => eventStatus[txn'[p].event] # "Deleted"
    /\ UNCHANGED eventVars

\* The foreign key of an inserted allocation is checked when it commits.
EngineStep(p) ==
    /\ handler[p] = NoHandler \/ txn[p].op # "commit"
    /\ \/ createReservation(p) \/ updateReservation(p)
       \/ reserveResourcesForEvent(p)
       \/ \E a \in AllocId : releaseAllocation(p, a)
       \/ cancelOutstandings(p)
       \/ /\ handler[p] = NoHandler
          /\ \A a \in AllocId \cap txn[p].wrote :
                eventStatus[txn[p].allocs[a].event] # "Deleted"
          /\ Commit(p)
       \/ handler[p] = NoHandler /\ Abort(p)
    /\ UNCHANGED eventVars

EventHandlerStep(p) ==
    \/ \E e \in Event, next \in NextStatus : UpdateRead(p, e, next)
    \/ \E e \in Event : RemoveRead(p, e)
    \/ UpdateWrite(p)
    \/ CallRelease(p)
    \/ ReleaseCommitted(p)
    \/ ReleaseAborted(p)
    \/ RemoveDelete(p)
    \/ HandlerFails(p)

EventNext ==
    \/ \E p \in Proc : EngineRequest(p) \/ EngineStep(p) \/ EventHandlerStep(p)
    \/ PlainUpdate /\ UNCHANGED eventVars

EventSpec == EventInit /\ [][EventNext]_allVars

-----------------------------------------------------------------------------
(***************************************************************************)
(* Properties                                                              *)
(***************************************************************************)

\* An update that makes an event Completed or Cancelled and answers the client
\* with success has settled every allocation the event held when its status
\* changed, whatever ran in between.
SuccessfulTransitionReleases ==
    \A a \in vouched : allocation[a].status # "Reserved"

\* No allocation outlives its event, also not one whose transaction was in
\* progress when the event was deleted.
AllocationsHaveEvent ==
    \A a \in AllocId :
        allocation[a].status \in {"Reserved", "Returned", "Cancelled"} =>
            eventStatus[allocation[a].event] # "Deleted"

\* What events.service.spec.ts says of update: the allocations are released
\* when the event becomes Completed or Cancelled: none of them is still Reserved
\* once no handler is in progress any more.
TerminalEventReleases ==
    (\A p \in Proc : handler[p] = NoHandler) =>
        \A a \in owed : allocation[a].status # "Reserved"

=============================================================================

---------------------------- MODULE AssetManagement ----------------------------
(***************************************************************************)
(* The assets of an organization (apps/api/src/asset-management): their    *)
(* reservation for events, what puts an instance out of use and back into  *)
(* it, and disposals.  Its incidents are what synchronize reports to       *)
(* finance.                                                                *)
(*                                                                         *)
(* Nothing here takes a lock: createReservation, changeLifecycle and the   *)
(* execution of a disposal read in one statement what they rely on in a    *)
(* later one.                                                              *)
(***************************************************************************)
EXTENDS EventLifecycle, FiniteSets, Tables

CONSTANTS
    Instance,         \* ids of the instances of the serialized definition
    NoInstance,       \* null: any instance will do
    Stock,            \* quantityOnHand - quantityUnavailable of the other one
    Wanted,           \* the reservations clients ask for
    MaxReservations   \* bound on the rows of AssetReservation

\* A serialized definition, of which instances are counted, and one of another
\* tracking mode, whose quantities nothing in the code changes.
Definition == {"Serialized", "Quantity"}

ReservationDto == [definition: Definition, instance: Instance \cup {NoInstance},
                   quantity: Nat \ {0}, from: Nat, to: Nat]

ASSUME AssetAssumption ==
    /\ IsFiniteSet(Instance) /\ NoInstance \notin Instance
    /\ Stock \in Nat /\ MaxReservations \in Nat
    /\ Wanted \subseteq ReservationDto
    /\ \A w \in Wanted : w.from < w.to

VARIABLES
    instance,     \* the AssetInstances
    reservation,  \* the AssetReservations, numbered as they are created
    serviced,     \* the instances with a maintenance work order
    disposal,     \* the AssetDisposals by instance: at most one for each
    handling,     \* [Proc -> the request to this service in progress]
    unchecked,    \* history: reservations in force that no check let in as such
    overtaken     \* history: instances whose archival a stale write replaced

assetVars == <<instance, reservation, serviced, disposal, handling, unchecked, overtaken>>

\* The statuses other than Active and Archived are treated alike, as OutOfUse.
InstanceRow == [status: {"Active", "OutOfUse", "Archived"}, archivedAt: BOOLEAN]

\* Draft, Released and Fulfilled are treated like Cancelled.
InForce == {"Reserved", "Confirmed"}
ReservationStatus == InForce \cup {"Cancelled"}

ReservationRow == [dto: Wanted, status: ReservationStatus]

DisposalStatus == {"Proposed", "Approved", "Cancelled", "Executed"}

DisposalRow == [status: DisposalStatus, approvedAt: BOOLEAN, executedAt: BOOLEAN]

\* A reservation after its sum, then its count, then its check of the instance; a
\* change of lifecycle and the execution of a disposal after their reads.
Handling ==
    {Idle}
    \cup [op: {"reserve"}, step: {"count", "instance", "insert"}, dto: Wanted,
          load: Nat, late: BOOLEAN]
    \cup [op: {"lifecycle"}, instance: Instance, status: {"Active", "OutOfUse", "Archived"},
          archivedAt: BOOLEAN]
    \cup [op: {"dispose"}, instance: Instance]

AssetTypeOK ==
    /\ instance \in PartialOn(Instance, InstanceRow)
    /\ DOMAIN reservation \subseteq 1..MaxReservations
    /\ DOMAIN reservation = 1..Cardinality(DOMAIN reservation)
    /\ \A r \in DOMAIN reservation : reservation[r] \in ReservationRow
    /\ serviced \subseteq DOMAIN instance
    /\ disposal \in PartialOn(DOMAIN instance, DisposalRow)
    /\ \A p \in Proc : handling[p] \in Handling
    /\ unchecked \subseteq DOMAIN reservation
    /\ overtaken \subseteq DOMAIN instance
    /\ \A i \in DOMAIN disposal : disposal[i].status = "Executed" => disposal[i].executedAt

AssetInit ==
    /\ LifecycleInit
    /\ instance = Empty /\ reservation = Empty /\ disposal = Empty
    /\ serviced = {} /\ unchecked = {} /\ overtaken = {}
    /\ handling = [p \in Proc |-> Idle]

Free(p) == handling[p] = Idle

Handle(p, h) == handling' = [handling EXCEPT ![p] = h]

\* A request is lost, or rejected by one of its checks.
Drop(p) ==
    /\ ~Free(p) /\ Handle(p, Idle)
    /\ UNCHANGED <<lifecycleVars, instance, reservation, serviced, disposal, unchecked, overtaken>>

-----------------------------------------------------------------------------
(***************************************************************************)
(* Instances                                                               *)
(***************************************************************************)

createInstance(i) ==
    /\ i \notin DOMAIN instance
    /\ instance' = Put(instance, i, [status |-> "OutOfUse", archivedAt |-> FALSE])
    /\ UNCHANGED <<lifecycleVars, reservation, serviced, disposal, handling, unchecked, overtaken>>

\* changeLifecycle rejects the status the instance has; two statuses out of use
\* are different ones ...
CheckLifecycle(p, i, s) ==
    /\ Free(p) /\ i \in DOMAIN instance
    /\ instance[i].status # s \/ s = "OutOfUse"
    /\ Handle(p, [op |-> "lifecycle", instance |-> i, status |-> s,
                  archivedAt |-> instance[i].archivedAt])
    /\ UNCHANGED <<lifecycleVars, instance, reservation, serviced, disposal, unchecked, overtaken>>

\* ... and writes the status, with the archivedAt it has read.
changeLifecycle(p) ==
    LET h == handling[p]
        at == h.status = "Archived" \/ h.archivedAt
    IN  /\ h.op = "lifecycle"
        /\ instance' = [instance EXCEPT ![h.instance] = [status |-> h.status, archivedAt |-> at]]
        /\ overtaken' = IF instance[h.instance].archivedAt /\ ~h.archivedAt
                        THEN overtaken \cup {h.instance} ELSE overtaken
        /\ Handle(p, Idle)
        /\ UNCHANGED <<lifecycleVars, reservation, serviced, disposal, unchecked>>

\* Faulty variant: an asset that does not exist is found.
AnyAsset(i) == TRUE

\* requireAssetEntity finds it.
Registered(i) == i \in DOMAIN instance

SetStatus(i, s) == instance' = [instance EXCEPT ![i].status = s]

\* An outcome of Fail or Quarantine.
recordInspection(i) ==
    /\ Registered(i) /\ SetStatus(i, "OutOfUse")
    /\ UNCHANGED <<lifecycleVars, reservation, serviced, disposal, handling, unchecked, overtaken>>

createMaintenance(i) ==
    /\ Registered(i) /\ i \notin serviced
    /\ serviced' = serviced \cup {i}
    /\ UNCHANGED <<lifecycleVars, instance, reservation, disposal, handling, unchecked, overtaken>>

\* InProgress and Completed write the status of the instance too, whatever it is.
changeMaintenanceStatus(i) ==
    /\ i \in serviced
    /\ SetStatus(i, "OutOfUse") \/ SetStatus(i, "Active")
    /\ UNCHANGED <<lifecycleVars, reservation, serviced, disposal, handling, unchecked, overtaken>>

\* The incidents of an instance; the one of the event that has a loss, if it is
\* one, is new to synchronize.
createIncident(i) ==
    /\ Registered(i) /\ SetStatus(i, "OutOfUse")
    /\ \/ UNCHANGED lifecycleVars
       \/ \E s \in Incident : NewSource(s)
    /\ UNCHANGED <<reservation, serviced, disposal, handling, unchecked, overtaken>>

-----------------------------------------------------------------------------
(***************************************************************************)
(* Disposals                                                               *)
(***************************************************************************)

createDisposal(i) ==
    /\ Registered(i) /\ i \notin DOMAIN disposal
    /\ disposal' = Put(disposal, i, [status |-> "Proposed", approvedAt |-> FALSE,
                                     executedAt |-> FALSE])
    /\ UNCHANGED <<lifecycleVars, instance, reservation, serviced, handling, unchecked, overtaken>>

\* Any status but Executed is written without a look at the present one.
changeDisposalStatus(i, s) ==
    /\ i \in DOMAIN disposal /\ s # "Executed"
    /\ disposal' = [disposal EXCEPT ![i].status = s,
                                    ![i].approvedAt = @ \/ s = "Approved"]
    /\ UNCHANGED <<lifecycleVars, instance, reservation, serviced, handling, unchecked, overtaken>>

\* Faulty variant: a disposal need not be approved.
ProposedOrApproved(i) == disposal[i].status \in {"Proposed", "Approved"}

Executable(i) == disposal[i].status = "Approved"

CheckExecute(p, i) ==
    /\ Free(p) /\ i \in DOMAIN disposal /\ Executable(i)
    /\ Handle(p, [op |-> "dispose", instance |-> i])
    /\ UNCHANGED <<lifecycleVars, instance, reservation, serviced, disposal, unchecked, overtaken>>

\* The status Executed, and the instance Retired and archived.
executeDisposal(p) ==
    LET i == handling[p].instance IN
    /\ handling[p].op = "dispose"
    /\ disposal' = [disposal EXCEPT ![i].status = "Executed", ![i].executedAt = TRUE]
    /\ instance' = [instance EXCEPT ![i] = [status |-> "OutOfUse", archivedAt |-> TRUE]]
    /\ Handle(p, Idle)
    /\ UNCHANGED <<lifecycleVars, reservation, serviced, unchecked, overtaken>>

-----------------------------------------------------------------------------
(***************************************************************************)
(* Reservations                                                            *)
(***************************************************************************)

\* Faulty variant: an instance is in use whenever its status says so.
ActiveOnly(i) == instance[i].status = "Active"

\* The instances createReservation counts.
Usable(i) == instance[i].status = "Active" /\ ~instance[i].archivedAt

Capacity(d) == IF d = "Quantity" THEN Stock
               ELSE Cardinality({i \in DOMAIN instance : Usable(i)})

\* Faulty variant: windows that share no start do not overlap.
StartsWithin(r, w) == w.from <= reservation[r].dto.from /\ reservation[r].dto.from < w.to

\* The where of the sum and of the count: in force, and overlapping the window.
Overlaps(r, w) == reservation[r].dto.from < w.to /\ reservation[r].dto.to > w.from

Overlapping(w) ==
    {r \in DOMAIN reservation : reservation[r].status \in InForce /\ Overlaps(r, w)}

\* The sum of the quantities of reservations, as a number of units.
Load(rs) == Cardinality(UNION {{r} \X (1..reservation[r].dto.quantity) : r \in rs})

SumReserved(p, w) ==
    /\ Free(p)
    /\ Handle(p, [op |-> "reserve", step |-> "count", dto |-> w, late |-> FALSE,
                  load |-> Load({r \in Overlapping(w) :
                                     reservation[r].dto.definition = w.definition})])
    /\ UNCHANGED <<lifecycleVars, instance, reservation, serviced, disposal, unchecked, overtaken>>

AtStep(p, step) == handling[p].op = "reserve" /\ handling[p].step = step

CheckCapacity(p) ==
    LET h == handling[p] IN
    /\ AtStep(p, "count")
    /\ h.load + h.dto.quantity <= Capacity(h.dto.definition)
    /\ Handle(p, [h EXCEPT !.step = IF h.dto.instance = NoInstance THEN "insert"
                                                                   ELSE "instance"])
    /\ UNCHANGED <<lifecycleVars, instance, reservation, serviced, disposal, unchecked, overtaken>>

CheckInstance(p) ==
    LET w == handling[p].dto IN
    /\ AtStep(p, "instance")
    /\ \A r \in Overlapping(w) : reservation[r].dto.instance # w.instance
    /\ Handle(p, [handling[p] EXCEPT !.step = "insert"])
    /\ UNCHANGED <<lifecycleVars, instance, reservation, serviced, disposal, unchecked, overtaken>>

\* The row is inserted whatever has been inserted since the sum.  Every request in
\* progress that began earlier will then be late.
createReservation(p) ==
    LET new == Cardinality(DOMAIN reservation) + 1 IN
    /\ AtStep(p, "insert") /\ new <= MaxReservations
    /\ reservation' = Put(reservation, new, [dto |-> handling[p].dto, status |-> "Reserved"])
    /\ unchecked' = IF handling[p].late THEN unchecked \cup {new} ELSE unchecked
    /\ handling' = [q \in Proc |->
                       IF q = p THEN Idle
                       ELSE IF handling[q].op = "reserve" THEN [handling[q] EXCEPT !.late = TRUE]
                       ELSE handling[q]]
    /\ UNCHANGED <<lifecycleVars, instance, serviced, disposal, overtaken>>

\* Any status may follow any other: what was cancelled may come back unchecked.
changeReservationStatus(r, s) ==
    /\ r \in DOMAIN reservation
    /\ reservation' = [reservation EXCEPT ![r].status = s]
    /\ unchecked' = IF reservation[r].status \notin InForce /\ s \in InForce
                    THEN unchecked \cup {r} ELSE unchecked
    /\ UNCHANGED <<lifecycleVars, instance, serviced, disposal, handling, overtaken>>

-----------------------------------------------------------------------------

AssetStep ==
    \/ \E p \in Proc : \/ Drop(p) \/ changeLifecycle(p) \/ executeDisposal(p)
                       \/ CheckCapacity(p) \/ CheckInstance(p) \/ createReservation(p)
                       \/ \E w \in Wanted : SumReserved(p, w)
                       \/ \E i \in Instance : CheckExecute(p, i)
                       \/ \E i \in Instance, s \in {"Active", "OutOfUse", "Archived"} :
                             CheckLifecycle(p, i, s)
    \/ \E i \in Instance : \/ createInstance(i) \/ recordInspection(i) \/ createMaintenance(i)
                           \/ changeMaintenanceStatus(i) \/ createIncident(i)
                           \/ createDisposal(i)
                           \/ \E s \in DisposalStatus : changeDisposalStatus(i, s)
    \/ \E r \in DOMAIN reservation, s \in ReservationStatus : changeReservationStatus(r, s)

\* An incident of something else than an instance is a NewSource of the lifecycle.
AssetNext == AssetStep \/ (LifecycleNext /\ UNCHANGED assetVars)

AssetSpec == AssetInit /\ [][AssetNext]_<<lifecycleVars, assetVars>>

-----------------------------------------------------------------------------
(***************************************************************************)
(* Properties                                                              *)
(***************************************************************************)

\* The reservations in force that were let in by a check which saw all the others
\* of them, and were not put back in force by hand.
Held == {r \in DOMAIN reservation : reservation[r].status \in InForce} \ unchecked

\* Those of the definition of r that are in force when r starts.
Beside(r) ==
    {q \in Held : /\ reservation[q].dto.definition = reservation[r].dto.definition
                  /\ reservation[q].dto.from <= reservation[r].dto.from
                  /\ reservation[r].dto.from < reservation[q].dto.to}

Units(d) == IF d = "Quantity" THEN Stock ELSE Cardinality(DOMAIN instance)

\* They never take more units than there are, at any instant, and never an instance
\* twice: only two requests at once, or a cancelled reservation put back, can
\* overbook an asset.
CheckedReservationsFit ==
    /\ \A r \in Held : Load(Beside(r)) <= Units(reservation[r].dto.definition)
    /\ \A q, r \in Held :
          q # r /\ Overlaps(q, reservation[r].dto) /\ reservation[r].dto.instance # NoInstance
              => reservation[q].dto.instance # reservation[r].dto.instance

\* A disposal that was executed had been approved, and its instance is not counted
\* as capacity again by any maintenance, inspection or change of lifecycle, except
\* by one that overlapped the disposal.
DisposedStaysOut ==
    \A i \in DOMAIN disposal :
        disposal[i].executedAt => /\ disposal[i].approvedAt
                                  /\ Usable(i) => i \in overtaken

=============================================================================

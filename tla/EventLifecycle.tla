---------------------------- MODULE EventLifecycle ----------------------------
(***************************************************************************)
(* The end of an event: its execution and closeout items                   *)
(* (apps/api/src/event-execution), the close of its finance workspace      *)
(* (apps/api/src/finance-control), and synchronize, which creates what is  *)
(* missing of both from the awards and incidents of the event              *)
(* (apps/api/src/event-lifecycle).                                         *)
(*                                                                         *)
(* synchronize is a sequence of statements and of calls to the other two   *)
(* services, each committed by itself: it may stop anywhere, be called     *)
(* again, and run twice at once.                                           *)
(***************************************************************************)
EXTENDS Naturals, Sequences

CONSTANTS
    Proc,         \* concurrently running request handlers
    Award,        \* commercial awards the event may get
    Incident,     \* asset incidents with a loss the event may get
    Control,      \* what is counted before the close: see Controls
    MaxCloseout,  \* bound on the closeout items
    MaxPlan       \* bound on the versions of the execution plan

\* Kinds of finance records of which none may be open when finance closes.
Controls == {"CloseItem", "Reconciliation", "Commitment", "Actual"}

ASSUME LifecycleAssumption ==
    /\ Control \subseteq Controls
    /\ MaxCloseout \in Nat /\ MaxPlan \in Nat
    /\ Award \cap Incident = {}

Source == Award \cup Incident

VARIABLES
    execution,  \* the EventExecution; status "None": not created
    closeout,   \* the ExecutionCloseoutItems, in the order of their creation
    workspace,  \* status of the EventFinanceWorkspace; "None": not created
    open,       \* the kinds of finance records of which one is open
    source,     \* the awards and incidents there are
    synced,     \* [Source -> Nat]: commitments and changes made by synchronize
    byHand,     \* the awards with a commitment a user created
    request,    \* [Proc -> the handler in progress]
    overlapped  \* history: two calls of synchronize were in progress at once

lifecycleVars == <<execution, closeout, workspace, open, source, synced, byHand,
                   request, overlapped>>

\* The statuses between Planning and Completed are treated alike, as Underway.
ExecutionStatus == {"None", "Created", "Planning", "Underway", "Completed",
                    "Cancelled", "Archived"}

\* The types of the items synchronize creates, in its order.
SyncedType == <<"AssetRecovery", "FinancialEvidence">>

CloseoutType == {"AssetRecovery", "FinancialEvidence", "Other"}

CloseoutRow == [type: CloseoutType, done: BOOLEAN, synced: BOOLEAN]

Idle == [op |-> "idle"]

\* The statements of synchronize, createExecution, buildExecutionPlan and
\* createWorkspace, in their order; todo holds the awards or incidents of the
\* loop that are left, taken those this call has read so far.
SyncStep == {"execution", "findExecution", "createExecution", "readPlan", "writePlan",
             "finance", "findFinance", "createFinance", "awards", "awardLoop",
             "incidents", "incidentLoop", "readCloseout", "createCloseout", "return"}

SyncCall == [op: {"synchronize"}, step: SyncStep, todo: SUBSET Source,
             taken: SUBSET Source, missing: SUBSET Source, plan: 0..MaxPlan,
             types: SUBSET {1, 2}]

\* What closeWorkspace asks for: no record of any kind open, and an execution.
Conditions == Control \cup {"Execution"}

LifecycleTypeOK ==
    /\ execution \in [status: ExecutionStatus, plan: 0..MaxPlan,
                      completedAt: BOOLEAN, cancelledAt: BOOLEAN]
    /\ closeout \in Seq(CloseoutRow) /\ Len(closeout) <= MaxCloseout
    /\ workspace \in {"None", "Active", "Closed"}
    /\ open \subseteq Control
    /\ source \subseteq Source
    /\ synced \in [Source -> Nat]
    /\ byHand \subseteq source \cap Award
    /\ \A p \in Proc : \/ request[p] = Idle
                       \/ request[p] \in SyncCall
                       \/ request[p] \in [op: {"close"}, met: SUBSET Conditions]
                       \/ request[p].op \in {"complete", "archive"}
    /\ overlapped \in BOOLEAN
    /\ execution.status = "None" => execution.plan = 0 /\ closeout = << >>
    /\ workspace = "None" => open = {} /\ byHand = {}
    /\ \A s \in Source : synced[s] > 0 => s \in source /\ workspace # "None"

LifecycleInit ==
    /\ execution = [status |-> "None", plan |-> 0, completedAt |-> FALSE,
                    cancelledAt |-> FALSE]
    /\ closeout = << >>
    /\ workspace = "None"
    /\ open = {} /\ source = {} /\ byHand = {}
    /\ synced = [s \in Source |-> 0]
    /\ request = [p \in Proc |-> Idle]
    /\ overlapped = FALSE

rows == <<execution, closeout, workspace, open, source, synced, byHand>>

\* A request that is lost, or whose statement fails, leaves what it has written.
Stop(p) ==
    /\ request[p] # Idle
    /\ request' = [request EXCEPT ![p] = Idle]
    /\ UNCHANGED <<rows, overlapped>>

Become(p, r) == request' = [request EXCEPT ![p] = r]

-----------------------------------------------------------------------------
(***************************************************************************)
(* Execution                                                               *)
(***************************************************************************)

Exists == execution.status # "None"

\* EventExecution.eventId is unique: a second insert fails.
InsertExecution == ~Exists /\ execution' = [execution EXCEPT !.status = "Created"]

createExecution ==
    /\ InsertExecution
    /\ UNCHANGED <<closeout, workspace, open, source, synced, byHand, request, overlapped>>

\* assignTasks, dispatch, collect, generatePurchaseOrders write their status over
\* any other.
transition ==
    /\ Exists
    /\ execution' = [execution EXCEPT !.status = "Underway"]
    /\ UNCHANGED <<closeout, workspace, open, source, synced, byHand, request, overlapped>>

cancel ==
    /\ Exists
    /\ execution' = [execution EXCEPT !.status = "Cancelled", !.cancelledAt = TRUE]
    /\ UNCHANGED <<closeout, workspace, open, source, synced, byHand, request, overlapped>>

CheckComplete(p) ==
    /\ Exists /\ request[p] = Idle
    /\ \A i \in DOMAIN closeout : closeout[i].done
    /\ Become(p, [op |-> "complete"])
    /\ UNCHANGED <<rows, overlapped>>

complete(p) ==
    /\ request[p].op = "complete"
    /\ execution' = [execution EXCEPT !.status = "Completed", !.completedAt = TRUE]
    /\ Become(p, Idle)
    /\ UNCHANGED <<closeout, workspace, open, source, synced, byHand, overlapped>>

Archivable == execution.status \in {"Completed", "Cancelled"}

CheckArchive(p) ==
    /\ Archivable /\ request[p] = Idle
    /\ Become(p, [op |-> "archive"])
    /\ UNCHANGED <<rows, overlapped>>

archive(p) ==
    /\ request[p].op = "archive"
    /\ execution' = [execution EXCEPT !.status = "Archived"]
    /\ Become(p, Idle)
    /\ UNCHANGED <<closeout, workspace, open, source, synced, byHand, overlapped>>

AddCloseout(type, bySync) ==
    /\ Len(closeout) < MaxCloseout
    /\ closeout' = Append(closeout, [type |-> type, done |-> FALSE, synced |-> bySync])

createCloseoutItem(type) ==
    /\ Exists
    /\ AddCloseout(type, FALSE)
    /\ UNCHANGED <<execution, workspace, open, source, synced, byHand, request, overlapped>>

\* The status of an item may change from any to any other.
completeCloseoutItem(i) ==
    /\ closeout' = [closeout EXCEPT ![i].done = ~closeout[i].done]
    /\ UNCHANGED <<execution, workspace, open, source, synced, byHand, request, overlapped>>

-----------------------------------------------------------------------------
(***************************************************************************)
(* Finance records and the close                                           *)
(***************************************************************************)

\* EventFinanceWorkspace.eventId is unique as well.  The close items of a new
\* workspace are open.
InsertWorkspace ==
    /\ workspace = "None"
    /\ workspace' = "Active"
    /\ open' = Control \cap {"CloseItem"}

createWorkspace ==
    /\ InsertWorkspace
    /\ UNCHANGED <<execution, closeout, source, synced, byHand, request, overlapped>>

\* Faulty variant: a record may be added to no workspace.
WithoutWorkspace == TRUE

\* requireWorkspace finds it.
Opened == workspace # "None"

\* createCloseItem, createReconciliation, createFinancialLine, and the changes of
\* status that open a record again.
openControl(k) ==
    /\ Opened /\ k \in Control \ open
    /\ open' = open \cup {k}
    /\ UNCHANGED <<execution, closeout, workspace, source, synced, byHand, request, overlapped>>

\* changeCloseItem, changeReconciliationStatus, changeCommitmentStatus and
\* approveFinancialLine have settled the last record of a kind.
settleControl(k) ==
    /\ k \in open
    /\ open' = open \ {k}
    /\ UNCHANGED <<execution, closeout, workspace, source, synced, byHand, request, overlapped>>

WithCommitment == open \cup (Control \cap {"Commitment"})

createCommitment(a) ==
    /\ Opened /\ a \in source \cap Award
    /\ byHand' = byHand \cup {a}
    /\ open' = WithCommitment
    /\ UNCHANGED <<execution, closeout, workspace, source, synced, request, overlapped>>

Met(k) == IF k = "Execution" THEN execution.status \in {"Completed", "Archived"}
                             ELSE k \notin open

BeginClose(p) ==
    /\ Opened /\ request[p] = Idle
    /\ Become(p, [op |-> "close", met |-> {}])
    /\ UNCHANGED <<rows, overlapped>>

\* closeWorkspace counts each kind, and reads the execution, by statements of
\* their own in any order, and goes on if all of them allow it ...
MeetCondition(p, k) ==
    /\ request[p].op = "close" /\ k \in Conditions \ request[p].met
    /\ Met(k)
    /\ Become(p, [op |-> "close", met |-> request[p].met \cup {k}])
    /\ UNCHANGED <<rows, overlapped>>

\* ... and closes, whatever has been opened again.
closeWorkspace(p) ==
    /\ request[p].op = "close" /\ request[p].met = Conditions
    /\ workspace' = "Closed"
    /\ Become(p, Idle)
    /\ UNCHANGED <<execution, closeout, open, source, synced, byHand, overlapped>>

\* The award of a quote line and the report of an asset incident.
NewSource(s) ==
    /\ s \notin source
    /\ source' = source \cup {s}
    /\ UNCHANGED <<execution, closeout, workspace, open, synced, byHand, request, overlapped>>

-----------------------------------------------------------------------------
(***************************************************************************)
(* synchronize                                                             *)
(***************************************************************************)

\* continuity finds the lifecycle open.  That the documents it also asks for are
\* approved is taken as given.
BeginSynchronize(p) ==
    /\ request[p] = Idle /\ workspace # "Closed"
    /\ Become(p, [op |-> "synchronize", step |-> "execution", todo |-> {}, taken |-> {},
                  missing |-> {}, plan |-> 0, types |-> {}])
    /\ overlapped' = (overlapped \/ \E q \in Proc : request[q].op = "synchronize")
    /\ UNCHANGED rows

At(p, step) == request[p].op = "synchronize" /\ request[p].step = step

Go(p, step) == Become(p, [request[p] EXCEPT !.step = step])

\* The reads, each followed by the statement it leads to.
ReadNext(p) ==
    /\ \/ At(p, "execution") /\ Go(p, IF Exists THEN "finance" ELSE "findExecution")
       \/ At(p, "findExecution") /\ Go(p, IF Exists THEN "readPlan" ELSE "createExecution")
       \/ /\ At(p, "readPlan") /\ execution.plan < MaxPlan
          /\ Become(p, [request[p] EXCEPT !.step = "writePlan", !.plan = execution.plan + 1])
       \/ At(p, "finance") /\ Go(p, IF workspace = "None" THEN "findFinance" ELSE "awards")
       \/ /\ At(p, "findFinance")
          /\ Go(p, IF workspace = "None" THEN "createFinance" ELSE "awards")
    /\ UNCHANGED <<rows, overlapped>>

SyncExecution(p) ==
    /\ At(p, "createExecution") /\ InsertExecution
    /\ Go(p, "readPlan")
    /\ UNCHANGED <<closeout, workspace, open, source, synced, byHand, overlapped>>

SyncPlan(p) ==
    /\ At(p, "writePlan")
    /\ execution' = [execution EXCEPT !.status = "Planning", !.plan = request[p].plan]
    /\ Go(p, "finance")
    /\ UNCHANGED <<closeout, workspace, open, source, synced, byHand, overlapped>>

SyncWorkspace(p) ==
    /\ At(p, "createFinance") /\ InsertWorkspace
    /\ Go(p, "awards")
    /\ UNCHANGED <<execution, closeout, source, synced, byHand, overlapped>>

\* Each loop begins with the rows its findMany returns ...
StartLoop(p, rowsFound, step) ==
    Become(p, [request[p] EXCEPT !.step = step, !.todo = rowsFound,
                                 !.taken = request[p].taken \cup rowsFound])

ReadSources(p) ==
    /\ \/ At(p, "awards") /\ StartLoop(p, source \cap Award, "awardLoop")
       \/ At(p, "incidents") /\ StartLoop(p, source \cap Incident, "incidentLoop")
    /\ UNCHANGED <<rows, overlapped>>

\* Faulty variant: what exists is not looked for.
NotRecorded(s) == TRUE

\* No commitment of the award, or change of the incident, exists.
Unrecorded(s) == synced[s] = 0 /\ s \notin byHand

\* ... and takes them one by one: a row that exists is passed over, one that is
\* found missing is created by the next statement.
LookUp(p, s) ==
    LET r == request[p] IN
    /\ At(p, "awardLoop") \/ At(p, "incidentLoop")
    /\ r.missing = {} /\ s \in r.todo
    /\ Become(p, IF Unrecorded(s) THEN [r EXCEPT !.missing = {s}]
                                  ELSE [r EXCEPT !.todo = r.todo \ {s}])
    /\ UNCHANGED <<rows, overlapped>>

createRecord(p, s) ==
    LET r == request[p] IN
    /\ At(p, "awardLoop") \/ At(p, "incidentLoop")
    /\ s \in r.missing
    /\ synced' = [synced EXCEPT ![s] = synced[s] + 1]
    /\ open' = IF s \in Award THEN WithCommitment ELSE open
    /\ Become(p, [r EXCEPT !.missing = {}, !.todo = r.todo \ {s}])
    /\ UNCHANGED <<execution, closeout, workspace, source, byHand, overlapped>>

EndLoop(p) ==
    /\ request[p].op = "synchronize" /\ request[p].todo = {}
    /\ \/ At(p, "awardLoop") /\ Go(p, "incidents")
       \/ At(p, "incidentLoop") /\ Go(p, "readCloseout")
    /\ UNCHANGED <<rows, overlapped>>

Types == {t \in {1, 2} : \E i \in DOMAIN closeout : closeout[i].type = SyncedType[t]}

\* Faulty variant: the items are created together, when there is none of them.
allOrNone(types) == IF types = {} THEN {1, 2} ELSE {}

absent(types) == {1, 2} \ types

ReadCloseout(p) ==
    /\ At(p, "readCloseout")
    /\ Become(p, [request[p] EXCEPT !.types = absent(Types), !.step = "createCloseout"])
    /\ UNCHANGED <<rows, overlapped>>

createCloseout(p) ==
    LET r == request[p] IN
    /\ At(p, "createCloseout")
    /\ IF r.types = {} THEN Go(p, "return") /\ UNCHANGED closeout
       ELSE LET t == CHOOSE t \in r.types : \A u \in r.types : t <= u
            IN  /\ AddCloseout(SyncedType[t], TRUE)
                /\ Become(p, [r EXCEPT !.types = r.types \ {t}])
    /\ UNCHANGED <<execution, workspace, open, source, synced, byHand, overlapped>>

Return(p) ==
    /\ At(p, "return")
    /\ Become(p, Idle)
    /\ UNCHANGED <<rows, overlapped>>

Synchronize(p) ==
    \/ BeginSynchronize(p) \/ ReadNext(p)
    \/ SyncExecution(p) \/ SyncPlan(p) \/ SyncWorkspace(p)
    \/ ReadSources(p) \/ EndLoop(p) \/ ReadCloseout(p) \/ createCloseout(p) \/ Return(p)
    \/ \E s \in Source : LookUp(p, s) \/ createRecord(p, s)

-----------------------------------------------------------------------------

LifecycleNext ==
    \/ \E p \in Proc : \/ Synchronize(p) \/ Stop(p)
                       \/ CheckComplete(p) \/ complete(p) \/ CheckArchive(p) \/ archive(p)
                       \/ BeginClose(p) \/ closeWorkspace(p)
                       \/ \E k \in Conditions : MeetCondition(p, k)
    \/ createExecution \/ transition \/ cancel \/ createWorkspace
    \/ \E type \in CloseoutType : createCloseoutItem(type)
    \/ \E i \in DOMAIN closeout : completeCloseoutItem(i)
    \/ \E k \in Control : openControl(k) \/ settleControl(k)
    \/ \E a \in Award : createCommitment(a)
    \/ \E s \in Source : NewSource(s)

LifecycleSpec == LifecycleInit /\ [][LifecycleNext]_lifecycleVars

-----------------------------------------------------------------------------
(***************************************************************************)
(* Properties                                                              *)
(***************************************************************************)

\* However often synchronize stops between two of its statements and is called
\* again, it records each award and incident once and makes one closeout item of
\* each type, as long as no two calls of it were in progress at once.
SynchronizedOnce ==
    ~overlapped =>
        /\ \A s \in Source : synced[s] <= 1
        /\ \A i, j \in DOMAIN closeout :
              closeout[i].synced /\ closeout[j].synced
                  /\ closeout[i].type = closeout[j].type => i = j

\* A call of synchronize that gets to its end, on its own or among others, after
\* calls that stopped or not, leaves an execution, a finance workspace, a record
\* of each award and incident it read and both closeout items.
SynchronizedWhole ==
    \A p \in Proc : At(p, "return") =>
        /\ Exists /\ workspace # "None"
        /\ \A s \in request[p].taken : synced[s] > 0 \/ s \in byHand
        /\ Types = {1, 2}

\* What the documentation says of the close, "Financial Close requires operational
\* completion": the execution of an event whose finance is closed was completed at
\* some time.
ClosedAfterCompletion == workspace = "Closed" => execution.completedAt

=============================================================================

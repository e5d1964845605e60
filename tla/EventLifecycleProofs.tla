------------------------- MODULE EventLifecycleProofs -------------------------
(***************************************************************************)
(* What the runs check of the end of an event and of the assets, for any   *)
(* number of handlers, awards, incidents, closeout items, instances and    *)
(* reservations.                                                           *)
(*                                                                         *)
(* The lifecycle: nothing synchronize creates is ever removed              *)
(* (RecordsStay), so what a call has found or created up to a statement is *)
(* still there at its next one (Progress); and while no two calls overlap, *)
(* nobody but the call itself creates what it found missing (Missing).     *)
(*                                                                         *)
(* The assets: until another reservation is inserted, reservations only    *)
(* leave, so what a request has summed up and checked still holds when it  *)
(* inserts its own (StillTrue); and the new row fits at every instant      *)
(* because all the rows in force together with it at one overlap it, so    *)
(* that the sum has counted them (ReservationCreated).                     *)
(***************************************************************************)
EXTENDS AssetManagement, FiniteSetTheorems, TLAPS

Request == {Idle} \cup SyncCall \cup [op: {"close"}, met: SUBSET Conditions]
                  \cup [op: {"complete", "archive"}]

ExecutionTypeOK ==
    execution \in [status: ExecutionStatus, plan: 0..MaxPlan,
                   completedAt: BOOLEAN, cancelledAt: BOOLEAN]

CloseoutTypeOK == closeout \in Seq(CloseoutRow) /\ Len(closeout) <= MaxCloseout

RecordsTypeOK ==
    /\ workspace \in {"None", "Active", "Closed"}
    /\ open \subseteq Control
    /\ source \subseteq Source
    /\ synced \in [Source -> Nat]
    /\ byHand \subseteq source \cap Award
    /\ overlapped \in BOOLEAN

TypeInv ==
    /\ ExecutionTypeOK
    /\ CloseoutTypeOK
    /\ RecordsTypeOK
    /\ request \in [Proc -> Request]

\* The statements a call of synchronize reaches only with an execution, and those
\* it reaches only with a workspace as well.
WithExecution == SyncStep \ {"execution", "findExecution", "createExecution"}
WithWorkspace == {"awards", "awardLoop", "incidents", "incidentLoop", "readCloseout",
                  "createCloseout", "return"}

Recorded(s) == synced[s] > 0 \/ s \in byHand

\* What a call of synchronize has seen to before its next statement.
Progress(p) ==
    LET r == request[p] IN
    r.op = "synchronize" =>
        /\ r.step \in WithExecution => Exists
        /\ r.step \in WithWorkspace => workspace # "None"
        /\ r.todo \subseteq source /\ r.missing \subseteq r.todo
        /\ r.step \notin {"awardLoop", "incidentLoop"} => r.todo = {}
        /\ \A s \in r.taken \ r.todo : Recorded(s)
        /\ r.step = "createCloseout" => {1, 2} \ r.types \subseteq Types
        /\ r.step = "return" => Types = {1, 2}

RecordsOf ==
    /\ ~Exists => execution.plan = 0 /\ closeout = << >>
    /\ workspace = "None" => open = {} /\ byHand = {}
    /\ \A s \in Source : synced[s] > 0 => s \in source /\ workspace # "None"

ProgressInv == RecordsOf /\ \A p \in Proc : Progress(p)

\* What a call has found missing, and not yet created, is missing.
Missing(p) ==
    request[p].op = "synchronize" =>
        /\ \A s \in request[p].missing : synced[s] = 0
        /\ \A t \in request[p].types, i \in DOMAIN closeout :
              closeout[i].type = SyncedType[t] => ~closeout[i].synced

OnceInv ==
    ~overlapped =>
        /\ \A p, q \in Proc :
              request[p].op = "synchronize" /\ request[q].op = "synchronize" => p = q
        /\ \A p \in Proc : Missing(p)
        /\ \A s \in Source : synced[s] <= 1
        /\ \A i, j \in DOMAIN closeout :
              closeout[i].synced /\ closeout[j].synced
                  /\ closeout[i].type = closeout[j].type => i = j

LifecycleInv == TypeInv /\ ProgressInv /\ OnceInv

-----------------------------------------------------------------------------
(***************************************************************************)
(* Types                                                                   *)
(***************************************************************************)

\* The kind of request its op says it is.
LEMMA RequestKind ==
    ASSUME NEW r \in Request
    PROVE  /\ r.op = "synchronize" => r \in SyncCall
           /\ r.op = "close" => r \in [op: {"close"}, met: SUBSET Conditions]
BY DEF Request, Idle, SyncCall

LEMMA TypeInit == LifecycleInit => TypeInv
<1> SUFFICES ASSUME LifecycleInit PROVE TypeInv
  OBVIOUS
<1>1. ExecutionTypeOK
  BY LifecycleAssumption DEF LifecycleInit, ExecutionTypeOK, ExecutionStatus
<1>2. CloseoutTypeOK
  BY LifecycleAssumption DEF LifecycleInit, CloseoutTypeOK
<1>3. RecordsTypeOK
  BY DEF LifecycleInit, RecordsTypeOK
<1>4. request \in [Proc -> Request]
  BY DEF LifecycleInit, Request
<1> QED
  BY <1>1, <1>2, <1>3, <1>4 DEF TypeInv

\* A handler that goes on to its next statement still has a request.
LEMMA RequestStep ==
    ASSUME TypeInv, NEW p \in Proc, NEW r \in Request, Become(p, r)
    PROVE  request' \in [Proc -> Request]
BY DEF TypeInv, Become

LEMMA RequestTypeStep ==
    ASSUME TypeInv, LifecycleNext
    PROVE  request' \in [Proc -> Request]
<1> USE DEF TypeInv
<1>1. CASE UNCHANGED request
  BY <1>1
<1>2. Idle \in Request /\ [op |-> "complete"] \in Request /\ [op |-> "archive"] \in Request
  BY DEF Request
<1>3. ASSUME NEW p \in Proc, Synchronize(p) PROVE request' \in [Proc -> Request]
  <2> DEFINE r == request[p]
  <2>0. r \in Request
    OBVIOUS
  <2>1. CASE BeginSynchronize(p)
    <3> DEFINE new == [op |-> "synchronize", step |-> "execution", todo |-> {}, taken |-> {},
                       missing |-> {}, plan |-> 0, types |-> {}]
    <3>1. new \in Request
      BY LifecycleAssumption DEF Request, SyncCall, SyncStep
    <3> QED
      BY <2>1, <3>1, RequestStep DEF BeginSynchronize
  <2>2. CASE Return(p)
    BY <2>2, <1>2, RequestStep DEF Return
  <2>3. CASE r.op = "synchronize"
    <3>1. r \in SyncCall
      BY <2>0, <2>3, RequestKind
    <3> HIDE DEF r
    <3>2. \A step \in SyncStep : [r EXCEPT !.step = step] \in Request
      BY <3>1 DEF Request, SyncCall
    <3>3. ASSUME NEW step \in SyncStep, Go(p, step) PROVE request' \in [Proc -> Request]
      BY <3>2, <3>3, RequestStep DEF Go, r
    <3>4. CASE ReadNext(p)
      <4>1. CASE At(p, "readPlan")
        <5>1. /\ execution.plan + 1 \in 0..MaxPlan
              /\ Become(p, [r EXCEPT !.step = "writePlan", !.plan = execution.plan + 1])
          BY <3>4, <4>1, LifecycleAssumption DEF ReadNext, At, ExecutionTypeOK, r
        <5>2. [r EXCEPT !.step = "writePlan", !.plan = execution.plan + 1] \in Request
          BY <3>1, <5>1 DEF Request, SyncCall, SyncStep
        <5> QED
          BY <5>1, <5>2, RequestStep
      <4>2. CASE ~At(p, "readPlan")
        BY <3>4, <4>2, <3>3 DEF ReadNext, SyncStep
      <4> QED
        BY <4>1, <4>2
    <3>5. CASE SyncExecution(p) \/ SyncPlan(p) \/ SyncWorkspace(p) \/ EndLoop(p)
      BY <3>5, <3>3 DEF SyncExecution, SyncPlan, SyncWorkspace, EndLoop, SyncStep
    <3>6. CASE ReadSources(p)
      <4>1. ASSUME NEW S \in SUBSET Source, NEW step \in SyncStep, StartLoop(p, S, step)
            PROVE  request' \in [Proc -> Request]
        <5>1. [r EXCEPT !.step = step, !.todo = S, !.taken = r.taken \cup S] \in Request
          BY <3>1 DEF Request, SyncCall
        <5> QED
          BY <4>1, <5>1, RequestStep DEF StartLoop, r
      <4>2. source \cap Award \in SUBSET Source /\ source \cap Incident \in SUBSET Source
        BY DEF Source
      <4> QED
        BY <3>6, <4>1, <4>2 DEF ReadSources, SyncStep
    <3>7. CASE \E s \in Source : LookUp(p, s) \/ createRecord(p, s)
      <4>1. PICK s \in Source : LookUp(p, s) \/ createRecord(p, s)
        BY <3>7
      <4>2. /\ [r EXCEPT !.missing = {s}] \in Request
            /\ [r EXCEPT !.todo = r.todo \ {s}] \in Request
            /\ [r EXCEPT !.missing = {}, !.todo = r.todo \ {s}] \in Request
        BY <3>1 DEF Request, SyncCall
      <4> QED
        BY <4>1, <4>2, RequestStep DEF LookUp, createRecord, r
    <3>8. CASE ReadCloseout(p)
      <4>1. [r EXCEPT !.types = absent(Types), !.step = "createCloseout"] \in Request
        BY <3>1 DEF Request, SyncCall, SyncStep, absent
      <4> QED
        BY <3>8, <4>1, RequestStep DEF ReadCloseout, r
    <3>9. CASE createCloseout(p)
      <4>1. \A t : [r EXCEPT !.types = r.types \ {t}] \in Request
        BY <3>1 DEF Request, SyncCall
      <4> QED
        BY <3>9, <4>1, <3>3, RequestStep DEF createCloseout, SyncStep, r
    <3> QED
      BY <1>3, <3>4, <3>5, <3>6, <3>7, <3>8, <3>9, <2>1, <2>2 DEF Synchronize
  <2> QED
    BY <1>3, <2>1, <2>2, <2>3
       DEF Synchronize, ReadNext, SyncExecution, SyncPlan, SyncWorkspace, ReadSources, EndLoop,
           ReadCloseout, createCloseout, LookUp, createRecord, At
<1>4. ASSUME NEW p \in Proc, Stop(p) PROVE request' \in [Proc -> Request]
  BY <1>4, <1>2 DEF Stop
<1>5. ASSUME NEW p \in Proc, CheckComplete(p) \/ complete(p) \/ CheckArchive(p) \/ archive(p)
                             \/ closeWorkspace(p)
      PROVE  request' \in [Proc -> Request]
  BY <1>5, <1>2, RequestStep DEF CheckComplete, complete, CheckArchive, archive, closeWorkspace
<1>6. ASSUME NEW p \in Proc, BeginClose(p) PROVE request' \in [Proc -> Request]
  <2>1. [op |-> "close", met |-> {}] \in Request
    BY DEF Request
  <2> QED
    BY <1>6, <2>1, RequestStep DEF BeginClose
<1>7. ASSUME NEW p \in Proc, NEW k \in Conditions, MeetCondition(p, k)
      PROVE  request' \in [Proc -> Request]
  <2>1. request[p].met \subseteq Conditions
    BY <1>7, RequestKind DEF MeetCondition
  <2>2. [op |-> "close", met |-> request[p].met \cup {k}] \in Request
    BY <2>1 DEF Request
  <2> QED
    BY <1>7, <2>2, RequestStep DEF MeetCondition
<1>8. CASE \/ createExecution \/ transition \/ cancel \/ createWorkspace
           \/ \E type \in CloseoutType : createCloseoutItem(type)
           \/ \E i \in DOMAIN closeout : completeCloseoutItem(i)
           \/ \E k \in Control : openControl(k) \/ settleControl(k)
           \/ \E a \in Award : createCommitment(a)
           \/ \E s \in Source : NewSource(s)
  BY <1>1, <1>8 DEF createExecution, transition, cancel, createWorkspace, createCloseoutItem,
      completeCloseoutItem, openControl, settleControl, createCommitment, NewSource
<1> QED
  BY <1>3, <1>4, <1>5, <1>6, <1>7, <1>8 DEF LifecycleNext

LEMMA ExecutionTypeStep ==
    ASSUME TypeInv, [LifecycleNext]_lifecycleVars
    PROVE  ExecutionTypeOK'
<1> USE LifecycleAssumption DEF ExecutionTypeOK, ExecutionStatus
<1>1. ExecutionTypeOK
  BY DEF TypeInv
<1>2. CASE UNCHANGED execution
  BY <1>1, <1>2
<1>3. CASE createExecution \/ transition \/ cancel \/ InsertExecution
  BY <1>1, <1>3 DEF createExecution, transition, cancel, InsertExecution
<1>4. ASSUME NEW p \in Proc, complete(p) \/ archive(p) PROVE ExecutionTypeOK'
  BY <1>1, <1>4 DEF complete, archive
<1>5. ASSUME NEW p \in Proc, SyncPlan(p) PROVE ExecutionTypeOK'
  <2>1. request[p].plan \in 0..MaxPlan
    BY <1>5, RequestKind DEF SyncPlan, At, TypeInv, SyncCall
  <2> QED
    BY <1>1, <1>5, <2>1 DEF SyncPlan
<1>6. ASSUME NEW p \in Proc, Synchronize(p) PROVE ExecutionTypeOK'
  BY <1>2, <1>3, <1>5, <1>6
     DEF Synchronize, BeginSynchronize, ReadNext, SyncExecution, SyncWorkspace,
         ReadSources, EndLoop, ReadCloseout, createCloseout, Return, LookUp, createRecord, rows
<1> QED
  BY <1>2, <1>3, <1>4, <1>6
     DEF LifecycleNext, Stop, CheckComplete, CheckArchive, BeginClose, closeWorkspace,
         MeetCondition, createWorkspace, createCloseoutItem, completeCloseoutItem,
         openControl, settleControl, createCommitment, NewSource, lifecycleVars, rows

LEMMA SyncedTypes == \A t \in {1, 2} : SyncedType[t] \in CloseoutType
BY DEF SyncedType, CloseoutType

\* The closeout items after a step: another one, or one marked done or not.
LEMMA CloseoutStep ==
    ASSUME TypeInv, [LifecycleNext]_lifecycleVars
    PROVE  \/ UNCHANGED closeout
           \/ \E i \in DOMAIN closeout : closeout' = [closeout EXCEPT ![i].done = ~closeout[i].done]
           \/ Exists /\ \E type \in CloseoutType : AddCloseout(type, FALSE)
           \/ \E p \in Proc : /\ request[p].op = "synchronize" /\ request[p].step = "createCloseout"
                              /\ createCloseout(p)
                              /\ \E t \in request[p].types :
                                    /\ t \in {1, 2}
                                    /\ AddCloseout(SyncedType[t], TRUE)
                                    /\ Become(p, [request[p] EXCEPT !.types = request[p].types \ {t}])
<1>1. CASE UNCHANGED closeout
  BY <1>1
<1>2. CASE \E type \in CloseoutType : createCloseoutItem(type)
  BY <1>2 DEF createCloseoutItem
<1>3. CASE \E i \in DOMAIN closeout : completeCloseoutItem(i)
  BY <1>3 DEF completeCloseoutItem
<1>4. ASSUME NEW p \in Proc, createCloseout(p), closeout' # closeout
      PROVE  /\ request[p].op = "synchronize" /\ request[p].step = "createCloseout"
             /\ \E t \in request[p].types :
                   /\ t \in {1, 2}
                   /\ AddCloseout(SyncedType[t], TRUE)
                   /\ Become(p, [request[p] EXCEPT !.types = request[p].types \ {t}])
  <2>1. At(p, "createCloseout") /\ request[p].types # {}
    BY <1>4 DEF createCloseout
  <2>2. request[p].types \subseteq {1, 2}
    BY <2>1, RequestKind DEF At, TypeInv, SyncCall
  <2> DEFINE t == CHOOSE t \in request[p].types : \A u \in request[p].types : t <= u
  <2>3. t \in request[p].types
    <3>1. \E x \in request[p].types : \A u \in request[p].types : x <= u
      BY <2>1, <2>2
    <3> QED
      BY <3>1
  <2>4. AddCloseout(SyncedType[t], TRUE) /\ Become(p, [request[p] EXCEPT !.types = request[p].types \ {t}])
    BY <1>4, <2>1 DEF createCloseout
  <2> HIDE DEF t
  <2> QED
    BY <2>1, <2>2, <2>3, <2>4 DEF At
<1>5. ASSUME NEW p \in Proc, Synchronize(p), ~createCloseout(p) PROVE UNCHANGED closeout
  BY <1>5
     DEF Synchronize, BeginSynchronize, ReadNext, SyncExecution, SyncWorkspace, SyncPlan,
         ReadSources, EndLoop, ReadCloseout, Return, LookUp, createRecord, rows
<1> QED
  BY <1>1, <1>2, <1>3, <1>4, <1>5
     DEF LifecycleNext, Stop, CheckComplete, complete, CheckArchive, archive, BeginClose,
         closeWorkspace, MeetCondition, createExecution, transition, cancel, createWorkspace,
         openControl, settleControl, createCommitment, NewSource, lifecycleVars, rows

LEMMA CloseoutTypeStep ==
    ASSUME TypeInv, [LifecycleNext]_lifecycleVars
    PROVE  CloseoutTypeOK' /\ Types \subseteq Types'
<1>1. closeout \in Seq(CloseoutRow) /\ Len(closeout) <= MaxCloseout
  BY DEF TypeInv, CloseoutTypeOK
<1>2. CASE UNCHANGED closeout
  BY <1>1, <1>2 DEF CloseoutTypeOK, Types
<1>3. ASSUME NEW i \in DOMAIN closeout, closeout' = [closeout EXCEPT ![i].done = ~closeout[i].done]
      PROVE  CloseoutTypeOK' /\ Types \subseteq Types'
  <2>1. closeout[i] \in CloseoutRow
    BY <1>1
  <2> DEFINE new == [closeout[i] EXCEPT !.done = ~closeout[i].done]
  <2>2. new \in CloseoutRow /\ new.type = closeout[i].type
    BY <2>1 DEF CloseoutRow
  <2>3. closeout' = [closeout EXCEPT ![i] = new]
    BY <1>3
  <2> HIDE DEF new
  <2>4. closeout' \in Seq(CloseoutRow) /\ Len(closeout') = Len(closeout)
    BY <1>1, <2>2, <2>3
  <2>5. DOMAIN closeout' = DOMAIN closeout /\ \A j \in DOMAIN closeout : closeout'[j].type = closeout[j].type
    BY <1>1, <2>2, <2>3
  <2> QED
    BY <1>1, <2>4, <2>5 DEF CloseoutTypeOK, Types
<1>4. ASSUME NEW type \in CloseoutType, NEW bySync \in BOOLEAN, AddCloseout(type, bySync)
      PROVE  CloseoutTypeOK' /\ Types \subseteq Types'
  <2> DEFINE new == [type |-> type, done |-> FALSE, synced |-> bySync]
  <2>1. new \in CloseoutRow
    BY DEF CloseoutRow
  <2>2. Len(closeout) < MaxCloseout /\ closeout' = Append(closeout, new)
    BY <1>4 DEF AddCloseout
  <2> HIDE DEF new
  <2>3. closeout' \in Seq(CloseoutRow) /\ Len(closeout') = Len(closeout) + 1
    BY <1>1, <2>1, <2>2
  <2>4. \A j \in DOMAIN closeout : j \in DOMAIN closeout' /\ closeout'[j] = closeout[j]
    BY <1>1, <2>1, <2>2
  <2> QED
    BY <1>1, <2>2, <2>3, <2>4, LifecycleAssumption DEF CloseoutTypeOK, Types
<1> QED
  BY <1>2, <1>3, <1>4, CloseoutStep, SyncedTypes

LEMMA RecordsTypeStep ==
    ASSUME TypeInv, [LifecycleNext]_lifecycleVars
    PROVE  RecordsTypeOK'
<1> USE DEF RecordsTypeOK
<1>1. RecordsTypeOK
  BY DEF TypeInv
<1>2. CASE UNCHANGED <<workspace, open, source, synced, byHand, overlapped>>
  BY <1>1, <1>2
<1>3. CASE /\ \/ InsertWorkspace
              \/ \E k \in Control : \/ open' = open \cup {k} \/ open' = open \ {k}
              \/ open' = WithCommitment
           /\ workspace' \in {workspace, "Active"}
           /\ UNCHANGED <<source, synced, byHand, overlapped>>
  BY <1>1, <1>3 DEF InsertWorkspace, WithCommitment
<1>4. CASE \E a \in Award : createCommitment(a)
  BY <1>1, <1>4 DEF createCommitment, WithCommitment
<1>5. CASE \E s \in Source : NewSource(s)
  BY <1>1, <1>5 DEF NewSource
<1>6. ASSUME NEW p \in Proc, Synchronize(p) PROVE RecordsTypeOK'
  <2>1. CASE BeginSynchronize(p)
    BY <1>1, <2>1 DEF BeginSynchronize, rows
  <2>2. CASE \E s \in Source : createRecord(p, s)
    <3>1. PICK s \in Source : createRecord(p, s)
      BY <2>2
    <3>2. synced' \in [Source -> Nat]
      BY <1>1, <3>1 DEF createRecord
    <3>3. open' \subseteq Control
      BY <1>1, <3>1 DEF createRecord, WithCommitment
    <3> QED
      BY <1>1, <3>1, <3>2, <3>3 DEF createRecord
  <2>3. CASE SyncWorkspace(p)
    BY <1>1, <2>3 DEF SyncWorkspace, InsertWorkspace
  <2> QED
    BY <1>2, <1>6, <2>1, <2>2, <2>3
     DEF Synchronize, ReadNext, SyncExecution, SyncPlan,
         ReadSources, EndLoop, ReadCloseout, createCloseout, Return, LookUp, rows
<1>7. CASE createWorkspace
  BY <1>1, <1>7 DEF createWorkspace, InsertWorkspace
<1>8. ASSUME NEW p \in Proc, closeWorkspace(p) PROVE RecordsTypeOK'
  BY <1>1, <1>8 DEF closeWorkspace
<1> QED
  BY <1>2, <1>3, <1>4, <1>5, <1>6, <1>7, <1>8
     DEF LifecycleNext, Stop, CheckComplete, complete, CheckArchive, archive, BeginClose,
         MeetCondition, createExecution, transition, cancel, createCloseoutItem,
         completeCloseoutItem, openControl, settleControl, lifecycleVars, rows

LEMMA TypeStep ==
    ASSUME TypeInv, [LifecycleNext]_lifecycleVars
    PROVE  TypeInv'
<1>1. request' \in [Proc -> Request]
  BY RequestTypeStep DEF TypeInv, lifecycleVars
<1> QED
  BY <1>1, ExecutionTypeStep, CloseoutTypeStep, RecordsTypeStep DEF TypeInv

-----------------------------------------------------------------------------
(***************************************************************************)
(* What synchronize creates is never removed                               *)
(***************************************************************************)

LEMMA ExecutionStays ==
    ASSUME TypeInv, [LifecycleNext]_lifecycleVars
    PROVE  Exists => Exists'
<1>1. ExecutionTypeOK
  BY DEF TypeInv
<1>2. CASE UNCHANGED execution
  BY <1>2 DEF Exists
<1>3. CASE createExecution \/ transition \/ cancel \/ InsertExecution
  BY <1>1, <1>3
     DEF createExecution, transition, cancel, InsertExecution, Exists, ExecutionTypeOK
<1>4. ASSUME NEW p \in Proc, complete(p) \/ archive(p) \/ SyncPlan(p)
      PROVE  Exists => Exists'
  BY <1>1, <1>4 DEF complete, archive, SyncPlan, Exists, ExecutionTypeOK
<1>5. ASSUME NEW p \in Proc, Synchronize(p)
      PROVE  Exists => Exists'
  BY <1>2, <1>3, <1>4, <1>5
     DEF Synchronize, BeginSynchronize, ReadNext, SyncExecution, SyncWorkspace,
         ReadSources, EndLoop, ReadCloseout, createCloseout, Return, LookUp, createRecord, rows
<1> QED
  BY <1>2, <1>3, <1>4, <1>5
     DEF LifecycleNext, Stop, CheckComplete, CheckArchive, BeginClose, closeWorkspace,
         MeetCondition, createWorkspace, createCloseoutItem, completeCloseoutItem,
         openControl, settleControl, createCommitment, NewSource, lifecycleVars, rows

\* The records of a step but for those of execution and closeout.
LEMMA RecordsStay ==
    ASSUME TypeInv, [LifecycleNext]_lifecycleVars
    PROVE  /\ workspace # "None" => workspace' # "None"
           /\ source \subseteq source'
           /\ \A s \in Source : /\ synced[s] <= synced'[s]
                                /\ Recorded(s) => Recorded(s)'
<1>1. RecordsTypeOK
  BY DEF TypeInv
<1> USE DEF Recorded
<1>2. CASE UNCHANGED <<workspace, source, synced, byHand>>
  BY <1>1, <1>2 DEF RecordsTypeOK
<1>3. CASE UNCHANGED <<source, synced, byHand>> /\ workspace' \in {"Active", "Closed"}
  BY <1>1, <1>3 DEF RecordsTypeOK
<1>4. CASE \E a \in Award : createCommitment(a)
  BY <1>1, <1>4 DEF createCommitment, RecordsTypeOK
<1>5. CASE \E s \in Source : NewSource(s)
  BY <1>1, <1>5 DEF NewSource, RecordsTypeOK
<1>6. ASSUME NEW p \in Proc, NEW s \in Source, createRecord(p, s)
      PROVE  /\ UNCHANGED <<workspace, source, byHand>>
             /\ \A x \in Source : synced[x] <= synced'[x]
             /\ \A x \in Source : Recorded(x) => Recorded(x)'
  <2>1. synced' = [synced EXCEPT ![s] = synced[s] + 1] /\ synced \in [Source -> Nat]
    BY <1>1, <1>6 DEF createRecord, RecordsTypeOK
  <2>2. \A x \in Source : /\ synced[x] \in Nat
                          /\ synced'[x] = synced[x] \/ synced'[x] = synced[x] + 1
    BY <2>1
  <2>3. UNCHANGED <<workspace, source, byHand>>
    BY <1>6 DEF createRecord
  <2> QED
    BY <2>2, <2>3
<1>7. ASSUME NEW p \in Proc, Synchronize(p), ~ \E s \in Source : createRecord(p, s)
      PROVE  \/ UNCHANGED <<workspace, source, synced, byHand>>
             \/ UNCHANGED <<source, synced, byHand>> /\ workspace' \in {"Active", "Closed"}
  BY <1>7
     DEF Synchronize, BeginSynchronize, ReadNext, SyncExecution, SyncPlan, SyncWorkspace,
         InsertWorkspace, ReadSources, EndLoop, ReadCloseout, createCloseout, Return, LookUp, rows
<1>8. ASSUME NEW p \in Proc, closeWorkspace(p)
      PROVE  UNCHANGED <<source, synced, byHand>> /\ workspace' \in {"Active", "Closed"}
  BY <1>8 DEF closeWorkspace
<1>9. CASE createWorkspace
  BY <1>3, <1>9 DEF createWorkspace, InsertWorkspace
<1> QED
  BY <1>2, <1>3, <1>4, <1>5, <1>6, <1>7, <1>8, <1>9
     DEF LifecycleNext, Stop, CheckComplete, complete, CheckArchive, archive, BeginClose,
         MeetCondition, createExecution, transition, cancel, createCloseoutItem,
         completeCloseoutItem, openControl, settleControl, lifecycleVars, rows

\* Only its handler changes a request.
LEMMA OneRequest ==
    ASSUME TypeInv, [LifecycleNext]_lifecycleVars
    PROVE  \/ UNCHANGED request
           \/ \E p \in Proc : /\ \/ Synchronize(p) \/ Stop(p)
                                 \/ CheckComplete(p) \/ complete(p)
                                 \/ CheckArchive(p) \/ archive(p)
                                 \/ BeginClose(p) \/ closeWorkspace(p)
                                 \/ \E k \in Conditions : MeetCondition(p, k)
                              /\ \E r : Become(p, r)
<1>1. CASE UNCHANGED request
  BY <1>1
<1>2. ASSUME NEW p \in Proc, Synchronize(p) PROVE UNCHANGED request \/ \E r : Become(p, r)
  BY <1>2 DEF Synchronize, BeginSynchronize, ReadNext, SyncExecution, SyncPlan, SyncWorkspace,
         ReadSources, StartLoop, EndLoop, ReadCloseout, createCloseout, Return, LookUp,
         createRecord, Go
<1>3. ASSUME NEW p \in Proc,
             \/ Stop(p) \/ CheckComplete(p) \/ complete(p) \/ CheckArchive(p) \/ archive(p)
             \/ BeginClose(p) \/ closeWorkspace(p) \/ \E k \in Conditions : MeetCondition(p, k)
      PROVE  \E r : Become(p, r)
  BY <1>3 DEF Stop, CheckComplete, complete, CheckArchive, archive, BeginClose,
      closeWorkspace, MeetCondition, Become
<1> QED
  BY <1>1, <1>2, <1>3
     DEF LifecycleNext, createExecution, transition, cancel, createWorkspace, createCloseoutItem,
         completeCloseoutItem, openControl, settleControl, createCommitment, NewSource,
         lifecycleVars

-----------------------------------------------------------------------------
(***************************************************************************)
(* What a call of synchronize has seen to                                  *)
(***************************************************************************)

LEMMA RecordsOfStep ==
    ASSUME TypeInv, ProgressInv, [LifecycleNext]_lifecycleVars
    PROVE  RecordsOf'
<1>1. ExecutionTypeOK /\ RecordsTypeOK /\ RecordsOf /\ CloseoutTypeOK
  BY DEF TypeInv, ProgressInv
<1>2. ~Exists' => execution'.plan = 0 /\ closeout' = << >>
  <2> SUFFICES ASSUME ~Exists' PROVE execution'.plan = 0 /\ closeout' = << >>
    OBVIOUS
  <2>1. ~Exists /\ closeout = << >> /\ execution.plan = 0
    BY <1>1, ExecutionStays DEF RecordsOf
  <2>2. UNCHANGED execution
    <3>1. ASSUME NEW p \in Proc, Synchronize(p) PROVE UNCHANGED execution
      BY <3>1, <1>1
         DEF Synchronize, BeginSynchronize, ReadNext, SyncExecution, InsertExecution, SyncPlan,
             SyncWorkspace, ReadSources, EndLoop, ReadCloseout, createCloseout, Return, LookUp,
             createRecord, rows, ExecutionTypeOK, Exists
    <3>2. ASSUME NEW p \in Proc, complete(p) \/ archive(p) PROVE FALSE
      BY <3>2, <1>1 DEF complete, archive, Exists, ExecutionTypeOK
    <3> QED
      BY <1>1, <3>1, <3>2
         DEF LifecycleNext, Stop, CheckComplete, CheckArchive, BeginClose, closeWorkspace,
             MeetCondition, createExecution, InsertExecution, transition, cancel, createWorkspace,
             createCloseoutItem, completeCloseoutItem, openControl, settleControl,
             createCommitment, NewSource, lifecycleVars, rows, Exists, ExecutionTypeOK
  <2>3. UNCHANGED closeout
    <3>1. ASSUME NEW p \in Proc, request[p].op = "synchronize", request[p].step = "createCloseout"
          PROVE  Exists
      BY <3>1 DEF ProgressInv, Progress, WithExecution, SyncStep
    <3>2. DOMAIN closeout = {}
      BY <2>1
    <3> QED
      BY <2>1, <3>1, <3>2, CloseoutStep
  <2> QED
    BY <2>1, <2>2, <2>3
<1>3. ASSUME NEW p \in Proc, NEW s \in Source, createRecord(p, s)
      PROVE  s \in source /\ workspace # "None" /\ workspace' # "None"
  <2>1. request[p].op = "synchronize" /\ request[p].step \in WithWorkspace /\ s \in request[p].missing
    BY <1>3 DEF createRecord, At, WithWorkspace
  <2>2. Progress(p)
    BY DEF ProgressInv
  <2>3. s \in source /\ workspace # "None"
    BY <2>1, <2>2 DEF Progress
  <2>4. workspace' = workspace
    BY <1>3 DEF createRecord
  <2> QED
    BY <2>3, <2>4
<1>4. workspace' = "None" => open' = {} /\ byHand' = {}
  <2> SUFFICES ASSUME workspace' = "None" PROVE open' = {} /\ byHand' = {}
    OBVIOUS
  <2>1. workspace = "None" /\ open = {} /\ byHand = {}
    BY <1>1, RecordsStay DEF RecordsOf
  <2>2. ASSUME NEW p \in Proc, Synchronize(p) PROVE open' = open /\ byHand' = byHand
    BY <1>3, <2>1, <2>2
       DEF Synchronize, BeginSynchronize, ReadNext, SyncExecution, SyncPlan, SyncWorkspace,
           InsertWorkspace, ReadSources, EndLoop, ReadCloseout, createCloseout, Return, LookUp,
           rows
  <2> QED
    BY <2>1, <2>2
       DEF LifecycleNext, Stop, CheckComplete, complete, CheckArchive, archive, BeginClose,
           closeWorkspace, MeetCondition, createExecution, transition, cancel, createWorkspace,
           InsertWorkspace, createCloseoutItem, completeCloseoutItem, openControl, settleControl,
           createCommitment, NewSource, lifecycleVars, rows, Opened
<1>5. \A s \in Source : synced'[s] > 0 => s \in source' /\ workspace' # "None"
  <2> SUFFICES ASSUME NEW s \in Source, synced'[s] > 0
               PROVE  s \in source' /\ workspace' # "None"
    OBVIOUS
  <2>1. CASE synced'[s] = synced[s]
    BY <2>1, <1>1, RecordsStay DEF RecordsOf
  <2>2. CASE synced'[s] # synced[s]
    <3>1. PICK p \in Proc, x \in Source : createRecord(p, x)
      BY <2>2
         DEF LifecycleNext, Stop, CheckComplete, complete, CheckArchive, archive, BeginClose,
             closeWorkspace, MeetCondition, createExecution, transition, cancel, createWorkspace,
             createCloseoutItem, completeCloseoutItem, openControl, settleControl,
             createCommitment, NewSource, lifecycleVars, rows, Synchronize, BeginSynchronize,
             ReadNext, SyncExecution, SyncPlan, SyncWorkspace, ReadSources, EndLoop,
             ReadCloseout, createCloseout, Return, LookUp
    <3>2. x = s
      BY <2>2, <3>1, <1>1 DEF createRecord, RecordsTypeOK
    <3> QED
      BY <1>3, <3>1, <3>2, RecordsStay
  <2> QED
    BY <2>1, <2>2
<1> QED
  BY <1>2, <1>4, <1>5 DEF RecordsOf

\* A handler that is not the one taking the step keeps what it has seen to.
LEMMA ProgressKept ==
    ASSUME TypeInv, [LifecycleNext]_lifecycleVars, NEW p \in Proc, Progress(p),
           UNCHANGED request[p]
    PROVE  Progress(p)'
<1>1. CASE request[p].op = "synchronize"
  <2>1. request[p] \in SyncCall /\ request'[p] = request[p]
    BY <1>1, RequestKind DEF TypeInv
  <2>2. request[p].taken \subseteq Source
    BY <2>1 DEF SyncCall
  <2>3. Types' \subseteq {1, 2}
    BY DEF Types
  <2> QED
    BY <1>1, <2>1, <2>2, <2>3, ExecutionStays, RecordsStay, CloseoutTypeStep DEF Progress
<1>2. CASE request[p].op # "synchronize"
  BY <1>2 DEF Progress
<1> QED
  BY <1>1, <1>2

\* A step of synchronize leads to a statement that it has seen to.
LEMMA ProgressStep ==
    ASSUME TypeInv, ProgressInv, [LifecycleNext]_lifecycleVars, NEW p \in Proc, Synchronize(p)
    PROVE  Progress(p)'
<1> DEFINE r == request[p]
<1>1. request \in [Proc -> Request] /\ ExecutionTypeOK /\ RecordsTypeOK /\ Progress(p)
  BY DEF TypeInv, ProgressInv
<1>2. CASE BeginSynchronize(p)
  <2>1. request'[p] = [op |-> "synchronize", step |-> "execution", todo |-> {}, taken |-> {},
                       missing |-> {}, plan |-> 0, types |-> {}]
    BY <1>1, <1>2 DEF BeginSynchronize, Become
  <2> QED
    BY <2>1 DEF Progress, WithExecution, WithWorkspace
<1>3. CASE Return(p)
  BY <1>1, <1>3 DEF Return, Become, Idle, Progress
<1>4. CASE r.op = "synchronize" /\ ~BeginSynchronize(p) /\ ~Return(p)
  <2>1. r \in SyncCall
    BY <1>1, <1>4, RequestKind
  <2>2. r.taken \subseteq Source /\ r.todo \subseteq Source /\ r.types \subseteq {1, 2}
    BY <2>1 DEF SyncCall
  <2>3. /\ Exists => Exists'
        /\ workspace # "None" => workspace' # "None"
        /\ source \subseteq source'
        /\ \A s \in Source : Recorded(s) => Recorded(s)'
        /\ Types \subseteq Types' /\ Types' \subseteq {1, 2}
    BY ExecutionStays, RecordsStay, CloseoutTypeStep DEF Types
  <2>4. /\ r.step \in WithExecution => Exists'
        /\ r.step \in WithWorkspace => workspace' # "None"
        /\ r.todo \subseteq source' /\ r.missing \subseteq r.todo
        /\ r.step \notin {"awardLoop", "incidentLoop"} => r.todo = {}
        /\ \A s \in r.taken \ r.todo : Recorded(s)'
        /\ r.step = "createCloseout" => {1, 2} \ r.types \subseteq Types'
    BY <1>1, <1>4, <2>2, <2>3 DEF Progress
  <2>5. ASSUME NEW new, new.op = "synchronize", Become(p, new),
               /\ new.step \in WithExecution => Exists'
               /\ new.step \in WithWorkspace => workspace' # "None"
               /\ new.todo \subseteq source' /\ new.missing \subseteq new.todo
               /\ new.step \notin {"awardLoop", "incidentLoop"} => new.todo = {}
               /\ \A s \in new.taken \ new.todo : Recorded(s)'
               /\ new.step = "createCloseout" => {1, 2} \ new.types \subseteq Types'
               /\ new.step = "return" => Types' = {1, 2}
        PROVE  Progress(p)'
    <3>1. request'[p] = new
      BY <1>1, <2>5 DEF Become
    <3> HIDE DEF r
    <3> QED
      BY <2>5, <3>1 DEF Progress
  <2> HIDE DEF r
  <2>6. ASSUME NEW step \in SyncStep, Go(p, step),
               /\ step \in WithExecution => Exists'
               /\ step \in WithWorkspace => workspace' # "None"
               /\ step \notin {"awardLoop", "incidentLoop"} => r.todo = {}
               /\ step = "createCloseout" => {1, 2} \ r.types \subseteq Types'
               /\ step = "return" => Types' = {1, 2}
        PROVE  Progress(p)'
    <3> DEFINE new == [r EXCEPT !.step = step]
    <3>1. /\ new.op = "synchronize" /\ new.step = step /\ new.todo = r.todo
          /\ new.missing = r.missing /\ new.taken = r.taken /\ new.types = r.types
      BY <1>4, <2>1 DEF SyncCall
    <3>2. Become(p, new)
      BY <2>6 DEF Go, r
    <3> HIDE DEF new
    <3> QED
      BY <2>4, <2>5, <2>6, <3>1, <3>2
  <2>7. CASE ReadNext(p)
    <3>1. CASE At(p, "readPlan")
      <4> DEFINE new == [r EXCEPT !.step = "writePlan", !.plan = execution.plan + 1]
      <4>1. /\ new.op = "synchronize" /\ new.step = "writePlan" /\ new.todo = r.todo
            /\ new.missing = r.missing /\ new.taken = r.taken
        BY <1>4, <2>1 DEF SyncCall
      <4>2. Become(p, new)
        BY <2>7, <3>1 DEF ReadNext, At, r
      <4>3. r.step = "readPlan"
        BY <3>1 DEF At, r
      <4> HIDE DEF new
      <4> QED
        BY <2>4, <2>5, <4>1, <4>2, <4>3 DEF WithExecution, WithWorkspace, SyncStep
    <3>2. CASE ~At(p, "readPlan")
      <4>1. /\ r.step \in {"execution", "findExecution", "finance", "findFinance"}
            /\ \/ r.step = "execution" /\ Go(p, IF Exists THEN "finance" ELSE "findExecution")
               \/ r.step = "findExecution" /\ Go(p, IF Exists THEN "readPlan" ELSE "createExecution")
               \/ r.step = "finance" /\ Go(p, IF workspace = "None" THEN "findFinance" ELSE "awards")
               \/ r.step = "findFinance" /\ Go(p, IF workspace = "None" THEN "createFinance" ELSE "awards")
            /\ UNCHANGED workspace
        BY <2>7, <3>2 DEF ReadNext, At, r, rows
      <4> QED
        BY <4>1, <2>3, <2>4, <2>6 DEF WithExecution, WithWorkspace, SyncStep
    <3> QED
      BY <3>1, <3>2
  <2>8. CASE SyncExecution(p)
    <3>1. r.step = "createExecution" /\ Go(p, "readPlan") /\ Exists'
      BY <1>1, <2>8 DEF SyncExecution, InsertExecution, At, r, Exists, ExecutionTypeOK
    <3> QED
      BY <3>1, <2>4, <2>6 DEF WithExecution, WithWorkspace, SyncStep
  <2>9. CASE SyncPlan(p)
    <3>1. r.step = "writePlan" /\ Go(p, "finance")
      BY <2>9 DEF SyncPlan, At, r
    <3> QED
      BY <3>1, <2>4, <2>6 DEF WithExecution, WithWorkspace, SyncStep
  <2>10. CASE SyncWorkspace(p)
    <3>1. r.step = "createFinance" /\ Go(p, "awards") /\ workspace' = "Active"
      BY <2>10 DEF SyncWorkspace, InsertWorkspace, At, r
    <3> QED
      BY <3>1, <2>4, <2>6 DEF WithExecution, WithWorkspace, SyncStep
  <2>11. CASE ReadSources(p)
    <3>1. PICK step \in {"awardLoop", "incidentLoop"}, S \in {Award, Incident} :
             StartLoop(p, source \cap S, step)
      BY <2>11 DEF ReadSources
    <3>2. r.step \in {"awards", "incidents"} /\ UNCHANGED source
      BY <2>11 DEF ReadSources, At, r, rows
    <3> DEFINE new == [r EXCEPT !.step = step, !.todo = source \cap S,
                                !.taken = r.taken \cup (source \cap S)]
    <3>3. /\ new.op = "synchronize" /\ new.step = step /\ new.todo = source \cap S
          /\ new.missing = r.missing /\ new.taken = r.taken \cup (source \cap S)
      BY <1>4, <2>1 DEF SyncCall
    <3>4. Become(p, new)
      BY <3>1 DEF StartLoop, r
    <3> HIDE DEF new
    <3>5. r.todo = {} /\ r.missing = {} /\ Exists' /\ workspace' # "None"
      BY <3>2, <2>4 DEF WithExecution, WithWorkspace, SyncStep
    <3> QED
      BY <2>4, <2>5, <3>2, <3>3, <3>4, <3>5
  <2>12. ASSUME NEW s \in Source, LookUp(p, s) \/ createRecord(p, s) PROVE Progress(p)'
    <3>1. r.step \in {"awardLoop", "incidentLoop"} /\ Exists' /\ workspace' # "None"
      <4>1. r.step \in {"awardLoop", "incidentLoop"}
        BY <2>12 DEF LookUp, createRecord, At, r
      <4> QED
        BY <4>1, <2>4 DEF WithExecution, WithWorkspace, SyncStep
    <3>2. CASE LookUp(p, s) /\ Unrecorded(s)
      <4> DEFINE new == [r EXCEPT !.missing = {s}]
      <4>1. /\ new.op = "synchronize" /\ new.step = r.step /\ new.todo = r.todo
            /\ new.missing = {s} /\ new.taken = r.taken
        BY <1>4, <2>1 DEF SyncCall
      <4>2. Become(p, new) /\ s \in r.todo
        BY <3>2 DEF LookUp, r
      <4> HIDE DEF new
      <4> QED
        BY <2>4, <2>5, <3>1, <4>1, <4>2
    <3>3. CASE (LookUp(p, s) /\ ~Unrecorded(s)) \/ createRecord(p, s)
      <4> DEFINE new == IF createRecord(p, s) THEN [r EXCEPT !.missing = {}, !.todo = r.todo \ {s}]
                                              ELSE [r EXCEPT !.todo = r.todo \ {s}]
      <4>1. r.missing = {} \/ createRecord(p, s)
        BY <3>3 DEF LookUp, r
      <4>2. /\ new.op = "synchronize" /\ new.step = r.step /\ new.todo = r.todo \ {s}
            /\ new.missing = {} /\ new.taken = r.taken
        BY <1>4, <2>1, <4>1 DEF SyncCall
      <4>3. Become(p, new)
        BY <3>3 DEF LookUp, createRecord, r
      <4>4. Recorded(s)'
        <5>1. CASE LookUp(p, s) /\ ~Unrecorded(s)
          <6>1. synced[s] \in Nat /\ UNCHANGED <<synced, byHand>>
            BY <1>1, <5>1 DEF LookUp, rows, RecordsTypeOK
          <6> QED
            BY <5>1, <6>1 DEF Unrecorded, Recorded
        <5>2. CASE createRecord(p, s)
          <6>1. synced \in [Source -> Nat] /\ synced' = [synced EXCEPT ![s] = synced[s] + 1]
            BY <1>1, <5>2 DEF createRecord, RecordsTypeOK
          <6>2. synced'[s] > 0
            BY <6>1
          <6> QED
            BY <6>2 DEF Recorded
        <5> QED
          BY <3>3, <5>1, <5>2
      <4> HIDE DEF new
      <4> QED
        BY <2>4, <2>5, <3>1, <4>2, <4>3, <4>4
    <3> QED
      BY <2>12, <3>2, <3>3
  <2>13. CASE EndLoop(p)
    <3>1. \/ r.step = "awardLoop" /\ Go(p, "incidents")
          \/ r.step = "incidentLoop" /\ Go(p, "readCloseout")
      BY <2>13 DEF EndLoop, At, r
    <3>2. r.todo = {}
      BY <2>13 DEF EndLoop, r
    <3> QED
      BY <3>1, <3>2, <2>4, <2>6 DEF WithExecution, WithWorkspace, SyncStep
  <2>14. CASE ReadCloseout(p)
    <3> DEFINE new == [r EXCEPT !.types = absent(Types), !.step = "createCloseout"]
    <3>1. /\ new.op = "synchronize" /\ new.step = "createCloseout" /\ new.todo = r.todo
          /\ new.missing = r.missing /\ new.taken = r.taken /\ new.types = {1, 2} \ Types
      BY <1>4, <2>1 DEF SyncCall, absent
    <3>2. r.step = "readCloseout" /\ Become(p, new)
      BY <2>14 DEF ReadCloseout, At, r
    <3> HIDE DEF new
    <3>3. {1, 2} \ new.types \subseteq Types'
      BY <2>3, <3>1 DEF Types
    <3> QED
      BY <2>4, <2>5, <3>1, <3>2, <3>3 DEF WithExecution, WithWorkspace, SyncStep
  <2>15. CASE createCloseout(p)
    <3>1. r.step = "createCloseout"
      BY <2>15 DEF createCloseout, At, r
    <3>2. CASE r.types = {}
      <4>1. Go(p, "return")
        BY <2>15, <3>2 DEF createCloseout, r
      <4>2. Types' = {1, 2}
        BY <2>3, <2>4, <3>1, <3>2
      <4> QED
        BY <2>4, <2>6, <3>1, <4>1, <4>2 DEF WithExecution, WithWorkspace, SyncStep
    <3>3. CASE r.types # {}
      <4> DEFINE t == CHOOSE t \in r.types : \A u \in r.types : t <= u
                 new == [r EXCEPT !.types = r.types \ {t}]
      <4>1. Become(p, new) /\ AddCloseout(SyncedType[t], TRUE)
        BY <2>15, <3>3 DEF createCloseout, r
      <4>2. t \in {1, 2}
        <5>1. \E x \in r.types : \A u \in r.types : x <= u
          BY <2>2, <3>3
        <5> QED
          BY <2>2, <5>1
      <4> HIDE DEF t
      <4>3. /\ new.op = "synchronize" /\ new.step = "createCloseout" /\ new.todo = r.todo
            /\ new.missing = r.missing /\ new.taken = r.taken /\ new.types = r.types \ {t}
        BY <1>4, <2>1, <3>1 DEF SyncCall
      <4> HIDE DEF new
      <4>4. t \in Types'
        <5> DEFINE row == [type |-> SyncedType[t], done |-> FALSE, synced |-> TRUE]
        <5>1. closeout \in Seq(CloseoutRow) /\ row \in CloseoutRow
          BY <4>2, SyncedTypes DEF TypeInv, CloseoutTypeOK, CloseoutRow
        <5>2. closeout' = Append(closeout, row) /\ row.type = SyncedType[t]
          BY <4>1 DEF AddCloseout
        <5> HIDE DEF row
        <5>3. Len(closeout) + 1 \in DOMAIN closeout' /\ closeout'[Len(closeout) + 1] = row
          BY <5>1, <5>2
        <5> QED
          BY <4>2, <5>2, <5>3 DEF Types
      <4> QED
        BY <2>4, <2>5, <3>1, <4>1, <4>3, <4>4 DEF WithExecution, WithWorkspace, SyncStep
    <3> QED
      BY <3>2, <3>3
  <2> QED
    BY <1>4, <2>7, <2>8, <2>9, <2>10, <2>11, <2>12, <2>13, <2>14, <2>15 DEF Synchronize
<1> QED
  BY <1>2, <1>3, <1>4
     DEF Synchronize, ReadNext, SyncExecution, SyncPlan, SyncWorkspace, ReadSources, EndLoop,
         ReadCloseout, createCloseout, LookUp, createRecord, At

LEMMA ProgressInvStep ==
    ASSUME TypeInv, ProgressInv, [LifecycleNext]_lifecycleVars
    PROVE  ProgressInv'
<1>1. ASSUME NEW p \in Proc PROVE Progress(p)'
  <2>1. CASE UNCHANGED request[p]
    BY <2>1, ProgressKept DEF ProgressInv
  <2>2. CASE request'[p] # request[p]
    <3>1. PICK q \in Proc : /\ \/ Synchronize(q) \/ Stop(q)
                               \/ CheckComplete(q) \/ complete(q)
                               \/ CheckArchive(q) \/ archive(q)
                               \/ BeginClose(q) \/ closeWorkspace(q)
                               \/ \E k \in Conditions : MeetCondition(q, k)
                            /\ \E r : Become(q, r)
      BY <2>2, OneRequest
    <3>2. q = p
      BY <2>2, <3>1 DEF Become, TypeInv
    <3>3. CASE Synchronize(p)
      BY <3>3, ProgressStep
    <3>4. CASE ~Synchronize(p)
      <4>1. \/ Become(p, Idle) \/ Become(p, [op |-> "complete"]) \/ Become(p, [op |-> "archive"])
            \/ \E met : Become(p, [op |-> "close", met |-> met])
        BY <3>1, <3>2, <3>4 DEF Stop, CheckComplete, complete, CheckArchive, archive, BeginClose,
            closeWorkspace, MeetCondition, Become
      <4>2. request'[p].op # "synchronize"
        BY <4>1 DEF Become, Idle, TypeInv
      <4> QED
        BY <4>2 DEF Progress
    <3> QED
      BY <3>3, <3>4
  <2> QED
    BY <2>1, <2>2
<1> QED
  BY <1>1, RecordsOfStep DEF ProgressInv

-----------------------------------------------------------------------------
(***************************************************************************)
(* Once                                                                    *)
(***************************************************************************)

\* The request of a handler after a step, in so far as OnceInv depends on it.
LEMMA MissingStep ==
    ASSUME TypeInv, [LifecycleNext]_lifecycleVars, NEW p \in Proc,
           request'[p].op = "synchronize"
    PROVE  \/ request'[p] = request[p]
           \/ request[p].op # "synchronize" /\ BeginSynchronize(p)
              /\ request'[p].missing = {} /\ request'[p].types = {}
           \/ /\ request[p].op = "synchronize"
              /\ \/ request'[p].missing \subseteq request[p].missing
                 \/ \E s \in Source : Unrecorded(s) /\ request'[p].missing = {s}
              /\ \/ request'[p].types \subseteq request[p].types
                 \/ request'[p].types = absent(Types) /\ UNCHANGED closeout
<1> SUFFICES ASSUME request'[p] # request[p]
             PROVE  \/ request[p].op # "synchronize" /\ BeginSynchronize(p)
                       /\ request'[p].missing = {} /\ request'[p].types = {}
                    \/ /\ request[p].op = "synchronize"
                       /\ \/ request'[p].missing \subseteq request[p].missing
                          \/ \E s \in Source : Unrecorded(s) /\ request'[p].missing = {s}
                       /\ \/ request'[p].types \subseteq request[p].types
                          \/ request'[p].types = absent(Types) /\ UNCHANGED closeout
  OBVIOUS
<1> DEFINE r == request[p]
<1>1. Synchronize(p)
  <2>1. PICK q \in Proc : /\ \/ Synchronize(q) \/ Stop(q)
                             \/ CheckComplete(q) \/ complete(q)
                             \/ CheckArchive(q) \/ archive(q)
                             \/ BeginClose(q) \/ closeWorkspace(q)
                             \/ \E k \in Conditions : MeetCondition(q, k)
                          /\ \E new : Become(q, new)
    BY OneRequest
  <2>2. q = p
    BY <2>1 DEF Become, TypeInv
  <2>3. CASE ~Synchronize(p)
    <3>1. \/ Become(p, Idle) \/ Become(p, [op |-> "complete"]) \/ Become(p, [op |-> "archive"])
          \/ \E met : Become(p, [op |-> "close", met |-> met])
      BY <2>1, <2>2, <2>3 DEF Stop, CheckComplete, complete, CheckArchive, archive, BeginClose,
          closeWorkspace, MeetCondition, Become
    <3> QED
      BY <3>1 DEF Become, Idle, TypeInv
  <2> QED
    BY <2>3
<1>2. request \in [Proc -> Request]
  BY DEF TypeInv
<1>3. CASE BeginSynchronize(p)
  <2>1. /\ request'[p].missing = {} /\ request'[p].types = {}
        /\ request[p].op # "synchronize"
    BY <1>2, <1>3 DEF BeginSynchronize, Become, Idle
  <2> QED
    BY <1>3, <2>1
<1>4. CASE Return(p)
  BY <1>2, <1>4 DEF Return, Become, Idle
<1>5. CASE r.op = "synchronize" /\ ~BeginSynchronize(p) /\ ~Return(p)
  <2>1. r \in SyncCall
    BY <1>2, <1>5, RequestKind
  <2>2. \A new : Become(p, new) => request'[p] = new
    BY <1>2 DEF Become
  <2>3. ASSUME NEW step, Go(p, step)
        PROVE  request'[p].missing = r.missing /\ request'[p].types = r.types
    BY <2>1, <2>2, <2>3 DEF Go, SyncCall
  <2>4. CASE ReadNext(p)
    <3>1. CASE At(p, "readPlan")
      <4>1. Become(p, [r EXCEPT !.step = "writePlan", !.plan = execution.plan + 1])
        BY <2>4, <3>1 DEF ReadNext, At
      <4>2. request'[p].missing = r.missing /\ request'[p].types = r.types
        BY <2>1, <2>2, <4>1 DEF SyncCall
      <4> QED
        BY <1>5, <4>2
    <3>2. CASE ~At(p, "readPlan")
      <4>1. \E step : Go(p, step)
        BY <2>4, <3>2 DEF ReadNext
      <4> QED
        BY <1>5, <2>3, <4>1
    <3> QED
      BY <3>1, <3>2
  <2>5. CASE SyncExecution(p) \/ SyncPlan(p) \/ SyncWorkspace(p) \/ EndLoop(p)
    <3>1. \E step : Go(p, step)
      BY <2>5 DEF SyncExecution, SyncPlan, SyncWorkspace, EndLoop
    <3> QED
      BY <1>5, <2>3, <3>1
  <2>6. CASE ReadSources(p)
    <3>1. \E S, step : StartLoop(p, S, step)
      BY <2>6 DEF ReadSources
    <3>2. request'[p].missing = r.missing /\ request'[p].types = r.types
      BY <2>1, <2>2, <3>1 DEF StartLoop, SyncCall
    <3> QED
      BY <1>5, <3>2
  <2>7. ASSUME NEW s \in Source, LookUp(p, s) \/ createRecord(p, s)
        PROVE  /\ request'[p].types = r.types
               /\ \/ request'[p].missing \subseteq r.missing
                  \/ Unrecorded(s) /\ request'[p].missing = {s}
    <3>1. CASE LookUp(p, s)
      BY <2>1, <2>2, <3>1 DEF LookUp, SyncCall
    <3>2. CASE createRecord(p, s)
      BY <2>1, <2>2, <3>2 DEF createRecord, SyncCall
    <3> QED
      BY <2>7, <3>1, <3>2
  <2>8. CASE ReadCloseout(p)
    <3>1. request'[p].missing = r.missing /\ request'[p].types = absent(Types)
      BY <2>1, <2>2, <2>8 DEF ReadCloseout, SyncCall
    <3>2. UNCHANGED closeout
      BY <2>8 DEF ReadCloseout, rows
    <3> QED
      BY <1>5, <3>1, <3>2
  <2>9. CASE createCloseout(p)
    <3>1. \/ Go(p, "return")
          \/ \E t : Become(p, [r EXCEPT !.types = r.types \ {t}])
      BY <2>9 DEF createCloseout
    <3>2. request'[p].missing = r.missing /\ request'[p].types \subseteq r.types
      BY <2>1, <2>2, <2>3, <3>1 DEF SyncCall
    <3> QED
      BY <1>5, <3>2
  <2> QED
    BY <1>1, <1>5, <2>4, <2>5, <2>6, <2>7, <2>8, <2>9 DEF Synchronize
<1> QED
  BY <1>1, <1>3, <1>4, <1>5
     DEF Synchronize, ReadNext, SyncExecution, SyncPlan, SyncWorkspace, ReadSources, EndLoop,
         ReadCloseout, createCloseout, LookUp, createRecord, At

\* Records are only counted by the call that found them missing.
LEMMA SyncedStep ==
    ASSUME TypeInv, [LifecycleNext]_lifecycleVars
    PROVE  \/ UNCHANGED synced
           \/ \E p \in Proc, s \in Source : createRecord(p, s)
BY DEF LifecycleNext, Stop, CheckComplete, complete, CheckArchive, archive, BeginClose,
       closeWorkspace, MeetCondition, createExecution, transition, cancel, createWorkspace,
       createCloseoutItem, completeCloseoutItem, openControl, settleControl,
       createCommitment, NewSource, lifecycleVars, rows, Synchronize, BeginSynchronize,
       ReadNext, SyncExecution, SyncPlan, SyncWorkspace, ReadSources, EndLoop,
       ReadCloseout, createCloseout, Return, LookUp

LEMMA OverlappedStays ==
    ASSUME TypeInv, [LifecycleNext]_lifecycleVars
    PROVE  \/ UNCHANGED overlapped
           \/ \E p \in Proc : /\ BeginSynchronize(p)
                              /\ overlapped' = (overlapped \/ \E q \in Proc : request[q].op = "synchronize")
BY DEF LifecycleNext, Stop, CheckComplete, complete, CheckArchive, archive, BeginClose,
       closeWorkspace, MeetCondition, createExecution, transition, cancel, createWorkspace,
       createCloseoutItem, completeCloseoutItem, openControl, settleControl,
       createCommitment, NewSource, lifecycleVars, rows, Synchronize, BeginSynchronize,
       ReadNext, SyncExecution, SyncPlan, SyncWorkspace, ReadSources, EndLoop,
       ReadCloseout, createCloseout, Return, LookUp, createRecord

LEMMA OnceInvStep ==
    ASSUME TypeInv, OnceInv, [LifecycleNext]_lifecycleVars
    PROVE  OnceInv'
<1> SUFFICES ASSUME ~overlapped'
             PROVE  /\ \A p, q \in Proc :
                          request'[p].op = "synchronize" /\ request'[q].op = "synchronize" => p = q
                    /\ \A p \in Proc : Missing(p)'
                    /\ \A s \in Source : synced'[s] <= 1
                    /\ \A i, j \in DOMAIN closeout' :
                          closeout'[i].synced /\ closeout'[j].synced
                              /\ closeout'[i].type = closeout'[j].type => i = j
  BY DEF OnceInv
<1> DEFINE Sync(p) == request[p].op = "synchronize"
<1>1. ~overlapped /\ RecordsTypeOK /\ closeout \in Seq(CloseoutRow) /\ request \in [Proc -> Request]
  <2>1. overlapped \in BOOLEAN
    BY DEF TypeInv, RecordsTypeOK
  <2> QED
    BY <2>1, OverlappedStays DEF TypeInv, CloseoutTypeOK
<1>2. /\ \A p, q \in Proc : Sync(p) /\ Sync(q) => p = q
      /\ \A p \in Proc : Missing(p)
      /\ \A s \in Source : synced[s] <= 1
      /\ \A i, j \in DOMAIN closeout :
            closeout[i].synced /\ closeout[j].synced
                /\ closeout[i].type = closeout[j].type => i = j
  BY <1>1 DEF OnceInv
<1>3. ASSUME NEW p \in Proc, BeginSynchronize(p) PROVE \A q \in Proc : ~Sync(q)
  BY <1>3 DEF BeginSynchronize
<1>4. ASSUME NEW p \in Proc, NEW q \in Proc,
             request'[p].op = "synchronize", request'[q].op = "synchronize"
      PROVE  p = q
  <2>1. Sync(p) \/ BeginSynchronize(p)
    BY <1>4, MissingStep
  <2>2. Sync(q) \/ BeginSynchronize(q)
    BY <1>4, MissingStep
  <2>3. CASE BeginSynchronize(p) /\ q # p
    <3>1. UNCHANGED request[q]
      BY <1>1, <2>3 DEF BeginSynchronize, Become
    <3> QED
      BY <1>3, <1>4, <2>3, <3>1
  <2>4. CASE BeginSynchronize(q) /\ q # p
    <3>1. UNCHANGED request[p]
      BY <1>1, <2>4 DEF BeginSynchronize, Become
    <3> QED
      BY <1>3, <1>4, <2>4, <3>1
  <2> QED
    BY <1>2, <2>1, <2>2, <2>3, <2>4
<1>5. ASSUME NEW p \in Proc, NEW s \in Source, createRecord(p, s)
      PROVE  /\ synced[s] = 0 /\ synced' = [synced EXCEPT ![s] = 1]
             /\ \A q \in Proc : request'[q].op = "synchronize" => q = p /\ request'[q].missing = {}
             /\ UNCHANGED closeout
  <2>1. request[p].op = "synchronize" /\ s \in request[p].missing
    BY <1>5 DEF createRecord, At
  <2>2. synced[s] = 0
    BY <1>2, <2>1 DEF Missing
  <2>3. synced' = [synced EXCEPT ![s] = 1]
    BY <1>5, <2>2 DEF createRecord
  <2>4. request[p] \in SyncCall
    BY <1>1, <2>1, RequestKind
  <2>5. request'[p] = [request[p] EXCEPT !.missing = {}, !.todo = request[p].todo \ {s}]
    BY <1>1, <1>5 DEF createRecord, Become
  <2>6. request'[p].op = "synchronize" /\ request'[p].missing = {}
    BY <2>1, <2>4, <2>5 DEF SyncCall
  <2> QED
    BY <1>4, <1>5, <2>2, <2>3, <2>6 DEF createRecord
<1>6. \A s \in Source : synced'[s] <= 1
  BY <1>1, <1>2, <1>5, SyncedStep DEF RecordsTypeOK
<1>7. ASSUME NEW p \in Proc, request'[p].op = "synchronize", NEW s \in request'[p].missing
      PROVE  synced'[s] = 0
  <2>1. UNCHANGED synced
    BY <1>5, <1>7, SyncedStep
  <2>2. synced[s] = 0
    BY <1>2, <1>7, MissingStep DEF Missing, Unrecorded
  <2> QED
    BY <2>1, <2>2
<1> DEFINE Unmade(t) == \A i \in DOMAIN closeout : closeout[i].type = SyncedType[t] => ~closeout[i].synced
<1>8. ASSUME NEW p \in Proc, request'[p].op = "synchronize", NEW t \in request'[p].types
      PROVE  Unmade(t) /\ t \in {1, 2}
  <2>1. request' \in [Proc -> Request]
    BY TypeStep DEF TypeInv
  <2>2. request'[p] \in SyncCall
    BY <1>8, <2>1, RequestKind
  <2>3. t \in {1, 2}
    BY <1>8, <2>2 DEF SyncCall
  <2>4. CASE Sync(p) /\ t \in request[p].types
    BY <1>2, <2>3, <2>4 DEF Missing
  <2>5. CASE t \in absent(Types)
    BY <2>3, <2>5 DEF absent, Types
  <2> QED
    BY <1>8, <2>3, <2>4, <2>5, MissingStep
<1>9. ASSUME NEW t0 \in CloseoutType, NEW bySync \in BOOLEAN, AddCloseout(t0, bySync)
      PROVE  /\ DOMAIN closeout' = DOMAIN closeout \cup {Len(closeout) + 1}
             /\ Len(closeout) + 1 \notin DOMAIN closeout
             /\ \A i \in DOMAIN closeout : closeout'[i] = closeout[i]
             /\ closeout'[Len(closeout) + 1].type = t0
             /\ closeout'[Len(closeout) + 1].synced = bySync
  <2> DEFINE new == [type |-> t0, done |-> FALSE, synced |-> bySync]
  <2>1. new \in CloseoutRow /\ new.type = t0 /\ new.synced = bySync
    BY DEF CloseoutRow
  <2>2. closeout' = Append(closeout, new)
    BY <1>9 DEF AddCloseout
  <2> HIDE DEF new
  <2> QED
    BY <1>1, <2>1, <2>2
<1>10. CASE UNCHANGED closeout
  <2>1. \A p \in Proc : Missing(p)'
    BY <1>7, <1>8, <1>10 DEF Missing
  <2> QED
    BY <1>2, <1>4, <1>6, <1>10, <2>1
<1>11. ASSUME NEW i \in DOMAIN closeout, closeout' = [closeout EXCEPT ![i].done = ~closeout[i].done]
       PROVE  /\ DOMAIN closeout' = DOMAIN closeout
              /\ \A j \in DOMAIN closeout : /\ closeout'[j].type = closeout[j].type
                                            /\ closeout'[j].synced = closeout[j].synced
  <2>1. closeout[i] \in CloseoutRow
    BY <1>1
  <2> DEFINE new == [closeout[i] EXCEPT !.done = ~closeout[i].done]
  <2>2. new.type = closeout[i].type /\ new.synced = closeout[i].synced
    BY <2>1 DEF CloseoutRow
  <2>3. closeout' = [closeout EXCEPT ![i] = new]
    BY <1>11
  <2> HIDE DEF new
  <2> QED
    BY <1>1, <2>2, <2>3
<1>12. CASE \E i \in DOMAIN closeout : closeout' = [closeout EXCEPT ![i].done = ~closeout[i].done]
  <2>1. \A p \in Proc : Missing(p)'
    BY <1>7, <1>8, <1>11, <1>12 DEF Missing
  <2>2. \A i, j \in DOMAIN closeout' :
           closeout'[i].synced /\ closeout'[j].synced
               /\ closeout'[i].type = closeout'[j].type => i = j
    BY <1>2, <1>11, <1>12
  <2> QED
    BY <1>4, <1>6, <2>1, <2>2
<1>13. ASSUME NEW t0 \in CloseoutType, AddCloseout(t0, FALSE) PROVE OnceInv'
  <2>0. /\ DOMAIN closeout' = DOMAIN closeout \cup {Len(closeout) + 1}
        /\ \A i \in DOMAIN closeout : closeout'[i] = closeout[i]
        /\ closeout'[Len(closeout) + 1].synced = FALSE
    BY <1>9, <1>13
  <2>1. \A p \in Proc : Missing(p)'
    BY <1>7, <1>8, <2>0 DEF Missing
  <2>2. \A i, j \in DOMAIN closeout' :
           closeout'[i].synced /\ closeout'[j].synced
               /\ closeout'[i].type = closeout'[j].type => i = j
    BY <1>2, <2>0
  <2> QED
    BY <1>4, <1>6, <2>1, <2>2 DEF OnceInv
<1>14. ASSUME NEW q \in Proc, request[q].op = "synchronize", NEW t \in request[q].types \cap {1, 2},
              AddCloseout(SyncedType[t], TRUE),
              Become(q, [request[q] EXCEPT !.types = request[q].types \ {t}])
       PROVE  OnceInv'
  <2>1. request[q] \in SyncCall
    BY <1>1, <1>14, RequestKind
  <2>2. request'[q] = [request[q] EXCEPT !.types = request[q].types \ {t}]
    BY <1>1, <1>14 DEF Become
  <2>3. request'[q].op = "synchronize" /\ request'[q].types = request[q].types \ {t}
    BY <1>14, <2>1, <2>2 DEF SyncCall
  <2>4. Unmade(t)
    BY <1>2, <1>14 DEF Missing
  <2>5. ASSUME NEW p \in Proc, request'[p].op = "synchronize", NEW u \in request'[p].types,
               NEW i \in DOMAIN closeout', closeout'[i].type = SyncedType[u]
        PROVE  ~closeout'[i].synced
    <3>1. p = q /\ u # t /\ u \in {1, 2} /\ Unmade(u)
      BY <1>4, <1>8, <2>3, <2>5
    <3>2. SyncedType[u] # SyncedType[t]
      BY <1>14, <3>1 DEF SyncedType
    <3> HIDE DEF Unmade
    <3>3. i \in DOMAIN closeout
      BY <1>9, <1>14, <2>5, <3>2, SyncedTypes
    <3> QED
      BY <1>9, <1>14, <2>5, <3>1, <3>3, SyncedTypes DEF Unmade
  <2>6. \A p \in Proc : Missing(p)'
    BY <1>7, <2>5 DEF Missing
  <2>7. \A i, j \in DOMAIN closeout' :
           closeout'[i].synced /\ closeout'[j].synced
               /\ closeout'[i].type = closeout'[j].type => i = j
    <3>1. /\ DOMAIN closeout' = DOMAIN closeout \cup {Len(closeout) + 1}
          /\ \A i \in DOMAIN closeout : closeout'[i] = closeout[i]
          /\ closeout'[Len(closeout) + 1].type = SyncedType[t]
      BY <1>9, <1>14, SyncedTypes
    <3> QED
      BY <1>2, <2>4, <3>1
  <2> QED
    BY <1>4, <1>6, <2>6, <2>7 DEF OnceInv
<1> QED
  BY <1>10, <1>12, <1>13, <1>14, CloseoutStep DEF OnceInv

-----------------------------------------------------------------------------
(***************************************************************************)
(* Theorems                                                                *)
(***************************************************************************)

LEMMA InvInit == LifecycleInit => LifecycleInv
<1> SUFFICES ASSUME LifecycleInit PROVE LifecycleInv
  OBVIOUS
<1>1. TypeInv
  BY TypeInit
<1>2. ~Exists /\ \A p \in Proc : request[p].op = "idle"
  BY DEF LifecycleInit, Exists, Idle
<1>3. ProgressInv
  <2>1. RecordsOf
    BY DEF LifecycleInit, RecordsOf
  <2>2. \A p \in Proc : Progress(p)
    BY <1>2 DEF Progress
  <2> QED
    BY <2>1, <2>2 DEF ProgressInv
<1>4. OnceInv
  BY <1>2 DEF LifecycleInit, OnceInv, Missing
<1> QED
  BY <1>1, <1>3, <1>4 DEF LifecycleInv

LEMMA InvStep == LifecycleInv /\ [LifecycleNext]_lifecycleVars => LifecycleInv'
BY TypeStep, ProgressInvStep, OnceInvStep DEF LifecycleInv

THEOREM Invariance == LifecycleSpec => []LifecycleInv
BY InvInit, InvStep, PTL DEF LifecycleSpec

\* The tables and the requests keep their types; an item or a record is only where
\* there is an execution, or a workspace, it belongs to.
THEOREM LifecycleTypes == LifecycleSpec => []LifecycleTypeOK
<1>1. LifecycleInv => LifecycleTypeOK
  <2> SUFFICES ASSUME LifecycleInv PROVE LifecycleTypeOK
    OBVIOUS
  <2>1. TypeInv /\ RecordsOf
    BY DEF LifecycleInv, ProgressInv
  <2>2. \A p \in Proc : \/ request[p] = Idle
                        \/ request[p] \in SyncCall
                        \/ request[p] \in [op: {"close"}, met: SUBSET Conditions]
                        \/ request[p].op \in {"complete", "archive"}
    BY <2>1 DEF TypeInv, Request
  <2> QED
    BY <2>1, <2>2
       DEF TypeInv, ExecutionTypeOK, CloseoutTypeOK, RecordsTypeOK, RecordsOf, LifecycleTypeOK,
           Exists
<1> QED
  BY <1>1, Invariance, PTL

\* Calls of synchronize that stop anywhere and are called again, but do not overlap,
\* record each award and incident once and make each closeout item once.
THEOREM SynchronizeOnce == LifecycleSpec => []SynchronizedOnce
<1>1. LifecycleInv => SynchronizedOnce
  BY DEF LifecycleInv, OnceInv, SynchronizedOnce
<1> QED
  BY <1>1, Invariance, PTL

\* A call of synchronize that gets to its end leaves nothing it has read undone.
THEOREM SynchronizeWhole == LifecycleSpec => []SynchronizedWhole
<1>1. LifecycleInv => SynchronizedWhole
  <2> SUFFICES ASSUME LifecycleInv, NEW p \in Proc, At(p, "return")
               PROVE  /\ Exists /\ workspace # "None"
                      /\ \A s \in request[p].taken : synced[s] > 0 \/ s \in byHand
                      /\ Types = {1, 2}
    BY DEF SynchronizedWhole
  <2>1. Progress(p) /\ request[p].op = "synchronize" /\ request[p].step = "return"
    BY DEF LifecycleInv, ProgressInv, At
  <2> QED
    BY <2>1 DEF Progress, Recorded, WithExecution, WithWorkspace, SyncStep
<1> QED
  BY <1>1, Invariance, PTL

-----------------------------------------------------------------------------
(***************************************************************************)
(* Assets: invariant                                                       *)
(***************************************************************************)

AssetTypes ==
    /\ DOMAIN instance \subseteq Instance
    /\ instance \in [DOMAIN instance -> InstanceRow]
    /\ \E n \in 0..MaxReservations : DOMAIN reservation = 1..n
    /\ reservation \in [DOMAIN reservation -> ReservationRow]
    /\ serviced \subseteq DOMAIN instance
    /\ DOMAIN disposal \subseteq DOMAIN instance
    /\ disposal \in [DOMAIN disposal -> DisposalRow]
    /\ handling \in [Proc -> Handling]
    /\ unchecked \subseteq DOMAIN reservation
    /\ overtaken \subseteq DOMAIN instance

\* An approval is never forgotten, so what was found approved was approved; and only
\* a stale change of lifecycle takes the archival back.
DisposalInv ==
    /\ \A p \in Proc : handling[p].op = "lifecycle" => handling[p].instance \in DOMAIN instance
    /\ \A p \in Proc : handling[p].op = "dispose" =>
          handling[p].instance \in DOMAIN disposal /\ disposal[handling[p].instance].approvedAt
    /\ \A i \in DOMAIN disposal :
          /\ disposal[i].status = "Approved" => disposal[i].approvedAt
          /\ disposal[i].status = "Executed" => disposal[i].executedAt
          /\ disposal[i].executedAt => /\ disposal[i].approvedAt
                                       /\ instance[i].archivedAt \/ i \in overtaken

\* The reservations that count against a wish.
Against(w) == {r \in Held : Overlaps(r, w)}
AgainstOf(w) == {r \in Against(w) : reservation[r].dto.definition = w.definition}

\* What a request that is not late has found out still holds.
StillTrue(p) ==
    LET h == handling[p] IN
    h.op = "reserve" =>
        /\ ~h.late => Load(AgainstOf(h.dto)) <= h.load
        /\ h.step # "count" => h.load + h.dto.quantity <= Units(h.dto.definition)
        /\ h.step = "insert" /\ ~h.late /\ h.dto.instance # NoInstance =>
              \A r \in Against(h.dto) : reservation[r].dto.instance # h.dto.instance

ReservationInv == CheckedReservationsFit /\ \A p \in Proc : StillTrue(p)

AssetInv == AssetTypes /\ DisposalInv /\ ReservationInv

LEMMA HandlingKind ==
    ASSUME NEW h \in Handling
    PROVE  /\ h.op \in {"idle", "reserve", "lifecycle", "dispose"}
           /\ h.op = "idle" => h = Idle
           /\ h.op = "reserve" =>
                 h \in [op: {"reserve"}, step: {"count", "instance", "insert"}, dto: Wanted,
                        load: Nat, late: BOOLEAN]
           /\ h.op = "lifecycle" =>
                 h \in [op: {"lifecycle"}, instance: Instance,
                        status: {"Active", "OutOfUse", "Archived"}, archivedAt: BOOLEAN]
           /\ h.op = "dispose" => h \in [op: {"dispose"}, instance: Instance]
BY DEF Handling, Idle

-----------------------------------------------------------------------------
(***************************************************************************)
(* Loads                                                                   *)
(***************************************************************************)

LEMMA WantedFields ==
    ASSUME NEW w \in Wanted
    PROVE  /\ w.quantity \in Nat \ {0} /\ w.from \in Nat /\ w.to \in Nat /\ w.from < w.to
           /\ w.definition \in Definition
BY AssetAssumption DEF ReservationDto

\* The units and the load of some of the reservations in a table of them.
UnitsOf(table, rs) == UNION {{r} \X (1..table[r].dto.quantity) : r \in rs}
LoadOf(table, rs) == Cardinality(UnitsOf(table, rs))

LEMMA LoadIsLoadOf ==
    /\ \A rs : Load(rs) = LoadOf(reservation, rs)
    /\ \A rs : Load(rs)' = LoadOf(reservation', rs')
BY DEF Load, LoadOf, UnitsOf

LEMMA IntervalFinite ==
    ASSUME NEW n \in Nat
    PROVE  IsFiniteSet(1..n) /\ Cardinality(1..n) = n
<1>1. 1 \in Int /\ n \in Int
  OBVIOUS
<1>2. IsFiniteSet(1..n) /\ Cardinality(1..n) = IF 1 > n THEN 0 ELSE n - 1 + 1
  BY <1>1, FS_Interval, Zenon
<1> QED
  BY <1>2

\* A table of reservations.
Rows == UNION {[1..n -> ReservationRow] : n \in Nat}

LEMMA RowFields ==
    ASSUME NEW table \in Rows, NEW r \in DOMAIN table
    PROVE  /\ table[r].dto \in Wanted
           /\ table[r].dto.quantity \in Nat
BY WantedFields DEF Rows, ReservationRow

LEMMA UnitsOfFinite ==
    ASSUME NEW table \in Rows, NEW rs \in SUBSET DOMAIN table
    PROVE  IsFiniteSet(UnitsOf(table, rs)) /\ LoadOf(table, rs) \in Nat
<1> DEFINE part == [r \in rs |-> {r} \X (1..table[r].dto.quantity)]
           parts == {{r} \X (1..table[r].dto.quantity) : r \in rs}
<1>1. IsFiniteSet(rs)
  <2>1. PICK n \in Nat : table \in [1..n -> ReservationRow]
    BY DEF Rows
  <2> QED
    BY <2>1, IntervalFinite, FS_Subset
<1>2. part \in Surjection(rs, parts)
  BY DEF Surjection
<1>3. IsFiniteSet(parts)
  BY <1>1, <1>2, FS_Surjection
<1>4. ASSUME NEW T \in parts PROVE IsFiniteSet(T)
  <2>1. PICK r \in rs : T = {r} \X (1..table[r].dto.quantity)
    BY <1>4
  <2>2. IsFiniteSet({r}) /\ IsFiniteSet(1..table[r].dto.quantity)
    BY RowFields, IntervalFinite, FS_Singleton
  <2> QED
    BY <2>1, <2>2, FS_Product
<1>5. IsFiniteSet(UNION parts)
  BY <1>3, <1>4, FS_UNION
<1> QED
  BY <1>5, FS_CardinalityType DEF UnitsOf, LoadOf

LEMMA LoadMonotone ==
    ASSUME NEW table \in Rows, NEW rs \in SUBSET DOMAIN table, NEW qs \in SUBSET rs
    PROVE  LoadOf(table, qs) <= LoadOf(table, rs)
<1>1. UnitsOf(table, qs) \subseteq UnitsOf(table, rs)
  BY DEF UnitsOf
<1> QED
  BY <1>1, UnitsOfFinite, FS_Subset DEF LoadOf

\* A reservation adds no more than its quantity.
LEMMA LoadWith ==
    ASSUME NEW table \in Rows, NEW rs \in SUBSET DOMAIN table, NEW r \in DOMAIN table
    PROVE  LoadOf(table, rs \cup {r}) <= LoadOf(table, rs) + table[r].dto.quantity
<1> DEFINE A == UnitsOf(table, rs)
           q == table[r].dto.quantity
           B == {r} \X (1..q)
<1>1. q \in Nat
  BY RowFields
<1>2. UnitsOf(table, rs \cup {r}) = A \cup B
  BY DEF UnitsOf
<1>3. IsFiniteSet(A) /\ Cardinality(A) \in Nat
  BY UnitsOfFinite DEF LoadOf
<1>4. IsFiniteSet(B) /\ Cardinality(B) = q
  <2>1. IsFiniteSet({r}) /\ Cardinality({r}) = 1
    BY FS_Singleton
  <2>2. IsFiniteSet(1..q) /\ Cardinality(1..q) = q
    BY <1>1, IntervalFinite
  <2>3. IsFiniteSet(B) /\ Cardinality(B) = Cardinality({r}) * Cardinality(1..q)
    BY <2>1, <2>2, FS_Product
  <2> QED
    BY <1>1, <2>1, <2>2, <2>3
<1>5. Cardinality(A \cup B) = Cardinality(A) + Cardinality(B) - Cardinality(A \cap B)
  BY <1>3, <1>4, FS_Union
<1>6. Cardinality(A \cap B) \in Nat
  BY <1>3, FS_Intersection, FS_CardinalityType
<1>7. LoadOf(table, rs \cup {r}) = Cardinality(A \cup B) /\ LoadOf(table, rs) = Cardinality(A)
  BY <1>2 DEF LoadOf
<1>8. table[r].dto.quantity = q
  OBVIOUS
<1> HIDE DEF A, B, q
<1> QED
  BY <1>1, <1>3, <1>4, <1>5, <1>6, <1>7, <1>8

\* A load depends on the rows that are counted only, and of them on what was asked.
LEMMA LoadOfSame ==
    ASSUME NEW table, NEW other, NEW rs, \A r \in rs : other[r].dto = table[r].dto
    PROVE  LoadOf(other, rs) = LoadOf(table, rs)
BY DEF LoadOf, UnitsOf

LEMMA ReservationsAreRows == AssetTypes => reservation \in Rows
BY AssetAssumption DEF AssetTypes, Rows

LEMMA UnitsType ==
    ASSUME AssetTypes, NEW d
    PROVE  Units(d) \in Nat
BY AssetAssumption, FS_Subset, FS_CardinalityType DEF AssetTypes, Units

LEMMA CapacityWithinUnits ==
    ASSUME AssetTypes, NEW d
    PROVE  Capacity(d) \in Nat /\ Capacity(d) <= Units(d)
<1>1. IsFiniteSet(DOMAIN instance)
  BY AssetAssumption, FS_Subset DEF AssetTypes
<1>2. {i \in DOMAIN instance : Usable(i)} \subseteq DOMAIN instance
  OBVIOUS
<1>3. /\ IsFiniteSet({i \in DOMAIN instance : Usable(i)})
      /\ Cardinality({i \in DOMAIN instance : Usable(i)}) <= Cardinality(DOMAIN instance)
      /\ Cardinality({i \in DOMAIN instance : Usable(i)}) \in Nat
  BY <1>1, <1>2, FS_Subset, FS_CardinalityType
<1> QED
  BY <1>3, AssetAssumption DEF Capacity, Units

-----------------------------------------------------------------------------
(***************************************************************************)
(* Assets: initial state and steps                                         *)
(***************************************************************************)

LEMMA EmptyTable == DOMAIN Empty = {} /\ \A S : Empty \in [{} -> S]
BY DEF Empty

LEMMA AssetInitInv == AssetInit => AssetInv
<1> SUFFICES ASSUME AssetInit PROVE AssetInv
  OBVIOUS
<1>1. AssetTypes
  <2>1. DOMAIN reservation = 1..0 /\ 0 \in 0..MaxReservations
    BY EmptyTable, AssetAssumption DEF AssetInit
  <2> QED
    BY <2>1, EmptyTable DEF AssetInit, AssetTypes, Handling
<1>2. \A p \in Proc : handling[p].op = "idle"
  BY DEF AssetInit, Idle
<1>3. DisposalInv
  BY <1>2, EmptyTable DEF AssetInit, DisposalInv
<1>4. ReservationInv
  BY <1>2, EmptyTable DEF AssetInit, ReservationInv, CheckedReservationsFit, StillTrue, Held
<1> QED
  BY <1>1, <1>3, <1>4 DEF AssetInv

\* The changes of the tables that keep their types.
LEMMA PutInstance ==
    ASSUME AssetTypes, NEW i \in Instance, NEW row \in InstanceRow,
           instance' = Put(instance, i, row) \/ (i \in DOMAIN instance /\ instance' = [instance EXCEPT ![i] = row])
    PROVE  /\ DOMAIN instance' \subseteq Instance /\ DOMAIN instance \subseteq DOMAIN instance'
           /\ instance' \in [DOMAIN instance' -> InstanceRow]
BY DEF AssetTypes, Put

LEMMA SetStatusType ==
    ASSUME AssetTypes, NEW i \in DOMAIN instance, NEW s \in {"Active", "OutOfUse", "Archived"},
           SetStatus(i, s)
    PROVE  /\ DOMAIN instance' = DOMAIN instance
           /\ instance' \in [DOMAIN instance' -> InstanceRow]
           /\ \A j \in DOMAIN instance : instance'[j].archivedAt = instance[j].archivedAt
BY DEF AssetTypes, SetStatus, InstanceRow

LEMMA HandleType ==
    ASSUME AssetTypes, NEW p \in Proc, NEW h \in Handling, Handle(p, h)
    PROVE  handling' \in [Proc -> Handling]
BY DEF AssetTypes, Handle

LEMMA AssetTypesStep ==
    ASSUME AssetTypes, DisposalInv, AssetStep
    PROVE  AssetTypes'
<1> USE DEF AssetTypes
<1>0. Idle \in Handling
  BY DEF Handling
<1>1. ASSUME NEW p \in Proc, Drop(p) PROVE AssetTypes'
  BY <1>0, <1>1, HandleType DEF Drop
<1>2. ASSUME NEW p \in Proc, changeLifecycle(p) PROVE AssetTypes'
  <2> DEFINE h == handling[p]
             at == h.status = "Archived" \/ h.archivedAt
             row == [status |-> h.status, archivedAt |-> at]
  <2>1. h.instance \in DOMAIN instance /\ h.instance \in Instance
    BY <1>2 DEF DisposalInv, changeLifecycle
  <2>2. row \in InstanceRow
    BY <1>2, HandlingKind DEF changeLifecycle, InstanceRow
  <2>3. instance' = [instance EXCEPT ![h.instance] = row]
    BY <1>2 DEF changeLifecycle
  <2> HIDE DEF row
  <2>4. DOMAIN instance' = DOMAIN instance /\ instance' \in [DOMAIN instance' -> InstanceRow]
    BY <2>1, <2>2, <2>3
  <2>5. overtaken' \subseteq DOMAIN instance
    BY <1>2, <2>1 DEF changeLifecycle
  <2>6. handling' \in [Proc -> Handling]
    BY <1>0, <1>2, HandleType DEF changeLifecycle
  <2> QED
    BY <1>2, <2>4, <2>5, <2>6 DEF changeLifecycle
<1>3. ASSUME NEW p \in Proc, executeDisposal(p) PROVE AssetTypes'
  <2> DEFINE i == handling[p].instance
             row == [status |-> "OutOfUse", archivedAt |-> TRUE]
  <2>1. i \in DOMAIN disposal /\ i \in DOMAIN instance /\ row \in InstanceRow
    BY <1>3 DEF DisposalInv, executeDisposal, InstanceRow
  <2>2. DOMAIN instance' = DOMAIN instance /\ instance' \in [DOMAIN instance' -> InstanceRow]
    BY <1>3, <2>1 DEF executeDisposal
  <2>3. DOMAIN disposal' = DOMAIN disposal /\ disposal' \in [DOMAIN disposal' -> DisposalRow]
    <3> DEFINE done == [disposal[i] EXCEPT !.status = "Executed", !.executedAt = TRUE]
    <3>1. disposal' = [disposal EXCEPT ![i] = done]
      BY <1>3 DEF executeDisposal
    <3>2. done \in DisposalRow
      BY <2>1 DEF DisposalRow, DisposalStatus
    <3> HIDE DEF done
    <3> QED
      BY <2>1, <3>1, <3>2
  <2>4. handling' \in [Proc -> Handling]
    BY <1>0, <1>3, HandleType DEF executeDisposal
  <2> QED
    BY <1>3, <2>2, <2>3, <2>4 DEF executeDisposal
<1>4. ASSUME NEW p \in Proc, CheckCapacity(p) PROVE AssetTypes'
  <2>1. [handling[p] EXCEPT !.step = IF handling[p].dto.instance = NoInstance THEN "insert"
                                     ELSE "instance"] \in Handling
    BY <1>4, HandlingKind DEF CheckCapacity, AtStep, Handling
  <2> QED
    BY <1>4, <2>1, HandleType DEF CheckCapacity
<1>5. ASSUME NEW p \in Proc, CheckInstance(p) PROVE AssetTypes'
  <2>1. [handling[p] EXCEPT !.step = "insert"] \in Handling
    BY <1>5, HandlingKind DEF CheckInstance, AtStep, Handling
  <2> QED
    BY <1>5, <2>1, HandleType DEF CheckInstance
<1>6. ASSUME NEW p \in Proc, createReservation(p) PROVE AssetTypes'
  <2> DEFINE new == Cardinality(DOMAIN reservation) + 1
             row == [dto |-> handling[p].dto, status |-> "Reserved"]
  <2>1. PICK n \in 0..MaxReservations : DOMAIN reservation = 1..n
    OBVIOUS
  <2>2. n \in Nat /\ MaxReservations \in Nat /\ new = n + 1
    BY <2>1, IntervalFinite, AssetAssumption
  <2>3. new \in 0..MaxReservations
    BY <1>6, <2>2 DEF createReservation
  <2>4. row \in ReservationRow
    BY <1>6, HandlingKind DEF createReservation, AtStep, ReservationRow, ReservationStatus, InForce
  <2>5. reservation' = Put(reservation, new, row)
    BY <1>6 DEF createReservation
  <2> HIDE DEF row
  <2>6. DOMAIN reservation' = DOMAIN reservation \cup {new}
    BY <2>5 DEF Put
  <2>7. DOMAIN reservation' = 1..new
    BY <2>1, <2>2, <2>6
  <2>8. reservation' \in [DOMAIN reservation' -> ReservationRow]
    BY <2>4, <2>5 DEF Put
  <2>9. unchecked' \subseteq DOMAIN reservation'
    BY <1>6, <2>6 DEF createReservation
  <2>10. handling' \in [Proc -> Handling]
    <3>1. \A q \in Proc : handling[q].op = "reserve" =>
             [handling[q] EXCEPT !.late = TRUE] \in Handling
      <4> SUFFICES ASSUME NEW q \in Proc, handling[q].op = "reserve"
                   PROVE  [handling[q] EXCEPT !.late = TRUE] \in Handling
        OBVIOUS
      <4>1. handling[q] \in [op: {"reserve"}, step: {"count", "instance", "insert"}, dto: Wanted,
                              load: Nat, late: BOOLEAN]
        BY HandlingKind
      <4> QED
        BY <4>1 DEF Handling
    <3> QED
      BY <1>0, <1>6, <3>1 DEF createReservation
  <2> HIDE DEF new
  <2> QED
    BY <1>6, <2>3, <2>7, <2>8, <2>9, <2>10 DEF createReservation
<1>7. ASSUME NEW p \in Proc, NEW w \in Wanted, SumReserved(p, w) PROVE AssetTypes'
  <2> DEFINE rs == {r \in Overlapping(w) : reservation[r].dto.definition = w.definition}
             h == [op |-> "reserve", step |-> "count", dto |-> w, late |-> FALSE, load |-> Load(rs)]
  <2>1. Load(rs) \in Nat
    <3>1. rs \subseteq DOMAIN reservation
      BY DEF Overlapping
    <3> QED
      BY <3>1, UnitsOfFinite, ReservationsAreRows, LoadIsLoadOf
  <2>2. h \in Handling
    BY <2>1 DEF Handling
  <2>3. Handle(p, h)
    BY <1>7 DEF SumReserved
  <2>4. handling' \in [Proc -> Handling]
    BY <2>2, <2>3, HandleType
  <2> QED
    BY <1>7, <2>4 DEF SumReserved
<1>8. ASSUME NEW p \in Proc, NEW i \in Instance, CheckExecute(p, i) PROVE AssetTypes'
  <2>1. [op |-> "dispose", instance |-> i] \in Handling
    BY DEF Handling
  <2> QED
    BY <1>8, <2>1, HandleType DEF CheckExecute
<1>9. ASSUME NEW p \in Proc, NEW i \in Instance, NEW s \in {"Active", "OutOfUse", "Archived"},
             CheckLifecycle(p, i, s)
      PROVE  AssetTypes'
  <2>1. [op |-> "lifecycle", instance |-> i, status |-> s, archivedAt |-> instance[i].archivedAt]
           \in Handling
    BY <1>9 DEF CheckLifecycle, Handling, InstanceRow
  <2> QED
    BY <1>9, <2>1, HandleType DEF CheckLifecycle
<1>10. ASSUME NEW i \in Instance, createInstance(i) PROVE AssetTypes'
  <2>1. [status |-> "OutOfUse", archivedAt |-> FALSE] \in InstanceRow
    BY DEF InstanceRow
  <2>2. /\ DOMAIN instance' \subseteq Instance /\ DOMAIN instance \subseteq DOMAIN instance'
        /\ instance' \in [DOMAIN instance' -> InstanceRow]
    BY <1>10, <2>1, PutInstance DEF createInstance
  <2> QED
    BY <1>10, <2>2 DEF createInstance
<1>11. ASSUME NEW i \in Instance, recordInspection(i) PROVE AssetTypes'
  BY <1>11, SetStatusType DEF recordInspection, Registered
<1>12. ASSUME NEW i \in Instance, createMaintenance(i) PROVE AssetTypes'
  BY <1>12 DEF createMaintenance, Registered
<1>13. ASSUME NEW i \in Instance, changeMaintenanceStatus(i) PROVE AssetTypes'
  BY <1>13, SetStatusType DEF changeMaintenanceStatus
<1>14. ASSUME NEW i \in Instance, createIncident(i) PROVE AssetTypes'
  BY <1>14, SetStatusType DEF createIncident, Registered
<1>15. ASSUME NEW i \in Instance, createDisposal(i) PROVE AssetTypes'
  <2> DEFINE row == [status |-> "Proposed", approvedAt |-> FALSE, executedAt |-> FALSE]
  <2>1. row \in DisposalRow
    BY DEF DisposalRow, DisposalStatus
  <2>2. disposal' = Put(disposal, i, row) /\ i \in DOMAIN instance
    BY <1>15 DEF createDisposal, Registered
  <2> HIDE DEF row
  <2>3. DOMAIN disposal' \subseteq DOMAIN instance /\ disposal' \in [DOMAIN disposal' -> DisposalRow]
    BY <2>1, <2>2 DEF Put
  <2> QED
    BY <1>15, <2>3 DEF createDisposal
<1>16. ASSUME NEW i \in Instance, NEW s \in DisposalStatus, changeDisposalStatus(i, s)
       PROVE  AssetTypes'
  <2>1. DOMAIN disposal' = DOMAIN disposal /\ disposal' \in [DOMAIN disposal' -> DisposalRow]
    BY <1>16 DEF changeDisposalStatus, DisposalRow
  <2> QED
    BY <1>16, <2>1 DEF changeDisposalStatus
<1>17. ASSUME NEW r \in DOMAIN reservation, NEW s \in ReservationStatus,
              changeReservationStatus(r, s)
       PROVE  AssetTypes'
  <2>1. DOMAIN reservation' = DOMAIN reservation
        /\ reservation' \in [DOMAIN reservation' -> ReservationRow]
    BY <1>17 DEF changeReservationStatus, ReservationRow
  <2>2. unchecked' \subseteq DOMAIN reservation'
    BY <1>17, <2>1 DEF changeReservationStatus
  <2> QED
    BY <1>17, <2>1, <2>2 DEF changeReservationStatus
<1> QED
  BY <1>1, <1>2, <1>3, <1>4, <1>5, <1>6, <1>7, <1>8, <1>9, <1>10, <1>11, <1>12, <1>13,
     <1>14, <1>15, <1>16, <1>17 DEF AssetStep

\* A step that touches neither disposals nor what requests rely on for them.
LEMMA DisposalFrame ==
    ASSUME AssetTypes, DisposalInv,
           disposal' = disposal,
           DOMAIN instance \subseteq DOMAIN instance',
           \A i \in DOMAIN instance : instance'[i].archivedAt = instance[i].archivedAt,
           overtaken' = overtaken,
           \A p \in Proc : \/ handling'[p] = handling[p]
                           \/ handling'[p].op \notin {"lifecycle", "dispose"}
    PROVE  DisposalInv'
BY DEF AssetTypes, DisposalInv

LEMMA DisposalStep ==
    ASSUME AssetTypes, DisposalInv, AssetStep
    PROVE  DisposalInv'
<1>0. Idle.op = "idle"
  BY DEF Idle
<1>a. \A p \in Proc : \A h : Handle(p, h) => \A q \in Proc : handling'[q] = IF q = p THEN h ELSE handling[q]
  BY DEF AssetTypes, Handle
<1>b. \A i \in DOMAIN disposal : i \in DOMAIN instance /\ disposal[i] \in DisposalRow
  BY DEF AssetTypes
<1>1. ASSUME NEW p \in Proc, Drop(p) PROVE DisposalInv'
  BY <1>0, <1>a, <1>1, DisposalFrame DEF Drop
<1>2. ASSUME NEW p \in Proc, changeLifecycle(p) PROVE DisposalInv'
  <2> DEFINE h == handling[p]
             at == h.status = "Archived" \/ h.archivedAt
             row == [status |-> h.status, archivedAt |-> at]
  <2>1. h.instance \in DOMAIN instance
    BY <1>2 DEF DisposalInv, changeLifecycle
  <2>2. h.archivedAt \in BOOLEAN
    BY <1>2, HandlingKind DEF changeLifecycle, AssetTypes
  <2>3. /\ DOMAIN instance' = DOMAIN instance
        /\ \A j \in DOMAIN instance : j # h.instance => instance'[j] = instance[j]
        /\ instance'[h.instance].archivedAt = at
        /\ disposal' = disposal
    BY <1>2, <2>1 DEF changeLifecycle, AssetTypes
  <2>4. \A q \in Proc : handling'[q] = IF q = p THEN Idle ELSE handling[q]
    BY <1>2, <1>a DEF changeLifecycle
  <2>5. overtaken \subseteq overtaken'
    BY <1>2 DEF changeLifecycle
  <2>6. instance[h.instance].archivedAt /\ ~at => h.instance \in overtaken'
    BY <1>2 DEF changeLifecycle
  <2> HIDE DEF at
  <2>7. \A i \in DOMAIN disposal : disposal[i].executedAt => instance'[i].archivedAt \/ i \in overtaken'
    <3> SUFFICES ASSUME NEW i \in DOMAIN disposal, disposal[i].executedAt, i \notin overtaken'
                 PROVE  instance'[i].archivedAt
      OBVIOUS
    <3>1. instance[i].archivedAt
      BY <2>5 DEF DisposalInv
    <3>2. CASE i = h.instance
      BY <2>3, <2>6, <3>1, <3>2
    <3>3. CASE i # h.instance
      BY <1>b, <2>3, <3>1, <3>3
    <3> QED
      BY <3>2, <3>3
  <2> QED
    BY <1>0, <2>3, <2>4, <2>7 DEF DisposalInv
<1>3. ASSUME NEW p \in Proc, executeDisposal(p) PROVE DisposalInv'
  <2> DEFINE i == handling[p].instance
  <2>1. i \in DOMAIN disposal /\ i \in DOMAIN instance /\ disposal[i].approvedAt
    BY <1>3, <1>b DEF DisposalInv, executeDisposal
  <2>2. /\ DOMAIN disposal' = DOMAIN disposal /\ DOMAIN instance' = DOMAIN instance
        /\ \A j \in DOMAIN instance : j # i => instance'[j] = instance[j]
        /\ \A j \in DOMAIN disposal : j # i => disposal'[j] = disposal[j]
        /\ instance'[i].archivedAt
        /\ overtaken' = overtaken
    BY <1>3, <2>1 DEF executeDisposal, AssetTypes
  <2>3. disposal'[i].status = "Executed" /\ disposal'[i].executedAt
        /\ disposal'[i].approvedAt = disposal[i].approvedAt
    BY <1>3, <1>b, <2>1 DEF executeDisposal, DisposalRow
  <2>4. \A q \in Proc : handling'[q] = IF q = p THEN Idle ELSE handling[q]
    BY <1>3, <1>a DEF executeDisposal
  <2> HIDE DEF i
  <2>5. \A j \in DOMAIN disposal' :
          /\ disposal'[j].status = "Approved" => disposal'[j].approvedAt
          /\ disposal'[j].status = "Executed" => disposal'[j].executedAt
          /\ disposal'[j].executedAt => /\ disposal'[j].approvedAt
                                        /\ instance'[j].archivedAt \/ j \in overtaken'
    BY <1>b, <2>1, <2>2, <2>3 DEF DisposalInv
  <2>6. \A j \in DOMAIN disposal : disposal'[j].approvedAt = disposal[j].approvedAt
    BY <2>2, <2>3
  <2>7. \A q \in Proc : handling'[q].op # "idle" => handling'[q] = handling[q]
    BY <1>0, <2>4
  <2>8. \A q \in Proc : /\ handling'[q].op = "lifecycle" => handling'[q].instance \in DOMAIN instance'
                        /\ handling'[q].op = "dispose" =>
                              /\ handling'[q].instance \in DOMAIN disposal'
                              /\ disposal'[handling'[q].instance].approvedAt
    BY <2>2, <2>6, <2>7 DEF DisposalInv
  <2> QED
    BY <2>5, <2>8 DEF DisposalInv
<1>4. ASSUME NEW p \in Proc, CheckCapacity(p) PROVE DisposalInv'
  <2>1. handling[p].op = "reserve"
    BY <1>4 DEF CheckCapacity, AtStep
  <2>2. [handling[p] EXCEPT !.step = IF handling[p].dto.instance = NoInstance THEN "insert"
                                     ELSE "instance"].op = "reserve"
    BY <2>1, HandlingKind DEF AssetTypes
  <2> QED
    BY <1>4, <1>a, <2>2, DisposalFrame DEF CheckCapacity
<1>5. ASSUME NEW p \in Proc, CheckInstance(p) PROVE DisposalInv'
  <2>1. handling[p].op = "reserve"
    BY <1>5 DEF CheckInstance, AtStep
  <2>2. [handling[p] EXCEPT !.step = "insert"].op = "reserve"
    BY <2>1, HandlingKind DEF AssetTypes
  <2>3. /\ Handle(p, [handling[p] EXCEPT !.step = "insert"])
        /\ UNCHANGED <<instance, disposal, overtaken>>
    BY <1>5 DEF CheckInstance
  <2>4. \A q \in Proc : \/ handling'[q] = handling[q]
                        \/ handling'[q].op \notin {"lifecycle", "dispose"}
    BY <1>a, <2>2, <2>3
  <2> QED
    BY <2>3, <2>4, DisposalFrame
<1>6. ASSUME NEW p \in Proc, createReservation(p) PROVE DisposalInv'
  <2>1. \A q \in Proc : handling[q].op = "reserve" =>
           [handling[q] EXCEPT !.late = TRUE].op = "reserve"
    BY HandlingKind DEF AssetTypes
  <2>2. \A q \in Proc : \/ handling'[q] = handling[q]
                        \/ handling'[q].op \notin {"lifecycle", "dispose"}
    BY <1>0, <1>6, <2>1 DEF createReservation
  <2> QED
    BY <1>6, <2>2, DisposalFrame DEF createReservation
<1>7. ASSUME NEW p \in Proc, NEW w \in Wanted, SumReserved(p, w) PROVE DisposalInv'
  BY <1>7, <1>a, DisposalFrame DEF SumReserved
<1>8. ASSUME NEW p \in Proc, NEW i \in Instance, CheckExecute(p, i) PROVE DisposalInv'
  <2>1. i \in DOMAIN disposal /\ disposal[i].approvedAt
    BY <1>8 DEF CheckExecute, Executable, DisposalInv
  <2>2. \A q \in Proc : handling'[q] = IF q = p THEN [op |-> "dispose", instance |-> i]
                                                ELSE handling[q]
    BY <1>8, <1>a DEF CheckExecute
  <2> QED
    BY <1>8, <2>1, <2>2 DEF CheckExecute, DisposalInv
<1>9. ASSUME NEW p \in Proc, NEW i \in Instance, NEW s \in {"Active", "OutOfUse", "Archived"},
             CheckLifecycle(p, i, s)
      PROVE  DisposalInv'
  <2>1. \A q \in Proc : handling'[q] =
           IF q = p THEN [op |-> "lifecycle", instance |-> i, status |-> s,
                          archivedAt |-> instance[i].archivedAt]
                    ELSE handling[q]
    BY <1>9, <1>a DEF CheckLifecycle
  <2> QED
    BY <1>9, <2>1 DEF CheckLifecycle, DisposalInv
<1>10. ASSUME NEW i \in Instance, createInstance(i) PROVE DisposalInv'
  BY <1>10, DisposalFrame DEF createInstance, Put
<1>11. ASSUME NEW i \in Instance, recordInspection(i) PROVE DisposalInv'
  BY <1>11, SetStatusType, DisposalFrame DEF recordInspection, Registered
<1>12. ASSUME NEW i \in Instance, createMaintenance(i) PROVE DisposalInv'
  BY <1>12, DisposalFrame DEF createMaintenance
<1>13. ASSUME NEW i \in Instance, changeMaintenanceStatus(i) PROVE DisposalInv'
  <2>1. i \in DOMAIN instance
    BY <1>13 DEF changeMaintenanceStatus, AssetTypes
  <2> QED
    BY <1>13, <2>1, SetStatusType, DisposalFrame DEF changeMaintenanceStatus
<1>14. ASSUME NEW i \in Instance, createIncident(i) PROVE DisposalInv'
  BY <1>14, SetStatusType, DisposalFrame DEF createIncident, Registered
<1>15. ASSUME NEW i \in Instance, createDisposal(i) PROVE DisposalInv'
  BY <1>15 DEF createDisposal, Put, DisposalInv
<1>16. ASSUME NEW i \in Instance, NEW s \in DisposalStatus, changeDisposalStatus(i, s)
       PROVE  DisposalInv'
  <2>1. /\ DOMAIN disposal' = DOMAIN disposal
        /\ \A j \in DOMAIN disposal : j # i => disposal'[j] = disposal[j]
        /\ i \in DOMAIN disposal /\ disposal'[i].status = s /\ s # "Executed"
        /\ disposal'[i].approvedAt = (disposal[i].approvedAt \/ s = "Approved")
        /\ disposal'[i].executedAt = disposal[i].executedAt
    BY <1>16, <1>b DEF changeDisposalStatus, DisposalRow
  <2> QED
    BY <1>16, <1>b, <2>1 DEF changeDisposalStatus, DisposalInv
<1>17. ASSUME NEW r \in DOMAIN reservation, NEW s \in ReservationStatus,
              changeReservationStatus(r, s)
       PROVE  DisposalInv'
  BY <1>17, DisposalFrame DEF changeReservationStatus
<1> QED
  BY <1>1, <1>2, <1>3, <1>4, <1>5, <1>6, <1>7, <1>8, <1>9, <1>10, <1>11, <1>12, <1>13,
     <1>14, <1>15, <1>16, <1>17 DEF AssetStep

\* While reservations keep what they are for, and none that counts is added, loads
\* only fall; and instances are only added.
LEMMA ReservationFrame ==
    ASSUME AssetTypes, AssetTypes', ReservationInv,
           DOMAIN reservation' = DOMAIN reservation,
           \A r \in DOMAIN reservation : reservation'[r].dto = reservation[r].dto,
           Held' \subseteq Held,
           DOMAIN instance \subseteq DOMAIN instance'
    PROVE  /\ CheckedReservationsFit'
           /\ \A p \in Proc : handling'[p] = handling[p] => StillTrue(p)'
<1>1. \A d : Units(d) \in Nat /\ Units(d)' \in Nat /\ Units(d) <= Units(d)'
  <2>1. /\ IsFiniteSet(DOMAIN instance') /\ Cardinality(DOMAIN instance') \in Nat
        /\ Cardinality(DOMAIN instance) \in Nat
        /\ Cardinality(DOMAIN instance) <= Cardinality(DOMAIN instance')
    <3>1. IsFiniteSet(DOMAIN instance')
      BY AssetAssumption, FS_Subset DEF AssetTypes
    <3> QED
      BY <3>1, FS_Subset, FS_CardinalityType
  <2> QED
    BY <2>1, AssetAssumption DEF Units
<1>2. Held \subseteq DOMAIN reservation
  BY DEF Held
<1>3. \A rs \in SUBSET Held : \A qs \in SUBSET rs :
         /\ LoadOf(reservation, rs) \in Nat /\ LoadOf(reservation', qs) \in Nat
         /\ LoadOf(reservation', qs) <= LoadOf(reservation, rs)
  <2> SUFFICES ASSUME NEW rs \in SUBSET Held, NEW qs \in SUBSET rs
               PROVE  /\ LoadOf(reservation, rs) \in Nat /\ LoadOf(reservation', qs) \in Nat
                      /\ LoadOf(reservation', qs) <= LoadOf(reservation, rs)
    OBVIOUS
  <2>1. rs \in SUBSET DOMAIN reservation /\ qs \in SUBSET DOMAIN reservation
    BY <1>2
  <2>2. LoadOf(reservation', qs) = LoadOf(reservation, qs)
    BY <2>1, LoadOfSame
  <2> QED
    BY <2>1, <2>2, LoadMonotone, UnitsOfFinite, ReservationsAreRows
<1>4. CheckedReservationsFit'
  <2>1. ASSUME NEW r \in Held' PROVE Load(Beside(r))' <= Units(reservation[r].dto.definition)'
    <3>1. r \in Held /\ r \in DOMAIN reservation /\ reservation'[r].dto = reservation[r].dto
      BY <1>2
    <3>2. Beside(r)' \subseteq Beside(r) /\ Beside(r) \subseteq Held
      BY <1>2, <3>1 DEF Beside
    <3>3. Load(Beside(r)) <= Units(reservation[r].dto.definition)
      BY <3>1 DEF ReservationInv, CheckedReservationsFit
    <3>4. LoadOf(reservation', Beside(r)') <= LoadOf(reservation, Beside(r))
          /\ LoadOf(reservation, Beside(r)) \in Nat /\ LoadOf(reservation', Beside(r)') \in Nat
      BY <1>3, <3>2
    <3>5. Load(Beside(r)) = LoadOf(reservation, Beside(r))
          /\ Load(Beside(r))' = LoadOf(reservation', Beside(r)')
      BY DEF Load, LoadOf, UnitsOf
    <3> DEFINE d == reservation[r].dto.definition
    <3>6. Units(reservation[r].dto.definition)' >= Units(d)
          /\ Units(d) \in Nat /\ Units(reservation[r].dto.definition)' \in Nat
      BY <1>1, <3>1 DEF Units
    <3> QED
      BY <3>3, <3>4, <3>5, <3>6
  <2>2. ASSUME NEW q \in Held', NEW r \in Held', q # r, Overlaps(q, reservation[r].dto)',
               reservation'[r].dto.instance # NoInstance
        PROVE  reservation'[q].dto.instance # reservation'[r].dto.instance
    <3>1. /\ q \in Held /\ r \in Held
          /\ reservation'[r].dto = reservation[r].dto /\ reservation'[q].dto = reservation[q].dto
      BY <1>2
    <3>2. Overlaps(q, reservation[r].dto)
      BY <2>2, <3>1 DEF Overlaps
    <3> QED
      BY <2>2, <3>1, <3>2 DEF ReservationInv, CheckedReservationsFit
  <2> QED
    BY <2>1, <2>2 DEF CheckedReservationsFit
<1>5. ASSUME NEW p \in Proc, handling'[p] = handling[p], handling[p].op = "reserve"
      PROVE  StillTrue(p)'
  <2> DEFINE h == handling[p]
  <2>1. h \in [op: {"reserve"}, step: {"count", "instance", "insert"}, dto: Wanted,
               load: Nat, late: BOOLEAN]
    BY <1>5, HandlingKind DEF AssetTypes
  <2>2. StillTrue(p)
    BY DEF ReservationInv
  <2>3. /\ {r \in Held' : /\ reservation'[r].dto.from < h.dto.to
                          /\ reservation'[r].dto.to > h.dto.from} \subseteq Against(h.dto)
        /\ {r \in Held' : /\ reservation'[r].dto.from < h.dto.to
                          /\ reservation'[r].dto.to > h.dto.from
                          /\ reservation'[r].dto.definition = h.dto.definition}
              \subseteq AgainstOf(h.dto)
    BY <1>2 DEF Against, AgainstOf, Overlaps
  <2>4. AgainstOf(h.dto) \subseteq Held
    BY DEF AgainstOf, Against
  <2>5. ~h.late => Load(AgainstOf(handling[p].dto))' <= h.load
    <3>1. AgainstOf(handling[p].dto)' \subseteq AgainstOf(h.dto)
      BY <1>5, <2>3 DEF AgainstOf, Against, Overlaps
    <3>2. LoadOf(reservation', AgainstOf(handling[p].dto)') <= LoadOf(reservation, AgainstOf(h.dto))
          /\ LoadOf(reservation', AgainstOf(handling[p].dto)') \in Nat
          /\ LoadOf(reservation, AgainstOf(h.dto)) \in Nat
      BY <1>3, <2>4, <3>1
    <3>3. Load(AgainstOf(handling[p].dto))' = LoadOf(reservation', AgainstOf(handling[p].dto)')
          /\ Load(AgainstOf(h.dto)) = LoadOf(reservation, AgainstOf(h.dto))
      BY DEF Load, LoadOf, UnitsOf
    <3> QED
      BY <1>5, <2>1, <2>2, <3>2, <3>3 DEF StillTrue
  <2>6. h.step # "count" => h.load + h.dto.quantity <= Units(handling[p].dto.definition)'
    <3>1. Units(h.dto.definition) \in Nat /\ Units(handling[p].dto.definition)' \in Nat
          /\ Units(h.dto.definition) <= Units(handling[p].dto.definition)'
      BY <1>1, <1>5 DEF Units
    <3>2. h.load \in Nat /\ h.dto.quantity \in Nat
      BY <2>1, WantedFields
    <3> QED
      BY <1>5, <2>2, <3>1, <3>2 DEF StillTrue
  <2>7. h.step = "insert" /\ ~h.late /\ h.dto.instance # NoInstance =>
           \A r \in Against(handling[p].dto)' : reservation'[r].dto.instance # h.dto.instance
    <3>1. Against(handling[p].dto)' \subseteq Against(h.dto) /\ Against(h.dto) \subseteq DOMAIN reservation
      BY <1>2, <1>5, <2>3 DEF Against, Overlaps
    <3> QED
      BY <1>5, <2>2, <3>1 DEF StillTrue
  <2> QED
    BY <1>5, <2>5, <2>6, <2>7 DEF StillTrue
<1>6. ASSUME NEW p \in Proc, handling'[p] = handling[p], handling[p].op # "reserve"
      PROVE  StillTrue(p)'
  BY <1>6 DEF StillTrue
<1> QED
  BY <1>4, <1>5, <1>6

\* A request that begins, or goes on, has found out what it relies on.
LEMMA SumIsTrue ==
    ASSUME AssetTypes, AssetTypes', NEW p \in Proc, NEW w \in Wanted, SumReserved(p, w)
    PROVE  StillTrue(p)'
<1> DEFINE rs == {r \in Overlapping(w) : reservation[r].dto.definition = w.definition}
           h == [op |-> "reserve", step |-> "count", dto |-> w, late |-> FALSE, load |-> Load(rs)]
<1>1. handling'[p] = h /\ reservation' = reservation /\ unchecked' = unchecked
  BY DEF SumReserved, Handle, AssetTypes
<1>2. h.dto = w /\ h.step = "count" /\ h.load = Load(rs)
  OBVIOUS
<1>3. rs \in SUBSET DOMAIN reservation /\ AgainstOf(handling[p].dto)' \in SUBSET rs
  <2>1. AgainstOf(handling[p].dto)' = {r \in Held : /\ reservation[r].dto.from < w.to
                                                   /\ reservation[r].dto.to > w.from
                                                   /\ reservation[r].dto.definition = w.definition}
    BY <1>1, <1>2 DEF AgainstOf, Against, Overlaps, Held
  <2> QED
    BY <2>1 DEF Overlapping, Overlaps, Held
<1>4. Load(AgainstOf(handling[p].dto))' <= Load(rs)
  <2>1. LoadOf(reservation, AgainstOf(handling[p].dto)') <= LoadOf(reservation, rs)
    BY <1>3, LoadMonotone, ReservationsAreRows
  <2> QED
    BY <1>1, <2>1 DEF Load, LoadOf, UnitsOf
<1> QED
  BY <1>1, <1>2, <1>4 DEF StillTrue

LEMMA CapacityIsTrue ==
    ASSUME AssetTypes, AssetTypes', ReservationInv, NEW p \in Proc, CheckCapacity(p)
    PROVE  StillTrue(p)'
<1> DEFINE h == handling[p]
           g == [h EXCEPT !.step = IF h.dto.instance = NoInstance THEN "insert" ELSE "instance"]
<1>1. /\ handling'[p] = g /\ reservation' = reservation /\ unchecked' = unchecked
      /\ instance' = instance
  BY DEF CheckCapacity, Handle, AssetTypes
<1>2. h \in [op: {"reserve"}, step: {"count", "instance", "insert"}, dto: Wanted,
             load: Nat, late: BOOLEAN]
  BY HandlingKind DEF CheckCapacity, AtStep, AssetTypes
<1>3. /\ g.op = "reserve" /\ g.dto = h.dto /\ g.load = h.load /\ g.late = h.late
      /\ g.step = "insert" => h.dto.instance = NoInstance
  BY <1>2
<1> HIDE DEF g
<1>4. h.load + h.dto.quantity <= Units(h.dto.definition)
  <2>1. h.load + h.dto.quantity <= Capacity(h.dto.definition)
    BY DEF CheckCapacity
  <2>2. h.load \in Nat /\ h.dto.quantity \in Nat
    BY <1>2, WantedFields
  <2>3. Units(h.dto.definition) \in Nat /\ Capacity(h.dto.definition) \in Nat
        /\ Capacity(h.dto.definition) <= Units(h.dto.definition)
    BY UnitsType, CapacityWithinUnits
  <2> QED
    BY <2>1, <2>2, <2>3
<1>5. ~h.late => Load(AgainstOf(h.dto)) <= h.load
  BY <1>2 DEF ReservationInv, StillTrue
<1>6. Load(AgainstOf(handling[p].dto))' = Load(AgainstOf(h.dto))
  BY <1>1, <1>3 DEF Load, AgainstOf, Against, Held, Overlaps
<1>7. Units(handling[p].dto.definition)' = Units(h.dto.definition)
  BY <1>1, <1>3 DEF Units
<1> QED
  BY <1>1, <1>3, <1>4, <1>5, <1>6, <1>7 DEF StillTrue

LEMMA InstanceIsTrue ==
    ASSUME AssetTypes, AssetTypes', ReservationInv, NEW p \in Proc, CheckInstance(p)
    PROVE  StillTrue(p)'
<1> DEFINE h == handling[p]
           g == [h EXCEPT !.step = "insert"]
<1>1. /\ handling'[p] = g /\ reservation' = reservation /\ unchecked' = unchecked
      /\ instance' = instance
  BY DEF CheckInstance, Handle, AssetTypes
<1>2. h \in [op: {"reserve"}, step: {"count", "instance", "insert"}, dto: Wanted,
             load: Nat, late: BOOLEAN]
      /\ h.step = "instance"
  BY HandlingKind DEF CheckInstance, AtStep, AssetTypes
<1>3. g.op = "reserve" /\ g.dto = h.dto /\ g.load = h.load /\ g.late = h.late
  BY <1>2
<1> HIDE DEF g
<1>4. /\ ~h.late => Load(AgainstOf(h.dto)) <= h.load
      /\ h.load + h.dto.quantity <= Units(h.dto.definition)
  BY <1>2 DEF ReservationInv, StillTrue
<1>5. Load(AgainstOf(handling[p].dto))' = Load(AgainstOf(h.dto))
  BY <1>1, <1>3 DEF Load, AgainstOf, Against, Held, Overlaps
<1>6. Units(handling[p].dto.definition)' = Units(h.dto.definition)
  BY <1>1, <1>3 DEF Units
<1>7. \A r \in Against(handling[p].dto)' : reservation'[r].dto.instance # h.dto.instance
  <2>1. \A r \in Overlapping(h.dto) : reservation[r].dto.instance # h.dto.instance
    BY DEF CheckInstance
  <2>2. Against(handling[p].dto)' \subseteq Overlapping(h.dto)
    BY <1>1, <1>3 DEF Against, Overlapping, Overlaps, Held
  <2> QED
    BY <1>1, <2>1, <2>2
<1> QED
  BY <1>1, <1>3, <1>4, <1>5, <1>6, <1>7 DEF StillTrue

\* A new reservation, unless it is late, fits with those that count; and it makes
\* every other request in progress late.
LEMMA ReservationCreated ==
    ASSUME AssetTypes, AssetTypes', ReservationInv, NEW p \in Proc, createReservation(p)
    PROVE  ReservationInv'
<1> DEFINE new == Cardinality(DOMAIN reservation) + 1
           h == handling[p]
           w == h.dto
           row == [dto |-> w, status |-> "Reserved"]
<1>1. h \in [op: {"reserve"}, step: {"count", "instance", "insert"}, dto: Wanted,
             load: Nat, late: BOOLEAN]
      /\ h.step = "insert"
  BY HandlingKind DEF createReservation, AtStep, AssetTypes
<1>2. new \notin DOMAIN reservation
  <2>1. PICK n \in 0..MaxReservations : DOMAIN reservation = 1..n
    BY DEF AssetTypes
  <2>2. n \in Nat /\ new = n + 1
    BY <2>1, IntervalFinite, AssetAssumption
  <2> QED
    BY <2>1, <2>2
<1>3. reservation' = Put(reservation, new, row) /\ instance' = instance
      /\ unchecked' = IF h.late THEN unchecked \cup {new} ELSE unchecked
  BY DEF createReservation
<1>4. \A q \in Proc : handling'[q] = IF q = p THEN Idle
                                     ELSE IF handling[q].op = "reserve"
                                          THEN [handling[q] EXCEPT !.late = TRUE]
                                     ELSE handling[q]
  BY DEF createReservation
<1> HIDE DEF new
<1>5. /\ DOMAIN reservation' = DOMAIN reservation \cup {new}
      /\ \A r \in DOMAIN reservation : reservation'[r] = reservation[r]
      /\ reservation'[new].dto = w /\ reservation'[new].status = "Reserved"
  BY <1>2, <1>3 DEF Put
<1>6. unchecked \subseteq DOMAIN reservation
  BY DEF AssetTypes
<1>7. Held' = IF h.late THEN Held ELSE Held \cup {new}
  BY <1>2, <1>3, <1>5, <1>6 DEF Held, InForce
<1>8. Held \subseteq DOMAIN reservation
  BY DEF Held
<1>9. StillTrue(p) /\ CheckedReservationsFit
  BY DEF ReservationInv
<1>10. w.from \in Nat /\ w.to \in Nat /\ w.from < w.to /\ w.quantity \in Nat
  BY <1>1, WantedFields
<1>11. \A r \in DOMAIN reservation' : reservation'[r].dto.from \in Nat /\ reservation'[r].dto.to \in Nat
                                      /\ reservation'[r].dto.from < reservation'[r].dto.to
  BY WantedFields DEF AssetTypes, ReservationRow
<1>12. ASSUME NEW q \in Proc PROVE StillTrue(q)'
  <2>1. CASE handling'[q].op # "reserve"
    BY <2>1 DEF StillTrue
  <2>2. CASE handling'[q].op = "reserve"
    <3>1. q # p /\ handling[q].op = "reserve" /\ handling'[q] = [handling[q] EXCEPT !.late = TRUE]
      BY <1>4, <2>2 DEF Idle
    <3>2. handling[q] \in [op: {"reserve"}, step: {"count", "instance", "insert"}, dto: Wanted,
                           load: Nat, late: BOOLEAN]
      BY <3>1, HandlingKind DEF AssetTypes
    <3>3. /\ handling'[q].late /\ handling'[q].step = handling[q].step
          /\ handling'[q].load = handling[q].load /\ handling'[q].dto = handling[q].dto
      BY <3>1, <3>2
    <3>4. StillTrue(q)
      BY DEF ReservationInv
    <3>5. Units(handling[q].dto.definition)' = Units(handling[q].dto.definition)
      BY <1>3, <3>3 DEF Units
    <3> QED
      BY <3>1, <3>3, <3>4, <3>5 DEF StillTrue
  <2> QED
    BY <2>1, <2>2
<1>13. ASSUME NEW r \in Held' PROVE Load(Beside(r))' <= Units(reservation[r].dto.definition)'
  <2> DEFINE B == Beside(r)'
  <2>1. B = {q \in Held' : /\ reservation'[q].dto.definition = reservation'[r].dto.definition
                           /\ reservation'[q].dto.from <= reservation'[r].dto.from
                           /\ reservation'[r].dto.from < reservation'[q].dto.to}
    BY DEF Beside
  <2>2. Load(Beside(r))' = LoadOf(reservation', B)
    BY DEF Load, LoadOf, UnitsOf
  <2>3. Units(reservation[r].dto.definition)' = Units(reservation'[r].dto.definition)
    BY <1>3 DEF Units
  <2> HIDE DEF B
  <2>4. CASE new \notin B
    <3>1. r \in Held /\ r \in DOMAIN reservation
      <4>1. r \in DOMAIN reservation'
        BY <1>5, <1>7, <1>8
      <4>2. r \in B
        BY <1>11, <2>1, <4>1
      <4> QED
        BY <1>7, <1>8, <2>4, <4>2
    <3>2. B \subseteq Beside(r) /\ B \subseteq DOMAIN reservation
      BY <1>5, <1>7, <1>8, <2>1, <2>4, <3>1 DEF Beside
    <3>3. Beside(r) \in SUBSET DOMAIN reservation
      BY <1>8 DEF Beside
    <3>4. LoadOf(reservation', B) = LoadOf(reservation, B)
      BY <1>5, <3>2, LoadOfSame
    <3>5. LoadOf(reservation, B) <= LoadOf(reservation, Beside(r))
          /\ LoadOf(reservation, B) \in Nat /\ LoadOf(reservation, Beside(r)) \in Nat
      BY <3>2, <3>3, LoadMonotone, UnitsOfFinite, ReservationsAreRows
    <3>6. LoadOf(reservation, Beside(r)) <= Units(reservation[r].dto.definition)
      BY <1>9, <3>1 DEF CheckedReservationsFit, Load, LoadOf, UnitsOf
    <3>7. Units(reservation[r].dto.definition) \in Nat
      BY UnitsType
    <3>8. reservation'[r] = reservation[r]
      BY <1>5, <3>1
    <3> QED
      BY <2>2, <2>3, <3>4, <3>5, <3>6, <3>7, <3>8
  <2>5. CASE new \in B
    <3>1. ~h.late /\ reservation'[r].dto.definition = w.definition
      BY <1>2, <1>5, <1>7, <1>8, <2>1, <2>5
    <3>2. B \subseteq AgainstOf(w) \cup {new}
      <4> SUFFICES ASSUME NEW q \in B, q # new PROVE q \in AgainstOf(w)
        OBVIOUS
      <4>1. q \in Held /\ q \in DOMAIN reservation /\ reservation'[q] = reservation[q]
        BY <1>5, <1>7, <1>8, <2>1
      <4>2. r \in DOMAIN reservation'
        BY <1>5, <1>7, <1>8
      <4>3. /\ reservation[q].dto.from <= reservation'[r].dto.from
            /\ reservation'[r].dto.from < reservation[q].dto.to
            /\ reservation[q].dto.definition = w.definition
            /\ w.from <= reservation'[r].dto.from /\ reservation'[r].dto.from < w.to
        BY <1>5, <2>1, <2>5, <3>1, <4>1
      <4>4. /\ reservation[q].dto.from \in Nat /\ reservation[q].dto.to \in Nat
            /\ reservation'[r].dto.from \in Nat
        BY <1>5, <1>11, <4>1, <4>2
      <4>5. reservation[q].dto.from < w.to /\ reservation[q].dto.to > w.from
        BY <1>10, <4>3, <4>4
      <4> QED
        BY <4>1, <4>3, <4>5 DEF AgainstOf, Against, Overlaps
    <3>3. AgainstOf(w) \in SUBSET DOMAIN reservation
      BY <1>8 DEF AgainstOf, Against
    <3>4. reservation' \in Rows /\ reservation \in Rows
      <4>1. reservation \in Rows
        BY ReservationsAreRows
      <4>2. reservation' \in Rows
        <5>1. PICK n \in 0..MaxReservations : DOMAIN reservation' = 1..n
          BY DEF AssetTypes
        <5>2. n \in Nat /\ reservation' \in [1..n -> ReservationRow]
          BY <5>1, AssetAssumption DEF AssetTypes
        <5> QED
          BY <5>2 DEF Rows
      <4> QED
        BY <4>1, <4>2
    <3>5. LoadOf(reservation', B) <= LoadOf(reservation', AgainstOf(w) \cup {new})
          /\ LoadOf(reservation', B) \in Nat
          /\ LoadOf(reservation', AgainstOf(w) \cup {new}) \in Nat
      <4>1. AgainstOf(w) \cup {new} \in SUBSET DOMAIN reservation'
        BY <1>5, <3>3
      <4> QED
        BY <3>2, <3>4, <4>1, LoadMonotone, UnitsOfFinite
    <3>6. LoadOf(reservation', AgainstOf(w) \cup {new})
             <= LoadOf(reservation', AgainstOf(w)) + w.quantity
      BY <1>5, <3>3, <3>4, LoadWith
    <3>7. LoadOf(reservation', AgainstOf(w)) = LoadOf(reservation, AgainstOf(w))
          /\ LoadOf(reservation, AgainstOf(w)) \in Nat
      BY <1>5, <3>3, <3>4, LoadOfSame, UnitsOfFinite
    <3>8. LoadOf(reservation, AgainstOf(w)) <= h.load
      BY <1>1, <1>9, <3>1 DEF StillTrue, Load, LoadOf, UnitsOf
    <3>9. h.load + w.quantity <= Units(w.definition) /\ h.load \in Nat /\ Units(w.definition) \in Nat
      BY <1>1, <1>9, UnitsType DEF StillTrue
    <3> QED
      BY <1>10, <2>2, <2>3, <3>1, <3>5, <3>6, <3>7, <3>8, <3>9
  <2> QED
    BY <2>4, <2>5
<1>14. ASSUME NEW q \in Held', NEW r \in Held', q # r, Overlaps(q, reservation[r].dto)',
              reservation'[r].dto.instance # NoInstance
       PROVE  reservation'[q].dto.instance # reservation'[r].dto.instance
  <2>1. /\ reservation'[q].dto.from < reservation'[r].dto.to
        /\ reservation'[q].dto.to > reservation'[r].dto.from
    BY <1>14 DEF Overlaps
  <2>2. CASE q # new /\ r # new
    <3>1. /\ q \in Held /\ r \in Held /\ reservation'[q] = reservation[q]
          /\ reservation'[r] = reservation[r]
      BY <1>5, <1>7, <1>8, <2>2
    <3> QED
      BY <1>9, <1>14, <2>1, <3>1 DEF CheckedReservationsFit, Overlaps
  <2>3. ASSUME NEW x \in Held', x # new, ~h.late, w.instance # NoInstance,
               reservation'[x].dto.from < w.to, reservation'[x].dto.to > w.from
        PROVE  reservation'[x].dto.instance # w.instance
    <3>1. x \in Held /\ reservation'[x] = reservation[x]
      BY <1>5, <1>7, <1>8, <2>3
    <3>2. x \in Against(w)
      BY <2>3, <3>1 DEF Against, Overlaps
    <3> QED
      BY <1>1, <1>9, <2>3, <3>1, <3>2 DEF StillTrue
  <2>4. new \in Held' => ~h.late
    BY <1>2, <1>7, <1>8
  <2>5. CASE r = new
    BY <1>5, <1>14, <2>1, <2>3, <2>4, <2>5
  <2>6. CASE q = new
    <3>1. r \in Held' /\ r # new /\ ~h.late
      BY <1>14, <2>4, <2>6
    <3>2. r \in DOMAIN reservation' /\ new \in DOMAIN reservation'
      BY <1>5, <1>7, <1>8
    <3>3. reservation'[r].dto.from < w.to /\ reservation'[r].dto.to > w.from
      BY <1>5, <1>10, <1>11, <2>1, <2>6, <3>2
    <3> QED
      BY <1>5, <1>14, <2>3, <2>6, <3>1, <3>3
  <2> QED
    BY <2>2, <2>5, <2>6
<1> QED
  BY <1>12, <1>13, <1>14 DEF ReservationInv, CheckedReservationsFit

\* A request that is not, or no longer, for a reservation has found out nothing.
LEMMA OtherRequest ==
    ASSUME NEW p \in Proc, handling'[p].op # "reserve"
    PROVE  StillTrue(p)'
BY DEF StillTrue

LEMMA ReservationStep ==
    ASSUME AssetTypes, AssetTypes', DisposalInv, ReservationInv, AssetStep
    PROVE  ReservationInv'
<1>0. Idle.op = "idle"
  BY DEF Idle
<1>a. \A p \in Proc : \A h : Handle(p, h) => \A q \in Proc : handling'[q] = IF q = p THEN h ELSE handling[q]
  BY DEF AssetTypes, Handle
\* The steps that leave the reservations alone, by what happens to the requests.
<1>b. ASSUME reservation' = reservation, unchecked' = unchecked,
             DOMAIN instance \subseteq DOMAIN instance',
             \A q \in Proc : handling'[q] = handling[q] \/ StillTrue(q)'
      PROVE  ReservationInv'
  <2>1. Held' = Held
    BY <1>b DEF Held
  <2>2. CheckedReservationsFit' /\ \A q \in Proc : handling'[q] = handling[q] => StillTrue(q)'
    BY <1>b, <2>1, ReservationFrame
  <2> QED
    BY <1>b, <2>2 DEF ReservationInv
<1>1. ASSUME NEW p \in Proc, Drop(p) PROVE ReservationInv'
  BY <1>0, <1>a, <1>b, <1>1, OtherRequest DEF Drop
<1>2. ASSUME NEW p \in Proc, changeLifecycle(p) PROVE ReservationInv'
  <2>1. DOMAIN instance' = DOMAIN instance
    BY <1>2 DEF changeLifecycle, AssetTypes
  <2> QED
    BY <1>0, <1>a, <1>b, <1>2, <2>1, OtherRequest DEF changeLifecycle
<1>3. ASSUME NEW p \in Proc, executeDisposal(p) PROVE ReservationInv'
  <2>1. DOMAIN instance' = DOMAIN instance
    BY <1>3 DEF executeDisposal, AssetTypes
  <2> QED
    BY <1>0, <1>a, <1>b, <1>3, <2>1, OtherRequest DEF executeDisposal
<1>4. ASSUME NEW p \in Proc, CheckCapacity(p) PROVE ReservationInv'
  <2>1. StillTrue(p)'
    BY <1>4, CapacityIsTrue
  <2> QED
    BY <1>a, <1>b, <1>4, <2>1 DEF CheckCapacity
<1>5. ASSUME NEW p \in Proc, CheckInstance(p) PROVE ReservationInv'
  <2>1. StillTrue(p)'
    BY <1>5, InstanceIsTrue
  <2> QED
    BY <1>a, <1>b, <1>5, <2>1 DEF CheckInstance
<1>6. ASSUME NEW p \in Proc, createReservation(p) PROVE ReservationInv'
  BY <1>6, ReservationCreated
<1>7. ASSUME NEW p \in Proc, NEW w \in Wanted, SumReserved(p, w) PROVE ReservationInv'
  <2>1. StillTrue(p)'
    BY <1>7, SumIsTrue
  <2> QED
    BY <1>a, <1>b, <1>7, <2>1 DEF SumReserved
<1>8. ASSUME NEW p \in Proc, NEW i \in Instance, CheckExecute(p, i) PROVE ReservationInv'
  BY <1>a, <1>b, <1>8, OtherRequest DEF CheckExecute
<1>9. ASSUME NEW p \in Proc, NEW i \in Instance, NEW s \in {"Active", "OutOfUse", "Archived"},
             CheckLifecycle(p, i, s)
      PROVE  ReservationInv'
  BY <1>a, <1>b, <1>9, OtherRequest DEF CheckLifecycle
<1>10. ASSUME NEW i \in Instance, createInstance(i) PROVE ReservationInv'
  BY <1>b, <1>10 DEF createInstance, Put
<1>11. ASSUME NEW i \in Instance, recordInspection(i) PROVE ReservationInv'
  BY <1>b, <1>11, SetStatusType DEF recordInspection, Registered
<1>12. ASSUME NEW i \in Instance, createMaintenance(i) PROVE ReservationInv'
  BY <1>b, <1>12 DEF createMaintenance
<1>13. ASSUME NEW i \in Instance, changeMaintenanceStatus(i) PROVE ReservationInv'
  <2>1. i \in DOMAIN instance
    BY <1>13 DEF changeMaintenanceStatus, AssetTypes
  <2> QED
    BY <1>b, <1>13, <2>1, SetStatusType DEF changeMaintenanceStatus
<1>14. ASSUME NEW i \in Instance, createIncident(i) PROVE ReservationInv'
  BY <1>b, <1>14, SetStatusType DEF createIncident, Registered
<1>15. ASSUME NEW i \in Instance, createDisposal(i) PROVE ReservationInv'
  BY <1>b, <1>15 DEF createDisposal
<1>16. ASSUME NEW i \in Instance, NEW s \in DisposalStatus, changeDisposalStatus(i, s)
       PROVE  ReservationInv'
  BY <1>b, <1>16 DEF changeDisposalStatus
<1>17. ASSUME NEW r \in DOMAIN reservation, NEW s \in ReservationStatus,
              changeReservationStatus(r, s)
       PROVE  ReservationInv'
  <2>1. /\ DOMAIN reservation' = DOMAIN reservation
        /\ \A q \in DOMAIN reservation :
              /\ reservation'[q].dto = reservation[q].dto
              /\ reservation'[q].status = IF q = r THEN s ELSE reservation[q].status
    BY <1>17 DEF changeReservationStatus, AssetTypes, ReservationRow
  <2>2. Held' \subseteq Held
    BY <1>17, <2>1 DEF changeReservationStatus, Held
  <2>3. CheckedReservationsFit' /\ \A q \in Proc : handling'[q] = handling[q] => StillTrue(q)'
    BY <1>17, <2>1, <2>2, ReservationFrame DEF changeReservationStatus
  <2> QED
    BY <1>17, <2>3 DEF changeReservationStatus, ReservationInv
<1> QED
  BY <1>1, <1>2, <1>3, <1>4, <1>5, <1>6, <1>7, <1>8, <1>9, <1>10, <1>11, <1>12, <1>13,
     <1>14, <1>15, <1>16, <1>17 DEF AssetStep

\* Nothing in the invariant is about anything but the assets.
LEMMA AssetsUntouched ==
    ASSUME AssetInv, UNCHANGED assetVars
    PROVE  AssetInv'
<1> USE DEF assetVars
<1>1. AssetTypes'
  BY DEF AssetInv, AssetTypes
<1>2. DisposalInv'
  BY DEF AssetInv, DisposalInv
<1>3. ReservationInv'
  <2>1. Held' = Held
    BY DEF Held
  <2> QED
    BY <1>1, <2>1, ReservationFrame DEF AssetInv, ReservationInv
<1> QED
  BY <1>1, <1>2, <1>3 DEF AssetInv

LEMMA AssetInvariance == AssetSpec => []AssetInv
<1>1. ASSUME AssetInv, [AssetNext]_<<lifecycleVars, assetVars>>
      PROVE  AssetInv'
  <2>1. CASE AssetStep
    <3>1. AssetTypes'
      BY <1>1, <2>1, AssetTypesStep DEF AssetInv
    <3>2. DisposalInv'
      BY <1>1, <2>1, DisposalStep DEF AssetInv
    <3>3. ReservationInv'
      BY <1>1, <2>1, <3>1, ReservationStep DEF AssetInv
    <3> QED
      BY <3>1, <3>2, <3>3 DEF AssetInv
  <2>2. CASE UNCHANGED assetVars
    BY <1>1, <2>2, AssetsUntouched
  <2> QED
    BY <1>1, <2>1, <2>2 DEF AssetNext
<1> QED
  BY <1>1, AssetInitInv, PTL DEF AssetSpec

-----------------------------------------------------------------------------
(***************************************************************************)
(* Assets: theorems                                                        *)
(***************************************************************************)

\* The tables of the assets and the requests in progress keep their types: the
\* numbers of the reservations have no gaps, a disposal is one of an instance.
THEOREM AssetTypeCorrect == AssetSpec => []AssetTypeOK
<1>1. AssetInv => AssetTypeOK
  <2> SUFFICES ASSUME AssetInv PROVE AssetTypeOK
    OBVIOUS
  <2> USE DEF AssetInv, AssetTypes
  <2>1. instance \in PartialOn(Instance, InstanceRow)
    BY DEF PartialOn
  <2>2. disposal \in PartialOn(DOMAIN instance, DisposalRow)
    BY DEF PartialOn
  <2>3. DOMAIN reservation \subseteq 1..MaxReservations
        /\ DOMAIN reservation = 1..Cardinality(DOMAIN reservation)
    <3>1. PICK n \in 0..MaxReservations : DOMAIN reservation = 1..n
      OBVIOUS
    <3>2. n \in Nat /\ MaxReservations \in Nat /\ n <= MaxReservations
      BY AssetAssumption
    <3>3. Cardinality(1..n) = n
      BY <3>2, IntervalFinite
    <3> QED
      BY <3>1, <3>2, <3>3
  <2>4. \A i \in DOMAIN disposal : disposal[i].status = "Executed" => disposal[i].executedAt
    BY DEF DisposalInv
  <2> QED
    BY <2>1, <2>2, <2>3, <2>4 DEF AssetTypeOK
<1> QED
  BY <1>1, AssetInvariance, PTL

\* Reservations whose check overlapped no other insertion, and that nobody has put
\* back in force by hand, never overbook an asset.
THEOREM ReservationsFit == AssetSpec => []CheckedReservationsFit
<1>1. AssetInv => CheckedReservationsFit
  BY DEF AssetInv, ReservationInv
<1> QED
  BY <1>1, AssetInvariance, PTL

\* A disposal is executed after an approval only, and its instance stays out of use
\* unless a change of lifecycle that overlapped it writes back what it had read.
THEOREM DisposedStayOut == AssetSpec => []DisposedStaysOut
<1>1. AssetInv => DisposedStaysOut
  BY DEF AssetInv, DisposalInv, DisposedStaysOut, Usable
<1> QED
  BY <1>1, AssetInvariance, PTL

\* Together with the assets, the lifecycle behaves as on its own: all they do to it
\* is to report an incident.
THEOREM AssetsKeepLifecycle == AssetSpec => LifecycleSpec
<1>1. AssetInit => LifecycleInit
  BY DEF AssetInit
<1>2. ASSUME AssetStep PROVE UNCHANGED lifecycleVars \/ \E s \in Source : NewSource(s)
  <2>1. Incident \subseteq Source
    BY DEF Source
  <2> QED
    BY <1>2, <2>1 DEF AssetStep, Drop, changeLifecycle, executeDisposal, CheckCapacity, CheckInstance,
       createReservation, SumReserved, CheckExecute, CheckLifecycle, createInstance,
       recordInspection, createMaintenance, changeMaintenanceStatus, createIncident,
       createDisposal, changeDisposalStatus, changeReservationStatus
<1>3. [AssetNext]_<<lifecycleVars, assetVars>> => [LifecycleNext]_lifecycleVars
  BY <1>2 DEF AssetNext, LifecycleNext
<1> QED
  BY <1>1, <1>3, PTL DEF AssetSpec, LifecycleSpec

=============================================================================

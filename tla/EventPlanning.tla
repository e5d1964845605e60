---------------------------- MODULE EventPlanning ----------------------------
(***************************************************************************)
(* The planning documents of one event: client briefs and event designs    *)
(* (apps/api/src/event-design), requirement sets and impact reports        *)
(* (apps/api/src/requirements) and mood boards (apps/api/src/mood-boards). *)
(*                                                                         *)
(* A handler that adds a version reads and checks what the version is made *)
(* from, prepares its content, and then, in a SERIALIZABLE transaction,    *)
(* reads the latest version number and inserts the next one.  What it read *)
(* before the transaction is not read again in it.                         *)
(***************************************************************************)
EXTENDS Naturals, FiniteSets, Functions, Tables

CONSTANTS
    Proc,         \* concurrently running request handlers
    MaxVersion,   \* [Kind -> Nat]: bound on the versions of each document
    MaxReports,   \* bound on the impact reports
    MaxCode,      \* bound on the requirement codes, R-001 being 1
    MaxKey,       \* bound on the object keys of mood boards, OBJ-001 being 1
    Quantity,     \* quantities required
    Look,         \* what a scene shows of an object: scene, source, image...
    SetInput,     \* [items, dependencies] of the sets clients create
    Overridden,   \* the new quantities of overrideQuantity
    ReportInput,  \* [proposed, added] items of the reports clients create
    BoardInput,   \* [supplied, unkeyed] objects of the boards clients create
    Reviewed      \* bound on the boards, by version, that enter client review

Kind == {"brief", "design", "set", "board"}

Code == 1..MaxCode
Key == 1..MaxKey

\* override: quantitySource is PlannerOverride and plannerOverride is set.  The
\* status of the items is that of their set: both are written by approveSet.
Item == [quantity: Quantity, override: BOOLEAN]

\* An object of a mood board and the code of the requirement it is linked to.
BoardObject == [code: Code, look: Look, locked: BOOLEAN]

ASSUME PlanningAssumption ==
    /\ MaxVersion \in [Kind -> Nat]
    /\ MaxCode \in Nat /\ MaxKey \in Nat /\ MaxReports \in Nat
    /\ Quantity \subseteq Nat \ {0} /\ Overridden \subseteq Quantity
    /\ SetInput \subseteq [items: UNION {[1..n -> Quantity] : n \in Code},
                           dependencies: SUBSET (Code \X Code)]
    /\ ReportInput \subseteq [proposed: PartialOn(Code, Quantity),
                              added: Quantity \cup {0}]
    /\ BoardInput \subseteq [supplied: PartialOn(Key, BoardObject),
                             unkeyed: SUBSET BoardObject]

VARIABLES
    doc,       \* [Kind -> [version number -> content]]: the four tables
    approved,  \* the <<kind, version>> of designs and sets with status Approved
    report,    \* [id -> RequirementImpactReport with its changes]
    review,    \* [version of a board -> its status and its review records]
    call       \* [Proc -> the handler in progress]

planningVars == <<doc, approved, report, review, call>>

\* from and planned are history: the set it was cloned from, and the quantities
\* the planner gave by an override that no later decision of his withdrew.
SetRow == [design: Nat, items: PartialOn(Code, Item),
           dependencies: SUBSET (Code \X Code),
           baseline: Nat, from: Nat, planned: PartialOn(Code, Quantity)]

BoardRow == [set: Nat, basedOn: Nat, objects: PartialOn(Key, BoardObject)]

ChangeType == {"Added", "Removed", "Changed", "QuantityChanged", "OverrideProtected"}

\* to = 0: the report proposes no item.
Change == [type: ChangeType, to: Quantity \cup {0}]

ReportRow == [baseline: Nat, changes: PartialOn(Code, Change), applied: BOOLEAN]

ReviewRow == [status: {"Draft", "InClientReview", "ChangesRequested", "Approved"},
              submitted: BOOLEAN, records: SUBSET {"ChangeRequest", "Approval"}]

Idle == [op |-> "idle"]

\* version = 0 before the transaction of an insert has read the latest version.
Insert == [op: {"insert"}, kind: Kind, content: SetRow \cup BoardRow \cup [brief: Nat],
           report: Nat, version: Nat]

\* A handler that has found a board in a status it accepts.
Verdict == [op: {"submit", "requestChanges", "approve"}, board: Nat]

\* (the type invariant does not enumerate Insert, whose rows are checked in doc)
PlanningTypeOK ==
    /\ DOMAIN doc = Kind
    /\ \A k \in Kind : DOMAIN doc[k] \subseteq 1..MaxVersion[k]
    /\ \A v \in DOMAIN doc["set"] : doc["set"][v] \in SetRow
    /\ \A v \in DOMAIN doc["board"] : doc["board"][v] \in BoardRow
    /\ \A a \in approved : a[1] \in {"design", "set"} /\ a[2] \in DOMAIN doc[a[1]]
    /\ \A i \in DOMAIN report : report[i] \in ReportRow
    /\ review \in [DOMAIN doc["board"] -> ReviewRow]
    /\ \A p \in Proc : call[p] = Idle \/ call[p] \in Verdict
                                      \/ call[p].op = "insert"

PlanningInit ==
    /\ doc = [k \in Kind |-> Empty]
    /\ approved = {}
    /\ report = Empty
    /\ review = Empty
    /\ call = [p \in Proc |-> Idle]

-----------------------------------------------------------------------------
(***************************************************************************)
(* Adding a version                                                        *)
(***************************************************************************)

Largest(S) == IF S = {} THEN 0 ELSE CHOOSE n \in S : \A m \in S : m <= n

\* The checks before the transaction passed, and the content is prepared.
Prepare(p, kind, content, reportId) ==
    /\ call[p] = Idle
    /\ call' = [call EXCEPT ![p] = [op |-> "insert", kind |-> kind,
                                    content |-> content, report |-> reportId,
                                    version |-> 0]]
    /\ UNCHANGED <<doc, approved, report, review>>

\* The transaction starts with (latest?.version ?? 0) + 1.
ReadLatest(p) ==
    /\ call[p].op = "insert" /\ call[p].version = 0
    /\ LET version == Largest(DOMAIN doc[call[p].kind]) + 1
       IN  /\ version <= MaxVersion[call[p].kind]
           /\ call' = [call EXCEPT ![p].version = version]
    /\ UNCHANGED <<doc, approved, report, review>>

\* Faulty variant: neither the isolation level nor @@unique([eventId, version]).
AnyVersion(kind, version) == TRUE

\* Two transactions that read the same latest version cannot both commit: the
\* tables are unique on the version, and each read what the other wrote.  The
\* row of a report is updated only together with such an insert.
VersionFree(kind, version) == version \notin DOMAIN doc[kind]

NewReview == [status |-> "Draft", submitted |-> FALSE, records |-> {}]

CommitVersion(p) ==
    LET c == call[p] IN
    /\ c.op = "insert" /\ c.version # 0
    /\ VersionFree(c.kind, c.version)
    /\ doc' = [doc EXCEPT ![c.kind] = Put(doc[c.kind], c.version, c.content)]
    /\ report' = [i \in DOMAIN report |->
           IF i = c.report THEN [report[i] EXCEPT !.applied = TRUE] ELSE report[i]]
    /\ review' = IF c.kind = "board" THEN Put(review, c.version, NewReview) ELSE review
    /\ call' = [call EXCEPT ![p] = Idle]
    /\ UNCHANGED approved

\* The handler throws, its transaction fails to serialize, or it is lost.
Throw(p) ==
    /\ call[p] # Idle
    /\ call' = [call EXCEPT ![p] = Idle]
    /\ UNCHANGED <<doc, approved, report, review>>

-----------------------------------------------------------------------------
(***************************************************************************)
(* Briefs and designs                                                      *)
(***************************************************************************)

createClientBriefVersion(p) == Prepare(p, "brief", [brief |-> 0], 0)

createEventDesignVersion(p, b) ==
    /\ b \in DOMAIN doc["brief"]
    /\ Prepare(p, "design", [brief |-> b], 0)

\* Checked and written by one action: a second handler that passed the check
\* writes the same status again.
approveEventDesignVersion(d) ==
    /\ d \in DOMAIN doc["design"] /\ <<"design", d>> \notin approved
    /\ approved' = approved \cup {<<"design", d>>}
    /\ UNCHANGED <<doc, report, review, call>>

-----------------------------------------------------------------------------
(***************************************************************************)
(* Requirement sets                                                        *)
(***************************************************************************)

Targets(edges, n) == {m \in Code : <<n, m>> \in edges}

\* visit of validateDependencyGraph, for the nodes of a set one after the other
\* until one of them finds a cycle.  state: 0 unseen, 1 on the path, 2 done.
someVisit(edges) ==
    LET some[s \in [state: [Code -> 0..2], nodes: SUBSET Code]] ==
            IF s.nodes = {} THEN [cyclic |-> FALSE, state |-> s.state]
            ELSE LET n == CHOOSE n \in s.nodes : TRUE
                     rest(state) == some[[state |-> state, nodes |-> s.nodes \ {n}]]
                 IN  IF s.state[n] = 1 THEN [cyclic |-> TRUE, state |-> s.state]
                     ELSE IF s.state[n] = 2 THEN rest(s.state)
                     ELSE LET below == some[[state |-> [s.state EXCEPT ![n] = 1],
                                             nodes |-> Targets(edges, n)]]
                          IN  IF below.cyclic THEN below
                              ELSE rest([below.state EXCEPT ![n] = 2])
    IN  some

validateDependencyGraph(items, edges) ==
    /\ edges \subseteq items \X items
    /\ \A e \in edges : e[1] # e[2]
    /\ ~someVisit(edges)[[state |-> [c \in Code |-> 0], nodes |-> items]].cyclic

createSet(p, d, input) ==
    /\ <<"design", d>> \in approved
    /\ validateDependencyGraph(DOMAIN input.items, input.dependencies)
    /\ Prepare(p, "set",
           [design |-> d, dependencies |-> input.dependencies,
            items |-> [c \in DOMAIN input.items |->
                          [quantity |-> input.items[c], override |-> FALSE]],
            baseline |-> 0, from |-> 0, planned |-> Empty], 0)

\* approveSet writes the set and its items in one transaction.
approveSet(s) ==
    /\ s \in DOMAIN doc["set"] /\ <<"set", s>> \notin approved
    /\ approved' = approved \cup {<<"set", s>>}
    /\ UNCHANGED <<doc, report, review, call>>

\* Faulty variant: the clone of the other items drops their plannerOverride.
overriddenItemsAlone(items, c, q) ==
    [x \in DOMAIN items |-> [quantity |-> IF x = c THEN q ELSE items[x].quantity,
                             override |-> x = c]]

overriddenItems(items, c, q) ==
    [x \in DOMAIN items |-> IF x = c THEN [quantity |-> q, override |-> TRUE]
                                     ELSE items[x]]

\* Any set of the event may be overridden, the newest or not, approved or not.
overrideQuantity(p, s, c, q) ==
    /\ s \in DOMAIN doc["set"]
    /\ c \in DOMAIN doc["set"][s].items
    /\ LET source == doc["set"][s]
       IN  Prepare(p, "set",
               [design |-> source.design, dependencies |-> source.dependencies,
                items |-> overriddenItems(source.items, c, q),
                baseline |-> 0, from |-> s,
                planned |-> Put(source.planned, c, q)], 0)

-----------------------------------------------------------------------------
(***************************************************************************)
(* Impact reports                                                          *)
(***************************************************************************)

changeType(item, to) ==
    IF item.override THEN "OverrideProtected"
    ELSE IF to = 0 THEN "Removed"
    ELSE IF to # item.quantity THEN "QuantityChanged" ELSE "Changed"

nextCode(items) == Largest(DOMAIN items) + 1

\* proposed: quantities for existing codes; unchanged: those of them whose JSON
\* text equals that of the present item; added: 0 or the quantity of a new item.
Changes(items, proposed, unchanged, added) ==
    LET To(c) == IF c \in DOMAIN proposed THEN proposed[c] ELSE 0
        present == [c \in DOMAIN items \ unchanged |->
                       [type |-> changeType(items[c], To(c)), to |-> To(c)]]
    IN  IF added = 0 THEN present
        ELSE Put(present, nextCode(items), [type |-> "Added", to |-> added])

createReport(s, proposed, unchanged, added) ==
    /\ <<"set", s>> \in approved
    /\ Cardinality(DOMAIN report) < MaxReports
    /\ LET items == doc["set"][s].items
       IN  /\ DOMAIN proposed \subseteq DOMAIN items
           /\ unchanged \subseteq {c \in DOMAIN proposed : proposed[c] = items[c].quantity}
           /\ added # 0 => nextCode(items) \in Code
           /\ report' = Put(report, Cardinality(DOMAIN report) + 1,
                  [baseline |-> s, applied |-> FALSE,
                   changes |-> Changes(items, proposed, unchanged, added)])
    /\ UNCHANGED <<doc, approved, review, call>>

\* Faulty variant: an override the report proposes nothing for is not dropped.
DroppedUnprotected(changes, apply) == {c \in apply : changes[c].type = "Removed"}

\* The items an applied change takes out: those the report proposes nothing for.
Dropped(changes, apply) == {c \in apply : changes[c].to = 0}

appliedItems(items, changes, apply) ==
    [c \in (DOMAIN items \ Dropped(changes, apply))
               \cup {c \in apply : changes[c].type = "Added"} |->
        IF c \in apply THEN [quantity |-> changes[c].to, override |-> FALSE]
                       ELSE items[c]]

\* Faulty variant: every dependency of the baseline is copied.
allDependencies(dependencies, items) == dependencies

keptDependencies(dependencies, items) ==
    {e \in dependencies : e[1] \in DOMAIN items /\ e[2] \in DOMAIN items}

\* The report is PendingReview when it is read; each change is decided, those
\* of apply with Apply and the others with KeepCurrent.
applyReport(p, i, apply) ==
    /\ i \in DOMAIN report /\ ~report[i].applied
    /\ LET changes == report[i].changes
           source == doc["set"][report[i].baseline]
           items == appliedItems(source.items, changes, apply)
           agreed == {c \in apply : changes[c].type = "OverrideProtected"}
       IN  /\ apply \subseteq DOMAIN changes
           /\ Prepare(p, "set",
                  [design |-> source.design, items |-> items,
                   dependencies |-> keptDependencies(source.dependencies, items),
                   baseline |-> report[i].baseline, from |-> report[i].baseline,
                   planned |-> [c \in DOMAIN source.planned \ agreed |->
                                   source.planned[c]]], i)

-----------------------------------------------------------------------------
(***************************************************************************)
(* Mood boards                                                             *)
(***************************************************************************)

\* Faulty variant: locked is left out of the two signatures.
sameSignatureUnlocked(old, new) == old.code = new.code /\ old.look = new.look

\* objectSignature and dtoObjectSignature are equal, and so are the scenes.
sameSignature(old, new) == old = new

validateLockedObjects(previous, supplied) ==
    \A k \in DOMAIN previous : previous[k].locked =>
        /\ k \in DOMAIN supplied
        /\ sameSignature(previous[k], supplied[k])

\* nextObjectNumber continues from the largest key the client supplied.
firstFreeKey(supplied) == Largest(DOMAIN supplied) + 1

create(p, s, basedOn, input) ==
    /\ <<"set", s>> \in approved
    /\ basedOn \in DOMAIN doc["board"] \cup {0}
    /\ \A o \in Range(input.supplied) \cup input.unkeyed :
           o.code \in DOMAIN doc["set"][s].items
    /\ basedOn # 0 =>
           validateLockedObjects(doc["board"][basedOn].objects, input.supplied)
    /\ LET first == firstFreeKey(input.supplied)
           fresh == first..(first + Cardinality(input.unkeyed) - 1)
       IN  /\ fresh \subseteq Key
           /\ \E keyed \in Bijection(fresh, input.unkeyed) :
                 Prepare(p, "board", [set |-> s, basedOn |-> basedOn,
                                      objects |-> Merge(keyed, input.supplied)], 0)

\* Faulty variant: a draft may be approved without a review.
ReviewableOrDraft(v) == review[v].status \in {"Draft", "InClientReview"}

requireReviewableBoard(v) == review[v].status = "InClientReview"

Accepts(op, v) ==
    IF op = "submit" THEN review[v].status \in {"Draft", "ChangesRequested"}
                     ELSE requireReviewableBoard(v)

\* submitForReview, requestChanges and approve: the status is checked ...
CheckBoard(p, op, v) ==
    /\ call[p] = Idle
    /\ v \in DOMAIN doc["board"] /\ Accepts(op, v)
    /\ call' = [call EXCEPT ![p] = [op |-> op, board |-> v]]
    /\ UNCHANGED <<doc, approved, report, review>>

\* ... and written later, with the record of the review, over whatever status
\* the board has by then.
WriteBoard(p) ==
    LET c == call[p] IN
    /\ c.op \in {"submit", "requestChanges", "approve"}
    /\ review' = [review EXCEPT ![c.board] =
           CASE c.op = "submit" ->
                    [status |-> "InClientReview", submitted |-> TRUE, records |-> @.records]
             [] c.op = "requestChanges" ->
                    [status |-> "ChangesRequested", submitted |-> @.submitted,
                     records |-> @.records \cup {"ChangeRequest"}]
             [] OTHER ->
                    [status |-> "Approved", submitted |-> @.submitted,
                     records |-> @.records \cup {"Approval"}]]
    /\ call' = [call EXCEPT ![p] = Idle]
    /\ UNCHANGED <<doc, approved, report>>

-----------------------------------------------------------------------------

NewCall(p) ==
    \/ createClientBriefVersion(p)
    \/ \E b \in DOMAIN doc["brief"] : createEventDesignVersion(p, b)
    \/ \E d \in DOMAIN doc["design"], input \in SetInput : createSet(p, d, input)
    \/ \E s \in DOMAIN doc["set"], c \in Code, q \in Overridden :
          overrideQuantity(p, s, c, q)
    \/ \E i \in DOMAIN report : \E apply \in SUBSET DOMAIN report[i].changes :
          applyReport(p, i, apply)
    \/ \E s \in DOMAIN doc["set"], basedOn \in DOMAIN doc["board"] \cup {0},
          input \in BoardInput : create(p, s, basedOn, input)
    \/ \E v \in DOMAIN doc["board"] \cap Reviewed, op \in {"submit", "requestChanges", "approve"} :
          CheckBoard(p, op, v)

PlanningNext ==
    \/ \E p \in Proc : NewCall(p) \/ ReadLatest(p) \/ CommitVersion(p)
                       \/ WriteBoard(p) \/ Throw(p)
    \/ \E d \in DOMAIN doc["design"] : approveEventDesignVersion(d)
    \/ \E s \in DOMAIN doc["set"] : approveSet(s)
    \/ \E s \in DOMAIN doc["set"], input \in ReportInput :
          \E unchanged \in SUBSET DOMAIN input.proposed :
             createReport(s, input.proposed, unchanged, input.added)

PlanningSpec == PlanningInit /\ [][PlanningNext]_planningVars

-----------------------------------------------------------------------------
(***************************************************************************)
(* Properties                                                              *)
(***************************************************************************)

\* A dependency of the items is one-way in every version of the set, those
\* createSet checked and those copied by later handlers, and both of its ends
\* are items of that version.
Reachable(edges, c) ==
    LET step[n \in 0..MaxCode] ==
            IF n = 0 THEN Targets(edges, c)
            ELSE step[n - 1] \cup UNION {Targets(edges, m) : m \in step[n - 1]}
    IN  step[MaxCode]

DependenciesOneWay ==
    \A s \in DOMAIN doc["set"] : LET row == doc["set"][s] IN
        /\ row.dependencies \subseteq (DOMAIN row.items) \X (DOMAIN row.items)
        /\ \A c \in DOMAIN row.items : c \notin Reachable(row.dependencies, c)

\* A quantity the planner overrode is kept by every version cloned from that one,
\* through any mixture of overrideQuantity and applyReport, until the planner
\* overrides it again or applies a change reported to him as OverrideProtected.
OverridesKept ==
    \A s \in DOMAIN doc["set"] : LET row == doc["set"][s] IN
        \A c \in DOMAIN row.planned :
            /\ c \in DOMAIN row.items
            /\ row.items[c] = [quantity |-> row.planned[c], override |-> TRUE]

\* The versions of briefs, designs, sets and boards form logs as VersionLog
\* requires, whichever handlers prepare and commit versions at the same time.
DocLog == [k \in Kind |->
    [v \in 1..Cardinality(DOMAIN doc[k]) |->
        [content |-> doc[k][v],
         basis |-> CASE k = "set" -> {<<"design", doc[k][v].design>>}
                          \cup (IF doc[k][v].baseline = 0 THEN {}
                                ELSE {<<"set", doc[k][v].baseline>>})
                     [] k = "board" -> {<<"set", doc[k][v].set>>}
                     [] OTHER -> {}]]]

Log == INSTANCE VersionLog WITH log <- DocLog

VersionsFormLogs == Log!LogSpec

\* A locked object of a mood board is in every later board that was revised from
\* it, directly or through other revisions, unchanged and still locked.
RevisedFrom(v) ==
    LET boards == DOMAIN doc["board"]
        closed == {S \in SUBSET boards :
                      v \in S /\ \A x \in S : doc["board"][x].basedOn \in S \cup {0}}
    IN  {w \in boards : \A S \in closed : w \in S}

LockedObjectsKept ==
    \A v \in DOMAIN doc["board"] : \A w \in RevisedFrom(v) :
        \A k \in DOMAIN doc["board"][w].objects :
            doc["board"][w].objects[k].locked =>
                /\ k \in DOMAIN doc["board"][v].objects
                /\ doc["board"][v].objects[k] = doc["board"][w].objects[k]

\* No board is approved, or sent back, that was never submitted to the client or
\* without the record of that review, although the status is checked in one
\* statement and written in a later one.
ReviewsRecorded ==
    \A v \in DOMAIN review : LET row == review[v] IN
        /\ row.status # "Draft" => row.submitted
        /\ row.status = "ChangesRequested" => "ChangeRequest" \in row.records
        /\ row.status = "Approved" => "Approval" \in row.records

=============================================================================

------------------------- MODULE PurchaseOrderDrafts -------------------------
(***************************************************************************)
(* Drafts of purchase orders, extracted from a quotation, reviewed by a    *)
(* user and committed as a purchase order                                  *)
(* (apps/api/src/purchase-orders/purchase-order-drafts.service.ts with     *)
(* apps/api/src/ai-drafts/ai-drafts.service.ts).                           *)
(*                                                                         *)
(* A commit reads the draft and checks it, then checks it again in a       *)
(* SERIALIZABLE transaction that creates the order and marks the draft.    *)
(* A review is a plain READ COMMITTED update that looks at nothing.        *)
(***************************************************************************)
EXTENDS Naturals

CONSTANTS
    Draft,          \* rows of AiDraft
    PurchaseOrder,  \* rows of PurchaseOrder (bounds how many exist)
    Handler,        \* concurrently running request handlers
    Number,         \* purchase order numbers
    MaxReviews,     \* bound on the reviews of a draft
    NoDraft, NoOrder

\* What a draft proposes; complete: no required field is missing.
Payload == [number: Number, complete: BOOLEAN]

NoPayload == [complete |-> FALSE]

ASSUME DraftsAssumption ==
    /\ NoDraft \notin Draft /\ NoOrder \notin PurchaseOrder
    /\ MaxReviews \in Nat

VARIABLES
    draft,          \* [Draft -> row of AiDraft]
    purchaseOrder,  \* [PurchaseOrder -> its row, with what it was created from]
    commit          \* [Handler -> the commit in progress]

draftVars == <<draft, purchaseOrder, commit>>

\* review, a history variable, counts the reviews saved.  Nothing gives a draft
\* the status Discarded.
DraftRow == [status: {"None", "ReviewPending", "ReviewSaved", "Committed"},
             payload: Payload \cup {NoPayload}, approved: Payload \cup {NoPayload},
             target: PurchaseOrder \cup {NoOrder}, review: 0..MaxReviews]

\* draft, review and payload are history: the draft the order was created from,
\* NoDraft when it was created by hand.
OrderRow == [status: {"None", "Present", "Deleted"}, number: Number \cup {0},
             draft: Draft \cup {NoDraft}, review: 0..MaxReviews,
             payload: Payload \cup {NoPayload}]

\* stale: the draft was changed after the snapshot of the transaction.
CommitCall == [stage: {"check", "create"}, draft: Draft,
               payload: Payload \cup {NoPayload}, stale: BOOLEAN]

NoCommit == [stage |-> "none"]

NewDraft == [status |-> "None", payload |-> NoPayload, approved |-> NoPayload,
             target |-> NoOrder, review |-> 0]

NewOrder == [status |-> "None", number |-> 0, draft |-> NoDraft, review |-> 0,
             payload |-> NoPayload]

DraftTypeOK ==
    /\ draft \in [Draft -> DraftRow]
    /\ purchaseOrder \in [PurchaseOrder -> OrderRow]
    /\ commit \in [Handler -> CommitCall \cup {NoCommit}]

DraftInit ==
    /\ draft = [d \in Draft |-> NewDraft]
    /\ purchaseOrder = [o \in PurchaseOrder |-> NewOrder]
    /\ commit = [p \in Handler |-> NoCommit]

At(p, stage) == commit[p].stage = stage

-----------------------------------------------------------------------------
(***************************************************************************)
(* Drafts                                                                  *)
(***************************************************************************)

\* Faulty variant: the status of a purchase order is written.
ExtractedOrderStatus(payload) == [NewDraft EXCEPT !.status = "Draft", !.payload = payload]

Extracted(payload) == [status |-> "ReviewPending", payload |-> payload,
                       approved |-> NoPayload, target |-> NoOrder, review |-> 0]

\* createFromSource, and createAiUploadDraft for an uploaded file.
createFromSource(d, payload) ==
    /\ draft[d].status = "None"
    /\ draft' = [draft EXCEPT ![d] = Extracted(payload)]
    /\ UNCHANGED <<purchaseOrder, commit>>

\* A commit whose transaction has read the draft is stale once it changes.
Overtaken(p, d) ==
    IF At(p, "create") /\ commit[p].draft = d
    THEN [commit[p] EXCEPT !.stale = TRUE] ELSE commit[p]

\* The status of the draft is not looked at.
updateReview(d, payload) ==
    /\ draft[d].status # "None" /\ draft[d].review < MaxReviews
    /\ draft' = [draft EXCEPT ![d] =
           [status |-> "ReviewSaved", payload |-> payload, approved |-> payload,
            target |-> draft[d].target, review |-> draft[d].review + 1]]
    /\ commit' = [p \in Handler |-> Overtaken(p, d)]
    /\ UNCHANGED purchaseOrder

-----------------------------------------------------------------------------
(***************************************************************************)
(* commit                                                                  *)
(***************************************************************************)

\* What a commit asks of the draft, before its transaction and inside of it.  A
\* draft already committed is answered with its order and nothing changes.
Committable(row) == row.status \notin {"None", "Committed"} /\ row.payload.complete

\* The first read and its checks.
CommitRead(p, d) ==
    /\ commit[p] = NoCommit
    /\ Committable(draft[d])
    /\ commit' = [commit EXCEPT ![p] =
           [stage |-> "check", draft |-> d, payload |-> NoPayload, stale |-> FALSE]]
    /\ UNCHANGED <<draft, purchaseOrder>>

\* Faulty variant: the transaction relies on the check made before it.
NoRecheck(row) == row.payload.complete

CheckedAgain(row) == Committable(row)

\* The transaction reads the draft again.
CommitRecheck(p) ==
    LET row == draft[commit[p].draft]
    IN  /\ At(p, "check")
        /\ CheckedAgain(row)
        /\ commit' = [commit EXCEPT ![p].stage = "create", ![p].payload = row.payload]
        /\ UNCHANGED <<draft, purchaseOrder>>

\* Faulty variant: the transaction runs at READ COMMITTED.
NoWriteConflict(p) == FALSE

\* First updater wins: the draft was changed after the snapshot.
WriteConflict(p) == commit[p].stale

\* @@unique([organizationId, purchaseOrderNumber])
NumberFree(n) ==
    \A o \in PurchaseOrder :
        purchaseOrder[o].status = "Present" => purchaseOrder[o].number # n

\* The order is created and the draft marked, and the transaction commits.
CommitCreate(p, o) ==
    LET d == commit[p].draft
        payload == commit[p].payload
    IN  /\ At(p, "create")
        /\ ~WriteConflict(p)
        /\ purchaseOrder[o].status = "None" /\ NumberFree(payload.number)
        /\ purchaseOrder' = [purchaseOrder EXCEPT ![o] =
               [status |-> "Present", number |-> payload.number, draft |-> d,
                review |-> draft[d].review, payload |-> payload]]
        /\ draft' = [draft EXCEPT ![d] =
               [status |-> "Committed", payload |-> draft[d].payload,
                approved |-> payload, target |-> o, review |-> draft[d].review]]
        /\ commit' = [q \in Handler |->
               IF q = p THEN NoCommit ELSE Overtaken(q, d)]

\* A check fails, a serialization failure is answered with a request to reload,
\* or the process is lost.
CommitFails(p) ==
    /\ commit[p] # NoCommit
    /\ commit' = [commit EXCEPT ![p] = NoCommit]
    /\ UNCHANGED <<draft, purchaseOrder>>

-----------------------------------------------------------------------------
(***************************************************************************)
(* Orders, as far as their numbers go (see PurchaseOrders)                 *)
(***************************************************************************)

create(o, n) ==
    /\ purchaseOrder[o].status = "None" /\ NumberFree(n)
    /\ purchaseOrder' = [purchaseOrder EXCEPT ![o] =
           [status |-> "Present", number |-> n, draft |-> NoDraft, review |-> 0,
            payload |-> NoPayload]]
    /\ UNCHANGED <<draft, commit>>

updateDraft(o, n) ==
    /\ purchaseOrder[o].status = "Present" /\ NumberFree(n)
    /\ purchaseOrder' = [purchaseOrder EXCEPT ![o].number = n]
    /\ UNCHANGED <<draft, commit>>

delete(o) ==
    /\ purchaseOrder[o].status = "Present"
    /\ purchaseOrder' = [purchaseOrder EXCEPT ![o].status = "Deleted"]
    /\ UNCHANGED <<draft, commit>>

DraftNext ==
    \/ \E d \in Draft, payload \in Payload :
          createFromSource(d, payload) \/ updateReview(d, payload)
    \/ \E p \in Handler :
          \/ \E d \in Draft : CommitRead(p, d)
          \/ CommitRecheck(p)
          \/ \E o \in PurchaseOrder : CommitCreate(p, o)
          \/ CommitFails(p)
    \/ \E o \in PurchaseOrder :
          \/ \E n \in Number : create(o, n) \/ updateDraft(o, n)
          \/ delete(o)

DraftSpec == DraftInit /\ [][DraftNext]_draftVars

-----------------------------------------------------------------------------
(***************************************************************************)
(* Properties                                                              *)
(***************************************************************************)

FromDraft(o, d) == purchaseOrder[o].status # "None" /\ purchaseOrder[o].draft = d

\* A draft that says Committed was committed as it stands: its order was created
\* from it and from the very content it shows and records as approved, also when
\* a review was saved while the commit was in progress.
CommittedAsReviewed ==
    \A d \in Draft : draft[d].status = "Committed" =>
        /\ draft[d].target \in PurchaseOrder /\ FromDraft(draft[d].target, d)
        /\ purchaseOrder[draft[d].target].payload = draft[d].payload
        /\ draft[d].approved = draft[d].payload

\* However many commits of a draft run at once or follow each other, a review of
\* it leads to one purchase order, also when that order was renumbered or
\* deleted in the meantime.
OneOrderPerReview ==
    \A o1, o2 \in PurchaseOrder, d \in Draft :
        FromDraft(o1, d) /\ FromDraft(o2, d) /\ purchaseOrder[o1].review = purchaseOrder[o2].review
            => o1 = o2

=============================================================================

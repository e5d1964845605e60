---------------------- MODULE PurchaseOrderDraftsProofs ----------------------
(***************************************************************************)
(* Proofs about PurchaseOrderDrafts, for any number of drafts, orders,     *)
(* handlers and reviews.                                                   *)
(*                                                                         *)
(* A review may be saved at any moment, so what a commit has read says     *)
(* something about the draft only while the commit is not stale (Fresh).   *)
(* With it, an order that carries the current review of its draft leaves   *)
(* the draft Committed (Spent): no second commit of that review gets past  *)
(* the check inside its transaction.                                       *)
(***************************************************************************)
EXTENDS PurchaseOrderDrafts, TLAPS

\* An order is created from a review the draft has had.
Counted ==
    \A o \in PurchaseOrder, d \in Draft :
        FromDraft(o, d) => /\ purchaseOrder[o].review <= draft[d].review
                           /\ draft[d].status # "None"

\* While an order carries the current review of its draft, the draft is Committed.
Spent ==
    \A o \in PurchaseOrder, d \in Draft :
        FromDraft(o, d) /\ purchaseOrder[o].review = draft[d].review
            => draft[d].status = "Committed"

\* A commit that is not stale is about to write what the draft shows.
Fresh ==
    \A p \in Handler :
        At(p, "create") /\ ~commit[p].stale =>
            /\ draft[commit[p].draft].status \notin {"None", "Committed"}
            /\ commit[p].payload = draft[commit[p].draft].payload

\* A commit that passed its checks has something to create an order from.
Proposed == \A p \in Handler : At(p, "create") => commit[p].payload \in Payload

DraftInv ==
    /\ DraftTypeOK
    /\ Proposed
    /\ Counted /\ Spent /\ Fresh
    /\ CommittedAsReviewed /\ OneOrderPerReview

-----------------------------------------------------------------------------
\* An order that was not there came from no draft.
LEMMA AbsentOrder ==
    ASSUME NEW o \in PurchaseOrder, purchaseOrder[o].status = "None"
    PROVE  \A d \in Draft : ~FromDraft(o, d)
  BY DEF FromDraft

\* The rows the actions write have the type of a row.
LEMMA NewRows ==
    /\ NewDraft \in DraftRow
    /\ NewOrder \in OrderRow
    /\ \A payload \in Payload : Extracted(payload) \in DraftRow
  <1>1. 0 \in 0..MaxReviews
    BY DraftsAssumption DEF DraftsAssumption
  <1>2. NewDraft \in DraftRow
    BY <1>1 DEF NewDraft, DraftRow
  <1>3. NewOrder \in OrderRow
    BY <1>1 DEF NewOrder, OrderRow
  <1>4. ASSUME NEW payload \in Payload PROVE Extracted(payload) \in DraftRow
    BY <1>1 DEF Extracted, DraftRow
  <1> QED
    BY <1>2, <1>3, <1>4

LEMMA InitInv == DraftInit => DraftInv
  <1>1. SUFFICES ASSUME DraftInit PROVE DraftInv
    OBVIOUS
  <1>2. DraftTypeOK
    BY <1>1, NewRows DEF DraftInit, DraftTypeOK
  <1>3. \A d \in Draft : draft[d].status = "None" /\ draft[d].review = 0
    BY <1>1 DEF DraftInit, NewDraft
  <1>4. \A o \in PurchaseOrder, d \in Draft : ~FromDraft(o, d)
    BY <1>1 DEF DraftInit, NewOrder, FromDraft
  <1>5. \A p \in Handler : ~At(p, "create")
    BY <1>1 DEF DraftInit, NoCommit, At
  <1> QED
    BY <1>2, <1>3, <1>4, <1>5
    DEF DraftInv, Proposed, Counted, Spent, Fresh, CommittedAsReviewed, OneOrderPerReview

-----------------------------------------------------------------------------
\* What a commit in progress looks like.
LEMMA CommitTyping ==
    ASSUME DraftTypeOK, NEW p \in Handler, commit[p].stage # "none"
    PROVE  /\ commit[p] \in CommitCall
           /\ commit[p].draft \in Draft
           /\ commit[p].payload \in Payload \cup {NoPayload}
  BY DEF DraftTypeOK, CommitCall, NoCommit

\* Overtaking a commit changes nothing but its staleness.
LEMMA OvertakenTyping ==
    ASSUME DraftTypeOK, NEW p \in Handler, NEW d
    PROVE  /\ Overtaken(p, d) \in CommitCall \cup {NoCommit}
           /\ Overtaken(p, d).stage = commit[p].stage
           /\ At(p, "create") => /\ Overtaken(p, d).draft = commit[p].draft
                                 /\ Overtaken(p, d).payload = commit[p].payload
                                 /\ ~Overtaken(p, d).stale =>
                                        ~commit[p].stale /\ commit[p].draft # d
  <1>1. CASE At(p, "create") /\ commit[p].draft = d
    <2>1. commit[p] \in CommitCall
      BY <1>1, CommitTyping DEF At
    <2> QED
      BY <1>1, <2>1 DEF Overtaken, CommitCall, At
  <1>2. CASE ~(At(p, "create") /\ commit[p].draft = d)
    BY <1>2 DEF Overtaken, DraftTypeOK, At
  <1> QED
    BY <1>1, <1>2

-----------------------------------------------------------------------------
LEMMA CreateFromSourceInv ==
    ASSUME DraftInv, NEW d \in Draft, NEW payload \in Payload,
           createFromSource(d, payload)
    PROVE  DraftInv'
  <1>1. /\ purchaseOrder' = purchaseOrder /\ commit' = commit
        /\ draft[d].status = "None"
        /\ draft' = [draft EXCEPT ![d] = Extracted(payload)]
    BY DEF createFromSource
  <1>2. DraftTypeOK'
    BY <1>1, NewRows DEF DraftInv, DraftTypeOK
  <1>3. \A e \in Draft : e # d => draft'[e] = draft[e]
    BY <1>1 DEF DraftInv, DraftTypeOK
  <1>4. draft'[d].status = "ReviewPending"
    BY <1>1 DEF DraftInv, DraftTypeOK, Extracted
  <1>5. \A o \in PurchaseOrder : ~FromDraft(o, d)
    BY <1>1 DEF DraftInv, Counted
  <1>6. \A o \in PurchaseOrder, e \in Draft : FromDraft(o, e)' = FromDraft(o, e)
    BY <1>1 DEF FromDraft
  <1>7. Proposed'
    BY <1>1 DEF DraftInv, Proposed, At
  <1>8. Counted' /\ Spent'
    BY <1>1, <1>3, <1>5, <1>6 DEF DraftInv, Counted, Spent
  <1>9. Fresh'
    <2> SUFFICES ASSUME NEW p \in Handler, At(p, "create"), ~commit[p].stale
                 PROVE  /\ commit[p].draft \in Draft
                        /\ commit[p].draft # d
      BY <1>1, <1>3 DEF DraftInv, Fresh, At
    <2> QED
      BY <1>1, CommitTyping DEF DraftInv, Fresh, At
  <1>10. CommittedAsReviewed'
    BY <1>1, <1>3, <1>4, <1>6 DEF DraftInv, CommittedAsReviewed
  <1>11. OneOrderPerReview'
    BY <1>1, <1>6 DEF DraftInv, OneOrderPerReview
  <1> QED
    BY <1>2, <1>7, <1>8, <1>9, <1>10, <1>11 DEF DraftInv

LEMMA UpdateReviewInv ==
    ASSUME DraftInv, NEW d \in Draft, NEW payload \in Payload,
           updateReview(d, payload)
    PROVE  DraftInv'
  <1> DEFINE reviewed == [status |-> "ReviewSaved", payload |-> payload,
                          approved |-> payload, target |-> draft[d].target,
                          review |-> draft[d].review + 1]
  <1>1. /\ purchaseOrder' = purchaseOrder
        /\ draft[d].status # "None" /\ draft[d].review < MaxReviews
        /\ draft' = [draft EXCEPT ![d] = reviewed]
        /\ commit' = [p \in Handler |-> Overtaken(p, d)]
    BY DEF updateReview
  <1>2. draft[d].review \in 0..MaxReviews /\ draft[d].target \in PurchaseOrder \cup {NoOrder}
    BY DEF DraftInv, DraftTypeOK, DraftRow
  <1>3. draft[d].review + 1 \in 0..MaxReviews
    BY <1>1, <1>2, DraftsAssumption DEF DraftsAssumption
  <1>4. reviewed \in DraftRow
    BY <1>2, <1>3 DEF DraftRow
  <1>5. DraftTypeOK'
    BY <1>1, <1>4, OvertakenTyping DEF DraftInv, DraftTypeOK
  <1>6. /\ \A e \in Draft : e # d => draft'[e] = draft[e]
        /\ draft'[d] = reviewed
    BY <1>1 DEF DraftInv, DraftTypeOK
  <1>7. \A o \in PurchaseOrder, e \in Draft : FromDraft(o, e)' = FromDraft(o, e)
    BY <1>1 DEF FromDraft
  <1>8. ASSUME NEW p \in Handler, At(p, "create")'
        PROVE  /\ At(p, "create") /\ commit'[p] = Overtaken(p, d)
               /\ commit'[p].payload = commit[p].payload
               /\ commit'[p].draft = commit[p].draft
               /\ ~commit'[p].stale => ~commit[p].stale /\ commit[p].draft # d
    BY <1>1, <1>8, OvertakenTyping DEF DraftInv, At
  <1>9. Proposed'
    BY <1>8 DEF DraftInv, Proposed
  <1>10. \A o \in PurchaseOrder : purchaseOrder[o].review \in Nat
    BY DraftsAssumption DEF DraftInv, DraftTypeOK, OrderRow, DraftsAssumption
  <1>11. \A o \in PurchaseOrder : FromDraft(o, d) => purchaseOrder[o].review < draft[d].review + 1
    BY <1>2, <1>10, DraftsAssumption DEF DraftInv, Counted, DraftsAssumption
  <1>12. Counted'
    BY <1>1, <1>2, <1>6, <1>7, <1>10, <1>11 DEF DraftInv, Counted
  <1>13. Spent'
    BY <1>1, <1>2, <1>6, <1>7, <1>10, <1>11 DEF DraftInv, Spent
  <1>14. Fresh'
    <2> SUFFICES ASSUME NEW p \in Handler, At(p, "create")', ~commit'[p].stale
                 PROVE  /\ draft'[commit'[p].draft].status \notin {"None", "Committed"}
                        /\ commit'[p].payload = draft'[commit'[p].draft].payload
      BY DEF Fresh
    <2>1. /\ At(p, "create") /\ ~commit[p].stale /\ commit[p].draft # d
          /\ commit'[p].payload = commit[p].payload
          /\ commit'[p].draft = commit[p].draft
      BY <1>8
    <2>2. draft'[commit[p].draft] = draft[commit[p].draft]
      BY <1>6, <2>1, CommitTyping DEF DraftInv, At
    <2> QED
      BY <2>1, <2>2 DEF DraftInv, Fresh
  <1>15. CommittedAsReviewed'
    BY <1>1, <1>6, <1>7 DEF DraftInv, CommittedAsReviewed
  <1>16. OneOrderPerReview'
    BY <1>1, <1>7 DEF DraftInv, OneOrderPerReview
  <1> QED
    BY <1>5, <1>9, <1>12, <1>13, <1>14, <1>15, <1>16 DEF DraftInv

-----------------------------------------------------------------------------
\* A step that leaves the drafts and the orders alone keeps the invariant if the
\* commits keep their type and what their stage says of them.
LEMMA DraftsAndOrdersKept ==
    ASSUME DraftInv, draft' = draft, purchaseOrder' = purchaseOrder,
           DraftTypeOK', Proposed', Fresh'
    PROVE  DraftInv'
  <1>1. \A o \in PurchaseOrder, d \in Draft : FromDraft(o, d)' = FromDraft(o, d)
    BY DEF FromDraft
  <1> QED
    BY <1>1 DEF DraftInv, Counted, Spent, CommittedAsReviewed, OneOrderPerReview

LEMMA CommitReadInv ==
    ASSUME DraftInv, NEW p \in Handler, NEW d \in Draft, CommitRead(p, d)
    PROVE  DraftInv'
  <1> DEFINE call == [stage |-> "check", draft |-> d, payload |-> NoPayload,
                      stale |-> FALSE]
  <1>1. /\ draft' = draft /\ purchaseOrder' = purchaseOrder
        /\ commit' = [commit EXCEPT ![p] = call]
    BY DEF CommitRead
  <1>2. call \in CommitCall
    BY DEF CommitCall
  <1>3. DraftTypeOK'
    BY <1>1, <1>2 DEF DraftInv, DraftTypeOK
  <1>4. \A q \in Handler : At(q, "create")' => At(q, "create") /\ commit'[q] = commit[q]
    BY <1>1 DEF DraftInv, DraftTypeOK, At
  <1>5. Proposed' /\ Fresh'
    BY <1>1, <1>4 DEF DraftInv, Proposed, Fresh
  <1> QED
    BY <1>1, <1>3, <1>5, DraftsAndOrdersKept

LEMMA CommitFailsInv ==
    ASSUME DraftInv, NEW p \in Handler, CommitFails(p)
    PROVE  DraftInv'
  <1>1. /\ draft' = draft /\ purchaseOrder' = purchaseOrder
        /\ commit' = [commit EXCEPT ![p] = NoCommit]
    BY DEF CommitFails
  <1>2. DraftTypeOK'
    BY <1>1 DEF DraftInv, DraftTypeOK
  <1>3. \A q \in Handler : At(q, "create")' => At(q, "create") /\ commit'[q] = commit[q]
    BY <1>1 DEF DraftInv, DraftTypeOK, At, NoCommit
  <1>4. Proposed' /\ Fresh'
    BY <1>1, <1>3 DEF DraftInv, Proposed, Fresh
  <1> QED
    BY <1>1, <1>2, <1>4, DraftsAndOrdersKept

LEMMA CommitRecheckInv ==
    ASSUME DraftInv, NEW p \in Handler, CommitRecheck(p)
    PROVE  DraftInv'
  <1> DEFINE d == commit[p].draft
             call == [commit[p] EXCEPT !.stage = "create", !.payload = draft[d].payload]
  <1>1. /\ draft' = draft /\ purchaseOrder' = purchaseOrder
        /\ At(p, "check") /\ Committable(draft[d])
        /\ commit' = [commit EXCEPT ![p] = call]
    BY DEF CommitRecheck, CheckedAgain
  <1>2. commit[p] \in CommitCall /\ d \in Draft
    BY <1>1, CommitTyping DEF DraftInv, At
  <1>3. draft[d].payload \in Payload
    <2>1. draft[d].payload \in Payload \cup {NoPayload}
      BY <1>2 DEF DraftInv, DraftTypeOK, DraftRow
    <2>2. draft[d].payload # NoPayload
      BY <1>1 DEF Committable, NoPayload
    <2> QED
      BY <2>1, <2>2
  <1>4. call \in CommitCall
    BY <1>2, <1>3 DEF CommitCall
  <1>5. DraftTypeOK'
    BY <1>1, <1>4 DEF DraftInv, DraftTypeOK
  <1>6. \A q \in Handler : q # p => commit'[q] = commit[q]
    BY <1>1 DEF DraftInv, DraftTypeOK
  <1>7. commit'[p] = call
    BY <1>1 DEF DraftInv, DraftTypeOK
  <1>8. call.payload = draft[d].payload /\ call.draft = d
    BY <1>2 DEF CommitCall
  <1>9. Proposed'
    BY <1>3, <1>6, <1>7, <1>8 DEF DraftInv, Proposed, At
  <1>10. draft[d].status \notin {"None", "Committed"}
    BY <1>1 DEF Committable
  <1>11. Fresh'
    BY <1>1, <1>6, <1>7, <1>8, <1>10 DEF DraftInv, Fresh, At
  <1> QED
    BY <1>1, <1>5, <1>9, <1>11, DraftsAndOrdersKept

-----------------------------------------------------------------------------
\* The commit writes order and draft together: what makes the order the only one
\* of its review is Spent and Fresh before the step.
LEMMA CommitCreateInv ==
    ASSUME DraftInv, NEW p \in Handler, NEW o \in PurchaseOrder, CommitCreate(p, o)
    PROVE  DraftInv'
  <1> DEFINE d == commit[p].draft
             payload == commit[p].payload
             created == [status |-> "Present", number |-> payload.number, draft |-> d,
                         review |-> draft[d].review, payload |-> payload]
             marked == [status |-> "Committed", payload |-> draft[d].payload,
                        approved |-> payload, target |-> o,
                        review |-> draft[d].review]
  <1>1. /\ At(p, "create") /\ ~commit[p].stale
        /\ purchaseOrder[o].status = "None"
        /\ purchaseOrder' = [purchaseOrder EXCEPT ![o] = created]
        /\ draft' = [draft EXCEPT ![d] = marked]
        /\ commit' = [q \in Handler |-> IF q = p THEN NoCommit ELSE Overtaken(q, d)]
    BY DEF CommitCreate, WriteConflict
  <1>2. d \in Draft
    BY <1>1, CommitTyping DEF DraftInv, At
  <1>3. /\ payload \in Payload /\ payload = draft[d].payload
        /\ draft[d].status # "Committed"
    BY <1>1 DEF DraftInv, Proposed, Fresh
  <1>4. payload.number \in Number
    BY <1>3 DEF Payload
  <1>5. draft[d].review \in 0..MaxReviews
    BY <1>2 DEF DraftInv, DraftTypeOK, DraftRow
  <1>6. created \in OrderRow /\ marked \in DraftRow
    <2> HIDE DEF d, payload
    <2> QED
      BY <1>2, <1>3, <1>4, <1>5 DEF OrderRow, DraftRow
  <1>7. DraftTypeOK'
    BY <1>1, <1>6, OvertakenTyping DEF DraftInv, DraftTypeOK
  <1>8. /\ purchaseOrder'[o] = created /\ draft'[d] = marked
        /\ \A x \in PurchaseOrder : x # o => purchaseOrder'[x] = purchaseOrder[x]
        /\ \A e \in Draft : e # d => draft'[e] = draft[e]
    BY <1>1, <1>2 DEF DraftInv, DraftTypeOK
  <1>9. /\ \A e \in Draft : ~FromDraft(o, e)
        /\ \A e \in Draft : FromDraft(o, e)' <=> e = d
        /\ \A x \in PurchaseOrder, e \in Draft : x # o => FromDraft(x, e)' = FromDraft(x, e)
    BY <1>1, <1>8 DEF FromDraft
  <1>10. /\ created.review = draft[d].review /\ created.payload = draft[d].payload
         /\ marked.status = "Committed" /\ marked.review = draft[d].review
         /\ marked.payload = draft[d].payload /\ marked.approved = draft[d].payload
         /\ marked.target = o
    BY <1>3
  <1> HIDE DEF created, marked
  <1>11. \A x \in PurchaseOrder : FromDraft(x, d) => purchaseOrder[x].review # draft[d].review
    BY <1>2, <1>3 DEF DraftInv, Spent
  <1>12. ASSUME NEW q \in Handler, At(q, "create")'
         PROVE  /\ At(q, "create")
                /\ commit'[q].payload = commit[q].payload
                /\ commit'[q].draft = commit[q].draft
                /\ ~commit'[q].stale => ~commit[q].stale /\ commit[q].draft # d
    <2>1. q # p
      BY <1>1, <1>12 DEF At, NoCommit
    <2> QED
      BY <1>1, <1>12, <2>1, OvertakenTyping DEF DraftInv, At
  <1>13. Proposed'
    BY <1>12 DEF DraftInv, Proposed
  <1>14. Counted'
    <2> SUFFICES ASSUME NEW x \in PurchaseOrder, NEW e \in Draft, FromDraft(x, e)'
                 PROVE  purchaseOrder'[x].review <= draft'[e].review /\ draft'[e].status # "None"
      BY DEF Counted
    <2>1. CASE x = o
      BY <1>5, <1>8, <1>9, <1>10, <2>1
    <2>2. CASE x # o
      BY <1>8, <1>9, <1>10, <2>2 DEF DraftInv, Counted
    <2> QED
      BY <2>1, <2>2
  <1>15. Spent'
    BY <1>8, <1>9, <1>10 DEF DraftInv, Spent
  <1>16. Fresh'
    <2> SUFFICES ASSUME NEW q \in Handler, At(q, "create")', ~commit'[q].stale
                 PROVE  /\ draft'[commit'[q].draft].status \notin {"None", "Committed"}
                        /\ commit'[q].payload = draft'[commit'[q].draft].payload
      BY DEF Fresh
    <2>1. /\ At(q, "create") /\ ~commit[q].stale /\ commit[q].draft # d
          /\ commit'[q].payload = commit[q].payload
          /\ commit'[q].draft = commit[q].draft
      BY <1>12
    <2>2. draft'[commit[q].draft] = draft[commit[q].draft]
      BY <1>8, <2>1, CommitTyping DEF DraftInv, At
    <2> QED
      BY <2>1, <2>2 DEF DraftInv, Fresh
  <1>17. CommittedAsReviewed'
    <2> SUFFICES ASSUME NEW e \in Draft, draft'[e].status = "Committed"
                 PROVE  /\ draft'[e].target \in PurchaseOrder
                        /\ FromDraft(draft[e].target, e)'
                        /\ purchaseOrder'[draft'[e].target].payload = draft'[e].payload
                        /\ draft'[e].approved = draft'[e].payload
      BY DEF CommittedAsReviewed
    <2>1. CASE e = d
      BY <1>8, <1>9, <1>10, <2>1
    <2>2. CASE e # d
      <3>1. /\ draft'[e] = draft[e] /\ draft[e].target \in PurchaseOrder
            /\ FromDraft(draft[e].target, e)
            /\ purchaseOrder[draft[e].target].payload = draft[e].payload
            /\ draft[e].approved = draft[e].payload
        BY <1>8, <2>2 DEF DraftInv, CommittedAsReviewed
      <3>2. draft[e].target # o
        BY <1>9, <3>1
      <3> QED
        BY <1>8, <1>9, <3>1, <3>2
    <2> QED
      BY <2>1, <2>2
  <1>18. OneOrderPerReview'
    <2> SUFFICES ASSUME NEW x \in PurchaseOrder, NEW y \in PurchaseOrder, NEW e \in Draft,
                        FromDraft(x, e)', FromDraft(y, e)',
                        purchaseOrder'[x].review = purchaseOrder'[y].review
                 PROVE  x = y
      BY DEF OneOrderPerReview
    <2>1. CASE x # o /\ y # o
      BY <1>8, <1>9, <2>1 DEF DraftInv, OneOrderPerReview
    <2>2. CASE x = o /\ y # o
      BY <1>8, <1>9, <1>10, <1>11, <2>2
    <2>3. CASE x # o /\ y = o
      BY <1>8, <1>9, <1>10, <1>11, <2>3
    <2> QED
      BY <2>1, <2>2, <2>3
  <1> QED
    BY <1>7, <1>13, <1>14, <1>15, <1>16, <1>17, <1>18 DEF DraftInv

-----------------------------------------------------------------------------
\* A step that changes orders only, and of an order neither the draft, the review
\* nor the content it was created from, keeps the invariant.
LEMMA DraftsKept ==
    ASSUME DraftInv, draft' = draft, commit' = commit, DraftTypeOK',
           \A o \in PurchaseOrder, d \in Draft : FromDraft(o, d)' = FromDraft(o, d),
           \A o \in PurchaseOrder, d \in Draft :
               FromDraft(o, d) => /\ purchaseOrder'[o].review = purchaseOrder[o].review
                                  /\ purchaseOrder'[o].payload = purchaseOrder[o].payload
    PROVE  DraftInv'
  <1>1. Proposed' /\ Fresh'
    BY DEF DraftInv, Proposed, Fresh, At
  <1>2. Counted' /\ Spent' /\ OneOrderPerReview'
    BY DEF DraftInv, Counted, Spent, OneOrderPerReview
  <1>3. CommittedAsReviewed'
    BY DEF DraftInv, CommittedAsReviewed
  <1> QED
    BY <1>1, <1>2, <1>3 DEF DraftInv

LEMMA CreateInv ==
    ASSUME DraftInv, NEW o \in PurchaseOrder, NEW n \in Number, create(o, n)
    PROVE  DraftInv'
  <1> DEFINE created == [status |-> "Present", number |-> n, draft |-> NoDraft,
                         review |-> 0, payload |-> NoPayload]
  <1>1. /\ purchaseOrder[o].status = "None" /\ draft' = draft /\ commit' = commit
        /\ purchaseOrder' = [purchaseOrder EXCEPT ![o] = created]
    BY DEF create
  <1>2. created \in OrderRow
    BY DraftsAssumption DEF OrderRow, DraftsAssumption
  <1>3. DraftTypeOK'
    BY <1>1, <1>2 DEF DraftInv, DraftTypeOK
  <1>4. /\ \A x \in PurchaseOrder : x # o => purchaseOrder'[x] = purchaseOrder[x]
        /\ purchaseOrder'[o].draft = NoDraft
    BY <1>1 DEF DraftInv, DraftTypeOK
  <1>5. \A d \in Draft : ~FromDraft(o, d) /\ ~FromDraft(o, d)'
    BY <1>1, <1>4, DraftsAssumption DEF FromDraft, DraftsAssumption
  <1>6. \A x \in PurchaseOrder, d \in Draft : FromDraft(x, d)' = FromDraft(x, d)
    BY <1>4, <1>5 DEF FromDraft
  <1> QED
    BY <1>1, <1>3, <1>4, <1>5, <1>6, DraftsKept

LEMMA UpdateDraftInv ==
    ASSUME DraftInv, NEW o \in PurchaseOrder, NEW n \in Number, updateDraft(o, n)
    PROVE  DraftInv'
  <1>1. /\ purchaseOrder[o].status = "Present" /\ draft' = draft /\ commit' = commit
        /\ purchaseOrder' = [purchaseOrder EXCEPT ![o].number = n]
    BY DEF updateDraft
  <1>2. DraftTypeOK'
    BY <1>1 DEF DraftInv, DraftTypeOK, OrderRow
  <1>3. \A x \in PurchaseOrder : /\ purchaseOrder'[x].status = purchaseOrder[x].status
                                 /\ purchaseOrder'[x].draft = purchaseOrder[x].draft
                                 /\ purchaseOrder'[x].review = purchaseOrder[x].review
                                 /\ purchaseOrder'[x].payload = purchaseOrder[x].payload
    BY <1>1 DEF DraftInv, DraftTypeOK, OrderRow
  <1>4. \A x \in PurchaseOrder, d \in Draft : FromDraft(x, d)' = FromDraft(x, d)
    BY <1>3 DEF FromDraft
  <1> QED
    BY <1>1, <1>2, <1>3, <1>4, DraftsKept

LEMMA DeleteInv ==
    ASSUME DraftInv, NEW o \in PurchaseOrder, delete(o)
    PROVE  DraftInv'
  <1>1. /\ purchaseOrder[o].status = "Present" /\ draft' = draft /\ commit' = commit
        /\ purchaseOrder' = [purchaseOrder EXCEPT ![o].status = "Deleted"]
    BY DEF delete
  <1>2. DraftTypeOK'
    BY <1>1 DEF DraftInv, DraftTypeOK, OrderRow
  <1>3. \A x \in PurchaseOrder : /\ purchaseOrder'[x].status = "None"
                                      <=> purchaseOrder[x].status = "None"
                                 /\ purchaseOrder'[x].draft = purchaseOrder[x].draft
                                 /\ purchaseOrder'[x].review = purchaseOrder[x].review
                                 /\ purchaseOrder'[x].payload = purchaseOrder[x].payload
    BY <1>1 DEF DraftInv, DraftTypeOK, OrderRow
  <1>4. \A x \in PurchaseOrder, d \in Draft : FromDraft(x, d)' = FromDraft(x, d)
    BY <1>3 DEF FromDraft
  <1> QED
    BY <1>1, <1>2, <1>3, <1>4, DraftsKept

-----------------------------------------------------------------------------
LEMMA NextInv ==
    ASSUME DraftInv, [DraftNext]_draftVars
    PROVE  DraftInv'
  <1>1. CASE DraftNext
    BY <1>1, CreateFromSourceInv, UpdateReviewInv, CommitReadInv, CommitRecheckInv,
       CommitCreateInv, CommitFailsInv, CreateInv, UpdateDraftInv, DeleteInv
    DEF DraftNext
  <1>2. CASE UNCHANGED draftVars
    <2>1. draft' = draft /\ purchaseOrder' = purchaseOrder /\ commit' = commit
      BY <1>2 DEF draftVars
    <2>2. DraftTypeOK' /\ Proposed' /\ Fresh'
      BY <2>1 DEF DraftInv, DraftTypeOK, Proposed, Fresh, At
    <2> QED
      BY <2>1, <2>2, DraftsAndOrdersKept
  <1> QED
    BY <1>1, <1>2

LEMMA Invariance == DraftSpec => []DraftInv
  BY InitInv, NextInv, PTL DEF DraftSpec

\* Every variable keeps its type, for any number of drafts, orders and handlers.
THEOREM DraftTypeCorrect == DraftSpec => []DraftTypeOK
  <1>1. DraftInv => DraftTypeOK
    BY DEF DraftInv
  <1> QED
    BY <1>1, Invariance, PTL

\* A draft that says Committed was committed as it stands, whatever reviews and
\* commits run at once (PurchaseOrderDraftsService.commit).
THEOREM CommittedDraftsAsReviewed == DraftSpec => []CommittedAsReviewed
  <1>1. DraftInv => CommittedAsReviewed
    BY DEF DraftInv
  <1> QED
    BY <1>1, Invariance, PTL

\* A review leads to one purchase order at most, however many commits of the draft
\* there are (PurchaseOrderDraftsService.commit).
THEOREM OneOrder == DraftSpec => []OneOrderPerReview
  <1>1. DraftInv => OneOrderPerReview
    BY DEF DraftInv
  <1> QED
    BY <1>1, Invariance, PTL

=============================================================================

------------------------------ MODULE Sourcing -------------------------------
(***************************************************************************)
(* From a procurement package to purchase order drafts: the solutions a    *)
(* planner selects from (apps/api/src/procurement) and the commercial      *)
(* workspace with its RFQs, quotes, awards and order drafts                *)
(* (apps/api/src/commercial-workspaces), for one package.                  *)
(*                                                                         *)
(* Every handler reads and checks what it needs in statements of its own   *)
(* and writes in a later READ COMMITTED transaction, which checks nothing  *)
(* again: an operation is a Check action, which keeps what the handler     *)
(* read in call, and a write.  What the write relies on is the status that *)
(* was read and the uniqueness of the rows it inserts.                     *)
(***************************************************************************)
EXTENDS Naturals, FiniteSets, Functions, Tables

CONSTANTS
    Proc,         \* concurrently running request handlers
    Supplier,     \* suppliers the marketplace finds
    Item,         \* requirement items of the package
    Offered,      \* quantities suppliers offer
    Wanted,       \* quantities planners award
    Ranked,       \* sets of solutions an analysis may store
    Revision,     \* sets of items a planner may revise an RFQ to
    MaxSolutions, \* bound on the stored solutions
    MaxVersion    \* bound on the versions of the quotes to an RFQ

Plan == [Item -> Supplier]

ASSUME SourcingAssumption ==
    /\ MaxSolutions \in Nat /\ MaxVersion \in Nat
    /\ Offered \subseteq Nat \ {0} /\ Wanted \subseteq Nat \ {0}
    /\ \A ranked \in Ranked : ranked \subseteq Plan /\ IsFiniteSet(ranked)
    /\ Revision \subseteq SUBSET Item

VARIABLES
    package,    \* its status, and whether quotationRequestedAt is set
    solution,   \* [id -> Plan]: the solutions of all analyses
    selected,   \* ids of the solutions with selectedAt set
    workspace,  \* its status ("None": not created) and its solution
    rfq,        \* [suppliers -> RFQ]
    quote,      \* [<<supplier, version>> -> quote]
    award,      \* [quote lines -> quantity]
    order,      \* the purchase order drafts
    call        \* [Proc -> the handler in progress and what it has read]

sourcingVars ==
    <<package, solution, selected, workspace, rfq, quote, award, order, call>>

\* The quote line of an item in one version of a supplier's quote.
Line == Supplier \X (1..MaxVersion) \X Item

\* approvedAt is set by approveRfq, sentAt by sendRfq.
Rfq == [status: {"Draft", "Approved", "Sent"}, items: SUBSET Item,
        approvedAt: BOOLEAN, sentAt: BOOLEAN]

\* review: "None" unless the line is a substitution.  passed is history: the
\* planner approved the substitution at some time.
QuoteLine == [offered: Offered, passed: BOOLEAN,
              review: {"None", "PendingReview", "Approved", "Rejected"}]

Quote == [status: {"Submitted", "Superseded"}, lines: PartialOn(Item, QuoteLine)]

Order == [supplier: Supplier, awards: SUBSET Line, status: {"Draft", "Approved"}]

\* arg holds the parameters of the request, seen what the checks have read.
Idle == [op |-> "idle", arg |-> {}, seen |-> {}]

Operation == {"analyse", "selectSolution", "writeSelection", "requestQuotations",
              "generate", "reviseRfq", "writeRevision", "approveRfq", "sendRfq",
              "submitQuote", "award", "preparePurchaseOrderDrafts",
              "approvePurchaseOrderDraft"}

SourcingTypeOK ==
    /\ package \in [status: {"Draft", "Analysed", "SolutionSelected",
                             "QuotationRequested"}, requestedAt: BOOLEAN]
    /\ \E n \in 0..MaxSolutions : solution \in [1..n -> Plan]
    /\ selected \subseteq DOMAIN solution
    /\ workspace.status \in {"None", "Draft", "Active", "Awarded"}
    /\ workspace.status # "None" => workspace.solution \in DOMAIN solution
    /\ rfq \in PartialOn(Supplier, Rfq)
    /\ DOMAIN quote \subseteq (DOMAIN rfq) \X (1..MaxVersion)
    /\ Range(quote) \subseteq Quote
    /\ DOMAIN award \subseteq Line /\ Range(award) \subseteq Nat \ {0}
    /\ \A l \in DOMAIN award : <<l[1], l[2]>> \in DOMAIN quote
                               /\ l[3] \in DOMAIN quote[<<l[1], l[2]>>].lines
    /\ order \subseteq Order
    /\ \A o \in order : o.awards \subseteq DOMAIN award
    /\ \A p \in Proc : call[p] = Idle \/ call[p].op \in Operation

\* The package exists: createPackage has found its requirement set and a mood
\* board approved.
SourcingInit ==
    /\ package = [status |-> "Draft", requestedAt |-> FALSE]
    /\ solution = Empty /\ selected = {}
    /\ workspace = [status |-> "None", solution |-> 0]
    /\ rfq = Empty /\ quote = Empty /\ award = Empty /\ order = {}
    /\ call = [p \in Proc |-> Idle]

-----------------------------------------------------------------------------
(***************************************************************************)
(* Calls                                                                   *)
(***************************************************************************)

stored == <<package, solution, selected, workspace, rfq, quote, award, order>>

\* The checks of op passed.
Check(p, op, arg, seen) ==
    /\ call[p] = Idle
    /\ call' = [call EXCEPT ![p] = [op |-> op, arg |-> arg, seen |-> seen]]
    /\ UNCHANGED stored

Ending(p, op) == call[p].op = op /\ call' = [call EXCEPT ![p] = Idle]

\* The transaction fails, on a duplicate row for one, or the handler is lost.
Throw(p) == call[p] # Idle /\ call' = [call EXCEPT ![p] = Idle] /\ UNCHANGED stored

-----------------------------------------------------------------------------
(***************************************************************************)
(* The package and its solutions                                           *)
(***************************************************************************)

\* analyse and selectSolution stop only at a requested handoff.
CheckAnalyse(p) ==
    /\ package.status # "QuotationRequested"
    /\ Check(p, "analyse", {}, {})

\* Faulty variant: an analysis replaces the solutions of the one before.
replacedSolutions(plans) == plans

addedSolutions(plans) == Merge(plans, solution)

\* The solutions of this analysis are added to those of earlier ones, and a
\* solution selected before stays selected.
analyse(p) ==
    /\ Ending(p, "analyse")
    /\ \E ranked \in Ranked :
          LET first == Cardinality(DOMAIN solution) + 1
              ids == first..(first + Cardinality(ranked) - 1)
          IN  /\ ids \subseteq 1..MaxSolutions
              /\ \E plans \in Bijection(ids, ranked) : solution' = addedSolutions(plans)
    /\ package' = [package EXCEPT !.status = "Analysed"]
    /\ UNCHANGED <<selected, workspace, rfq, quote, award, order>>

CheckSelect(p, s) ==
    /\ s \in DOMAIN solution
    /\ package.status # "QuotationRequested"
    /\ Check(p, "selectSolution", s, {})

\* updateMany clears the selections that were committed when it began ...
clearSelected(p) ==
    /\ call[p].op = "selectSolution"
    /\ call' = [call EXCEPT ![p] = [op |-> "writeSelection", arg |-> call[p].arg,
                                    seen |-> selected]]
    /\ UNCHANGED stored

\* ... and a selection committed since is not among them.
selectSolution(p) ==
    /\ Ending(p, "writeSelection")
    /\ selected' = (selected \ call[p].seen) \cup {call[p].arg}
    /\ package' = [package EXCEPT !.status = "SolutionSelected"]
    /\ UNCHANGED <<solution, workspace, rfq, quote, award, order>>

CheckRequest(p) ==
    /\ package.status = "SolutionSelected" /\ Cardinality(selected) = 1
    /\ Check(p, "requestQuotations", {}, {})

requestQuotations(p) ==
    /\ Ending(p, "requestQuotations")
    /\ package' = [status |-> "QuotationRequested", requestedAt |-> TRUE]
    /\ UNCHANGED <<solution, selected, workspace, rfq, quote, award, order>>

-----------------------------------------------------------------------------
(***************************************************************************)
(* The workspace and its RFQs                                              *)
(***************************************************************************)

CheckGenerate(p) ==
    /\ package.status = "QuotationRequested"
    /\ \E s \in selected : selected = {s} /\ Check(p, "generate", s, {})

\* A package has one workspace.  Each supplier of the solution gets an RFQ.
generate(p) ==
    /\ Ending(p, "generate")
    /\ workspace.status = "None"
    /\ workspace' = [status |-> "Draft", solution |-> call[p].arg]
    /\ LET plan == solution[call[p].arg]
       IN  rfq' = [s \in Range(plan) |->
                      [status |-> "Draft", approvedAt |-> FALSE, sentAt |-> FALSE,
                       items |-> {i \in Item : plan[i] = s}]]
    /\ UNCHANGED <<package, solution, selected, quote, award, order>>

CheckRevise(p, s, items) ==
    /\ rfq[s].status = "Draft"
    /\ Check(p, "reviseRfq", [supplier |-> s, items |-> items], {})

\* deleteMany removes the lines that were committed when it began ...
deleteRfqLines(p) ==
    /\ call[p].op = "reviseRfq"
    /\ call' = [call EXCEPT ![p] = [op |-> "writeRevision", arg |-> call[p].arg,
                                    seen |-> rfq[call[p].arg.supplier].items]]
    /\ UNCHANGED stored

\* What another revision of the RFQ of s finds to delete once p has deleted some.
FoundAfter(q, s, p) ==
    IF call[q].op = "writeRevision" /\ call[q].arg.supplier = s
    THEN [op |-> "writeRevision", arg |-> call[q].arg,
          seen |-> call[q].seen \ call[p].seen]
    ELSE call[q]

\* ... and the lines of a revision committed since stay beside those created here,
\* unless they name the same item: @@unique([commercialRfqId, requirementItemId]).
reviseRfq(p) ==
    LET s == call[p].arg.supplier
        kept == rfq[s].items \ call[p].seen
    IN  /\ call[p].op = "writeRevision"
        /\ kept \cap call[p].arg.items = {}
        /\ rfq' = [rfq EXCEPT ![s].items = kept \cup call[p].arg.items]
        /\ call' = [q \in Proc |-> IF q = p THEN Idle ELSE FoundAfter(q, s, p)]
        /\ UNCHANGED <<package, solution, selected, workspace, quote, award, order>>

CheckApproveRfq(p, s) == rfq[s].status = "Draft" /\ Check(p, "approveRfq", s, {})

approveRfq(p) ==
    /\ Ending(p, "approveRfq")
    /\ rfq' = [rfq EXCEPT ![call[p].arg] =
                 [status |-> "Approved", items |-> rfq[call[p].arg].items,
                  approvedAt |-> TRUE, sentAt |-> rfq[call[p].arg].sentAt]]
    /\ UNCHANGED <<package, solution, selected, workspace, quote, award, order>>

\* Faulty variant: an RFQ is sent from any status.
SendableAlways(s) == TRUE

Sendable(s) == rfq[s].status = "Approved"

CheckSend(p, s) == Sendable(s) /\ Check(p, "sendRfq", s, {})

sendRfq(p) ==
    /\ Ending(p, "sendRfq")
    /\ rfq' = [rfq EXCEPT ![call[p].arg] =
                 [status |-> "Sent", items |-> rfq[call[p].arg].items,
                  approvedAt |-> rfq[call[p].arg].approvedAt, sentAt |-> TRUE]]
    /\ workspace' = [workspace EXCEPT !.status = "Active"]
    /\ UNCHANGED <<package, solution, selected, quote, award, order>>

-----------------------------------------------------------------------------
(***************************************************************************)
(* Quotes and awards                                                       *)
(***************************************************************************)

Versions(s) == {v \in 1..MaxVersion : <<s, v>> \in DOMAIN quote}

\* lines: what the supplier offers of the items of the RFQ, substitutions being
\* those whose review is pending.
CheckQuote(p, s, lines) ==
    /\ rfq[s].status = "Sent"
    /\ DOMAIN lines \subseteq rfq[s].items
    /\ Cardinality(Versions(s)) < MaxVersion
    /\ Check(p, "submitQuote", [supplier |-> s, lines |-> lines],
             Cardinality(Versions(s)) + 1)

\* Faulty variant: @@unique([commercialRfqId, version]) is missing, and a second
\* quote of the same version stands beside the first (here, takes its place).
VersionUnchecked(s, v) == TRUE

VersionUnused(s, v) == <<s, v>> \notin DOMAIN quote

\* A quote this transaction creates supersedes the submitted ones.
submitQuote(p) ==
    LET s == call[p].arg.supplier
        v == call[p].seen
    IN  /\ Ending(p, "submitQuote")
        /\ VersionUnused(s, v)
        /\ quote' = Put([k \in DOMAIN quote |->
                           IF k[1] = s THEN [quote[k] EXCEPT !.status = "Superseded"]
                                       ELSE quote[k]],
                        <<s, v>>, [status |-> "Submitted", lines |-> call[p].arg.lines])
        /\ UNCHANGED <<package, solution, selected, workspace, rfq, award, order>>

\* A substitution may be reviewed again, whatever has become of the quote.
reviewSubstitution(k, i, status) ==
    /\ k \in DOMAIN quote /\ i \in DOMAIN quote[k].lines
    /\ quote[k].lines[i].review # "None"
    /\ quote' = [quote EXCEPT ![k].lines = [quote[k].lines EXCEPT ![i] =
           [offered |-> quote[k].lines[i].offered, review |-> status,
            passed |-> quote[k].lines[i].passed \/ status = "Approved"]]]
    /\ UNCHANGED <<package, solution, selected, workspace, rfq, award, order, call>>

LineOf(l) == quote[<<l[1], l[2]>>].lines[l[3]]

\* Faulty variant: only a rejected substitution is refused.
NotRejected(l) == LineOf(l).review # "Rejected"

Reviewed(l) == LineOf(l).review \in {"None", "Approved"}

Awardable(l) == quote[<<l[1], l[2]>>].status = "Submitted" /\ Reviewed(l)

QuoteLines == {l \in Line : /\ <<l[1], l[2]>> \in DOMAIN quote
                            /\ l[3] \in DOMAIN quote[<<l[1], l[2]>>].lines}

\* A quantity above the one offered throws in the transaction: the lines of a
\* quote do not change, so the check may as well be made here.
CheckAward(p, lines, quantity) ==
    /\ lines # {}
    /\ \A l \in lines : Awardable(l) /\ quantity <= LineOf(l).offered
    /\ Check(p, "award", [l \in lines |-> quantity], {})

\* A quote line is awarded once: @@unique([commercialWorkspaceId, quoteLineId]).
AwardFree(l) == l \notin DOMAIN award

\* Named awardLines here: award is the table.
awardLines(p) ==
    /\ Ending(p, "award")
    /\ \A l \in DOMAIN call[p].arg : AwardFree(l)
    /\ award' = Merge(call[p].arg, award)
    /\ workspace' = [workspace EXCEPT !.status = "Awarded"]
    /\ UNCHANGED <<package, solution, selected, rfq, quote, order>>

-----------------------------------------------------------------------------
(***************************************************************************)
(* Purchase order drafts                                                   *)
(***************************************************************************)

CheckPrepare(p) ==
    /\ award # Empty
    /\ Check(p, "preparePurchaseOrderDrafts", {}, DOMAIN award)

\* Faulty variant: create instead of upsert, with neither uniqueness.
WithoutUpsert(s) == TRUE

\* upsert with an empty update: a supplier that has a draft keeps it as it is.
WithoutDraft(s) == \A o \in order : o.supplier # s

preparePurchaseOrderDrafts(p) ==
    LET awarded == call[p].seen
    IN  /\ Ending(p, "preparePurchaseOrderDrafts")
        /\ order' = order \cup
               {[supplier |-> s, status |-> "Draft", awards |-> {l \in awarded : l[1] = s}] :
                   s \in {s \in Supplier : WithoutDraft(s) /\ \E l \in awarded : l[1] = s}}
        /\ UNCHANGED <<package, solution, selected, workspace, rfq, quote, award>>

CheckApproveOrder(p, o) ==
    /\ o \in order /\ o.status = "Draft"
    /\ Check(p, "approvePurchaseOrderDraft", o, {})

approvePurchaseOrderDraft(p) ==
    LET o == call[p].arg
    IN  /\ Ending(p, "approvePurchaseOrderDraft")
        /\ order' = (order \ {o}) \cup {[o EXCEPT !.status = "Approved"]}
        /\ UNCHANGED <<package, solution, selected, workspace, rfq, quote, award>>

-----------------------------------------------------------------------------

Lines(items) ==
    [items -> [offered: Offered, passed: {FALSE}, review: {"None", "PendingReview"}]]

NewCall(p) ==
    \/ CheckAnalyse(p) \/ CheckRequest(p) \/ CheckGenerate(p) \/ CheckPrepare(p)
    \/ \E s \in DOMAIN solution : CheckSelect(p, s)
    \/ \E s \in DOMAIN rfq : \/ \E items \in Revision : CheckRevise(p, s, items)
                             \/ CheckApproveRfq(p, s)
                             \/ CheckSend(p, s)
                             \/ \E items \in SUBSET rfq[s].items \ {{}} :
                                   \E lines \in Lines(items) : CheckQuote(p, s, lines)
    \/ \E lines \in SUBSET QuoteLines, quantity \in Wanted : CheckAward(p, lines, quantity)
    \/ \E o \in order : CheckApproveOrder(p, o)

Write(p) ==
    \/ analyse(p) \/ clearSelected(p) \/ selectSolution(p) \/ requestQuotations(p)
    \/ generate(p) \/ deleteRfqLines(p) \/ reviseRfq(p) \/ approveRfq(p) \/ sendRfq(p)
    \/ submitQuote(p) \/ awardLines(p)
    \/ preparePurchaseOrderDrafts(p) \/ approvePurchaseOrderDraft(p)

SourcingNext ==
    \/ \E p \in Proc : NewCall(p) \/ Write(p) \/ Throw(p)
    \/ \E k \in DOMAIN quote, i \in Item, status \in {"Approved", "Rejected"} :
          reviewSubstitution(k, i, status)

SourcingSpec == SourcingInit /\ [][SourcingNext]_sourcingVars

-----------------------------------------------------------------------------
(***************************************************************************)
(* Properties                                                              *)
(***************************************************************************)

\* A supplier's quotes to an RFQ are versions without a gap, of which exactly the
\* newest is current, although two submissions may read the same latest version
\* and each supersedes only the quotes it finds.
OneCurrentQuote ==
    \A s \in DOMAIN rfq : Versions(s) # {} =>
        LET newest == Cardinality(Versions(s))
        IN  /\ Versions(s) = 1..newest
            /\ \A v \in Versions(s) :
                  (quote[<<s, v>>].status = "Submitted") <=> (v = newest)

\* Every quote, and so every line that is awarded and ordered, is to an RFQ that
\* the planner approved before it was sent, in a workspace made after the handoff
\* was requested, although each of these statuses is checked in one statement and
\* relied on in a later one.
ApprovalChain ==
    /\ workspace.status # "None" => package.requestedAt
    /\ \A s \in DOMAIN rfq : rfq[s].sentAt => rfq[s].approvedAt
    /\ \A k \in DOMAIN quote : rfq[k[1]].sentAt

\* No substitution is awarded that the planner never approved, and no award
\* exceeds the offer.
SubstitutionsApproved ==
    \A l \in DOMAIN award : /\ award[l] <= LineOf(l).offered
                            /\ LineOf(l).review # "None" => LineOf(l).passed

\* A supplier has one purchase order draft and no award is ordered twice, however
\* often and from whatever awards the drafts are prepared.
OrderedOnce ==
    \A o1, o2 \in order :
        /\ o1.supplier = o2.supplier => o1 = o2
        /\ o1.awards \cap o2.awards # {} => o1 = o2

=============================================================================

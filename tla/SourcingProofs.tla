---------------------------- MODULE SourcingProofs ----------------------------
(***************************************************************************)
(* What the run checks of sourcing, for any number of handlers, suppliers, *)
(* items, solutions, quotes and awards.                                    *)
(*                                                                         *)
(* The argument: a handler writes, without reading again, what was so when *)
(* it checked.  That is sound for what never ceases to be so once it is    *)
(* (StepGrows): a solution, an RFQ, a quote with its offers, and an award  *)
(* stay, and so do the dates of approval and sending and the review a      *)
(* substitution passed.  Only the uniqueness of quote versions, of awarded *)
(* lines and of a supplier's draft is left to the database.                *)
(***************************************************************************)
EXTENDS Sourcing, FiniteSetTheorems, TLAPS

SolutionTypeOK ==
    /\ \E n \in 0..MaxSolutions : solution \in [1..n -> Plan]
    /\ selected \subseteq DOMAIN solution

WorkspaceTypeOK ==
    /\ package \in [status: {"Draft", "Analysed", "SolutionSelected",
                             "QuotationRequested"}, requestedAt: BOOLEAN]
    /\ workspace.status \in {"None", "Draft", "Active", "Awarded"}
    /\ workspace = [status |-> workspace.status, solution |-> workspace.solution]
    /\ workspace.status # "None" => workspace.solution \in DOMAIN solution
    /\ workspace.status = "None" => DOMAIN rfq = {}

RfqTypeOK == DOMAIN rfq \subseteq Supplier /\ rfq \in [DOMAIN rfq -> Rfq]

QuoteTypeOK ==
    /\ DOMAIN quote \subseteq (DOMAIN rfq) \X (1..MaxVersion)
    /\ quote \in [DOMAIN quote -> Quote]

AwardTypeOK ==
    /\ DOMAIN award \subseteq QuoteLines
    /\ award \in [DOMAIN award -> Nat \ {0}]

OrderTypeOK ==
    /\ order \subseteq Order
    /\ \A o \in order : o.awards \subseteq DOMAIN award

CallTypeOK ==
    /\ call = [p \in Proc |-> call[p]]
    /\ \A p \in Proc : call[p] = Idle \/ call[p].op \in Operation

TypeInv ==
    /\ SolutionTypeOK
    /\ WorkspaceTypeOK
    /\ RfqTypeOK
    /\ QuoteTypeOK
    /\ AwardTypeOK
    /\ OrderTypeOK
    /\ CallTypeOK

\* A line that may have been found awardable: it is no substitution, or one that
\* passed its review at some time.
Passed(l) == LineOf(l).review # "None" => LineOf(l).passed

\* What the checks of a call in progress have found is still so.
Found(p) ==
    LET op == call[p].op
        arg == call[p].arg
        seen == call[p].seen
    IN  /\ op \in {"selectSolution", "writeSelection", "generate"} => arg \in DOMAIN solution
        /\ op = "generate" => package.requestedAt
        /\ op \in {"reviseRfq", "writeRevision"} =>
              arg.supplier \in DOMAIN rfq /\ arg.items \subseteq Item
        /\ op \in {"approveRfq", "sendRfq"} => arg \in DOMAIN rfq
        /\ op = "sendRfq" => rfq[arg].approvedAt
        /\ op = "submitQuote" =>
              /\ arg.supplier \in DOMAIN rfq /\ rfq[arg.supplier].sentAt
              /\ arg.lines \in PartialOn(Item, QuoteLine)
              /\ \A i \in DOMAIN arg.lines : arg.lines[i].review \in {"None", "PendingReview"}
              /\ seen \in 1..MaxVersion
              /\ \A v \in 1..(seen - 1) : <<arg.supplier, v>> \in DOMAIN quote
        /\ op = "award" =>
              /\ DOMAIN arg # {} /\ DOMAIN arg \subseteq QuoteLines
              /\ arg \in [DOMAIN arg -> Nat \ {0}]
              /\ \A l \in DOMAIN arg : arg[l] <= LineOf(l).offered /\ Passed(l)
        /\ op = "preparePurchaseOrderDrafts" => seen \subseteq DOMAIN award
        /\ op = "approvePurchaseOrderDraft" =>
              /\ arg \in Order /\ arg.status = "Draft" /\ arg.awards \subseteq DOMAIN award
              /\ \E o \in order : o.supplier = arg.supplier /\ o.awards = arg.awards

FoundInv == \A p \in Proc : Found(p)

ChainInv ==
    /\ package.status = "QuotationRequested" => package.requestedAt
    /\ workspace.status # "None" => package.requestedAt
    /\ \A s \in DOMAIN rfq : /\ rfq[s].status \in {"Approved", "Sent"} => rfq[s].approvedAt
                             /\ rfq[s].status = "Sent" => rfq[s].sentAt
                             /\ rfq[s].sentAt => rfq[s].approvedAt
    /\ \A k \in DOMAIN quote : rfq[k[1]].sentAt

\* The versions of the quotes of a supplier, and which of them is current.
VersionsInv ==
    \A s \in Supplier : \E n \in 0..MaxVersion :
        /\ Versions(s) = 1..n
        /\ \A v \in 1..n : (quote[<<s, v>>].status = "Submitted") <=> (v = n)

AwardInv == \A l \in DOMAIN award : award[l] <= LineOf(l).offered /\ Passed(l)

\* A line is ordered from the supplier who quoted it.
OrderInv ==
    /\ \A o \in order : \A l \in o.awards : l[1] = o.supplier
    /\ \A o1, o2 \in order : o1.supplier = o2.supplier => o1 = o2

\* A substitution that is approved has passed.
ReviewInv ==
    \A k \in DOMAIN quote : \A i \in DOMAIN quote[k].lines :
        quote[k].lines[i].review = "Approved" => quote[k].lines[i].passed

SourcingInv ==
    TypeInv /\ FoundInv /\ ChainInv /\ VersionsInv /\ AwardInv /\ OrderInv /\ ReviewInv

-----------------------------------------------------------------------------
(***************************************************************************)
(* What stays                                                              *)
(***************************************************************************)

\* The step keeps what has been found, but for the versions of quotes and orders,
\* which are treated by the actions that add them.
Grows ==
    /\ DOMAIN solution \subseteq DOMAIN solution'
    /\ package.requestedAt => package'.requestedAt
    /\ DOMAIN rfq \subseteq DOMAIN rfq'
    /\ \A s \in DOMAIN rfq : /\ rfq[s].approvedAt => rfq'[s].approvedAt
                             /\ rfq[s].sentAt => rfq'[s].sentAt
    /\ DOMAIN quote \subseteq DOMAIN quote'
    /\ \A k \in DOMAIN quote :
          /\ DOMAIN quote'[k].lines = DOMAIN quote[k].lines
          /\ \A i \in DOMAIN quote[k].lines :
                /\ quote'[k].lines[i].offered = quote[k].lines[i].offered
                /\ quote[k].lines[i].passed => quote'[k].lines[i].passed
                /\ quote[k].lines[i].review = "None" => quote'[k].lines[i].review = "None"
    /\ DOMAIN award \subseteq DOMAIN award'
    /\ \A o \in order : \E o2 \in order' : o2.supplier = o.supplier /\ o2.awards = o.awards

\* A call that is not touched by a step has still found what it found.
LEMMA FoundKept ==
    ASSUME Grows, NEW p \in Proc, Found(p), UNCHANGED call[p]
    PROVE  Found(p)'
<1> DEFINE arg == call[p].arg
<1>1. \A l \in QuoteLines : /\ l \in QuoteLines'
                            /\ LineOf(l)'.offered = LineOf(l).offered
                            /\ Passed(l) => Passed(l)'
  BY DEF Grows, QuoteLines, LineOf, Passed
<1>2. ASSUME call[p].op = "award"
      PROVE  /\ DOMAIN arg \subseteq QuoteLines'
             /\ arg \in [DOMAIN arg -> Nat \ {0}]
             /\ \A l \in DOMAIN arg : arg[l] <= LineOf(l)'.offered /\ Passed(l)'
  <2>1. /\ DOMAIN arg \subseteq QuoteLines
        /\ arg \in [DOMAIN arg -> Nat \ {0}]
        /\ \A l \in DOMAIN arg : arg[l] <= LineOf(l).offered /\ Passed(l)
    BY <1>2 DEF Found
  <2> QED
    BY <1>1, <2>1
<1>3. ASSUME call[p].op = "submitQuote"
      PROVE  /\ arg.supplier \in DOMAIN rfq' /\ rfq'[arg.supplier].sentAt
             /\ arg.lines \in PartialOn(Item, QuoteLine)
             /\ \A i \in DOMAIN arg.lines : arg.lines[i].review \in {"None", "PendingReview"}
             /\ call[p].seen \in 1..MaxVersion
             /\ \A v \in 1..(call[p].seen - 1) : <<arg.supplier, v>> \in DOMAIN quote'
  BY <1>3 DEF Found, Grows
<1>4. ASSUME call[p].op = "approvePurchaseOrderDraft"
      PROVE  /\ arg \in Order /\ arg.status = "Draft" /\ arg.awards \subseteq DOMAIN award'
             /\ \E o \in order' : o.supplier = arg.supplier /\ o.awards = arg.awards
  BY <1>4 DEF Found, Grows
<1> QED
  BY <1>2, <1>3, <1>4 DEF Found, Grows

\* An idle handler has nothing to find.
LEMMA IdleFound ==
    ASSUME NEW p \in Proc, call'[p] = Idle
    PROVE  Found(p)'
BY DEF Found, Idle

LEMMA TypeFrame ==
    ASSUME SourcingInv
    PROVE  /\ UNCHANGED <<solution, selected>> => SolutionTypeOK'
           /\ UNCHANGED <<package, workspace, solution, rfq>> => WorkspaceTypeOK'
           /\ UNCHANGED rfq => RfqTypeOK'
           /\ UNCHANGED <<quote, rfq>> => QuoteTypeOK'
           /\ UNCHANGED <<award, quote>> => AwardTypeOK'
           /\ UNCHANGED <<order, award>> => OrderTypeOK'
BY DEF SourcingInv, TypeInv, SolutionTypeOK, WorkspaceTypeOK, RfqTypeOK, QuoteTypeOK,
       AwardTypeOK, QuoteLines, OrderTypeOK

LEMMA InvFrame ==
    ASSUME SourcingInv
    PROVE  /\ UNCHANGED <<package, workspace, rfq, quote>> => ChainInv'
           /\ UNCHANGED quote => VersionsInv' /\ ReviewInv'
           /\ UNCHANGED <<award, quote>> => AwardInv'
           /\ UNCHANGED order => OrderInv'
<1> USE DEF SourcingInv
<1>1. UNCHANGED <<package, workspace, rfq, quote>> => ChainInv'
  BY DEF ChainInv
<1>2. UNCHANGED quote => VersionsInv'
  BY DEF VersionsInv, Versions
<1>3. UNCHANGED quote => ReviewInv'
  BY DEF ReviewInv
<1>4. UNCHANGED <<award, quote>> => AwardInv'
  BY DEF AwardInv, LineOf, Passed
<1>5. UNCHANGED order => OrderInv'
  BY DEF OrderInv
<1> QED
  BY <1>1, <1>2, <1>3, <1>4, <1>5

\* What a step that leaves a part alone contributes to Grows.
LEMMA GrowsFrame ==
    /\ UNCHANGED quote =>
          /\ DOMAIN quote \subseteq DOMAIN quote'
          /\ \A k \in DOMAIN quote :
                /\ DOMAIN quote'[k].lines = DOMAIN quote[k].lines
                /\ \A i \in DOMAIN quote[k].lines :
                      /\ quote'[k].lines[i].offered = quote[k].lines[i].offered
                      /\ quote[k].lines[i].passed => quote'[k].lines[i].passed
                      /\ quote[k].lines[i].review = "None" => quote'[k].lines[i].review = "None"
    /\ UNCHANGED order =>
          \A o \in order : \E o2 \in order' : o2.supplier = o.supplier /\ o2.awards = o.awards
OBVIOUS

\* The call of p ends; of the others, revisions may have less to delete.
EndsCall(p) ==
    /\ call' = [q \in Proc |-> call'[q]]
    /\ call'[p] = Idle
    /\ \A q \in Proc \ {p} : \/ call'[q] = call[q]
                             \/ /\ call[q].op = "writeRevision"
                                /\ call'[q].op = call[q].op /\ call'[q].arg = call[q].arg

LEMMA EndedAll ==
    ASSUME SourcingInv, Grows, NEW p \in Proc, EndsCall(p)
    PROVE  CallTypeOK' /\ FoundInv'
<1>1. \A q \in Proc : call[q] = Idle \/ call[q].op \in Operation
  BY DEF SourcingInv, TypeInv, CallTypeOK
<1>2. CallTypeOK'
  BY <1>1 DEF CallTypeOK, EndsCall, Operation
<1>3. ASSUME NEW q \in Proc PROVE Found(q)'
  <2>1. CASE q = p
    BY <2>1, IdleFound DEF EndsCall
  <2>2. CASE call'[q] = call[q]
    BY <2>2, FoundKept DEF SourcingInv, FoundInv
  <2>3. CASE /\ call[q].op = "writeRevision"
             /\ call'[q].op = call[q].op /\ call'[q].arg = call[q].arg
    BY <2>3 DEF SourcingInv, FoundInv, Found, Grows
  <2> QED
    BY <2>1, <2>2, <2>3 DEF EndsCall
<1> QED
  BY <1>2, <1>3 DEF FoundInv

LEMMA EndingEnds ==
    ASSUME SourcingInv, NEW p \in Proc, call' = [call EXCEPT ![p] = Idle]
    PROVE  EndsCall(p)
<1>1. call = [q \in Proc |-> call[q]]
  BY DEF SourcingInv, TypeInv, CallTypeOK
<1>2. call'[p] = Idle /\ \A q \in Proc \ {p} : call'[q] = call[q]
  BY <1>1
<1>3. call' = [q \in Proc |-> call'[q]]
  BY <1>1
<1> QED
  BY <1>2, <1>3 DEF EndsCall

LEMMA Ended ==
    ASSUME SourcingInv, Grows, NEW p \in Proc, call' = [call EXCEPT ![p] = Idle]
    PROVE  CallTypeOK' /\ FoundInv'
BY EndingEnds, EndedAll

\* A call begins, or goes on, with what its checks have found.
LEMMA Begun ==
    ASSUME SourcingInv, NEW p \in Proc, NEW op \in Operation, NEW arg, NEW seen,
           call' = [call EXCEPT ![p] = [op |-> op, arg |-> arg, seen |-> seen]],
           UNCHANGED stored,
           call'[p] = [op |-> op, arg |-> arg, seen |-> seen] => Found(p)'
    PROVE  SourcingInv'
<1>1. call = [q \in Proc |-> call[q]] /\ \A q \in Proc : call[q] = Idle \/ call[q].op \in Operation
  BY DEF SourcingInv, TypeInv, CallTypeOK
<1>2. /\ call'[p] = [op |-> op, arg |-> arg, seen |-> seen]
      /\ \A q \in Proc \ {p} : call'[q] = call[q]
  BY <1>1
<1>3. CallTypeOK'
  <2>1. call' = [q \in Proc |-> call'[q]]
    BY <1>1
  <2> QED
    BY <1>1, <1>2, <2>1 DEF CallTypeOK
<1>4. Grows
  BY GrowsFrame DEF Grows, stored
<1>5. FoundInv'
  BY <1>2, <1>4, FoundKept DEF FoundInv, SourcingInv
<1>6. UNCHANGED <<package, solution, selected, workspace, rfq, quote, award, order>>
  BY DEF stored
<1> QED
  BY <1>3, <1>5, <1>6, TypeFrame, InvFrame DEF SourcingInv, TypeInv

-----------------------------------------------------------------------------
(***************************************************************************)
(* Checks                                                                  *)
(***************************************************************************)

LEMMA NewCallStep ==
    ASSUME SourcingInv, NEW p \in Proc, NewCall(p)
    PROVE  SourcingInv'
<1> USE DEF SourcingInv
<1>0. ASSUME NEW op \in Operation, NEW arg, NEW seen, Check(p, op, arg, seen),
             call'[p] = [op |-> op, arg |-> arg, seen |-> seen] => Found(p)'
      PROVE  SourcingInv'
  BY <1>0, Begun DEF Check
<1>s. ASSUME NEW op, NEW arg, NEW seen, Check(p, op, arg, seen)
      PROVE  UNCHANGED <<package, solution, selected, workspace, rfq, quote, award, order>>
  BY <1>s DEF Check, stored
<1>1. CASE CheckAnalyse(p) \/ CheckRequest(p)
  <2>1. PICK op \in {"analyse", "requestQuotations"} : Check(p, op, {}, {})
    BY <1>1 DEF CheckAnalyse, CheckRequest
  <2>2. call'[p] = [op |-> op, arg |-> {}, seen |-> {}] => Found(p)'
    BY DEF Found
  <2> QED
    BY <1>0, <2>1, <2>2 DEF Operation
<1>2. CASE CheckGenerate(p)
  <2>1. PICK s \in selected : Check(p, "generate", s, {})
    BY <1>2 DEF CheckGenerate
  <2>2. package.requestedAt /\ s \in DOMAIN solution
    BY <1>2 DEF CheckGenerate, ChainInv, TypeInv, SolutionTypeOK
  <2>3. call'[p] = [op |-> "generate", arg |-> s, seen |-> {}] => Found(p)'
    BY <1>s, <2>1, <2>2 DEF Found
  <2> QED
    BY <1>0, <2>1, <2>3 DEF Operation
<1>3. CASE CheckPrepare(p)
  <2>1. Check(p, "preparePurchaseOrderDrafts", {}, DOMAIN award)
    BY <1>3 DEF CheckPrepare
  <2>2. call'[p] = [op |-> "preparePurchaseOrderDrafts", arg |-> {}, seen |-> DOMAIN award] => Found(p)'
    BY <1>s, <2>1 DEF Found
  <2> QED
    BY <1>0, <2>1, <2>2 DEF Operation
<1>4. ASSUME NEW s \in DOMAIN solution, CheckSelect(p, s) PROVE SourcingInv'
  <2>1. Check(p, "selectSolution", s, {})
    BY <1>4 DEF CheckSelect
  <2>2. call'[p] = [op |-> "selectSolution", arg |-> s, seen |-> {}] => Found(p)'
    BY <1>s, <2>1 DEF Found
  <2> QED
    BY <1>0, <2>1, <2>2 DEF Operation
<1>5. ASSUME NEW s \in DOMAIN rfq, NEW items \in Revision, CheckRevise(p, s, items)
      PROVE  SourcingInv'
  <2> DEFINE arg == [supplier |-> s, items |-> items]
  <2>1. Check(p, "reviseRfq", arg, {})
    BY <1>5 DEF CheckRevise
  <2>2. arg.supplier \in DOMAIN rfq /\ arg.items \subseteq Item
    BY SourcingAssumption
  <2> HIDE DEF arg
  <2>3. call'[p] = [op |-> "reviseRfq", arg |-> arg, seen |-> {}] => Found(p)'
    BY <1>s, <2>1, <2>2 DEF Found
  <2> QED
    BY <1>0, <2>1, <2>3 DEF Operation
<1>6. ASSUME NEW s \in DOMAIN rfq, CheckApproveRfq(p, s) PROVE SourcingInv'
  <2>1. Check(p, "approveRfq", s, {})
    BY <1>6 DEF CheckApproveRfq
  <2>2. call'[p] = [op |-> "approveRfq", arg |-> s, seen |-> {}] => Found(p)'
    BY <1>s, <2>1 DEF Found
  <2> QED
    BY <1>0, <2>1, <2>2 DEF Operation
<1>7. ASSUME NEW s \in DOMAIN rfq, CheckSend(p, s) PROVE SourcingInv'
  <2>1. Check(p, "sendRfq", s, {}) /\ rfq[s].approvedAt
    BY <1>7 DEF CheckSend, Sendable, ChainInv
  <2>2. call'[p] = [op |-> "sendRfq", arg |-> s, seen |-> {}] => Found(p)'
    BY <1>s, <2>1 DEF Found
  <2> QED
    BY <1>0, <2>1, <2>2 DEF Operation
<1>8. ASSUME NEW s \in DOMAIN rfq, NEW items \in SUBSET rfq[s].items, NEW lines \in Lines(items),
             CheckQuote(p, s, lines)
      PROVE  SourcingInv'
  <2> DEFINE arg == [supplier |-> s, lines |-> lines]
             v == Cardinality(Versions(s)) + 1
  <2>1. Check(p, "submitQuote", arg, v) /\ Cardinality(Versions(s)) < MaxVersion /\ rfq[s].status = "Sent"
    BY <1>8 DEF CheckQuote
  <2>2. s \in Supplier /\ items \subseteq Item /\ rfq[s].sentAt
    BY <2>1 DEF TypeInv, RfqTypeOK, Rfq, ChainInv
  <2>3. PICK n \in 0..MaxVersion : Versions(s) = 1..n
    BY <2>2 DEF VersionsInv
  <2>4. Cardinality(Versions(s)) = n
    BY <2>3, FS_Interval
  <2>5. v \in 1..MaxVersion /\ \A w \in 1..(v - 1) : <<s, w>> \in DOMAIN quote
    <3>1. v = n + 1 /\ n < MaxVersion /\ v - 1 = n
      BY <2>1, <2>4, SourcingAssumption
    <3>2. \A w \in 1..n : <<s, w>> \in DOMAIN quote
      BY <2>3 DEF Versions
    <3>3. v \in 1..MaxVersion
      BY <3>1, SourcingAssumption
    <3> HIDE DEF v
    <3> QED
      BY <3>1, <3>2, <3>3
  <2>6. /\ lines \in PartialOn(Item, QuoteLine)
        /\ \A i \in DOMAIN lines : lines[i].review \in {"None", "PendingReview"}
    <3>1. lines \in [items -> [offered: Offered, passed: {FALSE}, review: {"None", "PendingReview"}]]
      BY DEF Lines
    <3>2. lines \in [items -> QuoteLine]
      BY <3>1 DEF QuoteLine
    <3> QED
      BY <2>2, <3>1, <3>2 DEF PartialOn
  <2> HIDE DEF v
  <2>7. arg.supplier = s /\ arg.lines = lines
    OBVIOUS
  <2> HIDE DEF arg
  <2>8. call'[p] = [op |-> "submitQuote", arg |-> arg, seen |-> v] => Found(p)'
    BY <1>s, <2>1, <2>2, <2>5, <2>6, <2>7 DEF Found
  <2> QED
    BY <1>0, <2>1, <2>8 DEF Operation
<1>9. ASSUME NEW lines \in SUBSET QuoteLines, NEW quantity \in Wanted, CheckAward(p, lines, quantity)
      PROVE  SourcingInv'
  <2> DEFINE arg == [l \in lines |-> quantity]
  <2>1. Check(p, "award", arg, {}) /\ lines # {} /\ \A l \in lines : Awardable(l) /\ quantity <= LineOf(l).offered
    BY <1>9 DEF CheckAward
  <2>2. \A l \in lines : Passed(l)
    <3> SUFFICES ASSUME NEW l \in lines, LineOf(l).review = "Approved" PROVE LineOf(l).passed
      BY <2>1 DEF Awardable, Reviewed, Passed
    <3> QED
      BY DEF QuoteLines, ReviewInv, LineOf
  <2>3. DOMAIN arg = lines /\ arg \in [lines -> Nat \ {0}] /\ \A l \in lines : arg[l] = quantity
    BY SourcingAssumption
  <2> HIDE DEF arg
  <2>4. call'[p] = [op |-> "award", arg |-> arg, seen |-> {}] => Found(p)'
    <3>1. \A l : LineOf(l)' = LineOf(l) /\ Passed(l)' = Passed(l)
      BY <1>s, <2>1 DEF LineOf, Passed
    <3>2. QuoteLines' = QuoteLines
      BY <1>s, <2>1 DEF QuoteLines
    <3> QED
      BY <2>1, <2>2, <2>3, <3>1, <3>2 DEF Found
  <2> QED
    BY <1>0, <2>1, <2>4 DEF Operation
<1>10. ASSUME NEW o \in order, CheckApproveOrder(p, o) PROVE SourcingInv'
  <2>1. Check(p, "approvePurchaseOrderDraft", o, {}) /\ o.status = "Draft"
    BY <1>10 DEF CheckApproveOrder
  <2>2. o \in Order /\ o.awards \subseteq DOMAIN award
    BY DEF TypeInv, OrderTypeOK
  <2>3. call'[p] = [op |-> "approvePurchaseOrderDraft", arg |-> o, seen |-> {}] => Found(p)'
    BY <1>s, <2>1, <2>2 DEF Found
  <2> QED
    BY <1>0, <2>1, <2>3 DEF Operation
<1> QED
  BY <1>1, <1>2, <1>3, <1>4, <1>5, <1>6, <1>7, <1>8, <1>9, <1>10 DEF NewCall

-----------------------------------------------------------------------------
(***************************************************************************)
(* The package                                                             *)
(***************************************************************************)

LEMMA AnalyseStep ==
    ASSUME SourcingInv, NEW p \in Proc, analyse(p)
    PROVE  SourcingInv'
<1> USE DEF SourcingInv
<1>1. PICK ranked \in Ranked :
          LET first == Cardinality(DOMAIN solution) + 1
              ids == first..(first + Cardinality(ranked) - 1)
          IN  /\ ids \subseteq 1..MaxSolutions
              /\ \E plans \in Bijection(ids, ranked) : solution' = addedSolutions(plans)
  BY DEF analyse
<1>2. PICK n \in 0..MaxSolutions : solution \in [1..n -> Plan]
  BY DEF TypeInv, SolutionTypeOK
<1>3. Cardinality(DOMAIN solution) = n
  BY <1>2, FS_Interval, SourcingAssumption
<1>4. /\ UNCHANGED <<selected, workspace, rfq, quote, award, order>>
      /\ package' = [package EXCEPT !.status = "Analysed"]
      /\ call' = [call EXCEPT ![p] = Idle]
  BY DEF analyse, Ending
<1> DEFINE c == n + 1 + Cardinality(ranked) - 1
           ids == (n + 1)..c
<1>7. c \in Int
  BY FS_CardinalityType, SourcingAssumption
<1> HIDE DEF c
<1>5. ASSUME NEW plans \in Bijection(ids, ranked), solution' = addedSolutions(plans),
             ids \subseteq 1..MaxSolutions
      PROVE  SolutionTypeOK' /\ DOMAIN solution \subseteq DOMAIN solution'
  <2>1. plans \in [ids -> ranked] /\ ranked \subseteq Plan
    BY SourcingAssumption DEF Bijection, Injection, Surjection
  <2>2. plans \in [ids -> Plan]
    BY <2>1
  <2>3. \E m \in 0..MaxSolutions : ids \cup (1..n) = 1..m
    <3>1. CASE ids = {}
      BY <3>1
    <3>2. ASSUME NEW i \in ids PROVE ids \cup (1..n) = 1..c /\ c \in 0..MaxSolutions
      <4>1. n + 1 <= i /\ i <= c /\ n \in Nat
        BY <1>7, <3>2, SourcingAssumption
      <4>2. c \in ids
        BY <1>7, <4>1
      <4> QED
        BY <1>5, <1>7, <4>1, <4>2, SourcingAssumption
    <3> QED
      BY <3>1, <3>2
  <2>4. PICK m \in 0..MaxSolutions : ids \cup (1..n) = 1..m
    BY <2>3
  <2>5. solution' = [k \in ids \cup (1..n) |-> IF k \in ids THEN plans[k] ELSE solution[k]]
    BY <1>2, <1>5, <2>2 DEF addedSolutions, Merge
  <2>6. solution' \in [1..m -> Plan]
    <3> HIDE DEF ids
    <3> QED
      BY <1>2, <2>2, <2>4, <2>5
  <2>7. DOMAIN solution \subseteq DOMAIN solution'
    <3> HIDE DEF ids
    <3> QED
      BY <1>2, <2>5
  <2> QED
    BY <1>4, <2>6, <2>7 DEF SolutionTypeOK, TypeInv
<1>6. SolutionTypeOK' /\ DOMAIN solution \subseteq DOMAIN solution'
  BY <1>1, <1>3, <1>5 DEF c
<1>11. package'.status = "Analysed" /\ package'.requestedAt = package.requestedAt
  BY <1>4 DEF TypeInv, WorkspaceTypeOK
<1>8. Grows
  BY <1>4, <1>6, <1>11, GrowsFrame DEF Grows
<1>9. WorkspaceTypeOK'
  BY <1>4, <1>6 DEF TypeInv, WorkspaceTypeOK
<1>10. ChainInv'
  BY <1>4, <1>11 DEF ChainInv
<1> QED
  BY <1>4, <1>6, <1>8, <1>9, <1>10, Ended, TypeFrame, InvFrame DEF TypeInv

LEMMA ClearSelectedStep ==
    ASSUME SourcingInv, NEW p \in Proc, clearSelected(p)
    PROVE  SourcingInv'
<1> DEFINE s == call[p].arg
<1>1. /\ call' = [call EXCEPT ![p] = [op |-> "writeSelection", arg |-> s, seen |-> selected]]
      /\ UNCHANGED stored
      /\ s \in DOMAIN solution
  BY DEF clearSelected, SourcingInv, FoundInv, Found
<1>2. s \in DOMAIN solution'
  BY <1>1 DEF stored
<1> HIDE DEF s
<1>3. call'[p] = [op |-> "writeSelection", arg |-> s, seen |-> selected] => Found(p)'
  BY <1>2 DEF Found
<1> QED
  BY <1>1, <1>3, Begun DEF Operation

LEMMA SelectSolutionStep ==
    ASSUME SourcingInv, NEW p \in Proc, selectSolution(p)
    PROVE  SourcingInv'
<1> USE DEF SourcingInv
<1>1. /\ UNCHANGED <<solution, workspace, rfq, quote, award, order>>
      /\ package' = [package EXCEPT !.status = "SolutionSelected"]
      /\ selected' = (selected \ call[p].seen) \cup {call[p].arg}
      /\ call' = [call EXCEPT ![p] = Idle]
      /\ call[p].arg \in DOMAIN solution
  BY DEF selectSolution, Ending, FoundInv, Found
<1>2. SolutionTypeOK'
  BY <1>1 DEF SolutionTypeOK, TypeInv
<1>3. package'.status = "SolutionSelected" /\ package'.requestedAt = package.requestedAt
  BY <1>1 DEF TypeInv, WorkspaceTypeOK
<1>4. Grows
  BY <1>1, <1>3, GrowsFrame DEF Grows
<1>5. WorkspaceTypeOK'
  BY <1>1 DEF TypeInv, WorkspaceTypeOK
<1>6. ChainInv'
  BY <1>1, <1>3 DEF ChainInv
<1> QED
  BY <1>1, <1>2, <1>4, <1>5, <1>6, Ended, TypeFrame, InvFrame DEF TypeInv

LEMMA RequestQuotationsStep ==
    ASSUME SourcingInv, NEW p \in Proc, requestQuotations(p)
    PROVE  SourcingInv'
<1> USE DEF SourcingInv
<1>1. /\ UNCHANGED <<solution, selected, workspace, rfq, quote, award, order>>
      /\ package' = [status |-> "QuotationRequested", requestedAt |-> TRUE]
      /\ call' = [call EXCEPT ![p] = Idle]
  BY DEF requestQuotations, Ending
<1>2. Grows
  BY <1>1, GrowsFrame DEF Grows
<1>3. WorkspaceTypeOK'
  BY <1>1 DEF TypeInv, WorkspaceTypeOK
<1>4. ChainInv'
  BY <1>1 DEF ChainInv
<1> QED
  BY <1>1, <1>2, <1>3, <1>4, Ended, TypeFrame, InvFrame DEF TypeInv

-----------------------------------------------------------------------------
(***************************************************************************)
(* The workspace and its RFQs                                              *)
(***************************************************************************)

LEMMA GenerateStep ==
    ASSUME SourcingInv, NEW p \in Proc, generate(p)
    PROVE  SourcingInv'
<1> USE DEF SourcingInv
<1> DEFINE s == call[p].arg
           new(t) == [status |-> "Draft", approvedAt |-> FALSE, sentAt |-> FALSE,
                      items |-> {i \in Item : solution[s][i] = t}]
<1>1. /\ UNCHANGED <<package, solution, selected, quote, award, order>>
      /\ workspace.status = "None"
      /\ workspace' = [status |-> "Draft", solution |-> s]
      /\ rfq' = [t \in Range(solution[s]) |-> new(t)]
      /\ call' = [call EXCEPT ![p] = Idle]
      /\ s \in DOMAIN solution /\ package.requestedAt
  BY DEF generate, Ending, FoundInv, Found
<1>2. DOMAIN rfq = {} /\ DOMAIN quote = {}
  BY <1>1 DEF TypeInv, WorkspaceTypeOK, QuoteTypeOK
<1>3. solution[s] \in [Item -> Supplier]
  BY <1>1 DEF TypeInv, SolutionTypeOK, Plan
<1>4. Range(solution[s]) \subseteq Supplier
  BY <1>3 DEF Range
<1>5. \A t : new(t) \in Rfq
  BY DEF Rfq
<1> HIDE DEF s, new
<1>6. RfqTypeOK'
  BY <1>1, <1>4, <1>5 DEF RfqTypeOK
<1>7. WorkspaceTypeOK'
  BY <1>1 DEF TypeInv, WorkspaceTypeOK
<1>8. QuoteTypeOK'
  BY <1>1, <1>2 DEF TypeInv, QuoteTypeOK
<1>9. Grows
  BY <1>1, <1>2, GrowsFrame DEF Grows
<1>10. ChainInv'
  BY <1>1, <1>2 DEF ChainInv, new
<1> QED
  BY <1>1, <1>6, <1>7, <1>8, <1>9, <1>10, Ended, TypeFrame, InvFrame DEF TypeInv

LEMMA DeleteRfqLinesStep ==
    ASSUME SourcingInv, NEW p \in Proc, deleteRfqLines(p)
    PROVE  SourcingInv'
<1> DEFINE arg == call[p].arg
           seen == rfq[arg.supplier].items
<1>1. /\ call' = [call EXCEPT ![p] = [op |-> "writeRevision", arg |-> arg, seen |-> seen]]
      /\ UNCHANGED stored
      /\ arg.supplier \in DOMAIN rfq /\ arg.items \subseteq Item
  BY DEF deleteRfqLines, SourcingInv, FoundInv, Found
<1>2. arg.supplier \in DOMAIN rfq'
  BY <1>1 DEF stored
<1> HIDE DEF arg, seen
<1>3. call'[p] = [op |-> "writeRevision", arg |-> arg, seen |-> seen] => Found(p)'
  BY <1>1, <1>2 DEF Found
<1> QED
  BY <1>1, <1>3, Begun DEF Operation

\* A step that writes one RFQ and keeps its dates.
LEMMA RfqWritten ==
    ASSUME SourcingInv, NEW p \in Proc, NEW s \in DOMAIN rfq, NEW row \in Rfq,
           rfq' = [rfq EXCEPT ![s] = row], EndsCall(p),
           UNCHANGED <<package, solution, selected, quote, award, order>>,
           \/ UNCHANGED workspace
           \/ workspace' = [status |-> "Active", solution |-> workspace.solution],
           rfq[s].approvedAt => row.approvedAt,
           rfq[s].sentAt => row.sentAt,
           row.status = "Sent" => row.sentAt,
           row.status \in {"Approved", "Sent"} => row.approvedAt,
           row.sentAt => row.approvedAt
    PROVE  SourcingInv'
<1> USE DEF SourcingInv
<1>1. /\ DOMAIN rfq' = DOMAIN rfq /\ rfq'[s] = row
      /\ \A t \in DOMAIN rfq \ {s} : rfq'[t] = rfq[t]
  BY DEF TypeInv, RfqTypeOK
<1>2. RfqTypeOK'
  BY DEF TypeInv, RfqTypeOK
<1>3. workspace.status # "None" /\ workspace'.status # "None" /\ workspace'.solution = workspace.solution
  BY DEF TypeInv, WorkspaceTypeOK
<1>4. WorkspaceTypeOK'
  BY <1>3 DEF TypeInv, WorkspaceTypeOK
<1>5. QuoteTypeOK'
  BY <1>1 DEF TypeInv, QuoteTypeOK
<1>6. Grows
  BY <1>1, GrowsFrame DEF Grows
<1>7. ChainInv'
  <2>1. \A k \in DOMAIN quote : k[1] \in DOMAIN rfq
    BY DEF TypeInv, QuoteTypeOK
  <2> QED
    BY <1>1, <1>3, <2>1 DEF ChainInv
<1> QED
  BY <1>2, <1>4, <1>5, <1>6, <1>7, EndedAll, TypeFrame, InvFrame DEF TypeInv

LEMMA RfqSteps ==
    ASSUME SourcingInv, NEW p \in Proc, reviseRfq(p) \/ approveRfq(p) \/ sendRfq(p)
    PROVE  SourcingInv'
<1> USE DEF SourcingInv
<1>r. \A s \in DOMAIN rfq :
        /\ rfq[s] \in Rfq
        /\ rfq[s] = [status |-> rfq[s].status, items |-> rfq[s].items,
                     approvedAt |-> rfq[s].approvedAt, sentAt |-> rfq[s].sentAt]
        /\ rfq[s].status \in {"Approved", "Sent"} => rfq[s].approvedAt
        /\ rfq[s].status = "Sent" => rfq[s].sentAt
        /\ rfq[s].sentAt => rfq[s].approvedAt
  BY DEF ChainInv, TypeInv, RfqTypeOK, Rfq
<1>1. CASE reviseRfq(p)
  <2> DEFINE s == call[p].arg.supplier
             items == (rfq[s].items \ call[p].seen) \cup call[p].arg.items
             row == [rfq[s] EXCEPT !.items = items]
  <2>1. s \in DOMAIN rfq /\ call[p].arg.items \subseteq Item
    BY <1>1 DEF reviseRfq, FoundInv, Found
  <2>2. row \in Rfq
    BY <1>r, <2>1 DEF Rfq
  <2>3. row.status = rfq[s].status /\ row.approvedAt = rfq[s].approvedAt /\ row.sentAt = rfq[s].sentAt
    BY <1>r, <2>1
  <2>4. rfq' = [rfq EXCEPT ![s] = row]
    BY <1>1, <2>1 DEF reviseRfq, TypeInv, RfqTypeOK
  <2>5. EndsCall(p)
    BY <1>1 DEF reviseRfq, FoundAfter, EndsCall
  <2> HIDE DEF s, row
  <2>6. UNCHANGED <<package, solution, selected, workspace, quote, award, order>>
    BY <1>1 DEF reviseRfq
  <2>7. /\ rfq[s].approvedAt => row.approvedAt
        /\ rfq[s].sentAt => row.sentAt
        /\ row.status = "Sent" => row.sentAt
        /\ row.status \in {"Approved", "Sent"} => row.approvedAt
        /\ row.sentAt => row.approvedAt
    BY <1>r, <2>1, <2>3
  <2> QED
    BY <2>1, <2>2, <2>4, <2>5, <2>6, <2>7, RfqWritten
<1>2. CASE approveRfq(p)
  <2> DEFINE s == call[p].arg
             row == [status |-> "Approved", items |-> rfq[s].items,
                     approvedAt |-> TRUE, sentAt |-> rfq[s].sentAt]
  <2>1. s \in DOMAIN rfq
    BY <1>2 DEF approveRfq, Ending, FoundInv, Found
  <2>2. row \in Rfq
    BY <1>r, <2>1 DEF Rfq
  <2>3. rfq' = [rfq EXCEPT ![s] = row]
    BY <1>2, <2>1 DEF approveRfq
  <2>4. row.status = "Approved" /\ row.approvedAt /\ row.sentAt = rfq[s].sentAt
    OBVIOUS
  <2>5. /\ call' = [call EXCEPT ![p] = Idle]
        /\ UNCHANGED <<package, solution, selected, quote, award, order>>
        /\ UNCHANGED workspace
    BY <1>2 DEF approveRfq, Ending, TypeInv, WorkspaceTypeOK
  <2> HIDE DEF s, row
  <2> QED
    BY <1>r, <2>1, <2>2, <2>3, <2>4, <2>5, EndingEnds, RfqWritten
<1>3. CASE sendRfq(p)
  <2> DEFINE s == call[p].arg
             row == [status |-> "Sent", items |-> rfq[s].items,
                     approvedAt |-> rfq[s].approvedAt, sentAt |-> TRUE]
  <2>1. s \in DOMAIN rfq /\ rfq[s].approvedAt
    BY <1>3 DEF sendRfq, Ending, FoundInv, Found
  <2>2. row \in Rfq
    BY <1>r, <2>1 DEF Rfq
  <2>3. rfq' = [rfq EXCEPT ![s] = row]
    BY <1>3, <2>1 DEF sendRfq
  <2>4. row.status = "Sent" /\ row.approvedAt /\ row.sentAt
    BY <2>1
  <2>5. /\ call' = [call EXCEPT ![p] = Idle]
        /\ UNCHANGED <<package, solution, selected, quote, award, order>>
        /\ workspace' = [status |-> "Active", solution |-> workspace.solution]
    BY <1>3 DEF sendRfq, Ending, TypeInv, WorkspaceTypeOK
  <2> HIDE DEF s, row
  <2> QED
    BY <1>r, <2>1, <2>2, <2>3, <2>4, <2>5, EndingEnds, RfqWritten
<1> QED
  BY <1>1, <1>2, <1>3

-----------------------------------------------------------------------------
(***************************************************************************)
(* Quotes and awards                                                       *)
(***************************************************************************)

\* The version a handler has computed is the next one of those no quote has.
LEMMA SubmitQuoteStep ==
    ASSUME SourcingInv, NEW p \in Proc, submitQuote(p)
    PROVE  SourcingInv'
<1> USE DEF SourcingInv
<1> DEFINE s == call[p].arg.supplier
           v == call[p].seen
           lines == call[p].arg.lines
           row == [status |-> "Submitted", lines |-> lines]
           old(k) == IF k[1] = s THEN [quote[k] EXCEPT !.status = "Superseded"] ELSE quote[k]
<1>1. /\ UNCHANGED <<package, solution, selected, workspace, rfq, award, order>>
      /\ call' = [call EXCEPT ![p] = Idle]
      /\ <<s, v>> \notin DOMAIN quote
      /\ quote' = [k \in DOMAIN quote \cup {<<s, v>>} |->
                     IF k = <<s, v>> THEN row ELSE [j \in DOMAIN quote |-> old(j)][k]]
  BY DEF submitQuote, Ending, VersionUnused, Put
<1>2. /\ s \in DOMAIN rfq /\ rfq[s].sentAt
      /\ lines \in PartialOn(Item, QuoteLine)
      /\ \A i \in DOMAIN lines : lines[i].review \in {"None", "PendingReview"}
      /\ v \in 1..MaxVersion
      /\ \A w \in 1..(v - 1) : <<s, w>> \in DOMAIN quote
  BY DEF submitQuote, Ending, FoundInv, Found
<1>3. s \in Supplier
  BY <1>2 DEF TypeInv, RfqTypeOK
<1>4. row \in Quote /\ row.status = "Submitted" /\ row.lines = lines
  BY <1>2 DEF Quote
<1>5. \A k \in DOMAIN quote :
        /\ old(k) \in Quote /\ old(k).lines = quote[k].lines
        /\ k[1] = s => old(k).status = "Superseded"
        /\ k[1] # s => old(k).status = quote[k].status
  <2> SUFFICES ASSUME NEW k \in DOMAIN quote
               PROVE  /\ old(k) \in Quote /\ old(k).lines = quote[k].lines
                      /\ k[1] = s => old(k).status = "Superseded"
                      /\ k[1] # s => old(k).status = quote[k].status
    OBVIOUS
  <2>1. quote[k] \in Quote
    BY DEF TypeInv, QuoteTypeOK
  <2> HIDE DEF s
  <2> QED
    BY <2>1 DEF Quote
<1> HIDE DEF s, v, lines, row, old
<1>6. /\ DOMAIN quote' = DOMAIN quote \cup {<<s, v>>}
      /\ quote'[<<s, v>>] = row
      /\ \A k \in DOMAIN quote : quote'[k] = old(k)
  BY <1>1
<1>7. QuoteTypeOK'
  <2>1. DOMAIN quote' \subseteq (DOMAIN rfq) \X (1..MaxVersion)
    BY <1>2, <1>6 DEF TypeInv, QuoteTypeOK
  <2>2. quote' \in [DOMAIN quote' -> Quote]
    BY <1>1, <1>4, <1>5, <1>6
  <2> QED
    BY <1>1, <2>1, <2>2 DEF QuoteTypeOK
<1>8. Grows
  <2>1. \A k \in DOMAIN quote : quote'[k].lines = quote[k].lines
    BY <1>5, <1>6
  <2> QED
    BY <1>1, <1>6, <2>1, GrowsFrame DEF Grows
<1>9. ChainInv'
  BY <1>1, <1>2, <1>6 DEF ChainInv
<1>10. VersionsInv'
  <2> SUFFICES ASSUME NEW t \in Supplier
               PROVE  \E n \in 0..MaxVersion :
                        /\ Versions(t)' = 1..n
                        /\ \A w \in 1..n : (quote'[<<t, w>>].status = "Submitted") <=> (w = n)
    BY DEF VersionsInv
  <2>1. PICK n \in 0..MaxVersion :
          /\ Versions(t) = 1..n
          /\ \A w \in 1..n : (quote[<<t, w>>].status = "Submitted") <=> (w = n)
    BY DEF VersionsInv
  <2>2. \A w \in 1..n : <<t, w>> \in DOMAIN quote
    BY <2>1 DEF Versions
  <2>3. CASE t # s
    <3>1. Versions(t)' = Versions(t)
      BY <1>6, <2>3 DEF Versions
    <3>2. \A w \in 1..n : quote'[<<t, w>>].status = quote[<<t, w>>].status
      BY <1>5, <1>6, <2>2, <2>3
    <3> QED
      BY <2>1, <3>1, <3>2
  <2>4. CASE t = s
    <3>1. v \notin Versions(s) /\ \A w \in 1..(v - 1) : w \in Versions(s)
      BY <1>1, <1>2, SourcingAssumption DEF Versions
    <3>2. v = n + 1
      <4>1. v \notin 1..n /\ \A w \in 1..(v - 1) : w \in 1..n
        BY <2>1, <2>4, <3>1
      <4>2. v \in Nat /\ n \in Nat /\ v >= 1
        BY <1>2, SourcingAssumption
      <4>3. v > n
        BY <4>1, <4>2
      <4>4. v = 1 \/ v - 1 \in 1..n
        BY <4>1, <4>2
      <4> QED
        BY <4>2, <4>3, <4>4
    <3>3. Versions(t)' = Versions(t) \cup {v}
      BY <1>2, <1>6, <2>4 DEF Versions
    <3>4. Versions(t)' = 1..v
      BY <2>1, <2>4, <3>2, <3>3
    <3>5. \A w \in 1..n : quote'[<<s, w>>].status = "Superseded"
      BY <1>5, <1>6, <2>2, <2>4
    <3>6. \A w \in 1..v : (quote'[<<s, w>>].status = "Submitted") <=> (w = v)
      <4> SUFFICES ASSUME NEW w \in 1..v
                   PROVE  (quote'[<<s, w>>].status = "Submitted") <=> (w = v)
        OBVIOUS
      <4>1. CASE w = v
        BY <1>4, <1>6, <4>1
      <4>2. CASE w # v
        <5>1. w \in 1..n
          BY <3>2, <4>2
        <5> QED
          BY <3>5, <4>2, <5>1
      <4> QED
        BY <4>1, <4>2
    <3>7. v \in 0..MaxVersion
      BY <1>2
    <3> QED
      BY <2>4, <3>4, <3>6, <3>7
  <2> QED
    BY <2>3, <2>4
<1>11. QuoteLines \subseteq QuoteLines' /\ \A l \in QuoteLines : LineOf(l)' = LineOf(l)
  BY <1>5, <1>6 DEF QuoteLines, LineOf
<1>12. AwardTypeOK'
  BY <1>1, <1>11 DEF TypeInv, AwardTypeOK
<1>13. AwardInv'
  BY <1>1, <1>11 DEF AwardInv, Passed, TypeInv, AwardTypeOK
<1>14. ReviewInv'
  BY <1>2, <1>4, <1>5, <1>6 DEF ReviewInv
<1> QED
  BY <1>1, <1>7, <1>8, <1>9, <1>10, <1>12, <1>13, <1>14, Ended, TypeFrame, InvFrame DEF TypeInv

LEMMA ReviewStep ==
    ASSUME SourcingInv, NEW k, NEW i \in Item, NEW status \in {"Approved", "Rejected"},
           reviewSubstitution(k, i, status)
    PROVE  SourcingInv'
<1> USE DEF SourcingInv
<1> DEFINE line == [offered |-> quote[k].lines[i].offered, review |-> status,
                    passed |-> quote[k].lines[i].passed \/ status = "Approved"]
           newLines == [quote[k].lines EXCEPT ![i] = line]
           row == [quote[k] EXCEPT !.lines = newLines]
<1>1. /\ k \in DOMAIN quote /\ i \in DOMAIN quote[k].lines
      /\ quote[k].lines[i].review # "None"
      /\ UNCHANGED <<package, solution, selected, workspace, rfq, award, order, call>>
  BY DEF reviewSubstitution
<1>2. quote' = [quote EXCEPT ![k] = row]
  BY <1>1 DEF reviewSubstitution, TypeInv, QuoteTypeOK
<1>3. quote[k] \in Quote
  BY <1>1 DEF TypeInv, QuoteTypeOK
<1>4. PICK D \in SUBSET Item : quote[k].lines \in [D -> QuoteLine]
  BY <1>3 DEF Quote, PartialOn
<1>5. /\ line \in QuoteLine /\ line.review # "None"
      /\ line.offered = quote[k].lines[i].offered
      /\ quote[k].lines[i].passed => line.passed
      /\ line.review = "Approved" => line.passed
  <2>1. quote[k].lines[i] \in QuoteLine
    BY <1>1, <1>4
  <2>2. quote[k].lines[i].offered \in Offered
    BY <2>1 DEF QuoteLine
  <2>3. (quote[k].lines[i].passed \/ status = "Approved") \in BOOLEAN
    OBVIOUS
  <2>4. status \in {"None", "PendingReview", "Approved", "Rejected"}
    OBVIOUS
  <2>5. line \in QuoteLine
    BY <2>2, <2>3, <2>4, Zenon DEF QuoteLine
  <2> QED
    BY <2>5
<1> HIDE DEF line
<1>6. newLines \in [D -> QuoteLine] /\ newLines[i] = line
      /\ \A j \in D \ {i} : newLines[j] = quote[k].lines[j]
  BY <1>1, <1>4, <1>5
<1> HIDE DEF newLines
<1>7. row \in Quote /\ row.status = quote[k].status /\ row.lines = newLines
  BY <1>3, <1>4, <1>6 DEF Quote, PartialOn
<1> HIDE DEF row
<1>8. /\ DOMAIN quote' = DOMAIN quote /\ quote'[k] = row
      /\ \A j \in DOMAIN quote \ {k} : quote'[j] = quote[j]
  BY <1>2, <1>1 DEF TypeInv, QuoteTypeOK
<1>9. QuoteTypeOK'
  BY <1>1, <1>2, <1>7, <1>8 DEF TypeInv, QuoteTypeOK
<1>10. \A j \in DOMAIN quote :
         /\ quote'[j].status = quote[j].status
         /\ DOMAIN quote'[j].lines = DOMAIN quote[j].lines
         /\ \A e \in DOMAIN quote[j].lines :
               /\ quote'[j].lines[e].offered = quote[j].lines[e].offered
               /\ quote[j].lines[e].passed => quote'[j].lines[e].passed
               /\ quote[j].lines[e].review = "None" => quote'[j].lines[e].review = "None"
               /\ \/ quote'[j].lines[e] = quote[j].lines[e]
                  \/ quote'[j].lines[e].review = "Approved" => quote'[j].lines[e].passed
  BY <1>1, <1>4, <1>5, <1>6, <1>7, <1>8
<1>11. Grows
  BY <1>1, <1>8, <1>10, GrowsFrame DEF Grows
<1>12. CallTypeOK' /\ FoundInv'
  BY <1>1, <1>11, FoundKept DEF FoundInv, TypeInv, CallTypeOK
<1>13. ChainInv'
  BY <1>1, <1>8 DEF ChainInv
<1>14. VersionsInv'
  <2>1. \A t : Versions(t)' = Versions(t)
    BY <1>8 DEF Versions
  <2>2. \A t : \A w \in Versions(t) : quote'[<<t, w>>].status = quote[<<t, w>>].status
    BY <1>10 DEF Versions
  <2> SUFFICES ASSUME NEW t \in Supplier
               PROVE  \E n \in 0..MaxVersion :
                        /\ Versions(t)' = 1..n
                        /\ \A w \in 1..n : (quote'[<<t, w>>].status = "Submitted") <=> (w = n)
    BY DEF VersionsInv
  <2>3. PICK n \in 0..MaxVersion :
          /\ Versions(t) = 1..n
          /\ \A w \in 1..n : (quote[<<t, w>>].status = "Submitted") <=> (w = n)
    BY DEF VersionsInv
  <2> QED
    BY <2>1, <2>2, <2>3
<1>15. \A l \in QuoteLines : /\ l \in QuoteLines'
                             /\ LineOf(l)'.offered = LineOf(l).offered
                             /\ Passed(l) => Passed(l)'
  BY <1>8, <1>10 DEF QuoteLines, LineOf, Passed
<1>16. AwardTypeOK'
  BY <1>1, <1>15 DEF TypeInv, AwardTypeOK
<1>17. AwardInv'
  BY <1>1, <1>15 DEF AwardInv, TypeInv, AwardTypeOK
<1>18. ReviewInv'
  BY <1>8, <1>10 DEF ReviewInv
<1> QED
  BY <1>1, <1>9, <1>12, <1>13, <1>14, <1>16, <1>17, <1>18, TypeFrame, InvFrame DEF TypeInv

LEMMA AwardLinesStep ==
    ASSUME SourcingInv, NEW p \in Proc, awardLines(p)
    PROVE  SourcingInv'
<1> USE DEF SourcingInv
<1> DEFINE arg == call[p].arg
<1>1. /\ UNCHANGED <<package, solution, selected, rfq, quote, order>>
      /\ call' = [call EXCEPT ![p] = Idle]
      /\ award' = Merge(arg, award)
      /\ \A l \in DOMAIN arg : l \notin DOMAIN award
      /\ workspace' = [workspace EXCEPT !.status = "Awarded"]
  BY DEF awardLines, Ending, AwardFree
<1>2. /\ DOMAIN arg # {} /\ DOMAIN arg \subseteq QuoteLines
      /\ arg \in [DOMAIN arg -> Nat \ {0}]
      /\ \A l \in DOMAIN arg : arg[l] <= LineOf(l).offered /\ Passed(l)
  BY DEF awardLines, Ending, FoundInv, Found
<1>3. workspace'.status = "Awarded" /\ workspace'.solution = workspace.solution
      /\ workspace' = [status |-> workspace'.status, solution |-> workspace'.solution]
  BY <1>1 DEF TypeInv, WorkspaceTypeOK
<1> HIDE DEF arg
<1>4. /\ DOMAIN award' = DOMAIN arg \cup DOMAIN award
      /\ \A l \in DOMAIN arg : award'[l] = arg[l]
      /\ \A l \in DOMAIN award : award'[l] = award[l]
      /\ award' = [l \in DOMAIN award' |-> award'[l]]
  BY <1>1 DEF Merge
<1>5. AwardTypeOK'
  <2>1. award' \in [DOMAIN award' -> Nat \ {0}]
    BY <1>2, <1>4 DEF TypeInv, AwardTypeOK
  <2>2. QuoteLines' = QuoteLines
    BY <1>1 DEF QuoteLines
  <2> QED
    BY <1>2, <1>4, <2>1, <2>2 DEF TypeInv, AwardTypeOK
<1>6. AwardInv'
  <2>1. \A l : LineOf(l)' = LineOf(l) /\ Passed(l)' = Passed(l)
    BY <1>1 DEF LineOf, Passed
  <2> QED
    BY <1>2, <1>4, <2>1 DEF AwardInv
<1>7. OrderTypeOK'
  BY <1>1, <1>4 DEF TypeInv, OrderTypeOK
<1>8. Grows
  BY <1>1, <1>4, GrowsFrame DEF Grows
<1>9. workspace.status # "None"
  <2>1. DOMAIN quote # {}
    BY <1>2 DEF QuoteLines
  <2> QED
    BY <2>1 DEF TypeInv, QuoteTypeOK, WorkspaceTypeOK
<1>10. WorkspaceTypeOK'
  BY <1>1, <1>3, <1>9 DEF TypeInv, WorkspaceTypeOK
<1>11. ChainInv'
  BY <1>1, <1>9 DEF ChainInv
<1> QED
  BY <1>1, <1>5, <1>6, <1>7, <1>8, <1>10, <1>11, Ended, TypeFrame, InvFrame DEF TypeInv

-----------------------------------------------------------------------------
(***************************************************************************)
(* Purchase order drafts                                                   *)
(***************************************************************************)

LEMMA PrepareStep ==
    ASSUME SourcingInv, NEW p \in Proc, preparePurchaseOrderDrafts(p)
    PROVE  SourcingInv'
<1> USE DEF SourcingInv
<1> DEFINE awarded == call[p].seen
           draft(s) == [supplier |-> s, status |-> "Draft", awards |-> {l \in awarded : l[1] = s}]
           drafted == {s \in Supplier : WithoutDraft(s) /\ \E l \in awarded : l[1] = s}
<1>1. /\ UNCHANGED <<package, solution, selected, workspace, rfq, quote, award>>
      /\ call' = [call EXCEPT ![p] = Idle]
      /\ order' = order \cup {draft(s) : s \in drafted}
      /\ awarded \subseteq DOMAIN award
  BY DEF preparePurchaseOrderDrafts, Ending, FoundInv, Found
<1>2. awarded \subseteq Line
  BY <1>1 DEF TypeInv, AwardTypeOK, QuoteLines
<1>3. ASSUME NEW s \in drafted
      PROVE  /\ draft(s) \in Order /\ draft(s).awards \subseteq DOMAIN award
             /\ draft(s).supplier = s
             /\ \A l \in draft(s).awards : l[1] = s
             /\ \A o \in order : o.supplier # s
  BY <1>1, <1>2 DEF Order, WithoutDraft
<1> HIDE DEF draft, drafted, awarded
<1>4. OrderTypeOK'
  BY <1>1, <1>3 DEF TypeInv, OrderTypeOK
<1>5. OrderInv'
  BY <1>1, <1>3 DEF OrderInv
<1>6. Grows
  BY <1>1, GrowsFrame DEF Grows
<1> QED
  BY <1>1, <1>4, <1>5, <1>6, Ended, TypeFrame, InvFrame DEF TypeInv

\* The draft that was read has been approved since, or is replaced now.
LEMMA ApproveOrderStep ==
    ASSUME SourcingInv, NEW p \in Proc, approvePurchaseOrderDraft(p)
    PROVE  SourcingInv'
<1> USE DEF SourcingInv
<1> DEFINE o == call[p].arg
           new == [o EXCEPT !.status = "Approved"]
<1>1. /\ UNCHANGED <<package, solution, selected, workspace, rfq, quote, award>>
      /\ call' = [call EXCEPT ![p] = Idle]
      /\ order' = (order \ {o}) \cup {new}
      /\ o \in Order /\ o.status = "Draft" /\ o.awards \subseteq DOMAIN award
      /\ \E o2 \in order : o2.supplier = o.supplier /\ o2.awards = o.awards
  BY DEF approvePurchaseOrderDraft, Ending, FoundInv, Found
<1>2. /\ new \in Order /\ new.supplier = o.supplier /\ new.awards = o.awards
      /\ new.status = "Approved"
  BY <1>1 DEF Order
<1> HIDE DEF new, o
<1>3. PICK own \in order : own.supplier = o.supplier /\ own.awards = o.awards
  BY <1>1
<1>4. own = o \/ own = new
  <2>1. own \in Order
    BY DEF TypeInv, OrderTypeOK
  <2> QED
    BY <1>1, <1>2, <1>3, <2>1 DEF Order
<1>5. \A x \in order : x.supplier = o.supplier => x = own
  BY <1>3 DEF OrderInv
<1>6. OrderTypeOK'
  BY <1>1, <1>2 DEF TypeInv, OrderTypeOK
<1>7. OrderInv'
  <2>1. \A l \in new.awards : l[1] = new.supplier
    BY <1>2, <1>3 DEF OrderInv
  <2>2. \A x \in order \ {o} : x.supplier = new.supplier => x = new
    BY <1>2, <1>4, <1>5
  <2> QED
    BY <1>1, <2>1, <2>2 DEF OrderInv
<1>8. Grows
  <2>1. \A x \in order : \E x2 \in order' : x2.supplier = x.supplier /\ x2.awards = x.awards
    BY <1>1, <1>2
  <2> QED
    BY <1>1, <2>1, GrowsFrame DEF Grows
<1> QED
  BY <1>1, <1>6, <1>7, <1>8, Ended, TypeFrame, InvFrame DEF TypeInv

LEMMA ThrowStep ==
    ASSUME SourcingInv, NEW p \in Proc, Throw(p)
    PROVE  SourcingInv'
<1>1. /\ UNCHANGED <<package, solution, selected, workspace, rfq, quote, award, order>>
      /\ call' = [call EXCEPT ![p] = Idle]
  BY DEF Throw, stored
<1>2. Grows
  BY <1>1, GrowsFrame DEF Grows
<1> QED
  BY <1>1, <1>2, Ended, TypeFrame, InvFrame DEF SourcingInv, TypeInv

-----------------------------------------------------------------------------
(***************************************************************************)
(* The theorems                                                            *)
(***************************************************************************)

LEMMA InitInv == SourcingInit => SourcingInv
<1> SUFFICES ASSUME SourcingInit PROVE SourcingInv
  OBVIOUS
<1> USE DEF SourcingInit
<1>1. /\ DOMAIN solution = {} /\ DOMAIN rfq = {} /\ DOMAIN quote = {} /\ DOMAIN award = {}
      /\ \A T : solution \in [{} -> T] /\ rfq \in [{} -> T] /\ quote \in [{} -> T]
                /\ award \in [{} -> T]
  BY DEF Empty
<1>2. SolutionTypeOK
  <2>1. solution \in [1..0 -> Plan] /\ 0 \in 0..MaxSolutions
    BY <1>1, SourcingAssumption
  <2> QED
    BY <2>1 DEF SolutionTypeOK
<1>3. WorkspaceTypeOK
  BY <1>1 DEF WorkspaceTypeOK
<1>4. RfqTypeOK /\ QuoteTypeOK /\ AwardTypeOK /\ OrderTypeOK
  BY <1>1 DEF RfqTypeOK, QuoteTypeOK, AwardTypeOK, OrderTypeOK
<1>5. CallTypeOK /\ FoundInv
  BY DEF CallTypeOK, FoundInv, Found, Idle
<1>6. ChainInv
  BY <1>1 DEF ChainInv
<1>7. VersionsInv
  <2> SUFFICES ASSUME NEW s \in Supplier
               PROVE  \E n \in 0..MaxVersion :
                        /\ Versions(s) = 1..n
                        /\ \A v \in 1..n : (quote[<<s, v>>].status = "Submitted") <=> (v = n)
    BY DEF VersionsInv
  <2>1. Versions(s) = 1..0 /\ 0 \in 0..MaxVersion
    BY <1>1, SourcingAssumption DEF Versions
  <2> QED
    BY <2>1
<1>8. AwardInv /\ OrderInv /\ ReviewInv
  BY <1>1 DEF AwardInv, OrderInv, ReviewInv
<1> QED
  BY <1>2, <1>3, <1>4, <1>5, <1>6, <1>7, <1>8 DEF SourcingInv, TypeInv

LEMMA StepInv == SourcingInv /\ [SourcingNext]_sourcingVars => SourcingInv'
<1> SUFFICES ASSUME SourcingInv, [SourcingNext]_sourcingVars PROVE SourcingInv'
  OBVIOUS
<1>1. ASSUME NEW p \in Proc, Write(p) PROVE SourcingInv'
  BY <1>1, AnalyseStep, ClearSelectedStep, SelectSolutionStep, RequestQuotationsStep,
     GenerateStep, DeleteRfqLinesStep, RfqSteps, SubmitQuoteStep, AwardLinesStep, PrepareStep, ApproveOrderStep
  DEF Write
<1>2. ASSUME NEW p \in Proc, NewCall(p) \/ Throw(p) PROVE SourcingInv'
  BY <1>2, NewCallStep, ThrowStep
<1>3. ASSUME NEW k \in DOMAIN quote, NEW i \in Item, NEW status \in {"Approved", "Rejected"},
             reviewSubstitution(k, i, status)
      PROVE  SourcingInv'
  BY <1>3, ReviewStep
<1>4. CASE UNCHANGED sourcingVars
  <2>1. /\ UNCHANGED <<package, solution, selected, workspace, rfq, quote, award, order>>
        /\ UNCHANGED call
    BY <1>4 DEF sourcingVars
  <2>2. Grows
    BY <2>1, GrowsFrame DEF Grows
  <2>3. FoundInv' /\ CallTypeOK'
    BY <2>1, <2>2, FoundKept DEF FoundInv, SourcingInv, TypeInv, CallTypeOK
  <2> QED
    BY <2>1, <2>3, TypeFrame, InvFrame DEF SourcingInv, TypeInv
<1> QED
  BY <1>1, <1>2, <1>3, <1>4 DEF SourcingNext

\* The inductive invariant, from which the theorems follow.
THEOREM Invariance == SourcingSpec => []SourcingInv
<1>1. SourcingInit => SourcingInv
  BY InitInv
<1>2. SourcingInv /\ [SourcingNext]_sourcingVars => SourcingInv'
  BY StepInv
<1> QED
  BY <1>1, <1>2, PTL DEF SourcingSpec

\* Rows are well formed and refer to rows that exist.
THEOREM SourcingTypes == SourcingSpec => []SourcingTypeOK
<1>1. SourcingInv => SourcingTypeOK
  <2> SUFFICES ASSUME SourcingInv PROVE SourcingTypeOK
    OBVIOUS
  <2> USE DEF SourcingInv, TypeInv
  <2>1. rfq \in PartialOn(Supplier, Rfq)
    BY DEF RfqTypeOK, PartialOn
  <2>2. Range(quote) \subseteq Quote
    BY DEF QuoteTypeOK, Range
  <2>3. Range(award) \subseteq Nat \ {0}
    BY DEF AwardTypeOK, Range
  <2>4. /\ DOMAIN award \subseteq Line
        /\ \A l \in DOMAIN award : <<l[1], l[2]>> \in DOMAIN quote
                                   /\ l[3] \in DOMAIN quote[<<l[1], l[2]>>].lines
    BY DEF AwardTypeOK, QuoteLines
  <2> QED
    BY <2>1, <2>2, <2>3, <2>4
    DEF SourcingTypeOK, SolutionTypeOK, WorkspaceTypeOK, QuoteTypeOK, OrderTypeOK, CallTypeOK
<1> QED
  BY <1>1, Invariance, PTL

\* The versions of a supplier's quotes have no gap and the newest is current,
\* however many submissions race.
THEOREM OneCurrent == SourcingSpec => []OneCurrentQuote
<1>1. SourcingInv => OneCurrentQuote
  <2> SUFFICES ASSUME SourcingInv, NEW s \in DOMAIN rfq
               PROVE  LET newest == Cardinality(Versions(s))
                      IN  /\ Versions(s) = 1..newest
                          /\ \A v \in Versions(s) :
                                (quote[<<s, v>>].status = "Submitted") <=> (v = newest)
    BY DEF OneCurrentQuote
  <2>1. s \in Supplier
    BY DEF SourcingInv, TypeInv, RfqTypeOK
  <2>2. PICK n \in 0..MaxVersion :
          /\ Versions(s) = 1..n
          /\ \A v \in 1..n : (quote[<<s, v>>].status = "Submitted") <=> (v = n)
    BY <2>1 DEF SourcingInv, VersionsInv
  <2>3. Cardinality(Versions(s)) = n
    BY <2>2, FS_Interval, SourcingAssumption
  <2> QED
    BY <2>2, <2>3
<1> QED
  BY <1>1, Invariance, PTL

\* No quote without an RFQ that was approved and sent, no workspace without a
\* handoff.
THEOREM Approved == SourcingSpec => []ApprovalChain
<1>1. SourcingInv => ApprovalChain
  BY DEF SourcingInv, ChainInv, ApprovalChain
<1> QED
  BY <1>1, Invariance, PTL

\* What is awarded was offered and, if it is a substitution, once approved.
THEOREM AwardsReviewed == SourcingSpec => []SubstitutionsApproved
<1>1. SourcingInv => SubstitutionsApproved
  BY DEF SourcingInv, AwardInv, Passed, SubstitutionsApproved
<1> QED
  BY <1>1, Invariance, PTL

\* No award is in two purchase order drafts.
THEOREM NoAwardTwice == SourcingSpec => []OrderedOnce
<1>1. SourcingInv => OrderedOnce
  BY DEF SourcingInv, OrderInv, OrderedOnce
<1> QED
  BY <1>1, Invariance, PTL

=============================================================================

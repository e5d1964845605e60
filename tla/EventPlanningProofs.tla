------------------------- MODULE EventPlanningProofs --------------------------
(***************************************************************************)
(* What the run checks of the planning documents, for any number of        *)
(* handlers, versions, requirements, dependencies and objects.             *)
(*                                                                         *)
(* The argument: what a handler reads before its transaction is a version, *)
(* an approval or a submission, and these stay (Grows), so that the row it *)
(* has prepared is still right when it is inserted.  The number of the row *)
(* is the next one, since every number below the one that was read last    *)
(* has a row and the one that is inserted has none.  What the check of the *)
(* dependencies accepts is found by induction on the size of its calls.    *)
(***************************************************************************)
EXTENDS EventPlanning, FiniteSetTheorems, SequenceTheorems, WellFoundedInduction, TLAPS

Keeps(new, old) ==
    \A k \in DOMAIN old : old[k].locked => k \in DOMAIN new /\ new[k] = old[k]

\* The dependencies of a requirement set are between its items, and no item
\* depends on itself.
OneWay(row) ==
    /\ row.dependencies \subseteq (DOMAIN row.items) \X (DOMAIN row.items)
    /\ \A c \in DOMAIN row.items : c \notin Reachable(row.dependencies, c)

\* A requirement set in itself: the planner's overrides are in its items.
SetOK(row) ==
    /\ row \in SetRow
    /\ OneWay(row)
    /\ \A c \in DOMAIN row.planned :
          c \in DOMAIN row.items /\ row.items[c] = [quantity |-> row.planned[c], override |-> TRUE]

SetBasis(row) ==
    /\ <<"design", row.design>> \in approved
    /\ row.baseline # 0 => <<"set", row.baseline>> \in approved

BoardBasis(row) == row \in BoardRow /\ <<"set", row.set>> \in approved

\* The board keeps the locked objects of the one it revises.
BoardRevises(row) ==
    row.basedOn # 0 => /\ row.basedOn \in DOMAIN doc["board"]
                       /\ Keeps(row.objects, doc["board"][row.basedOn].objects)

\* The versions of a document have no gap.
DocsInv ==
    /\ doc = [k \in Kind |-> doc[k]]
    /\ \A k \in Kind : \E n \in 0..MaxVersion[k] : DOMAIN doc[k] = 1..n

SetsInv == \A v \in DOMAIN doc["set"] : SetOK(doc["set"][v]) /\ SetBasis(doc["set"][v])

BoardsInv == \A v \in DOMAIN doc["board"] :
                BoardBasis(doc["board"][v]) /\ BoardRevises(doc["board"][v])

ApprovedInv == \A a \in approved : /\ a = <<a[1], a[2]>> /\ a[1] \in {"design", "set"}
                                   /\ a[2] \in DOMAIN doc[a[1]]

\* A report has a change for every item the planner overrode, or leaves it alone.
ReportOK(row) ==
    /\ row \in ReportRow
    /\ <<"set", row.baseline>> \in approved
    /\ \A c \in DOMAIN row.changes : row.changes[c].type = "Added" => row.changes[c].to # 0
    /\ \A c \in DOMAIN row.changes \cap DOMAIN doc["set"][row.baseline].items :
          doc["set"][row.baseline].items[c].override =>
              row.changes[c].type = "OverrideProtected"

ReportsInv == \A i \in DOMAIN report : ReportOK(report[i])

ReviewsInv ==
    /\ review \in [DOMAIN doc["board"] -> ReviewRow]
    /\ ReviewsRecorded

\* A verdict in progress is on a board that was submitted.
VerdictOK(c) ==
    /\ c \in Verdict
    /\ c.board \in DOMAIN doc["board"]
    /\ c.op # "submit" => review[c.board].submitted

\* An insert in progress has prepared a row that may be inserted.
InsertOK(c) ==
    /\ c = [op |-> "insert", kind |-> c.kind, content |-> c.content,
            report |-> c.report, version |-> c.version]
    /\ c.kind \in Kind /\ c.version \in 0..MaxVersion[c.kind]
    /\ \A w \in 1..MaxVersion[c.kind] : w < c.version => w \in DOMAIN doc[c.kind]
    /\ c.kind = "set" => SetOK(c.content) /\ SetBasis(c.content)
    /\ c.kind = "board" => BoardBasis(c.content) /\ BoardRevises(c.content)

CallOK(c) == c = Idle \/ VerdictOK(c) \/ InsertOK(c)

CallsInv == call = [p \in Proc |-> call[p]] /\ \A p \in Proc : CallOK(call[p])

PlanningInv ==
    /\ DocsInv
    /\ SetsInv
    /\ BoardsInv
    /\ ApprovedInv
    /\ ReportsInv
    /\ ReviewsInv
    /\ CallsInv

-----------------------------------------------------------------------------
(***************************************************************************)
(* Numbers and tables                                                      *)
(***************************************************************************)

LEMMA LeastNumber ==
    ASSUME NEW T, T \subseteq Nat, T # {}
    PROVE  \E x \in T : \A y \in T : x <= y
<1>1. IsWellFoundedOn(OpToRel(<, Nat), Nat)
  BY NatLessThanWellFounded, Zenon
<1>2. PICK x \in T : \A y \in T : ~ (<<y, x>> \in OpToRel(<, Nat))
  BY <1>1, WFMin
<1>3. \A y \in T : ~ (y < x)
  BY <1>2, Zenon DEF OpToRel
<1>4. \A y \in T : y \in Nat
  OBVIOUS
<1> QED
  BY <1>3, <1>4

\* A bounded set of numbers has a largest one: the one nearest to the bound.
LEMMA LargestIsMax ==
    ASSUME NEW n \in Nat, NEW S, S \subseteq 1..n, S # {}
    PROVE  Largest(S) \in S /\ \A m \in S : m <= Largest(S)
<1> DEFINE T == {n - x : x \in S}
<1>0. \A x \in S : x \in Nat /\ n - x \in Nat
  OBVIOUS
<1>1. T \subseteq Nat /\ T # {}
  BY <1>0
<1>2. PICK t \in T : \A y \in T : t <= y
  BY <1>1, LeastNumber
<1>3. PICK x \in S : t = n - x
  OBVIOUS
<1>4. \A m \in S : n - x <= n - m
  BY <1>2, <1>3
<1>5. \A m \in S : m <= x
  BY <1>4
<1> QED
  BY <1>5 DEF Largest

LEMMA LargestOfAll ==
    ASSUME NEW n \in Nat
    PROVE  Largest(1..n) = n
<1>1. CASE n = 0
  BY <1>1 DEF Largest
<1>2. CASE n # 0
  <2>1. 1..n # {}
    BY <1>2
  <2>2. Largest(1..n) \in 1..n /\ \A m \in 1..n : m <= Largest(1..n)
    BY <2>1, LargestIsMax
  <2> QED
    BY <1>2, <2>2
<1> QED
  BY <1>1, <1>2

\* The number after the largest is above all of the set.
LEMMA AboveLargest ==
    ASSUME NEW n \in Nat, NEW S, S \subseteq 1..n
    PROVE  Largest(S) + 1 \in Nat /\ \A m \in S : m < Largest(S) + 1
<1>1. CASE S = {}
  BY <1>1 DEF Largest
<1>2. CASE S # {}
  <2>1. Largest(S) \in S /\ \A m \in S : m <= Largest(S)
    BY <1>2, LargestIsMax
  <2>2. \A m \in S : m \in Nat
    OBVIOUS
  <2>3. \A top \in Nat : (\A m \in S : m <= top) => \A m \in S : m < top + 1
    BY <2>2
  <2>4. Largest(S) \in Nat
    BY <2>1, <2>2
  <2> QED
    BY <2>1, <2>3, <2>4
<1> QED
  BY <1>1, <1>2

LEMMA PartialIs ==
    \A S, T, f : f \in PartialOn(S, T) <=> DOMAIN f \subseteq S /\ f \in [DOMAIN f -> T]
BY DEF PartialOn

-----------------------------------------------------------------------------
(***************************************************************************)
(* The depth-first search of validateDependencyGraph                       *)
(***************************************************************************)

\* One call of visit, in terms of the calls it makes.
VisitArg == [state: [Code -> 0..2], nodes: SUBSET Code]
VisitResult == [cyclic: BOOLEAN, state: [Code -> 0..2]]

Below(g, edges, s, n) == g[[state |-> [s.state EXCEPT ![n] = 1], nodes |-> Targets(edges, n)]]
Rest(g, s, n, state) == g[[state |-> state, nodes |-> s.nodes \ {n}]]

VisitStep(g, edges, s) ==
    IF s.nodes = {} THEN [cyclic |-> FALSE, state |-> s.state]
    ELSE LET n == CHOOSE n \in s.nodes : TRUE
         IN  IF s.state[n] = 1 THEN [cyclic |-> TRUE, state |-> s.state]
             ELSE IF s.state[n] = 2 THEN Rest(g, s, n, s.state)
             ELSE LET below == Below(g, edges, s, n)
                  IN  IF below.cyclic THEN below
                      ELSE Rest(g, s, n, [below.state EXCEPT ![n] = 2])

\* someVisit is defined by visit if anything satisfies its equation.
LEMMA VisitIs ==
    ASSUME NEW edges, NEW g, g = [s \in VisitArg |-> VisitStep(g, edges, s)]
    PROVE  someVisit(edges) = [s \in VisitArg |-> VisitStep(someVisit(edges), edges, s)]
<1> DEFINE h == CHOOSE f : f = [s \in VisitArg |-> VisitStep(f, edges, s)]
<1>1. h = [s \in VisitArg |-> VisitStep(h, edges, s)]
  OBVIOUS
<1>2. h = someVisit(edges)
  BY DEF someVisit, VisitArg, VisitStep, Below, Rest
<1> QED
  BY <1>1, <1>2

\* What bounds the search: the codes not seen yet, then the nodes left to visit.
Unseen(state) == {c \in Code : state[c] = 0}

Size(s) == Cardinality(Unseen(s.state)) * (MaxCode + 1) + Cardinality(s.nodes)

LEMMA SetOfCodes ==
    ASSUME NEW S, S \subseteq Code
    PROVE  IsFiniteSet(S) /\ Cardinality(S) \in 0..MaxCode
<1>1. MaxCode \in Nat
  BY PlanningAssumption
<1>2. IsFiniteSet(Code) /\ Cardinality(Code) = MaxCode
  BY <1>1, FS_Interval DEF Code
<1>3. IsFiniteSet(S) /\ Cardinality(S) <= Cardinality(Code)
  BY <1>2, FS_Subset
<1>4. Cardinality(S) \in Nat
  BY <1>3, FS_CardinalityType
<1> QED
  BY <1>1, <1>2, <1>3, <1>4

\* Sizes are numbers below a bound, so that an induction on them ends.
LEMMA SizeIs ==
    ASSUME NEW s \in VisitArg
    PROVE  /\ Size(s) \in Nat
           /\ Size(s) < MaxCode * (MaxCode + 1) + MaxCode + 1
<1>1. MaxCode \in Nat
  BY PlanningAssumption
<1>2. Cardinality(Unseen(s.state)) \in 0..MaxCode
  BY SetOfCodes DEF Unseen
<1>3. Cardinality(s.nodes) \in 0..MaxCode
  BY SetOfCodes DEF VisitArg
<1>4. \A u \in 0..MaxCode : u * (MaxCode + 1) \in Nat
                            /\ u * (MaxCode + 1) <= MaxCode * (MaxCode + 1)
  BY <1>1
<1> QED
  BY <1>1, <1>2, <1>3, <1>4 DEF Size

\* The two calls that visit makes are smaller: the other nodes, when no code has
\* become unseen again, and the targets of a code that is now on the path.
LEMMA RestSmaller ==
    ASSUME NEW s \in VisitArg, NEW n \in s.nodes,
           NEW state \in [Code -> 0..2], Unseen(state) \subseteq Unseen(s.state)
    PROVE  LET r == [state |-> state, nodes |-> s.nodes \ {n}]
           IN  r \in VisitArg /\ Size(r) < Size(s)
<1> DEFINE r == [state |-> state, nodes |-> s.nodes \ {n}]
<1>1. MaxCode \in Nat /\ n \in Code /\ s.nodes \subseteq Code
  BY PlanningAssumption DEF VisitArg
<1>2. IsFiniteSet(Unseen(s.state)) /\ Cardinality(Unseen(s.state)) \in Nat
  BY SetOfCodes DEF Unseen
<1>3. Cardinality(Unseen(state)) <= Cardinality(Unseen(s.state))
  BY <1>2, FS_Subset
<1>4. Cardinality(Unseen(state)) \in Nat
  BY SetOfCodes DEF Unseen
<1>5. /\ IsFiniteSet(s.nodes) /\ Cardinality(s.nodes) \in Nat
      /\ Cardinality(s.nodes \ {n}) = Cardinality(s.nodes) - 1
  BY <1>1, SetOfCodes, FS_RemoveElement
<1>6. \A i, j \in Nat : i <= j => i * (MaxCode + 1) <= j * (MaxCode + 1)
  BY <1>1
<1>7. \A i, j, k \in Nat : i <= j /\ k # 0 => i + (k - 1) < j + k
  OBVIOUS
<1>8. Cardinality(s.nodes) # 0
  BY <1>5, <1>1, FS_EmptySet
<1>9. \A i \in Nat : i * (MaxCode + 1) \in Nat
  BY <1>1
<1>10. Cardinality(Unseen(state)) * (MaxCode + 1) + (Cardinality(s.nodes) - 1)
         < Cardinality(Unseen(s.state)) * (MaxCode + 1) + Cardinality(s.nodes)
  BY <1>2, <1>3, <1>4, <1>5, <1>6, <1>7, <1>8, <1>9
<1>11. r \in VisitArg
  BY <1>1 DEF VisitArg
<1> QED
  BY <1>5, <1>10, <1>11 DEF Size

LEMMA BelowSmaller ==
    ASSUME NEW edges, NEW s \in VisitArg, NEW n \in Code, s.state[n] = 0
    PROVE  LET r == [state |-> [s.state EXCEPT ![n] = 1], nodes |-> Targets(edges, n)]
           IN  /\ r \in VisitArg /\ Size(r) < Size(s)
               /\ Unseen(r.state) \subseteq Unseen(s.state)
<1> DEFINE marked == [s.state EXCEPT ![n] = 1]
           r == [state |-> marked, nodes |-> Targets(edges, n)]
<1>1. MaxCode \in Nat /\ s.state \in [Code -> 0..2]
  BY PlanningAssumption DEF VisitArg
<1>2. marked \in [Code -> 0..2] /\ Targets(edges, n) \subseteq Code
  BY <1>1 DEF Targets
<1>3. Unseen(marked) = Unseen(s.state) \ {n} /\ n \in Unseen(s.state)
  BY <1>1 DEF Unseen
<1>4. IsFiniteSet(Unseen(s.state)) /\ Cardinality(Unseen(s.state)) \in Nat
  BY SetOfCodes DEF Unseen
<1>5. Cardinality(Unseen(marked)) = Cardinality(Unseen(s.state)) - 1
  BY <1>3, <1>4, FS_RemoveElement
<1>6. Cardinality(Unseen(marked)) \in Nat
  BY SetOfCodes DEF Unseen
<1>7. Cardinality(Targets(edges, n)) \in 0..MaxCode
  BY <1>2, SetOfCodes
<1>8. Cardinality(s.nodes) \in Nat
  BY SetOfCodes DEF VisitArg
<1>9. \A i, k, m \in Nat : k <= MaxCode =>
         i * (MaxCode + 1) + k < (i + 1) * (MaxCode + 1) + m
  <2> TAKE i, k, m \in Nat
  <2>1. (i + 1) * (MaxCode + 1) = i * (MaxCode + 1) + (MaxCode + 1)
    BY <1>1
  <2>2. i * (MaxCode + 1) \in Nat
    BY <1>1
  <2> QED
    BY <1>1, <2>1, <2>2
<1>10. Cardinality(Unseen(s.state)) = Cardinality(Unseen(marked)) + 1
  BY <1>4, <1>5
<1>11. Cardinality(Unseen(marked)) * (MaxCode + 1) + Cardinality(Targets(edges, n))
         < Cardinality(Unseen(s.state)) * (MaxCode + 1) + Cardinality(s.nodes)
  BY <1>6, <1>7, <1>8, <1>9, <1>10
<1>12. r \in VisitArg
  BY <1>2 DEF VisitArg
<1> QED
  BY <1>3, <1>11, <1>12 DEF Size

\* What a call of visit has done is known to be right for all smaller calls.
SeesLess(s, r) == r \in VisitResult /\ Unseen(r.state) \subseteq Unseen(s.state)

\* Two functions that agree on all smaller calls give visit the same answer.
LEMMA VisitStepSame ==
    ASSUME NEW edges, NEW g, NEW h, NEW s \in VisitArg,
           \A r \in VisitArg : Size(r) < Size(s) => g[r] = h[r] /\ SeesLess(r, h[r])
    PROVE  /\ VisitStep(g, edges, s) = VisitStep(h, edges, s)
           /\ SeesLess(s, VisitStep(h, edges, s))
<1> DEFINE n == CHOOSE n \in s.nodes : TRUE
<1>0. s.state \in [Code -> 0..2] /\ s.nodes \subseteq Code
  BY DEF VisitArg
<1>1. CASE s.nodes = {}
  BY <1>0, <1>1 DEF VisitStep, SeesLess, VisitResult
<1>2. CASE s.nodes # {}
  <2> HIDE DEF n
  <2>0. n \in s.nodes /\ n \in Code
    BY <1>0, <1>2 DEF n
  <2>1. CASE s.state[n] = 1
    BY <1>0, <1>2, <2>1 DEF n, VisitStep, SeesLess, VisitResult
  <2>2. CASE s.state[n] = 2
    <3> DEFINE r == [state |-> s.state, nodes |-> s.nodes \ {n}]
    <3>1. r \in VisitArg /\ Size(r) < Size(s)
      BY <1>0, <2>0, RestSmaller
    <3>2. g[r] = h[r] /\ SeesLess(r, h[r])
      BY <3>1
    <3>3. VisitStep(g, edges, s) = g[r] /\ VisitStep(h, edges, s) = h[r]
      BY <1>2, <2>2 DEF n, VisitStep, Rest
    <3> QED
      BY <3>2, <3>3 DEF SeesLess
  <2>3. CASE s.state[n] = 0
    <3> DEFINE q == [state |-> [s.state EXCEPT ![n] = 1], nodes |-> Targets(edges, n)]
               below == h[q]
               after == [below.state EXCEPT ![n] = 2]
               r == [state |-> after, nodes |-> s.nodes \ {n}]
    <3>1. q \in VisitArg /\ Size(q) < Size(s) /\ Unseen(q.state) \subseteq Unseen(s.state)
      BY <2>0, <2>3, BelowSmaller
    <3> HIDE DEF q
    <3>2. g[q] = h[q] /\ SeesLess(q, below)
      BY <3>1
    <3>3. below \in VisitResult /\ Unseen(below.state) \subseteq Unseen(s.state)
      BY <3>1, <3>2 DEF SeesLess
    <3>4. /\ Below(g, edges, s, n) = below /\ Below(h, edges, s, n) = below
      BY <3>2 DEF q, Below
    <3> HIDE DEF below
    <3>5. after \in [Code -> 0..2] /\ Unseen(after) \subseteq Unseen(s.state)
      BY <3>3, <2>0 DEF VisitResult, Unseen
    <3> HIDE DEF after
    <3>6. r \in VisitArg /\ Size(r) < Size(s)
      BY <2>0, <3>5, RestSmaller
    <3>7. g[r] = h[r] /\ SeesLess(r, h[r])
      BY <3>6
    <3>8. SeesLess(s, h[r])
      BY <3>5, <3>7 DEF SeesLess
    <3>9. ASSUME NEW f, Below(f, edges, s, n) = below
          PROVE  VisitStep(f, edges, s) = IF below.cyclic THEN below ELSE f[r]
      <4>1. Rest(f, s, n, after) = f[r]
        BY DEF Rest
      <4>2. VisitStep(f, edges, s) = IF below.cyclic THEN below ELSE Rest(f, s, n, after)
        <5>1. s.state[n] # 1 /\ s.state[n] # 2
          BY <2>3
        <5> QED
          BY <1>2, <5>1, <3>9, Zenon DEF n, VisitStep, after
      <4> QED
        BY <4>1, <4>2
    <3>10. SeesLess(s, below)
      BY <3>3 DEF SeesLess
    <3> QED
      BY <3>4, <3>7, <3>8, <3>9, <3>10
  <2> QED
    BY <1>0, <2>0, <2>1, <2>2, <2>3
<1> QED
  BY <1>1, <1>2

\* g answers every call smaller than k as the definition of visit demands.
Answers(g, edges, k) ==
    \A s \in VisitArg : Size(s) < k =>
        g[s] = VisitStep(g, edges, s) /\ SeesLess(s, g[s])

LEMMA AnswersGrow ==
    ASSUME NEW edges, NEW k \in Nat, NEW g, Answers(g, edges, k)
    PROVE  Answers([s \in VisitArg |-> VisitStep(g, edges, s)], edges, k + 1)
<1> DEFINE h == [s \in VisitArg |-> VisitStep(g, edges, s)]
<1> SUFFICES ASSUME NEW s \in VisitArg, Size(s) < k + 1
             PROVE  h[s] = VisitStep(h, edges, s) /\ SeesLess(s, h[s])
  BY DEF Answers
<1>1. ASSUME NEW r \in VisitArg, Size(r) < Size(s)
      PROVE  h[r] = g[r] /\ SeesLess(r, g[r])
  <2>1. Size(r) < k
    BY <1>1, SizeIs
  <2> QED
    BY <2>1 DEF Answers
<1> HIDE DEF h
<1>2. /\ VisitStep(h, edges, s) = VisitStep(g, edges, s)
      /\ SeesLess(s, VisitStep(g, edges, s))
  BY <1>1, VisitStepSame
<1>3. h[s] = VisitStep(g, edges, s)
  BY DEF h
<1> QED
  BY <1>2, <1>3

\* Answers to calls of size 0, 1 and so on, each from those to smaller ones.
LEMMA AnswersExist ==
    ASSUME NEW edges, NEW k \in Nat
    PROVE  \E g : Answers(g, edges, k)
<1> DEFINE T == {i \in Nat : ~ \E g : Answers(g, edges, i)}
<1> SUFFICES ASSUME T # {} PROVE FALSE
  OBVIOUS
<1>1. PICK i \in T : \A j \in T : i <= j
  BY LeastNumber
<1>2. i # 0
  <2>1. \A s \in VisitArg : ~ (Size(s) < 0)
    BY SizeIs
  <2>2. \A g : Answers(g, edges, 0)
    BY <2>1 DEF Answers
  <2> QED
    BY <1>1, <2>2
<1>3. i - 1 \in Nat /\ i - 1 \notin T /\ (i - 1) + 1 = i
  BY <1>1, <1>2
<1>4. PICK g : Answers(g, edges, i - 1)
  BY <1>3
<1>5. Answers([s \in VisitArg |-> VisitStep(g, edges, s)], edges, i)
  BY <1>3, <1>4, AnswersGrow
<1> QED
  BY <1>1, <1>5

\* The recursion of visit is well founded: it defines an answer to every call.
LEMMA VisitDefined ==
    ASSUME NEW edges
    PROVE  \A s \in VisitArg :
              someVisit(edges)[s] = VisitStep(someVisit(edges), edges, s)
<1> DEFINE k == MaxCode * (MaxCode + 1) + MaxCode + 1
<1>1. k \in Nat
  BY PlanningAssumption
<1>2. \A s \in VisitArg : Size(s) < k
  BY SizeIs
<1> HIDE DEF k
<1>3. PICK f : Answers(f, edges, k)
  BY <1>1, AnswersExist
<1> DEFINE g == [s \in VisitArg |-> VisitStep(f, edges, s)]
<1>4. \A s \in VisitArg : g[s] = f[s] /\ SeesLess(s, f[s]) /\ f[s] = VisitStep(f, edges, s)
  BY <1>2, <1>3 DEF Answers
<1> HIDE DEF g
<1>5. \A s \in VisitArg : VisitStep(g, edges, s) = VisitStep(f, edges, s)
  BY <1>4, VisitStepSame
<1>6. g = [s \in VisitArg |-> VisitStep(g, edges, s)]
  BY <1>5 DEF g
<1>7. someVisit(edges) = [s \in VisitArg |-> VisitStep(someVisit(edges), edges, s)]
  BY <1>6, VisitIs
<1> QED
  BY <1>7
Closed(edges, T) == \A m \in T : Targets(edges, m) \subseteq T

\* The codes at the end of a path of dependencies that starts at c.
Following(edges, c) ==
    {m \in Code : \A T \in SUBSET Code :
        Closed(edges, T) /\ Targets(edges, c) \subseteq T => m \in T}

LEMMA FollowingTargets ==
    ASSUME NEW edges, NEW c, NEW n \in Code,
           n \in Following(edges, c) \/ n = c
    PROVE  Targets(edges, n) \subseteq Following(edges, c)
  BY DEF Following, Closed, Targets

Done(state) == {c \in Code : state[c] = 2}

\* What is done leads to what is done, and not back to itself.
Sorted(edges, state) ==
    \A c \in Done(state) : /\ Targets(edges, c) \subseteq Done(state)
                           /\ c \notin Following(edges, c)

Kept(s, r) ==
    /\ r.state \in [Code -> 0..2]
    /\ \A c \in Code : /\ s.state[c] = 1 <=> r.state[c] = 1
                       /\ s.state[c] = 2 => r.state[c] = 2
    /\ s.nodes \subseteq Done(r.state)

\* The nodes to visit follow everything that is on the path.
OnPath(edges, s) == \A c \in Code : s.state[c] = 1 => s.nodes \subseteq Following(edges, c)

\* What the answer r to the call s of visit means.
Means(edges, s, r) ==
    /\ r.cyclic \in BOOLEAN
    /\ ~r.cyclic => Kept(s, r) /\ (Sorted(edges, s.state) => Sorted(edges, r.state))
    /\ r.cyclic /\ OnPath(edges, s) => \E c \in Code : c \in Following(edges, c)

\* If the calls that visit makes answer rightly, it does: a code is done when all
\* its targets are, and none of them, nor what follows them, leads back to it.
LEMMA StepMeans ==
    ASSUME NEW edges, NEW s \in VisitArg, NEW g,
           \A r \in VisitArg : Size(r) < Size(s) => Means(edges, r, g[r])
    PROVE  Means(edges, s, VisitStep(g, edges, s))
<1> DEFINE n == CHOOSE n \in s.nodes : TRUE
<1>0. s.state \in [Code -> 0..2] /\ s.nodes \subseteq Code
  BY DEF VisitArg
<1>1. CASE s.nodes = {}
  <2>1. VisitStep(g, edges, s) = [cyclic |-> FALSE, state |-> s.state]
    BY <1>1 DEF VisitStep
  <2> QED
    BY <1>0, <1>1, <2>1 DEF Means, Kept
<1>2. CASE s.nodes # {}
  <2> HIDE DEF n
  <2>0. n \in s.nodes /\ n \in Code
    BY <1>0, <1>2 DEF n
  <2>1. CASE s.state[n] = 1
    <3>1. VisitStep(g, edges, s) = [cyclic |-> TRUE, state |-> s.state]
      BY <1>2, <2>1 DEF n, VisitStep
    <3>2. OnPath(edges, s) => n \in Following(edges, n)
      BY <2>0, <2>1 DEF OnPath
    <3> QED
      BY <2>0, <3>1, <3>2 DEF Means
  <2>2. CASE s.state[n] = 2
    <3> DEFINE r == [state |-> s.state, nodes |-> s.nodes \ {n}]
    <3>1. r \in VisitArg /\ Size(r) < Size(s)
      BY <1>0, <2>0, RestSmaller
    <3>2. Means(edges, r, g[r])
      BY <3>1
    <3>3. VisitStep(g, edges, s) = g[r]
      BY <1>2, <2>2 DEF n, VisitStep, Rest
    <3>4. OnPath(edges, s) => OnPath(edges, r)
      BY DEF OnPath
    <3>5. Kept(r, g[r]) => Kept(s, g[r])
      BY <2>0, <2>2 DEF Kept, Done
    <3> QED
      BY <3>2, <3>3, <3>4, <3>5 DEF Means
  <2>3. CASE s.state[n] = 0
    <3> DEFINE q == [state |-> [s.state EXCEPT ![n] = 1], nodes |-> Targets(edges, n)]
               below == g[q]
               after == [below.state EXCEPT ![n] = 2]
               r == [state |-> after, nodes |-> s.nodes \ {n}]
    <3>1. q \in VisitArg /\ Size(q) < Size(s)
      BY <2>0, <2>3, BelowSmaller
    <3>2. Means(edges, q, below)
      BY <3>1
    <3>3. VisitStep(g, edges, s) = IF below.cyclic THEN below ELSE g[r]
      <4>1. s.state[n] # 1 /\ s.state[n] # 2
        BY <2>3
      <4> QED
        BY <1>2, <4>1, Zenon DEF n, VisitStep, Below, Rest
    <3>4. OnPath(edges, s) => OnPath(edges, q)
      <4> SUFFICES ASSUME OnPath(edges, s), NEW c \in Code, q.state[c] = 1
                   PROVE  Targets(edges, n) \subseteq Following(edges, c)
        BY DEF OnPath
      <4>1. CASE c = n
        BY <2>0, <4>1, FollowingTargets
      <4>2. CASE c # n
        <5>1. s.state[c] = 1
          BY <1>0, <4>2
        <5>2. n \in Following(edges, c)
          BY <2>0, <5>1 DEF OnPath
        <5> QED
          BY <2>0, <5>2, FollowingTargets
      <4> QED
        BY <4>1, <4>2
    <3>5. CASE below.cyclic
      BY <3>2, <3>3, <3>4, <3>5 DEF Means
    <3>6. CASE ~below.cyclic
      <4>1. Kept(q, below)
        BY <3>2, <3>6 DEF Means
      <4>2. /\ below.state \in [Code -> 0..2]
            /\ \A c \in Code : c # n => /\ s.state[c] = 1 <=> below.state[c] = 1
                                        /\ s.state[c] = 2 => below.state[c] = 2
            /\ below.state[n] = 1
            /\ Targets(edges, n) \subseteq Done(below.state)
        BY <1>0, <2>0, <4>1 DEF Kept
      <4>3. Sorted(edges, s.state) => Sorted(edges, below.state)
        <5>1. Done(q.state) = Done(s.state)
          BY <1>0, <2>0, <2>3 DEF Done
        <5>2. Sorted(edges, s.state) => Sorted(edges, q.state)
          BY <5>1 DEF Sorted
        <5> QED
          BY <3>2, <3>6, <5>2 DEF Means
      <4> HIDE DEF below
      <4>4. after \in [Code -> 0..2] /\ after[n] = 2
            /\ \A c \in Code : c # n => after[c] = below.state[c]
        BY <2>0, <4>2
      <4>5. Done(after) = Done(below.state) \cup {n} /\ n \notin Done(below.state)
        BY <2>0, <4>2, <4>4 DEF Done
      <4> HIDE DEF after
      <4>6. Sorted(edges, s.state) => Sorted(edges, after)
        <5> SUFFICES ASSUME Sorted(edges, below.state) PROVE Sorted(edges, after)
          BY <4>3
        <5>1. Closed(edges, Done(below.state)) /\ Done(below.state) \in SUBSET Code
          BY DEF Sorted, Closed, Done
        <5>2. n \notin Following(edges, n)
          BY <4>2, <4>5, <5>1 DEF Following
        <5> QED
          BY <4>2, <4>5, <5>2 DEF Sorted
      <4>7. Unseen(after) \subseteq Unseen(s.state)
        BY <1>0, <2>0, <4>2, <4>4 DEF Unseen
      <4>8. r \in VisitArg /\ Size(r) < Size(s)
        BY <2>0, <4>4, <4>7, RestSmaller
      <4>9. Means(edges, r, g[r])
        BY <4>8
      <4>10. OnPath(edges, s) => OnPath(edges, r)
        BY <1>0, <2>3, <4>2, <4>4 DEF OnPath
      <4>11. Kept(r, g[r]) => Kept(s, g[r])
        <5> DEFINE z == g[r].state
        <5> SUFFICES ASSUME Kept(r, g[r]) PROVE Kept(s, g[r])
          OBVIOUS
        <5>1. /\ z \in [Code -> 0..2]
              /\ \A c \in Code : (after[c] = 1 <=> z[c] = 1) /\ (after[c] = 2 => z[c] = 2)
              /\ s.nodes \ {n} \subseteq Done(z)
          BY DEF Kept
        <5> HIDE DEF z
        <5>2. z[n] = 2 /\ n \in Done(z)
          BY <2>0, <4>4, <5>1 DEF Done
        <5>3. \A c \in Code : (s.state[c] = 1 <=> z[c] = 1) /\ (s.state[c] = 2 => z[c] = 2)
          BY <2>3, <4>2, <4>4, <5>1, <5>2
        <5>4. s.nodes \subseteq Done(z)
          BY <5>1, <5>2
        <5> QED
          BY <5>1, <5>3, <5>4 DEF Kept, z
      <4> QED
        BY <3>3, <3>6, <4>6, <4>9, <4>10, <4>11 DEF Means
    <3> QED
      BY <3>5, <3>6
  <2> QED
    BY <1>0, <2>0, <2>1, <2>2, <2>3
<1> QED
  BY <1>1, <1>2

LEMMA VisitMeans ==
    ASSUME NEW edges, NEW s \in VisitArg
    PROVE  Means(edges, s, someVisit(edges)[s])
<1> DEFINE g == someVisit(edges)
           Bad == {x \in VisitArg : ~Means(edges, x, g[x])}
           T == {Size(x) : x \in Bad}
<1> HIDE DEF g
<1> SUFFICES ASSUME Bad # {} PROVE FALSE
  BY DEF g
<1>1. T \subseteq Nat /\ T # {}
  BY SizeIs
<1>2. PICK t \in T : \A y \in T : t <= y
  BY <1>1, LeastNumber
<1>3. PICK x \in Bad : t = Size(x)
  OBVIOUS
<1>4. \A r \in VisitArg : Size(r) < Size(x) => Means(edges, r, g[r])
  <2> SUFFICES ASSUME NEW r \in VisitArg, Size(r) < Size(x), r \in Bad PROVE FALSE
    OBVIOUS
  <2>1. Size(x) <= Size(r)
    BY <1>2, <1>3
  <2> QED
    BY <2>1, SizeIs
<1>5. Means(edges, x, VisitStep(g, edges, x))
  BY <1>4, StepMeans
<1>6. g[x] = VisitStep(g, edges, x)
  BY VisitDefined DEF g
<1> QED
  BY <1>3, <1>5, <1>6

\* A graph passes exactly if none of its items follows itself.
LEMMA GraphPasses ==
    ASSUME NEW items, items \subseteq Code, NEW edges
    PROVE  validateDependencyGraph(items, edges) <=>
              /\ edges \subseteq items \X items
              /\ \A c \in items : c \notin Following(edges, c)
<1> DEFINE s == [state |-> [c \in Code |-> 0], nodes |-> items]
           r == someVisit(edges)[s]
<1>1. s \in VisitArg
  BY DEF VisitArg
<1>2. Means(edges, s, r)
  BY <1>1, VisitMeans
<1>3. Sorted(edges, s.state) /\ OnPath(edges, s)
  BY DEF Sorted, Done, OnPath
<1> HIDE DEF r
<1>4. ~r.cyclic => \A c \in items : c \notin Following(edges, c)
  BY <1>2, <1>3 DEF Means, Kept, Sorted
<1>5. r.cyclic /\ edges \subseteq items \X items => \E c \in items : c \in Following(edges, c)
  <2> SUFFICES ASSUME edges \subseteq items \X items,
                      NEW c \in Code, c \in Following(edges, c)
               PROVE  c \in items
    BY <1>2, <1>3 DEF Means
  <2>1. Closed(edges, items) /\ Targets(edges, c) \subseteq items /\ items \in SUBSET Code
    BY DEF Closed, Targets
  <2> QED
    BY <2>1 DEF Following
<1>6. edges \subseteq items \X items /\ (\A c \in items : c \notin Following(edges, c))
        => \A e \in edges : e[1] # e[2]
  BY DEF Following, Targets
<1>7. r.cyclic \in BOOLEAN
  BY <1>2 DEF Means
<1>8. validateDependencyGraph(items, edges) <=>
         /\ edges \subseteq items \X items /\ \A e \in edges : e[1] # e[2]
         /\ ~r.cyclic
  BY DEF validateDependencyGraph, r
<1> QED
  BY <1>4, <1>5, <1>6, <1>7, <1>8
\* One more step along the dependencies, from what n - 1 steps reach.
Further(g, edges, c, n) ==
    IF n = 0 THEN Targets(edges, c)
    ELSE g[n - 1] \cup UNION {Targets(edges, m) : m \in g[n - 1]}

\* The same for the recursion of Reachable, along the number of steps.
LEMMA FurtherDefined ==
    ASSUME NEW edges, NEW c
    PROVE  \E g : /\ g = [n \in 0..MaxCode |-> Further(g, edges, c, n)]
                  /\ Reachable(edges, c) = g[MaxCode]
<1>0. MaxCode \in Nat
  BY PlanningAssumption
<1> DEFINE Partial(g, i) == \A n \in 0..MaxCode : n < i => g[n] = Further(g, edges, c, n)
           T == {i \in Nat : ~ \E g : Partial(g, i)}
<1>1. ASSUME NEW g, NEW i \in Nat, Partial(g, i)
      PROVE  Partial([n \in 0..MaxCode |-> Further(g, edges, c, n)], i + 1)
  <2> DEFINE h == [n \in 0..MaxCode |-> Further(g, edges, c, n)]
  <2> SUFFICES ASSUME NEW n \in 0..MaxCode, n < i + 1
               PROVE  h[n] = Further(h, edges, c, n)
    OBVIOUS
  <2>1. n # 0 => n - 1 \in 0..MaxCode /\ n - 1 < i
    BY <1>0
  <2>2. n # 0 => h[n - 1] = g[n - 1]
    BY <1>1, <2>1
  <2>3. h[n] = Further(g, edges, c, n)
    OBVIOUS
  <2> HIDE DEF h
  <2> QED
    BY <2>2, <2>3 DEF Further
<1>2. \A g : Partial(g, 0)
  BY <1>0
<1>3. T = {}
  <2> SUFFICES ASSUME T # {} PROVE FALSE
    OBVIOUS
  <2>1. PICK i \in T : \A j \in T : i <= j
    BY LeastNumber
  <2>2. i # 0
    BY <1>2, <2>1
  <2>3. i - 1 \in Nat /\ i - 1 \notin T /\ (i - 1) + 1 = i
    BY <2>1, <2>2
  <2>4. PICK g : Partial(g, i - 1)
    BY <2>3
  <2> HIDE DEF Partial
  <2>5. \E h : Partial(h, i)
    BY <1>1, <2>3, <2>4
  <2> QED
    BY <2>1, <2>5
<1>4. PICK f : Partial(f, MaxCode + 1)
  BY <1>0, <1>3
<1> DEFINE g == [n \in 0..MaxCode |-> Further(f, edges, c, n)]
<1>5. g = [n \in 0..MaxCode |-> Further(g, edges, c, n)]
  <2>1. \A n \in 0..MaxCode : g[n] = f[n]
    BY <1>0, <1>4
  <2> SUFFICES ASSUME NEW n \in 0..MaxCode
               PROVE  Further(f, edges, c, n) = Further(g, edges, c, n)
    OBVIOUS
  <2>2. n # 0 => n - 1 \in 0..MaxCode
    BY <1>0
  <2>3. n # 0 => g[n - 1] = f[n - 1]
    BY <2>1, <2>2
  <2> HIDE DEF g
  <2> QED
    BY <2>3 DEF Further
<1> HIDE DEF g
<1> DEFINE s == CHOOSE x : x = [n \in 0..MaxCode |-> Further(x, edges, c, n)]
<1>6. s = [n \in 0..MaxCode |-> Further(s, edges, c, n)]
  BY <1>5
<1>7. Reachable(edges, c) = s[MaxCode]
  BY DEF Reachable, Further
<1> QED
  BY <1>6, <1>7

\* As many steps as there are codes reach all that follows: each step finds
\* another code, or there is none to be found.
LEMMA ReachableFollows ==
    ASSUME NEW edges, NEW c \in Code
    PROVE  Reachable(edges, c) = Following(edges, c)
<1>0. MaxCode \in Nat
  BY PlanningAssumption
<1>1. PICK g : /\ g = [n \in 0..MaxCode |-> Further(g, edges, c, n)]
               /\ Reachable(edges, c) = g[MaxCode]
  BY FurtherDefined
<1>2. /\ g[0] = Targets(edges, c)
      /\ \A n \in 1..MaxCode : 
            g[n] = g[n - 1] \cup UNION {Targets(edges, m) : m \in g[n - 1]}
  <2>1. \A n \in 0..MaxCode : g[n] = Further(g, edges, c, n)
    BY <1>1
  <2>2. 0 \in 0..MaxCode /\ \A n \in 1..MaxCode : n \in 0..MaxCode /\ n # 0
    BY <1>0
  <2> QED
    BY <2>1, <2>2, Zenon DEF Further
<1> DEFINE Right(n) == /\ g[n] \subseteq Following(edges, c)
                       /\ Targets(edges, c) \subseteq g[n]
                       /\ Closed(edges, g[n]) \/ Cardinality(g[n]) > n
           T == {n \in 0..MaxCode : ~Right(n)}
<1>3. Right(0)
  <2>1. g[0] \subseteq Following(edges, c) /\ g[0] \subseteq Code
    BY <1>2, FollowingTargets DEF Targets
  <2>2. IsFiniteSet(g[0]) /\ Cardinality(g[0]) \in Nat
    BY <2>1, SetOfCodes
  <2>3. g[0] = {} => Closed(edges, g[0])
    BY DEF Closed
  <2>4. g[0] # {} => Cardinality(g[0]) > 0
    BY <2>2, FS_EmptySet
  <2> QED
    BY <1>2, <2>1, <2>3, <2>4
<1>4. ASSUME NEW n \in 1..MaxCode, Right(n - 1)
      PROVE  Right(n)
  <2>1. g[n - 1] \subseteq g[n]
    BY <1>2
  <2>2. g[n] \subseteq Following(edges, c)
    <3>1. \A m \in g[n - 1] : m \in Code /\ Targets(edges, m) \subseteq Following(edges, c)
      BY <1>4, FollowingTargets DEF Following
    <3> QED
      BY <1>2, <1>4, <3>1
  <2>3. CASE Closed(edges, g[n - 1])
    <3>1. g[n] = g[n - 1]
      <4>1. UNION {Targets(edges, m) : m \in g[n - 1]} \subseteq g[n - 1]
        BY <2>3 DEF Closed
      <4> QED
        BY <1>2, <4>1
    <3> QED
      BY <1>4, <2>3, <3>1, Zenon
  <2>4. CASE ~Closed(edges, g[n - 1])
    <3>1. Cardinality(g[n - 1]) > n - 1
      BY <1>4, <2>4
    <3>2. g[n - 1] # g[n]
      BY <1>2, <2>4 DEF Closed
    <3>3. g[n] \subseteq Code
      BY <2>2 DEF Following
    <3>4. IsFiniteSet(g[n]) /\ Cardinality(g[n]) \in Nat /\ Cardinality(g[n - 1]) \in Nat
      BY <2>1, <3>3, SetOfCodes
    <3>5. Cardinality(g[n - 1]) < Cardinality(g[n])
      BY <2>1, <3>2, <3>4, FS_Subset
    <3>6. Cardinality(g[n]) > n
      BY <3>1, <3>4, <3>5
    <3> QED
      BY <1>4, <2>1, <2>2, <3>6
  <2> QED
    BY <2>3, <2>4
<1>5. T = {}
  <2> SUFFICES ASSUME T # {} PROVE FALSE
    OBVIOUS
  <2> HIDE DEF Right
  <2>0. T \subseteq Nat
    BY <1>0
  <2>1. PICK n \in T : \A j \in T : n <= j
    BY <2>0, LeastNumber
  <2>2. n \in 1..MaxCode
    BY <1>0, <1>3, <2>1
  <2>3. Right(n - 1)
    BY <1>0, <2>1, <2>2
  <2> QED
    BY <1>4, <2>1, <2>2, <2>3
<1>6. Right(MaxCode)
  BY <1>0, <1>5
<1>7. g[MaxCode] \in SUBSET Code
  BY <1>6 DEF Following
<1>8. Closed(edges, g[MaxCode])
  <2>1. Cardinality(g[MaxCode]) \in 0..MaxCode
    BY <1>7, SetOfCodes
  <2> QED
    BY <1>0, <1>6, <2>1
<1>9. Following(edges, c) \subseteq g[MaxCode]
  BY <1>6, <1>7, <1>8 DEF Following
<1> QED
  BY <1>1, <1>6, <1>9

\* validateDependencyGraph accepts a graph exactly if its dependencies are
\* between its items and no item depends, over any number of others, on itself.
THEOREM GraphCheckExact ==
    ASSUME NEW items, items \subseteq Code, NEW edges
    PROVE  validateDependencyGraph(items, edges) <=>
              /\ edges \subseteq items \X items
              /\ \A c \in items : c \notin Reachable(edges, c)
  BY GraphPasses, ReachableFollows

\* Without some of the dependencies no more is reached.
LEMMA FewerDependencies ==
    ASSUME NEW edges, NEW fewer, fewer \subseteq edges, NEW c \in Code
    PROVE  Reachable(fewer, c) \subseteq Reachable(edges, c)
<1>1. \A m : Targets(fewer, m) \subseteq Targets(edges, m)
  BY DEF Targets
<1>2. Following(fewer, c) \subseteq Following(edges, c)
  BY <1>1 DEF Following, Closed
<1> QED
  BY <1>2, ReachableFollows

\* A code outside the dependencies is not reached.
LEMMA NotReached ==
    ASSUME NEW items, items \subseteq Code, NEW edges, edges \subseteq items \X items,
           NEW c \in Code, c \notin items
    PROVE  c \notin Reachable(edges, c)
<1>1. Targets(edges, c) = {} /\ Closed(edges, {})
  BY DEF Targets, Closed
<1>2. c \notin Following(edges, c)
  BY <1>1 DEF Following
<1> QED
  BY <1>2, ReachableFollows

-----------------------------------------------------------------------------
(***************************************************************************)
(* What stays                                                              *)
(***************************************************************************)

Grows ==
    /\ approved \subseteq approved'
    /\ \A k \in Kind : /\ DOMAIN doc[k] \subseteq DOMAIN doc'[k]
                       /\ \A v \in DOMAIN doc[k] : doc'[k][v] = doc[k][v]
    /\ \A v \in DOMAIN doc["board"] : review[v].submitted => review'[v].submitted

LEMMA GrowsFrame == UNCHANGED <<doc, approved, review>> => Grows
BY DEF Grows

\* What is right before the step is right after it.
LEMMA RowsKept ==
    ASSUME PlanningInv, Grows
    PROVE  /\ \A row : SetBasis(row) => SetBasis(row)'
           /\ \A row : BoardBasis(row) => BoardBasis(row)'
           /\ \A row : BoardRevises(row) => BoardRevises(row)'
           /\ \A row : ReportOK(row) => ReportOK(row)'
           /\ \A c : CallOK(c) => CallOK(c)'
<1>k. {"brief", "design", "set", "board"} = Kind
  BY DEF Kind
<1>1. ASSUME NEW row, SetBasis(row) PROVE SetBasis(row)'
  BY <1>1 DEF Grows, SetBasis
<1>2. ASSUME NEW row, BoardBasis(row) PROVE BoardBasis(row)'
  BY <1>2 DEF Grows, BoardBasis
<1>3. ASSUME NEW row, BoardRevises(row) PROVE BoardRevises(row)'
  BY <1>3, <1>k DEF Grows, BoardRevises
<1>4. ASSUME NEW row, ReportOK(row) PROVE ReportOK(row)'
  <2>1. row.baseline \in DOMAIN doc["set"]
    <3>1. <<"set", row.baseline>>[1] = "set" /\ <<"set", row.baseline>>[2] = row.baseline
      OBVIOUS
    <3> QED
      BY <1>4, <3>1 DEF ReportOK, PlanningInv, ApprovedInv
  <2>2. doc'["set"][row.baseline] = doc["set"][row.baseline]
    BY <2>1, <1>k DEF Grows
  <2>3. <<"set", row.baseline>> \in approved'
    BY <1>4 DEF ReportOK, Grows
  <2> QED
    BY <1>4, <2>2, <2>3 DEF ReportOK
<1>5. ASSUME NEW c, VerdictOK(c) PROVE VerdictOK(c)'
  BY <1>5, <1>k DEF VerdictOK, Grows
<1>6. ASSUME NEW c, InsertOK(c) PROVE InsertOK(c)'
  BY <1>1, <1>2, <1>3, <1>6 DEF InsertOK, Grows
<1> QED
  BY <1>1, <1>2, <1>3, <1>4, <1>5, <1>6 DEF CallOK

\* What a step that adds no version contributes.
LEMMA DocFrame ==
    ASSUME PlanningInv, Grows, UNCHANGED doc
    PROVE  DocsInv' /\ SetsInv' /\ BoardsInv'
<1>1. DocsInv'
  BY DEF PlanningInv, DocsInv
<1>2. SetsInv'
  BY RowsKept DEF PlanningInv, SetsInv
<1>3. BoardsInv'
  BY RowsKept DEF PlanningInv, BoardsInv
<1> QED
  BY <1>1, <1>2, <1>3

LEMMA ReportFrame ==
    ASSUME PlanningInv, Grows, UNCHANGED report
    PROVE  ReportsInv'
BY RowsKept DEF PlanningInv, ReportsInv

LEMMA ReviewFrame ==
    ASSUME PlanningInv, UNCHANGED <<doc, review>>
    PROVE  ReviewsInv'
BY DEF PlanningInv, ReviewsInv, ReviewsRecorded

LEMMA ApprovedFrame ==
    ASSUME PlanningInv, Grows, UNCHANGED approved
    PROVE  ApprovedInv'
<1> SUFFICES ASSUME NEW a \in approved
             PROVE  /\ a = <<a[1], a[2]>> /\ a[1] \in {"design", "set"}
                    /\ a[2] \in DOMAIN doc'[a[1]]
  BY DEF ApprovedInv
<1>1. /\ a = <<a[1], a[2]>> /\ a[1] \in {"design", "set"}
      /\ a[2] \in DOMAIN doc[a[1]]
  BY DEF PlanningInv, ApprovedInv
<1>2. a[1] \in Kind
  BY <1>1 DEF Kind
<1>3. DOMAIN doc[a[1]] \subseteq DOMAIN doc'[a[1]]
  BY <1>2 DEF Grows
<1> QED
  BY <1>1, <1>3

\* One call changes, to one that is right.
LEMMA CallWritten ==
    ASSUME PlanningInv, Grows, NEW p \in Proc, NEW c, call' = [call EXCEPT ![p] = c],
           call'[p] = c => CallOK(c)'
    PROVE  CallsInv'
<1>1. call = [q \in Proc |-> call[q]] /\ \A q \in Proc : CallOK(call[q])
  BY DEF PlanningInv, CallsInv
<1>2. call'[p] = c /\ \A q \in Proc \ {p} : call'[q] = call[q]
  BY <1>1
<1>3. call' = [q \in Proc |-> call'[q]]
  BY <1>1
<1>4. \A q \in Proc \ {p} : CallOK(call[q])'
  BY <1>1, RowsKept, <1>2
<1> QED
  BY <1>2, <1>3, <1>4 DEF CallsInv

-----------------------------------------------------------------------------
(***************************************************************************)
(* Adding a version                                                        *)
(***************************************************************************)

LEMMA Prepared ==
    ASSUME PlanningInv, NEW p \in Proc, NEW kind \in Kind, NEW content, NEW reportId,
           Prepare(p, kind, content, reportId),
           kind = "set" => SetOK(content) /\ SetBasis(content),
           kind = "board" => BoardBasis(content) /\ BoardRevises(content)
    PROVE  PlanningInv'
<1> DEFINE c == [op |-> "insert", kind |-> kind, content |-> content, report |-> reportId,
                 version |-> 0]
<1>1. call' = [call EXCEPT ![p] = c] /\ UNCHANGED <<doc, approved, report, review>>
  BY DEF Prepare
<1>2. Grows
  BY <1>1, GrowsFrame
<1>3. InsertOK(c)
  <2>1. MaxVersion[kind] \in Nat
    BY PlanningAssumption
  <2>2. c = [op |-> "insert", kind |-> c.kind, content |-> c.content, report |-> c.report,
             version |-> c.version]
    OBVIOUS
  <2>3. c.kind = kind /\ c.content = content /\ c.version = 0
    OBVIOUS
  <2> HIDE DEF c
  <2> QED
    BY <2>1, <2>2, <2>3 DEF InsertOK
<1>4. CallOK(c)'
  <2>1. \A d : CallOK(d) => CallOK(d)'
    BY <1>2, RowsKept
  <2>2. CallOK(c)
    BY <1>3 DEF CallOK
  <2> HIDE DEF c
  <2> QED
    BY <2>1, <2>2
<1> HIDE DEF c
<1>5. CallsInv'
  BY <1>1, <1>2, <1>4, CallWritten
<1> QED
  BY <1>1, <1>2, <1>5, DocFrame, ReportFrame, ReviewFrame, ApprovedFrame DEF PlanningInv

LEMMA ReadLatestStep ==
    ASSUME PlanningInv, NEW p \in Proc, ReadLatest(p)
    PROVE  PlanningInv'
<1> DEFINE c == call[p]
           version == Largest(DOMAIN doc[c.kind]) + 1
           new == [op |-> "insert", kind |-> c.kind, content |-> c.content,
                   report |-> c.report, version |-> version]
<1>1. /\ c.op = "insert" /\ c.version = 0 /\ version <= MaxVersion[c.kind]
      /\ call' = [call EXCEPT ![p].version = version]
      /\ UNCHANGED <<doc, approved, report, review>>
  BY DEF ReadLatest
<1>2. InsertOK(c)
  BY <1>1 DEF PlanningInv, CallsInv, CallOK, Idle, VerdictOK, Verdict
<1>3. c.kind \in Kind /\ MaxVersion[c.kind] \in Nat
  BY <1>2, PlanningAssumption DEF InsertOK
<1>4. PICK n \in 0..MaxVersion[c.kind] : DOMAIN doc[c.kind] = 1..n
  BY <1>3 DEF PlanningInv, DocsInv
<1>5. n \in Nat /\ version = n + 1
  BY <1>3, <1>4, LargestOfAll
<1>6. call' = [call EXCEPT ![p] = new]
  <2>1. call[p] = [op |-> "insert", kind |-> c.kind, content |-> c.content,
                   report |-> c.report, version |-> c.version]
    BY <1>2 DEF InsertOK
  <2>2. [call[p] EXCEPT !.version = version] = new
    <3> HIDE DEF version
    <3> QED
      BY <2>1
  <2>3. call' = [call EXCEPT ![p] = [call[p] EXCEPT !.version = version]]
    BY <1>1, Zenon
  <2> QED
    BY <2>2, <2>3, Zenon
<1>7. InsertOK(new)
  <2>1. /\ new.kind = c.kind /\ new.content = c.content /\ new.version = version
        /\ new = [op |-> "insert", kind |-> new.kind, content |-> new.content,
                  report |-> new.report, version |-> new.version]
    OBVIOUS
  <2>2. \A w \in 1..MaxVersion[c.kind] : w < version => w \in DOMAIN doc[c.kind]
    <3> HIDE DEF version
    <3> QED
      BY <1>3, <1>4, <1>5
  <2>3. version \in 0..MaxVersion[c.kind]
    <3>1. version <= MaxVersion[c.kind]
      BY <1>1
    <3> HIDE DEF version
    <3> QED
      BY <1>3, <1>5, <3>1
  <2> HIDE DEF new, version
  <2> QED
    BY <1>2, <2>1, <2>2, <2>3 DEF InsertOK
<1>8. Grows
  BY <1>1, GrowsFrame
<1> HIDE DEF new, version, c
<1>9. \A d : CallOK(d) => CallOK(d)'
  BY <1>8, RowsKept
<1>10. call'[p] = new => CallOK(call[p])'
  BY <1>7, <1>9 DEF CallOK
<1>11. CallsInv'
  <2>1. call = [q \in Proc |-> call[q]] /\ \A q \in Proc : CallOK(call[q])
    BY DEF PlanningInv, CallsInv
  <2>2. call'[p] = new /\ \A q \in Proc \ {p} : call'[q] = call[q]
    BY <1>6, <2>1
  <2>3. call' = [q \in Proc |-> call'[q]]
    BY <1>6, <2>1
  <2> QED
    BY <1>9, <1>10, <2>1, <2>2, <2>3 DEF CallsInv
<1> QED
  BY <1>1, <1>8, <1>11, DocFrame, ReportFrame, ReviewFrame, ApprovedFrame DEF PlanningInv

\* The versions below the new one exist and it does not: it is the next.
LEMMA NextVersion ==
    ASSUME PlanningInv, NEW p \in Proc, call[p].op = "insert", call[p].version # 0,
           VersionFree(call[p].kind, call[p].version)
    PROVE  /\ InsertOK(call[p])
           /\ \E n \in Nat : /\ DOMAIN doc[call[p].kind] = 1..n
                             /\ call[p].version = n + 1
                             /\ n + 1 \in 1..MaxVersion[call[p].kind]
<1> DEFINE kind == call[p].kind
           version == call[p].version
<1>1. InsertOK(call[p])
  BY DEF PlanningInv, CallsInv, CallOK, Idle, VerdictOK, Verdict
<1>2. /\ kind \in Kind /\ MaxVersion[kind] \in Nat
      /\ version \in 1..MaxVersion[kind]
      /\ \A w \in 1..MaxVersion[kind] : w < version => w \in DOMAIN doc[kind]
      /\ version \notin DOMAIN doc[kind]
  BY <1>1, PlanningAssumption DEF InsertOK, VersionFree
<1>3. PICK n \in 0..MaxVersion[kind] : DOMAIN doc[kind] = 1..n
  BY <1>2 DEF PlanningInv, DocsInv
<1> HIDE DEF kind, version
<1>4. n \in Nat /\ version \in Nat /\ version >= 1 /\ n <= MaxVersion[kind]
  BY <1>2, <1>3
<1>5. version > n
  BY <1>2, <1>3, <1>4
<1>6. ~ (version > n + 1)
  BY <1>2, <1>3, <1>4
<1>7. version = n + 1 /\ n + 1 \in 1..MaxVersion[kind]
  BY <1>2, <1>4, <1>5, <1>6
<1> QED
  BY <1>1, <1>3, <1>4, <1>7 DEF kind, version

\* The row is inserted as the next version; nothing else of the tables changes.
LEMMA Inserted ==
    ASSUME PlanningInv, NEW p \in Proc, CommitVersion(p)
    PROVE  /\ InsertOK(call[p])
           /\ \E n \in Nat :
                 /\ DOMAIN doc[call[p].kind] = 1..n
                 /\ n + 1 \in 1..MaxVersion[call[p].kind]
                 /\ call[p].version = n + 1
                 /\ DOMAIN doc'[call[p].kind] = 1..(n + 1)
                 /\ doc'[call[p].kind][n + 1] = call[p].content
                 /\ \A v \in 1..n : doc'[call[p].kind][v] = doc[call[p].kind][v]
           /\ \A k \in Kind \ {call[p].kind} : doc'[k] = doc[k]
           /\ doc' = [k \in Kind |-> doc'[k]]
<1> DEFINE kind == call[p].kind
           version == call[p].version
           content == call[p].content
<1>1. /\ call[p].op = "insert" /\ version # 0 /\ VersionFree(kind, version)
      /\ doc' = [doc EXCEPT ![kind] = Put(doc[kind], version, content)]
  BY DEF CommitVersion
<1>2. InsertOK(call[p]) /\ kind \in Kind
  BY <1>1, NextVersion DEF InsertOK
<1>3. PICK n \in Nat : /\ DOMAIN doc[kind] = 1..n
                       /\ version = n + 1 /\ n + 1 \in 1..MaxVersion[kind]
  BY <1>1, NextVersion
<1>4. doc = [k \in Kind |-> doc[k]]
  BY DEF PlanningInv, DocsInv
<1> HIDE DEF kind, version, content
<1>5. /\ doc'[kind] = Put(doc[kind], n + 1, content)
      /\ \A k \in Kind \ {kind} : doc'[k] = doc[k]
      /\ doc' = [k \in Kind |-> doc'[k]]
  BY <1>1, <1>2, <1>3, <1>4
<1>6. /\ DOMAIN Put(doc[kind], n + 1, content) = 1..n \cup {n + 1}
      /\ Put(doc[kind], n + 1, content)[n + 1] = content
      /\ \A v \in 1..n : Put(doc[kind], n + 1, content)[v] = doc[kind][v]
  BY <1>3 DEF Put
<1>7. 1..n \cup {n + 1} = 1..(n + 1)
  OBVIOUS
<1> QED
  BY <1>2, <1>3, <1>5, <1>6, <1>7 DEF kind, version, content

LEMMA CommitStep ==
    ASSUME PlanningInv, NEW p \in Proc, CommitVersion(p)
    PROVE  PlanningInv'
<1> DEFINE kind == call[p].kind
           content == call[p].content
<1>k. {"brief", "design", "set", "board"} = Kind
  BY DEF Kind
<1>1. /\ InsertOK(call[p]) /\ kind \in Kind
      /\ \A k \in Kind \ {kind} : doc'[k] = doc[k]
      /\ doc' = [k \in Kind |-> doc'[k]]
  BY Inserted DEF InsertOK
<1>2. PICK n \in Nat :
        /\ DOMAIN doc[kind] = 1..n
        /\ n + 1 \in 1..MaxVersion[kind]
        /\ call[p].version = n + 1
        /\ DOMAIN doc'[kind] = 1..(n + 1)
        /\ doc'[kind][n + 1] = content
        /\ \A v \in 1..n : doc'[kind][v] = doc[kind][v]
  BY Inserted
<1>3. /\ report' = [i \in DOMAIN report |->
             IF i = call[p].report THEN [report[i] EXCEPT !.applied = TRUE] ELSE report[i]]
      /\ review' = IF kind = "board" THEN Put(review, n + 1, NewReview) ELSE review
      /\ call' = [call EXCEPT ![p] = Idle]
      /\ UNCHANGED approved
  BY <1>2 DEF CommitVersion
<1>4. /\ kind = "set" => SetOK(content) /\ SetBasis(content)
      /\ kind = "board" => BoardBasis(content) /\ BoardRevises(content)
  BY <1>1 DEF InsertOK
<1> HIDE DEF kind, content
<1>5. DOMAIN doc'[kind] = DOMAIN doc[kind] \cup {n + 1} /\ n + 1 \notin DOMAIN doc[kind]
  BY <1>2
<1>6. /\ \A k \in Kind : /\ DOMAIN doc[k] \subseteq DOMAIN doc'[k]
                         /\ \A v \in DOMAIN doc[k] : doc'[k][v] = doc[k][v]
  BY <1>1, <1>2, <1>5
<1>7. kind = "board" =>
        /\ DOMAIN review' = DOMAIN doc'["board"] /\ review'[n + 1] = NewReview
        /\ review' = [v \in DOMAIN review' |-> review'[v]]
        /\ \A v \in DOMAIN doc["board"] : review'[v] = review[v]
  <2>1. DOMAIN review = DOMAIN doc["board"]
    BY DEF PlanningInv, ReviewsInv
  <2> QED
    BY <1>2, <1>3, <1>5, <2>1 DEF Put
<1>8. Grows
  BY <1>3, <1>6, <1>7 DEF Grows
<1>9. DocsInv'
  <2> SUFFICES ASSUME NEW k \in Kind
               PROVE  \E m \in 0..MaxVersion[k] : DOMAIN doc'[k] = 1..m
    BY <1>1 DEF DocsInv
  <2>1. CASE k = kind
    BY <1>2, <2>1
  <2>2. CASE k # kind
    BY <1>1, <2>2 DEF PlanningInv, DocsInv
  <2> QED
    BY <2>1, <2>2
<1>10. SetsInv'
  <2> SUFFICES ASSUME NEW v \in DOMAIN doc'["set"]
               PROVE  SetOK(doc'["set"][v]) /\ SetBasis(doc["set"][v])'
    BY DEF SetsInv
  <2>1. \A row : SetBasis(row) => SetBasis(row)'
    BY <1>8, RowsKept
  <2>2. CASE v \in DOMAIN doc["set"]
    <3>1. doc'["set"][v] = doc["set"][v]
      BY <1>6, <1>k, <2>2
    <3>2. SetOK(doc["set"][v]) /\ SetBasis(doc["set"][v])
      BY <2>2 DEF PlanningInv, SetsInv
    <3> QED
      BY <2>1, <3>1, <3>2 DEF SetBasis
  <2>3. CASE v \notin DOMAIN doc["set"]
    <3>1. kind = "set" /\ v = n + 1
      BY <1>1, <1>5, <1>k, <2>3
    <3>2. doc'["set"][v] = content
      BY <1>2, <3>1
    <3> QED
      BY <1>4, <2>1, <3>1, <3>2 DEF SetBasis
  <2> QED
    BY <2>2, <2>3
<1>11. BoardsInv'
  <2> SUFFICES ASSUME NEW v \in DOMAIN doc'["board"]
               PROVE  BoardBasis(doc["board"][v])' /\ BoardRevises(doc["board"][v])'
    BY DEF BoardsInv
  <2>1. /\ \A row : BoardBasis(row) => BoardBasis(row)'
        /\ \A row : BoardRevises(row) => BoardRevises(row)'
    BY <1>8, RowsKept
  <2>2. CASE v \in DOMAIN doc["board"]
    <3>1. doc'["board"][v] = doc["board"][v]
      BY <1>6, <1>k, <2>2
    <3>2. BoardBasis(doc["board"][v]) /\ BoardRevises(doc["board"][v])
      BY <2>2 DEF PlanningInv, BoardsInv
    <3> QED
      BY <2>1, <3>1, <3>2 DEF BoardBasis, BoardRevises
  <2>3. CASE v \notin DOMAIN doc["board"]
    <3>1. kind = "board" /\ v = n + 1
      BY <1>1, <1>5, <1>k, <2>3
    <3>2. doc'["board"][v] = content
      BY <1>2, <3>1
    <3> QED
      BY <1>4, <2>1, <3>1, <3>2 DEF BoardBasis, BoardRevises
  <2> QED
    BY <2>2, <2>3
<1>12. ReportsInv'
  <2> SUFFICES ASSUME NEW i \in DOMAIN report PROVE ReportOK(report[i])'
    BY <1>3 DEF ReportsInv
  <2>1. ReportOK(report[i])
    BY DEF PlanningInv, ReportsInv
  <2>2. \A row : ReportOK(row) => ReportOK(row)'
    BY <1>8, RowsKept
  <2>3. report[i] \in ReportRow
    BY <2>1 DEF ReportOK
  <2> DEFINE row == report'[i]
  <2>4. /\ row \in ReportRow /\ row.baseline = report[i].baseline
        /\ row.changes = report[i].changes
    BY <1>3, <2>3 DEF ReportRow
  <2>5. ReportOK(row)
    BY <2>1, <2>4 DEF ReportOK
  <2> QED
    BY <2>2, <2>5 DEF ReportOK
<1>13. ReviewsInv'
  <2>1. CASE kind = "board"
    <3>1. NewReview \in ReviewRow
      BY DEF NewReview, ReviewRow
    <3>2. review \in [DOMAIN doc["board"] -> ReviewRow]
      BY DEF PlanningInv, ReviewsInv
    <3>3. \A v \in DOMAIN doc'["board"] : v \in DOMAIN doc["board"] \/ v = n + 1
      BY <1>5, <2>1
    <3>4. review' \in [DOMAIN doc'["board"] -> ReviewRow]
      BY <1>7, <2>1, <3>1, <3>2, <3>3
    <3>5. ReviewsRecorded'
      BY <1>7, <2>1, <3>2, <3>3 DEF PlanningInv, ReviewsInv, ReviewsRecorded, NewReview
    <3> QED
      BY <3>4, <3>5 DEF ReviewsInv
  <2>2. CASE kind # "board"
    <3>1. doc'["board"] = doc["board"] /\ review' = review
      BY <1>1, <1>3, <1>k, <2>2
    <3> QED
      BY <3>1 DEF PlanningInv, ReviewsInv, ReviewsRecorded
  <2> QED
    BY <2>1, <2>2
<1>14. CallsInv'
  BY <1>3, <1>8, CallWritten DEF CallOK
<1> QED
  BY <1>3, <1>8, <1>9, <1>10, <1>11, <1>12, <1>13, <1>14, ApprovedFrame DEF PlanningInv

LEMMA ThrowStep ==
    ASSUME PlanningInv, NEW p \in Proc, Throw(p)
    PROVE  PlanningInv'
<1>1. /\ call' = [call EXCEPT ![p] = Idle]
      /\ UNCHANGED <<doc, approved, report, review>>
  BY DEF Throw
<1>2. Grows
  BY <1>1, GrowsFrame
<1>3. CallsInv'
  BY <1>1, <1>2, CallWritten DEF CallOK
<1> QED
  BY <1>1, <1>2, <1>3, DocFrame, ReportFrame, ReviewFrame, ApprovedFrame DEF PlanningInv

-----------------------------------------------------------------------------
(***************************************************************************)
(* Briefs, designs and requirement sets                                    *)
(***************************************************************************)

LEMMA BriefAndDesignStep ==
    ASSUME PlanningInv, NEW p \in Proc,
           createClientBriefVersion(p) \/ \E b \in DOMAIN doc["brief"] : createEventDesignVersion(p, b)
    PROVE  PlanningInv'
<1>1. \A s : s = "set" \/ s = "board" => s # "brief" /\ s # "design"
  OBVIOUS
<1> QED
  BY <1>1, Prepared DEF createClientBriefVersion, createEventDesignVersion, Kind

LEMMA ApproveStep ==
    ASSUME PlanningInv,
           \/ \E d \in DOMAIN doc["design"] : approveEventDesignVersion(d)
           \/ \E s \in DOMAIN doc["set"] : approveSet(s)
    PROVE  PlanningInv'
<1>1. PICK kind \in {"design", "set"} : \E v \in DOMAIN doc[kind] :
        approved' = approved \cup {<<kind, v>>} /\ UNCHANGED <<doc, report, review, call>>
  BY DEF approveEventDesignVersion, approveSet
<1>2. Grows
  BY <1>1 DEF Grows
<1>3. ApprovedInv'
  BY <1>1 DEF PlanningInv, ApprovedInv
<1>4. CallsInv'
  BY <1>1, <1>2, RowsKept DEF PlanningInv, CallsInv
<1> QED
  BY <1>1, <1>2, <1>3, <1>4, DocFrame, ReportFrame, ReviewFrame DEF PlanningInv

LEMMA CreateSetStep ==
    ASSUME PlanningInv, NEW p \in Proc, NEW d \in DOMAIN doc["design"], NEW input \in SetInput,
           createSet(p, d, input)
    PROVE  PlanningInv'
<1> DEFINE items == [c \in DOMAIN input.items |->
                        [quantity |-> input.items[c], override |-> FALSE]]
           row == [design |-> d, dependencies |-> input.dependencies, items |-> items,
                   baseline |-> 0, from |-> 0, planned |-> Empty]
<1>1. <<"design", d>> \in approved /\ Prepare(p, "set", row, 0)
  BY DEF createSet
<1>2. d \in Nat
  <2>1. PICK n \in 0..MaxVersion["design"] : DOMAIN doc["design"] = 1..n
    BY DEF PlanningInv, DocsInv, Kind
  <2> QED
    BY <2>1
<1>3. input \in [items: UNION {[1..n -> Quantity] : n \in Code}, dependencies: SUBSET (Code \X Code)]
  BY PlanningAssumption
<1>4. PICK n \in Code : input.items \in [1..n -> Quantity]
  BY <1>3
<1>5. items \in PartialOn(Code, Item)
  <2>1. 1..n \subseteq Code
    BY PlanningAssumption DEF Code
  <2>2. \A c \in 1..n : [quantity |-> input.items[c], override |-> FALSE] \in Item
    BY <1>4 DEF Item
  <2>3. DOMAIN input.items = 1..n
    BY <1>4
  <2>4. items \in [1..n -> Item]
    BY <2>2, <2>3
  <2> HIDE DEF items
  <2> QED
    BY <2>1, <2>4, PartialIs
<1>6. Empty \in PartialOn(Code, Quantity) /\ DOMAIN Empty = {}
  <2>1. Empty \in [{} -> Quantity] /\ DOMAIN Empty = {}
    BY DEF Empty
  <2> QED
    BY <2>1, PartialIs
<1>7. row \in SetRow /\ row.planned = Empty /\ row.baseline = 0 /\ row.design = d
  <2> HIDE DEF items
  <2> QED
    BY <1>2, <1>3, <1>5, <1>6 DEF SetRow
<1>8. OneWay(row)
  <2>1. validateDependencyGraph(DOMAIN input.items, input.dependencies)
    BY DEF createSet
  <2>2. DOMAIN input.items \subseteq Code
    BY <1>4, PlanningAssumption DEF Code
  <2> QED
    BY <2>1, <2>2, GraphCheckExact DEF OneWay
<1> HIDE DEF row
<1>9. SetOK(row) /\ SetBasis(row)
  BY <1>1, <1>6, <1>7, <1>8 DEF SetOK, SetBasis
<1> QED
  BY <1>1, <1>9, Prepared DEF Kind

LEMMA OverrideStep ==
    ASSUME PlanningInv, NEW p \in Proc, NEW s \in DOMAIN doc["set"], NEW c \in Code,
           NEW q \in Overridden, overrideQuantity(p, s, c, q)
    PROVE  PlanningInv'
<1> DEFINE source == doc["set"][s]
           items == overriddenItems(source.items, c, q)
           planned == Put(source.planned, c, q)
           row == [design |-> source.design, dependencies |-> source.dependencies,
                   items |-> items, baseline |-> 0, from |-> s, planned |-> planned]
<1>1. c \in DOMAIN source.items /\ Prepare(p, "set", row, 0)
  BY DEF overrideQuantity
<1>2. s \in Nat
  <2>1. PICK n \in 0..MaxVersion["set"] : DOMAIN doc["set"] = 1..n
    BY DEF PlanningInv, DocsInv, Kind
  <2> QED
    BY <2>1
<1>3. SetOK(source) /\ SetBasis(source)
  BY DEF PlanningInv, SetsInv
<1> HIDE DEF source
<1>4. /\ source \in SetRow
      /\ DOMAIN source.items \subseteq Code /\ source.items \in [DOMAIN source.items -> Item]
      /\ DOMAIN source.planned \subseteq Code
      /\ source.planned \in [DOMAIN source.planned -> Quantity]
  <2>1. source \in SetRow
    BY <1>3 DEF SetOK
  <2>2. source.items \in PartialOn(Code, Item) /\ source.planned \in PartialOn(Code, Quantity)
    BY <2>1 DEF SetRow
  <2> QED
    BY <2>1, <2>2, PartialIs
<1>5. q \in Quantity
  BY PlanningAssumption
<1>6. /\ items \in [DOMAIN source.items -> Item]
      /\ items[c] = [quantity |-> q, override |-> TRUE]
      /\ \A x \in DOMAIN source.items \ {c} : items[x] = source.items[x]
  <2>1. [quantity |-> q, override |-> TRUE] \in Item
    BY <1>5 DEF Item
  <2> QED
    BY <1>1, <1>4, <2>1 DEF overriddenItems
<1>7. /\ planned \in [DOMAIN source.planned \cup {c} -> Quantity]
      /\ planned[c] = q
      /\ \A x \in DOMAIN source.planned \ {c} : planned[x] = source.planned[x]
  BY <1>4, <1>5 DEF Put
<1> HIDE DEF items, planned
<1>8. items \in PartialOn(Code, Item) /\ planned \in PartialOn(Code, Quantity)
  BY <1>4, <1>6, <1>7, PartialIs
<1>9. /\ row \in SetRow /\ row.planned = planned /\ row.baseline = 0 /\ row.design = source.design
      /\ row.items = items /\ row.dependencies = source.dependencies
  BY <1>2, <1>4, <1>8 DEF SetRow
<1> HIDE DEF row
<1>10. OneWay(row)
  BY <1>3, <1>6, <1>9 DEF SetOK, OneWay
<1>11. SetOK(row)
  <2> SUFFICES ASSUME NEW x \in DOMAIN planned
               PROVE  x \in DOMAIN items /\ items[x] = [quantity |-> planned[x], override |-> TRUE]
    BY <1>9, <1>10 DEF SetOK
  <2>1. CASE x = c
    BY <1>1, <1>6, <1>7, <2>1
  <2>2. CASE x # c
    <3>1. x \in DOMAIN source.planned
      BY <1>7, <2>2
    <3>2. x \in DOMAIN source.items
          /\ source.items[x] = [quantity |-> source.planned[x], override |-> TRUE]
      BY <1>3, <3>1 DEF SetOK
    <3> QED
      BY <1>6, <1>7, <2>2, <3>1, <3>2
  <2> QED
    BY <2>1, <2>2
<1>12. SetBasis(row)
  BY <1>3, <1>9 DEF SetBasis
<1> QED
  BY <1>1, <1>11, <1>12, Prepared DEF Kind

-----------------------------------------------------------------------------
(***************************************************************************)
(* Impact reports                                                          *)
(***************************************************************************)

\* An approved set is a version, and its number is one.
LEMMA ApprovedSets ==
    ASSUME PlanningInv, NEW s, <<"set", s>> \in approved
    PROVE  /\ s \in DOMAIN doc["set"] /\ s \in Nat
           /\ SetOK(doc["set"][s]) /\ SetBasis(doc["set"][s])
<1>1. <<"set", s>>[1] = "set" /\ <<"set", s>>[2] = s
  OBVIOUS
<1>2. s \in DOMAIN doc["set"]
  BY <1>1 DEF PlanningInv, ApprovedInv
<1>3. PICK n \in 0..MaxVersion["set"] : DOMAIN doc["set"] = 1..n
  BY DEF PlanningInv, DocsInv, Kind
<1> QED
  BY <1>2, <1>3 DEF PlanningInv, SetsInv

LEMMA SetTypes ==
    ASSUME NEW row, row \in SetRow
    PROVE  /\ DOMAIN row.items \subseteq Code /\ row.items \in [DOMAIN row.items -> Item]
           /\ DOMAIN row.planned \subseteq Code
           /\ row.planned \in [DOMAIN row.planned -> Quantity]
           /\ row.design \in Nat /\ row.dependencies \subseteq Code \X Code
<1>1. row.items \in PartialOn(Code, Item) /\ row.planned \in PartialOn(Code, Quantity)
  BY DEF SetRow
<1> QED
  BY <1>1, PartialIs DEF SetRow

\* Every item that has an override is reported as protected by it.
LEMMA ChangesProtect ==
    ASSUME NEW items, DOMAIN items \subseteq Code, items \in [DOMAIN items -> Item],
           NEW proposed, proposed \in [DOMAIN proposed -> Quantity],
           NEW unchanged, NEW added \in Quantity \cup {0},
           added # 0 => nextCode(items) \in Code
    PROVE  LET changes == Changes(items, proposed, unchanged, added)
           IN  /\ changes \in PartialOn(Code, Change)
               /\ \A c \in DOMAIN changes : changes[c].type = "Added" => changes[c].to # 0
               /\ \A c \in DOMAIN changes \cap DOMAIN items :
                     items[c].override => changes[c].type = "OverrideProtected"
<1> DEFINE To(c) == IF c \in DOMAIN proposed THEN proposed[c] ELSE 0
           Row(c) == [type |-> changeType(items[c], To(c)), to |-> To(c)]
           present == [c \in DOMAIN items \ unchanged |-> Row(c)]
           new == nextCode(items)
           newRow == [type |-> "Added", to |-> added]
           changes == Changes(items, proposed, unchanged, added)
<1>1. \A c \in DOMAIN items :
        /\ Row(c) \in Change /\ Row(c).type # "Added"
        /\ items[c].override => Row(c).type = "OverrideProtected"
  <2> SUFFICES ASSUME NEW c \in DOMAIN items
               PROVE  /\ Row(c) \in Change /\ Row(c).type # "Added"
                      /\ items[c].override => Row(c).type = "OverrideProtected"
    OBVIOUS
  <2>1. To(c) \in Quantity \cup {0}
    OBVIOUS
  <2>2. /\ changeType(items[c], To(c)) \in ChangeType
        /\ changeType(items[c], To(c)) # "Added"
        /\ items[c].override => changeType(items[c], To(c)) = "OverrideProtected"
    <3> HIDE DEF To
    <3> QED
      BY DEF changeType, ChangeType
  <2> HIDE DEF To
  <2> QED
    BY <2>1, <2>2 DEF Change
<1>2. added # 0 => new \notin DOMAIN items
  <2>1. MaxCode \in Nat /\ DOMAIN items \subseteq 1..MaxCode
    BY PlanningAssumption DEF Code
  <2>2. new \in Nat /\ \A c \in DOMAIN items : c < new
    BY <2>1, AboveLargest DEF nextCode
  <2> QED
    BY <2>2
<1>3. newRow \in Change /\ newRow.type = "Added" /\ newRow.to = added
  BY DEF Change, ChangeType
<1>4. changes = IF added = 0 THEN present ELSE Put(present, new, newRow)
  BY DEF Changes
<1> HIDE DEF Row, new, newRow, changes
<1>5. CASE added = 0
  <2>1. changes = present /\ DOMAIN changes \subseteq DOMAIN items
        /\ \A c \in DOMAIN changes : changes[c] = Row(c)
    BY <1>4, <1>5
  <2>2. changes \in [DOMAIN changes -> Change]
    BY <1>1, <2>1
  <2> QED
    BY <1>1, <2>1, <2>2, PartialIs DEF changes
<1>6. CASE added # 0
  <2>1. /\ DOMAIN changes = (DOMAIN items \ unchanged) \cup {new}
        /\ changes[new] = newRow
        /\ \A c \in DOMAIN items \ unchanged : c # new /\ changes[c] = Row(c)
        /\ changes = [c \in DOMAIN changes |-> changes[c]]
    BY <1>2, <1>4, <1>6 DEF Put
  <2>2. changes \in [DOMAIN changes -> Change]
    BY <1>1, <1>3, <2>1
  <2>3. DOMAIN changes \subseteq Code
    BY <1>6, <2>1 DEF new
  <2> QED
    BY <1>1, <1>2, <1>3, <1>6, <2>1, <2>2, <2>3, PartialIs DEF changes
<1> QED
  BY <1>5, <1>6

LEMMA CreateReportStep ==
    ASSUME PlanningInv, NEW s \in DOMAIN doc["set"], NEW input \in ReportInput,
           NEW unchanged, createReport(s, input.proposed, unchanged, input.added)
    PROVE  PlanningInv'
<1> DEFINE items == doc["set"][s].items
           changes == Changes(items, input.proposed, unchanged, input.added)
           row == [baseline |-> s, applied |-> FALSE, changes |-> changes]
           i == Cardinality(DOMAIN report) + 1
<1>1. /\ <<"set", s>> \in approved
      /\ input.added # 0 => nextCode(items) \in Code
      /\ report' = Put(report, i, row)
      /\ UNCHANGED <<doc, approved, review, call>>
  BY DEF createReport
<1>2. input.proposed \in PartialOn(Code, Quantity) /\ input.added \in Quantity \cup {0}
  BY PlanningAssumption
<1>3. input.proposed \in [DOMAIN input.proposed -> Quantity]
  BY <1>2, PartialIs
<1>4. s \in Nat /\ DOMAIN items \subseteq Code /\ items \in [DOMAIN items -> Item]
  BY <1>1, ApprovedSets, SetTypes DEF SetOK
<1>5. /\ changes \in PartialOn(Code, Change)
      /\ \A c \in DOMAIN changes : changes[c].type = "Added" => changes[c].to # 0
      /\ \A c \in DOMAIN changes \cap DOMAIN items :
            items[c].override => changes[c].type = "OverrideProtected"
  <2> HIDE DEF items
  <2> QED
    BY <1>1, <1>2, <1>3, <1>4, ChangesProtect
<1> HIDE DEF changes, i
<1>6. ReportOK(row)
  <2>1. row \in ReportRow /\ row.baseline = s /\ row.changes = changes
    BY <1>4, <1>5 DEF ReportRow
  <2> HIDE DEF row
  <2> QED
    BY <1>1, <1>5, <2>1 DEF ReportOK
<1> HIDE DEF row
<1>7. Grows
  BY <1>1, GrowsFrame
<1>8. ReportsInv'
  <2>1. \A j \in DOMAIN report' : \/ j \in DOMAIN report /\ report'[j] = report[j]
                                  \/ report'[j] = row
    BY <1>1 DEF Put
  <2>2. \A r : ReportOK(r) => ReportOK(r)'
    BY <1>7, RowsKept
  <2> SUFFICES ASSUME NEW j \in DOMAIN report' PROVE ReportOK(report[j])'
    BY DEF ReportsInv
  <2>3. ReportOK(report'[j])
    BY <1>6, <2>1 DEF PlanningInv, ReportsInv
  <2> QED
    BY <2>2, <2>3 DEF ReportOK
<1>9. CallsInv'
  BY <1>1, <1>7, RowsKept DEF PlanningInv, CallsInv
<1> QED
  BY <1>1, <1>7, <1>8, <1>9, DocFrame, ReviewFrame, ApprovedFrame DEF PlanningInv

\* An override that is dropped or changed is one whose change was protected and
\* is applied all the same.
LEMMA ApplyReportStep ==
    ASSUME PlanningInv, NEW p \in Proc, NEW i \in DOMAIN report,
           NEW apply \in SUBSET DOMAIN report[i].changes, applyReport(p, i, apply)
    PROVE  PlanningInv'
<1> DEFINE changes == report[i].changes
           baseline == report[i].baseline
           source == doc["set"][baseline]
           items == appliedItems(source.items, changes, apply)
           agreed == {c \in apply : changes[c].type = "OverrideProtected"}
           planned == [c \in DOMAIN source.planned \ agreed |-> source.planned[c]]
           dependencies == keptDependencies(source.dependencies, items)
           row == [design |-> source.design, items |-> items, dependencies |-> dependencies,
                   baseline |-> baseline, from |-> baseline, planned |-> planned]
<1>1. Prepare(p, "set", row, i)
  BY DEF applyReport
<1>2. ReportOK(report[i])
  BY DEF PlanningInv, ReportsInv
<1>3. /\ <<"set", baseline>> \in approved
      /\ \A c \in DOMAIN changes : changes[c].type = "Added" => changes[c].to # 0
      /\ \A c \in DOMAIN changes \cap DOMAIN source.items :
            source.items[c].override => changes[c].type = "OverrideProtected"
      /\ changes \in PartialOn(Code, Change)
  BY <1>2 DEF ReportOK, ReportRow
<1>4. DOMAIN changes \subseteq Code /\ changes \in [DOMAIN changes -> Change]
  BY <1>3, PartialIs
<1>5. baseline \in Nat /\ SetOK(source) /\ SetBasis(source)
  BY <1>3, ApprovedSets
<1>6. /\ DOMAIN source.items \subseteq Code /\ source.items \in [DOMAIN source.items -> Item]
      /\ DOMAIN source.planned \subseteq Code
      /\ source.planned \in [DOMAIN source.planned -> Quantity]
      /\ source.design \in Nat /\ source.dependencies \subseteq Code \X Code
  BY <1>5, SetTypes DEF SetOK
<1>a. apply \subseteq DOMAIN changes
  OBVIOUS
<1> HIDE DEF changes, source, baseline
<1>7. /\ DOMAIN items = (DOMAIN source.items \ Dropped(changes, apply))
                            \cup {c \in apply : changes[c].type = "Added"}
      /\ \A c \in DOMAIN items : items[c] = IF c \in apply
                                            THEN [quantity |-> changes[c].to, override |-> FALSE]
                                            ELSE source.items[c]
      /\ items = [c \in DOMAIN items |-> items[c]]
  BY DEF appliedItems
<1> HIDE DEF items
<1>8. \A c \in DOMAIN items : c \in Code /\ items[c] \in Item
  <2> SUFFICES ASSUME NEW c \in DOMAIN items PROVE c \in Code /\ items[c] \in Item
    OBVIOUS
  <2>1. CASE c \in apply
    <3>1. changes[c] \in Change
      BY <1>4, <1>a, <2>1
    <3>2. changes[c].to # 0
      BY <1>3, <1>7, <1>a, <2>1 DEF Dropped
    <3>3. changes[c].to \in Quantity
      BY <3>1, <3>2 DEF Change
    <3>4. [quantity |-> changes[c].to, override |-> FALSE] \in Item
      BY <3>3 DEF Item
    <3>5. items[c] = [quantity |-> changes[c].to, override |-> FALSE]
      BY <1>7, <2>1
    <3>6. c \in Code
      BY <1>4, <1>a, <2>1
    <3> QED
      BY <3>4, <3>5, <3>6
  <2>2. CASE c \notin apply
    BY <1>6, <1>7, <2>2
  <2> QED
    BY <2>1, <2>2
<1>9. items \in PartialOn(Code, Item)
  <2>1. items \in [DOMAIN items -> Item] /\ DOMAIN items \subseteq Code
    BY <1>7, <1>8
  <2> QED
    BY <2>1, PartialIs
<1>10. /\ DOMAIN planned = DOMAIN source.planned \ agreed
       /\ \A c \in DOMAIN planned : planned[c] = source.planned[c]
       /\ planned \in PartialOn(Code, Quantity)
  <2>1. planned \in [DOMAIN source.planned \ agreed -> Quantity]
    BY <1>6
  <2> QED
    BY <1>6, <2>1, PartialIs
<1>11. /\ dependencies \subseteq source.dependencies
       /\ dependencies \subseteq Code \X Code
       /\ dependencies \subseteq (DOMAIN items) \X (DOMAIN items)
  BY <1>6 DEF keptDependencies
<1> HIDE DEF planned, dependencies
<1>12. /\ row \in SetRow /\ row.planned = planned /\ row.items = items
       /\ row.design = source.design /\ row.baseline = baseline
       /\ row.dependencies = dependencies
  BY <1>5, <1>6, <1>9, <1>10, <1>11 DEF SetRow
<1> HIDE DEF row
<1>13. OneWay(row)
  <2> SUFFICES ASSUME NEW c \in DOMAIN items PROVE c \notin Reachable(dependencies, c)
    BY <1>11, <1>12 DEF OneWay
  <2>1. Reachable(dependencies, c) \subseteq Reachable(source.dependencies, c)
    BY <1>8, <1>11, FewerDependencies
  <2>2. CASE c \in DOMAIN source.items
    BY <1>5, <2>1, <2>2 DEF SetOK, OneWay
  <2>3. CASE c \notin DOMAIN source.items
    <3>1. source.dependencies \subseteq (DOMAIN source.items) \X (DOMAIN source.items)
      BY <1>5 DEF SetOK, OneWay
    <3>2. c \notin Reachable(source.dependencies, c)
      BY <1>6, <1>8, <2>3, <3>1, NotReached
    <3> QED
      BY <2>1, <3>2
  <2> QED
    BY <2>2, <2>3
<1>14. SetOK(row)
  <2> SUFFICES ASSUME NEW c \in DOMAIN planned
               PROVE  c \in DOMAIN items /\ items[c] = [quantity |-> planned[c], override |-> TRUE]
    BY <1>12, <1>13 DEF SetOK
  <2>1. /\ c \in DOMAIN source.items
        /\ source.items[c] = [quantity |-> source.planned[c], override |-> TRUE]
    BY <1>5, <1>10 DEF SetOK
  <2>2. source.items[c].override
    BY <2>1
  <2>3. c \notin apply
    BY <1>3, <1>10, <1>a, <2>1, <2>2
  <2> QED
    BY <1>7, <1>10, <2>1, <2>3 DEF Dropped
<1>15. SetBasis(row)
  BY <1>3, <1>5, <1>12 DEF SetBasis
<1> QED
  BY <1>1, <1>14, <1>15, Prepared DEF Kind

-----------------------------------------------------------------------------
(***************************************************************************)
(* Mood boards                                                             *)
(***************************************************************************)

LEMMA CreateBoardStep ==
    ASSUME PlanningInv, NEW p \in Proc, NEW s \in DOMAIN doc["set"],
           NEW basedOn \in DOMAIN doc["board"] \cup {0}, NEW input \in BoardInput,
           create(p, s, basedOn, input)
    PROVE  PlanningInv'
<1> DEFINE first == firstFreeKey(input.supplied)
           fresh == first..(first + Cardinality(input.unkeyed) - 1)
           previous == doc["board"][basedOn].objects
<1>1. /\ <<"set", s>> \in approved
      /\ basedOn # 0 => validateLockedObjects(previous, input.supplied)
      /\ fresh \subseteq Key
      /\ \E keyed \in Bijection(fresh, input.unkeyed) :
            Prepare(p, "board", [set |-> s, basedOn |-> basedOn,
                                 objects |-> Merge(keyed, input.supplied)], 0)
  BY DEF create
<1>2. input.supplied \in PartialOn(Key, BoardObject) /\ input.unkeyed \subseteq BoardObject
  BY PlanningAssumption
<1>3. /\ DOMAIN input.supplied \subseteq Key
      /\ input.supplied \in [DOMAIN input.supplied -> BoardObject]
  BY <1>2, PartialIs
<1>4. s \in Nat
  BY <1>1, ApprovedSets
<1>5. basedOn \in Nat
  <2>1. PICK n \in 0..MaxVersion["board"] : DOMAIN doc["board"] = 1..n
    BY DEF PlanningInv, DocsInv, Kind
  <2> QED
    BY <2>1
<1>6. \A k \in DOMAIN input.supplied : k \notin fresh
  <2>1. first \in Nat /\ \A k \in DOMAIN input.supplied : k < first
    BY <1>3, AboveLargest, PlanningAssumption DEF Key, firstFreeKey
  <2>2. \A k \in DOMAIN input.supplied : k \in Nat
    BY <1>3 DEF Key
  <2>3. \A k \in Key : k \in fresh => k >= first
    <3> HIDE DEF first
    <3> SUFFICES ASSUME NEW k \in Key, k \in fresh PROVE k >= first
      OBVIOUS
    <3>1. CASE Cardinality(input.unkeyed) \in Int
      BY <2>1, <3>1
    <3>2. CASE Cardinality(input.unkeyed) \notin Int
      BY <2>1, <3>2
    <3> QED
      BY <3>1, <3>2
  <2> QED
    BY <1>1, <2>1, <2>2, <2>3
<1> HIDE DEF fresh
<1>7. ASSUME NEW keyed \in Bijection(fresh, input.unkeyed),
             Prepare(p, "board", [set |-> s, basedOn |-> basedOn,
                                  objects |-> Merge(keyed, input.supplied)], 0)
      PROVE  PlanningInv'
  <2> DEFINE objects == Merge(keyed, input.supplied)
             row == [set |-> s, basedOn |-> basedOn, objects |-> objects]
  <2>1. keyed \in [fresh -> input.unkeyed]
    BY DEF Bijection, Injection
  <2>2. /\ DOMAIN objects = fresh \cup DOMAIN input.supplied
        /\ \A k \in fresh : objects[k] = keyed[k]
        /\ \A k \in DOMAIN input.supplied : objects[k] = input.supplied[k]
        /\ objects = [k \in DOMAIN objects |-> objects[k]]
    BY <1>6, <2>1 DEF Merge
  <2> HIDE DEF objects
  <2>3. objects \in [DOMAIN objects -> BoardObject] /\ DOMAIN objects \subseteq Key
    BY <1>1, <1>2, <1>3, <2>1, <2>2
  <2>4. row \in BoardRow /\ row.set = s /\ row.basedOn = basedOn /\ row.objects = objects
    BY <1>4, <1>5, <2>3, PartialIs DEF BoardRow
  <2>5. basedOn # 0 => Keeps(objects, previous)
    BY <1>1, <2>2 DEF validateLockedObjects, sameSignature, Keeps
  <2>6. Prepare(p, "board", row, 0)
    BY <1>7 DEF objects
  <2> HIDE DEF row
  <2>7. BoardBasis(row) /\ BoardRevises(row)
    BY <1>1, <2>4, <2>5 DEF BoardBasis, BoardRevises
  <2> QED
    BY <2>6, <2>7, Prepared DEF Kind
<1> QED
  BY <1>1, <1>7

LEMMA CheckBoardStep ==
    ASSUME PlanningInv, NEW p \in Proc, NEW v \in DOMAIN doc["board"],
           NEW op \in {"submit", "requestChanges", "approve"}, CheckBoard(p, op, v)
    PROVE  PlanningInv'
<1> DEFINE c == [op |-> op, board |-> v]
<1>1. /\ Accepts(op, v) /\ call' = [call EXCEPT ![p] = c]
      /\ UNCHANGED <<doc, approved, report, review>>
  BY DEF CheckBoard
<1>2. v \in Nat
  <2>1. PICK n \in 0..MaxVersion["board"] : DOMAIN doc["board"] = 1..n
    BY DEF PlanningInv, DocsInv, Kind
  <2> QED
    BY <2>1
<1>3. op # "submit" => review[v].submitted
  BY <1>1 DEF Accepts, requireReviewableBoard, PlanningInv, ReviewsInv, ReviewsRecorded
<1>4. c \in Verdict /\ c.op = op /\ c.board = v
  BY <1>2 DEF Verdict
<1> HIDE DEF c
<1>5. CallOK(c)
  BY <1>3, <1>4 DEF CallOK, VerdictOK
<1>6. Grows
  BY <1>1, GrowsFrame
<1>7. CallOK(c)'
  <2>1. \A d : CallOK(d) => CallOK(d)'
    BY <1>6, RowsKept
  <2> QED
    BY <1>5, <2>1 DEF c
<1>8. CallsInv'
  BY <1>1, <1>6, <1>7, CallWritten
<1> QED
  BY <1>1, <1>6, <1>8, DocFrame, ReportFrame, ReviewFrame, ApprovedFrame DEF PlanningInv

LEMMA WriteBoardStep ==
    ASSUME PlanningInv, NEW p \in Proc, WriteBoard(p)
    PROVE  PlanningInv'
<1> DEFINE c == call[p]
           v == c.board
           row == review'[v]
<1>1. /\ c.op \in {"submit", "requestChanges", "approve"}
      /\ call' = [call EXCEPT ![p] = Idle]
      /\ UNCHANGED <<doc, approved, report>>
  BY DEF WriteBoard
<1>2. VerdictOK(c)
  BY <1>1 DEF PlanningInv, CallsInv, CallOK, Idle, InsertOK
<1>3. /\ v \in DOMAIN doc["board"] /\ (c.op # "submit" => review[v].submitted)
      /\ review \in [DOMAIN doc["board"] -> ReviewRow]
  BY <1>2 DEF VerdictOK, PlanningInv, ReviewsInv
<1>4. review[v].submitted \in BOOLEAN /\ review[v].records \subseteq {"ChangeRequest", "Approval"}
  BY <1>3 DEF ReviewRow
<1>5. PICK new \in ReviewRow :
        /\ review' = [review EXCEPT ![v] = new]
        /\ new.submitted
        /\ new.status = "ChangesRequested" => "ChangeRequest" \in new.records
        /\ new.status = "Approved" => "Approval" \in new.records
  <2>1. CASE c.op = "submit"
    <3> DEFINE new == [status |-> "InClientReview", submitted |-> TRUE,
                       records |-> review[v].records]
    <3>1. new \in ReviewRow
      BY <1>4 DEF ReviewRow
    <3>2. review' = [review EXCEPT ![v] = new]
      BY <1>3, <2>1 DEF WriteBoard
    <3> QED
      BY <3>1, <3>2
  <2>2. CASE c.op = "requestChanges"
    <3> DEFINE new == [status |-> "ChangesRequested", submitted |-> review[v].submitted,
                       records |-> review[v].records \cup {"ChangeRequest"}]
    <3>1. new \in ReviewRow
      BY <1>4 DEF ReviewRow
    <3>2. review' = [review EXCEPT ![v] = new]
      BY <1>3, <2>2 DEF WriteBoard
    <3>3. new.submitted
      BY <1>3, <2>2
    <3> QED
      BY <3>1, <3>2, <3>3
  <2>3. CASE c.op = "approve"
    <3> DEFINE new == [status |-> "Approved", submitted |-> review[v].submitted,
                       records |-> review[v].records \cup {"Approval"}]
    <3>1. new \in ReviewRow
      BY <1>4 DEF ReviewRow
    <3>2. review' = [review EXCEPT ![v] = new]
      BY <1>3, <2>3 DEF WriteBoard
    <3>3. new.submitted
      BY <1>3, <2>3
    <3> QED
      BY <3>1, <3>2, <3>3
  <2> QED
    BY <1>1, <2>1, <2>2, <2>3
<1> HIDE DEF c, v, row
<1>6. /\ DOMAIN review' = DOMAIN doc["board"] /\ review'[v] = new
      /\ \A w \in DOMAIN doc["board"] \ {v} : review'[w] = review[w]
      /\ review' \in [DOMAIN doc["board"] -> ReviewRow]
  BY <1>3, <1>5
<1>7. Grows
  BY <1>1, <1>5, <1>6 DEF Grows
<1>8. ReviewsInv'
  <2>1. ReviewsRecorded'
    BY <1>3, <1>5, <1>6 DEF PlanningInv, ReviewsInv, ReviewsRecorded
  <2> QED
    BY <1>1, <1>6, <2>1 DEF ReviewsInv
<1>9. CallsInv'
  BY <1>1, <1>7, CallWritten DEF CallOK
<1> QED
  BY <1>1, <1>7, <1>8, <1>9, DocFrame, ReportFrame, ApprovedFrame DEF PlanningInv

-----------------------------------------------------------------------------
(***************************************************************************)
(* The theorems                                                            *)
(***************************************************************************)

LEMMA InitInv == PlanningInit => PlanningInv
<1> SUFFICES ASSUME PlanningInit PROVE PlanningInv
  OBVIOUS
<1>1. /\ doc = [k \in Kind |-> Empty] /\ approved = {} /\ report = Empty /\ review = Empty
      /\ call = [p \in Proc |-> Idle]
  BY DEF PlanningInit
<1>2. DOMAIN Empty = {} /\ \A T : Empty \in [{} -> T]
  BY DEF Empty
<1>3. \A k \in Kind : doc[k] = Empty
  BY <1>1
<1>4. DocsInv
  <2> SUFFICES ASSUME NEW k \in Kind PROVE \E n \in 0..MaxVersion[k] : DOMAIN doc[k] = 1..n
    BY <1>1 DEF DocsInv
  <2>1. MaxVersion[k] \in Nat
    BY PlanningAssumption
  <2>2. DOMAIN doc[k] = 1..0 /\ 0 \in 0..MaxVersion[k]
    BY <1>2, <1>3, <2>1
  <2> QED
    BY <2>2
<1>5. DOMAIN doc["set"] = {} /\ DOMAIN doc["board"] = {}
  BY <1>2, <1>3 DEF Kind
<1>6. SetsInv /\ BoardsInv
  BY <1>5 DEF SetsInv, BoardsInv
<1>7. ApprovedInv /\ ReportsInv
  BY <1>1, <1>2 DEF ApprovedInv, ReportsInv
<1>8. ReviewsInv
  BY <1>1, <1>2, <1>5 DEF ReviewsInv, ReviewsRecorded
<1>9. CallsInv
  BY <1>1 DEF CallsInv, CallOK
<1> QED
  BY <1>4, <1>6, <1>7, <1>8, <1>9 DEF PlanningInv

LEMMA StepInv == PlanningInv /\ [PlanningNext]_planningVars => PlanningInv'
<1> SUFFICES ASSUME PlanningInv, [PlanningNext]_planningVars PROVE PlanningInv'
  OBVIOUS
<1>1. ASSUME NEW p \in Proc, NewCall(p) PROVE PlanningInv'
  BY <1>1, BriefAndDesignStep, CreateSetStep, OverrideStep, ApplyReportStep, CreateBoardStep,
     CheckBoardStep DEF NewCall
<1>2. ASSUME NEW p \in Proc, ReadLatest(p) \/ CommitVersion(p) \/ WriteBoard(p) \/ Throw(p)
      PROVE  PlanningInv'
  BY <1>2, ReadLatestStep, CommitStep, WriteBoardStep, ThrowStep
<1>3. ASSUME \/ \E d \in DOMAIN doc["design"] : approveEventDesignVersion(d)
             \/ \E s \in DOMAIN doc["set"] : approveSet(s)
      PROVE  PlanningInv'
  BY <1>3, ApproveStep
<1>4. ASSUME NEW s \in DOMAIN doc["set"], NEW input \in ReportInput,
             NEW unchanged \in SUBSET DOMAIN input.proposed,
             createReport(s, input.proposed, unchanged, input.added)
      PROVE  PlanningInv'
  BY <1>4, CreateReportStep
<1>5. CASE UNCHANGED planningVars
  <2>1. UNCHANGED <<doc, approved, review>> /\ UNCHANGED report /\ UNCHANGED call
    BY <1>5 DEF planningVars
  <2>2. Grows
    BY <2>1, GrowsFrame
  <2>3. CallsInv'
    BY <2>1, <2>2, RowsKept DEF PlanningInv, CallsInv
  <2> QED
    BY <2>1, <2>2, <2>3, DocFrame, ReportFrame, ReviewFrame, ApprovedFrame DEF PlanningInv
<1> QED
  BY <1>1, <1>2, <1>3, <1>4, <1>5 DEF PlanningNext

\* The inductive invariant, from which the theorems follow.
THEOREM Invariance == PlanningSpec => []PlanningInv
<1>1. PlanningInit => PlanningInv
  BY InitInv
<1>2. PlanningInv /\ [PlanningNext]_planningVars => PlanningInv'
  BY StepInv
<1> QED
  BY <1>1, <1>2, PTL DEF PlanningSpec

\* Rows are well formed and refer to rows that exist.
THEOREM PlanningTypes == PlanningSpec => []PlanningTypeOK
<1>1. PlanningInv => PlanningTypeOK
  <2> SUFFICES ASSUME PlanningInv PROVE PlanningTypeOK
    OBVIOUS
  <2> USE DEF PlanningInv
  <2>1. DOMAIN doc = Kind
    BY DEF DocsInv
  <2>2. \A k \in Kind : DOMAIN doc[k] \subseteq 1..MaxVersion[k]
    <3> SUFFICES ASSUME NEW k \in Kind PROVE DOMAIN doc[k] \subseteq 1..MaxVersion[k]
      OBVIOUS
    <3>1. MaxVersion[k] \in Nat
      BY PlanningAssumption
    <3>2. PICK n \in 0..MaxVersion[k] : DOMAIN doc[k] = 1..n
      BY DEF DocsInv
    <3> QED
      BY <3>1, <3>2
  <2>3. \A v \in DOMAIN doc["set"] : doc["set"][v] \in SetRow
    BY DEF SetsInv, SetOK
  <2>4. \A v \in DOMAIN doc["board"] : doc["board"][v] \in BoardRow
    BY DEF BoardsInv, BoardBasis
  <2>5. \A a \in approved : a[1] \in {"design", "set"} /\ a[2] \in DOMAIN doc[a[1]]
    BY DEF ApprovedInv
  <2>6. \A i \in DOMAIN report : report[i] \in ReportRow
    BY DEF ReportsInv, ReportOK
  <2>7. review \in [DOMAIN doc["board"] -> ReviewRow]
    BY DEF ReviewsInv
  <2>8. \A p \in Proc : call[p] = Idle \/ call[p] \in Verdict \/ call[p].op = "insert"
    <3> SUFFICES ASSUME NEW p \in Proc, InsertOK(call[p]) PROVE call[p].op = "insert"
      BY DEF CallsInv, CallOK, VerdictOK
    <3> QED
      BY DEF InsertOK
  <2> QED
    BY <2>1, <2>2, <2>3, <2>4, <2>5, <2>6, <2>7, <2>8 DEF PlanningTypeOK
<1> QED
  BY <1>1, Invariance, PTL

\* No version of a requirement set has an item that depends on itself, however it
\* was derived: createSet checks its dependencies, every other handler copies them
\* or some of them.
THEOREM DependenciesAreOneWay == PlanningSpec => []DependenciesOneWay
<1>1. PlanningInv => DependenciesOneWay
  BY DEF PlanningInv, SetsInv, SetOK, OneWay, DependenciesOneWay
<1> QED
  BY <1>1, Invariance, PTL

\* No version made by whatever mixture of overrides and applied reports drops an
\* override of the planner that he has not withdrawn.
THEOREM OverridesSurvive == PlanningSpec => []OverridesKept
<1>1. PlanningInv => OverridesKept
  BY DEF PlanningInv, SetsInv, SetOK, OverridesKept
<1> QED
  BY <1>1, Invariance, PTL

\* A locked object stays through revisions of any depth: the boards that v keeps
\* the locked objects of contain v and, with each board, the one it revises.
THEOREM LocksSurvive == PlanningSpec => []LockedObjectsKept
<1>1. PlanningInv => LockedObjectsKept
  <2> SUFFICES ASSUME PlanningInv, NEW v \in DOMAIN doc["board"], NEW w \in RevisedFrom(v)
               PROVE  Keeps(doc["board"][v].objects, doc["board"][w].objects)
    BY DEF LockedObjectsKept, Keeps
  <2> DEFINE boards == DOMAIN doc["board"]
             objects(x) == doc["board"][x].objects
             S == {x \in boards : Keeps(objects(v), objects(x))}
  <2>1. v \in S
    BY DEF Keeps
  <2>2. ASSUME NEW x \in S PROVE doc["board"][x].basedOn \in S \cup {0}
    <3> DEFINE b == doc["board"][x].basedOn
    <3> SUFFICES ASSUME b # 0 PROVE b \in S
      OBVIOUS
    <3>1. b \in boards /\ Keeps(objects(x), objects(b))
      BY DEF PlanningInv, BoardsInv, BoardRevises
    <3>2. Keeps(objects(v), objects(x))
      OBVIOUS
    <3>3. Keeps(objects(v), objects(b))
      BY <3>1, <3>2 DEF Keeps
    <3> QED
      BY <3>1, <3>3
  <2>3. w \in S
    BY <2>1, <2>2 DEF RevisedFrom
  <2> QED
    BY <2>3
<1> QED
  BY <1>1, Invariance, PTL

\* No verdict on a board that was not submitted, none without its record.
THEOREM ReviewsHaveRecords == PlanningSpec => []ReviewsRecorded
<1>1. PlanningInv => ReviewsRecorded
  BY DEF PlanningInv, ReviewsInv
<1> QED
  BY <1>1, Invariance, PTL

-----------------------------------------------------------------------------
(***************************************************************************)
(* The refinement                                                          *)
(***************************************************************************)

\* What a version builds on, and the entry of the log it is.
Basis(k, row) ==
    CASE k = "set" -> {<<"design", row.design>>}
                         \cup (IF row.baseline = 0 THEN {} ELSE {<<"set", row.baseline>>})
      [] k = "board" -> {<<"set", row.set>>}
      [] OTHER -> {}

Entry(k, row) == [content |-> row, basis |-> Basis(k, row)]

LEMMA DocLogIs ==
    /\ DocLog = [k \in Kind |-> DocLog[k]]
    /\ \A k \in Kind : DocLog[k] = [v \in 1..Cardinality(DOMAIN doc[k]) |-> Entry(k, doc[k][v])]
BY DEF DocLog, Entry, Basis

\* The log of a document has an entry for each version.
LEMMA LogOf ==
    ASSUME NEW k \in Kind, NEW n \in Nat, DOMAIN doc[k] = 1..n
    PROVE  DocLog[k] = [v \in 1..n |-> Entry(k, doc[k][v])]
<1>0. 1 \in Int /\ n \in Int
  OBVIOUS
<1>1. Cardinality(1..n) = IF 1 > n THEN 0 ELSE n - 1 + 1
  BY <1>0, FS_Interval, Zenon
<1>2. Cardinality(1..n) = n
  BY <1>1
<1> QED
  BY <1>2, DocLogIs

LEMMA LogStep == PlanningInv /\ [PlanningNext]_planningVars => [Log!LogNext]_(Log!logVars)
<1> SUFFICES ASSUME PlanningInv, [PlanningNext]_planningVars
             PROVE  [Log!LogNext]_(Log!logVars)
  OBVIOUS
<1>1. UNCHANGED <<doc, approved>> => UNCHANGED Log!logVars
  BY DEF Log!logVars, DocLog
<1>2. ASSUME NEW p \in Proc, CommitVersion(p) PROVE Log!LogNext
  <2> DEFINE kind == call[p].kind
             content == call[p].content
  <2>1. /\ kind \in Kind /\ UNCHANGED approved
        /\ kind = "set" => SetBasis(content)
        /\ kind = "board" => BoardBasis(content)
        /\ \A k \in Kind \ {kind} : doc'[k] = doc[k]
    BY <1>2, Inserted DEF InsertOK, CommitVersion
  <2>2. PICK n \in Nat : /\ DOMAIN doc[kind] = 1..n
                         /\ DOMAIN doc'[kind] = 1..(n + 1)
                         /\ doc'[kind][n + 1] = content
                         /\ \A v \in 1..n : doc'[kind][v] = doc[kind][v]
    BY <1>2, Inserted
  <2> HIDE DEF kind, content
  <2>3. DocLog[kind] = [v \in 1..n |-> Entry(kind, doc[kind][v])]
    BY <2>1, <2>2, LogOf
  <2>4. DocLog'[kind] = [v \in 1..(n + 1) |-> Entry(kind, doc'[kind][v])]
    <3>1. Cardinality(1..(n + 1)) = n + 1
      BY FS_Interval
    <3>2. \A k \in Kind : DocLog'[k] = [v \in 1..Cardinality(DOMAIN doc'[k]) |-> Entry(k, doc'[k][v])]
      BY DEF DocLog, Entry, Basis
    <3> QED
      BY <2>1, <2>2, <3>1, <3>2
  <2>5. \A k \in Kind \ {kind} : DocLog'[k] = DocLog[k]
    BY <2>1 DEF DocLog
  <2>6. DocLog' = [k \in Kind |-> DocLog'[k]] /\ DocLog = [k \in Kind |-> DocLog[k]]
    BY DEF DocLog
  <2>7. Basis(kind, content) \subseteq approved
    BY <2>1 DEF Basis, SetBasis, BoardBasis
  <2> DEFINE E == {Entry(kind, doc[kind][v]) : v \in 1..n} \cup {Entry(kind, content)}
  <2>8. /\ DocLog[kind] \in [1..n -> E] /\ Entry(kind, content) \in E
        /\ DocLog'[kind] = [v \in 1..(n + 1) |->
                               IF v = n + 1 THEN Entry(kind, content) ELSE DocLog[kind][v]]
    BY <2>2, <2>3, <2>4
  <2> HIDE DEF E
  <2>9. DocLog[kind] \in Seq(E) /\ Len(DocLog[kind]) = n
    BY <2>8
  <2>10. DocLog'[kind] = Append(DocLog[kind], Entry(kind, content))
    BY <2>8, <2>9
  <2>11. /\ Len(DocLog'[kind]) = Len(DocLog[kind]) + 1
         /\ DocLog'[kind][Len(DocLog[kind]) + 1] = Entry(kind, content)
    BY <2>8, <2>9, <2>10
  <2>12. DocLog' = [DocLog EXCEPT ![kind] =
                       Append(DocLog[kind], DocLog'[kind][Len(DocLog[kind]) + 1])]
    BY <2>1, <2>5, <2>6, <2>10, <2>11
  <2>13. DocLog'[kind][Len(DocLog[kind]) + 1].basis \subseteq approved
    BY <2>7, <2>11 DEF Entry
  <2>14. Log!AppendVersion(kind)
    BY <2>1, <2>11, <2>12, <2>13 DEF Log!AppendVersion
  <2> QED
    BY <2>1, <2>14 DEF Log!LogNext
<1>3. ASSUME NEW k \in {"design", "set"}, NEW v \in DOMAIN doc[k],
             approved' = approved \cup {<<k, v>>}, UNCHANGED doc
      PROVE  Log!LogNext
  <2>1. k \in Kind
    BY DEF Kind
  <2>2. PICK n \in 0..MaxVersion[k] : DOMAIN doc[k] = 1..n
    BY <2>1 DEF PlanningInv, DocsInv
  <2>3. n \in Nat
    BY <2>1, PlanningAssumption
  <2>4. v \in DOMAIN DocLog[k]
    BY <2>1, <2>2, <2>3, LogOf
  <2>5. DocLog' = DocLog
    BY <1>3 DEF DocLog
  <2>6. Log!Approve(k, v)
    BY <1>3, <2>4, <2>5 DEF Log!Approve
  <2> QED
    BY <2>1, <2>4, <2>6 DEF Log!LogNext
<1>4. ASSUME NEW p \in Proc, NewCall(p) PROVE UNCHANGED <<doc, approved>>
  BY <1>4 DEF NewCall, createClientBriefVersion, createEventDesignVersion, createSet,
     overrideQuantity, applyReport, create, CheckBoard, Prepare
<1>5. ASSUME NEW p \in Proc, ReadLatest(p) \/ WriteBoard(p) \/ Throw(p)
      PROVE  UNCHANGED <<doc, approved>>
  BY <1>5 DEF ReadLatest, WriteBoard, Throw
<1>6. ASSUME NEW s, NEW input, NEW unchanged,
             createReport(s, input.proposed, unchanged, input.added)
      PROVE  UNCHANGED <<doc, approved>>
  BY <1>6 DEF createReport
<1>7. ASSUME \/ \E d \in DOMAIN doc["design"] : approveEventDesignVersion(d)
             \/ \E s \in DOMAIN doc["set"] : approveSet(s)
      PROVE  Log!LogNext
  BY <1>3, <1>7 DEF approveEventDesignVersion, approveSet
<1>8. CASE UNCHANGED planningVars
  BY <1>1, <1>8 DEF planningVars
<1>9. CASE PlanningNext
  BY <1>1, <1>2, <1>4, <1>5, <1>6, <1>7, <1>9 DEF PlanningNext
<1> QED
  BY <1>8, <1>9

LEMMA LogInitially == PlanningInit => Log!LogInit
<1> SUFFICES ASSUME PlanningInit PROVE Log!LogInit
  OBVIOUS
<1>1. \A k \in Kind : DOMAIN doc[k] = 1..0
  BY DEF PlanningInit, Empty
<1>2. ASSUME NEW k \in Kind PROVE DocLog[k] = <<>>
  <2>1. DocLog[k] = [v \in 1..0 |-> Entry(k, doc[k][v])]
    BY <1>1, LogOf
  <2>2. DocLog[k] \in [1..0 -> {}]
    BY <2>1
  <2>3. DocLog[k] \in Seq({}) /\ Len(DocLog[k]) = 0
    BY <2>2
  <2> QED
    BY <2>3, EmptySeq
<1>3. DocLog = [k \in Kind |-> DocLog[k]]
  BY DEF DocLog
<1> QED
  BY <1>2, <1>3 DEF PlanningInit, Log!LogInit

\* The documents of an event are logs of versions, appended one after the other
\* on what has been approved and never changed, whatever handlers run at once.
THEOREM VersionsAreLogs == PlanningSpec => VersionsFormLogs
<1>1. PlanningInit => Log!LogInit
  BY LogInitially
<1>2. PlanningInv /\ [PlanningNext]_planningVars => [Log!LogNext]_(Log!logVars)
  BY LogStep
<1> QED
  BY <1>1, <1>2, Invariance, PTL DEF PlanningSpec, VersionsFormLogs, Log!LogSpec

=============================================================================

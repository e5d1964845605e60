---------------------------- MODULE MCEventPlanning --------------------------
(***************************************************************************)
(* The instance of EventPlanning for TLC.                                  *)
(***************************************************************************)
EXTENDS EventPlanning, TLC

CONSTANTS p1, p2

Symmetry == Permutations({p1, p2})

\* Three sets over two codes and the third an Added item takes; three boards.
Versions == [brief |-> 1, design |-> 1, set |-> 3, board |-> 3]

\* Two items, the second depending on the first; a cycle, which is refused; and
\* one item alone, for the boards.
Sets == { [items |-> <<1, 1>>, dependencies |-> {<<1, 2>>}],
          [items |-> <<1, 1>>, dependencies |-> {<<1, 2>>, <<2, 1>>}],
          [items |-> <<1>>, dependencies |-> {}] }

\* A report that changes or keeps quantities, and one that leaves the first item
\* out and adds a new one.
Reports == { [proposed |-> <<1, 2>>, added |-> 0],
             [proposed |-> (2 :> 1), added |-> 2] }

Board(look, locked) == [code |-> 1, look |-> look, locked |-> locked]

Boards == { [supplied |-> <<Board("a", TRUE)>>, unkeyed |-> {}],
            [supplied |-> <<Board("a", FALSE)>>, unkeyed |-> {Board("b", TRUE)}],
            [supplied |-> <<Board("a", TRUE)>>, unkeyed |-> {Board("b", TRUE)}] }

\* State constraint: later sets and reports are explored over the set of two
\* items and boards over the set of one, so that the run is the sum of the two
\* state spaces and not their product.
Preparing(kind) == \E p \in Proc : call[p].op = "insert" /\ call[p].kind = kind

Apart ==
    IF 1 \in DOMAIN doc["set"] /\ DOMAIN doc["set"][1].items = {1}
    THEN DOMAIN doc["set"] = {1} /\ DOMAIN report = {} /\ ~Preparing("set")
    ELSE DOMAIN doc["board"] = {} /\ ~Preparing("board")

\* validateDependencyGraph accepts the one-way graphs over existing items, and
\* no other.
ASSUME DependencyGraphs ==
    \A n \in Code : \A edges \in SUBSET (Code \X Code) :
        validateDependencyGraph(1..n, edges) <=>
            /\ edges \subseteq (1..n) \X (1..n)
            /\ \A c \in 1..n : c \notin Reachable(edges, c)
=============================================================================

--------------------------- MODULE MCPurchaseOrders ---------------------------
(***************************************************************************)
(* Instances of PurchaseOrders for TLC.                                    *)
(***************************************************************************)
EXTENDS PurchaseOrders, TLC

CONSTANTS p1, p2, i1, a, b, o1, l1, l2, l3

\* One unit at the first location.
OneUnitAtA == [c \in Cell |-> IF c[2] = a THEN 1 ELSE 0]

Get(l, accepted, damaged) ==
    [line |-> l, item |-> i1, accepted |-> accepted, damaged |-> damaged]

\* Two lines of one unit each, of the same item, or one.
OneOrTwoLines ==
    { << [item |-> i1, ordered |-> 1], [item |-> i1, ordered |-> 1] >>,
      << [item |-> i1, ordered |-> 1] >> }

\* A unit of one line, a damaged unit of the other, both lines, a line twice.
Deliveries ==
    { << Get(l1, 1, 0) >>, << Get(l2, 0, 1) >>,
      << Get(l1, 1, 0), Get(l2, 1, 0) >>, << Get(l1, 1, 0), Get(l1, 1, 0) >> }

\* A single line of one unit, and its delivery.
OneUnit == { << [item |-> i1, ordered |-> 1] >> }
OneDelivery == { << Get(l1, 1, 0) >> }

Symmetry == Permutations(Proc)

=============================================================================

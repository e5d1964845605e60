-------------------------- MODULE MCEventResources --------------------------
(***************************************************************************)
(* Instances of EventResources for TLC.                                    *)
(***************************************************************************)
EXTENDS EventResources, TLC

CONSTANTS p1, p2, r1, e1

MCWindow == {<<1, 3>>}

OneUnit == {[mode |-> "QUANTITY", total |-> 1, unavailable |-> FALSE]}

Ask(r, q, partial) ==
    [slot |-> NoSlot, resource |-> r, quantity |-> q, window |-> <<1, 3>>,
     status |-> "RESERVED", allowPartial |-> partial]

\* The smallest request.
OneRequest == { << Ask(r1, 1, FALSE) >> }

\* A request that can be met in part.
PartialRequest == { << Ask(r1, 2, TRUE) >> }

Symmetry == Permutations(Proc)
=============================================================================

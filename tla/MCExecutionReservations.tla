----------------------- MODULE MCExecutionReservations -----------------------
(***************************************************************************)
(* An instance of ExecutionReservations for TLC: one resource of one unit, *)
(* one event.                                                              *)
(***************************************************************************)
EXTENDS ExecutionReservations

CONSTANTS p1, p2, r1, e1

MCWindow == {<<1, 3>>}

OneUnit == {[mode |-> "SERIALIZED", total |-> 1, unavailable |-> FALSE]}

NoRequests == {}

OneUnitRequest == { << [resource |-> r1, quantity |-> 1, window |-> <<1, 3>>] >> }

=============================================================================

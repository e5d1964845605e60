----------------------- MODULE MCResourceReservations -----------------------
(***************************************************************************)
(* Instances of ResourceReservations for TLC.                              *)
(***************************************************************************)
EXTENDS ResourceReservations, TLC

CONSTANTS p1, p2, r1, r2, e1

\* Handlers are interchangeable. Used for safety only: MCAllocations checks liveness
\* and goes without it.
Symmetry == Permutations({p1, p2})

\* Two windows that overlap without being equal.
MCWindow == {<<1, 3>>, <<2, 4>>}
MCOneWindow == {<<1, 3>>}

Stock(mode, total, unavailable) ==
    [mode |-> mode, total |-> total, unavailable |-> unavailable]

\* Three units: two reservations of at most two units may or may not fit.
ThreeUnits == {Stock("QUANTITY", 3, FALSE)}

\* One unit that a client puts out of service and back, changing its mode.
EditedStock == {Stock("CAPACITY", 1, FALSE), Stock("QUANTITY", 1, TRUE)}

\* State constraint: what plain updates do is explored with one unit, asked for
\* unit by unit in one window, and the interleavings of the admissions without
\* plain updates: the run is the sum of the two state spaces and not their product.
Stocks == ThreeUnits \cup EditedStock

Small(row) == row.quantity = 1 /\ row.window = <<1, 3>>

Apart ==
    IF \E s \in seen[r1] : s[2] = 3
    THEN /\ \A s \in seen[r1] : s[2] = 3
         /\ ~resource[r1].archived
         /\ \A i \in Slot : reservation[i].status \notin FreedStatus
    ELSE /\ \A i \in Slot : reservation[i].status # "FREE" => i # 3 /\ Small(reservation[i])
         /\ \A p \in Proc : Active(p) => \A k \in DOMAIN txn[p].todo : Small(txn[p].todo[k])

OneUnit == {Stock("QUANTITY", 1, FALSE)}

NoRequests == {}

Ask(r, q, partial) ==
    [slot |-> NoSlot, resource |-> r, quantity |-> q, window |-> <<1, 3>>,
     status |-> "RESERVED", allowPartial |-> partial]

\* Two lists that lock the same resources in opposite orders; one of them can be
\* met only in part, the other insists on its first request.
CrossedRequests ==
    { << Ask(r1, 1, FALSE), Ask(r2, 1, TRUE) >>,
      << Ask(r2, 2, TRUE), Ask(r1, 1, TRUE) >> }
=============================================================================

-------------------------- MODULE MCAssetManagement --------------------------
(***************************************************************************)
(* Instance of AssetManagement, and with it of EventLifecycle, and of      *)
(* FinanceControl for TLC.  Six parts are explored apart from each other.  *)
(* Of assets the lifecycle of an event sees nothing but incidents: it is   *)
(* explored with one instance that has them at any time.  While a call of  *)
(* synchronize is in progress, which asks only whether an execution and a  *)
(* finance workspace exist, the execution is not under way or at its end,  *)
(* no finance record is settled and no other request is in progress; two   *)
(* calls at once are explored without a commitment made by hand.  The end  *)
(* of the execution, on which nothing of an award or incident depends, is  *)
(* explored without them, with closeout items of synchronize or others.    *)
(* Without a lifecycle, what else may become of assets is explored:        *)
(* reservations of two instances and a stock, or the ends of one instance. *)
(* Budgets and invoices share no state with these or with each other: a    *)
(* behaviour that has one of them has nothing else.                        *)
(***************************************************************************)
EXTENDS AssetManagement, FinanceControl, TLC

CONSTANTS p1, p2, a1, i1, x, z, y1, y2

Wish(d, i, q, f, t) == [definition |-> d, instance |-> i, quantity |-> q, from |-> f, to |-> t]

MCWanted == {Wish("Serialized", x, 1, 1, 3), Wish("Serialized", x, 1, 2, 4),
             Wish("Quantity", NoInstance, 2, 1, 3)}

Synchronizing == \E p \in Proc : request[p].op = "synchronize"

Ending ==
    \/ execution.completedAt \/ execution.cancelledAt
    \/ \E i \in DOMAIN closeout : closeout[i].done
    \/ \E p \in Proc : request[p].op \notin {"synchronize", "idle"}

Reserving == reservation # Empty \/ \E p \in Proc : handling[p].op = "reserve"

Disposing == serviced # {} \/ disposal # Empty

AssetsAtRest ==
    /\ ~Reserving /\ ~Disposing /\ overtaken = {} /\ \A p \in Proc : Free(p)
    /\ instance = Put(Empty, x, [status |-> "OutOfUse", archivedAt |-> FALSE])

NoLifecycle == ~Exists /\ workspace = "None" /\ source = {} /\ ~Synchronizing /\ ~overlapped

NoFinance == budget = Empty /\ invoice = Empty /\ \A p \in Handler : financeCall[p] = NoCall

Apart ==
    /\ Ending => ~Synchronizing /\ ~overlapped /\ source = {}
    /\ overlapped => byHand = {}
    /\ Synchronizing => /\ execution.status # "Underway"
                        /\ workspace = "None" \/ open = Control
    /\ Reserving => /\ ~Disposing
                    /\ \A p \in Proc : handling[p].op \in {"reserve", "idle"}
                    /\ \A i \in {x, z} : i \in DOMAIN instance /\ Usable(i)
    /\ Disposing => DOMAIN instance = {x}
    /\ \/ invoice = Empty
       \/ budget = Empty /\ \A p \in Handler : financeCall[p].op # "createBudget"

\* The steps of AssetNext that keep to one part, and those of FinanceNext.
ApartNext ==
    \/ /\ NoFinance /\ UNCHANGED financeVars
       /\ \/ NoLifecycle /\ AssetStep /\ UNCHANGED source
          \/ AssetsAtRest /\ (createIncident(x) \/ (LifecycleNext /\ UNCHANGED assetVars))
    \/ NoLifecycle /\ instance = Empty /\ FinanceNext /\ UNCHANGED <<lifecycleVars, assetVars>>

ApartInit == AssetInit /\ FinanceInit

ApartSpec == ApartInit /\ [][ApartNext]_<<lifecycleVars, assetVars, financeVars>>

Symmetry == Permutations({p1, p2}) \cup Permutations({y1, y2})
=============================================================================

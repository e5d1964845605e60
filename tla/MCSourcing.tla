------------------------------ MODULE MCSourcing ------------------------------
(***************************************************************************)
(* Instance of Sourcing and of PurchaseOrderDrafts for TLC: two requests   *)
(* at a time, one supplier, two items of which an RFQ sent out names one,  *)
(* two solutions and two versions of its quote; two drafts and two         *)
(* purchase orders.  The two modules share no state: a behaviour has a     *)
(* package in progress or drafts, not both.                                *)
(***************************************************************************)
EXTENDS Sourcing, PurchaseOrderDrafts, TLC

CONSTANTS p1, p2, s1, i1, i2, d1, d2, o1, o2

OneSolution == { {[i \in Item |-> s1]} }
Revisions == { {i1}, {i2} }

\* An RFQ may be left with two lines, by one revision or by two that overlap;
\* what follows its sending is explored for one line.
OneLineSent ==
    (\E s \in DOMAIN rfq : rfq[s].status = "Sent") => \A s \in DOMAIN rfq : rfq[s].items = {i1}

NoDrafts == /\ draft = [d \in Draft |-> NewDraft]
            /\ purchaseOrder = [o \in PurchaseOrder |-> NewOrder]

NoSourcing == solution = Empty /\ \A p \in Proc : call[p] = Idle

ApartNext == \/ NoDrafts /\ SourcingNext /\ UNCHANGED draftVars
             \/ NoSourcing /\ DraftNext /\ UNCHANGED sourcingVars

ApartInit == SourcingInit /\ DraftInit

ApartSpec == ApartInit /\ [][ApartNext]_<<sourcingVars, draftVars>>

Symmetry == Permutations({p1, p2}) \cup Permutations({o1, o2})
=============================================================================

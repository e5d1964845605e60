----------------------------- MODULE VersionLog -----------------------------
(***************************************************************************)
(* What the versioned documents of an event promise: each kind of document *)
(* is a log to which versions are appended and in which no version is ever *)
(* changed or removed; a version is approved once and for all; and it is   *)
(* appended only when the versions it builds on have been approved.        *)
(***************************************************************************)
EXTENDS Naturals, Sequences

CONSTANTS Kind   \* kinds of documents

VARIABLES
    log,       \* [Kind -> Seq of versions], a version being [basis, content]
    approved   \* the <<kind, version number>> approved

logVars == <<log, approved>>

LogInit ==
    /\ log = [k \in Kind |-> <<>>]
    /\ approved = {}

\* The next version of document k, whatever it contains.
AppendVersion(k) ==
    /\ Len(log'[k]) = Len(log[k]) + 1
    /\ log' = [log EXCEPT ![k] = Append(@, log'[k][Len(log[k]) + 1])]
    /\ log'[k][Len(log[k]) + 1].basis \subseteq approved
    /\ UNCHANGED approved

Approve(k, v) ==
    /\ v \in DOMAIN log[k]
    /\ approved' = approved \cup {<<k, v>>}
    /\ UNCHANGED log

LogNext ==
    \E k \in Kind : AppendVersion(k) \/ \E v \in DOMAIN log[k] : Approve(k, v)

LogSpec == LogInit /\ [][LogNext]_logVars

=============================================================================

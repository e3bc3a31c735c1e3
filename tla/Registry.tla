------------------------------ MODULE Registry ------------------------------
(***************************************************************************)
(* What the stores of runbooks and policies promise: under every name a    *)
(* log of immutable documents that only grows at its end, and executions   *)
(* that keep the document they were started with.                          *)
(***************************************************************************)
EXTENDS Naturals, Sequences

CONSTANTS Name, Document

VARIABLES log,        \* [Name -> Seq(Document)]
          pinned      \* what executions were started with, [name, version, document]

Init == log = [n \in Name |-> <<>>] /\ pinned = {}

Publish(n) ==
    /\ \E d \in Document : log' = [log EXCEPT ![n] = Append(@, d)]
    /\ UNCHANGED pinned

Pin(n) ==
    /\ \E v \in DOMAIN log[n] :
         pinned' = pinned \cup {[name |-> n, version |-> v, document |-> log[n][v]]}
    /\ UNCHANGED log

Next == \E n \in Name : Publish(n) \/ Pin(n)

Spec == Init /\ [][Next]_<<log, pinned>>
=============================================================================

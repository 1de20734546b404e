---------------------------- MODULE SettlementLog ----------------------------
(***************************************************************************)
(* What a settlement store promises the mesh: an assignment enters the log *)
(* once and stays, and each marker is set or cleared on its own.           *)
(***************************************************************************)
CONSTANT Ids

VARIABLES log, markers

vars == <<log, markers>>

Init == log = {} /\ markers = {}

Append(a) == a \notin log /\ log' = log \cup {a} /\ UNCHANGED markers
Mark(a) == markers' = markers \cup {a} /\ UNCHANGED log
Clear(a) == markers' = markers \ {a} /\ UNCHANGED log

Next == \E a \in Ids : Append(a) \/ Mark(a) \/ Clear(a)

Spec == Init /\ [][Next]_vars
==============================================================================

---------------------------- MODULE Settlement ----------------------------
(***************************************************************************)
(* What a persistent mesh promises about an assignment, whatever threads,  *)
(* faults and restarts there are: its electorate is fixed once, each peer  *)
(* votes once, and once every peer has voted and one side has won, that    *)
(* side is the outcome forever.                                            *)
(***************************************************************************)
EXTENDS Naturals, FiniteSets

CONSTANTS Assignments, Agents, None

VARIABLES electorate,  \* assignment -> [peers, quorum], or None
          ballots,     \* assignment -> agent -> TRUE, FALSE or None
          outcome      \* assignment -> TRUE, FALSE or None

vars == <<electorate, ballots, outcome>>

Init == /\ electorate = [a \in Assignments |-> None]
        /\ ballots = [a \in Assignments |-> [p \in Agents |-> None]]
        /\ outcome = [a \in Assignments |-> None]

\* A strict majority is part of the promise: both sides cannot win.
Call(a, P, q) == /\ electorate[a] = None
                 /\ 2 * q > Cardinality(P)
                 /\ electorate' = [electorate EXCEPT ![a] = [peers |-> P, quorum |-> q]]
                 /\ UNCHANGED <<ballots, outcome>>

Cast(a, p, d) == /\ electorate[a] # None /\ p \in electorate[a].peers
                 /\ ballots[a][p] = None
                 /\ ballots' = [ballots EXCEPT ![a][p] = d]
                 /\ UNCHANGED <<electorate, outcome>>

Side(a, d) == {p \in electorate[a].peers : ballots[a][p] = d}

Decide(a, d) == /\ electorate[a] # None /\ outcome[a] = None
                /\ \A p \in electorate[a].peers : ballots[a][p] # None
                /\ Cardinality(Side(a, d)) >= electorate[a].quorum
                /\ outcome' = [outcome EXCEPT ![a] = d]
                /\ UNCHANGED <<electorate, ballots>>

Next == \E a \in Assignments :
          \/ \E P \in SUBSET Agents : \E q \in 1..Cardinality(P) : Call(a, P, q)
          \/ \E p \in Agents, d \in BOOLEAN : Cast(a, p, d)
          \/ \E d \in BOOLEAN : Decide(a, d)

Spec == Init /\ [][Next]_vars
===========================================================================

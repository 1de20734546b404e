--------------------------- MODULE MeshInvariant ----------------------------
(***************************************************************************)
(* The inductive invariant of Mesh: the types, what a thread holds at each *)
(* label, and the facts about electorates, records and the disk that the   *)
(* safety of settlement rests on.                                          *)
(***************************************************************************)
EXTENDS Mesh

\* TypeOK but for the sign of the pending counter.
Types ==
    /\ halted \in BOOLEAN /\ hash \in Hashes /\ cgen \in Nat
    /\ staleFlag \in BOOLEAN
    /\ agents \subseteq Agents /\ key \in [Agents -> Keys \cup {None}]
    /\ signed \in [Assignments -> Signed \cup {None}]
    /\ asg \in [Assignments -> {"none", "open", "recovered"}]
    /\ npending \in Int
    /\ votes \in [Assignments -> Ballots]
    /\ final \in Shelf /\ order \in Seq(Assignments)
    /\ req \in [Assignments -> Snapshot \cup {None}]
    /\ pc \in [Callers -> Labels]
    /\ kind \in [Callers -> {"settle", "reconcile"}]
    /\ cur \in [Callers -> Assignments \cup {None}]
    /\ rec \in [Callers -> Record \cup {None}]
    /\ fence \in [Callers -> (Nat \X Hashes) \cup {None}]
    /\ todo \in [Callers -> Shelf] /\ index \in [Callers -> Shelf \cup {None}]
    /\ cast \in [Assignments -> Ballots] /\ stamps \in [Assignments -> Nat]
    /\ used \in [restarts : Nat, membership : Nat, faults : Nat]
    /\ durable \in Shelf /\ pending \in Shelf /\ receipt \in Shelf
    /\ evLock \in Callers \cup {None}

\* Where a thread is tells what it holds.
Busy == Labels \ {"idle", "scan"}
Threads ==
    \A c \in Callers :
      /\ pc[c] \in Busy => cur[c] \in Assignments
      /\ pc[c] \in Busy \ {"voted"} => rec[c] \in Record
      /\ pc[c] \notin Busy => cur[c] = None
      /\ pc[c] \notin Busy \ {"voted"} => rec[c] = None
      /\ pc[c] \in {"idle", "voted", "mark", "install", "clear", "finish"} => kind[c] = "settle"
      /\ pc[c] \in {"scan", "verify", "lookup", "adopt", "adopted"} => kind[c] = "reconcile"
      /\ kind[c] = "reconcile" => Persistent

-----------------------------------------------------------------------------
(* The inductive invariant, beside Types and Threads *)

\* A record that is there is a sound one.
Good(s, b, r) == r # None => Sound(s, b, r)

\* Ballots are those of the signed peers, and an open assignment has them all.
Electorates ==
    \A a \in Assignments :
      /\ signed[a] = None => asg[a] = "none" /\ cast[a] = NoBallots
      /\ req[a] # None => signed[a] = None
      /\ asg[a] = "open" => votes[a] = cast[a]
      /\ \A p \in Agents : cast[a][p] # None => p \in signed[a].peers

\* OneOutcome, place by place: on the shelves and in the hands of threads.
ShelvesSound ==
    \A a \in Assignments :
      /\ Good(signed[a], cast[a], final[a])
      /\ Good(signed[a], cast[a], durable[a])
      /\ Good(signed[a], cast[a], pending[a])
      /\ Good(signed[a], cast[a], receipt[a])

LocalsSound ==
    \A a \in Assignments, c \in Callers :
      /\ cur[c] = a => Good(signed[a], cast[a], rec[c])
      /\ Good(signed[a], cast[a], todo[c][a])
      /\ index[c] # None => Good(signed[a], cast[a], index[c][a])

\* What a thread knows of its assignment and of the disk at each label.
Holds(c) ==
    /\ pc[c] \in Busy => signed[cur[c]] # None
    /\ pc[c] = "install" /\ Persistent => pending[cur[c]] # None \/ durable[cur[c]] # None
    /\ pc[c] = "finish" /\ Persistent => durable[cur[c]] # None
    /\ pc[c] \in {"clear", "lookup"} => durable[cur[c]] # None
    /\ pc[c] \in {"adopt", "adopted"} => durable[cur[c]] = rec[c]
    /\ pc[c] = "append" => /\ evLock = c
                           /\ receipt[cur[c]] = rec[c]
                           /\ durable[cur[c]] = None
    /\ \A a \in Assignments :
         index[c] # None => (index[c][a] # None => index[c][a] = durable[a])

Holding == \A c \in Callers : Holds(c)

OpenOf(f) == {a \in Assignments : f[a] = "open"}

\* The invariants of Mesh about the disk need what the threads know.
Disk == Holding /\ EvidenceBound /\ RecoveredIsDurable /\ InstalledRecoverable

Inv == /\ Types /\ Threads /\ Electorates /\ PendingCounterExact
       /\ ShelvesSound /\ LocalsSound /\ Disk

=============================================================================

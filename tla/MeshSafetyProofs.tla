-------------------------- MODULE MeshSafetyProofs --------------------------
(***************************************************************************)
(* The safety of settlement, for every number of agents, assignments and   *)
(* threads: the invariant is inductive, and the invariants of Mesh follow. *)
(***************************************************************************)
EXTENDS MeshProofs, MeshDiskProofs

-----------------------------------------------------------------------------
(* The theorems *)

\* The inductive invariant holds initially.
LEMMA InitInv == Init => Inv
  <1> SUFFICES ASSUME Init PROVE Inv
    OBVIOUS
  <1>1. Types /\ Threads
    BY InitTypes, InitThreads
  <1>2. Electorates
    BY Zenon DEF Init, Electorates, EmptyShelf, NoBallots
  <1>3. PendingCounterExact
    <2>1. OpenOf(asg) = {}
      BY DEF Init, OpenOf
    <2>2. npending = 0 /\ Cardinality(OpenOf(asg)) = 0
      BY <2>1, FS_EmptySet, Zenon DEF Init
    <2>3. MaxPending \in Nat
      BY MeshAssumption
    <2>4. QED
      BY <2>2, <2>3, CounterForm
  <1>4. ShelvesSound /\ LocalsSound
    BY NoneIsGood DEF Init, StoreInit, EmptyShelf, ShelvesSound, LocalsSound
  <1>5. Disk
    BY DEF Init, StoreInit, EmptyShelf, Disk, Holding, Holds, Busy, EvidenceBound,
           RecoveredIsDurable, InstalledRecoverable
  <1>6. QED
    BY <1>1, <1>2, <1>3, <1>4, <1>5, ZenonT(40) DEF Inv

\* The invariant holds in every reachable state of the mesh.
THEOREM Invariance == Spec => []Inv
  <1>1. Inv /\ [Next]_vars => Inv'
    BY StepTypes, BooksStep, SoundStep, DiskStep DEF Inv
  <1>2. QED
    BY InitInv, <1>1, PTL DEF Spec

\* Every variable keeps its type; the counter never goes below zero.
THEOREM TypeCorrect == Spec => []TypeOK
  <1>1. Inv => TypeOK
    <2> SUFFICES ASSUME Inv PROVE TypeOK
      OBVIOUS
    <2>1. npending \in Nat
      BY CounterForm, OpenFinite DEF Inv
    <2>2. Types
      BY DEF Inv
    <2>3. QED
      BY <2>1, <2>2, ZenonT(40) DEF Types, TypeOK
  <1>2. QED
    BY Invariance, <1>1, PTL

\* The counter read by admission control equals the number of open
\* assignments and never exceeds max_pending_assignments.
THEOREM CounterIsExact == Spec => []PendingCounterExact
  <1>1. Inv => PendingCounterExact
    BY DEF Inv
  <1>2. QED
    BY Invariance, <1>1, PTL

\* All records of an assignment, in the log, the markers, the receipts, the
\* result cache and the hands of threads, carry the same complete ballots and
\* the one outcome those ballots have.
THEOREM OutcomeIsOne == Spec => []OneOutcome
  <1>1. Inv => OneOutcome
    <2> SUFFICES ASSUME Inv, NEW a \in Assignments, NEW r \in Records(a)
                 PROVE  Sound(signed[a], cast[a], r)
      BY DEF OneOutcome
    <2>1. r # None
      BY DEF Records
    <2>2. Good(signed[a], cast[a], r)
      BY DEF Records, Inv, ShelvesSound, LocalsSound
    <2>3. QED
      BY <2>1, <2>2 DEF Good
  <1>2. QED
    BY Invariance, <1>1, PTL

\* A result frozen by settle is recoverable after a crash at any point, an
\* assignment shown as recovered is durable, and a durable record has its own
\* receipt.
THEOREM SettlementIsDurable ==
    Spec => [](InstalledRecoverable /\ RecoveredIsDurable /\ EvidenceBound)
  <1>1. Inv => InstalledRecoverable /\ RecoveredIsDurable /\ EvidenceBound
    BY DEF Inv, Disk
  <1>2. QED
    BY Invariance, <1>1, PTL

\* What reconciliation makes active is the snapshot in the log, settled_at
\* included, however old its copy of the log is and whoever appended since
\* (_require_matching_durable_settlement).
THEOREM AdoptionIsDurable == Spec => []AdoptsTheDurable
  <1>1. Inv => AdoptsTheDurable
    BY DEF Inv, Disk, Holding, Holds, AdoptsTheDurable
  <1>2. QED
    BY Invariance, <1>1, PTL
=============================================================================

----------------------------- MODULE MeshProofs -----------------------------
(***************************************************************************)
(* Every step of the mesh keeps the types and the discipline of its        *)
(* threads, for every number of agents, assignments and threads, every     *)
(* quorum and capacity, and every number of rotations, faults and restarts.*)
(***************************************************************************)
EXTENDS MeshInvariant, FiniteSetTheorems, SequenceTheorems, TLAPS

\* The state a mesh is constructed in has its types.
LEMMA InitTypes == Init => Types
  <1> SUFFICES ASSUME Init PROVE Types
    OBVIOUS
  <1> USE ModelAssumption DEF Init, StoreInit, EmptyShelf, NoBallots
  <1>1. key \in [Agents -> Keys \cup {None}]
    OBVIOUS
  <1>2. order \in Seq(Assignments)
    OBVIOUS
  <1>3. EmptyShelf \in Shelf /\ NoBallots \in Ballots
    BY DEF Shelf, Ballots
  <1>4. durable \in Shelf /\ pending \in Shelf /\ receipt \in Shelf
    BY <1>3
  <1>5. used \in [restarts : Nat, membership : Nat, faults : Nat]
    OBVIOUS
  <1>6. /\ hash \in Hashes /\ cgen \in Nat
        /\ agents \subseteq Agents /\ npending \in Int
        /\ evLock \in Callers \cup {None}
    BY DEF StoreInit
  <1>6a. halted \in BOOLEAN /\ staleFlag \in BOOLEAN
    BY Zenon
  <1>7. /\ signed \in [Assignments -> Signed \cup {None}]
        /\ asg \in [Assignments -> {"none", "open", "recovered"}]
        /\ req \in [Assignments -> Snapshot \cup {None}]
        /\ stamps \in [Assignments -> Nat]
    OBVIOUS
  <1>8. /\ pc \in [Callers -> Labels]
        /\ kind \in [Callers -> {"settle", "reconcile"}]
        /\ cur \in [Callers -> Assignments \cup {None}]
        /\ rec \in [Callers -> Record \cup {None}]
        /\ fence \in [Callers -> (Nat \X Hashes) \cup {None}]
    BY DEF Labels
  <1>9. /\ todo \in [Callers -> Shelf] /\ index \in [Callers -> Shelf \cup {None}]
        /\ votes \in [Assignments -> Ballots] /\ cast \in [Assignments -> Ballots]
        /\ final \in Shelf
    BY <1>3
  <1>10. QED
    BY <1>1, <1>2, <1>4, <1>5, <1>6, <1>6a, <1>7, <1>8, <1>9, Zenon DEF Types

\* Spending one unit of a bound.
LEMMA UsedTypes ==
    ASSUME NEW u \in [restarts : Nat, membership : Nat, faults : Nat]
    PROVE  /\ [u EXCEPT !.restarts = @ + 1] \in [restarts : Nat, membership : Nat, faults : Nat]
           /\ [u EXCEPT !.membership = @ + 1] \in [restarts : Nat, membership : Nat, faults : Nat]
           /\ [u EXCEPT !.faults = @ + 1] \in [restarts : Nat, membership : Nat, faults : Nat]
  OBVIOUS

\* Bumped snapshots are snapshots.
LEMMA BumpedType ==
    ASSUME req \in [Assignments -> Snapshot \cup {None}]
    PROVE  Bumped \in [Assignments -> Snapshot \cup {None}]
  <1>1. ASSUME NEW r \in Snapshot PROVE [r EXCEPT !.fresh = FALSE] \in Snapshot
    BY Zenon DEF Snapshot
  <1>2. QED
    BY <1>1 DEF Bumped

\* Each control step keeps the types.
LEMMA ControlTypes == Types /\ Control => Types'
  <1> SUFFICES ASSUME Types, Control PROVE Types'
    OBVIOUS
  <1>0. Bumped \in [Assignments -> Snapshot \cup {None}]
    BY BumpedType DEF Types
  <1> USE DEF Types, ctlVars, memberVars, asgVars, finalVars, threadVars, histVars, storeVars
  <1>1. CASE Halt
    BY <1>0, <1>1 DEF Halt
  <1>2. CASE Resume
    BY <1>0, <1>2, Zenon DEF Resume
  <1>3. ASSUME NEW p \in Agents, NEW k \in Keys, Register(p, k) PROVE Types'
    BY <1>0, <1>3, UsedTypes, Zenon DEF Register, Membership
  <1>4. ASSUME NEW p \in Agents, Unregister(p) PROVE Types'
    BY <1>0, <1>4, UsedTypes, Zenon DEF Unregister, Membership
  <1>5. ASSUME NEW h \in Hashes, RotateConstitution(h) PROVE Types'
    BY <1>0, <1>5 DEF RotateConstitution
  <1>6. ASSUME NEW a \in Assignments, TouchStale(a) PROVE Types'
    BY <1>6 DEF TouchStale
  <1>7. QED
    BY <1>1, <1>2, <1>3, <1>4, <1>5, <1>6, Zenon DEF Control

\* The counter and the shelves after _remember_final_result_locked.
LEMMA RememberTypes ==
    ASSUME Types, NEW a \in Assignments, NEW r \in Record \cup {None},
           NEW at \in [Assignments -> {"none", "open", "recovered"}], NEW n \in Int,
           NEW vt \in [Assignments -> Ballots],
           Remember(a, r, at, n, vt)
    PROVE  /\ order' \in Seq(Assignments) /\ final' \in Shelf
           /\ asg' \in [Assignments -> {"none", "open", "recovered"}]
           /\ npending' \in Int /\ votes' \in [Assignments -> Ballots]
  <1> DEFINE longer == Append(order, a)
             old == Head(longer)
  <1>a. order \in Seq(Assignments)
    BY ZenonT(40) DEF Types
  <1>0. longer \in Seq(Assignments) /\ longer # <<>>
    BY <1>a, AppendProperties
  <1>1. old \in Assignments /\ Tail(longer) \in Seq(Assignments)
    BY <1>0, HeadTailProperties
  <1>2. NoBallots \in Ballots
    BY DEF NoBallots, Ballots
  <1> HIDE DEF longer, old
  <1>3. CASE Len(longer) > MaxSettled
    <2>1. /\ order' = Tail(longer)
          /\ final' = [final EXCEPT ![a] = r, ![old] = None]
          /\ asg' = [at EXCEPT ![old] = "none"]
          /\ npending' = PopCount(n, at, old)
          /\ votes' = [vt EXCEPT ![old] = NoBallots]
      BY <1>3 DEF Remember, longer, old
    <2>2. npending' \in Int
      BY <2>1 DEF PopCount, Open
    <2>3. QED
      BY <2>1, <2>2, <1>1, <1>2, Zenon DEF Types, Shelf
  <1>4. CASE ~(Len(longer) > MaxSettled)
    <2>1. /\ order' = longer
          /\ final' = [final EXCEPT ![a] = r]
          /\ asg' = at /\ npending' = n /\ votes' = vt
      BY <1>4 DEF Remember, longer, old
    <2>2. QED
      BY <2>1, <1>0 DEF Types, Shelf
  <1>5. QED
    BY <1>3, <1>4

\* The discard of stale assignments keeps the types.
LEMMA DiscardTypes ==
    ASSUME Types, DiscardStale
    PROVE  /\ staleFlag' \in BOOLEAN
           /\ asg' \in [Assignments -> {"none", "open", "recovered"}]
           /\ npending' \in Int /\ votes' \in [Assignments -> Ballots]
  <1>1. IsFiniteSet(Stale)
    BY ModelAssumption, FS_Subset, FS_EmptySet DEF Stale
  <1>2. Cardinality(Stale) \in Nat
    BY <1>1, FS_CardinalityType
  <1>3. NoBallots \in Ballots
    BY DEF NoBallots, Ballots
  <1>4. npending' \in Int
    BY <1>2 DEF DiscardStale, Types
  <1>5. QED
    BY <1>3, <1>4, Zenon DEF DiscardStale, Types

\* Each step of a validation request keeps the types.
LEMMA RequestTypes == Types /\ Request => Types'
  <1> SUFFICES ASSUME Types, Request PROVE Types'
    OBVIOUS
  <1>0. Bumped \in [Assignments -> Snapshot \cup {None}]
    BY BumpedType DEF Types
  <1> USE DEF ctlVars, memberVars, asgVars, finalVars, threadVars, histVars, storeVars
  <1>1. ASSUME NEW a \in Assignments, NEW q \in Agents, RequestSnapshot(a, q) PROVE Types'
    <2>1. [producer |-> q, available |-> agents \ {q}, hash |-> hash, fresh |-> TRUE] \in Snapshot
      BY DEF Types, Snapshot
    <2>2. req' \in [Assignments -> Snapshot \cup {None}]
      BY <1>0, <1>1, <2>1, ZenonT(40) DEF RequestSnapshot, Types
    <2>3. QED
      BY <1>1, <2>2, DiscardTypes, Zenon DEF RequestSnapshot, Types
  <1>2. ASSUME NEW q \in Agents, RequestRefused(q) PROVE Types'
    <2>1. req' \in [Assignments -> Snapshot \cup {None}]
      BY <1>0, <1>2 DEF RequestRefused, Types
    <2>2. QED
      BY <1>2, <2>1, DiscardTypes DEF RequestRefused, Types
  <1>3. ASSUME NEW a \in Assignments, NEW P \in SUBSET Agents, RequestCommit(a, P) PROVE Types'
    <2>1. IsFiniteSet(P) /\ Cardinality(P) \in Nat
      BY ModelAssumption, FS_Subset, FS_CardinalityType
    <2>2. Larger(Quorum, Cardinality(P) \div 2 + 1) \in Nat
      BY <2>1, MeshAssumption DEF Larger
    <2>3. req[a] \in Snapshot
      BY <1>3 DEF RequestCommit, Types
    <2>4. [producer |-> req[a].producer, peers |-> P,
           quorum |-> Larger(Quorum, Cardinality(P) \div 2 + 1), hash |-> req[a].hash] \in Signed
      BY <2>2, <2>3, ZenonT(40) DEF Signed, Snapshot
    <2>5. signed' \in [Assignments -> Signed \cup {None}]
      BY <1>3, <2>4 DEF RequestCommit, Types
    <2>6. NoBallots \in Ballots
      BY DEF NoBallots, Ballots
    <2>7. /\ asg' \in [Assignments -> {"none", "open", "recovered"}]
          /\ npending' \in Int
          /\ votes' \in [Assignments -> Ballots]
          /\ req' \in [Assignments -> Snapshot \cup {None}]
      BY <1>3, <2>6 DEF RequestCommit, Types
    <2>8. UNCHANGED <<ctlVars, memberVars, staleFlag, finalVars, threadVars, histVars,
                      used, storeVars>>
      BY <1>3 DEF RequestCommit
    <2>9. QED
      BY <2>5, <2>7, <2>8 DEF Types
  <1>4. ASSUME NEW a \in Assignments, RequestAbort(a) PROVE Types'
    BY <1>4 DEF RequestAbort, Types
  <1>5. QED
    BY <1>1, <1>2, <1>3, <1>4 DEF Request

\* What a thread that leaves settle or a marker does to its locals.
LEMMA LeaveTypes ==
    ASSUME Types, NEW c \in Callers, Leave(c)
    PROVE  /\ pc' \in [Callers -> Labels]
           /\ kind' \in [Callers -> {"settle", "reconcile"}]
           /\ cur' \in [Callers -> Assignments \cup {None}]
           /\ rec' \in [Callers -> Record \cup {None}]
           /\ fence' \in [Callers -> (Nat \X Hashes) \cup {None}]
           /\ todo' \in [Callers -> Shelf] /\ index' \in [Callers -> Shelf \cup {None}]
  BY DEF Types, Leave, Goto, Labels

\* The snapshot that settle takes is a record.
LEMMA SettleRecord ==
    ASSUME Types, NEW c \in Callers, NEW a \in Assignments, SettleBegin(c, a)
    PROVE  rec'[c] \in Record
  <1>1. Accepts(signed[a], votes[a]) \in BOOLEAN
    BY DEF Accepts, Wins
  <1>2. stamps[a] + 1 \in Nat /\ votes[a] \in Ballots
    BY DEF Types
  <1>3. [votes |-> votes[a], accepted |-> Accepts(signed[a], votes[a]),
         stamp |-> stamps[a] + 1] \in Record
    BY <1>1, <1>2 DEF Record
  <1>4. QED
    BY <1>3 DEF SettleBegin, Types

\* Voting and the phases of settle keep the types.
LEMMA SettleTypes ==
    ASSUME Types, Threads, NEW c \in Callers, Vote(c) \/ Settle(c)
    PROVE  Types'
  <1>0. Bumped \in [Assignments -> Snapshot \cup {None}]
    BY BumpedType, ZenonT(40) DEF Types
  <1> USE DEF ctlVars, memberVars, asgVars, finalVars, threadVars, histVars, storeVars
  <1>1. ASSUME NEW a \in Assignments, NEW p \in Agents, NEW d \in BOOLEAN, SubmitVote(c, a, p, d)
        PROVE  Types'
    <2>1. [approved |-> d, key |-> key[p]] \in Ballot
      BY <1>1, ZenonT(40) DEF SubmitVote, Types, Ballot
    <2>2. /\ votes' \in [Assignments -> Ballots] /\ cast' \in [Assignments -> Ballots]
      BY <1>1, <2>1, ZenonT(40) DEF SubmitVote, Types, Ballots
    <2>3. req' \in [Assignments -> Snapshot \cup {None}]
      BY <1>0, <1>1, ZenonT(40) DEF SubmitVote, Types
    <2>4. pc' \in [Callers -> Labels] /\ cur' \in [Callers -> Assignments \cup {None}]
      BY <1>1, ZenonT(40) DEF SubmitVote, Goto, Types, Labels
    <2>5. QED
      BY <1>1, <2>2, <2>3, <2>4, ZenonT(40) DEF SubmitVote, Types
  <1>2. ASSUME NEW a \in Assignments, SettleBegin(c, a) PROVE Types'
    <2>3. rec'[c] \in Record
      BY <1>2, SettleRecord, ZenonT(40)
    <2>4. rec' \in [Callers -> Record \cup {None}]
      BY <1>2, <2>3 DEF SettleBegin, Types
    <2>5. <<cgen, hash>> \in Nat \X Hashes
      BY ZenonT(40) DEF Types
    <2>6. fence' \in [Callers -> (Nat \X Hashes) \cup {None}]
      BY <1>2, <2>5, ZenonT(40) DEF SettleBegin, Types
    <2>7. pc' \in [Callers -> Labels]
      BY <1>2, ZenonT(40) DEF SettleBegin, Goto, Types, Labels
    <2>8. cur' \in [Callers -> Assignments \cup {None}]
      BY <1>2, ZenonT(40) DEF SettleBegin, Types
    <2>9. stamps' \in [Assignments -> Nat]
      BY <1>2, Z3T(30) DEF SettleBegin, Types
    <2>10. UNCHANGED <<ctlVars, memberVars, asgVars, finalVars, req, kind, todo, index,
                       cast, used, storeVars>>
      BY <1>2, ZenonT(40) DEF SettleBegin
    <2>11. QED
      BY <2>4, <2>6, <2>7, <2>8, <2>9, <2>10, ZenonT(40) DEF Types
  <1>3. CASE VoteReturns(c)
    <2>1. staleFlag' \in BOOLEAN
      BY <1>3, ZenonT(40) DEF VoteReturns, Types
    <2>2. QED
      BY <1>3, <2>1, LeaveTypes, ZenonT(40) DEF VoteReturns, Types
  <1>4. CASE SettleMark(c)
    <2>1. pending' \in Shelf /\ pc' \in [Callers -> Labels]
      BY <1>4, Zenon DEF SettleMark, MarkPending, Goto, Types, Labels, Shelf
    <2>2. QED
      BY <1>4, <2>1, ZenonT(40) DEF SettleMark, MarkPending, Types
  <1>5. CASE SettleInstall(c)
    <2>1. cur[c] \in Assignments
      BY <1>5, Zenon DEF SettleInstall, Threads, Busy, Labels
    <2>2. /\ order' \in Seq(Assignments) /\ final' \in Shelf
          /\ asg' \in [Assignments -> {"none", "open", "recovered"}]
          /\ npending' \in Int /\ votes' \in [Assignments -> Ballots]
      BY <1>5, <2>1, RememberTypes, Zenon DEF SettleInstall, Types
    <2>3. pc' \in [Callers -> Labels]
      BY <1>5, ZenonT(40) DEF SettleInstall, Goto, Types, Labels
    <2>4. QED
      BY <1>5, <2>2, <2>3 DEF SettleInstall, Types
  <1>6. CASE SettleYield(c)
    BY <1>6, LeaveTypes, ZenonT(40) DEF SettleYield, Types
  <1>7. CASE SettleClear(c)
    <2>1. pending' \in Shelf /\ pc' \in [Callers -> Labels]
      BY <1>7, ZenonT(40) DEF SettleClear, ClearPending, Goto, Types, Labels, Shelf
    <2>2. QED
      BY <1>7, <2>1, Zenon DEF SettleClear, ClearPending, memory, locals, Types
  <1>8. CASE SettleFinish(c)
    <2>1. NoBallots \in Ballots
      BY DEF NoBallots, Ballots
    <2>2. npending' \in Int
      BY <1>8 DEF SettleFinish, PopCount, Open, Types
    <2>3. /\ asg' \in [Assignments -> {"none", "open", "recovered"}]
          /\ votes' \in [Assignments -> Ballots]
      BY <1>8, <2>1, Zenon DEF SettleFinish, Types
    <2>4. QED
      BY <1>8, <2>2, <2>3, LeaveTypes, ZenonT(40) DEF SettleFinish, Types
  <1>9. QED
    BY <1>1, <1>2, <1>3, <1>4, <1>5, <1>6, <1>7, <1>8, ZenonT(40) DEF Vote, Settle

\* The steps of _persist_settlement_record, failing or not, keep the types.
LEMMA PersistTypes ==
    ASSUME Types, Threads, NEW c \in Callers, Persist(c) \/ Faults(c)
    PROVE  Types'
  <1> USE DEF ctlVars, memberVars, asgVars, finalVars, threadVars, histVars, storeVars,
              memory, locals
  <1>1. CASE BuildReceipt(c)
    <2>1. pc' \in [Callers -> Labels]
      BY <1>1, ZenonT(40) DEF BuildReceipt, Goto, Types, Labels
    <2>2. QED
      BY <1>1, <2>1, ZenonT(40) DEF BuildReceipt, Types
  <1>2. CASE BuildReceiptFails(c)
    BY <1>2, LeaveTypes, ZenonT(40) DEF BuildReceiptFails, Types
  <1>3. CASE PersistReceipt(c)
    <2>1. pc' \in [Callers -> Labels] /\ receipt' \in Shelf
      BY <1>3, Zenon DEF PersistReceipt, WriteReceipt, Goto, Types, Labels, Shelf
    <2>2. QED
      BY <1>3, <2>1, ZenonT(40) DEF PersistReceipt, WriteReceipt, Types
  <1>4. CASE PersistDuplicate(c)
    <2>1. CASE Leave(c)
      BY <1>4, <2>1, LeaveTypes, ZenonT(40) DEF PersistDuplicate, Types
    <2>2. CASE Goto(c, "lookup") /\ UNCHANGED locals
      <3>1. pc' \in [Callers -> Labels]
        BY <2>2, ZenonT(40) DEF Goto, Types, Labels
      <3>2. QED
        BY <1>4, <2>2, <3>1, ZenonT(40) DEF PersistDuplicate, Types
    <2>3. QED
      BY <1>4, <2>1, <2>2, ZenonT(40) DEF PersistDuplicate
  <1>5. CASE PersistAppend(c)
    <2>1. pc' \in [Callers -> Labels] /\ durable' \in Shelf
      BY <1>5, Zenon DEF PersistAppend, AppendRecord, Goto, Types, Labels, Shelf
    <2>2. QED
      BY <1>5, <2>1, ZenonT(40) DEF PersistAppend, AppendRecord, Types
  <1>6. CASE StoreCallFails(c)
    BY <1>6, LeaveTypes, UsedTypes, Zenon DEF StoreCallFails, Fault, Types
  <1>7. CASE AppendFails(c)
    <2>1. receipt' \in Shelf
      BY <1>7, Zenon DEF AppendFails, UnlinkReceipt, Types, Shelf
    <2>2. QED
      BY <1>7, <2>1, LeaveTypes, UsedTypes, ZenonT(40) DEF AppendFails, UnlinkReceipt, Fault, Types
  <1>8. CASE AppendFailsLate(c)
    <2>1. durable' \in Shelf
      BY <1>8, Zenon DEF AppendFailsLate, AppendRecord, Types, Shelf
    <2>2. QED
      BY <1>8, <2>1, LeaveTypes, UsedTypes, ZenonT(40) DEF AppendFailsLate, AppendRecord, Fault, Types
  <1>9. ASSUME NEW a \in Assignments, ReconcileScanFails(c, a) PROVE Types'
    <2>1. todo' \in [Callers -> Shelf]
      BY <1>9 DEF ReconcileScanFails, Types, Shelf
    <2>2. QED
      BY <1>9, <2>1, UsedTypes, ZenonT(40) DEF ReconcileScanFails, Fault, Types
  <1>10. QED
    BY <1>1, <1>2, <1>3, <1>4, <1>5, <1>6, <1>7, <1>8, <1>9, ZenonT(40) DEF Persist, Faults

\* The steps of reconcile_pending_settlements keep the types.
LEMMA ReconcileTypes ==
    ASSUME Types, Threads, NEW c \in Callers, Reconcile(c)
    PROVE  Types'
  <1> USE DEF ctlVars, memberVars, asgVars, finalVars, threadVars, histVars, storeVars,
              memory, locals
  <1>1. CASE ReconcileBegin(c)
    <2>1. /\ pc' \in [Callers -> Labels] /\ kind' \in [Callers -> {"settle", "reconcile"}]
          /\ todo' \in [Callers -> Shelf]
      BY <1>1 DEF ReconcileBegin, Goto, Types, Labels
    <2>2. QED
      BY <1>1, <2>1, ZenonT(40) DEF ReconcileBegin, Types
  <1>2. ASSUME NEW a \in Assignments, ReconcileScan(c, a) PROVE Types'
    <2>1. todo' \in [Callers -> Shelf]
      BY <1>2, ZenonT(40) DEF ReconcileScan, Types, Shelf
    <2>2. CASE UNCHANGED <<pc, cur, rec, fence, storeVars>>
      BY <1>2, <2>1, <2>2, ZenonT(40) DEF ReconcileScan, Types
    <2>3. CASE ClearPending(a) /\ UNCHANGED <<pc, cur, rec, fence>>
      <3>1. pending' \in Shelf
        BY <2>3, ZenonT(40) DEF ClearPending, Types, Shelf
      <3>2. QED
        BY <1>2, <2>1, <2>3, <3>1, ZenonT(40) DEF ReconcileScan, ClearPending, Types
    <2>4. CASE /\ Goto(c, "verify")
               /\ cur' = [cur EXCEPT ![c] = a]
               /\ rec' = [rec EXCEPT ![c] = todo[c][a]]
               /\ fence' = [fence EXCEPT ![c] = <<cgen, hash>>]
               /\ UNCHANGED storeVars
      <3>1. /\ pc' \in [Callers -> Labels]
            /\ cur' \in [Callers -> Assignments \cup {None}]
        BY <2>4 DEF Goto, Types, Labels
      <3>2. <<cgen, hash>> \in Nat \X Hashes /\ todo[c][a] \in Record \cup {None}
        <4>1. cgen \in Nat /\ hash \in Hashes /\ todo[c] \in Shelf
          BY ZenonT(40) DEF Types
        <4>2. todo[c][a] \in Record \cup {None}
          BY <4>1, ZenonT(40) DEF Shelf
        <4>3. QED
          BY <4>1, <4>2, ZenonT(40)
      <3>3. rec' \in [Callers -> Record \cup {None}]
        BY <2>4, <3>2, ZenonT(40) DEF Types
      <3>4. fence' \in [Callers -> (Nat \X Hashes) \cup {None}]
        BY <2>4, <3>2, ZenonT(40) DEF Types
      <3>5. QED
        BY <1>2, <2>1, <2>4, <3>1, <3>3, <3>4, ZenonT(40) DEF ReconcileScan, Types
    <2>5. QED
      BY <1>2, <2>2, <2>3, <2>4, ZenonT(40) DEF ReconcileScan
  <1>3. CASE ReconcileVerify(c)
    <2>1. IndexOf(c) \in Shelf
      BY ZenonT(40) DEF IndexOf, Types
    <2>2. /\ pc' \in [Callers -> Labels] /\ index' \in [Callers -> Shelf \cup {None}]
      BY <1>3, <2>1, ZenonT(40) DEF ReconcileVerify, Goto, Types, Labels
    <2>3. QED
      BY <1>3, <2>2, ZenonT(40) DEF ReconcileVerify, Types
  <1>4. CASE ReconcileReject(c)
    BY <1>4, LeaveTypes, ZenonT(40) DEF ReconcileReject, Types
  <1>4a. CASE ReconcileConflict(c)
    <2>1. IndexOf(c) \in Shelf
      BY ZenonT(40) DEF IndexOf, Types
    <2>2. pc' \in [Callers -> Labels] /\ index' \in [Callers -> Shelf \cup {None}]
      BY <1>4a, <2>1, ZenonT(40) DEF ReconcileConflict, Goto, Types, Labels
    <2>3. /\ cur' \in [Callers -> Assignments \cup {None}]
          /\ rec' \in [Callers -> Record \cup {None}]
          /\ fence' \in [Callers -> (Nat \X Hashes) \cup {None}]
      BY <1>4a, ZenonT(40) DEF ReconcileConflict, Types
    <2>4. QED
      BY <1>4a, <2>2, <2>3, ZenonT(40) DEF ReconcileConflict, Types
  <1>5. CASE ReconcileLookup(c)
    <2>1. CASE Leave(c)
      BY <1>5, <2>1, LeaveTypes, Zenon DEF ReconcileLookup, Types
    <2>2. CASE Goto(c, "adopt") /\ UNCHANGED locals
      <3>1. pc' \in [Callers -> Labels]
        BY <2>2, ZenonT(40) DEF Goto, Types, Labels
      <3>2. QED
        BY <1>5, <2>2, <3>1, Zenon DEF ReconcileLookup, Types
    <2>3. QED
      BY <1>5, <2>1, <2>2, Zenon DEF ReconcileLookup
  <1>6. CASE ReconcileAdopt(c)
    <2> DEFINE a == cur[c]
               at == [asg EXCEPT ![a] = "recovered"]
               n == PopCount(npending, asg, a)
               vt == [votes EXCEPT ![a] = NoBallots]
    <2>1. a \in Assignments /\ rec[c] \in Record \cup {None}
      BY <1>6, Zenon DEF ReconcileAdopt, Threads, Busy, Labels, Types
    <2>2. NoBallots \in Ballots
      BY DEF NoBallots, Ballots
    <2>3. n \in Int
      BY DEF PopCount, Open, Types
    <2>4. /\ at \in [Assignments -> {"none", "open", "recovered"}]
          /\ vt \in [Assignments -> Ballots]
      BY <2>2, ZenonT(40) DEF Types
    <2>5. \/ Remember(a, rec[c], at, n, vt)
          \/ asg' = at /\ npending' = n /\ votes' = vt /\ UNCHANGED finalVars
      BY <1>6, Zenon DEF ReconcileAdopt
    <2> HIDE DEF a, at, n, vt
    <2>6. /\ order' \in Seq(Assignments) /\ final' \in Shelf
          /\ asg' \in [Assignments -> {"none", "open", "recovered"}]
          /\ npending' \in Int /\ votes' \in [Assignments -> Ballots]
      <3>1. CASE Remember(a, rec[c], at, n, vt)
        BY <3>1, <2>1, <2>3, <2>4, RememberTypes, ZenonT(40)
      <3>2. CASE asg' = at /\ npending' = n /\ votes' = vt /\ UNCHANGED finalVars
        BY <3>2, <2>3, <2>4, ZenonT(40) DEF Types
      <3>3. QED
        BY <2>5, <3>1, <3>2, ZenonT(40)
    <2>7. pc' \in [Callers -> Labels]
      BY <1>6, ZenonT(40) DEF ReconcileAdopt, Goto, Types, Labels
    <2>8. QED
      BY <1>6, <2>6, <2>7, Zenon DEF ReconcileAdopt, Types
  <1>7. CASE ReconcileCrossed(c)
    BY <1>7, LeaveTypes, ZenonT(40) DEF ReconcileCrossed, Types
  <1>8. CASE ReconcileClear(c)
    <2>1. pending' \in Shelf
      BY <1>8, Zenon DEF ReconcileClear, ClearPending, Types, Shelf
    <2>2. QED
      BY <1>8, <2>1, LeaveTypes, ZenonT(40) DEF ReconcileClear, ClearPending, Types
  <1>9. CASE ReconcileEnd(c)
    <2>1. /\ pc' \in [Callers -> Labels] /\ kind' \in [Callers -> {"settle", "reconcile"}]
          /\ index' \in [Callers -> Shelf \cup {None}]
      BY <1>9 DEF ReconcileEnd, Goto, Types, Labels
    <2>2. QED
      BY <1>9, <2>1, ZenonT(40) DEF ReconcileEnd, Types
  <1>10. QED
    BY <1>1, <1>2, <1>3, <1>4, <1>4a, <1>5, <1>6, <1>7, <1>8, <1>9, ZenonT(40) DEF Reconcile

\* A restart, and the removal of orphan receipts, keep the types.
LEMMA RecoveryTypes == Types /\ Recovery => Types'
  <1> SUFFICES ASSUME Types, Recovery PROVE Types'
    OBVIOUS
  <1> USE DEF ctlVars, memberVars, asgVars, finalVars, threadVars, histVars, storeVars, memory
  <1>1. CASE ReconcileOrphanReceipts
    <2>1. receipt' \in Shelf
      BY <1>1 DEF ReconcileOrphanReceipts, RemoveOrphans, Types, Shelf
    <2>2. QED
      BY <1>1, <2>1, ZenonT(40) DEF ReconcileOrphanReceipts, RemoveOrphans, Types
  <1>2. ASSUME NEW h \in Hashes, NEW keep \in Registries, NEW S \in SUBSET Assignments,
               Restart(h, keep, S)
        PROVE  Types'
    <2>0. NoBallots \in Ballots /\ EmptyShelf \in Shelf
      BY DEF NoBallots, Ballots, EmptyShelf, Shelf
    <2>1. order' \in Seq(Assignments)
      <3>1. IsFiniteSet(S) /\ Cardinality(S) \in Nat
        BY ModelAssumption, FS_Subset, FS_CardinalityType
      <3>2. order' \in [1..Cardinality(S) -> Assignments]
        BY <1>2 DEF Restart, Orderings
      <3>3. QED
        BY <3>1, <3>2, Z3T(30)
    <2>2. final' \in Shelf
      BY <1>2 DEF Restart, Types, Shelf
    <2>3. key' \in [Agents -> Keys \cup {None}]
      BY <1>2 DEF Restart, Types
    <2>4. halted' \in BOOLEAN /\ staleFlag' \in BOOLEAN
      BY <1>2, Zenon DEF Restart
    <2>5. /\ asg' \in [Assignments -> {"none", "open", "recovered"}]
          /\ votes' \in [Assignments -> Ballots]
          /\ req' \in [Assignments -> Snapshot \cup {None}]
      BY <1>2, <2>0 DEF Restart, EmptyShelf
    <2>6. hash' \in Hashes /\ cgen' \in Nat /\ npending' \in Int /\ agents' \subseteq Agents
      BY <1>2 DEF Restart
    <2>7. /\ pc' \in [Callers -> Labels]
          /\ kind' \in [Callers -> {"settle", "reconcile"}]
          /\ cur' \in [Callers -> Assignments \cup {None}]
          /\ rec' \in [Callers -> Record \cup {None}]
          /\ fence' \in [Callers -> (Nat \X Hashes) \cup {None}]
          /\ todo' \in [Callers -> Shelf] /\ index' \in [Callers -> Shelf \cup {None}]
      BY <1>2, <2>0 DEF Restart, Labels
    <2>8. used' \in [restarts : Nat, membership : Nat, faults : Nat]
      BY <1>2, UsedTypes, ZenonT(40) DEF Restart, Types
    <2>9. QED
      BY <1>2, <2>1, <2>2, <2>3, <2>4, <2>5, <2>6, <2>7, <2>8, ZenonT(40) DEF Restart, DropLocks, Types
  <1>3. QED
    BY <1>1, <1>2, ZenonT(40) DEF Recovery

-----------------------------------------------------------------------------
(* What a thread holds at each of its labels. *)

\* The initial state satisfies the thread discipline.
LEMMA InitThreads == Init => Threads
  BY DEF Init, Threads, Busy, Labels

\* A thread that returns from settle, or goes on to its next marker, keeps the
\* thread discipline.
LEMMA LeaveThreads ==
    ASSUME Types, Threads, NEW c \in Callers, Leave(c)
    PROVE  Threads'
  <1>1. /\ pc'[c] = IF kind[c] = "settle" THEN "idle" ELSE "scan"
        /\ cur'[c] = None /\ rec'[c] = None /\ kind' = kind
        /\ \A x \in Callers \ {c} : pc'[x] = pc[x] /\ cur'[x] = cur[x] /\ rec'[x] = rec[x]
    BY DEF Leave, Goto, Types
  <1>2. kind[c] \in {"settle", "reconcile"}
    BY ZenonT(40) DEF Types
  <1>3. QED
    BY <1>1, <1>2, ZenonT(40) DEF Threads, Busy, Labels

\* Voting and the locked sections of settle keep the thread discipline.
LEMMA VoteThreads ==
    ASSUME Types, Threads, NEW c \in Callers, Vote(c) \/ Settle(c)
    PROVE  Threads'
  <1> USE DEF Goto, Threads, Busy, Labels
  <1>1. ASSUME NEW a \in Assignments, NEW p \in Agents, NEW d \in BOOLEAN,
               SubmitVote(c, a, p, d)
        PROVE  Threads'
    <2>1. rec[c] = None /\ kind[c] = "settle"
      BY <1>1, ZenonT(40) DEF SubmitVote
    <2>2. QED
      BY <1>1, <2>1, ZenonT(40) DEF SubmitVote, Types
  <1>2. ASSUME NEW a \in Assignments, SettleBegin(c, a) PROVE Threads'
    <2>1. rec'[c] \in Record
      BY <1>2, SettleRecord, Zenon
    <2>2. QED
      BY <1>2, <2>1, Zenon DEF SettleBegin, Types
  <1>3. CASE VoteReturns(c)
    BY <1>3, LeaveThreads, ZenonT(40) DEF VoteReturns
  <1>4. CASE SettleMark(c)
    BY <1>4, ZenonT(40) DEF SettleMark, Types
  <1>5. CASE SettleInstall(c)
    BY <1>5, ZenonT(40) DEF SettleInstall, Types
  <1>6. CASE SettleYield(c)
    BY <1>6, LeaveThreads, ZenonT(40) DEF SettleYield
  <1>7. CASE SettleClear(c)
    BY <1>7, ZenonT(40) DEF SettleClear, locals, Types
  <1>8. CASE SettleFinish(c)
    BY <1>8, LeaveThreads, Zenon DEF SettleFinish
  <1>9. QED
    BY <1>1, <1>2, <1>3, <1>4, <1>5, <1>6, <1>7, <1>8, ZenonT(40) DEF Vote, Settle

\* The steps of _persist_settlement_record keep the thread discipline.
LEMMA PersistThreads ==
    ASSUME Types, Threads, NEW c \in Callers, Persist(c) \/ Faults(c)
    PROVE  Threads'
  <1>1. CASE BuildReceipt(c)
    BY <1>1 DEF BuildReceipt, Goto, locals, Types, Threads, Busy, Labels
  <1>2. CASE BuildReceiptFails(c)
    BY <1>2, LeaveThreads, ZenonT(40) DEF BuildReceiptFails
  <1>3. CASE PersistReceipt(c)
    BY <1>3, ZenonT(40) DEF PersistReceipt, Goto, locals, Types, Threads, Busy, Labels
  <1>4. CASE PersistDuplicate(c)
    <2>1. CASE Leave(c)
      BY <2>1, LeaveThreads, ZenonT(40)
    <2>2. CASE kind[c] = "reconcile" /\ Goto(c, "lookup") /\ UNCHANGED locals
      BY <1>4, <2>2, ZenonT(40) DEF PersistDuplicate, Goto, locals, Types, Threads, Busy, Labels
    <2>3. QED
      BY <1>4, <2>1, <2>2 DEF PersistDuplicate
  <1>5. CASE PersistAppend(c)
    BY <1>5 DEF PersistAppend, Goto, locals, Types, Threads, Busy, Labels
  <1>6. CASE StoreCallFails(c)
    BY <1>6, LeaveThreads DEF StoreCallFails
  <1>7. CASE AppendFails(c)
    BY <1>7, LeaveThreads, ZenonT(40) DEF AppendFails
  <1>8. CASE AppendFailsLate(c)
    BY <1>8, LeaveThreads, ZenonT(40) DEF AppendFailsLate
  <1>9. ASSUME NEW a \in Assignments, ReconcileScanFails(c, a) PROVE Threads'
    BY <1>9 DEF ReconcileScanFails, Threads
  <1>10. QED
    BY <1>1, <1>2, <1>3, <1>4, <1>5, <1>6, <1>7, <1>8, <1>9, ZenonT(40) DEF Persist, Faults

\* The steps of reconcile_pending_settlements keep the thread discipline.
LEMMA ReconcileThreads ==
    ASSUME Types, Threads, NEW c \in Callers, Reconcile(c)
    PROVE  Threads'
  <1> USE DEF Goto, Busy, Labels
  <1>1. CASE ReconcileBegin(c)
    BY <1>1, ZenonT(40) DEF ReconcileBegin, Types, Threads
  <1>2. ASSUME NEW a \in Assignments, ReconcileScan(c, a) PROVE Threads'
    <2>1. CASE UNCHANGED <<pc, cur, rec, fence>>
      BY <1>2, <2>1, ZenonT(40) DEF ReconcileScan, Threads
    <2>2. CASE /\ Goto(c, "verify")
               /\ cur' = [cur EXCEPT ![c] = a]
               /\ rec' = [rec EXCEPT ![c] = todo[c][a]]
      <3>1. todo[c][a] \in Record
        <4>1. todo[c] \in Shelf
          BY DEF Types
        <4>2. todo[c][a] # None
          BY <1>2, ZenonT(40) DEF ReconcileScan
        <4>3. QED
          BY <4>1, <4>2, ZenonT(40) DEF Shelf
      <3>2. QED
        BY <1>2, <2>2, <3>1, ZenonT(40) DEF ReconcileScan, Types, Threads
    <2>3. QED
      BY <1>2, <2>1, <2>2, ZenonT(40) DEF ReconcileScan
  <1>3. CASE ReconcileVerify(c)
    BY <1>3, ZenonT(40) DEF ReconcileVerify, Types, Threads
  <1>4. CASE ReconcileReject(c)
    BY <1>4, LeaveThreads, ZenonT(40) DEF ReconcileReject
  <1>4a. CASE ReconcileConflict(c)
    BY <1>4a, ZenonT(40) DEF ReconcileConflict, Types, Threads
  <1>5. CASE ReconcileLookup(c)
    <2>1. CASE Leave(c)
      BY <2>1, LeaveThreads, ZenonT(40)
    <2>2. CASE Goto(c, "adopt") /\ UNCHANGED locals
      BY <1>5, <2>2, ZenonT(40) DEF ReconcileLookup, locals, Types, Threads
    <2>3. QED
      BY <1>5, <2>1, <2>2, Zenon DEF ReconcileLookup
  <1>6. CASE ReconcileAdopt(c)
    <2>1. pc[c] = "adopt" /\ pc' = [pc EXCEPT ![c] = "adopted"] /\ UNCHANGED locals
      BY <1>6 DEF ReconcileAdopt
    <2>2. QED
      BY <2>1, ZenonT(40) DEF locals, Types, Threads
  <1>7. CASE ReconcileCrossed(c)
    BY <1>7, LeaveThreads DEF ReconcileCrossed
  <1>8. CASE ReconcileClear(c)
    BY <1>8, LeaveThreads, ZenonT(40) DEF ReconcileClear
  <1>9. CASE ReconcileEnd(c)
    BY <1>9, ZenonT(40) DEF ReconcileEnd, Types, Threads
  <1>10. QED
    BY <1>1, <1>2, <1>3, <1>4, <1>4a, <1>5, <1>6, <1>7, <1>8, <1>9, ZenonT(40) DEF Reconcile

\* No other step moves a thread, except a restart, which ends all of them.
LEMMA OtherThreads == Threads /\ (Request \/ Control \/ Recovery) => Threads'
  <1> SUFFICES ASSUME Threads, Request \/ Control \/ Recovery PROVE Threads'
    BY ZenonT(40)
  <1>1. CASE UNCHANGED threadVars
    BY <1>1 DEF threadVars, Threads
  <1>2. ASSUME NEW h \in Hashes, NEW keep \in Registries, NEW S \in SUBSET Assignments,
               Restart(h, keep, S)
        PROVE  Threads'
    BY <1>2 DEF Restart, Threads, Busy, Labels
  <1>3. QED
    BY <1>1, <1>2 DEF Request, Control, Recovery, RequestSnapshot, RequestRefused,
         RequestCommit, RequestAbort, Halt, Resume, Register, Unregister, Membership,
         RotateConstitution, TouchStale, ReconcileOrphanReceipts

\* Types and Threads together are inductive.
LEMMA StepTypes == Types /\ Threads /\ [Next]_vars => Types' /\ Threads'
  <1> SUFFICES ASSUME Types, Threads, [Next]_vars PROVE Types' /\ Threads'
    OBVIOUS
  <1>1. CASE Request \/ Control \/ Recovery
    BY <1>1, RequestTypes, ControlTypes, RecoveryTypes, OtherThreads, ZenonT(40)
  <1>2. ASSUME NEW c \in Callers, Vote(c) \/ Settle(c) PROVE Types' /\ Threads'
    BY <1>2, SettleTypes, VoteThreads, ZenonT(40)
  <1>3. ASSUME NEW c \in Callers, Persist(c) \/ Faults(c) PROVE Types' /\ Threads'
    BY <1>3, PersistTypes, PersistThreads, ZenonT(40)
  <1>4. ASSUME NEW c \in Callers, Reconcile(c) PROVE Types' /\ Threads'
    BY <1>4, ReconcileTypes, ReconcileThreads, ZenonT(40)
  <1>5. CASE UNCHANGED vars
    BY <1>5 DEF vars, ctlVars, memberVars, asgVars, finalVars, threadVars, histVars,
                storeVars, Types, Threads
  <1>6. QED
    BY <1>1, <1>2, <1>3, <1>4, <1>5, ZenonT(40) DEF Next

\* Types and the thread discipline hold in every reachable state.
LEMMA TypesHold == Spec => [](Types /\ Threads)
  <1>1. Init => Types /\ Threads
    BY InitTypes, InitThreads
  <1>2. QED
    BY <1>1, StepTypes, PTL DEF Spec
=============================================================================

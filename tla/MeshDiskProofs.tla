--------------------------- MODULE MeshDiskProofs ---------------------------
(***************************************************************************)
(* Every step of the mesh keeps what is on disk, and what its threads rely *)
(* on about it.                                                            *)
(***************************************************************************)
EXTENDS MeshRecordProofs

-----------------------------------------------------------------------------
(* What is on disk, and what the threads rely on *)

\* The log is write-once, and a marker goes only when its record is durable.
DiskGrows ==
    \A a \in Assignments :
      /\ durable[a] # None => durable'[a] = durable[a]
      /\ pending[a] # None => pending'[a] # None \/ durable'[a] # None

\* A step of thread c leaves a thread inside the evidence lock alone.
OthersUndisturbed(c) ==
    \A x \in Callers \ {c} :
      /\ pc'[x] = pc[x] /\ cur'[x] = cur[x] /\ rec'[x] = rec[x] /\ index'[x] = index[x]
      /\ pc[x] = "append" => /\ evLock' = evLock
                             /\ receipt'[cur[x]] = receipt[cur[x]]
                             /\ durable'[cur[x]] = durable[cur[x]]

\* What the other threads rely on survives a step that does not disturb it.
LEMMA OthersHold ==
    ASSUME Threads, Holding, NEW c \in Callers, DiskGrows, OthersUndisturbed(c),
           signed' = signed, Holds(c)'
    PROVE  Holding'
  <1> SUFFICES ASSUME NEW x \in Callers \ {c} PROVE Holds(x)'
    BY DEF Holding
  <1>1. pc[x] \in Busy => cur[x] \in Assignments
    BY DEF Threads
  <1>2. Holds(x)
    BY DEF Holding
  <1>3. /\ pc[x] = "append" => pc[x] \in Busy
        /\ pc[x] \in {"install", "finish", "clear", "lookup", "adopt", "adopted"}
             => pc[x] \in Busy
    BY DEF Busy, Labels
  <1>4. pc[x] \in {"adopt", "adopted"} => rec[x] # None
    BY NoneAssumption DEF Threads, Busy, Labels
  <1>5. pc[x] \in {"adopt", "adopted"} => durable'[cur'[x]] = rec'[x]
    BY <1>1, <1>2, <1>3, <1>4 DEF Holds, DiskGrows, OthersUndisturbed
  <1>6. \A a \in Assignments :
          index'[x] # None => (index'[x][a] # None => index'[x][a] = durable'[a])
    BY <1>2 DEF Holds, DiskGrows, OthersUndisturbed
  <1>7. QED
    BY <1>1, <1>2, <1>3, <1>5, <1>6 DEF Holds, DiskGrows, OthersUndisturbed

\* A thread that leaves relies on nothing any more.
LEMMA LeaverHolds ==
    ASSUME Types, Holding, NEW c \in Callers, Leave(c), DiskGrows
    PROVE  Holds(c)'
  <1>1. pc'[c] \in {"idle", "scan"} /\ index' = index
    BY DEF Leave, Goto, Types
  <1>2. QED
    BY <1>1 DEF Holding, Holds, DiskGrows, Busy

\* The other threads keep their place when one leaves.
LEMMA LeaveOthers ==
    ASSUME Types, NEW c \in Callers, Leave(c)
    PROVE  \A x \in Callers \ {c} : /\ pc'[x] = pc[x] /\ cur'[x] = cur[x]
                                    /\ rec'[x] = rec[x] /\ index'[x] = index[x]
  BY DEF Leave, Goto, Types

\* Nothing on disk changes, and no result or recovered assignment appears.
LEMMA ShelvesKept ==
    ASSUME EvidenceBound, RecoveredIsDurable, InstalledRecoverable, UNCHANGED storeVars,
           \A a \in Assignments : /\ final'[a] \in {final[a], None}
                                  /\ asg'[a] = "recovered" => asg[a] = "recovered"
    PROVE  EvidenceBound' /\ RecoveredIsDurable' /\ InstalledRecoverable'
  BY DEF EvidenceBound, RecoveredIsDurable, InstalledRecoverable, storeVars

\* A thread leaves and nothing else changes that the disk invariants see.
LEMMA LeaveDisk ==
    ASSUME Types, Threads, Disk, NEW c \in Callers, Leave(c),
           UNCHANGED <<signed, asg, final, storeVars>>
    PROVE  Disk'
  <1>1. DiskGrows /\ OthersUndisturbed(c)
    BY LeaveOthers DEF DiskGrows, OthersUndisturbed, storeVars
  <1>2. Holding'
    BY <1>1, OthersHold, LeaverHolds DEF Disk
  <1>3. QED
    BY <1>2, ShelvesKept DEF Disk

DiskStill == UNCHANGED <<signed, final, threadVars, storeVars>>

\* Requests, control steps, orphan removal and a restart keep the store's
\* invariant.
LEMMA DiskOther ==
    ASSUME Inv, Request \/ Control \/ Recovery
    PROVE  Disk'
  <1>a. Types /\ Threads /\ Disk /\ Electorates /\ npending = Cardinality(OpenOf(asg))
    BY CounterForm DEF Inv
  <1> USE DEF ctlVars, memberVars, asgVars, finalVars, threadVars, histVars, memory
  <1>1. CASE UNCHANGED <<signed, asg, final, threadVars, storeVars>>
    BY <1>a, <1>1 DEF storeVars, Disk, Holding, Holds, EvidenceBound, RecoveredIsDurable,
                      InstalledRecoverable
  <1>2. CASE DiskStill /\ DiscardStale
    <2>1. \A a \in Assignments : asg'[a] = "recovered" => asg[a] = "recovered"
      BY <1>a, <1>2, DiscardEffect, ZenonT(40)
    <2>2. Holding'
      BY <1>a, <1>2, ZenonT(40) DEF DiskStill, storeVars, Disk, Holding, Holds
    <2>3. QED
      BY <1>a, <1>2, <2>1, <2>2, ShelvesKept, ZenonT(40) DEF DiskStill, Disk
  <1>3. ASSUME NEW a \in Assignments, NEW P \in SUBSET Agents, RequestCommit(a, P) PROVE Disk'
    <2>1. signed[a] = None
      BY <1>a, <1>3, ZenonT(40) DEF RequestCommit, Electorates
    <2>2. \A x \in Assignments : signed[x] # None => signed'[x] = signed[x]
      BY <1>a, <1>3, <2>1, ZenonT(40) DEF RequestCommit, Types
    <2>3. UNCHANGED <<final, threadVars, storeVars>>
      BY <1>3, ZenonT(40) DEF RequestCommit
    <2>4. Holding'
      <3> SUFFICES ASSUME NEW c \in Callers PROVE Holds(c)'
        BY DEF Holding
      <3>1. Holds(c) /\ (pc[c] \in Busy => cur[c] \in Assignments)
        BY <1>a, ZenonT(40) DEF Disk, Holding, Threads
      <3>2. QED
        BY <2>2, <2>3, <3>1 DEF Holds, storeVars
    <2>5. \A x \in Assignments : asg'[x] = "recovered" => asg[x] = "recovered"
      BY <1>a, <1>3 DEF RequestCommit, Types
    <2>6. QED
      BY <1>a, <2>3, <2>4, <2>5, ShelvesKept, ZenonT(40) DEF Disk
  <1>4. CASE ReconcileOrphanReceipts
    <2>1. /\ UNCHANGED <<signed, asg, final, threadVars, durable, pending, evLock>>
          /\ evLock = None
          /\ receipt' = [a \in Assignments |-> IF durable[a] # None THEN receipt[a] ELSE None]
      BY <1>4, ZenonT(40) DEF ReconcileOrphanReceipts, RemoveOrphans, HasCommittedReceipt
    <2>2. \A c \in Callers : pc[c] # "append"
      BY <1>a, <2>1, NoneAssumption, ZenonT(40) DEF Disk, Holding, Holds
    <2>3. Holding'
      BY <1>a, <2>1, <2>2, ZenonT(40) DEF Disk, Holding, Holds
    <2>4. EvidenceBound'
      BY <1>a, <2>1 DEF Disk, EvidenceBound
    <2>5. RecoveredIsDurable' /\ InstalledRecoverable'
      BY <1>a, <2>1 DEF Disk, RecoveredIsDurable, InstalledRecoverable
    <2>6. QED
      BY <2>3, <2>4, <2>5, ZenonT(40) DEF Disk
  <1>5. ASSUME NEW h \in Hashes, NEW keep \in Registries, NEW S \in SUBSET Assignments,
               Restart(h, keep, S)
        PROVE  Disk'
    <2>1. /\ \A x \in S : durable[x] # None
          /\ UNCHANGED <<durable, pending, receipt>>
      BY <1>5 DEF Restart, Loadable, DropLocks
    <2>2. Holding'
      BY <1>5 DEF Restart, Holding, Holds, Busy
    <2>3. EvidenceBound'
      BY <1>a, <2>1 DEF Disk, EvidenceBound
    <2>4. RecoveredIsDurable' /\ InstalledRecoverable'
      BY <1>5, <2>1, ZenonT(40) DEF Restart, RecoveredIsDurable, InstalledRecoverable
    <2>5. QED
      BY <2>2, <2>3, <2>4 DEF Disk
  <1>6. CASE Request
    BY <1>1, <1>2, <1>3, <1>6, ZenonT(40) DEF Request, RequestSnapshot, RequestRefused, RequestAbort,
                                  DiskStill
  <1>7. CASE Control
    BY <1>1, <1>7 DEF Control, Halt, Resume, Register, Unregister, Membership,
                      RotateConstitution, TouchStale
  <1>8. QED
    BY <1>4, <1>5, <1>6, <1>7, ZenonT(40) DEF Recovery

\* A step that touches neither the disk nor the shelves, and moves one thread.
LEMMA MoveDisk ==
    ASSUME Types, Threads, Disk, NEW c \in Callers, Holds(c)',
           UNCHANGED <<signed, storeVars>>,
           \A x \in Callers \ {c} : /\ pc'[x] = pc[x] /\ cur'[x] = cur[x]
                                    /\ rec'[x] = rec[x] /\ index'[x] = index[x],
           \A a \in Assignments : /\ final'[a] \in {final[a], None}
                                  /\ asg'[a] = "recovered" => asg[a] = "recovered"
    PROVE  Disk'
  <1>1. DiskGrows /\ OthersUndisturbed(c)
    BY DEF DiskGrows, OthersUndisturbed, storeVars
  <1>2. Holding'
    BY <1>1, OthersHold, ZenonT(40) DEF Disk
  <1>3. QED
    BY <1>2, ShelvesKept DEF Disk

\* clear_pending on an assignment that is durable.
LEMMA ClearDisk ==
    ASSUME Types, Disk, NEW a \in Assignments, durable[a] # None, ClearPending(a)
    PROVE  /\ DiskGrows
           /\ UNCHANGED <<asg, final>>
                => EvidenceBound' /\ RecoveredIsDurable' /\ InstalledRecoverable'
  BY DEF ClearPending, Types, Shelf, Disk, DiskGrows, EvidenceBound, RecoveredIsDurable,
         InstalledRecoverable

\* Voting and the sections of settle keep the store's invariant.
LEMMA DiskSettle ==
    ASSUME Inv, NEW c \in Callers, Vote(c) \/ Settle(c)
    PROVE  Disk'
  <1>a. Types /\ Threads /\ Disk /\ Electorates /\ npending = Cardinality(OpenOf(asg))
    BY CounterForm DEF Inv
  <1>b. Holds(c)
    BY <1>a, ZenonT(40) DEF Disk, Holding
  <1> USE DEF ctlVars, memberVars, asgVars, finalVars, threadVars, histVars, memory, locals
  <1>1. ASSUME NEW a \in Assignments, NEW p \in Agents, NEW d \in BOOLEAN,
               SubmitVote(c, a, p, d)
        PROVE  Disk'
    <2>1. signed[a] # None
      BY <1>a, <1>1, ZenonT(40) DEF SubmitVote, Electorates
    <2>2. /\ pc'[c] = "voted" /\ cur'[c] = a
          /\ UNCHANGED <<signed, asg, final, storeVars, rec, index>>
          /\ \A x \in Callers \ {c} : pc'[x] = pc[x] /\ cur'[x] = cur[x]
      BY <1>a, <1>1, ZenonT(40) DEF SubmitVote, Goto, Types
    <2>3. Holds(c)'
      BY <1>b, <2>1, <2>2, ZenonT(40) DEF Holds, storeVars
    <2>4. QED
      BY <1>a, <2>2, <2>3, MoveDisk, ZenonT(40)
  <1>2. ASSUME NEW a \in Assignments, SettleBegin(c, a) PROVE Disk'
    <2>1. signed[a] # None
      BY <1>a, <1>2, ZenonT(40) DEF SettleBegin, CanSettle, Electorates
    <2>2. /\ pc'[c] \in {"mark", "install"} /\ (Persistent => pc'[c] = "mark")
          /\ cur'[c] = a
          /\ UNCHANGED <<signed, asg, final, storeVars, index>>
          /\ \A x \in Callers \ {c} : /\ pc'[x] = pc[x] /\ cur'[x] = cur[x]
                                      /\ rec'[x] = rec[x]
      BY <1>a, <1>2, ZenonT(40) DEF SettleBegin, Goto, Types
    <2>3. Holds(c)'
      BY <1>b, <2>1, <2>2, ZenonT(40) DEF Holds, storeVars
    <2>4. QED
      BY <1>a, <2>2, <2>3, MoveDisk, ZenonT(40)
  <1>3. CASE VoteReturns(c) \/ SettleYield(c)
    BY <1>a, <1>3, LeaveDisk, Zenon DEF VoteReturns, SettleYield
  <1>4. CASE SettleMark(c)
    <2>1. cur[c] \in Assignments /\ rec[c] # None /\ signed[cur[c]] # None
      BY <1>a, <1>b, <1>4, NoneAssumption, ZenonT(40) DEF SettleMark, Threads, Holds, Busy, Labels
    <2>2. /\ UNCHANGED <<signed, asg, final, cur, rec, index, durable, receipt, evLock>>
          /\ pending' = [pending EXCEPT ![cur[c]] = rec[c]]
          /\ pc' = [pc EXCEPT ![c] = "install"]
      BY <1>4, ZenonT(40) DEF SettleMark, MarkPending, Goto
    <2>3. \A a \in Assignments : pending[a] # None => pending'[a] # None
      BY <1>a, <2>1, <2>2, ZenonT(40) DEF Types, Shelf
    <2>4. pending'[cur[c]] # None /\ pc'[c] = "install"
      BY <1>a, <2>1, <2>2, ZenonT(40) DEF Types, Shelf
    <2>5. DiskGrows /\ OthersUndisturbed(c)
      BY <1>a, <2>2, <2>3, ZenonT(40) DEF DiskGrows, OthersUndisturbed, Types
    <2>6. Holds(c)'
      BY <1>b, <2>1, <2>2, <2>4, ZenonT(40) DEF Holds
    <2>7. Holding'
      BY <1>a, <2>2, <2>5, <2>6, OthersHold, ZenonT(40) DEF Disk
    <2>8. EvidenceBound' /\ RecoveredIsDurable' /\ InstalledRecoverable'
      BY <1>a, <2>2, <2>3, ZenonT(40) DEF Disk, EvidenceBound, RecoveredIsDurable, InstalledRecoverable
    <2>9. QED
      BY <2>7, <2>8, ZenonT(40) DEF Disk
  <1>5. CASE SettleInstall(c)
    <2>1. /\ cur[c] \in Assignments /\ rec[c] \in Record /\ signed[cur[c]] # None
          /\ Persistent => pending[cur[c]] # None \/ durable[cur[c]] # None
      BY <1>a, <1>b, <1>5, Zenon DEF SettleInstall, Threads, Holds, Busy, Labels
    <2>2. /\ Remember(cur[c], rec[c], asg, npending, votes)
          /\ UNCHANGED <<signed, storeVars, cur, rec, index>>
          /\ pc' = [pc EXCEPT ![c] = IF Persistent THEN "build" ELSE "finish"]
      BY <1>5, ZenonT(40) DEF SettleInstall, Goto
    <2>3. /\ asg \in [Assignments -> States] /\ votes \in [Assignments -> Ballots]
          /\ npending \in Int
      BY <1>a, ZenonT(40) DEF Types, States
    <2>4. /\ \A x \in Assignments :
               final'[x] \in {IF x = cur[c] THEN rec[c] ELSE final[x], None}
          /\ \A x \in Assignments : asg'[x] = asg[x] \/ asg'[x] = "none"
      BY <1>a, <2>1, <2>2, <2>3, RememberEffect, Z3T(30)
    <2>5. pc'[c] \in {"build", "finish"} /\ (Persistent => pc'[c] = "build")
      BY <1>a, <2>2, ZenonT(40) DEF Types
    <2>6. Holds(c)'
      BY <1>b, <2>1, <2>2, <2>5, ZenonT(40) DEF Holds, storeVars
    <2>7. DiskGrows /\ OthersUndisturbed(c)
      BY <1>a, <2>2, ZenonT(40) DEF DiskGrows, OthersUndisturbed, storeVars, Types
    <2>8. Holding'
      BY <1>a, <2>2, <2>6, <2>7, OthersHold, ZenonT(40) DEF Disk
    <2>9. EvidenceBound' /\ RecoveredIsDurable' /\ InstalledRecoverable'
      BY <1>a, <2>1, <2>2, <2>4, ZenonT(40)
         DEF Disk, EvidenceBound, RecoveredIsDurable, InstalledRecoverable, storeVars
    <2>10. QED
      BY <2>8, <2>9 DEF Disk
  <1>6. CASE SettleClear(c)
    <2>1. cur[c] \in Assignments /\ durable[cur[c]] # None /\ signed[cur[c]] # None
      BY <1>a, <1>b, <1>6, ZenonT(40) DEF SettleClear, Threads, Holds, Busy, Labels
    <2>2. /\ ClearPending(cur[c]) /\ UNCHANGED <<signed, asg, final, cur, rec, index>>
          /\ pc' = [pc EXCEPT ![c] = "finish"]
      BY <1>6, ZenonT(40) DEF SettleClear, Goto
    <2>3. /\ DiskGrows /\ UNCHANGED <<durable, receipt, evLock>>
          /\ EvidenceBound' /\ RecoveredIsDurable' /\ InstalledRecoverable'
      BY <1>a, <2>1, <2>2, ClearDisk, ZenonT(40) DEF ClearPending
    <2>4. pc'[c] = "finish" /\ OthersUndisturbed(c)
      BY <1>a, <2>2, <2>3, ZenonT(40) DEF OthersUndisturbed, Types
    <2>5. Holds(c)'
      BY <1>b, <2>1, <2>2, <2>3, <2>4, ZenonT(40) DEF Holds
    <2>6. QED
      BY <1>a, <2>2, <2>3, <2>4, <2>5, OthersHold, ZenonT(40) DEF Disk
  <1>7. CASE SettleFinish(c)
    <2>1. cur[c] \in Assignments /\ (Persistent => durable[cur[c]] # None)
      BY <1>a, <1>b, <1>7, Zenon DEF SettleFinish, Threads, Holds, Busy, Labels
    <2>2. /\ Leave(c) /\ UNCHANGED <<signed, final, storeVars>>
          /\ asg' = [asg EXCEPT ![cur[c]] = "recovered"]
      BY <1>7, ZenonT(40) DEF SettleFinish
    <2>3. DiskGrows /\ OthersUndisturbed(c)
      BY <1>a, <2>2, LeaveOthers, ZenonT(40) DEF DiskGrows, OthersUndisturbed, storeVars
    <2>4. Holding'
      BY <1>a, <2>2, <2>3, OthersHold, LeaverHolds, ZenonT(40) DEF Disk
    <2>5. EvidenceBound' /\ RecoveredIsDurable' /\ InstalledRecoverable'
      BY <1>a, <2>1, <2>2, ZenonT(40)
         DEF Disk, EvidenceBound, RecoveredIsDurable, InstalledRecoverable, storeVars, Types
    <2>6. QED
      BY <2>4, <2>5 DEF Disk
  <1>8. QED
    BY <1>1, <1>2, <1>3, <1>4, <1>5, <1>6, <1>7, ZenonT(40) DEF Vote, Settle

\* The holder of the evidence lock is the only thread about to append.
LEMMA AloneInLock ==
    ASSUME Disk, NEW c \in Callers, pc[c] = "append" \/ evLock = None
    PROVE  \A x \in Callers \ {c} : pc[x] # "append"
  BY NoneAssumption, ZenonT(40) DEF Disk, Holding, Holds

\* The append makes the record durable beside the receipt already written.
LEMMA AppendDisk ==
    ASSUME Types, Threads, Disk, NEW c \in Callers, pc[c] = "append",
           AppendRecord(c, cur[c], rec[c])
    PROVE  /\ cur[c] \in Assignments /\ signed[cur[c]] # None
           /\ durable'[cur[c]] # None /\ DiskGrows
           /\ \A x \in Callers \ {c} : pc[x] # "append"
           /\ UNCHANGED <<asg, final>>
                => EvidenceBound' /\ RecoveredIsDurable' /\ InstalledRecoverable'
  <1>1. /\ cur[c] \in Assignments /\ rec[c] # None /\ signed[cur[c]] # None
        /\ evLock = c /\ receipt[cur[c]] = rec[c] /\ durable[cur[c]] = None
    BY NoneAssumption, ZenonT(40) DEF Threads, Disk, Holding, Holds, Busy, Labels
  <1>2. durable' = [durable EXCEPT ![cur[c]] = rec[c]] /\ UNCHANGED <<pending, receipt>>
    BY <1>1, ZenonT(40) DEF AppendRecord, Types, Shelf
  <1>3. /\ durable'[cur[c]] = rec[c]
        /\ \A a \in Assignments : a # cur[c] => durable'[a] = durable[a]
    BY <1>1, <1>2, ZenonT(40) DEF Types, Shelf
  <1>4. DiskGrows
    BY <1>1, <1>2, <1>3, ZenonT(40) DEF DiskGrows
  <1>5. UNCHANGED <<asg, final>>
          => EvidenceBound' /\ RecoveredIsDurable' /\ InstalledRecoverable'
    BY <1>1, <1>2, <1>3, ZenonT(40) DEF Disk, EvidenceBound, RecoveredIsDurable, InstalledRecoverable
  <1>6. QED
    BY <1>1, <1>3, <1>4, <1>5, AloneInLock, ZenonT(40)

\* Building, writing and appending, and their failures, keep the store's
\* invariant.
LEMMA DiskPersist ==
    ASSUME Inv, NEW c \in Callers, Persist(c) \/ Faults(c)
    PROVE  Disk'
  <1>a. Types /\ Threads /\ Disk
    BY DEF Inv
  <1>b. Holds(c)
    BY <1>a, ZenonT(40) DEF Disk, Holding
  <1> USE DEF ctlVars, memberVars, asgVars, finalVars, threadVars, histVars, memory, locals
  <1>1. CASE BuildReceipt(c)
    <2>1. /\ pc[c] = "build" /\ pc'[c] = "lock"
          /\ UNCHANGED <<signed, asg, final, storeVars, cur, rec, index>>
          /\ \A x \in Callers \ {c} : pc'[x] = pc[x]
      BY <1>a, <1>1, ZenonT(40) DEF BuildReceipt, Goto, Types
    <2>2. Holds(c)'
      BY <1>b, <2>1 DEF Holds, storeVars, Busy, Labels
    <2>3. QED
      BY <1>a, <2>1, <2>2, MoveDisk, ZenonT(40)
  <1>2. CASE BuildReceiptFails(c) \/ StoreCallFails(c)
    BY <1>a, <1>2, LeaveDisk, ZenonT(40) DEF BuildReceiptFails, StoreCallFails, Fault
  <1>3. CASE PersistReceipt(c)
    <2>1. /\ pc[c] = "lock" /\ cur[c] \in Assignments /\ signed[cur[c]] # None
          /\ durable[cur[c]] = None
      BY <1>a, <1>b, <1>3, ZenonT(40)
         DEF PersistReceipt, HasCommittedReceipt, Threads, Holds, Busy, Labels
    <2>2. /\ evLock = None /\ evLock' = c /\ receipt' = [receipt EXCEPT ![cur[c]] = rec[c]]
          /\ UNCHANGED <<signed, asg, final, durable, pending, cur, rec, index>>
          /\ pc' = [pc EXCEPT ![c] = "append"]
      BY <1>3, ZenonT(40) DEF PersistReceipt, WriteReceipt, Goto
    <2>3. /\ pc'[c] = "append" /\ receipt'[cur[c]] = rec[c]
          /\ \A a \in Assignments : a # cur[c] => receipt'[a] = receipt[a]
      BY <1>a, <2>1, <2>2, ZenonT(40) DEF Types, Shelf
    <2>4. DiskGrows /\ OthersUndisturbed(c)
      BY <1>a, <2>2, AloneInLock, ZenonT(40) DEF DiskGrows, OthersUndisturbed, Types
    <2>5. Holds(c)'
      BY <1>b, <2>1, <2>2, <2>3, ZenonT(40) DEF Holds
    <2>6. Holding'
      BY <1>a, <2>2, <2>4, <2>5, OthersHold, ZenonT(40) DEF Disk
    <2>7. EvidenceBound' /\ RecoveredIsDurable' /\ InstalledRecoverable'
      BY <1>a, <2>1, <2>2, <2>3, ZenonT(40)
         DEF Disk, EvidenceBound, RecoveredIsDurable, InstalledRecoverable
    <2>8. QED
      BY <2>6, <2>7 DEF Disk
  <1>4. CASE PersistDuplicate(c)
    <2>1. CASE Leave(c)
      BY <1>a, <1>4, <2>1, LeaveDisk, ZenonT(40) DEF PersistDuplicate
    <2>2. CASE Goto(c, "lookup") /\ UNCHANGED locals
      <3>1. /\ pc[c] = "lock" /\ pc'[c] = "lookup" /\ durable[cur[c]] # None
            /\ UNCHANGED <<signed, asg, final, storeVars, cur, rec, index>>
            /\ \A x \in Callers \ {c} : pc'[x] = pc[x]
        BY <1>a, <1>4, <2>2, ZenonT(40) DEF PersistDuplicate, HasCommittedReceipt, Goto, Types
      <3>2. Holds(c)'
        BY <1>b, <3>1, Zenon DEF Holds, storeVars, Busy, Labels
      <3>3. QED
        BY <1>a, <3>1, <3>2, MoveDisk, ZenonT(40)
    <2>3. QED
      BY <1>4, <2>1, <2>2, ZenonT(40) DEF PersistDuplicate
  <1>5. CASE PersistAppend(c)
    <2>1. /\ pc[c] = "append" /\ AppendRecord(c, cur[c], rec[c])
          /\ UNCHANGED <<signed, asg, final, cur, rec, index>>
          /\ pc' = [pc EXCEPT ![c] = IF kind[c] = "settle" THEN "clear" ELSE "lookup"]
      BY <1>5, ZenonT(40) DEF PersistAppend, Goto
    <2>2. /\ cur[c] \in Assignments /\ signed[cur[c]] # None
          /\ durable'[cur[c]] # None /\ DiskGrows
          /\ \A x \in Callers \ {c} : pc[x] # "append"
          /\ EvidenceBound' /\ RecoveredIsDurable' /\ InstalledRecoverable'
      BY <1>a, <2>1, AppendDisk, ZenonT(40)
    <2>3. pc'[c] \in {"clear", "lookup"} /\ OthersUndisturbed(c)
      BY <1>a, <2>1, <2>2, ZenonT(40) DEF OthersUndisturbed, Types
    <2>4. Holds(c)'
      BY <1>b, <2>1, <2>2, <2>3, ZenonT(40) DEF Holds, DiskGrows
    <2>5. QED
      BY <1>a, <2>1, <2>2, <2>3, <2>4, OthersHold, ZenonT(40) DEF Disk
  <1>6. CASE AppendFails(c)
    <2>1. /\ pc[c] = "append" /\ Leave(c) /\ UnlinkReceipt(c, cur[c])
          /\ UNCHANGED <<signed, asg, final>>
      BY <1>6, ZenonT(40) DEF AppendFails, Fault
    <2>2. cur[c] \in Assignments /\ durable[cur[c]] = None
      BY <1>a, <1>b, <2>1, ZenonT(40) DEF Threads, Holds, Busy, Labels
    <2>3. /\ UNCHANGED <<durable, pending>>
          /\ \A a \in Assignments : durable[a] # None => receipt'[a] = receipt[a]
      BY <1>a, <2>1, <2>2, ZenonT(40) DEF UnlinkReceipt, Types, Shelf
    <2>4. DiskGrows /\ OthersUndisturbed(c)
      BY <1>a, <2>1, <2>3, AloneInLock, LeaveOthers, Zenon DEF DiskGrows, OthersUndisturbed
    <2>5. Holding'
      BY <1>a, <2>1, <2>4, OthersHold, LeaverHolds, ZenonT(40) DEF Disk
    <2>6. EvidenceBound' /\ RecoveredIsDurable' /\ InstalledRecoverable'
      BY <1>a, <2>1, <2>3, ZenonT(40) DEF Disk, EvidenceBound, RecoveredIsDurable, InstalledRecoverable
    <2>7. QED
      BY <2>5, <2>6 DEF Disk
  <1>7. CASE AppendFailsLate(c)
    <2>1. /\ pc[c] = "append" /\ Leave(c) /\ AppendRecord(c, cur[c], rec[c])
          /\ UNCHANGED <<signed, asg, final>>
      BY <1>7, ZenonT(40) DEF AppendFailsLate, Fault
    <2>2. /\ DiskGrows /\ \A x \in Callers \ {c} : pc[x] # "append"
          /\ EvidenceBound' /\ RecoveredIsDurable' /\ InstalledRecoverable'
      BY <1>a, <2>1, AppendDisk, ZenonT(40)
    <2>3. OthersUndisturbed(c)
      BY <1>a, <2>1, <2>2, LeaveOthers, ZenonT(40) DEF OthersUndisturbed
    <2>4. QED
      BY <1>a, <2>1, <2>2, <2>3, OthersHold, LeaverHolds, ZenonT(40) DEF Disk
  <1>8. ASSUME NEW a \in Assignments, ReconcileScanFails(c, a) PROVE Disk'
    BY <1>a, <1>8, ZenonT(40) DEF ReconcileScanFails, Fault, storeVars, Disk, Holding, Holds,
                      EvidenceBound, RecoveredIsDurable, InstalledRecoverable
  <1>9. QED
    BY <1>1, <1>2, <1>3, <1>4, <1>5, <1>6, <1>7, <1>8, ZenonT(40) DEF Persist, Faults

\* Reconciliation keeps the store's invariant.
LEMMA DiskReconcile ==
    ASSUME Inv, NEW c \in Callers, Reconcile(c)
    PROVE  Disk'
  <1>a. Types /\ Threads /\ Disk /\ LocalsSound /\ npending = Cardinality(OpenOf(asg))
    BY CounterForm DEF Inv
  <1>b. Holds(c)
    BY <1>a, ZenonT(40) DEF Disk, Holding
  <1> USE DEF ctlVars, memberVars, asgVars, finalVars, threadVars, histVars, memory, locals
  <1>1. CASE ReconcileBegin(c)
    <2>1. /\ pc'[c] = "scan"
          /\ UNCHANGED <<signed, asg, final, storeVars, cur, rec, index>>
          /\ \A x \in Callers \ {c} : pc'[x] = pc[x]
      BY <1>a, <1>1, ZenonT(40) DEF ReconcileBegin, Goto, Types
    <2>2. Holds(c)'
      BY <1>b, <2>1, ZenonT(40) DEF Holds, storeVars, Busy
    <2>3. QED
      BY <1>a, <2>1, <2>2, MoveDisk, ZenonT(40)
  <1>2. ASSUME NEW a \in Assignments, ReconcileScan(c, a) PROVE Disk'
    <2>0. UNCHANGED <<signed, asg, final, index>> /\ pc[c] = "scan"
      BY <1>2, ZenonT(40) DEF ReconcileScan
    <2>1. CASE UNCHANGED <<pc, cur, rec, storeVars>>
      BY <1>a, <1>b, <2>0, <2>1, MoveDisk, ZenonT(40) DEF Holds, storeVars
    <2>2. CASE IsRecovered(a) /\ ClearPending(a) /\ UNCHANGED <<pc, cur, rec>>
      <3>1. Persistent
        BY <1>a, <2>0, Zenon DEF Threads
      <3>2. durable[a] # None
        BY <1>a, <2>2, <3>1, ZenonT(40) DEF IsRecovered, Disk, RecoveredIsDurable
      <3>3. /\ DiskGrows /\ UNCHANGED <<durable, receipt, evLock>>
            /\ EvidenceBound' /\ RecoveredIsDurable' /\ InstalledRecoverable'
        BY <1>a, <2>0, <2>2, <3>2, ClearDisk, ZenonT(40) DEF ClearPending
      <3>4. OthersUndisturbed(c)
        BY <2>0, <2>2, <3>3, ZenonT(40) DEF OthersUndisturbed
      <3>5. Holds(c)'
        BY <1>b, <2>0, <2>2, <3>3, ZenonT(40) DEF Holds, Busy
      <3>6. QED
        BY <1>a, <2>0, <3>3, <3>4, <3>5, OthersHold, ZenonT(40) DEF Disk
    <2>3. CASE /\ Goto(c, "verify")
               /\ cur' = [cur EXCEPT ![c] = a]
               /\ rec' = [rec EXCEPT ![c] = todo[c][a]]
               /\ UNCHANGED storeVars
      <3>1. signed[a] # None
        BY <1>a, <1>2, ZenonT(40) DEF ReconcileScan, LocalsSound, Good, Sound
      <3>2. /\ pc'[c] = "verify" /\ cur'[c] = a
            /\ \A x \in Callers \ {c} : pc'[x] = pc[x] /\ cur'[x] = cur[x] /\ rec'[x] = rec[x]
        BY <1>a, <2>3, ZenonT(40) DEF Goto, Types
      <3>3. Holds(c)'
        BY <1>b, <2>0, <2>3, <3>1, <3>2, ZenonT(40) DEF Holds, storeVars
      <3>4. QED
        BY <1>a, <2>0, <2>3, <3>2, <3>3, MoveDisk, ZenonT(40)
    <2>4. QED
      BY <1>2, <2>1, <2>2, <2>3, ZenonT(40) DEF ReconcileScan
  <1>3. CASE ReconcileVerify(c)
    <2>1. /\ pc[c] = "verify" /\ cur[c] \in Assignments /\ signed[cur[c]] # None
          /\ rec[c] # None
      BY <1>a, <1>b, <1>3, NoneAssumption, ZenonT(40) DEF ReconcileVerify, Threads, Holds, Busy, Labels
    <2>2. /\ IndexOf(c) # None
          /\ \A a \in Assignments : IndexOf(c)[a] # None => IndexOf(c)[a] = durable[a]
      BY <1>a, <1>b, NoneAssumption, ZenonT(40) DEF IndexOf, Holds, Types
    <2>3. /\ IndexOf(c)[cur[c]] = None \/ IndexOf(c)[cur[c]] = rec[c]
          /\ UNCHANGED <<signed, asg, final, storeVars, cur, rec>>
          /\ index' = [index EXCEPT ![c] = IndexOf(c)]
          /\ pc' = [pc EXCEPT ![c] = IF IndexOf(c)[cur[c]] = None THEN "build" ELSE "adopt"]
      BY <1>3, Zenon DEF ReconcileVerify, Matches, Goto
    <2>4. /\ index'[c] = IndexOf(c)
          /\ pc'[c] = IF IndexOf(c)[cur[c]] = None THEN "build" ELSE "adopt"
          /\ \A x \in Callers \ {c} : pc'[x] = pc[x] /\ index'[x] = index[x]
      BY <1>a, <2>3, ZenonT(40) DEF Types
    <2> HIDE DEF IndexOf
    <2>5. Holds(c)'
      <3>1. \/ pc'[c] = "build"
            \/ pc'[c] = "adopt" /\ durable[cur[c]] = rec[c]
        BY <2>1, <2>2, <2>3, <2>4, ZenonT(40)
      <3>2. /\ cur' = cur /\ rec' = rec /\ signed' = signed /\ durable' = durable
            /\ \A a \in Assignments : index'[c][a] # None => index'[c][a] = durable[a]
        BY <2>2, <2>3, <2>4, ZenonT(40) DEF storeVars
      <3>3. QED
        BY <2>1, <3>1, <3>2, ZenonT(40) DEF Holds
    <2>6. QED
      BY <1>a, <2>3, <2>4, <2>5, MoveDisk, ZenonT(40)
  <1>4. CASE ReconcileReject(c) \/ ReconcileCrossed(c)
    BY <1>a, <1>4, LeaveDisk, ZenonT(40) DEF ReconcileReject, ReconcileCrossed
  <1>4a. CASE ReconcileConflict(c)
    <2>1. /\ IndexOf(c) # None
          /\ \A a \in Assignments : IndexOf(c)[a] # None => IndexOf(c)[a] = durable[a]
      BY <1>a, <1>b, NoneAssumption, ZenonT(40) DEF IndexOf, Holds, Types
    <2>2. /\ UNCHANGED <<signed, asg, final, storeVars>>
          /\ index'[c] = IndexOf(c) /\ pc'[c] = "scan"
          /\ \A x \in Callers \ {c} : /\ pc'[x] = pc[x] /\ cur'[x] = cur[x]
                                      /\ rec'[x] = rec[x] /\ index'[x] = index[x]
      BY <1>a, <1>4a, ZenonT(40) DEF ReconcileConflict, Goto, Types
    <2> HIDE DEF IndexOf
    <2>3. Holds(c)'
      BY <2>1, <2>2, ZenonT(40) DEF Holds, Busy, storeVars
    <2>4. QED
      BY <1>a, <2>2, <2>3, MoveDisk, ZenonT(40)
  <1>5. CASE ReconcileLookup(c)
    <2>1. CASE Leave(c)
      BY <1>a, <1>5, <2>1, LeaveDisk, Zenon DEF ReconcileLookup
    <2>2. CASE Matches(rec[c], durable[cur[c]]) /\ Goto(c, "adopt") /\ UNCHANGED locals
      <3>1. /\ pc[c] = "lookup" /\ pc'[c] = "adopt" /\ durable[cur[c]] = rec[c]
            /\ UNCHANGED <<signed, asg, final, storeVars, cur, rec, index>>
            /\ \A x \in Callers \ {c} : pc'[x] = pc[x]
        BY <1>a, <1>5, <2>2, Zenon DEF ReconcileLookup, Matches, Goto, Types
      <3>2. Holds(c)'
        BY <1>b, <3>1, Zenon DEF Holds, storeVars, Busy, Labels
      <3>3. QED
        BY <1>a, <3>1, <3>2, MoveDisk, Zenon
    <2>3. QED
      BY <1>5, <2>1, <2>2, Zenon DEF ReconcileLookup
  <1>6. CASE ReconcileAdopt(c)
    <2> DEFINE a == cur[c]
               at == [asg EXCEPT ![a] = "recovered"]
               n == PopCount(npending, asg, a)
               vt == [votes EXCEPT ![a] = NoBallots]
    <2>1. /\ pc[c] = "adopt" /\ a \in Assignments /\ signed[a] # None
          /\ durable[a] = rec[c] /\ rec[c] \in Record /\ durable[a] # None
      BY <1>a, <1>b, <1>6, NoneAssumption, Zenon
         DEF ReconcileAdopt, Threads, Holds, Busy, Labels
    <2>2. /\ \/ Remember(a, rec[c], at, n, vt)
             \/ asg' = at /\ UNCHANGED final
          /\ UNCHANGED <<signed, storeVars, locals>>
          /\ pc' = [pc EXCEPT ![c] = "adopted"]
      BY <1>6, Zenon DEF ReconcileAdopt, Goto
    <2>3. at \in [Assignments -> States] /\ vt \in [Assignments -> Ballots]
      BY <1>a, Zenon DEF Types, States, NoBallots, Ballots
    <2>4. n \in Int
      BY <1>a DEF PopCount, Open, Types
    <2>5. n = Cardinality(OpenOf(at))
      <3>1. asg \in [Assignments -> States] /\ npending \in Int
        BY <1>a, ZenonT(40) DEF Types, States
      <3>2. QED
        BY <1>a, <2>1, <3>1, PopExact, Zenon
    <2>6. \A x \in Assignments : at[x] = "recovered" => x = a \/ asg[x] = "recovered"
      BY <1>a, <2>1, ZenonT(40) DEF Types
    <2> HIDE DEF a, at, n, vt
    <2>7. \A x \in Assignments \ {a} : /\ final'[x] \in {final[x], None}
                                       /\ asg'[x] = "recovered" => asg[x] = "recovered"
      <3>1. CASE Remember(a, rec[c], at, n, vt)
        <4>1. /\ \A x \in Assignments :
                   final'[x] \in {IF x = a THEN rec[c] ELSE final[x], None}
              /\ \A x \in Assignments : asg'[x] = at[x] \/ asg'[x] = "none"
          BY <1>a, <2>1, <2>3, <2>4, <2>5, <3>1, RememberEffect, ZenonT(40)
        <4>2. QED
          BY <2>6, <4>1, ZenonT(40)
      <3>2. CASE asg' = at /\ UNCHANGED final
        BY <2>6, <3>2, ZenonT(40)
      <3>3. QED
        BY <2>2, <3>1, <3>2, ZenonT(40)
    <2>8. pc'[c] = "adopted" /\ \A x \in Callers \ {c} : pc'[x] = pc[x]
      BY <1>a, <2>2, ZenonT(40) DEF Types
    <2>9. DiskGrows /\ OthersUndisturbed(c)
      BY <2>2, <2>8, ZenonT(40) DEF DiskGrows, OthersUndisturbed, storeVars
    <2>10. Holds(c)'
      BY <1>b, <2>1, <2>2, <2>8, ZenonT(40) DEF Holds, storeVars, a
    <2>11. Holding'
      BY <1>a, <2>2, <2>9, <2>10, OthersHold, ZenonT(40) DEF Disk
    <2>12. EvidenceBound' /\ RecoveredIsDurable' /\ InstalledRecoverable'
      BY <1>a, <2>1, <2>2, <2>7, ZenonT(40)
         DEF Disk, EvidenceBound, RecoveredIsDurable, InstalledRecoverable, storeVars
    <2>13. QED
      BY <2>11, <2>12, ZenonT(40) DEF Disk
  <1>7. CASE ReconcileClear(c)
    <2>1. cur[c] \in Assignments /\ durable[cur[c]] # None
      BY <1>a, <1>b, <1>7, NoneAssumption, ZenonT(40)
         DEF ReconcileClear, Threads, Holds, Busy, Labels
    <2>2. ClearPending(cur[c]) /\ Leave(c) /\ UNCHANGED <<signed, asg, final>>
      BY <1>7, ZenonT(40) DEF ReconcileClear
    <2>3. /\ DiskGrows /\ UNCHANGED <<durable, receipt, evLock>>
          /\ EvidenceBound' /\ RecoveredIsDurable' /\ InstalledRecoverable'
      BY <1>a, <2>1, <2>2, ClearDisk, Zenon DEF ClearPending
    <2>4. OthersUndisturbed(c)
      BY <1>a, <2>2, <2>3, LeaveOthers, ZenonT(40) DEF OthersUndisturbed
    <2>5. QED
      BY <1>a, <2>2, <2>3, <2>4, OthersHold, LeaverHolds, ZenonT(40) DEF Disk
  <1>8. CASE ReconcileEnd(c)
    <2>1. /\ pc'[c] = "idle" /\ index'[c] = None
          /\ UNCHANGED <<signed, asg, final, storeVars, cur, rec>>
          /\ \A x \in Callers \ {c} : pc'[x] = pc[x] /\ index'[x] = index[x]
      BY <1>a, <1>8, ZenonT(40) DEF ReconcileEnd, Goto, Types
    <2>2. Holds(c)'
      BY <2>1, Zenon DEF Holds, Busy
    <2>3. QED
      BY <1>a, <2>1, <2>2, MoveDisk, ZenonT(40)
  <1>9. QED
    BY <1>1, <1>2, <1>3, <1>4, <1>4a, <1>5, <1>6, <1>7, <1>8, ZenonT(40) DEF Reconcile

\* Every step of the mesh keeps the store's invariant.
LEMMA DiskStep == Inv /\ [Next]_vars => Disk'
  <1> SUFFICES ASSUME Inv, [Next]_vars PROVE Disk'
    BY ZenonT(40)
  <1>1. CASE UNCHANGED vars
    BY <1>1, Zenon DEF Inv, vars, asgVars, finalVars, threadVars, storeVars, Disk, Holding, Holds,
                EvidenceBound, RecoveredIsDurable, InstalledRecoverable
  <1>2. QED
    BY <1>1, DiskOther, DiskSettle, DiskPersist, DiskReconcile, ZenonT(40) DEF Next

=============================================================================

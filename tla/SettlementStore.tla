--------------------------- MODULE SettlementStore ---------------------------
(***************************************************************************)
(* What a ConstitutionalMesh leaves on disk, as the mesh uses it: the      *)
(* append-once settlement log, the map of pending markers, the receipt     *)
(* files, and the advisory lock that orders receipt writers against the    *)
(* removal of orphan receipts.  Each operator is one call of the store; a  *)
(* call runs under the store's own file lock or database transaction, so   *)
(* it is one step.  The JSONL file behind it is modelled in JsonlStore.    *)
(***************************************************************************)
EXTENDS Naturals

CONSTANTS Assignments,   \* assignment identifiers
          None           \* "no record", "no holder"

VARIABLES durable,   \* assignment -> its committed record, or None
          pending,   \* assignment -> its pending marker, or None
          receipt,   \* assignment -> what its receipt file attests, or None
          evLock     \* the thread that holds the evidence lock, or None

storeVars == <<durable, pending, receipt, evLock>>

StoreInit == /\ durable = [a \in Assignments |-> None]
             /\ pending = [a \in Assignments |-> None]
             /\ receipt = [a \in Assignments |-> None]
             /\ evLock = None

\* mark_pending replaces whatever marker the assignment already had.
MarkPending(a, r) == /\ pending' = [pending EXCEPT ![a] = r]
                     /\ UNCHANGED <<durable, receipt, evLock>>

\* clear_pending removes the marker by id, whichever record it holds.
ClearPending(a) == /\ pending' = [pending EXCEPT ![a] = None]
                   /\ UNCHANGED <<durable, receipt, evLock>>

\* write_receipt_atomic, inside evidence_lock: the file is replaced whole.
WriteReceipt(c, a, r) == /\ evLock = None
                         /\ evLock' = c
                         /\ receipt' = [receipt EXCEPT ![a] = r]
                         /\ UNCHANGED <<durable, pending>>

\* append refuses an assignment that is already in the log.  The evidence
\* lock is released on the way out.
AppendRecord(c, a, r) ==
    /\ evLock = c
    /\ evLock' = None
    /\ durable' = [durable EXCEPT ![a] = IF @ = None THEN r ELSE @]
    /\ UNCHANGED <<pending, receipt>>

\* _has_committed_receipt: the log holds a record, which points at its receipt.
ReceiptUnseen(a) == FALSE      \* mutant
HasCommittedReceipt(a) == durable[a] # None

\* append raised and the log has no record: the new receipt file is removed.
UnlinkReceipt(c, a) ==
    /\ evLock = c
    /\ evLock' = None
    /\ receipt' = [receipt EXCEPT ![a] = IF HasCommittedReceipt(a) THEN @ ELSE None]
    /\ UNCHANGED <<durable, pending>>

\* reconcile_orphan_receipts: under the evidence lock, remove every receipt
\* file whose assignment has no committed record.
RemoveOrphans ==
    /\ evLock = None
    /\ receipt' = [a \in Assignments |->
                     IF HasCommittedReceipt(a) THEN receipt[a] ELSE None]
    /\ UNCHANGED <<durable, pending, evLock>>

\* The operating system drops a dead process's locks; the files stay.
DropLocks == /\ evLock' = None
             /\ UNCHANGED <<durable, pending, receipt>>
=============================================================================

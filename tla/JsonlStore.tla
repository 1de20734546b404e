----------------------------- MODULE JsonlStore -----------------------------
(***************************************************************************)
(* JSONLSettlementStore (settlement_store.py): an append-only log of one   *)
(* JSON record a line and a file of pending markers, shared by processes   *)
(* that take an advisory file lock.  Each process keeps an index of the    *)
(* assignment ids in the log, valid while size and mtime of the file are   *)
(* those it remembered.  A write may be torn by a crash or an I/O error.   *)
(*                                                                         *)
(* The log is its newline-terminated lines and the tail after the last     *)
(* newline; a line is a sequence of texts, each the whole JSON of a record *)
(* or a fragment of one.                                                   *)
(***************************************************************************)
EXTENDS Integers, Sequences, FiniteSets, SequencesExt

CONSTANTS Ids,        \* assignment identifiers
          Procs,      \* processes (or store instances) on the same files
          None,
          Tears,      \* how much of a line a torn write may leave
          MaxFaults,  \* bound on torn writes, crashes and errors
          MaxTicks    \* bound on the clock ticks that mtime may show

ASSUME TearsAssumption == Tears \subseteq {"fragment", "whole"}

VARIABLES lines,    \* the newline-terminated lines of the log
          tail,     \* the texts after the last newline
          mtime,    \* modification time of the log
          markers,  \* the pending file: the ids it has markers for
          lock,     \* the process that holds the file lock, or None
          pc, cur,  \* what a process is doing, and for which id
          read,     \* the markers a process has read for its update
          index,    \* _index of each process, or None
          acked,    \* history: ids whose append has returned
          faults

logVars == <<lines, tail, mtime>>
procVars == <<pc, cur, read>>
vars == <<logVars, markers, lock, procVars, index, acked, faults>>

Whole(a) == [id |-> a, whole |-> TRUE]
Fragment(a) == [id |-> a, whole |-> FALSE]

Init == /\ lines = <<>> /\ tail = <<>> /\ mtime = 0
        /\ markers = {} /\ lock = None
        /\ pc = [p \in Procs |-> "idle"] /\ cur = [p \in Procs |-> None]
        /\ read = [p \in Procs |-> {}]
        /\ index = [p \in Procs |-> None]
        /\ acked = {} /\ faults = 0

-----------------------------------------------------------------------------
(* Reading the log *)

\* json.loads accepts a line that is exactly one record.
Parses(line) == Len(line) = 1 /\ line[1].whole

\* _load_all_unlocked raises for a terminated line that does not parse.
Readable == \A i \in 1..Len(lines) : Parses(lines[i])

\* The records it returns: all lines, and the tail if that parses.
Loaded == {lines[i][1].id : i \in 1..Len(lines)}
            \cup (IF Parses(tail) THEN {tail[1].id} ELSE {})

\* The tail after a scan: truncated when it does not parse.
Salvaged == IF Parses(tail) THEN tail ELSE <<>>

\* The length of a file: a fragment is shorter than a record.
Size(ls, t) ==
    LET Length(line) == 2 * Cardinality({i \in 1..Len(line) : line[i].whole})
                          + Cardinality({i \in 1..Len(line) : ~line[i].whole})
    IN  Length(t) + FoldSeq(LAMBDA line, n : n + Length(line) + 1, 0, ls)

\* Modification times are as coarse as the file system's clock.
Tick == mtime' \in {mtime, mtime + 1} /\ mtime' <= MaxTicks

\* _file_signature and _remember_index.
Signature(ids) == [ids |-> ids, size |-> Size(lines', tail'), mtime |-> mtime']

\* Mutant: only the modification time is compared.
IndexMatchesTime(p) == index[p] # None /\ index[p].mtime = mtime

\* _index_matches_file.
IndexMatchesFile(p) == /\ index[p] # None
                       /\ index[p].size = Size(lines, tail)
                       /\ index[p].mtime = mtime

\* Mutant: the repair cuts one line too many.
ScanCutsLine == /\ Readable
                /\ tail' = Salvaged
                /\ lines' = IF tail' = tail \/ lines = <<>> THEN lines ELSE Front(lines)
                /\ IF tail' = tail THEN mtime' = mtime ELSE Tick

\* One scan of the log by load_all, get or append: it returns and repairs.
Scan == /\ Readable
        /\ tail' = Salvaged /\ lines' = lines
        /\ IF tail' = tail THEN mtime' = mtime ELSE Tick

-----------------------------------------------------------------------------
(* The file lock *)

\* Mutant: no lock primitive, and the block runs anyway.
AcquireAlways(p) == lock' = p

\* exclusive_file_lock around every call.
Acquire(p) == lock = None /\ lock' = p

Begin(p, a, l) == /\ pc[p] = "idle"
                  /\ Acquire(p)
                  /\ pc' = [pc EXCEPT ![p] = l]
                  /\ cur' = [cur EXCEPT ![p] = a]

\* The call returns or raises.
End(p) == /\ lock' = None
          /\ pc' = [pc EXCEPT ![p] = "idle"]
          /\ cur' = [cur EXCEPT ![p] = None]
          /\ read' = [read EXCEPT ![p] = {}]

-----------------------------------------------------------------------------
(* append *)

AppendBegin(p, a) ==
    /\ Begin(p, a, "check")
    /\ UNCHANGED <<logVars, markers, read, index, acked, faults>>

\* _known_assignment_ids_locked: from the index, or by a scan that renews it.
\* A known id is refused (DuplicateSettlementError).
AppendCheck(p) ==
    /\ pc[p] = "check"
    /\ \/ IndexMatchesFile(p) /\ UNCHANGED <<logVars, index>>
       \/ /\ ~IndexMatchesFile(p) /\ Scan
          /\ index' = [index EXCEPT ![p] = Signature(Loaded)]
    /\ IF cur[p] \in index'[p].ids
       THEN End(p)
       ELSE pc' = [pc EXCEPT ![p] = "write"] /\ UNCHANGED <<lock, cur, read>>
    /\ UNCHANGED <<markers, acked, faults>>

\* The scan raises.
AppendUnreadable(p) ==
    /\ pc[p] = "check" /\ ~IndexMatchesFile(p) /\ ~Readable
    /\ End(p)
    /\ UNCHANGED <<logVars, markers, index, acked, faults>>

\* The line is written behind whatever the tail is.
WriteLine(a) == /\ lines' = Append(lines, Append(tail, Whole(a)))
                /\ tail' = <<>> /\ Tick

AppendWrite(p) ==
    /\ pc[p] = "write"
    /\ WriteLine(cur[p])
    /\ index' = [index EXCEPT ![p] = Signature(index[p].ids \cup {cur[p]})]
    /\ acked' = acked \cup {cur[p]}
    /\ End(p)
    /\ UNCHANGED <<markers, faults>>

\* An error, or a crash that also loses the index.
Fault(p) == /\ faults < MaxFaults
            /\ faults' = faults + 1
            /\ index' \in {index, [index EXCEPT ![p] = None]}
            /\ End(p)

\* fsync raises, or the process dies, with the line written.
AppendFailsLate(p) ==
    /\ pc[p] = "write"
    /\ WriteLine(cur[p])
    /\ Fault(p)
    /\ UNCHANGED <<markers, acked>>

\* The write stops short of the newline.
AppendTears(p) ==
    /\ pc[p] = "write"
    /\ \/ "fragment" \in Tears /\ tail' = Append(tail, Fragment(cur[p]))
       \/ "whole" \in Tears /\ tail' = Append(tail, Whole(cur[p]))
    /\ Tick
    /\ Fault(p)
    /\ UNCHANGED <<lines, markers, acked>>

\* load_all, and get through it.  It leaves the index alone.
LoadAll == /\ lock = None
           /\ Scan
           /\ UNCHANGED <<markers, lock, procVars, index, acked, faults>>

-----------------------------------------------------------------------------
(* The pending file: read, change one marker, replace the file *)

MarkBegin(p, a) ==
    /\ Begin(p, a, "mark")
    /\ read' = [read EXCEPT ![p] = markers]
    /\ UNCHANGED <<logVars, markers, index, acked, faults>>

MarkPending(p) ==
    /\ pc[p] = "mark"
    /\ markers' = read[p] \cup {cur[p]}
    /\ End(p)
    /\ UNCHANGED <<logVars, index, acked, faults>>

ClearBegin(p, a) ==
    /\ Begin(p, a, "clear")
    /\ read' = [read EXCEPT ![p] = markers]
    /\ UNCHANGED <<logVars, markers, index, acked, faults>>

ClearPending(p) ==
    /\ pc[p] = "clear"
    /\ markers' = IF cur[p] \in read[p] THEN read[p] \ {cur[p]} ELSE markers
    /\ End(p)
    /\ UNCHANGED <<logVars, index, acked, faults>>

\* A call fails, or its process dies, before it has written anything: the new
\* pending file is only a temporary file until it is renamed.
CallFails(p) ==
    /\ pc[p] # "idle"
    /\ Fault(p)
    /\ UNCHANGED <<logVars, markers, acked>>

Next == \/ LoadAll
        \/ \E p \in Procs :
             \/ AppendCheck(p) \/ AppendUnreadable(p) \/ AppendWrite(p)
             \/ AppendFailsLate(p) \/ AppendTears(p) \/ CallFails(p)
             \/ MarkPending(p) \/ ClearPending(p)
             \/ \E a \in Ids : AppendBegin(p, a) \/ MarkBegin(p, a) \/ ClearBegin(p, a)

Spec == Init /\ [][Next]_vars

-----------------------------------------------------------------------------
(* Properties *)

\* An append that has returned stays in the log, on a line of its own end,
\* whatever torn writes are cut off later (_load_all_unlocked's salvage).
AckedStays ==
    \A a \in acked : \E i \in 1..Len(lines) : Last(lines[i]) = Whole(a)

\* The cached index is never trusted when it is wrong: while it matches the
\* file, it holds exactly the ids a scan would find (_JsonlAssignmentIndex:
\* "cannot hide a duplicate behind a stale set").
IndexTruthful ==
    \A p \in Procs : IndexMatchesFile(p) => index[p].ids = Loaded

-----------------------------------------------------------------------------
\* The log holds an id from the moment its line, or a tail that parses, is in
\* the file.
Promise == INSTANCE SettlementLog WITH log <- Loaded

\* The store implements an append-once log and a map of markers with atomic
\* updates, for processes that share the files and fail at any point.
LogKeepsPromise == Promise!Spec

\* _load_all_unlocked: the salvage keeps the next append from producing "a
\* permanently unreadable log".
StaysReadable == Readable
=============================================================================

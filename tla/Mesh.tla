------------------------------- MODULE Mesh -------------------------------
(***************************************************************************)
(* ConstitutionalMesh (mesh/core.py): admission of validation requests,    *)
(* peer votes, and the two-phase settlement of a complete electorate into  *)
(* memory and the settlement store, with reconciliation after a crash.     *)
(*                                                                         *)
(* A section of the code that runs under the mesh lock, and one call of    *)
(* the store, is one action; between two of them any other thread runs.    *)
(* Contents, signatures and proofs are abstracted to what they bind: which *)
(* peer voted what under which key on which assignment.                    *)
(***************************************************************************)
EXTENDS SettlementStore, Integers, FiniteSets, Sequences

CONSTANTS Agents,              \* agent identities
          Founders,            \* the agents registered when the history starts
          Keys,                \* key generations an agent may register with
          Hashes,              \* constitutional hashes
          Callers,             \* threads that vote, settle and reconcile
          PeersPerValidation, Quorum, MaxPending, MaxSettled,
          Persistent,          \* is a settlement store configured?
          RiskScoring,         \* may a risky content enlarge the electorate?
          Registries,          \* may a restart find the signer registry again?
          MaxRotations, MaxStamps, MaxRestarts, MaxMembership, MaxFaults

\* The checks of ConstitutionalMesh.__init__.
ASSUME MeshAssumption ==
    /\ PeersPerValidation \in Nat \ {0}
    /\ Quorum \in 1..PeersPerValidation
    /\ Quorum > PeersPerValidation \div 2
    /\ Persistent \in BOOLEAN /\ RiskScoring \in BOOLEAN
    /\ Persistent => Quorum >= 3
    /\ MaxPending \in Nat \ {0} /\ MaxSettled \in Nat \ {0}

ASSUME ModelAssumption ==
    /\ Founders \subseteq Agents
    /\ IsFiniteSet(Agents) /\ IsFiniteSet(Assignments)
    /\ Registries \subseteq BOOLEAN
    /\ {MaxRotations, MaxStamps, MaxRestarts, MaxMembership, MaxFaults} \subseteq Nat

VARIABLES halted,     \* _halted
          hash,       \* constitutional_hash
          cgen,       \* _constitution_generation
          staleFlag,  \* _stale_assignments_possible
          agents,     \* _agents
          key,        \* _vote_registry: agent -> current key, or None
          signed,     \* assignment -> its signed content once committed
          asg,        \* _assignments: "none", "open" or "recovered"
          npending,   \* _pending_assignments
          votes,      \* _votes, with the envelopes
          final,      \* _final_results
          order,      \* the order of _final_results, oldest first
          req,        \* requests between their snapshot and their commit
          pc, kind, cur, rec, fence, todo, index,   \* thread locals
          cast,       \* history: every ballot ever recorded
          stamps,     \* history: settled_at values handed out
          used        \* how much of each bound is spent

ctlVars == <<halted, hash, cgen>>
memberVars == <<agents, key>>
asgVars == <<signed, asg, npending, votes, staleFlag>>
finalVars == <<final, order>>
threadVars == <<pc, kind, cur, rec, fence, todo, index>>
histVars == <<cast, stamps>>
vars == <<ctlVars, memberVars, asgVars, finalVars, req, threadVars, histVars,
          used, storeVars>>

Ballot == [approved : BOOLEAN, key : Keys]
Ballots == [Agents -> Ballot \cup {None}]
Record == [votes : Ballots, accepted : BOOLEAN, stamp : Nat]
Signed == [producer : Agents, peers : SUBSET Agents, quorum : Nat, hash : Hashes]
Snapshot == [producer : Agents, available : SUBSET Agents, hash : Hashes,
             fresh : BOOLEAN]
Shelf == [Assignments -> Record \cup {None}]

\* None is none of the values it stands beside.
ASSUME NoneAssumption ==
    /\ None \notin Keys /\ None \notin Callers /\ None \notin Assignments
    /\ None \notin BOOLEAN
    /\ None \notin Ballot /\ None \notin Record /\ None \notin Signed
    /\ None \notin Snapshot /\ None \notin Nat \X Hashes /\ None \notin Shelf

NoBallots == [p \in Agents |-> None]
EmptyShelf == [a \in Assignments |-> None]

Init ==
    /\ halted = FALSE /\ hash \in Hashes /\ cgen = 0 /\ staleFlag = FALSE
    /\ agents = Founders
    /\ \E k \in Keys : key = [p \in Agents |-> IF p \in Founders THEN k ELSE None]
    /\ signed = EmptyShelf
    /\ asg = [a \in Assignments |-> "none"]
    /\ npending = 0
    /\ votes = [a \in Assignments |-> NoBallots]
    /\ final = EmptyShelf /\ order = <<>>
    /\ req = EmptyShelf
    /\ pc = [c \in Callers |-> "idle"] /\ kind = [c \in Callers |-> "settle"]
    /\ cur = [c \in Callers |-> None] /\ rec = [c \in Callers |-> None]
    /\ fence = [c \in Callers |-> None]
    /\ todo = [c \in Callers |-> EmptyShelf] /\ index = [c \in Callers |-> None]
    /\ cast = [a \in Assignments |-> NoBallots]
    /\ stamps = [a \in Assignments |-> 0]
    /\ used = [restarts |-> 0, membership |-> 0, faults |-> 0]
    /\ StoreInit

-----------------------------------------------------------------------------
(* Helpers of the mesh *)

Current(a) == signed[a].hash = hash

\* _preview_result and _settlement_outcomes: a side wins with the signed
\* quorum and a strict majority of the assigned peers, and nothing is met
\* while a peer is still silent.
For(b) == {p \in Agents : b[p] # None /\ b[p].approved}
Against(b) == {p \in Agents : b[p] # None /\ ~b[p].approved}
WinsHalf(s, S) == Cardinality(S) >= Cardinality(s.peers) \div 2           \* mutant
WinsMajority(s, S) == Cardinality(S) >= Cardinality(s.peers) \div 2 + 1   \* mutant
Wins(s, S) == /\ Cardinality(S) >= s.quorum
              /\ Cardinality(S) >= Cardinality(s.peers) \div 2 + 1
Accepts(s, b) == Wins(s, For(b))
Rejects(s, b) == Wins(s, Against(b))

QuorumMet(s, b) == /\ Accepts(s, b) \/ Rejects(s, b)
                   /\ \A p \in s.peers : b[p] # None

\* authorize: each vote's key is the one the registry grants its voter now.
Authorized(b) == \A p \in Agents : b[p] # None => b[p].key = key[p]

\* verify_assignment_vote_envelopes: authorized votes of exactly the assigned
\* peers.
CompleteElectorate(a, b) == /\ Authorized(b)
                            /\ \A p \in Agents : b[p] # None <=> p \in signed[a].peers

\* _verified_settlement_evidence: one side wins, and it is the recorded outcome.
Evidence(a, r) == /\ CompleteElectorate(a, r.votes)
                  /\ Accepts(signed[a], r.votes) # Rejects(signed[a], r.votes)
                  /\ r.accepted = Accepts(signed[a], r.votes)

\* A bump of _state_generation makes every open routing snapshot stale.
Bumped == [a \in Assignments |->
             IF req[a] = None THEN None ELSE [req[a] EXCEPT !.fresh = FALSE]]

\* What _put_assignment_locked and _pop_assignment_locked take off the counter
\* for the assignment they replace or remove.
OpenAlways(f, a) == IF f[a] # "none" THEN 1 ELSE 0    \* mutant
OpenUncounted(f, a) == 0                              \* mutant
Open(f, a) == IF f[a] = "open" THEN 1 ELSE 0

\* The counter after _pop_assignment_locked.
PopCountBlind(n, f, a) == n - 1                       \* mutant
PopCount(n, f, a) == n - Open(f, a)

\* Is there room for one more pending assignment?
RoomOffByOne(n) == n <= MaxPending                    \* mutant
Room(n) == n < MaxPending

\* _routing_snapshot_matches_locked.
SnapshotSameHash(a) == req[a].hash = hash             \* mutant
SnapshotMatches(a) == req[a].fresh

\* _constitution_fence_matches_locked.
FenceIgnored(c) == TRUE                               \* mutant
FenceMatches(c) == fence[c] = <<cgen, hash>>

\* The look at _final_results after the marker was written.
FrozenUnseen(c) == FALSE                              \* mutant
FrozenMeanwhile(c) == final[cur[c]] # None

\* The duplicate check of _record_verified_vote_locked.
VotedUnseen(a, p) == FALSE                            \* mutant
Voted(a, p) == votes[a][p] # None

\* Reconciliation's look at is_recovered.
KnownAssignment(a) == asg[a] # "none"                 \* mutant
IsRecovered(a) == asg[a] = "recovered"

\* _remember_final_result_locked: the oldest result goes beyond the capacity,
\* and takes its assignment and votes along.  "at" are the assignments and "n"
\* the counter before it.
Remember(a, r, at, n, vt) ==
    LET longer == Append(order, a)
        old == Head(longer)
    IN  IF Len(longer) > MaxSettled
        THEN /\ order' = Tail(longer)
             /\ final' = [final EXCEPT ![a] = r, ![old] = None]
             /\ asg' = [at EXCEPT ![old] = "none"]
             /\ npending' = PopCount(n, at, old)
             /\ votes' = [vt EXCEPT ![old] = NoBallots]
        ELSE /\ order' = longer
             /\ final' = [final EXCEPT ![a] = r]
             /\ asg' = at /\ npending' = n /\ votes' = vt

\* _discard_stale_assignments_locked, once per rotation.
Stale == IF staleFlag
         THEN {a \in Assignments : asg[a] = "open" /\ ~Current(a)} ELSE {}
DiscardStale ==
    /\ staleFlag' = FALSE
    /\ asg' = [a \in Assignments |-> IF a \in Stale THEN "none" ELSE asg[a]]
    /\ npending' = npending - Cardinality(Stale)
    /\ votes' = [a \in Assignments |-> IF a \in Stale THEN NoBallots ELSE votes[a]]

-----------------------------------------------------------------------------
(* Control and membership *)

Halt == /\ halted' = TRUE /\ req' = Bumped
        /\ UNCHANGED <<hash, cgen, memberVars, asgVars, finalVars, threadVars,
                       histVars, used, storeVars>>

Resume == /\ halted' = FALSE /\ req' = Bumped
          /\ UNCHANGED <<hash, cgen, memberVars, asgVars, finalVars, threadVars,
                         histVars, used, storeVars>>

Membership == /\ used.membership < MaxMembership
              /\ used' = [used EXCEPT !.membership = @ + 1]
              /\ req' = Bumped
              /\ UNCHANGED <<ctlVars, asgVars, finalVars, threadVars, histVars,
                             storeVars>>

\* register_remote_agent and register_local_signer, for a new agent or with a
\* new key for a registered one.  Keys of different agents never coincide.
Register(p, k) == /\ Membership
                  /\ agents' = agents \cup {p}
                  /\ key' = [key EXCEPT ![p] = k]

Unregister(p) == /\ Membership
                 /\ agents' = agents \ {p}
                 /\ key' = [key EXCEPT ![p] = None]

\* rotate_constitution: assignments and settlements under way are not touched.
RotateConstitution(h) ==
    /\ cgen < MaxRotations
    /\ hash' = h /\ cgen' = cgen + 1 /\ staleFlag' = TRUE /\ req' = Bumped
    /\ UNCHANGED <<halted, memberVars, signed, asg, npending, votes, finalVars,
                   threadVars, histVars, used, storeVars>>

\* _require_current_assignment_constitution fails: a vote, a remote vote (which
\* looks neither at the halt switch nor at a frozen result before it), a
\* settlement or a read of an assignment of another constitution re-arms the
\* discard.
TouchStale(a) ==
    /\ asg[a] # "none" /\ ~Current(a)
    /\ staleFlag' = TRUE
    /\ UNCHANGED <<ctlVars, memberVars, signed, asg, npending, votes, finalVars,
                   req, threadVars, histVars, used, storeVars>>

-----------------------------------------------------------------------------
(* request_validation: snapshot, compute outside the lock, commit *)

RequestSnapshot(a, q) ==
    /\ ~halted /\ signed[a] = None /\ req[a] = None
    /\ DiscardStale
    /\ Room(npending')
    /\ q \in agents
    /\ req' = [(IF Stale = {} THEN req ELSE Bumped) EXCEPT
                 ![a] = [producer |-> q, available |-> agents \ {q},
                         hash |-> hash, fresh |-> TRUE]]
    /\ UNCHANGED <<ctlVars, memberVars, signed, finalVars, threadVars, histVars,
                   used, storeVars>>

\* The first section raises for capacity or for an unknown producer, after
\* it has discarded the stale assignments.
RequestRefused(q) ==
    /\ ~halted /\ staleFlag
    /\ DiscardStale
    /\ ~Room(npending') \/ q \notin agents
    /\ req' = IF Stale = {} THEN req ELSE Bumped
    /\ UNCHANGED <<ctlVars, memberVars, signed, finalVars, threadVars, histVars,
                   used, storeVars>>

Smaller(m, n) == IF m < n THEN m ELSE n
Larger(m, n) == IF m < n THEN n ELSE m

\* The size of the electorate, by the risk score of the content.
Needed(n) ==
    LET base == Smaller(PeersPerValidation, n)
    IN  IF RiskScoring THEN {base, Smaller(base + 1, n), n} ELSE {base}

\* The second section: the routing snapshot still matches, producer, peers and
\* constitution are looked at once more, and there is room.
RequestCommit(a, P) ==
    /\ ~halted
    /\ req[a] # None /\ SnapshotMatches(a)
    /\ P \cup {req[a].producer} \subseteq agents /\ req[a].hash = hash
    /\ P \subseteq req[a].available
    /\ Cardinality(P) \in Needed(Cardinality(req[a].available))
    /\ Cardinality(P) >= Quorum
    /\ Room(npending)
    /\ signed' = [signed EXCEPT ![a] =
                    [producer |-> req[a].producer, peers |-> P,
                     quorum |-> Larger(Quorum, Cardinality(P) \div 2 + 1),
                     hash |-> req[a].hash]]
    /\ asg' = [asg EXCEPT ![a] = "open"]
    /\ npending' = npending + 1
    /\ votes' = [votes EXCEPT ![a] = NoBallots]
    /\ req' = [req EXCEPT ![a] = None]
    /\ UNCHANGED <<ctlVars, memberVars, staleFlag, finalVars, threadVars,
                   histVars, used, storeVars>>

\* The request raises instead: halted, stale, full, too few peers, a content
\* that violates the constitution, or a selection policy that misbehaves.
RequestAbort(a) ==
    /\ req[a] # None
    /\ req' = [req EXCEPT ![a] = None]
    /\ UNCHANGED <<ctlVars, memberVars, asgVars, finalVars, threadVars, histVars,
                   used, storeVars>>

-----------------------------------------------------------------------------
(* Votes and the first phase of settle *)

Goto(c, l) == pc' = [pc EXCEPT ![c] = l]

\* A thread returns from settle, or goes on to the next marker of its pass.
Leave(c) == /\ Goto(c, IF kind[c] = "settle" THEN "idle" ELSE "scan")
            /\ cur' = [cur EXCEPT ![c] = None]
            /\ rec' = [rec EXCEPT ![c] = None]
            /\ fence' = [fence EXCEPT ![c] = None]
            /\ UNCHANGED <<kind, todo, index>>

\* submit_vote under the lock; the thread goes on to finalize the result.
SubmitVote(c, a, p, d) ==
    /\ pc[c] = "idle"
    /\ ~halted /\ final[a] = None /\ asg[a] = "open" /\ Current(a)
    /\ p \in signed[a].peers \cap agents /\ key[p] # None
    /\ ~Voted(a, p)
    /\ LET b == [approved |-> d, key |-> key[p]] IN
         /\ votes' = [votes EXCEPT ![a][p] = b]
         /\ cast' = [cast EXCEPT ![a][p] = b]
    /\ req' = IF QuorumMet(signed[a], votes'[a]) THEN Bumped ELSE req
    /\ Goto(c, "voted") /\ cur' = [cur EXCEPT ![c] = a]
    /\ UNCHANGED <<ctlVars, memberVars, signed, asg, npending, staleFlag,
                   finalVars, kind, rec, fence, todo, index, stamps, used,
                   storeVars>>

CanSettle(a) == /\ final[a] = None /\ asg[a] = "open" /\ Current(a)
                /\ QuorumMet(signed[a], votes[a])

\* settle, first section: called by anyone, or by the thread of a vote.
SettleBegin(c, a) ==
    /\ \/ pc[c] = "idle" /\ stamps[a] < MaxStamps
       \/ pc[c] = "voted" /\ cur[c] = a
    /\ CanSettle(a)
    /\ stamps' = [stamps EXCEPT ![a] = @ + 1]
    /\ Goto(c, IF Persistent THEN "mark" ELSE "install")
    /\ cur' = [cur EXCEPT ![c] = a]
    /\ rec' = [rec EXCEPT ![c] = [votes |-> votes[a],
                                  accepted |-> Accepts(signed[a], votes[a]),
                                  stamp |-> stamps[a] + 1]]
    /\ fence' = [fence EXCEPT ![c] = <<cgen, hash>>]
    /\ UNCHANGED <<ctlVars, memberVars, asgVars, finalVars, req, kind, todo,
                   index, cast, used, storeVars>>

\* The vote's thread finds nothing to finalize, or a rotation in its way.
VoteReturns(c) ==
    /\ pc[c] = "voted" /\ ~CanSettle(cur[c])
    /\ staleFlag' = (staleFlag \/ /\ final[cur[c]] = None
                                  /\ asg[cur[c]] # "none"
                                  /\ ~Current(cur[c]))
    /\ Leave(c)
    /\ UNCHANGED <<ctlVars, memberVars, signed, asg, npending, votes, finalVars,
                   req, histVars, used, storeVars>>

\* The durable pending marker, before anything is visible in memory.
SettleMark(c) ==
    /\ pc[c] = "mark"
    /\ MarkPending(cur[c], rec[c])
    /\ Goto(c, "install")
    /\ UNCHANGED <<ctlVars, memberVars, asgVars, finalVars, req, kind, cur, rec,
                   fence, todo, index, histVars, used>>

\* settle, second section: the first thread to get here freezes the result.
SettleInstall(c) ==
    /\ pc[c] = "install" /\ ~FrozenMeanwhile(c) /\ FenceMatches(c)
    /\ Remember(cur[c], rec[c], asg, npending, votes)
    /\ Goto(c, IF Persistent THEN "build" ELSE "finish")
    /\ UNCHANGED <<ctlVars, memberVars, signed, staleFlag, req, kind, cur, rec,
                   fence, todo, index, histVars, used, storeVars>>

\* Another thread froze the result first, or a rotation came in between.  The
\* marker this thread wrote stays.
SettleYield(c) ==
    /\ pc[c] = "install"
    /\ FrozenMeanwhile(c) \/ ~FenceMatches(c)
    /\ Leave(c)
    /\ UNCHANGED <<ctlVars, memberVars, asgVars, finalVars, req, histVars, used,
                   storeVars>>

\* settle, last section: the assignment becomes a recovered one.
SettleFinish(c) ==
    /\ pc[c] = "finish"
    /\ asg' = [asg EXCEPT ![cur[c]] = "recovered"]
    /\ npending' = PopCount(npending, asg, cur[c])
    /\ votes' = [votes EXCEPT ![cur[c]] = NoBallots]
    /\ Leave(c)
    /\ UNCHANGED <<ctlVars, memberVars, signed, staleFlag, finalVars, req,
                   histVars, used, storeVars>>

-----------------------------------------------------------------------------
(* _persist_settlement_record, for settle and for reconciliation *)

memory == <<ctlVars, memberVars, asgVars, finalVars, req, histVars>>
locals == <<kind, cur, rec, fence, todo, index>>

\* The receipt is built from the record: every voter's key must be granted.
BuildReceipt(c) ==
    /\ pc[c] = "build" /\ Authorized(rec[c].votes)
    /\ Goto(c, "lock")
    /\ UNCHANGED <<memory, locals, used, storeVars>>

BuildReceiptFails(c) ==
    /\ pc[c] = "build" /\ ~Authorized(rec[c].votes)
    /\ Leave(c)
    /\ UNCHANGED <<memory, used, storeVars>>

\* Under the evidence lock, with no committed record: write the receipt file.
PersistReceipt(c) ==
    /\ pc[c] = "lock" /\ ~HasCommittedReceipt(cur[c])
    /\ WriteReceipt(c, cur[c], rec[c])
    /\ Goto(c, "append")
    /\ UNCHANGED <<memory, locals, used>>

\* A committed record exists: append raises DuplicateSettlementError, which
\* settle reports and reconciliation accepts.
PersistDuplicate(c) ==
    /\ pc[c] = "lock" /\ evLock = None /\ HasCommittedReceipt(cur[c])
    /\ \/ kind[c] = "settle" /\ Leave(c)
       \/ kind[c] = "reconcile" /\ Goto(c, "lookup") /\ UNCHANGED locals
    /\ UNCHANGED <<memory, used, storeVars>>

PersistAppend(c) ==
    /\ pc[c] = "append"
    /\ AppendRecord(c, cur[c], rec[c])
    /\ Goto(c, IF kind[c] = "settle" THEN "clear" ELSE "lookup")
    /\ UNCHANGED <<memory, locals, used>>

Fault == /\ used.faults < MaxFaults
         /\ used' = [used EXCEPT !.faults = @ + 1]
         /\ UNCHANGED memory

\* A store call raises: the marker, the receipt, or the clearing of the marker
\* is not written, or the log cannot be read.
StoreCallFails(c) ==
    /\ \/ pc[c] \in {"mark", "clear", "adopted", "verify", "lookup"}
       \/ pc[c] = "lock" /\ evLock = None
    /\ Fault /\ Leave(c)
    /\ UNCHANGED storeVars

\* Mutant: the failure is swallowed.
AppendFailsSilently(c) ==
    /\ pc[c] = "append"
    /\ Fault /\ Goto(c, "finish") /\ UNCHANGED locals
    /\ UnlinkReceipt(c, cur[c])

\* append raises with no record written: the receipt is removed again.
AppendFails(c) ==
    /\ pc[c] = "append"
    /\ Fault /\ Leave(c)
    /\ UnlinkReceipt(c, cur[c])

\* append raises after the record reached the log: the receipt is kept.
AppendFailsLate(c) ==
    /\ pc[c] = "append"
    /\ Fault /\ Leave(c)
    /\ AppendRecord(c, cur[c], rec[c])

\* settle clears the marker once the record is durable.
SettleClear(c) ==
    /\ pc[c] = "clear"
    /\ ClearPending(cur[c])
    /\ Goto(c, "finish")
    /\ UNCHANGED <<memory, locals, used>>

-----------------------------------------------------------------------------
(* reconcile_pending_settlements *)

\* load_pending: one snapshot of the markers for the whole pass.
ReconcileBegin(c) ==
    /\ Persistent /\ pc[c] = "idle" /\ pending # EmptyShelf
    /\ Goto(c, "scan")
    /\ kind' = [kind EXCEPT ![c] = "reconcile"]
    /\ todo' = [todo EXCEPT ![c] = pending]
    /\ UNCHANGED <<memory, cur, rec, fence, index, used, storeVars>>

\* One marker, under the mesh lock: foreign ones are left alone, those of a
\* recovered assignment are cleared, the others are replayed.
ReconcileScan(c, a) ==
    /\ pc[c] = "scan" /\ todo[c][a] # None
    /\ todo' = [todo EXCEPT ![c][a] = None]
    /\ \/ /\ ~Current(a)
          /\ UNCHANGED <<pc, cur, rec, fence, storeVars>>
       \/ /\ Current(a) /\ IsRecovered(a)
          /\ ClearPending(a)
          /\ UNCHANGED <<pc, cur, rec, fence>>
       \/ /\ Current(a) /\ ~IsRecovered(a)
          /\ Goto(c, "verify")
          /\ cur' = [cur EXCEPT ![c] = a]
          /\ rec' = [rec EXCEPT ![c] = todo[c][a]]
          /\ fence' = [fence EXCEPT ![c] = <<cgen, hash>>]
          /\ UNCHANGED storeVars
    /\ UNCHANGED <<memory, kind, index, used>>

\* clear_pending raises for the marker of a recovered assignment.
ReconcileScanFails(c, a) ==
    /\ pc[c] = "scan" /\ todo[c][a] # None /\ Current(a) /\ IsRecovered(a)
    /\ todo' = [todo EXCEPT ![c][a] = None]
    /\ Fault
    /\ UNCHANGED <<pc, kind, cur, rec, fence, index, storeVars>>

\* The durable log is read once per pass, when first needed.
IndexOf(c) == IF index[c] = None THEN durable ELSE index[c]

\* _require_matching_durable_settlement: the log holds the very snapshot, with
\* its settled_at.
MatchesVotes(r, e) == e # None /\ e.votes = r.votes      \* mutant
MatchesRestamped(r, e) == e = [r EXCEPT !.stamp = @ + 1] \* mutant
Matches(r, e) == e = r

\* Verified evidence, and either no durable record yet or an equal one.
ReconcileVerify(c) ==
    /\ pc[c] = "verify" /\ Evidence(cur[c], rec[c])
    /\ IndexOf(c)[cur[c]] = None \/ Matches(rec[c], IndexOf(c)[cur[c]])
    /\ index' = [index EXCEPT ![c] = IndexOf(c)]
    /\ Goto(c, IF IndexOf(c)[cur[c]] = None THEN "build" ELSE "adopt")
    /\ UNCHANGED <<memory, kind, cur, rec, fence, todo, used, storeVars>>

\* Unauthorized evidence, found before the log is read.
ReconcileReject(c) ==
    /\ pc[c] = "verify" /\ ~Evidence(cur[c], rec[c])
    /\ Leave(c)
    /\ UNCHANGED <<memory, used, storeVars>>

\* The log holds another snapshot than the marker; what was read of the log
\* serves the rest of the pass.
ReconcileConflict(c) ==
    /\ pc[c] = "verify" /\ Evidence(cur[c], rec[c])
    /\ IndexOf(c)[cur[c]] # None /\ ~Matches(rec[c], IndexOf(c)[cur[c]])
    /\ Goto(c, "scan")
    /\ cur' = [cur EXCEPT ![c] = None]
    /\ rec' = [rec EXCEPT ![c] = None]
    /\ fence' = [fence EXCEPT ![c] = None]
    /\ index' = [index EXCEPT ![c] = IndexOf(c)]
    /\ UNCHANGED <<memory, kind, todo, used, storeVars>>

\* lookup_settlement, after the append or the duplicate.
ReconcileLookup(c) ==
    /\ pc[c] = "lookup"
    /\ \/ Matches(rec[c], durable[cur[c]]) /\ Goto(c, "adopt") /\ UNCHANGED locals
       \/ ~Matches(rec[c], durable[cur[c]]) /\ Leave(c)
    /\ UNCHANGED <<memory, used, storeVars>>

\* The durable settlement becomes active state, unless a rotation crossed.
ReconcileAdopt(c) ==
    /\ pc[c] = "adopt" /\ FenceMatches(c)
    /\ LET a == cur[c]
           at == [asg EXCEPT ![a] = "recovered"]
           n == PopCount(npending, asg, a)
           vt == [votes EXCEPT ![a] = NoBallots]
       IN  IF final[a] = None
           THEN Remember(a, rec[c], at, n, vt)
           ELSE asg' = at /\ npending' = n /\ votes' = vt /\ UNCHANGED finalVars
    /\ Goto(c, "adopted")
    /\ UNCHANGED <<ctlVars, memberVars, signed, staleFlag, req, locals, histVars,
                   used, storeVars>>

ReconcileCrossed(c) ==
    /\ pc[c] = "adopt" /\ ~FenceMatches(c)
    /\ Leave(c)
    /\ UNCHANGED <<memory, used, storeVars>>

ReconcileClear(c) ==
    /\ pc[c] = "adopted"
    /\ ClearPending(cur[c])
    /\ Leave(c)
    /\ UNCHANGED <<memory, used>>

ReconcileEnd(c) ==
    /\ pc[c] = "scan" /\ todo[c] = EmptyShelf
    /\ Goto(c, "idle")
    /\ kind' = [kind EXCEPT ![c] = "settle"]
    /\ index' = [index EXCEPT ![c] = None]
    /\ UNCHANGED <<memory, cur, rec, fence, todo, used, storeVars>>

\* settlement_evidence.reconcile_orphan_receipts, run by an operator.
ReconcileOrphanReceipts == RemoveOrphans /\ UNCHANGED <<memory, threadVars, used>>

-----------------------------------------------------------------------------
(* Crash and restart *)

\* _load_settlements accepts the durable records of constitution h whose
\* evidence verifies under the registry k.
Loadable(h, k) ==
    {a \in Assignments :
       /\ durable[a] # None /\ signed[a].hash = h
       /\ \A p \in Agents : durable[a].votes[p] # None =>
                              durable[a].votes[p].key = k[p]}

Orderings(S) == {f \in [1..Cardinality(S) -> S] :
                   \A i, j \in 1..Cardinality(S) : f[i] = f[j] => i = j}

\* The process dies at any point and a new mesh is constructed over the same
\* store, under constitution h and with the signer registry kept or lost.  The
\* file order of the records decides which of them the result cache keeps: S.
Restart(h, keep, S) ==
    LET k == IF keep THEN key ELSE [p \in Agents |-> None] IN
    /\ used.restarts < MaxRestarts
    /\ S \subseteq Loadable(h, k)
    /\ Cardinality(S) = Smaller(MaxSettled, Cardinality(Loadable(h, k)))
    /\ order' \in Orderings(S)
    /\ final' = [a \in Assignments |-> IF a \in S THEN durable[a] ELSE None]
    /\ asg' = [a \in Assignments |-> IF a \in S THEN "recovered" ELSE "none"]
    /\ npending' = 0
    /\ votes' = [a \in Assignments |-> NoBallots]
    /\ halted' = FALSE /\ hash' = h /\ cgen' = 0 /\ staleFlag' = FALSE
    /\ agents' = {} /\ key' = k
    /\ req' = EmptyShelf
    /\ pc' = [c \in Callers |-> "idle"] /\ kind' = [c \in Callers |-> "settle"]
    /\ cur' = [c \in Callers |-> None] /\ rec' = [c \in Callers |-> None]
    /\ fence' = [c \in Callers |-> None]
    /\ todo' = [c \in Callers |-> EmptyShelf] /\ index' = [c \in Callers |-> None]
    /\ used' = [used EXCEPT !.restarts = @ + 1]
    /\ DropLocks
    /\ UNCHANGED <<signed, cast, stamps>>

-----------------------------------------------------------------------------
Request == \/ \E a \in Assignments, q \in Agents : RequestSnapshot(a, q)
           \/ \E q \in Agents : RequestRefused(q)
           \/ \E a \in Assignments : \E P \in SUBSET Agents : RequestCommit(a, P)
           \/ \E a \in Assignments : RequestAbort(a)

Control == \/ Halt \/ Resume
           \/ \E p \in Agents, k \in Keys : Register(p, k)
           \/ \E p \in Agents : Unregister(p)
           \/ \E h \in Hashes : RotateConstitution(h)
           \/ \E a \in Assignments : TouchStale(a)

Vote(c) == \E a \in Assignments, p \in Agents, d \in BOOLEAN : SubmitVote(c, a, p, d)

Settle(c) == \/ \E a \in Assignments : SettleBegin(c, a)
             \/ VoteReturns(c)
             \/ SettleMark(c) \/ SettleInstall(c) \/ SettleYield(c)
             \/ SettleClear(c) \/ SettleFinish(c)

Persist(c) == \/ BuildReceipt(c) \/ BuildReceiptFails(c)
              \/ PersistReceipt(c) \/ PersistDuplicate(c) \/ PersistAppend(c)

Faults(c) == \/ StoreCallFails(c) \/ AppendFails(c) \/ AppendFailsLate(c)
             \/ \E a \in Assignments : ReconcileScanFails(c, a)

Reconcile(c) == \/ ReconcileBegin(c)
                \/ \E a \in Assignments : ReconcileScan(c, a)
                \/ ReconcileVerify(c) \/ ReconcileReject(c)
                \/ ReconcileConflict(c) \/ ReconcileLookup(c)
                \/ ReconcileAdopt(c) \/ ReconcileCrossed(c)
                \/ ReconcileClear(c) \/ ReconcileEnd(c)

Recovery == \/ ReconcileOrphanReceipts
            \/ \E h \in Hashes, keep \in Registries :
                 \E S \in SUBSET Assignments : Restart(h, keep, S)

Next == \/ Request \/ Control \/ Recovery
        \/ \E c \in Callers : \/ Vote(c) \/ Settle(c) \/ Persist(c)
                              \/ Faults(c) \/ Reconcile(c)

Spec == Init /\ [][Next]_vars

-----------------------------------------------------------------------------
(* Properties *)

Labels == {"idle", "voted", "mark", "install", "build", "lock", "append",
           "clear", "finish", "scan", "verify", "lookup", "adopt", "adopted"}

\* Every variable of the mesh and its store keeps its type.
TypeOK ==
    /\ halted \in BOOLEAN /\ hash \in Hashes /\ cgen \in Nat
    /\ staleFlag \in BOOLEAN
    /\ agents \subseteq Agents /\ key \in [Agents -> Keys \cup {None}]
    /\ signed \in [Assignments -> Signed \cup {None}]
    /\ asg \in [Assignments -> {"none", "open", "recovered"}]
    /\ npending \in Nat
    /\ votes \in [Assignments -> Ballots]
    /\ final \in Shelf /\ order \in Seq(Assignments)
    /\ req \in [Assignments -> Snapshot \cup {None}]
    /\ pc \in [Callers -> Labels]
    /\ kind \in [Callers -> {"settle", "reconcile"}]
    /\ cur \in [Callers -> Assignments \cup {None}]
    /\ rec \in [Callers -> Record \cup {None}]
    /\ fence \in [Callers -> (Nat \X Hashes) \cup {None}]
    /\ todo \in [Callers -> Shelf] /\ index \in [Callers -> Shelf \cup {None}]
    /\ cast \in [Assignments -> Ballots] /\ stamps \in [Assignments -> Nat]
    /\ used \in [restarts : Nat, membership : Nat, faults : Nat]
    /\ durable \in Shelf /\ pending \in Shelf /\ receipt \in Shelf
    /\ evLock \in Callers \cup {None}

\* The counter that admission control reads is exact, and within capacity,
\* through commits, discards, evictions, settlements and adoptions
\* (_put_assignment_locked: "keeping the pending counter exact").
PendingCounterExact ==
    /\ npending = Cardinality({a \in Assignments : asg[a] = "open"})
    /\ npending <= MaxPending

\* Every settlement record of an assignment that is anywhere: on disk, in
\* memory, or in the hands of a thread.
Records(a) ==
    ({final[a], durable[a], pending[a], receipt[a]}
       \cup {rec[c] : c \in {x \in Callers : cur[x] = a}}
       \cup {todo[c][a] : c \in Callers}
       \cup {index[c][a] : c \in {x \in Callers : index[x] # None}}) \ {None}

\* A record r is sound for an assignment signed as s with the ballots b cast:
\* it holds exactly b, every assigned peer voted, and one side won.
Sound(s, b, r) == /\ s # None
                  /\ r.votes = b
                  /\ \A p \in Agents : b[p] # None <=> p \in s.peers
                  /\ r.accepted = Accepts(s, b)
                  /\ r.accepted # Rejects(s, b)

\* Whatever threads race, fail, crash and recover, all records of an
\* assignment hold the same ballots, those of every assigned peer, and the
\* outcome those ballots have (settle, reconcile_pending_settlements).
OneOutcome ==
    \A a \in Assignments : \A r \in Records(a) : Sound(signed[a], cast[a], r)

\* A result frozen in memory survives a crash: it is in the durable log or a
\* pending marker announces it (settle's write-ahead marker).
InstalledRecoverable ==
    Persistent => \A a \in Assignments :
                    final[a] # None => durable[a] # None \/ pending[a] # None

\* An assignment shown as durably settled is in the durable log
\* (RecoveredAssignmentError: "already durably settled").
RecoveredIsDurable ==
    Persistent => \A a \in Assignments :
                    asg[a] = "recovered" => durable[a] # None

\* A committed record has its own receipt file, never a missing one and never
\* that of a competing writer (_persist_settlement_record, orphan removal).
EvidenceBound == \A a \in Assignments : durable[a] # None => receipt[a] = durable[a]

\* Reconciliation makes active, and clears the marker of, only the snapshot that
\* is in the log, settled_at included, although it read the log once per pass
\* and another thread may have appended a snapshot of its own since
\* (_require_matching_durable_settlement).
AdoptsTheDurable ==
    \A c \in Callers : pc[c] \in {"adopt", "adopted"} => durable[cur[c]] = rec[c]

\* An assignment is committed only under the constitution of the moment, with
\* peers chosen from exactly the agents of the moment: the choice was made
\* outside the lock, and an agent that left, or one that joined and was never
\* considered, makes the request start over (_routing_snapshot_matches_locked).
CommitsFresh ==
    [][\A a \in Assignments : signed[a] = None /\ signed'[a] # None =>
         /\ ~halted
         /\ signed'[a].hash = hash
         /\ signed'[a].peers \subseteq agents \ {signed'[a].producer}
         /\ agents = req[a].available \cup {signed'[a].producer}]_vars

\* No result becomes visible under a constitution other than its own, even
\* when a rotation crosses the marker, the log or the adoption.
InstallsCurrent ==
    [][\A a \in Assignments :
         final[a] = None /\ final'[a] # None => signed[a].hash = hash']_vars

\* While the process lives a frozen result is never replaced by another one.
FrozenStays ==
    [][used'.restarts = used.restarts =>
         \A a \in Assignments :
           final[a] # None => final'[a] \in {final[a], None}]_vars

-----------------------------------------------------------------------------
(* The abstract specification *)

\* The outcome counts from the pending marker on: a reconciliation may replay it.
Outcome(a) == IF durable[a] # None THEN durable[a].accepted
              ELSE IF pending[a] # None THEN pending[a].accepted ELSE None

Promise == INSTANCE Settlement WITH
    electorate <- [a \in Assignments |->
                     IF signed[a] = None THEN None
                     ELSE [peers |-> signed[a].peers, quorum |-> signed[a].quorum]],
    ballots <- [a \in Assignments |-> [p \in Agents |->
                  IF cast[a][p] = None THEN None ELSE cast[a][p].approved]],
    outcome <- [a \in Assignments |-> Outcome(a)]

\* The persistent mesh implements Settlement: through races, store faults and
\* restarts every assignment has one electorate, one ballot a peer and one
\* outcome, decided by the complete electorate (settle, reconcile).
KeepsPromise == Promise!Spec

-----------------------------------------------------------------------------
(* Fairness *)

\* A thread inside settle, a vote or a reconciliation goes on, and
\* reconciliation is called again while there are markers (at every start,
\* and by the operator through retry_pending_settlements).
Progress(c) == \/ \E a \in Assignments : pc[c] = "voted" /\ SettleBegin(c, a)
               \/ VoteReturns(c) \/ SettleMark(c)
               \/ SettleInstall(c) \/ SettleYield(c)
               \/ SettleClear(c) \/ SettleFinish(c)
               \/ Persist(c) \/ Reconcile(c)

FairSpec == Spec /\ \A c \in Callers : WF_vars(Progress(c))

\* A settlement announced by a marker becomes durable, whatever faults and
\* crashes there are on the way, when the constitution and the keys stay
\* (reconcile_pending_settlements).
AnnouncedBecomesDurable ==
    \A a \in Assignments : pending[a] # None ~> durable[a] # None

\* A marker goes, and the only one that may stay is a snapshot of a second
\* thread that conflicts with the durable one: reconciliation rejects that one
\* in every pass, until a restart has loaded the durable one
\* (reconcile_pending_settlements, clear_pending).
MarkersResolve ==
    \A a \in Assignments :
      pending[a] # None ~> pending[a] = None \/ durable[a] \notin {None, pending[a]}

-----------------------------------------------------------------------------
(* What documents of the repository say *)

\* README, quickstart: two of three approvals give a settled quorum result.
QuickstartSettles ==
    \A a \in Assignments :
      asg[a] = "open" /\ Cardinality(For(votes[a])) >= Quorum
        => QuorumMet(signed[a], votes[a])

\* get_result: an assignment whose settlement is finished has its frozen
\* result, as long as the mesh knows the assignment.
SettledResultAvailable ==
    \A a \in Assignments : asg[a] = "recovered" => final[a] # None

\* settle: the proof snapshot is immutable, so the frozen result in memory and
\* the durable record of the same assignment are the same snapshot.
SnapshotImmutable ==
    \A a \in Assignments :
      durable[a] # None /\ final[a] # None => durable[a] = final[a]
=============================================================================

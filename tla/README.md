# A verification of the constitutional swarm

TLA+ modules, TLC configurations and TLAPS proofs for the `constitutional_swarm`
package (`src/src/constitutional_swarm/`, about 85,000 lines of Python; paths
below are relative to that directory). The modules are translated from the code,
not from its documents; where the two disagree a run shows it (section 6).

The project begins with the part of the package on which the others lean and
which is hardest to test: the peer-validation mesh, its two-phase settlement,
and the files it survives crashes with.

## 1. Inventory

| Part | Source | What it is | Here |
|---|---|---|---|
| Constitutional mesh | `mesh/core.py`, `mesh/peers.py`, `mesh/settlement.py`, `mesh/voting.py`, `mesh/exceptions.py` | A thread-safe object: validation requests, peer votes, settlement, reconciliation, membership, rotation, halt | `Mesh`, `Settlement` |
| Vote envelopes, signer registry | `mesh/vote_envelope.py` | Signed ballots and the registry of keys | part of `Mesh` |
| Settlement store | `settlement_store.py` | The log and the pending markers, as JSONL files or SQLite | `SettlementStore` (as the mesh uses it), `JsonlStore`, `SettlementLog` |
| Settlement evidence | `settlement_evidence.py` | Receipt files beside the log, orphan removal, verification | `SettlementStore` |
| Governance receipts | `governance_receipts*.py` | Canonical signed receipts | what a receipt attests is data of `SettlementStore` |
| Swarm execution | `swarm.py`, `execution.py`, `capability.py`, `compiler.py`, `artifact.py` | Task DAG and executor over an authority | planned |
| Governed commit | `governed_commit.py` | The authority of DAG transitions in SQLite: claims, staged results, commits, revocation, outboxes | planned |
| APCC authority | `apcc/`, `authority_*.py` | Certificate-producing store, service and its isolated process | planned |
| Quorum certificates and epochs | `quorum_certificate.py`, `validator_set.py`, `epoch_reconfig.py`, `byzantine_census.py`, `node_admission.py` | Stake-weighted certificates, committees, constitution epochs | planned |
| Merkle CRDT, gossip | `merkle_crdt.py`, `gossip_protocol.py` | Replicated DAG over WebSockets | planned |
| Private votes, privacy budget | `private_vote.py`, `privacy_accountant.py` | Commit-reveal voting, budget discipline | planned |
| Bittensor subnet | `bittensor/` | Constitution distribution, deliberation, anchoring, audit batches, tiers, precedents | planned in part |
| Others | `evolution_log.py`, `federated_bridge.py`, `governed_handoff.py`, `remote_vote_transport/`, `debate_resolver.py`, `mac_acgs_loop.py`, `langgraph_runtime/` | Logs, credentials, transports, adapters | planned in part |
| Numeric and offline parts | `manifold.py`, `spectral_sphere.py`, `swarm_ode.py`, `latent_dna.py`, `violation_subspace.py`, `mesh/trust.py`, `bench.py`, `forensic_benchmark.py`, `eval/`, `swe_bench/`, `apcc_empirical/`, encoders | Floating point, benchmarks, byte codecs | not modelled |

`PROJECT.json` lists every part with its status, and under "hazards" the places
where this code can go wrong in a way a test hardly reaches, each with the
properties that would notice.

## 2. How the modelled parts work together

A producer asks the mesh for validation. Under the mesh lock the request takes
a snapshot of the members and the constitution. Outside the lock it selects
peers and signs the assignment. Under the lock again it commits, if the snapshot
still matches. Peers vote; a vote that completes the electorate settles the
assignment. Settling has two phases. It snapshots the result under the lock,
writes a *pending marker* to the store, freezes the result in memory under the
lock, writes a receipt file and appends the record to the log under the evidence
lock, clears the marker, and marks the assignment as recovered. Any of these
calls may fail, other threads run between them, and the process may die at any
point. Reconciliation, at start and on demand, replays the markers.

```
 request_validation ── submit_vote ── settle ─┬─ mark_pending ─┐
                                              ├─ _final_results │  store
        rotate_constitution, register,        ├─ receipt file   │  (SettlementStore,
        unregister, halt  (any time)          ├─ append         │   JsonlStore)
                                              └─ clear_pending ─┘
 reconcile_pending_settlements ───────────────── the same files ┘
```

## 3. The modules

### Mesh

`Mesh` is one module because requests, votes, settlements, reconciliation and
rotation share one lock and one set of dictionaries. A section of code under
`self._lock`, and one call of the store, is one action; between two of them any
other thread may run. `Callers` are threads; `pc`, `kind`, `cur`, `rec`,
`fence`, `todo` and `index` are their local variables.

| State | Code |
|---|---|
| `halted`, `hash`, `cgen`, `staleFlag` | `_halted`, the constitution's hash, `_constitution_generation`, `_stale_assignments_possible` |
| `agents`, `key` | `_agents`, `_vote_registry` (each agent's current key) |
| `signed` | the signed content of an assignment: producer, peers, quorum, hash |
| `asg`, `npending` | `_assignments` with `is_recovered`, `_pending_assignments` |
| `votes` | `_votes` and `_vote_envelopes` of an open assignment |
| `final`, `order` | `_final_results`, an ordered dictionary of bounded size |
| `req` | requests between their two sections; `fresh` says that `_state_generation` has not moved since |
| `durable`, `pending`, `receipt`, `evLock` | log, markers, receipt files, evidence lock (`SettlementStore`) |
| `cast`, `stamps`, `used` | history: ballots recorded, `settled_at` values handed out, bounds spent |

| Actions | Code |
|---|---|
| `RequestSnapshot`, `RequestRefused`, `RequestCommit`, `RequestAbort` | the two sections of `_request_validation_once` and its failures; the retry loop of `request_validation` is a new request |
| `Register`, `Unregister`, `RotateConstitution`, `Halt`, `Resume`, `TouchStale` | membership, rotation, the kill switch, and the re-arming of the stale discard by a failed constitution check |
| `SubmitVote`, `VoteReturns` | `submit_vote` and `_maybe_finalize_result` |
| `SettleBegin`, `SettleMark`, `SettleInstall`, `SettleYield`, `SettleClear`, `SettleFinish` | the sections and store calls of `settle` |
| `BuildReceipt`, `BuildReceiptFails`, `PersistReceipt`, `PersistDuplicate`, `PersistAppend` | `_persist_settlement_record` |
| `StoreCallFails`, `AppendFails`, `AppendFailsLate`, `ReconcileScanFails` | store calls that raise, before or after their effect |
| `ReconcileBegin` … `ReconcileEnd` | `reconcile_pending_settlements`, marker by marker |
| `ReconcileOrphanReceipts` | `reconcile_orphan_receipts` |
| `Restart` | the process dies and a new mesh runs `_load_settlements` over the same files, under any constitution, with the signer registry kept or lost |

Contents, signatures and proofs are reduced to what they bind: a ballot is a
decision and the key it was signed under, a record is ballots, outcome and
`settled_at`. Peer selection may choose any electorate of the right size.

### SettlementStore, JsonlStore, SettlementLog

`SettlementStore` gives the store calls as operators over the log, the markers
and the receipt files; `Mesh` extends it. `JsonlStore` is the JSONL
implementation: processes that share the files, the advisory lock, torn writes,
the salvage of a torn last line, and the cached id index that is valid while
size and mtime of the file stand. `SettlementLog` is the contract between them,
an append-once log with independent markers; `JsonlStore` is shown to implement
it.

### Settlement

What a persistent mesh promises about an assignment: one electorate, one ballot
per peer, and, once all have voted and one side has won, one outcome for good.
`Mesh` is shown to implement it, with the outcome counted from the pending
marker on, since reconciliation may replay it from there.

### The instances and the proofs

`MCMesh` and `MCJsonlStore` add symmetry sets for TLC. `MeshInvariant` defines
the inductive invariant. `MeshProofs` (types and threads), `MeshRecordProofs`
(counter, electorates, records) and `MeshDiskProofs` (the files and what threads
rely on) show that every step keeps its parts; `MeshSafetyProofs` concludes.

## 4. Runs

| Run | Checks | Instance |
|---|---|---|
| `mesh_settlement` | `TypeOK`, `PendingCounterExact`, `OneOutcome`, `InstalledRecoverable`, `RecoveredIsDurable`, `AdoptsTheDurable`, `InstallsCurrent`, `FrozenStays` | one assignment, three peers, two threads, one rotation, one fault, one crash |
| `mesh_evidence` | `EvidenceBound`, `KeepsPromise` | the same with a change of membership or key and a lost registry in place of the rotation |
| `mesh_split` | `OneOutcome`, `KeepsPromise` | five agents and risk scoring: electorates of three or four peers with quorum three, whose votes split in every way; two threads, one rotation |
| `mesh_admission` | `PendingCounterExact`, `CommitsFresh` | two assignments at a capacity of one and a result cache of one; requests that race with membership, rotation and halt |
| `mesh_eviction` | `PendingCounterExact` | three assignments, a capacity of two and a result cache of one: evictions of open and of recovered assignments, beside the stale discard after a rotation |
| `mesh_liveness` | `AnnouncedBecomesDurable`, `MarkersResolve` | fair threads, one fault, one crash |
| `jsonl_promise` | `IndexTruthful`, `LogKeepsPromise` | three ids, two processes, two faults, torn fragments, a clock that may stand still between two writes |
| `jsonl_torn` | `AckedStays` | the same, and writes torn just before the newline |
| `mesh_quickstart`, `mesh_evicted_result`, `mesh_snapshot`, `jsonl_unreadable` | one statement of a document each, which the code does not keep | section 6 |

Three properties deserve a word. `CommitsFresh` says that the peers of a commit
were chosen from exactly the agents of the moment. The checks the second section
repeats (producer, peers and constitution are still there) would not notice an
agent that joined meanwhile; the routing snapshot does. `AdoptsTheDurable`
compares whole snapshots, `settled_at` included, which `OneOutcome` does not: a
reconciling thread with an old copy of the log may replay the marker of one
thread after another thread's snapshot was appended, and must then reject it.
`MarkersResolve` says that such a rejected marker is the only kind that stays.

Every property of a passing run has a mutant in `PROJECT.json`: the model with
one plausible bug in it, on which TLC finds the property violated.

**Bounds.** Two threads are enough for every race in `settle` and
reconciliation, because each race is between one thread's two sections and one
step of another. One assignment suffices where assignments do not interact; they
interact through the result cache and the capacity counter, and `mesh_admission`
has two, `mesh_eviction` three (one more than its capacity). Three peers with
quorum three is the smallest persistent mesh the constructor accepts, and its
settled outcomes are unanimous; `mesh_split` adds electorates of four, which
settle 3-1 and 4-0 and stay open at 2-2. `MaxStamps`
bounds explicit `settle` calls (each takes a new `settled_at`), `MaxRotations`,
`MaxMembership`, `MaxFaults`, `MaxRestarts` and, in `JsonlStore`, `MaxTicks`
bound the environment. The proofs do without bounds.

**Fairness.** `mesh_liveness` assumes weak fairness of each thread's progress
inside a call, and that reconciliation is called again while markers exist: the
constructor calls it at every start (`auto_reconcile`) and the operator through
`retry_pending_settlements`. Votes, requests and explicit `settle` calls are not
fair. The property assumes what the run's instance says: the constitution and
the keys stay, and faults are finite.

**Deadlock** is checked in every run.

## 5. Proofs

The theorems of `MeshSafetyProofs` hold for every finite set of agents and
assignments, every set of threads, every capacity, and every value of the
bounds:

| Theorem | Statement |
|---|---|
| `TypeCorrect` | `Spec => []TypeOK`; in particular the pending counter never goes below zero |
| `CounterIsExact` | `Spec => []PendingCounterExact` |
| `OutcomeIsOne` | `Spec => []OneOutcome` |
| `AdoptionIsDurable` | `Spec => []AdoptsTheDurable` |
| `SettlementIsDurable` | `Spec => [](InstalledRecoverable /\ RecoveredIsDurable /\ EvidenceBound)` |
| `Invariance` | `Spec => []Inv`, the inductive invariant |

The assumptions are those the constructor checks (`MeshAssumption`: a quorum
that is a strict majority, at least three when persistent, positive
capacities), finiteness of agents and assignments (`ModelAssumption`), and that
`None` is not one of the values it stands beside (`NoneAssumption`).

None of these properties is inductive alone. `Inv` conjoins

* `Types` and `Threads`: the types, and which locals a thread holds at which
  label (a thread inside `settle` or a replay has its assignment and record; a
  reconciling thread exists only with a store);
* `Electorates`: only a signed assignment has ballots, a ballot is one of its
  peers', and the votes of an open assignment are all the ballots ever cast;
* `PendingCounterExact`;
* `ShelvesSound`, `LocalsSound`: every record on disk, in memory, in a thread's
  hands, in the snapshot of markers of a reconciliation pass or in its copy of
  the log is sound for its assignment. That is why a replay of a stale copy
  is harmless;
* `Disk`: the three durability properties, and what each thread may rely on at
  its label (`Holds`): a thread about to append holds the evidence lock and its
  own receipt is in place; one about to clear a marker or to finish has its
  record in the log; one about to adopt has that very snapshot in the log, and
  a thread's copy of the log never disagrees with the log, only lags behind
  it. Without it a step such as `SettleFinish` would have to be justified by the history of its
  thread.

The proof has one lemma per group of actions and per conjunct, and frame lemmas
(`OthersHold`, `LeaveDisk`, `MoveDisk`, `ClearDisk`) for the steps of one thread
that leave the others' facts alone. The invariant was checked with TLC on the
instances of `mesh_settlement`, `mesh_evidence`, `mesh_split` and
`mesh_admission`.

**Only model-checked**: the action properties (`CommitsFresh`,
`InstallsCurrent`, `FrozenStays`), the refinements (`KeepsPromise` of
`Mesh`, `LogKeepsPromise` of `JsonlStore`), everything about `JsonlStore`, and liveness, which is outside the
reach of the prover.

## 6. Where documents and code disagree

| Run | Document | Code |
|---|---|---|
| `mesh_quickstart` | `README.md:120` expects a settled result after two of three votes | `mesh/core.py:2000`: a silent peer keeps `quorum_met` false |
| `mesh_evicted_result` | `mesh/core.py:968`: `get_result` returns the frozen result once finalized | a second settlement evicts the result while its own thread writes receipt, log and marker; the last section then leaves a recovered assignment without its result (`mesh/core.py:1065`). With or without a store: it only takes a step between the second and the last section of `settle` |
| `mesh_snapshot` | `mesh/core.py:982`: an immutable proof snapshot | two settling threads and a failed append: memory and log hold snapshots with different `settled_at` (`mesh/core.py:1046`). Ballots and outcome agree (`OneOutcome`) |
| `jsonl_unreadable` | `settlement_store.py:301`: the truncation keeps the next append from producing "a permanently unreadable log" | a write torn just before its newline parses, is not truncated, and the next append glues two records to one line (`settlement_store.py:289`) |

## 7. What is left out of the modelled parts

Statistics counters, reputation and the trust matrix, the nonce cache of remote
requests, `validate_and_vote` and `full_validation` (compositions of modelled
operations), in-memory store adapters, the SQLite store below the level of its
transactions, several meshes over one store, and the assigner key, which a
restart is given again. `jsonl_promise` lets a
torn write leave only a fragment that does not parse. In the remaining case, a
tear just before the newline, the next append glues two records to one line:
`LogKeepsPromise` and `IndexTruthful` then fail for the reason `jsonl_unreadable`
shows, and `jsonl_torn` checks what still holds.

## 8. Plan

1. `GovernedCommit` with `SwarmExecutor`: the SQLite authority (attempts,
   staged results, commits with idempotent replay, control commands, revocation
   closure and its propagation, outboxes) and the executor's projection of it
   (cached readiness, incremental indexes, lost responses). Abstract
   specification: a task DAG in which a node commits once, after its
   predecessors, under the current epochs. Runs: two agents, a DAG of three
   nodes, one revocation, one crash.
2. `AuthorityStore` and `AuthorityService`: claim, decide and commit
   transactions of the APCC store and the request protocol of the isolated
   process.
3. `QuorumCertificate` and `EpochReconfig`: certificates over a weighted
   committee, conflicts that expose a double voter, joint transitions.
4. `Gossip` and `MerkleCrdt`; `PrivateVote`; `NmcProtocol`;
   `ConstitutionSync`; `ChainAnchor` and `AuditLog`; `EvolutionLog`;
   `RemoteVote`.
5. Proofs: the action properties and the refinement `KeepsPromise` of `Mesh`
   from the invariant already proved; `AckedStays` and `IndexTruthful` of
   `JsonlStore`; quorum intersection for certificates; commit-once for the
   governed commit.

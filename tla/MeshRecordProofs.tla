-------------------------- MODULE MeshRecordProofs --------------------------
(***************************************************************************)
(* Every step of the mesh keeps the pending counter exact, the electorates *)
(* fixed and every record of an assignment sound.                          *)
(***************************************************************************)
EXTENDS MeshInvariant, FiniteSetTheorems, SequenceTheorems, TLAPS

-----------------------------------------------------------------------------
(* The pending counter *)

States == {"none", "open", "recovered"}

\* The set of open assignments is finite, so it has a cardinality.
LEMMA OpenFinite ==
    ASSUME NEW f
    PROVE  IsFiniteSet(OpenOf(f)) /\ Cardinality(OpenOf(f)) \in Nat
  BY ModelAssumption, FS_Subset, FS_CardinalityType DEF OpenOf

\* _pop_assignment_locked and _put_assignment_locked take one off the counter
\* exactly when the assignment they replace was pending.
LEMMA PopExact ==
    ASSUME NEW f \in [Assignments -> States], NEW a \in Assignments,
           NEW v \in {"none", "recovered"}, NEW n \in Int,
           n = Cardinality(OpenOf(f))
    PROVE  PopCount(n, f, a) = Cardinality(OpenOf([f EXCEPT ![a] = v]))
  <1>1. OpenOf([f EXCEPT ![a] = v]) = OpenOf(f) \ {a}
    BY DEF OpenOf
  <1>2. Cardinality(OpenOf(f) \ {a}) =
          IF a \in OpenOf(f) THEN Cardinality(OpenOf(f)) - 1 ELSE Cardinality(OpenOf(f))
    BY OpenFinite, FS_RemoveElement, Zenon
  <1>3. a \in OpenOf(f) <=> f[a] = "open"
    BY DEF OpenOf
  <1>4. CASE f[a] = "open"
    <2>1. PopCount(n, f, a) = n - 1
      BY <1>4 DEF PopCount, Open
    <2>2. QED
      BY <1>1, <1>2, <1>3, <1>4, <2>1, Zenon
  <1>5. CASE f[a] # "open"
    <2>1. PopCount(n, f, a) = n
      BY <1>5 DEF PopCount, Open
    <2>2. QED
      BY <1>1, <1>2, <1>3, <1>5, <2>1, Zenon
  <1>6. QED
    BY <1>4, <1>5

\* Opening one assignment adds one to the number of open ones.
LEMMA OpenMore ==
    ASSUME NEW f \in [Assignments -> States], NEW a \in Assignments, f[a] # "open"
    PROVE  Cardinality(OpenOf([f EXCEPT ![a] = "open"])) = Cardinality(OpenOf(f)) + 1
  <1>1. OpenOf([f EXCEPT ![a] = "open"]) = OpenOf(f) \cup {a}
    BY DEF OpenOf
  <1>2. a \notin OpenOf(f)
    BY DEF OpenOf
  <1>3. QED
    BY <1>1, <1>2, OpenFinite, FS_AddElement, Zenon

\* What _remember_final_result_locked does, whether or not it evicts.
LEMMA RememberEffect ==
    ASSUME Types, NEW a \in Assignments, NEW r \in Record \cup {None},
           NEW at \in [Assignments -> States], NEW n \in Int,
           NEW vt \in [Assignments -> Ballots],
           Remember(a, r, at, n, vt), n = Cardinality(OpenOf(at))
    PROVE  /\ \A x \in Assignments : final'[x] \in {IF x = a THEN r ELSE final[x], None}
           /\ \A x \in Assignments :
                \/ asg'[x] = at[x] /\ votes'[x] = vt[x]
                \/ asg'[x] = "none"
           /\ npending' = Cardinality(OpenOf(asg'))
           /\ npending' <= n
  <1> DEFINE longer == Append(order, a)
             old == Head(longer)
  <1>1. order \in Seq(Assignments)
    BY DEF Types
  <1>2. longer \in Seq(Assignments) /\ longer # <<>>
    BY <1>1, AppendProperties
  <1>3. old \in Assignments
    BY <1>2, HeadTailProperties
  <1> HIDE DEF longer, old
  <1>4. CASE Len(longer) > MaxSettled
    <2>1. /\ final' = [final EXCEPT ![a] = r, ![old] = None]
          /\ asg' = [at EXCEPT ![old] = "none"]
          /\ npending' = PopCount(n, at, old)
          /\ votes' = [vt EXCEPT ![old] = NoBallots]
      BY <1>4 DEF Remember, longer, old
    <2>2. npending' = Cardinality(OpenOf(asg'))
      BY <2>1, <1>3, PopExact, Zenon
    <2>3. npending' <= n
      BY <2>1, OpenFinite DEF PopCount, Open
    <2>4. \A x \in Assignments : final'[x] \in {IF x = a THEN r ELSE final[x], None}
      BY <2>1, <1>3 DEF Types, Shelf
    <2>5. QED
      BY <2>1, <2>2, <2>3, <2>4, <1>3, Zenon
  <1>5. CASE ~(Len(longer) > MaxSettled)
    <2>1. /\ final' = [final EXCEPT ![a] = r]
          /\ asg' = at /\ npending' = n /\ votes' = vt
      BY <1>5 DEF Remember, longer, old
    <2>2. QED
      BY <2>1 DEF Types, Shelf
  <1>6. QED
    BY <1>4, <1>5

\* What _discard_stale_assignments_locked does.
LEMMA DiscardEffect ==
    ASSUME Types, DiscardStale, npending = Cardinality(OpenOf(asg))
    PROVE  /\ \A x \in Assignments :
                \/ asg'[x] = asg[x] /\ votes'[x] = votes[x]
                \/ asg'[x] = "none"
           /\ npending' = Cardinality(OpenOf(asg'))
           /\ npending' <= npending
  <1>1. Stale \subseteq OpenOf(asg)
    BY DEF Stale, OpenOf
  <1>2. OpenOf(asg') = OpenOf(asg) \ Stale
    BY DEF DiscardStale, OpenOf, Types
  <1>3. OpenOf(asg) \cap Stale = Stale
    BY <1>1
  <1>4. Cardinality(OpenOf(asg) \ Stale) = Cardinality(OpenOf(asg)) - Cardinality(Stale)
    BY <1>3, OpenFinite, FS_Difference, Zenon
  <1>5. Cardinality(Stale) \in Nat
    BY <1>1, OpenFinite, FS_Subset, FS_CardinalityType
  <1>6. /\ npending' = Cardinality(OpenOf(asg'))
        /\ npending' <= npending
    BY <1>2, <1>4, <1>5, OpenFinite DEF DiscardStale
  <1>7. QED
    BY <1>6 DEF DiscardStale

-----------------------------------------------------------------------------
(* Electorates and the counter *)

\* The steps that write the signed content, the assignments, the votes or the
\* counter; all others leave them alone.
Writes == \/ \E a \in Assignments, q \in Agents : RequestSnapshot(a, q)
          \/ \E q \in Agents : RequestRefused(q)
          \/ \E a \in Assignments : \E P \in SUBSET Agents : RequestCommit(a, P)
          \/ \E c \in Callers : \/ Vote(c) \/ SettleInstall(c) \/ SettleFinish(c)
                                \/ ReconcileAdopt(c)
          \/ \E h \in Hashes, keep \in Registries :
               \E S \in SUBSET Assignments : Restart(h, keep, S)

Quiet == UNCHANGED <<signed, asg, npending, votes, cast>>

Requests == \A a \in Assignments : req'[a] # None => req[a] # None

\* Marking the open routing snapshots stale adds no request.
LEMMA BumpedRequests == req' = Bumped => Requests
  BY DEF Bumped, Requests

\* A step either leaves the assignments and requests alone or is one of the few
\* that write them.
LEMMA QuietOrWrites == [Next]_vars => (Quiet /\ Requests) \/ Writes
  <1> SUFFICES ASSUME [Next]_vars, ~Writes PROVE Quiet /\ Requests
    OBVIOUS
  <1> USE DEF ctlVars, memberVars, asgVars, finalVars, threadVars, histVars, memory
  <1>1. CASE Request
    <2>1. PICK a \in Assignments : RequestAbort(a)
      BY <1>1 DEF Request, Writes
    <2>2. QED
      BY <2>1 DEF RequestAbort, Quiet, Requests
  <1>2. CASE Control
    <2>1. Quiet /\ req' \in {req, Bumped}
      BY <1>2 DEF Control, Halt, Resume, Register, Unregister, Membership,
                  RotateConstitution, TouchStale, Quiet
    <2>2. QED
      BY <2>1, BumpedRequests DEF Requests
  <1>3. CASE Recovery
    BY <1>3, ZenonT(40) DEF Recovery, Writes, ReconcileOrphanReceipts, Quiet, Requests
  <1>4. ASSUME NEW c \in Callers, Vote(c) \/ Settle(c) PROVE Quiet /\ Requests
    BY <1>4, ZenonT(40) DEF Settle, Writes, SettleBegin, VoteReturns, SettleMark, SettleYield,
                SettleClear, Quiet, Requests
  <1>5. ASSUME NEW c \in Callers, Persist(c) PROVE Quiet /\ Requests
    BY <1>5 DEF Persist, BuildReceipt, BuildReceiptFails, PersistReceipt,
                PersistDuplicate, PersistAppend, Quiet, Requests
  <1>6. ASSUME NEW c \in Callers, Faults(c) PROVE Quiet /\ Requests
    BY <1>6, ZenonT(40) DEF Faults, Fault, StoreCallFails, AppendFails, AppendFailsLate,
                ReconcileScanFails, Quiet, Requests
  <1>7. ASSUME NEW c \in Callers, Reconcile(c) PROVE Quiet /\ Requests
    BY <1>7 DEF Reconcile, Writes, ReconcileBegin, ReconcileScan, ReconcileVerify,
                ReconcileReject, ReconcileConflict, ReconcileLookup, ReconcileCrossed,
                ReconcileClear, ReconcileEnd, Quiet, Requests
  <1>8. CASE UNCHANGED vars
    BY <1>8 DEF vars, Quiet, Requests
  <1>9. QED
    BY <1>1, <1>2, <1>3, <1>4, <1>5, <1>6, <1>7, <1>8, ZenonT(40) DEF Next

\* No electorate changes, and assignments are only closed.
LEMMA ElectoratesKept ==
    ASSUME Electorates, UNCHANGED <<signed, cast>>,
           \A a \in Assignments : req'[a] # None => signed[a] = None,
           \A a \in Assignments :
             \/ asg'[a] = asg[a] /\ votes'[a] = votes[a]
             \/ asg'[a] = "none"
             \/ asg'[a] = "recovered" /\ signed[a] # None
    PROVE  Electorates'
  BY DEF Electorates

\* The pending counter in terms of the set of open assignments.
LEMMA CounterForm ==
    PendingCounterExact <=> npending = Cardinality(OpenOf(asg)) /\ npending <= MaxPending
  BY DEF PendingCounterExact, OpenOf

\* The same in the next state.
LEMMA CounterFormNext ==
    PendingCounterExact' <=> npending' = Cardinality(OpenOf(asg')) /\ npending' <= MaxPending
  BY DEF PendingCounterExact, OpenOf

\* Commits, votes, settlements, adoptions, discards and restarts keep the
\* electorates and the counter.
LEMMA BooksStep == Inv /\ Types' /\ [Next]_vars => Electorates' /\ PendingCounterExact'
  <1> SUFFICES ASSUME Inv, Types', [Next]_vars PROVE Electorates' /\ PendingCounterExact'
    OBVIOUS
  <1>a. Types /\ Threads /\ Electorates /\ Holding
    BY DEF Inv, Disk
  <1>b. npending = Cardinality(OpenOf(asg)) /\ npending <= MaxPending
    BY CounterForm DEF Inv
  <1>d. MaxPending \in Nat /\ npending \in Int /\ npending' \in Int
    BY <1>a, MeshAssumption DEF Types
  <1>1. CASE Quiet /\ Requests
    BY <1>a, <1>b, <1>1, ElectoratesKept, CounterFormNext DEF Quiet, Requests, Electorates
  <1>2. ASSUME NEW a \in Assignments, NEW q \in Agents, RequestSnapshot(a, q)
        PROVE  Electorates' /\ PendingCounterExact'
    <2>1. DiscardStale /\ UNCHANGED <<signed, cast>>
      BY <1>2 DEF RequestSnapshot, histVars
    <2>2. \A x \in Assignments : req'[x] # None => signed[x] = None
      BY <1>a, <1>2, ZenonT(40) DEF RequestSnapshot, Bumped, Electorates, Types
    <2>3. /\ \A x \in Assignments : \/ asg'[x] = asg[x] /\ votes'[x] = votes[x]
                                    \/ asg'[x] = "none"
          /\ npending' = Cardinality(OpenOf(asg')) /\ npending' <= npending
      BY <1>a, <1>b, <2>1, DiscardEffect, ZenonT(40)
    <2>4. Electorates'
      BY <1>a, <2>1, <2>2, <2>3, ElectoratesKept, ZenonT(40)
    <2>5. npending' <= MaxPending
      BY <1>b, <1>d, <2>3
    <2>6. QED
      BY <2>3, <2>4, <2>5, CounterFormNext, ZenonT(40)
  <1>3. ASSUME NEW q \in Agents, RequestRefused(q)
        PROVE  Electorates' /\ PendingCounterExact'
    <2>1. DiscardStale /\ UNCHANGED <<signed, cast>>
      BY <1>3 DEF RequestRefused, histVars
    <2>2. \A x \in Assignments : req'[x] # None => signed[x] = None
      BY <1>a, <1>3 DEF RequestRefused, Bumped, Electorates, Types
    <2>3. /\ \A x \in Assignments : \/ asg'[x] = asg[x] /\ votes'[x] = votes[x]
                                    \/ asg'[x] = "none"
          /\ npending' = Cardinality(OpenOf(asg')) /\ npending' <= npending
      BY <1>a, <1>b, <2>1, DiscardEffect, ZenonT(40)
    <2>4. Electorates'
      BY <1>a, <2>1, <2>2, <2>3, ElectoratesKept, ZenonT(40)
    <2>5. npending' <= MaxPending
      BY <1>b, <1>d, <2>3
    <2>6. QED
      BY <2>3, <2>4, <2>5, CounterFormNext, ZenonT(40)
  <1>4. ASSUME NEW a \in Assignments, NEW P \in SUBSET Agents, RequestCommit(a, P)
        PROVE  Electorates' /\ PendingCounterExact'
    <2>1. signed[a] = None /\ asg[a] = "none" /\ cast[a] = NoBallots
      BY <1>a, <1>4 DEF RequestCommit, Electorates
    <2>2. signed'[a] # None
      <3>1. signed'[a] = [producer |-> req[a].producer, peers |-> P,
                          quorum |-> Larger(Quorum, Cardinality(P) \div 2 + 1),
                          hash |-> req[a].hash]
        BY <1>a, <1>4, ZenonT(40) DEF RequestCommit, Types
      <3>2. IsFiniteSet(P) /\ Cardinality(P) \in Nat
        BY ModelAssumption, FS_Subset, FS_CardinalityType
      <3>3. Larger(Quorum, Cardinality(P) \div 2 + 1) \in Nat
        BY <3>2, MeshAssumption DEF Larger
      <3>4. req[a] \in Snapshot
        <4>1. req[a] \in Snapshot \cup {None}
          BY <1>a, ZenonT(40) DEF Types
        <4>2. req[a] # None
          BY <1>4 DEF RequestCommit
        <4>3. QED
          BY <4>1, <4>2, ZenonT(40)
      <3>5. req[a].producer \in Agents /\ req[a].hash \in Hashes
        BY <3>4 DEF Snapshot
      <3>6. [producer |-> req[a].producer, peers |-> P,
             quorum |-> Larger(Quorum, Cardinality(P) \div 2 + 1),
             hash |-> req[a].hash] \in Signed
        BY <3>3, <3>5 DEF Signed
      <3>7. QED
        BY <3>1, <3>6, NoneAssumption, ZenonT(40)
    <2>3. Electorates'
      <3>1. /\ asg'[a] = "open" /\ votes'[a] = NoBallots /\ req'[a] = None
            /\ cast' = cast
        BY <1>a, <1>4, ZenonT(40) DEF RequestCommit, histVars, Types
      <3>2. \A x \in Assignments \ {a} : /\ signed'[x] = signed[x] /\ asg'[x] = asg[x]
                                         /\ votes'[x] = votes[x] /\ req'[x] = req[x]
        BY <1>a, <1>4 DEF RequestCommit, Types
      <3>3. \A p \in Agents : NoBallots[p] = None
        BY DEF NoBallots
      <3>4. QED
        BY <1>a, <2>1, <2>2, <3>1, <3>2, <3>3, ZenonT(40) DEF Electorates
    <2>4. npending' = Cardinality(OpenOf(asg')) /\ npending' <= MaxPending
      <3>1. Cardinality(OpenOf(asg')) = Cardinality(OpenOf(asg)) + 1
        BY <1>a, <1>4, <2>1, OpenMore, Zenon DEF RequestCommit, Types, States
      <3>2. npending' = npending + 1 /\ npending < MaxPending
        BY <1>4, Zenon DEF RequestCommit, Room
      <3>3. QED
        BY <1>b, <1>d, <3>1, <3>2, Z3T(30)
    <2>5. QED
      BY <2>3, <2>4, CounterFormNext, ZenonT(40)
  <1>5. ASSUME NEW c \in Callers, NEW a \in Assignments, NEW p \in Agents,
               NEW d \in BOOLEAN, SubmitVote(c, a, p, d)
        PROVE  Electorates' /\ PendingCounterExact'
    <2>1. asg[a] = "open" /\ signed[a] # None /\ votes[a] = cast[a] /\ p \in signed[a].peers
      BY <1>a, <1>5 DEF SubmitVote, Electorates
    <2>2. /\ UNCHANGED <<signed, asg, npending>>
          /\ \A x \in Assignments : x # a => votes'[x] = votes[x] /\ cast'[x] = cast[x]
          /\ \A x \in Agents : x # p => cast'[a][x] = cast[a][x]
          /\ votes'[a] = cast'[a]
      <3>1. PICK v : /\ votes' = [votes EXCEPT ![a][p] = v]
                     /\ cast' = [cast EXCEPT ![a][p] = v]
                     /\ UNCHANGED <<signed, asg, npending>>
        BY <1>5, Zenon DEF SubmitVote
      <3>2. /\ votes \in [Assignments -> Ballots] /\ cast \in [Assignments -> Ballots]
            /\ cast[a] \in Ballots
        BY <1>a DEF Types
      <3>3. /\ votes'[a] = [votes[a] EXCEPT ![p] = v]
            /\ cast'[a] = [cast[a] EXCEPT ![p] = v]
            /\ \A x \in Assignments : x # a => votes'[x] = votes[x] /\ cast'[x] = cast[x]
        BY <3>1, <3>2, ZenonT(40)
      <3>4. \A x \in Agents : x # p => cast'[a][x] = cast[a][x]
        BY <3>2, <3>3 DEF Ballots
      <3>5. QED
        BY <2>1, <3>1, <3>3, <3>4, ZenonT(40)
    <2>3. Requests
      BY <1>5, BumpedRequests, ZenonT(40) DEF SubmitVote, Requests
    <2>4. Electorates'
      BY <1>a, <2>1, <2>2, <2>3, ZenonT(40) DEF Electorates, Requests
    <2>5. QED
      BY <1>b, <2>2, <2>4, CounterFormNext, ZenonT(40)
  <1>6. ASSUME NEW c \in Callers, SettleInstall(c)
        PROVE  Electorates' /\ PendingCounterExact'
    <2>1. cur[c] \in Assignments /\ rec[c] \in Record
      BY <1>a, <1>6, ZenonT(40) DEF SettleInstall, Threads, Busy, Labels
    <2>2. Remember(cur[c], rec[c], asg, npending, votes) /\ UNCHANGED <<signed, cast, req>>
      BY <1>6, ZenonT(40) DEF SettleInstall, histVars
    <2>3. asg \in [Assignments -> States] /\ votes \in [Assignments -> Ballots]
      BY <1>a, ZenonT(40) DEF Types, States
    <2>4. /\ \A x \in Assignments : \/ asg'[x] = asg[x] /\ votes'[x] = votes[x]
                                    \/ asg'[x] = "none"
          /\ npending' = Cardinality(OpenOf(asg')) /\ npending' <= npending
      <3>1. /\ Types /\ npending \in Int /\ npending = Cardinality(OpenOf(asg))
            /\ rec[c] \in Record \cup {None}
        BY <1>a, <1>b, <1>d, <2>1, ZenonT(40)
      <3>2. Remember(cur[c], rec[c], asg, npending, votes)
        BY <2>2, ZenonT(40)
      <3>3. QED
        BY <2>1, <2>3, <3>1, <3>2, RememberEffect, Z3T(30)
    <2>5. Electorates'
      BY <1>a, <2>2, <2>4, ElectoratesKept, ZenonT(40) DEF Electorates
    <2>6. npending' <= MaxPending
      BY <1>b, <1>d, <2>4
    <2>7. QED
      BY <2>4, <2>5, <2>6, CounterFormNext, ZenonT(40)
  <1>7. ASSUME NEW c \in Callers, SettleFinish(c)
        PROVE  Electorates' /\ PendingCounterExact'
    <2>1. cur[c] \in Assignments /\ signed[cur[c]] # None
      BY <1>a, <1>7, Zenon DEF SettleFinish, Threads, Holding, Holds, Busy, Labels
    <2>2. /\ asg' = [asg EXCEPT ![cur[c]] = "recovered"]
          /\ npending' = PopCount(npending, asg, cur[c])
          /\ votes' = [votes EXCEPT ![cur[c]] = NoBallots]
          /\ UNCHANGED <<signed, cast, req>>
      BY <1>7, ZenonT(40) DEF SettleFinish, histVars
    <2>3. Electorates'
      <3>1. \A x \in Assignments :
              \/ asg'[x] = asg[x] /\ votes'[x] = votes[x]
              \/ asg'[x] = "recovered" /\ signed[x] # None
        BY <1>a, <2>1, <2>2, ZenonT(40) DEF Types
      <3>2. QED
        BY <1>a, <2>2, <3>1, ElectoratesKept, ZenonT(40) DEF Electorates
    <2>4. npending' = Cardinality(OpenOf(asg'))
      BY <1>a, <1>b, <1>d, <2>1, <2>2, PopExact, Zenon DEF Types, States
    <2>5. npending' <= npending
      BY <1>d, <2>2 DEF PopCount, Open
    <2>6. QED
      BY <1>b, <1>d, <2>3, <2>4, <2>5, CounterFormNext, Z3T(30)
  <1>8. ASSUME NEW c \in Callers, ReconcileAdopt(c)
        PROVE  Electorates' /\ PendingCounterExact'
    <2> DEFINE a == cur[c]
               at == [asg EXCEPT ![a] = "recovered"]
               n == PopCount(npending, asg, a)
               vt == [votes EXCEPT ![a] = NoBallots]
    <2>1. a \in Assignments /\ signed[a] # None /\ rec[c] \in Record
      BY <1>a, <1>8, Zenon DEF ReconcileAdopt, Threads, Holding, Holds, Busy, Labels
    <2>2. /\ \/ Remember(a, rec[c], at, n, vt)
             \/ asg' = at /\ npending' = n /\ votes' = vt
          /\ UNCHANGED <<signed, cast, req>>
      BY <1>8, Zenon DEF ReconcileAdopt, histVars
    <2>3. at \in [Assignments -> States] /\ vt \in [Assignments -> Ballots]
      BY <1>a, Zenon DEF Types, States, NoBallots, Ballots
    <2>4. n = Cardinality(OpenOf(at)) /\ n \in Int
      <3>1. asg \in [Assignments -> States]
        BY <1>a DEF Types, States
      <3>2. n = Cardinality(OpenOf(at))
        BY <1>b, <1>d, <2>1, <3>1, PopExact, ZenonT(40)
      <3>3. n \in Int
        BY <1>d, Z3T(30) DEF PopCount, Open
      <3>4. QED
        BY <3>2, <3>3, ZenonT(40)
    <2>5. n <= npending
      BY <1>d, Z3T(30) DEF PopCount, Open
    <2>6. \A x \in Assignments : \/ at[x] = asg[x] /\ vt[x] = votes[x]
                                 \/ at[x] = "recovered" /\ signed[x] # None
      BY <1>a, <2>1, ZenonT(40) DEF Types
    <2> HIDE DEF a, at, n, vt
    <2>7. /\ \A x \in Assignments : \/ asg'[x] = at[x] /\ votes'[x] = vt[x]
                                    \/ asg'[x] = "none"
          /\ npending' = Cardinality(OpenOf(asg')) /\ npending' <= n
      <3>1. CASE Remember(a, rec[c], at, n, vt)
        BY <1>a, <2>1, <2>3, <2>4, <3>1, RememberEffect, ZenonT(40)
      <3>2. CASE asg' = at /\ npending' = n /\ votes' = vt
        BY <3>2, <2>4, Z3T(30)
      <3>3. QED
        BY <2>2, <3>1, <3>2, ZenonT(40)
    <2>8. Electorates'
      <3>1. \A x \in Assignments :
              \/ asg'[x] = asg[x] /\ votes'[x] = votes[x]
              \/ asg'[x] = "none"
              \/ asg'[x] = "recovered" /\ signed[x] # None
        BY <2>6, <2>7
      <3>2. QED
        BY <1>a, <2>2, <3>1, ElectoratesKept, Zenon DEF Electorates
    <2>9. npending' <= MaxPending
      BY <1>b, <1>d, <2>4, <2>5, <2>7, Z3T(30)
    <2>10. QED
      BY <2>7, <2>8, <2>9, CounterFormNext
  <1>9. ASSUME NEW h \in Hashes, NEW keep \in Registries, NEW S \in SUBSET Assignments,
               Restart(h, keep, S)
        PROVE  Electorates' /\ PendingCounterExact'
    <2>1. \A x \in S : signed[x] # None
      BY <1>9 DEF Restart, Loadable, Inv, ShelvesSound, Good, Sound
    <2>2. Electorates'
      BY <1>a, <1>9, <2>1 DEF Restart, Electorates, EmptyShelf
    <2>3. OpenOf(asg') = {}
      BY <1>9 DEF Restart, OpenOf
    <2>4. npending' = Cardinality(OpenOf(asg')) /\ npending' <= MaxPending
      <3>1. npending' = 0
        BY <1>9 DEF Restart
      <3>2. Cardinality(OpenOf(asg')) = 0
        BY <2>3, FS_EmptySet
      <3>3. QED
        BY <1>d, <3>1, <3>2
    <2>5. QED
      BY <2>2, <2>4, CounterFormNext, ZenonT(40)
  <1>10. QED
    BY QuietOrWrites, <1>1, <1>2, <1>3, <1>4, <1>5, <1>6, <1>7, <1>8, <1>9, ZenonT(40)
       DEF Writes, Vote

-----------------------------------------------------------------------------
(* Every record is sound *)

\* When every assigned peer has voted, both sides cannot have a majority.
LEMMA OneSideWins ==
    ASSUME NEW s \in Signed, NEW b \in Ballots,
           \A p \in Agents : b[p] # None <=> p \in s.peers
    PROVE  ~(Accepts(s, b) /\ Rejects(s, b))
  <1>1. s.peers \subseteq Agents
    BY DEF Signed
  <1>2. For(b) \cup Against(b) = s.peers /\ For(b) \cap Against(b) = {}
    BY <1>1 DEF For, Against
  <1>3. For(b) \subseteq Agents /\ Against(b) \subseteq Agents
    BY DEF For, Against
  <1>4. IsFiniteSet(For(b)) /\ IsFiniteSet(Against(b)) /\ IsFiniteSet(s.peers)
    BY <1>1, <1>3, ModelAssumption, FS_Subset, ZenonT(40)
  <1>5. Cardinality(s.peers) = Cardinality(For(b)) + Cardinality(Against(b)) - Cardinality({})
    BY <1>2, <1>4, FS_Union, ZenonT(40)
  <1>6. /\ Cardinality(s.peers) \in Nat /\ Cardinality(For(b)) \in Nat
        /\ Cardinality(Against(b)) \in Nat /\ Cardinality({}) = 0
    BY <1>4, FS_CardinalityType, FS_EmptySet, ZenonT(40)
  <1> HIDE DEF For, Against
  <1>7. QED
    BY <1>5, <1>6 DEF Accepts, Rejects, Wins

\* The snapshot of settle's first section is sound.
LEMMA SettleSound ==
    ASSUME Types, Electorates, NEW c \in Callers, NEW a \in Assignments, SettleBegin(c, a)
    PROVE  Sound(signed[a], cast[a], rec'[c])
  <1> DEFINE s == signed[a]
             b == votes[a]
  <1>1. asg[a] = "open" /\ QuorumMet(s, b)
    BY ZenonT(40) DEF SettleBegin, CanSettle
  <1>2. s \in Signed /\ s # None /\ b \in Ballots /\ b = cast[a]
    BY <1>1, ZenonT(40) DEF Electorates, Types
  <1>3. \A p \in Agents : b[p] # None <=> p \in s.peers
    BY <1>1, <1>2, ZenonT(40) DEF QuorumMet, Electorates
  <1>4. rec'[c] = [votes |-> b, accepted |-> Accepts(s, b), stamp |-> stamps[a] + 1]
    BY ZenonT(40) DEF SettleBegin, Types
  <1> HIDE DEF s, b
  <1>5. /\ Accepts(s, b) \in BOOLEAN /\ Rejects(s, b) \in BOOLEAN
        /\ Accepts(s, b) \/ Rejects(s, b)
    BY <1>1, ZenonT(40) DEF QuorumMet, Accepts, Rejects, Wins
  <1>6. Accepts(s, b) # Rejects(s, b)
    BY <1>2, <1>3, <1>5, OneSideWins, ZenonT(40)
  <1>7. rec'[c].votes = b /\ rec'[c].accepted = Accepts(s, b)
    BY <1>4, Z3T(30)
  <1>8. Sound(s, b, rec'[c])
    BY <1>2, <1>3, <1>6, <1>7, ZenonT(40) DEF Sound
  <1>9. QED
    BY <1>2, <1>8, ZenonT(40) DEF s

\* There is no record before the electorate is signed and complete.
LEMMA NoRecordYet ==
    ASSUME NEW s, NEW b, NEW r, Good(s, b, r),
           s = None \/ \E p \in Agents : p \in s.peers /\ b[p] = None
    PROVE  r = None
  BY DEF Good, Sound

\* The absence of a record is sound for every assignment.
LEMMA NoneIsGood == \A s, b : Good(s, b, None)
  BY ZenonT(40) DEF Good

\* A thread that leaves drops its record and so keeps the locals sound.
LEMMA LeaveSound ==
    ASSUME Types, LocalsSound, NEW c \in Callers, Leave(c), UNCHANGED <<signed, cast>>
    PROVE  LocalsSound'
  BY NoneAssumption, ZenonT(40) DEF Leave, LocalsSound, Types

\* All places of one assignment are empty: it may be signed, or voted on.
LEMMA EmptySound ==
    ASSUME Types, ShelvesSound, LocalsSound, NEW a \in Assignments,
           \/ signed[a] = None
           \/ \E p \in Agents : p \in signed[a].peers /\ cast[a][p] = None,
           \A x \in Assignments \ {a} : signed'[x] = signed[x] /\ cast'[x] = cast[x],
           UNCHANGED <<finalVars, todo, index, storeVars>>,
           \A c \in Callers : \/ cur'[c] = cur[c] /\ rec'[c] = rec[c]
                              \/ cur'[c] = a /\ rec'[c] = None
    PROVE  ShelvesSound' /\ LocalsSound'
  <1> USE DEF finalVars, storeVars
  <1>1. \A r : Good(signed[a], cast[a], r) => r = None
    BY NoRecordYet, ZenonT(40)
  <1>2. /\ final[a] = None /\ durable[a] = None /\ pending[a] = None /\ receipt[a] = None
        /\ \A c \in Callers : /\ cur[c] = a => rec[c] = None
                              /\ todo[c][a] = None
                              /\ index[c] # None => index[c][a] = None
    BY <1>1, ZenonT(40) DEF ShelvesSound, LocalsSound
  <1>3. ShelvesSound'
    <2>1. UNCHANGED <<final, durable, pending, receipt>>
      BY ZenonT(40) DEF finalVars, storeVars
    <2>2. \A x \in Assignments \ {a} :
            /\ Good(signed[x], cast[x], final[x]) /\ Good(signed[x], cast[x], durable[x])
            /\ Good(signed[x], cast[x], pending[x]) /\ Good(signed[x], cast[x], receipt[x])
      BY Zenon DEF ShelvesSound
    <2>3. QED
      BY <1>2, <2>1, <2>2, NoneIsGood, ZenonT(40) DEF ShelvesSound
  <1>4. LocalsSound'
    <2> SUFFICES ASSUME NEW x \in Assignments, NEW c \in Callers
                 PROVE  /\ cur'[c] = x => Good(signed'[x], cast'[x], rec'[c])
                        /\ Good(signed'[x], cast'[x], todo'[c][x])
                        /\ index'[c] # None => Good(signed'[x], cast'[x], index'[c][x])
      BY Zenon DEF LocalsSound
    <2>1. CASE x = a
      BY <1>2, <2>1, NoneIsGood, ZenonT(40)
    <2>2. CASE x # a
      BY <2>2, NoneIsGood, ZenonT(40) DEF LocalsSound
    <2>3. QED
      BY <2>1, <2>2, ZenonT(40)
  <1>5. QED
    BY <1>3, <1>4, ZenonT(40)

\* Records are only copied between places, except for settle's snapshot.
LEMMA SoundOther ==
    ASSUME Inv, Request \/ Control \/ Recovery
    PROVE  ShelvesSound' /\ LocalsSound'
  <1>a. Types /\ ShelvesSound /\ LocalsSound /\ Electorates
    BY ZenonT(40) DEF Inv
  <1> USE DEF ctlVars, memberVars, asgVars, finalVars, threadVars, histVars, storeVars, memory
  <1>1. CASE UNCHANGED <<signed, cast, final, durable, pending, receipt, cur, rec, todo, index>>
    BY <1>a, <1>1, ZenonT(40) DEF ShelvesSound, LocalsSound
  <1>2. ASSUME NEW a \in Assignments, NEW P \in SUBSET Agents, RequestCommit(a, P)
        PROVE  ShelvesSound' /\ LocalsSound'
    <2>1. signed[a] = None
      BY <1>a, <1>2, Zenon DEF RequestCommit, Electorates
    <2>2. /\ \A x \in Assignments \ {a} : signed'[x] = signed[x] /\ cast'[x] = cast[x]
          /\ UNCHANGED <<finalVars, todo, index, storeVars, cur, rec>>
      BY <1>a, <1>2, Zenon DEF RequestCommit, Types
    <2>3. QED
      BY <1>a, <2>1, <2>2, EmptySound, ZenonT(40)
  <1>3. CASE ReconcileOrphanReceipts
    <2>1. ShelvesSound'
      BY <1>a, <1>3, NoneIsGood, Zenon DEF ReconcileOrphanReceipts, RemoveOrphans, ShelvesSound
    <2>2. LocalsSound'
      BY <1>a, <1>3, Zenon DEF ReconcileOrphanReceipts, LocalsSound
    <2>3. QED
      BY <2>1, <2>2, ZenonT(40)
  <1>4. ASSUME NEW h \in Hashes, NEW keep \in Registries, NEW S \in SUBSET Assignments,
               Restart(h, keep, S)
        PROVE  ShelvesSound' /\ LocalsSound'
    <2>1. ShelvesSound'
      BY <1>a, <1>4, NoneIsGood DEF Restart, DropLocks, ShelvesSound
    <2>2. LocalsSound'
      BY <1>4, NoneIsGood, ZenonT(40) DEF Restart, LocalsSound, EmptyShelf
    <2>3. QED
      BY <2>1, <2>2
  <1>5. QED
    BY <1>1, <1>2, <1>3, <1>4, ZenonT(40)
    DEF  Request, Control, Recovery, RequestSnapshot, RequestRefused,
         RequestAbort, Halt, Resume, Register, Unregister, Membership, RotateConstitution,
         TouchStale

\* A shelf that takes the record of a thread, for the thread's assignment.
LEMMA TakenGood ==
    ASSUME Types, Threads, LocalsSound, NEW c \in Callers, pc[c] \in Busy
    PROVE  /\ cur[c] \in Assignments
           /\ Good(signed[cur[c]], cast[cur[c]], rec[c])
  BY ZenonT(40) DEF Threads, LocalsSound

\* Remembering a result keeps the shelf of results sound.
LEMMA RememberSound ==
    ASSUME Types, ShelvesSound, NEW a \in Assignments, NEW r,
           Good(signed[a], cast[a], r), UNCHANGED <<signed, cast, storeVars>>,
           \A x \in Assignments : final'[x] \in {IF x = a THEN r ELSE final[x], None}
    PROVE  ShelvesSound'
  BY NoneIsGood, Zenon DEF ShelvesSound, storeVars

\* The sections of settle keep every record sound.
LEMMA SoundSettle ==
    ASSUME Inv, NEW c \in Callers, Vote(c) \/ Settle(c)
    PROVE  ShelvesSound' /\ LocalsSound'
  <1>a. Types /\ Threads /\ ShelvesSound /\ LocalsSound /\ Electorates
    BY DEF Inv
  <1>b. npending = Cardinality(OpenOf(asg))
    BY CounterForm, ZenonT(40) DEF Inv
  <1> USE DEF ctlVars, memberVars, asgVars, finalVars, threadVars, histVars, storeVars,
              memory, locals
  <1>1. ASSUME NEW a \in Assignments, NEW p \in Agents, NEW d \in BOOLEAN,
               SubmitVote(c, a, p, d)
        PROVE  ShelvesSound' /\ LocalsSound'
    <2>1. p \in signed[a].peers /\ cast[a][p] = None
      BY <1>a, <1>1, ZenonT(40) DEF SubmitVote, Voted, Electorates
    <2>2. /\ \A x \in Assignments \ {a} : signed'[x] = signed[x] /\ cast'[x] = cast[x]
          /\ UNCHANGED <<finalVars, todo, index, storeVars>>
      BY <1>a, <1>1, ZenonT(40) DEF SubmitVote, Types
    <2>3. rec[c] = None
      BY <1>a, <1>1, ZenonT(40) DEF SubmitVote, Threads, Busy
    <2>4. \A x \in Callers : \/ cur'[x] = cur[x] /\ rec'[x] = rec[x]
                             \/ cur'[x] = a /\ rec'[x] = None
      BY <1>a, <1>1, <2>3, Zenon DEF SubmitVote, Types
    <2>5. QED
      BY <1>a, <2>1, <2>2, <2>4, EmptySound, ZenonT(40)
  <1>2. ASSUME NEW a \in Assignments, SettleBegin(c, a)
        PROVE  ShelvesSound' /\ LocalsSound'
    <2>1. Good(signed[a], cast[a], rec'[c])
      BY <1>a, <1>2, SettleSound, Zenon DEF Good
    <2>2. ShelvesSound'
      BY <1>a, <1>2, Zenon DEF SettleBegin, ShelvesSound
    <2>3. /\ UNCHANGED <<signed, cast, todo, index>> /\ cur'[c] = a
          /\ \A x \in Callers \ {c} : cur'[x] = cur[x] /\ rec'[x] = rec[x]
      BY <1>a, <1>2, Zenon DEF SettleBegin, Types
    <2>4. LocalsSound'
      BY <1>a, <2>1, <2>3, Zenon DEF LocalsSound
    <2>5. QED
      BY <2>2, <2>4, ZenonT(40)
  <1>3. CASE VoteReturns(c) \/ SettleYield(c)
    BY <1>a, <1>3, LeaveSound, Zenon DEF VoteReturns, SettleYield, ShelvesSound
  <1>4. CASE SettleMark(c)
    <2>1. cur[c] \in Assignments /\ Good(signed[cur[c]], cast[cur[c]], rec[c])
      BY <1>a, <1>4, TakenGood, Zenon DEF SettleMark, Busy, Labels
    <2>2. ShelvesSound'
      BY <1>a, <1>4, <2>1, Zenon DEF SettleMark, MarkPending, ShelvesSound, Types, Shelf
    <2>3. LocalsSound'
      BY <1>a, <1>4, Zenon DEF SettleMark, LocalsSound
    <2>4. QED
      BY <2>2, <2>3, ZenonT(40)
  <1>5. CASE SettleInstall(c)
    <2>1. cur[c] \in Assignments /\ Good(signed[cur[c]], cast[cur[c]], rec[c])
      BY <1>a, <1>5, TakenGood, ZenonT(40) DEF SettleInstall, Busy, Labels
    <2>2. Remember(cur[c], rec[c], asg, npending, votes) /\ UNCHANGED <<signed, cast, storeVars>>
      BY <1>5, ZenonT(40) DEF SettleInstall
    <2>3. /\ asg \in [Assignments -> States] /\ votes \in [Assignments -> Ballots]
          /\ npending \in Int /\ rec[c] \in Record \cup {None}
      BY <1>a, ZenonT(40) DEF Types, States
    <2>4. \A x \in Assignments : final'[x] \in {IF x = cur[c] THEN rec[c] ELSE final[x], None}
      BY <1>a, <1>b, <2>1, <2>2, <2>3, RememberEffect, Zenon
    <2>5. ShelvesSound'
      BY <1>a, <2>1, <2>2, <2>4, RememberSound, Zenon
    <2>6. LocalsSound'
      BY <1>a, <1>5, Zenon DEF SettleInstall, LocalsSound
    <2>7. QED
      BY <2>5, <2>6
  <1>6. CASE SettleClear(c)
    <2>1. ShelvesSound'
      BY <1>a, <1>6, NoneIsGood, Zenon DEF SettleClear, ClearPending, ShelvesSound, Types, Shelf
    <2>2. LocalsSound'
      BY <1>a, <1>6, Zenon DEF SettleClear, LocalsSound
    <2>3. QED
      BY <2>1, <2>2
  <1>7. CASE SettleFinish(c)
    BY <1>a, <1>7, LeaveSound, Zenon DEF SettleFinish, ShelvesSound
  <1>8. QED
    BY <1>1, <1>2, <1>3, <1>4, <1>5, <1>6, <1>7, ZenonT(40) DEF Vote, Settle

\* Receipt and append write only sound records.
LEMMA SoundPersist ==
    ASSUME Inv, NEW c \in Callers, Persist(c) \/ Faults(c)
    PROVE  ShelvesSound' /\ LocalsSound'
  <1>a. Types /\ Threads /\ ShelvesSound /\ LocalsSound
    BY ZenonT(40) DEF Inv
  <1> USE DEF ctlVars, memberVars, asgVars, finalVars, threadVars, histVars, storeVars,
              memory, locals
  <1>1. CASE BuildReceipt(c)
    BY <1>a, <1>1, Zenon DEF BuildReceipt, ShelvesSound, LocalsSound
  <1>2. CASE BuildReceiptFails(c) \/ StoreCallFails(c)
    BY <1>a, <1>2, LeaveSound, ZenonT(40) DEF BuildReceiptFails, StoreCallFails, Fault, ShelvesSound
  <1>3. CASE PersistReceipt(c)
    <2>1. cur[c] \in Assignments /\ Good(signed[cur[c]], cast[cur[c]], rec[c])
      BY <1>a, <1>3, TakenGood, ZenonT(40) DEF PersistReceipt, Busy, Labels
    <2>2. ShelvesSound'
      BY <1>a, <1>3, <2>1, ZenonT(40) DEF PersistReceipt, WriteReceipt, ShelvesSound, Types, Shelf
    <2>3. LocalsSound'
      BY <1>a, <1>3, ZenonT(40) DEF PersistReceipt, LocalsSound
    <2>4. QED
      BY <2>2, <2>3
  <1>4. CASE PersistDuplicate(c)
    <2>1. ShelvesSound'
      BY <1>a, <1>4, ZenonT(40) DEF PersistDuplicate, ShelvesSound
    <2>2. CASE Leave(c)
      BY <1>a, <1>4, <2>1, <2>2, LeaveSound, ZenonT(40) DEF PersistDuplicate
    <2>3. CASE UNCHANGED locals
      BY <1>a, <1>4, <2>1, <2>3, Zenon DEF PersistDuplicate, LocalsSound
    <2>4. QED
      BY <1>4, <2>2, <2>3, Zenon DEF PersistDuplicate
  <1>5. CASE PersistAppend(c)
    <2>1. cur[c] \in Assignments /\ Good(signed[cur[c]], cast[cur[c]], rec[c])
      BY <1>a, <1>5, TakenGood, Zenon DEF PersistAppend, Busy, Labels
    <2>2. ShelvesSound'
      BY <1>a, <1>5, <2>1, Zenon DEF PersistAppend, AppendRecord, ShelvesSound, Types, Shelf
    <2>3. LocalsSound'
      BY <1>a, <1>5, Zenon DEF PersistAppend, LocalsSound
    <2>4. QED
      BY <2>2, <2>3
  <1>6. CASE AppendFails(c)
    <2>1. ShelvesSound'
      BY <1>a, <1>6, NoneIsGood, ZenonT(40)
         DEF AppendFails, Fault, UnlinkReceipt, ShelvesSound, Types, Shelf
    <2>2. QED
      BY <1>a, <1>6, <2>1, LeaveSound, ZenonT(40) DEF AppendFails, Fault
  <1>7. CASE AppendFailsLate(c)
    <2>1. cur[c] \in Assignments /\ Good(signed[cur[c]], cast[cur[c]], rec[c])
      BY <1>a, <1>7, TakenGood, Zenon DEF AppendFailsLate, Busy, Labels
    <2>2. ShelvesSound'
      BY <1>a, <1>7, <2>1, ZenonT(40)
      DEF AppendFailsLate, Fault, AppendRecord, ShelvesSound, Types, Shelf
    <2>3. QED
      BY <1>a, <1>7, <2>2, LeaveSound, ZenonT(40) DEF AppendFailsLate, Fault
  <1>8. ASSUME NEW a \in Assignments, ReconcileScanFails(c, a)
        PROVE  ShelvesSound' /\ LocalsSound'
    <2>1. ShelvesSound'
      BY <1>a, <1>8 DEF ReconcileScanFails, Fault, ShelvesSound
    <2>2. LocalsSound'
      BY <1>a, <1>8, NoneIsGood, ZenonT(40) DEF ReconcileScanFails, Fault, LocalsSound, Types, Shelf
    <2>3. QED
      BY <2>1, <2>2
  <1>9. QED
    BY <1>1, <1>2, <1>3, <1>4, <1>5, <1>6, <1>7, <1>8, ZenonT(40) DEF Persist, Faults

\* Reconciliation takes up, persists and adopts only sound records.
LEMMA SoundReconcile ==
    ASSUME Inv, NEW c \in Callers, Reconcile(c)
    PROVE  ShelvesSound' /\ LocalsSound'
  <1>a. Types /\ Threads /\ ShelvesSound /\ LocalsSound
    BY DEF Inv
  <1>b. npending = Cardinality(OpenOf(asg))
    BY CounterForm DEF Inv
  <1> USE DEF ctlVars, memberVars, asgVars, finalVars, threadVars, histVars, storeVars,
              memory, locals
  <1>1. CASE ReconcileBegin(c)
    <2>1. ShelvesSound'
      BY <1>a, <1>1, ZenonT(40) DEF ReconcileBegin, ShelvesSound
    <2>2. \A a \in Assignments : Good(signed[a], cast[a], todo'[c][a])
      BY <1>a, <1>1, ZenonT(40) DEF ReconcileBegin, ShelvesSound, Types
    <2>3. LocalsSound'
      BY <1>a, <1>1, <2>2, Zenon DEF ReconcileBegin, LocalsSound, Types
    <2>4. QED
      BY <2>1, <2>3, ZenonT(40)
  <1>2. ASSUME NEW a \in Assignments, ReconcileScan(c, a)
        PROVE  ShelvesSound' /\ LocalsSound'
    <2>1. /\ \A x \in Callers, y \in Assignments : todo'[x][y] \in {todo[x][y], None}
          /\ UNCHANGED <<signed, cast, final, index>>
      BY <1>a, <1>2, ZenonT(40) DEF ReconcileScan, Types, Shelf
    <2>2. ShelvesSound'
      <3>1. CASE UNCHANGED storeVars
        BY <1>a, <2>1, <3>1, Zenon DEF ShelvesSound
      <3>2. CASE ClearPending(a)
        BY <1>a, <2>1, <3>2, NoneIsGood, ZenonT(40) DEF ClearPending, ShelvesSound, Types, Shelf
      <3>3. QED
        BY <1>2, <3>1, <3>2, ZenonT(40) DEF ReconcileScan
    <2>3. LocalsSound'
      <3>1. CASE UNCHANGED <<cur, rec>>
        BY <1>a, <2>1, <3>1, NoneIsGood, ZenonT(40) DEF LocalsSound
      <3>2. CASE cur' = [cur EXCEPT ![c] = a] /\ rec' = [rec EXCEPT ![c] = todo[c][a]]
        <4>1. Good(signed[a], cast[a], todo[c][a])
          BY <1>a, Zenon DEF LocalsSound
        <4>2. /\ cur'[c] = a /\ rec'[c] = todo[c][a]
              /\ \A x \in Callers \ {c} : cur'[x] = cur[x] /\ rec'[x] = rec[x]
          BY <1>a, <3>2, Zenon DEF Types
        <4>3. QED
          BY <1>a, <2>1, <4>1, <4>2, NoneIsGood, ZenonT(40) DEF LocalsSound
      <3>3. QED
        BY <1>2, <3>1, <3>2, ZenonT(40) DEF ReconcileScan
    <2>4. QED
      BY <2>2, <2>3, ZenonT(40)
  <1>3. CASE ReconcileVerify(c)
    <2>1. ShelvesSound'
      BY <1>a, <1>3, Zenon DEF ReconcileVerify, ShelvesSound
    <2>2. \A a \in Assignments : Good(signed[a], cast[a], IndexOf(c)[a])
      BY <1>a, Zenon DEF IndexOf, ShelvesSound, LocalsSound
    <2>3. /\ UNCHANGED <<signed, cast, cur, rec, todo>>
          /\ index' = [index EXCEPT ![c] = IndexOf(c)]
      BY <1>3, Zenon DEF ReconcileVerify
    <2>4. LocalsSound'
      BY <1>a, <2>2, <2>3, Zenon DEF LocalsSound, Types
    <2>5. QED
      BY <2>1, <2>4
  <1>4. CASE ReconcileReject(c) \/ ReconcileCrossed(c)
    BY <1>a, <1>4, LeaveSound, Zenon DEF ReconcileReject, ReconcileCrossed, ShelvesSound
  <1>4a. CASE ReconcileConflict(c)
    <2>1. ShelvesSound'
      BY <1>a, <1>4a, Zenon DEF ReconcileConflict, ShelvesSound
    <2>2. \A a \in Assignments : Good(signed[a], cast[a], IndexOf(c)[a])
      BY <1>a, Zenon DEF IndexOf, ShelvesSound, LocalsSound
    <2>3. /\ UNCHANGED <<signed, cast, todo>>
          /\ index' = [index EXCEPT ![c] = IndexOf(c)]
          /\ cur' = [cur EXCEPT ![c] = None] /\ rec' = [rec EXCEPT ![c] = None]
      BY <1>4a, Zenon DEF ReconcileConflict
    <2>4. /\ index'[c] = IndexOf(c)
          /\ \A x \in Callers \ {c} : /\ cur'[x] = cur[x] /\ rec'[x] = rec[x]
                                      /\ index'[x] = index[x]
          /\ rec'[c] = None
      BY <1>a, <2>3, Zenon DEF Types
    <2> HIDE DEF IndexOf
    <2>5. ASSUME NEW a \in Assignments, NEW x \in Callers
          PROVE  /\ cur'[x] = a => Good(signed[a], cast[a], rec'[x])
                 /\ Good(signed[a], cast[a], todo[x][a])
                 /\ index'[x] # None => Good(signed[a], cast[a], index'[x][a])
      <3>1. CASE x = c
        BY <1>a, <2>2, <2>4, <3>1, NoneIsGood, Zenon DEF LocalsSound
      <3>2. CASE x # c
        BY <1>a, <2>4, <3>2, Zenon DEF LocalsSound
      <3>3. QED
        BY <3>1, <3>2
    <2>6. LocalsSound'
      BY <2>3, <2>5, Zenon DEF LocalsSound
    <2>7. QED
      BY <2>1, <2>6
  <1>5. CASE ReconcileLookup(c)
    <2>1. ShelvesSound'
      BY <1>a, <1>5, Zenon DEF ReconcileLookup, ShelvesSound
    <2>2. CASE Leave(c)
      BY <1>a, <1>5, <2>1, <2>2, LeaveSound, Zenon DEF ReconcileLookup
    <2>3. CASE UNCHANGED locals
      BY <1>a, <1>5, <2>1, <2>3, Zenon DEF ReconcileLookup, LocalsSound
    <2>4. QED
      BY <1>5, <2>2, <2>3, Zenon DEF ReconcileLookup
  <1>6. CASE ReconcileAdopt(c)
    <2> DEFINE a == cur[c]
               at == [asg EXCEPT ![a] = "recovered"]
               n == PopCount(npending, asg, a)
               vt == [votes EXCEPT ![a] = NoBallots]
    <2>1. a \in Assignments /\ Good(signed[a], cast[a], rec[c])
      BY <1>a, <1>6, TakenGood, Zenon DEF ReconcileAdopt, Busy, Labels
    <2>2. /\ Remember(a, rec[c], at, n, vt) \/ UNCHANGED final
          /\ UNCHANGED <<signed, cast, storeVars, locals>>
      BY <1>6, Zenon DEF ReconcileAdopt
    <2>3. /\ at \in [Assignments -> States] /\ vt \in [Assignments -> Ballots]
          /\ rec[c] \in Record \cup {None}
      BY <1>a, Zenon DEF Types, States, NoBallots, Ballots
    <2>4. n \in Int
      BY <1>a DEF PopCount, Open, Types
    <2>5. n = Cardinality(OpenOf(at))
      <3>1. asg \in [Assignments -> States] /\ npending \in Int
        BY <1>a, ZenonT(40) DEF Types, States
      <3>2. QED
        BY <1>b, <2>1, <3>1, PopExact, Zenon
    <2> HIDE DEF a, at, n, vt
    <2>6. \A x \in Assignments : final'[x] \in {IF x = a THEN rec[c] ELSE final[x], None}
                                   \cup {final[x]}
      <3>1. CASE Remember(a, rec[c], at, n, vt)
        BY <1>a, <2>1, <2>3, <2>4, <2>5, <3>1, RememberEffect, Zenon
      <3>2. CASE UNCHANGED final
        BY <3>2, ZenonT(40)
      <3>3. QED
        BY <2>2, <3>1, <3>2, ZenonT(40)
    <2>7. ShelvesSound'
      BY <1>a, <2>1, <2>2, <2>6, NoneIsGood, Zenon DEF ShelvesSound
    <2>8. LocalsSound'
      BY <1>a, <2>2, ZenonT(40) DEF LocalsSound
    <2>9. QED
      BY <2>7, <2>8
  <1>7. CASE ReconcileClear(c)
    <2>1. ShelvesSound'
      BY <1>a, <1>7, NoneIsGood, Zenon DEF ReconcileClear, ClearPending, ShelvesSound, Types, Shelf
    <2>2. QED
      BY <1>a, <1>7, <2>1, LeaveSound, ZenonT(40) DEF ReconcileClear
  <1>8. CASE ReconcileEnd(c)
    <2>1. ShelvesSound'
      BY <1>a, <1>8, Zenon DEF ReconcileEnd, ShelvesSound
    <2>2. LocalsSound'
      BY <1>a, <1>8, Zenon DEF ReconcileEnd, LocalsSound, Types
    <2>3. QED
      BY <2>1, <2>2
  <1>9. QED
    BY <1>1, <1>2, <1>3, <1>4, <1>4a, <1>5, <1>6, <1>7, <1>8, ZenonT(40) DEF Reconcile

\* Every step of the mesh keeps every record sound.
LEMMA SoundStep == Inv /\ [Next]_vars => ShelvesSound' /\ LocalsSound'
  <1> SUFFICES ASSUME Inv, [Next]_vars PROVE ShelvesSound' /\ LocalsSound'
    BY ZenonT(40)
  <1>1. CASE UNCHANGED vars
    BY <1>1, Zenon DEF Inv, vars, asgVars, finalVars, threadVars, histVars, storeVars,
                ShelvesSound, LocalsSound
  <1>2. QED
    BY <1>1, SoundOther, SoundSettle, SoundPersist, SoundReconcile, ZenonT(40) DEF Next

=============================================================================

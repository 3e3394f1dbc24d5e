------------------------- MODULE CatalogSync_proofs -------------------------
(***************************************************************************)
(* What TLAPS proves of CatalogSync for any number of processes, test ids  *)
(* and runs, under both isolation levels and every fault, the loss of the  *)
(* discovery lock included.  CatalogInv says what an open transaction      *)
(* knows: past the identity it owns the key of its test id, so the         *)
(* identity is still absent if it made the contest and still that of its   *)
(* contest if it found one.                                                *)
(***************************************************************************)
EXTENDS CatalogSync, Discovery_proofs

PCs == {"idle", "lock", "run", "discover", "contest", "identity", "mapping", "write", "commit",
        "fail", "release"}

Sync == [pc : PCs, at : Nat, run : Nat \cup {Null}, todo : Seq(TestId), failed : BOOLEAN,
         outcome : {Null, "SUCCESS", "FAILED", "LOCKED_BY_OTHER"},
         contest : ContestId \cup {Null}, created : BOOLEAN, seen : MappingRow \cup {Null}]

Run == [outcome : {"RUNNING", "SUCCESS", "FAILED"}, started : Nat, evidence : Seq(TestId)]

WithRun == {"discover", "contest", "identity", "mapping", "write", "commit", "fail"}
Working == {"identity", "mapping", "write", "commit"}

Typed ==
    /\ now \in Nat
    /\ contests \subseteq ContestId
    /\ identity \in [TestId -> contests \cup {Null}]
    /\ mapping \in [ContestId -> MappingRow \cup {Null}]
    /\ runs \in Seq(Run)
    /\ lock \in Worker \cup {Free}
    /\ rowLock \in [TestId \cup ContestId -> Worker \cup {Free}]
    /\ sync \in [Worker -> Sync]

\* What process w knows when its record is j.
Knows(w, j) ==
    /\ j.pc \notin Working => j.contest = Null /\ ~j.created
    /\ j.pc \in Working => j.todo # <<>>
    /\ j.pc \in Working /\ ~j.created /\ j.contest # Null => identity[Head(j.todo)] = j.contest
    /\ j.pc \in Working /\ j.created => j.pc # "identity" /\ identity[Head(j.todo)] = Null
    /\ j.pc \in Working \ {"identity"} => j.contest # Null /\ rowLock[Head(j.todo)] = w

\* Its run exists, and is recorded as the process reports it.
Reports(j) ==
    /\ j.pc \in WithRun => j.run \in DOMAIN runs
    /\ j.outcome = "SUCCESS" => /\ j.pc \in {"release", "idle"}
                               /\ j.run \in DOMAIN runs /\ runs[j.run].outcome = "SUCCESS"

\* A mapping is linked to an identity of its own contest.
LinksAreOwn ==
    \A c \in ContestId : mapping[c] # Null /\ mapping[c].identity # Null =>
        identity[mapping[c].identity] = c

CatalogInv ==
    /\ Typed
    /\ \A w \in Worker : Knows(w, sync[w]) /\ Reports(sync[w])
    /\ NoContestWithoutIdentity
    /\ LinksAreOwn

\* What a step may do to the runs, and to the keys and identities of the
\* processes other than w.
RunsKept ==
    /\ runs' \in Seq(Run)
    /\ DOMAIN runs \subseteq DOMAIN runs'
    /\ \A r \in DOMAIN runs : runs[r].outcome # "RUNNING" => runs'[r].outcome = runs[r].outcome

KeysKept(w) ==
    /\ rowLock' \in [TestId \cup ContestId -> Worker \cup {Free}]
    /\ \A k \in TestId \cup ContestId :
          rowLock[k] \notin {w, Free} => rowLock'[k] = rowLock[k]

IdentitiesKept(w) ==
    \A t \in TestId : identity'[t] = identity[t] \/ (identity[t] = Null /\ rowLock[t] = w)
------------------------------------------------------------------------------
\* The first test id of a list that is not empty.
LEMMA FirstTest ==
    ASSUME NEW j \in Sync, j.todo # <<>>
    PROVE  Head(j.todo) \in TestId /\ Tail(j.todo) \in Seq(TestId)
<1>1. j.todo \in Seq(TestId)
  BY DEF Sync
<1> QED  BY <1>1

\* What the other processes know, they still know afterwards.
LEMMA OthersKept ==
    ASSUME CatalogInv, NEW w, NEW v \in Worker, v # w, sync'[v] = sync[v],
           RunsKept, KeysKept(w), IdentitiesKept(w)
    PROVE  Knows(v, sync[v])' /\ Reports(sync[v])'
<1>1. PICK j \in Sync : j = sync[v]
  BY DEF CatalogInv, Typed
<1>2. Knows(v, j) /\ Reports(j) /\ sync'[v] = j
  BY <1>1 DEF CatalogInv
<1>3. Reports(j)'
  BY <1>2 DEF Reports, RunsKept
<1>4. Knows(v, j)'
  <2>1. CASE j.pc \notin Working
    BY <1>2, <2>1 DEF Knows
  <2>2. CASE j.pc \in Working
    <3>1. PICK t \in TestId : t = Head(j.todo)
      BY <1>2, <2>2, FirstTest DEF Knows
    <3>2. identity[t] # Null => identity'[t] = identity[t]
      BY DEF IdentitiesKept
    <3>3. j.pc # "identity" => identity'[t] = identity[t] /\ rowLock'[t] = v
      <4>1. j.pc # "identity" => rowLock[t] = v
        BY <1>2, <2>2, <3>1 DEF Knows
      <4>2. v # Free
        BY CatalogConstants
      <4> QED  BY <4>1, <4>2 DEF IdentitiesKept, KeysKept
    <3> QED  BY <1>2, <2>2, <3>1, <3>2, <3>3 DEF Knows
  <2> QED  BY <2>1, <2>2
<1> QED  BY <1>2, <1>3, <1>4

\* A step of w that leaves the catalog alone; its record is j afterwards.
LEMMA QuietStep ==
    ASSUME CatalogInv, NEW w \in Worker, NEW j \in Sync, sync' = [sync EXCEPT ![w] = j],
           Knows(w, j)', Reports(j)', RunsKept, KeysKept(w),
           lock' \in Worker \cup {Free}, UNCHANGED <<now, catalog>>
    PROVE  CatalogInv'
<1>1. /\ contests' = contests /\ identity' = identity /\ mapping' = mapping /\ now' = now
  BY DEF catalog
<1>2. /\ sync' \in [Worker -> Sync] /\ sync'[w] = j /\ \A v \in Worker \ {w} : sync'[v] = sync[v]
  BY DEF CatalogInv, Typed
<1>3. Typed'
  BY <1>1, <1>2 DEF CatalogInv, Typed, RunsKept, KeysKept
<1>4. IdentitiesKept(w)
  BY <1>1 DEF IdentitiesKept
<1>5. ASSUME NEW v \in Worker PROVE Knows(v, sync[v])' /\ Reports(sync[v])'
  <2>1. CASE v = w
    BY <1>2, <2>1
  <2>2. CASE v # w
    BY <1>2, <1>4, <2>2, OthersKept
  <2> QED  BY <2>1, <2>2
<1>6. NoContestWithoutIdentity' /\ LinksAreOwn'
  BY <1>1 DEF CatalogInv, NoContestWithoutIdentity, LinksAreOwn
<1> QED  BY <1>3, <1>5, <1>6 DEF CatalogInv

------------------------------------------------------------------------------
\* There is always an id for a new contest: every id in use belongs to a test id
\* that has an identity, or whose key is held by the transaction that made the
\* contest, and the test id of w is neither.
LEMMA FreshExists ==
    ASSUME CatalogInv
    PROVE  FreshContest \in ContestId
<1> DEFINE N == Cardinality(TestId)
           owner(t) == IF identity[t] # Null THEN identity[t]
                       ELSE IF rowLock[t] \in Worker THEN sync[rowLock[t]].contest ELSE Null
           f == [t \in TestId |-> owner(t)]
           Owned == {owner(t) : t \in TestId}
           used == contests \cup {sync[v].contest : v \in Worker}
<1>1. IsFiniteSet(TestId) /\ N \in Nat
  BY TestIdsAreFinite, FS_CardinalityType
<1>2. IsFiniteSet(Owned) /\ Cardinality(Owned) <= N /\ Cardinality(Owned) \in Nat
  <2>1. f \in Surjection(TestId, Owned)
    BY DEF Surjection
  <2> HIDE DEF f, Owned
  <2>2. IsFiniteSet(Owned) /\ Cardinality(Owned) <= N
    BY <1>1, <2>1, FS_Surjection
  <2> QED  BY <2>2, FS_CardinalityType
<1>3. IsFiniteSet(ContestId) /\ Cardinality(ContestId) = N + 1
  <2>1. 1 \in Int /\ N + 1 \in Int /\ ~(1 > N + 1) /\ (N + 1) - 1 + 1 = N + 1
    BY <1>1
  <2> HIDE DEF N
  <2> QED  BY <2>1, FS_Interval DEF ContestId, N
<1>4. used \cap ContestId \subseteq Owned
  <2>0. Null \notin ContestId
    BY CatalogConstants, <1>1 DEF ContestId
  <2>1. ASSUME NEW c \in contests, c \in ContestId PROVE c \in Owned
    <3>1. PICK t \in TestId : identity[t] = c
      BY <2>1 DEF CatalogInv, NoContestWithoutIdentity
    <3> QED  BY <2>0, <2>1, <3>1
  <2>2. ASSUME NEW v \in Worker, sync[v].contest \in ContestId PROVE sync[v].contest \in Owned
    <3>1. PICK j \in Sync : j = sync[v]
      BY DEF CatalogInv, Typed
    <3>2. Knows(v, j) /\ j.contest # Null
      BY <2>0, <2>2, <3>1 DEF CatalogInv
    <3>3. j.pc \in Working
      BY <3>2 DEF Knows
    <3>4. PICK t \in TestId : t = Head(j.todo)
      BY <3>2, <3>3, FirstTest DEF Knows
    <3>5. \/ identity[t] = j.contest
          \/ identity[t] = Null /\ rowLock[t] = v
      BY <3>2, <3>3, <3>4 DEF Knows
    <3>6. owner(t) = j.contest
      BY <3>1, <3>2, <3>5
    <3> QED  BY <3>1, <3>6
  <2> QED  BY <2>1, <2>2
<1>5. \E c \in ContestId : c \notin used
  <2> SUFFICES ASSUME ContestId \subseteq used PROVE FALSE
    OBVIOUS
  <2>1. ContestId \subseteq Owned
    BY <1>4
  <2> HIDE DEF Owned, N, used
  <2>2. Cardinality(ContestId) <= Cardinality(Owned)
    BY <1>2, <2>1, FS_Subset
  <2> QED  BY <1>1, <1>2, <1>3, <2>2
<1> QED  BY <1>5 DEF FreshContest

------------------------------------------------------------------------------
\* What the statements do to keys and runs: granting a key, giving up all of
\* them, or neither; inserting a run, giving it an outcome, or neither.
LEMMA Granted ==
    ASSUME CatalogInv, NEW w \in Worker, NEW k \in TestId \cup ContestId, Grant(w, k)
    PROVE  KeysKept(w) /\ rowLock'[k] = w /\ \A i \in TestId : rowLock[i] = w => rowLock'[i] = w
BY DEF CatalogInv, Typed, Grant, KeysKept

\* All of them, at the end of a transaction.
LEMMA Released ==
    ASSUME CatalogInv, NEW w \in Worker, ReleaseKeys(w)
    PROVE  KeysKept(w)
<1>1. rowLock \in [TestId \cup ContestId -> Worker \cup {Free}]
  BY DEF CatalogInv, Typed
<1>2. rowLock' = [k \in TestId \cup ContestId |-> IF rowLock[k] = w THEN Free ELSE rowLock[k]]
  BY <1>1 DEF ReleaseKeys
<1> QED  BY <1>1, <1>2 DEF KeysKept

\* None.
LEMMA SameKeys ==
    ASSUME CatalogInv, NEW w, UNCHANGED rowLock
    PROVE  KeysKept(w)
BY DEF CatalogInv, Typed, KeysKept

\* No run changes.
LEMMA SameRuns ==
    ASSUME CatalogInv, UNCHANGED runs
    PROVE  RunsKept
BY DEF CatalogInv, Typed, RunsKept

\* A run is added at the end.
LEMMA Inserted ==
    ASSUME CatalogInv, NEW w \in Worker, InsertRun(w)
    PROVE  RunsKept /\ Len(runs) + 1 \in DOMAIN runs' /\ Len(runs) + 1 \in Nat
<1> DEFINE run == [outcome |-> "RUNNING", started |-> sync[w].at, evidence |-> <<>>]
<1>1. runs \in Seq(Run) /\ sync[w] \in Sync
  BY DEF CatalogInv, Typed
<1>2. run \in Run
  BY <1>1 DEF Run, Sync
<1>3. runs' = Append(runs, run)
  BY DEF InsertRun
<1> HIDE DEF run
<1>4. /\ Len(runs) \in Nat /\ DOMAIN runs = 1 .. Len(runs)
      /\ runs' \in Seq(Run) /\ DOMAIN runs' = 1 .. Len(runs) + 1
      /\ \A r \in 1 .. Len(runs) : runs'[r] = runs[r]
  BY <1>1, <1>2, <1>3
<1> QED  BY <1>4 DEF RunsKept

\* One run gets an outcome, or its evidence.
LEMMA RunUpdated ==
    ASSUME CatalogInv, NEW r \in DOMAIN runs, NEW run \in Run, runs' = [runs EXCEPT ![r] = run],
           runs[r].outcome = "RUNNING" \/ run.outcome = runs[r].outcome
    PROVE  RunsKept /\ runs'[r] = run
<1>1. runs \in Seq(Run) /\ DOMAIN runs = 1 .. Len(runs) /\ Len(runs) \in Nat
  BY DEF CatalogInv, Typed
<1>2. /\ runs' \in Seq(Run) /\ DOMAIN runs' = DOMAIN runs /\ runs'[r] = run
      /\ \A i \in DOMAIN runs \ {r} : runs'[i] = runs[i]
  BY <1>1
<1> QED  BY <1>1, <1>2 DEF RunsKept

\* finishDiscoveryRun, which only a RUNNING run allows.
LEMMA Finalized ==
    ASSUME CatalogInv, NEW w \in Worker, NEW outcome \in {"SUCCESS", "FAILED"},
           FinalizeRun(w, outcome), sync[w].run \in DOMAIN runs
    PROVE  RunsKept /\ sync[w].run \in DOMAIN runs' /\ runs'[sync[w].run].outcome = outcome
<1>1. PICK r \in DOMAIN runs : r = sync[w].run
  OBVIOUS
<1> DEFINE run == [runs[r] EXCEPT !.outcome = outcome]
<1>2. runs \in Seq(Run) /\ runs[r] \in Run
  BY DEF CatalogInv, Typed
<1>3. run \in Run /\ run.outcome = outcome
  BY <1>2 DEF Run
<1>4. runs' = [runs EXCEPT ![r] = run] /\ runs[r].outcome = "RUNNING"
  BY <1>1, <1>2 DEF FinalizeRun
<1> HIDE DEF run
<1>5. RunsKept /\ runs'[r] = run
  BY <1>3, <1>4, RunUpdated
<1>6. r \in DOMAIN runs'
  BY <1>5 DEF RunsKept
<1> QED  BY <1>1, <1>3, <1>5, <1>6

\* The evidence of a run, which is no part of its outcome.
LEMMA Evidenced ==
    ASSUME CatalogInv, NEW r \in DOMAIN runs, NEW evidence \in Listings,
           runs' = [runs EXCEPT ![r].evidence = evidence]
    PROVE  RunsKept
<1> DEFINE run == [runs[r] EXCEPT !.evidence = evidence]
<1>1. runs[r] \in Run /\ evidence \in Seq(TestId)
  BY CatalogConstants DEF CatalogInv, Typed
<1>2. run \in Run /\ run.outcome = runs[r].outcome
  BY <1>1 DEF Run
<1>3. runs' = [runs EXCEPT ![r] = run]
  OBVIOUS
<1> HIDE DEF run
<1> QED  BY <1>2, <1>3, RunUpdated

\* A recovery, which changes RUNNING runs only.
LEMMA Recovered ==
    ASSUME CatalogInv, NEW r \in DOMAIN runs, RecoverByAge(r)
    PROVE  RunsKept
<1> DEFINE run == [runs[r] EXCEPT !.outcome = "FAILED"]
<1>1. runs[r] \in Run
  BY DEF CatalogInv, Typed
<1>2. run \in Run
  BY <1>1 DEF Run
<1>3. runs' = [runs EXCEPT ![r] = run] /\ runs[r].outcome = "RUNNING"
  BY DEF RecoverByAge
<1> HIDE DEF run
<1> QED  BY <1>2, <1>3, RunUpdated

\* The record of a process is a record, and empty when it is idle.
LEMMA SyncForms ==
    ASSUME CatalogInv, NEW w \in Worker
    PROVE  /\ sync[w] \in Sync /\ Knows(w, sync[w]) /\ Reports(sync[w])
           /\ Idle \in Sync /\ Idle.pc = "idle" /\ Idle.contest = Null /\ ~Idle.created
           /\ Idle.outcome = Null
BY DEF CatalogInv, Typed, Sync, PCs, Idle

------------------------------------------------------------------------------
\* Before the list is there: the process has no transaction.
LEMMA StartSyncKeeps ==
    ASSUME CatalogInv, NEW w \in Worker, StartSync(w)
    PROVE  CatalogInv'
<1> DEFINE j == [Idle EXCEPT !.pc = "lock", !.at = now]
<1>1. /\ j \in Sync /\ j.pc = "lock" /\ j.contest = Null /\ ~j.created /\ j.outcome = Null
  BY SyncForms DEF CatalogInv, Typed, Sync, PCs, Idle
<1>2. sync' = [sync EXCEPT ![w] = j] /\ UNCHANGED <<now, catalog, runs, lock, rowLock>>
  BY DEF StartSync
<1>3. RunsKept /\ KeysKept(w) /\ lock' \in Worker \cup {Free}
  BY <1>2, SameRuns, SameKeys DEF CatalogInv, Typed
<1> HIDE DEF j
<1>4. PICK i \in Sync : i = j
  BY <1>1
<1>5. Knows(w, i)' /\ Reports(i)'
  BY <1>1, <1>4, CatalogConstants DEF Knows, Reports, Working, WithRun
<1> QED  BY <1>2, <1>3, <1>4, <1>5, QuietStep

\* The lock is taken, or somebody else has it.
LEMMA LockKeeps ==
    ASSUME CatalogInv, NEW w \in Worker, AcquireLock(w) \/ LockedByOther(w)
    PROVE  CatalogInv'
<1>1. PICK i \in Sync :
         /\ sync' = [sync EXCEPT ![w] = i]
         /\ i.pc \in {"run", "idle"} /\ i.contest = Null /\ ~i.created /\ i.outcome # "SUCCESS"
  <2>1. CASE AcquireLock(w)
    <3> DEFINE j == [sync[w] EXCEPT !.pc = "run"]
    <3>1. sync[w].contest = Null /\ ~sync[w].created /\ sync[w].outcome # "SUCCESS"
      BY <2>1, SyncForms DEF AcquireLock, At, Knows, Reports, Working
    <3>2. j \in Sync /\ j.pc = "run" /\ j.contest = Null /\ ~j.created /\ j.outcome # "SUCCESS"
      BY <3>1, SyncForms DEF Sync, PCs
    <3>3. sync' = [sync EXCEPT ![w] = j]
      BY <2>1, SyncForms DEF AcquireLock
    <3> QED  BY <3>2, <3>3
  <2>2. CASE LockedByOther(w)
    <3> DEFINE j == [Idle EXCEPT !.outcome = "LOCKED_BY_OTHER"]
    <3>1. j \in Sync /\ j.pc = "idle" /\ j.contest = Null /\ ~j.created /\ j.outcome # "SUCCESS"
      BY SyncForms DEF Sync, PCs, Idle
    <3>2. sync' = [sync EXCEPT ![w] = j]
      BY <2>2 DEF LockedByOther
    <3> QED  BY <3>1, <3>2
  <2> QED  BY <2>1, <2>2
<1>2. UNCHANGED <<now, catalog, runs, rowLock>> /\ lock' \in Worker \cup {Free}
  BY DEF AcquireLock, LockedByOther, CatalogInv, Typed
<1>3. RunsKept /\ KeysKept(w)
  BY <1>2, SameRuns, SameKeys
<1>4. Knows(w, i)' /\ Reports(i)'
  BY <1>1 DEF Knows, Reports, Working, WithRun
<1> QED  BY <1>1, <1>2, <1>3, <1>4, QuietStep

\* The audit row is inserted and its id is known.
LEMMA StartRunKeeps ==
    ASSUME CatalogInv, NEW w \in Worker, StartDiscoveryRun(w)
    PROVE  CatalogInv'
<1>1. PICK i : i = [sync[w] EXCEPT !.pc = "discover", !.at = 0, !.run = Len(runs) + 1]
  OBVIOUS
<1>2. /\ sync' = [sync EXCEPT ![w] = i] /\ UNCHANGED <<now, catalog, lock, rowLock>>
      /\ InsertRun(w) /\ sync[w].pc = "run"
  BY <1>1, SyncForms DEF StartDiscoveryRun, At
<1>3. RunsKept /\ KeysKept(w) /\ lock' \in Worker \cup {Free}
      /\ Len(runs) + 1 \in DOMAIN runs' /\ Len(runs) + 1 \in Nat
  BY <1>2, Inserted, SameKeys DEF CatalogInv, Typed
<1>4. /\ i \in Sync /\ i.pc = "discover" /\ i.contest = Null /\ ~i.created /\ i.run = Len(runs) + 1
      /\ i.outcome # "SUCCESS"
  <2>1. sync[w].contest = Null /\ ~sync[w].created
    BY <1>2, SyncForms DEF Knows, Working
  <2>2. sync[w].outcome # "SUCCESS"
    BY <1>2, SyncForms DEF Reports
  <2> QED  BY <1>1, <1>3, <2>1, <2>2, SyncForms DEF Sync, PCs
<1>5. Knows(w, i)' /\ Reports(i)'
  BY <1>3, <1>4, SyncForms DEF Knows, Reports, Working, WithRun
<1> QED  BY <1>2, <1>3, <1>4, <1>5, QuietStep

\* The source answers, or the request fails.
LEMMA DiscoverKeeps ==
    ASSUME CatalogInv, NEW w \in Worker, Discover(w)
    PROVE  CatalogInv'
<1>1. /\ sync[w].pc = "discover" /\ sync[w].contest = Null
      /\ ~sync[w].created /\ sync[w].outcome # "SUCCESS"
      /\ sync[w] \in Sync /\ sync[w].run \in DOMAIN runs
      /\ UNCHANGED <<now, catalog, lock, rowLock>>
  BY SyncForms DEF Discover, At, Knows, Reports, Working, WithRun
<1>2. PICK i \in Sync :
         /\ sync' = [sync EXCEPT ![w] = i] /\ RunsKept
         /\ i.pc \in {"contest", "fail"} /\ i.contest = Null /\ ~i.created /\ i.outcome # "SUCCESS"
         /\ i.run = sync[w].run
  <2>1. CASE sync' = [sync EXCEPT ![w].pc = "fail"] /\ UNCHANGED runs
    <3> DEFINE j == [sync[w] EXCEPT !.pc = "fail"]
    <3>1. /\ j \in Sync /\ j.pc = "fail" /\ j.contest = Null /\ ~j.created /\ j.outcome # "SUCCESS"
          /\ j.run = sync[w].run
      BY <1>1 DEF Sync, PCs
    <3>2. sync' = [sync EXCEPT ![w] = j]
      BY <2>1, SyncForms
    <3> QED  BY <2>1, <3>1, <3>2, SameRuns
  <2>2. CASE ~(sync' = [sync EXCEPT ![w].pc = "fail"] /\ UNCHANGED runs)
    <3>1. PICK evidence \in Listings :
             /\ sync' = [sync EXCEPT ![w].pc = "contest",
                                     ![w].todo = Selection(evidence, MaxContests)]
             /\ runs' = [runs EXCEPT ![sync[w].run].evidence = evidence]
      BY <2>2 DEF Discover
    <3>2. PICK todo \in Seq(TestId) : todo = Selection(evidence, MaxContests)
      BY SelectionType, CatalogConstants
    <3> DEFINE j == [sync[w] EXCEPT !.pc = "contest", !.todo = todo]
    <3>3. /\ j \in Sync /\ j.pc = "contest" /\ j.contest = Null
          /\ ~j.created /\ j.outcome # "SUCCESS"
          /\ j.run = sync[w].run
      BY <1>1, <3>2 DEF Sync, PCs
    <3>4. sync' = [sync EXCEPT ![w] = j]
      BY <3>1, <3>2, SyncForms
    <3>5. RunsKept
      BY <1>1, <3>1, Evidenced
    <3> QED  BY <3>3, <3>4, <3>5
  <2> QED  BY <2>1, <2>2
<1>3. KeysKept(w) /\ lock' \in Worker \cup {Free}
  BY <1>1, SameKeys DEF CatalogInv, Typed
<1>4. Knows(w, i)' /\ Reports(i)'
  BY <1>1, <1>2 DEF Knows, Reports, Working, WithRun, RunsKept
<1> QED  BY <1>1, <1>2, <1>3, <1>4, QuietStep
------------------------------------------------------------------------------
\* A statement inside the transaction of a contest: it knows what the process
\* knows afterwards, and the report stays open.
LEMMA InsideKeeps ==
    ASSUME CatalogInv, NEW w \in Worker, NEW i \in Sync, sync' = [sync EXCEPT ![w] = i],
           UNCHANGED <<now, catalog, runs, lock>>, KeysKept(w), Knows(w, i)',
           sync[w].pc \in WithRun, i.run = sync[w].run, i.outcome = sync[w].outcome
    PROVE  CatalogInv'
<1>1. RunsKept /\ lock' \in Worker \cup {Free} /\ Reports(sync[w]) /\ runs' = runs
  BY SameRuns, SyncForms DEF CatalogInv, Typed
<1>2. Reports(i)'
  BY <1>1 DEF Reports, WithRun
<1> QED  BY <1>1, <1>2, QuietStep

\* The identity is read: its contest, or none.
LEMMA ReadIdentityKeeps ==
    ASSUME CatalogInv, NEW w \in Worker, ReadIdentity(w)
    PROVE  CatalogInv'
<1>1. /\ sync[w].pc = "contest" /\ sync[w].contest = Null /\ sync[w] \in Sync
      /\ sync[w].todo # <<>> /\ UNCHANGED <<now, catalog, runs, lock, rowLock>>
  BY SyncForms DEF ReadIdentity, At, Knows, Working
<1>2. Test(w) \in TestId /\ identity[Test(w)] \in ContestId \cup {Null}
  BY <1>1, FirstTest DEF CatalogInv, Typed, Test
<1>3. PICK c, seen : /\ c = identity[Test(w)]
                     /\ seen = IF c = Null THEN Null ELSE mapping[c]
  OBVIOUS
<1>4. c \in ContestId \cup {Null} /\ seen \in MappingRow \cup {Null}
  BY <1>2, <1>3 DEF CatalogInv, Typed
<1> DEFINE j == [sync[w] EXCEPT !.pc = "identity", !.contest = c, !.seen = seen]
<1>5. /\ j \in Sync /\ j.pc = "identity" /\ j.contest = c /\ j.run = sync[w].run
      /\ j.outcome = sync[w].outcome /\ j.todo = sync[w].todo /\ j.created = sync[w].created
  BY <1>1, <1>4 DEF Sync, PCs
<1>6. sync' = [sync EXCEPT ![w] = j]
  BY <1>3, SyncForms DEF ReadIdentity
<1> HIDE DEF j
<1>7. PICK i \in Sync : i = j
  BY <1>5
<1>8. ~sync[w].created
  BY <1>1, SyncForms DEF Knows, Working
<1>9. identity' = identity /\ identity[Head(i.todo)] = i.contest
  BY <1>1, <1>3, <1>5, <1>7 DEF catalog, Test
<1>10. Knows(w, i)'
  BY <1>1, <1>5, <1>7, <1>8, <1>9 DEF Knows, Working
<1>11. KeysKept(w)
  BY <1>1, SameKeys
<1> QED  BY <1>1, <1>5, <1>6, <1>7, <1>10, <1>11, InsideKeeps DEF WithRun

\* The key of the test id is granted: the contest is made, or found again.
LEMMA IdentityKeeps ==
    ASSUME CatalogInv, NEW w \in Worker, CreateContest(w) \/ UpdateEvidence(w)
    PROVE  CatalogInv'
<1>1. /\ sync[w].pc = "identity" /\ sync[w] \in Sync /\ Grant(w, Test(w))
      /\ UNCHANGED <<now, catalog, runs, lock>>
      /\ sync[w].todo # <<>> /\ ~sync[w].created
      /\ sync[w].contest # Null => identity[Test(w)] = sync[w].contest
  BY SyncForms DEF CreateContest, UpdateEvidence, At, Knows, Working, Test
<1>2. Test(w) \in TestId
  BY <1>1, FirstTest DEF Test
<1>3. KeysKept(w) /\ rowLock'[Test(w)] = w
  BY <1>1, <1>2, Granted
<1>4. FreshContest \in ContestId /\ Null \notin ContestId
  BY FreshExists, CatalogConstants, FS_CardinalityType, TestIdsAreFinite DEF ContestId
<1>5. PICK i \in Sync :
         /\ sync' = [sync EXCEPT ![w] = i]
         /\ i.pc = "mapping" /\ i.todo = sync[w].todo /\ i.run = sync[w].run
         /\ i.outcome = sync[w].outcome /\ i.contest # Null
         /\ IF i.created THEN identity[Test(w)] = Null ELSE identity[Test(w)] = i.contest
  <2>1. CASE CreateContest(w)
    <3>1. PICK c \in ContestId : c = FreshContest
      BY <1>4
    <3> DEFINE j == [sync[w] EXCEPT !.pc = "mapping", !.contest = c, !.created = TRUE]
    <3>2. /\ j \in Sync /\ j.pc = "mapping" /\ j.todo = sync[w].todo /\ j.run = sync[w].run
          /\ j.outcome = sync[w].outcome /\ j.contest # Null /\ j.created
      BY <1>1, <1>4 DEF Sync, PCs
    <3>3. sync' = [sync EXCEPT ![w] = j] /\ identity[Test(w)] = Null
      BY <2>1, <3>1, SyncForms DEF CreateContest
    <3> HIDE DEF j
    <3> QED  BY <3>2, <3>3
  <2>2. CASE UpdateEvidence(w)
    <3> DEFINE j == [sync[w] EXCEPT !.pc = "mapping"]
    <3>1. /\ j \in Sync /\ j.pc = "mapping" /\ j.todo = sync[w].todo /\ j.run = sync[w].run
          /\ j.outcome = sync[w].outcome /\ j.contest = sync[w].contest
          /\ j.created = sync[w].created
      BY <1>1 DEF Sync, PCs
    <3>2. sync' = [sync EXCEPT ![w] = j] /\ sync[w].contest # Null
      BY <2>2, SyncForms DEF UpdateEvidence, Contest
    <3> HIDE DEF j
    <3> QED  BY <1>1, <3>1, <3>2
  <2> QED  BY <2>1, <2>2
<1>6. PICK t : t = Test(w)
  OBVIOUS
<1>7. identity' = identity /\ rowLock'[t] = w /\ Head(i.todo) = t
  BY <1>1, <1>3, <1>5, <1>6 DEF catalog, Test
<1>8. Knows(w, i)'
  BY <1>1, <1>5, <1>6, <1>7 DEF Knows, Working
<1> QED  BY <1>1, <1>3, <1>5, <1>8, InsideKeeps DEF WithRun

\* The mapping is read, and written or reused.
LEMMA MappingKeeps ==
    ASSUME CatalogInv, NEW w \in Worker,
           ReadMapping(w) \/ InsertMapping(w) \/ LinkMapping(w) \/ ReuseMapping(w)
    PROVE  CatalogInv'
<1>1. /\ sync[w].pc \in {"mapping", "write"} /\ sync[w] \in Sync /\ Knows(w, sync[w])
      /\ UNCHANGED <<now, catalog, runs, lock>>
  BY SyncForms DEF ReadMapping, InsertMapping, LinkMapping, ReuseMapping, At
<1>2. Contest(w) \in ContestId /\ Test(w) \in TestId /\ rowLock[Test(w)] = w
  BY <1>1, FirstTest DEF Knows, Working, Contest, Test, Sync
<1>3. KeysKept(w) /\ rowLock'[Test(w)] = w
  <2>1. CASE UNCHANGED rowLock
    BY <1>2, <2>1, SameKeys
  <2>2. CASE Grant(w, Contest(w))
    BY <1>2, <2>2, Granted
  <2> QED  BY <2>1, <2>2 DEF ReadMapping, InsertMapping, LinkMapping, ReuseMapping
<1>4. PICK i \in Sync :
         /\ sync' = [sync EXCEPT ![w] = i]
         /\ i.pc \in {"write", "commit"} /\ i.todo = sync[w].todo /\ i.run = sync[w].run
         /\ i.outcome = sync[w].outcome /\ i.contest = sync[w].contest
         /\ i.created = sync[w].created
  <2>1. CASE ReadMapping(w)
    <3>1. PICK seen : seen = IF Isolation = "REPEATABLE_READ" \/ sync[w].created
                             THEN sync[w].seen ELSE mapping[Contest(w)]
      OBVIOUS
    <3>2. seen \in MappingRow \cup {Null}
      BY <1>1, <1>2, <3>1 DEF CatalogInv, Typed, Sync
    <3> DEFINE j == [sync[w] EXCEPT !.pc = "write", !.seen = seen]
    <3>3. /\ j \in Sync /\ j.pc = "write" /\ j.todo = sync[w].todo /\ j.run = sync[w].run
          /\ j.outcome = sync[w].outcome /\ j.contest = sync[w].contest
          /\ j.created = sync[w].created
      BY <1>1, <3>2 DEF Sync, PCs
    <3>4. sync' = [sync EXCEPT ![w] = j]
      BY <2>1, <3>1, SyncForms DEF ReadMapping
    <3> HIDE DEF j
    <3> QED  BY <3>3, <3>4
  <2>2. CASE InsertMapping(w) \/ LinkMapping(w) \/ ReuseMapping(w)
    <3> DEFINE j == [sync[w] EXCEPT !.pc = "commit"]
    <3>1. /\ j \in Sync /\ j.pc = "commit" /\ j.todo = sync[w].todo /\ j.run = sync[w].run
          /\ j.outcome = sync[w].outcome /\ j.contest = sync[w].contest
          /\ j.created = sync[w].created
      BY <1>1 DEF Sync, PCs
    <3>2. sync' = [sync EXCEPT ![w] = j]
      BY <2>2, SyncForms DEF InsertMapping, LinkMapping, ReuseMapping
    <3> HIDE DEF j
    <3> QED  BY <3>1, <3>2
  <2> QED  BY <2>1, <2>2
<1>5. PICK t : t = Test(w)
  OBVIOUS
<1>6. identity' = identity /\ rowLock'[t] = w /\ Head(i.todo) = t
  BY <1>1, <1>3, <1>4, <1>5 DEF catalog, Test
<1>7. Knows(w, i)'
  BY <1>1, <1>4, <1>5, <1>6 DEF Knows, Working, Test
<1> QED  BY <1>1, <1>3, <1>4, <1>7, InsideKeeps DEF WithRun

\* The record of a process that goes on to its next contest.
LEMMA NextForms ==
    ASSUME CatalogInv, NEW w \in Worker, InTransaction(w), NEW failed \in BOOLEAN,
           NextContest(w, failed)
    PROVE  \E i \in Sync : /\ sync' = [sync EXCEPT ![w] = i]
                           /\ i.pc = "contest" /\ i.contest = Null /\ ~i.created
                           /\ i.run = sync[w].run /\ i.outcome = sync[w].outcome
<1>1. PICK todo, f : todo = Tail(sync[w].todo) /\ f = (sync[w].failed \/ failed)
  OBVIOUS
<1>2. todo \in Seq(TestId) /\ f \in BOOLEAN /\ sync[w] \in Sync
  <2>1. sync[w] \in Sync /\ sync[w].todo # <<>>
    BY SyncForms DEF InTransaction, Knows, Working
  <2>2. todo \in Seq(TestId)
    BY <1>1, <2>1, FirstTest
  <2> QED  BY <1>1, <2>1, <2>2
<1> DEFINE j == [sync[w] EXCEPT !.pc = "contest", !.todo = todo, !.failed = f, !.contest = Null,
                                !.created = FALSE, !.seen = Null]
<1>3. /\ j \in Sync /\ j.pc = "contest" /\ j.contest = Null /\ ~j.created
      /\ j.run = sync[w].run /\ j.outcome = sync[w].outcome
  BY <1>2 DEF Sync, PCs
<1>4. sync' = [sync EXCEPT ![w] = j]
  BY <1>1, SyncForms DEF NextContest
<1> HIDE DEF j
<1> QED  BY <1>3, <1>4

\* The transaction is rolled back.
LEMMA ContestFailsKeeps ==
    ASSUME CatalogInv, NEW w \in Worker, ContestFails(w)
    PROVE  CatalogInv'
<1>1. InTransaction(w) /\ ReleaseKeys(w) /\ NextContest(w, TRUE)
      /\ UNCHANGED <<now, catalog, runs, lock>>
  BY DEF ContestFails
<1>2. PICK i \in Sync : /\ sync' = [sync EXCEPT ![w] = i]
                        /\ i.pc = "contest" /\ i.contest = Null /\ ~i.created
                        /\ i.run = sync[w].run /\ i.outcome = sync[w].outcome
  BY <1>1, NextForms
<1>3. Knows(w, i)'
  BY <1>2 DEF Knows, Working
<1> QED  BY <1>1, <1>2, <1>3, Released, InsideKeeps DEF InTransaction, WithRun

------------------------------------------------------------------------------
\* The process is done: whatever it reports is what its run records.
LEMMA ResultKeeps ==
    ASSUME CatalogInv, NEW w \in Worker, NEW outcome \in {"SUCCESS", "FAILED"}, Result(w, outcome),
           sync[w].contest = Null, ~sync[w].created, RunsKept,
           UNCHANGED <<now, catalog, lock, rowLock>>,
           outcome = "SUCCESS" => /\ sync[w].run \in DOMAIN runs'
                                  /\ runs'[sync[w].run].outcome = "SUCCESS"
    PROVE  CatalogInv'
<1> DEFINE j == [sync[w] EXCEPT !.pc = "release", !.outcome = outcome]
<1>1. /\ j \in Sync /\ j.pc = "release" /\ j.contest = Null /\ ~j.created /\ j.outcome = outcome
      /\ j.run = sync[w].run
  <2>1. sync[w] \in Sync
    BY SyncForms
  <2> QED  BY <2>1 DEF Sync, PCs
<1>2. sync' = [sync EXCEPT ![w] = j]
  BY SyncForms DEF Result
<1> HIDE DEF j
<1>3. PICK i \in Sync : i = j
  BY <1>1
<1>4. Knows(w, i)' /\ Reports(i)'
  BY <1>1, <1>3 DEF Knows, Reports, Working, WithRun
<1>5. KeysKept(w) /\ lock' \in Worker \cup {Free}
  BY SameKeys DEF CatalogInv, Typed
<1> QED  BY <1>2, <1>3, <1>4, <1>5, QuietStep

\* The run is finalized, or there is none.
LEMMA FinishKeeps ==
    ASSUME CatalogInv, NEW w \in Worker, FinishRun(w) \/ NoRunStarted(w) \/ FailRun(w)
    PROVE  CatalogInv'
<1>1. /\ sync[w].contest = Null /\ ~sync[w].created /\ UNCHANGED <<now, catalog, lock, rowLock>>
      /\ sync[w].run \in DOMAIN runs \/ NoRunStarted(w)
  BY SyncForms DEF FinishRun, Persisted, NoRunStarted, FailRun, At, Knows, Reports, Working, WithRun
<1>2. CASE FinishRun(w)
  <2>1. PICK outcome \in {"SUCCESS", "FAILED"} : outcome = Outcome(w)
    BY DEF Outcome
  <2>2. FinalizeRun(w, outcome) /\ Result(w, outcome) /\ sync[w].run \in DOMAIN runs
    BY <1>2, <2>1, SyncForms DEF FinishRun, Persisted, At, Reports, WithRun
  <2> QED  BY <1>1, <2>2, Finalized, ResultKeeps
<1>3. CASE NoRunStarted(w)
  <2>1. RunsKept /\ Result(w, "FAILED")
    BY <1>3, SameRuns, Inserted DEF NoRunStarted
  <2> QED  BY <1>1, <2>1, ResultKeeps
<1>4. CASE FailRun(w)
  <2>1. RunsKept /\ Result(w, "FAILED")
    BY <1>4, SyncForms, SameRuns, Finalized DEF FailRun, At, Reports, WithRun
  <2> QED  BY <1>1, <2>1, ResultKeeps
<1> QED  BY <1>2, <1>3, <1>4

\* It is not, or the answer is lost: the catch block is next.
LEMMA FinishFailsKeeps ==
    ASSUME CatalogInv, NEW w \in Worker, FinishFails(w)
    PROVE  CatalogInv'
<1> DEFINE j == [sync[w] EXCEPT !.pc = "fail"]
<1>1. /\ sync[w].contest = Null /\ ~sync[w].created /\ sync[w].run \in DOMAIN runs
      /\ sync[w].outcome # "SUCCESS" /\ UNCHANGED <<now, catalog, lock, rowLock>>
  BY SyncForms DEF FinishFails, Persisted, At, Knows, Reports, Working, WithRun
<1>2. /\ j \in Sync /\ j.pc = "fail" /\ j.contest = Null /\ ~j.created /\ j.run = sync[w].run
      /\ j.outcome # "SUCCESS"
  BY <1>1, SyncForms DEF Sync, PCs
<1>3. sync' = [sync EXCEPT ![w] = j]
  BY SyncForms DEF FinishFails
<1> HIDE DEF j
<1>4. RunsKept
  <2>1. PICK outcome \in {"SUCCESS", "FAILED"} : outcome = Outcome(w)
    BY DEF Outcome
  <2>2. FinalizeRun(w, outcome) \/ UNCHANGED runs
    BY <2>1 DEF FinishFails
  <2> QED  BY <1>1, <2>2, SameRuns, Finalized
<1>5. PICK i \in Sync : i = j
  BY <1>2
<1>6. Knows(w, i)' /\ Reports(i)'
  BY <1>1, <1>2, <1>4, <1>5 DEF Knows, Reports, Working, WithRun, RunsKept
<1>7. KeysKept(w) /\ lock' \in Worker \cup {Free}
  BY <1>1, SameKeys DEF CatalogInv, Typed
<1> QED  BY <1>1, <1>3, <1>4, <1>5, <1>6, <1>7, QuietStep

\* The process ends, in order or not.
LEMMA EndKeeps ==
    ASSUME CatalogInv, NEW w \in Worker, Release(w) \/ Crash(w)
    PROVE  CatalogInv'
<1>1. /\ UNCHANGED <<now, catalog, runs>> /\ lock' \in Worker \cup {Free} /\ KeysKept(w)
  BY Released, SameKeys DEF Release, Crash, CatalogInv, Typed
<1>2. PICK i \in Sync : /\ sync' = [sync EXCEPT ![w] = i] /\ i.pc = "idle" /\ i.contest = Null
                        /\ ~i.created
                        /\ i.outcome = "SUCCESS" => /\ sync[w].outcome = "SUCCESS"
                                                    /\ i.run = sync[w].run
  <2>1. CASE Release(w)
    <3>1. PICK outcome \in {sync[w].outcome, "FAILED"} :
             sync' = [sync EXCEPT ![w] = [Idle EXCEPT !.run = sync[w].run, !.outcome = outcome]]
      BY <2>1 DEF Release
    <3> DEFINE j == [Idle EXCEPT !.run = sync[w].run, !.outcome = outcome]
    <3>2. sync[w].run \in Nat \cup {Null}
          /\ outcome \in {Null, "SUCCESS", "FAILED", "LOCKED_BY_OTHER"}
      BY SyncForms DEF Sync
    <3>3. /\ j \in Sync /\ j.pc = "idle" /\ j.contest = Null /\ ~j.created
          /\ j.outcome = outcome /\ j.run = sync[w].run
      BY <3>2, SyncForms DEF Sync, PCs
    <3>4. sync' = [sync EXCEPT ![w] = j]
      BY <3>1
    <3> HIDE DEF j
    <3>5. outcome = "SUCCESS" => sync[w].outcome = "SUCCESS"
      BY <3>1
    <3> QED  BY <3>3, <3>4, <3>5
  <2>2. CASE Crash(w)
    <3>1. sync' = [sync EXCEPT ![w] = Idle] /\ Null # "SUCCESS"
      BY <2>2, CatalogConstants DEF Crash
    <3> QED  BY <3>1, SyncForms
  <2> QED  BY <2>1, <2>2
<1>3. Knows(w, i)' /\ Reports(i)'
  BY <1>1, <1>2, SyncForms DEF Knows, Reports, Working, WithRun
<1> QED  BY <1>1, <1>2, <1>3, SameRuns, QuietStep
------------------------------------------------------------------------------
\* COMMIT: the identity and the mapping become visible, with their contest.
LEMMA PublishKeeps ==
    ASSUME CatalogInv, NEW w \in Worker, PublishContest(w), NEW failed \in BOOLEAN,
           NextContest(w, failed)
    PROVE  CatalogInv'
<1>0. PICK c, t, row : c = Contest(w) /\ t = Test(w) /\ row = WrittenMapping(w)
  OBVIOUS
<1>1. /\ sync[w] \in Sync /\ sync[w].pc = "commit" /\ t \in TestId /\ c \in ContestId
      /\ rowLock[t] = w
      /\ IF sync[w].created THEN identity[t] = Null ELSE identity[t] = c
  <2>1. sync[w] \in Sync /\ sync[w].pc = "commit" /\ Knows(w, sync[w])
    BY SyncForms DEF PublishContest, At
  <2>2. sync[w].contest \in ContestId /\ sync[w].todo # <<>>
    BY <2>1 DEF Knows, Working, Sync
  <2> QED  BY <1>0, <2>1, <2>2, FirstTest DEF Knows, Working, Contest, Test
<1>2. /\ contests' = contests \cup {c} /\ identity' = [identity EXCEPT ![t] = c]
      /\ mapping' = [mapping EXCEPT ![c] = row]
      /\ ReleaseKeys(w) /\ now' = now /\ runs' = runs /\ lock' = lock
  BY <1>0 DEF PublishContest
<1>3. PICK i \in Sync : /\ sync' = [sync EXCEPT ![w] = i]
                        /\ i.pc = "contest" /\ i.contest = Null /\ ~i.created
                        /\ i.run = sync[w].run /\ i.outcome = sync[w].outcome
  BY <1>1, NextForms DEF InTransaction
<1>4. RunsKept /\ KeysKept(w) /\ IdentitiesKept(w)
  <2>1. IdentitiesKept(w)
    BY <1>1, <1>2 DEF IdentitiesKept, CatalogInv, Typed
  <2> QED  BY <1>2, <2>1, SameRuns, Released
<1>5. /\ sync' \in [Worker -> Sync] /\ sync'[w] = i /\ \A v \in Worker \ {w} : sync'[v] = sync[v]
  BY <1>3 DEF CatalogInv, Typed
<1>6. Null \notin ContestId
  BY CatalogConstants, FS_CardinalityType, TestIdsAreFinite DEF ContestId
<1>11. /\ row \in MappingRow
       /\ \/ mapping[c] # Null /\ mapping[c].identity # Null /\ row.identity = mapping[c].identity
          \/ (mapping[c] = Null \/ mapping[c].identity = Null) /\ row.identity = t
  <2>1. mapping[c] \in MappingRow \cup {Null}
    BY <1>1 DEF CatalogInv, Typed
  <2> QED  BY <1>0, <1>1, <2>1 DEF WrittenMapping, MappingRow
<1>7. Typed'
  <2>1. contests' \subseteq ContestId /\ identity' \in [TestId -> contests' \cup {Null}]
    BY <1>1, <1>2 DEF CatalogInv, Typed
  <2>2. mapping' \in [ContestId -> MappingRow \cup {Null}]
    BY <1>1, <1>2, <1>11 DEF CatalogInv, Typed
  <2> QED  BY <1>2, <1>4, <1>5, <2>1, <2>2 DEF CatalogInv, Typed, RunsKept, KeysKept
<1>8. ASSUME NEW v \in Worker PROVE Knows(v, sync[v])' /\ Reports(sync[v])'
  <2>1. CASE v = w
    <3>1. Knows(w, i)' /\ Reports(i)'
      BY <1>1, <1>2, <1>3, SyncForms DEF Knows, Reports, Working, WithRun
    <3> QED  BY <1>5, <2>1, <3>1
  <2>2. CASE v # w
    BY <1>4, <1>5, <2>2, OthersKept
  <2> QED  BY <2>1, <2>2
<1>9. NoContestWithoutIdentity'
  <2> SUFFICES ASSUME NEW d \in contests' PROVE \E u \in TestId : identity'[u] = d
    BY DEF NoContestWithoutIdentity
  <2>1. CASE d = c
    BY <1>1, <1>2, <2>1 DEF CatalogInv, Typed
  <2>2. CASE d # c
    <3>1. PICK u \in TestId : identity[u] = d
      BY <1>2, <2>2 DEF CatalogInv, NoContestWithoutIdentity
    <3>2. d # Null
      <4>1. d \in contests /\ contests \subseteq ContestId
        BY <1>2, <2>2 DEF CatalogInv, Typed
      <4> QED  BY <1>6, <4>1
    <3>3. u # t
      BY <1>1, <2>2, <3>1, <3>2
    <3> QED  BY <1>2, <3>1, <3>3 DEF CatalogInv, Typed
  <2> QED  BY <2>1, <2>2
<1>10. LinksAreOwn'
  <2> SUFFICES ASSUME NEW d \in ContestId, mapping'[d] # Null, mapping'[d].identity # Null
               PROVE  identity'[mapping'[d].identity] = d
    BY DEF LinksAreOwn
  <2>1. mapping'[d] = (IF d = c THEN row ELSE mapping[d])
    BY <1>2 DEF CatalogInv, Typed
  <2>2. \A u \in TestId : identity'[u] = (IF u = t THEN c ELSE identity[u])
    BY <1>2 DEF CatalogInv, Typed
  <2>3. CASE d = c /\ mapping'[d].identity = t
    BY <1>1, <2>2, <2>3
  <2>4. CASE ~(d = c /\ mapping'[d].identity = t)
    <3>1. mapping[d] # Null /\ mapping[d].identity # Null
          /\ mapping'[d].identity = mapping[d].identity
      BY <1>11, <2>1, <2>4
    <3>2. mapping[d].identity \in TestId /\ identity[mapping[d].identity] = d
      BY <3>1 DEF CatalogInv, Typed, MappingRow, LinksAreOwn
    <3>3. mapping[d].identity = t => d = c
      BY <1>1, <1>6, <3>2
    <3> QED  BY <2>2, <2>4, <3>1, <3>2, <3>3
  <2> QED  BY <2>3, <2>4
<1> QED  BY <1>7, <1>8, <1>9, <1>10 DEF CatalogInv

\* Time, a broken session, a recovery and an operator leave the processes alone.
LEMMA OutsideKeeps ==
    ASSUME CatalogInv,
           \/ Tick \/ LoseSession
           \/ \E c \in ContestId : EnableMapping(c)
           \/ \E r \in DOMAIN runs : RecoverByAge(r)
    PROVE  CatalogInv'
<1>1. /\ contests' = contests /\ identity' = identity /\ sync' = sync /\ rowLock' = rowLock
      /\ now' \in Nat /\ lock' \in Worker \cup {Free}
  BY DEF Tick, LoseSession, EnableMapping, RecoverByAge, catalog, CatalogInv, Typed
<1>2. /\ mapping' \in [ContestId -> MappingRow \cup {Null}]
      /\ \A c \in ContestId : mapping'[c] # mapping[c] =>
            mapping[c] # Null /\ mapping'[c].identity = mapping[c].identity
  <2>0. mapping \in [ContestId -> MappingRow \cup {Null}]
    BY DEF CatalogInv, Typed
  <2>1. CASE \E c \in ContestId : EnableMapping(c)
    <3>1. PICK c \in ContestId : EnableMapping(c)
      BY <2>1
    <3> DEFINE row == [mapping[c] EXCEPT !.enabled = TRUE]
    <3>2. mapping[c] \in MappingRow /\ mapping[c] # Null
      BY <2>0, <3>1 DEF EnableMapping
    <3>3. row \in MappingRow /\ row.identity = mapping[c].identity
      BY <3>2 DEF MappingRow
    <3>4. mapping' = [mapping EXCEPT ![c] = row]
      BY <2>0, <3>1 DEF EnableMapping
    <3> HIDE DEF row
    <3> QED  BY <2>0, <3>2, <3>3, <3>4
  <2>2. CASE mapping' = mapping
    BY <2>0, <2>2
  <2> QED  BY <2>1, <2>2 DEF Tick, LoseSession, RecoverByAge, catalog
<1>3. RunsKept
  <2>1. CASE \E r \in DOMAIN runs : RecoverByAge(r)
    BY <2>1, Recovered
  <2>2. CASE runs' = runs
    BY <2>2, SameRuns
  <2> QED  BY <2>1, <2>2 DEF Tick, LoseSession, EnableMapping
<1>4. KeysKept(Free) /\ IdentitiesKept(Free)
  BY <1>1, SameKeys DEF IdentitiesKept
<1>5. \A v \in Worker : Knows(v, sync[v])' /\ Reports(sync[v])'
  BY <1>1, <1>3, <1>4, OthersKept, CatalogConstants
<1>6. Typed'
  BY <1>1, <1>2, <1>3 DEF CatalogInv, Typed, RunsKept
<1>7. NoContestWithoutIdentity' /\ LinksAreOwn'
  <2>1. NoContestWithoutIdentity'
    BY <1>1 DEF CatalogInv, NoContestWithoutIdentity
  <2>2. LinksAreOwn'
    BY <1>1, <1>2 DEF CatalogInv, LinksAreOwn
  <2> QED  BY <2>1, <2>2
<1> QED  BY <1>5, <1>6, <1>7 DEF CatalogInv

\* What an administrator may have entered before satisfies the invariant.
LEMMA InitCatalog == CatalogInit => CatalogInv
<1> SUFFICES ASSUME CatalogInit PROVE CatalogInv
  OBVIOUS
<1>1. 1 \in ContestId /\ Null \notin ContestId
  <2>1. Cardinality(TestId) \in Nat
    BY FS_CardinalityType, TestIdsAreFinite
  <2> QED  BY <2>1, CatalogConstants DEF ContestId
<1>2. \A t \in TestId : identity[t] \in {1, Null}
  BY DEF CatalogInit
<1>3. contests \subseteq {1} /\ contests = {identity[t] : t \in TestId} \ {Null}
  BY <1>2 DEF CatalogInit
<1>4. PICK row \in MappingRow \cup {Null} :
         /\ row # Null /\ row.identity # Null => identity[row.identity] = 1
         /\ mapping = [c \in ContestId |-> IF c = 1 THEN row ELSE Null]
  BY DEF CatalogInit
<1>5. Idle \in Sync /\ Idle.pc = "idle" /\ Idle.contest = Null /\ ~Idle.created
      /\ Idle.outcome = Null
  <2>1. <<>> \in Seq(TestId)
    OBVIOUS
  <2> QED  BY <2>1 DEF Idle, Sync, PCs
<1>6. sync = [w \in Worker |-> Idle]
  BY DEF CatalogInit
<1> HIDE DEF Idle
<1>7. Typed
  <2>1. /\ now \in Nat /\ lock \in Worker \cup {Free} /\ runs \in Seq(Run)
        /\ rowLock \in [TestId \cup ContestId -> Worker \cup {Free}]
    BY DEF CatalogInit
  <2>2. identity \in [TestId -> contests \cup {Null}]
    BY <1>3 DEF CatalogInit
  <2>3. mapping \in [ContestId -> MappingRow \cup {Null}] /\ contests \subseteq ContestId
    BY <1>1, <1>3, <1>4
  <2>4. sync \in [Worker -> Sync]
    BY <1>5, <1>6
  <2> QED  BY <2>1, <2>2, <2>3, <2>4 DEF Typed
<1>8. \A w \in Worker : Knows(w, sync[w]) /\ Reports(sync[w])
  BY <1>5, <1>6, CatalogConstants DEF Knows, Reports, Working, WithRun
<1>9. NoContestWithoutIdentity
  BY <1>3 DEF NoContestWithoutIdentity
<1>10. LinksAreOwn
  BY <1>4 DEF LinksAreOwn
<1> QED  BY <1>7, <1>8, <1>9, <1>10 DEF CatalogInv

\* Every step of a process, an operator, a recovery and every fault keeps it.
LEMMA NextCatalog == CatalogInv /\ [CatalogNext]_catalogVars => CatalogInv'
<1> SUFFICES ASSUME CatalogInv, [CatalogNext]_catalogVars PROVE CatalogInv'
  OBVIOUS
<1>1. ASSUME NEW w \in Worker, StartSync(w) \/ SyncStep(w) \/ Crash(w) PROVE CatalogInv'
  <2>1. CASE CommitContest(w) \/ CommitAnswerLost(w)
    BY <2>1, PublishKeeps DEF CommitContest, CommitAnswerLost
  <2>2. CASE ~(CommitContest(w) \/ CommitAnswerLost(w))
    BY <1>1, <2>2, StartSyncKeeps, LockKeeps, StartRunKeeps, DiscoverKeeps, ReadIdentityKeeps,
       IdentityKeeps, MappingKeeps, ContestFailsKeeps, FinishKeeps, FinishFailsKeeps, EndKeeps
    DEF SyncStep
  <2> QED  BY <2>1, <2>2
<1>2. CASE UNCHANGED catalogVars
  <2>1. /\ now' = now /\ contests' = contests /\ identity' = identity /\ mapping' = mapping
        /\ runs' = runs /\ lock' = lock /\ rowLock' = rowLock /\ sync' = sync
    BY <1>2 DEF catalogVars, catalog
  <2> QED  BY <2>1 DEF CatalogInv, Typed, Knows, Reports, NoContestWithoutIdentity, LinksAreOwn
<1> QED  BY <1>1, <1>2, OutsideKeeps DEF CatalogNext

------------------------------------------------------------------------------
\* What every step does to the runs, for the audit.
LEMMA StepKeepsRuns == CatalogInv /\ [CatalogNext]_catalogVars => RunsKept
<1> SUFFICES ASSUME CatalogInv, [CatalogNext]_catalogVars PROVE RunsKept
  OBVIOUS
<1>1. CASE runs' = runs
  BY <1>1, SameRuns
<1>2. ASSUME runs' # runs, NEW w \in Worker, StartSync(w) \/ SyncStep(w) \/ Crash(w)
      PROVE  RunsKept
  <2>0. Discover(w) \/ Persisted(w) \/ At(w, "fail") => sync[w].run \in DOMAIN runs
    BY SyncForms DEF Discover, Persisted, At, Reports, WithRun
  <2>1. \/ Discover(w) \/ InsertRun(w)
        \/ FinishRun(w) \/ FinishFails(w) \/ FailRun(w)
    BY <1>2 DEF StartSync, SyncStep, AcquireLock, LockedByOther, StartDiscoveryRun, ReadIdentity,
                CreateContest, UpdateEvidence, ReadMapping, InsertMapping, LinkMapping,
                ReuseMapping, CommitContest, CommitAnswerLost, PublishContest, ContestFails,
                NoRunStarted, Release, Crash
  <2>2. CASE Discover(w)
    BY <1>2, <2>0, <2>2, Evidenced DEF Discover
  <2>3. CASE InsertRun(w)
    BY <2>3, Inserted
  <2>4. CASE FinishRun(w) \/ FinishFails(w) \/ FailRun(w)
    <3>1. PICK outcome \in {"SUCCESS", "FAILED"} : FinalizeRun(w, outcome)
      BY <1>2, <2>4 DEF FinishRun, FinishFails, FailRun, Outcome
    <3>2. sync[w].run \in DOMAIN runs
      BY <2>0, <2>4 DEF FinishRun, FinishFails, FailRun
    <3> QED  BY <3>1, <3>2, Finalized
  <2> QED  BY <2>1, <2>2, <2>3, <2>4
<1>3. CASE \E r \in DOMAIN runs : RecoverByAge(r)
  BY <1>3, Recovered
<1> QED  BY <1>1, <1>2, <1>3 DEF CatalogNext, Tick, LoseSession, EnableMapping, catalogVars

\* What every step does to a mapping: a process creates it disabled or links it
\* where there is no link, an operator enables it.
LEMMA StepKeepsMappings ==
    ASSUME CatalogInv, [CatalogNext]_catalogVars, NEW c \in ContestId
    PROVE  /\ mapping[c] # Null /\ mapping[c].identity # Null =>
                 mapping'[c] # Null /\ mapping'[c].identity = mapping[c].identity
           /\ sync' # sync /\ mapping'[c] # mapping[c] =>
                 mapping'[c].enabled = (mapping[c] # Null /\ mapping[c].enabled)
<1>0. /\ mapping \in [ContestId -> MappingRow \cup {Null}]
      /\ Null \notin MappingRow
  BY NullIsNoRow DEF CatalogInv, Typed
<1>1. CASE mapping'[c] = mapping[c]
  BY <1>1
<1>2. ASSUME mapping'[c] # mapping[c], NEW d \in ContestId, EnableMapping(d)
      PROVE  sync' = sync /\ mapping'[c] # Null /\ mapping'[c].identity = mapping[c].identity
  <2>1. c = d /\ sync' = sync /\ mapping[c] \in MappingRow
    BY <1>0, <1>2 DEF EnableMapping
  <2>2. mapping'[c] = [mapping[c] EXCEPT !.enabled = TRUE]
    BY <1>0, <1>2, <2>1 DEF EnableMapping
  <2>3. mapping'[c] \in MappingRow /\ mapping'[c].identity = mapping[c].identity
    BY <2>1, <2>2 DEF MappingRow
  <2> QED  BY <1>0, <2>1, <2>3
<1>3. ASSUME mapping'[c] # mapping[c], NEW w \in Worker, PublishContest(w)
      PROVE  /\ mapping[c] = Null \/ mapping[c].identity = Null
             /\ mapping'[c].enabled = (mapping[c] # Null /\ mapping[c].enabled)
  <2>1. c = Contest(w) /\ mapping'[c] = WrittenMapping(w)
    BY <1>0, <1>3 DEF PublishContest
  <2>2. CASE mapping[c] = Null
    <3>1. mapping'[c].enabled = FALSE
      BY <2>1, <2>2 DEF WrittenMapping
    <3> QED  BY <2>2, <3>1
  <2>3. CASE mapping[c] # Null
    <3>1. mapping[c] \in MappingRow /\ mapping[c].identity = Null
      BY <1>0, <1>3, <2>1, <2>3 DEF WrittenMapping
    <3>2. mapping'[c].enabled = mapping[c].enabled
      BY <2>1, <3>1, <2>3 DEF WrittenMapping, MappingRow
    <3> QED  BY <2>3, <3>1, <3>2 DEF MappingRow
  <2> QED  BY <2>2, <2>3
<1>4. \/ mapping' = mapping
      \/ \E d \in ContestId : EnableMapping(d)
      \/ \E w \in Worker : PublishContest(w)
  BY DEF CatalogNext, Tick, LoseSession, RecoverByAge, StartSync, SyncStep, AcquireLock,
         LockedByOther, StartDiscoveryRun, Discover, ReadIdentity, CreateContest, UpdateEvidence,
         ReadMapping, InsertMapping, LinkMapping, ReuseMapping, CommitContest, CommitAnswerLost,
         ContestFails, FinishRun, FinishFails, NoRunStarted, FailRun, Release, Crash,
         catalogVars, catalog
<1> QED  BY <1>1, <1>2, <1>3, <1>4
------------------------------------------------------------------------------
\* The invariant of catalog synchronization, under every fault.
THEOREM SpecCatalog == CatalogSpec => []CatalogInv
BY InitCatalog, NextCatalog, PTL DEF CatalogSpec

\* The catalog keeps its types, there is always an id for a new contest, and a
\* process that has discovered owns a run.
THEOREM CatalogTypes == CatalogSpec => []CatalogTypeOK
<1>1. CatalogInv => CatalogTypeOK
  BY DEF CatalogInv, Typed, Reports, WithRun, Run, CatalogTypeOK
<1> QED  BY <1>1, SpecCatalog, PTL

\* No contest is ever left without the identity it was made for, whatever fails
\* and however many processes synchronize, the discovery lock lost or not.
THEOREM ContestsHaveIdentities == CatalogSpec => []NoContestWithoutIdentity
<1>1. CatalogInv => NoContestWithoutIdentity
  BY DEF CatalogInv
<1> QED  BY <1>1, SpecCatalog, PTL

\* A process reports SUCCESS only of a run that is recorded SUCCESS.
THEOREM ReportsAreRecorded == CatalogSpec => []ReportedSuccessIsRecorded
<1>1. CatalogInv => ReportedSuccessIsRecorded
  BY DEF CatalogInv, Reports, ReportedSuccessIsRecorded
<1> QED  BY <1>1, SpecCatalog, PTL

\* The outcome of a discovery run is decided once.
THEOREM AuditsAreFinal == CatalogSpec => AuditIsFinal
<1>1. CatalogInv /\ [CatalogNext]_catalogVars =>
         [\A r \in DOMAIN runs :
             runs[r].outcome # "RUNNING" => runs'[r].outcome = runs[r].outcome]_catalogVars
  BY StepKeepsRuns DEF RunsKept
<1> QED  BY <1>1, SpecCatalog, PTL DEF CatalogSpec, AuditIsFinal

\* No synchronization changes whether a mapping that exists is enabled, and none
\* enables the mappings it makes.
THEOREM OperatorsOwnEnabled == CatalogSpec => OperatorOwnsEnabled
<1>1. CatalogInv /\ [CatalogNext]_catalogVars =>
         [\A c \in ContestId : sync' # sync /\ mapping'[c] # mapping[c] =>
             mapping'[c].enabled = (mapping[c] # Null /\ mapping[c].enabled)]_catalogVars
  BY StepKeepsMappings
<1> QED  BY <1>1, SpecCatalog, PTL DEF CatalogSpec, OperatorOwnsEnabled

\* The link of a mapping to an identity is never moved, and always names an
\* identity of the mapping's own contest.
THEOREM LinksAreKept == CatalogSpec => LinksAreRepairedOnly
<1>1. CatalogInv /\ CatalogInv' /\ [CatalogNext]_catalogVars =>
         [\A c \in ContestId : mapping[c] # Null /\ mapping[c].identity # Null =>
             /\ mapping'[c].identity = mapping[c].identity
             /\ identity'[mapping[c].identity] = c]_catalogVars
  <2> SUFFICES ASSUME CatalogInv, CatalogInv', [CatalogNext]_catalogVars, NEW c \in ContestId,
                      mapping[c] # Null, mapping[c].identity # Null
               PROVE  /\ mapping'[c].identity = mapping[c].identity
                      /\ identity'[mapping[c].identity] = c
    OBVIOUS
  <2>1. mapping'[c] # Null /\ mapping'[c].identity = mapping[c].identity
    BY StepKeepsMappings
  <2> QED  BY <2>1 DEF CatalogInv, LinksAreOwn
<1> QED  BY <1>1, SpecCatalog, PTL DEF CatalogSpec, LinksAreRepairedOnly
------------------------------------------------------------------------------
(***************************************************************************)
(* What a run recorded SUCCESS has done.  CatalogInv does not say it: a    *)
(* process that lists contests needs a run nobody else finishes (OwnRuns)  *)
(* and has done, unless it failed, whatever is not on its list any more    *)
(* (Progresses); that the list was everything at the start is              *)
(* SelectionIsListed.                                                      *)
(***************************************************************************)
Listing == {"discover", "contest", "identity", "mapping", "write", "commit"}

\* The test id has an identity, and its contest a mapping.
Done(t) == identity[t] # Null /\ mapping[identity[t]] # Null

\* The process of record j has not finished its run, and unless it failed at a
\* contest, whatever the limit lets through and is not on its list is done.
Progresses(j) ==
    j.pc \in Listing =>
        /\ runs[j.run].outcome # "SUCCESS"
        /\ j.pc # "discover" /\ ~j.failed =>
              \A t \in Listed(runs[j.run].evidence, MaxContests) : t \in ToSet(j.todo) \/ Done(t)

OwnRuns ==
    \A v, w \in Worker :
        v # w /\ sync[v].pc \in Listing /\ sync[w].pc \in Listing => sync[v].run # sync[w].run

SuccessInv ==
    /\ \A w \in Worker : Progresses(sync[w])
    /\ OwnRuns
    /\ SuccessIsCatalogued

\* What a step of w may do to the runs: add one that is not recorded SUCCESS,
\* leave one as it was or not make it a SUCCESS, or change its own, and make it
\* a SUCCESS only when everything is done.
RunsStep(w) ==
    \A r \in DOMAIN runs' :
        \/ r \notin DOMAIN runs /\ runs'[r].outcome # "SUCCESS"
        \/ /\ r \in DOMAIN runs /\ runs'[r].evidence = runs[r].evidence
           /\ runs'[r].outcome = "SUCCESS" => runs[r].outcome = "SUCCESS"
        \/ /\ r \in DOMAIN runs /\ w \in Worker /\ sync[w].pc \in Listing /\ r = sync[w].run
           /\ runs'[r].outcome = "SUCCESS" =>
                 \A t \in Listed(runs'[r].evidence, MaxContests) : Done(t)

\* A catalogued test id stays catalogued, whatever the step.
LEMMA DoneStays ==
    ASSUME CatalogInv, [CatalogNext]_catalogVars, NEW t \in TestId, Done(t)
    PROVE  Done(t)'
<1>0. /\ mapping \in [ContestId -> MappingRow \cup {Null}] /\ Null \notin MappingRow
      /\ identity \in [TestId -> contests \cup {Null}] /\ contests \subseteq ContestId
  BY NullIsNoRow DEF CatalogInv, Typed
<1>1. PICK c \in ContestId : c = identity[t] /\ mapping[c] # Null
  BY <1>0 DEF Done
<1>2. CASE identity' = identity /\ mapping' = mapping
  BY <1>2 DEF Done
<1>3. ASSUME NEW d \in ContestId, EnableMapping(d) PROVE Done(t)'
  <2>1. identity' = identity /\ mapping' = [mapping EXCEPT ![d].enabled = TRUE]
        /\ mapping[d] \in MappingRow
    BY <1>0, <1>3 DEF EnableMapping
  <2>2. [mapping[d] EXCEPT !.enabled = TRUE] \in MappingRow
    BY <2>1 DEF MappingRow
  <2>3. mapping'[c] # Null
    BY <1>0, <1>1, <2>1, <2>2
  <2> QED  BY <1>1, <2>1, <2>3 DEF Done
<1>4. ASSUME NEW w \in Worker, PublishContest(w) PROVE Done(t)'
  <2>1. PICK u, d : u = Test(w) /\ d = Contest(w)
    OBVIOUS
  <2>2. u \in TestId /\ d \in ContestId /\ identity[u] \in {Null, d}
    <3>1. sync[w] \in Sync /\ sync[w].pc = "commit" /\ Knows(w, sync[w])
      BY <1>4, SyncForms DEF PublishContest, At
    <3>2. sync[w].contest \in ContestId /\ sync[w].todo # <<>>
      BY <3>1 DEF Knows, Working, Sync
    <3> QED  BY <2>1, <3>1, <3>2, FirstTest DEF Knows, Working, Contest, Test
  <2>3. identity' = [identity EXCEPT ![u] = d]
        /\ mapping' = [mapping EXCEPT ![d] = WrittenMapping(w)]
    BY <1>4, <2>1 DEF PublishContest
  <2>4. identity'[t] = c
    BY <1>0, <1>1, <2>2, <2>3, CatalogConstants
  <2>5. WrittenMapping(w) \in MappingRow
    BY <1>0, <2>1, <2>2 DEF WrittenMapping, MappingRow
  <2>6. mapping'[c] # Null
    BY <1>0, <1>1, <2>2, <2>3, <2>5
  <2> QED  BY <1>0, <1>1, <2>4, <2>6 DEF Done
<1>5. \/ identity' = identity /\ mapping' = mapping
      \/ \E d \in ContestId : EnableMapping(d)
      \/ \E w \in Worker : PublishContest(w)
  BY DEF CatalogNext, Tick, LoseSession, RecoverByAge, StartSync, SyncStep, AcquireLock,
         LockedByOther, StartDiscoveryRun, Discover, ReadIdentity, CreateContest, UpdateEvidence,
         ReadMapping, InsertMapping, LinkMapping, ReuseMapping, CommitContest, CommitAnswerLost,
         ContestFails, FinishRun, FinishFails, NoRunStarted, FailRun, Release, Crash,
         catalogVars, catalog
<1> QED  BY <1>2, <1>3, <1>4, <1>5

\* What the limit lets through is a set of test ids.
LEMMA ListedType ==
    ASSUME NEW evidence \in Seq(TestId), NEW t \in Listed(evidence, MaxContests)
    PROVE  t \in TestId
BY DEF Listed, ToSet

\* The runs that were recorded SUCCESS stay catalogued.
LEMMA SuccessesStay ==
    ASSUME CatalogInv, CatalogInv', [CatalogNext]_catalogVars, SuccessInv, NEW w, RunsStep(w)
    PROVE  SuccessIsCatalogued'
<1> SUFFICES ASSUME NEW r \in DOMAIN runs', runs'[r].outcome = "SUCCESS",
                    NEW t \in Listed(runs'[r].evidence, MaxContests)
             PROVE  Done(t)'
  BY DEF SuccessIsCatalogued, Done
<1>1. runs' \in Seq(Run) /\ t \in TestId
  <2>1. runs' \in Seq(Run)
    BY DEF CatalogInv, Typed
  <2>2. runs'[r] \in Run
    BY <2>1
  <2>3. runs'[r].evidence \in Seq(TestId)
    BY <2>2 DEF Run
  <2> QED  BY <2>1, <2>3, ListedType
<1>2. Done(t)
  BY DEF RunsStep, SuccessInv, SuccessIsCatalogued, Done
<1> QED  BY <1>1, <1>2, DoneStays

\* A step of w does not undo the progress of v.
LEMMA OthersProgress ==
    ASSUME CatalogInv, CatalogInv', [CatalogNext]_catalogVars, SuccessInv, NEW w, RunsStep(w),
           NEW v \in Worker, v # w, sync'[v] = sync[v]
    PROVE  Progresses(sync[v])'
<1>1. PICK j \in Sync : j = sync[v]
  BY SyncForms
<1>2. SUFFICES ASSUME j.pc \in Listing PROVE Progresses(j)'
  BY <1>1 DEF Progresses
<1>3. Progresses(j) /\ j.run \in DOMAIN runs /\ runs \in Seq(Run)
  BY <1>1, <1>2, SyncForms DEF SuccessInv, Reports, WithRun, Listing, CatalogInv, Typed
<1>4. PICK r \in DOMAIN runs : r = j.run
  BY <1>3
<1>5. r \in DOMAIN runs'
  BY StepKeepsRuns DEF RunsKept
<1>6. ~(w \in Worker /\ sync[w].pc \in Listing /\ r = sync[w].run)
  BY <1>1, <1>2, <1>4 DEF SuccessInv, OwnRuns
<1>7. /\ runs'[r].evidence = runs[r].evidence
      /\ runs'[r].outcome = "SUCCESS" => runs[r].outcome = "SUCCESS"
  BY <1>5, <1>6 DEF RunsStep
<1>8. runs'[r].outcome # "SUCCESS"
  BY <1>2, <1>3, <1>4, <1>7 DEF Progresses
<1>9. ASSUME j.pc # "discover", ~j.failed, NEW t \in Listed(runs[r].evidence, MaxContests)
      PROVE  t \in ToSet(j.todo) \/ Done(t)'
  <2>0. runs[r] \in Run
    BY <1>3
  <2>1. runs[r].evidence \in Seq(TestId)
    BY <2>0 DEF Run
  <2>2. t \in TestId
    BY <2>1, ListedType
  <2> QED  BY <1>2, <1>3, <1>4, <1>9, <2>2, DoneStays DEF Progresses
<1> QED  BY <1>4, <1>7, <1>8, <1>9 DEF Progresses

\* A step of w, which changes the record of w only.
LEMMA ProgressStep ==
    ASSUME CatalogInv, CatalogInv', [CatalogNext]_catalogVars, SuccessInv,
           NEW w \in Worker, \A v \in Worker \ {w} : sync'[v] = sync[v], RunsStep(w),
           Progresses(sync[w])',
           sync'[w].pc \in Listing => \/ sync[w].pc \in Listing /\ sync'[w].run = sync[w].run
                                      \/ sync'[w].run \notin DOMAIN runs
    PROVE  SuccessInv'
<1>1. \A v \in Worker : Progresses(sync[v])'
  BY OthersProgress
<1>2. \A v \in Worker : sync[v].pc \in Listing => sync[v].run \in DOMAIN runs
  BY SyncForms DEF Reports, WithRun, Listing
<1>3. OwnRuns'
  BY <1>2 DEF SuccessInv, OwnRuns
<1> QED  BY <1>1, <1>3, SuccessesStay DEF SuccessInv
------------------------------------------------------------------------------
\* Runs that do not change, and one that is not a SUCCESS and is added.
LEMMA SameRunsStep ==
    ASSUME NEW w, UNCHANGED runs
    PROVE  RunsStep(w)
BY DEF RunsStep

\* The INSERT of a run adds it as RUNNING, at an id that no run had.
LEMMA InsertedStep ==
    ASSUME CatalogInv, NEW w \in Worker, InsertRun(w)
    PROVE  /\ RunsStep(w) /\ Len(runs) + 1 \notin DOMAIN runs
           /\ runs'[Len(runs) + 1].outcome = "RUNNING"
<1> DEFINE run == [outcome |-> "RUNNING", started |-> sync[w].at, evidence |-> <<>>]
<1>1. runs \in Seq(Run) /\ sync[w] \in Sync
  BY DEF CatalogInv, Typed
<1>2. run \in Run /\ run.outcome = "RUNNING"
  BY <1>1 DEF Run, Sync
<1>3. runs' = Append(runs, run)
  BY DEF InsertRun
<1> HIDE DEF run
<1>4. /\ Len(runs) \in Nat /\ DOMAIN runs = 1 .. Len(runs)
      /\ DOMAIN runs' = 1 .. Len(runs) + 1 /\ runs'[Len(runs) + 1] = run
      /\ \A r \in 1 .. Len(runs) : runs'[r] = runs[r]
  BY <1>1, <1>2, <1>3
<1> QED  BY <1>2, <1>4 DEF RunsStep

\* An outcome that is not SUCCESS, whoever decides it.
LEMMA FailedStep ==
    ASSUME CatalogInv, NEW w, NEW r \in DOMAIN runs, NEW outcome, outcome # "SUCCESS",
           runs' = [runs EXCEPT ![r].outcome = outcome]
    PROVE  RunsStep(w)
<1>1. runs \in Seq(Run) /\ runs[r] \in Run
  BY DEF CatalogInv, Typed
<1>2. /\ [runs[r] EXCEPT !.outcome = outcome].outcome = outcome
      /\ [runs[r] EXCEPT !.outcome = outcome].evidence = runs[r].evidence
  BY <1>1 DEF Run
<1>3. DOMAIN runs' = DOMAIN runs /\ \A s \in DOMAIN runs :
         runs'[s] = IF s = r THEN [runs[r] EXCEPT !.outcome = outcome] ELSE runs[s]
  BY <1>1
<1> QED  BY <1>2, <1>3 DEF RunsStep
------------------------------------------------------------------------------
\* The process has no list, before its run and after it.
LEMMA OutsideListing ==
    ASSUME CatalogInv, CatalogInv', [CatalogNext]_catalogVars, SuccessInv, NEW w \in Worker,
           \/ StartSync(w) \/ AcquireLock(w) \/ LockedByOther(w) \/ NoRunStarted(w)
           \/ Release(w) \/ Crash(w) \/ FailRun(w)
    PROVE  SuccessInv'
<1>1. sync \in [Worker -> Sync]
  BY DEF CatalogInv, Typed
<1>2. /\ \A v \in Worker \ {w} : sync'[v] = sync[v]
      /\ sync'[w].pc \in {"idle", "lock", "run", "release"}
  <2>1. CASE NoRunStarted(w) \/ FailRun(w)
    BY <1>1, <2>1 DEF NoRunStarted, FailRun, Result, Sync
  <2>2. CASE AcquireLock(w)
    BY <1>1, <2>2 DEF AcquireLock, Sync
  <2>3. CASE StartSync(w) \/ LockedByOther(w)
    BY <1>1, <2>3 DEF StartSync, LockedByOther, Idle
  <2>4. CASE Release(w)
    <3>1. PICK outcome : sync' = [sync EXCEPT ![w] = [Idle EXCEPT !.run = sync[w].run,
                                                                  !.outcome = outcome]]
      BY <2>4 DEF Release
    <3> QED  BY <1>1, <3>1 DEF Idle
  <2>5. CASE Crash(w)
    BY <1>1, <2>5 DEF Crash, Idle
  <2> QED  BY <2>1, <2>2, <2>3, <2>4, <2>5
<1>3. RunsStep(w)
  <2>1. CASE UNCHANGED runs
    BY <2>1, SameRunsStep
  <2>2. CASE InsertRun(w)
    BY <2>2, InsertedStep
  <2>3. CASE FailRun(w) /\ FinalizeRun(w, "FAILED")
    <3>1. sync[w].run \in DOMAIN runs
      BY <2>3, SyncForms DEF FailRun, At, Reports, WithRun
    <3> QED  BY <2>3, <3>1, FailedStep DEF FinalizeRun
  <2> QED  BY <2>1, <2>2, <2>3 DEF StartSync, AcquireLock, LockedByOther, NoRunStarted, Release,
                                   Crash, FailRun
<1>4. Progresses(sync[w])'
  BY <1>2 DEF Progresses, Listing
<1> QED  BY <1>2, <1>3, <1>4, ProgressStep DEF Listing

\* The run is new.
LEMMA StartRunProgress ==
    ASSUME CatalogInv, CatalogInv', [CatalogNext]_catalogVars, SuccessInv, NEW w \in Worker,
           StartDiscoveryRun(w)
    PROVE  SuccessInv'
<1>1. sync \in [Worker -> Sync]
  BY DEF CatalogInv, Typed
<1>2. /\ \A v \in Worker \ {w} : sync'[v] = sync[v]
      /\ sync'[w].pc = "discover" /\ sync'[w].run = Len(runs) + 1 /\ InsertRun(w)
  BY <1>1 DEF StartDiscoveryRun, Sync
<1>3. RunsStep(w) /\ Len(runs) + 1 \notin DOMAIN runs /\ runs'[Len(runs) + 1].outcome = "RUNNING"
  BY <1>2, InsertedStep
<1>4. Progresses(sync[w])'
  BY <1>2, <1>3 DEF Progresses
<1> QED  BY <1>2, <1>3, <1>4, ProgressStep

\* A statement inside the transaction leaves the list as it is.
LEMMA InsideProgress ==
    ASSUME CatalogInv, CatalogInv', [CatalogNext]_catalogVars, SuccessInv, NEW w \in Worker,
           \/ ReadIdentity(w) \/ CreateContest(w) \/ UpdateEvidence(w) \/ ReadMapping(w)
           \/ InsertMapping(w) \/ LinkMapping(w) \/ ReuseMapping(w)
    PROVE  SuccessInv'
<1>1. sync \in [Worker -> Sync]
  BY DEF CatalogInv, Typed
<1>2. /\ \A v \in Worker \ {w} : sync'[v] = sync[v]
      /\ sync[w].pc \in Listing \ {"discover"} /\ sync'[w].pc \in Listing
      /\ sync'[w].run = sync[w].run /\ sync'[w].todo = sync[w].todo
      /\ sync'[w].failed = sync[w].failed /\ runs' = runs
  BY <1>1 DEF ReadIdentity, CreateContest, UpdateEvidence, ReadMapping, InsertMapping, LinkMapping,
              ReuseMapping, At, Sync, Listing
<1>3. RunsStep(w)
  BY <1>2, SameRunsStep
<1>4. Progresses(sync[w])'
  <2>1. runs[sync[w].run] \in Run /\ Progresses(sync[w])
    BY <1>2, SyncForms DEF SuccessInv, Reports, WithRun, Listing, CatalogInv, Typed
  <2>2. \A t \in Listed(runs[sync[w].run].evidence, MaxContests) : t \in TestId
    BY <2>1, ListedType DEF Run
  <2> QED  BY <1>2, <2>1, <2>2, DoneStays DEF Progresses
<1> QED  BY <1>2, <1>3, <1>4, ProgressStep

\* The list is what the source listed within the limit, or there is none.
LEMMA DiscoverProgress ==
    ASSUME CatalogInv, CatalogInv', [CatalogNext]_catalogVars, SuccessInv, NEW w \in Worker,
           Discover(w)
    PROVE  SuccessInv'
<1>1. /\ sync \in [Worker -> Sync] /\ runs \in Seq(Run) /\ sync[w].run \in DOMAIN runs
      /\ sync[w].pc = "discover" /\ runs[sync[w].run].outcome # "SUCCESS"
  BY SyncForms DEF CatalogInv, Typed, Discover, At, Reports, WithRun, SuccessInv, Progresses,
                   Listing
<1>2. PICK r \in DOMAIN runs : r = sync[w].run
  BY <1>1
<1>3. CASE sync' = [sync EXCEPT ![w].pc = "fail"] /\ UNCHANGED runs
  <2>1. /\ \A v \in Worker \ {w} : sync'[v] = sync[v]
        /\ sync'[w].pc = "fail"
    BY <1>1, <1>3 DEF Sync
  <2>2. RunsStep(w) /\ Progresses(sync[w])'
    BY <1>3, <2>1, SameRunsStep DEF Progresses, Listing
  <2> QED  BY <2>1, <2>2, ProgressStep DEF Listing
<1>4. CASE ~(sync' = [sync EXCEPT ![w].pc = "fail"] /\ UNCHANGED runs)
  <2>1. PICK evidence \in Listings :
           /\ sync' = [sync EXCEPT ![w].pc = "contest",
                                   ![w].todo = Selection(evidence, MaxContests)]
           /\ runs' = [runs EXCEPT ![r].evidence = evidence]
    BY <1>2, <1>4 DEF Discover
  <2>2. /\ \A v \in Worker \ {w} : sync'[v] = sync[v]
        /\ sync'[w].pc = "contest" /\ sync'[w].run = r
        /\ sync'[w].todo = Selection(evidence, MaxContests)
    BY <1>1, <1>2, <2>1 DEF Sync
  <2>3. /\ DOMAIN runs' = DOMAIN runs /\ \A s \in DOMAIN runs \ {r} : runs'[s] = runs[s]
        /\ runs'[r].evidence = evidence /\ runs'[r].outcome = runs[r].outcome
    <3>1. runs[r] \in Run
      BY <1>1
    <3>2. /\ [runs[r] EXCEPT !.evidence = evidence].evidence = evidence
          /\ [runs[r] EXCEPT !.evidence = evidence].outcome = runs[r].outcome
      BY <3>1 DEF Run
    <3>3. /\ DOMAIN runs' = DOMAIN runs /\ runs'[r] = [runs[r] EXCEPT !.evidence = evidence]
          /\ \A s \in DOMAIN runs \ {r} : runs'[s] = runs[s]
      BY <1>1, <2>1
    <3> QED  BY <3>2, <3>3
  <2>4. RunsStep(w)
    BY <1>1, <1>2, <2>3 DEF RunsStep, Listing
  <2>5. ToSet(Selection(evidence, MaxContests)) = Listed(evidence, MaxContests)
    BY CatalogConstants, SelectionIsListed
  <2>6. Progresses(sync[w])'
    BY <1>1, <1>2, <2>2, <2>3, <2>5 DEF Progresses
  <2> QED  BY <1>1, <1>2, <2>2, <2>4, <2>6, ProgressStep DEF Listing
<1> QED  BY <1>3, <1>4

\* The transaction of a contest is rolled back, or its COMMIT is not answered.
LEMMA FailedContestProgress ==
    ASSUME CatalogInv, CatalogInv', [CatalogNext]_catalogVars, SuccessInv, NEW w \in Worker,
           CommitAnswerLost(w) \/ ContestFails(w)
    PROVE  SuccessInv'
<1>1. sync \in [Worker -> Sync]
  BY DEF CatalogInv, Typed
<1>2. sync[w].pc \in Listing /\ NextContest(w, TRUE) /\ runs' = runs
  BY DEF CommitAnswerLost, ContestFails, PublishContest, At, InTransaction, Listing
<1>3. /\ \A v \in Worker \ {w} : sync'[v] = sync[v]
      /\ sync'[w].pc = "contest" /\ sync'[w].run = sync[w].run /\ sync'[w].failed
  BY <1>1, <1>2 DEF NextContest, Sync
<1>4. RunsStep(w)
  BY <1>2, SameRunsStep
<1>5. Progresses(sync[w])'
  BY <1>2, <1>3 DEF SuccessInv, Progresses
<1> QED  BY <1>2, <1>3, <1>4, <1>5, ProgressStep

\* COMMIT: one less on the list, and done.
LEMMA CommitProgress ==
    ASSUME CatalogInv, CatalogInv', [CatalogNext]_catalogVars, SuccessInv, NEW w \in Worker,
           CommitContest(w)
    PROVE  SuccessInv'
<1>1. /\ sync \in [Worker -> Sync] /\ sync[w] \in Sync /\ sync[w].pc = "commit"
      /\ sync[w].todo # <<>> /\ Contest(w) \in ContestId /\ NextContest(w, FALSE) /\ runs' = runs
  BY SyncForms DEF CommitContest, PublishContest, At, CatalogInv, Typed, Knows, Working, Sync,
                   Contest
<1>2. /\ \A v \in Worker \ {w} : sync'[v] = sync[v]
      /\ sync'[w].pc = "contest" /\ sync'[w].run = sync[w].run
      /\ sync'[w].failed = sync[w].failed /\ sync'[w].todo = Tail(sync[w].todo)
  BY <1>1 DEF NextContest, Sync
<1>3. RunsStep(w)
  BY <1>1, SameRunsStep
<1>4. PICK t \in TestId : t = Head(sync[w].todo)
  BY <1>1, FirstTest
<1>5. Done(t)'
  <2>1. PICK c \in ContestId : c = Contest(w)
    BY <1>1
  <2>2. identity' = [identity EXCEPT ![t] = c]
        /\ mapping' = [mapping EXCEPT ![c] = WrittenMapping(w)]
    BY <1>4, <2>1 DEF CommitContest, PublishContest, Test
  <2>3. /\ mapping \in [ContestId -> MappingRow \cup {Null}] /\ Null \notin MappingRow
        /\ identity \in [TestId -> contests \cup {Null}] /\ Null \notin ContestId
    BY NullIsNoRow, CatalogConstants, FS_CardinalityType, TestIdsAreFinite
    DEF CatalogInv, Typed, ContestId
  <2>4. WrittenMapping(w) \in MappingRow
    BY <1>4, <2>1, <2>3 DEF WrittenMapping, MappingRow, Test
  <2>5. identity'[t] = c /\ mapping'[c] # Null /\ c # Null
    BY <2>2, <2>3, <2>4
  <2> QED  BY <2>5 DEF Done
<1>6. ASSUME NEW u \in ToSet(sync[w].todo), u # t PROVE u \in ToSet(Tail(sync[w].todo))
  <2>1. PICK todo \in Seq(TestId) : todo = sync[w].todo
    BY <1>1 DEF Sync
  <2>2. PICK k \in 1 .. Len(todo) : todo[k] = u
    BY <2>1 DEF ToSet
  <2>3. k # 1 /\ Len(todo) \in Nat /\ todo # <<>>
    BY <1>1, <1>4, <1>6, <2>1, <2>2
  <2>4. k - 1 \in 1 .. Len(todo) - 1
    BY <2>2, <2>3
  <2>5. DOMAIN Tail(todo) = 1 .. Len(todo) - 1 /\ Tail(todo)[k - 1] = todo[k]
    BY <2>3, <2>4
  <2> QED  BY <2>1, <2>2, <2>4, <2>5 DEF ToSet
<1>7. Progresses(sync[w])'
  <2>1. PICK r \in DOMAIN runs : r = sync[w].run /\ runs[r] \in Run
    BY <1>1, SyncForms DEF Reports, WithRun, CatalogInv, Typed
  <2>2. ASSUME NEW u \in Listed(runs[r].evidence, MaxContests) PROVE u \in TestId
    BY <2>1, ListedType DEF Run
  <2>3. /\ runs[r].outcome # "SUCCESS"
        /\ ~sync[w].failed => \A u \in Listed(runs[r].evidence, MaxContests) :
                                 u \in ToSet(sync[w].todo) \/ Done(u)
    BY <1>1, <2>1 DEF SuccessInv, Progresses, Listing
  <2>4. ASSUME ~sync[w].failed, NEW u \in Listed(runs[r].evidence, MaxContests)
        PROVE  u \in ToSet(Tail(sync[w].todo)) \/ Done(u)'
    <3>1. CASE u = t
      BY <1>5, <3>1
    <3>2. CASE u # t /\ u \in ToSet(sync[w].todo)
      BY <1>6, <3>2
    <3>3. CASE Done(u)
      BY <2>2, <3>3, DoneStays
    <3> QED  BY <2>3, <2>4, <3>1, <3>2, <3>3
  <2> QED  BY <1>1, <1>2, <2>1, <2>3, <2>4 DEF Progresses
<1> QED  BY <1>1, <1>2, <1>3, <1>7, ProgressStep DEF Listing

\* An empty list: everything is done, or something has failed.
LEMMA FinishProgress ==
    ASSUME CatalogInv, CatalogInv', [CatalogNext]_catalogVars, SuccessInv, NEW w \in Worker,
           FinishRun(w) \/ FinishFails(w)
    PROVE  SuccessInv'
<1>1. /\ sync \in [Worker -> Sync] /\ runs \in Seq(Run) /\ sync[w].run \in DOMAIN runs
      /\ sync[w].pc = "contest" /\ sync[w].todo = <<>> /\ Progresses(sync[w])
  BY SyncForms DEF CatalogInv, Typed, FinishRun, FinishFails, Persisted, At, Reports, WithRun,
                   SuccessInv
<1>2. /\ \A v \in Worker \ {w} : sync'[v] = sync[v]
      /\ sync'[w].pc \in {"release", "fail"}
  BY <1>1 DEF FinishRun, FinishFails, Result, Sync
<1>3. PICK r \in DOMAIN runs : r = sync[w].run
  BY <1>1
<1>4. PICK outcome \in {"SUCCESS", "FAILED"} : outcome = Outcome(w)
  BY DEF Outcome
<1>5. RunsStep(w)
  <2>1. CASE runs' = runs
    BY <2>1, SameRunsStep
  <2>2. CASE runs' # runs
    <3>1. runs' = [runs EXCEPT ![r].outcome = outcome]
      BY <1>3, <1>4, <2>2 DEF FinishRun, FinishFails, FinalizeRun
    <3>2. CASE outcome = "FAILED"
      BY <3>1, <3>2, FailedStep
    <3>3. CASE outcome = "SUCCESS"
      <4>1. \A t \in Listed(runs[r].evidence, MaxContests) : Done(t)
        <5>1. ~sync[w].failed /\ ToSet(<<>>) = {}
          BY <1>4, <3>3 DEF Outcome, ToSet
        <5> QED  BY <1>1, <1>3, <5>1 DEF Progresses, Listing
      <4>2. runs[r] \in Run
        BY <1>1
      <4>3. [runs[r] EXCEPT !.outcome = outcome].evidence = runs[r].evidence
        BY <4>2 DEF Run
      <4>4. DOMAIN runs' = DOMAIN runs /\ runs'[r] = [runs[r] EXCEPT !.outcome = outcome]
            /\ \A s \in DOMAIN runs \ {r} : runs'[s] = runs[s]
        BY <1>1, <3>1
      <4> QED  BY <1>1, <1>3, <4>1, <4>3, <4>4 DEF RunsStep, Listing
    <3> QED  BY <3>2, <3>3
  <2> QED  BY <2>1, <2>2
<1>6. Progresses(sync[w])'
  BY <1>2 DEF Progresses, Listing
<1> QED  BY <1>2, <1>5, <1>6, ProgressStep DEF Listing

\* Time, a broken session, a recovery and an operator.
LEMMA OutsideProgress ==
    ASSUME CatalogInv, CatalogInv', [CatalogNext]_catalogVars, SuccessInv,
           \/ Tick \/ LoseSession \/ UNCHANGED catalogVars
           \/ \E c \in ContestId : EnableMapping(c)
           \/ \E r \in DOMAIN runs : RecoverByAge(r)
    PROVE  SuccessInv'
<1>1. sync' = sync /\ Free \notin Worker
  BY CatalogConstants DEF Tick, LoseSession, EnableMapping, RecoverByAge, catalogVars
<1>2. RunsStep(Free)
  <2>1. CASE runs' = runs
    BY <2>1, SameRunsStep
  <2>2. CASE \E r \in DOMAIN runs : RecoverByAge(r)
    BY <2>2, FailedStep DEF RecoverByAge
  <2> QED  BY <2>1, <2>2 DEF Tick, LoseSession, EnableMapping, catalogVars
<1>3. \A v \in Worker : Progresses(sync[v])'
  BY <1>1, <1>2, OthersProgress
<1>4. OwnRuns'
  BY <1>1 DEF SuccessInv, OwnRuns
<1> QED  BY <1>2, <1>3, <1>4, SuccessesStay DEF SuccessInv

\* No run yet, and no process has a list.
LEMMA InitSuccess == CatalogInit => SuccessInv
<1> SUFFICES ASSUME CatalogInit PROVE SuccessInv
  OBVIOUS
<1>1. sync = [w \in Worker |-> Idle] /\ runs = <<>>
  BY DEF CatalogInit
<1>2. Idle.pc = "idle"
  BY DEF Idle
<1>3. \A w \in Worker : sync[w].pc \notin Listing
  BY <1>1, <1>2 DEF Listing
<1> QED  BY <1>1, <1>3 DEF SuccessInv, Progresses, OwnRuns, SuccessIsCatalogued

\* Every step keeps the progress of every synchronization.
LEMMA NextSuccess ==
    CatalogInv /\ CatalogInv' /\ SuccessInv /\ [CatalogNext]_catalogVars => SuccessInv'
<1> SUFFICES ASSUME CatalogInv, CatalogInv', SuccessInv, [CatalogNext]_catalogVars
             PROVE  SuccessInv'
  OBVIOUS
<1>1. ASSUME NEW w \in Worker, StartSync(w) \/ SyncStep(w) \/ Crash(w) PROVE SuccessInv'
  BY <1>1, OutsideListing, StartRunProgress, InsideProgress, DiscoverProgress,
     FailedContestProgress, CommitProgress, FinishProgress DEF SyncStep
<1> QED  BY <1>1, OutsideProgress DEF CatalogNext

\* A run recorded SUCCESS has an identity and a mapping of everything the
\* source listed within the limit: no contest is skipped, forgotten when its
\* transaction fails, or lost to another process.
THEOREM SuccessesAreCatalogued == CatalogSpec => []SuccessIsCatalogued
<1>1. SuccessInv => SuccessIsCatalogued
  BY DEF SuccessInv
<1>2. CatalogSpec => []SuccessInv
  BY InitSuccess, NextSuccess, SpecCatalog, PTL DEF CatalogSpec
<1> QED  BY <1>1, <1>2, PTL
=============================================================================

------------------------ MODULE Reconciliation_proofs ------------------------
(***************************************************************************)
(* What TLAPS proves of Reconciliation for every set of workers, entries   *)
(* and snapshots.  First the types, the row locks and the pointer, which   *)
(* hold under either isolation level; then the canonical timelines, where  *)
(* some results, and the refinement, need READ_COMMITTED, exactly as the   *)
(* model-checking runs suggest.                                            *)
(***************************************************************************)
EXTENDS Reconciliation, TLAPS

\* The transaction of w has read the canonical row and decided.
Decided(w) == tx[w].pc \in {"flag", "event", "pointer", "commit"}

\* The transaction of w will append its snapshot to the timeline at commit.
Appending(w) == Decided(w) /\ tx[w].decision \in CanonicalDecisions

\* A worker inside a transaction has a snapshot, and one that is past its
\* FOR UPDATE owns the row lock of that snapshot's entry.
LockInv ==
    \A w \in Worker :
        /\ tx[w].pc # "idle" => tx[w].snapshot \in Snapshot
        /\ HoldsLock(w) => lock[TxEntry(w)] = w

\* Whatever a transaction has read was canonical for its entry at some time,
\* hence still is on record.
ReadsAreRecorded ==
    \A w \in Worker : tx[w].pc # "idle" =>
        \A s \in tx[w].view \cup tx[w].seen : OnRecord(TxEntry(w), s)

\* The remembered decision is the policy's, and the statement a transaction
\* is about to run is one that this decision calls for.
DecisionInv ==
    \A w \in Worker :
        /\ Decided(w) => tx[w].decision = Answer(tx[w].snapshot, tx[w].seen)
        /\ tx[w].pc = "flag" => tx[w].decision = "OUT_OF_ORDER"
        /\ tx[w].pc \in {"event", "pointer"} => tx[w].decision \in CanonicalDecisions

\* A transaction past its inserts passed the unique keys, and no other
\* transaction of the entry can have committed since.
UniqueKeysInv ==
    \A w \in Worker :
        /\ tx[w].pc = "pointer" => ~Recorded(tx[w].snapshot)
        /\ tx[w].pc = "commit" /\ Appending(w) =>
              /\ ~Recorded(tx[w].snapshot)
              /\ tx[w].seen = {} => current[TxEntry(w)] = 0

\* Only eligible snapshots of the entry itself become canonical for it.
EventsAreEligible ==
    \A e \in Entry : \A i \in DOMAIN events[e] :
        EntryOf(events[e][i]) = e /\ Eligible(Observed[events[e][i]])

\* The ids of a timeline are numbered in the order of its commits, and the
\* pointer is at the last one.
Numbered ==
    \A e \in Entry :
        /\ current[e] = Len(events[e])
        /\ Len(ids[e]) = Len(events[e])
        /\ \A i \in DOMAIN ids[e] : ids[e][i] = i

\* An open event belongs to a transaction past its insert, which owns the
\* entry, and has the id that follows the timeline; such a transaction has one.
OpenEvents ==
    \A w \in Worker :
        /\ tx[w].event # 0 => /\ tx[w].pc \in {"pointer", "commit"}
                              /\ tx[w].event = Len(events[TxEntry(w)]) + 1
        /\ tx[w].pc = "pointer" => tx[w].event # 0
        /\ tx[w].pc = "commit" /\ Appending(w) => tx[w].event # 0

IInv ==
    /\ TypeOK
    /\ LockInv
    /\ ReadsAreRecorded
    /\ DecisionInv
    /\ UniqueKeysInv
    /\ EventsAreEligible
    /\ Numbered
    /\ OpenEvents

------------------------------------------------------------------------------
\* Every snapshot has an observation, an entry and a time or no timestamp.
LEMMA ObservedType ==
    ASSUME NEW s \in Snapshot
    PROVE  /\ Observed[s] \in Observation
           /\ EntryOf(s) \in Entry
           /\ At(s) \in Nat \cup {NoTimestamp}
BY ObservedAssumption DEF Observation, EntryOf, At

\* What appending one element does to a sequence.
LEMMA AppendFacts ==
    ASSUME NEW S, NEW seq \in Seq(S), NEW x \in S
    PROVE  /\ Append(seq, x) \in Seq(S)
           /\ Len(Append(seq, x)) = Len(seq) + 1
           /\ DOMAIN seq = 1 .. Len(seq) /\ Len(seq) \in Nat
           /\ DOMAIN Append(seq, x) = 1 .. (Len(seq) + 1)
           /\ \A i \in DOMAIN seq : Append(seq, x)[i] = seq[i]
           /\ Append(seq, x)[Len(seq) + 1] = x
OBVIOUS

\* No transaction is a transaction too.
LEMMA NoTxType == NoTx \in Tx /\ NoTx.pc = "idle"
BY DEF NoTx, Tx, Statements

\* A step that replaces one transaction by another one of the right type, and
\* keeps tables and locks in their types, keeps TypeOK.
LEMMA TxUpdateType ==
    ASSUME TypeOK, NEW v \in Worker, NEW t \in Tx,
           tx' = [tx EXCEPT ![v] = t], UNCHANGED tables,
           lock' \in [Entry -> Worker \cup {NoWorker}]
    PROVE  /\ TypeOK'
           /\ tx'[v] = t
           /\ \A w \in Worker \ {v} : tx'[w] = tx[w]
BY DEF TypeOK, tables

\* The policy's answers: it always answers, and what each answer tells about
\* the rows it was given.
LEMMA DecideType ==
    ASSUME NEW c, NEW rows PROVE Decide(c, rows) \in Decisions
BY DEF Decide, Decisions, CanonicalDecisions

\* A canonical decision: the candidate is eligible, of the source of the rows seen and
\* no older than any of them.
LEMMA DecideCanonical ==
    ASSUME NEW c, NEW rows, Decide(c, rows) \in CanonicalDecisions
    PROVE  /\ Eligible(c)
           /\ \A row \in rows : row.source = c.source /\ ~(c.at < row.at)
BY DEF Decide, CanonicalDecisions

\* An OUT_OF_ORDER decision: some row seen is newer than the candidate.
LEMMA DecideOutOfOrder ==
    ASSUME NEW c, NEW rows, Decide(c, rows) = "OUT_OF_ORDER"
    PROVE  \E row \in rows : c.at < row.at
BY DEF Decide, CanonicalDecisions

\* An eligible observation has a timestamp.
LEMMA EligibleAt ==
    ASSUME NEW s \in Snapshot, Eligible(Observed[s]) PROVE At(s) \in Nat
BY ObservedType DEF Eligible, At

\* Two workers are never past the FOR UPDATE of one entry.
LEMMA LockExcludes ==
    ASSUME LockInv, NEW v \in Worker, NEW w \in Worker,
           HoldsLock(v), HoldsLock(w), TxEntry(v) = TxEntry(w)
    PROVE  v = w
BY DEF LockInv

\* The canonical row of an entry is the last event of its timeline.
LEMMA CanonicalRowIs ==
    ASSUME TypeOK, Numbered, NEW e \in Entry
    PROVE  CanonicalRow(e) = IF Len(events[e]) = 0 THEN {}
                             ELSE {events[e][Len(events[e])]}
<1>1. /\ events[e] \in Seq(Snapshot) /\ ids[e] \in Seq(Nat)
      /\ Len(ids[e]) = Len(events[e]) /\ current[e] = Len(events[e])
      /\ \A i \in DOMAIN ids[e] : ids[e][i] = i
  BY DEF TypeOK, Numbered
<1>2. DOMAIN ids[e] = 1 .. Len(events[e]) /\ Len(events[e]) \in Nat
  BY <1>1
<1>3. {j \in DOMAIN ids[e] : ids[e][j] = current[e]} =
          IF Len(events[e]) = 0 THEN {} ELSE {Len(events[e])}
  BY <1>1, <1>2
<1> QED
  BY <1>3 DEF CanonicalRow

\* The canonical row of an entry is on record; there is none exactly while the entry
\* has no pointer.
LEMMA CanonicalRowType ==
    ASSUME TypeOK, Numbered, NEW e \in Entry
    PROVE  /\ CanonicalRow(e) \in SUBSET Snapshot
           /\ \A s \in CanonicalRow(e) : OnRecord(e, s)
           /\ CanonicalRow(e) = {} <=> current[e] = 0
<1>1. events[e] \in Seq(Snapshot) /\ current[e] = Len(events[e]) /\ current[e] \in Nat
  BY DEF TypeOK, Numbered
<1>2. current[e] # 0 => current[e] \in DOMAIN events[e] /\ events[e][current[e]] \in Snapshot
  BY <1>1
<1> QED
  BY <1>1, <1>2, CanonicalRowIs DEF OnRecord

\* The greatest of the numbers up to n is n.
LEMMA MaxOfInterval ==
    ASSUME NEW n \in Nat, NEW S, S = 0 .. n PROVE Max(S) = n
<1>1. n \in 0 .. n /\ \A y \in 0 .. n : n >= y
  OBVIOUS
<1>2. \A x \in 0 .. n : (\A y \in 0 .. n : x >= y) => x = n
  BY <1>1
<1> QED
  BY <1>1, <1>2 DEF Max

\* The owner of an entry that inserts an event gets the id after the timeline:
\* no other transaction of the entry has an open event.
LEMMA NewEventIdIs ==
    ASSUME IInv, NEW v \in Worker, tx[v].pc = "event"
    PROVE  /\ NewEventId(TxEntry(v)) = Len(events[TxEntry(v)]) + 1
           /\ Len(events[TxEntry(v)]) \in Nat
<1> DEFINE e == TxEntry(v)
           n == Len(events[e])
<1>1. e \in Entry /\ HoldsLock(v) /\ tx[v].event = 0
  BY ObservedType DEF IInv, LockInv, OpenEvents, TxEntry, HoldsLock
<1>2. /\ events[e] \in Seq(Snapshot) /\ ids[e] \in Seq(Nat) /\ Len(ids[e]) = n
      /\ \A i \in DOMAIN ids[e] : ids[e][i] = i
  BY <1>1 DEF IInv, TypeOK, Numbered
<1>3. n \in Nat /\ DOMAIN ids[e] = 1 .. n
  BY <1>2
<1>4. ToSet(ids[e]) = 1 .. n
  BY <1>2, <1>3 DEF ToSet
<1>5. {u \in Worker : tx[u].event # 0 /\ TxEntry(u) = e} = {}
  <2>1. ASSUME NEW u \in Worker, tx[u].event # 0, TxEntry(u) = e PROVE FALSE
    <3>1. HoldsLock(u)
      BY <2>1 DEF IInv, OpenEvents, HoldsLock
    <3> QED
      BY <1>1, <2>1, <3>1, LockExcludes DEF IInv
  <2> QED
    BY <2>1
<1>6. EventIds(e) = 1 .. n
  BY <1>4, <1>5 DEF EventIds
<1> HIDE DEF n, e
<1>7. {0} \cup EventIds(e) = 0 .. n
  BY <1>3, <1>6
<1>8. Max({0} \cup EventIds(e)) = n
  BY <1>3, <1>7, MaxOfInterval, Zenon
<1>9. NewEventId(e) = n + 1
  BY <1>3, <1>8 DEF NewEventId
<1> QED
  BY <1>3, <1>9 DEF n, e

\* Without transactions and events the invariant holds.
THEOREM InitIInv == Init => IInv
<1> SUFFICES ASSUME Init PROVE IInv
  OBVIOUS
<1>1. TypeOK
  BY NoTxType DEF Init, TypeOK
<1>2. \A w \in Worker : tx[w].pc = "idle"
  BY DEF Init, NoTx
<1>3. LockInv /\ ReadsAreRecorded /\ DecisionInv /\ UniqueKeysInv /\ OpenEvents
  BY <1>2 DEF LockInv, ReadsAreRecorded, DecisionInv, UniqueKeysInv, HoldsLock, Decided,
              OpenEvents, Init, NoTx
<1>4. EventsAreEligible /\ Numbered
  BY DEF Init, EventsAreEligible, Numbered
<1> QED
  BY <1>1, <1>3, <1>4 DEF IInv

------------------------------------------------------------------------------
(* Each action preserves the invariant.  All but Commit leave the tables     *)
(* alone, so for them only the transaction that moved has to be looked at.   *)

\* Unchanged tables keep their own invariants and what is on record.
LEMMA TablesUnchanged ==
    ASSUME EventsAreEligible, Numbered, UNCHANGED tables
    PROVE  /\ EventsAreEligible' /\ Numbered'
           /\ \A e, s : OnRecord(e, s)' = OnRecord(e, s)
           /\ \A s : Recorded(s)' = Recorded(s)
BY DEF EventsAreEligible, Numbered, OnRecord, Recorded, tables, EntryOf

\* The invariant survives the start of a transaction.
LEMMA BeginIInv ==
    ASSUME IInv, NEW v \in Worker, NEW s \in Snapshot, Begin(v, s)
    PROVE  IInv'
<1> USE DEF IInv, Begin
<1>e. EntryOf(s) \in Entry
  BY ObservedType
<1> DEFINE row == CanonicalRow(EntryOf(s))
           t == [pc |-> "lock", snapshot |-> s, view |-> row,
                 seen |-> {}, decision |-> "NONE", event |-> 0]
<1>v. /\ row \in SUBSET Snapshot
      /\ \A r \in row : OnRecord(EntryOf(s), r)
  BY <1>e, CanonicalRowType
<1>x. tx' = [tx EXCEPT ![v] = t]
  OBVIOUS
<1> HIDE DEF row
<1>t. t \in Tx
  BY <1>v DEF Tx, Statements
<1>1. TypeOK'
  BY <1>x, <1>t, TxUpdateType DEF TypeOK, tables
<1>0. tx'[v] = t /\ \A w \in Worker \ {v} : tx'[w] = tx[w]
  BY <1>x, <1>t, TxUpdateType DEF TypeOK, tables
<1>y. /\ EventsAreEligible' /\ Numbered'
      /\ \A e, r : OnRecord(e, r)' = OnRecord(e, r)
      /\ \A r : Recorded(r)' = Recorded(r)
  BY TablesUnchanged
<1>2. LockInv'
  BY <1>0 DEF LockInv, HoldsLock, TxEntry
<1>3. ReadsAreRecorded'
  BY <1>y, <1>0, <1>v DEF ReadsAreRecorded, TxEntry
<1>4. DecisionInv'
  BY <1>0 DEF DecisionInv, Decided
<1>5. UniqueKeysInv'
  BY <1>y, <1>0 DEF UniqueKeysInv, Appending, Decided, TxEntry, tables
<1>6. OpenEvents'
  BY <1>0 DEF OpenEvents, Appending, Decided, TxEntry, tables
<1> QED
  BY <1>1, <1>2, <1>3, <1>4, <1>5, <1>6, <1>y

\* The invariant survives a granted FOR UPDATE.
LEMMA LockEntryIInv ==
    ASSUME IInv, NEW v \in Worker, LockEntry(v)
    PROVE  IInv'
<1> USE DEF IInv, LockEntry
<1> DEFINE t == [tx[v] EXCEPT !.pc = "read"]
<1>t. /\ t \in Tx /\ tx' = [tx EXCEPT ![v] = t]
      /\ lock' \in [Entry -> Worker \cup {NoWorker}]
  BY DEF TypeOK, Tx, Statements
<1>1. TypeOK'
  BY <1>t, TxUpdateType
<1>0. /\ tx'[v].pc = "read"
      /\ tx'[v].snapshot = tx[v].snapshot /\ tx'[v].view = tx[v].view
      /\ tx'[v].seen = tx[v].seen /\ tx'[v].event = tx[v].event
      /\ \A w \in Worker \ {v} : tx'[w] = tx[w]
  BY <1>t, TxUpdateType DEF TypeOK, Tx
<1>y. /\ EventsAreEligible' /\ Numbered'
      /\ \A e, r : OnRecord(e, r)' = OnRecord(e, r)
      /\ \A r : Recorded(r)' = Recorded(r)
  BY TablesUnchanged
<1>2. LockInv'
  <2>1. TxEntry(v) \in Entry
    BY ObservedType DEF LockInv, TxEntry
  <2>2. \A w \in Worker : HoldsLock(w) => TxEntry(w) # TxEntry(v)
    BY NullAssumption DEF LockInv
  <2> QED
    BY <1>0, <2>1, <2>2 DEF LockInv, HoldsLock, TxEntry, TypeOK
<1>3. ReadsAreRecorded'
  BY <1>y, <1>0 DEF ReadsAreRecorded, TxEntry
<1>4. DecisionInv'
  BY <1>0 DEF DecisionInv, Decided
<1>5. UniqueKeysInv'
  BY <1>y, <1>0 DEF UniqueKeysInv, Appending, Decided, TxEntry, tables
<1>6. OpenEvents'
  BY <1>0 DEF OpenEvents, Appending, Decided, TxEntry, tables
<1> QED
  BY <1>1, <1>2, <1>3, <1>4, <1>5, <1>6, <1>y

\* The invariant survives the read of the canonical row and the decision on it.
LEMMA ReadCurrentIInv ==
    ASSUME IInv, NEW v \in Worker, ReadCurrent(v)
    PROVE  IInv'
<1> DEFINE row == VisibleRow(v)
           answer == Answer(tx[v].snapshot, row)
<1>s. tx[v].pc = "read" /\ tx[v].snapshot \in Snapshot /\ TxEntry(v) \in Entry
  BY ObservedType DEF IInv, LockInv, ReadCurrent, TxEntry
<1>d. answer \in Decisions
  BY DecideType DEF Answer
<1>r. /\ row \in SUBSET Snapshot
      /\ \A s \in row : OnRecord(TxEntry(v), s)
  <2>1. /\ tx[v].view \in SUBSET Snapshot
        /\ \A s \in tx[v].view : OnRecord(TxEntry(v), s)
    BY <1>s DEF IInv, TypeOK, Tx, ReadsAreRecorded
  <2>2. /\ CanonicalRow(TxEntry(v)) \in SUBSET Snapshot
        /\ \A s \in CanonicalRow(TxEntry(v)) : OnRecord(TxEntry(v), s)
    BY <1>s, CanonicalRowType DEF IInv
  <2> QED
    BY <2>1, <2>2 DEF VisibleRow
<1>n. /\ StatementFor(answer) \in {"flag", "event", "commit"}
      /\ StatementFor(answer) = "flag" => answer = "OUT_OF_ORDER"
      /\ StatementFor(answer) = "event" <=> answer \in CanonicalDecisions
  BY <1>d DEF StatementFor, Decisions, CanonicalDecisions
<1> HIDE DEF answer, row
<1> DEFINE t == [tx[v] EXCEPT !.seen = row, !.decision = answer,
                              !.pc = StatementFor(answer)]
<1>u. UNCHANGED <<tables, lock>>
  BY DEF ReadCurrent
<1>t. tx[v] \in Tx /\ t \in Tx /\ tx' = [tx EXCEPT ![v] = t]
  <2>1. tx[v] \in Tx
    BY DEF IInv, TypeOK
  <2>2. t \in Tx
    BY <2>1, <1>r, <1>d, <1>n DEF Tx, Statements
  <2>3. tx' = [tx EXCEPT ![v] = t]
    BY DEF ReadCurrent, answer, row
  <2> QED
    BY <2>1, <2>2, <2>3
<1>1. TypeOK'
  BY <1>t, <1>u, TxUpdateType DEF IInv, TypeOK
<1>0. /\ tx'[v].pc = StatementFor(answer) /\ tx'[v].seen = row
      /\ tx'[v].decision = answer
      /\ tx'[v].snapshot = tx[v].snapshot /\ tx'[v].view = tx[v].view
      /\ tx'[v].event = tx[v].event
      /\ \A w \in Worker \ {v} : tx'[w] = tx[w]
  BY <1>t, <1>u, TxUpdateType DEF IInv, TypeOK, Tx
<1>y. /\ EventsAreEligible' /\ Numbered'
      /\ \A e, r : OnRecord(e, r)' = OnRecord(e, r)
      /\ \A r : Recorded(r)' = Recorded(r)
  BY <1>u, TablesUnchanged DEF IInv
<1>2. LockInv'
  BY <1>0, <1>u, <1>s, <1>n DEF IInv, LockInv, HoldsLock, TxEntry
<1>3. ReadsAreRecorded'
  BY <1>y, <1>0, <1>u, <1>s, <1>r DEF IInv, ReadsAreRecorded, TxEntry
<1>4. DecisionInv'
  <2>1. answer = Answer(tx[v].snapshot, row)
    BY DEF answer
  <2> QED
    BY <1>0, <1>n, <2>1 DEF IInv, DecisionInv, Decided
<1>5. UniqueKeysInv'
  BY <1>y, <1>0, <1>u, <1>n DEF IInv, UniqueKeysInv, Appending, Decided, TxEntry, tables
<1>6. OpenEvents'
  BY <1>0, <1>u, <1>s, <1>n DEF IInv, OpenEvents, Appending, Decided, TxEntry, tables
<1> QED
  BY <1>1, <1>2, <1>3, <1>4, <1>5, <1>6, <1>y DEF IInv

\* AppendFlag, InsertEvent and WritePointer move one transaction to its next
\* statement; what the statement checked becomes part of UniqueKeysInv.
LEMMA StatementIInv ==
    ASSUME IInv, NEW v \in Worker, AppendFlag(v) \/ InsertEvent(v) \/ WritePointer(v)
    PROVE  IInv'
<1> DEFINE next == IF tx[v].pc = "event" THEN "pointer" ELSE "commit"
           id   == IF tx[v].pc = "event" THEN NewEventId(TxEntry(v)) ELSE tx[v].event
<1>i. /\ tx[v] \in Tx /\ id \in Nat
      /\ tx[v].pc = "event" => id = Len(events[TxEntry(v)]) + 1
      /\ tx[v].pc = "event" => id # 0
      /\ tx[v].pc # "event" => id = tx[v].event
  BY NewEventIdIs DEF IInv, TypeOK, Tx
<1>0. /\ tx[v].pc \in {"flag", "event", "pointer"}
      /\ tx' = [tx EXCEPT ![v] = [tx[v] EXCEPT !.pc = next, !.event = id]]
      /\ UNCHANGED <<tables, lock>>
  <2>1. CASE AppendFlag(v) \/ WritePointer(v)
    <3>1. [tx[v] EXCEPT !.pc = "commit"] =
              [tx[v] EXCEPT !.pc = "commit", !.event = tx[v].event]
      BY <1>i DEF Tx
    <3> QED
      BY <2>1, <3>1 DEF AppendFlag, WritePointer
  <2>2. CASE InsertEvent(v)
    BY <2>2 DEF InsertEvent
  <2> QED
    BY <2>1, <2>2
<1> HIDE DEF id
<1> DEFINE t == [tx[v] EXCEPT !.pc = next, !.event = id]
<1>t. tx[v] \in Tx /\ t \in Tx /\ tx' = [tx EXCEPT ![v] = t]
  BY <1>0, <1>i DEF IInv, TypeOK, Tx, Statements
<1>2. TypeOK'
  BY <1>0, <1>t, TxUpdateType DEF IInv, TypeOK
<1>1. /\ tx'[v].pc = next /\ tx'[v].snapshot = tx[v].snapshot
      /\ tx'[v].view = tx[v].view /\ tx'[v].seen = tx[v].seen
      /\ tx'[v].decision = tx[v].decision /\ tx'[v].event = id
      /\ \A w \in Worker \ {v} : tx'[w] = tx[w]
  BY <1>0, <1>t, TxUpdateType DEF IInv, TypeOK, Tx
<1>y. /\ EventsAreEligible' /\ Numbered'
      /\ \A e, r : OnRecord(e, r)' = OnRecord(e, r)
      /\ \A r : Recorded(r)' = Recorded(r)
  BY <1>0, TablesUnchanged DEF IInv
<1>3. LockInv'
  BY <1>0, <1>1 DEF IInv, LockInv, HoldsLock, TxEntry
<1>4. ReadsAreRecorded'
  BY <1>y, <1>0, <1>1 DEF IInv, ReadsAreRecorded, TxEntry
<1>5. DecisionInv'
  BY <1>0, <1>1 DEF IInv, DecisionInv, Decided
<1>6. UniqueKeysInv'
  <2>1. tx[v].pc = "flag" => tx[v].decision \notin CanonicalDecisions
    BY DEF IInv, DecisionInv, CanonicalDecisions
  <2>2. tx[v].pc = "event" => ~Recorded(tx[v].snapshot)
    BY DEF AppendFlag, InsertEvent, WritePointer
  <2>3. tx[v].pc = "pointer" => /\ ~Recorded(tx[v].snapshot)
                                /\ tx[v].seen = {} => current[TxEntry(v)] = 0
    BY DEF IInv, UniqueKeysInv, AppendFlag, InsertEvent, WritePointer
  <2> QED
    BY <1>0, <1>1, <1>y, <2>1, <2>2, <2>3
    DEF IInv, UniqueKeysInv, Appending, Decided, TxEntry, tables
<1>7. OpenEvents'
  <2>1. tx[v].pc = "flag" => tx[v].decision \notin CanonicalDecisions
    BY DEF IInv, DecisionInv, CanonicalDecisions
  <2> QED
    BY <1>0, <1>1, <1>i, <2>1 DEF IInv, OpenEvents, Appending, Decided, TxEntry, tables
<1> QED
  BY <1>0, <1>2, <1>3, <1>4, <1>5, <1>6, <1>7, <1>y DEF IInv

\* However a transaction ends, its lock is released and no other transaction
\* is disturbed.
LEMMA EndOfTx ==
    ASSUME IInv, NEW v \in Worker, ReleaseLock(v), EndTx(v)
    PROVE  /\ tx' \in [Worker -> Tx]
           /\ tx'[v] = NoTx
           /\ \A w \in Worker \ {v} : tx'[w] = tx[w]
           /\ lock' \in [Entry -> Worker \cup {NoWorker}]
           /\ LockInv'
           /\ DecisionInv'
<1>1. /\ tx' = [tx EXCEPT ![v] = NoTx]
      /\ lock' = IF HoldsLock(v) THEN [lock EXCEPT ![TxEntry(v)] = NoWorker] ELSE lock
  BY DEF EndTx, ReleaseLock
<1>2. /\ tx' \in [Worker -> Tx] /\ tx'[v] = NoTx
      /\ \A w \in Worker \ {v} : tx'[w] = tx[w]
      /\ lock' \in [Entry -> Worker \cup {NoWorker}]
  BY <1>1, NoTxType DEF IInv, TypeOK
<1>3. LockInv'
  <2> SUFFICES ASSUME NEW w \in Worker \ {v}
               PROVE  /\ tx[w].pc # "idle" => tx[w].snapshot \in Snapshot
                      /\ HoldsLock(w) => lock'[TxEntry(w)] = w
    BY <1>2, NoTxType DEF LockInv, HoldsLock, TxEntry
  <2>1. HoldsLock(w) /\ HoldsLock(v) => TxEntry(w) # TxEntry(v)
    BY LockExcludes DEF IInv
  <2>2. HoldsLock(w) => TxEntry(w) \in Entry
    BY ObservedType DEF IInv, LockInv, HoldsLock, TxEntry
  <2> QED
    BY <1>1, <2>1, <2>2 DEF IInv, LockInv, TypeOK
<1>4. DecisionInv'
  BY <1>2, NoTxType DEF IInv, DecisionInv, Decided
<1> QED
  BY <1>2, <1>3, <1>4

\* The invariant survives a rollback, wherever the transaction was.
LEMMA RollbackIInv ==
    ASSUME IInv, NEW v \in Worker, Rollback(v)
    PROVE  IInv'
<1>0. ReleaseLock(v) /\ EndTx(v) /\ UNCHANGED tables
  BY DEF Rollback
<1>1. /\ tx'[v] = NoTx /\ \A w \in Worker \ {v} : tx'[w] = tx[w]
      /\ LockInv' /\ DecisionInv'
  BY <1>0, EndOfTx
<1>2. TypeOK'
  BY <1>0, EndOfTx DEF IInv, TypeOK, tables
<1>y. /\ EventsAreEligible' /\ Numbered'
      /\ \A e, r : OnRecord(e, r)' = OnRecord(e, r)
      /\ \A r : Recorded(r)' = Recorded(r)
  BY <1>0, TablesUnchanged DEF IInv
<1>3. ReadsAreRecorded'
  BY <1>y, <1>1, NoTxType DEF IInv, ReadsAreRecorded, TxEntry
<1>4. UniqueKeysInv'
  BY <1>y, <1>0, <1>1, NoTxType DEF IInv, UniqueKeysInv, Appending, Decided, TxEntry, tables
<1>5. OpenEvents'
  BY <1>0, <1>1 DEF IInv, OpenEvents, NoTx, Appending, Decided, TxEntry, tables
<1> QED
  BY <1>1, <1>2, <1>3, <1>4, <1>5, <1>y DEF IInv

\* What Commit does to the tables, in the two cases.
LEMMA CommitTables ==
    ASSUME IInv, NEW v \in Worker, Commit(v)
    PROVE  /\ tx[v].snapshot \in Snapshot /\ TxEntry(v) \in Entry
           /\ \/ UNCHANGED <<events, ids, current>>
              \/ /\ Appending(v)
                 /\ tx[v].decision \in CanonicalDecisions
                 /\ events' = [events EXCEPT ![TxEntry(v)] =
                                    Append(events[TxEntry(v)], tx[v].snapshot)]
                 /\ ids' = [ids EXCEPT ![TxEntry(v)] =
                                    Append(ids[TxEntry(v)], Len(events[TxEntry(v)]) + 1)]
                 /\ current' = [current EXCEPT ![TxEntry(v)] =
                                    Len(events[TxEntry(v)]) + 1]
<1>1. tx[v].snapshot \in Snapshot /\ TxEntry(v) \in Entry
  BY ObservedType DEF IInv, LockInv, Commit, TxEntry
<1>2. tx[v].decision \in CanonicalDecisions =>
          Appending(v) /\ tx[v].event = Len(events[TxEntry(v)]) + 1
  BY DEF IInv, OpenEvents, Commit, Appending, Decided
<1> QED
  BY <1>1, <1>2 DEF Commit, PublishEvent

\* The invariant survives a commit, which publishes the event, the pointer and the flag.
LEMMA CommitIInv ==
    ASSUME IInv, NEW v \in Worker, Commit(v)
    PROVE  IInv'
<1> DEFINE e == TxEntry(v)
           s == tx[v].snapshot
           n == Len(events[e])
<1>s. s \in Snapshot /\ e \in Entry /\ EntryOf(s) = e
  BY CommitTables DEF TxEntry
<1>0. tx[v].pc = "commit" /\ ReleaseLock(v) /\ EndTx(v)
  BY DEF Commit
<1>1. /\ tx'[v] = NoTx /\ \A w \in Worker \ {v} : tx'[w] = tx[w]
      /\ LockInv' /\ DecisionInv'
  BY <1>0, EndOfTx
<1>t. /\ events \in [Entry -> Seq(Snapshot)] /\ current \in [Entry -> Nat]
      /\ ids \in [Entry -> Seq(Nat)]
      /\ \A x \in Entry : current[x] = Len(events[x])
  BY DEF IInv, TypeOK, Numbered
<1>f. flags' \subseteq Snapshot
  BY <1>s DEF Commit, IInv, TypeOK
<1>k. \/ UNCHANGED <<events, ids, current>>
      \/ /\ Appending(v)
         /\ events' = [events EXCEPT ![e] = Append(events[e], s)]
         /\ ids' = [ids EXCEPT ![e] = Append(ids[e], n + 1)]
         /\ current' = [current EXCEPT ![e] = n + 1]
  BY CommitTables
<1>a. /\ Append(events[e], s) \in Seq(Snapshot)
      /\ Len(Append(events[e], s)) = Len(events[e]) + 1
      /\ DOMAIN events[e] = 1 .. Len(events[e]) /\ Len(events[e]) \in Nat
      /\ DOMAIN Append(events[e], s) = 1 .. (Len(events[e]) + 1)
      /\ \A i \in DOMAIN events[e] : Append(events[e], s)[i] = events[e][i]
      /\ Append(events[e], s)[Len(events[e]) + 1] = s
  <2>1. events[e] \in Seq(Snapshot)
    BY <1>s, <1>t
  <2> QED
    BY <2>1, <1>s, AppendFacts
<1>b. /\ n + 1 \in Nat
      /\ Append(ids[e], n + 1) \in Seq(Nat)
      /\ Len(Append(ids[e], n + 1)) = n + 1
      /\ \A i \in DOMAIN Append(ids[e], n + 1) : Append(ids[e], n + 1)[i] = i
  <2>1. /\ ids[e] \in Seq(Nat) /\ n + 1 \in Nat /\ Len(ids[e]) = n
        /\ \A i \in DOMAIN ids[e] : ids[e][i] = i
    BY <1>s, <1>t, <1>a DEF IInv, Numbered
  <2> HIDE DEF n
  <2>2. /\ Append(ids[e], n + 1) \in Seq(Nat)
        /\ Len(Append(ids[e], n + 1)) = n + 1
        /\ DOMAIN ids[e] = 1 .. n
        /\ DOMAIN Append(ids[e], n + 1) = 1 .. (n + 1)
        /\ \A i \in DOMAIN ids[e] : Append(ids[e], n + 1)[i] = ids[e][i]
        /\ Append(ids[e], n + 1)[n + 1] = n + 1
    BY <2>1, AppendFacts
  <2>3. \A i \in 1 .. (n + 1) : i \in 1 .. n \/ i = n + 1
    BY <2>1
  <2> QED
    BY <2>1, <2>2, <2>3
<1>2. TypeOK'
  <2>1. CASE UNCHANGED <<events, ids, current>>
    BY <2>1, <1>f, <1>0, EndOfTx DEF IInv, TypeOK
  <2>2. CASE /\ events' = [events EXCEPT ![e] = Append(events[e], s)]
             /\ ids' = [ids EXCEPT ![e] = Append(ids[e], n + 1)]
             /\ current' = [current EXCEPT ![e] = n + 1]
    <3>1. events' \in [Entry -> Seq(Snapshot)]
      BY <1>s, <1>t, <1>a, <2>2
    <3>2. current' \in [Entry -> Nat]
      BY <1>s, <1>t, <1>b, <2>2
    <3>3. ids' \in [Entry -> Seq(Nat)]
      BY <1>s, <1>t, <1>b, <2>2
    <3> QED
      BY <3>1, <3>2, <3>3, <1>f, <1>0, EndOfTx DEF TypeOK
  <2> QED
    BY <1>k, <2>1, <2>2
<1>p. Numbered'
  <2>1. CASE UNCHANGED <<events, ids, current>>
    BY <2>1 DEF IInv, Numbered
  <2>2. CASE /\ events' = [events EXCEPT ![e] = Append(events[e], s)]
             /\ ids' = [ids EXCEPT ![e] = Append(ids[e], n + 1)]
             /\ current' = [current EXCEPT ![e] = n + 1]
    <3>1. \A x \in Entry \ {e} :
              events'[x] = events[x] /\ ids'[x] = ids[x] /\ current'[x] = current[x]
      BY <1>t, <2>2
    <3>2. /\ events'[e] = Append(events[e], s) /\ ids'[e] = Append(ids[e], n + 1)
          /\ current'[e] = n + 1
      BY <1>s, <1>t, <2>2
    <3> QED
      BY <3>1, <3>2, <1>a, <1>b DEF IInv, Numbered
  <2> QED
    BY <1>k, <2>1, <2>2
<1>g. \A x \in Entry : \A r : OnRecord(x, r) => OnRecord(x, r)'
  <2>1. CASE UNCHANGED events
    BY <2>1 DEF OnRecord
  <2>2. CASE events' = [events EXCEPT ![e] = Append(events[e], s)]
    <3> SUFFICES ASSUME NEW x \in Entry, NEW r, NEW i \in DOMAIN events[x], events[x][i] = r
                 PROVE  i \in DOMAIN events'[x] /\ events'[x][i] = r
      BY DEF OnRecord
    <3>1. CASE x = e
      BY <3>1, <2>2, <1>s, <1>t, <1>a
    <3>2. CASE x # e
      BY <3>2, <2>2, <1>s, <1>t
    <3> QED
      BY <3>1, <3>2
  <2> QED
    BY <1>k, <2>1, <2>2
<1>h. \A x \in Entry \ {e} : /\ events'[x] = events[x] /\ current'[x] = current[x]
                             /\ \A r : OnRecord(x, r)' = OnRecord(x, r)
  BY <1>k, <1>s, <1>t DEF OnRecord
<1>3. ReadsAreRecorded'
  <2>1. \A w \in Worker : tx[w].pc # "idle" => TxEntry(w) \in Entry
    BY ObservedType DEF IInv, LockInv, TxEntry
  <2> QED
    BY <2>1, <1>g, <1>1, NoTxType DEF IInv, ReadsAreRecorded, TxEntry
<1>4. UniqueKeysInv'
  <2>1. \A w \in Worker \ {v} : HoldsLock(w) =>
            TxEntry(w) \in Entry \ {e} /\ EntryOf(tx[w].snapshot) = TxEntry(w)
    BY <1>0, LockExcludes, ObservedType DEF IInv, LockInv, HoldsLock, TxEntry
  <2> QED
    BY <2>1, <1>h, <1>1, NoTxType
    DEF IInv, UniqueKeysInv, Appending, Decided, HoldsLock, Recorded, TxEntry
<1>5. EventsAreEligible'
  <2>1. Appending(v) => Eligible(Observed[s])
    <3>1. Appending(v) => Answer(s, tx[v].seen) \in CanonicalDecisions
      BY DEF IInv, DecisionInv, Appending
    <3> QED
      BY <3>1, DecideCanonical DEF Answer
  <2>2. \A x \in Entry : \A i \in DOMAIN events[x] :
            EntryOf(events[x][i]) = x /\ Eligible(Observed[events[x][i]])
    BY DEF IInv, EventsAreEligible
  <2>3. CASE UNCHANGED events
    BY <2>2, <2>3 DEF EventsAreEligible, EntryOf
  <2>4. CASE Appending(v) /\ events' = [events EXCEPT ![e] = Append(events[e], s)]
    <3>1. \A i \in DOMAIN events'[e] :
              EntryOf(events'[e][i]) = e /\ Eligible(Observed[events'[e][i]])
      <4>1. events'[e] = Append(events[e], s)
        BY <1>s, <1>t, <2>4
      <4>2. \A i \in 1 .. (Len(events[e]) + 1) : i \in DOMAIN events[e] \/ i = Len(events[e]) + 1
        BY <1>a
      <4> QED
        BY <4>1, <4>2, <1>s, <1>a, <2>1, <2>2, <2>4
    <3> QED
      BY <3>1, <2>2, <1>s, <1>t, <2>4 DEF EventsAreEligible
  <2> QED
    BY <1>k, <2>3, <2>4
<1>6. OpenEvents'
  <2>1. \A w \in Worker \ {v} : tx[w].event # 0 => TxEntry(w) \in Entry \ {e}
    BY <1>0, LockExcludes, ObservedType
    DEF IInv, LockInv, HoldsLock, OpenEvents, TxEntry
  <2> QED
    BY <2>1, <1>h, <1>1 DEF IInv, OpenEvents, NoTx, Appending, Decided, TxEntry
<1> QED
  BY <1>1, <1>2, <1>3, <1>4, <1>5, <1>6, <1>p DEF IInv

------------------------------------------------------------------------------
\* Every step of reconcileAcceptedSnapshot, by any worker, keeps the invariant.
THEOREM NextIInv == IInv /\ [Next]_vars => IInv'
<1> SUFFICES ASSUME IInv, [Next]_vars PROVE IInv'
  OBVIOUS
<1>1. ASSUME NEW w \in Worker, NEW s \in Snapshot, Begin(w, s) PROVE IInv'
  BY <1>1, BeginIInv
<1>2. ASSUME NEW w \in Worker, Step(w) PROVE IInv'
  BY <1>2, LockEntryIInv, ReadCurrentIInv, StatementIInv, CommitIInv, RollbackIInv
  DEF Step, RejectDuplicate
<1>3. ASSUME NEW w \in Worker, Fail(w) PROVE IInv'
  BY <1>3, RollbackIInv DEF Fail
<1>4. CASE UNCHANGED vars
  <2>1. TypeOK' /\ LockInv' /\ ReadsAreRecorded' /\ DecisionInv'
    BY <1>4 DEF vars, IInv, TypeOK, LockInv, HoldsLock, TxEntry, ReadsAreRecorded,
           OnRecord, DecisionInv, Decided
  <2>2. UniqueKeysInv' /\ EventsAreEligible'
    BY <1>4 DEF vars, IInv, TxEntry, OnRecord, Decided, UniqueKeysInv, Appending, Recorded,
           EventsAreEligible
  <2>3. Numbered' /\ OpenEvents'
    BY <1>4 DEF vars, IInv, TxEntry, Decided, Appending, Numbered, OpenEvents
  <2> QED
    BY <2>1, <2>2, <2>3 DEF IInv
<1> QED
  BY <1>1, <1>2, <1>3, <1>4 DEF Next

\* The inductive invariant holds throughout.
LEMMA SpecIInv == Spec => []IInv
BY InitIInv, NextIInv, PTL DEF Spec

\* Under either isolation level the tables keep their types.
THEOREM TypeCorrect == Spec => []TypeOK
BY SpecIInv, PTL DEF IInv

\* Under either isolation level current_scores points at the event with the
\* greatest id of its entry in every reachable state: the order of the inserts
\* is that of the commits, because the entry lock is held from one to the other.
THEOREM PointerCorrect == Spec => []PointerIsLatestEvent
<1>1. IInv => PointerIsLatestEvent
  <2> SUFFICES ASSUME IInv, NEW e \in Entry
               PROVE  /\ \A id \in ToSet(ids[e]) : id <= current[e]
                      /\ current[e] \in ToSet(ids[e]) \cup {0}
    BY DEF PointerIsLatestEvent
  <2>1. /\ ids[e] \in Seq(Nat) /\ current[e] = Len(ids[e])
        /\ \A i \in DOMAIN ids[e] : ids[e][i] = i
    BY DEF IInv, TypeOK, Numbered
  <2>2. ToSet(ids[e]) = 1 .. Len(ids[e]) /\ Len(ids[e]) \in Nat
    BY <2>1 DEF ToSet
  <2> QED
    BY <2>1, <2>2
<1> QED
  BY SpecIInv, <1>1, PTL

------------------------------------------------------------------------------
(***************************************************************************)
(* The canonical timelines.  First what holds under either isolation       *)
(* level; then, for READ_COMMITTED, that the competitive time of a         *)
(* timeline never goes back and that the transactions implement the atomic *)
(* decisions of CanonicalLedger.                                           *)
(***************************************************************************)

\* A transaction that is about to append s to the timeline of e knows this:
\* s is new and eligible, and the rows seen, which are on record, have its
\* source and no later time; if none was seen, the timeline is empty.
MayAppend(s, e, seen) ==
    /\ s \in Snapshot /\ e = EntryOf(s) /\ e \in Entry
    /\ ~OnRecord(e, s)
    /\ Eligible(Observed[s])
    /\ \A r \in seen : /\ r \in Snapshot /\ OnRecord(e, r)
                       /\ Observed[r].source = Observed[s].source
                       /\ ~(At(s) < At(r))
    /\ seen = {} => Len(events[e]) = 0

Appended(s, e) == events' = [events EXCEPT ![e] = Append(events[e], s)]

\* A commit of a canonical decision appends one snapshot that may be appended.
LEMMA CommitAppends ==
    ASSUME IInv, NEW v \in Worker, Commit(v), Appending(v)
    PROVE  /\ MayAppend(tx[v].snapshot, TxEntry(v), tx[v].seen)
           /\ Appended(tx[v].snapshot, TxEntry(v))
<1> DEFINE s == tx[v].snapshot
           e == TxEntry(v)
<1>1. s \in Snapshot /\ e \in Entry /\ e = EntryOf(s) /\ tx[v].pc = "commit"
  BY CommitTables DEF TxEntry, Commit
<1>2. Appended(s, e)
  BY DEF Commit, PublishEvent, Appending, Appended
<1>3. ~OnRecord(e, s) /\ (tx[v].seen = {} => current[e] = 0)
  BY <1>1 DEF IInv, UniqueKeysInv, Recorded
<1>4. current[e] = Len(events[e])
  BY <1>1 DEF IInv, Numbered
<1>5. Answer(s, tx[v].seen) \in CanonicalDecisions
  BY DEF IInv, DecisionInv, Appending
<1>6. /\ Eligible(Observed[s])
      /\ \A row \in {Observed[r] : r \in tx[v].seen} :
            row.source = Observed[s].source /\ ~(Observed[s].at < row.at)
  BY <1>5, DecideCanonical DEF Answer
<1>7. \A r \in tx[v].seen : r \in Snapshot /\ OnRecord(e, r)
  BY <1>1 DEF IInv, TypeOK, Tx, ReadsAreRecorded
<1> QED
  BY <1>1, <1>2, <1>3, <1>4, <1>6, <1>7 DEF MayAppend, At

\* A timeline changes only when a transaction commits that appends to it.
LEMMA EventsStep ==
    ASSUME IInv, [Next]_vars
    PROVE  \/ UNCHANGED events
           \/ \E v \in Worker : Commit(v) /\ Appending(v)
<1>1. ASSUME NEW w \in Worker, Step(w) \/ Fail(w) PROVE
        UNCHANGED events \/ (Commit(w) /\ Appending(w))
  BY <1>1 DEF Step, Fail, LockEntry, ReadCurrent, AppendFlag, InsertEvent, WritePointer,
         RejectDuplicate, Rollback, tables, Commit, Appending, Decided
<1>2. CASE UNCHANGED vars
  BY <1>2 DEF vars
<1> QED
  BY <1>1, <1>2 DEF Next, Begin, tables

\* What appending to the timeline of e means entry by entry.
LEMMA AppendedFacts ==
    ASSUME TypeOK, NEW e \in Entry, NEW s \in Snapshot, Appended(s, e)
    PROVE  /\ \A x \in Entry \ {e} : events'[x] = events[x]
           /\ DOMAIN events[e] = 1 .. Len(events[e]) /\ Len(events[e]) \in Nat
           /\ DOMAIN events'[e] = 1 .. (Len(events[e]) + 1)
           /\ \A i \in DOMAIN events[e] :
                 events'[e][i] = events[e][i] /\ events[e][i] \in Snapshot
           /\ events'[e][Len(events[e]) + 1] = s
<1>1. events[e] \in Seq(Snapshot) /\ events'[e] = Append(events[e], s)
      /\ \A x \in Entry \ {e} : events'[x] = events[x]
  BY DEF TypeOK, Appended
<1> QED
  BY <1>1, AppendFacts

------------------------------------------------------------------------------
\* Under either isolation level a snapshot has at most one canonical event.
THEOREM UniqueEvents == Spec => []OneEventPerSnapshot
<1>1. Init => OneEventPerSnapshot
  BY DEF Init, OneEventPerSnapshot
<1>2. IInv /\ OneEventPerSnapshot /\ [Next]_vars => OneEventPerSnapshot'
  <2> SUFFICES ASSUME IInv, OneEventPerSnapshot, [Next]_vars
               PROVE  OneEventPerSnapshot'
    OBVIOUS
  <2>1. CASE UNCHANGED events
    BY <2>1 DEF OneEventPerSnapshot
  <2>2. ASSUME NEW s, NEW e, NEW seen, MayAppend(s, e, seen), Appended(s, e)
        PROVE  OneEventPerSnapshot'
    <3> SUFFICES ASSUME NEW x \in Entry, NEW i \in DOMAIN events'[x],
                        NEW j \in DOMAIN events'[x], events'[x][i] = events'[x][j]
                 PROVE  i = j
      BY DEF OneEventPerSnapshot
    <3>1. CASE x # e
      BY <3>1, <2>2, AppendedFacts DEF IInv, MayAppend, OneEventPerSnapshot
    <3>2. CASE x = e
      <4>1. /\ \A k \in DOMAIN events[e] : events[e][k] # s
            /\ \A k, m \in DOMAIN events[e] : events[e][k] = events[e][m] => k = m
        BY <2>2 DEF MayAppend, OnRecord, OneEventPerSnapshot
      <4>2. \A k \in DOMAIN events'[e] : k \in DOMAIN events[e] \/ k = Len(events[e]) + 1
        BY <2>2, AppendedFacts DEF IInv, MayAppend
      <4> QED
        BY <4>1, <4>2, <3>2, <2>2, AppendedFacts DEF IInv, MayAppend
    <3> QED
      BY <3>1, <3>2
  <2> QED
    BY <2>1, <2>2, EventsStep, CommitAppends
<1> QED
  BY <1>1, <1>2, SpecIInv, PTL DEF Spec

\* Under either isolation level a timeline keeps the source it started with.
THEOREM OneSource == Spec => []SingleSourceTimeline
<1>1. Init => SingleSourceTimeline
  BY DEF Init, SingleSourceTimeline
<1>2. IInv /\ SingleSourceTimeline /\ [Next]_vars => SingleSourceTimeline'
  <2> SUFFICES ASSUME IInv, SingleSourceTimeline, [Next]_vars
               PROVE  SingleSourceTimeline'
    OBVIOUS
  <2>1. CASE UNCHANGED events
    BY <2>1 DEF SingleSourceTimeline
  <2>2. ASSUME NEW s, NEW e, NEW seen, MayAppend(s, e, seen), Appended(s, e)
        PROVE  SingleSourceTimeline'
    <3>1. \A i \in DOMAIN events[e] : Observed[events[e][i]].source = Observed[s].source
      <4>1. CASE seen = {}
        BY <4>1, <2>2, AppendedFacts DEF IInv, MayAppend
      <4>2. CASE seen # {}
        BY <4>2, <2>2 DEF MayAppend, OnRecord, SingleSourceTimeline
      <4> QED
        BY <4>1, <4>2
    <3>2. \A i \in DOMAIN events'[e] : Observed[events'[e][i]].source = Observed[s].source
      <4>1. \A k \in DOMAIN events'[e] : k \in DOMAIN events[e] \/ k = Len(events[e]) + 1
        BY <2>2, AppendedFacts DEF IInv, MayAppend
      <4> QED
        BY <4>1, <3>1, <2>2, AppendedFacts DEF IInv, MayAppend
    <3>3. \A x \in Entry \ {e} : events'[x] = events[x]
      BY <2>2, AppendedFacts DEF IInv, MayAppend
    <3> QED
      BY <3>2, <3>3 DEF SingleSourceTimeline
  <2> QED
    BY <2>1, <2>2, EventsStep, CommitAppends
<1> QED
  BY <1>1, <1>2, SpecIInv, PTL DEF Spec

------------------------------------------------------------------------------
(* From here on: READ_COMMITTED.  The row a transaction has read under the  *)
(* entry's lock is still the entry's canonical row when it commits.         *)

FreshReads == \A w \in Worker : Decided(w) => tx[w].seen = CanonicalRow(TxEntry(w))

SerialIInv == IInv /\ FlagsAreJustified /\ EffectiveNeverRegresses /\ FreshReads

\* Under READ_COMMITTED the rows a transaction decided on stay the canonical ones.
LEMMA FreshReadsStep ==
    ASSUME Isolation = "READ_COMMITTED", IInv, FreshReads, [Next]_vars
    PROVE  FreshReads'
<1> USE DEF FreshReads, IInv
<1>1. ASSUME NEW v \in Worker, UNCHANGED tables, ~Decided(v)',
             \A w \in Worker \ {v} : tx'[w] = tx[w]
      PROVE  FreshReads'
  BY <1>1 DEF Decided, CanonicalRow, TxEntry, EntryOf, tables
<1>2. ASSUME NEW v \in Worker, NEW s \in Snapshot, Begin(v, s) PROVE FreshReads'
  BY <1>1, <1>2 DEF Begin, TypeOK, Decided
<1>3. ASSUME NEW v \in Worker, LockEntry(v) PROVE FreshReads'
  <2>1. tx'[v].pc = "read" /\ \A w \in Worker \ {v} : tx'[w] = tx[w]
    BY <1>3 DEF LockEntry, TypeOK, Tx
  <2>2. UNCHANGED tables /\ ~Decided(v)'
    BY <1>3, <2>1 DEF LockEntry, Decided
  <2> QED
    BY <1>1, <2>1, <2>2 DEF Decided
<1>4. ASSUME NEW v \in Worker, Rollback(v) PROVE FreshReads'
  BY <1>1, <1>4, EndOfTx, NoTxType DEF Rollback, Decided
<1>5. ASSUME NEW v \in Worker, ReadCurrent(v) PROVE FreshReads'
  <2>1. /\ tx'[v].snapshot = tx[v].snapshot
        /\ tx'[v].seen = CanonicalRow(TxEntry(v))
        /\ UNCHANGED tables
        /\ \A w \in Worker \ {v} : tx'[w] = tx[w]
    BY <1>5 DEF ReadCurrent, VisibleRow, TypeOK, Tx
  <2>2. (tx[v].seen = CanonicalRow(TxEntry(v)))'
    BY <2>1 DEF CanonicalRow, TxEntry, EntryOf, tables
  <2>3. ASSUME NEW w \in Worker \ {v}, Decided(w)'
        PROVE  (tx[w].seen = CanonicalRow(TxEntry(w)))'
    BY <2>1, <2>3 DEF Decided, CanonicalRow, TxEntry, EntryOf, tables
  <2> QED
    BY <2>2, <2>3
<1>6. ASSUME NEW v \in Worker, AppendFlag(v) \/ InsertEvent(v) \/ WritePointer(v)
      PROVE  FreshReads'
  <2>1. /\ Decided(v)
        /\ tx'[v].snapshot = tx[v].snapshot
        /\ tx'[v].seen = tx[v].seen
        /\ UNCHANGED tables
        /\ \A w \in Worker \ {v} : tx'[w] = tx[w]
    BY <1>6 DEF AppendFlag, InsertEvent, WritePointer, TypeOK, Tx, Decided
  <2> QED
    BY <2>1 DEF Decided, CanonicalRow, TxEntry, EntryOf, tables
<1>7. ASSUME NEW v \in Worker, Commit(v) PROVE FreshReads'
  <2>1. /\ ReleaseLock(v) /\ EndTx(v) /\ HoldsLock(v)
        /\ \A x \in Entry \ {TxEntry(v)} :
              events'[x] = events[x] /\ ids'[x] = ids[x] /\ current'[x] = current[x]
    BY <1>7, CommitTables DEF Commit, HoldsLock, TypeOK
  <2>2. tx'[v] = NoTx /\ \A w \in Worker \ {v} : tx'[w] = tx[w]
    BY <2>1, EndOfTx
  <2>3. \A w \in Worker \ {v} : Decided(w) => TxEntry(w) \in Entry \ {TxEntry(v)}
    BY <2>1, LockExcludes, ObservedType DEF LockInv, HoldsLock, Decided, TxEntry
  <2> QED
    BY <2>1, <2>2, <2>3, NoTxType DEF Decided, CanonicalRow, TxEntry, EntryOf
<1>8. CASE UNCHANGED vars
  BY <1>8 DEF vars, tables, Decided, CanonicalRow, TxEntry, EntryOf
<1> QED
  BY <1>2, <1>3, <1>4, <1>5, <1>6, <1>7, <1>8 DEF Next, Step, RejectDuplicate, Fail

\* The row a committing transaction saw is the last one of the timeline, so
\* with monotone times nothing on the timeline is later than its snapshot.
LEMMA AppendsInOrder ==
    ASSUME SerialIInv, NEW v \in Worker, Commit(v), Appending(v)
    PROVE  /\ At(tx[v].snapshot) \in Nat
           /\ \A i \in DOMAIN events[TxEntry(v)] :
                 At(events[TxEntry(v)][i]) \in Nat
                 /\ At(events[TxEntry(v)][i]) <= At(tx[v].snapshot)
<1> DEFINE s == tx[v].snapshot
           e == TxEntry(v)
<1>1. MayAppend(s, e, tx[v].seen) /\ tx[v].seen = CanonicalRow(e)
  BY CommitAppends DEF SerialIInv, FreshReads, Appending
<1>2. /\ events[e] \in Seq(Snapshot) /\ current[e] = Len(events[e])
      /\ s \in Snapshot /\ e \in Entry
  BY <1>1 DEF SerialIInv, IInv, TypeOK, Numbered, MayAppend
<1>3. \A i \in DOMAIN events[e] : At(events[e][i]) \in Nat
  BY <1>2, EligibleAt DEF SerialIInv, IInv, EventsAreEligible
<1>4. At(s) \in Nat
  BY <1>1, <1>2, EligibleAt DEF MayAppend
<1>5. ASSUME NEW i \in DOMAIN events[e] PROVE At(events[e][i]) <= At(s)
  <2>1. /\ DOMAIN events[e] = 1 .. Len(events[e]) /\ Len(events[e]) \in Nat
        /\ Len(events[e]) \in DOMAIN events[e]
    BY <1>2, <1>5
  <2> DEFINE last == events[e][Len(events[e])]
  <2>2. last \in tx[v].seen
    BY <1>1, <1>2, <2>1, CanonicalRowIs DEF SerialIInv, IInv
  <2>3. ~(At(s) < At(last))
    BY <1>1, <2>2 DEF MayAppend
  <2>4. At(events[e][i]) <= At(last)
    BY <1>2, <1>3, <2>1 DEF SerialIInv, EffectiveNeverRegresses
  <2> QED
    BY <1>3, <1>4, <2>1, <2>3, <2>4
<1> QED
  BY <1>3, <1>4, <1>5

\* No step lets the effective time of a timeline go back.
LEMMA EffectiveStep ==
    ASSUME SerialIInv, [Next]_vars PROVE EffectiveNeverRegresses'
<1>1. CASE UNCHANGED events
  BY <1>1 DEF SerialIInv, EffectiveNeverRegresses, At
<1>2. ASSUME NEW v \in Worker, Commit(v), Appending(v) PROVE EffectiveNeverRegresses'
  <2> SUFFICES ASSUME NEW x \in Entry, NEW i \in DOMAIN events'[x],
                      NEW j \in DOMAIN events'[x], i < j
               PROVE  At(events'[x][i]) <= At(events'[x][j])
    BY DEF EffectiveNeverRegresses, At
  <2>1. /\ TxEntry(v) \in Entry /\ tx[v].snapshot \in Snapshot
        /\ Appended(tx[v].snapshot, TxEntry(v)) /\ TypeOK
    BY <1>2, CommitAppends DEF SerialIInv, IInv, MayAppend
  <2>2. CASE x # TxEntry(v)
    BY <2>1, <2>2, AppendedFacts DEF SerialIInv, EffectiveNeverRegresses
  <2>3. CASE x = TxEntry(v)
    <3>1. i \in DOMAIN events[x] /\ events'[x][i] = events[x][i]
      BY <2>1, <2>3, AppendedFacts
    <3>2. CASE j \in DOMAIN events[x]
      BY <2>1, <2>3, <3>1, <3>2, AppendedFacts DEF SerialIInv, EffectiveNeverRegresses
    <3>3. CASE j \notin DOMAIN events[x]
      <4>1. events'[x][j] = tx[v].snapshot
        BY <2>1, <2>3, <3>3, AppendedFacts
      <4> QED
        BY <1>2, <2>3, <3>1, <4>1, AppendsInOrder
    <3> QED
      BY <3>2, <3>3
  <2> QED
    BY <2>2, <2>3
<1> QED
  BY <1>1, <1>2, EventsStep DEF SerialIInv

\* A new flag comes from a commit whose transaction saw a later row; old
\* flags stay justified because timelines only grow.  (Either isolation level.)
LEMMA FlagsStep ==
    ASSUME IInv, FlagsAreJustified, [Next]_vars PROVE FlagsAreJustified'
<1>1. CASE UNCHANGED <<events, flags>>
  BY <1>1 DEF FlagsAreJustified, EntryOf, At
<1>2. ASSUME NEW v \in Worker, Commit(v) PROVE FlagsAreJustified'
  <2> DEFINE s == tx[v].snapshot
  <2>1. /\ s \in Snapshot /\ EntryOf(s) \in Entry /\ tx[v].pc = "commit"
        /\ flags' = IF tx[v].decision = "OUT_OF_ORDER" THEN flags \cup {s} ELSE flags
    BY <1>2, CommitTables DEF Commit, TxEntry
  <2>2. ASSUME NEW x \in Entry, NEW i \in DOMAIN events[x]
        PROVE  i \in DOMAIN events'[x] /\ events'[x][i] = events[x][i]
    <3>1. CASE UNCHANGED events
      BY <3>1
    <3>2. CASE Appending(v)
      <4>1. /\ TxEntry(v) \in Entry /\ s \in Snapshot /\ TypeOK
            /\ Appended(s, TxEntry(v))
        BY <1>2, <3>2, CommitAppends DEF IInv, MayAppend
      <4> QED
        BY <4>1, AppendedFacts
    <3> QED
      BY <1>2, <3>1, <3>2, CommitTables
  <2>3. tx[v].decision = "OUT_OF_ORDER" =>
            \E i \in DOMAIN events[EntryOf(s)] : At(s) < At(events[EntryOf(s)][i])
    <3> SUFFICES ASSUME tx[v].decision = "OUT_OF_ORDER"
                 PROVE  \E i \in DOMAIN events[EntryOf(s)] :
                            At(s) < At(events[EntryOf(s)][i])
      OBVIOUS
    <3>1. Answer(s, tx[v].seen) = "OUT_OF_ORDER"
      BY <2>1 DEF IInv, DecisionInv, Decided
    <3>2. \E r \in tx[v].seen : At(s) < At(r)
      BY <3>1, DecideOutOfOrder DEF Answer, At
    <3>3. \A r \in tx[v].seen : OnRecord(EntryOf(s), r)
      BY <2>1 DEF IInv, ReadsAreRecorded, TxEntry
    <3> QED
      BY <3>2, <3>3 DEF OnRecord
  <2> SUFFICES ASSUME NEW f \in flags'
               PROVE  \E i \in DOMAIN events'[EntryOf(f)] :
                          At(f) < At(events'[EntryOf(f)][i])
    BY DEF FlagsAreJustified, EntryOf, At
  <2>4. EntryOf(f) \in Entry
    BY <2>1, ObservedType DEF IInv, TypeOK
  <2>5. \E i \in DOMAIN events[EntryOf(f)] : At(f) < At(events[EntryOf(f)][i])
    BY <2>1, <2>3 DEF FlagsAreJustified
  <2> QED
    BY <2>2, <2>4, <2>5
<1>3. ASSUME NEW w \in Worker, Step(w) \/ Fail(w), ~Commit(w)
      PROVE  UNCHANGED <<events, flags>>
  BY <1>3 DEF Step, Fail, LockEntry, ReadCurrent, AppendFlag, InsertEvent, WritePointer,
         RejectDuplicate, Rollback, tables
<1> QED
  BY <1>1, <1>2, <1>3 DEF Next, Begin, tables, vars

\* Under either isolation level every OUT_OF_ORDER flag is backed by a later
\* canonical event of the same entry.
THEOREM JustifiedFlags == Spec => []FlagsAreJustified
<1>1. Init => FlagsAreJustified
  BY DEF Init, FlagsAreJustified
<1>2. IInv /\ FlagsAreJustified /\ [Next]_vars => FlagsAreJustified'
  BY FlagsStep
<1> QED
  BY <1>1, <1>2, SpecIInv, PTL DEF Spec

\* The invariant of READ_COMMITTED holds while nothing is on record.
THEOREM InitSerial == Init => SerialIInv
<1>1. Init => FlagsAreJustified /\ EffectiveNeverRegresses /\ FreshReads
  BY DEF Init, NoTx, FlagsAreJustified, EffectiveNeverRegresses, FreshReads, Decided
<1> QED
  BY <1>1, InitIInv DEF SerialIInv

\* Under READ_COMMITTED every step of reconcileAcceptedSnapshot keeps its invariant.
THEOREM NextSerial ==
    Isolation = "READ_COMMITTED" => (SerialIInv /\ [Next]_vars => SerialIInv')
BY NextIInv, FlagsStep, EffectiveStep, FreshReadsStep DEF SerialIInv

\* The invariant of READ_COMMITTED holds throughout.
LEMMA SpecSerial == Isolation = "READ_COMMITTED" => (Spec => []SerialIInv)
<1> SUFFICES ASSUME Isolation = "READ_COMMITTED" PROVE Spec => []SerialIInv
  OBVIOUS
<1>1. SerialIInv /\ [Next]_vars => SerialIInv'
  BY NextSerial
<1> QED
  BY <1>1, InitSerial, PTL DEF Spec

\* With READ_COMMITTED the competitive time of a canonical timeline never goes
\* back, for any number of collectors, entries and snapshots.
THEOREM MonotoneTimeline ==
    Isolation = "READ_COMMITTED" => (Spec => []EffectiveNeverRegresses)
<1> SUFFICES ASSUME Isolation = "READ_COMMITTED"
             PROVE  Spec => []EffectiveNeverRegresses
  OBVIOUS
<1>1. SerialIInv => EffectiveNeverRegresses
  BY DEF SerialIInv
<1> QED
  BY <1>1, SpecSerial, PTL

\* With READ_COMMITTED a snapshot diagnosed as late is never promoted later.
THEOREM LateNeverPromoted == Isolation = "READ_COMMITTED" => (Spec => LateStaysOut)
<1> SUFFICES ASSUME Isolation = "READ_COMMITTED" PROVE Spec => LateStaysOut
  OBVIOUS
<1>1. SerialIInv /\ [Next]_vars =>
          [\A s \in flags : ~Recorded(s) => ~Recorded(s)']_vars
  <2> SUFFICES ASSUME SerialIInv, [Next]_vars, NEW s \in flags, ~Recorded(s)
               PROVE  ~Recorded(s)'
    OBVIOUS
  <2>1. CASE UNCHANGED events
    BY <2>1 DEF Recorded, OnRecord, EntryOf
  <2>2. ASSUME NEW v \in Worker, Commit(v), Appending(v) PROVE ~Recorded(s)'
    <3>1. /\ TxEntry(v) \in Entry /\ tx[v].snapshot \in Snapshot
          /\ TxEntry(v) = EntryOf(tx[v].snapshot)
          /\ Appended(tx[v].snapshot, TxEntry(v)) /\ TypeOK
      BY <2>2, CommitAppends DEF SerialIInv, IInv, MayAppend
    <3>2. /\ s \in Snapshot /\ EntryOf(s) \in Entry
          /\ At(s) \in Nat \cup {NoTimestamp}
      BY ObservedType DEF SerialIInv, IInv, TypeOK
    <3>3. s # tx[v].snapshot
      <4>1. PICK i \in DOMAIN events[EntryOf(s)] : At(s) < At(events[EntryOf(s)][i])
        BY DEF SerialIInv, FlagsAreJustified
      <4>2. s = tx[v].snapshot => /\ At(s) \in Nat
                                  /\ At(events[EntryOf(s)][i]) \in Nat
                                  /\ At(events[EntryOf(s)][i]) <= At(s)
        BY <2>2, <3>1, <4>1, AppendsInOrder
      <4> QED
        BY <4>1, <4>2
    <3>4. \A i \in DOMAIN events'[EntryOf(s)] : events'[EntryOf(s)][i] # s
      <4>1. \A i \in DOMAIN events[EntryOf(s)] : events[EntryOf(s)][i] # s
        BY DEF Recorded, OnRecord
      <4>2. CASE EntryOf(s) = TxEntry(v)
        BY <3>1, <3>2, <3>3, <4>1, <4>2, AppendedFacts
      <4>3. CASE EntryOf(s) # TxEntry(v)
        BY <3>1, <3>2, <4>1, <4>3, AppendedFacts
      <4> QED
        BY <4>2, <4>3
    <3> QED
      BY <3>4 DEF Recorded, OnRecord, EntryOf
  <2> QED
    BY <2>1, <2>2, EventsStep DEF SerialIInv
<1> QED
  BY <1>1, SpecSerial, PTL DEF Spec, LateStaysOut

------------------------------------------------------------------------------
(* The refinement: a commit is an atomic decision of the ledger, every other *)
(* step a stutter.                                                           *)

\* The ledger decides by the same policy.
LEMMA SamePolicy ==
    /\ \A c, rows : Ledger!Decide(c, rows) = Decide(c, rows)
    /\ Ledger!CanonicalDecisions = CanonicalDecisions
BY DEF Decide, Eligible, CanonicalDecisions,
       Ledger!Decide, Ledger!Eligible, Ledger!CanonicalDecisions

\* What a transaction has decided is what the ledger would decide at this moment.
LEMMA VerdictIsAnswer ==
    ASSUME SerialIInv, NEW v \in Worker, Decided(v)
    PROVE  Ledger!Verdict(tx[v].snapshot) = tx[v].decision
<1> DEFINE s == tx[v].snapshot
           e == TxEntry(v)
<1>0. e \in Entry
  BY ObservedType DEF SerialIInv, IInv, LockInv, Decided, TxEntry
<1>1. /\ events[e] \in Seq(Snapshot) /\ current[e] = Len(events[e])
      /\ e = Observed[s].entry
  BY ObservedType
  DEF SerialIInv, IInv, TypeOK, LockInv, Numbered, Decided, TxEntry, EntryOf
<1>2. {Observed[r] : r \in CanonicalRow(e)} = Ledger!LastOf(e)
  BY <1>1, <1>0, CanonicalRowIs DEF SerialIInv, IInv, Ledger!LastOf
<1>3. tx[v].decision = Decide(Observed[s], {Observed[r] : r \in CanonicalRow(e)})
  BY DEF SerialIInv, IInv, DecisionInv, FreshReads, Answer
<1> QED
  BY <1>1, <1>2, <1>3, SamePolicy DEF Ledger!Verdict

\* Every step is one of the ledger or changes nothing that the ledger sees.
LEMMA StepRefines ==
    ASSUME SerialIInv, [Next]_vars
    PROVE  [Ledger!LedgerNext]_(Ledger!ledgerVars)
<1> USE DEF Ledger!ledgerVars
<1>1. ASSUME NEW v \in Worker, Commit(v)
      PROVE  Ledger!LedgerNext \/ UNCHANGED <<events, flags>>
  <2> DEFINE s == tx[v].snapshot
  <2>1. /\ s \in Snapshot /\ TxEntry(v) = Observed[s].entry /\ Decided(v)
    BY <1>1, CommitTables DEF SerialIInv, Commit, Decided, TxEntry, EntryOf
  <2>2. Ledger!Verdict(s) = tx[v].decision
    BY <2>1, VerdictIsAnswer
  <2>3. CASE tx[v].decision \in CanonicalDecisions
    <3>1. /\ ~OnRecord(Observed[s].entry, s) /\ Appended(s, Observed[s].entry)
      BY <1>1, <2>1, <2>3, CommitAppends DEF SerialIInv, Appending, MayAppend
    <3>2. UNCHANGED flags
      BY <1>1, <2>3 DEF Commit, CanonicalDecisions
    <3>3. Ledger!Extend(s)
      BY <2>2, <2>3, <3>1, <3>2, SamePolicy
      DEF Ledger!Extend, Ledger!AppendEvent, Ledger!OnTimeline, OnRecord, Appended
    <3> QED
      BY <2>1, <3>3 DEF Ledger!LedgerNext
  <2>4. CASE tx[v].decision = "OUT_OF_ORDER"
    <3>1. UNCHANGED events /\ flags' = flags \cup {s}
      BY <1>1, <2>4 DEF Commit, CanonicalDecisions
    <3>2. Ledger!Diagnose(s)
      BY <2>2, <2>4, <3>1 DEF Ledger!Diagnose, Ledger!FlagLate
    <3> QED
      BY <2>1, <3>2 DEF Ledger!LedgerNext
  <2>5. CASE tx[v].decision \notin CanonicalDecisions /\ tx[v].decision # "OUT_OF_ORDER"
    BY <1>1, <2>5 DEF Commit
  <2> QED
    BY <2>3, <2>4, <2>5
<1>2. ASSUME NEW w \in Worker, Step(w) \/ Fail(w), ~Commit(w)
      PROVE  UNCHANGED <<events, flags>>
  BY <1>2 DEF Step, Fail, LockEntry, ReadCurrent, AppendFlag, InsertEvent, WritePointer,
         RejectDuplicate, Rollback, tables
<1> QED
  BY <1>1, <1>2 DEF Next, Begin, tables, vars

\* With READ_COMMITTED the concurrent transactions implement the atomic,
\* append-only ledger: every step is one ledger decision or none.
THEOREM ReconciliationImplementsLedger ==
    Isolation = "READ_COMMITTED" => (Spec => LedgerRefinement)
<1> SUFFICES ASSUME Isolation = "READ_COMMITTED" PROVE Spec => LedgerRefinement
  OBVIOUS
<1>1. Init => Ledger!LedgerInit
  BY DEF Init, Ledger!LedgerInit
<1>2. SerialIInv /\ [Next]_vars => [Ledger!LedgerNext]_(Ledger!ledgerVars)
  BY StepRefines
<1> QED
  BY <1>1, <1>2, SpecSerial, PTL DEF Spec, LedgerRefinement, Ledger!LedgerSpec

=============================================================================

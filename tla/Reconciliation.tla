--------------------------- MODULE Reconciliation ---------------------------
(***************************************************************************)
(* reconcileAcceptedSnapshot (repository.ts and its PHP port), the short   *)
(* transaction that turns an accepted snapshot into a canonical score, as  *)
(* run at the same time by the collectors that share one database.         *)
(*                                                                         *)
(* One action per SQL statement, because every statement is an await (or a *)
(* PDO round trip) at which another collector's transaction may run:       *)
(*   Begin        BEGIN; plain SELECT of the candidate snapshot            *)
(*   LockEntry    SELECT ... FROM entries ... FOR UPDATE                   *)
(*   ReadCurrent  plain SELECT of the canonical row, then the policy       *)
(*   AppendFlag / InsertEvent / WritePointer   the writes it calls for     *)
(*   Commit, Fail (any error, lock wait timeout, lost session or crash)    *)
(*                                                                         *)
(* No code sets a transaction isolation level, so the server's default     *)
(* decides what ReadCurrent sees.  Isolation is therefore a constant:      *)
(* "REPEATABLE_READ" (InnoDB's default: all plain SELECTs of a transaction *)
(* read the view created by the first one, here in Begin, that is BEFORE   *)
(* the entry lock is held) or "READ_COMMITTED" (every plain SELECT reads   *)
(* the latest committed rows).                                             *)
(*                                                                         *)
(* An event of canonical_score_events is identified with the snapshot it   *)
(* selects (score_snapshot_id is UNIQUE).  Its AUTO_INCREMENT id is        *)
(* allotted by the INSERT, the row published by the COMMIT: a timeline is  *)
(* in the order of the commits, and nothing but the protocol makes that    *)
(* the order of the ids too.  Only the order of the ids of one entry is    *)
(* told apart, so a new id is one above those in use there.                *)
(***************************************************************************)
EXTENDS SingleSourcePolicy, SequencesExt

CONSTANTS Worker,       \* collector processes calling the repository
          Entry,        \* rows of entries
          Snapshot,     \* rows of score_snapshots, all committed
          Source,       \* rows of sources
          Observed,     \* the immutable columns of each snapshot
          Isolation,    \* effective transaction isolation level
          NoWorker, NoSnapshot

Observation == [entry : Entry, source : Source, status : Statuses,
                at : Nat \cup {NoTimestamp}, quality : Qualities]

ASSUME ObservedAssumption == Observed \in [Snapshot -> Observation]
ASSUME IsolationAssumption == Isolation \in {"REPEATABLE_READ", "READ_COMMITTED"}
ASSUME NullAssumption == NoWorker \notin Worker /\ NoSnapshot \notin Snapshot

VARIABLES events,       \* canonical_score_events: [Entry -> Seq(Snapshot)]
          ids,          \* and the id of each of these events
          current,      \* current_scores: the id an entry points at, 0 = no row
          flags,        \* score_snapshot_flags: snapshots flagged OUT_OF_ORDER
          lock,         \* exclusive row locks on entries
          tx            \* the open transaction of each worker

tables == <<events, ids, current, flags>>
vars == <<events, ids, current, flags, lock, tx>>

Statements == {"idle", "lock", "read", "flag", "event", "pointer", "commit"}

Tx == [pc : Statements, snapshot : Snapshot \cup {NoSnapshot},
       view : SUBSET Snapshot, seen : SUBSET Snapshot,
       decision : Decisions \cup {"NONE"}, event : Nat]

NoTx == [pc |-> "idle", snapshot |-> NoSnapshot, view |-> {},
         seen |-> {}, decision |-> "NONE", event |-> 0]

EntryOf(s) == Observed[s].entry
TxEntry(w) == EntryOf(tx[w].snapshot)

\* Slip: the join selects the pointer instead of the snapshot.
CanonicalRowIds(e) == IF current[e] = 0 THEN {} ELSE {current[e]}

\* current_scores joined with canonical_score_events and score_snapshots:
\* the snapshot an entry currently shows, as a result set.
CanonicalRow(e) == {events[e][i] : i \in {j \in DOMAIN ids[e] : ids[e][j] = current[e]}}

\* Is s on the timeline of e; does a canonical event select s already
\* (UNIQUE score_snapshot_id)?
OnRecord(e, s) == \E i \in DOMAIN events[e] : events[e][i] = s
Recorded(s) == OnRecord(EntryOf(s), s)

\* The ids given to events of e, committed or still open, and the next one.
EventIds(e) ==
    ToSet(ids[e]) \cup {tx[v].event : v \in {u \in Worker :
                                        tx[u].event # 0 /\ TxEntry(u) = e}}
NewEventId(e) == 1 + Max({0} \cup EventIds(e))

HoldsLock(w) == tx[w].pc \notin {"idle", "lock"}
------------------------------------------------------------------------------
Init ==
    /\ events  = [e \in Entry |-> <<>>]
    /\ ids     = [e \in Entry |-> <<>>]
    /\ current = [e \in Entry |-> 0]
    /\ flags   = {}
    /\ lock    = [e \in Entry |-> NoWorker]
    /\ tx      = [w \in Worker |-> NoTx]

\* The first consistent read of the transaction also fixes its read view.
Begin(w, s) ==
    /\ tx[w].pc = "idle"
    /\ tx' = [tx EXCEPT ![w] = [pc |-> "lock", snapshot |-> s,
                                view |-> CanonicalRow(EntryOf(s)),
                                seen |-> {}, decision |-> "NONE", event |-> 0]]
    /\ UNCHANGED <<tables, lock>>

\* Slip: the entry is read without FOR UPDATE.
LockEntryShared(w) ==
    /\ tx[w].pc = "lock"
    /\ lock' = [lock EXCEPT ![TxEntry(w)] = w]
    /\ tx' = [tx EXCEPT ![w].pc = "read"]
    /\ UNCHANGED tables

LockEntry(w) ==
    /\ tx[w].pc = "lock"
    /\ lock[TxEntry(w)] = NoWorker
    /\ lock' = [lock EXCEPT ![TxEntry(w)] = w]
    /\ tx' = [tx EXCEPT ![w].pc = "read"]
    /\ UNCHANGED tables

\* Slip: the row read before the lock was granted is used after it.
RowReadBeforeLock(w) == tx[w].view

\* What the plain SELECT after the lock returns.
VisibleRow(w) ==
    IF Isolation = "REPEATABLE_READ" THEN tx[w].view ELSE CanonicalRow(TxEntry(w))

\* The policy applied to a candidate and the snapshots its query returned.
Answer(s, rows) == Decide(Observed[s], {Observed[r] : r \in rows})

\* The statement the policy's decision leads to.
StatementFor(decision) ==
    CASE decision = "OUT_OF_ORDER"         -> "flag"
      [] decision \in CanonicalDecisions   -> "event"
      [] OTHER                             -> "commit"

ReadCurrent(w) ==
    LET seen     == VisibleRow(w)
        decision == Answer(tx[w].snapshot, seen)
    IN  /\ tx[w].pc = "read"
        /\ tx' = [tx EXCEPT ![w].seen = seen, ![w].decision = decision,
                            ![w].pc = StatementFor(decision)]
        /\ UNCHANGED <<tables, lock>>

\* The flag's unique fingerprint makes the insert idempotent: an existing
\* flag is found by the SELECT or reported as a duplicate key and ignored.
AppendFlag(w) ==
    /\ tx[w].pc = "flag"
    /\ tx' = [tx EXCEPT ![w].pc = "commit"]
    /\ UNCHANGED <<tables, lock>>

\* Slip: score_snapshot_id is not unique in canonical_score_events.
InsertEventAgain(w) ==
    /\ tx[w].pc = "event"
    /\ tx' = [tx EXCEPT ![w].pc = "pointer", ![w].event = NewEventId(TxEntry(w))]
    /\ UNCHANGED <<tables, lock>>

InsertEvent(w) ==
    /\ tx[w].pc = "event"
    /\ ~Recorded(tx[w].snapshot)
    /\ tx' = [tx EXCEPT ![w].pc = "pointer", ![w].event = NewEventId(TxEntry(w))]
    /\ UNCHANGED <<tables, lock>>

\* INSERT when no row was seen, UPDATE otherwise.
WritePointer(w) ==
    /\ tx[w].pc = "pointer"
    /\ tx[w].seen = {} => current[TxEntry(w)] = 0
    /\ tx' = [tx EXCEPT ![w].pc = "commit"]
    /\ UNCHANGED <<tables, lock>>

EndTx(w) == tx' = [tx EXCEPT ![w] = NoTx]

ReleaseLock(w) ==
    lock' = IF HoldsLock(w) THEN [lock EXCEPT ![TxEntry(w)] = NoWorker] ELSE lock

\* The event of a canonical decision and the pointer to it become visible.
PublishEvent(w) ==
    LET e == TxEntry(w)
    IN  /\ events'  = [events EXCEPT ![e] = Append(@, tx[w].snapshot)]
        /\ ids'     = [ids EXCEPT ![e] = Append(@, tx[w].event)]
        /\ current' = [current EXCEPT ![e] = tx[w].event]

\* Slip: every decision that is not canonical leaves an out-of-order flag.
CommitFlagsEverything(w) ==
    /\ tx[w].pc = "commit"
    /\ IF tx[w].decision \in CanonicalDecisions
       THEN PublishEvent(w) /\ UNCHANGED flags
       ELSE flags' = flags \cup {tx[w].snapshot} /\ UNCHANGED <<events, ids, current>>
    /\ ReleaseLock(w)
    /\ EndTx(w)

Commit(w) ==
    /\ tx[w].pc = "commit"
    /\ IF tx[w].decision \in CanonicalDecisions
       THEN PublishEvent(w) ELSE UNCHANGED <<events, ids, current>>
    /\ flags' = IF tx[w].decision = "OUT_OF_ORDER"
                THEN flags \cup {tx[w].snapshot} ELSE flags
    /\ ReleaseLock(w)
    /\ EndTx(w)

\* Slip: the transaction is given up without a ROLLBACK on its session.
RollbackForgotten(w) == UNCHANGED lock /\ EndTx(w) /\ UNCHANGED tables

Rollback(w) == ReleaseLock(w) /\ EndTx(w) /\ UNCHANGED tables

\* A unique key of canonical_score_events or current_scores rejects the
\* insert; nothing catches that error, so the transaction is rolled back.
RejectDuplicate(w) ==
    /\ \/ tx[w].pc = "event" /\ Recorded(tx[w].snapshot)
       \/ tx[w].pc = "pointer" /\ tx[w].seen = {} /\ current[TxEntry(w)] # 0
    /\ Rollback(w)

\* Any other failure: a statement error, a lock wait timeout, a lost session
\* or the death of the worker.  InnoDB rolls the transaction back.
Fail(w) ==
    /\ tx[w].pc # "idle"
    /\ Rollback(w)

Step(w) ==
    \/ LockEntry(w) \/ ReadCurrent(w) \/ AppendFlag(w) \/ InsertEvent(w)
    \/ WritePointer(w) \/ Commit(w) \/ RejectDuplicate(w)

Next == \E w \in Worker : \/ \E s \in Snapshot : Begin(w, s)
                          \/ Step(w)
                          \/ Fail(w)

Spec == Init /\ [][Next]_vars

\* A worker that is alive goes on to its next statement; InnoDB grants a row
\* lock to the waiters in turn, so a waiter is not overtaken for ever.
FairSpec == Spec /\ \A w \in Worker : WF_vars(Step(w)) /\ SF_vars(LockEntry(w))
------------------------------------------------------------------------------
At(s) == Observed[s].at

\* The tables, the row locks and the open transactions have the values their
\* types allow; in particular a query that joins the three tables returns
\* snapshots, never the ids of another table.
TypeOK ==
    /\ events \in [Entry -> Seq(Snapshot)]
    /\ ids \in [Entry -> Seq(Nat)]
    /\ current \in [Entry -> Nat]
    /\ flags \subseteq Snapshot
    /\ lock \in [Entry -> Worker \cup {NoWorker}]
    /\ tx \in [Worker -> Tx]

\* current_scores points at the event with the greatest id of its entry, and an
\* entry has a row there exactly when it has an event.  Ids are allotted at the
\* INSERT and pointers published at the COMMIT of concurrent transactions: only
\* the entry lock keeps a slow one from leaving the pointer at an older event.
PointerIsLatestEvent ==
    \A e \in Entry :
        /\ \A id \in ToSet(ids[e]) : id <= current[e]
        /\ current[e] \in ToSet(ids[e]) \cup {0}

\* A snapshot becomes canonical at most once, however often and by however
\* many workers it is reconciled.
OneEventPerSnapshot ==
    \A e \in Entry : \A i, j \in DOMAIN events[e] :
        events[e][i] = events[e][j] => i = j

\* A canonical timeline never changes source: another source's snapshot is
\* deferred even when it was read while the timeline was being started.
SingleSourceTimeline ==
    \A e \in Entry : \A i, j \in DOMAIN events[e] :
        Observed[events[e][i]].source = Observed[events[e][j]].source

\* A snapshot is flagged OUT_OF_ORDER only on evidence that stays on record:
\* its entry has a canonical event with a later effective time.
FlagsAreJustified ==
    \A s \in flags : \E i \in DOMAIN events[EntryOf(s)] :
        At(s) < At(events[EntryOf(s)][i])

\* The canonical sequence of an entry never moves backward in competitive
\* time (docs: an event must not have an effective_at earlier than the
\* entry's latest same-source canonical event).
EffectiveNeverRegresses ==
    \A e \in Entry : \A i, j \in DOMAIN events[e] :
        i < j => At(events[e][i]) <= At(events[e][j])

\* A snapshot once diagnosed as late is never promoted afterwards: no later
\* or concurrent reconciliation of it can still make it canonical.
LateStaysOut ==
    [][\A s \in flags : ~Recorded(s) => ~Recorded(s)']_vars

\* Every reconciliation ends: no worker keeps an entry's lock, or waits for
\* one, for ever.
EveryReconciliationEnds == \A w \in Worker : tx[w].pc # "idle" ~> tx[w].pc = "idle"

\* The detailed system implements the ledger of the abstract specification:
\* seen from outside, every committed transaction is one atomic decision.
Ledger == INSTANCE CanonicalLedger WITH timeline <- events, late <- flags
LedgerRefinement == Ledger!LedgerSpec
=============================================================================

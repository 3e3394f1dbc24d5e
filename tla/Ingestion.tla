----------------------------- MODULE Ingestion -----------------------------
(***************************************************************************)
(* CollectorIngestionService.ingest and its PHP port: what happens to one  *)
(* received payload, run by several collectors on one database.            *)
(*                                                                         *)
(*   receipt      INSERT raw_messages, committed on its own                *)
(*   claim        RECEIVED -> PROCESSING, committed on its own             *)
(*   persist      one transaction over the rows of the payload; every row  *)
(*                that is not rejected locks its entry (upsert) and keeps  *)
(*                that lock until the transaction ends                     *)
(*   reconcile    one transaction per snapshot that was inserted, each     *)
(*                one once: its first SELECT, then the lock and the writes *)
(*   finish       the counts and the final status of the receipt           *)
(*                                                                         *)
(* A snapshot is identified with the observation it stores, the unique key *)
(* (entry, source, normalized fingerprint).  A reconciliation is two steps *)
(* here, because what it decides on depends on the isolation level of its  *)
(* transaction: its first SELECT, before the entry lock, fixes the read    *)
(* view of InnoDB's default REPEATABLE READ, while READ COMMITTED reads    *)
(* the row as it is once the lock is granted.  From the lock to COMMIT     *)
(* nobody else can touch the entry; Reconciliation has those statements.   *)
(* Faults says what the environment may do: "error" (a statement fails     *)
(* inside the try of ingest, a lock wait times out), "throw" (the claim or *)
(* the update of the catch block fails), "crash" (the process dies) and    *)
(* "lost_ack" (the connection breaks after the server has committed the    *)
(* batch and before it could say so).                                      *)
(***************************************************************************)
EXTENDS CanonicalLedger, FiniteSets

CONSTANTS Worker,       \* calls of ingest that may be in progress
          Receipt,      \* the payloads they receive
          Payload,      \* what the adapter makes of each
          Misfiled,     \* observations whose category is of another contest
          Isolation,    \* effective transaction isolation level
          Faults,
          NoWorker, NoReceipt

ASSUME FaultsAssumption == Faults \subseteq {"error", "throw", "crash", "lost_ack"}
ASSUME IsolationAssumption == Isolation \in {"REPEATABLE_READ", "READ_COMMITTED"}
ASSUME PayloadAssumption ==
    Payload \in [Receipt -> [parses : BOOLEAN, malformed : Nat, rows : Seq(Snapshot)]]
ASSUME ObservationAssumption ==
    \A s \in Snapshot : Observed[s].entry \in Entry /\ Observed[s].at \in Nat \cup {NoTimestamp}
ASSUME NothingAssumption == NoWorker \notin Worker /\ NoReceipt \notin Receipt

VARIABLES raw,          \* raw_messages: status, attempts and counts
          stored,       \* score_snapshots: the receipt that inserted each
          lock,         \* exclusive row locks on entries
          job           \* the call of ingest each worker is in

ingestVars == <<raw, stored, lock, job, ledgerVars>>

EntryOf(s) == Observed[s].entry

Counts == [observed : Nat, accepted : Nat, duplicates : Nat, rejected : Nat]
Zero   == [observed |-> 0, accepted |-> 0, duplicates |-> 0, rejected |-> 0]

Successes == {"PROCESSED", "PARTIAL"}
Final     == Successes \cup {"FAILED"}

\* counts is what ingest knows so far; tally what its open transaction found;
\* view the canonical row in the read view of an open reconciliation.
Idle == [pc |-> "idle", receipt |-> NoReceipt, rows |-> <<>>,
         accepted |-> <<>>, counts |-> Zero, tally |-> Zero, view |-> {}]

FinalStatus(counts) ==
    CASE counts.rejected = 0                          -> "PROCESSED"
      [] counts.accepted + counts.duplicates > 0      -> "PARTIAL"
      [] OTHER                                        -> "FAILED"

InSeq(s, seq) == \E i \in DOMAIN seq : seq[i] = s
BatchOf(w)    == Payload[job[w].receipt]
Row(w)        == Head(job[w].rows)
Candidate(w)  == Head(job[w].accepted)
------------------------------------------------------------------------------
IngestInit ==
    /\ raw = [r \in Receipt |-> [status |-> "NONE", attempts |-> 0, counts |-> Zero]]
    /\ stored = [s \in Snapshot |-> NoReceipt]
    /\ lock = [e \in Entry |-> NoWorker]
    /\ job = [w \in Worker |-> Idle]
    /\ LedgerInit

\* Slip: the receipt is created as if it had been attempted.
CreateReceiptAttempted(w, r) ==
    /\ job[w].pc = "idle"
    /\ raw[r].status = "NONE"
    /\ raw' = [raw EXCEPT ![r].status = "RECEIVED", ![r].attempts = 1]
    /\ job' = [job EXCEPT ![w] = [Idle EXCEPT !.pc = "claim", !.receipt = r]]
    /\ UNCHANGED <<stored, lock, ledgerVars>>

CreateReceipt(w, r) ==
    /\ job[w].pc = "idle"
    /\ raw[r].status = "NONE"
    /\ raw' = [raw EXCEPT ![r].status = "RECEIVED"]
    /\ job' = [job EXCEPT ![w] = [Idle EXCEPT !.pc = "claim", !.receipt = r]]
    /\ UNCHANGED <<stored, lock, ledgerVars>>

Claim(w) ==
    LET r == job[w].receipt
    IN  /\ job[w].pc = "claim"
        /\ raw[r].status = "RECEIVED"
        /\ raw' = [raw EXCEPT ![r].status = "PROCESSING", ![r].attempts = @ + 1]
        /\ job' = [job EXCEPT ![w].pc = "parse"]
        /\ UNCHANGED <<stored, lock, ledgerVars>>

\* The adapter turns the payload into observations and malformed rows, or
\* throws; BEGIN of the batch transaction.
Parse(w) ==
    /\ job[w].pc = "parse"
    /\ IF BatchOf(w).parses
       THEN job' = [job EXCEPT
              ![w].pc = "persist", ![w].rows = BatchOf(w).rows,
              ![w].counts = [@ EXCEPT !.observed = Len(BatchOf(w).rows) + BatchOf(w).malformed,
                                      !.rejected = BatchOf(w).malformed]]
       ELSE job' = [job EXCEPT ![w].pc = "fail"]
    /\ UNCHANGED <<raw, stored, lock, ledgerVars>>

AtRow(w) == job[w].pc = "persist" /\ job[w].rows # <<>>

RejectObservation(w) ==
    /\ AtRow(w)
    /\ Row(w) \in Misfiled
    /\ job' = [job EXCEPT ![w].rows = Tail(@), ![w].tally.rejected = @ + 1]
    /\ UNCHANGED <<raw, stored, lock, ledgerVars>>

\* Slip: the entry is only looked up, its row is not locked.
ResolveEntryUnlocked(w) ==
    /\ AtRow(w)
    /\ Row(w) \notin Misfiled
    /\ job' = [job EXCEPT ![w].pc = "insert"]
    /\ UNCHANGED <<raw, stored, lock, ledgerVars>>

\* INSERT ... ON DUPLICATE KEY UPDATE of the entry, then its id.
ResolveEntry(w) ==
    /\ AtRow(w)
    /\ Row(w) \notin Misfiled
    /\ lock[EntryOf(Row(w))] \in {w, NoWorker}
    /\ lock' = [lock EXCEPT ![EntryOf(Row(w))] = w]
    /\ job' = [job EXCEPT ![w].pc = "insert"]
    /\ UNCHANGED <<raw, stored, ledgerVars>>

\* The fingerprint is found by the SELECT, or the INSERT reports the
\* duplicate key; either way the row exists or this transaction wrote it.
AlreadyStored(w) == stored[Row(w)] # NoReceipt \/ InSeq(Row(w), job[w].accepted)

RecordDuplicate(w) ==
    /\ job[w].pc = "insert"
    /\ AlreadyStored(w)
    /\ job' = [job EXCEPT ![w].pc = "persist", ![w].rows = Tail(@),
                          ![w].tally.duplicates = @ + 1]
    /\ UNCHANGED <<raw, stored, lock, ledgerVars>>

InsertSnapshot(w) ==
    /\ job[w].pc = "insert"
    /\ ~AlreadyStored(w)
    /\ job' = [job EXCEPT ![w].pc = "persist", ![w].rows = Tail(@),
                          ![w].accepted = Append(@, Row(w))]
    /\ UNCHANGED <<raw, stored, lock, ledgerVars>>

ReleaseLocks(w) == lock' = [e \in Entry |-> IF lock[e] = w THEN NoWorker ELSE lock[e]]

\* COMMIT makes the batch's snapshots visible together.
Publish(w) ==
    /\ job[w].pc = "persist"
    /\ job[w].rows = <<>>
    /\ stored' = [s \in Snapshot |-> IF InSeq(s, job[w].accepted)
                                     THEN job[w].receipt ELSE stored[s]]
    /\ ReleaseLocks(w)
    /\ UNCHANGED <<raw, ledgerVars>>

\* Slip: duplicates are counted as accepted.
CommitBatchCountsRows(w) ==
    /\ Publish(w)
    /\ job' = [job EXCEPT ![w].pc = "reconcile",
                 ![w].counts = [@ EXCEPT
                    !.accepted = Len(BatchOf(w).rows) - job[w].tally.rejected,
                    !.rejected = job[w].counts.rejected + job[w].tally.rejected]]

CommitBatch(w) ==
    /\ Publish(w)
    /\ job' = [job EXCEPT ![w].pc = "reconcile",
                 ![w].counts = [@ EXCEPT
                    !.accepted   = Len(job[w].accepted),
                    !.duplicates = job[w].tally.duplicates,
                    !.rejected   = job[w].counts.rejected + job[w].tally.rejected]]

\* Slips: the error is swallowed; the rollback is forgotten.
AbortSwallowed(w) ==
    /\ job[w].pc \in {"persist", "insert"}
    /\ ReleaseLocks(w)
    /\ job' = [job EXCEPT ![w].pc = "reconcile", ![w].accepted = <<>>]
    /\ UNCHANGED <<raw, stored, ledgerVars>>

AbortKeepsLocks(w) ==
    /\ job[w].pc \in {"persist", "insert"}
    /\ job' = [job EXCEPT ![w].pc = "fail", ![w].accepted = <<>>]
    /\ UNCHANGED <<raw, stored, lock, ledgerVars>>

\* The transaction callback threw: rolled back, no result is returned and
\* ingest goes to its catch with the counts it had.
Abort(w) ==
    /\ job[w].pc \in {"persist", "insert"}
    /\ ReleaseLocks(w)
    /\ job' = [job EXCEPT ![w].pc = "fail", ![w].accepted = <<>>]
    /\ UNCHANGED <<raw, stored, ledgerVars>>

\* Workers that wait for each other's entries; InnoDB rolls one of them back.
WaitsFor(w) == lock[EntryOf(Row(w))]
Waiting(w)  == /\ AtRow(w)
               /\ Row(w) \notin Misfiled
               /\ WaitsFor(w) \notin {w, NoWorker}
Deadlocked(w) == \E ring \in SUBSET Worker :
                    w \in ring /\ \A v \in ring : Waiting(v) /\ WaitsFor(v) \in ring

DeadlockVictim(w) == Deadlocked(w) /\ Abort(w)

\* reconcileAcceptedSnapshot for the next inserted snapshot: BEGIN and the
\* plain SELECT of the candidate, which fixes the read view.
BeginReconciliation(w) ==
    /\ job[w].pc = "reconcile"
    /\ job[w].accepted # <<>>
    /\ job' = [job EXCEPT ![w].pc = "weigh", ![w].view = LastOf(EntryOf(Candidate(w)))]
    /\ UNCHANGED <<raw, stored, lock, ledgerVars>>

\* FOR UPDATE on the entry is granted; what the canonical row reads then.
Granted(w) == job[w].pc = "weigh" /\ lock[EntryOf(Candidate(w))] = NoWorker
VisibleRow(w) == IF Isolation = "REPEATABLE_READ" THEN job[w].view
                 ELSE LastOf(EntryOf(Candidate(w)))

Decision(w) == Decide(Observed[Candidate(w)], VisibleRow(w))

\* A unique key refuses the writes of a canonical decision: the snapshot has
\* an event, or the entry has a row in current_scores that the view does not.
KeyRefuses(w) ==
    \/ Decision(w) \in CanonicalDecisions /\ OnTimeline(Candidate(w))
    \/ Decision(w) = "CANONICAL_INITIAL" /\ timeline[EntryOf(Candidate(w))] # <<>>

Reconcile(w) ==
    /\ Granted(w)
    /\ ~KeyRefuses(w)
    /\ \/ Decision(w) \in CanonicalDecisions /\ AppendEvent(Candidate(w))
       \/ Decision(w) = "OUT_OF_ORDER" /\ FlagLate(Candidate(w))
       \/ /\ Decision(w) \notin CanonicalDecisions \cup {"OUT_OF_ORDER"}
          /\ UNCHANGED ledgerVars
    /\ job' = [job EXCEPT ![w].pc = "reconcile", ![w].accepted = Tail(@), ![w].view = {}]
    /\ UNCHANGED <<raw, stored, lock>>

\* Slip: the duplicate key is taken for a snapshot that needs no decision.
RefusalSwallowed(w) ==
    /\ Granted(w)
    /\ KeyRefuses(w)
    /\ job' = [job EXCEPT ![w].pc = "reconcile", ![w].accepted = Tail(@), ![w].view = {}]
    /\ UNCHANGED <<raw, stored, lock, ledgerVars>>

\* The duplicate key error is not caught here: the reconciliation is rolled
\* back and ingest goes to its catch.
RefuseReconciliation(w) ==
    /\ Granted(w)
    /\ KeyRefuses(w)
    /\ job' = [job EXCEPT ![w].pc = "fail", ![w].accepted = <<>>, ![w].view = {}]
    /\ UNCHANGED <<raw, stored, lock, ledgerVars>>

Finish(w) ==
    LET r == job[w].receipt
    IN  /\ job[w].pc = "reconcile"
        /\ job[w].accepted = <<>>
        /\ raw' = [raw EXCEPT ![r].status = FinalStatus(job[w].counts),
                              ![r].counts = job[w].counts]
        /\ job' = [job EXCEPT ![w] = Idle]
        /\ UNCHANGED <<stored, lock, ledgerVars>>

\* The catch block: FAILED, with whatever counts were known.
FinishFailed(w) ==
    LET r == job[w].receipt
    IN  /\ job[w].pc = "fail"
        /\ raw' = [raw EXCEPT ![r].status = "FAILED", ![r].counts = job[w].counts]
        /\ job' = [job EXCEPT ![w] = Idle]
        /\ UNCHANGED <<stored, lock, ledgerVars>>

\* A reconciliation or the final update fails inside the try.
StepFails(w) ==
    /\ "error" \in Faults
    /\ job[w].pc \in {"reconcile", "weigh"}
    /\ job' = [job EXCEPT ![w].pc = "fail", ![w].accepted = <<>>, ![w].view = {}]
    /\ UNCHANGED <<raw, stored, lock, ledgerVars>>

BatchFails(w) == "error" \in Faults /\ Abort(w)

\* The claim or the catch's own update fails: ingest throws and the receipt
\* stays as it is.
IngestThrows(w) ==
    /\ "throw" \in Faults
    /\ job[w].pc \in {"claim", "fail"}
    /\ job' = [job EXCEPT ![w] = Idle]
    /\ UNCHANGED <<raw, stored, lock, ledgerVars>>

AcknowledgementLost(w) ==
    /\ "lost_ack" \in Faults
    /\ Publish(w)
    /\ job' = [job EXCEPT ![w].pc = "fail", ![w].accepted = <<>>]

Crash(w) ==
    /\ "crash" \in Faults
    /\ job[w].pc # "idle"
    /\ ReleaseLocks(w)
    /\ job' = [job EXCEPT ![w] = Idle]
    /\ UNCHANGED <<raw, stored, ledgerVars>>

Step(w) ==
    \/ Claim(w) \/ Parse(w) \/ RejectObservation(w) \/ ResolveEntry(w)
    \/ RecordDuplicate(w) \/ InsertSnapshot(w) \/ CommitBatch(w)
    \/ BeginReconciliation(w) \/ Reconcile(w) \/ RefuseReconciliation(w)
    \/ Finish(w) \/ FinishFailed(w) \/ DeadlockVictim(w)

Fault(w) ==
    \/ StepFails(w) \/ BatchFails(w) \/ IngestThrows(w)
    \/ AcknowledgementLost(w) \/ Crash(w)

IngestNext == \E w \in Worker : \/ \E r \in Receipt : CreateReceipt(w, r)
                                \/ Step(w)
                                \/ Fault(w)

IngestSpec == IngestInit /\ [][IngestNext]_ingestVars

\* A live worker goes on; a row lock is granted to its waiters in turn.
IngestFairSpec ==
    IngestSpec /\ \A w \in Worker : /\ WF_ingestVars(Step(w))
                                    /\ SF_ingestVars(ResolveEntry(w))
                                    /\ SF_ingestVars(Reconcile(w) \/ RefuseReconciliation(w))
------------------------------------------------------------------------------
StoredBy(r) == {s \in Snapshot : stored[s] = r}
Storable(r) == {s \in Snapshot : InSeq(s, Payload[r].rows)} \ Misfiled

\* A decision about s is on record: it cannot take part in the sequence, is on
\* the timeline or flagged late, or belongs to another source than an event there.
Weighed(s) ==
    \/ ~Eligible(Observed[s]) \/ OnTimeline(s) \/ s \in late
    \/ \E i \in DOMAIN timeline[EntryOf(s)] :
          Observed[timeline[EntryOf(s)][i]].source # Observed[s].source

\* And it still stands: the entry shows nothing older than s.
Considered(s) ==
    \/ ~Eligible(Observed[s])
    \/ \E row \in LastOf(EntryOf(s)) :
          row.source # Observed[s].source \/ Observed[s].at <= row.at

\* Receipts, stored snapshots, row locks and calls have the values their types
\* allow; a receipt is attempted at most once, because nothing claims it again.
IngestTypeOK ==
    /\ raw \in [Receipt -> [status : {"NONE", "RECEIVED", "PROCESSING"} \cup Final,
                            attempts : 0 .. 1, counts : Counts]]
    /\ stored \in [Snapshot -> Receipt \cup {NoReceipt}]
    /\ lock \in [Entry -> Worker \cup {NoWorker}]
    /\ job \in [Worker ->
          [pc : {"idle", "claim", "parse", "persist", "insert", "reconcile", "weigh", "fail"},
           receipt : Receipt \cup {NoReceipt}, rows : Seq(Snapshot),
           accepted : Seq(Snapshot), counts : Counts, tally : Counts,
           view : SUBSET {Observed[s] : s \in Snapshot}]]
    /\ timeline \in [Entry -> Seq(Snapshot)]
    /\ late \subseteq Snapshot

\* The accepted_count of a finished receipt, FAILED ones included, is the
\* number of snapshots in the table that carry its id (docs: the counts are
\* recorded only after the persistence outcome is known).
AcceptedCountIsTrue ==
    \A r \in Receipt : raw[r].status \in Final =>
        raw[r].counts.accepted = Cardinality(StoredBy(r))

\* A receipt that ends PROCESSED or PARTIAL has lost no observation: each one
\* that was not rejected is in score_snapshots, also when a concurrent batch
\* was the one to insert it.
SuccessLosesNothing ==
    \A r \in Receipt : raw[r].status \in Successes =>
        \A s \in Storable(r) : stored[s] # NoReceipt

\* What a successful receipt inserted has also been weighed for the canonical
\* score, whatever the isolation level and the receipts that raced with it: no
\* snapshot ends without an event, a flag or a reason to have neither, although
\* a unique key may refuse what a reconciliation decided on an old read view.
SuccessIsReconciled ==
    \A r \in Receipt : raw[r].status \in Successes =>
        \A s \in StoredBy(r) : Weighed(s)

\* Under READ COMMITTED these decisions stay right: the entry of a snapshot that a
\* successful receipt inserted shows nothing older than it.  (Under the default
\* REPEATABLE READ a later event may bring back an older score.)
SuccessShowsNothingOlder ==
    \A r \in Receipt : raw[r].status \in Successes =>
        \A s \in StoredBy(r) : Considered(s)

\* A batch is stored as a whole or not at all: it commits exactly those of its
\* observations that nobody has stored by then.
BatchesAreAtomic ==
    [][\A r \in Receipt : StoredBy(r) # StoredBy(r)' =>
          /\ StoredBy(r) = {}
          /\ StoredBy(r)' = {s \in Storable(r) : stored[s] = NoReceipt}]_ingestVars

\* As long as processes live and the receipt itself can be written, it reaches a
\* final status, although batches that touch the same entries in different
\* orders can deadlock and any of their statements can fail.
EveryReceiptFinishes ==
    \A r \in Receipt : raw[r].status = "RECEIVED" ~> raw[r].status \in Final
=============================================================================

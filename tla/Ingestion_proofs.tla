--------------------------- MODULE Ingestion_proofs ---------------------------
(***************************************************************************)
(* What TLAPS proves of Ingestion for any number of collectors, receipts   *)
(* and payloads.  The first part holds under every fault.  IInv says that  *)
(* what an open batch has accepted is nobody's until it commits, as its    *)
(* entries are locked, that a call past its batch has everything stored    *)
(* and what it inserted settled or still to be weighed, that the row in an *)
(* old read view is still on record, and that no two calls share a         *)
(* receipt.  Every action is shown to be a move of one worker that keeps   *)
(* its own part and disturbs nothing of the others (Moves, Gentle).  The   *)
(* second part is about the accounting of receipts.                        *)
(***************************************************************************)
EXTENDS Ingestion, FiniteSetTheorems, TLAPS

Job == [pc : {"idle", "claim", "parse", "persist", "insert", "reconcile", "weigh", "fail"},
        receipt : Receipt \cup {NoReceipt}, rows : Seq(Snapshot),
        accepted : Seq(Snapshot), counts : Counts, tally : Counts,
        view : SUBSET {Observed[s] : s \in Snapshot}]

Active(w)  == job[w].pc # "idle"
InBatch(w) == job[w].pc \in {"persist", "insert"}

\* What a call has to do with its receipt and with what is stored.
OwnReceipt(w) ==
    Active(w) => /\ job[w].receipt \in Receipt
                 /\ raw[job[w].receipt].status \in {"RECEIVED", "PROCESSING"}

\* Nothing is stored before the batch commits.
BeforeCommit(w) ==
    /\ job[w].pc \in {"claim", "parse", "persist", "insert"} => StoredBy(job[w].receipt) = {}
    /\ job[w].pc \in {"claim", "parse"} => job[w].accepted = <<>>

\* What an open transaction has accepted is not stored, and nobody else can
\* store it: its entries are locked.  Every other row is stored, misfiled or
\* still to come.
OpenBatch(w) == InBatch(w) =>
    /\ \A s \in Snapshot : InSeq(s, job[w].rows) => InSeq(s, BatchOf(w).rows)
    /\ \A s \in Snapshot : InSeq(s, job[w].accepted) =>
          s \in Storable(job[w].receipt) /\ stored[s] = NoReceipt /\ lock[EntryOf(s)] = w
    /\ \A s \in Storable(job[w].receipt) :
          stored[s] # NoReceipt \/ InSeq(s, job[w].accepted) \/ InSeq(s, job[w].rows)
    /\ job[w].pc = "insert" =>
          job[w].rows # <<>> /\ Row(w) \notin Misfiled /\ lock[EntryOf(Row(w))] = w

\* A snapshot is settled once it is weighed; under READ COMMITTED the decision
\* about it also stays right.
Settled(s) == Weighed(s) /\ (Isolation = "READ_COMMITTED" => Considered(s))

\* After the batch everything is stored, and what it inserted is settled or waits
\* for its reconciliation.
AfterCommit(w) == job[w].pc \in {"reconcile", "weigh"} =>
    /\ \A s \in Storable(job[w].receipt) : stored[s] # NoReceipt
    /\ \A s \in StoredBy(job[w].receipt) : Settled(s) \/ InSeq(s, job[w].accepted)

\* The row an open reconciliation has in its view was on the timeline once, so it
\* is there still.
OnRecord(rows, e) ==
    \A row \in rows : \E i \in DOMAIN timeline[e] : row = Observed[timeline[e][i]]

Viewed(w) == job[w].pc = "weigh" =>
    job[w].accepted # <<>> /\ OnRecord(job[w].view, EntryOf(Candidate(w)))

CallInv(w) == OwnReceipt(w) /\ BeforeCommit(w) /\ OpenBatch(w) /\ AfterCommit(w) /\ Viewed(w)

ReceiptsApart ==
    \A v, w \in Worker : Active(v) /\ Active(w) /\ v # w => job[v].receipt # job[w].receipt

ReceiptInv(r) ==
    /\ raw[r].status \in {"NONE", "RECEIVED"} => raw[r].attempts = 0
    /\ raw[r].status = "NONE" => StoredBy(r) = {}
    /\ raw[r].status \in Successes =>
          /\ \A s \in Storable(r) : stored[s] # NoReceipt
          /\ \A s \in StoredBy(r) : Settled(s)

TimelineInv == \A e \in Entry : \A i \in DOMAIN timeline[e] : Eligible(Observed[timeline[e][i]])

Calls    == \A w \in Worker : CallInv(w)
Receipts == \A r \in Receipt : ReceiptInv(r)

IInv == IngestTypeOK /\ Calls /\ ReceiptsApart /\ Receipts /\ TimelineInv

\* What a step of one call may do to the others: it finishes its own receipt or
\* takes a new one, keeps their locks, stores what nobody has and it has locked,
\* takes nothing off a timeline and unsettles nothing.
Mine(w, r) == IF Active(w) THEN r = job[w].receipt ELSE raw[r].status = "NONE"

Stores(w, s) == /\ InBatch(w) /\ stored[s] = NoReceipt
                /\ stored'[s] = job[w].receipt /\ lock[EntryOf(s)] = w

TimelinesGrow ==
    \A e \in Entry : \A i \in DOMAIN timeline[e] :
        i \in DOMAIN timeline'[e] /\ timeline'[e][i] = timeline[e][i]

Gentle(w) ==
    /\ \A v \in Worker \ {w} : job'[v] = job[v]
    /\ \A r \in Receipt : raw'[r] = raw[r] \/ Mine(w, r)
    /\ \A e \in Entry, v \in Worker \ {w} : lock[e] = v => lock'[e] = v
    /\ \A s \in Snapshot : stored'[s] = stored[s] \/ Stores(w, s)
    /\ TimelinesGrow
    /\ \A s \in Snapshot : Settled(s) => Settled(s)'
------------------------------------------------------------------------------
\* Sequences as sets.
LEMMA InTail ==
    ASSUME NEW S, NEW seq \in Seq(S), seq # <<>>
    PROVE  /\ Tail(seq) \in Seq(S) /\ Head(seq) \in S
           /\ \A s : InSeq(s, seq) <=> s = Head(seq) \/ InSeq(s, Tail(seq))
<1>1. Len(seq) \in Nat /\ Len(seq) > 0 /\ DOMAIN seq = 1 .. Len(seq)
  OBVIOUS
<1>2. /\ Tail(seq) \in Seq(S) /\ Len(Tail(seq)) = Len(seq) - 1
      /\ \A i \in 1 .. Len(seq) - 1 : Tail(seq)[i] = seq[i + 1]
      /\ Head(seq) = seq[1] /\ Head(seq) \in S
  BY <1>1
<1>3. DOMAIN Tail(seq) = 1 .. Len(seq) - 1
  BY <1>2
<1>4. \A s : InSeq(s, seq) => s = Head(seq) \/ InSeq(s, Tail(seq))
  <2> SUFFICES ASSUME NEW i \in 1 .. Len(seq) PROVE seq[i] = Head(seq) \/ InSeq(seq[i], Tail(seq))
    BY <1>1 DEF InSeq
  <2>1. CASE i = 1
    BY <1>2, <2>1
  <2>2. CASE i # 1
    <3>1. i - 1 \in 1 .. Len(seq) - 1 /\ (i - 1) + 1 = i
      BY <1>1, <2>2
    <3>2. Tail(seq)[i - 1] = seq[i]
      BY <1>2, <3>1
    <3> QED  BY <1>3, <3>1, <3>2 DEF InSeq
  <2> QED  BY <2>1, <2>2
<1>5. \A s : s = Head(seq) \/ InSeq(s, Tail(seq)) => InSeq(s, seq)
  <2>1. \A i \in 1 .. Len(seq) - 1 : i + 1 \in 1 .. Len(seq)
    BY <1>1
  <2> QED  BY <1>1, <1>2, <1>3, <2>1 DEF InSeq
<1> QED  BY <1>2, <1>4, <1>5

\* What is in an appended sequence is in the old one or is the new element.
LEMMA InAppend ==
    ASSUME NEW S, NEW seq \in Seq(S), NEW x \in S
    PROVE  /\ Append(seq, x) \in Seq(S) /\ Len(Append(seq, x)) = Len(seq) + 1
           /\ \A s : InSeq(s, Append(seq, x)) <=> s = x \/ InSeq(s, seq)
<1>1. Len(seq) \in Nat /\ DOMAIN seq = 1 .. Len(seq)
  OBVIOUS
<1>2. /\ Append(seq, x) \in Seq(S) /\ Len(Append(seq, x)) = Len(seq) + 1
      /\ DOMAIN Append(seq, x) = 1 .. Len(seq) + 1
      /\ Append(seq, x)[Len(seq) + 1] = x
      /\ \A i \in 1 .. Len(seq) : Append(seq, x)[i] = seq[i]
  BY <1>1
<1>3. 1 .. Len(seq) + 1 = (1 .. Len(seq)) \cup {Len(seq) + 1}
  BY <1>1
<1> QED  BY <1>1, <1>2, <1>3 DEF InSeq

\* Nothing is in the empty sequence.
LEMMA InEmpty == \A s : ~InSeq(s, <<>>)
BY DEF InSeq

\* The job of w changes in this step, and no other does.
Becomes(w, pc, rows, accepted) ==
    /\ job' \in [Worker -> Job]
    /\ \A v \in Worker \ {w} : job'[v] = job[v]
    /\ job'[w].pc = pc /\ job'[w].rows = rows /\ job'[w].accepted = accepted

KeepsReceipt(w) == job'[w].receipt = job[w].receipt

\* The job of one worker is replaced by another job.
LEMMA JobUpdate ==
    ASSUME job \in [Worker -> Job], NEW w \in Worker, NEW j \in Job, job' = [job EXCEPT ![w] = j]
    PROVE  Becomes(w, j.pc, j.rows, j.accepted) /\ job'[w] = j
BY DEF Becomes

\* The job of an idle worker is a job, with nothing in it.
LEMMA JobForms ==
    ASSUME job \in [Worker -> Job], NEW w \in Worker
    PROVE  /\ job[w] \in Job /\ Idle \in Job
           /\ Idle.pc = "idle" /\ Idle.rows = <<>> /\ Idle.accepted = <<>>
           /\ Idle.counts.accepted = 0
           /\ Zero \in Counts
BY DEF Job, Idle, Zero, Counts

\* What the other calls and the unchanged receipts rely on is kept.
LEMMA GentleKeeps ==
    ASSUME IInv, IngestTypeOK', NEW w \in Worker, Gentle(w)
    PROVE  /\ \A v \in Worker \ {w} : CallInv(v)'
           /\ \A r \in Receipt : raw'[r] = raw[r] => ReceiptInv(r)'
<1>0. /\ job \in [Worker -> Job] /\ stored \in [Snapshot -> Receipt \cup {NoReceipt}]
      /\ Calls /\ ReceiptsApart /\ Receipts
  BY DEF IInv, IngestTypeOK, Job
<1>1. \A s \in Snapshot : stored[s] # NoReceipt => stored'[s] = stored[s]
  BY DEF Gentle, Stores
<1>2. \A r \in Receipt : ~Mine(w, r) \/ raw[r].status \in {"NONE"} \cup Final =>
         \A s \in Snapshot : stored'[s] = r => stored[s] = r
  <2> SUFFICES ASSUME NEW r \in Receipt, ~Mine(w, r) \/ raw[r].status \in {"NONE"} \cup Final,
                      NEW s \in Snapshot, stored'[s] = r, stored[s] # r
               PROVE  FALSE
    OBVIOUS
  <2>1. InBatch(w) /\ r = job[w].receipt
    BY DEF Gentle, Stores
  <2>2. Active(w) /\ Mine(w, r)
    BY <2>1 DEF InBatch, Active, Mine
  <2> QED  BY <1>0, <2>1, <2>2 DEF Calls, CallInv, OwnReceipt, Final, Successes
<1>3. \A s \in Snapshot : Settled(s) => Settled(s)'
  BY DEF Gentle
<1>4. ASSUME NEW v \in Worker \ {w} PROVE CallInv(v)'
  <2>0. CallInv(v) /\ job'[v] = job[v] /\ job[v] \in Job
    BY <1>0, <1>4 DEF Calls, Gentle
  <2>1. Active(v) => job[v].receipt \in Receipt /\ ~Mine(w, job[v].receipt)
    BY <1>0, <2>0, <1>4 DEF CallInv, OwnReceipt, Mine, ReceiptsApart
  <2>2. OwnReceipt(v)'
    BY <2>0, <2>1 DEF CallInv, OwnReceipt, Active, Gentle
  <2>3. Active(v) => StoredBy(job[v].receipt)' \subseteq StoredBy(job[v].receipt)
    BY <1>2, <2>0, <2>1 DEF StoredBy
  <2>4. BeforeCommit(v)'
    BY <2>0, <2>3 DEF CallInv, BeforeCommit, Active
  <2>5. OpenBatch(v)'
    <3>1. ASSUME NEW s \in Snapshot, stored[s] = NoReceipt, lock[EntryOf(s)] = v
          PROVE  stored'[s] = NoReceipt
      BY <3>1, <1>4 DEF Gentle, Stores
    <3>2. ASSUME NEW s \in Snapshot, lock[EntryOf(s)] = v PROVE lock'[EntryOf(s)] = v
      BY <3>2, <1>4, ObservationAssumption DEF Gentle, EntryOf
    <3>3. job[v].rows # <<>> => Row(v) \in Snapshot
      BY <2>0, InTail DEF Row, Job
    <3> QED  BY <1>1, <2>0, <3>1, <3>2, <3>3 DEF CallInv, OpenBatch, InBatch, BatchOf, Row, Storable
  <2>6. AfterCommit(v)'
    BY <1>1, <1>3, <2>0, <2>3 DEF CallInv, AfterCommit, Active, Storable, StoredBy
  <2>7. Viewed(v)'
    <3> SUFFICES ASSUME job[v].pc = "weigh"
                 PROVE  job[v].accepted # <<>> /\ OnRecord(job[v].view, EntryOf(Candidate(v)))'
      BY <2>0 DEF Viewed
    <3>1. job[v].accepted # <<>> /\ OnRecord(job[v].view, EntryOf(Candidate(v)))
      BY <2>0 DEF CallInv, Viewed
    <3>2. EntryOf(Candidate(v)) \in Entry /\ EntryOf(Candidate(v))' = EntryOf(Candidate(v))
      <4>1. Candidate(v) \in Snapshot
        BY <2>0, <3>1, InTail DEF Candidate, Job
      <4> QED  BY <2>0, <4>1, ObservationAssumption DEF EntryOf, Candidate
    <3> QED  BY <2>0, <3>1, <3>2 DEF OnRecord, Gentle, TimelinesGrow
  <2> QED  BY <2>2, <2>4, <2>5, <2>6, <2>7 DEF CallInv
<1>5. ASSUME NEW r \in Receipt, raw'[r] = raw[r] PROVE ReceiptInv(r)'
  <2>1. ReceiptInv(r)
    BY <1>0 DEF Receipts
  <2>2. raw[r].status \in {"NONE"} \cup Final => StoredBy(r)' \subseteq StoredBy(r)
    BY <1>2 DEF StoredBy
  <2>3. raw[r].status \in Successes => raw[r].status \in Final
    BY DEF Final
  <2> QED  BY <1>1, <1>3, <1>5, <2>1, <2>2, <2>3 DEF ReceiptInv, Storable, StoredBy
<1> QED  BY <1>4, <1>5

\* Appending to the timeline of an entry.
LEMMA AppendEffect ==
    ASSUME IInv, NEW s \in Snapshot, AppendEvent(s), Eligible(Observed[s])
    PROVE  /\ timeline' \in [Entry -> Seq(Snapshot)]
           /\ LastOf(EntryOf(s))' = {Observed[s]}
           /\ \A e \in Entry \ {EntryOf(s)} : LastOf(e)' = LastOf(e)
           /\ TimelineInv' /\ TimelinesGrow /\ OnTimeline(s)'
<1> DEFINE x == EntryOf(s)
<1>0. /\ timeline \in [Entry -> Seq(Snapshot)] /\ TimelineInv
      /\ x \in Entry /\ timeline' = [timeline EXCEPT ![x] = Append(@, s)]
  BY ObservationAssumption DEF IInv, IngestTypeOK, AppendEvent, EntryOf
<1>1. /\ timeline'[x] = Append(timeline[x], s)
      /\ \A e \in Entry \ {x} : timeline'[e] = timeline[e]
      /\ timeline' \in [Entry -> Seq(Snapshot)]
  BY <1>0
<1>3. /\ Len(timeline'[x]) = Len(timeline[x]) + 1 /\ Len(timeline[x]) \in Nat
      /\ timeline'[x][Len(timeline[x]) + 1] = s
      /\ DOMAIN timeline'[x] = 1 .. Len(timeline[x]) + 1
      /\ \A i \in 1 .. Len(timeline[x]) : timeline'[x][i] = timeline[x][i]
  <2>1. timeline[x] \in Seq(Snapshot)
    BY <1>0
  <2> QED  BY <1>1, <2>1
<1>4. LastOf(x)' = {Observed[s]}
  BY <1>3 DEF LastOf
<1>5. \A e \in Entry \ {x} : LastOf(e)' = LastOf(e)
  BY <1>1 DEF LastOf
<1>6. TimelineInv'
  <2> SUFFICES ASSUME NEW e \in Entry, NEW i \in DOMAIN timeline'[e]
               PROVE  Eligible(Observed[timeline'[e][i]])
    BY DEF TimelineInv
  <2>1. CASE e # x
    BY <1>0, <1>1, <2>1 DEF TimelineInv
  <2>2. CASE e = x
    <3>1. DOMAIN timeline[x] = 1 .. Len(timeline[x])
      <4>1. timeline[x] \in Seq(Snapshot)
        BY <1>0
      <4> QED  BY <4>1
    <3>2. i = Len(timeline[x]) + 1 \/ i \in 1 .. Len(timeline[x])
      BY <1>3, <2>2
    <3> QED  BY <1>0, <1>3, <2>2, <3>1, <3>2 DEF TimelineInv
  <2> QED  BY <2>1, <2>2
<1>7. TimelinesGrow
  <2> SUFFICES ASSUME NEW e \in Entry, NEW i \in DOMAIN timeline[e]
               PROVE  i \in DOMAIN timeline'[e] /\ timeline'[e][i] = timeline[e][i]
    BY DEF TimelinesGrow
  <2>1. timeline[x] \in Seq(Snapshot)
    BY <1>0
  <2>2. DOMAIN timeline[x] = 1 .. Len(timeline[x])
    BY <2>1
  <2>3. CASE e # x
    BY <1>1, <2>3
  <2>4. CASE e = x
    BY <1>3, <2>2, <2>4
  <2> QED  BY <2>3, <2>4
<1>8. OnTimeline(s)'
  <2>1. Len(timeline[x]) + 1 \in DOMAIN timeline'[x]
    BY <1>3
  <2> QED  BY <1>3, <2>1 DEF OnTimeline, EntryOf
<1> QED  BY <1>1, <1>4, <1>5, <1>6, <1>7, <1>8

\* What shows in an entry is an eligible snapshot, with a time.
LEMMA LastEligible ==
    ASSUME IInv, NEW e \in Entry, NEW row \in LastOf(e)
    PROVE  Eligible(row) /\ row.at \in Nat
<1>1. timeline[e] \in Seq(Snapshot) /\ Len(timeline[e]) \in Nat /\ Len(timeline[e]) # 0
  BY DEF IInv, IngestTypeOK, LastOf
<1>2. Len(timeline[e]) \in DOMAIN timeline[e] /\ timeline[e][Len(timeline[e])] \in Snapshot
  BY <1>1
<1>3. row = Observed[timeline[e][Len(timeline[e])]]
  BY <1>1 DEF LastOf
<1>4. Eligible(row)
  BY <1>2, <1>3 DEF IInv, TimelineInv
<1> QED  BY <1>2, <1>3, <1>4, ObservationAssumption DEF Eligible

\* A decision about s on the last row of the timeline, as the ledger makes it.
Decided(s) ==
    \/ Extend(s)
    \/ Diagnose(s)
    \/ /\ Verdict(s) \notin CanonicalDecisions \cup {"OUT_OF_ORDER"}
       /\ UNCHANGED ledgerVars

\* It is right about s, and remains so about the others.
LEMMA DecidedEffect ==
    ASSUME IInv, NEW s \in Snapshot, Decided(s)
    PROVE  /\ Considered(s)'
           /\ \A t \in Snapshot : Considered(t) => Considered(t)'
<1>0. EntryOf(s) \in Entry
  BY ObservationAssumption DEF EntryOf
<1>1. \A row \in LastOf(EntryOf(s)) : LastOf(EntryOf(s)) = {row}
  BY DEF LastOf
<1>2. CASE Extend(s)
  <2>1. Eligible(Observed[s]) /\ Observed[s].at \in Nat
    BY <1>2, ObservationAssumption DEF Extend, Verdict, Decide, CanonicalDecisions, Eligible
  <2>0. AppendEvent(s)
    BY <1>2 DEF Extend
  <2>2. LastOf(EntryOf(s))' = {Observed[s]}
    BY <2>0, <2>1, AppendEffect
  <2>3. Considered(s)'
    BY <2>1, <2>2 DEF Considered
  <2>4. ASSUME NEW t \in Snapshot, Considered(t) PROVE Considered(t)'
    <3>1. CASE ~Eligible(Observed[t])
      BY <3>1 DEF Considered
    <3>2. CASE Eligible(Observed[t]) /\ EntryOf(t) # EntryOf(s)
      <4>1. EntryOf(t) \in Entry \ {EntryOf(s)}
        BY <3>2, ObservationAssumption DEF EntryOf
      <4>2. LastOf(EntryOf(t))' = LastOf(EntryOf(t))
        BY <2>0, <2>1, <4>1, AppendEffect
      <4> QED  BY <2>4, <4>2 DEF Considered
    <3>3. CASE Eligible(Observed[t]) /\ EntryOf(t) = EntryOf(s)
      <4>1. PICK row \in LastOf(EntryOf(s)) :
                   row.source # Observed[t].source \/ Observed[t].at <= row.at
        BY <2>4, <3>3 DEF Considered
      <4>2. row.at \in Nat /\ Observed[t].at \in Nat
        BY <1>0, <3>3, LastEligible, ObservationAssumption DEF Eligible
      <4>3. row.source = Observed[s].source /\ ~(Observed[s].at < row.at)
        <5>1. Verdict(s) = Decide(Observed[s], LastOf(EntryOf(s)))
          BY DEF Verdict, EntryOf
        <5>2. Verdict(s) \in CanonicalDecisions
          BY <1>2 DEF Extend
        <5> QED  BY <5>1, <5>2, <4>1 DEF Decide, CanonicalDecisions
      <4>4. Observed[s].source # Observed[t].source \/ Observed[t].at <= Observed[s].at
        BY <2>1, <4>1, <4>2, <4>3
      <4> QED  BY <2>2, <3>3, <4>4 DEF Considered
    <3> QED  BY <3>1, <3>2, <3>3
  <2> QED  BY <2>3, <2>4
<1>3. CASE ~Extend(s)
  <2>1. UNCHANGED timeline
    BY <1>3 DEF Decided, Diagnose, FlagLate, ledgerVars
  <2>2. \A t \in Snapshot : Considered(t)' <=> Considered(t)
    BY <2>1 DEF Considered, LastOf
  <2>3. Considered(s)
    <3>1. Verdict(s) = Decide(Observed[s], LastOf(EntryOf(s)))
      BY DEF Verdict, EntryOf
    <3>2. Verdict(s) \notin CanonicalDecisions
      BY <1>3 DEF Decided, Diagnose, CanonicalDecisions
    <3>3. CASE ~Eligible(Observed[s])
      BY <3>3 DEF Considered
    <3>4. CASE Eligible(Observed[s]) /\ LastOf(EntryOf(s)) = {}
      BY <3>1, <3>2, <3>4 DEF Decide, CanonicalDecisions
    <3>5. CASE Eligible(Observed[s]) /\ LastOf(EntryOf(s)) # {}
      <4>1. PICK row \in LastOf(EntryOf(s)) : LastOf(EntryOf(s)) = {row}
        BY <1>1, <3>5
      <4>2. row.source # Observed[s].source \/ Observed[s].at < row.at
        BY <3>1, <3>2, <3>5, <4>1 DEF Decide, CanonicalDecisions
      <4>3. row.at \in Nat /\ Observed[s].at \in Nat
        BY <1>0, <3>5, LastEligible, ObservationAssumption DEF Eligible
      <4>4. Observed[s].at < row.at => Observed[s].at <= row.at
        BY <4>3
      <4> QED  BY <4>1, <4>2, <4>4 DEF Considered
    <3> QED  BY <3>3, <3>4, <3>5
  <2> QED  BY <2>2, <2>3
<1> QED  BY <1>2, <1>3

\* The writes that a decision on rows calls for put it on record, and take nothing
\* off it, also when rows is an old view.
LEMMA RecordedEffect ==
    ASSUME IInv, NEW s \in Snapshot, NEW rows, OnRecord(rows, EntryOf(s)),
           NEW d, d = Decide(Observed[s], rows),
           \/ d \in CanonicalDecisions /\ AppendEvent(s)
           \/ d = "OUT_OF_ORDER" /\ FlagLate(s)
           \/ d \notin CanonicalDecisions \cup {"OUT_OF_ORDER"} /\ UNCHANGED ledgerVars
    PROVE  /\ timeline' \in [Entry -> Seq(Snapshot)] /\ late' \subseteq Snapshot
           /\ TimelineInv' /\ TimelinesGrow
           /\ Weighed(s)'
           /\ \A t \in Snapshot : Weighed(t) => Weighed(t)'
<1>0. /\ timeline \in [Entry -> Seq(Snapshot)] /\ late \subseteq Snapshot /\ TimelineInv
      /\ \A t \in Snapshot : EntryOf(t) \in Entry
  BY ObservationAssumption DEF IInv, IngestTypeOK, EntryOf
<1>1. CASE d \in CanonicalDecisions /\ AppendEvent(s)
  <2>1. Eligible(Observed[s])
    BY <1>1 DEF Decide, CanonicalDecisions
  <2>2. /\ timeline' \in [Entry -> Seq(Snapshot)] /\ TimelineInv' /\ TimelinesGrow
        /\ OnTimeline(s)'
    BY <1>1, <2>1, AppendEffect
  <2>3. late' = late
    BY <1>1 DEF AppendEvent
  <2>4. Weighed(s)'
    BY <2>2 DEF Weighed
  <2> QED  BY <1>0, <2>2, <2>3, <2>4 DEF Weighed, OnTimeline, TimelinesGrow, EntryOf
<1>2. CASE ~(d \in CanonicalDecisions /\ AppendEvent(s))
  <2>1. timeline' = timeline /\ late \subseteq late' /\ late' \subseteq Snapshot
    BY <1>0, <1>2 DEF FlagLate, ledgerVars
  <2>2. TimelineInv' /\ TimelinesGrow
    BY <1>0, <2>1 DEF TimelineInv, TimelinesGrow
  <2>3. \A t \in Snapshot : Weighed(t) => Weighed(t)'
    BY <2>1 DEF Weighed, OnTimeline
  <2>4. CASE d = "OUT_OF_ORDER" /\ FlagLate(s)
    BY <1>0, <2>1, <2>2, <2>3, <2>4 DEF FlagLate, Weighed
  <2>5. CASE d \notin CanonicalDecisions \cup {"OUT_OF_ORDER"}
    <3>1. \/ ~Eligible(Observed[s])
          \/ \E row \in rows : row.source # Observed[s].source
      BY <2>5 DEF Decide, CanonicalDecisions
    <3>2. Weighed(s)
      BY <3>1 DEF Weighed, OnRecord
    <3> QED  BY <1>0, <2>1, <2>2, <2>3, <3>2
  <2> QED  BY <1>2, <2>4, <2>5
<1> QED  BY <1>1, <1>2

\* A step of w that is gentle and leaves its own part in order.
Moves(w) ==
    /\ IngestTypeOK' /\ TimelineInv' /\ Gentle(w) /\ CallInv(w)'
    /\ \A r \in Receipt : raw'[r] # raw[r] => ReceiptInv(r)'
    /\ Active(w)' => \/ Active(w) /\ KeepsReceipt(w)
                     \/ raw[job'[w].receipt].status = "NONE"

\* Such a step keeps the invariant: its own part by definition, what the others
\* rely on because it is gentle, and no two calls share a receipt.
LEMMA MovesKeeps ==
    ASSUME IInv, NEW w \in Worker, Moves(w)
    PROVE  IInv'
<1>1. Calls' /\ Receipts'
  BY GentleKeeps DEF Moves, Calls, Receipts
<1>2. ReceiptsApart'
  <2> SUFFICES ASSUME NEW v \in Worker, NEW u \in Worker, Active(v)', Active(u)', v # u,
                      u # w
               PROVE  job'[v].receipt # job'[u].receipt
    BY DEF ReceiptsApart
  <2>1. job'[u] = job[u] /\ Active(u) /\ OwnReceipt(u)
    BY DEF Moves, Gentle, Active, IInv, Calls, CallInv
  <2>2. CASE v # w
    <3>1. job'[v] = job[v] /\ Active(v)
      BY <2>2 DEF Moves, Gentle, Active
    <3> QED  BY <2>1, <3>1 DEF IInv, ReceiptsApart
  <2>3. CASE v = w
    BY <2>1, <2>3 DEF Moves, KeepsReceipt, OwnReceipt, IInv, ReceiptsApart
  <2> QED  BY <2>2, <2>3
<1> QED  BY <1>1, <1>2 DEF Moves, IInv

\* A step that changes the job of w, and perhaps locks that are free or its own.
LockStep(w) == /\ lock' \in [Entry -> Worker \cup {NoWorker}]
               /\ \A e \in Entry : lock[e] \notin {w, NoWorker} => lock'[e] = lock[e]

\* What is on the ledger stays settled, as it is.
LEMMA SameLedger ==
    ASSUME timeline' = timeline, late' = late
    PROVE  TimelinesGrow /\ \A s \in Snapshot : Settled(s)' <=> Settled(s)
<1>1. \A s \in Snapshot : Weighed(s)' <=> Weighed(s)
  BY DEF Weighed, OnTimeline
<1>2. \A s \in Snapshot : Considered(s)' <=> Considered(s)
  BY DEF Considered, LastOf
<1> QED  BY <1>1, <1>2 DEF Settled, TimelinesGrow

\* It is gentle, and weighs and stores nothing.
LEMMA LocalStep ==
    ASSUME IInv, NEW w \in Worker, NEW pc, NEW rows, NEW accepted,
           Becomes(w, pc, rows, accepted), LockStep(w), UNCHANGED <<raw, stored, ledgerVars>>
    PROVE  /\ IngestTypeOK' /\ TimelineInv' /\ Gentle(w)
           /\ \A r \in Receipt : raw'[r] = raw[r] /\ StoredBy(r)' = StoredBy(r)
           /\ \A s \in Snapshot : Settled(s)' <=> Settled(s)
<1>1. /\ raw' = raw /\ stored' = stored /\ timeline' = timeline /\ late' = late
      /\ job' \in [Worker -> Job]
  BY DEF ledgerVars, Becomes
<1>2. IngestTypeOK' /\ TimelineInv'
  BY <1>1 DEF IInv, IngestTypeOK, LockStep, TimelineInv, Job
<1>3. \A s \in Snapshot : Settled(s)' <=> Settled(s)
  BY <1>1, SameLedger
<1>4. \A e \in Entry, v \in Worker \ {w} : lock[e] = v => lock'[e] = v
  BY NothingAssumption DEF LockStep
<1>5. Gentle(w)
  BY <1>1, <1>3, <1>4, SameLedger DEF Gentle, Becomes
<1> QED  BY <1>1, <1>2, <1>3, <1>5 DEF StoredBy

\* A call that ends, or goes to its catch block, gives up what it had.
LEMMA GivesUp ==
    ASSUME IInv, NEW w \in Worker, Becomes(w, job'[w].pc, job'[w].rows, job'[w].accepted),
           \/ job'[w].pc = "idle"
           \/ job'[w].pc = "fail" /\ Active(w) /\ KeepsReceipt(w),
           LockStep(w), UNCHANGED <<raw, stored, ledgerVars>>
    PROVE  Moves(w)
<1>1. /\ IngestTypeOK' /\ TimelineInv' /\ Gentle(w)
      /\ \A r \in Receipt : raw'[r] = raw[r]
  BY LocalStep
<1>2. CallInv(w)'
  <2>1. OwnReceipt(w)'
    BY <1>1 DEF OwnReceipt, Active, KeepsReceipt, IInv, Calls, CallInv
  <2> QED  BY <2>1 DEF CallInv, BeforeCommit, OpenBatch, InBatch, AfterCommit,
                   Viewed
<1> QED  BY <1>1, <1>2 DEF Moves, Active

\* ROLLBACK and COMMIT release the locks of w only.
LEMMA ReleasedLocks ==
    ASSUME IngestTypeOK, NEW w \in Worker, ReleaseLocks(w)
    PROVE  LockStep(w)
BY DEF IngestTypeOK, ReleaseLocks, LockStep

\* And so does a statement that takes no lock.
LEMMA SameLocks ==
    ASSUME IngestTypeOK, NEW w \in Worker, UNCHANGED lock
    PROVE  LockStep(w)
BY DEF IngestTypeOK, LockStep

\* The steps that give up: the job that is left is empty.
Fails(w) ==
    \/ job' = [job EXCEPT ![w].pc = "fail", ![w].accepted = <<>>]
    \/ job' = [job EXCEPT ![w].pc = "fail", ![w].accepted = <<>>, ![w].view = {}]

\* The call keeps its receipt and its counts, and goes to the catch block.
LEMMA FailsJob ==
    ASSUME IInv, NEW w \in Worker, Fails(w)
    PROVE  /\ Becomes(w, "fail", job[w].rows, <<>>) /\ KeepsReceipt(w)
           /\ job'[w].counts = job[w].counts
<1>1. job \in [Worker -> Job] /\ job[w] \in Job
  BY DEF IInv, IngestTypeOK, Job
<1>2. \E j : /\ job' = [job EXCEPT ![w] = j]
             /\ \/ j = [job[w] EXCEPT !.pc = "fail", !.accepted = <<>>]
                \/ j = [job[w] EXCEPT !.pc = "fail", !.accepted = <<>>, !.view = {}]
  <2> DEFINE i == [job[w] EXCEPT !.pc = "fail", !.accepted = <<>>]
             k == [job[w] EXCEPT !.pc = "fail", !.accepted = <<>>, !.view = {}]
  <2>1. job' = [job EXCEPT ![w] = i] \/ job' = [job EXCEPT ![w] = k]
    BY <1>1 DEF Fails
  <2> QED  BY <2>1
<1>3. PICK j : /\ job' = [job EXCEPT ![w] = j]
               /\ \/ j = [job[w] EXCEPT !.pc = "fail", !.accepted = <<>>]
                  \/ j = [job[w] EXCEPT !.pc = "fail", !.accepted = <<>>, !.view = {}]
  BY <1>2
<1>4. j \in Job /\ j.pc = "fail" /\ j.rows = job[w].rows /\ j.accepted = <<>>
      /\ j.receipt = job[w].receipt /\ j.counts = job[w].counts
  <2> <<>> \in Seq(Snapshot)
    OBVIOUS
  <2>1. CASE j = [job[w] EXCEPT !.pc = "fail", !.accepted = <<>>]
    BY <1>1, <2>1 DEF Job
  <2>2. CASE j = [job[w] EXCEPT !.pc = "fail", !.accepted = <<>>, !.view = {}]
    BY <1>1, <2>2 DEF Job
  <2> QED  BY <1>3, <2>1, <2>2
<1>5. job' = [job EXCEPT ![w] = j]
  BY <1>3
<1>6. Becomes(w, j.pc, j.rows, j.accepted) /\ job'[w] = j
  BY <1>1, <1>4, <1>5, JobUpdate
<1> QED  BY <1>4, <1>6 DEF KeepsReceipt

\* The call is over.
LEMMA IdlesJob ==
    ASSUME IInv, NEW w \in Worker, job' = [job EXCEPT ![w] = Idle]
    PROVE  Becomes(w, "idle", <<>>, <<>>) /\ job'[w].pc = "idle"
<1>1. job \in [Worker -> Job]
  BY DEF IInv, IngestTypeOK, Job
<1>2. Idle \in Job /\ Idle.pc = "idle" /\ Idle.rows = <<>> /\ Idle.accepted = <<>>
  BY <1>1, JobForms
<1> QED  BY <1>1, <1>2, JobUpdate

\* Roll-backs: a failing batch, a deadlock victim.
LEMMA AbortMoves ==
    ASSUME IInv, NEW w \in Worker, Abort(w) PROVE Moves(w)
<1>1. Fails(w) /\ ReleaseLocks(w) /\ Active(w) /\ UNCHANGED <<raw, stored, ledgerVars>>
  BY DEF Abort, Fails, Active
<1>2. LockStep(w)
  BY <1>1, ReleasedLocks DEF IInv
<1> QED  BY <1>1, <1>2, FailsJob, GivesUp DEF Becomes

\* An error after the batch, a refused duplicate key among them.
LEMMA StepFailsMoves ==
    ASSUME IInv, NEW w \in Worker, StepFails(w) \/ RefuseReconciliation(w) PROVE Moves(w)
<1>1. Fails(w) /\ UNCHANGED lock /\ Active(w) /\ UNCHANGED <<raw, stored, ledgerVars>>
  BY DEF StepFails, RefuseReconciliation, Granted, Fails, Active
<1>2. LockStep(w)
  BY <1>1, SameLocks DEF IInv
<1> QED  BY <1>1, <1>2, FailsJob, GivesUp DEF Becomes

\* A call that throws or dies.
LEMMA EndMoves ==
    ASSUME IInv, NEW w \in Worker, IngestThrows(w) \/ Crash(w) PROVE Moves(w)
<1>1. job' = [job EXCEPT ![w] = Idle] /\ UNCHANGED <<raw, stored, ledgerVars>>
  BY DEF IngestThrows, Crash
<1>2. LockStep(w)
  BY ReleasedLocks, SameLocks DEF IInv, IngestThrows, Crash
<1> QED  BY <1>1, <1>2, IdlesJob, GivesUp DEF Becomes

\* The rows of the payload are a sequence of snapshots.
LEMMA BatchType ==
    ASSUME IInv, NEW w \in Worker, Active(w)
    PROVE  /\ job[w] \in Job /\ job[w].receipt \in Receipt
           /\ BatchOf(w).rows \in Seq(Snapshot) /\ BatchOf(w).malformed \in Nat
           /\ BatchOf(w).parses \in BOOLEAN
           /\ Len(BatchOf(w).rows) \in Nat
<1>1. job[w] \in Job /\ job[w].receipt \in Receipt
  BY DEF IInv, IngestTypeOK, Job, Calls, CallInv, OwnReceipt
<1>2. Payload[job[w].receipt] \in [parses : BOOLEAN, malformed : Nat, rows : Seq(Snapshot)]
  BY <1>1, PayloadAssumption
<1> QED  BY <1>1, <1>2 DEF BatchOf

\* The adapter's answer opens the batch, or ends the try.
LEMMA ParseMoves ==
    ASSUME IInv, NEW w \in Worker, Parse(w) PROVE Moves(w)
<1>0. /\ job[w].pc = "parse" /\ Active(w) /\ CallInv(w) /\ LockStep(w) /\ UNCHANGED lock
      /\ UNCHANGED <<raw, stored, ledgerVars>> /\ job \in [Worker -> Job]
  BY SameLocks DEF Parse, Active, IInv, Calls, IngestTypeOK, Job
<1>1. CASE ~BatchOf(w).parses
  <2> DEFINE j == [job[w] EXCEPT !.pc = "fail"]
  <2>1. j \in Job /\ j.pc = "fail" /\ j.receipt = job[w].receipt
    BY <1>0, BatchType DEF Job
  <2>2. job' = [job EXCEPT ![w] = j]
    BY <1>0, <1>1 DEF Parse
  <2> QED  BY <1>0, <2>1, <2>2, JobUpdate, GivesUp DEF Becomes, KeepsReceipt
<1>2. CASE BatchOf(w).parses
  <2> DEFINE c == [job[w].counts EXCEPT !.observed = Len(BatchOf(w).rows) + BatchOf(w).malformed,
                                        !.rejected = BatchOf(w).malformed]
             j == [job[w] EXCEPT !.pc = "persist", !.rows = BatchOf(w).rows, !.counts = c]
  <2>0. c \in Counts
    <3>1. job[w].counts \in Counts /\ Len(BatchOf(w).rows) + BatchOf(w).malformed \in Nat
      BY <1>0, BatchType DEF Job
    <3> QED  BY <1>0, <3>1, BatchType DEF Counts
  <2>1. /\ j \in Job /\ j.pc = "persist" /\ j.receipt = job[w].receipt
        /\ j.rows = BatchOf(w).rows /\ j.accepted = job[w].accepted
    <3> HIDE DEF c
    <3> QED  BY <1>0, <2>0, BatchType DEF Job
  <2>2. job' = [job EXCEPT ![w] = j]
    BY <1>0, <1>2 DEF Parse
  <2>3. /\ Becomes(w, "persist", BatchOf(w).rows, <<>>) /\ KeepsReceipt(w)
    <3> HIDE DEF j
    <3>1. Becomes(w, j.pc, j.rows, j.accepted) /\ job'[w] = j
      BY <1>0, <2>1, <2>2, JobUpdate
    <3>2. j.accepted = <<>>
      BY <1>0, <2>1 DEF CallInv, BeforeCommit
    <3> QED  BY <2>1, <3>1, <3>2 DEF KeepsReceipt
  <2>4. /\ IngestTypeOK' /\ TimelineInv' /\ Gentle(w)
        /\ \A r \in Receipt : raw'[r] = raw[r] /\ StoredBy(r)' = StoredBy(r)
    BY <1>0, <2>3, LocalStep
  <2>5. CallInv(w)'
    <3>1. OwnReceipt(w)'
      BY <1>0, <2>3, <2>4 DEF CallInv, OwnReceipt, KeepsReceipt, Active
    <3>2. BeforeCommit(w)'
      BY <1>0, <2>3, <2>4, BatchType DEF CallInv, BeforeCommit, KeepsReceipt, Becomes
    <3>3. OpenBatch(w)'
      BY <1>0, <2>3, InEmpty DEF OpenBatch, KeepsReceipt, Becomes, BatchOf, Storable
    <3>4. AfterCommit(w)' /\ Viewed(w)'
      BY <2>3 DEF AfterCommit, Viewed, Becomes
    <3> QED  BY <3>1, <3>2, <3>3, <3>4 DEF CallInv
  <2> QED  BY <1>0, <2>3, <2>4, <2>5 DEF Moves
<1> QED  BY <1>1, <1>2

\* A new job with the same receipt.
LEMMA SameReceipt ==
    ASSUME IInv, NEW w \in Worker, NEW j \in Job, job' = [job EXCEPT ![w] = j],
           j.receipt = job[w].receipt
    PROVE  Becomes(w, j.pc, j.rows, j.accepted) /\ KeepsReceipt(w)
<1>1. job \in [Worker -> Job]
  BY DEF IInv, IngestTypeOK, Job
<1> QED  BY <1>1, JobUpdate DEF KeepsReceipt

\* A step inside the transaction of a batch.
LEMMA BatchStep ==
    ASSUME IInv, NEW w \in Worker, InBatch(w), NEW pc \in {"persist", "insert"}, NEW rows,
           NEW accepted, Becomes(w, pc, rows, accepted), KeepsReceipt(w), LockStep(w),
           UNCHANGED <<raw, stored, ledgerVars>>, OpenBatch(w)'
    PROVE  Moves(w)
<1>0. Active(w) /\ CallInv(w) /\ job[w].receipt \in Receipt
  BY BatchType DEF IInv, Calls, InBatch, Active
<1>1. /\ IngestTypeOK' /\ TimelineInv' /\ Gentle(w)
      /\ \A r \in Receipt : raw'[r] = raw[r] /\ StoredBy(r)' = StoredBy(r)
  BY LocalStep
<1>2. job'[w].pc = pc /\ job'[w].receipt = job[w].receipt
  BY DEF Becomes, KeepsReceipt
<1>3. OwnReceipt(w)' /\ BeforeCommit(w)' /\ AfterCommit(w)' /\ Viewed(w)'
  BY <1>0, <1>1, <1>2 DEF CallInv, OwnReceipt, BeforeCommit, AfterCommit, Viewed, Active, InBatch
<1> QED  BY <1>0, <1>1, <1>3 DEF Moves, CallInv

\* What the first row of an open batch is.
LEMMA FirstRow ==
    ASSUME IInv, NEW w \in Worker, InBatch(w), job[w].rows # <<>>
    PROVE  /\ job[w] \in Job /\ OpenBatch(w) /\ Row(w) \in Snapshot
           /\ Tail(job[w].rows) \in Seq(Snapshot)
           /\ \A s : InSeq(s, job[w].rows) <=> s = Row(w) \/ InSeq(s, Tail(job[w].rows))
           /\ InSeq(Row(w), BatchOf(w).rows)
<1>1. job[w] \in Job /\ OpenBatch(w)
  BY DEF IInv, IngestTypeOK, Job, Calls, CallInv
<1>2. job[w].rows \in Seq(Snapshot)
  BY <1>1 DEF Job
<1>3. /\ Row(w) \in Snapshot /\ Tail(job[w].rows) \in Seq(Snapshot)
      /\ \A s : InSeq(s, job[w].rows) <=> s = Row(w) \/ InSeq(s, Tail(job[w].rows))
  BY <1>2, InTail DEF Row
<1> QED  BY <1>1, <1>3 DEF OpenBatch

\* A row that leaves the list rejected, stored or known.
LEMMA RowDone ==
    ASSUME IInv, NEW w \in Worker, InBatch(w), job[w].rows # <<>>,
           Row(w) \in Misfiled \/ AlreadyStored(w),
           NEW tally \in Counts,
           job' = [job EXCEPT ![w] = [job[w] EXCEPT !.pc = "persist", !.rows = Tail(@),
                                                    !.tally = tally]],
           UNCHANGED <<raw, stored, lock, ledgerVars>>
    PROVE  Moves(w)
<1> DEFINE j == [job[w] EXCEPT !.pc = "persist", !.rows = Tail(@), !.tally = tally]
<1>1. /\ j \in Job /\ j.pc = "persist" /\ j.receipt = job[w].receipt
      /\ j.rows = Tail(job[w].rows) /\ j.accepted = job[w].accepted
  BY FirstRow DEF Job
<1>2. Becomes(w, "persist", Tail(job[w].rows), job[w].accepted) /\ KeepsReceipt(w)
  <2> HIDE DEF j
  <2>1. job' = [job EXCEPT ![w] = j]
    BY DEF j
  <2>2. Becomes(w, j.pc, j.rows, j.accepted) /\ KeepsReceipt(w)
    BY <1>1, <2>1, SameReceipt
  <2> QED  BY <1>1, <2>2
<1>3. LockStep(w)
  BY SameLocks DEF IInv
<1>4. OpenBatch(w)'
  <2>1. /\ job'[w].pc = "persist" /\ job'[w].receipt = job[w].receipt
        /\ job'[w].rows = Tail(job[w].rows) /\ job'[w].accepted = job[w].accepted
    BY <1>2 DEF Becomes, KeepsReceipt
  <2>2. \A s \in Storable(job[w].receipt) :
           stored[s] # NoReceipt \/ InSeq(s, job[w].accepted) \/ InSeq(s, Tail(job[w].rows))
    BY FirstRow DEF OpenBatch, AlreadyStored, Storable
  <2>3. /\ \A s \in Snapshot : InSeq(s, Tail(job[w].rows)) => InSeq(s, BatchOf(w).rows)
        /\ \A s \in Snapshot : InSeq(s, job[w].accepted) =>
              s \in Storable(job[w].receipt) /\ stored[s] = NoReceipt /\ lock[EntryOf(s)] = w
    BY FirstRow DEF OpenBatch
  <2> QED  BY <2>1, <2>2, <2>3 DEF OpenBatch, BatchOf, Storable
<1> QED  BY <1>2, <1>3, <1>4, BatchStep

\* A misfiled observation.
LEMMA RejectMoves ==
    ASSUME IInv, NEW w \in Worker, RejectObservation(w) PROVE Moves(w)
<1> DEFINE tally == [job[w].tally EXCEPT !.rejected = @ + 1]
<1>1. InBatch(w) /\ job[w].rows # <<>> /\ Row(w) \in Misfiled
  BY DEF RejectObservation, AtRow, InBatch
<1>2. job \in [Worker -> Job] /\ job[w] \in Job /\ job[w].pc = "persist"
  BY DEF IInv, IngestTypeOK, Job, RejectObservation, AtRow
<1>3. tally \in Counts
  <2>1. job[w].tally \in Counts
    BY <1>2 DEF Job
  <2> QED  BY <2>1 DEF Counts
<1>4. job' = [job EXCEPT ![w] = [job[w] EXCEPT !.pc = "persist", !.rows = Tail(@), !.tally = tally]]
  BY <1>2 DEF RejectObservation, Job
<1> HIDE DEF tally
<1> QED  BY <1>1, <1>3, <1>4, RowDone DEF RejectObservation

\* An observation that is already stored, or twice in this batch.
LEMMA DuplicateMoves ==
    ASSUME IInv, NEW w \in Worker, RecordDuplicate(w) PROVE Moves(w)
<1> DEFINE tally == [job[w].tally EXCEPT !.duplicates = @ + 1]
<1>1. InBatch(w) /\ job[w].pc = "insert" /\ AlreadyStored(w)
  BY DEF RecordDuplicate, InBatch
<1>2. job \in [Worker -> Job] /\ job[w] \in Job /\ job[w].rows # <<>>
  BY <1>1 DEF IInv, IngestTypeOK, Job, Calls, CallInv, OpenBatch
<1>3. tally \in Counts
  <2>1. job[w].tally \in Counts
    BY <1>2 DEF Job
  <2> QED  BY <2>1 DEF Counts
<1>4. job' = [job EXCEPT ![w] = [job[w] EXCEPT !.pc = "persist", !.rows = Tail(@), !.tally = tally]]
  BY <1>2 DEF RecordDuplicate, Job
<1> HIDE DEF tally
<1> QED  BY <1>1, <1>2, <1>3, <1>4, RowDone DEF RecordDuplicate

\* The entry of the first row is locked.
LEMMA ResolveMoves ==
    ASSUME IInv, NEW w \in Worker, ResolveEntry(w) PROVE Moves(w)
<1> DEFINE j == [job[w] EXCEPT !.pc = "insert"]
           e == EntryOf(Row(w))
<1>1. /\ InBatch(w) /\ job[w].rows # <<>> /\ Row(w) \notin Misfiled
      /\ lock[e] \in {w, NoWorker} /\ lock' = [lock EXCEPT ![e] = w]
      /\ UNCHANGED <<raw, stored, ledgerVars>>
  BY DEF ResolveEntry, AtRow, InBatch
<1>2. job \in [Worker -> Job] /\ job[w] \in Job /\ lock \in [Entry -> Worker \cup {NoWorker}]
      /\ Row(w) \in Snapshot /\ e \in Entry /\ OpenBatch(w)
  BY <1>1, FirstRow, ObservationAssumption DEF IInv, IngestTypeOK, Job, EntryOf
<1>3. /\ j \in Job /\ j.pc = "insert" /\ j.receipt = job[w].receipt
      /\ j.rows = job[w].rows /\ j.accepted = job[w].accepted
  BY <1>2 DEF Job
<1>4. job' = [job EXCEPT ![w] = j]
  BY <1>2 DEF ResolveEntry
<1>5. Becomes(w, "insert", job[w].rows, job[w].accepted) /\ KeepsReceipt(w)
  <2> HIDE DEF j
  <2>1. Becomes(w, j.pc, j.rows, j.accepted) /\ KeepsReceipt(w)
    BY <1>3, <1>4, SameReceipt
  <2> QED  BY <1>3, <2>1
<1>6. LockStep(w) /\ lock'[e] = w /\ \A x \in Entry : lock[x] = w => lock'[x] = w
  BY <1>1, <1>2 DEF LockStep
<1>7. OpenBatch(w)'
  <2>1. /\ job'[w].pc = "insert" /\ job'[w].receipt = job[w].receipt
        /\ job'[w].rows = job[w].rows /\ job'[w].accepted = job[w].accepted
    BY <1>5 DEF Becomes, KeepsReceipt
  <2>2. \A s \in Snapshot : EntryOf(s) \in Entry
    BY ObservationAssumption DEF EntryOf
  <2>3. Row(w)' = Row(w)
    BY <2>1 DEF Row
  <2>4. /\ \A s \in Snapshot : InSeq(s, job[w].rows) => InSeq(s, BatchOf(w).rows)
        /\ \A s \in Snapshot : InSeq(s, job[w].accepted) =>
              s \in Storable(job[w].receipt) /\ stored[s] = NoReceipt /\ lock'[EntryOf(s)] = w
        /\ \A s \in Storable(job[w].receipt) :
              stored[s] # NoReceipt \/ InSeq(s, job[w].accepted) \/ InSeq(s, job[w].rows)
    BY <1>1, <1>2, <1>6, <2>2 DEF OpenBatch
  <2> QED  BY <1>1, <1>6, <2>1, <2>3, <2>4 DEF OpenBatch, BatchOf, Storable
<1> QED  BY <1>1, <1>5, <1>6, <1>7, BatchStep

\* A new observation is inserted, invisible until the batch commits.
LEMMA InsertMoves ==
    ASSUME IInv, NEW w \in Worker, InsertSnapshot(w) PROVE Moves(w)
<1> DEFINE more == Append(job[w].accepted, Row(w))
           j == [job[w] EXCEPT !.pc = "persist", !.rows = Tail(@), !.accepted = more]
<1>1. InBatch(w) /\ job[w].pc = "insert" /\ ~AlreadyStored(w) /\ LockStep(w)
      /\ UNCHANGED <<raw, stored, lock, ledgerVars>>
  BY SameLocks DEF InsertSnapshot, InBatch, IInv
<1>2. job \in [Worker -> Job] /\ job[w] \in Job /\ OpenBatch(w) /\ job[w].rows # <<>>
  BY <1>1 DEF IInv, IngestTypeOK, Job, Calls, CallInv, OpenBatch
<1>3. /\ Row(w) \in Snapshot /\ Row(w) \notin Misfiled /\ lock[EntryOf(Row(w))] = w
      /\ InSeq(Row(w), BatchOf(w).rows)
  BY <1>1, <1>2, FirstRow DEF OpenBatch
<1>4. more \in Seq(Snapshot) /\ \A s : InSeq(s, more) <=> s = Row(w) \/ InSeq(s, job[w].accepted)
  <2>1. job[w].accepted \in Seq(Snapshot)
    BY <1>2 DEF Job
  <2> QED  BY <1>3, <2>1, InAppend
<1>5. job' = [job EXCEPT ![w] = j]
  BY <1>2 DEF InsertSnapshot
<1>6. /\ j \in Job /\ j.pc = "persist" /\ j.receipt = job[w].receipt
      /\ j.rows = Tail(job[w].rows) /\ j.accepted = more
  <2> HIDE DEF more
  <2> QED  BY <1>1, <1>2, <1>4, FirstRow DEF Job
<1>7. Becomes(w, "persist", Tail(job[w].rows), more) /\ KeepsReceipt(w)
  <2> HIDE DEF j, more
  <2>1. Becomes(w, j.pc, j.rows, j.accepted) /\ KeepsReceipt(w)
    BY <1>5, <1>6, SameReceipt
  <2> QED  BY <1>6, <2>1
<1>8. OpenBatch(w)'
  <2> HIDE DEF j, more
  <2>1. /\ job'[w].pc = "persist" /\ job'[w].receipt = job[w].receipt
        /\ job'[w].rows = Tail(job[w].rows) /\ job'[w].accepted = more
    BY <1>7 DEF Becomes, KeepsReceipt
  <2>2. \A s \in Snapshot : InSeq(s, Tail(job[w].rows)) => InSeq(s, BatchOf(w).rows)
    BY <1>1, <1>2, FirstRow DEF OpenBatch
  <2>3. Row(w) \in Storable(job[w].receipt) /\ stored[Row(w)] = NoReceipt
    BY <1>1, <1>3 DEF Storable, BatchOf, AlreadyStored
  <2>4. \A s \in Snapshot : InSeq(s, more) =>
              s \in Storable(job[w].receipt) /\ stored[s] = NoReceipt /\ lock[EntryOf(s)] = w
    BY <1>1, <1>2, <1>3, <1>4, <2>3 DEF OpenBatch
  <2>5. \A s \in Storable(job[w].receipt) :
           stored[s] # NoReceipt \/ InSeq(s, more) \/ InSeq(s, Tail(job[w].rows))
    BY <1>1, <1>2, <1>4, FirstRow DEF OpenBatch
  <2> QED  BY <1>1, <2>1, <2>2, <2>4, <2>5 DEF OpenBatch, BatchOf, Storable
<1> HIDE DEF j, more
<1> QED  BY <1>1, <1>7, <1>8, BatchStep

\* INSERT of a receipt: a call that begins.
LEMMA CreateMoves ==
    ASSUME IInv, NEW w \in Worker, NEW r \in Receipt, CreateReceipt(w, r) PROVE Moves(w)
<1> DEFINE j == [Idle EXCEPT !.pc = "claim", !.receipt = r]
<1>1. /\ job[w].pc = "idle" /\ raw[r].status = "NONE" /\ ~Active(w) /\ ReceiptInv(r)
      /\ raw' = [raw EXCEPT ![r].status = "RECEIVED"] /\ job' = [job EXCEPT ![w] = j]
      /\ UNCHANGED <<stored, lock, ledgerVars>>
  BY DEF CreateReceipt, Active, IInv, Receipts
<1>2. IngestTypeOK /\ job \in [Worker -> Job]
  BY DEF IInv, IngestTypeOK, Job
<1>3. /\ j \in Job /\ j.pc = "claim" /\ j.receipt = r /\ j.rows = <<>> /\ j.accepted = <<>>
  BY <1>2, JobForms DEF Job
<1>4. Becomes(w, "claim", <<>>, <<>>) /\ job'[w].receipt = r
  <2> HIDE DEF j
  <2>1. Becomes(w, j.pc, j.rows, j.accepted) /\ job'[w] = j
    BY <1>1, <1>2, <1>3, JobUpdate
  <2> QED  BY <1>3, <2>1
<1>5. /\ raw'[r].status = "RECEIVED" /\ raw'[r].attempts = raw[r].attempts
      /\ \A q \in Receipt \ {r} : raw'[q] = raw[q]
      /\ raw' \in [Receipt -> [status : {"NONE", "RECEIVED", "PROCESSING"} \cup Final,
                               attempts : 0 .. 1, counts : Counts]]
  BY <1>1, <1>2 DEF IngestTypeOK
<1>6. IngestTypeOK' /\ TimelineInv'
  BY <1>1, <1>2, <1>4, <1>5 DEF IngestTypeOK, IInv, TimelineInv, ledgerVars, Becomes, Job
<1>7. Gentle(w)
  BY <1>1, <1>4, <1>5, SameLedger DEF Gentle, Becomes, Mine, Active, ledgerVars
<1>8. CallInv(w)'
  BY <1>1, <1>4, <1>5 DEF CallInv, OwnReceipt, BeforeCommit, OpenBatch, InBatch, AfterCommit,
                          Viewed, Becomes, StoredBy, ReceiptInv
<1>9. ReceiptInv(r)'
  BY <1>1, <1>5 DEF ReceiptInv, Successes
<1> QED  BY <1>1, <1>4, <1>5, <1>6, <1>7, <1>8, <1>9 DEF Moves

\* RECEIVED becomes PROCESSING.
LEMMA ClaimMoves ==
    ASSUME IInv, NEW w \in Worker, Claim(w) PROVE Moves(w)
<1> DEFINE r == job[w].receipt
           j == [job[w] EXCEPT !.pc = "parse"]
<1>1. /\ job[w].pc = "claim" /\ raw[r].status = "RECEIVED" /\ Active(w) /\ CallInv(w)
      /\ raw' = [raw EXCEPT ![r].status = "PROCESSING", ![r].attempts = @ + 1]
      /\ UNCHANGED <<stored, lock, ledgerVars>>
  BY DEF Claim, Active, IInv, Calls
<1>2. IngestTypeOK /\ job \in [Worker -> Job] /\ r \in Receipt /\ job[w] \in Job /\ ReceiptInv(r)
  BY <1>1 DEF IInv, IngestTypeOK, Job, CallInv, OwnReceipt, Receipts
<1>3. /\ j \in Job /\ j.pc = "parse" /\ j.receipt = r
      /\ j.rows = job[w].rows /\ j.accepted = job[w].accepted
  BY <1>2 DEF Job
<1>4. Becomes(w, "parse", job[w].rows, job[w].accepted) /\ KeepsReceipt(w)
  <2>1. job' = [job EXCEPT ![w] = j]
    BY <1>2 DEF Claim
  <2> HIDE DEF j, r
  <2>2. Becomes(w, j.pc, j.rows, j.accepted) /\ KeepsReceipt(w)
    BY <1>3, <2>1, SameReceipt DEF r
  <2> QED  BY <1>3, <2>2
<1>5. /\ raw'[r].status = "PROCESSING"
      /\ \A q \in Receipt \ {r} : raw'[q] = raw[q]
      /\ raw' \in [Receipt -> [status : {"NONE", "RECEIVED", "PROCESSING"} \cup Final,
                               attempts : 0 .. 1, counts : Counts]]
  <2>1. raw[r].attempts = 0
    BY <1>1, <1>2 DEF ReceiptInv
  <2> QED  BY <1>1, <1>2, <2>1 DEF IngestTypeOK
<1>6. IngestTypeOK' /\ TimelineInv'
  BY <1>1, <1>2, <1>4, <1>5 DEF IngestTypeOK, IInv, TimelineInv, ledgerVars, Becomes, Job
<1>7. Gentle(w)
  BY <1>1, <1>4, <1>5, SameLedger DEF Gentle, Becomes, Mine, Active, ledgerVars
<1>8. CallInv(w)'
  BY <1>1, <1>2, <1>4, <1>5 DEF CallInv, OwnReceipt, BeforeCommit, OpenBatch, InBatch,
                          AfterCommit, Viewed, Becomes, StoredBy, KeepsReceipt
<1>9. \A q \in Receipt : q = r => ReceiptInv(q)'
  BY <1>5 DEF ReceiptInv, Successes
<1> QED  BY <1>1, <1>4, <1>5, <1>6, <1>7, <1>8, <1>9 DEF Moves

\* COMMIT: the snapshots that become visible are the storable ones that nobody
\* has stored.
LEMMA PublishEffect ==
    ASSUME IInv, NEW w \in Worker, Publish(w)
    PROVE  /\ Active(w) /\ job[w].receipt \in Receipt
           /\ stored' \in [Snapshot -> Receipt \cup {NoReceipt}]
           /\ \A s \in Snapshot : stored'[s] = stored[s] \/ Stores(w, s)
           /\ \A s \in Storable(job[w].receipt) : stored'[s] # NoReceipt
           /\ StoredBy(job[w].receipt) = {}
           /\ \A s \in Snapshot : stored'[s] = job[w].receipt <=> InSeq(s, job[w].accepted)
           /\ \A s \in Snapshot : InSeq(s, job[w].accepted) <=>
                 s \in Storable(job[w].receipt) /\ stored[s] = NoReceipt
<1> DEFINE r == job[w].receipt
<1>1. /\ InBatch(w) /\ Active(w) /\ job[w].rows = <<>> /\ CallInv(w)
      /\ stored' = [s \in Snapshot |-> IF InSeq(s, job[w].accepted) THEN r ELSE stored[s]]
  BY DEF Publish, InBatch, Active, IInv, Calls
<1>2. r \in Receipt /\ stored \in [Snapshot -> Receipt \cup {NoReceipt}] /\ StoredBy(r) = {}
  BY <1>1 DEF CallInv, OwnReceipt, BeforeCommit, InBatch, IInv, IngestTypeOK
<1>3. \A s \in Snapshot : InSeq(s, job[w].accepted) <=> s \in Storable(r) /\ stored[s] = NoReceipt
  BY <1>1, InEmpty DEF CallInv, OpenBatch, Storable
<1>4. \A s \in Snapshot : InSeq(s, job[w].accepted) => lock[EntryOf(s)] = w
  BY <1>1 DEF CallInv, OpenBatch
<1> HIDE DEF r
<1>5. stored' \in [Snapshot -> Receipt \cup {NoReceipt}]
  BY <1>1, <1>2
<1>6. \A s \in Snapshot : stored'[s] = stored[s] \/ Stores(w, s)
  BY <1>1, <1>3, <1>4 DEF Stores, r
<1>7. \A s \in Snapshot : stored'[s] = r <=> InSeq(s, job[w].accepted)
  BY <1>1, <1>2 DEF StoredBy
<1>8. \A s \in Storable(r) : stored'[s] # NoReceipt
  BY <1>1, <1>2, <1>3, NothingAssumption DEF Storable
<1> QED  BY <1>1, <1>2, <1>3, <1>5, <1>6, <1>7, <1>8 DEF r

\* It is gentle whatever the call does next.
LEMMA PublishGentle ==
    ASSUME IInv, NEW w \in Worker, Publish(w), NEW pc, NEW rows, NEW accepted,
           Becomes(w, pc, rows, accepted)
    PROVE  IngestTypeOK' /\ TimelineInv' /\ Gentle(w) /\ UNCHANGED raw
<1>1. /\ raw' = raw /\ timeline' = timeline /\ late' = late /\ ReleaseLocks(w)
      /\ job' \in [Worker -> Job]
  BY DEF Publish, ledgerVars, Becomes
<1>2. LockStep(w)
  BY <1>1, ReleasedLocks DEF IInv
<1>3. IngestTypeOK' /\ TimelineInv'
  BY <1>1, <1>2, PublishEffect DEF IInv, IngestTypeOK, LockStep, TimelineInv, Job
<1>4. TimelinesGrow /\ \A s \in Snapshot : Settled(s)' <=> Settled(s)
  BY <1>1, SameLedger
<1>5. \A e \in Entry, v \in Worker \ {w} : lock[e] = v => lock'[e] = v
  BY <1>2, NothingAssumption DEF LockStep
<1> QED  BY <1>1, <1>3, <1>4, <1>5, PublishEffect DEF Gentle, Becomes

\* The answer arrives.
LEMMA CommitMoves ==
    ASSUME IInv, NEW w \in Worker, CommitBatch(w) PROVE Moves(w)
<1> DEFINE c == [job[w].counts EXCEPT !.accepted   = Len(job[w].accepted),
                                      !.duplicates = job[w].tally.duplicates,
                                      !.rejected   = job[w].counts.rejected + job[w].tally.rejected]
           j == [job[w] EXCEPT !.pc = "reconcile", !.counts = c]
<1>1. Publish(w) /\ job[w].pc = "persist" /\ Active(w) /\ CallInv(w)
  BY DEF CommitBatch, Publish, Active, IInv, Calls
<1>2. job \in [Worker -> Job] /\ job[w] \in Job
  BY DEF IInv, IngestTypeOK, Job
<1>3. c \in Counts
  <2>1. /\ job[w].counts \in Counts /\ job[w].tally \in Counts /\ Len(job[w].accepted) \in Nat
    BY <1>2 DEF Job
  <2>2. /\ job[w].tally.duplicates \in Nat
        /\ job[w].counts.rejected + job[w].tally.rejected \in Nat
    BY <2>1 DEF Counts
  <2> QED  BY <2>1, <2>2 DEF Counts
<1>4. job' = [job EXCEPT ![w] = j]
  BY <1>2 DEF CommitBatch
<1>5. /\ j \in Job /\ j.pc = "reconcile" /\ j.receipt = job[w].receipt
      /\ j.rows = job[w].rows /\ j.accepted = job[w].accepted
  <2> HIDE DEF c
  <2> QED  BY <1>2, <1>3 DEF Job
<1>6. Becomes(w, "reconcile", job[w].rows, job[w].accepted) /\ KeepsReceipt(w)
  <2> HIDE DEF j, c
  <2>1. Becomes(w, j.pc, j.rows, j.accepted) /\ KeepsReceipt(w)
    BY <1>4, <1>5, SameReceipt
  <2> QED  BY <1>5, <2>1
<1> HIDE DEF j, c
<1>7. IngestTypeOK' /\ TimelineInv' /\ Gentle(w) /\ UNCHANGED raw
  BY <1>1, <1>6, PublishGentle
<1>8. CallInv(w)'
  <2>1. /\ job'[w].pc = "reconcile" /\ job'[w].receipt = job[w].receipt
        /\ job'[w].accepted = job[w].accepted
    BY <1>6 DEF Becomes, KeepsReceipt
  <2>2. OwnReceipt(w)' /\ BeforeCommit(w)' /\ OpenBatch(w)' /\ Viewed(w)'
    BY <1>1, <1>7, <2>1 DEF CallInv, OwnReceipt, Active, BeforeCommit, OpenBatch, InBatch, Viewed
  <2>3. AfterCommit(w)'
    BY <1>1, <2>1, PublishEffect DEF AfterCommit, StoredBy, Storable
  <2> QED  BY <2>2, <2>3 DEF CallInv
<1> QED  BY <1>1, <1>6, <1>7, <1>8 DEF Moves

\* Or does not: the snapshots are stored, the call goes to its catch block.
LEMMA AcknowledgementMoves ==
    ASSUME IInv, NEW w \in Worker, AcknowledgementLost(w) PROVE Moves(w)
<1>1. Publish(w) /\ Fails(w) /\ Active(w) /\ CallInv(w)
  BY DEF AcknowledgementLost, Publish, Fails, Active, IInv, Calls
<1>2. Becomes(w, "fail", job[w].rows, <<>>) /\ KeepsReceipt(w)
  BY <1>1, FailsJob
<1>3. IngestTypeOK' /\ TimelineInv' /\ Gentle(w) /\ UNCHANGED raw
  BY <1>1, <1>2, PublishGentle
<1>4. CallInv(w)'
  BY <1>1, <1>2, <1>3 DEF CallInv, OwnReceipt, Active, BeforeCommit, OpenBatch, InBatch,
                          AfterCommit, Viewed, Becomes, KeepsReceipt
<1> QED  BY <1>1, <1>2, <1>3, <1>4 DEF Moves

\* The snapshot whose turn it is.
LEMMA CandidateIs ==
    ASSUME IInv, NEW w \in Worker, job[w].accepted # <<>>
    PROVE  /\ Candidate(w) \in Snapshot /\ EntryOf(Candidate(w)) \in Entry
           /\ Tail(job[w].accepted) \in Seq(Snapshot)
           /\ \A s : InSeq(s, job[w].accepted)
                        <=> s = Candidate(w) \/ InSeq(s, Tail(job[w].accepted))
<1>1. job[w].accepted \in Seq(Snapshot)
  BY DEF IInv, IngestTypeOK
<1>2. /\ Candidate(w) \in Snapshot /\ Tail(job[w].accepted) \in Seq(Snapshot)
      /\ \A s : InSeq(s, job[w].accepted)
                   <=> s = Candidate(w) \/ InSeq(s, Tail(job[w].accepted))
  BY <1>1, InTail DEF Candidate
<1> QED  BY <1>2, ObservationAssumption DEF EntryOf

\* What shows in an entry is on its timeline.
LEMMA LastOnRecord ==
    ASSUME IInv, NEW e \in Entry
    PROVE  /\ OnRecord(LastOf(e), e)
           /\ LastOf(e) \in SUBSET {Observed[s] : s \in Snapshot}
<1>1. timeline[e] \in Seq(Snapshot)
  BY DEF IInv, IngestTypeOK
<1>2. Len(timeline[e]) # 0 => /\ Len(timeline[e]) \in DOMAIN timeline[e]
                              /\ timeline[e][Len(timeline[e])] \in Snapshot
  BY <1>1
<1> QED  BY <1>2 DEF OnRecord, LastOf

\* The first SELECT of a reconciliation: the row it sees is on the timeline.
LEMMA BeginMoves ==
    ASSUME IInv, NEW w \in Worker, BeginReconciliation(w) PROVE Moves(w)
<1>0. PICK rows : rows = LastOf(EntryOf(Candidate(w)))
  OBVIOUS
<1> DEFINE j == [job[w] EXCEPT !.pc = "weigh", !.view = rows]
<1>1. /\ job[w].pc = "reconcile" /\ job[w].accepted # <<>> /\ Active(w) /\ CallInv(w)
      /\ UNCHANGED <<raw, stored, lock, ledgerVars>> /\ LockStep(w)
  BY SameLocks DEF BeginReconciliation, Active, IInv, Calls
<1>2. job \in [Worker -> Job] /\ job[w] \in Job
  BY DEF IInv, IngestTypeOK, Job
<1>3. /\ OnRecord(rows, EntryOf(Candidate(w))) /\ rows \in SUBSET {Observed[s] : s \in Snapshot}
  BY <1>0, <1>1, CandidateIs, LastOnRecord
<1>4. /\ j \in Job /\ j.pc = "weigh" /\ j.receipt = job[w].receipt
      /\ j.rows = job[w].rows /\ j.accepted = job[w].accepted /\ j.view = rows
  BY <1>2, <1>3 DEF Job
<1>5. job' = [job EXCEPT ![w] = j]
  BY <1>0, <1>2 DEF BeginReconciliation
<1>6. /\ Becomes(w, "weigh", job[w].rows, job[w].accepted) /\ KeepsReceipt(w)
      /\ job'[w].view = rows
  <2> HIDE DEF j
  <2>1. Becomes(w, j.pc, j.rows, j.accepted) /\ KeepsReceipt(w)
    BY <1>4, <1>5, SameReceipt
  <2>2. job'[w] = j
    BY <1>2, <1>5
  <2> QED  BY <1>4, <2>1, <2>2
<1> HIDE DEF j
<1>7. /\ IngestTypeOK' /\ TimelineInv' /\ Gentle(w)
      /\ \A r \in Receipt : raw'[r] = raw[r] /\ StoredBy(r)' = StoredBy(r)
      /\ \A s \in Snapshot : Settled(s)' <=> Settled(s)
  BY <1>1, <1>6, LocalStep
<1>8. /\ job'[w].pc = "weigh" /\ job'[w].receipt = job[w].receipt
      /\ job'[w].accepted = job[w].accepted /\ timeline' = timeline /\ stored' = stored
  BY <1>1, <1>6 DEF Becomes, KeepsReceipt, ledgerVars
<1>9. OwnReceipt(w)' /\ BeforeCommit(w)' /\ OpenBatch(w)'
  BY <1>1, <1>7, <1>8 DEF CallInv, OwnReceipt, Active, BeforeCommit, OpenBatch, InBatch
<1>10. AfterCommit(w)'
  BY <1>1, <1>7, <1>8 DEF CallInv, AfterCommit, StoredBy, Storable
<1>11. Viewed(w)'
  BY <1>1, <1>3, <1>6, <1>8 DEF Viewed, OnRecord, Candidate, EntryOf
<1> QED  BY <1>1, <1>6, <1>7, <1>9, <1>10, <1>11 DEF Moves, CallInv

\* Under READ COMMITTED the row a reconciliation reads is the one that shows.
LEMMA DecidesOnLast ==
    ASSUME Isolation = "READ_COMMITTED", IInv, NEW w \in Worker, Reconcile(w)
    PROVE  job[w].accepted # <<>> /\ Decided(Candidate(w))
<1>1. job[w].accepted # <<>>
  BY DEF Reconcile, Granted, IInv, Calls, CallInv, Viewed
<1>2. Decision(w) = Verdict(Candidate(w))
  BY DEF Decision, VisibleRow, Verdict, EntryOf
<1>3. \/ Decision(w) \in CanonicalDecisions /\ AppendEvent(Candidate(w))
      \/ Decision(w) = "OUT_OF_ORDER" /\ FlagLate(Candidate(w))
      \/ Decision(w) \notin CanonicalDecisions \cup {"OUT_OF_ORDER"} /\ UNCHANGED ledgerVars
  BY DEF Reconcile
<1> QED  BY <1>1, <1>2, <1>3 DEF Decided, Extend, Diagnose

\* The row it decides on is on the timeline, under either isolation level; so what
\* it writes settles its snapshot and unsettles nothing.
LEMMA ReconcileEffect ==
    ASSUME IInv, NEW w \in Worker, Reconcile(w), NEW x, x = Candidate(w)
    PROVE  /\ job[w].pc = "weigh" /\ job[w].accepted # <<>>
           /\ timeline' \in [Entry -> Seq(Snapshot)] /\ late' \subseteq Snapshot
           /\ TimelineInv' /\ TimelinesGrow
           /\ Settled(x)'
           /\ \A t \in Snapshot : Settled(t) => Settled(t)'
<1>1. job[w].pc = "weigh" /\ job[w].accepted # <<>> /\ OnRecord(job[w].view, EntryOf(x))
  BY DEF Reconcile, Granted, IInv, Calls, CallInv, Viewed
<1>2. x \in Snapshot /\ EntryOf(x) \in Entry
  BY <1>1, CandidateIs
<1>3. OnRecord(VisibleRow(w), EntryOf(x))
  BY <1>1, <1>2, LastOnRecord DEF VisibleRow
<1>4. PICK d, rows : rows = VisibleRow(w) /\ d = Decide(Observed[x], rows)
  OBVIOUS
<1>5. \/ d \in CanonicalDecisions /\ AppendEvent(x)
      \/ d = "OUT_OF_ORDER" /\ FlagLate(x)
      \/ d \notin CanonicalDecisions \cup {"OUT_OF_ORDER"} /\ UNCHANGED ledgerVars
  BY <1>4 DEF Reconcile, Decision
<1>6. /\ timeline' \in [Entry -> Seq(Snapshot)] /\ late' \subseteq Snapshot
      /\ TimelineInv' /\ TimelinesGrow
      /\ Weighed(x)' /\ \A t \in Snapshot : Weighed(t) => Weighed(t)'
  BY <1>2, <1>3, <1>4, <1>5, RecordedEffect
<1>7. Isolation = "READ_COMMITTED" =>
         Considered(x)' /\ \A t \in Snapshot : Considered(t) => Considered(t)'
  BY <1>2, DecidesOnLast, DecidedEffect
<1> QED  BY <1>1, <1>6, <1>7 DEF Settled

\* Reconciling the next snapshot of the batch.
LEMMA ReconcileMoves ==
    ASSUME IInv, NEW w \in Worker, Reconcile(w) PROVE Moves(w)
<1>0. PICK x, rest : x = Candidate(w) /\ rest = Tail(job[w].accepted)
  OBVIOUS
<1> DEFINE j == [job[w] EXCEPT !.pc = "reconcile", !.accepted = rest, !.view = {}]
<1>1. /\ job[w].pc = "weigh" /\ job[w].accepted # <<>> /\ Active(w) /\ CallInv(w)
      /\ raw' = raw /\ stored' = stored /\ lock' = lock
  BY <1>0, ReconcileEffect DEF Reconcile, Active, IInv, Calls
<1>2. IngestTypeOK /\ job \in [Worker -> Job] /\ job[w] \in Job
  BY DEF IInv, IngestTypeOK, Job
<1>3. /\ x \in Snapshot /\ rest \in Seq(Snapshot)
      /\ \A s : InSeq(s, job[w].accepted) <=> s = x \/ InSeq(s, rest)
  BY <1>0, <1>1, CandidateIs
<1>4. /\ j \in Job /\ j.pc = "reconcile" /\ j.receipt = job[w].receipt
      /\ j.rows = job[w].rows /\ j.accepted = rest
  BY <1>1, <1>2, <1>3 DEF Job
<1>5. job' = [job EXCEPT ![w] = j]
  BY <1>0, <1>2 DEF Reconcile
<1>6. Becomes(w, "reconcile", job[w].rows, rest) /\ KeepsReceipt(w)
  <2> HIDE DEF j
  <2>1. Becomes(w, j.pc, j.rows, j.accepted) /\ KeepsReceipt(w)
    BY <1>4, <1>5, SameReceipt
  <2> QED  BY <1>4, <2>1
<1> HIDE DEF j
<1>7. /\ timeline' \in [Entry -> Seq(Snapshot)] /\ late' \subseteq Snapshot
      /\ TimelineInv' /\ TimelinesGrow
      /\ Settled(x)' /\ \A t \in Snapshot : Settled(t) => Settled(t)'
  BY <1>0, ReconcileEffect
<1>8. IngestTypeOK'
  BY <1>1, <1>2, <1>6, <1>7 DEF IngestTypeOK, Becomes, Job
<1>9. Gentle(w)
  BY <1>1, <1>6, <1>7 DEF Gentle, Becomes
<1>10. CallInv(w)'
  <2>1. /\ job'[w].pc = "reconcile" /\ job'[w].receipt = job[w].receipt
        /\ job'[w].accepted = rest
    BY <1>6 DEF Becomes, KeepsReceipt
  <2>2. OwnReceipt(w)' /\ BeforeCommit(w)' /\ OpenBatch(w)' /\ Viewed(w)'
    BY <1>1, <2>1 DEF CallInv, OwnReceipt, Active, BeforeCommit, OpenBatch, InBatch, Viewed
  <2>3. AfterCommit(w)'
    <3>0. PICK q : q = job[w].receipt
      OBVIOUS
    <3>1. StoredBy(q)' = StoredBy(q) /\ Storable(q)' = Storable(q) /\ job'[w].receipt = q
      BY <1>1, <2>1, <3>0 DEF StoredBy, Storable
    <3>2. \A s \in StoredBy(q) : Settled(s)' \/ InSeq(s, rest)
      <4> SUFFICES ASSUME NEW s \in StoredBy(q), ~InSeq(s, rest) PROVE Settled(s)'
        OBVIOUS
      <4>1. s \in Snapshot /\ (Settled(s) \/ InSeq(s, job[w].accepted))
        BY <1>1, <3>0 DEF CallInv, AfterCommit, StoredBy
      <4>2. CASE Settled(s)
        BY <1>7, <4>1, <4>2
      <4>3. CASE s = x
        BY <1>7, <4>3
      <4> QED  BY <1>3, <4>1, <4>2, <4>3
    <3>3. \A s \in Storable(q) : stored'[s] # NoReceipt
      BY <1>1, <3>0 DEF CallInv, AfterCommit
    <3> QED  BY <2>1, <3>1, <3>2, <3>3 DEF AfterCommit, StoredBy, Storable
  <2> QED  BY <2>2, <2>3 DEF CallInv
<1> QED  BY <1>1, <1>6, <1>7, <1>8, <1>9, <1>10 DEF Moves

\* A function that is changed at one place.
LEMMA Updated ==
    ASSUME NEW S, NEW R, NEW f \in [S -> R], NEW x \in S, NEW y \in R,
           NEW g, g = [f EXCEPT ![x] = y]
    PROVE  g[x] = y /\ g \in [S -> R] /\ \A z \in S \ {x} : g[z] = f[z]
OBVIOUS

\* The final update of the receipt, from the try or from the catch block.
LEMMA ClosesMoves ==
    ASSUME IInv, NEW w \in Worker, Active(w), NEW status \in Final,
           NEW r, r = job[w].receipt,
           raw' = [raw EXCEPT ![r].status = status, ![r].counts = job[w].counts],
           job' = [job EXCEPT ![w] = Idle], UNCHANGED <<stored, lock, ledgerVars>>,
           status = "FAILED" \/ (job[w].pc = "reconcile" /\ job[w].accepted = <<>>)
    PROVE  Moves(w)
<1>1. /\ IngestTypeOK /\ job \in [Worker -> Job] /\ CallInv(w) /\ r \in Receipt /\ ReceiptInv(r)
      /\ job[w].counts \in Counts
  BY DEF IInv, IngestTypeOK, Job, Calls, CallInv, OwnReceipt, Receipts
<1>2. Becomes(w, "idle", <<>>, <<>>) /\ job'[w].pc = "idle"
  BY IdlesJob
<1>3. /\ raw'[r].status = status
      /\ \A q \in Receipt \ {r} : raw'[q] = raw[q]
      /\ raw' \in [Receipt -> [status : {"NONE", "RECEIVED", "PROCESSING"} \cup Final,
                               attempts : 0 .. 1, counts : Counts]]
  <2> DEFINE x == [raw[r] EXCEPT !.status = status, !.counts = job[w].counts]
             R == [status : {"NONE", "RECEIVED", "PROCESSING"} \cup Final,
                   attempts : 0 .. 1, counts : Counts]
  <2>1. raw \in [Receipt -> R] /\ raw[r] \in R
    BY <1>1 DEF IngestTypeOK
  <2>2. x \in R /\ x.status = status
    BY <1>1, <2>1
  <2>3. raw' = [raw EXCEPT ![r] = x]
    BY <1>1, <2>1
  <2> HIDE DEF x, R
  <2>4. /\ raw'[r] = x /\ raw' \in [Receipt -> R]
        /\ \A q \in Receipt \ {r} : raw'[q] = raw[q]
    BY ONLY <1>1, <2>1, <2>2, <2>3, Updated
  <2> QED  BY <2>2, <2>4 DEF R
<1>4. stored' = stored /\ lock' = lock /\ timeline' = timeline /\ late' = late
  BY DEF ledgerVars
<1>5. IngestTypeOK' /\ TimelineInv'
  BY <1>1, <1>2, <1>3, <1>4 DEF IngestTypeOK, IInv, TimelineInv, Becomes, Job
<1>6. TimelinesGrow /\ \A s \in Snapshot : Settled(s)' <=> Settled(s)
  BY <1>4, SameLedger
<1>7. Gentle(w)
  BY <1>2, <1>3, <1>4, <1>6 DEF Gentle, Becomes, Mine
<1>8. CallInv(w)'
  BY <1>2 DEF CallInv, OwnReceipt, BeforeCommit, OpenBatch, InBatch, AfterCommit, Viewed, Active
<1>9. ReceiptInv(r)'
  <2>1. CASE status = "FAILED"
    BY <1>3, <2>1 DEF ReceiptInv, Successes
  <2>2. CASE job[w].pc = "reconcile" /\ job[w].accepted = <<>>
    <3>1. \A s \in StoredBy(r) : Settled(s)
      BY <1>1, <2>2, InEmpty DEF CallInv, AfterCommit
    <3>2. \A s \in Storable(r) : stored[s] # NoReceipt
      BY <1>1, <2>2 DEF CallInv, AfterCommit
    <3>3. StoredBy(r)' = StoredBy(r)
      BY <1>4 DEF StoredBy
    <3> QED  BY <1>3, <1>4, <1>6, <3>1, <3>2, <3>3
             DEF ReceiptInv, Storable, StoredBy, Final, Successes
  <2> QED  BY <2>1, <2>2
<1> QED  BY <1>2, <1>3, <1>5, <1>7, <1>8, <1>9 DEF Moves, Active

\* The two statements that end a call: what succeeded is complete and weighed.
LEMMA FinishMoves ==
    ASSUME IInv, NEW w \in Worker, Finish(w) \/ FinishFailed(w) PROVE Moves(w)
<1>0. PICK r : r = job[w].receipt
  OBVIOUS
<1>1. Active(w) /\ job' = [job EXCEPT ![w] = Idle] /\ UNCHANGED <<stored, lock, ledgerVars>>
  BY DEF Finish, FinishFailed, Active
<1>2. CASE Finish(w)
  <2>1. PICK status : status = FinalStatus(job[w].counts)
    OBVIOUS
  <2>2. status \in Final
    BY <2>1 DEF FinalStatus, Final, Successes
  <2>3. /\ raw' = [raw EXCEPT ![r].status = status, ![r].counts = job[w].counts]
        /\ job[w].pc = "reconcile" /\ job[w].accepted = <<>>
    BY <1>0, <1>2, <2>1 DEF Finish
  <2> QED  BY <1>0, <1>1, <2>2, <2>3, ClosesMoves
<1>3. CASE FinishFailed(w)
  <2>1. raw' = [raw EXCEPT ![r].status = "FAILED", ![r].counts = job[w].counts]
    BY <1>0, <1>3 DEF FinishFailed
  <2>2. "FAILED" \in Final
    BY DEF Final
  <2> QED  BY <1>0, <1>1, <2>1, <2>2, ClosesMoves
<1> QED  BY <1>2, <1>3
------------------------------------------------------------------------------
\* No receipt exists, nothing is stored and every worker is idle at the start.
LEMMA InitIInv == IngestInit => IInv
<1> SUFFICES ASSUME IngestInit PROVE IInv
  OBVIOUS
<1>0. <<>> \in Seq(Snapshot)
  OBVIOUS
<1>1. Zero \in Counts /\ Idle \in Job /\ Idle.pc = "idle"
  BY <1>0 DEF Idle, Zero, Counts, Job
<1>2. IngestTypeOK
  <2>1. \A r \in Receipt : raw[r] = [status |-> "NONE", attempts |-> 0, counts |-> Zero]
    BY DEF IngestInit
  <2> HIDE DEF Idle, Zero, Counts
  <2>2. raw \in [Receipt -> [status : {"NONE", "RECEIVED", "PROCESSING"} \cup Final,
                             attempts : 0 .. 1, counts : Counts]]
    BY <1>1 DEF IngestInit
  <2>3. /\ stored \in [Snapshot -> Receipt \cup {NoReceipt}]
        /\ lock \in [Entry -> Worker \cup {NoWorker}]
        /\ timeline \in [Entry -> Seq(Snapshot)] /\ late \subseteq Snapshot
    BY <1>0 DEF IngestInit, LedgerInit
  <2>4. job \in [Worker -> Job]
    BY <1>1 DEF IngestInit
  <2> QED  BY <2>2, <2>3, <2>4 DEF IngestTypeOK, Job
<1>3. \A w \in Worker : job[w].pc = "idle"
  BY <1>1 DEF IngestInit
<1>4. Calls /\ ReceiptsApart
  BY <1>3 DEF Calls, CallInv, OwnReceipt, BeforeCommit, OpenBatch, InBatch, AfterCommit, Viewed,
              Active, ReceiptsApart
<1>5. Receipts
  <2>1. \A r \in Receipt : raw[r].status = "NONE" /\ raw[r].attempts = 0
    BY DEF IngestInit
  <2>2. \A r \in Receipt : StoredBy(r) = {}
    BY NothingAssumption DEF IngestInit, StoredBy
  <2> QED  BY <2>1, <2>2 DEF Receipts, ReceiptInv, Successes
<1>6. TimelineInv
  BY DEF IngestInit, LedgerInit, TimelineInv
<1> QED  BY <1>2, <1>4, <1>5, <1>6 DEF IInv

\* Every step of a call and every fault keeps the invariant.
LEMMA NextIInv == IInv /\ [IngestNext]_ingestVars => IInv'
<1> SUFFICES ASSUME IInv, [IngestNext]_ingestVars PROVE IInv'
  OBVIOUS
<1>1. ASSUME NEW w \in Worker, NEW r \in Receipt, CreateReceipt(w, r) PROVE IInv'
  BY <1>1, CreateMoves, MovesKeeps
<1>2. ASSUME NEW w \in Worker, Step(w) PROVE Moves(w)
  BY <1>2, ClaimMoves, ParseMoves, RejectMoves, ResolveMoves, DuplicateMoves, InsertMoves,
     CommitMoves, BeginMoves, ReconcileMoves, StepFailsMoves, FinishMoves, AbortMoves
  DEF Step, DeadlockVictim
<1>3. ASSUME NEW w \in Worker, Fault(w) PROVE Moves(w)
  BY <1>3, StepFailsMoves, AbortMoves, EndMoves, AcknowledgementMoves DEF Fault, BatchFails
<1>4. CASE UNCHANGED ingestVars
  <2>1. /\ UNCHANGED <<raw, stored, lock, job>> /\ timeline' = timeline /\ late' = late
    BY <1>4 DEF ingestVars, ledgerVars
  <2>2. \A s \in Snapshot : Settled(s)' <=> Settled(s)
    BY <2>1, SameLedger
  <2>3. IngestTypeOK' /\ ReceiptsApart' /\ TimelineInv'
    BY <2>1 DEF IInv, IngestTypeOK, ReceiptsApart, TimelineInv, Active
  <2>4. Receipts'
    BY <2>1, <2>2 DEF IInv, Receipts, ReceiptInv, StoredBy, Storable
  <2>5. Calls'
    <3> SUFFICES ASSUME NEW w \in Worker PROVE CallInv(w)'
      BY DEF Calls
    <3>1. CallInv(w)
      BY DEF IInv, Calls
    <3>2. (OwnReceipt(w) /\ BeforeCommit(w) /\ OpenBatch(w))'
      BY <2>1, <3>1 DEF CallInv, OwnReceipt, BeforeCommit, OpenBatch, InBatch, Active,
                        StoredBy, Storable, BatchOf, Row
    <3>3. (AfterCommit(w) /\ Viewed(w))'
      BY <2>1, <2>2, <3>1 DEF CallInv, AfterCommit, Viewed, OnRecord, StoredBy, Storable, Candidate
    <3> QED  BY <3>2, <3>3 DEF CallInv
  <2> QED  BY <2>3, <2>4, <2>5 DEF IInv
<1> QED  BY <1>1, <1>2, <1>3, <1>4, MovesKeeps DEF IngestNext

\* The invariant of ingestion, under every fault.
THEOREM SpecIInv == IngestSpec => []IInv
BY InitIInv, NextIInv, PTL DEF IngestSpec

\* Receipts, snapshots, locks and calls keep their types, and nothing claims a
\* receipt a second time, whatever fails and in any number of collectors.
THEOREM IngestionTypes == IngestSpec => []IngestTypeOK
<1>1. IInv => IngestTypeOK
  BY DEF IInv
<1> QED  BY <1>1, SpecIInv, PTL

\* A receipt that ends PROCESSED or PARTIAL has every observation that was not
\* rejected in score_snapshots, for any payloads, workers and faults.
THEOREM IngestionLosesNothing == IngestSpec => []SuccessLosesNothing
<1>1. IInv => SuccessLosesNothing
  BY DEF IInv, Receipts, ReceiptInv, SuccessLosesNothing
<1> QED  BY <1>1, SpecIInv, PTL

\* What a successful receipt inserted has been weighed for the canonical score,
\* under either isolation level: a decision on an old read view is put on record,
\* or its duplicate key fails the receipt.
THEOREM IngestionReconciles == IngestSpec => []SuccessIsReconciled
<1>1. IInv => SuccessIsReconciled
  BY DEF IInv, Receipts, ReceiptInv, Settled, SuccessIsReconciled
<1> QED  BY <1>1, SpecIInv, PTL

\* Under READ COMMITTED no entry ever shows anything older than what a successful
\* receipt inserted into it.
THEOREM IngestionShowsNothingOlder ==
    ASSUME Isolation = "READ_COMMITTED"
    PROVE  IngestSpec => []SuccessShowsNothingOlder
<1>1. IInv => SuccessShowsNothingOlder
  BY DEF IInv, Receipts, ReceiptInv, Settled, SuccessShowsNothingOlder
<1> QED  BY <1>1, SpecIInv, PTL

\* Under READ COMMITTED the reconciliations of all calls are decisions of the
\* atomic ledger, one at a time, whatever else the calls do.
THEOREM IngestionIsLedger ==
    ASSUME Isolation = "READ_COMMITTED"
    PROVE  IngestSpec => LedgerSpec
<1>1. IngestInit => LedgerInit
  BY DEF IngestInit
<1>2. IInv /\ [IngestNext]_ingestVars => [LedgerNext]_ledgerVars
  <2> SUFFICES ASSUME IInv, IngestNext PROVE [LedgerNext]_ledgerVars
    BY DEF ingestVars
  <2>1. ASSUME NEW w \in Worker, Reconcile(w) PROVE [LedgerNext]_ledgerVars
    BY <2>1, CandidateIs, DecidesOnLast DEF Decided, LedgerNext
  <2>2. ASSUME NEW w \in Worker, ~Reconcile(w),
               (\E r \in Receipt : CreateReceipt(w, r)) \/ Step(w) \/ Fault(w)
        PROVE  UNCHANGED ledgerVars
    BY <2>2 DEF CreateReceipt, Step, Fault, Claim, Parse, RejectObservation, ResolveEntry,
                RecordDuplicate, InsertSnapshot, CommitBatch, Publish, BeginReconciliation,
                RefuseReconciliation, Finish, FinishFailed, DeadlockVictim, Abort, StepFails,
                BatchFails, IngestThrows, AcknowledgementLost, Crash
  <2> QED  BY <2>1, <2>2 DEF IngestNext
<1> QED  BY <1>1, <1>2, SpecIInv, PTL DEF IngestSpec, LedgerSpec

\* A batch stores all it has to store in one step, or nothing: the row locks on
\* its entries keep every other batch from storing any of it before the COMMIT.
THEOREM IngestionIsAtomic == IngestSpec => BatchesAreAtomic
<1> DEFINE Whole(r) == StoredBy(r) # StoredBy(r)' =>
                          /\ StoredBy(r) = {}
                          /\ StoredBy(r)' = {s \in Storable(r) : stored[s] = NoReceipt}
<1>1. ASSUME IInv, NEW w \in Worker, Publish(w), NEW r \in Receipt PROVE Whole(r)
  <2>1. CASE r = job[w].receipt
    <3>1. \A s \in Snapshot : stored'[s] = r <=> s \in Storable(r) /\ stored[s] = NoReceipt
      BY <1>1, <2>1, PublishEffect
    <3>2. StoredBy(r) = {}
      BY <1>1, <2>1, PublishEffect
    <3> QED  BY <3>1, <3>2 DEF StoredBy, Storable
  <2>2. CASE r # job[w].receipt
    <3>1. \A s \in Snapshot : stored'[s] = stored[s] \/ Stores(w, s)
      BY <1>1, PublishEffect
    <3>2. \A s \in Snapshot : stored'[s] = r <=> stored[s] = r
      BY <1>1, <2>2, <3>1, NothingAssumption DEF Stores
    <3> QED  BY <3>2 DEF StoredBy
  <2> QED  BY <2>1, <2>2
<1>2. IInv /\ [IngestNext]_ingestVars =>
         [\A r \in Receipt : StoredBy(r) # StoredBy(r)' =>
             /\ StoredBy(r) = {}
             /\ StoredBy(r)' = {s \in Storable(r) : stored[s] = NoReceipt}]_ingestVars
  <2> SUFFICES ASSUME IInv, NEW w \in Worker,
                      \/ \E r \in Receipt : CreateReceipt(w, r)
                      \/ Step(w)
                      \/ Fault(w)
               PROVE  \A r \in Receipt : Whole(r)
    BY DEF IngestNext
  <2>1. CASE Publish(w)
    BY <1>1, <2>1
  <2>2. CASE ~Publish(w)
    <3>1. stored' = stored
      BY <2>2 DEF CreateReceipt, Step, Fault, Claim, Parse, RejectObservation, ResolveEntry,
                  RecordDuplicate, InsertSnapshot, CommitBatch, BeginReconciliation, Reconcile,
                  RefuseReconciliation, Finish, FinishFailed, DeadlockVictim, Abort,
                  StepFails, BatchFails, IngestThrows,
                  AcknowledgementLost, Crash
    <3> QED  BY <3>1 DEF StoredBy
  <2> QED  BY <2>1, <2>2
<1> QED  BY <1>2, SpecIInv, PTL DEF IngestSpec, BatchesAreAtomic

------------------------------------------------------------------------------
(***************************************************************************)
(* The accounting of ingestion, which holds as long as no acknowledgement  *)
(* of a COMMIT is lost: the list of what a batch has accepted has no       *)
(* repetition, and what a call counts once its batch is over is the number *)
(* of snapshots that carry the id of its receipt.                          *)
(***************************************************************************)

Elements(seq) == {s \in Snapshot : InSeq(s, seq)}
Counted(seq)  == IsFiniteSet(Elements(seq)) /\ Cardinality(Elements(seq)) = Len(seq)

CallCounts(w) ==
    /\ job[w].pc \in {"claim", "parse", "persist", "insert"} => job[w].counts.accepted = 0
    /\ InBatch(w) => Counted(job[w].accepted)
    /\ job[w].pc \in {"reconcile", "weigh", "fail"} =>
          job[w].counts.accepted = Cardinality(StoredBy(job[w].receipt))

ReceiptCounts(r) ==
    raw[r].status \in Final => raw[r].counts.accepted = Cardinality(StoredBy(r))

Accounts == /\ \A w \in Worker : CallCounts(w)
            /\ \A r \in Receipt : ReceiptCounts(r)
------------------------------------------------------------------------------
\* What a step of one call leaves of the accounts of the others.
LEMMA GentleCounts ==
    ASSUME IInv, Accounts, NEW w \in Worker, Gentle(w)
    PROVE  /\ \A v \in Worker \ {w} : CallCounts(v)'
           /\ \A r \in Receipt : raw'[r] = raw[r] => ReceiptCounts(r)'
<1>1. \A r : (Active(w) => r # job[w].receipt) /\ r # NoReceipt => StoredBy(r)' = StoredBy(r)
  <2> SUFFICES ASSUME NEW r, Active(w) => r # job[w].receipt, r # NoReceipt
               PROVE  \A s \in Snapshot : stored'[s] = r <=> stored[s] = r
    BY DEF StoredBy
  <2> QED  BY DEF Gentle, Stores, InBatch, Active
<1>2. ASSUME NEW v \in Worker \ {w} PROVE CallCounts(v)'
  <2>1. job'[v] = job[v] /\ CallCounts(v)
    BY DEF Gentle, Accounts
  <2>2. CASE Active(v)
    <3>0. PICK q : q = job[v].receipt
      OBVIOUS
    <3>1. StoredBy(q)' = StoredBy(q)
      BY <1>1, <2>2, <3>0, NothingAssumption
      DEF IInv, Calls, CallInv, OwnReceipt, ReceiptsApart
    <3> QED  BY <2>1, <3>0, <3>1 DEF CallCounts, InBatch, Counted, Elements, StoredBy
  <2>3. CASE ~Active(v)
    BY <2>1, <2>3 DEF CallCounts, Active, InBatch
  <2> QED  BY <2>2, <2>3
<1>3. ASSUME NEW r \in Receipt, raw'[r] = raw[r] PROVE ReceiptCounts(r)'
  <2>1. raw[r].status \in Final /\ Active(w) => r # job[w].receipt
    BY DEF IInv, Calls, CallInv, OwnReceipt, Final, Successes
  <2>2. raw[r].status \in Final => StoredBy(r)' = StoredBy(r)
    BY <1>1, <2>1, NothingAssumption
  <2> QED  BY <1>3, <2>2 DEF Accounts, ReceiptCounts
<1> QED  BY <1>2, <1>3

\* What a step of its own keeps in order.
OwnCounts(w) == /\ Gentle(w) /\ CallCounts(w)'
                /\ \A r \in Receipt : raw'[r] # raw[r] => ReceiptCounts(r)'

\* A call between its COMMIT and its last statement.
Counting(w) == job[w].pc \in {"reconcile", "weigh"}

\* A step that only moves on: neither the counts nor the table change.
LEMMA SameCounts ==
    ASSUME IInv, Accounts, NEW w \in Worker, Moves(w), UNCHANGED stored,
           Active(w), KeepsReceipt(w), job'[w].counts.accepted = job[w].counts.accepted,
           Counting(w) => job'[w].pc \in {"reconcile", "weigh", "fail"},
           job[w].pc # "fail",
           Counting(w)' => Counting(w),
           job'[w].pc \in {"persist", "insert"} => Counted(job'[w].accepted)
    PROVE  CallCounts(w)'
<1>0. PICK q : q = job[w].receipt
  OBVIOUS
<1>1. StoredBy(q)' = StoredBy(q) /\ job'[w].receipt = q
  BY <1>0 DEF StoredBy, KeepsReceipt
<1>2. CallCounts(w) /\ CallInv(w) /\ job[w] \in Job
  BY DEF IInv, IngestTypeOK, Job, Calls, Accounts
<1>3. job[w].pc \in {"claim", "parse", "persist", "insert", "reconcile", "weigh"}
  BY <1>2 DEF Active, Job
<1>4. job'[w].pc \in {"claim", "parse", "persist", "insert"} => job'[w].counts.accepted = 0
  BY <1>2, <1>3 DEF CallCounts, Counting
<1>5. 
          job'[w].counts.accepted = Cardinality(StoredBy(q)')
  <2>1. CASE Counting(w)
    BY <1>0, <1>1, <1>2, <2>1 DEF CallCounts, Counting
  <2>2. CASE ~Counting(w)
    BY <1>0, <1>1, <1>2, <1>3, <2>2, FS_EmptySet DEF CallCounts, CallInv, BeforeCommit, Counting
  <2> QED  BY <2>1, <2>2
<1> QED  BY <1>1, <1>4, <1>5 DEF CallCounts, InBatch, Counted, Elements, StoredBy

\* Nothing accepted is counted as nothing.
LEMMA CountedEmpty == Counted(<<>>)
<1>1. Elements(<<>>) = {}
  BY InEmpty DEF Elements
<1> QED  BY <1>1, FS_EmptySet DEF Counted

\* One more accepted is one more counted, as it is not in the list already.
LEMMA CountedAppend ==
    ASSUME NEW seq \in Seq(Snapshot), Counted(seq), NEW x \in Snapshot, ~InSeq(x, seq)
    PROVE  Counted(Append(seq, x))
<1>1. Elements(Append(seq, x)) = Elements(seq) \cup {x} /\ x \notin Elements(seq)
  BY InAppend DEF Elements
<1>2. IsFiniteSet(Elements(seq)) /\ Cardinality(Elements(seq)) = Len(seq)
  BY DEF Counted
<1>3. /\ IsFiniteSet(Elements(seq) \cup {x})
      /\ Cardinality(Elements(seq) \cup {x}) = Cardinality(Elements(seq)) + 1
  BY <1>1, <1>2, FS_AddElement
<1> QED  BY <1>1, <1>2, <1>3, InAppend DEF Counted

\* What the steps up to the end of the transaction make of the job: the counts of
\* accepted rows stay, the accepted rows too or they are one more.
LEMMA BatchJob ==
    ASSUME IInv, NEW w \in Worker,
           \/ Claim(w) \/ Parse(w) \/ RejectObservation(w) \/ ResolveEntry(w)
           \/ RecordDuplicate(w) \/ InsertSnapshot(w)
           \/ Abort(w) \/ StepFails(w) \/ RefuseReconciliation(w)
    PROVE  /\ Active(w) /\ job[w].pc # "fail"
           /\ job'[w].receipt = job[w].receipt
           /\ job'[w].counts.accepted = job[w].counts.accepted
           /\ \/ job'[w].pc = "fail"
              \/ /\ ~Counting(w)
                 /\ \/ job'[w].pc = "parse"
                    \/ /\ job'[w].pc \in {"persist", "insert"}
                       /\ \/ InBatch(w) /\ job'[w].accepted = job[w].accepted
                          \/ job'[w].accepted = <<>>
                          \/ InsertSnapshot(w) /\ job'[w].accepted = Append(job[w].accepted, Row(w))
<1>1. /\ job \in [Worker -> Job] /\ job[w] \in Job /\ job[w].counts \in Counts /\ CallInv(w)
  BY DEF IInv, IngestTypeOK, Job, Calls
<1>2. CASE Claim(w)
  <2>1. job'[w] = [job[w] EXCEPT !.pc = "parse"]
    BY <1>1, <1>2 DEF Claim
  <2> QED  BY <1>1, <1>2, <2>1 DEF Job, Claim, Active, Counting
<1>3. CASE Parse(w)
  <2>1. PICK c : c = [job[w].counts EXCEPT !.observed = Len(BatchOf(w).rows) + BatchOf(w).malformed,
                                           !.rejected = BatchOf(w).malformed]
    OBVIOUS
  <2>2. c.accepted = job[w].counts.accepted
    BY <1>1, <2>1 DEF Counts
  <2>3. \/ job'[w] = [job[w] EXCEPT !.pc = "persist", !.rows = BatchOf(w).rows, !.counts = c]
        \/ job'[w] = [job[w] EXCEPT !.pc = "fail"]
    BY <1>1, <1>3, <2>1 DEF Parse
  <2>4. job[w].accepted = <<>> /\ job[w].pc = "parse"
    BY <1>1, <1>3 DEF CallInv, BeforeCommit, Parse
  <2> QED  BY <1>1, <2>2, <2>3, <2>4 DEF Job, Active, Counting
<1>4. CASE RejectObservation(w)
  <2>1. PICK t : t = [job[w].tally EXCEPT !.rejected = @ + 1]
    OBVIOUS
  <2>2. job'[w] = [job[w] EXCEPT !.rows = Tail(@), !.tally = t]
    BY <1>1, <1>4, <2>1 DEF RejectObservation
  <2> QED  BY <1>1, <1>4, <2>2 DEF Job, RejectObservation, AtRow, InBatch, Active, Counting
<1>5. CASE ResolveEntry(w)
  <2>1. job'[w] = [job[w] EXCEPT !.pc = "insert"]
    BY <1>1, <1>5 DEF ResolveEntry
  <2> QED  BY <1>1, <1>5, <2>1 DEF Job, ResolveEntry, AtRow, InBatch, Active, Counting
<1>6. CASE RecordDuplicate(w)
  <2>1. PICK t : t = [job[w].tally EXCEPT !.duplicates = @ + 1]
    OBVIOUS
  <2>2. job'[w] = [job[w] EXCEPT !.pc = "persist", !.rows = Tail(@), !.tally = t]
    BY <1>1, <1>6, <2>1 DEF RecordDuplicate
  <2> QED  BY <1>1, <1>6, <2>2 DEF Job, RecordDuplicate, InBatch, Active, Counting
<1>7. CASE InsertSnapshot(w)
  <2>1. PICK a : a = Append(job[w].accepted, Row(w))
    OBVIOUS
  <2>2. job'[w] = [job[w] EXCEPT !.pc = "persist", !.rows = Tail(@), !.accepted = a]
    BY <1>1, <1>7, <2>1 DEF InsertSnapshot
  <2>3. /\ job'[w].pc = "persist" /\ job'[w].receipt = job[w].receipt /\ job'[w].accepted = a
        /\ job'[w].counts = job[w].counts
    BY <1>1, <2>2 DEF Job
  <2> QED  BY <1>7, <2>1, <2>3 DEF InsertSnapshot, Active, Counting
<1>8. CASE Abort(w) \/ StepFails(w) \/ RefuseReconciliation(w)
  <2>1. Fails(w) /\ Active(w) /\ job[w].pc # "fail"
    BY <1>8 DEF Abort, StepFails, RefuseReconciliation, Granted, Fails, Active
  <2> QED  BY <2>1, FailsJob DEF Becomes, KeepsReceipt
<1> QED  BY <1>2, <1>3, <1>4, <1>5, <1>6, <1>7, <1>8

\* The first half of a call, up to the end of its transaction.
LEMMA BatchCounts ==
    ASSUME IInv, Accounts, NEW w \in Worker, Moves(w),
           \/ Claim(w) \/ Parse(w) \/ RejectObservation(w) \/ ResolveEntry(w)
           \/ RecordDuplicate(w) \/ InsertSnapshot(w)
           \/ Abort(w) \/ StepFails(w) \/ RefuseReconciliation(w)
    PROVE  OwnCounts(w)
<1>1. /\ job[w] \in Job /\ CallCounts(w)
  BY DEF IInv, IngestTypeOK, Job, Accounts
<1>2. UNCHANGED stored
  BY DEF Claim, Parse, RejectObservation, ResolveEntry, RecordDuplicate, InsertSnapshot, Abort,
         StepFails, RefuseReconciliation
<1>3. job'[w].pc \in {"persist", "insert"} => Counted(job'[w].accepted)
  <2>1. CASE InsertSnapshot(w) /\ job'[w].accepted = Append(job[w].accepted, Row(w))
    <3>1. InBatch(w) /\ job[w].rows # <<>>
      BY <2>1 DEF InsertSnapshot, InBatch, IInv, Calls, CallInv, OpenBatch
    <3>2. /\ Row(w) \in Snapshot /\ ~InSeq(Row(w), job[w].accepted)
          /\ job[w].accepted \in Seq(Snapshot)
      BY <1>1, <2>1, <3>1, FirstRow DEF InsertSnapshot, AlreadyStored, Job
    <3> QED  BY <1>1, <2>1, <3>1, <3>2, CountedAppend DEF CallCounts
  <2> QED  BY <1>1, <2>1, BatchJob, CountedEmpty DEF CallCounts
<1>4. CallCounts(w)'
  BY <1>2, <1>3, BatchJob, SameCounts DEF KeepsReceipt, Counting
<1>5. ASSUME NEW r \in Receipt, raw'[r] # raw[r] PROVE ReceiptCounts(r)'
  <2>1. Claim(w)
    BY <1>5 DEF Parse, RejectObservation, ResolveEntry, RecordDuplicate, InsertSnapshot, Abort,
                StepFails, RefuseReconciliation
  <2>2. raw'[r].status = "PROCESSING"
    BY <1>5, <2>1 DEF Claim, IInv, IngestTypeOK
  <2> QED  BY <2>2 DEF ReceiptCounts, Final, Successes
<1> QED  BY <1>4, <1>5 DEF OwnCounts, Moves

\* The commit counts what it stores.
LEMMA CommitCounts ==
    ASSUME IInv, Accounts, NEW w \in Worker, Moves(w), CommitBatch(w)
    PROVE  OwnCounts(w)
<1>0. PICK q : q = job[w].receipt
  OBVIOUS
<1>1. /\ job \in [Worker -> Job] /\ job[w] \in Job /\ CallCounts(w) /\ Publish(w) /\ InBatch(w)
  BY DEF IInv, IngestTypeOK, Job, Calls, Accounts, CommitBatch, Publish, InBatch
<1>2. StoredBy(q)' = Elements(job[w].accepted)
  BY <1>0, <1>1, PublishEffect DEF StoredBy, Elements
<1>3. /\ job'[w].pc = "reconcile" /\ job'[w].receipt = q
      /\ job'[w].counts.accepted = Len(job[w].accepted)
  <2>1. job[w].counts \in Counts
    BY <1>1 DEF Job
  <2> QED  BY <1>0, <1>1, <2>1 DEF CommitBatch, Job, Counts
<1>4. Cardinality(Elements(job[w].accepted)) = Len(job[w].accepted)
  BY <1>1 DEF CallCounts, Counted
<1>5. CallCounts(w)'
  BY <1>2, <1>3, <1>4 DEF CallCounts, InBatch, StoredBy
<1> QED  BY <1>1, <1>5 DEF OwnCounts, Moves, Publish

\* After it nothing that is counted changes.
LEMMA ReconcileCounts ==
    ASSUME IInv, Accounts, NEW w \in Worker, Moves(w), BeginReconciliation(w) \/ Reconcile(w)
    PROVE  OwnCounts(w)
<1>1. /\ job \in [Worker -> Job] /\ job[w] \in Job /\ UNCHANGED <<raw, stored>> /\ Active(w)
  BY DEF IInv, IngestTypeOK, Job, BeginReconciliation, Reconcile, Granted, Active
<1>2. /\ Counting(w) /\ job'[w].pc \in {"reconcile", "weigh"}
      /\ job'[w].receipt = job[w].receipt /\ job'[w].counts = job[w].counts
  <2>1. CASE BeginReconciliation(w)
    BY <1>1, <2>1 DEF BeginReconciliation, Job, Counting
  <2>2. CASE Reconcile(w)
    <3>1. PICK rest : rest = Tail(job[w].accepted)
      OBVIOUS
    <3>2. /\ job' = [job EXCEPT ![w].pc = "reconcile", ![w].accepted = rest, ![w].view = {}]
          /\ job[w].pc = "weigh"
      BY <2>2, <3>1 DEF Reconcile, Granted
    <3> QED  BY <1>1, <3>2 DEF Job, Counting
  <2> QED  BY <2>1, <2>2
<1>3. CallCounts(w)'
  BY <1>1, <1>2, SameCounts DEF KeepsReceipt, Counting
<1> QED  BY <1>1, <1>3 DEF OwnCounts, Moves

\* The final update writes what the call has counted.
LEMMA FinishCounts ==
    ASSUME IInv, Accounts, NEW w \in Worker, Moves(w), Finish(w) \/ FinishFailed(w)
    PROVE  OwnCounts(w)
<1>0. PICK q, c : q = job[w].receipt /\ c = job[w].counts
  OBVIOUS
<1>1. /\ job' = [job EXCEPT ![w] = Idle] /\ UNCHANGED stored /\ CallCounts(w)
      /\ job[w].pc \in {"reconcile", "fail"}
  BY DEF Finish, FinishFailed, Accounts
<1>2. CallCounts(w)'
  <2>1. job'[w].pc = "idle"
    BY <1>1, IdlesJob
  <2> QED  BY <2>1 DEF CallCounts, InBatch
<1>3. ASSUME NEW r \in Receipt, raw'[r] # raw[r] PROVE ReceiptCounts(r)'
  <2>1. r = q /\ raw'[r].counts = c
    <3>1. raw[r] \in [status : {"NONE", "RECEIVED", "PROCESSING"} \cup Final, attempts : 0 .. 1,
                      counts : Counts]
          /\ r \in DOMAIN raw
      BY DEF IInv, IngestTypeOK
    <3>2. CASE Finish(w)
      <4> DEFINE f == FinalStatus(job[w].counts)
      <4>1. raw' = [raw EXCEPT ![q].status = f, ![q].counts = c]
        BY <1>0, <3>2 DEF Finish
      <4> HIDE DEF f
      <4> QED  BY <1>3, <3>1, <4>1
    <3>3. CASE FinishFailed(w)
      BY <1>0, <1>3, <3>1, <3>3 DEF FinishFailed
    <3> QED  BY <3>2, <3>3
  <2>2. c.accepted = Cardinality(StoredBy(q)) /\ StoredBy(q)' = StoredBy(q)
    BY <1>0, <1>1 DEF CallCounts, StoredBy
  <2> QED  BY <2>1, <2>2 DEF ReceiptCounts
<1> QED  BY <1>2, <1>3 DEF OwnCounts, Moves

\* A call that begins has counted nothing, one that is gone counts nothing.
LEMMA EdgeCounts ==
    ASSUME IInv, Accounts, NEW w \in Worker, Moves(w),
           \/ \E r \in Receipt : CreateReceipt(w, r)
           \/ IngestThrows(w) \/ Crash(w)
    PROVE  OwnCounts(w)
<1>1. job \in [Worker -> Job]
  BY DEF IInv, IngestTypeOK, Job
<1>2. job'[w].pc = "idle" \/ (job'[w].pc = "claim" /\ job'[w].counts.accepted = 0)
  <2>1. CASE \E r \in Receipt : CreateReceipt(w, r)
    <3>1. PICK r \in Receipt :
              job' = [job EXCEPT ![w] = [Idle EXCEPT !.pc = "claim", !.receipt = r]]
      BY <2>1 DEF CreateReceipt
    <3>2. job'[w] = [Idle EXCEPT !.pc = "claim", !.receipt = r]
      BY <1>1, <3>1
    <3>3. Idle.counts.accepted = 0 /\ Idle \in Job
      BY <1>1, JobForms
    <3> QED  BY <3>2, <3>3 DEF Job
  <2>2. CASE IngestThrows(w) \/ Crash(w)
    BY <2>2, IdlesJob DEF IngestThrows, Crash
  <2> QED  BY <2>1, <2>2
<1>3. CallCounts(w)'
  BY <1>2 DEF CallCounts, InBatch
<1>4. ASSUME NEW q \in Receipt, raw'[q] # raw[q] PROVE ReceiptCounts(q)'
  <2>1. PICK r \in Receipt : CreateReceipt(w, r)
    BY <1>4 DEF IngestThrows, Crash
  <2>2. q = r /\ raw'[q].status = "RECEIVED"
    BY <1>4, <2>1 DEF CreateReceipt, IInv, IngestTypeOK
  <2> QED  BY <2>2 DEF ReceiptCounts, Final, Successes
<1> QED  BY <1>3, <1>4 DEF OwnCounts, Moves

\* A step whose own accounts are in order keeps all of them so.
LEMMA OwnCountsKeeps ==
    ASSUME IInv, Accounts, NEW w \in Worker, OwnCounts(w)
    PROVE  Accounts'
BY GentleCounts DEF OwnCounts, Accounts

\* At the start there is nothing to count.
LEMMA InitAccounts == IngestInit => Accounts
<1> SUFFICES ASSUME IngestInit PROVE Accounts
  OBVIOUS
<1>1. \A w \in Worker : job[w].pc = "idle"
  BY DEF IngestInit, Idle
<1>2. \A r \in Receipt : raw[r].status = "NONE"
  BY DEF IngestInit
<1> QED  BY <1>1, <1>2 DEF Accounts, CallCounts, InBatch, ReceiptCounts, Final, Successes

\* Every step keeps the accounts, when the answer to a COMMIT always arrives.
LEMMA NextAccounts ==
    ASSUME "lost_ack" \notin Faults, IInv, Accounts, [IngestNext]_ingestVars
    PROVE  Accounts'
<1>1. ASSUME NEW w \in Worker, NEW r \in Receipt, CreateReceipt(w, r) PROVE Accounts'
  BY <1>1, CreateMoves, EdgeCounts, OwnCountsKeeps
<1>2. ASSUME NEW w \in Worker, Step(w) PROVE Moves(w) /\ OwnCounts(w)
  BY <1>2, ClaimMoves, ParseMoves, RejectMoves, ResolveMoves, DuplicateMoves, InsertMoves,
     CommitMoves, BeginMoves, ReconcileMoves, StepFailsMoves, FinishMoves, AbortMoves,
     BatchCounts, CommitCounts, ReconcileCounts, FinishCounts DEF Step, DeadlockVictim
<1>3. ASSUME NEW w \in Worker, Fault(w) PROVE Moves(w) /\ OwnCounts(w)
  BY <1>3, StepFailsMoves, AbortMoves, EndMoves, BatchCounts, EdgeCounts
  DEF Fault, BatchFails, AcknowledgementLost
<1>4. CASE UNCHANGED ingestVars
  BY <1>4 DEF ingestVars, Accounts, CallCounts, InBatch, ReceiptCounts, Counted, Elements, StoredBy
<1> QED  BY <1>1, <1>2, <1>3, <1>4, OwnCountsKeeps DEF IngestNext

\* The accepted_count of every finished receipt, FAILED ones included, is the
\* number of snapshots that carry its id, unless an answer to a COMMIT is lost.
THEOREM IngestionCounts ==
    ASSUME "lost_ack" \notin Faults
    PROVE  IngestSpec => []AcceptedCountIsTrue
<1>1. IInv /\ Accounts /\ [IngestNext]_ingestVars => Accounts'
  BY NextAccounts
<1>2. Accounts => AcceptedCountIsTrue
  BY DEF Accounts, ReceiptCounts, AcceptedCountIsTrue
<1> QED  BY <1>1, <1>2, SpecIInv, InitAccounts, PTL DEF IngestSpec

=============================================================================

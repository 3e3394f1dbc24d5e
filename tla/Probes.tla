------------------------------- MODULE Probes -------------------------------
(***************************************************************************)
(* The programs that only read contest.run: the two observation tools of   *)
(* contest-run-poc, "baseline" (index.ts) and "freshness" (phase-0-7.ts),  *)
(* and those built on the packages, "discovery"                            *)
(* (ContestRunDiscoveryService and its tool) and "displayscore" (the       *)
(* read-only probe).  Each has a plan of requests that it makes one by     *)
(* one, and that grows with what the first ones discover.  The observation *)
(* tools have a budget and go on after a request that failed; the others   *)
(* stop at it or, told so, go on with the categories of the next contest.  *)
(*                                                                         *)
(* An answer is what the plan takes from it: the test ids that it lists.   *)
(* Month 9 stands for the month a program is run for and the one that the  *)
(* freshness tool insists on.  The delays and what is written into the     *)
(* reports (schemas, timestamps, score changes, hypotheses) decide nothing *)
(* and are left out.                                                       *)
(***************************************************************************)
EXTENDS SourceClient, Discovery

CONSTANTS Listings,     \* what a discovery endpoint may list: sequences of test ids
          PlannedIds,   \* discoveredTestIds of the displayscore probe
          MaxContests,  \* MAX_CONTESTS, MAX_CANDIDATES
          MaxRequests   \* MAX_REQUESTS of either observation tool

TestIds == UNION {ToSet(listing) : listing \in Listings \cup {PlannedIds}}

ASSUME ProbeConstants ==
    /\ MaxContests \in Nat /\ MaxRequests \in [{"baseline", "freshness"} -> Nat]
    /\ Listings \cup {PlannedIds} \subseteq Seq(TestIds)

VARIABLES conf,    \* the program and its options
          asked,   \* the requests made
          listed,  \* what the answers to discovery requests listed
          failed,  \* the test ids whose categories were not answered
          report   \* "none", or how the program ended

probeVars == <<exchange, conf, asked, listed, failed, report>>

Observes == conf.program \in {"baseline", "freshness"}

\* A request, by what its label says.
Nearest(time)  == [endpoint |-> "nearest", of |-> time]
Month(n)       == [endpoint |-> "month", of |-> n]
Categories(t)  == [endpoint |-> "categories", of |-> t]
Score(t, time) == [endpoint |-> "displayscore", of |-> <<t, time>>]

Discovers(request) == request.endpoint \in {"nearest", "month"}

\* Both parseArguments: what the plan needs for a number of contests.
\* Slip: the tool forgets that nearest is asked a second time.
NeededLess(program, contests) ==
    IF program = "baseline" THEN 2 + 2 * contests ELSE 4 + 2 * contests
Needed(program, contests) ==
    IF program = "baseline" THEN 2 + 2 * contests ELSE 5 + 2 * contests

\* requests is the budget of an observation tool, month and lenient
\* (continueOnCategoryError) are options of discover.
ToolConfigurations ==
    {c \in [program : {"baseline", "freshness"}, contests : 1 .. MaxContests,
            requests : 2 .. Max(Range(MaxRequests)), month : {TRUE}, lenient : {TRUE}] :
        c.requests \in Needed(c.program, c.contests) .. MaxRequests[c.program]}

ServiceConfigurations ==
    [program : {"discovery"}, contests : 0 .. MaxContests, requests : {0},
     month : BOOLEAN, lenient : BOOLEAN]
    \cup [program : {"displayscore"}, contests : 1 .. MaxContests, requests : {0},
          month : {FALSE}, lenient : {FALSE}]

Answer(request) == IF request \in DOMAIN listed THEN listed[request] ELSE <<>>

\* selectCandidates: those of nearest that month 9 lists too, then the others.
Shared(records, calendar) ==
    FoldLeft(LAMBDA shared, t : IF Contains(calendar, t) THEN Append(shared, t) ELSE shared,
             <<>>, records)
Preferred == Shared(Answer(Nearest("t0")), Answer(Month(9))) \o Answer(Nearest("t0"))

\* The contests a program is about.
SelectedContests ==
    CASE conf.program = "freshness"    -> Selection(Preferred, conf.contests)
      [] conf.program = "displayscore" -> Selection(PlannedIds, conf.contests)
      [] conf.program \in {"baseline", "discovery"} ->
             Selection(Answer(Nearest("t0")) \o Answer(Month(9)), conf.contests)

\* One request of each contest, and two.
ForEach(Request(_)) == [i \in DOMAIN SelectedContests |-> Request(SelectedContests[i])]

ForEachBoth(First(_), Second(_)) ==
    [i \in 1 .. 2 * Len(SelectedContests) |->
        LET t == SelectedContests[(i + 1) \div 2]
        IN  IF i % 2 = 1 THEN First(t) ELSE Second(t)]

Plan ==
    CASE conf.program = "baseline" ->
             <<Nearest("t0"), Month(9)>>
             \o ForEachBoth(Categories, LAMBDA t : Score(t, "t0"))
      [] conf.program = "freshness" ->
             <<Nearest("t0"), Month(8), Month(9), Month(10)>>
             \o ForEach(LAMBDA t : Score(t, "t0"))
             \o <<Nearest("t15")>>
             \o ForEach(LAMBDA t : Score(t, "t15"))
      [] conf.program = "discovery" ->
             (IF conf.month THEN <<Nearest("t0"), Month(9)>> ELSE <<Nearest("t0")>>)
             \o ForEach(Categories)
      [] conf.program = "displayscore" ->
             ForEach(LAMBDA t : Score(t, "t0"))

HasBudget == Observes => Len(asked) < conf.requests
Running   == report = "none"
------------------------------------------------------------------------------
ProbeInit ==
    /\ ClientInit
    /\ conf \in ToolConfigurations \cup ServiceConfigurations
    /\ asked = <<>>
    /\ listed = <<>>
    /\ failed = {}
    /\ report = "none"

Ask ==
    /\ Running
    /\ Len(asked) < Len(Plan)
    /\ HasBudget
    /\ Send(IF Observes THEN "poc" ELSE "package")
    /\ asked' = Append(asked, Plan[Len(asked) + 1])
    /\ UNCHANGED <<conf, listed, failed, report>>

AnswerArrives == Reads /\ UNCHANGED <<conf, asked, listed, failed, report>>

\* A whole answer that parses.
Answered ==
    LET request == Last(asked)
    IN  /\ BodyEnds(TRUE)
        /\ exchange'.code = "OK"
        /\ IF Discovers(request)
           THEN \E listing \in Listings :
                    listed' = [r \in DOMAIN listed \cup {request} |->
                                  IF r = request THEN listing ELSE listed[r]]
           ELSE UNCHANGED listed
        /\ UNCHANGED <<conf, asked, failed, report>>

\* Any other end of a request.
NotAnswered ==
    LET request == Last(asked)
    IN  /\ \/ Breaks
           \/ \E parses \in BOOLEAN : BodyEnds(parses) /\ exchange'.code # "OK"
        /\ CASE Observes -> UNCHANGED <<failed, report>>
             [] ~Observes /\ request.endpoint = "categories" /\ conf.lenient ->
                    failed' = failed \cup {request.of} /\ UNCHANGED report
             [] ~Observes /\ ~(request.endpoint = "categories" /\ conf.lenient) ->
                    report' = "FAIL" /\ UNCHANGED failed
        /\ UNCHANGED <<conf, asked, listed>>

\* The plan is through, or what is left of it finds no budget; the report
\* itself may not be written.
WriteReport ==
    /\ Running
    /\ Idle
    /\ Len(asked) = Len(Plan) \/ ~HasBudget
    /\ report' \in {"PASS", "FAIL"}
    /\ UNCHANGED <<exchange, conf, asked, listed, failed>>

ProbeNext == Ask \/ AnswerArrives \/ Answered \/ NotAnswered \/ WriteReport

ProbeSpec == ProbeInit /\ [][ProbeNext]_probeVars
------------------------------------------------------------------------------
\* With arguments the tool accepts, the budget never cuts its plan: each
\* contest of a baseline report has its categories and scores, and each one
\* of a freshness report its scores before and after the gap, with a second
\* nearest between them, whatever fails and whatever nearest lists by then.
ReportsAreComplete ==
    report = "PASS" /\ Observes =>
        \A t \in ToSet(SelectedContests) :
            CASE conf.program = "baseline" ->
                     {Categories(t), Score(t, "t0")} \subseteq ToSet(asked)
              [] conf.program = "freshness" ->
                     \E i, j, k \in DOMAIN asked :
                         /\ asked[i] = Score(t, "t0") /\ asked[j] = Nearest("t15")
                         /\ asked[k] = Score(t, "t15") /\ i < j /\ j < k

MayAsk == CASE Observes -> conf.requests
            [] conf.program = "discovery" -> (IF conf.month THEN 2 ELSE 1) + conf.contests
            [] conf.program = "displayscore" -> conf.contests

\* A program asks contest.run for nothing twice, for no more than its bound,
\* failed requests included, and only for test ids that the source listed in
\* an answer to it or that the probe was given.
SourceIsSpared ==
    /\ Cardinality(ToSet(asked)) = Len(asked)
    /\ Len(asked) <= MayAsk
    /\ \A i \in DOMAIN asked : ~Discovers(asked[i]) =>
           LET known == (UNION {ToSet(listed[r]) : r \in DOMAIN listed})
                            \cup (IF conf.program = "displayscore" THEN ToSet(PlannedIds) ELSE {})
           IN  \E t \in known : asked[i] \in {Categories(t), Score(t, "t0"), Score(t, "t15")}
=============================================================================

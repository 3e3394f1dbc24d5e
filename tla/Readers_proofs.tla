--------------------------- MODULE Readers_proofs ---------------------------
(***************************************************************************)
(* What TLAPS proves of the programs that only read contest.run, for any   *)
(* listings, limits and options they accept, alone and composed with the   *)
(* collector: what they ask is their plan, request by request.  The plan   *)
(* grows while the first requests are answered; what has been asked is a   *)
(* prefix of it all the same, as the contests are selected from answers    *)
(* that all come before the first request about a contest.                 *)
(***************************************************************************)
EXTENDS Readers, Discovery_proofs

Times == {"t0", "t15"}

Requests ==
    [endpoint : {"nearest", "month", "categories", "displayscore"},
     of : Times \cup Nat \cup TestIds \cup (TestIds \X Times)]

\* The requests that every plan starts with.
Opening ==
    CASE conf.program = "baseline"     -> <<Nearest("t0"), Month(9)>>
      [] conf.program = "freshness"    -> <<Nearest("t0"), Month(8), Month(9), Month(10)>>
      [] conf.program = "discovery"    ->
             (IF conf.month THEN <<Nearest("t0"), Month(9)>> ELSE <<Nearest("t0")>>)
      [] conf.program = "displayscore" -> <<>>

\* The answers that the contests are selected from.
Selects(request) == request \in {Nearest("t0"), Month(9)}

IsAbout(request, t) == request \in {Categories(t), Score(t, "t0"), Score(t, "t15")}

\* What the configuration of a program says of its limits.
LEMMA Configured ==
    ASSUME conf \in ToolConfigurations \cup ServiceConfigurations
    PROVE  /\ conf.program \in {"baseline", "freshness", "discovery", "displayscore"}
           /\ conf.contests \in Nat
           /\ conf.program \in {"baseline", "freshness"} =>
                 conf.requests \in Int /\ Needed(conf.program, conf.contests) <= conf.requests
<1>1. CASE conf \in ToolConfigurations
  <2>1. /\ conf.program \in {"baseline", "freshness"} /\ conf.contests \in 1 .. MaxContests
        /\ conf.requests \in Needed(conf.program, conf.contests) .. MaxRequests[conf.program]
    BY <1>1 DEF ToolConfigurations
  <2>2. MaxContests \in Nat /\ MaxRequests[conf.program] \in Nat
    BY <2>1, ProbeConstants
  <2>3. PICK needed \in Int : needed = Needed(conf.program, conf.contests)
    BY <2>1, <2>2 DEF Needed
  <2>4. conf.requests \in Int /\ needed <= conf.requests
    BY <2>1, <2>2, <2>3
  <2> QED  BY <2>1, <2>2, <2>3, <2>4
<1>2. CASE conf \in [program : {"discovery"}, contests : 0 .. MaxContests, requests : {0},
                     month : BOOLEAN, lenient : BOOLEAN]
  BY <1>2, ProbeConstants
<1>3. CASE conf \in [program : {"displayscore"}, contests : 1 .. MaxContests, requests : {0},
                     month : {FALSE}, lenient : {FALSE}]
  BY <1>3, ProbeConstants
<1> QED  BY <1>1, <1>2, <1>3 DEF ServiceConfigurations
------------------------------------------------------------------------------
\* Those of one list that another one has too are a list.
LEMMA SharedType ==
    ASSUME NEW T, NEW records \in Seq(T), NEW calendar
    PROVE  Shared(records, calendar) \in Seq(T)
<1> DEFINE n == Len(records)
           Kept(v, t) == IF Contains(calendar, t) THEN Append(v, t) ELSE v
           step == [p \in Seq(T) \X (1 .. n) |-> Kept(p[1], records[p[2]])]
           Fold(iter) == iter = [s \in SUBSET (DOMAIN records) |->
                            IF s = {} THEN <<>>
                            ELSE IF Contains(calendar, records[Max(s)])
                                 THEN Append(iter[s \ {Max(s)}], records[Max(s)])
                                 ELSE iter[s \ {Max(s)}]]
<1>1. n \in Nat /\ DOMAIN records = 1 .. n /\ \A i \in 1 .. n : records[i] \in T
  OBVIOUS
<1>2. \A v \in Seq(T), i \in 1 .. n : step[<<v, i>>] = Kept(v, records[i])
  OBVIOUS
<1>3. \E iter \in [SUBSET (1 .. n) -> Seq(T)] : Fold(iter)
  <2>1. ASSUME NEW v \in Seq(T), NEW i \in 1 .. n PROVE step[<<v, i>>] \in Seq(T)
    <3>1. Append(v, records[i]) \in Seq(T)
      BY <1>1
    <3> HIDE DEF step
    <3> QED  BY <1>2, <3>1
  <2>2. <<>> \in Seq(T)
    OBVIOUS
  <2> HIDE DEF n, step
  <2>3. PICK iter \in [SUBSET (1 .. n) -> Seq(T)] :
           \A s \in SUBSET (1 .. n) :
              iter[s] = IF s = {} THEN <<>> ELSE step[<<iter[s \ {Max(s)}], Max(s)>>]
    <3>1. \E iter : IsFold(iter, n, Seq(T), <<>>, step)
      BY <1>1, <2>1, <2>2, FoldDefined
    <3> QED  BY <3>1 DEF IsFold
  <2>4. ASSUME NEW s \in SUBSET (1 .. n), s # {}
        PROVE  iter[s] = Kept(iter[s \ {Max(s)}], records[Max(s)])
    <3>1. Max(s) \in 1 .. n
      BY <1>1, <2>4, HasLast
    <3>2. iter[s \ {Max(s)}] \in Seq(T)
      OBVIOUS
    <3> QED  BY <1>2, <2>3, <2>4, <3>1, <3>2
  <2>5. Fold(iter)
    BY <1>1, <2>3, <2>4
  <2> QED  BY <2>5
<1> DEFINE fold == CHOOSE iter : Fold(iter)
<1>4. Fold(fold)
  BY <1>3
<1>5. Shared(records, calendar) = fold[DOMAIN records]
  BY DEF Shared, FoldLeft, MapThenFoldSet
<1>6. \A s \in SUBSET (1 .. n) :
         fold[s] = IF s = {} THEN <<>> ELSE Kept(fold[s \ {Max(s)}], records[Max(s)])
  <2> HIDE DEF fold
  <2> QED  BY <1>1, <1>4
<1> DEFINE done == {k \in Nat : k <= n => fold[1 .. k] \in Seq(T)}
<1>7. 0 \in done
  <2>1. 1 .. 0 = {} /\ {} \in SUBSET (1 .. n) /\ <<>> \in Seq(T)
    OBVIOUS
  <2> HIDE DEF fold
  <2> QED  BY <1>6, <2>1
<1>8. ASSUME NEW k \in Nat, k \in done PROVE k + 1 \in done
  <2>1. SUFFICES ASSUME k + 1 <= n PROVE fold[1 .. k + 1] \in Seq(T)
    BY <1>1
  <2>2. /\ 1 .. k + 1 \in SUBSET (1 .. n) /\ k + 1 \in 1 .. k + 1
        /\ (1 .. k + 1) \ {k + 1} = 1 .. k
    BY <1>1, <2>1
  <2>3. Max(1 .. k + 1) = k + 1
    BY <2>2, LastPosition
  <2> HIDE DEF fold
  <2>4. fold[1 .. k + 1] = Kept(fold[1 .. k], records[k + 1])
    BY <1>6, <2>2, <2>3
  <2>5. fold[1 .. k] \in Seq(T) /\ records[k + 1] \in T
    BY <1>1, <1>8, <2>1
  <2>6. Append(fold[1 .. k], records[k + 1]) \in Seq(T)
    BY <2>5
  <2> QED  BY <2>4, <2>5, <2>6
<1>9. n \in done
  <2> HIDE DEF done
  <2> QED  BY <1>1, <1>7, <1>8, Induction
<1>10. fold[1 .. n] \in Seq(T)
  <2> HIDE DEF fold
  <2> QED  BY <1>1, <1>9
<1> QED
  <2> HIDE DEF fold
  <2> QED  BY <1>1, <1>5, <1>10

\* Where the contests of a program come from.
Sources ==
    ToSet(Answer(Nearest("t0"))) \cup ToSet(Answer(Month(9)))
        \cup (IF conf.program = "displayscore" THEN ToSet(PlannedIds) ELSE {})

ListedTyped == \A request \in DOMAIN listed : listed[request] \in Listings

\* A list is a list of its elements.
LEMMA ListOfItsElements ==
    ASSUME NEW T, NEW list \in Seq(T), NEW S, ToSet(list) \subseteq S
    PROVE  list \in Seq(S)
<1>1. DOMAIN list = 1 .. Len(list) /\ Len(list) \in Nat /\ list = [i \in 1 .. Len(list) |-> list[i]]
  OBVIOUS
<1>2. \A i \in 1 .. Len(list) : list[i] \in S
  BY <1>1 DEF ToSet
<1> QED  BY <1>1, <1>2

\* The contests are taken from what was listed, each once, within the limit.
LEMMA SelectedFacts ==
    ASSUME conf \in ToolConfigurations \cup ServiceConfigurations, ListedTyped
    PROVE  /\ SelectedContests \in Seq(TestIds)
           /\ Len(SelectedContests) <= conf.contests
           /\ \A i, j \in DOMAIN SelectedContests :
                 SelectedContests[i] = SelectedContests[j] => i = j
           /\ ToSet(SelectedContests) \subseteq Sources
<1>1. ASSUME NEW request PROVE Answer(request) \in Seq(TestIds)
  BY ProbeConstants DEF Answer, ListedTyped
<1>2. Sources \subseteq TestIds
  BY <1>1, ProbeConstants DEF Sources, ToSet
<1>3. PICK near, calendar : near = Answer(Nearest("t0")) /\ calendar = Answer(Month(9))
  OBVIOUS
<1>4. near \in Seq(Sources) /\ calendar \in Seq(Sources)
  BY <1>1, <1>3, ListOfItsElements DEF Sources
<1>5. ASSUME conf.program = "displayscore" PROVE PlannedIds \in Seq(Sources)
  BY <1>5, ProbeConstants, ListOfItsElements DEF Sources
<1>6. Preferred \in Seq(Sources)
  <2>1. Shared(near, calendar) \in Seq(Sources)
    BY <1>4, SharedType
  <2> QED  BY <1>3, <1>4, <2>1 DEF Preferred
<1>7. PICK evidence \in Seq(Sources) : SelectedContests = Selection(evidence, conf.contests)
  <2>1. near \o calendar \in Seq(Sources)
    BY <1>4
  <2> QED  BY <1>3, <1>5, <1>6, <2>1, Configured DEF SelectedContests
<1>8. conf.contests \in Nat
  BY Configured
<1>9. PICK contests \in Seq(Sources) : contests = SelectedContests
  BY <1>7, <1>8, SelectionType
<1>10. contests \in Seq(TestIds) /\ ToSet(contests) \subseteq Sources
  <2>1. ToSet(contests) \subseteq Sources
    BY DEF ToSet
  <2> QED  BY <1>2, <2>1, ListOfItsElements
<1>11. PICK maximum \in Nat : maximum = conf.contests
  BY <1>8
<1>12. contests = Selection(evidence, maximum)
  BY <1>7, <1>9, <1>11
<1>13. Len(contests) <= maximum
  BY <1>12, SelectionType
<1>14. \A i, j \in DOMAIN contests : contests[i] = contests[j] => i = j
  BY <1>12, SelectionOnce
<1> QED  BY <1>9, <1>10, <1>11, <1>13, <1>14
------------------------------------------------------------------------------
\* What each program asks, request by request, when contests is what it selected.
BaselinePlan(contests, plan) ==
    LET n == Len(contests)
    IN  /\ Len(plan) = 2 + 2 * n
        /\ plan[1] = Nearest("t0") /\ plan[2] = Month(9)
        /\ \A i \in 1 .. n : /\ plan[2 * i + 1] = Categories(contests[i])
                             /\ plan[2 * i + 2] = Score(contests[i], "t0")

FreshnessPlan(contests, plan) ==
    LET n == Len(contests)
    IN  /\ Len(plan) = 5 + 2 * n
        /\ plan[1] = Nearest("t0") /\ plan[2] = Month(8)
        /\ plan[3] = Month(9) /\ plan[4] = Month(10)
        /\ \A i \in 1 .. n : plan[i + 4] = Score(contests[i], "t0")
        /\ plan[n + 5] = Nearest("t15")
        /\ \A i \in 1 .. n : plan[n + 5 + i] = Score(contests[i], "t15")

DiscoveryPlan(contests, plan, first) ==
    /\ Len(plan) = first + Len(contests)
    /\ plan[1] = Nearest("t0")
    /\ first = 2 => plan[2] = Month(9)
    /\ \A i \in 1 .. Len(contests) : plan[first + i] = Categories(contests[i])

ScorePlan(contests, plan) ==
    /\ Len(plan) = Len(contests)
    /\ \A i \in 1 .. Len(contests) : plan[i] = Score(contests[i], "t0")

\* The requests are requests, by contest or not.
LEMMA RequestTypes ==
    /\ \A t \in TestIds : /\ Categories(t) \in Requests
                          /\ Score(t, "t0") \in Requests /\ Score(t, "t15") \in Requests
    /\ \A time \in Times : Nearest(time) \in Requests
    /\ \A n \in Nat : Month(n) \in Requests
BY DEF Requests, Times, Categories, Score, Nearest, Month

\* One list after the other.
Join(first, second) == first \o second

IsJoin(list, first, m, second, n) ==
    /\ Len(list) = m + n
    /\ \A i \in 1 .. m : list[i] = first[i]
    /\ \A i \in 1 .. n : list[m + i] = second[i]

\* What one list after the other holds, and where.
LEMMA Joined ==
    ASSUME NEW R, NEW first \in Seq(R), NEW second \in Seq(R)
    PROVE  /\ Join(first, second) \in Seq(R)
           /\ IsJoin(Join(first, second), first, Len(first), second, Len(second))
<1>1. Len(first) \in Nat /\ Len(second) \in Nat
  OBVIOUS
<1>2. \A i \in 1 .. Len(first) : (first \o second)[i] = first[i]
  BY <1>1
<1>3. ASSUME NEW i \in 1 .. Len(second) PROVE (first \o second)[Len(first) + i] = second[i]
  <2>1. /\ Len(first) + i \in 1 .. Len(first) + Len(second) /\ ~(Len(first) + i <= Len(first))
        /\ Len(first) + i - Len(first) = i
    BY <1>1
  <2> QED  BY <1>1, <2>1
<1>4. first \o second \in Seq(R)
  OBVIOUS
<1>5. Len(first \o second) = Len(first) + Len(second)
  OBVIOUS
<1>6. Join(first, second) = first \o second
  BY DEF Join
<1>7. IsJoin(Join(first, second), first, Len(first), second, Len(second))
  BY <1>2, <1>3, <1>5, <1>6 DEF IsJoin
<1> QED  BY <1>4, <1>6, <1>7

\* What the two forms of plans with one or two requests of each contest are.
LEMMA BaselineForm ==
    ASSUME conf.program = "baseline", NEW contests \in Seq(TestIds), contests = SelectedContests
    PROVE  Plan \in Seq(Requests) /\ BaselinePlan(contests, Plan)
<1> DEFINE n == Len(contests)
           both == [i \in 1 .. 2 * n |->
                       LET t == contests[(i + 1) \div 2]
                       IN  IF i % 2 = 1 THEN Categories(t) ELSE Score(t, "t0")]
           head == <<Nearest("t0"), Month(9)>>
<1>1. n \in Nat
  OBVIOUS
<1>2. \A i \in 1 .. 2 * n : (i + 1) \div 2 \in 1 .. n
  BY <1>1
<1>3. both \in Seq(Requests) /\ Len(both) = 2 * n
  <2>1. ASSUME NEW i \in 1 .. 2 * n PROVE both[i] \in Requests
    BY <1>2, RequestTypes
  <2>2. 2 * n \in Nat /\ both = [i \in 1 .. 2 * n |-> both[i]]
    BY <1>1
  <2> HIDE DEF both
  <2> QED  BY <2>1, <2>2
<1>4. ASSUME NEW i \in 1 .. n
      PROVE  /\ both[2 * i - 1] = Categories(contests[i])
             /\ both[2 * i] = Score(contests[i], "t0")
  <2>1. /\ 2 * i - 1 \in 1 .. 2 * n /\ (2 * i - 1 + 1) \div 2 = i /\ (2 * i - 1) % 2 = 1
        /\ 2 * i \in 1 .. 2 * n /\ (2 * i + 1) \div 2 = i /\ (2 * i) % 2 # 1
    BY <1>1
  <2> QED  BY <2>1
<1>5. head \in Seq(Requests) /\ Len(head) = 2 /\ head[1] = Nearest("t0") /\ head[2] = Month(9)
  BY RequestTypes DEF Times
<1>6. Plan = Join(head, both)
  BY DEF Plan, ForEachBoth, Join
<1> HIDE DEF both, head
<1>7. Plan \in Seq(Requests) /\ IsJoin(Plan, head, 2, both, 2 * n)
  BY <1>3, <1>5, <1>6, Joined
<1>8. ASSUME NEW i \in 1 .. n
      PROVE  /\ Plan[2 * i + 1] = Categories(contests[i])
             /\ Plan[2 * i + 2] = Score(contests[i], "t0")
  <2>1. /\ 2 * i - 1 \in 1 .. 2 * n /\ 2 + (2 * i - 1) = 2 * i + 1
        /\ 2 * i \in 1 .. 2 * n /\ 2 + 2 * i = 2 * i + 2
    BY <1>1
  <2> QED  BY <1>4, <1>7, <2>1 DEF IsJoin
<1>9. Len(Plan) = 2 + 2 * n /\ Plan[1] = head[1] /\ Plan[2] = head[2]
  BY <1>7 DEF IsJoin
<1> QED  BY <1>5, <1>7, <1>8, <1>9 DEF BaselinePlan

\* One request of each contest is a list of requests.
LEMMA EachForm ==
    ASSUME NEW contests \in Seq(TestIds), NEW requests,
           requests = [i \in DOMAIN contests |-> requests[i]],
           \A i \in DOMAIN contests : requests[i] \in Requests
    PROVE  requests \in Seq(Requests) /\ Len(requests) = Len(contests)
<1>1. DOMAIN contests = 1 .. Len(contests) /\ Len(contests) \in Nat
  OBVIOUS
<1> QED  BY <1>1

\* The plan of the freshness tool, before the gap, at it and after it.
LEMMA FreshnessForm ==
    ASSUME conf.program = "freshness", NEW contests \in Seq(TestIds), contests = SelectedContests
    PROVE  Plan \in Seq(Requests) /\ FreshnessPlan(contests, Plan)
<1> DEFINE n == Len(contests)
           head == <<Nearest("t0"), Month(8), Month(9), Month(10)>>
           before == [i \in DOMAIN contests |-> Score(contests[i], "t0")]
           gap == <<Nearest("t15")>>
           after == [i \in DOMAIN contests |-> Score(contests[i], "t15")]
<1>1. n \in Nat /\ DOMAIN contests = 1 .. n
  OBVIOUS
<1>2. before \in Seq(Requests) /\ Len(before) = n
  BY EachForm, RequestTypes
<1>3. after \in Seq(Requests) /\ Len(after) = n
  BY EachForm, RequestTypes
<1>4. /\ head \in Seq(Requests) /\ Len(head) = 4
      /\ head[1] = Nearest("t0") /\ head[2] = Month(8) /\ head[3] = Month(9)
      /\ head[4] = Month(10)
      /\ gap \in Seq(Requests) /\ Len(gap) = 1 /\ gap[1] = Nearest("t15")
  BY RequestTypes DEF Times
<1>5. /\ \A i \in 1 .. n : before[i] = Score(contests[i], "t0")
      /\ \A i \in 1 .. n : after[i] = Score(contests[i], "t15")
  BY <1>1
<1>6. Plan = Join(Join(Join(head, before), gap), after)
  BY DEF Plan, ForEach, Join
<1> HIDE DEF head, before, gap, after
<1>7. PICK first \in Seq(Requests) : first = Join(head, before) /\ IsJoin(first, head, 4, before, n)
  <2>1. /\ Join(head, before) \in Seq(Requests)
        /\ IsJoin(Join(head, before), head, Len(head), before, Len(before))
    BY <1>2, <1>4, Joined
  <2> QED  BY <1>2, <1>4, <2>1
<1>8. PICK second \in Seq(Requests) : /\ second = Join(first, gap)
                                      /\ IsJoin(second, first, 4 + n, gap, 1)
  <2>1. Len(first) = 4 + n
    BY <1>7 DEF IsJoin
  <2> QED  BY <1>4, <2>1, Joined
<1>9. Plan \in Seq(Requests) /\ IsJoin(Plan, second, 4 + n + 1, after, n)
  <2>1. Len(second) = 4 + n + 1
    BY <1>8 DEF IsJoin
  <2> QED  BY <1>3, <1>6, <1>7, <1>8, <2>1, Joined
<1>10. /\ \A i \in 1 .. 4 : i \in 1 .. 4 + n /\ i \in 1 .. 4 + n + 1
       /\ \A i \in 1 .. n : 4 + i \in 1 .. 4 + n /\ 4 + i \in 1 .. 4 + n + 1 /\ 4 + i = i + 4
       /\ 4 + n + 1 \in 1 .. 4 + n + 1 /\ 4 + n + 1 = n + 5 /\ (n + 5) + n = 5 + 2 * n
  BY <1>1
<1>11. \A i \in 1 .. 4 : Plan[i] = head[i]
  BY <1>7, <1>8, <1>9, <1>10 DEF IsJoin
<1>12. \A i \in 1 .. n : Plan[i + 4] = before[i]
  BY <1>7, <1>8, <1>9, <1>10 DEF IsJoin
<1>13. Plan[n + 5] = gap[1]
  <2>1. second[4 + n + 1] = gap[1]
    BY <1>8 DEF IsJoin
  <2> QED  BY <1>9, <1>10, <2>1 DEF IsJoin
<1>14. Len(Plan) = 5 + 2 * n /\ \A i \in 1 .. n : Plan[n + 5 + i] = after[i]
  BY <1>9, <1>10 DEF IsJoin
<1> QED  BY <1>4, <1>5, <1>9, <1>11, <1>12, <1>13, <1>14 DEF FreshnessPlan

\* The plans of the programs that are built on the packages.
LEMMA ServiceForms ==
    ASSUME NEW contests \in Seq(TestIds), contests = SelectedContests
    PROVE  /\ conf.program = "discovery" =>
                 /\ Plan \in Seq(Requests)
                 /\ DiscoveryPlan(contests, Plan, IF conf.month THEN 2 ELSE 1)
           /\ conf.program = "displayscore" =>
                 Plan \in Seq(Requests) /\ ScorePlan(contests, Plan)
<1> DEFINE n == Len(contests)
           categories == [i \in DOMAIN contests |-> Categories(contests[i])]
           scores == [i \in DOMAIN contests |-> Score(contests[i], "t0")]
<1>1. n \in Nat /\ DOMAIN contests = 1 .. n
  OBVIOUS
<1>2. /\ categories \in Seq(Requests) /\ Len(categories) = n
      /\ \A i \in 1 .. n : categories[i] = Categories(contests[i])
  <2>1. \A i \in 1 .. n : categories[i] = Categories(contests[i])
    BY <1>1
  <2>2. categories \in Seq(Requests) /\ Len(categories) = n
    BY EachForm, RequestTypes
  <2> QED  BY <2>1, <2>2
<1>3. /\ scores \in Seq(Requests) /\ Len(scores) = n
      /\ \A i \in 1 .. n : scores[i] = Score(contests[i], "t0")
  <2>1. \A i \in 1 .. n : scores[i] = Score(contests[i], "t0")
    BY <1>1
  <2>2. scores \in Seq(Requests) /\ Len(scores) = n
    BY EachForm, RequestTypes
  <2> QED  BY <2>1, <2>2
<1>4. conf.program = "displayscore" => Plan = scores
  BY DEF Plan, ForEach
<1>5. CASE conf.program = "discovery" /\ conf.month
  <2> DEFINE head == <<Nearest("t0"), Month(9)>>
  <2>1. Plan = Join(head, categories)
    BY <1>5 DEF Plan, ForEach, Join
  <2>2. /\ head \in Seq(Requests) /\ Len(head) = 2
        /\ head[1] = Nearest("t0") /\ head[2] = Month(9)
    BY RequestTypes DEF Times
  <2> HIDE DEF head, categories
  <2>3. Plan \in Seq(Requests) /\ IsJoin(Plan, head, 2, categories, n)
    <3>1. /\ Join(head, categories) \in Seq(Requests)
          /\ IsJoin(Join(head, categories), head, Len(head), categories, Len(categories))
      BY <1>2, <2>2, Joined
    <3> QED  BY <1>2, <2>1, <2>2, <3>1
  <2>4. /\ Len(Plan) = 2 + n /\ Plan[1] = head[1] /\ Plan[2] = head[2]
        /\ \A i \in 1 .. n : Plan[2 + i] = categories[i]
    BY <2>3 DEF IsJoin
  <2> QED  BY <1>2, <1>5, <2>2, <2>3, <2>4 DEF DiscoveryPlan
<1>6. CASE conf.program = "discovery" /\ ~conf.month
  <2> DEFINE head == <<Nearest("t0")>>
  <2>1. Plan = Join(head, categories)
    BY <1>6 DEF Plan, ForEach, Join
  <2>2. head \in Seq(Requests) /\ Len(head) = 1 /\ head[1] = Nearest("t0")
    BY RequestTypes DEF Times
  <2> HIDE DEF head, categories
  <2>3. Plan \in Seq(Requests) /\ IsJoin(Plan, head, 1, categories, n)
    <3>1. /\ Join(head, categories) \in Seq(Requests)
          /\ IsJoin(Join(head, categories), head, Len(head), categories, Len(categories))
      BY <1>2, <2>2, Joined
    <3> QED  BY <1>2, <2>1, <2>2, <3>1
  <2>4. /\ Len(Plan) = 1 + n /\ Plan[1] = head[1]
        /\ \A i \in 1 .. n : Plan[1 + i] = categories[i]
    BY <2>3 DEF IsJoin
  <2> QED  BY <1>2, <1>6, <2>2, <2>3, <2>4 DEF DiscoveryPlan
<1>7. CASE conf.program = "displayscore"
  <2> HIDE DEF scores
  <2> QED  BY <1>3, <1>4, <1>7 DEF ScorePlan
<1> QED  BY <1>5, <1>6, <1>7
------------------------------------------------------------------------------
\* Requests of different kinds, contests or times are different requests.
Different ==
    /\ \A t, u : Categories(t) = Categories(u) => t = u
    /\ \A t, u : Score(t, "t0") = Score(u, "t0") => t = u
    /\ \A t, u : Score(t, "t15") = Score(u, "t15") => t = u
    /\ \A t, u : Score(t, "t0") # Score(u, "t15") /\ Categories(t) # Score(u, "t0")
    /\ \A t : ~Discovers(Categories(t)) /\ ~Discovers(Score(t, "t0")) /\ ~Discovers(Score(t, "t15"))
    /\ Discovers(Nearest("t0")) /\ Discovers(Nearest("t15"))
    /\ Discovers(Month(8)) /\ Discovers(Month(9)) /\ Discovers(Month(10))
    /\ Nearest("t0") # Nearest("t15") /\ Month(8) # Month(9) /\ Month(8) # Month(10)
    /\ Month(9) # Month(10)
    /\ \A n, time : Nearest(time) # Month(n)

\* Which is what their endpoints and arguments say.
LEMMA RequestsDiffer == Different
<1>1. \A t, u : Score(t, "t0") # Score(u, "t15")
  <2> SUFFICES ASSUME NEW t, NEW u, Score(t, "t0") = Score(u, "t15") PROVE FALSE
    OBVIOUS
  <2>1. <<t, "t0">> = <<u, "t15">>
    BY DEF Score
  <2> QED  BY <2>1
<1>2. \A time : \A t, u : Score(t, time) = Score(u, time) => t = u
  <2> SUFFICES ASSUME NEW time, NEW t, NEW u, Score(t, time) = Score(u, time) PROVE t = u
    OBVIOUS
  <2>1. <<t, time>> = <<u, time>>
    BY DEF Score
  <2> QED  BY <2>1
<1>3. /\ \A t, u : Categories(t) = Categories(u) => t = u
      /\ \A t, u : Categories(t) # Score(u, "t0")
  BY DEF Categories, Score
<1>4. /\ \A t : /\ ~Discovers(Categories(t))
               /\ ~Discovers(Score(t, "t0")) /\ ~Discovers(Score(t, "t15"))
      /\ Discovers(Nearest("t0")) /\ Discovers(Nearest("t15"))
      /\ Discovers(Month(8)) /\ Discovers(Month(9)) /\ Discovers(Month(10))
  BY DEF Categories, Score, Nearest, Month, Discovers
<1>5. /\ Nearest("t0") # Nearest("t15") /\ Month(8) # Month(9) /\ Month(8) # Month(10)
      /\ Month(9) # Month(10)
      /\ \A n, time : Nearest(time) # Month(n)
  BY DEF Nearest, Month
<1> QED  BY <1>1, <1>2, <1>3, <1>4, <1>5 DEF Different

\* What all plans have in common: they open with the requests that the contests
\* are selected from, ask nothing twice, and nothing about other contests.
PlanOf(contests, plan, opening) ==
    /\ Len(opening) <= Len(plan)
    /\ \A i \in 1 .. Len(opening) : plan[i] = opening[i]
    /\ \A i \in 1 .. Len(plan) : Selects(plan[i]) => i \in 1 .. Len(opening)
    /\ \A i, j \in 1 .. Len(plan) : plan[i] = plan[j] => i = j
    /\ \A i \in 1 .. Len(plan) : ~Discovers(plan[i]) =>
          \E k \in 1 .. Len(contests) : IsAbout(plan[i], contests[k])

\* The plan of the baseline tool is such a plan,
LEMMA BaselineFacts ==
    ASSUME NEW contests \in Seq(TestIds), NEW plan \in Seq(Requests), BaselinePlan(contests, plan),
           \A i, j \in 1 .. Len(contests) : contests[i] = contests[j] => i = j
    PROVE  PlanOf(contests, plan, <<Nearest("t0"), Month(9)>>)
<1> DEFINE n == Len(contests)
           opening == <<Nearest("t0"), Month(9)>>
<1>1. n \in Nat /\ Len(plan) = 2 + 2 * n /\ plan[1] = Nearest("t0") /\ plan[2] = Month(9)
      /\ Len(opening) = 2 /\ opening[1] = Nearest("t0") /\ opening[2] = Month(9)
  BY DEF BaselinePlan
<1>2. \A k \in 1 .. n : /\ plan[2 * k + 1] = Categories(contests[k])
                        /\ plan[2 * k + 2] = Score(contests[k], "t0")
  BY DEF BaselinePlan
<1>3. ASSUME NEW i \in 1 .. 2 + 2 * n
      PROVE  \/ i = 1 \/ i = 2
             \/ \E k \in 1 .. n : i = 2 * k + 1 /\ plan[i] = Categories(contests[k])
             \/ \E k \in 1 .. n : i = 2 * k + 2 /\ plan[i] = Score(contests[k], "t0")
  <2>1. CASE i % 2 = 1 /\ i > 2
    <3>1. PICK k \in 1 .. n : i = 2 * k + 1
      <4>1. (i - 1) \div 2 \in 1 .. n /\ i = 2 * ((i - 1) \div 2) + 1
        BY <1>1, <2>1
      <4> QED  BY <4>1
    <3> QED  BY <1>2, <3>1
  <2>2. CASE i % 2 # 1 /\ i > 2
    <3>1. PICK k \in 1 .. n : i = 2 * k + 2
      <4>1. (i - 2) \div 2 \in 1 .. n /\ i = 2 * ((i - 2) \div 2) + 2
        BY <1>1, <2>2
      <4> QED  BY <4>1
    <3> QED  BY <1>2, <3>1
  <2> QED  BY <1>1, <2>1, <2>2
<1> HIDE DEF n, opening
<1>4. \A i \in 1 .. 2 : plan[i] = opening[i]
  BY <1>1
<1>5. ASSUME NEW i \in 1 .. 2 + 2 * n, ~Discovers(plan[i])
      PROVE  \E k \in 1 .. n : IsAbout(plan[i], contests[k])
  BY <1>1, <1>3, <1>5, RequestsDiffer DEF IsAbout, Different
<1>6. ASSUME NEW i \in 1 .. 2 + 2 * n, Selects(plan[i]) PROVE i \in 1 .. 2
  <2>1. Discovers(plan[i])
    BY <1>6, RequestsDiffer DEF Different, Selects
  <2> QED  BY <1>3, <2>1, RequestsDiffer DEF Different
<1>7. ASSUME NEW i \in 1 .. 2 + 2 * n, NEW j \in 1 .. 2 + 2 * n, plan[i] = plan[j] PROVE i = j
  <2>1. CASE Discovers(plan[i])
    <3>1. i \in {1, 2} /\ j \in {1, 2}
      BY <1>3, <1>7, <2>1, RequestsDiffer DEF Different
    <3> QED  BY <1>1, <1>7, <3>1, RequestsDiffer DEF Different
  <2>2. CASE ~Discovers(plan[i])
    <3>1. i # 1 /\ i # 2 /\ j # 1 /\ j # 2
      BY <1>1, <1>7, <2>2, RequestsDiffer DEF Different
    <3>2. CASE \E k \in 1 .. n : i = 2 * k + 1 /\ plan[i] = Categories(contests[k])
      <4>1. PICK k \in 1 .. n : i = 2 * k + 1 /\ plan[i] = Categories(contests[k])
        BY <3>2
      <4>2. PICK m \in 1 .. n : j = 2 * m + 1 /\ plan[j] = Categories(contests[m])
        BY <1>3, <1>7, <3>1, <4>1, RequestsDiffer DEF Different
      <4>3. contests[k] = contests[m]
        BY <1>7, <4>1, <4>2, RequestsDiffer DEF Different
      <4> QED  BY <4>1, <4>2, <4>3 DEF n
    <3>3. CASE \E k \in 1 .. n : i = 2 * k + 2 /\ plan[i] = Score(contests[k], "t0")
      <4>1. PICK k \in 1 .. n : i = 2 * k + 2 /\ plan[i] = Score(contests[k], "t0")
        BY <3>3
      <4>2. PICK m \in 1 .. n : j = 2 * m + 2 /\ plan[j] = Score(contests[m], "t0")
        BY <1>3, <1>7, <3>1, <4>1, RequestsDiffer DEF Different
      <4>3. contests[k] = contests[m]
        BY <1>7, <4>1, <4>2, RequestsDiffer DEF Different
      <4> QED  BY <4>1, <4>2, <4>3 DEF n
    <3> QED  BY <1>3, <3>1, <3>2, <3>3
  <2> QED  BY <2>1, <2>2
<1>8. 2 <= 2 + 2 * n
  BY <1>1
<1> QED  BY <1>1, <1>4, <1>5, <1>6, <1>7, <1>8 DEF PlanOf, n, opening

\* so is that of the freshness tool,
LEMMA FreshnessFacts ==
    ASSUME NEW contests \in Seq(TestIds), NEW plan \in Seq(Requests), FreshnessPlan(contests, plan),
           \A i, j \in 1 .. Len(contests) : contests[i] = contests[j] => i = j
    PROVE  PlanOf(contests, plan, <<Nearest("t0"), Month(8), Month(9), Month(10)>>)
<1> DEFINE n == Len(contests)
           opening == <<Nearest("t0"), Month(8), Month(9), Month(10)>>
<1>1. /\ n \in Nat /\ Len(plan) = 5 + 2 * n /\ plan[n + 5] = Nearest("t15")
      /\ plan[1] = Nearest("t0") /\ plan[2] = Month(8) /\ plan[3] = Month(9) /\ plan[4] = Month(10)
      /\ Len(opening) = 4 /\ \A i \in 1 .. 4 : plan[i] = opening[i]
  <2>1. /\ n \in Nat /\ Len(plan) = 5 + 2 * n /\ plan[n + 5] = Nearest("t15")
        /\ plan[1] = Nearest("t0") /\ plan[2] = Month(8)
        /\ plan[3] = Month(9) /\ plan[4] = Month(10)
    BY DEF FreshnessPlan
  <2>2. /\ Len(opening) = 4 /\ opening[1] = Nearest("t0") /\ opening[2] = Month(8)
        /\ opening[3] = Month(9) /\ opening[4] = Month(10)
    OBVIOUS
  <2>3. \A i \in 1 .. 4 : i = 1 \/ i = 2 \/ i = 3 \/ i = 4
    OBVIOUS
  <2> HIDE DEF n, opening
  <2> QED  BY <2>1, <2>2, <2>3
<1>2. \A k \in 1 .. n : /\ plan[k + 4] = Score(contests[k], "t0")
                        /\ plan[n + 5 + k] = Score(contests[k], "t15")
  BY DEF FreshnessPlan
<1>3. ASSUME NEW i \in 1 .. 5 + 2 * n
      PROVE  \/ i \in 1 .. 4 \/ i = n + 5
             \/ \E k \in 1 .. n : i = k + 4 /\ plan[i] = Score(contests[k], "t0")
             \/ \E k \in 1 .. n : i = n + 5 + k /\ plan[i] = Score(contests[k], "t15")
  <2>1. CASE i > 4 /\ i < n + 5
    <3>1. i - 4 \in 1 .. n /\ i = (i - 4) + 4
      BY <1>1, <2>1
    <3> QED  BY <1>2, <3>1
  <2>2. CASE i > n + 5
    <3>1. i - (n + 5) \in 1 .. n /\ i = n + 5 + (i - (n + 5))
      BY <1>1, <2>2
    <3> QED  BY <1>2, <3>1
  <2> QED  BY <1>1, <2>1, <2>2
<1> HIDE DEF n, opening
<1>4. ASSUME NEW i \in 1 .. 4
      PROVE  plan[i] \in {Nearest("t0"), Month(8), Month(9), Month(10)} /\ Discovers(plan[i])
  <2>1. i = 1 \/ i = 2 \/ i = 3 \/ i = 4
    OBVIOUS
  <2> QED  BY <1>1, <2>1, RequestsDiffer DEF Different
<1>5. ASSUME NEW i \in 1 .. 5 + 2 * n, ~Discovers(plan[i])
      PROVE  \E k \in 1 .. n : IsAbout(plan[i], contests[k])
  BY <1>1, <1>3, <1>4, <1>5, RequestsDiffer DEF IsAbout, Different
<1>6. ASSUME NEW i \in 1 .. 5 + 2 * n, Selects(plan[i]) PROVE i \in 1 .. 4
  <2>1. Discovers(plan[i]) /\ plan[i] # Nearest("t15")
    BY <1>6, RequestsDiffer DEF Different, Selects
  <2> QED  BY <1>1, <1>3, <2>1, RequestsDiffer DEF Different
<1>7. ASSUME NEW i \in 1 .. 5 + 2 * n, NEW j \in 1 .. 5 + 2 * n, plan[i] = plan[j] PROVE i = j
  <2>1. CASE Discovers(plan[i])
    <3>1. i \in {1, 2, 3, 4, n + 5} /\ j \in {1, 2, 3, 4, n + 5}
      <4>1. \A k \in 1 .. 4 : k \in {1, 2, 3, 4}
        OBVIOUS
      <4> QED  BY <1>3, <1>7, <2>1, <4>1, RequestsDiffer DEF Different
    <3> QED  BY <1>1, <1>7, <3>1, RequestsDiffer DEF Different
  <2>2. CASE ~Discovers(plan[i])
    <3>1. i \notin 1 .. 4 /\ i # n + 5 /\ j \notin 1 .. 4 /\ j # n + 5
      BY <1>1, <1>4, <1>7, <2>2, RequestsDiffer DEF Different
    <3>2. CASE \E k \in 1 .. n : i = k + 4 /\ plan[i] = Score(contests[k], "t0")
      <4>1. PICK k \in 1 .. n : i = k + 4 /\ plan[i] = Score(contests[k], "t0")
        BY <3>2
      <4>2. PICK m \in 1 .. n : j = m + 4 /\ plan[j] = Score(contests[m], "t0")
        BY <1>3, <1>7, <3>1, <4>1, RequestsDiffer DEF Different
      <4>3. contests[k] = contests[m]
        BY <1>7, <4>1, <4>2, RequestsDiffer DEF Different
      <4> QED  BY <4>1, <4>2, <4>3 DEF n
    <3>3. CASE \E k \in 1 .. n : i = n + 5 + k /\ plan[i] = Score(contests[k], "t15")
      <4>1. PICK k \in 1 .. n : i = n + 5 + k /\ plan[i] = Score(contests[k], "t15")
        BY <3>3
      <4>2. PICK m \in 1 .. n : j = n + 5 + m /\ plan[j] = Score(contests[m], "t15")
        BY <1>3, <1>7, <3>1, <4>1, RequestsDiffer DEF Different
      <4>3. contests[k] = contests[m]
        BY <1>7, <4>1, <4>2, RequestsDiffer DEF Different
      <4> QED  BY <4>1, <4>2, <4>3 DEF n
    <3> QED  BY <1>3, <3>1, <3>2, <3>3
  <2> QED  BY <2>1, <2>2
<1>8. 4 <= 5 + 2 * n
  BY <1>1
<1> QED  BY <1>1, <1>5, <1>6, <1>7, <1>8 DEF PlanOf, n, opening

\* that of the discovery, with the calendar or without it,
LEMMA DiscoveryFacts ==
    ASSUME NEW contests \in Seq(TestIds), NEW plan \in Seq(Requests), NEW first \in {1, 2},
           DiscoveryPlan(contests, plan, first),
           \A i, j \in 1 .. Len(contests) : contests[i] = contests[j] => i = j
    PROVE  PlanOf(contests, plan,
                  IF first = 2 THEN <<Nearest("t0"), Month(9)>> ELSE <<Nearest("t0")>>)
<1> DEFINE n == Len(contests)
           opening == IF first = 2 THEN <<Nearest("t0"), Month(9)>> ELSE <<Nearest("t0")>>
<1>1. /\ n \in Nat /\ Len(plan) = first + n /\ plan[1] = Nearest("t0")
      /\ first = 2 => plan[2] = Month(9)
      /\ Len(opening) = first /\ \A i \in 1 .. first : plan[i] = opening[i]
  <2>1. /\ n \in Nat /\ Len(plan) = first + n /\ plan[1] = Nearest("t0")
        /\ first = 2 => plan[2] = Month(9)
    BY DEF DiscoveryPlan
  <2>2. CASE first = 1
    <3>1. Len(opening) = 1 /\ opening[1] = Nearest("t0") /\ \A i \in 1 .. 1 : i = 1
      BY <2>2
    <3> HIDE DEF opening
    <3> QED  BY <2>1, <2>2, <3>1
  <2>3. CASE first = 2
    <3>1. /\ Len(opening) = 2 /\ opening[1] = Nearest("t0") /\ opening[2] = Month(9)
          /\ \A i \in 1 .. 2 : i = 1 \/ i = 2
      BY <2>3
    <3> HIDE DEF opening
    <3> QED  BY <2>1, <2>3, <3>1
  <2> QED  BY <2>2, <2>3
<1>2. \A k \in 1 .. n : plan[first + k] = Categories(contests[k])
  BY DEF DiscoveryPlan
<1>3. ASSUME NEW i \in 1 .. first + n
      PROVE  \/ i = 1
             \/ first = 2 /\ i = 2
             \/ \E k \in 1 .. n : i = first + k /\ plan[i] = Categories(contests[k])
  <2>1. CASE i > first
    <3>1. i - first \in 1 .. n /\ i = first + (i - first)
      BY <1>1, <2>1
    <3> QED  BY <1>2, <3>1
  <2> QED  BY <1>1, <2>1
<1> HIDE DEF n, opening
<1>4. ASSUME NEW i \in 1 .. first + n, ~Discovers(plan[i])
      PROVE  \E k \in 1 .. n : IsAbout(plan[i], contests[k])
  BY <1>1, <1>3, <1>4, RequestsDiffer DEF IsAbout, Different
<1>5. ASSUME NEW i \in 1 .. first + n, Discovers(plan[i]) PROVE i = 1 \/ (first = 2 /\ i = 2)
  BY <1>3, <1>5, RequestsDiffer DEF Different
<1>6. ASSUME NEW i \in 1 .. first + n, Selects(plan[i]) PROVE i \in 1 .. first
  <2>1. Discovers(plan[i])
    BY <1>6, RequestsDiffer DEF Different, Selects
  <2> QED  BY <1>5, <2>1
<1>7. ASSUME NEW i \in 1 .. first + n, NEW j \in 1 .. first + n, plan[i] = plan[j] PROVE i = j
  <2>1. CASE Discovers(plan[i])
    <3>1. (i = 1 \/ (first = 2 /\ i = 2)) /\ (j = 1 \/ (first = 2 /\ j = 2))
      BY <1>5, <1>7, <2>1
    <3> QED  BY <1>1, <1>7, <3>1, RequestsDiffer DEF Different
  <2>2. CASE ~Discovers(plan[i])
    <3>1. i # 1 /\ j # 1 /\ ~(first = 2 /\ i = 2) /\ ~(first = 2 /\ j = 2)
      BY <1>1, <1>7, <2>2, RequestsDiffer DEF Different
    <3>2. PICK k \in 1 .. n : i = first + k /\ plan[i] = Categories(contests[k])
      BY <1>3, <3>1
    <3>3. PICK m \in 1 .. n : j = first + m /\ plan[j] = Categories(contests[m])
      BY <1>3, <3>1
    <3>4. contests[k] = contests[m]
      BY <1>7, <3>2, <3>3, RequestsDiffer DEF Different
    <3> QED  BY <3>2, <3>3, <3>4 DEF n
  <2> QED  BY <2>1, <2>2
<1>8. first <= first + n
  BY <1>1
<1> QED  BY <1>1, <1>4, <1>6, <1>7, <1>8 DEF PlanOf, n, opening

\* and that of the displayscore probe.
LEMMA ScoreFacts ==
    ASSUME NEW contests \in Seq(TestIds), NEW plan \in Seq(Requests), ScorePlan(contests, plan),
           \A i, j \in 1 .. Len(contests) : contests[i] = contests[j] => i = j
    PROVE  PlanOf(contests, plan, <<>>)
<1>1. /\ Len(contests) \in Nat /\ Len(plan) = Len(contests) /\ Len(<<>>) = 0
      /\ \A k \in 1 .. Len(contests) : plan[k] = Score(contests[k], "t0")
  BY DEF ScorePlan
<1>2. \A i \in 1 .. Len(plan) : ~Discovers(plan[i]) /\ ~Selects(plan[i])
  BY <1>1, RequestsDiffer DEF Different, Selects
<1>3. \A i \in 1 .. Len(plan) : IsAbout(plan[i], contests[i])
  BY <1>1 DEF IsAbout
<1>4. \A i, j \in 1 .. Len(plan) : plan[i] = plan[j] => i = j
  BY <1>1, RequestsDiffer DEF Different
<1> QED  BY <1>1, <1>2, <1>3, <1>4 DEF PlanOf
------------------------------------------------------------------------------
Known == conf \in ToolConfigurations \cup ServiceConfigurations /\ ListedTyped

\* The contests and the plan that go with what is known.
Planned ==
    \E contests \in Seq(TestIds), plan \in Seq(Requests) :
        /\ contests = SelectedContests /\ plan = Plan
        /\ ToSet(contests) \subseteq Sources
        /\ PlanOf(contests, plan, Opening)
        /\ conf.program = "baseline" => BaselinePlan(contests, plan)
        /\ conf.program = "freshness" => FreshnessPlan(contests, plan)
        /\ conf.program \in {"baseline", "freshness"} => Len(plan) <= conf.requests
        /\ conf.program \notin {"baseline", "freshness"} => Len(plan) <= MayAsk

\* Whatever was listed, the plan is a plan of the contests selected from it,
\* and the bound of the program leaves room for it.
LEMMA PlanFacts == Known => Planned
<1> SUFFICES ASSUME Known PROVE Planned
  OBVIOUS
<1>1. PICK contests \in Seq(TestIds) : contests = SelectedContests
  BY SelectedFacts DEF Known
<1>2. /\ Len(contests) <= conf.contests
      /\ \A i, j \in DOMAIN contests : contests[i] = contests[j] => i = j
      /\ ToSet(contests) \subseteq Sources
  BY <1>1, SelectedFacts DEF Known
<1>3. \A i, j \in 1 .. Len(contests) : contests[i] = contests[j] => i = j
  BY <1>2
<1>4. /\ conf.program \in {"baseline", "freshness", "discovery", "displayscore"}
      /\ conf.contests \in Nat /\ Len(contests) \in Nat
      /\ conf.program \in {"baseline", "freshness"} =>
            conf.requests \in Int /\ Needed(conf.program, conf.contests) <= conf.requests
  BY Configured DEF Known
<1>5. CASE conf.program = "baseline"
  <2>1. PICK plan \in Seq(Requests) : plan = Plan /\ BaselinePlan(contests, plan)
    BY <1>1, <1>5, BaselineForm
  <2>2. PlanOf(contests, plan, Opening)
    <3>1. Opening = <<Nearest("t0"), Month(9)>>
      BY <1>5 DEF Opening
    <3> QED  BY <1>3, <2>1, <3>1, BaselineFacts
  <2>3. Len(plan) <= conf.requests
    <3>1. Len(plan) = 2 + 2 * Len(contests)
      BY <2>1 DEF BaselinePlan
    <3> QED  BY <1>2, <1>4, <1>5, <3>1 DEF Needed
  <2> QED  BY <1>1, <1>2, <1>5, <2>1, <2>2, <2>3 DEF Planned
<1>6. CASE conf.program = "freshness"
  <2>1. PICK plan \in Seq(Requests) : plan = Plan /\ FreshnessPlan(contests, plan)
    BY <1>1, <1>6, FreshnessForm
  <2>2. PlanOf(contests, plan, Opening)
    <3>1. Opening = <<Nearest("t0"), Month(8), Month(9), Month(10)>>
      BY <1>6 DEF Opening
    <3> QED  BY <1>3, <2>1, <3>1, FreshnessFacts
  <2>3. Len(plan) <= conf.requests
    <3>1. Len(plan) = 5 + 2 * Len(contests)
      BY <2>1 DEF FreshnessPlan
    <3> QED  BY <1>2, <1>4, <1>6, <3>1 DEF Needed
  <2> QED  BY <1>1, <1>2, <1>6, <2>1, <2>2, <2>3 DEF Planned
<1>7. CASE conf.program = "discovery"
  <2>1. PICK first \in {1, 2} : first = IF conf.month THEN 2 ELSE 1
    OBVIOUS
  <2>2. PICK plan \in Seq(Requests) : plan = Plan /\ DiscoveryPlan(contests, plan, first)
    BY <1>1, <1>7, <2>1, ServiceForms
  <2>3. PlanOf(contests, plan, Opening)
    <3>1. Opening = IF first = 2 THEN <<Nearest("t0"), Month(9)>> ELSE <<Nearest("t0")>>
      BY <1>7, <2>1 DEF Opening
    <3> QED  BY <1>3, <2>2, <3>1, DiscoveryFacts
  <2>4. Len(plan) <= MayAsk
    <3>1. Len(plan) = first + Len(contests)
      BY <2>2 DEF DiscoveryPlan
    <3>2. MayAsk = first + conf.contests
      BY <1>7, <2>1 DEF MayAsk, Observes
    <3> QED  BY <1>2, <1>4, <3>1, <3>2
  <2> QED  BY <1>1, <1>2, <1>7, <2>2, <2>3, <2>4 DEF Planned
<1>8. CASE conf.program = "displayscore"
  <2>1. PICK plan \in Seq(Requests) : plan = Plan /\ ScorePlan(contests, plan)
    BY <1>1, <1>8, ServiceForms
  <2>2. PlanOf(contests, plan, Opening)
    <3>1. Opening = <<>>
      BY <1>8 DEF Opening
    <3> QED  BY <1>3, <2>1, <3>1, ScoreFacts
  <2>3. Len(plan) <= MayAsk
    <3>1. Len(plan) = Len(contests)
      BY <2>1 DEF ScorePlan
    <3>2. MayAsk = conf.contests
      BY <1>8 DEF MayAsk, Observes
    <3> QED  BY <1>2, <1>4, <3>1, <3>2
  <2> QED  BY <1>1, <1>2, <1>8, <2>1, <2>2, <2>3 DEF Planned
<1> QED  BY <1>4, <1>5, <1>6, <1>7, <1>8

\* What has been asked is the plan so far; the request under way is its last
\* one; a report that passes comes when no request is under way and, from a
\* tool with a budget, when the plan is through.
ProbeInv ==
    /\ Known
    /\ asked \in Seq(Requests)
    /\ Len(asked) <= Len(Plan)
    /\ \A i \in 1 .. Len(asked) : asked[i] = Plan[i]
    /\ Observes => Len(asked) <= conf.requests
    /\ ~Idle => asked # <<>>
    /\ report = "PASS" => Idle /\ (Observes => Len(asked) = Len(Plan))

\* Nothing that is answered in the middle of a plan moves what was asked.
LEMMA AnsweredInv ==
    ASSUME ProbeInv, Answered
    PROVE  ProbeInv'
<1>1. ~Idle /\ asked # <<>> /\ report # "PASS"
  BY DEF Answered, BodyEnds, ProbeInv, Idle
<1>2. UNCHANGED <<conf, asked, failed, report>>
  BY DEF Answered
<1>3. Known'
  <2>1. CASE ~Discovers(Last(asked))
    BY <1>2, <2>1 DEF Answered, ProbeInv, Known, ListedTyped
  <2>2. CASE Discovers(Last(asked))
    <3>1. PICK listing \in Listings :
             listed' = [r \in DOMAIN listed \cup {Last(asked)} |->
                           IF r = Last(asked) THEN listing ELSE listed[r]]
      BY <2>2 DEF Answered
    <3>2. \A r \in DOMAIN listed' : listed'[r] \in Listings
      BY <3>1 DEF ProbeInv, Known, ListedTyped
    <3> QED  BY <1>2, <3>2 DEF ProbeInv, Known, ListedTyped
  <2> QED  BY <2>1, <2>2
<1>o. PICK opening : opening = Opening
  OBVIOUS
<1>4. PICK plan \in Seq(Requests) :
         /\ plan = Plan /\ opening = Opening /\ Len(opening) <= Len(plan)
         /\ \A i \in 1 .. Len(opening) : plan[i] = opening[i]
         /\ \A i \in 1 .. Len(plan) : Selects(plan[i]) => i \in 1 .. Len(opening)
  BY <1>o, PlanFacts DEF ProbeInv, Planned, PlanOf
<1>5. PICK next \in Seq(Requests) :
         /\ next = Plan' /\ Len(opening) <= Len(next)
         /\ \A i \in 1 .. Len(opening) : next[i] = opening[i]
  <2>1. Planned'
    BY <1>3, PlanFacts, PTL
  <2>2. Opening' = opening
    BY <1>2, <1>4 DEF Opening
  <2> QED  BY <2>1, <2>2 DEF Planned, PlanOf
<1>6. PICK n \in Nat : n = Len(asked) /\ n \in 1 .. Len(plan) /\ Last(asked) = plan[n]
  BY <1>1, <1>4 DEF ProbeInv, Last
<1>7. n <= Len(next) /\ \A i \in 1 .. n : next[i] = plan[i]
  <2>1. CASE Selects(plan[n])
    <3>1. n <= Len(opening)
      BY <1>4, <1>6, <2>1
    <3>2. Len(opening) \in Nat
      BY <1>4, <1>6, <2>1
    <3> QED  BY <1>4, <1>5, <1>6, <3>1, <3>2
  <2>2. CASE ~Selects(plan[n])
    <3>1. ASSUME NEW request, Selects(request) PROVE Answer(request)' = Answer(request)
      <4>1. request # Last(asked)
        BY <1>6, <2>2, <3>1
      <4> QED  BY <4>1 DEF Answered, Answer
    <3>2. /\ Answer(Nearest("t0"))' = Answer(Nearest("t0"))
          /\ Answer(Month(9))' = Answer(Month(9))
      BY <3>1 DEF Selects, Nearest, Month
    <3>3. SelectedContests' = SelectedContests
      BY <1>2, <3>2 DEF SelectedContests, Preferred
    <3>4. Plan' = Plan
      BY <1>2, <3>3 DEF Plan, ForEach, ForEachBoth
    <3> QED  BY <1>4, <1>5, <1>6, <3>4
  <2> QED  BY <2>1, <2>2
<1>8. /\ Len(asked') <= Len(Plan') /\ \A i \in 1 .. Len(asked') : asked'[i] = Plan'[i]
  <2>1. \A i \in 1 .. n : asked[i] = plan[i]
    BY <1>4, <1>6 DEF ProbeInv
  <2> QED  BY <1>2, <1>5, <1>6, <1>7, <2>1
<1> QED  BY <1>1, <1>2, <1>3, <1>8 DEF ProbeInv, Observes

\* While nothing is answered, what is known and the plan stay.
LEMMA NothingAnswered ==
    ASSUME Known, UNCHANGED <<conf, listed>>
    PROVE  Known' /\ Plan' = Plan
<1>1. \A request : Answer(request)' = Answer(request)
  BY DEF Answer
<1>2. SelectedContests' = SelectedContests
  BY <1>1 DEF SelectedContests, Preferred, Nearest, Month
<1>3. Plan' = Plan
  BY <1>2 DEF Plan, ForEach, ForEachBoth
<1>4. Known'
  BY DEF Known, ListedTyped
<1> QED  BY <1>3, <1>4

\* The next request is the one the plan says, and the budget has room for it.
LEMMA AskInv ==
    ASSUME ProbeInv, Ask
    PROVE  ProbeInv'
<1>1. Known' /\ Plan' = Plan
  BY NothingAnswered DEF Ask, ProbeInv
<1>2. PICK plan \in Seq(Requests) : plan = Plan
  BY PlanFacts DEF ProbeInv, Planned
<1>3. PICK before \in Seq(Requests) : before = asked
  BY DEF ProbeInv
<1>4. /\ Len(before) < Len(plan) /\ asked' = Append(before, plan[Len(before) + 1])
      /\ report' = report /\ report # "PASS" /\ conf' = conf
      /\ Observes => Len(before) < conf.requests
  BY <1>2, <1>3 DEF Ask, Running, HasBudget
<1>5. plan[Len(before) + 1] \in Requests /\ Len(before) \in Nat
  BY <1>4
<1>6. PICK after \in Seq(Requests) :
         /\ after = asked' /\ Len(after) = Len(before) + 1 /\ after # <<>>
         /\ \A i \in 1 .. Len(before) : after[i] = before[i]
         /\ after[Len(before) + 1] = plan[Len(before) + 1]
  BY <1>4, <1>5
<1>7. Len(after) <= Len(plan) /\ \A i \in 1 .. Len(after) : after[i] = plan[i]
  <2>1. \A i \in 1 .. Len(before) : before[i] = plan[i]
    BY <1>2, <1>3 DEF ProbeInv
  <2>2. \A i \in 1 .. Len(after) : i \in 1 .. Len(before) \/ i = Len(before) + 1
    BY <1>5, <1>6
  <2>3. Len(after) <= Len(plan)
    BY <1>4, <1>5, <1>6
  <2> QED  BY <1>6, <2>1, <2>2, <2>3
<1>8. Observes' => Len(after) <= conf.requests
  <2>1. conf.program \in {"baseline", "freshness"} => conf.requests \in Int
    BY Configured DEF ProbeInv, Known
  <2> QED  BY <1>4, <1>5, <1>6, <2>1 DEF Observes
<1> QED  BY <1>1, <1>2, <1>4, <1>6, <1>7, <1>8 DEF ProbeInv

\* A request that goes on or ends in another way leaves what was asked.
LEMMA NotAnsweredInv ==
    ASSUME ProbeInv, AnswerArrives \/ NotAnswered
    PROVE  ProbeInv'
<1>1. ~Idle
  BY DEF AnswerArrives, Reads, Chunk, Headers, NotAnswered, Breaks, FetchFails, DeclaredTooLarge,
         TooLarge, BodyBreaks, BodyEnds, Idle
<1>2. asked # <<>> /\ report # "PASS" /\ UNCHANGED <<conf, asked, listed>>
  BY <1>1 DEF ProbeInv, AnswerArrives, NotAnswered
<1>3. report' # "PASS"
  <2>1. CASE AnswerArrives
    BY <1>2, <2>1 DEF AnswerArrives
  <2>2. CASE NotAnswered
    <3>1. report' = report \/ report' = "FAIL"
      BY <2>2 DEF NotAnswered
    <3> QED  BY <1>2, <3>1
  <2> QED  BY <2>1, <2>2
<1>4. Known' /\ Plan' = Plan
  BY <1>2, NothingAnswered DEF ProbeInv
<1> QED  BY <1>2, <1>3, <1>4 DEF ProbeInv, Observes

\* A tool whose budget is spent has asked its whole plan.
LEMMA WriteReportInv ==
    ASSUME ProbeInv, WriteReport
    PROVE  ProbeInv'
<1>1. Idle /\ Idle' /\ UNCHANGED <<exchange, conf, asked, listed>>
  BY DEF WriteReport, Idle
<1>2. Known' /\ Plan' = Plan
  BY <1>1, NothingAnswered DEF ProbeInv
<1>3. Observes => Len(asked) = Len(Plan)
  <2> SUFFICES ASSUME Observes, ~HasBudget PROVE Len(asked) = Len(Plan)
    BY DEF WriteReport
  <2>1. conf.requests \in Int
    BY Configured DEF ProbeInv, Known, Observes
  <2>2. PICK plan \in Seq(Requests) : plan = Plan /\ Len(plan) <= conf.requests
    BY PlanFacts DEF ProbeInv, Planned, Observes
  <2>3. PICK before \in Seq(Requests) : before = asked
    BY DEF ProbeInv
  <2>4. Len(before) <= Len(plan) /\ ~(Len(before) < conf.requests)
    BY <2>2, <2>3 DEF ProbeInv, HasBudget
  <2>5. Len(before) = Len(plan)
    BY <2>1, <2>2, <2>4
  <2> QED  BY <2>2, <2>3, <2>5
<1> QED  BY <1>1, <1>2, <1>3 DEF ProbeInv, Observes, Idle

\* Nothing changes for a program while others run.
LEMMA OthersInv ==
    ASSUME ProbeInv, UNCHANGED probeVars
    PROVE  ProbeInv'
<1>1. UNCHANGED <<exchange, conf, asked, listed, report>>
  BY DEF probeVars
<1>2. Known' /\ Plan' = Plan
  BY <1>1, NothingAnswered DEF ProbeInv
<1> QED  BY <1>1, <1>2 DEF ProbeInv, Observes, Idle

\* Every step of a program keeps it.
LEMMA StepInv == ProbeInv /\ [ProbeNext]_probeVars => ProbeInv'
<1> SUFFICES ASSUME ProbeInv, [ProbeNext]_probeVars PROVE ProbeInv'
  OBVIOUS
<1>1. CASE Ask
  BY <1>1, AskInv
<1>2. CASE AnswerArrives \/ NotAnswered
  BY <1>2, NotAnsweredInv
<1>3. CASE Answered
  BY <1>3, AnsweredInv
<1>4. CASE WriteReport
  BY <1>4, WriteReportInv
<1>5. CASE UNCHANGED probeVars
  BY <1>5, OthersInv
<1> QED  BY <1>1, <1>2, <1>3, <1>4, <1>5 DEF ProbeNext

\* Before its first request a program knows and has asked nothing.
LEMMA NothingAsked ==
    ASSUME conf \in ToolConfigurations \cup ServiceConfigurations, ClientInit,
           asked = <<>>, listed = <<>>, report # "PASS"
    PROVE  ProbeInv
<1>1. Known
  BY DEF Known, ListedTyped
<1>2. PICK plan \in Seq(Requests) : plan = Plan
  BY <1>1, PlanFacts DEF Planned
<1>3. Idle
  BY DEF ClientInit, Idle
<1>4. asked \in Seq(Requests) /\ Len(asked) = 0 /\ Len(plan) \in Nat /\ 1 .. 0 = {}
  OBVIOUS
<1>5. Observes => 0 <= conf.requests
  <2> SUFFICES ASSUME Observes PROVE 0 <= conf.requests
    OBVIOUS
  <2>1. conf.requests \in Int /\ Len(plan) <= conf.requests
    BY <1>1, <1>2, Configured, PlanFacts DEF Known, Planned, Observes
  <2> QED  BY <1>4, <2>1
<1> QED  BY <1>1, <1>2, <1>3, <1>4, <1>5 DEF ProbeInv

\* A program starts that way.
LEMMA InitInv == ProbeInit => ProbeInv
BY NothingAsked DEF ProbeInit

\* Beside the collector there may be no probe: as one that has failed.
LEMMA AbsentInv == ProbeAbsent => ProbeInv
<1>1. [program |-> "discovery", contests |-> 0, requests |-> 0, month |-> TRUE, lenient |-> TRUE]
         \in ServiceConfigurations
  BY ProbeConstants DEF ServiceConfigurations
<1>2. ProbeAbsent => conf \in ServiceConfigurations
  BY <1>1 DEF ProbeAbsent
<1> QED  BY <1>2, NothingAsked DEF ProbeAbsent
------------------------------------------------------------------------------
\* A list that holds nothing twice has as many elements as its length.
LEMMA ListedOnce ==
    ASSUME NEW T, NEW list \in Seq(T), \A i, j \in 1 .. Len(list) : list[i] = list[j] => i = j
    PROVE  Cardinality(ToSet(list)) = Len(list)
<1>1. Len(list) \in Nat /\ DOMAIN list = 1 .. Len(list) /\ list \in [1 .. Len(list) -> T]
  OBVIOUS
<1>2. ToSet(list) = {list[i] : i \in 1 .. Len(list)}
  BY <1>1 DEF ToSet
<1>3. IsFiniteSet(1 .. Len(list)) /\ Cardinality(1 .. Len(list)) = Len(list)
  <2>1. Len(list) - 1 + 1 = Len(list)
    BY <1>1
  <2> QED  BY <1>1, <2>1, FS_Interval
<1>4. list \in Bijection(1 .. Len(list), ToSet(list))
  <2>1. list \in [1 .. Len(list) -> ToSet(list)]
    BY <1>1, <1>2
  <2>2. list \in Injection(1 .. Len(list), ToSet(list))
    BY <2>1 DEF Injection, IsInjective
  <2>3. list \in Surjection(1 .. Len(list), ToSet(list))
    BY <1>2, <2>1 DEF Surjection
  <2> QED  BY <2>2, <2>3 DEF Bijection
<1>5. ExistsBijection(1 .. Len(list), ToSet(list))
  BY <1>4 DEF ExistsBijection
<1> QED  BY <1>1, <1>3, <1>5, FS_Bijection

\* What has been asked is part of a plan that asks nothing twice.
LEMMA SparedFromInv == ProbeInv => SourceIsSpared
<1> SUFFICES ASSUME ProbeInv PROVE SourceIsSpared
  OBVIOUS
<1>1. PICK contests \in Seq(TestIds), plan \in Seq(Requests) :
         /\ contests = SelectedContests /\ plan = Plan /\ ToSet(contests) \subseteq Sources
         /\ \A i, j \in 1 .. Len(plan) : plan[i] = plan[j] => i = j
         /\ \A i \in 1 .. Len(plan) : ~Discovers(plan[i]) =>
               \E k \in 1 .. Len(contests) : IsAbout(plan[i], contests[k])
         /\ conf.program \notin {"baseline", "freshness"} => Len(plan) <= MayAsk
  BY PlanFacts DEF ProbeInv, Planned, PlanOf
<1>2. PICK made \in Seq(Requests) :
         /\ made = asked /\ Len(made) <= Len(plan)
         /\ \A i \in 1 .. Len(made) : made[i] = plan[i]
         /\ Observes => Len(made) <= conf.requests
  BY <1>1 DEF ProbeInv
<1>3. \A i \in 1 .. Len(made) : i \in 1 .. Len(plan)
  BY <1>2
<1>4. Cardinality(ToSet(asked)) = Len(asked)
  <2>1. \A i, j \in 1 .. Len(made) : made[i] = made[j] => i = j
    BY <1>1, <1>2, <1>3
  <2> QED  BY <1>2, <2>1, ListedOnce
<1>5. Len(asked) <= MayAsk
  <2>1. CASE Observes
    <3>1. MayAsk = conf.requests
      BY <2>1 DEF MayAsk, Observes
    <3> QED  BY <1>2, <2>1, <3>1
  <2>2. CASE ~Observes
    <3>1. Len(plan) <= MayAsk
      BY <1>1, <2>2 DEF Observes
    <3>2. MayAsk \in Int
      <4>1. conf.program \in {"discovery", "displayscore"} /\ conf.contests \in Nat
        BY <2>2, Configured DEF ProbeInv, Known, Observes
      <4> QED  BY <2>2, <4>1 DEF MayAsk
    <3> QED  BY <1>2, <3>1, <3>2
  <2> QED  BY <2>1, <2>2
<1> DEFINE known == (UNION {ToSet(listed[r]) : r \in DOMAIN listed})
                       \cup (IF conf.program = "displayscore" THEN ToSet(PlannedIds) ELSE {})
<1>6. Sources \subseteq known
  <2>1. ASSUME NEW request, NEW t \in ToSet(Answer(request)) PROVE t \in known
    <3>1. CASE request \in DOMAIN listed
      BY <3>1 DEF Answer
    <3>2. CASE request \notin DOMAIN listed
      <4>1. ToSet(<<>>) = {}
        BY DEF ToSet
      <4> QED  BY <3>2, <4>1 DEF Answer
    <3> QED  BY <3>1, <3>2
  <2>2. conf.program = "displayscore" => ToSet(PlannedIds) \subseteq known
    OBVIOUS
  <2> HIDE DEF known
  <2> QED  BY <2>1, <2>2 DEF Sources
<1>7. ASSUME NEW i \in DOMAIN asked, ~Discovers(asked[i])
      PROVE  \E t \in known : asked[i] \in {Categories(t), Score(t, "t0"), Score(t, "t15")}
  <2>1. i \in 1 .. Len(made) /\ asked[i] = plan[i]
    BY <1>2
  <2>2. PICK k \in 1 .. Len(contests) : IsAbout(asked[i], contests[k])
    BY <1>1, <1>3, <1>7, <2>1
  <2>3. contests[k] \in known
    <3>1. contests[k] \in ToSet(contests)
      BY DEF ToSet
    <3> HIDE DEF known
    <3> QED  BY <1>1, <1>6, <3>1
  <2> QED  BY <2>2, <2>3 DEF IsAbout
<1> QED  BY <1>4, <1>5, <1>7 DEF SourceIsSpared

\* A report that passes is written after the whole plan.
LEMMA CompleteFromInv == ProbeInv => ReportsAreComplete
<1> SUFFICES ASSUME ProbeInv, report = "PASS", Observes, NEW t \in ToSet(SelectedContests)
             PROVE  CASE conf.program = "baseline" ->
                             {Categories(t), Score(t, "t0")} \subseteq ToSet(asked)
                      [] conf.program = "freshness" ->
                             \E i, j, k \in DOMAIN asked :
                                 /\ asked[i] = Score(t, "t0") /\ asked[j] = Nearest("t15")
                                 /\ asked[k] = Score(t, "t15") /\ i < j /\ j < k
  BY DEF ReportsAreComplete
<1>1. PICK contests \in Seq(TestIds), plan \in Seq(Requests) :
         /\ contests = SelectedContests /\ plan = Plan
         /\ conf.program = "baseline" => BaselinePlan(contests, plan)
         /\ conf.program = "freshness" => FreshnessPlan(contests, plan)
  BY PlanFacts DEF ProbeInv, Planned
<1>2. /\ DOMAIN asked = 1 .. Len(plan) /\ Len(asked) = Len(plan)
      /\ \A i \in 1 .. Len(plan) : asked[i] = plan[i]
  BY <1>1 DEF ProbeInv
<1>3. PICK n \in Nat : n = Len(contests)
  OBVIOUS
<1>4. PICK c \in 1 .. n : t = contests[c]
  BY <1>1, <1>3 DEF ToSet
<1>5. CASE conf.program = "baseline"
  <2>1. /\ Len(plan) = 2 + 2 * n
        /\ plan[2 * c + 1] = Categories(t) /\ plan[2 * c + 2] = Score(t, "t0")
    BY <1>1, <1>3, <1>4, <1>5 DEF BaselinePlan
  <2>2. 2 * c + 1 \in 1 .. 2 + 2 * n /\ 2 * c + 2 \in 1 .. 2 + 2 * n
    BY <1>3, <1>4
  <2>3. {Categories(t), Score(t, "t0")} \subseteq ToSet(asked)
    BY <1>2, <2>1, <2>2 DEF ToSet
  <2> QED  BY <1>5, <2>3
<1>6. CASE conf.program = "freshness"
  <2>1. /\ Len(plan) = 5 + 2 * n /\ plan[n + 5] = Nearest("t15")
        /\ plan[c + 4] = Score(t, "t0") /\ plan[n + 5 + c] = Score(t, "t15")
    BY <1>1, <1>3, <1>4, <1>6 DEF FreshnessPlan
  <2>2. /\ c + 4 \in 1 .. 5 + 2 * n /\ n + 5 \in 1 .. 5 + 2 * n /\ n + 5 + c \in 1 .. 5 + 2 * n
        /\ c + 4 < n + 5 /\ n + 5 < n + 5 + c
    BY <1>3, <1>4
  <2>3. \E i, j, k \in DOMAIN asked :
           /\ asked[i] = Score(t, "t0") /\ asked[j] = Nearest("t15")
           /\ asked[k] = Score(t, "t15") /\ i < j /\ j < k
    BY <1>2, <2>1, <2>2
  <2> QED  BY <1>6, <2>3
<1> QED  BY <1>5, <1>6 DEF Observes

\* What a program asks, alone.
LEMMA SpecProbe == ProbeSpec => []ProbeInv
BY InitInv, StepInv, PTL DEF ProbeSpec

\* What it asks beside the collector, with which it shares nothing.
LEMMA SpecReaders == ReadersSpec => []ProbeInv
<1>1. ReadersInit => ProbeInv
  BY InitInv, AbsentInv DEF ReadersInit
<1>2. [ReadersNext]_readersVars => [ProbeNext]_probeVars
  <2>1. CASE ReadersNext
    BY <2>1 DEF ReadersNext, CollectorStep, ProbeStep, ProbeNext
  <2>2. CASE UNCHANGED readersVars
    BY <2>2 DEF readersVars
  <2> QED  BY <2>1, <2>2
<1> QED  BY <1>1, <1>2, StepInv, PTL DEF ReadersSpec

\* A program asks the source for nothing twice, for no more than its bound and
\* only about contests that the source listed or it was given, for any listings,
\* limits and options: alone,
THEOREM ProbeSparesSource == ProbeSpec => []SourceIsSpared
BY SpecProbe, SparedFromInv, PTL

\* and in the composition with the collector's loop.
THEOREM ReadersSpareSource == ReadersSpec => []SourceIsSpared
BY SpecReaders, SparedFromInv, PTL

\* A report that passes is about every contest that was selected: the budget that
\* the tools' arguments are checked against never cuts the plan.
THEOREM ReportsComplete == ReadersSpec => []ReportsAreComplete
BY SpecReaders, CompleteFromInv, PTL
=============================================================================

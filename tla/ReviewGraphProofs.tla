--------------------------- MODULE ReviewGraphProofs ---------------------------
(***************************************************************************)
(* The inductive invariant of a review run, and what follows from it       *)
(* whatever the model answers, in whatever order the reviewers end and     *)
(* wherever a node raises: what every node finds when it starts, that the  *)
(* decision delivered was come to, that the path the API guesses shows the *)
(* work that is done and its bar never falls, what the two reports to read *)
(* say, and that a run follows EditorialProcess.                           *)
(***************************************************************************)
EXTENDS ReviewGraph, CountingLemmas

\* The nodes whose writes have been merged, and those a superstep was made of.
Done == {n \in Node \ frontier : nodes[n] = "SUCCEEDED"}
Visited == Done \cup frontier

OpeningNodes == {"doc_parse", "content_check", "journal_req_collector", "field_analyst"}

Screening == IF mode = "FULL_REVIEW" THEN {"se_check", "ae_check"} ELSE {}

\* The last node before the reports are rendered.
Exit ==
    IF state.parse_error # "" THEN "parse_fail_output"
    ELSE IF state.intent = "NOT_PAPER" THEN "invalid_file"
    ELSE IF "DESK_REJECT" \in {state.se_decision, state.ae_decision} THEN "desk_reject_output"
    ELSE IF mode = "SINGLE_AGENT_REVIEW" THEN "single_reviewer"
    ELSE "ae_finalize"

\* The nodes that have been merged when the run is at n.
Before(n) ==
    CASE n = "doc_parse" -> {}
      [] n \in {"parse_fail_output", "content_check"} -> {"doc_parse"}
      [] n \in {"invalid_file", "journal_req_collector"} -> {"doc_parse", "content_check"}
      [] n = "field_analyst" -> OpeningNodes \ {"field_analyst"}
      [] n \in {"se_check", "single_reviewer"} -> OpeningNodes
      [] n = "ae_check" -> OpeningNodes \cup {"se_check"}
      [] n = "desk_reject_output" -> OpeningNodes \cup
            (IF state.se_decision = "DESK_REJECT" THEN {"se_check"} ELSE {"se_check", "ae_check"})
      [] n = "review_dispatch" -> OpeningNodes \cup Screening
      [] n \in Reviewers -> OpeningNodes \cup Screening \cup {"review_dispatch"}
      [] n = "ae_decision" -> OpeningNodes \cup Screening \cup {"review_dispatch"} \cup Reviewers
      [] n = "ae_report" -> OpeningNodes \cup Screening \cup {"review_dispatch"} \cup Reviewers
            \cup {"ae_decision"}
      [] n = "ae_finalize" -> OpeningNodes \cup Screening \cup {"review_dispatch"} \cup Reviewers
            \cup {"ae_decision", "ae_report"}

\* Where the run is, and what it has merged to get there.
AtItsPlace ==
    /\ \/ frontier \in {{}, Reviewers}
       \/ \E n \in Node \ Reviewers : frontier = {n}
    /\ \A n \in frontier \ {"final_artifact_render"} : Done = Before(n)
    /\ frontier = {"final_artifact_render"} => Done = Before(Exit) \cup {Exit}
    /\ frontier = {} => Done = Before(Exit) \cup {Exit, "final_artifact_render"}

\* The routers have been obeyed.
Routed ==
    /\ "parse_fail_output" \in Visited <=> state.parse_error # ""
    /\ "invalid_file" \in Visited <=> state.intent = "NOT_PAPER"
    /\ "desk_reject_output" \in Visited <=>
          "DESK_REJECT" \in {state.se_decision, state.ae_decision}
    /\ "single_reviewer" \in Visited => mode = "SINGLE_AGENT_REVIEW"
    /\ "se_check" \in Visited => mode = "FULL_REVIEW"
    /\ "ae_check" \in Visited => mode = "FULL_REVIEW" /\ state.se_decision = "PASS"
    /\ "review_dispatch" \in Visited => mode # "SINGLE_AGENT_REVIEW"

\* What a node reports is how far it is, and what it has answered passed its validator.
Tells(n) ==
    \/ nodes[n] = "NONE" /\ reply[n].at = "not started"
    \/ nodes[n] = "RUNNING" /\ reply[n].at = "asking"
    \/ nodes[n] = "FAILED" /\ reply[n].at = "raised"
    \/ /\ nodes[n] = "SUCCEEDED"
       /\ \E answer \in Answers(n) : validator_for_prompt(n, answer) /\ reply[n] = Ended(answer)

NodesTell ==
    /\ \A n \in frontier : Tells(n)
    /\ \A n \in Node \ frontier :
          nodes[n] \in {"NONE", "SUCCEEDED"} /\ reply[n] = At("not started")

\* The channels hold what the merged nodes have written.
ChannelsWritten ==
    /\ "doc_parse" \in Done => (state.parsed_paper = Unset <=> state.parse_error # "")
    /\ "doc_parse" \notin Done => state.parsed_paper = Unset /\ state.parse_error = ""
    /\ state.intent = Unset <=> "content_check" \notin Done
    /\ state.journal_requirements = Unset <=> "journal_req_collector" \notin Done
    /\ state.se_decision = Unset <=> "se_check" \notin Done
    /\ state.ae_result = IF "ae_check" \in Done THEN "screened"
                         ELSE IF "review_dispatch" \in Done THEN "default" ELSE Unset
    /\ state.ae_decision = Unset <=> state.ae_result = Unset
    /\ state.ae_decision = "DESK_REJECT" => "ae_check" \in Done

\* The reports are those of the merged reviewers, each once.
Panel(reports) ==
    /\ Len(reports) = 4
    /\ \A r \in Reviewers : \E i \in 1..4 : reports[i].reviewer_key = r

ReportsAdded ==
    /\ Reviewers \cap Done = {} /\ "single_reviewer" \notin Done => state.reviewer_reports = << >>
    /\ "single_reviewer" \in Done =>
          Len(state.reviewer_reports) = 1
          /\ state.reviewer_reports[1].reviewer_key = "single_reviewer"
    /\ Reviewers \cap Done # {} => Panel(state.reviewer_reports)

Decided ==
    /\ IF "ae_decision" \in Done THEN state.ae_decision_result \in Verdicts
       ELSE state.ae_decision_result = Unset
    /\ IF "parse_fail_output" \in Done THEN state.final_decision = "REJECT"
       ELSE IF "invalid_file" \in Done THEN state.final_decision = "INVALID_SUBMISSION"
       ELSE IF "desk_reject_output" \in Done THEN state.final_decision = "DESK_REJECT"
       ELSE IF "single_reviewer" \in Done THEN state.final_decision \in Verdicts
       ELSE IF "ae_finalize" \in Done THEN state.final_decision = state.ae_decision_result
       ELSE state.final_decision = Unset

StagesNamed ==
    \A x \in state.stage_outputs :
        \/ x \in Done \ {"journal_req_collector", "field_analyst"}
        \/ x \in {"venue_profile", "journal_requirements"} /\ "journal_req_collector" \in Done
        \/ x = "field_analysis" /\ "field_analyst" \in Done
        \/ x = "ae_check" /\ "review_dispatch" \in Done

\* Once delivered, the reports are in the canonical order.
InOrder ==
    outcome = "SUCCEEDED" =>
        /\ frontier = {}
        /\ Reviewers \subseteq Done => Keys(state.reviewer_reports) =
                  <<"reviewer1", "reviewer2", "reviewer3", "devils_advocate">>

IInv ==
    /\ TypeOK /\ AtItsPlace /\ Routed /\ NodesTell /\ ChannelsWritten
    /\ ReportsAdded /\ Decided /\ StagesNamed /\ InOrder

\* The Max of the community modules is a maximum.
LEMMA MaxOf ==
    ASSUME NEW t \in SUBSET Int, NEW m \in t, \A x \in t : m >= x
    PROVE  Max(t) = m
<1>1. \A x \in t : (\A y \in t : x >= y) => x = m
  OBVIOUS
<1>2. Max(t) = CHOOSE x \in t : \A y \in t : x >= y
  BY DEF Max
<1> QED
  BY <1>1, <1>2

\* The nodes of a sequence are merged one after the other.
LEMMA FoldSteps ==
    ASSUME NEW n \in Nat, NEW seq, DOMAIN seq = 1..n, NEW s
    PROVE  \E acc : /\ acc[0] = s
                    /\ \A k \in 1..n : acc[k] = Merged(acc[k - 1], seq[k])
                    /\ MergedInOrder(s, seq) = acc[n]
<1> DEFINE Next1(f, t) == IF t = {} THEN s ELSE Merged(f[t \ {Max(t)}], seq[Max(t)])
           Folds(m, f) == f = [t \in SUBSET (1..m) |-> Next1(f, t)]
           T == {m \in Nat : \E f : Folds(m, f)}
<1>0. \A m : m \in T <=> m \in Nat /\ \E f : Folds(m, f)
  <2> HIDE DEF Folds
  <2> QED
    OBVIOUS
<1> HIDE DEF T
<1>1. 0 \in T
  <2> DEFINE f == [t \in SUBSET (1..0) |-> s]
  <2>1. \A t \in SUBSET (1..0) : t = {}
    OBVIOUS
  <2>2. Folds(0, f)
    BY <2>1
  <2> QED
    BY <1>0, <2>2
<1>2. \A m \in T : m + 1 \in T
  <2> SUFFICES ASSUME NEW m \in T, m \in Nat PROVE \E g : Folds(m + 1, g)
    <3> HIDE DEF Folds
    <3> QED
      BY <1>0
  <2>1. PICK f : Folds(m, f)
    <3> HIDE DEF Folds
    <3> QED
      BY <1>0
  <2> DEFINE g == [t \in SUBSET (1..(m + 1)) |->
                      IF m + 1 \in t THEN Merged(f[t \ {m + 1}], seq[m + 1]) ELSE f[t]]
  <2>2. ASSUME NEW t \in SUBSET (1..(m + 1)) PROVE g[t] = Next1(g, t)
    <3>1. CASE m + 1 \in t
      <4>1. Max(t) = m + 1
        BY <3>1, MaxOf
      <4>2. t \ {m + 1} \in SUBSET (1..m) /\ t \ {m + 1} \in SUBSET (1..(m + 1))
             /\ m + 1 \notin t \ {m + 1}
        OBVIOUS
      <4>3. g[t \ {m + 1}] = f[t \ {m + 1}]
        BY <4>2
      <4>4. g[t] = Merged(f[t \ {m + 1}], seq[m + 1])
        BY <3>1
      <4> HIDE DEF g
      <4> QED
        BY <3>1, <4>1, <4>3, <4>4
    <3>2. CASE m + 1 \notin t
      <4>1. t \in SUBSET (1..m)
        BY <3>2
      <4>2. g[t] = f[t] /\ \A x : g[t \ {x}] = f[t \ {x}]
        BY <3>2
      <4>3. f[t] = Next1(f, t)
        BY <2>1, <4>1
      <4> HIDE DEF g
      <4> QED
        BY <4>2, <4>3
    <3> QED
      BY <3>1, <3>2
  <2>3. Folds(m + 1, g)
    <3> HIDE DEF Next1
    <3>1. \A t \in SUBSET (1..(m + 1)) : g[t] = Next1(g, t)
      BY <2>2
    <3> QED
      BY <3>1
  <2> QED
    BY <2>3
<1>3. PICK f : Folds(n, f)
  <2>1. T \subseteq Nat
    BY <1>0
  <2>2. n \in T
    BY <1>1, <1>2, <2>1, SetInduction
  <2> HIDE DEF Folds
  <2> QED
    BY <1>0, <2>2
<1> DEFINE iter == CHOOSE iter : iter = [t \in SUBSET (DOMAIN seq) |->
                       IF t = {} THEN s ELSE Merged(iter[t \ {Max(t)}], seq[Max(t)])]
<1>4. iter = [t \in SUBSET (DOMAIN seq) |->
                       IF t = {} THEN s ELSE Merged(iter[t \ {Max(t)}], seq[Max(t)])]
  <2>1. f = [t \in SUBSET (DOMAIN seq) |->
                IF t = {} THEN s ELSE Merged(f[t \ {Max(t)}], seq[Max(t)])]
    BY <1>3
  <2> QED
    BY <2>1
<1>5. MergedInOrder(s, seq) = iter[DOMAIN seq]
  BY DEF MergedInOrder, FoldLeft, MapThenFoldSet
<1> HIDE DEF iter
<1> DEFINE acc == [k \in 0..n |-> iter[1..k]]
<1>6. acc[0] = s
  <2>1. 1..0 = {} /\ 0 \in 0..n /\ {} \in SUBSET (DOMAIN seq)
    OBVIOUS
  <2> QED
    BY <1>4, <2>1
<1>7. ASSUME NEW k \in 1..n PROVE acc[k] = Merged(acc[k - 1], seq[k])
  <2>1. Max(1..k) = k
    <3>1. 1..k \in SUBSET Int /\ k \in 1..k /\ \A x \in 1..k : k >= x
      OBVIOUS
    <3> QED
      BY <3>1, MaxOf
  <2>2. (1..k) \ {k} = 1..(k - 1) /\ 1..k # {} /\ 1..k \in SUBSET (DOMAIN seq)
    OBVIOUS
  <2>3. iter[1..k] = Merged(iter[1..(k - 1)], seq[k])
    BY <1>4, <2>1, <2>2
  <2>4. acc[k] = iter[1..k] /\ acc[k - 1] = iter[1..(k - 1)]
    OBVIOUS
  <2> QED
    BY <2>3, <2>4
<1>8. MergedInOrder(s, seq) = acc[n]
  BY <1>5
<1> HIDE DEF acc
<1> QED
  BY <1>6, <1>7, <1>8

NotAfter(rank, n, i) ==
    {k \in 1..n : \/ rank[k] < rank[i]
                  \/ rank[k] = rank[i] /\ k <= i}

\* Counting the elements that come before each of n in a stable sort gives every
\* place from 1 to n.
LEMMA EveryPlaceTaken ==
    ASSUME NEW n \in Nat, NEW rank \in [1..n -> Int]
    PROVE  \A m \in 1..n : \E i \in 1..n : Cardinality(NotAfter(rank, n, i)) = m
<1> USE DEF NotAfter
<1> DEFINE before == [i \in 1..n |-> NotAfter(rank, n, i)]
           place == [i \in 1..n |-> Cardinality(before[i])]
<1>1. \A i \in 1..n : /\ IsFiniteSet(before[i]) /\ i \in before[i]
                      /\ Cardinality(before[i]) \in 1..n
  <2> TAKE i \in 1..n
  <2>1. before[i] \subseteq 1..n /\ i \in before[i]
    OBVIOUS
  <2>2. IsFiniteSet(1..n) /\ Cardinality(1..n) = n
    BY FS_Interval
  <2>3. IsFiniteSet(before[i]) /\ Cardinality(before[i]) <= n
    BY <2>1, <2>2, FS_Subset
  <2>4. Cardinality(before[i]) \in Nat /\ Cardinality(before[i]) # 0
    BY <2>1, <2>3, FS_CardinalityType, FS_EmptySet
  <2> QED
    BY <2>1, <2>3, <2>4
<1>2. \A i, j \in 1..n : i # j => Cardinality(before[i]) # Cardinality(before[j])
  <2> SUFFICES ASSUME NEW i \in 1..n, NEW j \in 1..n, i # j,
                      rank[i] < rank[j] \/ (rank[i] = rank[j] /\ i < j)
               PROVE  Cardinality(before[i]) # Cardinality(before[j])
    <3>1. \A i, j \in 1..n : i # j => \/ rank[i] < rank[j] \/ (rank[i] = rank[j] /\ i < j)
                                      \/ rank[j] < rank[i] \/ (rank[j] = rank[i] /\ j < i)
      OBVIOUS
    <3> QED
      BY <3>1
  <2>1. before[i] \subseteq before[j]
    OBVIOUS
  <2>2. j \notin before[i] /\ j \in before[j]
    OBVIOUS
  <2> QED
    BY <1>1, <2>1, <2>2, FS_Subset
<1>3. place \in Injection(1..n, 1..n)
  BY <1>1, <1>2 DEF Injection, IsInjective
<1>4. place \in Surjection(1..n, 1..n)
  BY <1>3, FS_Injection, FS_Interval
<1> QED
  BY <1>4 DEF Surjection

\* Sorting reports gives as many reports, all of them reports there were.
LEMMA SortedFrom ==
    ASSUME NEW S, NEW reports \in Seq(S)
    PROVE  /\ sorted_reports(reports) \in Seq(S)
           /\ Len(sorted_reports(reports)) = Len(reports)
<1> DEFINE n == Len(reports)
           rank(r) == CASE r.reviewer_key = "reviewer1" -> 0
                     [] r.reviewer_key = "reviewer2" -> 1
                     [] r.reviewer_key = "reviewer3" -> 2
                     [] r.reviewer_key = "devils_advocate" -> 3
                     [] OTHER -> 99
           place(i) == Cardinality({k \in DOMAIN reports :
                           \/ rank(reports[k]) < rank(reports[i])
                           \/ rank(reports[k]) = rank(reports[i]) /\ k <= i})
           ranks == [i \in 1..n |-> rank(reports[i])]
<1>1. n \in Nat /\ DOMAIN reports = 1..n
  OBVIOUS
<1>2. ranks \in [1..n -> Int]
  OBVIOUS
<1>3. \A m \in 1..n : \E i \in 1..n : Cardinality(NotAfter(ranks, n, i)) = m
  <2> HIDE DEF ranks, n
  <2> QED
    BY <1>1, <1>2, EveryPlaceTaken
<1>4. \A i \in 1..n : place(i) = Cardinality(NotAfter(ranks, n, i))
  <2> TAKE i \in 1..n
  <2> DEFINE P == {k \in DOMAIN reports :
                     \/ rank(reports[k]) < rank(reports[i])
                     \/ rank(reports[k]) = rank(reports[i]) /\ k <= i}
  <2>1. \A k \in 1..n : ranks[k] = rank(reports[k]) /\ rank(reports[k]) \in Int
    OBVIOUS
  <2> HIDE DEF rank
  <2>3. place(i) = Cardinality(P)
    OBVIOUS
  <2> HIDE DEF ranks, n, place
  <2>2. P = NotAfter(ranks, n, i)
    BY <1>1, <2>1, SMTT(30) DEF NotAfter
  <2> HIDE DEF P
  <2> QED
    BY <2>2, <2>3
<1>5. sorted_reports(reports)
         = [m \in DOMAIN reports |-> reports[CHOOSE i \in DOMAIN reports : place(i) = m]]
  BY DEF sorted_reports, Sorted
<1> HIDE DEF place, ranks
<1>6. \A m \in DOMAIN reports : (CHOOSE i \in DOMAIN reports : place(i) = m) \in DOMAIN reports
  BY <1>1, <1>3, <1>4
<1>7. \A m \in DOMAIN reports :
          reports[CHOOSE i \in DOMAIN reports : place(i) = m] \in S
  <2> TAKE m \in DOMAIN reports
  <2> DEFINE i == CHOOSE i \in DOMAIN reports : place(i) = m
  <2>1. i \in DOMAIN reports
    BY <1>6
  <2> HIDE DEF i
  <2>2. reports[i] \in S
    BY <2>1
  <2> QED
    BY <2>2 DEF i
<1> DEFINE chosen(m) == reports[CHOOSE i \in DOMAIN reports : place(i) = m]
<1>8. sorted_reports(reports) \in [1..n -> S]
  <2>1. sorted_reports(reports) = [m \in DOMAIN reports |-> chosen(m)]
    BY <1>5
  <2>2. \A m \in DOMAIN reports : chosen(m) \in S
    BY <1>7
  <2> HIDE DEF chosen
  <2> QED
    BY <1>1, <2>1, <2>2
<1> QED
  BY <1>1, <1>8

\* Sorted reports are reports.
LEMMA SortedTyped ==
    ASSUME NEW reports \in Seq(Report)
    PROVE  /\ sorted_reports(reports) \in Seq(Report)
           /\ Len(sorted_reports(reports)) = Len(reports)
BY SortedFrom

\* The sequences of a sequence are put one after the other.
LEMMA FlattenSteps ==
    ASSUME NEW S, NEW seqs \in Seq(Seq(S))
    PROVE  \E f : /\ f \in [0..Len(seqs) -> Seq(S)] /\ f[0] = << >>
                  /\ \A k \in 1..Len(seqs) : f[k] = f[k - 1] \o seqs[k]
                  /\ FlattenSeq(seqs) = f[Len(seqs)]
<1> DEFINE n == Len(seqs)
           Flat(m, f) == /\ f \in [0..m -> Seq(S)] /\ f[0] = << >>
                         /\ \A k \in 1..m : f[k] = f[k - 1] \o seqs[k]
           T == {m \in Nat : m <= n => \E f : Flat(m, f)}
<1>0. \A m : m \in T <=> m \in Nat /\ (m <= n => \E f : Flat(m, f))
  <2> HIDE DEF Flat
  <2> QED
    OBVIOUS
<1>n. n \in Nat /\ DOMAIN seqs = 1..n /\ \A k \in 1..n : seqs[k] \in Seq(S)
  OBVIOUS
<1> HIDE DEF T, n
<1>1. 0 \in T
  <2>1. Flat(0, [i \in 0..0 |-> << >>])
    <3>1. << >> \in Seq(S)
      OBVIOUS
    <3> QED
      BY <3>1
  <2> HIDE DEF Flat
  <2> QED
    BY <1>0, <2>1
<1>2. \A m \in T : m + 1 \in T
  <2> SUFFICES ASSUME NEW m \in T, m \in Nat, m + 1 <= n PROVE \E g : Flat(m + 1, g)
    <3> HIDE DEF Flat
    <3> QED
      BY <1>0
  <2>1. PICK f : Flat(m, f)
    <3> HIDE DEF Flat
    <3>1. m \in Nat /\ m <= n
      BY <1>0, <1>n
    <3> QED
      BY <1>0, <3>1
  <2> DEFINE last == f[m] \o seqs[m + 1]
             g == [k \in 0..(m + 1) |-> IF k = m + 1 THEN last ELSE f[k]]
  <2>2. f[m] \in Seq(S) /\ seqs[m + 1] \in Seq(S)
    BY <1>n, <2>1
  <2>3. last \in Seq(S)
    BY <2>2
  <2> HIDE DEF last
  <2>4. g \in [0..(m + 1) -> Seq(S)] /\ g[0] = << >>
    BY <2>1, <2>3
  <2>5. ASSUME NEW k \in 1..(m + 1) PROVE g[k] = g[k - 1] \o seqs[k]
    <3>1. k - 1 \in 0..m /\ k - 1 # m + 1 /\ k \in 0..(m + 1) /\ k - 1 \in 0..(m + 1)
      OBVIOUS
    <3>2. g[k - 1] = f[k - 1]
      BY <3>1
    <3>3. CASE k = m + 1
      <4>1. k - 1 = m /\ g[k] = last
        BY <3>1, <3>3
      <4> HIDE DEF g
      <4> QED
        BY <3>2, <3>3, <4>1 DEF last
    <3>4. CASE k # m + 1
      <4>1. k \in 1..m /\ g[k] = f[k]
        BY <3>1, <3>4
      <4> HIDE DEF g
      <4> QED
        BY <2>1, <3>2, <4>1
    <3> QED
      BY <3>3, <3>4
  <2> HIDE DEF g
  <2> QED
    BY <2>4, <2>5
<1>3. T = Nat
  <2>1. T \subseteq Nat
    BY <1>0
  <2> QED
    BY <1>1, <1>2, <2>1, SetInduction
<1>4. PICK f : Flat(n, f)
  <2>1. n \in T /\ n <= n
    BY <1>n, <1>3
  <2> HIDE DEF Flat
  <2> QED
    BY <1>0, <2>1
<1> SUFFICES FlattenSeq(seqs) = f[n]
  BY <1>4 DEF n
<1>5. CASE n = 0
  BY <1>4, <1>5 DEF FlattenSeq, n
<1>6. CASE n # 0
  <2> DEFINE flatten == CHOOSE flatten : flatten = [i \in 1..Len(seqs) |->
                            IF i = 1 THEN seqs[i] ELSE flatten[i-1] \o seqs[i]]
             g == [i \in 1..n |-> f[i]]
  <2>1. g = [i \in 1..Len(seqs) |-> IF i = 1 THEN seqs[i] ELSE g[i-1] \o seqs[i]]
    <3>1. ASSUME NEW i \in 1..n PROVE g[i] = IF i = 1 THEN seqs[i] ELSE g[i-1] \o seqs[i]
      <4>1. f[i] = f[i - 1] \o seqs[i]
        BY <1>4
      <4>2. CASE i = 1
        <5>1. f[0] = << >> /\ seqs[i] \in Seq(S) /\ i - 1 = 0
          BY <1>4, <1>n, <4>2
        <5>2. << >> \o seqs[i] = seqs[i]
          BY <5>1
        <5>3. g[i] = f[i]
          OBVIOUS
        <5> HIDE DEF g
        <5> QED
          BY <4>1, <4>2, <5>1, <5>2, <5>3
      <4>3. CASE i # 1
        <5>1. i - 1 \in 1..n
          BY <1>n, <4>3
        <5> QED
          BY <4>1, <4>3, <5>1
      <4> QED
        BY <4>2, <4>3
    <3> QED
      BY <3>1 DEF n
  <2>2. flatten = [i \in 1..Len(seqs) |-> IF i = 1 THEN seqs[i] ELSE flatten[i-1] \o seqs[i]]
    BY <2>1
  <2>3. FlattenSeq(seqs) = flatten[n]
    BY <1>6 DEF FlattenSeq, n
  <2> HIDE DEF flatten
  <2> DEFINE U == {m \in Nat : m + 1 <= n => flatten[m + 1] = f[m + 1]}
  <2>4. 0 \in U
    <3>1. 1 \in 1..n /\ 1 - 1 = 0
      BY <1>n, <1>6
    <3>2. flatten[1] = seqs[1] /\ f[1] = f[0] \o seqs[1] /\ f[0] = << >>
      BY <1>4, <2>2, <3>1 DEF n
    <3>3. << >> \o seqs[1] = seqs[1]
      BY <1>n, <3>1
    <3> QED
      BY <3>2, <3>3
  <2>5. \A m \in U : m + 1 \in U
    <3> SUFFICES ASSUME NEW m \in U, m + 2 <= n PROVE flatten[m + 2] = f[m + 2]
      BY <1>n
    <3>1. m + 2 \in 1..n /\ m + 2 # 1 /\ (m + 2) - 1 = m + 1 /\ m + 1 <= n
      BY <1>n
    <3>2. flatten[m + 2] = flatten[m + 1] \o seqs[m + 2]
      BY <2>2, <3>1 DEF n
    <3>3. f[m + 2] = f[m + 1] \o seqs[m + 2]
      BY <1>4, <3>1
    <3> QED
      BY <3>1, <3>2, <3>3
  <2>6. U = Nat
    <3> HIDE DEF U
    <3>1. U \subseteq Nat
      BY DEF U
    <3> QED
      BY <2>4, <2>5, <3>1, SetInduction
  <2>7. n - 1 \in Nat /\ (n - 1) + 1 = n
    BY <1>6, <1>n
  <2> QED
    BY <2>3, <2>6, <2>7
<1> QED
  BY <1>5, <1>6

\* What is put together step by step, one element a step, is the sequence of the elements.
LEMMA OneByOne ==
    \A n \in Nat : \A v, f :
        f[0] = << >> /\ (\A k \in 1..n : f[k] = f[k - 1] \o <<v[k]>>)
            => f[n] = [k \in 1..n |-> v[k]]
<1> TAKE n \in Nat
<1> TAKE v, f
<1> HAVE f[0] = << >> /\ (\A k \in 1..n : f[k] = f[k - 1] \o <<v[k]>>)
<1> DEFINE Put(m) == m <= n => f[m] = [k \in 1..m |-> v[k]]
           T == {m \in Nat : Put(m)}
<1>1. 0 \in T
  <2>1. [k \in 1..0 |-> v[k]] = << >>
    OBVIOUS
  <2> QED
    BY <2>1
<1>2. \A m \in T : m + 1 \in T
  <2> SUFFICES ASSUME NEW m \in Nat, m + 1 <= n, f[m] = [k \in 1..m |-> v[k]]
               PROVE  f[m + 1] = [k \in 1..(m + 1) |-> v[k]]
    OBVIOUS
  <2>1. f[m + 1] = f[m] \o <<v[m + 1]>>
    <3>1. m + 1 \in 1..n /\ (m + 1) - 1 = m
      OBVIOUS
    <3> QED
      BY <3>1
  <2>2. [k \in 1..m |-> v[k]] \o <<v[m + 1]>> = [k \in 1..(m + 1) |-> v[k]]
    OBVIOUS
  <2> QED
    BY <2>1, <2>2
<1>3. T = Nat
  <2>1. T \subseteq Nat
    OBVIOUS
  <2> HIDE DEF T
  <2> QED
    BY <1>1, <1>2, <2>1, SetInduction
<1>4. Put(n)
  <2> HIDE DEF Put
  <2> QED
    BY <1>3
<1> QED
  BY <1>4

\* Flattening what is joined joins what is flat.
LEMMA FlattenJoined ==
    ASSUME NEW S, NEW s \in Seq(Seq(S)), NEW t \in Seq(Seq(S))
    PROVE  FlattenSeq(s \o t) = FlattenSeq(s) \o FlattenSeq(t)
<1> DEFINE m == Len(s)
           n == Len(t)
<1>n. m \in Nat /\ n \in Nat
  OBVIOUS
<1>0. /\ s \o t \in Seq(Seq(S)) /\ Len(s \o t) = m + n
      /\ \A k \in 1..m : (s \o t)[k] = s[k]
      /\ \A k \in 1..n : (s \o t)[m + k] = t[k] /\ t[k] \in Seq(S)
  OBVIOUS
<1>1. PICK f : /\ f \in [0..m -> Seq(S)] /\ f[0] = << >>
               /\ \A k \in 1..m : f[k] = f[k - 1] \o s[k]
               /\ FlattenSeq(s) = f[m]
  BY FlattenSteps
<1>2. PICK g : /\ g \in [0..n -> Seq(S)] /\ g[0] = << >>
               /\ \A k \in 1..n : g[k] = g[k - 1] \o t[k]
               /\ FlattenSeq(t) = g[n]
  BY FlattenSteps
<1> DEFINE st == s \o t
<1>3. PICK h : /\ h[0] = << >>
               /\ \A k \in 1..(m + n) : h[k] = h[k - 1] \o st[k]
               /\ FlattenSeq(st) = h[m + n]
  <2>1. st \in Seq(Seq(S)) /\ Len(st) = m + n
    BY <1>0
  <2> HIDE DEF st, m, n
  <2>2. \E h : /\ h \in [0..Len(st) -> Seq(S)] /\ h[0] = << >>
               /\ \A k \in 1..Len(st) : h[k] = h[k - 1] \o st[k]
               /\ FlattenSeq(st) = h[Len(st)]
    BY <2>1, FlattenSteps
  <2> QED
    BY <2>1, <2>2
<1>4. /\ \A k \in 1..m : st[k] = s[k]
      /\ \A k \in 1..n : st[m + k] = t[k] /\ t[k] \in Seq(S)
  BY <1>0
<1> HIDE DEF st, m, n
<1> DEFINE P(k) == k <= m => h[k] = f[k]
           Q(k) == k <= n => h[m + k] = f[m] \o g[k]
           T == {k \in Nat : P(k)}
           U == {k \in Nat : Q(k)}
<1>5. T = Nat
  <2>1. P(0)
    BY <1>1, <1>3
  <2>2. ASSUME NEW k \in Nat, P(k) PROVE P(k + 1)
    <3> SUFFICES ASSUME k + 1 <= m PROVE h[k + 1] = f[k + 1]
      OBVIOUS
    <3>1. k + 1 \in 1..m /\ k + 1 \in 1..(m + n) /\ (k + 1) - 1 = k /\ k <= m
      BY <1>n
    <3>2. h[k] = f[k]
      BY <2>2, <3>1
    <3> QED
      BY <1>1, <1>3, <1>4, <3>1, <3>2
  <2> HIDE DEF P
  <2>3. 0 \in T /\ \A k \in T : k + 1 \in T
    BY <2>1, <2>2
  <2>4. T \subseteq Nat
    OBVIOUS
  <2> HIDE DEF T
  <2> QED
    BY <2>3, <2>4, SetInduction
<1>6. h[m] = f[m] /\ f[m] \in Seq(S)
  <2>1. P(m)
    <3> HIDE DEF P
    <3> QED
      BY <1>n, <1>5
  <2> QED
    BY <1>n, <1>1, <2>1
<1>7. U = Nat
  <2>1. Q(0)
    <3>1. f[m] \o << >> = f[m] /\ m + 0 = m
      BY <1>n, <1>6
    <3> QED
      BY <1>2, <1>6, <3>1
  <2>2. ASSUME NEW k \in Nat, Q(k) PROVE Q(k + 1)
    <3> SUFFICES ASSUME k + 1 <= n PROVE h[m + (k + 1)] = f[m] \o g[k + 1]
      OBVIOUS
    <3>1. k + 1 \in 1..n /\ m + (k + 1) \in 1..(m + n) /\ (m + (k + 1)) - 1 = m + k
          /\ (k + 1) - 1 = k /\ k \in 0..n /\ k <= n
      BY <1>n
    <3>2. h[m + (k + 1)] = (f[m] \o g[k]) \o t[k + 1]
      <4>1. h[m + k] = f[m] \o g[k]
        BY <2>2, <3>1
      <4> DEFINE j == m + (k + 1)
      <4>2. j \in 1..(m + n) /\ j - 1 = m + k
        BY <3>1
      <4>3. h[j] = h[j - 1] \o st[j]
        <5> HIDE DEF j
        <5> QED
          BY <1>3, <4>2
      <4>4. st[m + (k + 1)] = t[k + 1]
        BY <1>4, <3>1
      <4> QED
        BY <4>1, <4>2, <4>3, <4>4
    <3>3. g[k + 1] = g[k] \o t[k + 1]
      BY <1>2, <3>1
    <3>4. g[k] \in Seq(S) /\ t[k + 1] \in Seq(S)
      BY <1>2, <1>4, <3>1
    <3>5. (f[m] \o g[k]) \o t[k + 1] = f[m] \o (g[k] \o t[k + 1])
      <4> DEFINE a == f[m]  b == g[k]  c == t[k + 1]
      <4>1. a \in Seq(S) /\ b \in Seq(S) /\ c \in Seq(S)
        BY <1>6, <3>4
      <4> HIDE DEF a, b, c
      <4>2. (a \o b) \o c = a \o (b \o c)
        BY <4>1
      <4> QED
        BY <4>2 DEF a, b, c
    <3> QED
      BY <3>2, <3>3, <3>5
  <2> HIDE DEF Q
  <2>3. 0 \in U /\ \A k \in U : k + 1 \in U
    BY <2>1, <2>2
  <2>4. U \subseteq Nat
    OBVIOUS
  <2> HIDE DEF U
  <2> QED
    BY <2>3, <2>4, SetInduction
<1>8. h[m + n] = f[m] \o g[n]
  <2>1. Q(n)
    <3> HIDE DEF Q
    <3> QED
      BY <1>n, <1>7
  <2>2. n <= n
    BY <1>n
  <2> QED
    BY <2>1, <2>2
<1> QED
  BY <1>1, <1>2, <1>3, <1>8 DEF st

-----------------------------------------------------------------------------
(* Reports to read: what a part is, and whose words it has.                *)

\* The reports whose parts have these titles, and those of them where the parts
\* of one title have the words of these.
PartsOf(titles) == Seq([title : titles, of : Voices])
Saying(title, words, titles) == {report \in PartsOf(titles) : Whose(report, title) = words}

Chosen(report, title) ==
    [i \in DOMAIN report |-> IF report[i].title = title THEN <<report[i].of>> ELSE << >>]

\* The parts of a report have titles and voices.
LEMMA PartsTyped ==
    ASSUME NEW titles, NEW report \in PartsOf(titles)
    PROVE  /\ Len(report) \in Nat /\ DOMAIN report = 1..Len(report)
           /\ \A i \in 1..Len(report) : report[i].title \in titles /\ report[i].of \in Voices
<1> DEFINE P == [title : titles, of : Voices]
<1>1. report \in Seq(P) /\ \A p \in P : p.title \in titles /\ p.of \in Voices
  BY DEF PartsOf
<1> HIDE DEF P
<1>2. \A i \in 1..Len(report) : report[i] \in P
  BY <1>1
<1> QED
  BY <1>1, <1>2

\* What is chosen of a report is a sequence of voices.
LEMMA ChosenTyped ==
    ASSUME NEW titles, NEW report \in PartsOf(titles), NEW title
    PROVE  /\ Chosen(report, title) \in Seq(Seq(Voices))
           /\ Len(Chosen(report, title)) = Len(report)
           /\ Whose(report, title) = FlattenSeq(Chosen(report, title))
<1>1. Len(report) \in Nat /\ DOMAIN report = 1..Len(report)
  BY DEF PartsOf
<1>2. \A i \in 1..Len(report) :
         (IF report[i].title = title THEN <<report[i].of>> ELSE << >>) \in Seq(Voices)
  <2> SUFFICES ASSUME NEW i \in 1..Len(report)
               PROVE  <<report[i].of>> \in Seq(Voices) /\ << >> \in Seq(Voices)
    OBVIOUS
  <2>1. report[i].of \in Voices
    BY PartsTyped
  <2> QED
    BY <2>1
<1>3. Chosen(report, title) \in [1..Len(report) -> Seq(Voices)]
  BY <1>1, <1>2 DEF Chosen
<1>4. Whose(report, title) = FlattenSeq(Chosen(report, title))
  BY DEF Whose, Chosen
<1> QED
  BY <1>1, <1>3, <1>4

\* A report says what its two halves say.
LEMMA WhoseJoined ==
    ASSUME NEW titles, NEW p \in PartsOf(titles), NEW q \in PartsOf(titles), NEW title
    PROVE  /\ p \o q \in PartsOf(titles)
           /\ Whose(p \o q, title) = Whose(p, title) \o Whose(q, title)
<1> DEFINE a == Chosen(p, title)
           b == Chosen(q, title)
           pq == p \o q
<1>1. pq \in PartsOf(titles)
  BY DEF PartsOf
<1>2. /\ Len(p) \in Nat /\ DOMAIN p = 1..Len(p) /\ Len(q) \in Nat /\ DOMAIN q = 1..Len(q)
      /\ DOMAIN pq = 1..(Len(p) + Len(q))
      /\ \A i \in DOMAIN pq : pq[i] = IF i <= Len(p) THEN p[i] ELSE q[i - Len(p)]
  BY DEF PartsOf
<1>3. /\ a \in Seq(Seq(Voices)) /\ Len(a) = Len(p) /\ Whose(p, title) = FlattenSeq(a)
      /\ b \in Seq(Seq(Voices)) /\ Len(b) = Len(q) /\ Whose(q, title) = FlattenSeq(b)
  BY ChosenTyped
<1>4. /\ DOMAIN a = 1..Len(p) /\ DOMAIN b = 1..Len(q)
      /\ \A i \in 1..Len(p) : a[i] = IF p[i].title = title THEN <<p[i].of>> ELSE << >>
      /\ \A i \in 1..Len(q) : b[i] = IF q[i].title = title THEN <<q[i].of>> ELSE << >>
  BY <1>2 DEF Chosen
<1>5. Whose(pq, title) = FlattenSeq(Chosen(pq, title))
  BY DEF Whose, Chosen
<1>6. Chosen(pq, title) = a \o b
  <2> HIDE DEF a, b, pq
  <2>1. DOMAIN (a \o b) = 1..(Len(p) + Len(q))
        /\ \A i \in 1..(Len(p) + Len(q)) :
              (a \o b)[i] = IF i <= Len(p) THEN a[i] ELSE b[i - Len(p)]
    <3> DEFINE V == Seq(Voices)
    <3>1. a \in Seq(V) /\ b \in Seq(V)
      BY <1>3
    <3> HIDE DEF V
    <3>2. /\ DOMAIN (a \o b) = 1..(Len(a) + Len(b))
          /\ \A i \in 1..(Len(a) + Len(b)) :
                (a \o b)[i] = IF i <= Len(a) THEN a[i] ELSE b[i - Len(a)]
      BY <3>1
    <3>3. Len(a) = Len(p) /\ Len(b) = Len(q)
      BY <1>3
    <3> QED
      BY <3>2, <3>3
  <2>2. ASSUME NEW i \in 1..(Len(p) + Len(q))
        PROVE  (a \o b)[i] = IF pq[i].title = title THEN <<pq[i].of>> ELSE << >>
    <3>1. CASE i <= Len(p)
      <4>1. i \in 1..Len(p)
        BY <1>2, <3>1
      <4> QED
        BY <1>2, <1>4, <2>1, <3>1, <4>1
    <3>2. CASE ~(i <= Len(p))
      <4>1. i - Len(p) \in 1..Len(q)
        BY <1>2, <3>2
      <4>2. pq[i] = q[i - Len(p)] /\ (a \o b)[i] = b[i - Len(p)]
        BY <1>2, <2>1, <3>2
      <4> QED
        BY <1>4, <4>1, <4>2
    <3> QED
      BY <3>1, <3>2
  <2>3. a \o b = [i \in 1..(Len(p) + Len(q)) |-> (a \o b)[i]]
    <3> DEFINE V == Seq(Voices)
    <3>1. a \in Seq(V) /\ b \in Seq(V)
      BY <1>3
    <3> HIDE DEF V
    <3> DEFINE ab == a \o b
    <3>2. ab \in Seq(V)
      BY <3>1
    <3> HIDE DEF ab
    <3>3. ab = [i \in DOMAIN ab |-> ab[i]]
      BY <3>2
    <3> QED
      BY <2>1, <3>3 DEF ab
  <2> QED
    BY <1>2, <2>2, <2>3 DEF Chosen
<1>7. FlattenSeq(a \o b) = FlattenSeq(a) \o FlattenSeq(b)
  <2> HIDE DEF a, b
  <2> QED
    BY <1>3, FlattenJoined
<1> QED
  BY <1>1, <1>3, <1>5, <1>6, <1>7 DEF pq

\* What is said is voices.
LEMMA WhoseTyped ==
    ASSUME NEW titles, NEW report \in PartsOf(titles), NEW title
    PROVE  Whose(report, title) \in Seq(Voices)
<1> DEFINE c == Chosen(report, title)
<1>1. c \in Seq(Seq(Voices)) /\ Whose(report, title) = FlattenSeq(c)
  BY ChosenTyped
<1> HIDE DEF c
<1>2. PICK f : f \in [0..Len(c) -> Seq(Voices)] /\ FlattenSeq(c) = f[Len(c)]
  BY <1>1, FlattenSteps
<1>3. Len(c) \in 0..Len(c)
  BY <1>1
<1> QED
  BY <1>1, <1>2, <1>3

\* One part speaks for itself.
LEMMA PartSays ==
    ASSUME NEW titles, NEW t \in titles, NEW of \in Voices, NEW title
    PROVE  <<Part(t, of)>> \in Saying(title, IF t = title THEN <<of>> ELSE << >>, titles)
<1> DEFINE part == Part(t, of)
           report == <<part>>
           said == IF t = title THEN <<of>> ELSE << >>
<1>1. part \in [title : titles, of : Voices] /\ part.title = t /\ part.of = of
  BY DEF Part
<1> HIDE DEF part
<1>2. report \in PartsOf(titles)
  BY <1>1 DEF PartsOf
<1>3. DOMAIN report = {1} /\ report[1] = part
  OBVIOUS
<1>4. said \in Seq(Voices)
  OBVIOUS
<1> HIDE DEF said, report
<1>5. Chosen(report, title) = [i \in {1} |-> said]
  BY <1>1, <1>3 DEF Chosen, said
<1> DEFINE c == Chosen(report, title)
<1>6. c \in Seq(Seq(Voices)) /\ Len(c) = 1 /\ c[1] = said
  <2>1. c = <<said>>
    BY <1>5
  <2> HIDE DEF c
  <2> QED
    BY <1>4, <2>1
<1>7. Whose(report, title) = FlattenSeq(c)
  BY <1>2, ChosenTyped
<1> HIDE DEF c
<1>8. PICK f : f[0] = << >> /\ f[1] = f[0] \o c[1] /\ FlattenSeq(c) = f[1]
  <2>1. PICK f : /\ f[0] = << >> /\ \A k \in 1..Len(c) : f[k] = f[k - 1] \o c[k]
                 /\ FlattenSeq(c) = f[Len(c)]
    BY <1>6, FlattenSteps
  <2>2. 1 \in 1..1 /\ 1 - 1 = 0
    OBVIOUS
  <2> QED
    BY <1>6, <2>1, <2>2
<1>9. << >> \o said = said
  BY <1>4
<1>10. Whose(report, title) = said
  BY <1>6, <1>7, <1>8, <1>9
<1>11. report \in Saying(title, said, titles)
  BY <1>2, <1>10 DEF Saying
<1> QED
  BY <1>11 DEF report, said, part

\* Nothing says nothing.
LEMMA NothingSays ==
    ASSUME NEW titles, NEW title PROVE << >> \in Saying(title, << >>, titles)
<1> DEFINE none == << >>
<1>1. none \in PartsOf(titles) /\ DOMAIN none = {}
  BY DEF PartsOf
<1>2. Chosen(none, title) = << >>
  BY <1>1 DEF Chosen
<1>3. FlattenSeq(<< >>) = << >>
  BY DEF FlattenSeq
<1>4. Whose(none, title) = << >>
  BY <1>1, <1>2, <1>3, ChosenTyped
<1> QED
  BY <1>1, <1>4 DEF Saying

\* A report without a part of the title says nothing under it.
LEMMA OthersSayNothing ==
    ASSUME NEW titles, NEW title, title \notin titles, NEW report \in PartsOf(titles)
    PROVE  report \in Saying(title, << >>, titles)
<1> DEFINE c == Chosen(report, title)
           n == Len(report)
<1>1. c \in Seq(Seq(Voices)) /\ Len(c) = n /\ Whose(report, title) = FlattenSeq(c)
  BY ChosenTyped
<1>2. n \in Nat /\ DOMAIN report = 1..n /\ \A i \in 1..n : report[i].title \in titles
  BY PartsTyped
<1>3. \A k \in 1..n : c[k] = << >>
  BY <1>2 DEF Chosen
<1> HIDE DEF c, n
<1>4. PICK f : /\ f[0] = << >> /\ \A k \in 1..n : f[k] = f[k - 1] \o c[k]
               /\ FlattenSeq(c) = f[n]
  <2>1. \E f : /\ f[0] = << >> /\ \A k \in 1..Len(c) : f[k] = f[k - 1] \o c[k]
               /\ FlattenSeq(c) = f[Len(c)]
    BY <1>1, FlattenSteps
  <2> QED
    BY <1>1, <2>1
<1> DEFINE P(k) == k <= n => f[k] = << >>
           T == {k \in Nat : P(k)}
<1>5. T = Nat
  <2>1. P(0)
    BY <1>4
  <2>2. ASSUME NEW k \in Nat, P(k) PROVE P(k + 1)
    <3> SUFFICES ASSUME k + 1 <= n PROVE f[k + 1] = << >>
      OBVIOUS
    <3>1. k + 1 \in 1..n /\ (k + 1) - 1 = k /\ k <= n
      BY <1>2
    <3>2. f[k + 1] = f[k] \o c[k + 1] /\ f[k] = << >> /\ c[k + 1] = << >>
      BY <1>3, <1>4, <2>2, <3>1
    <3>3. << >> \o << >> = << >>
      OBVIOUS
    <3> QED
      BY <3>2, <3>3
  <2> HIDE DEF P
  <2>3. 0 \in T /\ \A k \in T : k + 1 \in T
    BY <2>1, <2>2
  <2>4. T \subseteq Nat
    OBVIOUS
  <2> HIDE DEF T
  <2> QED
    BY <2>3, <2>4, SetInduction
<1>6. P(n)
  <2> HIDE DEF P
  <2> QED
    BY <1>2, <1>5
<1>7. n <= n
  BY <1>2
<1> QED
  BY <1>1, <1>4, <1>6, <1>7 DEF Saying

\* A report may be taken for one with more titles.
LEMMA MoreTitles ==
    ASSUME NEW titles, NEW more, titles \subseteq more, NEW title, NEW words,
           NEW report \in Saying(title, words, titles)
    PROVE  report \in Saying(title, words, more)
<1> DEFINE P == [title : titles, of : Voices]
           Q == [title : more, of : Voices]
<1>1. P \subseteq Q
  OBVIOUS
<1>2. report \in Seq(P) /\ Whose(report, title) = words
  BY DEF Saying, PartsOf
<1> HIDE DEF P, Q
<1>3. report \in Seq(Q)
  BY <1>1, <1>2
<1> QED
  BY <1>2, <1>3 DEF Saying, PartsOf, Q

\* What says nothing under a title may be put after or before what says something.
LEMMA JoinSays ==
    ASSUME NEW titles, NEW title, NEW words,
           NEW p \in Saying(title, words, titles), NEW q \in Saying(title, << >>, titles)
    PROVE  p \o q \in Saying(title, words, titles) /\ q \o p \in Saying(title, words, titles)
<1>1. p \in PartsOf(titles) /\ q \in PartsOf(titles)
      /\ Whose(p, title) = words /\ Whose(q, title) = << >>
  BY DEF Saying
<1>2. words \in Seq(Voices)
  BY <1>1, WhoseTyped
<1>3. words \o << >> = words /\ << >> \o words = words
  BY <1>2
<1>4. p \o q \in PartsOf(titles) /\ Whose(p \o q, title) = words \o << >>
  <2>0. p \in PartsOf(titles) /\ q \in PartsOf(titles)
    BY <1>1
  <2>1. p \o q \in PartsOf(titles) /\ Whose(p \o q, title) = Whose(p, title) \o Whose(q, title)
    BY <2>0, WhoseJoined
  <2> QED
    BY <1>1, <2>1
<1>5. q \o p \in PartsOf(titles) /\ Whose(q \o p, title) = << >> \o words
  <2>0. p \in PartsOf(titles) /\ q \in PartsOf(titles)
    BY <1>1
  <2>1. q \o p \in PartsOf(titles) /\ Whose(q \o p, title) = Whose(q, title) \o Whose(p, title)
    BY <2>0, WhoseJoined
  <2> QED
    BY <1>1, <2>1
<1> QED
  BY <1>3, <1>4, <1>5 DEF Saying

\* What is left out under a condition says nothing if it said nothing.
LEMMA WhenSays ==
    ASSUME NEW titles, NEW title, NEW condition, NEW parts \in Saying(title, << >>, titles)
    PROVE  When(condition, parts) \in Saying(title, << >>, titles)
BY NothingSays DEF When

\* So does what is given under another key.
LEMMA GivenSays ==
    ASSUME NEW titles, NEW title, NEW key \in titles, key # title, NEW value, NEW of \in Voices
    PROVE  Given(key, value, of) \in Saying(title, << >>, titles)
<1>1. <<Part(key, of)>> \in Saying(title, << >>, titles)
  BY PartSays
<1> QED
  BY <1>1, WhenSays DEF Given

\* What stands first stays first, and what is said somewhere stays said.
LEMMA FirstJoined ==
    ASSUME NEW titles, NEW p \in PartsOf(titles), NEW q \in PartsOf(titles)
    PROVE  /\ p # << >> => p \o q # << >> /\ (p \o q)[1] = p[1]
           /\ ToSet(p \o q) = ToSet(p) \cup ToSet(q)
<1>1. /\ Len(p) \in Nat /\ DOMAIN p = 1..Len(p) /\ Len(q) \in Nat /\ DOMAIN q = 1..Len(q)
      /\ DOMAIN (p \o q) = 1..(Len(p) + Len(q))
      /\ \A i \in 1..Len(p) : (p \o q)[i] = p[i]
      /\ \A i \in 1..Len(q) : (p \o q)[Len(p) + i] = q[i]
  BY DEF PartsOf
<1>2. p # << >> => 1 \in 1..Len(p)
  BY <1>1 DEF PartsOf
<1>3. p # << >> => p \o q # << >> /\ (p \o q)[1] = p[1]
  BY <1>1, <1>2
<1>4. ToSet(p \o q) \subseteq ToSet(p) \cup ToSet(q)
  <2> SUFFICES ASSUME NEW i \in 1..(Len(p) + Len(q))
               PROVE  \/ \E k \in 1..Len(p) : (p \o q)[i] = p[k]
                      \/ \E k \in 1..Len(q) : (p \o q)[i] = q[k]
    BY <1>1 DEF ToSet
  <2>1. CASE i \in 1..Len(p)
    BY <1>1, <2>1
  <2>2. CASE i \notin 1..Len(p)
    <3>1. i - Len(p) \in 1..Len(q) /\ Len(p) + (i - Len(p)) = i
      BY <1>1, <2>2
    <3> QED
      BY <1>1, <3>1
  <2> QED
    BY <2>1, <2>2
<1>5. ToSet(p) \cup ToSet(q) \subseteq ToSet(p \o q)
  <2>1. \A i \in 1..Len(p) : i \in 1..(Len(p) + Len(q))
    BY <1>1
  <2>2. \A i \in 1..Len(q) : Len(p) + i \in 1..(Len(p) + Len(q))
    BY <1>1
  <2> QED
    BY <1>1, <2>1, <2>2 DEF ToSet
<1> QED
  BY <1>3, <1>4, <1>5

\* The titles of the advice to the authors, of what else the associate editor merged,
\* and of a review without a remark on its form.
AdviceTitles == {"revision_checklist", "revision_roadmap", "must_fix", "should_fix", "nice_to_fix",
                 "rebuttal_strategy"}
MergedTitles == AdviceTitles \cup {"ae_final", "consensus_disagreement", "consensus", "disagreement",
                                   "da_critical_flagged"}
ReviewTitles == {"reviewer", "summary", "overall_assessment", "scores", "strengths", "major_comments",
                 "minor_comments", "questions_for_authors", "ethics_and_limitations",
                 "problem_roots", "revision_plan", "other advice", "missing_advice"}

\* The advice has no other title.
LEMMA AdviceSays ==
    ASSUME NEW ae_final, NEW title, title \notin AdviceTitles
    PROVE  /\ roadmap_lines(ae_final) \in Saying(title, << >>, AdviceTitles)
           /\ author_revision_lines(ae_final) \in Saying(title, << >>, AdviceTitles)
<1> DEFINE quiet == Saying(title, << >>, AdviceTitles)
           given(key) == Given(key, ae_final, "associate editor")
<1>1. "associate editor" \in Voices
  BY DEF Voices, Letters
<1>2. \A key \in AdviceTitles : given(key) \in quiet
  BY <1>1, GivenSays
<1>3. /\ given("revision_checklist") \in quiet /\ given("revision_roadmap") \in quiet
      /\ given("must_fix") \in quiet /\ given("should_fix") \in quiet
      /\ given("nice_to_fix") \in quiet /\ given("rebuttal_strategy") \in quiet
  BY <1>2 DEF AdviceTitles
<1>4. \A p, q \in quiet : p \o q \in quiet
  BY JoinSays
<1>5. \A condition : \A p \in quiet : When(condition, p) \in quiet
  BY WhenSays
<1> HIDE DEF given, quiet
<1> DEFINE steps == given("revision_roadmap") \o given("must_fix") \o given("should_fix")
                        \o given("nice_to_fix") \o given("rebuttal_strategy")
<1>6. steps \in quiet
  BY <1>3, <1>4
<1>7. roadmap_lines(ae_final) = When("revision_roadmap" \in ae_final, steps)
  BY DEF roadmap_lines, given
<1> HIDE DEF steps
<1>8. roadmap_lines(ae_final) \in quiet
  BY <1>5, <1>6, <1>7
<1>9. author_revision_lines(ae_final) = given("revision_checklist") \o roadmap_lines(ae_final)
  BY DEF author_revision_lines, given
<1> QED
  BY <1>3, <1>4, <1>8, <1>9 DEF quiet

\* The audit has the matrix of the associate editor if there is one.
LEMMA EditorLinesSay ==
    ASSUME NEW ae_final, NEW title, title \notin MergedTitles
    PROVE  ae_final_lines(ae_final) \in
              Saying(title,
                     IF title = "rr_traceability_matrix" /\ title \in ae_final
                     THEN <<"associate editor">> ELSE << >>,
                     MergedTitles \cup {"rr_traceability_matrix"})
<1> DEFINE titles == MergedTitles \cup {"rr_traceability_matrix"}
           words == IF title = "rr_traceability_matrix" /\ title \in ae_final
                    THEN <<"associate editor">> ELSE << >>
           quiet == Saying(title, << >>, titles)
           told == Saying(title, words, titles)
           given(key) == Given(key, ae_final, "associate editor")
           part(t) == <<Part(t, "associate editor")>>
<1>1. "associate editor" \in Voices
  BY DEF Voices, Letters
<1>2. \A key \in MergedTitles : given(key) \in quiet /\ part(key) \in quiet
  <2> SUFFICES ASSUME NEW key \in MergedTitles PROVE given(key) \in quiet /\ part(key) \in quiet
    OBVIOUS
  <2>1. key \in titles /\ key # title
    OBVIOUS
  <2> HIDE DEF titles
  <2>2. given(key) \in quiet
    BY <1>1, <2>1, GivenSays
  <2>3. part(key) \in quiet
    BY <1>1, <2>1, PartSays
  <2> QED
    BY <2>2, <2>3
<1>3. given("rr_traceability_matrix") \in told
  <2>1. "rr_traceability_matrix" \in titles
    OBVIOUS
  <2> HIDE DEF titles
  <2>2. CASE title = "rr_traceability_matrix"
    <3>1. part(title) \in Saying(title, <<"associate editor">>, titles)
      BY <1>1, <2>1, <2>2, PartSays
    <3>2. CASE title \in ae_final
      BY <2>2, <3>1, <3>2 DEF Given, When
    <3>3. CASE title \notin ae_final
      <4>1. given("rr_traceability_matrix") = << >> /\ words = << >>
        BY <2>2, <3>3 DEF Given, When
      <4> QED
        BY <4>1, NothingSays
    <3> QED
      BY <3>2, <3>3
  <2>3. CASE title # "rr_traceability_matrix"
    <3>1. given("rr_traceability_matrix") \in quiet
      BY <1>1, <2>1, <2>3, GivenSays
    <3> QED
      BY <2>3, <3>1
  <2> QED
    BY <2>2, <2>3
<1>4. /\ given("revision_checklist") \in quiet /\ given("consensus") \in quiet
      /\ given("disagreement") \in quiet /\ given("da_critical_flagged") \in quiet
      /\ part("consensus_disagreement") \in quiet /\ part("ae_final") \in quiet
  BY <1>2 DEF MergedTitles, AdviceTitles
<1>5. roadmap_lines(ae_final) \in quiet
  <2>1. title \notin AdviceTitles /\ AdviceTitles \subseteq titles
    BY DEF MergedTitles
  <2> HIDE DEF titles
  <2>2. roadmap_lines(ae_final) \in Saying(title, << >>, AdviceTitles)
    BY <2>1, AdviceSays
  <2> QED
    BY <2>1, <2>2, MoreTitles
<1>6. /\ \A p, q \in quiet : p \o q \in quiet
      /\ \A p \in told, q \in quiet : p \o q \in told /\ q \o p \in told
      /\ \A condition : \A p \in quiet : When(condition, p) \in quiet
  <2> HIDE DEF words, titles
  <2>1. \A p, q \in quiet : p \o q \in quiet
    BY JoinSays
  <2>2. \A p \in told, q \in quiet : p \o q \in told /\ q \o p \in told
    BY JoinSays
  <2>3. \A condition : \A p \in quiet : When(condition, p) \in quiet
    BY WhenSays
  <2> QED
    BY <2>1, <2>2, <2>3
<1> HIDE DEF given, part, quiet, told
<1>7. consensus_lines(ae_final) \in quiet
  <2> DEFINE said == given("consensus") \o given("disagreement") \o given("da_critical_flagged")
  <2>1. said \in quiet
    BY <1>4, <1>6
  <2>2. consensus_lines(ae_final) = When(said # << >>, part("consensus_disagreement") \o said)
    BY DEF consensus_lines, given, part
  <2> HIDE DEF said
  <2> QED
    BY <1>4, <1>6, <2>1, <2>2
<1>8. traceability_lines(ae_final) \in told
  BY <1>3 DEF traceability_lines, given
<1>9. ae_final_lines(ae_final) = part("ae_final") \o given("revision_checklist")
          \o consensus_lines(ae_final) \o traceability_lines(ae_final) \o roadmap_lines(ae_final)
  BY DEF ae_final_lines, given, part
<1>10. part("ae_final") \o given("revision_checklist") \o consensus_lines(ae_final) \in quiet
  BY <1>4, <1>6, <1>7
<1>11. ae_final_lines(ae_final) \in told
  BY <1>5, <1>6, <1>8, <1>9, <1>10
<1> QED
  BY <1>11 DEF told

\* A review says whose it is, and has a remark on its form only if it is short.
LEMMA ReviewerLinesSay ==
    ASSUME NEW report \in Report, NEW extras, NEW titles, ReviewTitles \subseteq titles,
           review_format_issues(report) => "format_check" \in titles
    PROVE  reviewer_lines(report, extras) \in Saying("reviewer", <<report.reviewer_key>>, titles)
<1> DEFINE of == report.reviewer_key
           quiet == Saying("reviewer", << >>, titles)
           told == Saying("reviewer", <<of>>, titles)
           part(title) == <<Part(title, of)>>
           given(key) == Given(key, extras, of)
           counted(title, count) == When(count > 0, part(title))
           majors == report.major_comments + (IF "weaknesses" \in extras THEN 1 ELSE 0)
           remark == When(review_format_issues(report), part("format_check"))
<1>1. of \in Voices
  BY DEF Report, Voices
<1> HIDE DEF of, majors
<1>2. /\ \A p, q \in quiet : p \o q \in quiet
      /\ \A p \in told, q \in quiet : p \o q \in told
      /\ \A condition : \A p \in quiet : When(condition, p) \in quiet
  <2>1. \A p, q \in quiet : p \o q \in quiet
    BY JoinSays
  <2>2. \A p \in told, q \in quiet : p \o q \in told
    BY JoinSays
  <2>3. \A condition : \A p \in quiet : When(condition, p) \in quiet
    BY WhenSays
  <2> QED
    BY <2>1, <2>2, <2>3
<1>3. ASSUME NEW title \in titles, title # "reviewer"
      PROVE  part(title) \in quiet /\ given(title) \in quiet
  <2>1. part(title) \in quiet
    BY <1>1, <1>3, PartSays
  <2>2. given(title) \in quiet
    BY <1>1, <1>3, GivenSays
  <2> QED
    BY <2>1, <2>2
<1>4. part("reviewer") \in told
  <2>1. "reviewer" \in titles
    BY DEF ReviewTitles
  <2> QED
    BY <1>1, <2>1, PartSays
<1>5. remark \in quiet
  <2>1. CASE review_format_issues(report)
    <3>1. part("format_check") \in quiet
      BY <1>3, <2>1
    <3> HIDE DEF part, quiet
    <3> QED
      BY <1>2, <3>1
  <2>2. CASE ~review_format_issues(report)
    BY <2>2, NothingSays DEF When
  <2> QED
    BY <2>1, <2>2
<1> HIDE DEF quiet, told, given, remark
<1>6. /\ part("summary") \in quiet /\ given("overall_assessment") \in quiet
      /\ part("scores") \in quiet /\ part("strengths") \in quiet
      /\ given("ethics_and_limitations") \in quiet
      /\ part("major_comments") \in quiet /\ part("minor_comments") \in quiet
      /\ part("questions_for_authors") \in quiet
      /\ given("problem_roots") \in quiet /\ given("revision_plan") \in quiet
      /\ given("other advice") \in quiet /\ part("missing_advice") \in quiet
  <2> HIDE DEF part
  <2> QED
    BY <1>3 DEF ReviewTitles
<1>7. /\ counted("major_comments", majors) \in quiet
      /\ counted("minor_comments", report.minor_comments) \in quiet
      /\ counted("questions_for_authors", report.questions_for_authors) \in quiet
  <2> HIDE DEF part
  <2> QED
    BY <1>2, <1>6
<1> DEFINE advice == strategic_advice_lines(extras, of)
<1>8. advice \in quiet
  <2> DEFINE said == given("problem_roots") \o given("revision_plan") \o given("other advice")
  <2>1. said \in quiet
    BY <1>2, <1>6
  <2>2. advice = IF said # << >> THEN said ELSE part("missing_advice")
    BY DEF strategic_advice_lines, given
  <2> HIDE DEF said, part, advice
  <2> QED
    BY <1>6, <2>1, <2>2
<1>9. reviewer_lines(report, extras) =
        <<Part("reviewer", of), Part("summary", of)>> \o given("overall_assessment")
        \o <<Part("scores", of), Part("strengths", of)>>
        \o counted("major_comments", majors)
        \o counted("minor_comments", report.minor_comments)
        \o counted("questions_for_authors", report.questions_for_authors)
        \o given("ethics_and_limitations") \o remark \o advice
  BY DEF reviewer_lines, given, remark, of, majors
<1>10. /\ <<Part("reviewer", of), Part("summary", of)>> = part("reviewer") \o part("summary")
       /\ <<Part("scores", of), Part("strengths", of)>> = part("scores") \o part("strengths")
  OBVIOUS
<1> DEFINE head == <<Part("reviewer", of), Part("summary", of)>>
           scores == <<Part("scores", of), Part("strengths", of)>>
<1>11. head \in told /\ scores \in quiet
  <2> HIDE DEF part
  <2> QED
    BY <1>2, <1>4, <1>6, <1>10
<1> HIDE DEF head, scores, counted, part, advice
<1> DEFINE front == head \o given("overall_assessment") \o scores \o counted("major_comments", majors)
                    \o counted("minor_comments", report.minor_comments)
                    \o counted("questions_for_authors", report.questions_for_authors)
<1>12. front \in told
  BY <1>2, <1>6, <1>7, <1>11
<1>13. reviewer_lines(report, extras) = front \o given("ethics_and_limitations") \o remark \o advice
  BY <1>9 DEF head, scores
<1> HIDE DEF front
<1>14. front \o given("ethics_and_limitations") \in told
  BY <1>2, <1>6, <1>12
<1>15. front \o given("ethics_and_limitations") \o remark \in told
  BY <1>2, <1>5, <1>14
<1>16. front \o given("ethics_and_limitations") \o remark \o advice \in told
  BY <1>2, <1>8, <1>15
<1> QED
  BY <1>13, <1>16 DEF told, of

\* What is said in each of some reports is said in all of them together, in their order.
LEMMA EachSays ==
    ASSUME NEW titles, NEW title, NEW n \in Nat, NEW words, NEW reports,
           reports \in [1..n -> PartsOf(titles)],
           \A i \in 1..n : Whose(reports[i], title) = <<words[i]>>
    PROVE  FlattenSeq(reports) \in Saying(title, [i \in 1..n |-> words[i]], titles)
<1> DEFINE P == [title : titles, of : Voices]
<1>1. reports \in Seq(Seq(P)) /\ Len(reports) = n
  <2>1. PartsOf(titles) = Seq(P)
    BY DEF PartsOf
  <2> DEFINE V == Seq(P)
  <2>2. reports \in [1..n -> V]
    BY <2>1
  <2> HIDE DEF V
  <2>3. reports \in Seq(V) /\ Len(reports) = n
    BY <2>2
  <2> QED
    BY <2>3 DEF V
<1>2. PICK f : /\ f \in [0..n -> Seq(P)] /\ f[0] = << >>
               /\ \A k \in 1..n : f[k] = f[k - 1] \o reports[k]
               /\ FlattenSeq(reports) = f[n]
  <2> HIDE DEF P
  <2> QED
    BY <1>1, FlattenSteps
<1>3. f \in [0..n -> PartsOf(titles)]
  BY <1>2 DEF PartsOf
<1> HIDE DEF P
<1> DEFINE said == [k \in 0..n |-> Whose(f[k], title)]
<1>4. said[0] = << >>
  <2>1. Whose(<< >>, title) = << >>
    BY NothingSays DEF Saying
  <2> QED
    BY <1>2, <2>1
<1>5. \A k \in 1..n : said[k] = said[k - 1] \o <<words[k]>>
  <2> SUFFICES ASSUME NEW k \in 1..n PROVE said[k] = said[k - 1] \o <<words[k]>>
    OBVIOUS
  <2>1. k \in 0..n /\ k - 1 \in 0..n
    OBVIOUS
  <2>2. f[k - 1] \in PartsOf(titles) /\ reports[k] \in PartsOf(titles)
    BY <1>3, <2>1
  <2>3. Whose(f[k - 1] \o reports[k], title) = Whose(f[k - 1], title) \o Whose(reports[k], title)
    <3> DEFINE p == f[k - 1]  q == reports[k]
    <3>1. p \in PartsOf(titles) /\ q \in PartsOf(titles)
      BY <2>2
    <3> HIDE DEF p, q
    <3>2. Whose(p \o q, title) = Whose(p, title) \o Whose(q, title)
      BY <3>1, WhoseJoined
    <3> QED
      BY <3>2 DEF p, q
  <2>4. f[k] = f[k - 1] \o reports[k]
    BY <1>2
  <2>5. said[k] = Whose(f[k], title) /\ said[k - 1] = Whose(f[k - 1], title)
    BY <2>1
  <2> HIDE DEF said
  <2> QED
    BY <2>3, <2>4, <2>5
<1>6. said[n] = Whose(FlattenSeq(reports), title)
  BY <1>2
<1> HIDE DEF said
<1>7. said[n] = [i \in 1..n |-> words[i]]
  <2>1. \A v, g : g[0] = << >> /\ (\A k \in 1..n : g[k] = g[k - 1] \o <<v[k]>>)
                   => g[n] = [k \in 1..n |-> v[k]]
    BY OneByOne
  <2> QED
    BY <1>4, <1>5, <2>1, Zenon
<1>8. FlattenSeq(reports) \in PartsOf(titles)
  <2>1. n \in 0..n
    OBVIOUS
  <2> QED
    BY <1>2, <1>3, <2>1
<1> QED
  BY <1>6, <1>7, <1>8 DEF Saying

\* The report of the authors has no remark on the form of a review, no matrix and no
\* disagreement.
Internal == {"format_check", "rr_traceability_matrix", "consensus_disagreement"}
AuthorTitles == Titles \ Internal

\* A report opens with the decision, and has the letter to the authors.
OpensWith(report, word) == report # << >> /\ report[1].of = word
Carries(report, letter) ==
    \E p \in ToSet(report) : p.title \in {"decision_letter", "message"} /\ p.of = letter

\* What follows does not change how a report opens, and no part is lost.
LEMMA JoinKeeps ==
    ASSUME NEW titles, NEW p \in PartsOf(titles), NEW q \in PartsOf(titles)
    PROVE  /\ \A word : OpensWith(p, word) => OpensWith(p \o q, word)
           /\ \A letter : Carries(p, letter) \/ Carries(q, letter) => Carries(p \o q, letter)
<1>1. /\ p # << >> => p \o q # << >> /\ (p \o q)[1] = p[1]
      /\ ToSet(p \o q) = ToSet(p) \cup ToSet(q)
  BY FirstJoined
<1> QED
  BY <1>1 DEF OpensWith, Carries

\* One part is its own beginning.
LEMMA PartOpens ==
    ASSUME NEW t, NEW of
    PROVE  /\ OpensWith(<<Part(t, of)>>, of)
           /\ t \in {"decision_letter", "message"} => Carries(<<Part(t, of)>>, of)
<1> DEFINE part == Part(t, of)
<1>1. part.title = t /\ part.of = of
  BY DEF Part
<1> HIDE DEF part
<1>2. <<part>> # << >> /\ <<part>>[1] = part /\ ToSet(<<part>>) = {part}
  BY DEF ToSet
<1>3. OpensWith(<<part>>, of) /\ (t \in {"decision_letter", "message"} => Carries(<<part>>, of))
  BY <1>1, <1>2 DEF OpensWith, Carries
<1> QED
  BY <1>3 DEF part

\* Two parts are two one-part reports joined.
LEMMA PartsApart ==
    ASSUME NEW t, NEW of, NEW u, NEW by
    PROVE  <<Part(t, of), Part(u, by)>> = <<Part(t, of)>> \o <<Part(u, by)>>
OBVIOUS

\* What one joins under a title that is not looked for.
LEMMA QuietJoins ==
    ASSUME NEW titles, NEW title, NEW quiet, quiet = Saying(title, << >>, titles)
    PROVE  /\ \A p, q \in quiet : p \o q \in quiet
           /\ \A p, q \in quiet : \A word : OpensWith(p, word) => OpensWith(p \o q, word)
           /\ \A p, q \in quiet : \A letter :
                 Carries(p, letter) \/ Carries(q, letter) => Carries(p \o q, letter)
           /\ \A condition : \A p \in quiet : When(condition, p) \in quiet
           /\ \A t \in titles, of \in Voices : t # title => <<Part(t, of)>> \in quiet
<1>1. \A p, q \in quiet : p \o q \in quiet
  BY JoinSays
<1>2. ASSUME NEW p \in quiet, NEW q \in quiet
      PROVE  /\ \A word : OpensWith(p, word) => OpensWith(p \o q, word)
             /\ \A letter : Carries(p, letter) \/ Carries(q, letter) => Carries(p \o q, letter)
  <2>1. p \in PartsOf(titles) /\ q \in PartsOf(titles)
    BY DEF Saying
  <2> QED
    BY <2>1, JoinKeeps
<1>3. \A condition : \A p \in quiet : When(condition, p) \in quiet
  BY WhenSays
<1>4. ASSUME NEW t \in titles, NEW of \in Voices, t # title
      PROVE  <<Part(t, of)>> \in quiet
  BY <1>4, PartSays
<1> QED
  BY <1>1, <1>2, <1>3, <1>4

\* The report of an invalid submission says so, and has the letter.
LEMMA InvalidSays ==
    ASSUME NEW r, r.decision_letter \in Letters, NEW titles, AuthorTitles \subseteq titles,
           NEW report, report = render_invalid_submission_report(r)
    PROVE  /\ report \in Saying("reviewer", << >>, titles)
           /\ OpensWith(report, "INVALID_SUBMISSION")
           /\ r.decision_letter # "" => Carries(report, r.decision_letter)
<1> DEFINE letter == r.decision_letter
           quiet == Saying("reviewer", << >>, titles)
           words == IF letter # "" THEN letter ELSE "default"
           verdict == "INVALID_SUBMISSION"
           none == ""
           title == <<Part("invalid_submission_report", verdict)>>
           message == <<Part("message", words)>>
           steps == <<Part("next_steps", none)>>
<1>1. /\ "invalid_submission_report" \in titles /\ "message" \in titles /\ "next_steps" \in titles
  BY DEF AuthorTitles, Titles, Internal
<1>2. "INVALID_SUBMISSION" \in Voices /\ "" \in Voices /\ words \in Voices
  BY DEF Voices, FinalDecision, Letters
<1>3. OpensWith(title, "INVALID_SUBMISSION") /\ Carries(message, words)
  BY PartOpens
<1>4. report = title \o message \o steps
  <2>1. report = <<Part("invalid_submission_report", verdict), Part("message", words),
                   Part("next_steps", none)>>
    BY DEF render_invalid_submission_report
  <2> HIDE DEF words, verdict, none
  <2>2. <<Part("invalid_submission_report", verdict), Part("message", words),
          Part("next_steps", none)>> = title \o message \o steps
    OBVIOUS
  <2> HIDE DEF title, message, steps
  <2> QED
    BY <2>1, <2>2
<1> HIDE DEF words, quiet
<1>5. /\ \A p, q \in quiet : p \o q \in quiet
      /\ \A p, q \in quiet : \A word : OpensWith(p, word) => OpensWith(p \o q, word)
      /\ \A p, q \in quiet : \A l : Carries(p, l) \/ Carries(q, l) => Carries(p \o q, l)
      /\ \A t \in titles, of \in Voices : t # "reviewer" => <<Part(t, of)>> \in quiet
  BY QuietJoins DEF quiet
<1>6. title \in quiet /\ message \in quiet /\ steps \in quiet
  BY <1>1, <1>2, <1>5
<1> HIDE DEF title, message, steps
<1>7. title \o message \in quiet /\ OpensWith(title \o message, "INVALID_SUBMISSION")
      /\ Carries(title \o message, words)
  BY <1>3, <1>5, <1>6
<1>8. report \in quiet /\ OpensWith(report, "INVALID_SUBMISSION") /\ Carries(report, words)
  BY <1>4, <1>5, <1>6, <1>7
<1> QED
  BY <1>8 DEF quiet, words

\* So does the report of a desk rejection.
LEMMA DeskRejectSays ==
    ASSUME NEW r, r.decision_letter \in Letters, NEW titles, AuthorTitles \subseteq titles,
           NEW report, report = render_desk_reject_report(r)
    PROVE  /\ report \in Saying("reviewer", << >>, titles)
           /\ OpensWith(report, "DESK_REJECT")
           /\ r.decision_letter # "" => Carries(report, r.decision_letter)
<1> DEFINE letter == r.decision_letter
           quiet == Saying("reviewer", << >>, titles)
           whose(key, default) == IF key \in r.se_result THEN "senior editor"
                                  ELSE IF key \in r.ae_result THEN "associate editor"
                                  ELSE default
           part(key) == <<Part(key, whose(key, ""))>>
           reasons(key) == When(key \in r.se_result \cup r.ae_result, part(key))
           words == IF letter # "" THEN letter ELSE "default"
           title == <<Part("desk_reject_report", "DESK_REJECT")>>
           first == <<Part("decision_letter", words)>>
           second == <<Part("editorial_assessment", whose("assessment", "default"))>>
           last == <<Part("revision_advice", "")>>
           venue == venue_lines(r.venue_profile)
<1>1. /\ "desk_reject_report" \in titles /\ "decision_letter" \in titles
      /\ "editorial_assessment" \in titles /\ "revision_advice" \in titles
      /\ "desk_reject_types" \in titles /\ "concerns" \in titles /\ "target_venue" \in titles
  BY DEF AuthorTitles, Titles, Internal
<1>2. "DESK_REJECT" \in Voices /\ "" \in Voices /\ words \in Voices
      /\ \A key : whose(key, "") \in Voices /\ whose(key, "default") \in Voices
  BY DEF Voices, FinalDecision, Letters
<1>3. OpensWith(title, "DESK_REJECT") /\ Carries(first, words)
  BY PartOpens
<1>4. report = title \o venue
          \o <<Part("decision_letter", words),
               Part("editorial_assessment", whose("assessment", "default"))>>
          \o reasons("desk_reject_types") \o reasons("concerns") \o last
  BY DEF render_desk_reject_report
<1>5. <<Part("decision_letter", words), Part("editorial_assessment", whose("assessment", "default"))>>
          = first \o second
  <2> HIDE DEF words, whose
  <2> QED
    BY PartsApart
<1> HIDE DEF words, quiet, whose
<1>6. /\ \A p, q \in quiet : p \o q \in quiet
      /\ \A p, q \in quiet : \A word : OpensWith(p, word) => OpensWith(p \o q, word)
      /\ \A p, q \in quiet : \A l : Carries(p, l) \/ Carries(q, l) => Carries(p \o q, l)
      /\ \A condition : \A p \in quiet : When(condition, p) \in quiet
      /\ \A t \in titles, of \in Voices : t # "reviewer" => <<Part(t, of)>> \in quiet
  BY QuietJoins DEF quiet
<1>7. title \in quiet /\ first \in quiet /\ second \in quiet /\ last \in quiet
  BY <1>1, <1>2, <1>6
<1>8. part("desk_reject_types") \in quiet /\ part("concerns") \in quiet
  BY <1>1, <1>2, <1>6
<1>9. venue \in quiet
  <2>1. <<Part("target_venue", "")>> \in quiet
    BY <1>1, <1>2, <1>6
  <2> QED
    BY <1>6, <2>1 DEF venue_lines
<1> HIDE DEF part, venue
<1>10. reasons("desk_reject_types") \in quiet /\ reasons("concerns") \in quiet
  BY <1>6, <1>8
<1> HIDE DEF title, first, second, last, reasons
<1>11. title \o venue \in quiet /\ OpensWith(title \o venue, "DESK_REJECT")
  BY <1>3, <1>6, <1>7, <1>9
<1>12. first \o second \in quiet /\ Carries(first \o second, words)
  BY <1>3, <1>6, <1>7
<1> DEFINE front == title \o venue \o (first \o second)
<1>13. front \in quiet /\ OpensWith(front, "DESK_REJECT") /\ Carries(front, words)
  BY <1>6, <1>11, <1>12
<1>14. report = front \o reasons("desk_reject_types") \o reasons("concerns") \o last
  BY <1>4, <1>5
<1> HIDE DEF front
<1> DEFINE more == front \o reasons("desk_reject_types")
<1>15. more \in quiet /\ OpensWith(more, "DESK_REJECT") /\ Carries(more, words)
  BY <1>6, <1>10, <1>13
<1>16. report = more \o reasons("concerns") \o last
  BY <1>14
<1> HIDE DEF more
<1> DEFINE all == more \o reasons("concerns")
<1>17. all \in quiet /\ OpensWith(all, "DESK_REJECT") /\ Carries(all, words)
  BY <1>6, <1>10, <1>15
<1>18. report = all \o last
  BY <1>16
<1> HIDE DEF all
<1>19. report \in quiet /\ OpensWith(report, "DESK_REJECT") /\ Carries(report, words)
  BY <1>6, <1>7, <1>17, <1>18
<1> QED
  BY <1>19 DEF quiet, words

\* A report of reviews names its reviewers in their order, and says nothing of their
\* form if none of them is short.
LEMMA ReviewSays ==
    ASSUME NEW r, r.final_decision \in FinalDecision \cup {Unset}, r.decision_letter \in Letters,
           NEW reports \in Seq(Report), reports = sorted_reports(r.reviewer_reports),
           NEW titles, AuthorTitles \subseteq titles,
           (\E i \in DOMAIN reports : review_format_issues(reports[i])) => "format_check" \in titles,
           NEW report, report = render_review_report(r)
    PROVE  /\ report \in Saying("reviewer", Keys(reports), titles)
           /\ OpensWith(report, decision_value(r.final_decision))
           /\ r.decision_letter # "" => Carries(report, r.decision_letter)
<1> DEFINE letter == r.decision_letter
           verdict == decision_value(r.final_decision)
           quiet == Saying("reviewer", << >>, titles)
           told == Saying("reviewer", Keys(reports), titles)
           each == [i \in DOMAIN reports |-> reviewer_lines(reports[i], r.extras)]
           title == <<Part("review_report", verdict)>>
           venue == venue_lines(r.venue_profile)
           written == <<Part("decision_letter", letter)>>
           first == When(letter # "", written)
           advice == When(r.ae_final # {}, author_revision_lines(r.ae_final))
           stages == stage_snapshot_lines(r.stage_outputs)
           body == IF reports # << >> THEN FlattenSeq(each) ELSE stages
<1>1. /\ "review_report" \in titles /\ "decision_letter" \in titles /\ "target_venue" \in titles
      /\ "stage_outputs" \in titles
  BY DEF AuthorTitles, Titles, Internal
<1>2. verdict \in Voices /\ letter \in Voices /\ "" \in Voices
  BY DEF Voices, FinalDecision, Letters, decision_value, Verdicts, Unset
<1>3. OpensWith(title, verdict) /\ Carries(written, letter)
  BY PartOpens
<1>4. report = title \o venue \o first \o advice \o body
  BY DEF render_review_report, With
<1> HIDE DEF verdict, quiet, letter
<1>5. /\ \A p, q \in quiet : p \o q \in quiet
      /\ \A p, q \in quiet : \A word : OpensWith(p, word) => OpensWith(p \o q, word)
      /\ \A p, q \in quiet : \A l : Carries(p, l) \/ Carries(q, l) => Carries(p \o q, l)
      /\ \A condition : \A p \in quiet : When(condition, p) \in quiet
      /\ \A t \in titles, of \in Voices : t # "reviewer" => <<Part(t, of)>> \in quiet
  BY QuietJoins DEF quiet
<1>6. title \in quiet /\ written \in quiet
  BY <1>1, <1>2, <1>5
<1>7. venue \in quiet /\ stages \in quiet
  <2>1. <<Part("target_venue", "")>> \in quiet /\ <<Part("stage_outputs", "")>> \in quiet
    BY <1>1, <1>2, <1>5
  <2> QED
    BY <1>5, <2>1 DEF venue_lines, stage_snapshot_lines
<1>8. advice \in quiet
  <2>1. author_revision_lines(r.ae_final) \in Saying("reviewer", << >>, AdviceTitles)
    BY AdviceSays DEF AdviceTitles
  <2>2. AdviceTitles \subseteq titles
    BY DEF AdviceTitles, AuthorTitles, Titles, Internal
  <2>3. author_revision_lines(r.ae_final) \in quiet
    BY <2>1, <2>2, MoreTitles DEF quiet
  <2> QED
    BY <1>5, <2>3
<1>9. body \in told
  <2>0. /\ Len(reports) \in Nat /\ DOMAIN reports = 1..Len(reports)
        /\ \A i \in 1..Len(reports) : reports[i] \in Report
    OBVIOUS
  <2>1. CASE reports = << >>
    <3>1. Keys(reports) = << >>
      BY <2>1 DEF Keys
    <3> QED
      BY <1>7, <2>1, <3>1 DEF quiet
  <2>2. CASE reports # << >>
    <3> DEFINE n == Len(reports)
               keys == Keys(reports)
    <3>1. \A i \in 1..n : keys[i] = reports[i].reviewer_key
      BY <2>0 DEF Keys
    <3>2. ASSUME NEW i \in 1..n
          PROVE  each[i] \in PartsOf(titles) /\ Whose(each[i], "reviewer") = <<keys[i]>>
      <4> DEFINE review == reports[i]
                 lines == reviewer_lines(review, r.extras)
      <4>1. review \in Report /\ (review_format_issues(review) => "format_check" \in titles)
        BY <2>0
      <4>2. ReviewTitles \subseteq titles
        BY DEF ReviewTitles, AuthorTitles, Titles, Internal
      <4> HIDE DEF review
      <4>3. lines \in Saying("reviewer", <<review.reviewer_key>>, titles)
        BY <4>1, <4>2, ReviewerLinesSay
      <4>4. each[i] = lines /\ keys[i] = review.reviewer_key
        BY <2>0, <3>1 DEF review
      <4> HIDE DEF each, keys, lines
      <4> QED
        BY <4>3, <4>4 DEF Saying
    <3>3. each \in [1..n -> PartsOf(titles)]
      <4>1. each = [i \in 1..n |-> each[i]]
        BY <2>0
      <4> HIDE DEF each
      <4> QED
        BY <3>2, <4>1
    <3>4. n \in Nat /\ \A i \in 1..n : Whose(each[i], "reviewer") = <<keys[i]>>
      BY <2>0, <3>2
    <3>5. keys = [i \in 1..n |-> keys[i]]
      BY <2>0 DEF Keys
    <3> HIDE DEF each, keys, n
    <3>6. FlattenSeq(each) \in Saying("reviewer", [i \in 1..n |-> keys[i]], titles)
      BY <3>3, <3>4, EachSays
    <3>7. FlattenSeq(each) \in Saying("reviewer", keys, titles)
      BY <3>5, <3>6
    <3> QED
      BY <2>2, <3>7 DEF keys
  <2> QED
    BY <2>1, <2>2
<1> HIDE DEF title, venue, written, advice, body
<1>10. title \o venue \in quiet /\ OpensWith(title \o venue, verdict)
  BY <1>3, <1>5, <1>6, <1>7
<1>11. first \in quiet /\ (letter # "" => Carries(first, letter))
  <2>1. first \in quiet
    BY <1>5, <1>6
  <2>2. letter # "" => first = written
    BY DEF When
  <2> HIDE DEF first
  <2> QED
    BY <1>3, <2>1, <2>2
<1> HIDE DEF first
<1> DEFINE front == title \o venue \o first
<1>12. front \in quiet /\ OpensWith(front, verdict) /\ (letter # "" => Carries(front, letter))
  BY <1>5, <1>10, <1>11
<1> DEFINE start == front \o advice
<1>13. report = start \o body
  BY <1>4
<1> HIDE DEF front
<1>14. start \in quiet /\ OpensWith(start, verdict) /\ (letter # "" => Carries(start, letter))
  BY <1>5, <1>8, <1>12
<1> HIDE DEF start
<1>15. start \o body \in told
  BY <1>9, <1>14, JoinSays DEF quiet
<1>16. start \in PartsOf(titles) /\ body \in PartsOf(titles)
  BY <1>9, <1>14 DEF quiet, Saying
<1>17. /\ \A word : OpensWith(start, word) => OpensWith(start \o body, word)
       /\ \A l : Carries(start, l) \/ Carries(body, l) => Carries(start \o body, l)
  BY <1>16, JoinKeeps
<1> QED
  BY <1>13, <1>14, <1>15, <1>17 DEF verdict, letter

\* A list of parts of one title.
LEMMA ListSays ==
    ASSUME NEW t, NEW n \in Nat, NEW words \in [1..n -> Voices],
           NEW parts, parts = [i \in 1..n |-> Part(t, words[i])]
    PROVE  parts \in Saying(t, words, {t})
<1> DEFINE P == [title : {t}, of : Voices]
           chosen == Chosen(parts, t)
<1>1. \A i \in 1..n : Part(t, words[i]) \in P
  BY DEF Part
<1>2. parts \in PartsOf({t}) /\ DOMAIN parts = 1..n /\ Len(parts) = n
  <2>1. parts \in [1..n -> P]
    BY <1>1
  <2> HIDE DEF P
  <2>2. parts \in Seq(P) /\ DOMAIN parts = 1..n /\ Len(parts) = n
    BY <2>1
  <2> QED
    BY <2>2 DEF PartsOf, P
<1>3. \A i \in 1..n : chosen[i] = <<words[i]>>
  <2> SUFFICES ASSUME NEW i \in 1..n PROVE chosen[i] = <<words[i]>>
    OBVIOUS
  <2>1. parts[i].title = t /\ parts[i].of = words[i]
    BY DEF Part
  <2>2. chosen[i] = IF parts[i].title = t THEN <<parts[i].of>> ELSE << >>
    BY <1>2 DEF Chosen
  <2> QED
    BY <2>1, <2>2
<1>4. chosen \in Seq(Seq(Voices)) /\ Len(chosen) = n /\ Whose(parts, t) = FlattenSeq(chosen)
  BY <1>2, ChosenTyped
<1> HIDE DEF chosen
<1>5. PICK f : /\ f[0] = << >> /\ \A k \in 1..n : f[k] = f[k - 1] \o chosen[k]
               /\ FlattenSeq(chosen) = f[n]
  <2>1. \E f : /\ f[0] = << >> /\ \A k \in 1..Len(chosen) : f[k] = f[k - 1] \o chosen[k]
               /\ FlattenSeq(chosen) = f[Len(chosen)]
    BY <1>4, FlattenSteps
  <2> QED
    BY <1>4, <2>1
<1>6. f[0] = << >> /\ \A k \in 1..n : f[k] = f[k - 1] \o <<words[k]>>
  BY <1>3, <1>5
<1>7. f[n] = [k \in 1..n |-> words[k]]
  <2>1. \A v, g : g[0] = << >> /\ (\A k \in 1..n : g[k] = g[k - 1] \o <<v[k]>>)
                   => g[n] = [k \in 1..n |-> v[k]]
    BY OneByOne
  <2> QED
    BY <1>6, <2>1, Zenon
<1>8. words = [k \in 1..n |-> words[k]]
  OBVIOUS
<1> QED
  BY <1>2, <1>4, <1>5, <1>7, <1>8 DEF Saying

\* The audit opens with the decision, lists the reviews in their order, and has the
\* matrix if there is one.
LEMMA AuditSays ==
    ASSUME NEW r, r.final_decision \in FinalDecision \cup {Unset},
           NEW reports \in Seq(Report), reports = sorted_reports(r.reviewer_reports),
           NEW audit, audit = render_internal_audit_markdown(r)
    PROVE  /\ audit \in Saying("reviewer_artifact_index", Keys(reports), Titles)
           /\ audit \in Saying("rr_traceability_matrix",
                               IF "rr_traceability_matrix" \in r.ae_final
                               THEN <<"associate editor">> ELSE << >>, Titles)
           /\ OpensWith(audit, decision_value(r.final_decision))
<1> DEFINE verdict == decision_value(r.final_decision)
           keys == Keys(reports)
           matrix == IF "rr_traceability_matrix" \in r.ae_final
                     THEN <<"associate editor">> ELSE << >>
           Indexed(words) == Saying("reviewer_artifact_index", words, Titles)
           Traced(words) == Saying("rr_traceability_matrix", words, Titles)
           title == <<Part("internal_audit_report", verdict)>>
           venue == venue_lines(r.venue_profile)
           merged == When(r.ae_final # {}, ae_final_lines(r.ae_final))
           index == [i \in DOMAIN reports |-> Part("reviewer_artifact_index", reports[i].reviewer_key)]
           stages == stage_snapshot_lines(r.stage_outputs)
<1>1. /\ "internal_audit_report" \in Titles /\ "target_venue" \in Titles
      /\ "stage_outputs" \in Titles /\ {"reviewer_artifact_index"} \subseteq Titles
      /\ MergedTitles \cup {"rr_traceability_matrix"} \subseteq Titles
  BY DEF Titles, MergedTitles, AdviceTitles
<1>2. verdict \in Voices /\ "" \in Voices
  BY DEF Voices, FinalDecision, Letters, decision_value, Verdicts, Unset
<1>3. OpensWith(title, verdict)
  BY PartOpens
<1>4. audit = title \o venue \o merged \o index \o stages
  BY DEF render_internal_audit_markdown, With
<1> HIDE DEF verdict
<1>5. /\ title \in Indexed(<< >>) /\ <<Part("target_venue", "")>> \in Indexed(<< >>)
      /\ <<Part("stage_outputs", "")>> \in Indexed(<< >>)
      /\ title \in Traced(<< >>) /\ <<Part("target_venue", "")>> \in Traced(<< >>)
      /\ <<Part("stage_outputs", "")>> \in Traced(<< >>)
  <2>1. ASSUME NEW looked \in {"reviewer_artifact_index", "rr_traceability_matrix"}
        PROVE  /\ title \in Saying(looked, << >>, Titles)
               /\ <<Part("target_venue", "")>> \in Saying(looked, << >>, Titles)
               /\ <<Part("stage_outputs", "")>> \in Saying(looked, << >>, Titles)
    <3> DEFINE quiet == Saying(looked, << >>, Titles)
    <3>1. \A t \in Titles, of \in Voices : t # looked => <<Part(t, of)>> \in quiet
      BY QuietJoins
    <3> HIDE DEF quiet
    <3>2. /\ "internal_audit_report" # looked /\ "target_venue" # looked
          /\ "stage_outputs" # looked
      OBVIOUS
    <3>3. /\ title \in quiet /\ <<Part("target_venue", "")>> \in quiet
          /\ <<Part("stage_outputs", "")>> \in quiet
      BY <1>1, <1>2, <3>1, <3>2
    <3> QED
      BY <3>3 DEF quiet
  <2> QED
    BY <2>1
<1> HIDE DEF title
<1>6. /\ venue \in Indexed(<< >>) /\ stages \in Indexed(<< >>)
      /\ venue \in Traced(<< >>) /\ stages \in Traced(<< >>)
  BY <1>5, WhenSays DEF venue_lines, stage_snapshot_lines
<1>7. merged \in Indexed(<< >>) /\ merged \in Traced(matrix)
  <2> DEFINE lines == ae_final_lines(r.ae_final)
             mine == MergedTitles \cup {"rr_traceability_matrix"}
  <2>1. lines \in Saying("reviewer_artifact_index", << >>, mine)
    <3>1. "reviewer_artifact_index" \notin MergedTitles
      BY DEF MergedTitles, AdviceTitles
    <3>2. lines \in Saying("reviewer_artifact_index",
                     IF "reviewer_artifact_index" = "rr_traceability_matrix"
                           /\ "reviewer_artifact_index" \in r.ae_final
                     THEN <<"associate editor">> ELSE << >>, mine)
      BY <3>1, EditorLinesSay
    <3> HIDE DEF lines, mine
    <3> QED
      BY <3>2
  <2>2. lines \in Saying("rr_traceability_matrix", matrix, mine)
    <3>1. "rr_traceability_matrix" \notin MergedTitles
      BY DEF MergedTitles, AdviceTitles
    <3>2. lines \in Saying("rr_traceability_matrix",
                     IF "rr_traceability_matrix" = "rr_traceability_matrix"
                           /\ "rr_traceability_matrix" \in r.ae_final
                     THEN <<"associate editor">> ELSE << >>, mine)
      BY <3>1, EditorLinesSay
    <3> HIDE DEF lines, mine
    <3> QED
      BY <3>2
  <2>0. mine \subseteq Titles
    BY <1>1
  <2> HIDE DEF lines, mine, matrix
  <2>3. lines \in Indexed(<< >>)
    BY <2>0, <2>1, MoreTitles
  <2>4. lines \in Traced(matrix)
    BY <2>0, <2>2, MoreTitles
  <2>5. CASE r.ae_final # {}
    <3>1. merged = lines
      BY <2>5 DEF When, lines
    <3> QED
      BY <2>3, <2>4, <3>1
  <2>6. CASE r.ae_final = {}
    <3>1. merged = << >> /\ matrix = << >>
      BY <2>6 DEF When, matrix
    <3> QED
      BY <3>1, NothingSays
  <2> QED
    BY <2>5, <2>6
<1>8. index \in Indexed(keys) /\ index \in Traced(<< >>)
  <2> DEFINE n == Len(reports)
  <2>1. n \in Nat /\ DOMAIN reports = 1..n /\ \A i \in 1..n : reports[i].reviewer_key \in Voices
    <3>1. n \in Nat /\ DOMAIN reports = 1..n /\ \A i \in 1..n : reports[i] \in Report
      OBVIOUS
    <3> HIDE DEF n
    <3>2. \A report \in Report : report.reviewer_key \in Voices
      BY DEF Report, Voices
    <3> QED
      BY <3>1, <3>2
  <2>2. keys \in [1..n -> Voices] /\ \A i \in 1..n : keys[i] = reports[i].reviewer_key
    BY <2>1 DEF Keys
  <2>3. index = [i \in 1..n |-> Part("reviewer_artifact_index", keys[i])]
    <3> HIDE DEF keys, n
    <3> QED
      BY <2>1, <2>2
  <2> HIDE DEF n, keys, index
  <2>4. n \in Nat /\ keys \in [1..n -> Voices]
    BY <2>1, <2>2
  <2>5. index \in Saying("reviewer_artifact_index", keys, {"reviewer_artifact_index"})
    BY <2>3, <2>4, ListSays
  <2>6. index \in Indexed(keys)
    BY <1>1, <2>5, MoreTitles
  <2>7. index \in PartsOf({"reviewer_artifact_index"})
    BY <2>5 DEF Saying
  <2>8. index \in Saying("rr_traceability_matrix", << >>, {"reviewer_artifact_index"})
    <3>1. "rr_traceability_matrix" \notin {"reviewer_artifact_index"}
      OBVIOUS
    <3> QED
      BY <2>7, <3>1, OthersSayNothing
  <2>9. index \in Traced(<< >>)
    BY <1>1, <2>8, MoreTitles
  <2> QED
    BY <2>6, <2>9
<1> HIDE DEF venue, merged, index, stages, keys, matrix
<1>9. audit \in Indexed(keys)
  <2>1. title \o venue \in Indexed(<< >>)
    BY <1>5, <1>6, JoinSays
  <2>2. title \o venue \o merged \in Indexed(<< >>)
    BY <1>7, <2>1, JoinSays
  <2>3. title \o venue \o merged \o index \in Indexed(keys)
    BY <1>8, <2>2, JoinSays
  <2>4. title \o venue \o merged \o index \o stages \in Indexed(keys)
    BY <1>6, <2>3, JoinSays
  <2> QED
    BY <1>4, <2>4
<1>10. audit \in Traced(matrix)
  <2>1. title \o venue \in Traced(<< >>)
    BY <1>5, <1>6, JoinSays
  <2>2. title \o venue \o merged \in Traced(matrix)
    BY <1>7, <2>1, JoinSays
  <2>3. title \o venue \o merged \o index \in Traced(matrix)
    BY <1>8, <2>2, JoinSays
  <2>4. title \o venue \o merged \o index \o stages \in Traced(matrix)
    BY <1>6, <2>3, JoinSays
  <2> QED
    BY <1>4, <2>4
<1>11. OpensWith(audit, verdict)
  <2>0. /\ title \in PartsOf(Titles) /\ venue \in PartsOf(Titles) /\ merged \in PartsOf(Titles)
        /\ index \in PartsOf(Titles) /\ stages \in PartsOf(Titles)
    BY <1>5, <1>6, <1>7, <1>8 DEF Saying
  <2>1. \A p, q \in PartsOf(Titles) : p \o q \in PartsOf(Titles)
    BY WhoseJoined
  <2>2. \A p, q \in PartsOf(Titles) : OpensWith(p, verdict) => OpensWith(p \o q, verdict)
    BY JoinKeeps
  <2>3. title \o venue \in PartsOf(Titles) /\ OpensWith(title \o venue, verdict)
    BY <1>3, <2>0, <2>1, <2>2
  <2>4. title \o venue \o merged \in PartsOf(Titles) /\ OpensWith(title \o venue \o merged, verdict)
    BY <2>0, <2>1, <2>2, <2>3
  <2>5. /\ title \o venue \o merged \o index \in PartsOf(Titles)
        /\ OpensWith(title \o venue \o merged \o index, verdict)
    BY <2>0, <2>1, <2>2, <2>4
  <2>6. OpensWith(title \o venue \o merged \o index \o stages, verdict)
    BY <2>0, <2>2, <2>5
  <2> QED
    BY <1>4, <2>6
<1> QED
  BY <1>9, <1>10, <1>11 DEF keys, matrix, verdict

\* Which form the report of the authors has, and what it says.
LEMMA AuthorReportSays ==
    ASSUME NEW r, r.final_decision \in FinalDecision \cup {Unset}, r.decision_letter \in Letters,
           NEW reports \in Seq(Report), reports = sorted_reports(r.reviewer_reports),
           NEW titles, AuthorTitles \subseteq titles,
           (\E i \in DOMAIN reports : review_format_issues(reports[i])) => "format_check" \in titles,
           NEW report, report = render_markdown(r)
    PROVE  /\ report \in Saying("reviewer",
                     IF decision_value(r.final_decision) \in {"INVALID_SUBMISSION", "DESK_REJECT"}
                     THEN << >> ELSE Keys(reports), titles)
           /\ OpensWith(report, decision_value(r.final_decision))
           /\ r.decision_letter # "" => Carries(report, r.decision_letter)
<1>1. CASE decision_value(r.final_decision) = "INVALID_SUBMISSION"
  <2>1. report = render_invalid_submission_report(r)
    BY <1>1 DEF render_markdown
  <2>2. /\ report \in Saying("reviewer", << >>, titles)
        /\ OpensWith(report, "INVALID_SUBMISSION")
        /\ r.decision_letter # "" => Carries(report, r.decision_letter)
    BY <2>1, InvalidSays
  <2> QED
    BY <1>1, <2>2
<1>2. CASE decision_value(r.final_decision) = "DESK_REJECT"
  <2>1. report = render_desk_reject_report(r)
    BY <1>2 DEF render_markdown
  <2>2. /\ report \in Saying("reviewer", << >>, titles)
        /\ OpensWith(report, "DESK_REJECT")
        /\ r.decision_letter # "" => Carries(report, r.decision_letter)
    BY <2>1, DeskRejectSays
  <2> QED
    BY <1>2, <2>2
<1>3. CASE decision_value(r.final_decision) \notin {"INVALID_SUBMISSION", "DESK_REJECT"}
  <2>1. report = render_review_report(r)
    BY <1>3 DEF render_markdown
  <2>2. /\ report \in Saying("reviewer", Keys(reports), titles)
        /\ OpensWith(report, decision_value(r.final_decision))
        /\ r.decision_letter # "" => Carries(report, r.decision_letter)
    BY <2>1, ReviewSays
  <2> QED
    BY <1>3, <2>2
<1> QED
  BY <1>1, <1>2, <1>3

\* The answers of final_artifact_render do not matter: any report is made of parts.
LEMMA RenderedTyped ==
    ASSUME NEW r, r.final_decision \in FinalDecision \cup {Unset}, r.decision_letter \in Letters,
           r.reviewer_reports \in Seq(Report)
    PROVE  render_markdown(r) \in Parts /\ render_internal_audit_markdown(r) \in Parts
<1> DEFINE reports == sorted_reports(r.reviewer_reports)
           report == render_markdown(r)
           audit == render_internal_audit_markdown(r)
<1>1. reports \in Seq(Report)
  BY SortedTyped
<1>2. AuthorTitles \subseteq Titles /\ "format_check" \in Titles
  BY DEF AuthorTitles, Titles
<1> HIDE DEF reports, report, audit
<1>3. \E words : report \in Saying("reviewer", words, Titles)
  BY <1>1, <1>2, AuthorReportSays DEF report, reports
<1>4. audit \in Saying("reviewer_artifact_index", Keys(reports), Titles)
  BY <1>1, AuditSays DEF audit, reports
<1>5. \A words, title : Saying(title, words, Titles) \subseteq Parts
  BY DEF Saying, PartsOf, Parts
<1> QED
  BY <1>3, <1>4, <1>5 DEF report, audit

\* final_artifact_render only sets the two rendered reports.
LEMMA FinalArtifactRenderLeaves ==
    ASSUME NEW s \in GlobalState, NEW a, NEW w, w = final_artifact_render_node(s, a)
    PROVE  \E author, audit \in Parts :
              w = [s EXCEPT !.rendered_artifacts =
                                [author_report |-> author, internal_audit |-> audit]]
<1> DEFINE editor(who, asked) == IF asked /\ Gave(who, a)
                                 THEN {"assessment", "desk_reject_types", "concerns"} ELSE {}
           filled == {"revision_checklist", "rr_traceability_matrix", "revision_roadmap"}
           r == [final_decision |-> s.final_decision, decision_letter |-> s.decision_letter,
                 venue_profile |-> "venue_profile" \in s.stage_outputs /\ Gave("venue", a),
                 se_result |-> editor("senior editor", s.se_decision # Unset),
                 ae_result |-> editor("associate editor", s.ae_result # Unset),
                 reviewer_reports |-> s.reviewer_reports,
                 ae_final |-> IF Gave("panel", a) THEN s.ae_final ELSE s.ae_final \cap filled,
                 extras |-> IF Gave("panel", a)
                            THEN {"overall_assessment", "ethics_and_limitations", "problem_roots",
                                  "revision_plan", "weaknesses"} ELSE {},
                 stage_outputs |-> s.stage_outputs]
<1>1. w = [s EXCEPT !.rendered_artifacts = [author_report |-> render_markdown(r),
                                            internal_audit |-> render_internal_audit_markdown(r)]]
  BY DEF final_artifact_render_node
<1>2. /\ r.final_decision = s.final_decision /\ r.decision_letter = s.decision_letter
      /\ r.reviewer_reports = s.reviewer_reports
  OBVIOUS
<1> HIDE DEF r
<1>3. /\ s.final_decision \in FinalDecision \cup {Unset} /\ s.decision_letter \in Letters
      /\ s.reviewer_reports \in Seq(Report)
  BY DEF GlobalState
<1>4. render_markdown(r) \in Parts /\ render_internal_audit_markdown(r) \in Parts
  BY <1>2, <1>3, RenderedTyped
<1> QED
  BY <1>1, <1>4

-----------------------------------------------------------------------------
(* What one node does to the channels.                                     *)

\* w is s but for the outcome of node n, channel by channel.
Wrote(n, s, w) ==
    /\ IF n = "doc_parse"
       THEN \/ w.parsed_paper # Unset /\ w.parse_error = s.parse_error
            \/ w.parsed_paper = s.parsed_paper /\ w.parse_error # ""
       ELSE w.parsed_paper = s.parsed_paper /\ w.parse_error = s.parse_error
    /\ IF n = "content_check" THEN w.intent # Unset ELSE w.intent = s.intent
    /\ w.journal_requirements = IF n = "journal_req_collector" THEN "requirements"
                                ELSE s.journal_requirements
    /\ IF n = "se_check" THEN w.se_decision # Unset ELSE w.se_decision = s.se_decision
    /\ w.ae_result = IF n = "ae_check" THEN "screened"
                     ELSE IF n = "review_dispatch" /\ NeedsDefaultContext(s) THEN "default"
                     ELSE s.ae_result
    /\ IF n = "ae_check" THEN w.ae_decision # Unset
       ELSE w.ae_decision = IF n = "review_dispatch" /\ NeedsDefaultContext(s)
                            THEN "SEND_FOR_REVIEW" ELSE s.ae_decision
    /\ IF n \in Reviewers \cup {"single_reviewer"}
       THEN \E report \in Report : /\ report.reviewer_key = n
                                   /\ w.reviewer_reports = Append(s.reviewer_reports, report)
       ELSE w.reviewer_reports = s.reviewer_reports
    /\ IF n = "ae_decision" THEN w.ae_decision_result \in Verdicts
       ELSE w.ae_decision_result = s.ae_decision_result
    /\ IF n = "single_reviewer" THEN w.final_decision \in Verdicts
       ELSE w.final_decision = IF n = "parse_fail_output" THEN "REJECT"
                               ELSE IF n = "invalid_file" THEN "INVALID_SUBMISSION"
                               ELSE IF n = "desk_reject_output" THEN "DESK_REJECT"
                               ELSE IF n = "ae_finalize" THEN s.ae_decision_result
                               ELSE s.final_decision

\* The node itself leaves the stages alone: they are added when it is merged.
Leaves(n, s, w) == w \in GlobalState /\ w.stage_outputs = s.stage_outputs /\ Wrote(n, s, w)

Merges(n, s, t) ==
    /\ t \in GlobalState /\ Wrote(n, s, t)
    /\ t.stage_outputs = s.stage_outputs \cup StagesOf(n, s)

\* The stages a node names are stages.
LEMMA StagesOfTyped ==
    ASSUME NEW s, NEW n \in Node PROVE StagesOf(n, s) \subseteq Stages
BY DEF StagesOf, Stages, Node

\* Merging adds the stages to what the node writes.
LEMMA StagesMerged ==
    ASSUME NEW s \in GlobalState, NEW n \in Node, NEW w, Writes(n, reply[n], s) = w,
           Leaves(n, s, w)
    PROVE  Merges(n, s, Merged(s, n))
<1>1. StagesOf(n, s) \subseteq Stages
  BY StagesOfTyped
<1> DEFINE t == [w EXCEPT !.stage_outputs = w.stage_outputs \cup StagesOf(n, s)]
<1>2. Merged(s, n) = t
  BY DEF Merged
<1>3. t \in GlobalState
  BY <1>1, ZenonT(40) DEF GlobalState, Leaves
<1>4. Wrote(n, s, t)
  BY ZenonT(40) DEF GlobalState, Leaves, Wrote
<1>5. t.stage_outputs = s.stage_outputs \cup StagesOf(n, s)
  BY DEF GlobalState, Leaves
<1> HIDE DEF t
<1> QED
  BY <1>2, <1>3, <1>4, <1>5 DEF Merges

\* doc_parse writes the paper, or the error, and nothing else.
LEMMA DocParseLeaves ==
    ASSUME NEW s \in GlobalState, NEW a, NEW w, w = doc_parse_node(s, a),
           a.word \in {"manuscript", "junk", "unreadable", "no LLM configuration"}
    PROVE  Leaves("doc_parse", s, w)
<1>1. CASE a.word \in {"manuscript", "junk"}
  <2>1. w = [s EXCEPT !.parsed_paper = a.word]
    BY <1>1 DEF doc_parse_node
  <2>2. w \in GlobalState
    BY <1>1, <2>1 DEF GlobalState
  <2>3. w.stage_outputs = s.stage_outputs
    BY <2>1 DEF GlobalState
  <2>4. Wrote("doc_parse", s, w)
    BY <1>1, <2>1 DEF Wrote, GlobalState, Reviewers, Unset
  <2> QED
    BY <2>2, <2>3, <2>4 DEF Leaves
<1>2. CASE a.word \in {"unreadable", "no LLM configuration"}
  <2>1. w = [s EXCEPT !.parse_error = a.word]
    BY <1>2 DEF doc_parse_node
  <2>2. w \in GlobalState
    BY <1>2, <2>1 DEF GlobalState
  <2>3. w.stage_outputs = s.stage_outputs
    BY <2>1 DEF GlobalState
  <2>4. Wrote("doc_parse", s, w)
    BY <1>2, <2>1 DEF Wrote, GlobalState, Reviewers, Unset
  <2> QED
    BY <2>2, <2>3, <2>4 DEF Leaves
<1> QED
  BY <1>1, <1>2

\* parse_fail_output publishes an invalid submission.
LEMMA ParseFailOutputLeaves ==
    ASSUME NEW s \in GlobalState, NEW a, NEW w, w = parse_fail_output_node(s)
    PROVE  Leaves("parse_fail_output", s, w)
<1>0. "REJECT" \in FinalDecision /\ "message" \in Letters
  BY DEF FinalDecision, Verdicts, Letters
<1>1. w = [s EXCEPT !.final_decision = "REJECT", !.decision_letter = "message"]
  BY DEF parse_fail_output_node
<1>2. w \in GlobalState
  BY <1>0, <1>1 DEF GlobalState
<1>3. w.stage_outputs = s.stage_outputs
  BY <1>1 DEF GlobalState
<1>4. Wrote("parse_fail_output", s, w)
  BY <1>1 DEF Wrote, GlobalState, Reviewers, Unset
<1> QED
  BY <1>2, <1>3, <1>4 DEF Leaves

\* content_check writes the intent.
LEMMA ContentCheckLeaves ==
    ASSUME NEW s \in GlobalState, NEW a, NEW w, w = content_check_node(s, a)
    PROVE  Leaves("content_check", s, w)
<1>0. content_check(s, a) \in {"VALID_PAPER", "NOT_PAPER"}
  BY DEF content_check
<1>1. w = [s EXCEPT !.intent = content_check(s, a)]
  BY <1>0 DEF content_check_node
<1>2. w \in GlobalState
  BY <1>0, <1>1, ZenonT(40) DEF GlobalState
<1>3. w.stage_outputs = s.stage_outputs
  BY <1>1 DEF GlobalState
<1>4. Wrote("content_check", s, w)
  BY <1>0, <1>1 DEF Wrote, GlobalState, Reviewers, Unset
<1> QED
  BY <1>2, <1>3, <1>4 DEF Leaves

\* invalid_file publishes an invalid submission.
LEMMA InvalidFileLeaves ==
    ASSUME NEW s \in GlobalState, NEW a, NEW w, w = invalid_file_node(s)
    PROVE  Leaves("invalid_file", s, w)
<1>0. "INVALID_SUBMISSION" \in FinalDecision /\ "message" \in Letters
  BY DEF FinalDecision, Letters
<1>1. w = [s EXCEPT !.final_decision = "INVALID_SUBMISSION", !.decision_letter = "message"]
  BY DEF invalid_file_node
<1>2. w \in GlobalState
  BY <1>0, <1>1 DEF GlobalState
<1>3. w.stage_outputs = s.stage_outputs
  BY <1>1 DEF GlobalState
<1>4. Wrote("invalid_file", s, w)
  BY <1>1 DEF Wrote, GlobalState, Reviewers, Unset
<1> QED
  BY <1>2, <1>3, <1>4 DEF Leaves

\* journal_req_collector writes the requirements, however few it was given.
LEMMA JournalReqCollectorLeaves ==
    ASSUME NEW s \in GlobalState, NEW a, NEW w, w = journal_req_collector_node(s)
    PROVE  Leaves("journal_req_collector", s, w)
<1>1. w = [s EXCEPT !.journal_requirements = "requirements"]
  BY DEF journal_req_collector_node
<1>2. w \in GlobalState
  BY <1>1 DEF GlobalState
<1>3. w.stage_outputs = s.stage_outputs
  BY <1>1 DEF GlobalState
<1>4. Wrote("journal_req_collector", s, w)
  BY <1>1 DEF Wrote, GlobalState, Reviewers, Unset
<1> QED
  BY <1>2, <1>3, <1>4 DEF Leaves

\* field_analyst writes no channel but its own.
LEMMA FieldAnalystLeaves ==
    ASSUME NEW s \in GlobalState
    PROVE  Leaves("field_analyst", s, s)
BY DEF Leaves, Wrote, GlobalState, Reviewers

\* se_check writes the senior editor's decision.
LEMMA SeCheckLeaves ==
    ASSUME NEW s \in GlobalState, NEW a, a.letter \in BOOLEAN, NEW w, w = se_check_node(s, a)
    PROVE  Leaves("se_check", s, w)
<1> DEFINE d == EditorDecision(a.word, "PASS")
<1>0. d \in {"PASS", "DESK_REJECT"}
  BY DEF EditorDecision
<1>1. w = [s EXCEPT !.se_decision = d, !.se_rejection_letter = a.letter]
  BY <1>0 DEF se_check_node, se_check
<1> HIDE DEF d
<1>2. w \in GlobalState
  BY <1>0, <1>1, ZenonT(40) DEF GlobalState
<1>3. w.stage_outputs = s.stage_outputs
  BY <1>1 DEF GlobalState
<1>4. Wrote("se_check", s, w)
  BY <1>0, <1>1 DEF Wrote, GlobalState, Reviewers, Unset
<1> QED
  BY <1>2, <1>3, <1>4 DEF Leaves

\* ae_check writes the associate editor's decision.
LEMMA AeCheckLeaves ==
    ASSUME NEW s \in GlobalState, NEW a, a.letter \in BOOLEAN, NEW w, w = ae_check_node(s, a)
    PROVE  Leaves("ae_check", s, w)
<1> DEFINE d == EditorDecision(a.word, "SEND_FOR_REVIEW")
<1>0. d \in {"SEND_FOR_REVIEW", "DESK_REJECT"}
  BY DEF EditorDecision
<1>1. w = [s EXCEPT !.ae_result = "screened", !.ae_decision = d,
                    !.ae_rejection_letter = a.letter]
  BY <1>0 DEF ae_check_node, ae_check
<1> HIDE DEF d
<1>2. w \in GlobalState
  BY <1>0, <1>1, ZenonT(40) DEF GlobalState
<1>3. w.stage_outputs = s.stage_outputs
  BY <1>1 DEF GlobalState
<1>4. Wrote("ae_check", s, w)
  BY <1>0, <1>1, ZenonT(40) DEF Wrote, GlobalState, Reviewers, Unset
<1> QED
  BY <1>2, <1>3, <1>4 DEF Leaves

\* review_dispatch writes a decision of the associate editor only if there is none.
LEMMA ReviewDispatchLeaves ==
    ASSUME NEW s \in GlobalState, NEW w, w = review_dispatch_node(s)
    PROVE  Leaves("review_dispatch", s, w)
<1>1. CASE NeedsDefaultContext(s)
  <2>1. w = [s EXCEPT !.ae_result = "default", !.ae_decision = "SEND_FOR_REVIEW"]
    BY <1>1 DEF review_dispatch_node, default_quick_review_ae_result
  <2>2. w \in GlobalState
    BY <2>1 DEF GlobalState
  <2>3. w.stage_outputs = s.stage_outputs
    BY <2>1 DEF GlobalState
  <2>4. Wrote("review_dispatch", s, w)
    BY <1>1, <2>1 DEF Wrote, GlobalState, Reviewers
  <2> QED
    BY <2>2, <2>3, <2>4 DEF Leaves
<1>2. CASE ~NeedsDefaultContext(s)
  <2>1. w = s
    BY <1>2 DEF review_dispatch_node
  <2> QED
    BY <1>2, <2>1 DEF Leaves, Wrote, GlobalState, Reviewers
<1> QED
  BY <1>1, <1>2

\* A review that passes the validator, whoever wrote it.
LEMMA ReportTyped ==
    ASSUME NEW n \in Reviewers \cup {"single_reviewer"}, NEW a
    PROVE  report_from_result(n, a) \in Report /\ report_from_result(n, a).reviewer_key = n
BY DEF report_from_result, Report, CommentsOf

\* A reviewer adds its report and replaces nothing.
LEMMA ReviewerLeaves ==
    ASSUME NEW s \in GlobalState, NEW n \in Reviewers, NEW a, NEW w,
           w = ReportAdded(s, report_from_result(n, a))
    PROVE  Leaves(n, s, w)
<1> DEFINE report == report_from_result(n, a)
<1>1. report \in Report /\ report.reviewer_key = n
  BY ReportTyped
<1>2. w = [s EXCEPT !.reviewer_reports = Append(s.reviewer_reports, report)]
  BY DEF ReportAdded
<1> HIDE DEF report
<1>3. s.reviewer_reports \in Seq(Report)
  BY DEF GlobalState
<1>4. Append(s.reviewer_reports, report) \in Seq(Report)
  BY <1>1, <1>3
<1>5. w \in GlobalState
  BY <1>2, <1>4 DEF GlobalState
<1>6. w.stage_outputs = s.stage_outputs
  BY <1>2 DEF GlobalState
<1>7. w.reviewer_reports = Append(s.reviewer_reports, report)
  BY <1>2 DEF GlobalState
<1>8. Wrote(n, s, w)
  BY <1>1, <1>2, <1>7 DEF Wrote, GlobalState, Reviewers
<1> QED
  BY <1>5, <1>6, <1>8 DEF Leaves

\* single_reviewer adds its report and publishes its decision.
LEMMA SingleReviewerLeaves ==
    ASSUME NEW s \in GlobalState, NEW a, a.word \in Verdicts, NEW w, w = single_reviewer_node(s, a)
    PROVE  Leaves("single_reviewer", s, w)
<1> DEFINE report == report_from_result("single_reviewer", a)
           letter == IF a.letter \/ a.word # "thin" THEN "single reviewer" ELSE ""
<1>1. report \in Report /\ report.reviewer_key = "single_reviewer"
  BY ReportTyped
<1>2. letter \in Letters
  BY DEF Letters
<1>3. a.word \in FinalDecision /\ final_decision_of(a.word) = a.word
  BY DEF FinalDecision, final_decision_of
<1>4. w = [s EXCEPT !.reviewer_reports = Append(s.reviewer_reports, report),
                    !.final_decision = a.word, !.decision_letter = letter]
  BY <1>3 DEF single_reviewer_node, single_reviewer, ReportAdded
<1> HIDE DEF report, letter
<1>5. Append(s.reviewer_reports, report) \in Seq(Report)
  <2>1. s.reviewer_reports \in Seq(Report)
    BY DEF GlobalState
  <2> QED
    BY <1>1, <2>1
<1>6. w \in GlobalState
  BY <1>2, <1>3, <1>4, <1>5, ZenonT(40) DEF GlobalState
<1>7. w.stage_outputs = s.stage_outputs
  BY <1>4 DEF GlobalState
<1>8. w.reviewer_reports = Append(s.reviewer_reports, report)
  BY <1>4 DEF GlobalState
<1>9. Wrote("single_reviewer", s, w)
  BY <1>1, <1>4, <1>8 DEF Wrote, GlobalState, Reviewers
<1> QED
  BY <1>6, <1>7, <1>9 DEF Leaves

\* ae_decision writes the decision of the panel.
LEMMA AeDecisionLeaves ==
    ASSUME NEW s \in GlobalState, NEW a, a.word \in Verdicts, NEW w, w = ae_decision_node(s, a)
    PROVE  Leaves("ae_decision", s, w)
<1>0. a.word \in FinalDecision
  BY DEF FinalDecision
<1>1. w = [s EXCEPT !.ae_decision_result = a.word]
  BY <1>0 DEF ae_decision_node, ae_decision, final_decision_of
<1>2. w \in GlobalState
  BY <1>0, <1>1 DEF GlobalState
<1>3. w.stage_outputs = s.stage_outputs
  BY <1>1 DEF GlobalState
<1>4. Wrote("ae_decision", s, w)
  BY <1>0, <1>1 DEF Wrote, GlobalState, Reviewers, Unset
<1> QED
  BY <1>2, <1>3, <1>4 DEF Leaves

\* ae_report leaves the decision alone.
LEMMA AeReportLeaves ==
    ASSUME NEW s \in GlobalState, NEW a, a.letter \in BOOLEAN, NEW w, w = ae_report_node(s, a)
    PROVE  Leaves("ae_report", s, w)
<1>1. w = [s EXCEPT !.ae_report = a.letter]
  BY DEF ae_report_node, ae_report
<1>2. w \in GlobalState
  BY <1>1 DEF GlobalState
<1>3. w.stage_outputs = s.stage_outputs
  BY <1>1 DEF GlobalState
<1>4. Wrote("ae_report", s, w)
  BY <1>1 DEF Wrote, GlobalState, Reviewers, Unset
<1> QED
  BY <1>2, <1>3, <1>4 DEF Leaves

\* ae_finalize publishes the decision of the panel.
LEMMA AeFinalizeLeaves ==
    ASSUME NEW s \in GlobalState, NEW a, NEW w, w = ae_finalize_node(s)
    PROVE  Leaves("ae_finalize", s, w)
<1> DEFINE letter == IF s.ae_report THEN "report" ELSE ""
           d == s.ae_decision_result
<1>0. letter \in Letters /\ d \in FinalDecision \cup {Unset}
  BY DEF Letters, GlobalState
<1>1. w = [s EXCEPT !.ae_final = AEFinal, !.final_decision = d,
                    !.decision_letter = letter]
  BY <1>0 DEF ae_finalize_node
<1> HIDE DEF letter
<1>2. w \in GlobalState
  BY <1>0, <1>1 DEF GlobalState
<1>3. w.stage_outputs = s.stage_outputs
  BY <1>1 DEF GlobalState
<1>4. Wrote("ae_finalize", s, w)
  BY <1>0, <1>1 DEF Wrote, GlobalState, Reviewers, Unset
<1> QED
  BY <1>2, <1>3, <1>4 DEF Leaves

\* desk_reject_output publishes a desk rejection.
LEMMA DeskRejectOutputLeaves ==
    ASSUME NEW s \in GlobalState, NEW a, NEW w, w = desk_reject_output_node(s)
    PROVE  Leaves("desk_reject_output", s, w)
<1> DEFINE letter == IF s.se_rejection_letter THEN "senior editor"
                     ELSE IF s.ae_rejection_letter THEN "associate editor" ELSE "fallback"
<1>0. letter \in Letters
  BY DEF Letters
<1>1. w = [s EXCEPT !.final_decision = "DESK_REJECT", !.decision_letter = letter]
  BY <1>0 DEF desk_reject_output_node
<1> HIDE DEF letter
<1>2. w \in GlobalState
  BY <1>0, <1>1 DEF GlobalState, FinalDecision
<1>3. w.stage_outputs = s.stage_outputs
  BY <1>1 DEF GlobalState
<1>4. Wrote("desk_reject_output", s, w)
  BY <1>0, <1>1 DEF Wrote, GlobalState, Reviewers, Unset
<1> QED
  BY <1>2, <1>3, <1>4 DEF Leaves

-----------------------------------------------------------------------------
(* What one node merges.                                                   *)

\* final_artifact_render leaves what is routed on and what was decided.
LEMMA FinalArtifactRenderKeeps ==
    ASSUME NEW s \in GlobalState, NEW a, NEW w, w = final_artifact_render_node(s, a)
    PROVE  Leaves("final_artifact_render", s, w)
<1>1. PICK author, audit \in Parts :
        w = [s EXCEPT !.rendered_artifacts = [author_report |-> author, internal_audit |-> audit]]
  BY FinalArtifactRenderLeaves
<1> DEFINE pages == [author_report |-> author, internal_audit |-> audit]
<1>2. pages \in [author_report : Parts, internal_audit : Parts]
  OBVIOUS
<1>3. w = [s EXCEPT !.rendered_artifacts = pages]
  BY <1>1
<1> HIDE DEF pages
<1>4. w \in GlobalState
  BY <1>2, <1>3 DEF GlobalState
<1>5. w.stage_outputs = s.stage_outputs
  BY <1>3 DEF GlobalState
<1>6. Wrote("final_artifact_render", s, w)
  BY <1>3 DEF Wrote, GlobalState, Reviewers
<1> QED
  BY <1>4, <1>5, <1>6 DEF Leaves

\* The nodes and the operators that stand for them.
LEMMA WritesOf ==
    ASSUME NEW s, NEW a
    PROVE  /\ Writes("doc_parse", a, s) = doc_parse_node(s, a)
           /\ Writes("parse_fail_output", a, s) = parse_fail_output_node(s)
           /\ Writes("content_check", a, s) = content_check_node(s, a)
           /\ Writes("invalid_file", a, s) = invalid_file_node(s)
           /\ Writes("journal_req_collector", a, s) = journal_req_collector_node(s)
           /\ Writes("field_analyst", a, s) = s
           /\ Writes("se_check", a, s) = se_check_node(s, a)
           /\ Writes("ae_check", a, s) = ae_check_node(s, a)
           /\ Writes("review_dispatch", a, s) = review_dispatch_node(s)
           /\ \A r \in Reviewers : Writes(r, a, s) = ReportAdded(s, report_from_result(r, a))
           /\ Writes("single_reviewer", a, s) = single_reviewer_node(s, a)
           /\ Writes("ae_decision", a, s) = ae_decision_node(s, a)
           /\ Writes("ae_report", a, s) = ae_report_node(s, a)
           /\ Writes("ae_finalize", a, s) = ae_finalize_node(s)
           /\ Writes("desk_reject_output", a, s) = desk_reject_output_node(s)
           /\ Writes("final_artifact_render", a, s) = final_artifact_render_node(s, a)
BY DEF Writes, Reviewers, run_reviewer, devils_advocate_node

\* What a node has answered when its superstep ends.
Accepted(n) ==
    \E answer \in Answers(n) : validator_for_prompt(n, answer) /\ reply[n] = Ended(answer)

\* The answers of the nodes whose merges depend on them.
LEMMA AnswersOf ==
    /\ Answers("doc_parse") = [word : {"manuscript", "junk", "unreadable", "no LLM configuration"},
                               letter : {FALSE}]
    /\ Answers("se_check") = [word : {"PASS", "DESK_REJECT", "other"}, letter : BOOLEAN]
    /\ Answers("ae_check") = [word : {"SEND_FOR_REVIEW", "DESK_REJECT", "other"}, letter : BOOLEAN]
    /\ Answers("ae_report") = [word : {"ok", "thin"} \cup Verdicts, letter : BOOLEAN]
BY DEF Answers, get_review_nodes, Reviewers

\* The validators only let one of the four verdicts through.
LEMMA ValidatorOf ==
    ASSUME NEW a
    PROVE  /\ validator_for_prompt("single_reviewer", a) => a.word \in Verdicts
           /\ validator_for_prompt("ae_decision", a) => a.word \in Verdicts
BY DEF validator_for_prompt, validate_single_reviewer_output, validate_ae_decision_output, Reviewers

\* An answer that was accepted is one the node can merge.
LEMMA AcceptedAnswer ==
    ASSUME NEW n, Accepted(n), NEW a, a = reply[n]
    PROVE  /\ n = "doc_parse" =>
                 a.word \in {"manuscript", "junk", "unreadable", "no LLM configuration"}
           /\ n \in {"se_check", "ae_check", "ae_report"} => a.letter \in BOOLEAN
           /\ n \in {"single_reviewer", "ae_decision"} => a.word \in Verdicts
<1>1. PICK answer \in Answers(n) : validator_for_prompt(n, answer) /\ a = Ended(answer)
  BY DEF Accepted
<1>2. a.word = answer.word /\ a.letter = answer.letter
  BY <1>1 DEF Ended
<1>3. ASSUME n = "doc_parse"
      PROVE  a.word \in {"manuscript", "junk", "unreadable", "no LLM configuration"}
  <2>1. answer \in [word : {"manuscript", "junk", "unreadable", "no LLM configuration"},
                    letter : {FALSE}]
    BY <1>3, AnswersOf
  <2> QED
    BY <1>2, <2>1
<1>4. ASSUME n \in {"se_check", "ae_check", "ae_report"} PROVE a.letter \in BOOLEAN
  <2>1. PICK words : answer \in [word : words, letter : BOOLEAN]
    BY <1>4, AnswersOf
  <2>2. answer.letter \in BOOLEAN
    BY <2>1
  <2> QED
    BY <1>2, <2>2
<1>5. ASSUME n \in {"single_reviewer", "ae_decision"} PROVE a.word \in Verdicts
  BY <1>1, <1>2, <1>5, ValidatorOf
<1> QED
  BY <1>3, <1>4, <1>5

\* Whatever the node, an accepted answer writes its channels and leaves the others.
LEMMA AcceptedLeaves ==
    ASSUME NEW s \in GlobalState, NEW n \in Node, Accepted(n)
    PROVE  Leaves(n, s, Writes(n, reply[n], s))
<1> DEFINE a == reply[n]
           w == Writes(n, a, s)
<1> SUFFICES Leaves(n, s, w)
  OBVIOUS
<1>0. a = reply[n]
  OBVIOUS
<1> HIDE DEF a
<1>1. CASE n = "doc_parse"
  <2>1. w = doc_parse_node(s, a)
    BY <1>1, WritesOf
  <2>2. a.word \in {"manuscript", "junk", "unreadable", "no LLM configuration"}
    BY <1>0, <1>1, AcceptedAnswer
  <2> HIDE DEF w
  <2> QED
    BY <1>1, <2>1, <2>2, DocParseLeaves
<1>2. CASE n = "parse_fail_output"
  <2>1. w = parse_fail_output_node(s)
    BY <1>2, WritesOf
  <2> HIDE DEF w
  <2> QED
    BY <1>2, <2>1, ParseFailOutputLeaves
<1>3. CASE n = "content_check"
  <2>1. w = content_check_node(s, a)
    BY <1>3, WritesOf
  <2> HIDE DEF w
  <2> QED
    BY <1>3, <2>1, ContentCheckLeaves
<1>4. CASE n = "invalid_file"
  <2>1. w = invalid_file_node(s)
    BY <1>4, WritesOf
  <2> HIDE DEF w
  <2> QED
    BY <1>4, <2>1, InvalidFileLeaves
<1>5. CASE n = "journal_req_collector"
  <2>1. w = journal_req_collector_node(s)
    BY <1>5, WritesOf
  <2> HIDE DEF w
  <2> QED
    BY <1>5, <2>1, JournalReqCollectorLeaves
<1>6. CASE n = "field_analyst"
  <2>1. w = s
    BY <1>6, WritesOf
  <2> HIDE DEF w
  <2> QED
    BY <1>6, <2>1, FieldAnalystLeaves
<1>7. CASE n = "se_check"
  <2>1. w = se_check_node(s, a)
    BY <1>7, WritesOf
  <2>2. a.letter \in BOOLEAN
    BY <1>0, <1>7, AcceptedAnswer
  <2> HIDE DEF w
  <2> QED
    BY <1>7, <2>1, <2>2, SeCheckLeaves
<1>8. CASE n = "ae_check"
  <2>1. w = ae_check_node(s, a)
    BY <1>8, WritesOf
  <2>2. a.letter \in BOOLEAN
    BY <1>0, <1>8, AcceptedAnswer
  <2> HIDE DEF w
  <2> QED
    BY <1>8, <2>1, <2>2, AeCheckLeaves
<1>9. CASE n = "review_dispatch"
  <2>1. w = review_dispatch_node(s)
    BY <1>9, WritesOf
  <2> HIDE DEF w
  <2> QED
    BY <1>9, <2>1, ReviewDispatchLeaves
<1>10. CASE n \in Reviewers
  <2>1. w = ReportAdded(s, report_from_result(n, a))
    BY <1>10, WritesOf
  <2> HIDE DEF w
  <2> QED
    BY <1>10, <2>1, ReviewerLeaves
<1>11. CASE n = "single_reviewer"
  <2>1. w = single_reviewer_node(s, a)
    BY <1>11, WritesOf
  <2>2. a.word \in Verdicts
    BY <1>0, <1>11, AcceptedAnswer
  <2> HIDE DEF w
  <2> QED
    BY <1>11, <2>1, <2>2, SingleReviewerLeaves
<1>12. CASE n = "ae_decision"
  <2>1. w = ae_decision_node(s, a)
    BY <1>12, WritesOf
  <2>2. a.word \in Verdicts
    BY <1>0, <1>12, AcceptedAnswer
  <2> HIDE DEF w
  <2> QED
    BY <1>12, <2>1, <2>2, AeDecisionLeaves
<1>13. CASE n = "ae_report"
  <2>1. w = ae_report_node(s, a)
    BY <1>13, WritesOf
  <2>2. a.letter \in BOOLEAN
    BY <1>0, <1>13, AcceptedAnswer
  <2> HIDE DEF w
  <2> QED
    BY <1>13, <2>1, <2>2, AeReportLeaves
<1>14. CASE n = "ae_finalize"
  <2>1. w = ae_finalize_node(s)
    BY <1>14, WritesOf
  <2> HIDE DEF w
  <2> QED
    BY <1>14, <2>1, AeFinalizeLeaves
<1>15. CASE n = "desk_reject_output"
  <2>1. w = desk_reject_output_node(s)
    BY <1>15, WritesOf
  <2> HIDE DEF w
  <2> QED
    BY <1>15, <2>1, DeskRejectOutputLeaves
<1>16. CASE n = "final_artifact_render"
  <2>1. w = final_artifact_render_node(s, a)
    BY <1>16, WritesOf
  <2> HIDE DEF w
  <2> QED
    BY <1>16, <2>1, FinalArtifactRenderKeeps
<1> QED
  BY <1>1, <1>2, <1>3, <1>4, <1>5, <1>6, <1>7, <1>8, <1>9, <1>10, <1>11, <1>12, <1>13, <1>14,
     <1>15, <1>16 DEF Node

\* Merging it names its stages, too.
LEMMA AcceptedMerges ==
    ASSUME NEW s \in GlobalState, NEW n \in Node, Accepted(n)
    PROVE  Merges(n, s, Merged(s, n))
<1> DEFINE w == Writes(n, reply[n], s)
<1>1. Leaves(n, s, w)
  BY AcceptedLeaves
<1>2. Writes(n, reply[n], s) = w
  OBVIOUS
<1> HIDE DEF w
<1> QED
  BY <1>1, <1>2, StagesMerged

-----------------------------------------------------------------------------
(* What a superstep merges.                                                *)

\* What the superstep of the four reviewers does.
PanelMerged(s, t) ==
    /\ t \in GlobalState
    /\ t.parsed_paper = s.parsed_paper /\ t.parse_error = s.parse_error
    /\ t.intent = s.intent /\ t.journal_requirements = s.journal_requirements
    /\ t.se_decision = s.se_decision
    /\ t.ae_result = s.ae_result /\ t.ae_decision = s.ae_decision
    /\ s.reviewer_reports = << >> => Panel(t.reviewer_reports)
    /\ t.ae_decision_result = s.ae_decision_result /\ t.final_decision = s.final_decision
    /\ t.stage_outputs = s.stage_outputs \cup Reviewers

\* What the merge of one reviewer leaves alone.
LEMMA ReviewerMerges ==
    ASSUME NEW s \in GlobalState, NEW r \in Reviewers, NEW t, Merges(r, s, t)
    PROVE  /\ t \in GlobalState
           /\ t.parsed_paper = s.parsed_paper /\ t.parse_error = s.parse_error
           /\ t.intent = s.intent /\ t.journal_requirements = s.journal_requirements
           /\ t.se_decision = s.se_decision
           /\ t.ae_result = s.ae_result /\ t.ae_decision = s.ae_decision
           /\ t.ae_decision_result = s.ae_decision_result /\ t.final_decision = s.final_decision
           /\ t.stage_outputs = s.stage_outputs \cup {r}
           /\ \E report \in Report : /\ report.reviewer_key = r
                                     /\ t.reviewer_reports = Append(s.reviewer_reports, report)
<1>1. StagesOf(r, s) = {r}
  BY DEF StagesOf, Reviewers
<1> QED
  BY <1>1 DEF Merges, Wrote, Reviewers

\* The panel has four reviewers.
LEMMA ReviewersAreFour ==
    IsFiniteSet(Reviewers) /\ Cardinality(Reviewers) = 4
<1>1. IsFiniteSet({}) /\ Cardinality({}) = 0
  BY FS_EmptySet
<1>2. IsFiniteSet({"reviewer1"}) /\ Cardinality({"reviewer1"}) = 1
  BY FS_Singleton
<1>3. IsFiniteSet({"reviewer1", "reviewer2"}) /\ Cardinality({"reviewer1", "reviewer2"}) = 2
  <2>1. {"reviewer1", "reviewer2"} = {"reviewer1"} \cup {"reviewer2"}
    OBVIOUS
  <2> QED
    BY <1>2, <2>1, FS_AddElement
<1>4. IsFiniteSet({"reviewer1", "reviewer2", "reviewer3"})
      /\ Cardinality({"reviewer1", "reviewer2", "reviewer3"}) = 3
  <2>1. {"reviewer1", "reviewer2", "reviewer3"} = {"reviewer1", "reviewer2"} \cup {"reviewer3"}
    OBVIOUS
  <2> QED
    BY <1>3, <2>1, FS_AddElement
<1>5. Reviewers = {"reviewer1", "reviewer2", "reviewer3"} \cup {"devils_advocate"}
  BY DEF Reviewers
<1> QED
  BY <1>4, <1>5, FS_AddElement

\* The panel is merged one reviewer after the other, each of them once.
LEMMA PanelInOrder ==
    ASSUME NEW s, NEW order \in SetToSeqs(Reviewers)
    PROVE  /\ order \in [1..4 -> Reviewers]
           /\ \A i, j \in 1..4 : i # j => order[i] # order[j]
           /\ MergedInOrder(s, order)
                 = Merged(Merged(Merged(Merged(s, order[1]), order[2]), order[3]), order[4])
<1>1. /\ order \in [1..4 -> Reviewers]
      /\ \A i, j \in 1..4 : i # j => order[i] # order[j]
  BY ReviewersAreFour DEF SetToSeqs
<1> DEFINE n == 4
<1>2. DOMAIN order = 1..n /\ n \in Nat
  BY <1>1
<1> HIDE DEF n
<1>3. PICK acc : /\ acc[0] = s
                 /\ \A k \in 1..n : acc[k] = Merged(acc[k - 1], order[k])
                 /\ MergedInOrder(s, order) = acc[n]
  BY <1>2, FoldSteps
<1>4. n = 4 /\ 1 - 1 = 0 /\ 2 - 1 = 1 /\ 3 - 1 = 2 /\ 4 - 1 = 3
      /\ 1 \in 1..4 /\ 2 \in 1..4 /\ 3 \in 1..4 /\ 4 \in 1..4
  BY DEF n
<1>5. /\ acc[1] = Merged(s, order[1]) /\ acc[2] = Merged(acc[1], order[2])
      /\ acc[3] = Merged(acc[2], order[3]) /\ acc[4] = Merged(acc[3], order[4])
  BY <1>3, <1>4
<1> QED
  BY <1>1, <1>3, <1>4, <1>5

\* In whatever order the four reviewers are merged, each has one report.
LEMMA PanelMerges ==
    ASSUME NEW s \in GlobalState, \A r \in Reviewers : Accepted(r),
           NEW order \in SetToSeqs(Reviewers)
    PROVE  PanelMerged(s, MergedInOrder(s, order))
<1>1. /\ order \in [1..4 -> Reviewers]
      /\ \A i, j \in 1..4 : i # j => order[i] # order[j]
  BY PanelInOrder
<1> DEFINE s1 == Merged(s, order[1])  s2 == Merged(s1, order[2])
           s3 == Merged(s2, order[3])  s4 == Merged(s3, order[4])
<1>2. MergedInOrder(s, order) = s4
  BY PanelInOrder
<1>3. \A k \in 1..4 : order[k] \in Reviewers /\ order[k] \in Node /\ Accepted(order[k])
  BY <1>1 DEF Node
<1>4. /\ s1 = Merged(s, order[1]) /\ s2 = Merged(s1, order[2])
      /\ s3 = Merged(s2, order[3]) /\ s4 = Merged(s3, order[4])
  OBVIOUS
<1> HIDE DEF s1, s2, s3, s4
<1> DEFINE o1 == order[1]  o2 == order[2]  o3 == order[3]  o4 == order[4]
<1>5. Merges(o1, s, s1) /\ s1 \in GlobalState
  BY <1>3, <1>4, AcceptedMerges DEF Merges
<1>6. Merges(o2, s1, s2) /\ s2 \in GlobalState
  BY <1>3, <1>4, <1>5, AcceptedMerges DEF Merges
<1>7. Merges(o3, s2, s3) /\ s3 \in GlobalState
  BY <1>3, <1>4, <1>6, AcceptedMerges DEF Merges
<1>8. Merges(o4, s3, s4) /\ s4 \in GlobalState
  BY <1>3, <1>4, <1>7, AcceptedMerges DEF Merges
<1>9. Reviewers = {o1, o2, o3, o4} /\ o1 # o2 /\ o1 # o3 /\ o1 # o4 /\ o2 # o3 /\ o2 # o4 /\ o3 # o4
  BY <1>1 DEF Reviewers
<1>10. o1 \in Reviewers /\ o2 \in Reviewers /\ o3 \in Reviewers /\ o4 \in Reviewers
  BY <1>3
<1> HIDE DEF o1, o2, o3, o4
<1>11. PICK q1 \in Report : /\ q1.reviewer_key = o1
                            /\ s1.reviewer_reports = Append(s.reviewer_reports, q1)
  BY <1>5, <1>10, ReviewerMerges
<1>12. PICK q2 \in Report : /\ q2.reviewer_key = o2
                            /\ s2.reviewer_reports = Append(s1.reviewer_reports, q2)
  BY <1>5, <1>6, <1>10, ReviewerMerges
<1>13. PICK q3 \in Report : /\ q3.reviewer_key = o3
                            /\ s3.reviewer_reports = Append(s2.reviewer_reports, q3)
  BY <1>6, <1>7, <1>10, ReviewerMerges
<1>14. PICK q4 \in Report : /\ q4.reviewer_key = o4
                            /\ s4.reviewer_reports = Append(s3.reviewer_reports, q4)
  BY <1>7, <1>8, <1>10, ReviewerMerges
<1>15. ASSUME s.reviewer_reports = << >> PROVE Panel(s4.reviewer_reports)
  <2> DEFINE r1 == s1.reviewer_reports  r2 == s2.reviewer_reports
             r3 == s3.reviewer_reports  r4 == s4.reviewer_reports
  <2>1. r1 \in Seq(Report) /\ Len(r1) = 1 /\ r1[1] = q1
    BY <1>11, <1>15
  <2> HIDE DEF r1
  <2>2. r2 \in Seq(Report) /\ Len(r2) = 2 /\ r2[1] = q1 /\ r2[2] = q2
    BY <1>12, <2>1 DEF r1
  <2> HIDE DEF r2
  <2>3. r3 \in Seq(Report) /\ Len(r3) = 3 /\ r3[1] = q1 /\ r3[2] = q2 /\ r3[3] = q3
    BY <1>13, <2>2 DEF r2
  <2> HIDE DEF r3
  <2>4. Len(r4) = 4 /\ r4[1] = q1 /\ r4[2] = q2 /\ r4[3] = q3 /\ r4[4] = q4
    BY <1>14, <2>3, SMTT(30) DEF r3
  <2> HIDE DEF r4
  <2> QED
    BY <1>9, <1>11, <1>12, <1>13, <1>14, <2>4 DEF Panel, r4
<1>16. s4.stage_outputs = s.stage_outputs \cup Reviewers
  <2>1. s1.stage_outputs = s.stage_outputs \cup {o1}
    BY <1>5, <1>10, ReviewerMerges
  <2>2. s2.stage_outputs = s1.stage_outputs \cup {o2}
    BY <1>5, <1>6, <1>10, ReviewerMerges
  <2>3. s3.stage_outputs = s2.stage_outputs \cup {o3}
    BY <1>6, <1>7, <1>10, ReviewerMerges
  <2>4. s4.stage_outputs = s3.stage_outputs \cup {o4}
    BY <1>7, <1>8, <1>10, ReviewerMerges
  <2> QED
    BY <1>9, <2>1, <2>2, <2>3, <2>4
<1>17. /\ s4.parsed_paper = s.parsed_paper /\ s4.parse_error = s.parse_error
       /\ s4.intent = s.intent /\ s4.journal_requirements = s.journal_requirements
       /\ s4.se_decision = s.se_decision
       /\ s4.ae_result = s.ae_result /\ s4.ae_decision = s.ae_decision
       /\ s4.ae_decision_result = s.ae_decision_result /\ s4.final_decision = s.final_decision
  BY <1>5, <1>6, <1>7, <1>8, <1>10, ReviewerMerges
<1> QED
  BY <1>2, <1>8, <1>15, <1>16, <1>17 DEF PanelMerged, s4

\* A superstep of one node merges that node.
LEMMA OneMerged ==
    ASSUME EndSuperstep, NEW n \in Node, frontier = {n}
    PROVE  state' = Merged(state, n)
<1>1. PICK order \in SetToSeqs({n}) : state' = MergedInOrder(state, order)
  BY DEF EndSuperstep
<1>2. DOMAIN order = 1..1 /\ order[1] = n
  <2>1. Cardinality({n}) = 1
    BY FS_Singleton
  <2> QED
    BY <2>1 DEF SetToSeqs
<1>3. MergedInOrder(state, order) = Merged(state, n)
  <2> DEFINE m == 1
  <2>1. m \in Nat /\ DOMAIN order = 1..m
    BY <1>2
  <2> HIDE DEF m
  <2>2. PICK acc : /\ acc[0] = state
                   /\ \A k \in 1..m : acc[k] = Merged(acc[k - 1], order[k])
                   /\ MergedInOrder(state, order) = acc[m]
    BY <2>1, FoldSteps
  <2>3. m = 1 /\ 1 \in 1..1 /\ 1 - 1 = 0
    BY DEF m
  <2> QED
    BY <1>2, <2>2, <2>3
<1> QED
  BY <1>1, <1>3

\* What a superstep does, whatever the order in which its nodes are merged.
LEMMA SuperstepMerged ==
    ASSUME TypeOK, NodesTell, AtItsPlace, EndSuperstep
    PROVE  /\ \/ \E n \in Node \ Reviewers :
                    frontier = {n} /\ Merges(n, state, state') /\ frontier' = Edges(n, state')
              \/ /\ frontier = Reviewers /\ PanelMerged(state, state')
                 /\ frontier' = {"ae_decision"}
           /\ reply' = [n \in Node |-> At("not started")]
           /\ \A n \in frontier : Accepted(n) /\ nodes[n] = "SUCCEEDED"
           /\ UNCHANGED <<mode, nodes, outcome>>
<1>1. \A n \in frontier : Accepted(n) /\ nodes[n] = "SUCCEEDED"
  <2> SUFFICES ASSUME NEW n \in frontier PROVE Accepted(n) /\ nodes[n] = "SUCCEEDED"
    OBVIOUS
  <2>1. reply[n].at = "ended"
    BY DEF EndSuperstep
  <2>2. Tells(n)
    BY DEF NodesTell
  <2> QED
    BY <2>1, <2>2 DEF Tells, Accepted
<1>2. state \in GlobalState
  BY DEF TypeOK
<1>3. CASE frontier = Reviewers
  <2>1. PICK order \in SetToSeqs(Reviewers) : state' = MergedInOrder(state, order)
    BY <1>3 DEF EndSuperstep
  <2>2. PanelMerged(state, state')
    BY <1>1, <1>2, <1>3, <2>1, PanelMerges
  <2>3. \A r \in Reviewers : Edges(r, state') = {"ae_decision"}
    BY <1>1, <1>3 DEF Edges, Reviewers
  <2>4. frontier' = {"ae_decision"}
    <3>1. frontier' = UNION {Edges(n, state') : n \in Reviewers}
      BY <1>3 DEF EndSuperstep
    <3>2. "reviewer1" \in Reviewers
      BY DEF Reviewers
    <3> QED
      BY <2>3, <3>1, <3>2
  <2> QED
    BY <1>1, <1>3, <2>2, <2>4 DEF EndSuperstep
<1>4. ASSUME NEW n \in Node \ Reviewers, frontier = {n}
      PROVE  Merges(n, state, state') /\ frontier' = Edges(n, state')
  <2>1. state' = Merged(state, n)
    BY <1>4, OneMerged
  <2>2. Merges(n, state, Merged(state, n))
    BY <1>1, <1>2, <1>4, AcceptedMerges
  <2>3. frontier' = UNION {Edges(k, state') : k \in {n}}
    BY <1>4 DEF EndSuperstep
  <2>4. frontier' = Edges(n, state')
    BY <2>3
  <2> QED
    BY <2>1, <2>2, <2>4
<1>5. frontier # {}
  BY DEF EndSuperstep
<1> QED
  BY <1>1, <1>3, <1>4, <1>5 DEF AtItsPlace, EndSuperstep

-----------------------------------------------------------------------------
(* The canonical order of the reports.                                     *)

\* run() orders the reports as the renderer does.
LEMMA SameSort ==
    ASSUME NEW reports PROVE SortedReports(reports) = sorted_reports(reports)
BY DEF SortedReports, sorted_reports

\* The canonical order of a panel.
LEMMA CanonicalOrder ==
    ASSUME NEW reports \in Seq(Report), Panel(reports)
    PROVE  Keys(sorted_reports(reports))
              = <<"reviewer1", "reviewer2", "reviewer3", "devils_advocate">>
<1> DEFINE rank(r) == CASE r.reviewer_key = "reviewer1" -> 0
                     [] r.reviewer_key = "reviewer2" -> 1
                     [] r.reviewer_key = "reviewer3" -> 2
                     [] r.reviewer_key = "devils_advocate" -> 3
                     [] OTHER -> 99
           set(i) == {k \in DOMAIN reports :
                           \/ rank(reports[k]) < rank(reports[i])
                           \/ rank(reports[k]) = rank(reports[i]) /\ k <= i}
           place(i) == Cardinality(set(i))
           key(i) == reports[i].reviewer_key
<1>1. DOMAIN reports = 1..4 /\ Len(reports) = 4
  BY DEF Panel
<1>2. PICK a \in 1..4, b \in 1..4, c \in 1..4, d \in 1..4 :
        key(a) = "reviewer1" /\ key(b) = "reviewer2" /\ key(c) = "reviewer3"
        /\ key(d) = "devils_advocate"
  <2>1. /\ \E i \in 1..4 : key(i) = "reviewer1"
        /\ \E i \in 1..4 : key(i) = "reviewer2"
        /\ \E i \in 1..4 : key(i) = "reviewer3"
        /\ \E i \in 1..4 : key(i) = "devils_advocate"
    BY DEF Panel, Reviewers
  <2> QED
    BY <2>1
<1>3. 1..4 = {a, b, c, d} /\ a # b /\ a # c /\ a # d /\ b # c /\ b # d /\ c # d
  BY <1>2
<1>4. /\ rank(reports[a]) = 0 /\ rank(reports[b]) = 1 /\ rank(reports[c]) = 2
      /\ rank(reports[d]) = 3
  BY <1>2
<1> HIDE DEF rank
<1>5. set(a) = {a} /\ set(b) = {a, b} /\ set(c) = {a, b, c} /\ set(d) = {a, b, c, d}
  BY <1>1, <1>3, <1>4
<1> HIDE DEF set
<1>6. place(a) = 1 /\ place(b) = 2 /\ place(c) = 3 /\ place(d) = 4
  <2>1. IsFiniteSet({a}) /\ Cardinality({a}) = 1
    BY FS_Singleton
  <2>2. IsFiniteSet({a, b}) /\ Cardinality({a, b}) = 2
    <3>1. b \notin {a}
      BY <1>3
    <3> DEFINE T == {a}
    <3>2. IsFiniteSet(T) /\ Cardinality(T) = 1 /\ b \notin T
      BY <2>1, <3>1
    <3> HIDE DEF T
    <3>3. IsFiniteSet(T \cup {b}) /\ Cardinality(T \cup {b}) = 2
      BY <3>2, FS_AddElement
    <3>4. T \cup {b} = {a, b}
      BY DEF T
    <3> QED
      BY <3>3, <3>4
  <2>3. IsFiniteSet({a, b, c}) /\ Cardinality({a, b, c}) = 3
    <3>1. c \notin {a, b}
      BY <1>3
    <3> DEFINE T == {a, b}
    <3>2. IsFiniteSet(T) /\ Cardinality(T) = 2 /\ c \notin T
      BY <2>2, <3>1
    <3> HIDE DEF T
    <3>3. IsFiniteSet(T \cup {c}) /\ Cardinality(T \cup {c}) = 3
      BY <3>2, FS_AddElement
    <3>4. T \cup {c} = {a, b, c}
      BY DEF T
    <3> QED
      BY <3>3, <3>4
  <2>4. Cardinality({a, b, c, d}) = 4
    <3>1. d \notin {a, b, c}
      BY <1>3
    <3> DEFINE T == {a, b, c}
    <3>2. IsFiniteSet(T) /\ Cardinality(T) = 3 /\ d \notin T
      BY <2>3, <3>1
    <3> HIDE DEF T
    <3>3. IsFiniteSet(T \cup {d}) /\ Cardinality(T \cup {d}) = 4
      BY <3>2, FS_AddElement
    <3>4. T \cup {d} = {a, b, c, d}
      BY DEF T
    <3> QED
      BY <3>3, <3>4
  <2> QED
    BY <1>5, <2>1, <2>2, <2>3, <2>4
<1> DEFINE sorted == sorted_reports(reports)
<1>7. sorted = [m \in DOMAIN reports |-> reports[CHOOSE i \in DOMAIN reports : place(i) = m]]
  BY DEF sorted_reports, Sorted, set, rank
<1> HIDE DEF place
<1>8. /\ (CHOOSE i \in DOMAIN reports : place(i) = 1) = a
      /\ (CHOOSE i \in DOMAIN reports : place(i) = 2) = b
      /\ (CHOOSE i \in DOMAIN reports : place(i) = 3) = c
      /\ (CHOOSE i \in DOMAIN reports : place(i) = 4) = d
  <2>1. \A i \in DOMAIN reports : /\ place(i) = 1 <=> i = a
                                  /\ place(i) = 2 <=> i = b
                                  /\ place(i) = 3 <=> i = c
                                  /\ place(i) = 4 <=> i = d
    BY <1>1, <1>3, <1>6
  <2>2. a \in DOMAIN reports /\ b \in DOMAIN reports /\ c \in DOMAIN reports /\ d \in DOMAIN reports
    BY <1>1
  <2> QED
    BY <2>1, <2>2
<1>9. /\ sorted[1] = reports[a] /\ sorted[2] = reports[b]
      /\ sorted[3] = reports[c] /\ sorted[4] = reports[d]
      /\ DOMAIN sorted = 1..4
  <2> HIDE DEF sorted
  <2> DEFINE from(m) == CHOOSE i \in DOMAIN reports : place(i) = m
  <2>1. sorted = [m \in 1..4 |-> reports[from(m)]]
    BY <1>1, <1>7
  <2>2. from(1) = a /\ from(2) = b /\ from(3) = c /\ from(4) = d
    BY <1>8
  <2> HIDE DEF from
  <2> QED
    BY <2>1, <2>2
<1> HIDE DEF sorted
<1>10. Keys(sorted) = [i \in 1..4 |-> sorted[i].reviewer_key]
  BY <1>9 DEF Keys
<1> QED
  BY <1>2, <1>9, <1>10 DEF sorted

-----------------------------------------------------------------------------
(* The start of a run, and the steps of a node.                            *)

\* No report is a sequence of reports, and no part one of parts.
LEMMA NothingTyped ==
    ASSUME NEW S PROVE << >> \in Seq(S)
OBVIOUS

\* A run that was just submitted.
LEMMA InitIInv == Init => IInv
<1> SUFFICES ASSUME Init PROVE IInv
  OBVIOUS
<1> USE DEF Init
<1>0. frontier = {"doc_parse"} /\ state = initial_state /\ Done = {}
  BY DEF Done
<1>10. Visited = {"doc_parse"} /\ outcome = "RUNNING"
  BY <1>0 DEF Visited
<1>11. /\ state.parsed_paper = Unset /\ state.parse_error = "" /\ state.intent = Unset
       /\ state.journal_requirements = Unset /\ state.se_decision = Unset
       /\ state.ae_result = Unset /\ state.ae_decision = Unset
       /\ state.reviewer_reports = << >> /\ state.ae_decision_result = Unset
       /\ state.final_decision = Unset /\ state.stage_outputs = {}
  BY DEF initial_state
<1>12. Reviewers \cap Done = {}
  BY <1>0
<1>1. TypeOK
  <2>1. << >> \in Parts
    BY NothingTyped DEF Parts
  <2>10. << >> \in Seq(Report)
    BY NothingTyped
  <2>2. initial_state \in GlobalState
    BY <2>1, <2>10 DEF initial_state, GlobalState, Letters
  <2>3. At("not started") \in Progress
    BY DEF At, Progress, Words
  <2> QED
    BY <2>2, <2>3 DEF TypeOK, Node
<1>2. AtItsPlace
  BY <1>0 DEF AtItsPlace, Before, Node, Reviewers
<1>3. Routed
  BY <1>10, <1>11 DEF Routed, Unset
<1>4. NodesTell
  BY <1>0 DEF NodesTell, Tells, At, Node
<1>5. ChannelsWritten
  BY <1>0, <1>11 DEF ChannelsWritten, Unset
<1>6. ReportsAdded
  BY <1>0, <1>11 DEF ReportsAdded
<1>7. Decided
  BY <1>0, <1>11 DEF Decided
<1>8. StagesNamed
  BY <1>11 DEF StagesNamed
<1>9. InOrder
  BY DEF InOrder
<1> QED
  BY <1>1, <1>2, <1>3, <1>4, <1>5, <1>6, <1>7, <1>8, <1>9 DEF IInv

\* Every answer a node can be given is an answer.
LEMMA AnswerTyped ==
    ASSUME NEW n \in Node, NEW answer \in Answers(n)
    PROVE  answer \in Answer
<1>1. PICK words \in SUBSET Words, letters \in SUBSET BOOLEAN :
          Answers(n) = [word : words, letter : letters]
  <2>1. CASE n = "doc_parse"
    <3>1. Answers(n) = [word : {"manuscript", "junk", "unreadable", "no LLM configuration"},
                        letter : {FALSE}]
      BY <2>1, AnswersOf
    <3> QED
      BY <3>1 DEF Words
  <2>2. CASE n = "content_check"
    <3>1. Answers(n) = [word : {"paper", "no paper"}, letter : {FALSE}]
      BY <2>2 DEF Answers, Reviewers
    <3> QED
      BY <3>1 DEF Words
  <2>3. CASE n = "se_check"
    <3>1. Answers(n) = [word : {"PASS", "DESK_REJECT", "other"}, letter : BOOLEAN]
      BY <2>3, AnswersOf
    <3> QED
      BY <3>1 DEF Words, FinalDecision
  <2>4. CASE n = "ae_check"
    <3>1. Answers(n) = [word : {"SEND_FOR_REVIEW", "DESK_REJECT", "other"}, letter : BOOLEAN]
      BY <2>4, AnswersOf
    <3> QED
      BY <3>1 DEF Words, FinalDecision
  <2>5. CASE n \in Reviewers
    <3>1. Answers(n) = [word : {"ok", "thin"}, letter : {FALSE}]
      BY <2>5 DEF Answers, Reviewers
    <3> QED
      BY <3>1 DEF Words
  <2>6. CASE n = "single_reviewer"
    <3>1. Answers(n) = [word : FinalDecision \cup {"other", "thin"}, letter : BOOLEAN]
      BY <2>6 DEF Answers, Reviewers
    <3> QED
      BY <3>1 DEF Words
  <2>7. CASE n = "ae_decision"
    <3>1. Answers(n) = [word : FinalDecision \cup {"other"}, letter : {FALSE}]
      BY <2>7 DEF Answers, Reviewers
    <3> QED
      BY <3>1 DEF Words
  <2>8. CASE n = "ae_report"
    <3>1. Answers(n) = [word : {"ok", "thin"} \cup Verdicts, letter : BOOLEAN]
      BY <2>8, AnswersOf
    <3> QED
      BY <3>1 DEF Words, FinalDecision
  <2>9. CASE n = "final_artifact_render"
    <3>1. Answers(n) = [word : {"ok", "thin", "other"}, letter : {FALSE}]
      BY <2>9 DEF Answers, Reviewers
    <3> QED
      BY <3>1 DEF Words
  <2>10. CASE n \notin Reviewers \cup {"doc_parse", "content_check", "se_check", "ae_check",
                    "single_reviewer", "ae_decision", "ae_report", "final_artifact_render"}
    <3>1. Answers(n) = [word : {"ok"}, letter : {FALSE}]
      BY <2>10 DEF Answers
    <3> QED
      BY <3>1 DEF Words
  <2> QED
    BY <2>1, <2>2, <2>3, <2>4, <2>5, <2>6, <2>7, <2>8, <2>9, <2>10
<1> QED
  BY <1>1 DEF Answer

\* What only looks at the channels and at what is done.
Settled == AtItsPlace /\ Routed /\ ChannelsWritten /\ ReportsAdded /\ Decided /\ StagesNamed

\* What has been merged stays as it is while no node is merged.
LEMMA SettledKept ==
    ASSUME Settled, UNCHANGED <<mode, state, frontier>>, Done' = Done
    PROVE  Settled'
<1>1. Visited' = Visited
  BY DEF Visited
<1>2. \A n : Before(n)' = Before(n)
  BY DEF Before, Screening
<1>3. Exit' = Exit
  BY DEF Exit
<1>4. AtItsPlace'
  BY <1>2, <1>3 DEF Settled, AtItsPlace
<1>5. Routed'
  BY <1>1 DEF Settled, Routed
<1>6. ChannelsWritten' /\ ReportsAdded' /\ Decided' /\ StagesNamed'
  BY DEF Settled, ChannelsWritten, ReportsAdded, Decided, StagesNamed
<1> QED
  BY <1>4, <1>5, <1>6 DEF Settled

\* A node moves on within its superstep.
LEMMA NodeStepStays ==
    ASSUME TypeOK, NodesTell, NEW n \in Node, NodeStep(n)
    PROVE  /\ n \in frontier /\ outcome = "RUNNING" /\ UNCHANGED <<mode, state, frontier, outcome>>
           /\ \A k \in Node \ {n} : nodes'[k] = nodes[k] /\ reply'[k] = reply[k]
           /\ nodes' \in [Node -> {"NONE", "RUNNING", "SUCCEEDED", "FAILED"}]
           /\ Done' = Done
<1>1. n \in frontier /\ outcome = "RUNNING" /\ UNCHANGED <<mode, state, frontier, outcome>>
  <2>1. reply[n] # At("not started") => n \in frontier
    BY DEF NodesTell
  <2>2. At("not started").at = "not started"
    BY DEF At
  <2> QED
    BY <2>1, <2>2 DEF NodeStep, Start, Finish, Fail, Running
<1>2. /\ \A k \in Node \ {n} : nodes'[k] = nodes[k] /\ reply'[k] = reply[k]
      /\ nodes' \in [Node -> {"NONE", "RUNNING", "SUCCEEDED", "FAILED"}]
  BY DEF NodeStep, Start, Finish, Fail, TypeOK
<1>3. Done' = Done
  BY <1>1, <1>2 DEF Done
<1> QED
  BY <1>1, <1>2, <1>3

\* A node reports: nothing is merged.
LEMMA NodeStepIInv ==
    ASSUME IInv, NEW n \in Node, NodeStep(n)
    PROVE  IInv'
<1> USE DEF IInv
<1>1. n \in frontier /\ outcome = "RUNNING" /\ UNCHANGED <<mode, state, frontier, outcome>>
  BY NodeStepStays
<1>2. /\ \A k \in Node \ {n} : nodes'[k] = nodes[k] /\ reply'[k] = reply[k]
      /\ nodes' \in [Node -> {"NONE", "RUNNING", "SUCCEEDED", "FAILED"}]
  BY NodeStepStays
<1>3. Done' = Done
  BY NodeStepStays
<1>4. Settled'
  BY <1>1, <1>3, SettledKept DEF Settled
<1>5. Tells(n)' /\ reply' \in [Node -> Progress]
  <2>1. CASE Start(n)
    <3>1. reply'[n] = At("asking") /\ nodes'[n] = "RUNNING"
      BY <2>1 DEF Start, TypeOK
    <3>2. At("asking") \in Progress /\ At("asking").at = "asking"
      BY DEF At, Progress, Words
    <3>3. reply' \in [Node -> Progress]
      BY <2>1, <3>2 DEF Start, TypeOK
    <3> QED
      BY <3>1, <3>2, <3>3 DEF Tells
  <2>2. CASE Finish(n)
    <3>1. PICK answer \in Answers(n) :
            validator_for_prompt(n, answer) /\ reply' = [reply EXCEPT ![n] = Ended(answer)]
      BY <2>2 DEF Finish
    <3>2. reply'[n] = Ended(answer) /\ nodes'[n] = "SUCCEEDED"
      BY <2>2, <3>1 DEF Finish, TypeOK
    <3>3. Ended(answer) \in Progress
      <4>1. answer \in Answer
        BY AnswerTyped
      <4> QED
        BY <4>1 DEF Ended, Progress, Answer
    <3>4. reply' \in [Node -> Progress]
      BY <3>1, <3>3 DEF TypeOK
    <3> QED
      BY <3>1, <3>2, <3>4 DEF Tells
  <2>3. CASE Fail(n)
    <3>1. reply'[n] = At("raised") /\ nodes'[n] = "FAILED"
      BY <2>3 DEF Fail, TypeOK
    <3>2. At("raised") \in Progress /\ At("raised").at = "raised"
      BY DEF At, Progress, Words
    <3>3. reply' \in [Node -> Progress]
      BY <2>3, <3>2 DEF Fail, TypeOK
    <3> QED
      BY <3>1, <3>2, <3>3 DEF Tells
  <2> QED
    BY <2>1, <2>2, <2>3 DEF NodeStep
<1>6. NodesTell'
  <2>1. ASSUME NEW k \in frontier \ {n} PROVE Tells(k)'
    <3>1. k \in Node \ {n} /\ Tells(k)
      BY DEF NodesTell, TypeOK
    <3>2. nodes'[k] = nodes[k] /\ reply'[k] = reply[k]
      BY <1>2, <3>1
    <3> QED
      BY <3>1, <3>2 DEF Tells
  <2> QED
    BY <1>1, <1>2, <1>5, <2>1 DEF NodesTell
<1>7. TypeOK'
  BY <1>1, <1>2, <1>5 DEF TypeOK
<1>8. InOrder'
  BY <1>1 DEF InOrder
<1> QED
  BY <1>4, <1>6, <1>7, <1>8 DEF Settled

-----------------------------------------------------------------------------
(* The way through the graph.                                              *)

\* Before, place by place.
BeforeIs ==
    /\ Before("doc_parse") = {}
    /\ Before("parse_fail_output") = {"doc_parse"}
    /\ Before("content_check") = {"doc_parse"}
    /\ Before("invalid_file") = {"doc_parse", "content_check"}
    /\ Before("journal_req_collector") = {"doc_parse", "content_check"}
    /\ Before("field_analyst") = {"doc_parse", "content_check", "journal_req_collector"}
    /\ Before("se_check") = OpeningNodes
    /\ Before("single_reviewer") = OpeningNodes
    /\ Before("ae_check") = OpeningNodes \cup {"se_check"}
    /\ Before("desk_reject_output") = OpeningNodes \cup
          (IF state.se_decision = "DESK_REJECT" THEN {"se_check"} ELSE {"se_check", "ae_check"})
    /\ Before("review_dispatch") = OpeningNodes \cup Screening
    /\ \A r \in Reviewers : Before(r) = OpeningNodes \cup Screening \cup {"review_dispatch"}
    /\ Before("ae_decision") = OpeningNodes \cup Screening \cup {"review_dispatch"} \cup Reviewers
    /\ Before("ae_report") = OpeningNodes \cup Screening \cup {"review_dispatch"} \cup Reviewers
          \cup {"ae_decision"}
    /\ Before("ae_finalize") = OpeningNodes \cup Screening \cup {"review_dispatch"} \cup Reviewers
          \cup {"ae_decision", "ae_report"}

\* The definition of Before, node by node.
LEMMA BeforeKnown == BeforeIs
BY DEF BeforeIs, Before, Reviewers, OpeningNodes

\* The same after a step.
LEMMA BeforeKnownNext == BeforeIs'
BY DEF BeforeIs, Before, Reviewers, OpeningNodes

\* Where the edges lead from a node of the main line, given the merged channels.
Leads(n, s, next) ==
    CASE n = "doc_parse" ->
            next = IF s.parse_error # "" THEN {"parse_fail_output"} ELSE {"content_check"}
      [] n = "content_check" ->
            next = IF s.intent = "VALID_PAPER" THEN {"journal_req_collector"} ELSE {"invalid_file"}
      [] n = "journal_req_collector" -> next = {"field_analyst"}
      [] n = "field_analyst" ->
            next = IF mode = "SINGLE_AGENT_REVIEW" THEN {"single_reviewer"}
                   ELSE IF mode = "QUICK_REVIEW" THEN {"review_dispatch"} ELSE {"se_check"}
      [] n = "se_check" ->
            next = IF s.se_decision = "DESK_REJECT" THEN {"desk_reject_output"} ELSE {"ae_check"}
      [] n = "ae_check" ->
            next = IF s.ae_decision = "DESK_REJECT" THEN {"desk_reject_output"}
                   ELSE {"review_dispatch"}
      [] n = "review_dispatch" -> next = Reviewers
      [] n = "ae_decision" -> next = {"ae_report"}
      [] n = "ae_report" -> next = {"ae_finalize"}
      [] n = "final_artifact_render" -> next = {}
      [] OTHER -> next = {"final_artifact_render"}

\* Where the edges of a node that is not a reviewer lead.
LEMMA EdgesLead ==
    ASSUME NEW n \in Node \ Reviewers, NEW s PROVE Leads(n, s, Edges(n, s))
<1>1. route_after_field_analyst = IF mode = "SINGLE_AGENT_REVIEW" THEN "single_reviewer"
            ELSE IF mode = "QUICK_REVIEW" THEN "review_dispatch" ELSE "se_check"
  BY DEF route_after_field_analyst
<1> QED
  BY <1>1 DEF Leads, Edges, check_parse_result, route_after_content_check, route_after_se,
     route_after_ae, Dispatched, Node

\* The nodes that have succeeded when a superstep ends.
LEMMA VisitedSucceeded ==
    ASSUME TypeOK, NodesTell, \A n \in frontier : nodes[n] = "SUCCEEDED"
    PROVE  Visited = {n \in Node : nodes[n] = "SUCCEEDED"}
BY DEF Visited, Done, TypeOK

-----------------------------------------------------------------------------
(* The opening of a run.                                                   *)

\* A superstep that leads to one node the run has not been at.
LEMMA MovesOn ==
    ASSUME TypeOK, NodesTell, \A n \in frontier : nodes[n] = "SUCCEEDED", UNCHANGED nodes,
           NEW m \in Node \ Reviewers, frontier' = {m}, m \notin Visited,
           m # "final_artifact_render" => Visited = Before(m)',
           m = "final_artifact_render" => Visited = Before(Exit)' \cup {Exit'}
    PROVE  Done' = Visited /\ Visited' = Visited \cup {m} /\ AtItsPlace'
<1>1. Visited = {k \in Node : nodes[k] = "SUCCEEDED"}
  BY VisitedSucceeded
<1>2. Done' = Visited
  BY <1>1 DEF Done
<1>3. Visited' = Visited \cup {m}
  BY <1>2 DEF Visited
<1>4. AtItsPlace'
  BY <1>2 DEF AtItsPlace
<1> QED
  BY <1>2, <1>3, <1>4

\* Nodes that are not routed on leave what is.
LEMMA RoutingKept ==
    ASSUME NEW n \in Node, NEW s, NEW t, Wrote(n, s, t),
           n \notin {"doc_parse", "content_check", "se_check", "ae_check", "review_dispatch"}
    PROVE  /\ t.parse_error = s.parse_error /\ t.intent = s.intent
           /\ t.se_decision = s.se_decision /\ t.ae_decision = s.ae_decision
BY DEF Wrote

Moved == Done' = Visited /\ Visited' = Visited \cup frontier' /\ AtItsPlace' /\ Routed'

\* The opening of a run.
LEMMA OpeningMoves ==
    ASSUME IInv, EndSuperstep, NEW n \in OpeningNodes, frontier = {n},
           Merges(n, state, state'), frontier' = Edges(n, state'),
           \A k \in frontier : nodes[k] = "SUCCEEDED", UNCHANGED <<mode, nodes, outcome>>
    PROVE  Moved
<1>0. TypeOK /\ NodesTell /\ AtItsPlace /\ Routed /\ ChannelsWritten
  BY DEF IInv
<1>1. Wrote(n, state, state') /\ state' \in GlobalState
  BY DEF Merges
<1>2. n \in Node \ Reviewers
  BY DEF OpeningNodes, Node, Reviewers
<1>3. Leads(n, state', frontier')
  BY <1>2, EdgesLead
<1>4. CASE n = "doc_parse"
  <2>1. Done = {} /\ Visited = {"doc_parse"}
    BY <1>0, <1>4, BeforeKnown DEF AtItsPlace, Visited, BeforeIs
  <2>2. state.intent = Unset /\ state.se_decision = Unset /\ state.ae_decision = Unset
    BY <1>0, <2>1 DEF ChannelsWritten, Unset
  <2>3. state'.intent = Unset /\ state'.se_decision = Unset /\ state'.ae_decision = Unset
    BY <1>1, <1>4, <2>2 DEF Wrote
  <2>4. CASE state'.parse_error # ""
    <3>1. frontier' = {"parse_fail_output"}
      BY <1>3, <1>4, <2>4 DEF Leads
    <3>2. Done' = Visited /\ Visited' = {"doc_parse", "parse_fail_output"} /\ AtItsPlace'
      BY <1>0, <2>1, <3>1, MovesOn, BeforeKnownNext DEF BeforeIs, Node, Reviewers
    <3>3. Routed'
      BY <2>3, <2>4, <3>2 DEF Routed, Unset
    <3> QED
      BY <2>1, <3>1, <3>2, <3>3 DEF Moved
  <2>5. CASE state'.parse_error = ""
    <3>1. frontier' = {"content_check"}
      BY <1>3, <1>4, <2>5 DEF Leads
    <3>2. Done' = Visited /\ Visited' = {"doc_parse", "content_check"} /\ AtItsPlace'
      BY <1>0, <2>1, <3>1, MovesOn, BeforeKnownNext DEF BeforeIs, Node, Reviewers
    <3>3. Routed'
      BY <2>3, <2>5, <3>2 DEF Routed, Unset
    <3> QED
      BY <2>1, <3>1, <3>2, <3>3 DEF Moved
  <2> QED
    BY <2>4, <2>5
<1>5. CASE n = "content_check"
  <2>1. Done = {"doc_parse"} /\ Visited = {"doc_parse", "content_check"}
    BY <1>0, <1>5, BeforeKnown DEF AtItsPlace, Visited, BeforeIs
  <2>2. state.se_decision = Unset /\ state.ae_decision = Unset /\ state.parse_error = ""
    BY <1>0, <2>1 DEF ChannelsWritten, Routed, Unset
  <2>3. state'.se_decision = Unset /\ state'.ae_decision = Unset /\ state'.parse_error = ""
        /\ state'.intent \in {"VALID_PAPER", "NOT_PAPER"}
    BY <1>1, <1>5, <2>2 DEF Wrote, GlobalState
  <2>4. CASE state'.intent = "NOT_PAPER"
    <3>1. frontier' = {"invalid_file"}
      BY <1>3, <1>5, <2>4 DEF Leads
    <3>2. /\ Done' = Visited /\ AtItsPlace'
          /\ Visited' = {"doc_parse", "content_check", "invalid_file"}
      BY <1>0, <2>1, <3>1, MovesOn, BeforeKnownNext DEF BeforeIs, Node, Reviewers
    <3>3. Routed'
      BY <2>3, <2>4, <3>2 DEF Routed, Unset
    <3> QED
      BY <2>1, <3>1, <3>2, <3>3 DEF Moved
  <2>5. CASE state'.intent = "VALID_PAPER"
    <3>1. frontier' = {"journal_req_collector"}
      BY <1>3, <1>5, <2>5 DEF Leads
    <3>2. Done' = Visited /\ Visited' = {"doc_parse", "content_check", "journal_req_collector"}
          /\ AtItsPlace'
      BY <1>0, <2>1, <3>1, MovesOn, BeforeKnownNext DEF BeforeIs, Node, Reviewers
    <3>3. Routed'
      BY <2>3, <2>5, <3>2 DEF Routed, Unset
    <3> QED
      BY <2>1, <3>1, <3>2, <3>3 DEF Moved
  <2> QED
    BY <2>3, <2>4, <2>5
<1>6. CASE n \in {"journal_req_collector", "field_analyst"}
  <2>1. Done = Before(n) /\ Visited = Before(n) \cup {n}
    BY <1>0, <1>6 DEF AtItsPlace, Visited
  <2>2. Visited = OpeningNodes \ (IF n = "field_analyst" THEN {} ELSE {"field_analyst"})
    BY <1>6, <2>1, BeforeKnown DEF BeforeIs, OpeningNodes
  <2>3. /\ state.se_decision = Unset /\ state.ae_decision = Unset /\ state.parse_error = ""
        /\ state.intent # "NOT_PAPER"
    BY <1>0, <1>6, <2>1, <2>2, BeforeKnown, ZenonT(40)
       DEF ChannelsWritten, Routed, Unset, BeforeIs, OpeningNodes
  <2>4. /\ state'.se_decision = Unset /\ state'.ae_decision = Unset /\ state'.parse_error = ""
        /\ state'.intent # "NOT_PAPER"
    <3>1. n \notin {"doc_parse", "content_check", "se_check", "ae_check", "review_dispatch"}
      BY <1>6
    <3>2. /\ state'.parse_error = state.parse_error /\ state'.intent = state.intent
          /\ state'.se_decision = state.se_decision /\ state'.ae_decision = state.ae_decision
      BY <1>1, <1>2, <3>1, RoutingKept
    <3> QED
      BY <2>3, <3>2
  <2>5. CASE n = "journal_req_collector"
    <3>1. frontier' = {"field_analyst"}
      BY <1>3, <2>5 DEF Leads
    <3>2. Done' = Visited /\ Visited' = OpeningNodes /\ AtItsPlace'
      BY <1>0, <2>2, <2>5, <3>1, MovesOn, BeforeKnownNext DEF BeforeIs, Node, Reviewers, OpeningNodes
    <3>3. Routed'
      BY <2>4, <3>2 DEF Routed, Unset, OpeningNodes
    <3> QED
      BY <2>2, <2>5, <3>1, <3>2, <3>3 DEF Moved, OpeningNodes
  <2>6. CASE n = "field_analyst"
    <3>1. Visited = OpeningNodes
      BY <2>2, <2>6
    <3>2. CASE mode = "SINGLE_AGENT_REVIEW"
      <4>1. frontier' = {"single_reviewer"}
        BY <1>3, <2>6, <3>2 DEF Leads
      <4>2. Done' = Visited /\ Visited' = OpeningNodes \cup {"single_reviewer"} /\ AtItsPlace'
        BY <1>0, <3>1, <4>1, MovesOn, BeforeKnownNext DEF BeforeIs, Node, Reviewers, OpeningNodes
      <4>3. Routed'
        BY <2>4, <3>2, <4>2 DEF Routed, Unset, OpeningNodes
      <4> QED
        BY <3>1, <4>1, <4>2, <4>3 DEF Moved
    <3>3. CASE mode = "QUICK_REVIEW"
      <4>1. frontier' = {"review_dispatch"}
        BY <1>3, <2>6, <3>3 DEF Leads
      <4>2. Done' = Visited /\ Visited' = OpeningNodes \cup {"review_dispatch"} /\ AtItsPlace'
        <5>1. Before("review_dispatch")' = OpeningNodes
          BY <3>3, BeforeKnownNext DEF BeforeIs, Screening
        <5> QED
          BY <1>0, <3>1, <4>1, <5>1, MovesOn DEF Node, Reviewers, OpeningNodes
      <4>3. Routed'
        BY <2>4, <3>3, <4>2 DEF Routed, Unset, OpeningNodes
      <4> QED
        BY <3>1, <4>1, <4>2, <4>3 DEF Moved
    <3>4. CASE mode = "FULL_REVIEW"
      <4>1. frontier' = {"se_check"}
        BY <1>3, <2>6, <3>4 DEF Leads
      <4>2. Done' = Visited /\ Visited' = OpeningNodes \cup {"se_check"} /\ AtItsPlace'
        BY <1>0, <3>1, <4>1, MovesOn, BeforeKnownNext DEF BeforeIs, Node, Reviewers, OpeningNodes
      <4>3. Routed'
        BY <2>4, <3>4, <4>2 DEF Routed, Unset, OpeningNodes
      <4> QED
        BY <3>1, <4>1, <4>2, <4>3 DEF Moved
    <3> QED
      BY <1>0, <3>2, <3>3, <3>4 DEF TypeOK, ReviewMode
  <2> QED
    BY <1>6, <2>5, <2>6
<1> QED
  BY <1>4, <1>5, <1>6 DEF OpeningNodes

-----------------------------------------------------------------------------
(* The screening, the dispatch and the panel.                              *)

\* The screening editors.
LEMMA ScreeningMoves ==
    ASSUME IInv, EndSuperstep, NEW n \in {"se_check", "ae_check"}, frontier = {n},
           Merges(n, state, state'), frontier' = Edges(n, state'),
           \A k \in frontier : nodes[k] = "SUCCEEDED", UNCHANGED <<mode, nodes, outcome>>
    PROVE  Moved
<1>0. TypeOK /\ NodesTell /\ AtItsPlace /\ Routed /\ ChannelsWritten
  BY DEF IInv
<1>1. Wrote(n, state, state') /\ state' \in GlobalState
  BY DEF Merges
<1>2. n \in Node \ Reviewers
  BY DEF Node, Reviewers
<1>3. Leads(n, state', frontier')
  BY <1>2, EdgesLead
<1>4. CASE n = "se_check"
  <2>1. Done = OpeningNodes /\ Visited = OpeningNodes \cup {"se_check"}
    BY <1>0, <1>4, BeforeKnown DEF AtItsPlace, Visited, BeforeIs
  <2>2. /\ mode = "FULL_REVIEW" /\ state.ae_decision = Unset /\ state.parse_error = ""
        /\ state.intent # "NOT_PAPER"
    <3>1. state.ae_result = Unset
      BY <1>0, <2>1 DEF ChannelsWritten, OpeningNodes
    <3> QED
      BY <1>0, <2>1, <3>1 DEF ChannelsWritten, Routed, OpeningNodes
  <2>3. /\ state'.ae_decision = Unset /\ state'.parse_error = "" /\ state'.intent # "NOT_PAPER"
        /\ state'.se_decision \in {"PASS", "DESK_REJECT"}
    BY <1>1, <1>4, <2>2 DEF Wrote, GlobalState
  <2>4. CASE state'.se_decision = "DESK_REJECT"
    <3>1. frontier' = {"desk_reject_output"}
      BY <1>3, <1>4, <2>4 DEF Leads
    <3>2. Done' = Visited /\ Visited' = OpeningNodes \cup {"se_check", "desk_reject_output"}
          /\ AtItsPlace'
      <4>1. Before("desk_reject_output")' = OpeningNodes \cup {"se_check"}
        BY <2>4, BeforeKnownNext DEF BeforeIs
      <4> QED
        BY <1>0, <2>1, <3>1, <4>1, MovesOn DEF Node, Reviewers, OpeningNodes
    <3>3. Routed'
      BY <2>2, <2>3, <2>4, <3>2 DEF Routed, Unset, OpeningNodes
    <3> QED
      BY <2>1, <3>1, <3>2, <3>3 DEF Moved
  <2>5. CASE state'.se_decision = "PASS"
    <3>1. frontier' = {"ae_check"}
      BY <1>3, <1>4, <2>5 DEF Leads
    <3>2. Done' = Visited /\ Visited' = OpeningNodes \cup {"se_check", "ae_check"} /\ AtItsPlace'
      BY <1>0, <2>1, <3>1, MovesOn, BeforeKnownNext DEF BeforeIs, Node, Reviewers, OpeningNodes
    <3>3. Routed'
      BY <2>2, <2>3, <2>5, <3>2 DEF Routed, Unset, OpeningNodes
    <3> QED
      BY <2>1, <3>1, <3>2, <3>3 DEF Moved
  <2> QED
    BY <2>3, <2>4, <2>5
<1>5. CASE n = "ae_check"
  <2>1. /\ Done = OpeningNodes \cup {"se_check"}
        /\ Visited = OpeningNodes \cup {"se_check", "ae_check"}
    BY <1>0, <1>5, BeforeKnown DEF AtItsPlace, Visited, BeforeIs
  <2>2. /\ mode = "FULL_REVIEW" /\ state.se_decision = "PASS" /\ state.parse_error = ""
        /\ state.intent # "NOT_PAPER"
    BY <1>0, <2>1 DEF Routed, OpeningNodes
  <2>3. /\ state'.se_decision = "PASS" /\ state'.parse_error = "" /\ state'.intent # "NOT_PAPER"
        /\ state'.ae_decision \in {"SEND_FOR_REVIEW", "DESK_REJECT"}
    BY <1>1, <1>5, <2>2 DEF Wrote, GlobalState
  <2>4. CASE state'.ae_decision = "DESK_REJECT"
    <3>1. frontier' = {"desk_reject_output"}
      BY <1>3, <1>5, <2>4 DEF Leads
    <3>2. /\ Done' = Visited
          /\ Visited' = OpeningNodes \cup {"se_check", "ae_check", "desk_reject_output"}
          /\ AtItsPlace'
      <4>1. Before("desk_reject_output")' = OpeningNodes \cup {"se_check", "ae_check"}
        BY <2>3, BeforeKnownNext DEF BeforeIs
      <4> QED
        BY <1>0, <2>1, <3>1, <4>1, MovesOn DEF Node, Reviewers, OpeningNodes
    <3>3. Routed'
      BY <2>2, <2>3, <2>4, <3>2 DEF Routed, Unset, OpeningNodes
    <3> QED
      BY <2>1, <3>1, <3>2, <3>3 DEF Moved
  <2>5. CASE state'.ae_decision = "SEND_FOR_REVIEW"
    <3>1. frontier' = {"review_dispatch"}
      BY <1>3, <1>5, <2>5 DEF Leads
    <3>2. /\ Done' = Visited
          /\ Visited' = OpeningNodes \cup {"se_check", "ae_check", "review_dispatch"}
          /\ AtItsPlace'
      <4>1. Before("review_dispatch")' = OpeningNodes \cup {"se_check", "ae_check"}
        BY <2>2, BeforeKnownNext DEF BeforeIs, Screening
      <4> QED
        BY <1>0, <2>1, <3>1, <4>1, MovesOn DEF Node, Reviewers, OpeningNodes
    <3>3. Routed'
      BY <2>2, <2>3, <2>5, <3>2 DEF Routed, Unset, OpeningNodes
    <3> QED
      BY <2>1, <3>1, <3>2, <3>3 DEF Moved
  <2> QED
    BY <2>3, <2>4, <2>5
<1> QED
  BY <1>4, <1>5

\* What review_dispatch finds and leaves: it changes nothing that is routed on.
LEMMA DispatchRoutingKept ==
    ASSUME ChannelsWritten, NEW t, Wrote("review_dispatch", state, t)
    PROVE  /\ t.parse_error = state.parse_error /\ t.intent = state.intent
           /\ t.se_decision = state.se_decision
           /\ t.ae_decision = "DESK_REJECT" <=> state.ae_decision = "DESK_REJECT"
BY DEF ChannelsWritten, Wrote, NeedsDefaultContext, Unset

\* From the dispatch to the report of the deciding editor.
LEMMA PanelMoves ==
    ASSUME IInv, EndSuperstep,
           NEW n \in {"review_dispatch", "ae_decision", "ae_report"}, frontier = {n},
           Merges(n, state, state'), frontier' = Edges(n, state'),
           \A k \in frontier : nodes[k] = "SUCCEEDED", UNCHANGED <<mode, nodes, outcome>>
    PROVE  Moved
<1>0. TypeOK /\ NodesTell /\ AtItsPlace /\ Routed /\ ChannelsWritten
  BY DEF IInv
<1>1. Wrote(n, state, state') /\ state' \in GlobalState
  BY DEF Merges
<1>2. n \in Node \ Reviewers
  BY DEF Node, Reviewers
<1>3. Leads(n, state', frontier')
  BY <1>2, EdgesLead
<1> DEFINE Common == OpeningNodes \cup Screening \cup {"review_dispatch"}
<1>4. /\ state'.parse_error = state.parse_error /\ state'.intent = state.intent
      /\ state'.se_decision = state.se_decision
      /\ state'.ae_decision = "DESK_REJECT" <=> state.ae_decision = "DESK_REJECT"
  <2>1. CASE n = "review_dispatch"
    BY <1>0, <1>1, <2>1, DispatchRoutingKept
  <2>2. CASE n # "review_dispatch"
    <3>1. n \notin {"doc_parse", "content_check", "se_check", "ae_check", "review_dispatch"}
      BY <2>2
    <3> QED
      BY <1>1, <1>2, <3>1, RoutingKept
  <2> QED
    BY <2>1, <2>2
<1>5. /\ Common \subseteq Visited
      /\ Visited \subseteq Common \cup Reviewers \cup {"ae_decision", "ae_report"}
      /\ Done = Before(n) /\ Visited = Before(n) \cup {n}
  BY <1>0, BeforeKnown DEF AtItsPlace, Visited, BeforeIs
<1>6. Screening \subseteq {"se_check", "ae_check"} /\ Screening' = Screening
  BY DEF Screening
<1>7. ASSUME Visited' = Visited \cup frontier',
             frontier' \subseteq Reviewers \cup {"ae_decision", "ae_report", "ae_finalize"}
      PROVE  Routed'
  <2>1. \A k \in Node \ (Reviewers \cup {"ae_decision", "ae_report", "ae_finalize"}) :
           k \in Visited' <=> k \in Visited
    BY <1>7
  <2> QED
    BY <1>0, <1>4, <2>1 DEF Routed, Node, Reviewers
<1>8. CASE n = "review_dispatch"
  <2>1. frontier' = Reviewers
    BY <1>3, <1>8 DEF Leads
  <2>2. Visited = Common
    BY <1>5, <1>8, BeforeKnown DEF BeforeIs
  <2>3. Visited = {k \in Node : nodes[k] = "SUCCEEDED"}
    BY <1>0, VisitedSucceeded
  <2>4. Reviewers \cap Visited = {}
    BY <1>6, <2>2 DEF Reviewers, OpeningNodes
  <2>5. Done' = Visited /\ Visited' = Visited \cup Reviewers
    BY <2>1, <2>3, <2>4 DEF Done, Visited
  <2>6. AtItsPlace'
    <3>1. \A r \in Reviewers : Before(r)' = Common
      BY <1>6, BeforeKnownNext DEF BeforeIs
    <3>2. Reviewers # {"final_artifact_render"} /\ Reviewers # {}
      BY DEF Reviewers
    <3> QED
      BY <2>1, <2>2, <2>5, <3>1, <3>2 DEF AtItsPlace
  <2> QED
    BY <1>7, <2>1, <2>5, <2>6 DEF Moved
<1>9. CASE n = "ae_decision"
  <2>1. frontier' = {"ae_report"}
    BY <1>3, <1>9 DEF Leads
  <2>2. Visited = Common \cup Reviewers \cup {"ae_decision"}
    BY <1>5, <1>9, BeforeKnown DEF BeforeIs
  <2>3. "ae_report" \notin Visited /\ "ae_report" \in Node \ Reviewers
    BY <1>6, <2>2 DEF Reviewers, OpeningNodes, Node
  <2>4. Visited = Before("ae_report")'
    BY <1>6, <2>2, BeforeKnownNext DEF BeforeIs
  <2>5. Done' = Visited /\ Visited' = Visited \cup {"ae_report"} /\ AtItsPlace'
    BY <1>0, <2>1, <2>3, <2>4, MovesOn
  <2> QED
    BY <1>7, <2>1, <2>5 DEF Moved
<1>10. CASE n = "ae_report"
  <2>1. frontier' = {"ae_finalize"}
    BY <1>3, <1>10 DEF Leads
  <2>2. Visited = Common \cup Reviewers \cup {"ae_decision", "ae_report"}
    BY <1>5, <1>10, BeforeKnown DEF BeforeIs
  <2>3. "ae_finalize" \notin Visited /\ "ae_finalize" \in Node \ Reviewers
    BY <1>6, <2>2 DEF Reviewers, OpeningNodes, Node
  <2>4. Visited = Before("ae_finalize")'
    BY <1>6, <2>2, BeforeKnownNext DEF BeforeIs
  <2>5. Done' = Visited /\ Visited' = Visited \cup {"ae_finalize"} /\ AtItsPlace'
    BY <1>0, <2>1, <2>3, <2>4, MovesOn
  <2> QED
    BY <1>7, <2>1, <2>5 DEF Moved
<1> QED
  BY <1>8, <1>9, <1>10

\* The superstep of the four reviewers.
LEMMA ReviewersMove ==
    ASSUME IInv, EndSuperstep, frontier = Reviewers,
           PanelMerged(state, state'), frontier' = {"ae_decision"},
           \A k \in frontier : nodes[k] = "SUCCEEDED", UNCHANGED <<mode, nodes, outcome>>
    PROVE  Moved
<1>0. TypeOK /\ NodesTell /\ AtItsPlace /\ Routed /\ ChannelsWritten
  BY DEF IInv
<1>1. /\ state'.parse_error = state.parse_error /\ state'.intent = state.intent
      /\ state'.se_decision = state.se_decision /\ state'.ae_decision = state.ae_decision
  BY DEF PanelMerged
<1>2. Visited = OpeningNodes \cup Screening \cup {"review_dispatch"} \cup Reviewers
  <2>1. "reviewer1" \in frontier \ {"final_artifact_render"} /\ "reviewer1" \in Reviewers
    BY DEF Reviewers
  <2> QED
    BY <1>0, <2>1, BeforeKnown DEF AtItsPlace, Visited, BeforeIs
<1>3. Screening \subseteq {"se_check", "ae_check"} /\ Screening' = Screening
  BY DEF Screening
<1>4. "ae_decision" \notin Visited /\ "ae_decision" \in Node \ Reviewers
  BY <1>2, <1>3 DEF Reviewers, OpeningNodes, Node
<1>5. Visited = Before("ae_decision")'
  BY <1>2, <1>3, BeforeKnownNext DEF BeforeIs
<1>6. Done' = Visited /\ Visited' = Visited \cup {"ae_decision"} /\ AtItsPlace'
  BY <1>0, <1>4, <1>5, MovesOn
<1>7. Routed'
  BY <1>0, <1>1, <1>6 DEF Routed
<1> QED
  BY <1>6, <1>7 DEF Moved

-----------------------------------------------------------------------------
(* The exits and the renderer.                                             *)

Exits ==
    {"parse_fail_output", "invalid_file", "desk_reject_output", "single_reviewer", "ae_finalize"}

\* The nodes that end a run's work.
LEMMA ExitMoves ==
    ASSUME IInv, EndSuperstep, NEW n \in Exits, frontier = {n},
           Merges(n, state, state'), frontier' = Edges(n, state'),
           \A k \in frontier : nodes[k] = "SUCCEEDED", UNCHANGED <<mode, nodes, outcome>>
    PROVE  Moved
<1>0. TypeOK /\ NodesTell /\ AtItsPlace /\ Routed
  BY DEF IInv
<1>1. n \in Node \ Reviewers
  BY DEF Exits, Node, Reviewers
<1>2. frontier' = {"final_artifact_render"}
  <2>1. Leads(n, state', frontier')
    BY <1>1, EdgesLead
  <2> QED
    BY <2>1 DEF Leads, Exits
<1>3. /\ state'.parse_error = state.parse_error /\ state'.intent = state.intent
      /\ state'.se_decision = state.se_decision /\ state'.ae_decision = state.ae_decision
  <2>1. n \notin {"doc_parse", "content_check", "se_check", "ae_check", "review_dispatch"}
    BY DEF Exits
  <2> QED
    BY <1>1, <2>1, RoutingKept DEF Merges
<1>4. Visited = Before(n) \cup {n} /\ Done = Before(n)
  BY <1>0 DEF AtItsPlace, Visited, Exits
<1>5. Before(n) \subseteq OpeningNodes \cup {"se_check", "ae_check", "review_dispatch", "ae_decision",
                                            "ae_report"} \cup Reviewers
  BY BeforeKnown DEF BeforeIs, Exits, Screening, OpeningNodes
<1>6. n = Exit
  <2>1. \A k \in Exits : k \in Visited => k = n
    BY <1>4, <1>5 DEF Exits, Reviewers, OpeningNodes
  <2>2. n \in Visited
    BY <1>4
  <2>3. n = "ae_finalize" => "review_dispatch" \in Visited
    BY <1>4, BeforeKnown DEF BeforeIs
  <2> QED
    BY <1>0, <2>1, <2>2, <2>3 DEF Routed, Exit, Exits
<1>7. Exit' = n
  BY <1>3, <1>6 DEF Exit
<1>8. Before(n)' = Before(n)
  BY <1>3 DEF Before, Screening
<1>9. Before(Exit)' = Before(n)
  BY <1>7, <1>8
<1>10. "final_artifact_render" \notin Visited /\ "final_artifact_render" \in Node \ Reviewers
  BY <1>4, <1>5 DEF Exits, Reviewers, OpeningNodes, Node
<1>11. Done' = Visited /\ Visited' = Visited \cup {"final_artifact_render"} /\ AtItsPlace'
  BY <1>0, <1>2, <1>4, <1>7, <1>9, <1>10, MovesOn
<1>12. Routed'
  BY <1>0, <1>3, <1>11 DEF Routed
<1> QED
  BY <1>2, <1>11, <1>12 DEF Moved

\* The last superstep.
LEMMA RenderMoves ==
    ASSUME IInv, EndSuperstep, frontier = {"final_artifact_render"},
           Merges("final_artifact_render", state, state'),
           frontier' = Edges("final_artifact_render", state'),
           \A k \in frontier : nodes[k] = "SUCCEEDED", UNCHANGED <<mode, nodes, outcome>>
    PROVE  Moved
<1>0. TypeOK /\ NodesTell /\ AtItsPlace /\ Routed
  BY DEF IInv
<1>1. frontier' = {}
  <2>1. Leads("final_artifact_render", state', frontier')
    BY EdgesLead DEF Node, Reviewers
  <2> QED
    BY <2>1 DEF Leads
<1>2. /\ state'.parse_error = state.parse_error /\ state'.intent = state.intent
      /\ state'.se_decision = state.se_decision /\ state'.ae_decision = state.ae_decision
  BY RoutingKept DEF Merges, Node
<1>3. Exit' = Exit
  BY <1>2 DEF Exit
<1>4. Before(Exit)' = Before(Exit)
  BY <1>2, <1>3 DEF Before, Screening
<1>5. Visited = {k \in Node : nodes[k] = "SUCCEEDED"}
  BY <1>0, VisitedSucceeded
<1>6. Done' = Visited /\ Visited' = Visited
  BY <1>1, <1>5 DEF Done, Visited
<1>7. Visited = Before(Exit) \cup {Exit, "final_artifact_render"}
  BY <1>0 DEF AtItsPlace, Visited
<1>8. AtItsPlace'
  BY <1>1, <1>3, <1>4, <1>6, <1>7 DEF AtItsPlace
<1>9. Routed'
  BY <1>0, <1>2, <1>6 DEF Routed
<1> QED
  BY <1>1, <1>6, <1>8, <1>9 DEF Moved

\* Wherever the run is.
LEMMA SuperstepMoves ==
    ASSUME IInv, EndSuperstep
    PROVE  Moved
<1>0. TypeOK /\ NodesTell /\ AtItsPlace
  BY DEF IInv
<1>1. /\ \/ \E n \in Node \ Reviewers :
               frontier = {n} /\ Merges(n, state, state') /\ frontier' = Edges(n, state')
         \/ /\ frontier = Reviewers /\ PanelMerged(state, state')
            /\ frontier' = {"ae_decision"}
      /\ \A n \in frontier : nodes[n] = "SUCCEEDED"
      /\ UNCHANGED <<mode, nodes, outcome>>
  BY <1>0, SuperstepMerged
<1>2. CASE frontier = Reviewers /\ PanelMerged(state, state') /\ frontier' = {"ae_decision"}
  BY <1>1, <1>2, ReviewersMove
<1>3. ASSUME NEW n \in Node \ Reviewers, frontier = {n}, Merges(n, state, state'),
             frontier' = Edges(n, state')
      PROVE  Moved
  <2>1. CASE n \in OpeningNodes
    BY <1>1, <1>3, <2>1, OpeningMoves
  <2>2. CASE n \in {"se_check", "ae_check"}
    BY <1>1, <1>3, <2>2, ScreeningMoves
  <2>3. CASE n \in {"review_dispatch", "ae_decision", "ae_report"}
    BY <1>1, <1>3, <2>3, PanelMoves
  <2>4. CASE n \in Exits
    BY <1>1, <1>3, <2>4, ExitMoves
  <2>5. CASE n = "final_artifact_render"
    BY <1>1, <1>3, <2>5, RenderMoves
  <2> QED
    BY <2>1, <2>2, <2>3, <2>4, <2>5 DEF OpeningNodes, Exits, Node
<1> QED
  BY <1>1, <1>2, <1>3

-----------------------------------------------------------------------------
(* What the end of a superstep leaves.                                     *)

\* A superstep of one node n, which has not been merged before: what is done then.
LEMMA OneMore ==
    ASSUME IInv, NEW n \in Node \ Reviewers, frontier = {n}
    PROVE  n \notin Done /\ Visited = Done \cup {n}
BY DEF Done, Visited

\* The channels that are written are those of the nodes that were merged.
LEMMA ChannelsMove ==
    ASSUME IInv, EndSuperstep PROVE ChannelsWritten'
<1>0. TypeOK /\ NodesTell /\ AtItsPlace /\ ChannelsWritten
  BY DEF IInv
<1>1. \/ \E n \in Node \ Reviewers : frontier = {n} /\ Merges(n, state, state')
      \/ frontier = Reviewers /\ PanelMerged(state, state')
  BY <1>0, SuperstepMerged
<1>2. Done' = Visited
  BY SuperstepMoves DEF Moved
<1>3. CASE frontier = Reviewers /\ PanelMerged(state, state')
  <2>1. Done' = Done \cup Reviewers
    BY <1>2, <1>3 DEF Visited
  <2>2. \A k : k \notin Reviewers => (k \in Done' <=> k \in Done)
    BY <2>1
  <2> QED
    BY <1>0, <1>3, <2>2 DEF PanelMerged, ChannelsWritten, Reviewers
<1>4. ASSUME NEW n \in Node \ Reviewers, frontier = {n}, Merges(n, state, state')
      PROVE  ChannelsWritten'
  <2>1. n \notin Done /\ Done' = Done \cup {n}
    BY <1>2, <1>4, OneMore
  <2>2. Wrote(n, state, state')
    BY <1>4 DEF Merges
  <2>3. /\ "doc_parse" \in Done' => (state'.parsed_paper = Unset <=> state'.parse_error # "")
        /\ "doc_parse" \notin Done' => state'.parsed_paper = Unset /\ state'.parse_error = ""
    BY <1>0, <2>1, <2>2 DEF ChannelsWritten, Wrote, Unset
  <2>4. /\ state'.intent = Unset <=> "content_check" \notin Done'
        /\ state'.journal_requirements = Unset <=> "journal_req_collector" \notin Done'
        /\ state'.se_decision = Unset <=> "se_check" \notin Done'
    BY <1>0, <2>1, <2>2 DEF ChannelsWritten, Wrote, Unset
  <2>5. /\ state'.ae_result = IF "ae_check" \in Done' THEN "screened"
                              ELSE IF "review_dispatch" \in Done' THEN "default" ELSE Unset
        /\ state'.ae_decision = Unset <=> state'.ae_result = Unset
        /\ state'.ae_decision = "DESK_REJECT" => "ae_check" \in Done'
    BY <1>0, <2>1, <2>2 DEF ChannelsWritten, Wrote, Unset, NeedsDefaultContext
  <2> QED
    BY <2>3, <2>4, <2>5 DEF ChannelsWritten
<1> QED
  BY <1>1, <1>3, <1>4

\* The reports are those of the reviewers that were merged, one of each.
LEMMA ReportsMove ==
    ASSUME IInv, EndSuperstep PROVE ReportsAdded'
<1>0. TypeOK /\ NodesTell /\ AtItsPlace /\ ReportsAdded
  BY DEF IInv
<1>1. \/ \E n \in Node \ Reviewers : frontier = {n} /\ Merges(n, state, state')
      \/ frontier = Reviewers /\ PanelMerged(state, state')
  BY <1>0, SuperstepMerged
<1>2. Done' = Visited
  BY SuperstepMoves DEF Moved
<1>3. CASE frontier = Reviewers /\ PanelMerged(state, state')
  <2>1. Done' = Done \cup Reviewers
    BY <1>2, <1>3 DEF Visited
  <2>2. Done = OpeningNodes \cup Screening \cup {"review_dispatch"}
    <3>1. "reviewer1" \in frontier \ {"final_artifact_render"} /\ "reviewer1" \in Reviewers
      BY <1>3 DEF Reviewers
    <3> QED
      BY <1>0, <3>1, BeforeKnown DEF AtItsPlace, BeforeIs
  <2>3. Reviewers \cap Done = {} /\ "single_reviewer" \notin Done'
    BY <2>1, <2>2 DEF Reviewers, OpeningNodes, Screening
  <2>4. "reviewer1" \in Reviewers \cap Done'
    BY <2>1 DEF Reviewers
  <2>5. state.reviewer_reports = << >>
    BY <1>0, <2>1, <2>3 DEF ReportsAdded
  <2>6. Panel(state'.reviewer_reports)
    BY <1>3, <2>5 DEF PanelMerged
  <2>7. Panel(state.reviewer_reports)' <=> Panel(state'.reviewer_reports)
    BY DEF Panel
  <2> QED
    BY <2>3, <2>4, <2>6, <2>7 DEF ReportsAdded
<1>4. ASSUME NEW n \in Node \ Reviewers, frontier = {n}, Merges(n, state, state')
      PROVE  ReportsAdded'
  <2>1. n \notin Done /\ Done' = Done \cup {n}
    BY <1>2, <1>4, OneMore
  <2>2. Wrote(n, state, state')
    BY <1>4 DEF Merges
  <2>3. CASE n = "single_reviewer"
    <3>1. Done = OpeningNodes
      BY <1>0, <1>4, <2>3, BeforeKnown DEF AtItsPlace, BeforeIs
    <3>2. Reviewers \cap Done = {} /\ "single_reviewer" \notin Done /\ Reviewers \cap Done' = {}
      BY <2>1, <2>3, <3>1 DEF Reviewers, OpeningNodes
    <3>3. state.reviewer_reports = << >>
      BY <1>0, <3>2 DEF ReportsAdded
    <3>4. PICK report \in Report : /\ report.reviewer_key = n
                                   /\ state'.reviewer_reports = Append(state.reviewer_reports, report)
      BY <2>2, <2>3 DEF Wrote
    <3>5. Len(state'.reviewer_reports) = 1 /\ state'.reviewer_reports[1] = report
      BY <3>3, <3>4
    <3> QED
      BY <2>1, <2>3, <3>2, <3>4, <3>5 DEF ReportsAdded
  <2>4. CASE n # "single_reviewer"
    <3>1. state'.reviewer_reports = state.reviewer_reports
      BY <2>2, <2>4 DEF Wrote
    <3>2. Reviewers \cap Done' = Reviewers \cap Done
          /\ ("single_reviewer" \in Done' <=> "single_reviewer" \in Done)
      BY <2>1, <2>4
    <3> QED
      BY <1>0, <3>1, <3>2 DEF ReportsAdded, Panel
  <2> QED
    BY <2>3, <2>4
<1> QED
  BY <1>1, <1>3, <1>4

\* Before the render node, no exit has been merged, so no decision was published.
LEMMA NoExitYet ==
    ASSUME AtItsPlace, NEW n \in frontier, n # "final_artifact_render"
    PROVE  Exits \cap Done = {}
<1>1. Done = Before(n)
  BY DEF AtItsPlace
<1>2. n \in Node
  BY DEF AtItsPlace, Node, Reviewers
<1>3. Before(n) \subseteq OpeningNodes \cup {"se_check", "ae_check", "review_dispatch", "ae_decision",
                                            "ae_report"} \cup Reviewers
  BY <1>1, <1>2, BeforeKnown DEF BeforeIs, Node, Screening, OpeningNodes
<1> QED
  BY <1>1, <1>3 DEF Exits, OpeningNodes, Reviewers

\* What was decided is what the nodes that were merged decided.
LEMMA DecisionMoves ==
    ASSUME IInv, EndSuperstep PROVE Decided'
<1>0. TypeOK /\ NodesTell /\ AtItsPlace /\ Decided
  BY DEF IInv
<1>1. \/ \E n \in Node \ Reviewers : frontier = {n} /\ Merges(n, state, state')
      \/ frontier = Reviewers /\ PanelMerged(state, state')
  BY <1>0, SuperstepMerged
<1>2. Done' = Visited
  BY SuperstepMoves DEF Moved
<1>3. CASE frontier = Reviewers /\ PanelMerged(state, state')
  <2>1. Done' = Done \cup Reviewers
    BY <1>2, <1>3 DEF Visited
  <2>2. \A k : k \notin Reviewers => (k \in Done' <=> k \in Done)
    BY <2>1
  <2> QED
    BY <1>0, <1>3, <2>2 DEF PanelMerged, Decided, Reviewers
<1>4. ASSUME NEW n \in Node \ Reviewers, frontier = {n}, Merges(n, state, state')
      PROVE  Decided'
  <2>1. n \notin Done /\ Done' = Done \cup {n}
    BY <1>2, <1>4, OneMore
  <2>2. Wrote(n, state, state')
    BY <1>4 DEF Merges
  <2>3. n # "final_artifact_render" => Exits \cap Done = {}
    BY <1>0, <1>4, NoExitYet
  <2>4. IF "ae_decision" \in Done' THEN state'.ae_decision_result \in Verdicts
        ELSE state'.ae_decision_result = Unset
    BY <1>0, <2>1, <2>2 DEF Decided, Wrote
  <2>5. CASE n \in Exits
    <3>1. \A k \in Exits : k \in Done' <=> k = n
      BY <2>1, <2>3, <2>5 DEF Exits
    <3>2. state'.ae_decision_result = state.ae_decision_result
      BY <2>2, <2>5 DEF Wrote, Exits
    <3> QED
      BY <2>2, <2>4, <2>5, <3>1, <3>2 DEF Decided, Wrote, Exits
  <2>6. CASE n \notin Exits
    <3>1. \A k \in Exits : k \in Done' <=> k \in Done
      BY <2>1, <2>6
    <3>2. state'.final_decision = state.final_decision
      BY <2>2, <2>6 DEF Wrote, Exits
    <3>3. n = "final_artifact_render" => state'.ae_decision_result = state.ae_decision_result
      BY <2>2 DEF Wrote
    <3> QED
      BY <1>0, <2>3, <2>4, <3>1, <3>2, <3>3 DEF Decided, Exits
  <2> QED
    BY <2>5, <2>6
<1> QED
  BY <1>1, <1>3, <1>4

\* The stages are named by the nodes that were merged.
LEMMA StagesMove ==
    ASSUME IInv, EndSuperstep PROVE StagesNamed'
<1>0. TypeOK /\ NodesTell /\ AtItsPlace /\ StagesNamed
  BY DEF IInv
<1>1. \/ \E n \in Node \ Reviewers : frontier = {n} /\ Merges(n, state, state')
      \/ frontier = Reviewers /\ PanelMerged(state, state')
  BY <1>0, SuperstepMerged
<1>2. Done' = Visited
  BY SuperstepMoves DEF Moved
<1>3. CASE frontier = Reviewers /\ PanelMerged(state, state')
  <2>1. Done' = Done \cup Reviewers
    BY <1>2, <1>3 DEF Visited
  <2>2. state'.stage_outputs = state.stage_outputs \cup Reviewers
    BY <1>3 DEF PanelMerged
  <2> QED
    BY <1>0, <2>1, <2>2 DEF StagesNamed, Reviewers
<1>4. ASSUME NEW n \in Node \ Reviewers, frontier = {n}, Merges(n, state, state')
      PROVE  StagesNamed'
  <2>1. n \notin Done /\ Done' = Done \cup {n}
    BY <1>2, <1>4, OneMore
  <2>2. state'.stage_outputs = state.stage_outputs \cup StagesOf(n, state)
    BY <1>4 DEF Merges
  <2>3. \A x \in StagesOf(n, state) :
           \/ x = n /\ n \notin {"journal_req_collector", "field_analyst"}
           \/ x \in {"venue_profile", "journal_requirements"} /\ n = "journal_req_collector"
           \/ x = "field_analysis" /\ n = "field_analyst"
           \/ x = "ae_check" /\ n = "review_dispatch"
    BY DEF StagesOf
  <2> QED
    BY <1>0, <2>1, <2>2, <2>3 DEF StagesNamed
<1> QED
  BY <1>1, <1>3, <1>4

\* The end of a superstep keeps the invariant.
LEMMA EndSuperstepIInv ==
    ASSUME IInv, EndSuperstep PROVE IInv'
<1>0. TypeOK /\ NodesTell /\ AtItsPlace
  BY DEF IInv
<1>1. /\ \/ \E n \in Node \ Reviewers :
               frontier = {n} /\ Merges(n, state, state') /\ frontier' = Edges(n, state')
         \/ frontier = Reviewers /\ PanelMerged(state, state') /\ frontier' = {"ae_decision"}
      /\ reply' = [n \in Node |-> At("not started")]
      /\ \A n \in frontier : nodes[n] = "SUCCEEDED"
      /\ UNCHANGED <<mode, nodes, outcome>>
  BY <1>0, SuperstepMerged
<1>2. Moved
  BY SuperstepMoves
<1>3. frontier' \subseteq Node
  BY <1>2 DEF Moved, AtItsPlace, Node
<1>4. Visited = {k \in Node : nodes[k] = "SUCCEEDED"}
  BY <1>0, <1>1, VisitedSucceeded
<1>5. At("not started") \in Progress /\ At("not started").at = "not started"
  BY DEF At, Progress, Words
<1>6. TypeOK'
  <2>1. state' \in GlobalState
    BY <1>1 DEF Merges, PanelMerged
  <2> QED
    BY <1>0, <1>1, <1>3, <1>5, <2>1 DEF TypeOK
<1>7. NodesTell'
  <2>1. \A n \in Node : nodes'[n] \in {"NONE", "SUCCEEDED"} /\ reply'[n] = At("not started")
    BY <1>0, <1>1 DEF NodesTell
  <2>2. \A n \in frontier' : nodes'[n] # "SUCCEEDED"
    BY <1>1, <1>2, <1>3, <1>4 DEF Moved, Done, Visited
  <2> QED
    BY <1>3, <1>5, <2>1, <2>2 DEF NodesTell, Tells
<1>8. InOrder'
  <2>1. outcome' = "RUNNING"
    BY <1>1 DEF EndSuperstep, Running
  <2> QED
    BY <2>1 DEF InOrder
<1> QED
  BY <1>2, <1>6, <1>7, <1>8, ChannelsMove, ReportsMove, DecisionMoves, StagesMove DEF IInv, Moved

-----------------------------------------------------------------------------
(* The end of a run, and the invariant.                                    *)

\* One report is in order.
LEMMA OneSorted ==
    ASSUME NEW reports \in Seq(Report), Len(reports) = 1
    PROVE  sorted_reports(reports)[1] = reports[1]
<1> DEFINE rank(r) == CASE r.reviewer_key = "reviewer1" -> 0
                     [] r.reviewer_key = "reviewer2" -> 1
                     [] r.reviewer_key = "reviewer3" -> 2
                     [] r.reviewer_key = "devils_advocate" -> 3
                     [] OTHER -> 99
           set(i) == {k \in DOMAIN reports :
                           \/ rank(reports[k]) < rank(reports[i])
                           \/ rank(reports[k]) = rank(reports[i]) /\ k <= i}
           place(i) == Cardinality(set(i))
           from(m) == CHOOSE i \in DOMAIN reports : place(i) = m
<1>1. DOMAIN reports = {1}
  OBVIOUS
<1>2. sorted_reports(reports) = [m \in DOMAIN reports |-> reports[from(m)]]
  BY DEF sorted_reports, Sorted
<1> HIDE DEF rank
<1>3. set(1) = {1}
  BY <1>1
<1>4. place(1) = 1
  BY <1>3, FS_Singleton
<1> HIDE DEF place
<1>5. from(1) = 1
  BY <1>1, <1>4
<1> HIDE DEF from
<1> QED
  BY <1>1, <1>2, <1>5

\* Sorting keeps what there is.
LEMMA SortedKeeps ==
    ASSUME NEW reports \in Seq(Report), NEW sorted, sorted = SortedReports(reports)
    PROVE  /\ sorted \in Seq(Report) /\ Len(sorted) = Len(reports)
           /\ Panel(reports) => /\ Panel(sorted)
                                /\ Keys(sorted) = <<"reviewer1", "reviewer2", "reviewer3",
                                                    "devils_advocate">>
           /\ Len(reports) = 1 => sorted[1] = reports[1]
<1>1. sorted = sorted_reports(reports)
  BY SameSort
<1>2. sorted \in Seq(Report) /\ Len(sorted) = Len(reports)
  BY <1>1, SortedTyped
<1>3. ASSUME Panel(reports)
      PROVE  /\ Panel(sorted)
             /\ Keys(sorted) = <<"reviewer1", "reviewer2", "reviewer3", "devils_advocate">>
  <2>1. Keys(sorted) = <<"reviewer1", "reviewer2", "reviewer3", "devils_advocate">>
    BY <1>1, <1>3, CanonicalOrder
  <2>2. Len(sorted) = 4 /\ DOMAIN sorted = 1..4
    BY <1>2, <1>3 DEF Panel
  <2>3. \A i \in 1..4 : sorted[i].reviewer_key = Keys(sorted)[i]
    BY <2>2 DEF Keys
  <2>4. /\ sorted[1].reviewer_key = "reviewer1" /\ sorted[2].reviewer_key = "reviewer2"
        /\ sorted[3].reviewer_key = "reviewer3" /\ sorted[4].reviewer_key = "devils_advocate"
    BY <2>1, <2>3
  <2> QED
    BY <2>1, <2>2, <2>4 DEF Panel, Reviewers
<1>4. Len(reports) = 1 => sorted[1] = reports[1]
  BY <1>1, OneSorted
<1> QED
  BY <1>2, <1>3, <1>4

\* A run whose graph is over has published a decision.
LEMMA DecisionPublished ==
    ASSUME IInv, frontier = {} PROVE state.final_decision \in FinalDecision
<1>1. Done = Before(Exit) \cup {Exit, "final_artifact_render"} /\ Exit \in Exits
  BY DEF IInv, AtItsPlace, Exit, Exits
<1>2. Exit = "ae_finalize" => "ae_decision" \in Done
  BY <1>1, BeforeKnown DEF BeforeIs
<1>3. Decided
  BY DEF IInv
<1> QED
  BY <1>1, <1>2, <1>3 DEF Decided, Exits, Verdicts, FinalDecision

\* So does the end of the run.
LEMMA DeliverIInv ==
    ASSUME IInv, Deliver PROVE IInv'
<1> USE DEF IInv
<1>1. frontier = {} /\ UNCHANGED <<mode, frontier, nodes, reply>>
  BY DEF Deliver
<1>2. Done' = Done /\ Visited' = Visited
  BY <1>1 DEF Done, Visited
<1>3. NodesTell'
  BY <1>1 DEF NodesTell, Tells
<1>4. CASE outcome' = "FAILED" /\ UNCHANGED state
  <2>1. Settled'
    BY <1>1, <1>2, <1>4, SettledKept DEF Settled
  <2>2. TypeOK' /\ InOrder'
    BY <1>1, <1>4 DEF TypeOK, InOrder
  <2> QED
    BY <1>3, <2>1, <2>2 DEF Settled
<1>5. CASE outcome' = "SUCCEEDED"
           /\ state' = [state EXCEPT !.reviewer_reports = SortedReports(@),
                                     !.final_decision = IF @ = Unset THEN "REJECT" ELSE @]
  <2> DEFINE reports == state.reviewer_reports
             sorted == SortedReports(reports)
  <2>1. state \in GlobalState /\ reports \in Seq(Report)
    BY DEF TypeOK, GlobalState
  <2>2. state.final_decision \in FinalDecision
    BY <1>1, DecisionPublished
  <2>3. state' = [state EXCEPT !.reviewer_reports = sorted,
                               !.final_decision = state.final_decision]
    <3>1. state.final_decision # Unset
      BY <2>2 DEF FinalDecision, Verdicts, Unset
    <3> QED
      BY <1>5, <3>1
  <2>4. /\ sorted \in Seq(Report) /\ Len(sorted) = Len(reports)
        /\ Panel(reports) => Panel(sorted) /\ Keys(sorted) = <<"reviewer1", "reviewer2", "reviewer3",
                                                               "devils_advocate">>
        /\ Len(reports) = 1 => sorted[1] = reports[1]
    BY <2>1, SortedKeeps
  <2> HIDE DEF sorted
  <2>5. state' \in GlobalState
    BY <2>1, <2>3, <2>4 DEF GlobalState
  <2>6. /\ state'.parsed_paper = state.parsed_paper /\ state'.parse_error = state.parse_error
        /\ state'.intent = state.intent
        /\ state'.journal_requirements = state.journal_requirements
        /\ state'.se_decision = state.se_decision
        /\ state'.ae_result = state.ae_result /\ state'.ae_decision = state.ae_decision
        /\ state'.ae_decision_result = state.ae_decision_result
        /\ state'.final_decision = state.final_decision
        /\ state'.stage_outputs = state.stage_outputs
    BY <2>1, <2>3 DEF GlobalState
  <2>7. state'.reviewer_reports = sorted
    BY <2>1, <2>3 DEF GlobalState
  <2>8. TypeOK'
    BY <1>1, <1>5, <2>5 DEF TypeOK
  <2>9. AtItsPlace'
    <3>1. Exit' = Exit
      BY <1>1, <2>6 DEF Exit
    <3>2. Before(Exit)' = Before(Exit)
      BY <1>1, <2>6, <3>1 DEF Before, Screening
    <3> QED
      BY <1>1, <1>2, <3>1, <3>2 DEF AtItsPlace
  <2>10. Routed'
    BY <1>1, <1>2, <2>6 DEF Routed
  <2>11. ChannelsWritten'
    BY <1>2, <2>6 DEF ChannelsWritten
  <2>12. ReportsAdded'
    <3>1. CASE Reviewers \cap Done = {} /\ "single_reviewer" \notin Done
      <4>1. sorted = << >>
        BY <2>4, <3>1 DEF ReportsAdded
      <4> QED
        BY <1>2, <2>7, <3>1, <4>1 DEF ReportsAdded
    <3>2. Panel(reports) => Panel(state.reviewer_reports)'
      BY <2>4, <2>7 DEF Panel
    <3> QED
      BY <1>2, <2>4, <2>7, <3>1, <3>2 DEF ReportsAdded
  <2>13. Decided'
    BY <1>2, <2>6 DEF Decided
  <2>14. StagesNamed'
    BY <1>2, <2>6 DEF StagesNamed
  <2>15. InOrder'
    <3>1. ASSUME Reviewers \subseteq Done PROVE Panel(reports)
      BY <3>1 DEF ReportsAdded, Reviewers
    <3>2. Keys(state.reviewer_reports)' = Keys(sorted)
      BY <2>7 DEF Keys
    <3> QED
      BY <1>1, <1>2, <2>4, <3>1, <3>2 DEF InOrder
  <2> QED
    BY <1>3, <2>8, <2>9, <2>10, <2>11, <2>12, <2>13, <2>14, <2>15
<1> QED
  BY <1>4, <1>5 DEF Deliver

\* Every step of a run keeps the invariant.
LEMMA StepIInv ==
    ASSUME IInv, [Next]_vars PROVE IInv'
<1>1. ASSUME NEW n \in Node, NodeStep(n) PROVE IInv'
  BY <1>1, NodeStepIInv
<1>2. CASE EndSuperstep
  BY <1>2, EndSuperstepIInv
<1>3. CASE RaiseError
  <2>1. UNCHANGED <<mode, state, frontier, nodes, reply>> /\ outcome' = "FAILED"
    BY <1>3 DEF RaiseError
  <2>2. Done' = Done
    BY <2>1 DEF Done
  <2>3. Settled'
    BY <2>1, <2>2, SettledKept DEF Settled, IInv
  <2>4. TypeOK' /\ NodesTell' /\ InOrder'
    BY <2>1 DEF IInv, TypeOK, NodesTell, Tells, InOrder
  <2> QED
    BY <2>3, <2>4 DEF IInv, Settled
<1>4. CASE Deliver
  BY <1>4, DeliverIInv
<1>5. CASE UNCHANGED vars
  <2>1. UNCHANGED <<mode, state, frontier, nodes, reply, outcome>>
    BY <1>5 DEF vars
  <2>2. Done' = Done
    BY <2>1 DEF Done
  <2>3. Settled'
    BY <2>1, <2>2, SettledKept DEF Settled, IInv
  <2>4. TypeOK' /\ NodesTell' /\ InOrder'
    BY <2>1, <2>2 DEF IInv, TypeOK, NodesTell, Tells, InOrder, Keys
  <2> QED
    BY <2>3, <2>4 DEF IInv, Settled
<1> QED
  BY <1>1, <1>2, <1>3, <1>4, <1>5 DEF Next, GraphStep, Over

\* The inductive invariant of a run: the nodes that have reported are a way through
\* the graph build_graph() compiles, and the channels are what those nodes wrote.
THEOREM Invariance == Spec => []IInv
<1> QED
  BY InitIInv, StepIInv, PTL DEF Spec

\* The channels of GlobalState, the reports of the threads and the outcome are always
\* of their types, whatever the model answers and in whatever order the nodes end.
THEOREM Spec_TypeOK == Spec => []TypeOK
<1>1. IInv => TypeOK
  BY DEF IInv
<1> QED
  BY <1>1, Invariance, PTL

-----------------------------------------------------------------------------
(* What the invariant says of a run.                                       *)

\* A node that has reported is one the run has come to.
LEMMA SeenVisited ==
    ASSUME IInv, NEW n \in Node, nodes[n] # "NONE" PROVE n \in Visited
BY DEF IInv, NodesTell, Visited, Done

\* The run comes to one exit at most, and from there only to the renderer.
LEMMA ExitTaken ==
    ASSUME IInv, NEW k \in Exits, k \in Visited
    PROVE  /\ Exit = k /\ Visited \subseteq Before(k) \cup {k, "final_artifact_render"}
           /\ k \in Done => frontier \subseteq {"final_artifact_render"}
<1>0. AtItsPlace /\ Routed
  BY DEF IInv
<1>1. \A n \in Exits : Before(n) \subseteq OpeningNodes \cup {"se_check", "ae_check",
            "review_dispatch", "ae_decision", "ae_report"} \cup Reviewers
  BY BeforeKnown DEF BeforeIs, Exits, Screening, OpeningNodes
<1>2. CASE k \in frontier
  <2>1. frontier = {k} /\ Done = Before(k)
    BY <1>0, <1>2 DEF AtItsPlace, Exits, Reviewers
  <2>2. Visited = Before(k) \cup {k}
    BY <2>1 DEF Visited
  <2>3. \A n \in Exits : n \in Visited => n = k
    BY <1>1, <2>2 DEF Exits, Reviewers, OpeningNodes
  <2>4. k = "ae_finalize" => "review_dispatch" \in Visited
    BY <2>2, BeforeKnown DEF BeforeIs
  <2>5. k = Exit
    BY <1>0, <2>2, <2>3, <2>4 DEF Routed, Exit, Exits
  <2>6. k \notin Done
    BY <2>1 DEF Done
  <2> QED
    BY <2>2, <2>5, <2>6
<1>3. CASE k \notin frontier
  <2>1. k \in Done
    BY <1>3 DEF Visited
  <2>2. \A n \in frontier : n = "final_artifact_render"
    BY <1>0, <2>1, NoExitYet
  <2>3. frontier = {} \/ frontier = {"final_artifact_render"}
    BY <2>2
  <2>4. /\ Done \subseteq Before(Exit) \cup {Exit, "final_artifact_render"}
        /\ Visited \subseteq Before(Exit) \cup {Exit, "final_artifact_render"} /\ Exit \in Exits
    BY <1>0, <2>3 DEF AtItsPlace, Visited, Exit, Exits
  <2>5. Exit = k
    BY <1>1, <2>1, <2>4 DEF Exits, Reviewers, OpeningNodes
  <2> QED
    BY <2>3, <2>4, <2>5
<1> QED
  BY <1>2, <1>3

\* What comes before a node the run has come to has been merged.
LEMMA DoneClosed ==
    ASSUME IInv, NEW k \in Visited, k # "final_artifact_render" PROVE Before(k) \subseteq Done
<1>0. AtItsPlace /\ Routed
  BY DEF IInv
<1>1. Screening = {} \/ Screening = {"se_check", "ae_check"}
  BY DEF Screening
<1>2. CASE k \in frontier
  BY <1>0, <1>2 DEF AtItsPlace
<1>3. ASSUME k \in Done, NEW n \in Node \ {"final_artifact_render"}, k \in Before(n),
             Before(n) \subseteq Done
      PROVE  Before(k) \subseteq Before(n)
  <2>1. CASE n \in {"doc_parse", "parse_fail_output", "content_check"}
    BY <1>3, <2>1, BeforeKnown DEF BeforeIs
  <2>2. CASE n \in {"invalid_file", "journal_req_collector"}
    BY <1>3, <2>2, BeforeKnown DEF BeforeIs
  <2>3. CASE n = "field_analyst"
    BY <1>3, <2>3, BeforeKnown DEF BeforeIs
  <2>4. CASE n \notin {"doc_parse", "parse_fail_output", "content_check", "invalid_file",
                      "journal_req_collector", "field_analyst", "final_artifact_render"}
    <3>1. OpeningNodes \subseteq Before(n)
      BY <2>4, BeforeKnown DEF BeforeIs, Node
    <3>2. CASE k \in OpeningNodes
      <4>1. Before(k) \subseteq OpeningNodes
        BY <3>2, BeforeKnown DEF BeforeIs, OpeningNodes
      <4> QED
        BY <3>1, <4>1
    <3>3. CASE k = "se_check"
      BY <3>1, <3>3, BeforeKnown DEF BeforeIs
    <3>4. CASE k = "ae_check"
      <4>1. "se_check" \in Before(n)
        BY <1>1, <1>3, <2>4, <3>4, BeforeKnown DEF BeforeIs, Node, OpeningNodes, Reviewers
      <4> QED
        BY <3>1, <3>4, <4>1, BeforeKnown DEF BeforeIs
    <3>5. CASE k = "review_dispatch"
      <4>1. Screening \subseteq Before(n)
        BY <1>1, <1>3, <2>4, <3>5, BeforeKnown DEF BeforeIs, Node, OpeningNodes, Reviewers
      <4> QED
        BY <3>1, <3>5, <4>1, BeforeKnown DEF BeforeIs
    <3>6. CASE k \in Reviewers
      <4>1. n \in {"ae_decision", "ae_report", "ae_finalize"}
        BY <1>1, <1>3, <2>4, <3>6, BeforeKnown DEF BeforeIs, Node, OpeningNodes, Reviewers
      <4> QED
        BY <3>6, <4>1, BeforeKnown DEF BeforeIs
    <3>7. CASE k \in {"ae_decision", "ae_report"}
      <4>1. n \in {"ae_report", "ae_finalize"}
        BY <1>1, <1>3, <2>4, <3>7, BeforeKnown DEF BeforeIs, Node, OpeningNodes, Reviewers
      <4>2. k # n
        BY <1>1, <1>3, <4>1, BeforeKnown DEF BeforeIs, OpeningNodes, Reviewers
      <4> QED
        BY <3>7, <4>1, <4>2, BeforeKnown DEF BeforeIs
    <3>8. k \in OpeningNodes \cup {"se_check", "ae_check", "review_dispatch", "ae_decision",
                                   "ae_report"} \cup Reviewers
      BY <1>1, <1>3, <2>4, BeforeKnown DEF BeforeIs, Node
    <3> QED
      BY <3>2, <3>3, <3>4, <3>5, <3>6, <3>7, <3>8
  <2> QED
    BY <1>3, <2>1, <2>2, <2>3, <2>4
<1>4. CASE k \in Done
  <2>1. CASE \E n \in frontier : n # "final_artifact_render"
    <3>1. PICK n \in frontier : n # "final_artifact_render"
      BY <2>1
    <3>2. Done = Before(n) /\ n \in Node \ {"final_artifact_render"}
      BY <1>0, <3>1 DEF AtItsPlace, Node, Reviewers
    <3> QED
      BY <1>3, <1>4, <3>2
  <2>2. CASE ~\E n \in frontier : n # "final_artifact_render"
    <3>1. frontier = {} \/ frontier = {"final_artifact_render"}
      BY <2>2
    <3>2. /\ Done \subseteq Before(Exit) \cup {Exit, "final_artifact_render"}
          /\ Before(Exit) \subseteq Done /\ Exit \in Node \ {"final_artifact_render"}
      BY <1>0, <3>1 DEF AtItsPlace, Exit, Node
    <3> QED
      BY <1>3, <1>4, <3>2
  <2> QED
    BY <2>1, <2>2
<1> QED
  BY <1>2, <1>4 DEF Visited

\* The four reports of a panel are those of the four reviewers.
LEMMA PanelContext ==
    ASSUME NEW reports \in Seq(Report), Panel(reports)
    PROVE  {reports[i].reviewer_key : i \in DOMAIN reports} = Reviewers
<1> DEFINE key(i) == reports[i].reviewer_key
<1>1. DOMAIN reports = 1..4
  BY DEF Panel
<1>2. PICK a \in 1..4, b \in 1..4, c \in 1..4, d \in 1..4 :
        key(a) = "reviewer1" /\ key(b) = "reviewer2" /\ key(c) = "reviewer3"
        /\ key(d) = "devils_advocate"
  <2>1. /\ \E i \in 1..4 : key(i) = "reviewer1"
        /\ \E i \in 1..4 : key(i) = "reviewer2"
        /\ \E i \in 1..4 : key(i) = "reviewer3"
        /\ \E i \in 1..4 : key(i) = "devils_advocate"
    BY DEF Panel, Reviewers
  <2> QED
    BY <2>1
<1>3. 1..4 = {a, b, c, d}
  BY <1>2
<1> HIDE DEF key
<1>4. {key(i) : i \in {a, b, c, d}} = Reviewers
  BY <1>2 DEF Reviewers
<1> QED
  BY <1>1, <1>3, <1>4 DEF key

\* The editor who decides has the report of each of the four reviewers.
THEOREM Spec_EditorHasWholePanel == Spec => []EditorHasWholePanel
<1>1. IInv => EditorHasWholePanel
  <2> SUFFICES ASSUME IInv, nodes["ae_decision"] # "NONE"
               PROVE  Len(state.reviewer_reports) = 4 /\ ae_review_context(state) = Reviewers
    BY DEF EditorHasWholePanel
  <2>1. "ae_decision" \in Visited
    BY SeenVisited DEF Node
  <2>2. Reviewers \subseteq Done
    BY <2>1, DoneClosed, BeforeKnown DEF BeforeIs
  <2>3. Panel(state.reviewer_reports)
    <3>1. "reviewer1" \in Reviewers
      BY DEF Reviewers
    <3> QED
      BY <2>2, <3>1 DEF IInv, ReportsAdded
  <2>4. state.reviewer_reports \in Seq(Report)
    BY DEF IInv, TypeOK, GlobalState
  <2> QED
    BY <2>3, <2>4, PanelContext DEF Panel, ae_review_context
<1> QED
  BY <1>1, Invariance, PTL

\* No reviewer starts without the dispatch that sets its context, the requirements
\* and, in a full review, the passes of both editors: the edges of build_graph()
\* lead to the panel from nowhere else.
THEOREM Spec_ReviewersHaveContext == Spec => []ReviewersHaveContext
<1>1. IInv => ReviewersHaveContext
  <2> SUFFICES ASSUME IInv, NEW r \in Reviewers, nodes[r] # "NONE"
               PROVE  state.ae_result = IF mode = "QUICK_REVIEW" THEN "default" ELSE "screened"
    BY DEF ReviewersHaveContext
  <2>1. r \in Visited /\ r # "final_artifact_render"
    BY SeenVisited DEF Node, Reviewers
  <2>2. Screening \cup {"review_dispatch"} \subseteq Done
    BY <2>1, DoneClosed, BeforeKnown DEF BeforeIs
  <2>3. /\ "review_dispatch" \in Visited /\ ("ae_check" \in Done => "ae_check" \in Visited)
        /\ mode \in ReviewMode /\ Routed /\ ChannelsWritten
    BY <2>2 DEF Visited, IInv, TypeOK
  <2> QED
    BY <2>2, <2>3 DEF Routed, ChannelsWritten, Screening, ReviewMode
<1> QED
  BY <1>1, Invariance, PTL

\* No node reads a channel that the nodes before it have not written: none of them
\* raises on a missing key of the state.
THEOREM Spec_NoNodeMissesAChannel == Spec => []NoNodeMissesAChannel
<1>1. IInv => NoNodeMissesAChannel
  <2> SUFFICES ASSUME IInv, NEW n \in Node, nodes[n] # "NONE"
               PROVE  MissingChannels(n, state) = {}
    BY DEF NoNodeMissesAChannel
  <2>0. n \in Visited /\ Routed /\ ChannelsWritten /\ Decided
    BY SeenVisited DEF IInv
  <2> SUFFICES ASSUME NEW c \in Mandatory(n) PROVE state[c] # Unset
    BY DEF MissingChannels
  <2>1. n # "final_artifact_render"
    BY DEF Mandatory, Reviewers
  <2>2. Before(n) \subseteq Done
    BY <2>0, <2>1, DoneClosed
  <2>3. CASE c = "parsed_paper"
    <3>1. n \notin {"doc_parse", "parse_fail_output", "final_artifact_render"}
      BY <2>3 DEF Mandatory, Reviewers
    <3>2. "doc_parse" \in Done
      BY <2>2, <2>3, BeforeKnown DEF BeforeIs, Mandatory, OpeningNodes, Node
    <3>3. "parse_fail_output" \notin Visited
      <4> SUFFICES ASSUME "parse_fail_output" \in Visited PROVE FALSE
        OBVIOUS
      <4>1. Visited \subseteq Before("parse_fail_output")
                \cup {"parse_fail_output", "final_artifact_render"}
        BY ExitTaken DEF Exits
      <4> QED
        BY <2>0, <3>1, <4>1, BeforeKnown DEF BeforeIs
    <3> QED
      BY <2>0, <2>3, <3>2, <3>3 DEF Routed, ChannelsWritten
  <2>4. CASE c = "journal_requirements"
    <3>1. "journal_req_collector" \in Done
      BY <2>2, <2>4, BeforeKnown DEF BeforeIs, Mandatory, OpeningNodes, Node, Reviewers
    <3> QED
      BY <2>0, <2>4, <3>1 DEF ChannelsWritten
  <2>5. CASE c = "ae_decision_result"
    <3>1. "ae_decision" \in Done
      BY <2>2, <2>5, BeforeKnown DEF BeforeIs, Mandatory, Reviewers
    <3> QED
      BY <2>0, <2>5, <3>1 DEF Decided, Verdicts, Unset
  <2> QED
    BY <2>3, <2>4, <2>5 DEF Mandatory
<1> QED
  BY <1>1, Invariance, PTL

\* The reducer merge_stage_outputs never loses a stage a node has named, although
\* the nodes of a superstep are merged together.
THEOREM Spec_StagesNeverReplaced == Spec => StagesNeverReplaced
<1> DEFINE Fresh == frontier' # frontier =>
          \A n \in frontier : StagesOf(n, state) \cap state.stage_outputs = {}
<1>1. IInv => Fresh
  <2> SUFFICES ASSUME IInv, NEW n \in frontier, NEW x \in StagesOf(n, state),
                      x \in state.stage_outputs
               PROVE  FALSE
    OBVIOUS
  <2>1. n \notin Done /\ AtItsPlace /\ ChannelsWritten /\ StagesNamed
    BY DEF Done, IInv
  <2>2. \/ x = n /\ n \notin {"journal_req_collector", "field_analyst"}
        \/ x \in {"venue_profile", "journal_requirements"} /\ n = "journal_req_collector"
        \/ x = "field_analysis" /\ n = "field_analyst"
        \/ x = "ae_check" /\ n = "review_dispatch" /\ NeedsDefaultContext(state)
    BY DEF StagesOf
  <2>3. n = "ae_check" => "review_dispatch" \notin Done
    BY <2>1, BeforeKnown DEF AtItsPlace, BeforeIs, OpeningNodes
  <2>4. n \in Node
    BY <2>1 DEF AtItsPlace, Node
  <2>5. NeedsDefaultContext(state) => "ae_check" \notin Done
    BY <2>1 DEF ChannelsWritten, NeedsDefaultContext, Unset
  <2>6. \/ x \in Done \ {"journal_req_collector", "field_analyst"}
        \/ x \in {"venue_profile", "journal_requirements"} /\ "journal_req_collector" \in Done
        \/ x = "field_analysis" /\ "field_analyst" \in Done
        \/ x = "ae_check" /\ "review_dispatch" \in Done
    BY <2>1 DEF StagesNamed
  <2>7. Done \subseteq Node
    BY DEF Done
  <2>8. /\ "venue_profile" \notin Node /\ "journal_requirements" \notin Node
        /\ "field_analysis" \notin Node
    BY DEF Node, Reviewers
  <2> QED
    BY <2>1, <2>2, <2>3, <2>4, <2>5, <2>6, <2>7, <2>8
<1>2. IInv => [Fresh]_vars
  BY <1>1
<1> QED
  BY <1>2, Invariance, PTL DEF StagesNeverReplaced

\* The decision the service returns is one the nodes of the run came to: a rejection
\* of a screening editor, the verdict of the panel's editor or of the single reviewer,
\* or an invalid submission.
THEOREM Spec_DeliveredDecisionIsEarned == Spec => []DeliveredDecisionIsEarned
<1>1. IInv => DeliveredDecisionIsEarned
  <2> SUFFICES ASSUME IInv, outcome = "SUCCEEDED" PROVE DeliveredDecisionIsEarned
    BY DEF DeliveredDecisionIsEarned
  <2> DEFINE d == state.final_decision
             reports == Keys(state.reviewer_reports)
             panel == <<"reviewer1", "reviewer2", "reviewer3", "devils_advocate">>
  <2>0. frontier = {} /\ AtItsPlace /\ Routed /\ ReportsAdded /\ Decided
    BY DEF IInv, InOrder
  <2>1. Done = Before(Exit) \cup {Exit, "final_artifact_render"} /\ Visited = Done
    BY <2>0 DEF AtItsPlace, Visited
  <2>2. \A n \in Exits : n \in Done <=> n = Exit
    <3>1. Exit \in Exits
      BY DEF Exit, Exits
    <3>2. \A n \in Exits : n \in Done => n = Exit
      BY <2>1, ExitTaken
    <3> QED
      BY <2>1, <3>1, <3>2
  <2>3. state.reviewer_reports = << >> => reports = << >>
    BY DEF Keys
  <2>4. CASE Exit \in {"parse_fail_output", "invalid_file", "desk_reject_output"}
    <3>1. reports = << >>
      <4>1. Before(Exit) \subseteq OpeningNodes \cup {"se_check", "ae_check"}
        BY <2>4, BeforeKnown DEF BeforeIs, OpeningNodes
      <4>2. Reviewers \cap Done = {} /\ "single_reviewer" \notin Done
        BY <2>1, <2>4, <4>1 DEF OpeningNodes, Reviewers
      <4> QED
        BY <2>0, <2>3, <4>2 DEF ReportsAdded
    <3>2. d = CASE Exit = "parse_fail_output" -> "REJECT"
                [] Exit = "invalid_file" -> "INVALID_SUBMISSION"
                [] Exit = "desk_reject_output" -> "DESK_REJECT"
      BY <2>0, <2>2, <2>4 DEF Decided, Exits
    <3>3. /\ "DESK_REJECT" \in {state.se_decision, state.ae_decision}
                <=> Exit = "desk_reject_output"
          /\ state.intent = "NOT_PAPER" <=> Exit = "invalid_file"
          /\ state.parse_error # "" <=> Exit = "parse_fail_output"
      BY <2>0, <2>1, <2>2 DEF Routed, Exits
    <3> HIDE DEF d, reports
    <3>4. /\ d = "DESK_REJECT" <=> "DESK_REJECT" \in {state.se_decision, state.ae_decision}
          /\ d = "INVALID_SUBMISSION" <=> state.intent = "NOT_PAPER"
          /\ d \in Verdicts \ {"REJECT"} => FALSE
          /\ d \notin Verdicts => reports = << >>
          /\ d = "REJECT" /\ reports = << >> <=> state.parse_error # ""
      BY <2>4, <3>1, <3>2, <3>3 DEF Verdicts
    <3> QED
      BY <3>4 DEF d, reports, DeliveredDecisionIsEarned
  <2>5. CASE Exit \in {"single_reviewer", "ae_finalize"}
    <3>1. d \in Verdicts
      <4>1. Exit = "ae_finalize" => "ae_decision" \in Done
        BY <2>1, BeforeKnown DEF BeforeIs
      <4> QED
        BY <2>0, <2>2, <2>5, <4>1 DEF Decided, Exits
    <3>2. /\ "DESK_REJECT" \notin {state.se_decision, state.ae_decision}
          /\ state.intent # "NOT_PAPER" /\ state.parse_error = ""
      BY <2>0, <2>1, <2>2, <2>5 DEF Routed, Exits
    <3>3. reports = IF mode = "SINGLE_AGENT_REVIEW" THEN <<"single_reviewer">> ELSE panel
      <4>1. CASE Exit = "single_reviewer"
        <5>1. mode = "SINGLE_AGENT_REVIEW" /\ "single_reviewer" \in Done
          BY <2>0, <2>1, <4>1 DEF Routed
        <5>2. Len(state.reviewer_reports) = 1
              /\ state.reviewer_reports[1].reviewer_key = "single_reviewer"
          BY <2>0, <5>1 DEF ReportsAdded
        <5>3. state.reviewer_reports \in Seq(Report)
          BY DEF IInv, TypeOK, GlobalState
        <5>4. DOMAIN state.reviewer_reports = 1..1
          BY <5>2, <5>3
        <5>5. reports = [i \in 1..1 |-> state.reviewer_reports[i].reviewer_key]
          BY <5>4 DEF Keys
        <5>6. reports = <<"single_reviewer">>
          BY <5>2, <5>5
        <5> QED
          BY <5>1, <5>6
      <4>2. CASE Exit = "ae_finalize"
        <5>1. mode # "SINGLE_AGENT_REVIEW"
          BY <4>2, <2>1, <2>0, BeforeKnown DEF BeforeIs, Routed
        <5>2. Reviewers \subseteq Done
          BY <2>1, <4>2, BeforeKnown DEF BeforeIs
        <5>3. reports = panel
          BY <5>2 DEF IInv, InOrder
        <5> QED
          BY <5>1, <5>3
      <4> QED
        BY <2>5, <4>1, <4>2
    <3>4. reports # << >>
      BY <3>3
    <3> HIDE DEF d, reports
    <3>5. /\ d = "DESK_REJECT" <=> "DESK_REJECT" \in {state.se_decision, state.ae_decision}
          /\ d = "INVALID_SUBMISSION" <=> state.intent = "NOT_PAPER"
          /\ d \notin Verdicts => reports = << >>
          /\ d = "REJECT" /\ reports = << >> <=> state.parse_error # ""
      BY <3>1, <3>2, <3>4 DEF Verdicts
    <3> QED
      BY <3>3, <3>5 DEF d, reports, DeliveredDecisionIsEarned
  <2> QED
    BY <2>4, <2>5 DEF Exit
<1> QED
  BY <1>1, Invariance, PTL

-----------------------------------------------------------------------------
(* What the reports to read are made of.                                   *)

\* No report is short.
Full(reports) == \A i \in DOMAIN reports : ~review_format_issues(reports[i])

\* What node n adds to what is rendered.
Adds(n, s, t) ==
    /\ Full(s.reviewer_reports) => Full(t.reviewer_reports)
    /\ t.ae_report = IF n = "ae_report" THEN TRUE ELSE s.ae_report
    /\ t.ae_final = IF n = "ae_finalize" THEN AEFinal ELSE s.ae_final
    /\ IF n \in Exits THEN (n = "ae_finalize" => s.ae_report) => t.decision_letter # ""
       ELSE t.decision_letter = s.decision_letter
    /\ n = "final_artifact_render" =>
          \E a : t.rendered_artifacts = final_artifact_render_node(s, a).rendered_artifacts

\* A review that passed its validator is not short, and the report and the letter of
\* the editors are there.
LEMMA AcceptedFull ==
    ASSUME NEW n, Accepted(n), NEW a, a = reply[n]
    PROVE  /\ n \in Reviewers \cup {"single_reviewer"} =>
                 ~review_format_issues(report_from_result(n, a))
           /\ n = "single_reviewer" => a.word # "thin"
           /\ n = "ae_report" => a.letter
<1>1. PICK answer \in Answers(n) : validator_for_prompt(n, answer) /\ a = Ended(answer)
  BY DEF Accepted
<1>2. a.word = answer.word /\ a.letter = answer.letter
  BY <1>1 DEF Ended
<1>3. CommentsOf(a) = CommentsOf(answer)
  BY <1>2 DEF CommentsOf
<1>4. ASSUME n \in Reviewers \cup {"single_reviewer"}
      PROVE  ~review_format_issues(report_from_result(n, a))
  <2>1. ReviewerOutput(answer)
    BY <1>1, <1>4 DEF validator_for_prompt, validate_reviewer_output,
       validate_single_reviewer_output, Reviewers
  <2>2. ReviewerOutput(a)
    BY <1>3, <2>1 DEF ReviewerOutput
  <2> DEFINE report == report_from_result(n, a)  has == CommentsOf(a)
  <2>3. /\ report.major_comments = has.major_comments
        /\ report.minor_comments = has.minor_comments
        /\ report.questions_for_authors = has.questions_for_authors
    BY DEF report_from_result
  <2>4. /\ has.major_comments \in {2, 3} /\ has.minor_comments = 2
        /\ has.questions_for_authors = 2
    BY DEF CommentsOf
  <2>5. has.major_comments >= 3
    BY <2>2 DEF ReviewerOutput
  <2> HIDE DEF report, has
  <2>6. ~review_format_issues(report)
    BY <2>3, <2>4, <2>5 DEF review_format_issues
  <2> QED
    BY <2>6 DEF report
<1>5. ASSUME n = "single_reviewer" PROVE a.word # "thin"
  <2>1. a.word \in Verdicts
    BY <1>1, <1>2, <1>5, ValidatorOf
  <2> QED
    BY <2>1 DEF Verdicts
<1>6. ASSUME n = "ae_report" PROVE a.letter
  BY <1>1, <1>2, <1>6 DEF validator_for_prompt, validate_ae_report_output, Reviewers
<1> QED
  BY <1>4, <1>5, <1>6

\* One more full report.
LEMMA FullAdded ==
    ASSUME NEW reports \in Seq(Report), Full(reports), NEW report, ~review_format_issues(report)
    PROVE  Full(Append(reports, report))
<1> DEFINE more == Append(reports, report)  n == Len(reports)
<1>1. n \in Nat /\ DOMAIN reports = 1..n /\ DOMAIN more = 1..(n + 1)
      /\ more[n + 1] = report /\ \A i \in 1..n : more[i] = reports[i]
  OBVIOUS
<1> HIDE DEF more, n
<1>2. \A i \in 1..(n + 1) : i \in 1..n \/ i = n + 1
  BY <1>1
<1>3. Full(more)
  BY <1>1, <1>2 DEF Full
<1> QED
  BY <1>3 DEF more

\* Sorting makes no report short.
LEMMA FullSorted ==
    ASSUME NEW reports \in Seq(Report), Full(reports)
    PROVE  Full(sorted_reports(reports))
<1> DEFINE S == {r \in Report : ~review_format_issues(r)}
           sorted == sorted_reports(reports)
<1>1. reports \in Seq(S)
  BY DEF Full
<1>2. \A r \in S : ~review_format_issues(r)
  OBVIOUS
<1> HIDE DEF S
<1>3. sorted \in Seq(S)
  BY <1>1, SortedFrom
<1> HIDE DEF sorted
<1>4. Full(sorted)
  BY <1>2, <1>3 DEF Full
<1> QED
  BY <1>4 DEF sorted

\* The nodes that add nothing to what is rendered.
LEMMA QuietNodes ==
    ASSUME NEW s \in GlobalState, NEW a,
           NEW w \in {doc_parse_node(s, a), content_check_node(s, a),
                      journal_req_collector_node(s), se_check_node(s, a), ae_check_node(s, a),
                      review_dispatch_node(s), ae_decision_node(s, a), s}
    PROVE  /\ w.reviewer_reports = s.reviewer_reports /\ w.ae_report = s.ae_report
           /\ w.ae_final = s.ae_final /\ w.decision_letter = s.decision_letter
<1> DEFINE Same(v) == /\ v.reviewer_reports = s.reviewer_reports /\ v.ae_report = s.ae_report
                      /\ v.ae_final = s.ae_final /\ v.decision_letter = s.decision_letter
<1>1. Same(doc_parse_node(s, a))
  BY DEF doc_parse_node, GlobalState
<1>2. Same(content_check_node(s, a))
  BY DEF content_check_node, GlobalState
<1>3. Same(journal_req_collector_node(s))
  BY DEF journal_req_collector_node, GlobalState
<1>4. Same(se_check_node(s, a))
  BY DEF se_check_node, GlobalState
<1>5. Same(ae_check_node(s, a))
  BY DEF ae_check_node, GlobalState
<1>6. Same(review_dispatch_node(s))
  BY DEF review_dispatch_node, GlobalState
<1>7. Same(ae_decision_node(s, a))
  BY DEF ae_decision_node, GlobalState
<1>8. Same(s)
  OBVIOUS
<1> HIDE DEF Same
<1>9. Same(w)
  BY <1>1, <1>2, <1>3, <1>4, <1>5, <1>6, <1>7, <1>8
<1> QED
  BY <1>9 DEF Same

\* What an accepted answer adds, before the stages are named.
LEMMA AcceptedWrites ==
    ASSUME NEW s \in GlobalState, NEW n \in Node, Accepted(n), NEW w,
           w = Writes(n, reply[n], s)
    PROVE  Adds(n, s, w)
<1> DEFINE a == reply[n]
<1>0. a = reply[n]
  OBVIOUS
<1>w. w = Writes(n, a, s)
  OBVIOUS
<1> HIDE DEF a
<1>1. CASE n \in {"doc_parse", "content_check", "journal_req_collector", "field_analyst",
                  "se_check", "ae_check", "review_dispatch", "ae_decision"}
  <2>1. w \in {doc_parse_node(s, a), content_check_node(s, a),
               journal_req_collector_node(s), se_check_node(s, a), ae_check_node(s, a),
               review_dispatch_node(s), ae_decision_node(s, a), s}
    <3>1. n = "doc_parse" => w = doc_parse_node(s, a)
      BY <1>w, WritesOf
    <3>2. n = "content_check" => w = content_check_node(s, a)
      BY <1>w, WritesOf
    <3>3. n = "journal_req_collector" => w = journal_req_collector_node(s)
      BY <1>w, WritesOf
    <3>4. n = "field_analyst" => w = s
      BY <1>w, WritesOf
    <3>5. n = "se_check" => w = se_check_node(s, a)
      BY <1>w, WritesOf
    <3>6. n = "ae_check" => w = ae_check_node(s, a)
      BY <1>w, WritesOf
    <3>7. n = "review_dispatch" => w = review_dispatch_node(s)
      BY <1>w, WritesOf
    <3>8. n = "ae_decision" => w = ae_decision_node(s, a)
      BY <1>w, WritesOf
    <3> QED
      BY <1>1, <3>1, <3>2, <3>3, <3>4, <3>5, <3>6, <3>7, <3>8
  <2>2. /\ w.reviewer_reports = s.reviewer_reports /\ w.ae_report = s.ae_report
        /\ w.ae_final = s.ae_final /\ w.decision_letter = s.decision_letter
    BY <2>1, QuietNodes
  <2> QED
    BY <1>1, <2>2 DEF Adds, Exits
<1>2. CASE n \in {"parse_fail_output", "invalid_file", "desk_reject_output"}
  <2>1. \/ n = "parse_fail_output" /\ w = parse_fail_output_node(s)
        \/ n = "invalid_file" /\ w = invalid_file_node(s)
        \/ n = "desk_reject_output" /\ w = desk_reject_output_node(s)
    <3>1. n = "parse_fail_output" => w = parse_fail_output_node(s)
      BY <1>w, WritesOf
    <3>2. n = "invalid_file" => w = invalid_file_node(s)
      BY <1>w, WritesOf
    <3>3. n = "desk_reject_output" => w = desk_reject_output_node(s)
      BY <1>w, WritesOf
    <3> QED
      BY <1>2, <3>1, <3>2, <3>3
  <2>2. PICK letter, d :
          /\ w = [s EXCEPT !.final_decision = d, !.decision_letter = letter] /\ letter # ""
    <3>1. CASE n = "parse_fail_output" /\ w = parse_fail_output_node(s)
      <4> DEFINE words == "message"
      <4>1. w = [s EXCEPT !.final_decision = "REJECT", !.decision_letter = words]
        BY <3>1 DEF parse_fail_output_node
      <4>2. words # ""
        OBVIOUS
      <4> HIDE DEF words
      <4> QED
        BY <4>1, <4>2
    <3>2. CASE n = "invalid_file" /\ w = invalid_file_node(s)
      <4> DEFINE words == "message"
      <4>1. w = [s EXCEPT !.final_decision = "INVALID_SUBMISSION", !.decision_letter = words]
        BY <3>2 DEF invalid_file_node
      <4>2. words # ""
        OBVIOUS
      <4> HIDE DEF words
      <4> QED
        BY <4>1, <4>2
    <3>3. CASE n = "desk_reject_output" /\ w = desk_reject_output_node(s)
      <4> DEFINE words == IF s.se_rejection_letter THEN "senior editor"
                          ELSE IF s.ae_rejection_letter THEN "associate editor" ELSE "fallback"
      <4>1. w = [s EXCEPT !.final_decision = "DESK_REJECT", !.decision_letter = words]
        BY <3>3 DEF desk_reject_output_node
      <4>2. words # ""
        OBVIOUS
      <4> HIDE DEF words
      <4> QED
        BY <4>1, <4>2
    <3> QED
      BY <2>1, <3>1, <3>2, <3>3
  <2>3. /\ w.reviewer_reports = s.reviewer_reports /\ w.ae_report = s.ae_report
        /\ w.ae_final = s.ae_final /\ w.decision_letter = letter
    BY <2>2 DEF GlobalState
  <2> QED
    BY <1>2, <2>2, <2>3 DEF Adds, Exits
<1>3. CASE n \in Reviewers
  <2>0. w = ReportAdded(s, report_from_result(n, a))
    <3>1. Writes(n, a, s) = ReportAdded(s, report_from_result(n, a))
      BY <1>3 DEF Writes, Reviewers, run_reviewer, devils_advocate_node
    <3> QED
      BY <1>w, <3>1
  <2> DEFINE report == report_from_result(n, a)
  <2>1. ~review_format_issues(report)
    BY <1>0, <1>3, AcceptedFull
  <2>2. w = ReportAdded(s, report)
    BY <2>0
  <2> HIDE DEF report
  <2>3. s.reviewer_reports \in Seq(Report)
    BY DEF GlobalState
  <2>4. Full(s.reviewer_reports) => Full(Append(s.reviewer_reports, report))
    BY <2>1, <2>3, FullAdded
  <2>5. /\ w.reviewer_reports = Append(s.reviewer_reports, report)
        /\ w.ae_report = s.ae_report
        /\ w.ae_final = s.ae_final /\ w.decision_letter = s.decision_letter
    BY <2>2 DEF ReportAdded, GlobalState
  <2> QED
    BY <1>3, <2>4, <2>5 DEF Adds, Exits, Reviewers
<1>4. CASE n = "single_reviewer"
  <2> DEFINE report == report_from_result("single_reviewer", a)
             letter == IF a.letter \/ a.word # "thin" THEN "single reviewer" ELSE ""
             d == final_decision_of(a.word)
  <2>1. ~review_format_issues(report) /\ letter # ""
    BY <1>0, <1>4, AcceptedFull
  <2>2. w = single_reviewer_node(s, a)
    BY <1>4, <1>w, WritesOf, Zenon
  <2>3. w = [s EXCEPT !.reviewer_reports = Append(s.reviewer_reports, report),
                      !.final_decision = d, !.decision_letter = letter]
    BY <2>2 DEF single_reviewer_node, single_reviewer, ReportAdded
  <2> HIDE DEF report, letter, d
  <2>4. s.reviewer_reports \in Seq(Report)
    BY DEF GlobalState
  <2>5. Full(s.reviewer_reports) => Full(Append(s.reviewer_reports, report))
    BY <2>1, <2>4, FullAdded
  <2>6. /\ w.reviewer_reports = Append(s.reviewer_reports, report)
        /\ w.ae_report = s.ae_report
        /\ w.ae_final = s.ae_final /\ w.decision_letter = letter
    BY <2>3 DEF GlobalState
  <2> QED
    BY <1>4, <2>1, <2>5, <2>6 DEF Adds, Exits
<1>5. CASE n = "ae_report"
  <2>1. w = [s EXCEPT !.ae_report = a.letter]
    BY <1>5, <1>w, WritesOf, Zenon DEF ae_report_node, ae_report
  <2>2. /\ w.reviewer_reports = s.reviewer_reports /\ w.ae_report = a.letter
        /\ w.ae_final = s.ae_final /\ w.decision_letter = s.decision_letter
    BY <2>1 DEF GlobalState
  <2>3. a.letter = TRUE
    <3>1. a.letter
      BY <1>0, <1>5, AcceptedFull
    <3>2. a.letter \in BOOLEAN
      BY <1>0, <1>5, AcceptedAnswer
    <3> QED
      BY <3>1, <3>2
  <2>4. /\ w.ae_report = TRUE
    BY <2>2, <2>3
  <2> QED
    BY <1>5, <2>2, <2>4 DEF Adds, Exits
<1>6. CASE n = "ae_finalize"
  <2> DEFINE letter == IF s.ae_report THEN "report" ELSE ""
             d == s.ae_decision_result
  <2>1. w = [s EXCEPT !.ae_final = AEFinal, !.final_decision = d, !.decision_letter = letter]
    BY <1>6, <1>w, WritesOf, Zenon DEF ae_finalize_node
  <2>2. s.ae_report => letter # ""
    OBVIOUS
  <2> HIDE DEF letter, d
  <2>3. /\ w.reviewer_reports = s.reviewer_reports /\ w.ae_report = s.ae_report
        /\ w.ae_final = AEFinal /\ w.decision_letter = letter
    BY <2>1 DEF GlobalState
  <2> QED
    BY <1>6, <2>2, <2>3 DEF Adds, Exits
<1>7. CASE n = "final_artifact_render"
  <2>1. w = final_artifact_render_node(s, a)
    BY <1>7, <1>w, WritesOf, Zenon
  <2>2. PICK author, audit \in Parts :
          w = [s EXCEPT !.rendered_artifacts = [author_report |-> author, internal_audit |-> audit]]
    BY <2>1, FinalArtifactRenderLeaves
  <2>3. /\ w.reviewer_reports = s.reviewer_reports /\ w.ae_report = s.ae_report
        /\ w.ae_final = s.ae_final /\ w.decision_letter = s.decision_letter
    BY <2>2 DEF GlobalState
  <2>4. \E b : w.rendered_artifacts = final_artifact_render_node(s, b).rendered_artifacts
    BY <2>1, Zenon
  <2> QED
    BY <1>7, <2>3, <2>4 DEF Adds, Exits
<1> QED
  BY <1>1, <1>2, <1>3, <1>4, <1>5, <1>6, <1>7 DEF Node

\* Merging names the stages and adds nothing else.
LEMMA AcceptedAdds ==
    ASSUME NEW s \in GlobalState, NEW n \in Node, Accepted(n)
    PROVE  Adds(n, s, Merged(s, n))
<1> DEFINE w == Writes(n, reply[n], s)
           t == [w EXCEPT !.stage_outputs = w.stage_outputs \cup StagesOf(n, s)]
<1>1. Adds(n, s, w)
  <2>1. w = Writes(n, reply[n], s)
    OBVIOUS
  <2> HIDE DEF w
  <2> QED
    BY <2>1, AcceptedWrites
<1>2. w \in GlobalState
  BY AcceptedLeaves DEF Leaves
<1>3. Merged(s, n) = t
  BY DEF Merged
<1> HIDE DEF w
<1>4. /\ t.reviewer_reports = w.reviewer_reports /\ t.ae_report = w.ae_report
      /\ t.ae_final = w.ae_final /\ t.decision_letter = w.decision_letter
      /\ t.rendered_artifacts = w.rendered_artifacts
  BY <1>2 DEF GlobalState
<1> HIDE DEF t
<1>5. Adds(n, s, t)
  BY <1>1, <1>4, Zenon DEF Adds
<1> QED
  BY <1>3, <1>5

\* Sorting no report leaves none.
LEMMA NoneSorted ==
    ASSUME NEW reports, reports = << >>
    PROVE  Keys(sorted_reports(reports)) = << >>
<1> DEFINE sorted == sorted_reports(reports)
<1>1. << >> \in Seq(Report)
  OBVIOUS
<1>2. sorted \in Seq(Report) /\ Len(sorted) = 0
  BY <1>1, SortedTyped
<1> HIDE DEF sorted
<1>3. sorted = << >>
  BY <1>2
<1>4. Keys(sorted) = << >>
  BY <1>3 DEF Keys
<1> QED
  BY <1>4 DEF sorted

\* What the two reports to read say.
PagesSpeak(pages, decision, letter, returned, traced) ==
    LET author == pages.author_report
        audit == pages.internal_audit
    IN
    /\ OpensWith(author, decision) /\ OpensWith(audit, decision) /\ Carries(author, letter)
    /\ Whose(author, "reviewer") = returned /\ Whose(audit, "reviewer_artifact_index") = returned
    /\ \A p \in ToSet(author) : p.title \notin Internal
    /\ traced <=> Whose(audit, "rr_traceability_matrix") # << >>

\* Whatever the answers left out, final_artifact_render says it all.
LEMMA RenderedSpeaks ==
    ASSUME NEW s \in GlobalState, NEW a, Full(s.reviewer_reports), s.decision_letter # "",
           s.final_decision \in FinalDecision,
           s.final_decision \in {"DESK_REJECT", "INVALID_SUBMISSION"} =>
               s.reviewer_reports = << >>
    PROVE  PagesSpeak(final_artifact_render_node(s, a).rendered_artifacts, s.final_decision,
                      s.decision_letter, Keys(sorted_reports(s.reviewer_reports)),
                      "rr_traceability_matrix" \in s.ae_final)
<1> DEFINE editor(who, asked) == IF asked /\ Gave(who, a)
                                 THEN {"assessment", "desk_reject_types", "concerns"} ELSE {}
           filled == {"revision_checklist", "rr_traceability_matrix", "revision_roadmap"}
           r == [final_decision |-> s.final_decision, decision_letter |-> s.decision_letter,
                 venue_profile |-> "venue_profile" \in s.stage_outputs /\ Gave("venue", a),
                 se_result |-> editor("senior editor", s.se_decision # Unset),
                 ae_result |-> editor("associate editor", s.ae_result # Unset),
                 reviewer_reports |-> s.reviewer_reports,
                 ae_final |-> IF Gave("panel", a) THEN s.ae_final ELSE s.ae_final \cap filled,
                 extras |-> IF Gave("panel", a)
                            THEN {"overall_assessment", "ethics_and_limitations", "problem_roots",
                                  "revision_plan", "weaknesses"} ELSE {},
                 stage_outputs |-> s.stage_outputs]
           reports == sorted_reports(s.reviewer_reports)
           author == render_markdown(r)
           audit == render_internal_audit_markdown(r)
           matrix == IF "rr_traceability_matrix" \in r.ae_final
                     THEN <<"associate editor">> ELSE << >>
<1>1. final_artifact_render_node(s, a)
         = [s EXCEPT !.rendered_artifacts = [author_report |-> author, internal_audit |-> audit]]
  BY DEF final_artifact_render_node
<1>2. /\ r.final_decision = s.final_decision /\ r.decision_letter = s.decision_letter
      /\ r.reviewer_reports = s.reviewer_reports
  OBVIOUS
<1>3. "rr_traceability_matrix" \in r.ae_final <=> "rr_traceability_matrix" \in s.ae_final
  OBVIOUS
<1> HIDE DEF r
<1>4. /\ s.final_decision \in FinalDecision \cup {Unset} /\ s.decision_letter \in Letters
      /\ s.reviewer_reports \in Seq(Report)
  BY DEF GlobalState
<1>5. reports \in Seq(Report) /\ Full(reports)
  BY <1>4, SortedTyped, FullSorted
<1>6. decision_value(r.final_decision) = s.final_decision
  BY <1>2 DEF decision_value, FinalDecision, Verdicts
<1>7. s.final_decision \in {"DESK_REJECT", "INVALID_SUBMISSION"} => Keys(reports) = << >>
  BY NoneSorted
<1> HIDE DEF author, audit
<1>8. /\ author \in Saying("reviewer",
                           IF decision_value(r.final_decision) \in {"INVALID_SUBMISSION", "DESK_REJECT"}
                           THEN << >> ELSE Keys(reports), AuthorTitles)
      /\ OpensWith(author, decision_value(r.final_decision))
      /\ r.decision_letter # "" => Carries(author, r.decision_letter)
  <2>1. /\ r.final_decision \in FinalDecision \cup {Unset} /\ r.decision_letter \in Letters
        /\ reports \in Seq(Report) /\ reports = sorted_reports(r.reviewer_reports)
        /\ AuthorTitles \subseteq AuthorTitles /\ author = render_markdown(r)
        /\ (\E i \in DOMAIN reports : review_format_issues(reports[i])) =>
              "format_check" \in AuthorTitles
    BY <1>2, <1>4, <1>5 DEF Full, author
  <2> HIDE DEF reports
  <2> QED
    BY <2>1, AuthorReportSays
<1>9. /\ audit \in Saying("reviewer_artifact_index", Keys(reports), Titles)
      /\ audit \in Saying("rr_traceability_matrix", matrix, Titles)
      /\ OpensWith(audit, decision_value(r.final_decision))
  <2>1. /\ r.final_decision \in FinalDecision \cup {Unset}
        /\ reports \in Seq(Report) /\ reports = sorted_reports(r.reviewer_reports)
        /\ audit = render_internal_audit_markdown(r)
    BY <1>2, <1>4, <1>5 DEF audit
  <2> HIDE DEF reports
  <2> QED
    BY <2>1, AuditSays
<1> HIDE DEF reports
<1>10. Whose(author, "reviewer") = Keys(reports) /\ author \in PartsOf(AuthorTitles)
  BY <1>6, <1>7, <1>8 DEF Saying
<1>11. /\ Whose(audit, "reviewer_artifact_index") = Keys(reports)
       /\ Whose(audit, "rr_traceability_matrix") = matrix
  BY <1>9 DEF Saying
<1>12. \A p \in ToSet(author) : p.title \notin Internal
  <2>1. DOMAIN author = 1..Len(author) /\ \A i \in 1..Len(author) : author[i].title \in AuthorTitles
    BY <1>10, PartsTyped
  <2> QED
    BY <2>1 DEF AuthorTitles, ToSet
<1>13. "rr_traceability_matrix" \in s.ae_final <=> matrix # << >>
  BY <1>3
<1> DEFINE pages == [author_report |-> author, internal_audit |-> audit]
<1>14. pages.author_report = author /\ pages.internal_audit = audit
  OBVIOUS
<1> HIDE DEF pages, matrix
<1>15. PagesSpeak(pages, s.final_decision, s.decision_letter, Keys(reports),
                  "rr_traceability_matrix" \in s.ae_final)
  BY <1>2, <1>6, <1>8, <1>9, <1>10, <1>11, <1>12, <1>13, <1>14, Zenon DEF PagesSpeak
<1>16. final_artifact_render_node(s, a).rendered_artifacts = pages
  BY <1>1 DEF GlobalState, pages
<1> QED
  BY <1>15, <1>16 DEF reports

\* What a reviewer adds, it may add again and again.
LEMMA ReviewersAdd ==
    ASSUME NEW r \in Reviewers, NEW s, NEW t
    PROVE  Adds(r, s, t) <=>
              /\ Full(s.reviewer_reports) => Full(t.reviewer_reports)
              /\ t.ae_report = s.ae_report /\ t.ae_final = s.ae_final
              /\ t.decision_letter = s.decision_letter
BY DEF Adds, Reviewers, Exits

\* What a superstep adds, whatever the order in which its nodes are merged.
LEMMA SuperstepAdds ==
    ASSUME TypeOK, NodesTell, AtItsPlace, EndSuperstep
    PROVE  \/ \E n \in Node \ Reviewers : frontier = {n} /\ Adds(n, state, state')
           \/ frontier = Reviewers /\ \A r \in Reviewers : Adds(r, state, state')
<1>1. state \in GlobalState /\ \A n \in frontier : Accepted(n)
  BY SuperstepMerged DEF TypeOK
<1>2. ASSUME NEW n \in Node \ Reviewers, frontier = {n} PROVE Adds(n, state, state')
  <2>1. state' = Merged(state, n)
    BY <1>2, OneMerged
  <2>2. Adds(n, state, Merged(state, n))
    BY <1>1, <1>2, AcceptedAdds
  <2> QED
    BY <2>1, <2>2
<1>3. ASSUME frontier = Reviewers PROVE \A r \in Reviewers : Adds(r, state, state')
  <2>1. PICK order \in SetToSeqs(Reviewers) : state' = MergedInOrder(state, order)
    BY <1>3 DEF EndSuperstep
  <2> DEFINE s == state
             s1 == Merged(s, order[1])  s2 == Merged(s1, order[2])
             s3 == Merged(s2, order[3])  s4 == Merged(s3, order[4])
  <2>2. order \in [1..4 -> Reviewers] /\ state' = s4
    BY <2>1, PanelInOrder
  <2>3. \A k \in 1..4 : order[k] \in Reviewers /\ order[k] \in Node /\ Accepted(order[k])
    BY <1>1, <1>3, <2>2 DEF Node
  <2>4. 1 \in 1..4 /\ 2 \in 1..4 /\ 3 \in 1..4 /\ 4 \in 1..4
    OBVIOUS
  <2>5. ASSUME NEW k \in 1..4, NEW u \in GlobalState
        PROVE  /\ Merged(u, order[k]) \in GlobalState
               /\ Full(u.reviewer_reports) => Full(Merged(u, order[k]).reviewer_reports)
               /\ Merged(u, order[k]).ae_report = u.ae_report
               /\ Merged(u, order[k]).ae_final = u.ae_final
               /\ Merged(u, order[k]).decision_letter = u.decision_letter
    <3> DEFINE r == order[k]
    <3>1. r \in Reviewers /\ r \in Node /\ Accepted(r)
      BY <2>3
    <3> HIDE DEF r
    <3>2. Adds(r, u, Merged(u, r)) /\ Merged(u, r) \in GlobalState
      BY <3>1, AcceptedAdds, AcceptedMerges DEF Merges
    <3> DEFINE t == Merged(u, r)
    <3>3. Adds(r, u, t) /\ t \in GlobalState
      BY <3>2
    <3> HIDE DEF t
    <3>4. /\ t \in GlobalState
          /\ Full(u.reviewer_reports) => Full(t.reviewer_reports)
          /\ t.ae_report = u.ae_report /\ t.ae_final = u.ae_final
          /\ t.decision_letter = u.decision_letter
      BY <3>1, <3>3, ReviewersAdd
    <3> QED
      BY <3>4, Zenon DEF t, r
  <2>6. s \in GlobalState
    BY <1>1
  <2> DEFINE Same(u) == /\ Full(s.reviewer_reports) => Full(u.reviewer_reports)
                        /\ u.ae_report = s.ae_report /\ u.ae_final = s.ae_final
                        /\ u.decision_letter = s.decision_letter
  <2> HIDE DEF s
  <2>7. s1 \in GlobalState /\ Same(s1)
    BY <2>4, <2>5, <2>6, Zenon
  <2> HIDE DEF s1
  <2>8. s2 \in GlobalState /\ Same(s2)
    BY <2>4, <2>5, <2>7, Zenon
  <2> HIDE DEF s2
  <2>9. s3 \in GlobalState /\ Same(s3)
    BY <2>4, <2>5, <2>8, Zenon
  <2> HIDE DEF s3
  <2>10. Same(s4)
    BY <2>4, <2>5, <2>9, Zenon
  <2> HIDE DEF s4
  <2>11. Same(state')
    BY <2>2, <2>10
  <2> QED
    BY <2>11, ReviewersAdd DEF s
<1>4. frontier # {}
  BY DEF EndSuperstep
<1> QED
  BY <1>2, <1>3, <1>4 DEF AtItsPlace

-----------------------------------------------------------------------------
(* What a delivered run says.                                              *)

\* No report is short, the editors' report has a letter, and every exit leaves one;
\* what is rendered last says all of it.
Spoken ==
    /\ Full(state.reviewer_reports)
    /\ "ae_report" \in Done => state.ae_report
    /\ state.ae_final = IF "ae_finalize" \in Done THEN AEFinal ELSE {}
    /\ Exits \cap Done # {} => state.decision_letter # ""
    /\ frontier = {} =>
          PagesSpeak(state.rendered_artifacts, state.final_decision, state.decision_letter,
                     IF outcome = "SUCCEEDED" THEN Keys(state.reviewer_reports)
                     ELSE Keys(sorted_reports(state.reviewer_reports)),
                     "ae_finalize" \in Done)

\* A step that leaves the channels and the place of the run alone leaves it.
LEMMA SpokenKept ==
    ASSUME Spoken, UNCHANGED <<state, frontier>>, Done' = Done,
           outcome' = "SUCCEEDED" <=> outcome = "SUCCEEDED"
    PROVE  Spoken'
BY Zenon DEF Spoken, Full, Keys, PagesSpeak, OpensWith, Carries

\* When the reports are rendered, an exit has published a decision, and nobody has
\* reviewed what was returned.
LEMMA BeforeRender ==
    ASSUME IInv, frontier = {"final_artifact_render"}
    PROVE  /\ Exits \cap Done # {} /\ state.final_decision \in FinalDecision
           /\ state.final_decision \in {"DESK_REJECT", "INVALID_SUBMISSION"} =>
                 state.reviewer_reports = << >>
<1>0. AtItsPlace /\ ReportsAdded /\ Decided
  BY DEF IInv
<1>1. Done = Before(Exit) \cup {Exit} /\ Exit \in Exits
  BY <1>0 DEF AtItsPlace, Exit, Exits
<1>2. \A n \in Exits : n \in Done <=> n = Exit
  <2>1. Done \subseteq Visited
    BY DEF Visited
  <2> QED
    BY <1>1, <2>1, ExitTaken
<1>3. CASE Exit \in {"single_reviewer", "ae_finalize"}
  <2>1. Exit = "ae_finalize" => "ae_decision" \in Done
    BY <1>1, BeforeKnown DEF BeforeIs
  <2>2. state.final_decision \in Verdicts
    BY <1>0, <1>2, <1>3, <2>1 DEF Decided, Exits
  <2> QED
    BY <1>1, <2>2 DEF Verdicts, FinalDecision
<1>4. CASE Exit \in {"parse_fail_output", "invalid_file", "desk_reject_output"}
  <2>1. state.final_decision \in {"REJECT", "INVALID_SUBMISSION", "DESK_REJECT"}
    BY <1>0, <1>2, <1>4 DEF Decided, Exits
  <2>2. Before(Exit) \subseteq OpeningNodes \cup {"se_check", "ae_check"}
    BY <1>4, BeforeKnown DEF BeforeIs, OpeningNodes
  <2>3. Reviewers \cap Done = {} /\ "single_reviewer" \notin Done
    BY <1>1, <1>4, <2>2 DEF OpeningNodes, Reviewers
  <2> QED
    BY <1>0, <1>1, <2>1, <2>3 DEF ReportsAdded, FinalDecision, Verdicts
<1> QED
  BY <1>1, <1>3, <1>4 DEF Exits

\* What is rendered last is made of what was merged before.
LEMMA SpokenMoves ==
    ASSUME IInv, Spoken, EndSuperstep PROVE Spoken'
<1>0. TypeOK /\ NodesTell /\ AtItsPlace
  BY DEF IInv
<1>1. /\ \/ \E n \in Node \ Reviewers :
               frontier = {n} /\ Merges(n, state, state') /\ frontier' = Edges(n, state')
         \/ frontier = Reviewers /\ PanelMerged(state, state') /\ frontier' = {"ae_decision"}
      /\ UNCHANGED <<mode, nodes, outcome>>
  BY <1>0, SuperstepMerged
<1>2. Done' = Visited
  BY SuperstepMoves DEF Moved
<1>3. CASE frontier = Reviewers
  <2>1. frontier' = {"ae_decision"}
    BY <1>1, <1>3 DEF Reviewers
  <2>2. \A r \in Reviewers : Adds(r, state, state')
    BY <1>0, <1>3, SuperstepAdds DEF Reviewers
  <2>3. "reviewer1" \in Reviewers
    BY DEF Reviewers
  <2>4. /\ Full(state.reviewer_reports) => Full(state'.reviewer_reports)
        /\ state'.ae_report = state.ae_report /\ state'.ae_final = state.ae_final
        /\ state'.decision_letter = state.decision_letter
    BY <2>2, <2>3, ReviewersAdd
  <2>5. Done' = Done \cup Reviewers
    BY <1>2, <1>3 DEF Visited
  <2>6. Full(state.reviewer_reports)' = Full(state'.reviewer_reports)
    BY DEF Full
  <2>7. /\ "ae_report" \in Done' <=> "ae_report" \in Done
        /\ "ae_finalize" \in Done' <=> "ae_finalize" \in Done
        /\ Exits \cap Done' = Exits \cap Done
    BY <2>5 DEF Exits, Reviewers
  <2>8. frontier' # {}
    BY <2>1
  <2> QED
    BY <2>4, <2>6, <2>7, <2>8 DEF Spoken
<1>4. ASSUME NEW n \in Node \ Reviewers, frontier = {n}, Merges(n, state, state'),
             frontier' = Edges(n, state')
      PROVE  Spoken'
  <2>1. n \notin Done /\ Done' = Done \cup {n}
    BY <1>2, <1>4, OneMore
  <2>2. Adds(n, state, state')
    BY <1>0, <1>4, SuperstepAdds DEF Reviewers
  <2>3. Full(state.reviewer_reports)'
    BY <2>2 DEF Spoken, Adds, Full
  <2>4. "ae_report" \in Done' => state'.ae_report
    BY <2>1, <2>2 DEF Spoken, Adds
  <2>5. state'.ae_final = IF "ae_finalize" \in Done' THEN AEFinal ELSE {}
    BY <2>1, <2>2 DEF Spoken, Adds
  <2>6. ASSUME Exits \cap Done' # {} PROVE state'.decision_letter # ""
    <3>1. CASE n \in Exits
      <4>1. n = "ae_finalize" => Done = Before("ae_finalize")
        BY <1>0, <1>4 DEF AtItsPlace
      <4>2. n = "ae_finalize" => "ae_report" \in Done
        BY <4>1, BeforeKnown DEF BeforeIs
      <4> QED
        BY <2>2, <3>1, <4>2 DEF Spoken, Adds
    <3>2. CASE n \notin Exits
      <4>1. Exits \cap Done # {}
        BY <2>1, <2>6, <3>2
      <4> QED
        BY <2>2, <3>2, <4>1 DEF Spoken, Adds
    <3> QED
      BY <3>1, <3>2
  <2>7. ASSUME frontier' = {}
        PROVE  PagesSpeak(state'.rendered_artifacts, state'.final_decision,
                          state'.decision_letter, Keys(sorted_reports(state'.reviewer_reports)),
                          "ae_finalize" \in Done')
    <3>1. n = "final_artifact_render"
      <4>1. Leads(n, state', frontier')
        BY <1>4, EdgesLead
      <4> QED
        BY <1>4, <2>7, <4>1 DEF Leads, Reviewers
    <3>2. PICK a : state'.rendered_artifacts = final_artifact_render_node(state, a).rendered_artifacts
      BY <2>2, <3>1 DEF Adds
    <3>3. /\ state'.final_decision = state.final_decision
          /\ state'.reviewer_reports = state.reviewer_reports
      BY <1>4, <3>1 DEF Merges, Wrote, Reviewers
    <3>4. state'.decision_letter = state.decision_letter
      BY <2>2, <3>1 DEF Adds, Exits
    <3>5. /\ Exits \cap Done # {} /\ state.final_decision \in FinalDecision
          /\ state.final_decision \in {"DESK_REJECT", "INVALID_SUBMISSION"} =>
                state.reviewer_reports = << >>
      BY <1>4, <3>1, BeforeRender
    <3>6. state \in GlobalState /\ Full(state.reviewer_reports) /\ state.decision_letter # ""
      BY <1>0, <3>5 DEF TypeOK, Spoken
    <3>7. PagesSpeak(final_artifact_render_node(state, a).rendered_artifacts, state.final_decision,
                     state.decision_letter, Keys(sorted_reports(state.reviewer_reports)),
                     "rr_traceability_matrix" \in state.ae_final)
      BY <3>5, <3>6, RenderedSpeaks
    <3>8. "rr_traceability_matrix" \in state.ae_final <=> "ae_finalize" \in Done'
      BY <2>1, <3>1 DEF Spoken, AEFinal
    <3> DEFINE traced == "rr_traceability_matrix" \in state.ae_final
               final == "ae_finalize" \in Done'
               keys == Keys(sorted_reports(state.reviewer_reports))
    <3>9. PagesSpeak(state'.rendered_artifacts, state'.final_decision, state'.decision_letter,
                     keys, traced)
      BY <3>2, <3>3, <3>4, <3>7, Zenon
    <3>10. keys = Keys(sorted_reports(state'.reviewer_reports))
      BY <3>3
    <3>11. traced <=> final
      BY <3>8
    <3> HIDE DEF traced, final, keys
    <3>12. PagesSpeak(state'.rendered_artifacts, state'.final_decision, state'.decision_letter,
                      keys, final)
      BY <3>9, <3>11, Zenon DEF PagesSpeak
    <3> QED
      BY <3>10, <3>12, Zenon DEF final
  <2>8. outcome' # "SUCCEEDED"
    BY <1>1 DEF EndSuperstep, Running
  <2>9. (frontier = {} =>
          PagesSpeak(state.rendered_artifacts, state.final_decision, state.decision_letter,
                     IF outcome = "SUCCEEDED" THEN Keys(state.reviewer_reports)
                     ELSE Keys(sorted_reports(state.reviewer_reports)),
                     "ae_finalize" \in Done))'
    BY <2>7, <2>8, Zenon
  <2> QED
    BY <2>3, <2>4, <2>5, <2>6, <2>9, Zenon DEF Spoken
<1> QED
  BY <1>1, <1>3, <1>4

\* The service sorts the reports as the renderer has.
LEMMA SpokenDelivered ==
    ASSUME IInv, Spoken, Deliver PROVE Spoken'
<1>1. frontier = {} /\ UNCHANGED <<mode, frontier, nodes, reply>> /\ outcome = "RUNNING"
  BY DEF Deliver, Running
<1>2. Done' = Done
  BY <1>1 DEF Done
<1>3. CASE outcome' = "FAILED" /\ UNCHANGED state
  BY <1>1, <1>2, <1>3, SpokenKept
<1>4. CASE outcome' = "SUCCEEDED"
           /\ state' = [state EXCEPT !.reviewer_reports = SortedReports(@),
                                     !.final_decision = IF @ = Unset THEN "REJECT" ELSE @]
  <2> DEFINE reports == state.reviewer_reports
             sorted == SortedReports(reports)
             d == state.final_decision
  <2>1. state \in GlobalState /\ reports \in Seq(Report)
    BY DEF IInv, TypeOK, GlobalState
  <2>2. d \in FinalDecision
    BY <1>1, DecisionPublished
  <2>3. state' = [state EXCEPT !.reviewer_reports = sorted, !.final_decision = d]
    <3>1. d # Unset
      BY <2>2 DEF FinalDecision, Verdicts, Unset
    <3> QED
      BY <1>4, <3>1
  <2>4. sorted = sorted_reports(reports)
    BY SameSort
  <2>5. Full(reports) => Full(sorted)
    BY <2>1, <2>4, FullSorted
  <2> HIDE DEF sorted
  <2>6. /\ state'.reviewer_reports = sorted /\ state'.final_decision = state.final_decision
        /\ state'.ae_report = state.ae_report /\ state'.ae_final = state.ae_final
        /\ state'.decision_letter = state.decision_letter
        /\ state'.rendered_artifacts = state.rendered_artifacts
    BY <2>1, <2>3 DEF GlobalState
  <2>7. Full(state.reviewer_reports)'
    BY <2>5, <2>6 DEF Spoken, Full
  <2>8. PagesSpeak(state.rendered_artifacts, state.final_decision, state.decision_letter,
                   Keys(sorted), "ae_finalize" \in Done)
    BY <1>1, <2>4 DEF Spoken
  <2>9. PagesSpeak(state'.rendered_artifacts, state'.final_decision, state'.decision_letter,
                   Keys(state'.reviewer_reports), "ae_finalize" \in Done')
    <3> DEFINE final == "ae_finalize" \in Done
    <3>1. final = ("ae_finalize" \in Done')
      BY <1>2
    <3>2. PagesSpeak(state.rendered_artifacts, state.final_decision, state.decision_letter,
                     Keys(sorted), final)
      BY <2>8
    <3> HIDE DEF final
    <3>3. PagesSpeak(state'.rendered_artifacts, state'.final_decision, state'.decision_letter,
                     Keys(state'.reviewer_reports), final)
      BY <2>6, <3>2, Zenon
    <3> QED
      BY <3>1, <3>3, Zenon
  <2>10. (frontier = {} =>
          PagesSpeak(state.rendered_artifacts, state.final_decision, state.decision_letter,
                     IF outcome = "SUCCEEDED" THEN Keys(state.reviewer_reports)
                     ELSE Keys(sorted_reports(state.reviewer_reports)),
                     "ae_finalize" \in Done))'
    <3>1. outcome' = "SUCCEEDED"
      BY <1>4
    <3> QED
      BY <2>9, <3>1, Zenon
  <2> QED
    BY <1>2, <2>6, <2>7, <2>10, Zenon DEF Spoken
<1> QED
  BY <1>3, <1>4 DEF Deliver

\* A run that was just submitted has said nothing.
LEMMA InitSpoken == Init => Spoken
<1> SUFFICES ASSUME Init PROVE Spoken
  OBVIOUS
<1>1. Done = {} /\ frontier # {} /\ state.reviewer_reports = << >> /\ state.ae_final = {}
  BY DEF Init, Done, initial_state
<1> QED
  BY <1>1 DEF Spoken, Full

\* Every step of a run keeps what was said.
LEMMA StepSpoken ==
    ASSUME IInv, Spoken, [Next]_vars PROVE Spoken'
<1>1. ASSUME NEW n \in Node, NodeStep(n) PROVE Spoken'
  <2>1. UNCHANGED <<mode, state, frontier, outcome>> /\ Done' = Done
    BY <1>1, NodeStepStays DEF IInv
  <2> QED
    BY <2>1, SpokenKept
<1>2. CASE EndSuperstep
  BY <1>2, SpokenMoves
<1>3. CASE RaiseError
  <2>1. UNCHANGED <<mode, state, frontier, nodes, reply>> /\ outcome' = "FAILED"
        /\ outcome = "RUNNING"
    BY <1>3 DEF RaiseError, Running
  <2>2. Done' = Done
    BY <2>1 DEF Done
  <2> QED
    BY <2>1, <2>2, SpokenKept
<1>4. CASE Deliver
  BY <1>4, SpokenDelivered
<1>5. CASE UNCHANGED vars
  <2>1. UNCHANGED <<mode, state, frontier, nodes, reply, outcome>>
    BY <1>5 DEF vars
  <2>2. Done' = Done
    BY <2>1 DEF Done
  <2> QED
    BY <2>1, <2>2, SpokenKept
<1> QED
  BY <1>1, <1>2, <1>3, <1>4, <1>5 DEF Next, GraphStep, Over

\* Whatever the models answer or leave out, in whatever order the reviewers end and
\* whichever way the run went, the authors of a delivered run get a letter, the
\* published decision and every review in the order run() returns them, and nothing of
\* the internal audit, which has the matrix whenever an editor decided.
THEOREM Spec_DeliveredRunSpeaks == Spec => []DeliveredRunSpeaks
<1>1. Spec => [](IInv /\ Spoken)
  <2>1. Init => IInv /\ Spoken
    BY InitIInv, InitSpoken
  <2>2. IInv /\ Spoken /\ [Next]_vars => (IInv /\ Spoken)'
    BY StepIInv, StepSpoken
  <2> QED
    BY <2>1, <2>2, PTL DEF Spec
<1>2. IInv /\ Spoken => DeliveredRunSpeaks
  <2> SUFFICES ASSUME IInv, Spoken, outcome = "SUCCEEDED" PROVE DeliveredRunSpeaks
    BY DEF DeliveredRunSpeaks
  <2>1. frontier = {} /\ AtItsPlace /\ NodesTell
    BY DEF IInv, InOrder
  <2>2. Done = Before(Exit) \cup {Exit, "final_artifact_render"} /\ Exit \in Exits /\ Visited = Done
    BY <2>1 DEF AtItsPlace, Visited, Exit, Exits
  <2>3. state.decision_letter # ""
    BY <2>2 DEF Spoken
  <2>4. PagesSpeak(state.rendered_artifacts, state.final_decision, state.decision_letter,
                   Keys(state.reviewer_reports), "ae_finalize" \in Done)
    BY <2>1 DEF Spoken
  <2>5. nodes["ae_decision"] # "NONE" <=> "ae_finalize" \in Done
    <3>1. "ae_decision" \in Node
      BY DEF Node
    <3>2. nodes["ae_decision"] # "NONE" <=> "ae_decision" \in Done
      BY <2>1, <3>1 DEF NodesTell, Done
    <3>3. "ae_finalize" \in Done <=> Exit = "ae_finalize"
      BY <2>2, ExitTaken DEF Exits
    <3>4. "ae_decision" \in Before(Exit) <=> Exit = "ae_finalize"
      BY <2>2, BeforeKnown DEF BeforeIs, Exits, OpeningNodes, Screening, Reviewers
    <3>5. "ae_decision" \in Done <=> "ae_decision" \in Before(Exit)
      BY <2>2 DEF Exits
    <3> QED
      BY <3>2, <3>3, <3>4, <3>5
  <2> QED
    BY <2>3, <2>4, <2>5, Zenon DEF PagesSpeak, OpensWith, Carries, Internal, DeliveredRunSpeaks
<1> QED
  BY <1>1, <1>2, PTL

-----------------------------------------------------------------------------
(* The paths the API guesses.                                              *)

UnreadablePath == <<"doc_parse", "parse_fail_output", "final_artifact_render">>
InvalidPath == <<"doc_parse", "content_check", "invalid_file", "final_artifact_render">>
DeskPathSE == Opening \o <<"se_check">> \o <<"desk_reject_output", "final_artifact_render">>
DeskPathAE ==
    Opening \o <<"se_check", "ae_check">> \o <<"desk_reject_output", "final_artifact_render">>

Seen(n) == nodes[n] # "NONE"

\* The three exits that the path is changed for.
Returned == {"parse_fail_output", "invalid_file", "desk_reject_output"}

PathKnown ==
    \/ Seen("parse_fail_output") /\ Path = UnreadablePath
    \/ Seen("invalid_file") /\ Path = InvalidPath
    \/ Seen("desk_reject_output") /\ ~Seen("ae_check") /\ Path = DeskPathSE
    \/ Seen("desk_reject_output") /\ Seen("ae_check") /\ Path = DeskPathAE
    \/ /\ \A n \in Returned : ~Seen(n)
       /\ \/ mode = "SINGLE_AGENT_REVIEW" /\ Path = SinglePath
          \/ mode = "QUICK_REVIEW" /\ Path = QuickPath
          \/ mode = "FULL_REVIEW" /\ Path = FullPath

\* The path the API guesses is one of those below, by what has reported.
LEMMA PathIsKnown ==
    ASSUME IInv PROVE PathKnown
<1>1. \A k, n \in Returned : Seen(k) /\ Seen(n) => k = n
  <2> SUFFICES ASSUME NEW k \in Returned, NEW n \in Returned, Seen(k), Seen(n) PROVE k = n
    OBVIOUS
  <2>1. k \in Exits /\ n \in Exits /\ k \in Node /\ n \in Node
    BY DEF Returned, Exits, Node
  <2>2. k \in Visited /\ n \in Visited
    BY <2>1, SeenVisited DEF Seen
  <2> QED
    BY <2>1, <2>2, ExitTaken
<1>2. mode \in ReviewMode
  BY DEF IInv, TypeOK
<1> USE DEF Returned, Seen
<1>3. CASE Seen("parse_fail_output")
  BY <1>1, <1>3 DEF PathKnown, Path, ReviewProgressPath, UnreadablePath
<1>4. CASE Seen("invalid_file")
  BY <1>1, <1>4 DEF PathKnown, Path, ReviewProgressPath, InvalidPath
<1>5. CASE Seen("desk_reject_output") /\ Seen("ae_check")
  BY <1>1, <1>5 DEF PathKnown, Path, ReviewProgressPath, DeskPathAE
<1>6. CASE Seen("desk_reject_output") /\ ~Seen("ae_check")
  BY <1>1, <1>6 DEF PathKnown, Path, ReviewProgressPath, DeskPathSE
<1>7. CASE \A n \in Returned : ~Seen(n)
  BY <1>2, <1>7 DEF PathKnown, Path, ReviewProgressPath, ReviewMode
<1> QED
  BY <1>3, <1>4, <1>5, <1>6, <1>7

\* The paths, node by node.
FullPathIs ==
    /\ DOMAIN FullPath = 1..15 /\ Len(FullPath) = 15
    /\ FullPath[1] = "doc_parse" /\ FullPath[2] = "content_check"
    /\ FullPath[3] = "journal_req_collector" /\ FullPath[4] = "field_analyst"
    /\ FullPath[5] = "se_check" /\ FullPath[6] = "ae_check"
    /\ FullPath[7] = "review_dispatch" /\ FullPath[8] = "reviewer1"
    /\ FullPath[9] = "reviewer2" /\ FullPath[10] = "reviewer3"
    /\ FullPath[11] = "devils_advocate" /\ FullPath[12] = "ae_decision"
    /\ FullPath[13] = "ae_report" /\ FullPath[14] = "ae_finalize"
    /\ FullPath[15] = "final_artifact_render"

\* The path of a full review.
LEMMA FullPathKnown == FullPathIs
BY DEF FullPathIs, FullPath, Opening, ExternalReview

QuickPathIs ==
    /\ DOMAIN QuickPath = 1..13 /\ Len(QuickPath) = 13
    /\ QuickPath[1] = "doc_parse" /\ QuickPath[2] = "content_check"
    /\ QuickPath[3] = "journal_req_collector" /\ QuickPath[4] = "field_analyst"
    /\ QuickPath[5] = "review_dispatch" /\ QuickPath[6] = "reviewer1"
    /\ QuickPath[7] = "reviewer2" /\ QuickPath[8] = "reviewer3"
    /\ QuickPath[9] = "devils_advocate" /\ QuickPath[10] = "ae_decision"
    /\ QuickPath[11] = "ae_report" /\ QuickPath[12] = "ae_finalize"
    /\ QuickPath[13] = "final_artifact_render"

\* The path of a quick review.
LEMMA QuickPathKnown == QuickPathIs
BY DEF QuickPathIs, QuickPath, Opening, ExternalReview

SinglePathIs ==
    /\ DOMAIN SinglePath = 1..6 /\ Len(SinglePath) = 6
    /\ SinglePath[1] = "doc_parse" /\ SinglePath[2] = "content_check"
    /\ SinglePath[3] = "journal_req_collector" /\ SinglePath[4] = "field_analyst"
    /\ SinglePath[5] = "single_reviewer" /\ SinglePath[6] = "final_artifact_render"

\* The path of a single-agent review.
LEMMA SinglePathKnown == SinglePathIs
BY DEF SinglePathIs, SinglePath, Opening

DeskPathsAre ==
    /\ DOMAIN DeskPathSE = 1..7 /\ Len(DeskPathSE) = 7
    /\ DeskPathSE[1] = "doc_parse" /\ DeskPathSE[2] = "content_check"
    /\ DeskPathSE[3] = "journal_req_collector" /\ DeskPathSE[4] = "field_analyst"
    /\ DeskPathSE[5] = "se_check" /\ DeskPathSE[6] = "desk_reject_output"
    /\ DeskPathSE[7] = "final_artifact_render"
    /\ DOMAIN DeskPathAE = 1..8 /\ Len(DeskPathAE) = 8
    /\ DeskPathAE[1] = "doc_parse" /\ DeskPathAE[2] = "content_check"
    /\ DeskPathAE[3] = "journal_req_collector" /\ DeskPathAE[4] = "field_analyst"
    /\ DeskPathAE[5] = "se_check" /\ DeskPathAE[6] = "ae_check"
    /\ DeskPathAE[7] = "desk_reject_output" /\ DeskPathAE[8] = "final_artifact_render"

\* The paths of a desk rejection, by the senior and by the associate editor.
LEMMA DeskPathsKnown == DeskPathsAre
BY DEF DeskPathsAre, DeskPathSE, DeskPathAE, Opening

ShortPathsAre ==
    /\ DOMAIN UnreadablePath = 1..3 /\ Len(UnreadablePath) = 3
    /\ UnreadablePath[1] = "doc_parse" /\ UnreadablePath[2] = "parse_fail_output"
    /\ UnreadablePath[3] = "final_artifact_render"
    /\ DOMAIN InvalidPath = 1..4 /\ Len(InvalidPath) = 4
    /\ InvalidPath[1] = "doc_parse" /\ InvalidPath[2] = "content_check"
    /\ InvalidPath[3] = "invalid_file" /\ InvalidPath[4] = "final_artifact_render"

\* The paths of a file that is not reviewed.
LEMMA ShortPathsKnown == ShortPathsAre
BY DEF ShortPathsAre, UnreadablePath, InvalidPath

\* Who is on them.
LEMMA OnPaths ==
    /\ ToSet(FullPath) = OpeningNodes \cup {"se_check", "ae_check", "review_dispatch"}
                          \cup Reviewers
          \cup {"ae_decision", "ae_report", "ae_finalize", "final_artifact_render"}
    /\ ToSet(QuickPath) = OpeningNodes \cup {"review_dispatch"} \cup Reviewers
          \cup {"ae_decision", "ae_report", "ae_finalize", "final_artifact_render"}
    /\ ToSet(SinglePath) = OpeningNodes \cup {"single_reviewer", "final_artifact_render"}
    /\ ToSet(DeskPathSE) = OpeningNodes \cup {"se_check", "desk_reject_output",
                                              "final_artifact_render"}
    /\ ToSet(DeskPathAE) = OpeningNodes \cup {"se_check", "ae_check", "desk_reject_output",
                                              "final_artifact_render"}
    /\ ToSet(UnreadablePath) = {"doc_parse", "parse_fail_output", "final_artifact_render"}
    /\ ToSet(InvalidPath) = {"doc_parse", "content_check", "invalid_file", "final_artifact_render"}
<1>1. ToSet(FullPath) = OpeningNodes \cup {"se_check", "ae_check", "review_dispatch"} \cup Reviewers
          \cup {"ae_decision", "ae_report", "ae_finalize", "final_artifact_render"}
  <2> DEFINE p == FullPath
  <2>1. p = FullPath
    OBVIOUS
  <2> HIDE DEF p
  <2>2. ToSet(p) = {p[i] : i \in {1, 2, 3, 4, 5, 6, 7, 8, 9, 10, 11, 12, 13, 14, 15}}
    <3>1. 1..15 = {1, 2, 3, 4, 5, 6, 7, 8, 9, 10, 11, 12, 13, 14, 15}
      OBVIOUS
    <3> QED
      BY <2>1, <3>1, FullPathKnown DEF ToSet, FullPathIs
  <2> QED
    BY <2>1, <2>2, FullPathKnown DEF FullPathIs, OpeningNodes, Reviewers
<1>2. ToSet(QuickPath) = OpeningNodes \cup {"review_dispatch"} \cup Reviewers
          \cup {"ae_decision", "ae_report", "ae_finalize", "final_artifact_render"}
  <2> DEFINE p == QuickPath
  <2>1. p = QuickPath
    OBVIOUS
  <2> HIDE DEF p
  <2>2. ToSet(p) = {p[i] : i \in {1, 2, 3, 4, 5, 6, 7, 8, 9, 10, 11, 12, 13}}
    <3>1. 1..13 = {1, 2, 3, 4, 5, 6, 7, 8, 9, 10, 11, 12, 13}
      OBVIOUS
    <3> QED
      BY <2>1, <3>1, QuickPathKnown DEF ToSet, QuickPathIs
  <2> QED
    BY <2>1, <2>2, QuickPathKnown DEF QuickPathIs, OpeningNodes, Reviewers
<1>3. ToSet(SinglePath) = OpeningNodes \cup {"single_reviewer", "final_artifact_render"}
  BY SinglePathKnown DEF ToSet, SinglePathIs, OpeningNodes
<1>4. ToSet(DeskPathSE) = OpeningNodes \cup {"se_check", "desk_reject_output",
                                              "final_artifact_render"}
  BY DeskPathsKnown DEF ToSet, DeskPathsAre, OpeningNodes
<1>5. ToSet(DeskPathAE) = OpeningNodes \cup {"se_check", "ae_check", "desk_reject_output",
                                              "final_artifact_render"}
  BY DeskPathsKnown DEF ToSet, DeskPathsAre, OpeningNodes
<1>6. ToSet(UnreadablePath) = {"doc_parse", "parse_fail_output", "final_artifact_render"}
  BY ShortPathsKnown DEF ToSet, ShortPathsAre
<1>7. ToSet(InvalidPath) = {"doc_parse", "content_check", "invalid_file", "final_artifact_render"}
  BY ShortPathsKnown DEF ToSet, ShortPathsAre
<1> QED
  BY <1>1, <1>2, <1>3, <1>4, <1>5, <1>6, <1>7

\* What has been screened when an editor rejects.
LEMMA ScreenedBy ==
    ASSUME IInv, Seen("desk_reject_output")
    PROVE  Before("desk_reject_output") = OpeningNodes
              \cup (IF Seen("ae_check") THEN {"se_check", "ae_check"} ELSE {"se_check"})
<1>1. "desk_reject_output" \in Visited /\ (Seen("ae_check") => "ae_check" \in Visited)
  BY SeenVisited DEF Seen, Node
<1>2. Before("desk_reject_output") \subseteq Done
  BY <1>1, DoneClosed
<1>3. "ae_check" \in Before("desk_reject_output") => Seen("ae_check")
  BY <1>2 DEF Done, Seen
<1>4. "ae_check" \in Visited => state.se_decision = "PASS"
  BY DEF IInv, Routed
<1> QED
  BY <1>1, <1>3, <1>4, BeforeKnown DEF BeforeIs, OpeningNodes

\* A run that has come to the renderer has come to what is on its path, and to
\* nothing else.
LEMMA PathDone ==
    ASSUME IInv, "final_artifact_render" \in Visited
    PROVE  Visited = ToSet(Path)
<1>0. AtItsPlace /\ Routed /\ PathKnown
  BY PathIsKnown DEF IInv
<1>1. frontier = {} \/ frontier = {"final_artifact_render"}
  <2>1. \A n \in frontier : n = "final_artifact_render"
    <3> SUFFICES ASSUME NEW n \in frontier, n # "final_artifact_render" PROVE FALSE
      OBVIOUS
    <3>1. Done = Before(n) /\ n \in Node
      BY <1>0 DEF AtItsPlace, Node, Reviewers
    <3>2. "final_artifact_render" \in Done
      BY <1>0 DEF AtItsPlace, Visited, Reviewers
    <3> QED
      BY <3>1, <3>2, BeforeKnown DEF BeforeIs, Node, OpeningNodes, Screening, Reviewers
  <2> QED
    BY <2>1
<1>2. Visited = Before(Exit) \cup {Exit, "final_artifact_render"} /\ Exit \in Done
  BY <1>0, <1>1 DEF AtItsPlace, Visited
<1>3. Seen(Exit) /\ Exit \in Exits
  BY <1>2 DEF Done, Seen, Exit, Exits
<1>4. \A n \in Returned : Seen(n) => n = Exit
  <2> SUFFICES ASSUME NEW n \in Returned, Seen(n) PROVE n = Exit
    OBVIOUS
  <2>1. n \in Exits /\ n \in Visited
    BY SeenVisited DEF Seen, Returned, Exits, Node
  <2> QED
    BY <2>1, ExitTaken
<1>5. CASE Exit = "parse_fail_output"
  <2>1. Path = UnreadablePath
    BY <1>0, <1>3, <1>4, <1>5 DEF PathKnown, Returned
  <2> QED
    BY <1>2, <1>5, <2>1, OnPaths, BeforeKnown DEF BeforeIs
<1>6. CASE Exit = "invalid_file"
  <2>1. Path = InvalidPath
    BY <1>0, <1>3, <1>4, <1>6 DEF PathKnown, Returned
  <2> QED
    BY <1>2, <1>6, <2>1, OnPaths, BeforeKnown DEF BeforeIs
<1>7. CASE Exit = "desk_reject_output"
  <2>1. Path = IF Seen("ae_check") THEN DeskPathAE ELSE DeskPathSE
    BY <1>0, <1>3, <1>4, <1>7 DEF PathKnown, Returned
  <2> QED
    BY <1>2, <1>3, <1>7, <2>1, OnPaths, ScreenedBy
<1>8. CASE Exit = "single_reviewer"
  <2>1. mode = "SINGLE_AGENT_REVIEW"
    BY <1>0, <1>2, <1>8 DEF Routed
  <2>2. Path = SinglePath
    BY <1>0, <1>4, <1>8, <2>1 DEF PathKnown, Returned
  <2> QED
    BY <1>2, <1>8, <2>2, OnPaths, BeforeKnown DEF BeforeIs
<1>9. CASE Exit = "ae_finalize"
  <2>1. mode # "SINGLE_AGENT_REVIEW"
    BY <1>0, <1>2, <1>9, BeforeKnown DEF Routed, BeforeIs
  <2>2. \/ mode = "QUICK_REVIEW" /\ Path = QuickPath
        \/ mode = "FULL_REVIEW" /\ Path = FullPath
    BY <1>0, <1>4, <1>9, <2>1 DEF PathKnown, Returned
  <2> QED
    BY <1>2, <1>9, <2>2, OnPaths, BeforeKnown DEF BeforeIs, Screening
<1> QED
  BY <1>3, <1>5, <1>6, <1>7, <1>8, <1>9 DEF Exits

\* A run that was delivered has done exactly what its path says.
THEOREM Spec_DeliveredRunDidItsPath == Spec => []DeliveredRunDidItsPath
<1>1. IInv => DeliveredRunDidItsPath
  <2> SUFFICES ASSUME IInv, outcome = "SUCCEEDED"
               PROVE  {n \in Node : nodes[n] = "SUCCEEDED"} = ToSet(Path)
    BY DEF DeliveredRunDidItsPath
  <2>1. frontier = {} /\ AtItsPlace
    BY DEF IInv, InOrder
  <2>2. "final_artifact_render" \in Visited /\ Visited = {n \in Node : nodes[n] = "SUCCEEDED"}
    BY <2>1 DEF AtItsPlace, Visited, Done
  <2> QED
    BY <2>2, PathDone
<1> QED
  BY <1>1, Invariance, PTL

\* Every node that has reported is on the path.
LEMMA SeenOnPath ==
    ASSUME IInv, NEW n \in Node, Seen(n) PROVE n \in ToSet(Path)
<1>0. PathKnown /\ Routed /\ n \in Visited
  BY PathIsKnown, SeenVisited DEF IInv, Seen
<1>1. ASSUME NEW k \in Returned, Seen(k)
      PROVE  n \in Before(k) \cup {k, "final_artifact_render"}
  <2>1. k \in Exits /\ k \in Visited
    BY <1>1, SeenVisited DEF Seen, Returned, Exits, Node
  <2> QED
    BY <1>0, <2>1, ExitTaken
<1>2. CASE Seen("parse_fail_output") /\ Path = UnreadablePath
  BY <1>1, <1>2, OnPaths, BeforeKnown DEF BeforeIs, Returned
<1>3. CASE Seen("invalid_file") /\ Path = InvalidPath
  BY <1>1, <1>3, OnPaths, BeforeKnown DEF BeforeIs, Returned
<1>4. CASE Seen("desk_reject_output") /\ ~Seen("ae_check") /\ Path = DeskPathSE
  BY <1>1, <1>4, OnPaths, ScreenedBy DEF Returned
<1>5. CASE Seen("desk_reject_output") /\ Seen("ae_check") /\ Path = DeskPathAE
  BY <1>1, <1>5, OnPaths, ScreenedBy DEF Returned
<1>6. CASE \A k \in Returned : ~Seen(k)
  <2>1. n \notin Returned
    BY <1>6
  <2>2. n \in Reviewers \cup {"ae_decision", "ae_report", "ae_finalize"}
          => "review_dispatch" \in Visited
    <3> SUFFICES ASSUME n \in Reviewers \cup {"ae_decision", "ae_report", "ae_finalize"}
                 PROVE  "review_dispatch" \in Done
      BY DEF Visited
    <3>1. Before(n) \subseteq Done
      BY <1>0, DoneClosed DEF Reviewers
    <3> QED
      BY <3>1, BeforeKnown DEF BeforeIs
  <2>3. \/ mode = "SINGLE_AGENT_REVIEW" /\ Path = SinglePath
        \/ mode = "QUICK_REVIEW" /\ Path = QuickPath
        \/ mode = "FULL_REVIEW" /\ Path = FullPath
    BY <1>0, <1>6 DEF PathKnown, Returned
  <2>4. /\ n = "single_reviewer" => mode = "SINGLE_AGENT_REVIEW"
        /\ n \in {"se_check", "ae_check"} => mode = "FULL_REVIEW"
        /\ n \in Reviewers \cup {"review_dispatch", "ae_decision", "ae_report", "ae_finalize"}
              => mode # "SINGLE_AGENT_REVIEW"
    BY <1>0, <2>2 DEF Routed
  <2> QED
    BY <2>1, <2>3, <2>4, OnPaths DEF Node, Returned, OpeningNodes
<1> QED
  BY <1>0, <1>2, <1>3, <1>4, <1>5, <1>6 DEF PathKnown

\* A path is made of nodes.
LEMMA PathTyped ==
    ASSUME IInv PROVE ToSet(Path) \subseteq Node
BY PathIsKnown, OnPaths DEF PathKnown, Node, OpeningNodes

\* No work is missing from the bar and no running node from active_nodes.
THEOREM Spec_PathShowsAllWork == Spec => []PathShowsAllWork
<1>1. IInv => PathShowsAllWork
  <2> SUFFICES ASSUME IInv PROVE PathShowsAllWork
    OBVIOUS
  <2>1. \A n \in Node : nodes[n] # "NONE" => n \in ToSet(Path)
    BY SeenOnPath DEF Seen
  <2>2. ASSUME outcome = "RUNNING"
        PROVE  ActiveNodes(Path, nodes, outcome) = {n \in Node : nodes[n] = "RUNNING"}
    BY <2>1, <2>2, PathTyped DEF ActiveNodes, TerminalStatus
  <2> QED
    BY <2>1, <2>2 DEF PathShowsAllWork, Running
<1> QED
  BY <1>1, Invariance, PTL

\* What a path shows before a node the run has come to, the run has come to.
LEMMA PathOrdered ==
    ASSUME IInv, NEW i \in DOMAIN Path, Path[i] \in Visited, NEW h \in DOMAIN Path, h < i
    PROVE  Path[h] \in Visited
<1>0. PathKnown /\ AtItsPlace /\ DOMAIN Path \subseteq Nat
  <2>1. PathKnown
    BY PathIsKnown
  <2>2. DOMAIN Path \subseteq Nat
    BY <2>1, FullPathKnown, QuickPathKnown, SinglePathKnown, DeskPathsKnown, ShortPathsKnown
       DEF PathKnown, FullPathIs, QuickPathIs, SinglePathIs, DeskPathsAre, ShortPathsAre
  <2> QED
    BY <2>1, <2>2 DEF IInv
<1>1. CASE Path[i] = "final_artifact_render"
  <2>1. Visited = ToSet(Path)
    BY <1>1, PathDone
  <2> QED
    BY <2>1 DEF ToSet
<1>2. CASE Path[i] # "final_artifact_render"
  <2> SUFFICES \/ Path[h] \in Before(Path[i])
               \/ {Path[h], Path[i]} \subseteq Reviewers
    <3>1. Before(Path[i]) \subseteq Done
      BY <1>2, DoneClosed
    <3>2. Path[i] \in Reviewers => Reviewers \subseteq Visited
      <4> SUFFICES ASSUME Path[i] \in Reviewers PROVE Reviewers \subseteq Visited
        OBVIOUS
      <4>1. CASE Path[i] \in frontier
        <5>1. frontier = Reviewers
          BY <1>0, <4>1 DEF AtItsPlace, Reviewers
        <5> QED
          BY <5>1 DEF Visited
      <4>2. CASE Path[i] \in Done
        <5>1. CASE \E n \in frontier : n # "final_artifact_render"
          <6>1. PICK n \in frontier : n # "final_artifact_render"
            BY <5>1
          <6>2. Done = Before(n) /\ n \in Node
            BY <1>0, <6>1 DEF AtItsPlace, Node, Reviewers
          <6>3. n \in {"ae_decision", "ae_report", "ae_finalize"}
            BY <4>2, <6>1, <6>2, BeforeKnown DEF BeforeIs, Node, OpeningNodes, Screening, Reviewers
          <6> QED
            BY <6>2, <6>3, BeforeKnown DEF BeforeIs, Visited
        <5>2. CASE ~\E n \in frontier : n # "final_artifact_render"
          <6>1. frontier = {} \/ frontier = {"final_artifact_render"}
            BY <5>2
          <6>2. Done \subseteq Before(Exit) \cup {Exit, "final_artifact_render"}
                /\ Before(Exit) \subseteq Done /\ Exit \in Exits
            BY <1>0, <6>1 DEF AtItsPlace, Exit, Exits
          <6>3. Exit = "ae_finalize"
            BY <4>2, <6>2, BeforeKnown DEF BeforeIs, Exits, OpeningNodes, Screening, Reviewers
          <6> QED
            BY <6>2, <6>3, BeforeKnown DEF BeforeIs, Visited
        <5> QED
          BY <5>1, <5>2
      <4> QED
        BY <4>1, <4>2 DEF Visited
    <3> QED
      BY <3>1, <3>2 DEF Visited
  <2>1. CASE Seen("parse_fail_output") /\ Path = UnreadablePath
    BY <1>2, <2>1, ShortPathsKnown, BeforeKnown DEF ShortPathsAre, BeforeIs
  <2>2. CASE Seen("invalid_file") /\ Path = InvalidPath
    BY <1>2, <2>2, ShortPathsKnown, BeforeKnown DEF ShortPathsAre, BeforeIs
  <2>3. CASE Seen("desk_reject_output") /\ ~Seen("ae_check") /\ Path = DeskPathSE
    <3>1. Before("desk_reject_output") = OpeningNodes \cup {"se_check"}
      BY <2>3, ScreenedBy
    <3> QED
      BY <1>2, <2>3, <3>1, DeskPathsKnown, BeforeKnown DEF DeskPathsAre, BeforeIs, OpeningNodes
  <2>4. CASE Seen("desk_reject_output") /\ Seen("ae_check") /\ Path = DeskPathAE
    <3>1. Before("desk_reject_output") = OpeningNodes \cup {"se_check", "ae_check"}
      BY <2>4, ScreenedBy
    <3> QED
      BY <1>2, <2>4, <3>1, DeskPathsKnown, BeforeKnown DEF DeskPathsAre, BeforeIs, OpeningNodes
  <2>5. CASE mode = "SINGLE_AGENT_REVIEW" /\ Path = SinglePath
    BY <1>2, <2>5, SinglePathKnown, BeforeKnown DEF SinglePathIs, BeforeIs, OpeningNodes
  <2>6. CASE mode = "QUICK_REVIEW" /\ Path = QuickPath
    <3>1. Screening = {} /\ i \in 1..12 /\ h \in 1..12
      BY <1>2, <2>6, QuickPathKnown DEF Screening, QuickPathIs
    <3>2. CASE i <= 5
      BY <2>6, <3>1, <3>2, QuickPathKnown, BeforeKnown DEF QuickPathIs, BeforeIs, OpeningNodes
    <3>3. CASE i \in 6..9
      BY <2>6, <3>1, <3>3, QuickPathKnown, BeforeKnown DEF QuickPathIs, BeforeIs, OpeningNodes, Reviewers
    <3>4. CASE i \in 10..12
      BY <2>6, <3>1, <3>4, QuickPathKnown, BeforeKnown DEF QuickPathIs, BeforeIs, OpeningNodes, Reviewers
    <3> QED
      BY <3>1, <3>2, <3>3, <3>4
  <2>7. CASE mode = "FULL_REVIEW" /\ Path = FullPath
    <3>1. Screening = {"se_check", "ae_check"} /\ i \in 1..14 /\ h \in 1..14
      BY <1>2, <2>7, FullPathKnown DEF Screening, FullPathIs
    <3>2. CASE i <= 7
      BY <2>7, <3>1, <3>2, FullPathKnown, BeforeKnown DEF FullPathIs, BeforeIs, OpeningNodes
    <3>3. CASE i \in 8..11
      BY <2>7, <3>1, <3>3, FullPathKnown, BeforeKnown DEF FullPathIs, BeforeIs, OpeningNodes, Reviewers
    <3>4. CASE i \in 12..14
      BY <2>7, <3>1, <3>4, FullPathKnown, BeforeKnown DEF FullPathIs, BeforeIs, OpeningNodes, Reviewers
    <3> QED
      BY <3>1, <3>2, <3>3, <3>4
  <2> QED
    BY <1>0, <2>1, <2>2, <2>3, <2>4, <2>5, <2>6, <2>7 DEF PathKnown
<1> QED
  BY <1>1, <1>2

\* A set of natural numbers has a least one.
LEMMA Least ==
    ASSUME NEW S \in SUBSET Nat, NEW j \in S
    PROVE  \E k \in S : \A x \in S : k <= x
<1> SUFFICES ASSUME \A k \in S : \E x \in S : x < k PROVE FALSE
  <2>1. \A k, x \in S : k <= x \/ x < k
    OBVIOUS
  <2> QED
    BY <2>1
<1> DEFINE T == {m \in Nat : \A x \in S : m <= x}
<1>1. 0 \in T
  OBVIOUS
<1>2. \A m \in T : m + 1 \in T
  OBVIOUS
<1>3. T \subseteq Nat /\ j + 1 \in Nat
  OBVIOUS
<1> HIDE DEF T
<1>4. j + 1 \in T
  BY <1>1, <1>2, <1>3, SetInduction
<1> QED
  BY <1>4 DEF T

\* A path has a node at each place up to its length.
LEMMA PathDomain ==
    ASSUME IInv PROVE \E n \in 1..15 : DOMAIN Path = 1..n /\ Len(Path) = n
BY PathIsKnown, FullPathKnown, QuickPathKnown, SinglePathKnown, DeskPathsKnown, ShortPathsKnown
   DEF PathKnown, FullPathIs, QuickPathIs, SinglePathIs, DeskPathsAre, ShortPathsAre

\* While a superstep is under way, next_node is one of its nodes.
THEOREM Spec_NextNodeIsCurrent == Spec => []NextNodeIsCurrent
<1>1. IInv => NextNodeIsCurrent
  <2> SUFFICES ASSUME IInv, outcome = "RUNNING", NEW n \in frontier, nodes[n] = "RUNNING"
               PROVE  /\ NextNodes(Path, nodes, outcome) # {}
                      /\ NextNodes(Path, nodes, outcome) \subseteq frontier
    BY DEF NextNodeIsCurrent, Running
  <2> DEFINE p == Path
             Ended1(k) == nodes[p[k]] \in {"SUCCEEDED", "FAILED"}
             firsts == {k \in DOMAIN p : ~Ended1(k) /\ \A h \in 1..(k - 1) : Ended1(h)}
  <2>1. n \in Node /\ TypeOK /\ NodesTell
    BY DEF IInv, TypeOK
  <2>2. PICK len \in 1..15 : DOMAIN p = 1..len
    BY PathDomain
  <2>3. PICK j \in DOMAIN p : p[j] = n
    <3>1. n \in ToSet(Path)
      BY <2>1, SeenOnPath DEF Seen
    <3> QED
      BY <3>1 DEF ToSet
  <2>4. NextNodes(Path, nodes, outcome) = {p[k] : k \in firsts}
    BY DEF NextNodes, TerminalStatus
  <2>5. \A i, h \in DOMAIN p : h < i /\ p[i] \in Visited => p[h] \in Visited
    BY PathOrdered
  <2>6. \A k \in DOMAIN p : p[k] \in Node
    BY PathTyped DEF ToSet
  <2> HIDE DEF p
  <2>7. firsts # {}
    <3> DEFINE S == {k \in DOMAIN p : ~Ended1(k)}
    <3>1. j \in S /\ S \in SUBSET Nat
      BY <2>2, <2>3
    <3> HIDE DEF S
    <3>2. PICK k \in S : \A x \in S : k <= x
      BY <3>1, Least
    <3>3. k \in DOMAIN p /\ ~Ended1(k) /\ \A h \in 1..(k - 1) : h \notin S /\ h \in DOMAIN p
      BY <2>2, <3>2 DEF S
    <3>4. k \in firsts
      BY <3>3 DEF S
    <3> QED
      BY <3>4
  <2>8. ASSUME NEW k \in firsts PROVE p[k] \in frontier
    <3>1. k <= j
      <4>1. ~Ended1(j)
        BY <2>3
      <4> QED
        BY <2>2, <4>1
    <3>2. p[k] \in Visited
      <4>1. CASE k = j
        BY <2>3, <4>1 DEF Visited
      <4>2. CASE k < j
        BY <2>3, <2>5, <4>2 DEF Visited
      <4> QED
        BY <2>2, <3>1, <4>1, <4>2
    <3>3. p[k] \notin Done
      BY DEF Done
    <3> QED
      BY <3>2, <3>3 DEF Visited
  <2> HIDE DEF firsts
  <2> QED
    BY <2>4, <2>7, <2>8
<1> QED
  BY <1>1, Invariance, PTL

-----------------------------------------------------------------------------
(* The progress bar.                                                       *)

PathLengths == {3, 4, 6, 7, 8, 13, 15}

\* Rounding keeps the order, whatever the length of the path.
LEMMA RoundedMonotone ==
    ASSUME NEW d \in PathLengths, NEW m \in Nat, NEW n \in Nat, m <= n
    PROVE  Rounded(m, d) \in Nat /\ Rounded(n, d) \in Nat /\ Rounded(m, d) <= Rounded(n, d)
<1>1. CASE d = 3
  BY <1>1 DEF Rounded
<1>2. CASE d = 4
  BY <1>2 DEF Rounded
<1>3. CASE d = 6
  BY <1>3 DEF Rounded
<1>4. CASE d = 7
  BY <1>4 DEF Rounded
<1>5. CASE d = 8
  BY <1>5 DEF Rounded
<1>6. CASE d = 13
  BY <1>6 DEF Rounded
<1>7. CASE d = 15
  BY <1>7 DEF Rounded
<1> QED
  BY <1>1, <1>2, <1>3, <1>4, <1>5, <1>6, <1>7 DEF PathLengths

\* The bar never shows more than a hundred percent.
LEMMA RoundedFull ==
    ASSUME NEW d \in PathLengths, NEW c \in 0..d
    PROVE  Rounded(100 * c, d) <= 100
<1>1. Rounded(100 * d, d) = 100
  BY DEF Rounded, PathLengths
<1>2. 100 * c \in Nat /\ 100 * d \in Nat /\ 100 * c <= 100 * d
  BY DEF PathLengths
<1> QED
  BY <1>1, <1>2, RoundedMonotone

\* The lengths a path can have.
LEMMA LengthsOfPaths ==
    ASSUME IInv PROVE \E n \in PathLengths : DOMAIN Path = 1..n /\ Len(Path) = n
BY PathIsKnown, FullPathKnown, QuickPathKnown, SinglePathKnown, DeskPathsKnown, ShortPathsKnown
   DEF PathKnown, FullPathIs, QuickPathIs, SinglePathIs, DeskPathsAre, ShortPathsAre, PathLengths

\* What is completed on a path.
LEMMA CompletedTyped ==
    ASSUME NEW p, NEW f, NEW n \in Nat, DOMAIN p = 1..n
    PROVE  CompletedNodes(p, f) \in 0..n
<1> DEFINE S == {i \in DOMAIN p : f[p[i]] = "SUCCEEDED"}
<1>1. S \subseteq 1..n /\ IsFiniteSet(1..n) /\ Cardinality(1..n) = n
  BY FS_Interval
<1> DEFINE R == 1..n
<1>4. S \subseteq R /\ IsFiniteSet(R) /\ Cardinality(R) = n
  BY <1>1
<1> HIDE DEF S, R
<1>2. IsFiniteSet(S) /\ Cardinality(S) <= n
  BY <1>4, FS_Subset
<1>3. Cardinality(S) \in Nat
  BY <1>2, FS_CardinalityType
<1> QED
  BY <1>2, <1>3 DEF CompletedNodes, S

\* A node that succeeds can only add to what is completed.
LEMMA CompletedGrows ==
    ASSUME NEW p, NEW f, NEW g, NEW n \in Nat, DOMAIN p = 1..n,
           \A i \in DOMAIN p : f[p[i]] = "SUCCEEDED" => g[p[i]] = "SUCCEEDED"
    PROVE  CompletedNodes(p, f) <= CompletedNodes(p, g)
<1> DEFINE S == {i \in DOMAIN p : f[p[i]] = "SUCCEEDED"}
           T == {i \in DOMAIN p : g[p[i]] = "SUCCEEDED"}
<1>1. S \subseteq T /\ T \subseteq 1..n /\ IsFiniteSet(1..n)
  BY FS_Interval
<1> HIDE DEF S, T
<1>2. IsFiniteSet(T) /\ Cardinality(S) <= Cardinality(T)
  BY <1>1, FS_Subset
<1> QED
  BY <1>2 DEF CompletedNodes, S, T

\* What is completed when exactly the first k nodes have succeeded.
LEMMA CompletedUpTo ==
    ASSUME NEW p, NEW f, NEW n \in Nat, DOMAIN p = 1..n, NEW k \in 0..n,
           \A i \in 1..n : f[p[i]] = "SUCCEEDED" <=> i <= k
    PROVE  CompletedNodes(p, f) = k
<1>1. {i \in DOMAIN p : f[p[i]] = "SUCCEEDED"} = 1..k
  OBVIOUS
<1>2. Cardinality(1..k) = k
  BY FS_Interval
<1> QED
  BY <1>1, <1>2 DEF CompletedNodes

\* A node that has not started, or is asking, has not ended.
LEMMA TellsApart ==
    ASSUME NEW n, Tells(n)
    PROVE  /\ reply[n].at = "not started" => nodes[n] = "NONE"
           /\ reply[n].at = "asking" => nodes[n] = "RUNNING"
<1>1. \A a : Ended(a).at = "ended"
  BY DEF Ended
<1> QED
  BY <1>1 DEF Tells

\* The bar when an exit is about to start, and the path changes under it.
LEMMA ExitStarts ==
    ASSUME IInv, NEW n \in Returned, Start(n)
    PROVE  /\ Rounded(100 * CompletedNodes(Path, nodes), Len(Path))
                 <= Rounded(100 * CompletedNodes(Path', nodes'), Len(Path'))
           /\ Rounded(100 * CompletedNodes(Path', nodes'), Len(Path')) \in Nat
<1>0. TypeOK /\ NodesTell /\ AtItsPlace /\ Routed /\ PathKnown
  BY PathIsKnown DEF IInv
<1>1. frontier = {n} /\ nodes[n] = "NONE" /\ n \in Node /\ n \in Exits
  <2>1. n \in frontier /\ reply[n].at = "not started"
    BY DEF Start
  <2>2. nodes[n] = "NONE"
    BY <1>0, <2>1, TellsApart DEF NodesTell
  <2>3. frontier = {n}
    BY <1>0, <2>1 DEF AtItsPlace, Returned, Reviewers
  <2> QED
    BY <2>2, <2>3 DEF Returned, Node, Exits
<1>2. Done = Before(n) /\ n \in Visited
  BY <1>0, <1>1 DEF AtItsPlace, Returned, Visited
<1>3. \A x \in Node : nodes[x] = "SUCCEEDED" <=> x \in Before(n)
  BY <1>1, <1>2 DEF Done
<1>4. nodes' = [nodes EXCEPT ![n] = "RUNNING"] /\ mode' = mode
  BY DEF Start
<1>5. nodes'[n] = "RUNNING" /\ \A x \in Node : x # n => nodes'[x] = nodes[x]
  BY <1>0, <1>1, <1>4 DEF TypeOK
<1>6. \A x \in Node : nodes'[x] = "SUCCEEDED" <=> x \in Before(n)
  BY <1>1, <1>3, <1>5
<1>7. \A k \in Returned : ~Seen(k)
  <2> SUFFICES ASSUME NEW k \in Returned, Seen(k) PROVE k = n
    BY <1>1 DEF Seen
  <2>1. k \in Exits /\ k \in Visited
    BY SeenVisited DEF Seen, Returned, Exits, Node
  <2> QED
    BY <1>1, <1>2, <2>1, ExitTaken
<1>8. \/ mode = "SINGLE_AGENT_REVIEW" /\ Path = SinglePath
      \/ mode = "QUICK_REVIEW" /\ Path = QuickPath
      \/ mode = "FULL_REVIEW" /\ Path = FullPath
  BY <1>0, <1>7 DEF PathKnown, Returned
<1>9. \A k \in Returned : nodes'[k] # "NONE" <=> k = n
  BY <1>5, <1>7 DEF Seen, Returned, Node
<1>10. FullPathIs /\ QuickPathIs /\ SinglePathIs
  BY FullPathKnown, QuickPathKnown, SinglePathKnown
<1>11. \A i \in DOMAIN Path : Path[i] \in Node
  BY PathTyped DEF ToSet
<1>15. \A i \in DOMAIN Path : nodes[Path[i]] = "SUCCEEDED" <=> Path[i] \in Before(n)
  BY <1>3, <1>11
<1>16. PICK d \in {6, 13, 15} :
         /\ DOMAIN Path = 1..d /\ Len(Path) = d /\ (mode = "FULL_REVIEW" => d = 15)
         /\ Path[1] = "doc_parse" /\ Path[2] = "content_check"
         /\ \A i \in 3..d : Path[i] \notin {"doc_parse", "content_check"}
  <2>1. CASE mode = "SINGLE_AGENT_REVIEW" /\ Path = SinglePath
    BY <1>10, <2>1 DEF SinglePathIs
  <2>2. CASE mode = "QUICK_REVIEW" /\ Path = QuickPath
    BY <1>10, <2>2 DEF QuickPathIs
  <2>3. CASE mode = "FULL_REVIEW" /\ Path = FullPath
    BY <1>10, <2>3 DEF FullPathIs
  <2> QED
    BY <1>8, <2>1, <2>2, <2>3
<1> DEFINE old == Path
           new == Path'
           f == nodes
           g == nodes'
<1> SUFFICES Rounded(100 * CompletedNodes(old, f), Len(old))
                <= Rounded(100 * CompletedNodes(new, g), Len(new))
             /\ Rounded(100 * CompletedNodes(new, g), Len(new)) \in Nat
  OBVIOUS
<1>12. CASE n = "parse_fail_output"
  <2>1. Path' = UnreadablePath
    BY <1>9, <1>12 DEF Path, ReviewProgressPath, UnreadablePath, Returned
  <2>2. Before(n) = {"doc_parse"}
    BY <1>12, BeforeKnown DEF BeforeIs
  <2>3. CompletedNodes(old, f) = 1
    <3>1. \A i \in 1..d : f[old[i]] = "SUCCEEDED" <=> i <= 1
      BY <1>15, <1>16, <2>2
    <3>2. DOMAIN old = 1..d /\ d \in Nat /\ 1 \in 0..d
      BY <1>16
    <3> HIDE DEF old, f
    <3> QED
      BY <3>1, <3>2, CompletedUpTo
  <2>4. CompletedNodes(new, g) = 1
    <3>1. \A i \in 1..3 : g[UnreadablePath[i]] = "SUCCEEDED" <=> i <= 1
      BY <1>6, <2>2, ShortPathsKnown DEF ShortPathsAre, Node
    <3>2. \A i \in 1..3 : g[new[i]] = "SUCCEEDED" <=> i <= 1
      BY <2>1, <3>1
    <3>3. DOMAIN new = 1..3 /\ 3 \in Nat /\ 1 \in 0..3
      BY <2>1, ShortPathsKnown DEF ShortPathsAre
    <3> HIDE DEF new, g
    <3> QED
      BY <3>2, <3>3, CompletedUpTo
  <2>5. Rounded(100 * 1, 3) = 33 /\ Rounded(100 * 1, 6) = 17
        /\ Rounded(100 * 1, 13) = 8 /\ Rounded(100 * 1, 15) = 7
    BY DEF Rounded
  <2>6. Len(new) = 3 /\ Len(old) = d
    BY <1>16, <2>1, ShortPathsKnown DEF ShortPathsAre
  <2> HIDE DEF old, new, f, g
  <2> QED
    BY <1>16, <2>3, <2>4, <2>5, <2>6
<1>13. CASE n = "invalid_file"
  <2>1. Path' = InvalidPath
    BY <1>9, <1>13 DEF Path, ReviewProgressPath, InvalidPath, Returned
  <2>2. Before(n) = {"doc_parse", "content_check"}
    BY <1>13, BeforeKnown DEF BeforeIs
  <2>3. CompletedNodes(old, f) = 2
    <3>1. \A i \in 1..d : f[old[i]] = "SUCCEEDED" <=> i <= 2
      BY <1>15, <1>16, <2>2
    <3>2. DOMAIN old = 1..d /\ d \in Nat /\ 2 \in 0..d
      BY <1>16
    <3> HIDE DEF old, f
    <3> QED
      BY <3>1, <3>2, CompletedUpTo
  <2>4. CompletedNodes(new, g) = 2
    <3>1. \A i \in 1..4 : g[InvalidPath[i]] = "SUCCEEDED" <=> i <= 2
      BY <1>6, <2>2, ShortPathsKnown DEF ShortPathsAre, Node
    <3>2. \A i \in 1..4 : g[new[i]] = "SUCCEEDED" <=> i <= 2
      BY <2>1, <3>1
    <3>3. DOMAIN new = 1..4 /\ 4 \in Nat /\ 2 \in 0..4
      BY <2>1, ShortPathsKnown DEF ShortPathsAre
    <3> HIDE DEF new, g
    <3> QED
      BY <3>2, <3>3, CompletedUpTo
  <2>5. Rounded(100 * 2, 4) = 50 /\ Rounded(100 * 2, 6) = 33
        /\ Rounded(100 * 2, 13) = 15 /\ Rounded(100 * 2, 15) = 13
    BY DEF Rounded
  <2>6. Len(new) = 4 /\ Len(old) = d
    BY <1>16, <2>1, ShortPathsKnown DEF ShortPathsAre
  <2> HIDE DEF old, new, f, g
  <2> QED
    BY <1>16, <2>3, <2>4, <2>5, <2>6
<1>14. CASE n = "desk_reject_output"
  <2>1. "se_check" \in Done /\ Done = Before(n)
    BY <1>2, <1>14, BeforeKnown DEF BeforeIs
  <2>2. mode = "FULL_REVIEW" /\ Path = FullPath
    BY <1>0, <1>8, <2>1 DEF Routed, Visited
  <2>3. nodes'["ae_check"] # "NONE" <=> "ae_check" \in Before(n)
    <3>1. "ae_check" \notin frontier /\ "ae_check" \in Node /\ "ae_check" # n
      BY <1>1, <1>14 DEF Node
    <3>2. nodes["ae_check"] \in {"NONE", "SUCCEEDED"}
      BY <1>0, <3>1 DEF NodesTell
    <3> QED
      BY <1>3, <1>5, <3>1, <3>2
  <2>4. Rounded(100 * 5, 7) = 71 /\ Rounded(100 * 5, 15) = 33
        /\ Rounded(100 * 6, 8) = 75 /\ Rounded(100 * 6, 15) = 40
    BY DEF Rounded
  <2>5. CASE "ae_check" \notin Before(n)
    <3>1. Path' = DeskPathSE
      BY <1>9, <1>14, <2>3, <2>5 DEF Path, ReviewProgressPath, DeskPathSE, Returned
    <3>2. Before(n) = OpeningNodes \cup {"se_check"}
      BY <1>14, <2>5, BeforeKnown DEF BeforeIs
    <3>3. CompletedNodes(old, f) = 5
      <4>1. \A i \in 1..15 : f[old[i]] = "SUCCEEDED" <=> i <= 5
        BY <1>10, <1>15, <2>2, <3>2 DEF FullPathIs, OpeningNodes
      <4>2. DOMAIN old = 1..15 /\ 15 \in Nat /\ 5 \in 0..15
        BY <1>10, <2>2 DEF FullPathIs
      <4> HIDE DEF old, f
      <4> QED
        BY <4>1, <4>2, CompletedUpTo, ZenonT(40)
    <3>4. CompletedNodes(new, g) = 5
      <4>1. \A i \in 1..7 : g[DeskPathSE[i]] = "SUCCEEDED" <=> i <= 5
        BY <1>6, <3>2, DeskPathsKnown DEF DeskPathsAre, Node, OpeningNodes
      <4>2. \A i \in 1..7 : g[new[i]] = "SUCCEEDED" <=> i <= 5
        BY <3>1, <4>1
      <4>3. DOMAIN new = 1..7 /\ 7 \in Nat /\ 5 \in 0..7
        BY <3>1, DeskPathsKnown DEF DeskPathsAre
      <4> HIDE DEF new, g
      <4> QED
        BY <4>2, <4>3, CompletedUpTo
    <3>5. Len(new) = 7 /\ Len(old) = 15
      BY <1>10, <2>2, <3>1, DeskPathsKnown DEF DeskPathsAre, FullPathIs
    <3> HIDE DEF old, new, f, g
    <3> QED
      BY <2>4, <3>3, <3>4, <3>5
  <2>6. CASE "ae_check" \in Before(n)
    <3>1. Path' = DeskPathAE
      BY <1>9, <1>14, <2>3, <2>6 DEF Path, ReviewProgressPath, DeskPathAE, Returned
    <3>2. Before(n) = OpeningNodes \cup {"se_check", "ae_check"}
      BY <1>14, <2>6, BeforeKnown DEF BeforeIs, OpeningNodes
    <3>3. CompletedNodes(old, f) = 6
      <4>1. \A i \in 1..15 : f[old[i]] = "SUCCEEDED" <=> i <= 6
        BY <1>10, <1>15, <2>2, <3>2 DEF FullPathIs, OpeningNodes
      <4>2. DOMAIN old = 1..15 /\ 15 \in Nat /\ 6 \in 0..15
        BY <1>10, <2>2 DEF FullPathIs
      <4> HIDE DEF old, f
      <4> QED
        BY <4>1, <4>2, CompletedUpTo, ZenonT(40)
    <3>4. CompletedNodes(new, g) = 6
      <4>1. \A i \in 1..8 : g[DeskPathAE[i]] = "SUCCEEDED" <=> i <= 6
        BY <1>6, <3>2, DeskPathsKnown DEF DeskPathsAre, Node, OpeningNodes
      <4>2. \A i \in 1..8 : g[new[i]] = "SUCCEEDED" <=> i <= 6
        BY <3>1, <4>1
      <4>3. DOMAIN new = 1..8 /\ 8 \in Nat /\ 6 \in 0..8
        BY <3>1, DeskPathsKnown DEF DeskPathsAre
      <4> HIDE DEF new, g
      <4> QED
        BY <4>2, <4>3, CompletedUpTo, ZenonT(40)
    <3>5. Len(new) = 8 /\ Len(old) = 15
      BY <1>10, <2>2, <3>1, DeskPathsKnown DEF DeskPathsAre, FullPathIs
    <3> HIDE DEF old, new, f, g
    <3> QED
      BY <2>4, <3>3, <3>4, <3>5
  <2> QED
    BY <2>5, <2>6
<1> QED
  BY <1>12, <1>13, <1>14 DEF Returned

\* No other step of a node changes the path.
LEMMA PathKept ==
    ASSUME IInv, NEW n \in Node, NodeStep(n), ~(n \in Returned /\ Start(n))
    PROVE  /\ Path' = Path
           /\ \A k \in Node : nodes[k] = "SUCCEEDED" => nodes'[k] = "SUCCEEDED"
<1>0. TypeOK /\ NodesTell /\ AtItsPlace
  BY DEF IInv
<1>1. /\ mode' = mode /\ n \in frontier /\ nodes[n] # "SUCCEEDED"
      /\ \A k \in Node \ {n} : nodes'[k] = nodes[k]
      /\ nodes'[n] # "NONE" /\ (nodes[n] = "NONE" => Start(n))
  <2>1. reply[n] # At("not started") => n \in frontier
    BY <1>0 DEF NodesTell
  <2>2. At("not started").at = "not started"
    BY DEF At
  <2>3. n \in frontier /\ reply[n].at \in {"not started", "asking"}
    BY <2>1, <2>2 DEF NodeStep, Start, Finish, Fail
  <2>4. \/ nodes[n] = "NONE" /\ reply[n].at = "not started"
        \/ nodes[n] = "RUNNING" /\ reply[n].at = "asking"
    BY <1>0, <2>3, TellsApart DEF NodesTell
  <2> QED
    BY <1>0, <2>3, <2>4 DEF NodeStep, Start, Finish, Fail, TypeOK
<1>2. \A k \in Returned : nodes'[k] # "NONE" <=> nodes[k] # "NONE"
  BY <1>1 DEF Returned, Node
<1>3. nodes["desk_reject_output"] # "NONE" =>
        (nodes'["ae_check"] # "NONE" <=> nodes["ae_check"] # "NONE")
  <2> SUFFICES ASSUME nodes["desk_reject_output"] # "NONE", n = "ae_check" PROVE FALSE
    BY <1>1 DEF Node
  <2>1. "desk_reject_output" \in Visited
    BY SeenVisited DEF Node
  <2>2. frontier = {"ae_check"}
    BY <1>0, <1>1 DEF AtItsPlace, Reviewers
  <2>3. "desk_reject_output" \in Done
    BY <2>1, <2>2 DEF Visited
  <2> QED
    BY <2>2, <2>3, ExitTaken DEF Exits, Visited
<1>4. Path' = Path
  <2>1. /\ nodes'["parse_fail_output"] # "NONE" <=> nodes["parse_fail_output"] # "NONE"
        /\ nodes'["invalid_file"] # "NONE" <=> nodes["invalid_file"] # "NONE"
        /\ nodes'["desk_reject_output"] # "NONE" <=> nodes["desk_reject_output"] # "NONE"
    BY <1>2 DEF Returned
  <2>2. CASE nodes["desk_reject_output"] # "NONE"
    BY <1>1, <1>3, <2>1, <2>2 DEF Path, ReviewProgressPath
  <2>3. CASE nodes["desk_reject_output"] = "NONE"
    <3>1. CASE nodes["parse_fail_output"] # "NONE" /\ nodes["invalid_file"] = "NONE"
      BY <2>1, <2>3, <3>1 DEF Path, ReviewProgressPath
    <3>2. CASE nodes["parse_fail_output"] = "NONE" /\ nodes["invalid_file"] # "NONE"
      BY <2>1, <2>3, <3>2 DEF Path, ReviewProgressPath
    <3>3. CASE nodes["parse_fail_output"] = "NONE" /\ nodes["invalid_file"] = "NONE"
      <4>1. mode \in ReviewMode /\ mode' = mode
        BY <1>0, <1>1 DEF TypeOK
      <4>2. Path = CASE mode = "SINGLE_AGENT_REVIEW" -> SinglePath
                     [] mode = "QUICK_REVIEW" -> QuickPath
                     [] mode = "FULL_REVIEW" -> FullPath
        BY <2>3, <3>3, <4>1 DEF Path, ReviewProgressPath, ReviewMode
      <4>3. Path' = CASE mode = "SINGLE_AGENT_REVIEW" -> SinglePath
                      [] mode = "QUICK_REVIEW" -> QuickPath
                      [] mode = "FULL_REVIEW" -> FullPath
        BY <2>1, <2>3, <3>3, <4>1 DEF Path, ReviewProgressPath, ReviewMode
      <4> QED
        BY <4>2, <4>3
    <3>4. ~(nodes["parse_fail_output"] # "NONE" /\ nodes["invalid_file"] # "NONE")
      <4> SUFFICES ASSUME nodes["parse_fail_output"] # "NONE", nodes["invalid_file"] # "NONE"
                   PROVE  FALSE
        OBVIOUS
      <4>1. "parse_fail_output" \in Visited /\ "invalid_file" \in Visited
        BY SeenVisited DEF Node
      <4>2. Exit = "parse_fail_output" /\ Exit = "invalid_file"
        BY <4>1, ExitTaken DEF Exits
      <4> QED
        BY <4>2
    <3> QED
      BY <3>1, <3>2, <3>3, <3>4
  <2> QED
    BY <2>2, <2>3
<1> QED
  BY <1>1, <1>4

\* The bar never moves back, although the path changes under it.
THEOREM Spec_PercentNeverFalls == Spec => PercentNeverFalls
<1> DEFINE Rises == Percent(Path, nodes, outcome)' >= Percent(Path, nodes, outcome)
           Bar == Rounded(100 * CompletedNodes(Path, nodes), Len(Path))
<1>1. ASSUME IInv PROVE Bar \in Nat /\ Bar <= 100
  <2>1. PICK d \in PathLengths : DOMAIN Path = 1..d /\ Len(Path) = d
    BY <1>1, LengthsOfPaths
  <2>2. CompletedNodes(Path, nodes) \in 0..d /\ d \in Nat
    BY <2>1, CompletedTyped DEF PathLengths
  <2>3. 100 * CompletedNodes(Path, nodes) \in Nat
    BY <2>2
  <2> QED
    BY <2>1, <2>2, <2>3, RoundedFull, RoundedMonotone
<1>2. ASSUME IInv, [Next]_vars PROVE Rises
  <2>0. Bar \in Nat /\ Bar <= 100
    BY <1>1, <1>2
  <2>1. Percent(Path, nodes, outcome) = IF outcome = "SUCCEEDED" THEN 100 ELSE Bar
    BY DEF Percent
  <2>2. Percent(Path, nodes, outcome)' = IF outcome' = "SUCCEEDED" THEN 100 ELSE Bar'
    BY DEF Percent
  <2>3. ASSUME UNCHANGED <<mode, nodes>>, outcome = "SUCCEEDED" => outcome' = "SUCCEEDED"
        PROVE  Rises
    <3>1. Bar' = Bar
      BY <2>3 DEF Path
    <3> HIDE DEF Bar
    <3> QED
      BY <2>0, <2>1, <2>2, <2>3, <3>1
  <2>4. ASSUME NEW n \in Node, NodeStep(n) PROVE Rises
    <3>1. outcome' = outcome /\ outcome = "RUNNING"
      BY <2>4 DEF NodeStep, Start, Finish, Fail, Running
    <3>2. Bar <= Bar' /\ Bar' \in Nat
      <4>1. CASE n \in Returned /\ Start(n)
        BY <1>2, <4>1, ExitStarts
      <4>2. CASE ~(n \in Returned /\ Start(n))
        <5>1. Path' = Path /\ \A k \in Node : nodes[k] = "SUCCEEDED" => nodes'[k] = "SUCCEEDED"
          BY <1>2, <2>4, <4>2, PathKept
        <5>2. PICK d \in PathLengths : DOMAIN Path = 1..d /\ Len(Path) = d
          BY <1>2, LengthsOfPaths
        <5>3. \A i \in DOMAIN Path : nodes[Path[i]] = "SUCCEEDED" => nodes'[Path[i]] = "SUCCEEDED"
          BY <1>2, <5>1, PathTyped DEF ToSet
        <5> DEFINE c == CompletedNodes(Path, nodes)
                   e == CompletedNodes(Path, nodes')
        <5>4. c \in Nat /\ e \in Nat /\ c <= e
          BY <5>2, <5>3, CompletedTyped, CompletedGrows DEF PathLengths
        <5>5. Bar = Rounded(100 * c, d) /\ Bar' = Rounded(100 * e, d)
          BY <5>1, <5>2
        <5> HIDE DEF c, e
        <5>6. 100 * c \in Nat /\ 100 * e \in Nat /\ 100 * c <= 100 * e
          BY <5>4
        <5> QED
          BY <5>5, <5>6, RoundedMonotone
      <4> QED
        BY <4>1, <4>2
    <3> HIDE DEF Bar
    <3> QED
      BY <2>0, <2>1, <2>2, <3>1, <3>2
  <2>5. CASE EndSuperstep
    BY <2>3, <2>5 DEF EndSuperstep
  <2>6. CASE RaiseError
    BY <2>3, <2>6 DEF RaiseError, Running
  <2>7. CASE Deliver
    <3>1. UNCHANGED <<mode, nodes>> /\ outcome = "RUNNING"
      BY <2>7 DEF Deliver, Running
    <3>2. CASE outcome' = "SUCCEEDED"
      <4> HIDE DEF Bar
      <4> QED
        BY <2>0, <2>1, <2>2, <3>1, <3>2
    <3>3. CASE outcome' # "SUCCEEDED"
      BY <2>3, <3>1, <3>3
    <3> QED
      BY <3>2, <3>3
  <2>8. CASE UNCHANGED vars
    BY <2>3, <2>8 DEF vars
  <2> HIDE DEF Rises
  <2> QED
    BY <1>2, <2>4, <2>5, <2>6, <2>7, <2>8 DEF Next, GraphStep, Over
<1>3. IInv /\ [Next]_vars => [Rises]_vars
  BY <1>2
<1>4. PercentNeverFalls <=> [][Rises]_vars
  BY DEF PercentNeverFalls
<1> QED
  BY <1>3, <1>4, Invariance, PTL DEF Spec

-----------------------------------------------------------------------------
(* The run follows the editorial process.                                  *)

\* The variables of the process, as the run shows them.
panelSeen == ToSet(Keys(state.reviewer_reports))
verdictSeen == IF mode = "SINGLE_AGENT_REVIEW" /\ state.reviewer_reports # << >>
               THEN state.final_decision ELSE state.ae_decision_result
standing == CASE outcome = "RUNNING" -> "open"
              [] outcome = "SUCCEEDED" -> "delivered"
              [] outcome = "FAILED" -> "abandoned"

\* The reviewers of a sequence of reports.
LEMMA KeysSet ==
    ASSUME NEW reports
    PROVE  ToSet(Keys(reports)) = {reports[i].reviewer_key : i \in DOMAIN reports}
BY DEF ToSet, Keys

\* Without a report the panel has not been heard.
LEMMA NoReports ==
    ASSUME state.reviewer_reports = << >> PROVE panelSeen = {}
BY KeysSet DEF panelSeen

\* Steps that leave the reports' keys and the decisions alone show nothing.
LEMMA ShowsNothing ==
    ASSUME UNCHANGED <<mode, outcome>>,
           state'.reviewer_reports = state.reviewer_reports,
           state'.final_decision = state.final_decision,
           state'.ae_decision_result = state.ae_decision_result
    PROVE  UNCHANGED Process!vars
<1>1. /\ UNCHANGED <<mode, panelSeen, verdictSeen, standing>>
      /\ state'.final_decision = state.final_decision
  BY DEF panelSeen, verdictSeen, standing, Keys
<1> QED
  BY <1>1 DEF Process!vars, panelSeen, verdictSeen, standing

\* The panel the process expects.
LEMMA PanelOfMode ==
    ASSUME mode \in ReviewMode
    PROVE  [m \in ReviewMode |-> IF m = "SINGLE_AGENT_REVIEW" THEN {"single_reviewer"}
                                 ELSE Reviewers][mode]
              = IF mode = "SINGLE_AGENT_REVIEW" THEN {"single_reviewer"} ELSE Reviewers
OBVIOUS

\* While no exit has been merged, nothing is published; before the panel, there is
\* no report.
LEMMA NothingYet ==
    ASSUME IInv, NEW n \in frontier, n # "final_artifact_render"
    PROVE  /\ state.final_decision = Unset
           /\ n \notin {"ae_decision", "ae_report", "ae_finalize"} => state.reviewer_reports = << >>
           /\ n \in {"ae_decision", "ae_report", "ae_finalize"} => Panel(state.reviewer_reports)
<1>0. AtItsPlace /\ Decided /\ ReportsAdded /\ n \in Node
  BY DEF IInv, TypeOK
<1>1. Exits \cap Done = {}
  BY <1>0, NoExitYet
<1>2. state.final_decision = Unset
  BY <1>0, <1>1 DEF Decided, Exits
<1>3. Done = Before(n)
  BY <1>0 DEF AtItsPlace
<1>4. ASSUME n \notin {"ae_decision", "ae_report", "ae_finalize"}
      PROVE  state.reviewer_reports = << >>
  <2>1. Before(n) \subseteq OpeningNodes \cup {"se_check", "ae_check", "review_dispatch"}
    BY <1>0, <1>4, BeforeKnown DEF BeforeIs, Node, Screening, OpeningNodes
  <2>2. Reviewers \cap Done = {} /\ "single_reviewer" \notin Done
    BY <1>3, <2>1 DEF OpeningNodes, Reviewers
  <2> QED
    BY <1>0, <2>2 DEF ReportsAdded
<1>5. ASSUME n \in {"ae_decision", "ae_report", "ae_finalize"} PROVE Panel(state.reviewer_reports)
  <2>1. Reviewers \subseteq Done /\ "reviewer1" \in Reviewers
    BY <1>3, <1>5, BeforeKnown DEF BeforeIs, Reviewers
  <2> QED
    BY <1>0, <2>1 DEF ReportsAdded
<1> QED
  BY <1>2, <1>4, <1>5

\* A superstep of one node is a step of the process or shows nothing of it.
LEMMA NodeMergedFollows ==
    ASSUME IInv, NEW n \in Node \ Reviewers, frontier = {n}, Merges(n, state, state'),
           outcome = "RUNNING", UNCHANGED <<mode, outcome>>
    PROVE  [Process!Next]_(Process!vars)
<1>0. AtItsPlace /\ Routed /\ Decided /\ TypeOK /\ Wrote(n, state, state') /\ mode \in ReviewMode
  BY DEF IInv, Merges, TypeOK
<1>1. standing = "open" /\ standing' = "open"
  BY DEF standing
<1>2. n # "final_artifact_render" => state.final_decision = Unset
  BY NothingYet
<1>3. CASE n \notin Exits \cup {"ae_decision"}
  <2>1. /\ state'.reviewer_reports = state.reviewer_reports
        /\ state'.final_decision = state.final_decision
        /\ state'.ae_decision_result = state.ae_decision_result
    BY <1>0, <1>3 DEF Wrote, Exits
  <2> QED
    BY <2>1, ShowsNothing
<1>4. CASE n = "ae_decision"
  <2>1. /\ state'.reviewer_reports = state.reviewer_reports
        /\ state'.final_decision = state.final_decision
        /\ state'.ae_decision_result \in Verdicts
    BY <1>0, <1>4 DEF Wrote, Reviewers
  <2>2. mode # "SINGLE_AGENT_REVIEW"
    <3>1. "review_dispatch" \in Visited
      BY <1>0, <1>4, BeforeKnown DEF AtItsPlace, BeforeIs, Visited
    <3> QED
      BY <1>0, <3>1 DEF Routed
  <2>3. panelSeen = Reviewers
    <3>1. Panel(state.reviewer_reports) /\ state.reviewer_reports \in Seq(Report)
      BY <1>0, <1>4, NothingYet DEF TypeOK, GlobalState
    <3> QED
      BY <3>1, KeysSet, PanelContext DEF panelSeen
  <2>4. state.ae_decision_result = Unset
    BY <1>0, <1>4 DEF Decided, Done
  <2>5. /\ panelSeen' = panelSeen /\ verdictSeen = Unset /\ verdictSeen' \in Verdicts
    BY <2>1, <2>2, <2>4 DEF panelSeen, verdictSeen, Keys
  <2>6. Process!Decide
    BY <1>0, <1>1, <2>1, <2>2, <2>3, <2>5, PanelOfMode
       DEF Process!Decide, Process!Open, Process!Verdicts, Verdicts, panelSeen, verdictSeen, standing
  <2> QED
    BY <2>6 DEF Process!Next
<1>5. CASE n = "ae_finalize"
  <2>1. /\ state'.reviewer_reports = state.reviewer_reports
        /\ state'.final_decision = state.ae_decision_result
        /\ state'.ae_decision_result = state.ae_decision_result
    BY <1>0, <1>5 DEF Wrote, Reviewers
  <2>2. mode # "SINGLE_AGENT_REVIEW" /\ "ae_decision" \in Done
    <3>1. "review_dispatch" \in Visited /\ "ae_decision" \in Done
      BY <1>0, <1>5, BeforeKnown DEF AtItsPlace, BeforeIs, Visited
    <3> QED
      BY <1>0, <3>1 DEF Routed
  <2>3. state.ae_decision_result \in Verdicts
    BY <1>0, <2>2 DEF Decided
  <2>4. panelSeen' = panelSeen /\ verdictSeen' = verdictSeen
        /\ verdictSeen = state.ae_decision_result /\ verdictSeen # Unset
    BY <2>1, <2>2, <2>3 DEF panelSeen, verdictSeen, Keys, Verdicts, Unset
  <2>5. Process!Publish
    BY <1>1, <1>2, <1>5, <2>1, <2>4
       DEF Process!Publish, Process!Open, panelSeen, verdictSeen, standing
  <2> QED
    BY <2>5 DEF Process!Next
<1>6. CASE n = "single_reviewer"
  <2>1. mode = "SINGLE_AGENT_REVIEW"
    BY <1>0, <1>6 DEF Routed, Visited
  <2>2. state.reviewer_reports = << >>
    BY <1>6, NothingYet
  <2>3. PICK report \in Report : /\ report.reviewer_key = n
                                 /\ state'.reviewer_reports = Append(state.reviewer_reports, report)
    BY <1>0, <1>6 DEF Wrote
  <2>4. state'.reviewer_reports # << >> /\ panelSeen' = {"single_reviewer"}
    <3>1. DOMAIN state'.reviewer_reports = {1} /\ state'.reviewer_reports[1] = report
      BY <2>2, <2>3
    <3> DEFINE reports == state'.reviewer_reports
    <3>2. DOMAIN reports = {1} /\ reports[1].reviewer_key = "single_reviewer"
      BY <1>6, <2>3, <3>1
    <3> HIDE DEF reports
    <3>3. ToSet(Keys(reports)) = {"single_reviewer"} /\ reports # << >>
      BY <3>2, KeysSet
    <3> QED
      BY <3>3 DEF reports, panelSeen, Keys
  <2>5. state'.final_decision \in Verdicts
    BY <1>0, <1>6 DEF Wrote
  <2>6. verdictSeen' = state'.final_decision
    BY <2>1, <2>4 DEF verdictSeen
  <2>7. Process!SoloReview
    BY <1>0, <1>1, <1>2, <1>6, <2>1, <2>4, <2>5, <2>6, PanelOfMode
       DEF Process!SoloReview, Process!Open, Process!Verdicts, Verdicts, panelSeen, verdictSeen,
           standing
  <2> QED
    BY <2>7 DEF Process!Next
<1>7. CASE n \in Returned
  <2>1. /\ state'.reviewer_reports = state.reviewer_reports
        /\ state'.ae_decision_result = state.ae_decision_result
        /\ state'.final_decision \in {"REJECT", "INVALID_SUBMISSION", "DESK_REJECT"}
        /\ state'.final_decision = "DESK_REJECT" => n = "desk_reject_output"
    BY <1>0, <1>7 DEF Wrote, Reviewers, Returned
  <2>2. n = "desk_reject_output" => mode = "FULL_REVIEW"
    <3> SUFFICES ASSUME n = "desk_reject_output" PROVE "se_check" \in Visited
      BY <1>0 DEF Routed
    <3> QED
      BY <1>0, BeforeKnown DEF AtItsPlace, BeforeIs, Visited
  <2>3. state.reviewer_reports = << >> /\ panelSeen = {}
    BY <1>7, NothingYet, NoReports DEF Returned
  <2>4. panelSeen' = panelSeen /\ verdictSeen' = verdictSeen
    BY <2>1, <2>3 DEF panelSeen, verdictSeen, Keys
  <2>5. Process!ReturnUnreviewed
    BY <1>1, <1>2, <1>7, <2>1, <2>2, <2>3, <2>4
       DEF Process!ReturnUnreviewed, Process!Open, panelSeen, verdictSeen, standing, Returned
  <2> QED
    BY <2>5 DEF Process!Next
<1> QED
  BY <1>3, <1>4, <1>5, <1>6, <1>7 DEF Exits, Returned

\* The end of a superstep is a step of the process or shows nothing of it.
LEMMA SuperstepFollows ==
    ASSUME IInv, EndSuperstep PROVE [Process!Next]_(Process!vars)
<1>0. TypeOK /\ NodesTell /\ AtItsPlace /\ Routed /\ mode \in ReviewMode
  BY DEF IInv, TypeOK
<1>1. /\ \/ \E n \in Node \ Reviewers : frontier = {n} /\ Merges(n, state, state')
         \/ frontier = Reviewers /\ PanelMerged(state, state')
      /\ UNCHANGED <<mode, outcome>> /\ outcome = "RUNNING"
  BY <1>0, SuperstepMerged DEF EndSuperstep, Running
<1>2. ASSUME NEW n \in Node \ Reviewers, frontier = {n}, Merges(n, state, state')
      PROVE  [Process!Next]_(Process!vars)
  BY <1>1, <1>2, NodeMergedFollows
<1>3. CASE frontier = Reviewers /\ PanelMerged(state, state')
  <2>1. "reviewer1" \in frontier /\ "reviewer1" \in Reviewers
    BY <1>3 DEF Reviewers
  <2>2. state.final_decision = Unset /\ state.reviewer_reports = << >>
    BY <2>1, NothingYet
  <2>3. mode # "SINGLE_AGENT_REVIEW"
    <3>1. "review_dispatch" \in Visited
      BY <1>0, <2>1, BeforeKnown DEF AtItsPlace, BeforeIs, Visited
    <3> QED
      BY <1>0, <3>1 DEF Routed
  <2>4. /\ Panel(state'.reviewer_reports) /\ state'.reviewer_reports \in Seq(Report)
        /\ state'.ae_decision_result = state.ae_decision_result
        /\ state'.final_decision = state.final_decision
    BY <1>3, <2>2 DEF PanelMerged, GlobalState
  <2>5. panelSeen = {} /\ panelSeen' = Reviewers
    <3>1. ToSet(Keys(state'.reviewer_reports)) = Reviewers
      BY <2>4, KeysSet, PanelContext
    <3> QED
      BY <2>2, <3>1, NoReports DEF panelSeen, Keys
  <2>6. verdictSeen' = verdictSeen /\ standing = "open" /\ standing' = standing
    BY <1>1, <2>3, <2>4 DEF verdictSeen, standing
  <2>7. Process!PanelReports
    BY <1>0, <1>1, <2>2, <2>3, <2>4, <2>5, <2>6, PanelOfMode
       DEF Process!PanelReports, Process!Open, panelSeen, verdictSeen, standing
  <2> QED
    BY <2>7 DEF Process!Next
<1> QED
  BY <1>1, <1>2, <1>3

\* So is the end of a run.
LEMMA DeliverFollows ==
    ASSUME IInv, Deliver PROVE [Process!Next]_(Process!vars)
<1>1. frontier = {} /\ UNCHANGED mode /\ outcome = "RUNNING" /\ standing = "open"
  BY DEF Deliver, Running, standing
<1>2. state.final_decision \in FinalDecision
  BY <1>1, DecisionPublished
<1>3. CASE outcome' = "FAILED" /\ UNCHANGED state
  <2>1. /\ UNCHANGED <<panelSeen, verdictSeen>> /\ standing' = "abandoned"
        /\ state'.final_decision = state.final_decision
    BY <1>1, <1>3 DEF panelSeen, verdictSeen, standing
  <2>2. Process!Abandon
    BY <1>1, <2>1 DEF Process!Abandon, Process!Open, panelSeen, verdictSeen, standing
  <2> QED
    BY <2>2 DEF Process!Next
<1>4. CASE outcome' = "SUCCEEDED"
           /\ state' = [state EXCEPT !.reviewer_reports = SortedReports(@),
                                     !.final_decision = IF @ = Unset THEN "REJECT" ELSE @]
  <2> DEFINE reports == state.reviewer_reports
             sorted == SortedReports(reports)
  <2>1. state \in GlobalState /\ reports \in Seq(Report)
    BY DEF IInv, TypeOK, GlobalState
  <2>2. /\ sorted \in Seq(Report) /\ Len(sorted) = Len(reports)
        /\ Panel(reports) => Panel(sorted)
        /\ Len(reports) = 1 => sorted[1] = reports[1]
    BY <2>1, SortedKeeps
  <2>3. state.final_decision # Unset
    BY <1>2 DEF FinalDecision, Verdicts, Unset
  <2> HIDE DEF sorted
  <2>4. /\ state'.reviewer_reports = sorted /\ state'.final_decision = state.final_decision
        /\ state'.ae_decision_result = state.ae_decision_result
    <3>1. state' = [state EXCEPT !.reviewer_reports = sorted,
                                 !.final_decision = state.final_decision]
      BY <1>4, <2>3 DEF sorted
    <3> QED
      BY <2>1, <3>1 DEF GlobalState
  <2>5. \/ reports = << >> \/ Len(reports) = 1 \/ Panel(reports)
    <3>1. ReportsAdded
      BY DEF IInv
    <3> QED
      BY <3>1 DEF ReportsAdded
  <2>6. ToSet(Keys(sorted)) = ToSet(Keys(reports)) /\ (sorted = << >> <=> reports = << >>)
    <3>1. CASE reports = << >>
      BY <2>2, <3>1
    <3>2. CASE Len(reports) = 1
      <4>1. DOMAIN sorted = {1} /\ DOMAIN reports = {1} /\ sorted[1] = reports[1]
        BY <2>1, <2>2, <3>2
      <4>2. sorted = reports
        BY <2>1, <2>2, <3>2, <4>1
      <4> QED
        BY <4>2
    <3>3. CASE Panel(reports)
      <4>1. ToSet(Keys(sorted)) = Reviewers /\ ToSet(Keys(reports)) = Reviewers
        BY <2>1, <2>2, <3>3, KeysSet, PanelContext
      <4>2. Len(sorted) = 4 /\ Len(reports) = 4
        BY <2>2, <3>3 DEF Panel
      <4> QED
        BY <4>1, <4>2
    <3> QED
      BY <2>5, <3>1, <3>2, <3>3
  <2>7. UNCHANGED <<panelSeen, verdictSeen>> /\ standing' = "delivered"
    BY <1>1, <1>4, <2>4, <2>6 DEF panelSeen, verdictSeen, standing, Keys
  <2>8. Process!Deliver
    BY <1>1, <2>3, <2>4, <2>7 DEF Process!Deliver, Process!Open, panelSeen, verdictSeen, standing
  <2> QED
    BY <2>8 DEF Process!Next
<1> QED
  BY <1>3, <1>4 DEF Deliver

\* Whatever the threads and the model do, a run follows the editorial process.
THEOREM RunFollowsTheProcess == Spec => ImplementsProcess
<1>1. Init => Process!Init
  <2> SUFFICES ASSUME Init PROVE Process!Init
    OBVIOUS
  <2>1. /\ state.reviewer_reports = << >> /\ state.ae_decision_result = Unset
        /\ state.final_decision = Unset /\ mode \in ReviewMode /\ outcome = "RUNNING"
    BY DEF Init, initial_state
  <2>2. panelSeen = {} /\ verdictSeen = Unset /\ standing = "open"
    BY <2>1, NoReports DEF verdictSeen, standing
  <2> QED
    BY <2>1, <2>2 DEF Process!Init, panelSeen, verdictSeen, standing
<1>2. IInv /\ [Next]_vars => [Process!Next]_(Process!vars)
  <2> SUFFICES ASSUME IInv, [Next]_vars PROVE [Process!Next]_(Process!vars)
    OBVIOUS
  <2>1. ASSUME NEW n \in Node, NodeStep(n) PROVE [Process!Next]_(Process!vars)
    <3>1. UNCHANGED <<mode, state, outcome>>
      BY <2>1 DEF NodeStep, Start, Finish, Fail
    <3> QED
      BY <3>1, ShowsNothing
  <2>2. CASE EndSuperstep
    BY <2>2, SuperstepFollows
  <2>3. CASE RaiseError
    <3>1. UNCHANGED <<mode, state>> /\ outcome = "RUNNING" /\ outcome' = "FAILED"
      BY <2>3 DEF RaiseError, Running
    <3>2. /\ UNCHANGED <<panelSeen, verdictSeen>> /\ standing = "open" /\ standing' = "abandoned"
          /\ state'.final_decision = state.final_decision
      BY <3>1 DEF panelSeen, verdictSeen, standing
    <3>3. Process!Abandon
      BY <3>1, <3>2 DEF Process!Abandon, Process!Open, panelSeen, verdictSeen, standing
    <3> QED
      BY <3>3 DEF Process!Next
  <2>4. CASE Deliver
    BY <2>4, DeliverFollows
  <2>5. CASE UNCHANGED vars
    <3>1. UNCHANGED <<mode, state, outcome>>
      BY <2>5 DEF vars
    <3> QED
      BY <3>1, ShowsNothing
  <2> QED
    BY <2>1, <2>2, <2>3, <2>4, <2>5 DEF Next, GraphStep, Over
<1> QED
  BY <1>1, <1>2, Invariance, PTL DEF Spec, ImplementsProcess, Process!Spec
=============================================================================

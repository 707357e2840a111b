--------------------------- MODULE BatchReviewProofs ---------------------------
(***************************************************************************)
(* The inductive invariant of BatchReview, and what follows from it for    *)
(* manifests of any length, any number of threads and any number of kills: *)
(* SummaryAccountsForAll and AcceptedPapersWereRead.                       *)
(***************************************************************************)
EXTENDS BatchReview, SequenceTheorems, CountingLemmas

\* The command was not refused and has written its request.
Live == main.pc \in {"loop", "record", "decisions", "summary", "ended"}

Total == Len(Selected)
Statuses == {"planned", "succeeded", "failed"}

\* The rows that are counted: while one is being recorded, all others.
RowsCounted == IF main.pc = "record" THEN Len(dir.rows) - 1 ELSE Len(dir.rows)

\* A directory without a request is empty; what was killed after that is refused.
StartsEmpty ==
    /\ dir.request => dir.exists
    /\ ~dir.request => /\ main.pc \in {"start", "refused", "request"}
                       /\ dir.rows = << >> /\ dir.failures = << >>
    /\ main.pc = "request" => dir.exists /\ ~dir.request
    /\ main.pc \in {"start", "refused", "request"} =>
          /\ main.position = 1 /\ counts = NoCounts
          /\ \A i \in Items : item[i].pc = "none"
    /\ main.pc \notin {"start", "refused"} => ~BadArguments
    /\ main.pc # "ended" => dir.summary = None

\* What a thread returns is about its own item, and a paper it accepts was read.
ItemReturns ==
    \A i \in Items : item[i].pc \in {"finished", "recorded"} =>
        LET row == item[i].row IN
        /\ row \in BatchRow
        /\ row.index = config.offset + i /\ row.paper_id = Selected[i].paper_id
        /\ row.status \in {"succeeded", "failed"}
        /\ row.status = "succeeded" /\ row.final_decision \in AcceptLike =>
              parse[Paper(i)].pc = "parsed"

\* The rows of a plan are those of the items in their order; those of a batch are
\* what the recorded items returned.
RowsAreItems ==
    Live =>
        /\ Len(dir.rows) = main.position - 1
        /\ config.dry_run => \A k \in DOMAIN dir.rows : dir.rows[k] = Row(k, "planned")
        /\ config.dry_run => main.position <= Total + 1
        /\ ~config.dry_run =>
              /\ \A k \in DOMAIN dir.rows : \E i \in Items :
                    item[i].pc = "recorded" /\ dir.rows[k] = item[i].row
              /\ \A i \in Items : item[i].pc = "recorded" =>
                    \E k \in DOMAIN dir.rows : dir.rows[k] = item[i].row

\* In sequence, items are recorded in their order.
InSequence ==
    Live /\ ~config.dry_run /\ config.concurrency = 1 =>
        /\ \A k \in DOMAIN dir.rows : dir.rows[k].index = config.offset + k
        /\ \A i \in Items : /\ i < main.position => item[i].pc = "recorded"
                            /\ i > main.position => item[i].pc = "none"

\* The rows of a file, and those of its first n that succeeded.
Elements(rows) == {rows[k] : k \in DOMAIN rows}
SucceededOf(rows, n) == {rows[k] : k \in WithStatus(rows, "succeeded", n)}

\* The counters, the failures and the final rows are those of the rows counted.
Accounts ==
    Live =>
        /\ main.pc = "record" => Len(dir.rows) > 0 /\ main.row = dir.rows[Len(dir.rows)]
        /\ \A status \in Statuses :
              counts.status[status] = Counted(dir.rows, status, RowsCounted)
        /\ Len(dir.failures) = Counted(dir.rows, "failed", RowsCounted)
        /\ Elements(counts.final_rows) = SucceededOf(dir.rows, RowsCounted)
        /\ \A k, l \in DOMAIN counts.final_rows :
              counts.final_rows[k].index = counts.final_rows[l].index => k = l

\* fail_fast stops at the first failure; otherwise the batch goes on to the end.
Stops ==
    /\ Live /\ config.fail_fast /\ ~config.dry_run =>
          \A k \in DOMAIN dir.rows : Failed(dir.rows[k]) =>
              k = Len(dir.rows) /\ main.pc # "loop"
    /\ main.pc \in {"decisions", "summary", "ended"} =>
          \/ main.position > Total
          \/ /\ config.fail_fast /\ ~config.dry_run
             /\ Len(dir.rows) > 0 /\ Failed(dir.rows[Len(dir.rows)])

\* What the last two files are made of.
Written ==
    /\ main.pc \in {"summary", "ended"} => dir.decisions = SortedByIndex(counts.final_rows)
    /\ main.pc = "ended" =>
          LET s == counts.status
              completed == s["succeeded"] + s["failed"]
          IN dir.summary = [status |-> BatchStatus(Total, completed, s["failed"]),
                            total_selected |-> Total, status_counts |-> s]

\* PyMuPDF is asked only when MinerU was not to be asked or had failed.
ParsersInOrder ==
    \A p \in Papers :
        ShouldTryMinerU /\ (parse[p].pc = "pymupdf" \/ parse[p].by = "pymupdf") =>
            "mineru" \in parse[p].errors

IInv ==
    /\ StartsEmpty /\ ItemReturns /\ RowsAreItems /\ InSequence /\ Accounts
    /\ NothingRecordedTwice /\ FailuresFollowRows /\ Stops /\ Written
    /\ ParsersInOrder

-----------------------------------------------------------------------------
(* The slice that is selected.                                             *)

\* build_batch_items takes consecutive rows of the manifest.
LEMMA SelectedIs ==
    ASSUME TypeOK
    PROVE  /\ Selected \in Seq(ManifestRows)
           /\ Total \in Nat /\ Items = 1..Total
           /\ config.concurrency \in Nat /\ config.fail_fast \in BOOLEAN
           /\ config.dry_run \in BOOLEAN /\ config.offset \in Nat
           /\ \A i \in Items : /\ manifest # None /\ config.offset + i \in DOMAIN manifest
                               /\ Selected[i] = manifest[config.offset + i]
<1>1. config \in [concurrency : Nat, fail_fast : BOOLEAN, dry_run : BOOLEAN,
                  offset : Nat, limit : Nat \cup {None}]
  BY BatchReviewAssumption DEF TypeOK
<1>2. CASE manifest = None \/ config.offset >= Len(manifest)
  <2>1. Selected = << >>
    BY <1>2 DEF Selected
  <2> QED
    BY <1>1, <2>1 DEF Items, Total
<1>3. CASE manifest # None /\ ~(config.offset >= Len(manifest))
  <2>1. manifest \in Seq(ManifestRows)
    BY <1>3, BatchReviewAssumption DEF TypeOK
  <2> DEFINE first == config.offset + 1
             last == IF config.limit = None \/ config.offset + config.limit > Len(manifest)
                     THEN Len(manifest) ELSE config.offset + config.limit
  <2>2. Selected = SubSeq(manifest, first, last)
    BY <1>3 DEF Selected
  <2>3. Len(manifest) \in Nat
    BY <2>1
  <2>4. last \in Int /\ last <= Len(manifest)
    BY <1>1, <2>3
  <2>5. first \in Nat /\ first >= 1
    BY <1>1
  <2>6. \A i \in first..last : i \in DOMAIN manifest /\ manifest[i] \in ManifestRows
    BY <2>1, <2>3, <2>4, <2>5
  <2> HIDE DEF first, last
  <2>7. /\ Selected \in Seq(ManifestRows)
        /\ Len(Selected) = IF first <= last THEN last - first + 1 ELSE 0
        /\ \A i \in 1..(last - first + 1) : Selected[i] = manifest[first + i - 1]
    BY <2>2, <2>4, <2>5, <2>6, SubSeqProperties
  <2>8. Items = 1..Len(Selected) /\ Len(Selected) \in Nat
    BY <2>7 DEF Items
  <2>9. \A i \in Items : i \in 1..(last - first + 1) /\ first + i - 1 = config.offset + i
    BY <1>1, <2>4, <2>5, <2>7, <2>8 DEF first
  <2>10. \A i \in Items : first + i - 1 \in first..last
    BY <2>4, <2>5, <2>9
  <2> QED
    BY <1>1, <1>3, <2>6, <2>7, <2>8, <2>9, <2>10 DEF Total
<1> QED
  BY <1>2, <1>3

\* A row of the batch is typed.
LEMMA RowsTyped ==
    ASSUME TypeOK, NEW i \in Items
    PROVE  /\ \A status \in Statuses : Row(i, status) \in BatchRow
           /\ \A b \in BOOLEAN : FailedRow(i, b) \in BatchRow
           /\ \A decision \in Decisions \cup {"REJECT"} : SucceededRow(i, decision) \in BatchRow
<1>1. config.offset + i \in Nat
  BY SelectedIs
<1>2. Selected[i].paper_id \in {row.paper_id : row \in ManifestRows}
  BY SelectedIs DEF Items
<1> QED
  BY <1>1, <1>2 DEF Row, FailedRow, SucceededRow, BatchRow, Statuses

-----------------------------------------------------------------------------
(* Counting rows of a status.                                              *)

\* The first n rows of a status are finitely many.
LEMMA WithStatusFinite ==
    ASSUME NEW rows, NEW status, NEW n \in Nat
    PROVE  /\ IsFiniteSet(WithStatus(rows, status, n))
           /\ Counted(rows, status, n) \in Nat /\ Counted(rows, status, n) <= n
<1>1. IsFiniteSet(1..n) /\ Cardinality(1..n) = n
  <2>1. Cardinality(1..n) = IF 1 > n THEN 0 ELSE n - 1 + 1
    BY FS_Interval
  <2> QED
    BY <2>1, FS_Interval
<1>2. WithStatus(rows, status, n) \in SUBSET (1..n)
  BY DEF WithStatus
<1>3. /\ IsFiniteSet(WithStatus(rows, status, n))
      /\ Cardinality(WithStatus(rows, status, n)) <= n
  BY <1>1, <1>2, FS_Subset
<1> QED
  BY <1>3, FS_CardinalityType DEF Counted

\* One more row is counted or not.
LEMMA CountedNext ==
    ASSUME NEW rows, NEW status, NEW n \in Nat
    PROVE  Counted(rows, status, n + 1) =
              IF rows[n + 1].status = status THEN Counted(rows, status, n) + 1
                                             ELSE Counted(rows, status, n)
<1>1. IsFiniteSet(WithStatus(rows, status, n))
  BY WithStatusFinite
<1>2. n + 1 \notin WithStatus(rows, status, n)
  BY DEF WithStatus
<1>3. \A k \in Nat : k \in 1..(n + 1) <=> k \in 1..n \/ k = n + 1
  OBVIOUS
<1>4. CASE rows[n + 1].status = status
  <2>1. WithStatus(rows, status, n + 1) = WithStatus(rows, status, n) \cup {n + 1}
    BY <1>4 DEF WithStatus
  <2> QED
    BY <1>1, <1>2, <1>4, <2>1, FS_AddElement DEF Counted
<1>5. CASE rows[n + 1].status # status
  <2>1. WithStatus(rows, status, n + 1) = WithStatus(rows, status, n)
    BY <1>5 DEF WithStatus
  <2> QED
    BY <1>5, <2>1 DEF Counted
<1> QED
  BY <1>4, <1>5

\* Of no rows none is counted.
LEMMA CountedFirst ==
    ASSUME NEW rows, NEW status
    PROVE  Counted(rows, status, 0) = 0
<1>1. WithStatus(rows, status, 0) = {}
  BY DEF WithStatus
<1> QED
  BY <1>1, FS_EmptySet DEF Counted

\* The more rows, the more of a status.
LEMMA CountedGrows ==
    ASSUME NEW rows, NEW status, NEW n \in Nat, NEW k \in 0..n
    PROVE  Counted(rows, status, k) <= Counted(rows, status, n)
<1>1. WithStatus(rows, status, k) \in SUBSET WithStatus(rows, status, n)
  BY DEF WithStatus
<1>2. IsFiniteSet(WithStatus(rows, status, n))
  BY WithStatusFinite
<1> QED
  BY <1>1, <1>2, FS_Subset DEF Counted

\* A row of a status is counted as one more than those before it.
LEMMA CountedRow ==
    ASSUME NEW rows, NEW status, NEW n \in Nat, NEW k \in 1..n, rows[k].status = status
    PROVE  /\ Counted(rows, status, k) = Counted(rows, status, k - 1) + 1
           /\ Counted(rows, status, k) \in 1..Counted(rows, status, n)
<1> DEFINE m == k - 1
<1>1. m \in Nat /\ m + 1 = k /\ k \in Nat
  OBVIOUS
<1> HIDE DEF m
<1>2. Counted(rows, status, m + 1) = Counted(rows, status, m) + 1
  BY <1>1, CountedNext
<1>3. Counted(rows, status, m) \in Nat /\ Counted(rows, status, n) \in Nat
  BY <1>1, WithStatusFinite
<1>4. Counted(rows, status, k) <= Counted(rows, status, n)
  BY CountedGrows
<1> USE DEF m
<1>5. Counted(rows, status, k) = Counted(rows, status, k - 1) + 1
  BY <1>1, <1>2
<1> QED
  BY <1>1, <1>2, <1>3, <1>4, <1>5

\* None is counted exactly if there is none.
LEMMA NoneCounted ==
    ASSUME NEW rows, NEW status, NEW n \in Nat
    PROVE  Counted(rows, status, n) = 0 <=> \A k \in 1..n : rows[k].status # status
<1>1. (\A k \in 1..n : rows[k].status # status) => Counted(rows, status, n) = 0
  <2> SUFFICES ASSUME \A k \in 1..n : rows[k].status # status
               PROVE  Counted(rows, status, n) = 0
    OBVIOUS
  <2>1. WithStatus(rows, status, n) = {}
    BY DEF WithStatus
  <2> QED
    BY <2>1, FS_EmptySet DEF Counted
<1>2. ASSUME NEW k \in 1..n, rows[k].status = status
      PROVE  Counted(rows, status, n) # 0
  <2>1. Counted(rows, status, k) \in 1..Counted(rows, status, n)
    BY <1>2, CountedRow
  <2> QED
    BY <2>1
<1> QED
  BY <1>1, <1>2

\* Of rows that begin alike the same are counted.
LEMMA CountedAlike ==
    ASSUME NEW rows, NEW others, NEW status, NEW n \in Nat,
           \A k \in 1..n : rows[k] = others[k]
    PROVE  Counted(rows, status, n) = Counted(others, status, n)
<1>1. WithStatus(rows, status, n) = WithStatus(others, status, n)
  BY DEF WithStatus
<1> QED
  BY <1>1 DEF Counted

\* Every row has one of the three statuses.
LEMMA AllCounted ==
    ASSUME NEW rows \in Seq(BatchRow), NEW n \in 0..Len(rows)
    PROVE  n = Counted(rows, "planned", n) + Counted(rows, "succeeded", n)
               + Counted(rows, "failed", n)
<1> DEFINE sum(m) == Counted(rows, "planned", m) + Counted(rows, "succeeded", m)
                     + Counted(rows, "failed", m)
           good == {m \in Nat : m <= Len(rows) => sum(m) = m}
<1>0. Len(rows) \in Nat
  OBVIOUS
<1>1. 0 \in good
  <2>1. /\ Counted(rows, "planned", 0) = 0 /\ Counted(rows, "succeeded", 0) = 0
        /\ Counted(rows, "failed", 0) = 0
    BY CountedFirst
  <2> QED
    BY <2>1
<1>2. ASSUME NEW m \in good PROVE m + 1 \in good
  <2> SUFFICES ASSUME m + 1 <= Len(rows) PROVE sum(m + 1) = m + 1
    OBVIOUS
  <2>1. m \in Nat /\ sum(m) = m
    BY <1>0
  <2>2. rows[m + 1].status \in {"planned", "succeeded", "failed"}
    <3>1. rows[m + 1] \in BatchRow
      BY <1>0, <2>1
    <3> QED
      BY <3>1 DEF BatchRow
  <2>3. /\ Counted(rows, "planned", m) \in Nat /\ Counted(rows, "succeeded", m) \in Nat
        /\ Counted(rows, "failed", m) \in Nat
    BY <2>1, WithStatusFinite
  <2>4. \A status \in Statuses : Counted(rows, status, m + 1) =
           IF rows[m + 1].status = status THEN Counted(rows, status, m) + 1
                                          ELSE Counted(rows, status, m)
    BY <2>1, CountedNext
  <2>5. /\ Counted(rows, "planned", m + 1) =
              IF rows[m + 1].status = "planned" THEN Counted(rows, "planned", m) + 1
                                                ELSE Counted(rows, "planned", m)
        /\ Counted(rows, "succeeded", m + 1) =
              IF rows[m + 1].status = "succeeded" THEN Counted(rows, "succeeded", m) + 1
                                                  ELSE Counted(rows, "succeeded", m)
        /\ Counted(rows, "failed", m + 1) =
              IF rows[m + 1].status = "failed" THEN Counted(rows, "failed", m) + 1
                                               ELSE Counted(rows, "failed", m)
    BY <2>4 DEF Statuses
  <2> QED
    BY <2>1, <2>2, <2>3, <2>5, SMTT(30)
<1>3. good = Nat
  <2>1. good \in SUBSET Nat
    OBVIOUS
  <2> HIDE DEF good
  <2> QED
    BY <1>1, <1>2, <2>1, SetInduction
<1>4. n \in good /\ n <= Len(rows)
  <2>1. n \in Nat /\ n <= Len(rows)
    BY <1>0
  <2> HIDE DEF good
  <2> QED
    BY <1>3, <2>1
<1> QED
  BY <1>4
-----------------------------------------------------------------------------
(* The parsers.                                                            *)

ParsePc == {"idle", "post", "put", "poll", "zip", "pymupdf", "read"} \cup Ends
ParsedBy == {"none", "mineru", "pymupdf", "text_docx"}
ParseErrors == SUBSET {"mineru", "pymupdf", "text_docx"}
Parse == [pc : ParsePc, polls : 0..MaxPolls, by : ParsedBy, errors : ParseErrors]

\* What ParsersInOrder says of one paper.
InOrder(r) == ShouldTryMinerU /\ (r.pc = "pymupdf" \/ r.by = "pymupdf") =>
                  "mineru" \in r.errors

\* A step of one paper's parsing, which was not over.
Advances(p) ==
    \E r \in Parse :
        /\ parse' = [parse EXCEPT ![p] = r]
        /\ parse[p].pc # "parsed"
        /\ InOrder(parse[p]) => InOrder(r)

LEMMA ParseIsTyped ==
    ASSUME TypeOK, NEW p \in Papers
    PROVE  /\ parse \in [Papers -> Parse] /\ parse[p] \in Parse
           /\ parse[p].pc \in ParsePc /\ parse[p].polls \in 0..MaxPolls
           /\ parse[p].by \in ParsedBy /\ parse[p].errors \in ParseErrors
<1>1. parse \in [Papers -> Parse]
  BY DEF TypeOK, ParserTypeOK, Parse, ParsePc, ParsedBy, ParseErrors
<1>2. parse[p] \in Parse
  BY <1>1
<1> QED
  BY <1>1, <1>2 DEF Parse

LEMMA GoOnAdvances ==
    ASSUME TypeOK, NEW p \in Papers, NEW pc \in ParsePc, GoOn(p, pc), parse[p].pc # "parsed",
           pc = "pymupdf" => ~ShouldTryMinerU
    PROVE  Advances(p)
<1> DEFINE r == [parse[p] EXCEPT !.pc = pc]
<1>1. parse[p] \in Parse
  BY ParseIsTyped
<1>2. r \in Parse /\ r.pc = pc /\ r.by = parse[p].by /\ r.errors = parse[p].errors
  BY <1>1 DEF Parse
<1>3. parse' = [parse EXCEPT ![p] = r]
  BY DEF GoOn
<1> HIDE DEF r
<1>4. InOrder(parse[p]) => InOrder(r)
  BY <1>2 DEF InOrder
<1> QED
  BY <1>2, <1>3, <1>4 DEF Advances

LEMMA BuiltAdvances ==
    ASSUME TypeOK, NEW p \in Papers, NEW by \in ParsedBy, Built(p, by), parse[p].pc # "parsed",
           by = "pymupdf" => parse[p].pc = "pymupdf"
    PROVE  Advances(p)
<1> DEFINE r == [parse[p] EXCEPT !.pc = "parsed", !.by = by]
<1>1. parse[p] \in Parse /\ "parsed" \in ParsePc
  BY ParseIsTyped DEF ParsePc, Ends
<1>2. r \in Parse /\ r.pc = "parsed" /\ r.by = by /\ r.errors = parse[p].errors
  BY <1>1 DEF Parse
<1>3. parse' = [parse EXCEPT ![p] = r]
  BY ParseIsTyped DEF Built
<1> HIDE DEF r
<1>4. InOrder(parse[p]) => InOrder(r)
  BY <1>2 DEF InOrder
<1> QED
  BY <1>2, <1>3, <1>4 DEF Advances

LEMMA FallsAdvances ==
    ASSUME TypeOK, NEW p \in Papers, NEW parser \in {"mineru", "pymupdf", "text_docx"},
           Falls(p, parser), parse[p].pc # "parsed"
    PROVE  Advances(p)
<1> DEFINE pc == IF parser = "mineru" /\ ShouldTryPyMuPDF THEN "pymupdf" ELSE "error"
           errors == parse[p].errors \cup {parser}
           r == [parse[p] EXCEPT !.errors = errors, !.pc = pc]
<1>1. parse[p] \in Parse /\ pc \in ParsePc
  BY ParseIsTyped DEF ParsePc, Ends
<1>2. errors \in ParseErrors
  BY ParseIsTyped DEF ParseErrors
<1>3. pc = "pymupdf" => "mineru" \in errors
  OBVIOUS
<1>4. parse[p].errors \subseteq errors
  OBVIOUS
<1>5. parse' = [parse EXCEPT ![p] = r]
  BY ParseIsTyped DEF Falls
<1> HIDE DEF pc, errors
<1>6. r \in Parse /\ r.pc = pc /\ r.by = parse[p].by /\ r.errors = errors
  BY <1>1, <1>2 DEF Parse
<1> HIDE DEF r
<1>7. InOrder(parse[p]) => InOrder(r)
  BY <1>3, <1>4, <1>6 DEF InOrder
<1> QED
  BY <1>5, <1>6, <1>7 DEF Advances

\* Every step of a parser advances its paper.
LEMMA ParserAdvances ==
    ASSUME TypeOK, NEW p \in Papers, StartParse(p) \/ ParseStep(p)
    PROVE  Advances(p) /\ task' \in [Papers -> {"none", "running", "done", "failed"}]
           /\ UNCHANGED <<backend, is_configured>>
<1> USE DEF ParsePc, Ends, ParsedBy
<1>1. task \in [Papers -> {"none", "running", "done", "failed"}]
  BY DEF TypeOK, ParserTypeOK
<1>2. CASE StartParse(p)
  <2> DEFINE pc == CASE Format[p] = "text" -> "read"
                     [] Format[p] = "pdf" /\ ShouldTryMinerU -> "post"
                     [] Format[p] = "pdf" /\ ~ShouldTryMinerU /\ ShouldTryPyMuPDF -> "pymupdf"
                     [] OTHER -> "error"
  <2>1. pc \in ParsePc /\ (pc = "pymupdf" => ~ShouldTryMinerU)
    OBVIOUS
  <2>2. GoOn(p, pc) /\ parse[p].pc = "idle" /\ UNCHANGED <<backend, is_configured, task>>
    BY <1>2 DEF StartParse
  <2> HIDE DEF pc
  <2>3. Advances(p)
    BY <2>1, <2>2, GoOnAdvances
  <2> QED
    BY <1>1, <2>2, <2>3
<1>3. CASE Upload(p)
  <2>1. Advances(p)
    BY <1>3, GoOnAdvances DEF Upload
  <2> QED
    BY <1>1, <1>3, <2>1 DEF Upload
<1>4. CASE Poll(p)
  <2>1. parse[p].pc = "poll" /\ UNCHANGED <<backend, is_configured, task>>
    BY <1>4 DEF Poll
  <2>2. CASE Falls(p, "mineru")
    BY <1>1, <2>1, <2>2, FallsAdvances
  <2>3. CASE GoOn(p, "zip")
    BY <1>1, <2>1, <2>3, GoOnAdvances
  <2>4. CASE parse[p].polls < MaxPolls /\ parse' = [parse EXCEPT ![p].polls = @ + 1]
    <3> DEFINE polls == parse[p].polls + 1
               r == [parse[p] EXCEPT !.polls = polls]
    <3>1. parse[p] \in Parse
      BY ParseIsTyped
    <3>2. polls \in 0..MaxPolls
      BY <2>4, ParseIsTyped, DocumentParserAssumption
    <3>3. parse' = [parse EXCEPT ![p] = r]
      BY <2>4
    <3> HIDE DEF polls
    <3>4. r \in Parse /\ r.pc = "poll" /\ r.by = parse[p].by /\ r.errors = parse[p].errors
      BY <2>1, <3>1, <3>2 DEF Parse
    <3> HIDE DEF r
    <3>5. InOrder(parse[p]) => InOrder(r)
      BY <2>1, <3>4 DEF InOrder
    <3>6. Advances(p)
      BY <2>1, <3>3, <3>4, <3>5 DEF Advances
    <3> QED
      BY <1>1, <2>1, <3>6
  <2> QED
    BY <1>4, <2>2, <2>3, <2>4 DEF Poll
<1>5. CASE Unzip(p)
  BY <1>1, <1>5, BuiltAdvances DEF Unzip
<1>6. CASE PyMuPDF(p)
  <2>1. Advances(p)
    BY <1>6, BuiltAdvances, FallsAdvances DEF PyMuPDF
  <2> QED
    BY <1>1, <1>6, <2>1 DEF PyMuPDF
<1>7. CASE ReadText(p)
  <2>1. parse[p].pc = "read" /\ UNCHANGED <<backend, is_configured, task>>
    BY <1>7 DEF ReadText
  <2>2. Advances(p)
    BY <1>7, <2>1, BuiltAdvances, FallsAdvances, GoOnAdvances DEF ReadText
  <2> QED
    BY <1>1, <2>1, <2>2
<1>8. CASE MinerUFails(p)
  BY <1>1, <1>8, FallsAdvances DEF MinerUFails
<1>9. CASE MinerURaises(p)
  <2>1. Advances(p)
    BY <1>9, GoOnAdvances DEF MinerURaises
  <2> QED
    BY <1>1, <1>9, <2>1 DEF MinerURaises
<1> QED
  BY <1>2, <1>3, <1>4, <1>5, <1>6, <1>7, <1>8, <1>9 DEF ParseStep, ParseGoesOn

\* A step of a parser keeps the types and the order of the parsers, and a paper that
\* was read stays read.
LEMMA ParserKeeps ==
    ASSUME TypeOK, ParsersInOrder, NEW p \in Papers, StartParse(p) \/ ParseStep(p)
    PROVE  /\ ParserTypeOK' /\ ParsersInOrder'
           /\ \A q \in Papers : parse[q].pc = "parsed" => parse'[q].pc = "parsed"
<1>1. PICK r \in Parse : /\ parse' = [parse EXCEPT ![p] = r]
                         /\ parse[p].pc # "parsed" /\ (InOrder(parse[p]) => InOrder(r))
  BY ParserAdvances DEF Advances
<1>2. /\ task' \in [Papers -> {"none", "running", "done", "failed"}]
      /\ UNCHANGED <<backend, is_configured>>
  BY ParserAdvances
<1>3. parse \in [Papers -> Parse]
  BY ParseIsTyped
<1>4. parse' \in [Papers -> Parse]
  BY <1>1, <1>3
<1>5. ParserTypeOK'
  BY <1>2, <1>4 DEF TypeOK, ParserTypeOK, Parse, ParsePc, ParsedBy, ParseErrors
<1>6. \A q \in Papers : parse'[q] = IF q = p THEN r ELSE parse[q]
  BY <1>1, <1>3
<1>7. ShouldTryMinerU' = ShouldTryMinerU
  BY <1>2 DEF ShouldTryMinerU
<1>8. ParsersInOrder'
  <2> SUFFICES ASSUME NEW q \in Papers, ShouldTryMinerU',
                      parse'[q].pc = "pymupdf" \/ parse'[q].by = "pymupdf"
               PROVE  "mineru" \in parse'[q].errors
    BY DEF ParsersInOrder
  <2>1. InOrder(parse[q])
    BY DEF ParsersInOrder, InOrder
  <2>2. InOrder(parse'[q])
    BY <1>1, <1>6, <2>1
  <2> QED
    BY <1>7, <2>2 DEF InOrder
<1> QED
  BY <1>1, <1>5, <1>6, <1>8
-----------------------------------------------------------------------------
(* What no step changes: the arguments, the manifest and what follows.     *)

SameCommand == UNCHANGED <<config, manifest>>

LEMMA SelectionStays ==
    ASSUME SameCommand
    PROVE  /\ Selected' = Selected /\ Items' = Items /\ Total' = Total
           /\ config' = config /\ manifest' = manifest /\ BadArguments' = BadArguments
<1>1. Selected' = Selected
  BY DEF SameCommand, Selected
<1>2. Items' = Items
  BY <1>1 DEF Items
<1> QED
  BY <1>1, <1>2 DEF SameCommand, Total, BadArguments

\* The papers of a batch that was not refused are files.
LEMMA PapersAreGiven ==
    ASSUME TypeOK, ~BadArguments, NEW i \in Items
    PROVE  Paper(i) \in Papers
<1>1. Selected[i] \in ManifestRows
  BY SelectedIs DEF Items
<1> QED
  BY <1>1, BatchReviewAssumption DEF Paper, BadArguments

\* The main thread, the directory and the counters are left alone.
OnlyThreads == SameCommand /\ UNCHANGED <<main, counts, dir, crashes>>

\* What the main thread has written does not change by itself.
LEMMA ThreadsLeaveTheRows ==
    ASSUME IInv, OnlyThreads
    PROVE  /\ Accounts' /\ NothingRecordedTwice' /\ FailuresFollowRows' /\ Stops' /\ Written'
           /\ Live' = Live
<1>1. /\ Total' = Total /\ config' = config
      /\ main' = main /\ counts' = counts /\ dir' = dir
  BY SelectionStays DEF OnlyThreads
<1>2. Live' = Live /\ RowsCounted' = RowsCounted
  BY <1>1 DEF Live, RowsCounted
<1>3. Accounts'
  BY <1>1, <1>2 DEF IInv, Accounts
<1>4. NothingRecordedTwice'
  BY <1>1 DEF IInv, NothingRecordedTwice
<1>5. FailuresFollowRows'
  BY <1>1 DEF IInv, FailuresFollowRows
<1>6. Stops'
  BY <1>1, <1>2 DEF IInv, Stops
<1>7. \A total, completed, failed :
         BatchStatus(total, completed, failed)' = BatchStatus(total, completed, failed)
  BY <1>1 DEF BatchStatus
<1>8. Written'
  BY <1>1, <1>7 DEF IInv, Written
<1> QED
  BY <1>2, <1>3, <1>4, <1>5, <1>6, <1>8

-----------------------------------------------------------------------------
(* The steps of the threads.                                               *)

ItemPc == {"none", "queued", "running", "finished", "recorded"}
Call == [pc : ItemPc, row : BatchRow \cup {None}]

\* A call of run_one_item goes on: it is taken, or it is over.
ItemGoesOn(i) ==
    \E c \in Call :
        /\ item' = [item EXCEPT ![i] = c]
        /\ item[i].pc \in {"none", "queued", "running"} /\ c.pc \in {"running", "finished"}
        /\ item[i].pc = "none" =>
              main.pc = "loop" /\ ~config.dry_run /\ i = main.position
        /\ item[i].pc \in {"queued", "running"} => main.pc \notin {"start", "refused", "request"}
        /\ c.pc = "finished" =>
              /\ c.row \in BatchRow
              /\ c.row.index = config.offset + i /\ c.row.paper_id = Selected[i].paper_id
              /\ c.row.status \in {"succeeded", "failed"}
              /\ c.row.status = "succeeded" /\ c.row.final_decision \in AcceptLike =>
                    parse[Paper(i)].pc = "parsed"

LEMMA ItemKeeps ==
    ASSUME TypeOK, IInv, NEW i \in Items, ItemGoesOn(i), OnlyThreads, UNCHANGED parserVars
    PROVE  TypeOK' /\ IInv'
<1>1. PICK c \in Call :
        /\ item' = [item EXCEPT ![i] = c]
        /\ item[i].pc \in {"none", "queued", "running"} /\ c.pc \in {"running", "finished"}
        /\ item[i].pc = "none" => main.pc = "loop" /\ ~config.dry_run /\ i = main.position
        /\ item[i].pc \in {"queued", "running"} => main.pc \notin {"start", "refused", "request"}
        /\ c.pc = "finished" =>
              /\ c.row \in BatchRow
              /\ c.row.index = config.offset + i /\ c.row.paper_id = Selected[i].paper_id
              /\ c.row.status \in {"succeeded", "failed"}
              /\ c.row.status = "succeeded" /\ c.row.final_decision \in AcceptLike =>
                    parse[Paper(i)].pc = "parsed"
  BY DEF ItemGoesOn
<1>2. /\ Total' = Total /\ Items' = Items /\ Selected' = Selected /\ BadArguments' = BadArguments
      /\ config' = config /\ manifest' = manifest
      /\ main' = main /\ counts' = counts /\ dir' = dir /\ crashes' = crashes
      /\ backend' = backend /\ is_configured' = is_configured /\ parse' = parse
      /\ task' = task
  BY SelectionStays DEF OnlyThreads, parserVars
<1>3. item \in [Items -> Call]
  BY DEF TypeOK, Call, ItemPc
<1>4. item' \in [Items -> Call] /\ \A j \in Items : item'[j] = IF j = i THEN c ELSE item[j]
  BY <1>1, <1>3
<1>5. TypeOK'
  BY <1>2, <1>4 DEF TypeOK, ParserTypeOK, Call, ItemPc
<1>6. StartsEmpty'
  BY <1>1, <1>2, <1>4 DEF IInv, StartsEmpty
<1>7. ItemReturns'
  <2> SUFFICES ASSUME NEW j \in Items, item'[j].pc \in {"finished", "recorded"}
               PROVE  LET row == item'[j].row IN
                      /\ row \in BatchRow
                      /\ row.index = config.offset + j /\ row.paper_id = Selected[j].paper_id
                      /\ row.status \in {"succeeded", "failed"}
                      /\ row.status = "succeeded" /\ row.final_decision \in AcceptLike =>
                            parse[Paper(j)].pc = "parsed"
    BY <1>2 DEF ItemReturns, Paper
  <2>1. CASE j = i
    BY <1>1, <1>4, <2>1
  <2>2. CASE j # i
    BY <1>4, <2>2 DEF IInv, ItemReturns
  <2> QED
    BY <2>1, <2>2
<1>8. \A j \in Items :
         /\ item'[j].pc = "recorded" <=> item[j].pc = "recorded"
         /\ item'[j].pc = "recorded" => item'[j] = item[j]
  BY <1>1, <1>4
<1>9. Live' = Live
  BY ThreadsLeaveTheRows
<1>10. RowsAreItems'
  <2>1. \A k, status : Row(k, status)' = Row(k, status)
    BY <1>2 DEF Row
  <2>2. RowsAreItems
    BY DEF IInv
  <2>3. \A j \in Items : item'[j].pc = "recorded" => item'[j].row = item[j].row
    BY <1>8
  <2>4. ASSUME Live, ~config.dry_run
        PROVE  /\ \A k \in DOMAIN dir.rows : \E j \in Items :
                     item'[j].pc = "recorded" /\ dir.rows[k] = item'[j].row
               /\ \A j \in Items : item'[j].pc = "recorded" =>
                     \E k \in DOMAIN dir.rows : dir.rows[k] = item'[j].row
    <3>1. /\ \A k \in DOMAIN dir.rows : \E j \in Items :
                 item[j].pc = "recorded" /\ dir.rows[k] = item[j].row
          /\ \A j \in Items : item[j].pc = "recorded" =>
                 \E k \in DOMAIN dir.rows : dir.rows[k] = item[j].row
      BY <2>2, <2>4 DEF RowsAreItems
    <3> QED
      BY <1>8, <2>3, <3>1
  <2> QED
    BY <1>2, <1>9, <2>1, <2>2, <2>4 DEF RowsAreItems
<1>11. InSequence'
  <2> SUFFICES ASSUME Live, ~config.dry_run, config.concurrency = 1, NEW j \in Items
               PROVE  /\ j < main.position => item'[j].pc = "recorded"
                      /\ j > main.position => item'[j].pc = "none"
    BY <1>2, <1>9 DEF IInv, InSequence
  <2>1. /\ j < main.position => item[j].pc = "recorded"
        /\ j > main.position => item[j].pc = "none"
    BY DEF IInv, InSequence
  <2>2. j = i => ~(j < main.position) /\ ~(j > main.position)
    <3>1. j \in Int /\ main.position \in Int
      BY SelectedIs DEF TypeOK
    <3> QED
      BY <1>1, <2>1, <3>1
  <2> QED
    BY <1>4, <2>1, <2>2
<1>12. ParsersInOrder'
  BY <1>2 DEF IInv, ParsersInOrder, ShouldTryMinerU
<1> QED
  BY <1>5, <1>6, <1>7, <1>10, <1>11, <1>12, ThreadsLeaveTheRows DEF IInv

LEMMA TakeKeeps ==
    ASSUME TypeOK, IInv, NEW i \in Items, Take(i)
    PROVE  TypeOK' /\ IInv'
<1> DEFINE c == [item[i] EXCEPT !.pc = "running"]
<1>1. item \in [Items -> Call]
  BY DEF TypeOK, Call, ItemPc
<1>2. c \in Call /\ c.pc = "running"
  BY <1>1 DEF Call, ItemPc
<1>3. item' = [item EXCEPT ![i] = c]
  BY DEF Take
<1>4. /\ main.pc = "loop" /\ item[i].pc \in {"none", "queued"}
      /\ item[i].pc = "none" => ~config.dry_run /\ i = main.position
  BY DEF Take
<1>5. OnlyThreads /\ UNCHANGED parserVars
  BY DEF Take, OnlyThreads, SameCommand, parserVars
<1> HIDE DEF c
<1>6. ItemGoesOn(i)
  BY <1>2, <1>3, <1>4 DEF ItemGoesOn
<1> QED
  BY <1>5, <1>6, ItemKeeps

\* A thread that runs an item was started by a batch that was not refused.
LEMMA RunningIsLive ==
    ASSUME TypeOK, IInv, NEW i \in Items, item[i].pc = "running"
    PROVE  main.pc \notin {"start", "refused", "request"} /\ Paper(i) \in Papers
<1>1. main.pc \notin {"start", "refused", "request"}
  BY DEF IInv, StartsEmpty
<1>2. ~BadArguments
  BY <1>1 DEF IInv, StartsEmpty
<1> QED
  BY <1>1, <1>2, PapersAreGiven

LEMMA FinishedKeeps ==
    ASSUME TypeOK, IInv, NEW i \in Items, item[i].pc = "running", NEW row, Finished(i, row),
           \/ \E b \in BOOLEAN : row = FailedRow(i, b)
           \/ /\ parse[Paper(i)].pc \in Ends \ {"raised"}
              /\ \E decision \in DecisionOf(i) : row = SucceededRow(i, decision),
           OnlyThreads, UNCHANGED parserVars
    PROVE  TypeOK' /\ IInv'
<1> DEFINE c == [pc |-> "finished", row |-> row]
<1>1. main.pc \notin {"start", "refused", "request"} /\ Paper(i) \in Papers
  BY RunningIsLive
<1>2. row \in BatchRow
  BY RowsTyped DEF DecisionOf
<1>3. /\ row.index = config.offset + i /\ row.paper_id = Selected[i].paper_id
      /\ row.status \in {"succeeded", "failed"}
  BY DEF FailedRow, SucceededRow, Row
<1>4. row.status = "succeeded" /\ row.final_decision \in AcceptLike =>
          parse[Paper(i)].pc = "parsed"
  <2> SUFFICES ASSUME row.status = "succeeded", row.final_decision \in AcceptLike
               PROVE  parse[Paper(i)].pc = "parsed"
    OBVIOUS
  <2>1. \A b \in BOOLEAN : row # FailedRow(i, b)
    BY DEF FailedRow, Row
  <2>2. PICK decision \in DecisionOf(i) : row = SucceededRow(i, decision)
    BY <2>1
  <2>3. decision \in AcceptLike
    BY <2>2 DEF SucceededRow, Row
  <2>4. ~ParseError(Paper(i))
    BY <2>3 DEF DecisionOf, AcceptLike
  <2> QED
    BY <2>1, <2>4 DEF ParseError, Ends
<1>5. c \in Call /\ c.pc = "finished" /\ c.row = row
  BY <1>2 DEF Call, ItemPc
<1>6. item' = [item EXCEPT ![i] = c]
  BY DEF Finished
<1> HIDE DEF c
<1>7. ItemGoesOn(i)
  BY <1>1, <1>2, <1>3, <1>4, <1>5, <1>6 DEF ItemGoesOn
<1> QED
  BY <1>7, ItemKeeps

LEMMA ParsingKeeps ==
    ASSUME TypeOK, IInv, NEW p \in Papers,
           \/ StartParse(p) \/ ParseStep(p)
           \/ ServiceEnds(p),
           OnlyThreads, UNCHANGED item
    PROVE  TypeOK' /\ IInv'
<1>1. /\ ParserTypeOK' /\ ParsersInOrder'
      /\ \A q \in Papers : parse[q].pc = "parsed" => parse'[q].pc = "parsed"
  <2>1. CASE StartParse(p) \/ ParseStep(p)
    BY <2>1, ParserKeeps DEF IInv
  <2>2. CASE ServiceEnds(p)
    <3>1. UNCHANGED <<backend, is_configured, parse>>
      BY <2>2 DEF ServiceEnds
    <3>2. ParserTypeOK'
      BY <2>2, <3>1 DEF ServiceEnds, TypeOK, ParserTypeOK
    <3> QED
      BY <3>1, <3>2 DEF IInv, ParsersInOrder, ShouldTryMinerU
  <2> QED
    BY <2>1, <2>2
<1>2. /\ Total' = Total /\ Items' = Items /\ Selected' = Selected /\ BadArguments' = BadArguments
      /\ config' = config /\ manifest' = manifest /\ item' = item
      /\ main' = main /\ counts' = counts /\ dir' = dir /\ crashes' = crashes
  BY SelectionStays DEF OnlyThreads
<1>3. TypeOK'
  BY <1>1, <1>2 DEF TypeOK
<1>4. StartsEmpty'
  BY <1>2 DEF IInv, StartsEmpty
<1>5. ItemReturns'
  <2> SUFFICES ASSUME NEW i \in Items, item[i].pc \in {"finished", "recorded"}
               PROVE  LET row == item[i].row IN
                      /\ row \in BatchRow
                      /\ row.index = config.offset + i /\ row.paper_id = Selected[i].paper_id
                      /\ row.status \in {"succeeded", "failed"}
                      /\ row.status = "succeeded" /\ row.final_decision \in AcceptLike =>
                            parse'[Paper(i)].pc = "parsed"
    BY <1>2 DEF ItemReturns, Paper
  <2>1. Paper(i) \in Papers
    <3>1. ~BadArguments
      BY DEF IInv, StartsEmpty
    <3> QED
      BY <3>1, PapersAreGiven
  <2>2. parse[Paper(i)].pc = "parsed" => parse'[Paper(i)].pc = "parsed"
    BY <1>1, <2>1
  <2> QED
    BY <2>2 DEF IInv, ItemReturns
<1>6. Live' = Live
  BY ThreadsLeaveTheRows
<1>7. RowsAreItems'
  <2>1. \A k, status : Row(k, status)' = Row(k, status)
    BY <1>2 DEF Row
  <2> QED
    BY <1>2, <1>6, <2>1 DEF IInv, RowsAreItems
<1>8. InSequence'
  BY <1>2, <1>6 DEF IInv, InSequence
<1> QED
  BY <1>1, <1>3, <1>4, <1>5, <1>7, <1>8, ThreadsLeaveTheRows DEF IInv

\* What a thread does with its item.
LEMMA WorkerKeeps ==
    ASSUME TypeOK, IInv, NEW i \in Items, WorkerStep(i)
    PROVE  TypeOK' /\ IInv'
<1>1. item[i].pc = "running" /\ OnlyThreads
  BY DEF WorkerStep, Submit, Review, ParseItem, OnlyThreads, SameCommand, batchVars
<1>2. Paper(i) \in Papers
  BY <1>1, RunningIsLive
<1>3. CASE Submit(i)
  <2>1. CASE StartParse(Paper(i)) /\ UNCHANGED item
    BY <1>1, <1>2, <2>1, ParsingKeeps
  <2>2. CASE Finished(i, FailedRow(i, FALSE)) /\ UNCHANGED parserVars
    BY <1>1, <2>2, FinishedKeeps
  <2> QED
    BY <1>3, <2>1, <2>2 DEF Submit
<1>4. CASE Review(i)
  <2>1. UNCHANGED parserVars /\ parse[Paper(i)].pc \in Ends
    BY <1>4 DEF Review, parserVars, ParseEnded
  <2>2. ASSUME NEW b \in BOOLEAN, Finished(i, FailedRow(i, b)) PROVE TypeOK' /\ IInv'
    BY <1>1, <2>1, <2>2, FinishedKeeps
  <2>3. ASSUME parse[Paper(i)].pc # "raised", NEW decision \in DecisionOf(i),
               Finished(i, SucceededRow(i, decision))
        PROVE  TypeOK' /\ IInv'
    BY <1>1, <2>1, <2>3, FinishedKeeps
  <2> QED
    BY <1>4, <2>2, <2>3 DEF Review
<1>5. CASE ParseItem(i)
  <2>1. ParseStep(Paper(i)) /\ UNCHANGED item
    BY <1>5 DEF ParseItem, batchVars
  <2> QED
    BY <1>1, <1>2, <2>1, ParsingKeeps
<1> QED
  BY <1>3, <1>4, <1>5 DEF WorkerStep

LEMMA ServiceKeeps ==
    ASSUME TypeOK, IInv, Service
    PROVE  TypeOK' /\ IInv'
<1>1. PICK p \in Papers : ServiceEnds(p) /\ UNCHANGED batchVars
  BY DEF Service
<1>2. OnlyThreads /\ UNCHANGED item
  BY <1>1 DEF OnlyThreads, SameCommand, batchVars
<1> QED
  BY <1>1, <1>2, ParsingKeeps
-----------------------------------------------------------------------------
(* The steps of the main thread that record nothing.                       *)

\* The threads and the parsers are left alone.
OnlyMain == SameCommand /\ UNCHANGED <<crashes, parserVars>>

LEMMA MainLeavesTheParsers ==
    ASSUME TypeOK, IInv, OnlyMain
    PROVE  /\ ParserTypeOK' /\ ParsersInOrder'
           /\ Total' = Total /\ Items' = Items /\ Selected' = Selected
           /\ config' = config /\ manifest' = manifest /\ BadArguments' = BadArguments
           /\ \A k, status : Row(k, status)' = Row(k, status)
           /\ parse' = parse /\ crashes' = crashes
<1>1. /\ backend' = backend /\ is_configured' = is_configured /\ parse' = parse /\ task' = task
      /\ crashes' = crashes
  BY DEF OnlyMain, parserVars
<1>2. /\ Total' = Total /\ Items' = Items /\ Selected' = Selected
      /\ config' = config /\ manifest' = manifest /\ BadArguments' = BadArguments
  BY SelectionStays DEF OnlyMain
<1>3. ParserTypeOK'
  BY <1>1 DEF TypeOK, ParserTypeOK
<1>4. ParsersInOrder'
  BY <1>1 DEF IInv, ParsersInOrder, ShouldTryMinerU
<1>5. \A k, status : Row(k, status)' = Row(k, status)
  BY <1>2 DEF Row
<1> QED
  BY <1>1, <1>2, <1>3, <1>4, <1>5

\* While the items are not touched, neither is what the threads returned.
LEMMA ItemsStay ==
    ASSUME TypeOK, IInv, OnlyMain, item' = item
    PROVE  /\ ItemReturns' /\ item' \in [Items' -> Call]
           /\ Live' /\ Live /\ dir'.rows = dir.rows /\ main'.position = main.position =>
                 RowsAreItems' /\ InSequence'
           /\ dir'.rows = dir.rows => NothingRecordedTwice'
<1>1. /\ Items' = Items /\ Selected' = Selected /\ config' = config /\ Total' = Total
      /\ parse' = parse
      /\ \A k, status : Row(k, status)' = Row(k, status)
  BY MainLeavesTheParsers
<1>2. item' \in [Items' -> Call]
  BY <1>1 DEF TypeOK, Call, ItemPc
<1>3. ItemReturns'
  <2>1. \A i : Paper(i)' = Paper(i)
    BY <1>1 DEF Paper
  <2> QED
    BY <1>1, <2>1 DEF IInv, ItemReturns
<1>4. ASSUME Live', Live, dir'.rows = dir.rows, main'.position = main.position
      PROVE  RowsAreItems' /\ InSequence'
  BY <1>1, <1>4 DEF IInv, RowsAreItems, InSequence
<1>5. dir'.rows = dir.rows => NothingRecordedTwice'
  BY DEF IInv, NothingRecordedTwice
<1> QED
  BY <1>2, <1>3, <1>4, <1>5

\* What a directory holds is typed.
Dir(d) == /\ DOMAIN d = {"exists", "request", "rows", "failures", "decisions", "summary"}
          /\ d.exists \in BOOLEAN /\ d.request \in BOOLEAN
          /\ d.rows \in Seq(BatchRow) /\ d.failures \in Seq(BatchRow)

MainPc == {"start", "refused", "request", "loop", "record", "decisions", "summary", "ended"}
Main == [pc : MainPc, position : Nat \ {0}, row : BatchRow \cup {None}]

LEMMA StartKeeps ==
    ASSUME TypeOK, IInv, Start
    PROVE  TypeOK' /\ IInv'
<1>1. OnlyMain /\ item' = item /\ counts' = counts /\ main.pc = "start"
  BY DEF Start, OnlyMain, SameCommand
<1>2. main \in Main
  BY DEF TypeOK, Main, MainPc
<1>3. PICK pc \in {"refused", "request"} :
        /\ main' = [main EXCEPT !.pc = pc]
        /\ pc = "refused" => dir' = dir
        /\ pc = "request" => /\ ~BadArguments /\ ~(dir.exists /\ dir.request)
                             /\ dir' = [dir EXCEPT !.exists = TRUE]
  BY DEF Start, To, Occupied
<1>4. /\ main' \in Main /\ main'.pc = pc /\ main'.position = main.position
  BY <1>2, <1>3 DEF Main, MainPc
<1>5. Dir(dir)
  BY DEF TypeOK, Dir
<1>6. /\ Dir(dir') /\ dir'.request = dir.request /\ dir'.rows = dir.rows
      /\ dir'.failures = dir.failures /\ dir'.summary = dir.summary
      /\ dir'.exists = IF pc = "request" THEN TRUE ELSE dir.exists
  <2>1. CASE pc = "refused"
    BY <1>3, <1>5, <2>1
  <2>2. CASE pc = "request"
    BY <1>3, <1>5, <2>2 DEF Dir
  <2> QED
    BY <2>1, <2>2
<1>7. TypeOK'
  BY <1>1, <1>4, <1>6, MainLeavesTheParsers DEF TypeOK, Main, MainPc, Dir
<1>8. StartsEmpty'
  <2>1. dir.request => dir.exists
    BY DEF IInv, StartsEmpty
  <2>2. pc = "request" => ~dir.request
    BY <1>3, <2>1
  <2> QED
    BY <1>1, <1>3, <1>4, <1>6, <2>2, MainLeavesTheParsers DEF IInv, StartsEmpty
<1>9. ~Live'
  BY <1>4 DEF Live
<1>10. RowsAreItems' /\ InSequence' /\ Accounts'
  BY <1>9 DEF RowsAreItems, InSequence, Accounts
<1>11. Stops' /\ Written'
  BY <1>4, <1>9 DEF Stops, Written
<1>12. FailuresFollowRows'
  BY <1>6 DEF IInv, FailuresFollowRows
<1> QED
  BY <1>1, <1>6, <1>7, <1>8, <1>10, <1>11, <1>12, ItemsStay, MainLeavesTheParsers DEF IInv

LEMMA WriteRequestKeeps ==
    ASSUME TypeOK, IInv, WriteRequest
    PROVE  TypeOK' /\ IInv'
<1> DEFINE pc == IF config.dry_run \/ config.concurrency = 1 THEN "none" ELSE "queued"
           c == [pc |-> pc, row |-> None]
<1>1. OnlyMain /\ counts' = counts /\ main.pc = "request"
  BY DEF WriteRequest, OnlyMain, SameCommand
<1>2. main \in Main /\ main' = [main EXCEPT !.pc = "loop"]
  BY DEF TypeOK, Main, MainPc, WriteRequest, To
<1>3. /\ main' \in Main /\ main'.pc = "loop" /\ main'.position = main.position
  BY <1>2 DEF Main, MainPc
<1>4. Dir(dir) /\ dir' = [dir EXCEPT !.request = TRUE]
  BY DEF TypeOK, Dir, WriteRequest
<1>5. /\ Dir(dir') /\ dir'.request = TRUE /\ dir'.rows = dir.rows
      /\ dir'.failures = dir.failures /\ dir'.summary = dir.summary
      /\ dir'.exists = dir.exists
  BY <1>4 DEF Dir
<1>6. item' = [i \in Items |-> c]
  BY DEF WriteRequest
<1>7. c \in Call /\ c.pc = pc /\ pc \in {"none", "queued"}
  BY DEF Call, ItemPc
<1>8. config.concurrency = 1 => pc = "none"
  OBVIOUS
<1> HIDE DEF pc, c
<1>9. item' \in [Items -> Call] /\ \A i \in Items : item'[i].pc = pc
  BY <1>6, <1>7
<1>10. TypeOK'
  BY <1>1, <1>3, <1>5, <1>9, MainLeavesTheParsers
     DEF TypeOK, Main, MainPc, Dir, Call, ItemPc
<1>11. /\ dir.exists \in BOOLEAN /\ main.position = 1 /\ counts = NoCounts
       /\ dir.rows = << >> /\ dir.failures = << >> /\ dir.summary = None
       /\ ~BadArguments
  BY <1>1 DEF IInv, StartsEmpty
<1>12. dir.exists
  BY <1>1 DEF IInv, StartsEmpty
<1>13. StartsEmpty'
  BY <1>1, <1>3, <1>5, <1>11, <1>12, MainLeavesTheParsers DEF StartsEmpty
<1>14. ItemReturns'
  BY <1>1, <1>7, <1>9, MainLeavesTheParsers DEF ItemReturns
<1>15. RowsAreItems'
  <2>1. /\ Len(dir'.rows) = 0 /\ DOMAIN dir'.rows = {}
        /\ \A i \in Items : item'[i].pc # "recorded"
    BY <1>5, <1>7, <1>9, <1>11
  <2>2. main'.position = 1 /\ 1 <= Total' + 1
    BY <1>1, <1>3, <1>11, SelectedIs, MainLeavesTheParsers
  <2> QED
    BY <1>1, <2>1, <2>2, MainLeavesTheParsers DEF RowsAreItems
<1>16. InSequence'
  <2>1. \A i \in Items : ~(i < 1)
    BY SelectedIs
  <2> QED
    BY <1>1, <1>3, <1>5, <1>8, <1>9, <1>11, <2>1, MainLeavesTheParsers DEF InSequence
<1>17. Accounts'
  <2>1. RowsCounted' = 0
    BY <1>3, <1>5, <1>11 DEF RowsCounted
  <2>2. \A status : Counted(dir'.rows, status, 0) = 0
    BY CountedFirst
  <2>3. WithStatus(dir'.rows, "succeeded", 0) = {}
    BY DEF WithStatus
  <2>4. counts'.final_rows = << >> /\ \A status \in Statuses : counts'.status[status] = 0
    BY <1>1, <1>11 DEF NoCounts, Statuses
  <2>5. Elements(counts'.final_rows) = {} /\ SucceededOf(dir'.rows, 0) = {}
    BY <2>3, <2>4 DEF Elements, SucceededOf
  <2>6. Len(dir'.failures) = 0 /\ DOMAIN counts'.final_rows = {}
    BY <1>5, <1>11, <2>4
  <2> QED
    BY <1>3, <2>1, <2>2, <2>4, <2>5, <2>6 DEF Accounts
<1>18. NothingRecordedTwice' /\ FailuresFollowRows'
  <2>1. Counted(dir'.rows, "failed", 0) = 0
    BY CountedFirst
  <2> QED
    BY <1>5, <1>11, <2>1 DEF NothingRecordedTwice, FailuresFollowRows
<1>19. Stops' /\ Written'
  BY <1>3, <1>5, <1>11 DEF Stops, Written
<1> QED
  BY <1>1, <1>10, <1>13, <1>14, <1>16, <1>17, <1>18, <1>19, <1>15, MainLeavesTheParsers DEF IInv

LEMMA WriteDecisionsKeeps ==
    ASSUME TypeOK, IInv, WriteDecisions
    PROVE  TypeOK' /\ IInv'
<1> DEFINE sorted == SortedByIndex(counts.final_rows)
<1>1. OnlyMain /\ counts' = counts /\ item' = item
  BY DEF WriteDecisions, OnlyMain, SameCommand
<1>2. \/ main.pc = "decisions"
      \/ main.pc = "loop" /\ main.position > Total
  BY DEF WriteDecisions, Total
<1>3. main \in Main /\ main' = [main EXCEPT !.pc = "summary"]
  BY DEF TypeOK, Main, MainPc, WriteDecisions, To
<1>4. /\ main' \in Main /\ main'.pc = "summary" /\ main'.position = main.position
  BY <1>3 DEF Main, MainPc
<1>5. Dir(dir) /\ dir' = [dir EXCEPT !.decisions = sorted]
  BY DEF TypeOK, Dir, WriteDecisions
<1> HIDE DEF sorted
<1>6. /\ Dir(dir') /\ dir'.request = dir.request /\ dir'.rows = dir.rows
      /\ dir'.failures = dir.failures /\ dir'.summary = dir.summary
      /\ dir'.exists = dir.exists /\ dir'.decisions = sorted
  BY <1>5 DEF Dir
<1>7. TypeOK'
  BY <1>1, <1>4, <1>6, MainLeavesTheParsers DEF TypeOK, Main, MainPc, Dir
<1>8. Live /\ Live' /\ dir.request /\ ~BadArguments /\ main.pc # "ended" /\ main.pc # "record"
  BY <1>2, <1>4 DEF IInv, StartsEmpty, Live
<1>9. StartsEmpty'
  BY <1>1, <1>4, <1>6, <1>8, MainLeavesTheParsers DEF IInv, StartsEmpty
<1>10. RowsCounted' = RowsCounted
  BY <1>4, <1>6, <1>8 DEF RowsCounted
<1>11. Accounts'
  BY <1>1, <1>4, <1>6, <1>8, <1>10 DEF IInv, Accounts
<1>12. FailuresFollowRows'
  BY <1>6 DEF IInv, FailuresFollowRows
<1>13. Stops'
  BY <1>1, <1>2, <1>4, <1>6, <1>8, MainLeavesTheParsers DEF IInv, Stops
<1>14. Written'
  BY <1>1, <1>4, <1>6 DEF Written, sorted
<1> QED
  BY <1>1, <1>4, <1>6, <1>7, <1>8, <1>9, <1>11, <1>12, <1>13, <1>14, ItemsStay,
     MainLeavesTheParsers DEF IInv

LEMMA WriteSummaryKeeps ==
    ASSUME TypeOK, IInv, WriteSummary
    PROVE  TypeOK' /\ IInv'
<1> DEFINE s == counts.status
           completed == s["succeeded"] + s["failed"]
           summary == [status |-> BatchStatus(Total, completed, s["failed"]),
                       total_selected |-> Total, status_counts |-> s]
<1>1. OnlyMain /\ counts' = counts /\ item' = item /\ main.pc = "summary"
  BY DEF WriteSummary, OnlyMain, SameCommand
<1>2. main \in Main /\ main' = [main EXCEPT !.pc = "ended"]
  BY DEF TypeOK, Main, MainPc, WriteSummary, To
<1>3. /\ main' \in Main /\ main'.pc = "ended" /\ main'.position = main.position
  BY <1>2 DEF Main, MainPc
<1>4. Dir(dir) /\ dir' = [dir EXCEPT !.summary = summary]
  BY DEF TypeOK, Dir, WriteSummary, Total
<1>5. summary' = summary
  <2>1. \A total, done, failed : BatchStatus(total, done, failed)' = BatchStatus(total, done, failed)
    BY <1>1, MainLeavesTheParsers DEF BatchStatus
  <2> QED
    BY <1>1, <2>1, MainLeavesTheParsers
<1>6. Written' <=> /\ dir'.decisions = SortedByIndex(counts.final_rows)
                   /\ dir'.summary = summary
  BY <1>1, <1>3, <1>5 DEF Written
<1> HIDE DEF summary
<1>7. /\ Dir(dir') /\ dir'.request = dir.request /\ dir'.rows = dir.rows
      /\ dir'.failures = dir.failures /\ dir'.summary = summary
      /\ dir'.exists = dir.exists /\ dir'.decisions = dir.decisions
  BY <1>4 DEF Dir
<1>8. TypeOK'
  BY <1>1, <1>3, <1>7, MainLeavesTheParsers DEF TypeOK, Main, MainPc, Dir
<1>9. Live /\ Live' /\ dir.request /\ ~BadArguments
  BY <1>1, <1>3 DEF IInv, StartsEmpty, Live
<1>10. StartsEmpty'
  BY <1>1, <1>3, <1>7, <1>9, MainLeavesTheParsers DEF IInv, StartsEmpty
<1>11. RowsCounted' = RowsCounted
  BY <1>1, <1>3, <1>7 DEF RowsCounted
<1>12. Accounts'
  BY <1>1, <1>3, <1>7, <1>9, <1>11 DEF IInv, Accounts
<1>13. FailuresFollowRows'
  BY <1>7 DEF IInv, FailuresFollowRows
<1>14. Stops'
  BY <1>1, <1>3, <1>7, <1>9, MainLeavesTheParsers DEF IInv, Stops
<1>15. Written'
  BY <1>1, <1>6, <1>7 DEF IInv, Written
<1> QED
  BY <1>1, <1>3, <1>7, <1>8, <1>9, <1>10, <1>12, <1>13, <1>14, <1>15, ItemsStay,
     MainLeavesTheParsers DEF IInv
-----------------------------------------------------------------------------
(* A row is recorded, and counted.                                         *)

\* A row that is appended, after which only the main thread has moved.
Appends(row) ==
    /\ main.pc = "loop" /\ row \in BatchRow
    /\ dir' = [dir EXCEPT !.rows = Append(@, row)]
    /\ main' = [main EXCEPT !.position = @ + 1, !.pc = "record", !.row = row]
    /\ counts' = counts

LEMMA AppendsWhat ==
    ASSUME TypeOK, IInv, NEW row, Appends(row)
    PROVE  /\ Live /\ Live' /\ dir.request /\ ~BadArguments /\ dir.summary = None
           /\ Len(dir.rows) \in Nat /\ main.position = Len(dir.rows) + 1
           /\ main' \in Main /\ main'.pc = "record" /\ main'.row = row
           /\ main'.position = Len(dir.rows) + 2
           /\ Dir(dir') /\ dir'.request = dir.request /\ dir'.failures = dir.failures
           /\ dir'.summary = dir.summary /\ dir'.exists = dir.exists
           /\ Len(dir'.rows) = Len(dir.rows) + 1 /\ dir'.rows[Len(dir.rows) + 1] = row
           /\ DOMAIN dir'.rows = 1..(Len(dir.rows) + 1) /\ DOMAIN dir.rows = 1..Len(dir.rows)
           /\ \A k \in 1..Len(dir.rows) : dir'.rows[k] = dir.rows[k]
           /\ RowsCounted = Len(dir.rows) /\ RowsCounted' = Len(dir.rows)
           /\ \A status : Counted(dir'.rows, status, Len(dir.rows))
                             = Counted(dir.rows, status, Len(dir.rows))
<1>1. Live /\ main.pc = "loop" /\ row \in BatchRow
  BY DEF Appends, Live
<1>2. main \in Main /\ Dir(dir)
  BY DEF TypeOK, Main, MainPc, Dir
<1>3. dir.request /\ ~BadArguments /\ dir.summary = None
  BY <1>1 DEF IInv, StartsEmpty
<1>4. Len(dir.rows) \in Nat /\ main.position = Len(dir.rows) + 1
  <2>1. Len(dir.rows) = main.position - 1
    BY <1>1 DEF IInv, RowsAreItems
  <2> QED
    BY <1>2, <2>1 DEF Main, Dir
<1>5. /\ main' \in Main /\ main'.pc = "record" /\ main'.row = row
      /\ main'.position = main.position + 1
  <2> DEFINE position == main.position + 1
  <2>1. position \in Nat \ {0}
    BY <1>2 DEF Main
  <2>2. main' = [main EXCEPT !.position = position, !.pc = "record", !.row = row]
    BY <1>2 DEF Appends, Main
  <2> HIDE DEF position
  <2>3. /\ main' \in Main /\ main'.pc = "record" /\ main'.row = row
        /\ main'.position = position
    BY <1>1, <1>2, <2>1, <2>2 DEF Main, MainPc
  <2> QED
    BY <2>3 DEF position
<1>6. /\ dir'.request = dir.request /\ dir'.failures = dir.failures
      /\ dir'.summary = dir.summary /\ dir'.exists = dir.exists
      /\ dir'.rows = Append(dir.rows, row)
      /\ DOMAIN dir' = DOMAIN dir
  BY <1>2 DEF Appends, Dir
<1>7. dir.rows \in Seq(BatchRow)
  BY <1>2 DEF Dir
<1>8. /\ dir'.rows \in Seq(BatchRow)
      /\ Len(dir'.rows) = Len(dir.rows) + 1 /\ dir'.rows[Len(dir.rows) + 1] = row
      /\ \A k \in 1..Len(dir.rows) : dir'.rows[k] = dir.rows[k]
  BY <1>1, <1>6, <1>7
<1>9. DOMAIN dir'.rows = 1..(Len(dir.rows) + 1) /\ DOMAIN dir.rows = 1..Len(dir.rows)
  BY <1>7, <1>8
<1>10. Dir(dir')
  BY <1>2, <1>6, <1>8 DEF Dir
<1>11. RowsCounted = Len(dir.rows) /\ RowsCounted' = Len(dir.rows)
  BY <1>1, <1>4, <1>5, <1>8 DEF RowsCounted
<1>12. \A status : Counted(dir'.rows, status, Len(dir.rows))
                      = Counted(dir.rows, status, Len(dir.rows))
  BY <1>4, <1>8, CountedAlike
<1>13. Live' /\ main'.position = Len(dir.rows) + 2
  BY <1>4, <1>5 DEF Live
<1> QED
  BY <1>1, <1>3, <1>4, <1>5, <1>6, <1>8, <1>9, <1>10, <1>11, <1>12, <1>13

\* What is counted, and the failures, are those of the rows before.
LEMMA AppendsKeepTheAccounts ==
    ASSUME TypeOK, IInv, NEW row, Appends(row), OnlyMain
    PROVE  Accounts' /\ FailuresFollowRows' /\ Stops' /\ Written'
<1> DEFINE n == Len(dir.rows)
<1>1. n \in Nat /\ Live /\ Live' /\ main.pc = "loop"
  BY AppendsWhat DEF Appends
<1>2. /\ main'.pc = "record" /\ main'.row = row
      /\ RowsCounted = n /\ RowsCounted' = n
      /\ Len(dir'.rows) = n + 1 /\ dir'.rows[n + 1] = row /\ dir'.failures = dir.failures
      /\ DOMAIN dir'.rows = 1..(n + 1) /\ DOMAIN dir.rows = 1..n
      /\ \A k \in 1..n : dir'.rows[k] = dir.rows[k]
      /\ \A status : Counted(dir'.rows, status, n) = Counted(dir.rows, status, n)
      /\ counts' = counts
  BY AppendsWhat DEF Appends
<1>3. Accounts
  BY DEF IInv
<1> HIDE DEF n
<1>4. Accounts'
  <2>1. SucceededOf(dir'.rows, n) = SucceededOf(dir.rows, n)
    <3>1. WithStatus(dir'.rows, "succeeded", n) = WithStatus(dir.rows, "succeeded", n)
      BY <1>2 DEF WithStatus
    <3>2. \A k \in WithStatus(dir.rows, "succeeded", n) : dir'.rows[k] = dir.rows[k]
      BY <1>2 DEF WithStatus
    <3> QED
      BY <3>1, <3>2 DEF SucceededOf
  <2> QED
    BY <1>1, <1>2, <1>3, <2>1 DEF Accounts
<1>5. Len(dir.failures) = Counted(dir.rows, "failed", n) /\ Len(dir.failures) \in Nat
  BY <1>1, <1>2, <1>3 DEF Accounts, TypeOK
<1>6. Counted(dir'.rows, "failed", n + 1) =
         IF row.status = "failed" THEN Len(dir.failures) + 1 ELSE Len(dir.failures)
  <2>1. Counted(dir'.rows, "failed", n + 1) =
           IF dir'.rows[n + 1].status = "failed" THEN Counted(dir'.rows, "failed", n) + 1
                                                 ELSE Counted(dir'.rows, "failed", n)
    BY <1>1, CountedNext
  <2>2. Counted(dir'.rows, "failed", n) = Len(dir.failures)
    BY <1>2, <1>5
  <2> QED
    BY <1>2, <2>1, <2>2
<1>7. FailuresFollowRows'
  <2>1. Len(dir'.failures) <= Counted(dir'.rows, "failed", Len(dir'.rows))
    BY <1>2, <1>5, <1>6
  <2>2. ASSUME NEW k \in DOMAIN dir'.rows, Failed(dir'.rows[k]),
               Counted(dir'.rows, "failed", k) <= Len(dir'.failures)
        PROVE  dir'.failures[Counted(dir'.rows, "failed", k)] = dir'.rows[k]
    <3>1. k # n + 1
      BY <1>2, <1>5, <1>6, <2>2 DEF Failed
    <3>2. k \in 1..n
      BY <1>1, <1>2, <3>1
    <3>3. Counted(dir'.rows, "failed", k) = Counted(dir.rows, "failed", k)
      <4>1. k \in Nat /\ \A l \in 1..k : l \in 1..n
        BY <1>1, <3>2
      <4>2. \A l \in 1..k : dir'.rows[l] = dir.rows[l]
        BY <1>2, <4>1
      <4> QED
        BY <4>1, <4>2, CountedAlike
    <3> QED
      BY <1>2, <2>2, <3>2, <3>3 DEF IInv, FailuresFollowRows, Failed
  <2> QED
    BY <2>1, <2>2 DEF FailuresFollowRows, Failed
<1>8. Stops'
  <2> SUFFICES ASSUME config.fail_fast, ~config.dry_run, NEW k \in 1..(n + 1),
                      Failed(dir'.rows[k])
               PROVE  k = n + 1
    BY <1>1, <1>2, MainLeavesTheParsers DEF Stops, Failed
  <2>1. \A l \in 1..n : ~Failed(dir.rows[l])
    BY <1>1, <1>2 DEF IInv, Stops
  <2>2. k \notin 1..n
    BY <1>2, <2>1 DEF Failed
  <2> QED
    BY <1>1, <2>2
<1>9. Written'
  BY <1>2 DEF Written
<1> QED
  BY <1>4, <1>7, <1>8, <1>9

LEMMA RecordPlannedKeeps ==
    ASSUME TypeOK, IInv, NEW i \in Items, RecordRow(i), config.dry_run
    PROVE  TypeOK' /\ IInv'
<1> DEFINE row == Row(i, "planned")
<1>1. OnlyMain /\ item' = item /\ i = main.position /\ Appends(row)
  <2>1. row \in BatchRow
    BY RowsTyped DEF Statuses
  <2>2. /\ i = main.position /\ item' = item
        /\ Append1(row, [main EXCEPT !.position = @ + 1])
    BY DEF RecordRow
  <2>3. main \in Main
    BY DEF TypeOK, Main, MainPc
  <2>4. main' = [main EXCEPT !.position = @ + 1, !.pc = "record", !.row = row]
    BY <2>2, <2>3 DEF Append1, Main
  <2> QED
    BY <2>1, <2>2, <2>4 DEF RecordRow, Append1, Appends, OnlyMain, SameCommand
<1> DEFINE n == Len(dir.rows)
<1>2. /\ Live /\ Live' /\ dir.request /\ ~BadArguments /\ dir.summary = None
      /\ n \in Nat /\ main.position = n + 1
      /\ main' \in Main /\ main'.pc = "record" /\ main'.position = n + 2
      /\ Dir(dir') /\ dir'.request = dir.request /\ dir'.failures = dir.failures
      /\ dir'.summary = dir.summary /\ dir'.exists = dir.exists
      /\ Len(dir'.rows) = n + 1 /\ dir'.rows[n + 1] = row
      /\ DOMAIN dir'.rows = 1..(n + 1) /\ DOMAIN dir.rows = 1..n
      /\ \A k \in 1..n : dir'.rows[k] = dir.rows[k]
  BY <1>1, AppendsWhat
<1>3. i = n + 1
  BY <1>1, <1>2
<1>4. \A k \in 1..(n + 1) : dir'.rows[k] = Row(k, "planned")
  <2>1. \A k \in 1..n : dir.rows[k] = Row(k, "planned")
    BY <1>2 DEF IInv, RowsAreItems
  <2>2. \A k \in 1..(n + 1) : k \in 1..n \/ k = n + 1
    BY <1>2
  <2> QED
    BY <1>2, <1>3, <2>1, <2>2
<1> HIDE DEF n, row
<1>5. counts' = counts
  BY <1>1 DEF Appends
<1>6. TypeOK'
  BY <1>1, <1>2, <1>5, ItemsStay, MainLeavesTheParsers
     DEF TypeOK, Main, MainPc, Dir, Call, ItemPc
<1>7. StartsEmpty'
  BY <1>1, <1>2, MainLeavesTheParsers DEF IInv, StartsEmpty
<1>8. RowsAreItems'
  <2>1. n + 2 <= Total + 1
    BY <1>2, <1>3, SelectedIs
  <2>2. config'.dry_run /\ Total' = Total /\ \A k, status : Row(k, status)' = Row(k, status)
    BY <1>1, MainLeavesTheParsers
  <2> QED
    BY <1>2, <1>4, <2>1, <2>2 DEF RowsAreItems
<1>9. InSequence'
  BY <1>1, MainLeavesTheParsers DEF InSequence
<1>10. NothingRecordedTwice'
  <2>1. \A k \in 1..(n + 1) : Row(k, "planned").index = config.offset + k
    BY DEF Row
  <2>2. \A k, l \in 1..(n + 1) : config.offset + k = config.offset + l => k = l
    BY <1>2, SelectedIs
  <2> QED
    BY <1>2, <1>4, <2>1, <2>2 DEF NothingRecordedTwice
<1> QED
  BY <1>1, <1>6, <1>7, <1>8, <1>9, <1>10, AppendsKeepTheAccounts, ItemsStay,
     MainLeavesTheParsers DEF IInv
\* The row of an item is recorded when no row is about it yet.
LEMMA RecordReturnedKeeps ==
    ASSUME TypeOK, IInv, NEW i \in Items, RecordRow(i), ~config.dry_run
    PROVE  TypeOK' /\ IInv'
<1> DEFINE row == item[i].row
           n == Len(dir.rows)
           c == [item[i] EXCEPT !.pc = "recorded"]
<1>1. item[i].pc = "finished" /\ item' = [item EXCEPT ![i].pc = "recorded"]
  BY DEF RecordRow
<1>2. item \in [Items -> Call]
  BY DEF TypeOK, Call, ItemPc
<1>3. /\ row \in BatchRow /\ row.index = config.offset + i
      /\ row.paper_id = Selected[i].paper_id /\ row.status \in {"succeeded", "failed"}
      /\ row.status = "succeeded" /\ row.final_decision \in AcceptLike =>
            parse[Paper(i)].pc = "parsed"
  BY <1>1 DEF IInv, ItemReturns
<1>4. OnlyMain /\ Appends(row)
  <2>1. Append1(row, [main EXCEPT !.position = @ + 1])
    BY DEF RecordRow
  <2>2. main \in Main
    BY DEF TypeOK, Main, MainPc
  <2>3. main' = [main EXCEPT !.position = @ + 1, !.pc = "record", !.row = row]
    BY <2>1, <2>2 DEF Append1, Main
  <2> QED
    BY <1>3, <2>1, <2>3 DEF RecordRow, Append1, Appends, OnlyMain, SameCommand
<1>5. /\ Live /\ Live' /\ dir.request /\ ~BadArguments /\ dir.summary = None
      /\ n \in Nat /\ main.position = n + 1
      /\ main' \in Main /\ main'.pc = "record" /\ main'.position = n + 2
      /\ Dir(dir') /\ dir'.request = dir.request /\ dir'.failures = dir.failures
      /\ dir'.summary = dir.summary /\ dir'.exists = dir.exists
      /\ Len(dir'.rows) = n + 1 /\ dir'.rows[n + 1] = row
      /\ DOMAIN dir'.rows = 1..(n + 1) /\ DOMAIN dir.rows = 1..n
      /\ \A k \in 1..n : dir'.rows[k] = dir.rows[k]
  BY <1>4, AppendsWhat
<1>6. c \in Call /\ c.pc = "recorded" /\ c.row = row
  BY <1>2 DEF Call, ItemPc
<1>7. item' = [item EXCEPT ![i] = c]
  BY <1>1, <1>2
<1> HIDE DEF n, c
<1>8. /\ item' \in [Items -> Call]
      /\ \A j \in Items : item'[j] = IF j = i THEN c ELSE item[j]
  BY <1>2, <1>6, <1>7
<1>9. counts' = counts
  BY <1>4 DEF Appends
<1>10. TypeOK'
  BY <1>4, <1>5, <1>8, <1>9, MainLeavesTheParsers
     DEF TypeOK, Main, MainPc, Dir, Call, ItemPc
<1>11. StartsEmpty'
  BY <1>4, <1>5, MainLeavesTheParsers DEF IInv, StartsEmpty
<1>12. \A j \in Items : item'[j].row = item[j].row
  BY <1>6, <1>8
<1>13. \A j \in Items : item'[j].pc = "recorded" <=> j = i \/ item[j].pc = "recorded"
  BY <1>6, <1>8
<1>14. ItemReturns'
  <2> SUFFICES ASSUME NEW j \in Items, item'[j].pc \in {"finished", "recorded"}
               PROVE  LET r == item[j].row IN
                      /\ r \in BatchRow
                      /\ r.index = config.offset + j /\ r.paper_id = Selected[j].paper_id
                      /\ r.status \in {"succeeded", "failed"}
                      /\ r.status = "succeeded" /\ r.final_decision \in AcceptLike =>
                            parse[Paper(j)].pc = "parsed"
    BY <1>4, <1>12, MainLeavesTheParsers DEF ItemReturns, Paper
  <2>1. item[j].pc \in {"finished", "recorded"}
    BY <1>1, <1>8
  <2> QED
    BY <2>1 DEF IInv, ItemReturns
<1>15. /\ \A k \in 1..n : \E j \in Items : item[j].pc = "recorded" /\ dir.rows[k] = item[j].row
       /\ \A j \in Items : item[j].pc = "recorded" => \E k \in 1..n : dir.rows[k] = item[j].row
  BY <1>5, ZenonT(60) DEF IInv, RowsAreItems
<1>16. \A k \in Nat : k \in 1..(n + 1) <=> k \in 1..n \/ k = n + 1
  BY <1>5
<1>17. RowsAreItems'
  <2>1. \A k \in 1..(n + 1) : \E j \in Items :
           item'[j].pc = "recorded" /\ dir'.rows[k] = item'[j].row
    <3> SUFFICES ASSUME NEW k \in 1..(n + 1)
                 PROVE  \E j \in Items : item'[j].pc = "recorded" /\ dir'.rows[k] = item'[j].row
      OBVIOUS
    <3>1. CASE k = n + 1
      BY <1>5, <1>12, <1>13, <3>1
    <3>2. CASE k # n + 1
      <4>1. k \in 1..n
        BY <1>5, <3>2
      <4>2. PICK j \in Items : item[j].pc = "recorded" /\ dir.rows[k] = item[j].row
        BY <1>15, <4>1
      <4> QED
        BY <1>5, <1>12, <1>13, <4>1, <4>2
    <3> QED
      BY <3>1, <3>2
  <2>2. \A j \in Items : item'[j].pc = "recorded" =>
           \E k \in 1..(n + 1) : dir'.rows[k] = item'[j].row
    <3> SUFFICES ASSUME NEW j \in Items, item'[j].pc = "recorded"
                 PROVE  \E k \in 1..(n + 1) : dir'.rows[k] = item[j].row
      BY <1>12
    <3>1. CASE j = i
      <4>1. n + 1 \in 1..(n + 1)
        BY <1>5
      <4> QED
        BY <1>5, <3>1, <4>1
    <3>2. CASE j # i
      <4>1. PICK k \in 1..n : dir.rows[k] = item[j].row
        BY <1>13, <1>15, <3>2
      <4>2. k \in 1..(n + 1)
        BY <1>5
      <4> QED
        BY <1>5, <4>1, <4>2
    <3> QED
      BY <3>1, <3>2
  <2>3. Items' = Items /\ config' = config
    BY <1>4, MainLeavesTheParsers
  <2>4. Len(dir'.rows) = main'.position - 1 /\ ~config'.dry_run
    BY <1>5, <2>3
  <2>5. DOMAIN dir'.rows = 1..(n + 1)
    BY <1>5
  <2> QED
    BY <2>1, <2>2, <2>3, <2>4, <2>5 DEF RowsAreItems
<1>18. \A k \in 1..n : dir.rows[k].index # config.offset + i
  <2> SUFFICES ASSUME NEW k \in 1..n, dir.rows[k].index = config.offset + i
               PROVE  FALSE
    OBVIOUS
  <2>1. PICK j \in Items : item[j].pc = "recorded" /\ dir.rows[k] = item[j].row
    BY <1>15
  <2>2. dir.rows[k].index = config.offset + j
    BY <2>1 DEF IInv, ItemReturns
  <2>3. config.offset + j = config.offset + i => j = i
    BY SelectedIs
  <2> QED
    BY <1>1, <2>1, <2>2, <2>3
<1>19. NothingRecordedTwice'
  <2> SUFFICES ASSUME NEW k \in 1..(n + 1), NEW l \in 1..(n + 1),
                      dir'.rows[k].index = dir'.rows[l].index
               PROVE  k = l
    BY <1>5 DEF NothingRecordedTwice
  <2>1. (k \in 1..n \/ k = n + 1) /\ (l \in 1..n \/ l = n + 1)
    BY <1>5
  <2>2. CASE k \in 1..n /\ l \in 1..n
    BY <1>5, <2>2 DEF IInv, NothingRecordedTwice
  <2>3. CASE k = n + 1 \/ l = n + 1
    BY <1>3, <1>5, <1>18, <2>1, <2>3
  <2> QED
    BY <2>1, <2>2, <2>3
<1>20. InSequence'
  <2> SUFFICES ASSUME config.concurrency = 1
               PROVE  /\ \A k \in 1..(n + 1) : dir'.rows[k].index = config.offset + k
                      /\ \A j \in Items : /\ j < n + 2 => item'[j].pc = "recorded"
                                          /\ j > n + 2 => item'[j].pc = "none"
    BY <1>4, <1>5, MainLeavesTheParsers DEF InSequence
  <2>1. /\ \A k \in 1..n : dir.rows[k].index = config.offset + k
        /\ \A j \in Items : /\ j < n + 1 => item[j].pc = "recorded"
                            /\ j > n + 1 => item[j].pc = "none"
    BY <1>5 DEF IInv, InSequence
  <2>2. \A j \in Items : j \in Int
    BY SelectedIs
  <2>3. i = n + 1
    BY <1>1, <1>5, <2>1, <2>2
  <2>4. \A k \in 1..(n + 1) : dir'.rows[k].index = config.offset + k
    <3>1. \A k \in 1..(n + 1) : k \in 1..n \/ k = n + 1
      BY <1>5
    <3> QED
      BY <1>3, <1>5, <2>1, <2>3, <3>1
  <2>5. ASSUME NEW j \in Items
        PROVE  /\ j < n + 2 => item'[j].pc = "recorded"
               /\ j > n + 2 => item'[j].pc = "none"
    <3>1. (j < n + 2 => j < n + 1 \/ j = i) /\ (j > n + 2 => j > n + 1 /\ j # i)
      BY <1>5, <2>2, <2>3
    <3> QED
      BY <1>6, <1>8, <2>1, <3>1
  <2> QED
    BY <2>4, <2>5
<1> QED
  BY <1>4, <1>10, <1>11, <1>14, <1>17, <1>19, <1>20, AppendsKeepTheAccounts,
     MainLeavesTheParsers DEF IInv
\* A row that is counted joins the rows of its status.
LEMMA CountRowKeeps ==
    ASSUME TypeOK, IInv, CountRow
    PROVE  TypeOK' /\ IInv'
<1> DEFINE row == main.row
           n == Len(dir.rows)
           m == n - 1
           failed == row.status = "failed"
           succeeded == row.status = "succeeded"
           pc == IF config.fail_fast /\ ~config.dry_run /\ failed THEN "decisions" ELSE "loop"
           status == [counts.status EXCEPT ![row.status] = @ + 1]
           final_rows == IF succeeded THEN Append(counts.final_rows, row)
                                      ELSE counts.final_rows
           failures == IF failed THEN Append(dir.failures, row) ELSE dir.failures
<1>1. OnlyMain /\ item' = item /\ main.pc = "record"
  BY DEF CountRow, OnlyMain, SameCommand
<1>2. Live /\ Dir(dir) /\ main \in Main
  BY <1>1 DEF Live, TypeOK, Dir, Main, MainPc
<1>3. /\ n > 0 /\ row = dir.rows[n]
      /\ \A s \in Statuses : counts.status[s] = Counted(dir.rows, s, m)
      /\ Len(dir.failures) = Counted(dir.rows, "failed", m)
      /\ Elements(counts.final_rows) = SucceededOf(dir.rows, m)
      /\ \A k, l \in DOMAIN counts.final_rows :
            counts.final_rows[k].index = counts.final_rows[l].index => k = l
  BY <1>1, <1>2 DEF IInv, Accounts, RowsCounted
<1>4. /\ dir.rows \in Seq(BatchRow) /\ dir.failures \in Seq(BatchRow)
      /\ n \in Nat /\ m \in Nat /\ m + 1 = n /\ DOMAIN dir.rows = 1..n
  BY <1>2, <1>3 DEF Dir
<1>5. row \in BatchRow /\ row.status \in Statuses
  <2>1. row \in BatchRow
    BY <1>3, <1>4
  <2> QED
    BY <2>1 DEF BatchRow, Statuses
<1>6. /\ counts.status \in [Statuses -> Nat] /\ counts.final_rows \in Seq(BatchRow)
      /\ counts \in [status : [Statuses -> Nat], final_rows : Seq(BatchRow)]
  BY DEF TypeOK, Statuses
<1>7. counts' = [counts EXCEPT !.status = status, !.final_rows = final_rows]
  BY <1>6 DEF CountRow
<1>8. dir' = [dir EXCEPT !.failures = failures]
  BY <1>2 DEF CountRow, Dir
<1>9. main' = [main EXCEPT !.pc = pc]
  BY DEF CountRow, To
<1>10. /\ status \in [Statuses -> Nat]
       /\ \A s \in Statuses : status[s] = IF s = row.status THEN counts.status[s] + 1
                                                           ELSE counts.status[s]
  BY <1>5, <1>6
<1>11. final_rows \in Seq(BatchRow) /\ failures \in Seq(BatchRow)
  BY <1>4, <1>5, <1>6
<1>12. /\ pc \in {"loop", "decisions"}
       /\ pc = "decisions" => config.fail_fast /\ ~config.dry_run /\ failed
       /\ pc = "loop" => ~(config.fail_fast /\ ~config.dry_run /\ failed)
  OBVIOUS
<1>13. /\ final_rows = IF succeeded THEN Append(counts.final_rows, row) ELSE counts.final_rows
       /\ failures = IF failed THEN Append(dir.failures, row) ELSE dir.failures
  OBVIOUS
<1> HIDE DEF row, n, m, pc, status, final_rows, failures
<1>14. /\ counts' \in [status : [Statuses -> Nat], final_rows : Seq(BatchRow)]
       /\ counts'.status = status /\ counts'.final_rows = final_rows
  BY <1>6, <1>7, <1>10, <1>11
<1>15. /\ Dir(dir') /\ dir'.request = dir.request /\ dir'.rows = dir.rows
       /\ dir'.failures = failures /\ dir'.summary = dir.summary
       /\ dir'.exists = dir.exists /\ dir'.decisions = dir.decisions
  BY <1>2, <1>8, <1>11 DEF Dir
<1>16. main' \in Main /\ main'.pc = pc /\ main'.position = main.position
  BY <1>2, <1>9, <1>12 DEF Main, MainPc
<1>17. TypeOK'
  BY <1>1, <1>14, <1>15, <1>16, MainLeavesTheParsers DEF TypeOK, Main, MainPc, Dir, Statuses
<1>18. Live' /\ dir.exists /\ dir.request /\ ~BadArguments /\ dir.summary = None
  BY <1>1, <1>12, <1>16 DEF IInv, StartsEmpty, Live
<1>19. StartsEmpty'
  BY <1>1, <1>12, <1>15, <1>16, <1>18, MainLeavesTheParsers DEF StartsEmpty
<1>20. RowsCounted' = n
  BY <1>12, <1>15, <1>16 DEF RowsCounted, n
<1>21. \A s : Counted(dir.rows, s, n) = IF row.status = s THEN Counted(dir.rows, s, m) + 1
                                                          ELSE Counted(dir.rows, s, m)
  <2> SUFFICES ASSUME NEW s
               PROVE  Counted(dir.rows, s, n) =
                         IF row.status = s THEN Counted(dir.rows, s, m) + 1
                                           ELSE Counted(dir.rows, s, m)
    OBVIOUS
  <2>1. Counted(dir.rows, s, m + 1) =
           IF dir.rows[m + 1].status = s THEN Counted(dir.rows, s, m) + 1
                                         ELSE Counted(dir.rows, s, m)
    BY <1>4, CountedNext
  <2> QED
    BY <1>3, <1>4, <2>1
<1>22. \A s \in Statuses : counts'.status[s] = Counted(dir.rows, s, n)
  BY <1>3, <1>10, <1>14, <1>21
<1>23. /\ Len(failures) = Counted(dir.rows, "failed", n)
       /\ \A k \in DOMAIN dir.failures : failures[k] = dir.failures[k]
       /\ failed => failures[Counted(dir.rows, "failed", n)] = row
  <2>1. CASE failed
    <3>1. /\ Len(failures) = Len(dir.failures) + 1 /\ failures[Len(dir.failures) + 1] = row
          /\ \A k \in DOMAIN dir.failures : failures[k] = dir.failures[k]
      BY <1>4, <1>5, <1>13, <2>1
    <3> QED
      BY <1>3, <1>21, <2>1, <3>1
  <2>2. CASE ~failed
    BY <1>3, <1>13, <1>21, <2>2
  <2> QED
    BY <2>1, <2>2
<1>24. \A k \in 1..n : k \in 1..m \/ k = n
  BY <1>4
<1>25. \A k \in 1..m : k \in 1..n /\ k # n
  BY <1>4
<1>26. Elements(final_rows) = SucceededOf(dir.rows, n)
  <2>1. n \in 1..n
    BY <1>3, <1>4
  <2>2. CASE succeeded
    <3>1. WithStatus(dir.rows, "succeeded", n) = WithStatus(dir.rows, "succeeded", m) \cup {n}
      BY <1>3, <1>24, <1>25, <2>1, <2>2 DEF WithStatus
    <3>2. SucceededOf(dir.rows, n) = SucceededOf(dir.rows, m) \cup {row}
      BY <1>3, <3>1 DEF SucceededOf
    <3>3. Elements(final_rows) = Elements(counts.final_rows) \cup {row}
      <4>1. /\ DOMAIN final_rows = DOMAIN counts.final_rows \cup {Len(counts.final_rows) + 1}
            /\ \A k \in DOMAIN counts.final_rows : final_rows[k] = counts.final_rows[k]
            /\ final_rows[Len(counts.final_rows) + 1] = row
        BY <1>5, <1>6, <1>13, <2>2
      <4> QED
        BY <4>1 DEF Elements
    <3> QED
      BY <1>3, <3>2, <3>3
  <2>3. CASE ~succeeded
    <3>1. WithStatus(dir.rows, "succeeded", n) = WithStatus(dir.rows, "succeeded", m)
      BY <1>3, <1>24, <1>25, <2>1, <2>3 DEF WithStatus
    <3> QED
      BY <1>3, <1>13, <2>3, <3>1 DEF SucceededOf
  <2> QED
    BY <2>2, <2>3
<1>27. \A k \in DOMAIN counts.final_rows : counts.final_rows[k].index # row.index
  <2> SUFFICES ASSUME NEW k \in DOMAIN counts.final_rows,
                      counts.final_rows[k].index = row.index
               PROVE  FALSE
    OBVIOUS
  <2>1. counts.final_rows[k] \in SucceededOf(dir.rows, m)
    BY <1>3 DEF Elements
  <2>2. PICK l \in 1..m : dir.rows[l] = counts.final_rows[k]
    BY <2>1 DEF SucceededOf, WithStatus
  <2>3. l \in 1..n /\ n \in 1..n /\ l # n
    BY <1>3, <1>4
  <2>4. dir.rows[l].index = dir.rows[n].index
    BY <1>3, <2>2
  <2> QED
    BY <1>4, <2>3, <2>4 DEF IInv, NothingRecordedTwice
<1>28. \A k, l \in DOMAIN final_rows : final_rows[k].index = final_rows[l].index => k = l
  <2>1. CASE succeeded
    <3>1. /\ DOMAIN final_rows = DOMAIN counts.final_rows \cup {Len(counts.final_rows) + 1}
          /\ \A k \in DOMAIN counts.final_rows : final_rows[k] = counts.final_rows[k]
          /\ final_rows[Len(counts.final_rows) + 1] = row
      BY <1>5, <1>6, <1>13, <2>1
    <3> QED
      BY <1>3, <1>27, <3>1
  <2>2. CASE ~succeeded
    BY <1>3, <1>13, <2>2
  <2> QED
    BY <2>1, <2>2
<1>29. Accounts'
  BY <1>12, <1>14, <1>15, <1>16, <1>20, <1>22, <1>23, <1>26, <1>28 DEF Accounts
<1>30. FailuresFollowRows'
  <2> SUFFICES ASSUME NEW k \in 1..n, Failed(dir.rows[k]),
                      Counted(dir.rows, "failed", k) <= Len(failures)
               PROVE  failures[Counted(dir.rows, "failed", k)] = dir.rows[k]
    <3>1. Len(failures) <= Counted(dir.rows, "failed", n)
      BY <1>4, <1>23, WithStatusFinite
    <3> QED
      BY <1>4, <1>15, <3>1 DEF FailuresFollowRows, n, Failed
  <2>1. CASE k = n
    BY <1>3, <1>23, <2>1 DEF Failed
  <2>2. CASE k # n
    <3>1. k \in 1..m /\ k \in 0..m
      BY <1>4, <1>24, <2>2
    <3>2. Counted(dir.rows, "failed", k) \in 1..Counted(dir.rows, "failed", m)
      BY <1>4, <3>1, CountedRow DEF Failed
    <3>3. /\ Counted(dir.rows, "failed", k) \in DOMAIN dir.failures
          /\ Counted(dir.rows, "failed", k) <= Len(dir.failures)
      BY <1>3, <1>4, <3>2
    <3>4. dir.failures[Counted(dir.rows, "failed", k)] = dir.rows[k]
      BY <1>4, <3>3 DEF IInv, FailuresFollowRows, Failed
    <3> QED
      BY <1>23, <3>3, <3>4
  <2> QED
    BY <2>1, <2>2
<1>31. NothingRecordedTwice'
  BY <1>1, <1>15, ItemsStay
<1>32. Stops'
  <2>1. /\ config' = config /\ Total' = Total
    BY <1>1, MainLeavesTheParsers
  <2>2. ASSUME config.fail_fast, ~config.dry_run, NEW k \in 1..n, Failed(dir.rows[k])
        PROVE  k = n /\ pc # "loop"
    <3>1. k = n
      BY <1>1, <1>2, <1>4, <2>2 DEF IInv, Stops, n
    <3> QED
      BY <1>3, <1>12, <2>2, <3>1 DEF Failed
  <2>3. pc = "decisions" => config.fail_fast /\ ~config.dry_run /\ Failed(dir.rows[n])
    BY <1>3, <1>12 DEF Failed
  <2> QED
    BY <1>3, <1>4, <1>12, <1>15, <1>16, <2>1, <2>2, <2>3 DEF Stops, n, Failed
<1>33. Written'
  BY <1>12, <1>16 DEF Written
<1> QED
  BY <1>1, <1>2, <1>15, <1>16, <1>17, <1>18, <1>19, <1>29, <1>30, <1>31, <1>32, <1>33,
     ItemsStay, MainLeavesTheParsers DEF IInv
-----------------------------------------------------------------------------
(* The process is killed.                                                  *)

LEMMA CrashKeeps ==
    ASSUME TypeOK, IInv, Crash
    PROVE  TypeOK' /\ IInv'
<1> DEFINE c == [pc |-> "none", row |-> None]
           idle == [pc |-> "idle", polls |-> 0, by |-> "none", errors |-> {}]
<1>1. /\ main' = [pc |-> "start", position |-> 1, row |-> None]
      /\ counts' = NoCounts /\ item' = [i \in Items |-> c]
      /\ parse' = [p \in Papers |-> idle]
      /\ dir' = dir /\ backend' = backend /\ is_configured' = is_configured /\ task' = task
      /\ crashes' = crashes + 1 /\ crashes < MaxCrashes /\ main.pc # "ended"
      /\ SameCommand
  BY DEF Crash, SameCommand
<1>2. /\ Total' = Total /\ Items' = Items /\ Selected' = Selected
      /\ config' = config /\ manifest' = manifest /\ BadArguments' = BadArguments
  BY <1>1, SelectionStays
<1>3. c \in Call /\ c.pc = "none"
  BY DEF Call, ItemPc
<1>4. idle \in Parse /\ idle.pc = "idle" /\ idle.by = "none"
  BY DocumentParserAssumption DEF Parse, ParsePc, ParsedBy, ParseErrors
<1> HIDE DEF c, idle
<1>5. main' \in Main /\ main'.pc = "start" /\ main'.position = 1
  BY <1>1 DEF Main, MainPc
<1>6. item' \in [Items -> Call] /\ \A i \in Items : item'[i].pc = "none"
  BY <1>1, <1>3
<1>7. parse' \in [Papers -> Parse] /\ \A p \in Papers : parse'[p] = idle
  BY <1>1, <1>4
<1>8. ParserTypeOK'
  BY <1>1, <1>7 DEF TypeOK, ParserTypeOK, Parse, ParsePc, ParsedBy, ParseErrors
<1>9. counts' \in [status : [{"planned", "succeeded", "failed"} -> Nat],
                   final_rows : Seq(BatchRow)]
  BY <1>1 DEF NoCounts
<1>10. crashes' \in 0..MaxCrashes
  BY <1>1, BatchReviewAssumption DEF TypeOK
<1>11. TypeOK'
  BY <1>1, <1>2, <1>5, <1>6, <1>8, <1>9, <1>10 DEF TypeOK, Main, MainPc, Call, ItemPc
<1>12. StartsEmpty'
  <2>1. /\ dir.request => dir.exists
        /\ ~dir.request => dir.rows = << >> /\ dir.failures = << >>
        /\ dir.summary = None
    BY <1>1 DEF IInv, StartsEmpty
  <2> QED
    BY <1>1, <1>2, <1>5, <1>6, <2>1 DEF StartsEmpty
<1>13. ItemReturns'
  BY <1>2, <1>6 DEF ItemReturns
<1>14. ~Live'
  BY <1>5 DEF Live
<1>15. RowsAreItems' /\ InSequence' /\ Accounts'
  BY <1>14 DEF RowsAreItems, InSequence, Accounts
<1>16. Stops' /\ Written'
  BY <1>5, <1>14 DEF Stops, Written
<1>17. NothingRecordedTwice' /\ FailuresFollowRows'
  BY <1>1 DEF IInv, NothingRecordedTwice, FailuresFollowRows
<1>18. ParsersInOrder'
  BY <1>4, <1>7 DEF ParsersInOrder
<1> QED
  BY <1>11, <1>12, <1>13, <1>15, <1>16, <1>17, <1>18 DEF IInv

-----------------------------------------------------------------------------
(* The invariant.                                                          *)

LEMMA InitHolds == Init => TypeOK /\ IInv
<1> SUFFICES ASSUME Init PROVE TypeOK /\ IInv
  OBVIOUS
<1> DEFINE c == [pc |-> "none", row |-> None]
           idle == [pc |-> "idle", polls |-> 0, by |-> "none", errors |-> {}]
<1>1. /\ main = [pc |-> "start", position |-> 1, row |-> None]
      /\ counts = NoCounts /\ item = [i \in Items |-> c] /\ dir = NoDir /\ crashes = 0
      /\ config \in Configs /\ manifest \in Manifests
      /\ backend \in Backends /\ is_configured \in BOOLEAN
      /\ parse = [p \in Papers |-> idle] /\ task = [p \in Papers |-> "none"]
  BY DEF Init, ParserInit
<1>2. c \in Call /\ c.pc = "none"
  BY DEF Call, ItemPc
<1>3. idle \in Parse /\ idle.pc = "idle" /\ idle.by = "none"
  BY DocumentParserAssumption DEF Parse, ParsePc, ParsedBy, ParseErrors
<1> HIDE DEF c, idle
<1>4. main \in Main /\ main.pc = "start" /\ main.position = 1
  BY <1>1 DEF Main, MainPc
<1>5. item \in [Items -> Call] /\ \A i \in Items : item[i].pc = "none"
  BY <1>1, <1>2
<1>6. parse \in [Papers -> Parse] /\ \A p \in Papers : parse[p] = idle
  BY <1>1, <1>3
<1>7. ParserTypeOK
  BY <1>1, <1>6 DEF ParserTypeOK, Parse, ParsePc, ParsedBy, ParseErrors
<1>8. counts \in [status : [{"planned", "succeeded", "failed"} -> Nat],
                  final_rows : Seq(BatchRow)]
  BY <1>1 DEF NoCounts
<1>9. /\ Dir(dir) /\ dir.request = FALSE /\ dir.exists = FALSE
      /\ dir.rows = << >> /\ dir.failures = << >> /\ dir.summary = None
  BY <1>1 DEF NoDir, Dir
<1>10. TypeOK
  BY <1>1, <1>4, <1>5, <1>7, <1>8, <1>9, BatchReviewAssumption
     DEF TypeOK, Main, MainPc, Call, ItemPc, Dir
<1>11. StartsEmpty /\ ItemReturns
  BY <1>1, <1>4, <1>5, <1>9 DEF StartsEmpty, ItemReturns
<1>12. ~Live
  BY <1>4 DEF Live
<1>13. RowsAreItems /\ InSequence /\ Accounts
  BY <1>12 DEF RowsAreItems, InSequence, Accounts
<1>14. Stops /\ Written
  BY <1>4, <1>12 DEF Stops, Written
<1>15. NothingRecordedTwice /\ FailuresFollowRows
  <2>1. Counted(dir.rows, "failed", 0) = 0
    BY CountedFirst
  <2> QED
    BY <1>9, <2>1 DEF NothingRecordedTwice, FailuresFollowRows
<1>16. ParsersInOrder
  BY <1>3, <1>6 DEF ParsersInOrder
<1> QED
  BY <1>10, <1>11, <1>13, <1>14, <1>15, <1>16 DEF IInv

\* Nothing moves.
LEMMA StutterHolds ==
    ASSUME TypeOK, IInv, UNCHANGED vars
    PROVE  TypeOK' /\ IInv'
<1>1. OnlyMain /\ OnlyThreads /\ item' = item /\ main' = main /\ counts' = counts /\ dir' = dir
  BY DEF vars, batchVars, parserVars, OnlyMain, OnlyThreads, SameCommand
<1>2. TypeOK'
  BY <1>1, MainLeavesTheParsers DEF TypeOK
<1>3. StartsEmpty'
  BY <1>1, MainLeavesTheParsers DEF IInv, StartsEmpty
<1>4. ItemReturns'
  BY <1>1, ItemsStay
<1>5. RowsAreItems' /\ InSequence'
  <2>1. Live' = Live
    BY <1>1, ThreadsLeaveTheRows
  <2>2. CASE Live
    BY <1>1, <2>1, <2>2, ItemsStay
  <2>3. CASE ~Live
    BY <2>1, <2>3 DEF RowsAreItems, InSequence
  <2> QED
    BY <2>2, <2>3
<1> QED
  BY <1>1, <1>2, <1>3, <1>4, <1>5, ThreadsLeaveTheRows, MainLeavesTheParsers DEF IInv

LEMMA NextKeeps ==
    ASSUME TypeOK, IInv, [Next]_vars
    PROVE  TypeOK' /\ IInv'
<1>1. CASE MainStep
  <2>1. ASSUME NEW i \in Items, RecordRow(i) PROVE TypeOK' /\ IInv'
    <3>1. config.dry_run \in BOOLEAN
      BY SelectedIs
    <3>2. CASE config.dry_run
      BY <2>1, <3>2, RecordPlannedKeeps
    <3>3. CASE ~config.dry_run
      BY <2>1, <3>3, RecordReturnedKeeps
    <3> QED
      BY <3>2, <3>3
  <2> QED
    BY <1>1, <2>1, StartKeeps, WriteRequestKeeps, CountRowKeeps, WriteDecisionsKeeps,
       WriteSummaryKeeps, TakeKeeps DEF MainStep
<1>2. CASE \E i \in Items : WorkerStep(i)
  BY <1>2, WorkerKeeps
<1>3. CASE Service
  BY <1>3, ServiceKeeps
<1>4. CASE Crash
  BY <1>4, CrashKeeps
<1>5. CASE Over \/ UNCHANGED vars
  BY <1>5, StutterHolds DEF Over
<1> QED
  BY <1>1, <1>2, <1>3, <1>4, <1>5 DEF Next

\* The batch and its parsers stay typed, whatever is killed, and what the files, the
\* counters, the threads and the parsers hold agrees at every step of run_batch.
THEOREM BatchStaysSound == Spec => [](TypeOK /\ IInv)
<1>1. Init => TypeOK /\ IInv
  BY InitHolds
<1>2. TypeOK /\ IInv /\ [Next]_vars => (TypeOK /\ IInv)'
  BY NextKeeps
<1> QED
  BY <1>1, <1>2, PTL DEF Spec
-----------------------------------------------------------------------------
(* The decisions are sorted.                                               *)

\* As many indexes as rows, if no two rows have the same.
LEMMA IndexesCounted ==
    ASSUME NEW rows \in Seq(BatchRow),
           \A k, l \in DOMAIN rows : rows[k].index = rows[l].index => k = l
    PROVE  /\ Indexes(rows) \in SUBSET Nat /\ IsFiniteSet(Indexes(rows))
           /\ Cardinality(Indexes(rows)) = Len(rows)
<1> DEFINE n == Len(rows)
           S == Indexes(rows)
           f == [k \in 1..n |-> rows[k].index]
<1>1. n \in Nat /\ DOMAIN rows = 1..n /\ \A k \in 1..n : rows[k] \in BatchRow
  OBVIOUS
<1>2. \A k \in 1..n : rows[k].index \in Nat /\ rows[k].index \in S
  BY <1>1 DEF BatchRow, Indexes
<1>3. S = {rows[k].index : k \in 1..n}
  BY <1>1 DEF Indexes
<1>4. IsFiniteSet(1..n) /\ Cardinality(1..n) = n
  <2> HIDE DEF n
  <2>1. Cardinality(1..n) = IF 1 > n THEN 0 ELSE n - 1 + 1
    BY <1>1, FS_Interval
  <2> QED
    BY <1>1, <2>1, FS_Interval
<1> HIDE DEF n, S
<1>5. f \in [1..n -> S] /\ \A k \in 1..n : f[k] = rows[k].index
  BY <1>2
<1> HIDE DEF f
<1>6. f \in Bijection(1..n, S)
  <2>1. \A k, l \in 1..n : f[k] = f[l] => k = l
    BY <1>1, <1>5
  <2>2. \A t \in S : \E k \in 1..n : f[k] = t
    BY <1>3, <1>5
  <2> QED
    BY <1>5, <2>1, <2>2 DEF Bijection, Injection, IsInjective, Surjection
<1>7. ExistsBijection(1..n, S)
  BY <1>6 DEF ExistsBijection
<1>8. IsFiniteSet(S) /\ Cardinality(S) = n
  BY <1>4, <1>7, FS_Bijection
<1>9. S \in SUBSET Nat
  BY <1>2, <1>3
<1> QED
  BY <1>8, <1>9 DEF n, S

\* sorted(final_rows) holds the same rows, in the order of their indexes.
LEMMA SortedIsSorted ==
    ASSUME NEW rows \in Seq(BatchRow),
           \A k, l \in DOMAIN rows : rows[k].index = rows[l].index => k = l
    PROVE  LET sorted == SortedByIndex(rows) IN
           /\ DOMAIN sorted = DOMAIN rows
           /\ Elements(sorted) = Elements(rows)
           /\ \A a, b \in DOMAIN sorted : a < b => sorted[a].index < sorted[b].index
<1> DEFINE n == Len(rows)
           S == Indexes(rows)
           rank(i) == Cardinality(Below(S, i))
           sorted == SortedByIndex(rows)
<1>1. n \in Nat /\ DOMAIN rows = 1..n
  OBVIOUS
<1>2. S \in SUBSET Nat /\ IsFiniteSet(S) /\ Cardinality(S) = n
  BY IndexesCounted
<1>3. \A k \in 1..n : rows[k].index \in S
  BY <1>1 DEF Indexes
<1>4. \A i \in S : \E k \in 1..n : rows[k].index = i
  BY <1>1 DEF Indexes
<1>5. \A k, l \in 1..n : rows[k].index = rows[l].index => rows[k] = rows[l]
  BY <1>1
<1>6. \A r \in Elements(rows) : r.index \in S /\ \E k \in 1..n : r = rows[k]
  BY <1>1, <1>3 DEF Elements
<1>7. \A k \in 1..n : rows[k] \in Elements(rows)
  BY <1>1 DEF Elements
<1>8. /\ DOMAIN sorted = 1..n
      /\ \A a \in 1..n : sorted[a] = CHOOSE r \in Elements(rows) : rank(r.index) = a - 1
  <2>1. \A r : {i \in Indexes(rows) : i < r.index} = Below(S, r.index)
    BY DEF Below
  <2> QED
    BY <1>1, <2>1 DEF SortedByIndex, Elements
<1> HIDE DEF n, S, sorted
<1>9. \A i \in S : rank(i) \in 0..(n - 1)
  BY <1>2, BelowCounted
<1> HIDE DEF rank
<1>10. ASSUME NEW a \in 1..n
       PROVE  sorted[a] \in Elements(rows) /\ rank(sorted[a].index) = a - 1
  <2>1. a - 1 \in 0..(n - 1)
    BY <1>1
  <2>2. PICK i \in S : rank(i) = a - 1
    BY <1>2, <2>1, EveryRankIsTaken DEF rank
  <2>3. PICK k \in 1..n : rows[k].index = i
    BY <1>4
  <2>4. \E r \in Elements(rows) : rank(r.index) = a - 1
    BY <1>7, <2>2, <2>3
  <2> QED
    BY <1>8, <2>4
<1>11. \A i, j \in S : rank(i) = rank(j) => i = j
  BY <1>2, BelowTellsApart DEF rank
<1>12. \A i, j \in S : i < j => rank(i) < rank(j)
  BY <1>2, BelowGrows DEF rank
<1>13. Elements(sorted) \subseteq Elements(rows)
  BY <1>8, <1>10 DEF Elements
<1>14. ASSUME NEW r \in Elements(rows) PROVE r \in Elements(sorted)
  <2> DEFINE a == rank(r.index) + 1
  <2>1. r.index \in S
    BY <1>6
  <2>2. a \in 1..n /\ a - 1 = rank(r.index)
    BY <1>1, <1>9, <2>1
  <2> HIDE DEF a
  <2>3. sorted[a] \in Elements(rows) /\ rank(sorted[a].index) = rank(r.index)
    BY <1>10, <2>2
  <2>4. sorted[a].index = r.index
    BY <1>6, <1>11, <2>1, <2>3
  <2>5. sorted[a] = r
    BY <1>5, <1>6, <2>3, <2>4
  <2> QED
    BY <1>8, <2>2, <2>5 DEF Elements
<1>15. ASSUME NEW a \in 1..n, NEW b \in 1..n, a < b
       PROVE  sorted[a].index < sorted[b].index
  <2> DEFINE i == sorted[a].index
             j == sorted[b].index
  <2>1. i \in S /\ j \in S /\ rank(i) = a - 1 /\ rank(j) = b - 1
    BY <1>6, <1>10
  <2> HIDE DEF i, j
  <2>2. i \in Nat /\ j \in Nat /\ a \in Nat /\ b \in Nat
    BY <1>1, <1>2, <2>1
  <2>3. i # j
    BY <1>15, <2>1, <2>2
  <2>4. ~(j < i)
    BY <1>12, <1>15, <2>1, <2>2
  <2>5. i < j
    BY <2>2, <2>3, <2>4
  <2> QED
    BY <2>5 DEF i, j
<1> QED
  BY <1>1, <1>8, <1>13, <1>14, <1>15 DEF sorted

-----------------------------------------------------------------------------
(* What the summary accounts for.                                          *)

\* The rows are about selected papers, at most one about each.
LEMMA RowsAreSelected ==
    ASSUME TypeOK, IInv, Live
    PROVE  /\ Indexes(dir.rows) \subseteq (config.offset + 1)..(config.offset + Total)
           /\ Cardinality(Indexes(dir.rows)) = Len(dir.rows)
           /\ Len(dir.rows) \in 0..Total
           /\ Len(dir.rows) = Total =>
                 Indexes(dir.rows) = (config.offset + 1)..(config.offset + Total)
<1> DEFINE S == Indexes(dir.rows)
           first == config.offset + 1
           last == config.offset + Total
<1>1. dir.rows \in Seq(BatchRow) /\ Len(dir.rows) \in Nat
  BY DEF TypeOK
<1>2. S \in SUBSET Nat /\ IsFiniteSet(S) /\ Cardinality(S) = Len(dir.rows)
  BY <1>1, IndexesCounted DEF IInv, NothingRecordedTwice
<1>3. config.offset \in Nat /\ Total \in Nat /\ Items = 1..Total
  BY SelectedIs
<1>4. first \in Nat /\ last \in Nat
  BY <1>3
<1>5. /\ \A i \in 1..Total : config.offset + i \in first..last
      /\ (first > last => Total = 0) /\ (first <= last => last - first + 1 = Total)
  BY <1>3
<1>6. ASSUME NEW k \in DOMAIN dir.rows PROVE dir.rows[k].index \in first..last
  <2>1. CASE config.dry_run
    <3>1. /\ dir.rows[k] = Row(k, "planned") /\ Len(dir.rows) = main.position - 1
          /\ main.position <= Total + 1 /\ main.position \in Nat
      BY <2>1 DEF IInv, RowsAreItems, TypeOK
    <3>2. dir.rows[k].index = config.offset + k
      BY <3>1 DEF Row
    <3>3. k \in 1..Total
      BY <1>1, <1>3, <3>1
    <3> QED
      BY <1>5, <3>2, <3>3
  <2>2. CASE ~config.dry_run
    <3>1. PICK i \in Items : item[i].pc = "recorded" /\ dir.rows[k] = item[i].row
      BY <2>2 DEF IInv, RowsAreItems
    <3>2. dir.rows[k].index = config.offset + i
      BY <3>1 DEF IInv, ItemReturns
    <3> QED
      BY <1>3, <1>5, <3>2
  <2> QED
    BY <2>1, <2>2
<1> HIDE DEF first, last
<1>7. S \in SUBSET (first..last)
  BY <1>6 DEF Indexes
<1> HIDE DEF S
<1>8. IsFiniteSet(first..last) /\ Cardinality(first..last) = Total
  <2>1. Cardinality(first..last) = IF first > last THEN 0 ELSE last - first + 1
    BY <1>4, FS_Interval
  <2>2. IsFiniteSet(first..last)
    BY <1>4, FS_Interval
  <2> QED
    BY <1>3, <1>4, <1>5, <2>1, <2>2
<1>9. Cardinality(S) <= Total /\ (Total = Cardinality(S) => first..last = S)
  BY <1>7, <1>8, FS_Subset
<1> QED
  BY <1>1, <1>2, <1>3, <1>7, <1>9 DEF S, first, last
\* Plans are planned; what was reviewed succeeded or failed, and all of it counts as
\* completed.
LEMMA RowsHaveStatus ==
    ASSUME TypeOK, IInv, main.pc = "ended"
    PROVE  LET n == Len(dir.rows)
               s == counts.status
           IN
           /\ \A status \in Statuses : s[status] = Counted(dir.rows, status, n)
           /\ s["succeeded"] \in Nat /\ s["failed"] \in Nat
           /\ config.dry_run => \A k \in 1..n : dir.rows[k].status = "planned"
           /\ ~config.dry_run => \A k \in 1..n : dir.rows[k].status \in {"succeeded", "failed"}
           /\ ~config.dry_run => s["succeeded"] + s["failed"] = n
<1> DEFINE n == Len(dir.rows)
           s == counts.status
<1>1. Live /\ RowsCounted = n
  BY DEF Live, RowsCounted
<1>2. dir.rows \in Seq(BatchRow) /\ n \in Nat /\ DOMAIN dir.rows = 1..n
  BY DEF TypeOK
<1>3. \A status \in Statuses : s[status] = Counted(dir.rows, status, n)
  BY <1>1 DEF IInv, Accounts
<1>4. s["succeeded"] \in Nat /\ s["failed"] \in Nat
  BY DEF TypeOK
<1>5. ASSUME config.dry_run, NEW k \in 1..n PROVE dir.rows[k].status = "planned"
  <2>1. dir.rows[k] = Row(k, "planned")
    BY <1>1, <1>2, <1>5 DEF IInv, RowsAreItems
  <2> QED
    BY <2>1 DEF Row
<1>6. ASSUME ~config.dry_run, NEW k \in 1..n
      PROVE  dir.rows[k].status \in {"succeeded", "failed"}
  <2>1. PICK i \in Items : item[i].pc = "recorded" /\ dir.rows[k] = item[i].row
    BY <1>1, <1>2, <1>6 DEF IInv, RowsAreItems
  <2> QED
    BY <2>1 DEF IInv, ItemReturns
<1>7. ASSUME ~config.dry_run PROVE s["succeeded"] + s["failed"] = n
  <2>1. \A k \in 1..n : dir.rows[k].status # "planned"
    BY <1>6, <1>7
  <2>2. Counted(dir.rows, "planned", n) = 0
    BY <1>2, <2>1, NoneCounted
  <2>3. n \in 0..n
    BY <1>2
  <2>4. n = Counted(dir.rows, "planned", n) + Counted(dir.rows, "succeeded", n)
            + Counted(dir.rows, "failed", n)
    BY <1>2, <2>3, AllCounted
  <2>5. /\ s["succeeded"] = Counted(dir.rows, "succeeded", n)
        /\ s["failed"] = Counted(dir.rows, "failed", n)
    BY <1>3 DEF Statuses
  <2> QED
    BY <1>2, <1>4, <2>2, <2>4, <2>5
<1> QED
  BY <1>3, <1>4, <1>5, <1>6, <1>7

\* When the batch has ended, no row is missing, or it was to stop at the failure that
\* is its last row.
LEMMA EndsCompleteOrStopped ==
    ASSUME TypeOK, IInv, main.pc = "ended"
    PROVE  LET n == Len(dir.rows) IN
           \/ n = Total
           \/ /\ n < Total /\ n > 0 /\ config.fail_fast /\ ~config.dry_run
              /\ Failed(dir.rows[n])
              /\ \A k \in 1..n : Failed(dir.rows[k]) <=> k = n
              /\ Indexes(dir.rows) = (config.offset + 1)..(config.offset + n)
<1> DEFINE n == Len(dir.rows)
<1>1. Live
  BY DEF Live
<1>2. n \in 0..Total /\ n \in Nat /\ Total \in Nat
  BY <1>1, RowsAreSelected, SelectedIs
<1>3. n = main.position - 1 /\ main.position \in Nat
  BY <1>1 DEF IInv, RowsAreItems, TypeOK
<1>4. DOMAIN dir.rows = 1..n
  BY DEF TypeOK
<1>5. CASE main.position > Total
  BY <1>2, <1>3, <1>5
<1>6. CASE ~(main.position > Total)
  <2>1. config.fail_fast /\ ~config.dry_run /\ n > 0 /\ Failed(dir.rows[n])
    BY <1>6 DEF IInv, Stops
  <2>2. \A k \in 1..n : Failed(dir.rows[k]) => k = n
    BY <1>1, <1>4, <2>1 DEF IInv, Stops
  <2>3. ~BadArguments
    BY DEF IInv, StartsEmpty
  <2>4. config.concurrency = 1
    BY <2>1, <2>3, SelectedIs DEF BadArguments
  <2>5. \A k \in 1..n : dir.rows[k].index = config.offset + k
    BY <1>1, <1>4, <2>1, <2>4 DEF IInv, InSequence
  <2>6. config.offset \in Nat
    BY SelectedIs
  <2>7. Indexes(dir.rows) = (config.offset + 1)..(config.offset + n)
    <3>1. \A i \in (config.offset + 1)..(config.offset + n) :
             i - config.offset \in 1..n /\ config.offset + (i - config.offset) = i
      BY <1>2, <2>6
    <3>2. \A k \in 1..n : config.offset + k \in (config.offset + 1)..(config.offset + n)
      BY <1>2, <2>6
    <3>3. \A i \in (config.offset + 1)..(config.offset + n) : i \in Indexes(dir.rows)
      <4> SUFFICES ASSUME NEW i \in (config.offset + 1)..(config.offset + n)
                   PROVE  \E k \in 1..n : dir.rows[k].index = i
        BY <1>4 DEF Indexes
      <4> DEFINE k == i - config.offset
      <4>1. k \in 1..n /\ config.offset + k = i
        BY <3>1
      <4> HIDE DEF k
      <4> QED
        BY <2>5, <4>1
    <3>4. \A i \in Indexes(dir.rows) : i \in (config.offset + 1)..(config.offset + n)
      BY <1>4, <2>5, <3>2 DEF Indexes
    <3> QED
      BY <3>3, <3>4
  <2>8. n < Total
    BY <1>2, <1>3, <1>6
  <2> QED
    BY <1>2, <2>1, <2>2, <2>7, <2>8
<1> QED
  BY <1>5, <1>6

LEMMA SummaryIsRight ==
    ASSUME TypeOK, IInv
    PROVE  SummaryAccountsForAll
<1>1. NothingRecordedTwice /\ FailuresFollowRows
  BY DEF IInv
<1> SUFFICES ASSUME dir.summary # None
             PROVE  /\ Len(dir.failures) = Counted(dir.rows, "failed", Len(dir.rows))
                    /\ DecisionsSorted /\ AllOrUpToFailure /\ SummaryCounts
  BY <1>1 DEF SummaryAccountsForAll
<1> DEFINE n == Len(dir.rows)
           s == counts.status
           completed == s["succeeded"] + s["failed"]
           status == BatchStatus(Total, completed, s["failed"])
<1>2. main.pc = "ended" /\ Live /\ RowsCounted = n
  BY DEF IInv, StartsEmpty, Live, RowsCounted
<1>3. dir.rows \in Seq(BatchRow) /\ n \in Nat /\ DOMAIN dir.rows = 1..n
  BY DEF TypeOK
<1>4. dir.summary = [status |-> status, total_selected |-> Total, status_counts |-> s]
  BY <1>2 DEF IInv, Written
<1>5. dir.summary.status = status /\ dir.summary.status_counts = s
  BY <1>4
<1>6. /\ \A st \in Statuses : s[st] = Counted(dir.rows, st, n)
      /\ s["succeeded"] \in Nat /\ s["failed"] \in Nat
      /\ config.dry_run => \A k \in 1..n : dir.rows[k].status = "planned"
      /\ ~config.dry_run => \A k \in 1..n : dir.rows[k].status \in {"succeeded", "failed"}
      /\ ~config.dry_run => completed = n
  BY <1>2, RowsHaveStatus
<1>7. \/ n = Total
      \/ /\ n < Total /\ n > 0 /\ config.fail_fast /\ ~config.dry_run
         /\ Failed(dir.rows[n])
         /\ \A k \in 1..n : Failed(dir.rows[k]) <=> k = n
         /\ Indexes(dir.rows) = (config.offset + 1)..(config.offset + n)
  BY <1>2, EndsCompleteOrStopped
<1>8. s["failed"] = 0 <=> \A k \in 1..n : dir.rows[k].status # "failed"
  <2>1. s["failed"] = Counted(dir.rows, "failed", n)
    BY <1>6 DEF Statuses
  <2> QED
    BY <1>3, <2>1, NoneCounted
<1>9. Len(dir.failures) = Counted(dir.rows, "failed", n)
  BY <1>2 DEF IInv, Accounts
<1>10. DecisionsSorted
  <2> DEFINE rows == counts.final_rows
  <2>1. rows \in Seq(BatchRow) /\ \A k, l \in DOMAIN rows : rows[k].index = rows[l].index => k = l
    BY <1>2 DEF TypeOK, IInv, Accounts
  <2>2. dir.decisions = SortedByIndex(rows)
    BY <1>2 DEF IInv, Written
  <2>3. Elements(rows) = SucceededOf(dir.rows, n)
    BY <1>2 DEF IInv, Accounts
  <2> HIDE DEF rows
  <2>4. /\ Elements(dir.decisions) = Elements(rows)
        /\ \A a, b \in DOMAIN dir.decisions :
              a < b => dir.decisions[a].index < dir.decisions[b].index
    BY <2>1, <2>2, SortedIsSorted
  <2> QED
    BY <2>3, <2>4 DEF DecisionsSorted, Elements, SucceededOf
<1> HIDE DEF n, s, completed, status
<1>11. Total \in Nat
  BY SelectedIs
<1>12. n = Total => Indexes(dir.rows) = (config.offset + 1)..(config.offset + Total)
  BY <1>2, RowsAreSelected DEF n
<1>13. \A k \in 1..n : Failed(dir.rows[k]) <=> dir.rows[k].status = "failed"
  BY DEF Failed
<1>14. ~config.dry_run /\ n < Total => s["failed"] > 0
  BY <1>3, <1>6, <1>7, <1>8, <1>13
<1>15. status = IF config.dry_run THEN "DRY_RUN"
                ELSE IF Total = 0 THEN "EMPTY"
                ELSE IF s["failed"] > 0
                     THEN IF completed < Total THEN "STOPPED_AFTER_FAILURE"
                                               ELSE "COMPLETED_WITH_FAILURES"
                ELSE IF completed = Total THEN "SUCCEEDED" ELSE "INCOMPLETE"
  BY <1>6, <1>11 DEF BatchStatus, status
<1>16. status = "STOPPED_AFTER_FAILURE" <=> n < Total
  BY <1>3, <1>6, <1>7, <1>11, <1>14, <1>15
<1>17. AllOrUpToFailure
  BY <1>3, <1>5, <1>7, <1>11, <1>12, <1>16 DEF AllOrUpToFailure, n, Total
<1>18. SummaryCounts
  <2>1. \A st \in DOMAIN s : s[st] = Counted(dir.rows, st, n)
    <3>1. DOMAIN s = Statuses
      BY DEF TypeOK, Statuses, s
    <3> QED
      BY <1>6, <3>1
  <2>2. status # "INCOMPLETE"
    BY <1>3, <1>6, <1>7, <1>11, <1>14, <1>15
  <2>3. status = "SUCCEEDED" <=> ~config.dry_run /\ Total > 0 /\ s["failed"] = 0
    BY <1>3, <1>6, <1>7, <1>11, <1>14, <1>15
  <2>4. n > 0 /\ (\A k \in 1..n : dir.rows[k].status = "succeeded")
           <=> ~config.dry_run /\ Total > 0 /\ s["failed"] = 0
    <3>1. ASSUME n > 0, \A k \in 1..n : dir.rows[k].status = "succeeded"
          PROVE  ~config.dry_run /\ Total > 0 /\ s["failed"] = 0
      <4>1. 1 \in 1..n
        BY <1>3, <3>1
      <4>2. dir.rows[1].status # "planned"
        BY <3>1, <4>1
      <4>3. Total > 0
        BY <1>3, <1>7, <1>11, <3>1
      <4> QED
        BY <1>6, <1>8, <3>1, <4>1, <4>2, <4>3
    <3>2. ASSUME ~config.dry_run, Total > 0, s["failed"] = 0
          PROVE  n > 0 /\ \A k \in 1..n : dir.rows[k].status = "succeeded"
      <4>1. n = Total
        BY <1>3, <1>7, <1>14, <3>2
      <4> QED
        BY <1>6, <1>8, <3>2, <4>1
    <3> QED
      BY <3>1, <3>2
  <2> QED
    BY <1>3, <1>5, <2>1, <2>2, <2>3, <2>4 DEF SummaryCounts, n
<1> QED
  BY <1>9, <1>10, <1>17, <1>18 DEF n

\* No paper is recorded twice, also by a second run after a kill, and what the summary
\* says is what was recorded: manifest.jsonl, failures.jsonl, final_decisions.csv and
\* summary.json tell of the same papers.
THEOREM SummaryAlwaysAccountsForAll == Spec => []SummaryAccountsForAll
  BY BatchStaysSound, SummaryIsRight, PTL
-----------------------------------------------------------------------------
(* Comparing the batch with its corpus.                                    *)

\* The last row of a paper is one of its rows.
LEMMA LastRowIs ==
    ASSUME NEW rows, NEW n \in Nat, DOMAIN rows = 1..n,
           NEW id, \E k \in 1..n : rows[k].paper_id = id
    PROVE  LastRowOf(rows, id) \in 1..n /\ rows[LastRowOf(rows, id)].paper_id = id
<1> DEFINE T == {m \in 0..n : rows[n - m].paper_id = id /\ n - m \in 1..n}
<1>1. T \in SUBSET Nat
  OBVIOUS
<1>2. T # {}
  <2>1. PICK k \in 1..n : rows[k].paper_id = id
    OBVIOUS
  <2>2. n - k \in 0..n /\ n - (n - k) = k
    OBVIOUS
  <2>3. n - k \in T
    BY <2>1, <2>2
  <2> QED
    BY <2>3
<1> HIDE DEF T
<1>3. PICK m \in T : \A l \in T : m <= l
  BY <1>1, <1>2, LeastElement
<1> DEFINE k == n - m
<1>4. k \in 1..n /\ rows[k].paper_id = id /\ m \in 0..n
  BY <1>3 DEF T
<1>5. ASSUME NEW l \in 1..n, rows[l].paper_id = id PROVE l <= k
  <2>1. n - l \in 0..n /\ n - (n - l) = l
    OBVIOUS
  <2>2. n - l \in T
    BY <1>5, <2>1 DEF T
  <2>3. m <= n - l
    BY <1>3, <2>2
  <2> QED
    BY <1>4, <2>3
<1> HIDE DEF k
<1>6. \E last \in DOMAIN rows :
        /\ rows[last].paper_id = id
        /\ \A l \in DOMAIN rows : rows[l].paper_id = id => l <= last
  BY <1>4, <1>5
<1> QED
  BY <1>6 DEF LastRowOf

LEMMA ByIdIs ==
    ASSUME NEW rows, NEW n \in Nat, DOMAIN rows = 1..n
    PROVE  /\ DOMAIN ById(rows) = {rows[k].paper_id : k \in 1..n}
           /\ \A id \in DOMAIN ById(rows) : \E k \in 1..n :
                 rows[k].paper_id = id /\ ById(rows)[id] = rows[k]
<1>1. DOMAIN ById(rows) = {rows[k].paper_id : k \in 1..n}
  BY DEF ById
<1>2. ASSUME NEW id \in DOMAIN ById(rows)
      PROVE  \E k \in 1..n : rows[k].paper_id = id /\ ById(rows)[id] = rows[k]
  <2>1. \E k \in 1..n : rows[k].paper_id = id
    BY <1>1
  <2>2. LastRowOf(rows, id) \in 1..n /\ rows[LastRowOf(rows, id)].paper_id = id
    BY <2>1, LastRowIs
  <2>3. ById(rows)[id] = rows[LastRowOf(rows, id)]
    BY <1>1 DEF ById
  <2> QED
    BY <2>2, <2>3
<1> QED
  BY <1>1, <1>2

\* A comparison has one of four outcomes, and is one of a succeeded row if it is
\* right or wrong.
LEMMA AlignmentIs ==
    ASSUME NEW gold, NEW prediction
    PROVE  /\ alignment(gold, prediction) \in {"not_comparable", "missing_gold", "correct", "wrong"}
           /\ alignment(gold, prediction) \in {"correct", "wrong"} =>
                 /\ prediction.status = "succeeded"
                 /\ normalize_prediction_bucket(prediction.final_decision) # None
<1> DEFINE comparable == prediction.status = "succeeded"
                         /\ normalize_prediction_bucket(prediction.final_decision) # None
<1>1. CASE ~comparable
  <2>1. alignment(gold, prediction) = "not_comparable"
    BY <1>1 DEF alignment
  <2> QED
    BY <2>1
<1>2. CASE comparable
  <2>1. CASE normalize_gold_bucket(gold) = None
    <3>1. alignment(gold, prediction) = "missing_gold"
      BY <1>2, <2>1 DEF alignment
    <3> QED
      BY <3>1
  <2>2. CASE normalize_gold_bucket(gold) # None
    <3>1. alignment(gold, prediction) \in {"correct", "wrong"}
      BY <1>2, <2>2 DEF alignment
    <3> QED
      BY <1>2, <3>1
  <2> QED
    BY <2>1, <2>2
<1> QED
  BY <1>1, <1>2

\* Four disjoint parts make up the whole.
LEMMA FourParts ==
    ASSUME NEW S, IsFiniteSet(S), NEW A, NEW B, NEW C, NEW D,
           S = ((A \cup B) \cup C) \cup D,
           A \cap B = {}, (A \cup B) \cap C = {}, ((A \cup B) \cup C) \cap D = {}
    PROVE  Cardinality(S) = Cardinality(A) + Cardinality(B) + Cardinality(C) + Cardinality(D)
<1>1. A \in SUBSET S /\ B \in SUBSET S /\ C \in SUBSET S /\ D \in SUBSET S
  OBVIOUS
<1>2. IsFiniteSet(A) /\ IsFiniteSet(B) /\ IsFiniteSet(C) /\ IsFiniteSet(D)
  BY <1>1, FS_Subset
<1>3. /\ Cardinality(A) \in Nat /\ Cardinality(B) \in Nat
      /\ Cardinality(C) \in Nat /\ Cardinality(D) \in Nat
  BY <1>2, FS_CardinalityType
<1>4. Cardinality({}) = 0
  BY FS_EmptySet
<1>5. /\ IsFiniteSet(A \cup B)
      /\ Cardinality(A \cup B) = Cardinality(A) + Cardinality(B) - 0
  BY <1>2, <1>4, FS_Union
<1>6. /\ IsFiniteSet((A \cup B) \cup C)
      /\ Cardinality((A \cup B) \cup C) = Cardinality(A \cup B) + Cardinality(C) - 0
  BY <1>2, <1>4, <1>5, FS_Union
<1>7. Cardinality(((A \cup B) \cup C) \cup D) = Cardinality((A \cup B) \cup C) + Cardinality(D) - 0
  BY <1>2, <1>4, <1>6, FS_Union
<1> QED
  BY <1>3, <1>5, <1>6, <1>7

\* The gold papers whose decision is not known.
MissingGold(details) == Cardinality({id \in DOMAIN details : details[id] = "missing_gold"})

\* Each gold paper has one verdict; of the papers that were compared, those whose
\* prediction is accept_like have a row that says so.
Evaluates(a, gold_rows, g, rows, n) ==
    /\ a.total_gold = a.comparable_count + a.missing_prediction_count
                         + a.failed_prediction_count + MissingGold(a.details)
    /\ (\A k \in 1..n : \E l \in 1..g : rows[k].paper_id = gold_rows[l].paper_id) =>
          a.extra_prediction_count = 0
    /\ \A id \in a.accept_like : \E k \in 1..n :
          /\ rows[k].paper_id = id /\ rows[k].status = "succeeded"
          /\ rows[k].final_decision \in AcceptLike

LEMMA EvaluationIs ==
    ASSUME NEW gold_rows, NEW g \in Nat, DOMAIN gold_rows = 1..g,
           NEW rows, NEW n \in Nat, DOMAIN rows = 1..n
    PROVE  Evaluates(evaluate_alignment(gold_rows, rows), gold_rows, g, rows, n)
<1> DEFINE a == evaluate_alignment(gold_rows, rows)
           gold_by_id == ById(gold_rows)
           prediction_by_id == ById(rows)
           verdict(id) == IF id \notin DOMAIN prediction_by_id THEN "missing_prediction"
                          ELSE alignment(gold_by_id[id], prediction_by_id[id])
           G == DOMAIN gold_by_id
           details == [id \in G |-> verdict(id)]
           with(V) == {id \in DOMAIN details : details[id] \in V}
           bucket(id) == normalize_prediction_bucket(prediction_by_id[id].final_decision)
<1>1. /\ a.details = details
      /\ a.total_gold = Cardinality(G)
      /\ a.comparable_count = Cardinality(with({"correct", "wrong"}))
      /\ a.missing_prediction_count = Cardinality(with({"missing_prediction"}))
      /\ a.failed_prediction_count = Cardinality(with({"not_comparable"}))
      /\ a.extra_prediction_count = Cardinality(DOMAIN prediction_by_id \ G)
      /\ a.accept_like = {id \in DOMAIN details : details[id] \in {"correct", "wrong"}
                                                  /\ bucket(id) = "accept_like"}
  BY DEF evaluate_alignment
<1>2. G = {gold_rows[k].paper_id : k \in 1..g}
  <2>1. DOMAIN ById(gold_rows) = {gold_rows[k].paper_id : k \in 1..g}
    BY DEF ById
  <2> QED
    BY <2>1
<1>3. /\ DOMAIN prediction_by_id = {rows[k].paper_id : k \in 1..n}
      /\ \A id \in DOMAIN prediction_by_id : \E k \in 1..n :
            rows[k].paper_id = id /\ prediction_by_id[id] = rows[k]
  BY ByIdIs
<1>4. IsFiniteSet(G)
  <2> DEFINE f == [k \in 1..g |-> gold_rows[k].paper_id]
  <2>1. f \in Surjection(1..g, G)
    <3>1. f \in [1..g -> G]
      BY <1>2
    <3>2. \A t \in G : \E k \in 1..g : f[k] = t
      BY <1>2
    <3> HIDE DEF f, G
    <3> QED
      BY <3>1, <3>2 DEF Surjection
  <2>2. IsFiniteSet(1..g)
    BY FS_Interval
  <2> HIDE DEF f, G
  <2> QED
    BY <2>1, <2>2, FS_Surjection
<1>5. \A id : /\ verdict(id) \in {"missing_prediction", "not_comparable", "missing_gold",
                                  "correct", "wrong"}
              /\ verdict(id) \in {"correct", "wrong"} =>
                    /\ id \in DOMAIN prediction_by_id
                    /\ prediction_by_id[id].status = "succeeded" /\ bucket(id) # None
  BY AlignmentIs
<1> HIDE DEF a, verdict, gold_by_id, prediction_by_id
<1>6. DOMAIN details = G /\ \A id \in G : details[id] = verdict(id)
  OBVIOUS
<1> HIDE DEF details
<1>7. a.total_gold = a.comparable_count + a.missing_prediction_count
                        + a.failed_prediction_count + MissingGold(a.details)
  <2> DEFINE A == with({"correct", "wrong"})
             B == with({"missing_prediction"})
             C == with({"not_comparable"})
             D == {id \in DOMAIN a.details : a.details[id] = "missing_gold"}
  <2>1. D = {id \in DOMAIN details : details[id] = "missing_gold"}
    BY <1>1
  <2>2. G = ((A \cup B) \cup C) \cup D
    BY <1>5, <1>6, <2>1
  <2>3. A \cap B = {} /\ (A \cup B) \cap C = {} /\ ((A \cup B) \cup C) \cap D = {}
    BY <2>1
  <2>4. /\ a.comparable_count = Cardinality(A) /\ a.missing_prediction_count = Cardinality(B)
        /\ a.failed_prediction_count = Cardinality(C)
    BY <1>1
  <2> HIDE DEF A, B, C, D, G
  <2>5. Cardinality(G) = Cardinality(A) + Cardinality(B) + Cardinality(C) + Cardinality(D)
    BY <1>4, <2>2, <2>3, FourParts
  <2>6. a.total_gold = Cardinality(G)
    BY <1>1
  <2>7. MissingGold(a.details) = Cardinality(D)
    BY DEF MissingGold, D
  <2> QED
    BY <2>4, <2>5, <2>6, <2>7
<1>8. ASSUME \A k \in 1..n : \E l \in 1..g : rows[k].paper_id = gold_rows[l].paper_id
      PROVE  a.extra_prediction_count = 0
  <2>1. DOMAIN prediction_by_id \ G = {}
    BY <1>2, <1>3, <1>8
  <2> QED
    BY <1>1, <2>1, FS_EmptySet
<1>9. ASSUME NEW id \in a.accept_like
      PROVE  \E k \in 1..n : /\ rows[k].paper_id = id /\ rows[k].status = "succeeded"
                             /\ rows[k].final_decision \in AcceptLike
  <2>1. id \in G /\ details[id] \in {"correct", "wrong"} /\ bucket(id) = "accept_like"
    BY <1>1, <1>6
  <2>2. /\ id \in DOMAIN prediction_by_id /\ prediction_by_id[id].status = "succeeded"
        /\ bucket(id) # None
    BY <1>5, <1>6, <2>1
  <2>3. PICK k \in 1..n : rows[k].paper_id = id /\ prediction_by_id[id] = rows[k]
    BY <1>3, <2>2
  <2>4. /\ normalize_prediction_bucket(rows[k].final_decision) = "accept_like"
        /\ normalize_prediction_bucket(rows[k].final_decision) # None
    BY <2>1, <2>2, <2>3
  <2>5. rows[k].final_decision \in AcceptLike
    BY <2>4 DEF normalize_prediction_bucket, AcceptLike, RejectLike
  <2> QED
    BY <2>2, <2>3, <2>5
<1>10. Evaluates(a, gold_rows, g, rows, n)
  BY <1>7, <1>8, <1>9 DEF Evaluates
<1> QED
  BY <1>10 DEF a

LEMMA AcceptanceIsRight ==
    ASSUME TypeOK, IInv
    PROVE  AcceptedPapersWereRead
<1> SUFFICES ASSUME dir.summary # None
             PROVE  LET a == evaluate_alignment(manifest, dir.rows) IN
                    /\ a.total_gold = a.comparable_count + a.missing_prediction_count
                                         + a.failed_prediction_count + MissingGold(a.details)
                    /\ a.extra_prediction_count = 0
                    /\ \A id \in a.accept_like : \E i \in Items :
                          /\ Selected[i].paper_id = id
                          /\ parse[Paper(i)].pc = "parsed"
                          /\ parse[Paper(i)].by = "pymupdf" /\ ShouldTryMinerU =>
                                "mineru" \in parse[Paper(i)].errors
  BY DEF AcceptedPapersWereRead, MissingGold
<1> DEFINE n == Len(dir.rows)
           g == Len(manifest)
           a == evaluate_alignment(manifest, dir.rows)
<1>1. main.pc = "ended" /\ Live /\ ~BadArguments
  BY DEF IInv, StartsEmpty, Live
<1>2. n \in Nat /\ DOMAIN dir.rows = 1..n
  BY DEF TypeOK
<1>3. g \in Nat /\ DOMAIN manifest = 1..g
  <2>1. manifest \in Seq(ManifestRows)
    BY <1>1, BatchReviewAssumption DEF BadArguments, TypeOK
  <2> QED
    BY <2>1
<1>4. \A k \in 1..n : \E i \in Items :
        /\ dir.rows[k].paper_id = Selected[i].paper_id
        /\ dir.rows[k].status = "succeeded" /\ dir.rows[k].final_decision \in AcceptLike =>
              parse[Paper(i)].pc = "parsed"
  <2> SUFFICES ASSUME NEW k \in 1..n
               PROVE  \E i \in Items :
                        /\ dir.rows[k].paper_id = Selected[i].paper_id
                        /\ dir.rows[k].status = "succeeded"
                           /\ dir.rows[k].final_decision \in AcceptLike =>
                              parse[Paper(i)].pc = "parsed"
    OBVIOUS
  <2>1. CASE config.dry_run
    <3>1. dir.rows[k] = Row(k, "planned") /\ n = main.position - 1 /\ main.position <= Total + 1
      BY <1>1, <1>2, <2>1 DEF IInv, RowsAreItems
    <3>2. k \in Items
      <4>1. main.position \in Nat /\ Total \in Nat /\ Items = 1..Total
        BY SelectedIs DEF TypeOK
      <4> QED
        BY <1>2, <3>1, <4>1
    <3>3. dir.rows[k].status = "planned" /\ dir.rows[k].paper_id = Selected[k].paper_id
      BY <3>1 DEF Row
    <3> QED
      BY <3>2, <3>3
  <2>2. CASE ~config.dry_run
    <3>1. PICK i \in Items : item[i].pc = "recorded" /\ dir.rows[k] = item[i].row
      BY <1>1, <1>2, <2>2 DEF IInv, RowsAreItems
    <3> QED
      BY <3>1 DEF IInv, ItemReturns
  <2> QED
    BY <2>1, <2>2
<1> HIDE DEF n, g
<1>evaluates. Evaluates(a, manifest, g, dir.rows, n)
  BY <1>2, <1>3, EvaluationIs
<1> HIDE DEF a
<1>5. /\ a.total_gold = a.comparable_count + a.missing_prediction_count
            + a.failed_prediction_count + MissingGold(a.details)
      /\ (\A k \in 1..n : \E l \in 1..g : dir.rows[k].paper_id = manifest[l].paper_id) =>
            a.extra_prediction_count = 0
      /\ \A id \in a.accept_like : \E k \in 1..n :
            /\ dir.rows[k].paper_id = id /\ dir.rows[k].status = "succeeded"
            /\ dir.rows[k].final_decision \in AcceptLike
  BY <1>evaluates DEF Evaluates
<1>6. a.extra_prediction_count = 0
  <2>1. \A i \in Items : \E l \in 1..g : Selected[i].paper_id = manifest[l].paper_id
    BY <1>3, SelectedIs
  <2> QED
    BY <1>4, <1>5, <2>1
<1>7. ASSUME NEW id \in a.accept_like
      PROVE  \E i \in Items :
                /\ Selected[i].paper_id = id
                /\ parse[Paper(i)].pc = "parsed"
                /\ parse[Paper(i)].by = "pymupdf" /\ ShouldTryMinerU =>
                      "mineru" \in parse[Paper(i)].errors
  <2>1. PICK k \in 1..n : /\ dir.rows[k].paper_id = id /\ dir.rows[k].status = "succeeded"
                          /\ dir.rows[k].final_decision \in AcceptLike
    BY <1>5, <1>7
  <2>2. PICK i \in Items : Selected[i].paper_id = id /\ parse[Paper(i)].pc = "parsed"
    BY <1>4, <2>1
  <2>3. Paper(i) \in Papers
    BY <1>1, PapersAreGiven
  <2> QED
    BY <2>2, <2>3 DEF IInv, ParsersInOrder
<1> QED
  BY <1>5, <1>6, <1>7 DEF a

\* decision_alignment.py gives each paper of the corpus one verdict, finds no decision
\* about a paper that is not in it, and counts as accepted only what a parser read:
\* never a paper that was rejected because it could not be read.
THEOREM AcceptedPapersWereAlwaysRead == Spec => []AcceptedPapersWereRead
  BY BatchStaysSound, AcceptanceIsRight, PTL
==============================================================================

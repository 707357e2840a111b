--------------------------- MODULE RunLibraryProofs ---------------------------
(***************************************************************************)
(* The inductive invariant of RunLibrary, and what follows from it for any *)
(* number of jobs, clients and crashes: RecordAgreesWithFiles and          *)
(* ReportedDeletedOnce.  And, of Submission, for which catalogs a run      *)
(* reads the venue file that was chosen.                                   *)
(***************************************************************************)
EXTENDS RunLibrary, FiniteSetTheorems, TLAPS

\* Steps at which a request works on the artifacts of its job, and those of a
\* deletion.
Working == {"artifact dir", "iterdir", "stat", "check file", "read file", "unlink file",
            "safe dir", "rmtree"}
RemovesRecord == {"check record", "unlink record"}
Deleting == {"safe dir", "rmtree"} \cup RemovesRecord

\* What a task is to write, given how far it is; only a task that is about to write
\* its last record, or has ended, may know that all artifacts are there.
Aims(t) ==
    /\ t.pc = "waiting" => t.goal = "QUEUED"
    /\ t.pc \in {"workflow", "graph"} => t.goal = "RUNNING"
    /\ t.pc = "reread" => t.goal = "EVENT"
    /\ t.goal = "EVENT" => t.checked # 0
    /\ t.pc = "artifacts" => t.goal \in Finished
    /\ t.names /\ t.pc # "over" => t.goal \in Finished /\ t.pc # "artifacts"

\* Until the graph has ended there are no files, and files are in a directory.
FilesInDir(j) ==
    /\ files[j] # {} => dir[j]
    /\ task[j].pc # "over" /\ task[j].goal \notin Finished => files[j] = {}

Untouched(j) == j \notin removing /\ \A n \in Names : reported[j][n] = 0

\* A record names the directory when the task has written its last, and nobody has
\* touched the artifacts of a run before; until a deletion begins, those that nobody
\* deleted are there.
DirectoryNamed(j) ==
    /\ record[j].artifact_dir => task[j].pc = "over" /\ task[j].names
    /\ ~task[j].cur.artifact_dir
    /\ ~task[j].names => Untouched(j)
    /\ task[j].names /\ j \notin removing =>
          dir[j] /\ files[j] = {n \in Names : reported[j][n] = 0}

\* Of a job that no cancel has met, the last record is that of its task, which has
\* ended then; deleted, it has no file, and no directory that it named.
LastRecord(j) ==
    j \notin canceled =>
        /\ Readable(j) /\ record[j].status \notin Active =>
              /\ task[j].pc = "over" /\ record[j].status \in Finished
              /\ record[j].artifact_dir = task[j].names
        /\ task[j].cur.status \in Active
        /\ reported[j][""] # 0 =>
              /\ reported[j][""] = 1 /\ ~HasFile(j)
              /\ task[j].pc = "over"
              /\ task[j].names => ~dir[j]

\* What was reported deleted of the artifacts is gone for good.
ArtifactsReportedOnce(j) ==
    \A n \in Names : reported[j][n] # 0 => reported[j][n] = 1 /\ n \notin files[j]

JobSound(j) ==
    /\ Aims(task[j]) /\ FilesInDir(j) /\ DirectoryNamed(j) /\ LastRecord(j)
    /\ ArtifactsReportedOnce(j)

\* A request works on the artifacts of a record that named them; if no cancel has met
\* the job, it removes the record when no task will write it any more, and in any
\* case after the directory that the record named.
Follows(r) ==
    /\ r.artifact_dir => /\ r.job \in Jobs
                         /\ task[r.job].pc = "over" /\ task[r.job].names
    /\ r.step \in Working => r.artifact_dir
    /\ r.step \in Deleting => \/ r.job \in canceled
                              \/ /\ task[r.job].pc = "over"
                                 /\ task[r.job].names => r.artifact_dir
    /\ r.step \in RemovesRecord /\ r.artifact_dir => ~dir[r.job]
    /\ r.step = "cancel fill" => r.job \in canceled
    /\ r.step \in {"list", "read record", "next"} => ~r.artifact_dir

IInv == (\A j \in Jobs : JobSound(j)) /\ (\A c \in Clients : Follows(request[c]))

-----------------------------------------------------------------------------
(* The initial state.                                                      *)

Records == [status : Status \cup Blank, artifact_dir : BOOLEAN]

\* The records, tasks and requests of the initial state are typed.
LEMMA InitialTypes ==
    /\ Record("NONE", FALSE) \in Records /\ Waiting \in Task /\ Idle \in HttpRequest
    /\ Idle.step = "idle" /\ ~Idle.artifact_dir /\ Idle.job = ""
<1>1. Record("NONE", FALSE) \in Records
  BY DEF Record, Records, Blank
<1>2. Waiting \in Task
  <2>1. Record("QUEUED", FALSE) \in [status : Status, artifact_dir : BOOLEAN]
    BY DEF Record, Status, Active
  <2>2. 0 \in 0..Threads
    BY RunLibraryAssumption
  <2> QED
    BY <2>1, <2>2 DEF Waiting, Task
<1>3. Idle \in HttpRequest
  BY DEF Idle, HttpRequest, Operations, Steps
<1> QED
  BY <1>1, <1>2, <1>3 DEF Idle

\* The initial state is typed.
LEMMA TypeInit == Init => TypeOK
<1> SUFFICES ASSUME Init PROVE TypeOK
  OBVIOUS
<1>1. 0 \in 0 .. MaxCrashes
  BY RunLibraryAssumption
<1>2. \A c \in Clients : request[c].step = "idle"
  BY InitialTypes DEF Init
<1>3. /\ record \in [Jobs -> Records] /\ task \in [Jobs -> Task]
      /\ request \in [Clients -> HttpRequest]
  BY InitialTypes DEF Init
<1>4. reported \in [Jobs -> [Parts -> 0..2]]
  <2>1. [n \in Parts |-> 0] \in [Parts -> 0..2]
    OBVIOUS
  <2> QED
    BY <2>1 DEF Init
<1> QED
  BY <1>1, <1>2, <1>3, <1>4 DEF Init, TypeOK, Records

\* The initial state satisfies the invariant.
LEMMA InvariantInit == Init => IInv
<1> SUFFICES ASSUME Init PROVE IInv
  OBVIOUS
<1>1. ASSUME NEW j \in Jobs PROVE JobSound(j)
  <2>1. /\ record[j].status = "NONE" /\ ~record[j].artifact_dir
        /\ task[j] = Waiting /\ files[j] = {} /\ ~dir[j]
        /\ reported[j][""] = 0 /\ Untouched(j)
    BY DEF Init, Record, Parts, Untouched
  <2>2. /\ task[j].pc = "waiting" /\ task[j].goal = "QUEUED" /\ ~task[j].names
        /\ ~task[j].cur.artifact_dir /\ task[j].cur.status \in Active
    <3>1. /\ Waiting.pc = "waiting" /\ Waiting.goal = "QUEUED" /\ ~Waiting.names
          /\ Waiting.cur = Record("QUEUED", FALSE)
      BY DEF Waiting
    <3>2. Record("QUEUED", FALSE).status \in Active /\ ~Record("QUEUED", FALSE).artifact_dir
      BY DEF Record, Active
    <3> QED
      BY <2>1, <3>1, <3>2
  <2>3. Aims(task[j])
    BY <2>2 DEF Aims
  <2>4. FilesInDir(j) /\ DirectoryNamed(j)
    BY <2>1, <2>2 DEF FilesInDir, DirectoryNamed
  <2>5. LastRecord(j) /\ ArtifactsReportedOnce(j)
    BY <2>1, <2>2 DEF LastRecord, ArtifactsReportedOnce, Readable, Status, Active, Finished,
       Untouched
  <2> QED
    BY <2>3, <2>4, <2>5 DEF JobSound
<1>2. ASSUME NEW c \in Clients PROVE Follows(request[c])
  <2>1. request[c].step = "idle" /\ ~request[c].artifact_dir
    BY InitialTypes DEF Init
  <2> QED
    BY <2>1 DEF Follows, Working, RemovesRecord, Deleting
<1> QED
  BY <1>1, <1>2 DEF IInv

-----------------------------------------------------------------------------
(* What a step does to jobs and requests.                                  *)

\* Nothing of the job changes that JobSound speaks of.
SameJob(i) ==
    /\ record'[i] = record[i] /\ task'[i] = task[i] /\ dir'[i] = dir[i]
    /\ files'[i] = files[i] /\ reported'[i] = reported[i]
    /\ i \in removing' <=> i \in removing
    /\ i \in canceled' <=> i \in canceled

\* A job that is left alone stays sound.
LEMMA SameJobSound ==
    ASSUME NEW i \in Jobs, JobSound(i), SameJob(i)
    PROVE  JobSound(i)'
<1>1. Aims(task[i])' /\ FilesInDir(i)' /\ ArtifactsReportedOnce(i)'
  BY DEF JobSound, SameJob, Aims, FilesInDir, ArtifactsReportedOnce
<1>2. DirectoryNamed(i)'
  BY DEF JobSound, SameJob, DirectoryNamed, Untouched
<1>3. LastRecord(i)'
  BY DEF JobSound, SameJob, LastRecord, Readable, HasFile
<1> QED
  BY <1>1, <1>2, <1>3 DEF JobSound

\* What requests rely on is kept: a task that is over stays so, a canceled job too,
\* and no directory appears any more.
Kept(i) ==
    /\ task[i].pc = "over" =>
          /\ task'[i].pc = "over" /\ task'[i].names = task[i].names
          /\ dir'[i] => dir[i]
    /\ i \in canceled => i \in canceled'

\* What TypeOK says of one request beyond HttpRequest.
WellFormed(r) ==
    /\ r.step \in {"list", "read record"} => r.found \subseteq Jobs
    /\ r.step \notin {"idle", "list", "read record", "next"} => r.job \in Jobs
    /\ r.step \in {"read file", "unlink file"} => r.name \in Names

\* What the invariant says of a request.
LEMMA RequestFacts ==
    ASSUME TypeOK, IInv, NEW c \in Clients
    PROVE  /\ request[c] \in HttpRequest /\ WellFormed(request[c]) /\ Follows(request[c])
           /\ request[c].step \notin {"idle", "list", "read record", "next"} =>
                 request[c].job \in Jobs
           /\ request[c].artifact_dir => request[c].job \in Jobs
<1>1. request[c] \in HttpRequest /\ Follows(request[c])
  BY DEF TypeOK, IInv
<1>2. WellFormed(request[c])
  BY DEF TypeOK, WellFormed
<1> QED
  BY <1>1, <1>2 DEF WellFormed, Follows

\* A request that is left alone follows what is kept.
LEMMA FollowsKept ==
    ASSUME TypeOK, IInv, NEW d \in Clients, request'[d] = request[d],
           \A i \in Jobs : Kept(i)
    PROVE  Follows(request[d])'
<1>1. Follows(request[d]) /\ (request[d].artifact_dir => request[d].job \in Jobs)
  BY RequestFacts
<1>2. request[d].step \in Working \cup Deleting \cup {"cancel fill"} => request[d].job \in Jobs
  BY RequestFacts DEF Working, Deleting, RemovesRecord
<1>3. CASE request[d].job \in Jobs
  <2>1. Kept(request[d].job)
    BY <1>3
  <2> QED
    BY <1>1, <1>3, <2>1 DEF Follows, Kept
<1>4. CASE request[d].job \notin Jobs
  BY <1>1, <1>2, <1>4 DEF Follows, Deleting
<1> QED
  BY <1>3, <1>4

\* A step on one job and perhaps one request keeps the invariant if they are sound
\* after it.
LEMMA StepPreserves ==
    ASSUME TypeOK, IInv, NEW j \in Jobs, JobSound(j)', Kept(j),
           \A i \in Jobs \ {j} : SameJob(i),
           \A d \in Clients : request'[d] = request[d] \/ Follows(request[d])'
    PROVE  IInv'
<1>1. ASSUME NEW i \in Jobs PROVE JobSound(i)'
  BY SameJobSound DEF IInv
<1>2. \A i \in Jobs : Kept(i)
  BY DEF SameJob, Kept
<1>3. ASSUME NEW d \in Clients PROVE Follows(request[d])'
  BY <1>2, FollowsKept
<1> QED
  BY <1>1, <1>3 DEF IInv

-----------------------------------------------------------------------------
(* What a step does to the requests.                                       *)

\* Request c becomes r, and the others stay.
Becomes(c, r) ==
    /\ request' \in [Clients -> HttpRequest]
    /\ request'[c] = r
    /\ \A d \in Clients \ {c} : request'[d] = request[d]

\* A request that takes a typed value is the only one that changes.
LEMMA BecomesIs ==
    ASSUME TypeOK, NEW c \in Clients, NEW r \in HttpRequest,
           request' = [request EXCEPT ![c] = r]
    PROVE  Becomes(c, r)
  BY DEF TypeOK, Becomes

\* Goto changes the step of one request.
LEMMA GotoIs ==
    ASSUME TypeOK, NEW c \in Clients, NEW step \in Steps, Goto(c, step)
    PROVE  /\ Becomes(c, request'[c])
           /\ request'[c].step = step
           /\ request'[c].job = request[c].job /\ request'[c].name = request[c].name
           /\ request'[c].artifact_dir = request[c].artifact_dir
<1> DEFINE r == [request[c] EXCEPT !.step = step]
<1>1. request[c] \in HttpRequest
  BY DEF TypeOK
<1>2. /\ r \in HttpRequest /\ r.step = step
      /\ r.job = request[c].job /\ r.name = request[c].name
      /\ r.artifact_dir = request[c].artifact_dir
  BY <1>1 DEF HttpRequest
<1>3. request' = [request EXCEPT ![c] = r]
  BY DEF Goto
<1> HIDE DEF r
<1>4. Becomes(c, r)
  BY <1>2, <1>3, BecomesIs
<1> QED
  BY <1>2, <1>4 DEF Becomes

\* HoldRecord changes the step of one request, and keeps what it has read.
LEMMA HoldRecordIs ==
    ASSUME TypeOK, NEW c \in Clients, NEW step \in Steps, HoldRecord(c, step),
           request[c].job \in Jobs
    PROVE  /\ Becomes(c, request'[c])
           /\ request'[c].step = step /\ request'[c].job = request[c].job
           /\ request'[c].artifact_dir = record[request[c].job].artifact_dir
<1> DEFINE named == record[request[c].job].artifact_dir
           r == [request[c] EXCEPT !.step = step, !.artifact_dir = named]
<1>1. request[c] \in HttpRequest /\ named \in BOOLEAN
  BY DEF TypeOK
<1>3. request' = [request EXCEPT ![c] = r]
  BY DEF HoldRecord
<1> HIDE DEF named
<1>2. r \in HttpRequest /\ r.step = step /\ r.job = request[c].job /\ r.artifact_dir = named
  BY <1>1 DEF HttpRequest
<1> HIDE DEF r
<1>4. Becomes(c, r)
  BY <1>2, <1>3, BecomesIs
<1> QED
  BY <1>2, <1>4 DEF Becomes, named

\* A request that ends, or goes on with the next job, has nothing to follow.
Done(c) ==
    /\ Becomes(c, request'[c]) /\ request'[c].step \in {"idle", "next"}
    /\ ~request'[c].artifact_dir

\* Answer ends one request.
LEMMA AnswerIs ==
    ASSUME TypeOK, NEW c \in Clients, Answer(c)
    PROVE  Done(c)
<1>1. Becomes(c, Idle)
  BY InitialTypes, BecomesIs DEF Answer
<1> QED
  BY <1>1, InitialTypes DEF Becomes, Done

\* GoOn lets one request take its next job.
LEMMA GoOnIs ==
    ASSUME TypeOK, NEW c \in Clients, GoOn(c)
    PROVE  Done(c)
<1> DEFINE r == [request[c] EXCEPT !.step = "next", !.job = "", !.artifact_dir = FALSE,
                                   !.found = {}]
<1>1. request[c] \in HttpRequest /\ "next" \in Steps
  BY DEF TypeOK, Steps
<1>2. r \in HttpRequest /\ r.step = "next" /\ ~r.artifact_dir
  BY <1>1 DEF HttpRequest
<1>3. request' = [request EXCEPT ![c] = r]
  BY DEF GoOn
<1> HIDE DEF r
<1>4. Becomes(c, r)
  BY <1>2, <1>3, BecomesIs
<1> QED
  BY <1>2, <1>4 DEF Becomes, Done

\* Raise ends one request, or lets it take its next job.
LEMMA RaiseIs ==
    ASSUME TypeOK, NEW c \in Clients, NEW error, Raise(c, error)
    PROVE  Done(c)
  BY AnswerIs, GoOnIs DEF Raise

\* A request that is done is well formed and follows whatever holds.
LEMMA DoneFollows ==
    ASSUME NEW c \in Clients, Done(c)
    PROVE  WellFormed(request'[c]) /\ Follows(request[c])'
  BY DEF Done, WellFormed, Follows, Working, RemovesRecord, Deleting

\* A step of one request alone keeps types and invariant if what the request
\* becomes is well formed and follows the records.
LEMMA OnlyRequestsPreserves ==
    ASSUME TypeOK, IInv, OnlyRequests, NEW c \in Clients, Becomes(c, request'[c]),
           WellFormed(request'[c]), Follows(request[c])'
    PROVE  TypeOK' /\ IInv'
<1>1. TypeOK'
  BY DEF OnlyRequests, Becomes, TypeOK, WellFormed
<1>2. ASSUME NEW i \in Jobs PROVE JobSound(i)' /\ Kept(i)
  <2>1. SameJob(i)
    BY DEF OnlyRequests, SameJob
  <2> QED
    BY <2>1, SameJobSound DEF IInv, SameJob, Kept
<1>3. ASSUME NEW d \in Clients PROVE Follows(request[d])'
  BY <1>2, FollowsKept DEF Becomes
<1> QED
  BY <1>1, <1>2, <1>3 DEF IInv

\* An answer, alone, keeps types and invariant.
LEMMA AnswerPreserves ==
    ASSUME TypeOK, IInv, OnlyRequests, NEW c \in Clients, Answer(c)
    PROVE  TypeOK' /\ IInv'
  BY AnswerIs, DoneFollows, OnlyRequestsPreserves DEF Done

\* So does a request that goes on.
LEMMA GoOnPreserves ==
    ASSUME TypeOK, IInv, OnlyRequests, NEW c \in Clients, GoOn(c)
    PROVE  TypeOK' /\ IInv'
  BY GoOnIs, DoneFollows, OnlyRequestsPreserves DEF Done

\* And an error.
LEMMA RaisePreserves ==
    ASSUME TypeOK, IInv, OnlyRequests, NEW c \in Clients, NEW error, Raise(c, error)
    PROVE  TypeOK' /\ IInv'
  BY RaiseIs, DoneFollows, OnlyRequestsPreserves DEF Done

\* Going to another step of the same job keeps types and invariant if the step may
\* follow what the request holds.
LEMMA GotoPreserves ==
    ASSUME TypeOK, IInv, OnlyRequests, NEW c \in Clients,
           NEW step \in Steps \ {"list", "read record", "read file", "unlink file"},
           Goto(c, step), request[c].job \in Jobs,
           Follows([request[c] EXCEPT !.step = step])
    PROVE  TypeOK' /\ IInv'
<1> DEFINE j == request[c].job
           r == [request[c] EXCEPT !.step = step]
<1>1. /\ Becomes(c, request'[c]) /\ request'[c].step = step
      /\ request'[c].job = request[c].job
      /\ request'[c].artifact_dir = request[c].artifact_dir
  BY GotoIs
<1>2. WellFormed(request'[c])
  BY <1>1 DEF WellFormed
<1>3. r.step = step /\ r.job = j /\ r.artifact_dir = request[c].artifact_dir
  <2>1. request[c] \in HttpRequest
    BY RequestFacts
  <2> QED
    BY <2>1 DEF HttpRequest
<1> HIDE DEF r
<1>4. Follows(r)
  BY DEF r
<1>5. Follows(request[c])'
  BY <1>1, <1>3, <1>4 DEF Follows, OnlyRequests
<1> QED
  BY <1>1, <1>2, <1>5, OnlyRequestsPreserves

\* So does holding a record.
LEMMA HoldRecordPreserves ==
    ASSUME TypeOK, IInv, OnlyRequests, NEW c \in Clients,
           NEW step \in {"safe dir", "check record", "artifact dir", "cancel open"},
           HoldRecord(c, step), request[c].job \in Jobs,
           step \in Working => record[request[c].job].artifact_dir,
           step = "check record" => ~record[request[c].job].artifact_dir,
           step \in Deleting => /\ Readable(request[c].job)
                                /\ record[request[c].job].status \notin Active
    PROVE  TypeOK' /\ IInv'
<1> DEFINE j == request[c].job
<1>1. /\ Becomes(c, request'[c]) /\ request'[c].step = step
      /\ request'[c].job = j /\ request'[c].artifact_dir = record[j].artifact_dir
  BY HoldRecordIs DEF Steps
<1>2. WellFormed(request'[c])
  BY <1>1 DEF WellFormed
<1>3. DirectoryNamed(j) /\ LastRecord(j)
  BY DEF IInv, JobSound
<1>4. step \in Deleting => \/ j \in canceled
                           \/ /\ task[j].pc = "over"
                              /\ task[j].names => record[j].artifact_dir
  BY <1>3 DEF LastRecord
<1>5. record[j].artifact_dir => task[j].pc = "over" /\ task[j].names
  BY <1>3 DEF DirectoryNamed
<1>6. Follows(request[c])'
  BY <1>1, <1>4, <1>5 DEF Follows, OnlyRequests, RemovesRecord
<1> QED
  BY <1>1, <1>2, <1>6, OnlyRequestsPreserves

-----------------------------------------------------------------------------
(* Requests that read.                                                     *)

\* A step of one request alone keeps types and invariant if what the request takes
\* is well formed and follows the records.
LEMMA RequestBecomes ==
    ASSUME TypeOK, IInv, OnlyRequests, NEW c \in Clients, NEW r \in HttpRequest,
           request' = [request EXCEPT ![c] = r], WellFormed(r), Follows(r)
    PROVE  TypeOK' /\ IInv'
<1>1. Becomes(c, r) /\ request'[c] = r
  BY BecomesIs DEF Becomes
<1>2. Follows(request[c])'
  <2>1. task' = task /\ dir' = dir /\ canceled' = canceled
    BY DEF OnlyRequests
  <2> DEFINE q == request'[c]
  <2>2. q = r
    BY <1>1
  <2> HIDE DEF q
  <2>3. Follows(q)
    BY <2>2
  <2>4. Follows(q) => Follows(request[c])'
    BY <2>1 DEF Follows, q
  <2> QED
    BY <2>3, <2>4
<1> QED
  BY <1>1, <1>2, OnlyRequestsPreserves

\* A new request has a job, or has one to choose.
LEMMA ReceivePreserves ==
    ASSUME TypeOK, IInv, NEW c \in Clients, Receive(c)
    PROVE  TypeOK' /\ IInv'
<1>1. ASSUME NEW r \in HttpRequest, request' = [request EXCEPT ![c] = r],
             r.step \in {"next", "get", "list"}, r.step = "get" => r.job \in Jobs,
             r.step = "list" => r.found = {}, ~r.artifact_dir
      PROVE  TypeOK' /\ IInv'
  <2>1. WellFormed(r) /\ Follows(r)
    BY <1>1 DEF WellFormed, Follows, Working, RemovesRecord, Deleting
  <2> QED
    BY <1>1, <2>1, RequestBecomes DEF Receive
<1>2. /\ Idle \in HttpRequest /\ Idle.found = {} /\ ~Idle.artifact_dir
      /\ {"next", "get", "list"} \subseteq Steps
  BY DEF Idle, HttpRequest, Operations, Steps
<1>3. Bulk \cup OneArtifact \cup Reads \cup {"cancel"} \cup Pages \subseteq Operations
  BY DEF Operations
<1>4. ASSUME NEW op \in Bulk, NEW jobs \in SUBSET Jobs, NEW name \in Names,
             request' = [request EXCEPT ![c] = [Idle EXCEPT !.op = op, !.step = "next",
                !.rest = jobs, !.name = IF op = "delete jobs" THEN "" ELSE name]]
      PROVE  TypeOK' /\ IInv'
  <2> DEFINE n == IF op = "delete jobs" THEN "" ELSE name
             r == [Idle EXCEPT !.op = op, !.step = "next", !.rest = jobs, !.name = n]
  <2>1. n \in Names \cup {""} /\ op \in Operations
    BY <1>3
  <2> HIDE DEF n
  <2>2. r \in HttpRequest /\ r.step = "next" /\ ~r.artifact_dir
    BY <1>2, <2>1 DEF HttpRequest
  <2>3. request' = [request EXCEPT ![c] = r]
    BY <1>4 DEF n
  <2> HIDE DEF r
  <2> QED
    BY <1>1, <2>2, <2>3
<1>5. ASSUME NEW op \in OneArtifact, NEW j \in Jobs, NEW name \in Names,
             request' = [request EXCEPT ![c] =
                [Idle EXCEPT !.op = op, !.step = "get", !.job = j, !.name = name]]
      PROVE  TypeOK' /\ IInv'
  <2> DEFINE r == [Idle EXCEPT !.op = op, !.step = "get", !.job = j, !.name = name]
  <2>1. op \in Operations
    BY <1>3
  <2>2. r \in HttpRequest /\ r.step = "get" /\ r.job = j /\ ~r.artifact_dir
    BY <1>2, <2>1 DEF HttpRequest
  <2>3. request' = [request EXCEPT ![c] = r]
    BY <1>5
  <2> HIDE DEF r
  <2> QED
    BY <1>1, <2>2, <2>3
<1>6. ASSUME NEW op \in Reads \cup {"cancel"}, NEW j \in Jobs,
             request' = [request EXCEPT ![c] =
                [Idle EXCEPT !.op = op, !.step = "get", !.job = j]]
      PROVE  TypeOK' /\ IInv'
  <2> DEFINE r == [Idle EXCEPT !.op = op, !.step = "get", !.job = j]
  <2>1. op \in Operations
    BY <1>3
  <2>2. r \in HttpRequest /\ r.step = "get" /\ r.job = j /\ ~r.artifact_dir
    BY <1>2, <2>1 DEF HttpRequest
  <2>3. request' = [request EXCEPT ![c] = r]
    BY <1>6
  <2> HIDE DEF r
  <2> QED
    BY <1>1, <2>2, <2>3
<1>7. ASSUME NEW op \in Pages,
             request' = [request EXCEPT ![c] = [Idle EXCEPT !.op = op, !.step = "list"]]
      PROVE  TypeOK' /\ IInv'
  <2> DEFINE r == [Idle EXCEPT !.op = op, !.step = "list"]
  <2>1. op \in Operations
    BY <1>3
  <2>2. r \in HttpRequest /\ r.step = "list" /\ r.found = {} /\ ~r.artifact_dir
    BY <1>2, <2>1 DEF HttpRequest
  <2>3. request' = [request EXCEPT ![c] = r]
    BY <1>7
  <2> HIDE DEF r
  <2> QED
    BY <1>1, <2>2, <2>3
<1> QED
  BY <1>4, <1>5, <1>6, <1>7 DEF Receive

\* A page begins to read the records that are there.
LEMMA ListPreserves ==
    ASSUME TypeOK, IInv, NEW c \in Clients, List(c)
    PROVE  TypeOK' /\ IInv'
<1> DEFINE r == [request[c] EXCEPT !.step = "read record", !.rest = {j \in Jobs : HasFile(j)}]
<1>1. request[c] \in HttpRequest /\ request[c].found \subseteq Jobs /\ ~request[c].artifact_dir
  BY RequestFacts DEF WellFormed, List, At, Follows
<1>2. /\ r \in HttpRequest /\ r.step = "read record" /\ r.found = request[c].found
      /\ ~r.artifact_dir
  <2>1. {j \in Jobs : HasFile(j)} \in SUBSET Jobs /\ "read record" \in Steps
    BY DEF Steps
  <2> QED
    BY <1>1, <2>1 DEF HttpRequest
<1>3. request' = [request EXCEPT ![c] = r]
  BY DEF List
<1> HIDE DEF r
<1>4. WellFormed(r) /\ Follows(r)
  BY <1>1, <1>2 DEF WellFormed, Follows, Working, RemovesRecord, Deleting
<1> QED
  BY <1>2, <1>3, <1>4, RequestBecomes DEF List

\* A page collects jobs, and begins with them when it has read all records.
LEMMA ReadRecordPreserves ==
    ASSUME TypeOK, IInv, NEW c \in Clients, ReadRecord(c)
    PROVE  TypeOK' /\ IInv'
<1>1. /\ request[c] \in HttpRequest /\ request[c].found \subseteq Jobs
      /\ request[c].rest \subseteq Jobs /\ request[c].step = "read record"
      /\ Follows(request[c])
  BY RequestFacts DEF WellFormed, ReadRecord, At, HttpRequest
<1>2. OnlyRequests
  BY DEF ReadRecord
<1>3. CASE Answer(c)
  BY <1>2, <1>3, AnswerPreserves
<1>4. CASE request' = [request EXCEPT ![c].step = "next", ![c].found = {},
                                      ![c].rest = request[c].found]
  <2> DEFINE r == [request[c] EXCEPT !.step = "next", !.found = {}, !.rest = request[c].found]
  <2>1. /\ r \in HttpRequest /\ r.step = "next"
        /\ r.artifact_dir = request[c].artifact_dir /\ r.job = request[c].job
    BY <1>1 DEF HttpRequest, Steps
  <2>2. request' = [request EXCEPT ![c] = r]
    BY <1>4
  <2> HIDE DEF r
  <2>3. WellFormed(r) /\ Follows(r)
    BY <1>1, <2>1 DEF WellFormed, Follows, Working, RemovesRecord, Deleting
  <2> QED
    BY <1>2, <2>1, <2>2, <2>3, RequestBecomes
<1>5. ASSUME NEW error, Raise(c, error)
      PROVE  TypeOK' /\ IInv'
  BY <1>2, <1>5, RaisePreserves
<1>6. ASSUME NEW j \in request[c].rest,
             request' = [request EXCEPT
                    ![c].rest = @ \ {j},
                    ![c].found = @ \cup {k \in {j} : /\ record[k].status \in Finished
                                                     /\ record[k].artifact_dir}]
      PROVE  TypeOK' /\ IInv'
  <2> DEFINE new == {k \in {j} : record[k].status \in Finished /\ record[k].artifact_dir}
             rest == request[c].rest \ {j}
             found == request[c].found \cup new
             r == [request[c] EXCEPT !.rest = rest, !.found = found]
  <2>1. rest \in SUBSET Jobs /\ found \in SUBSET (Jobs \cup Names) /\ found \subseteq Jobs
    BY <1>1
  <2>2. request' = [request EXCEPT ![c] = r]
    BY <1>6
  <2> HIDE DEF rest, found
  <2>3. /\ r \in HttpRequest /\ r.step = "read record" /\ r.found = found
        /\ r.artifact_dir = request[c].artifact_dir /\ r.job = request[c].job
    BY <1>1, <2>1 DEF HttpRequest
  <2> HIDE DEF r
  <2>4. WellFormed(r) /\ Follows(r)
    BY <1>1, <2>1, <2>3 DEF WellFormed, Follows, Working, RemovesRecord, Deleting
  <2> QED
    BY <1>2, <2>2, <2>3, <2>4, RequestBecomes
<1> QED
  BY <1>3, <1>4, <1>5, <1>6 DEF ReadRecord

\* The next job is handled, or the request answers.
LEMMA NextJobPreserves ==
    ASSUME TypeOK, IInv, NEW c \in Clients, NextJob(c)
    PROVE  TypeOK' /\ IInv'
<1>1. /\ request[c] \in HttpRequest /\ request[c].rest \subseteq Jobs
      /\ ~request[c].artifact_dir /\ OnlyRequests
  BY RequestFacts DEF NextJob, At, HttpRequest, Follows
<1>2. CASE Answer(c)
  BY <1>1, <1>2, AnswerPreserves
<1>3. ASSUME NEW j \in request[c].rest,
             request' = [request EXCEPT ![c].step = "get", ![c].job = j,
                                        ![c].rest = @ \ {j}]
      PROVE  TypeOK' /\ IInv'
  <2> DEFINE rest == request[c].rest \ {j}
             r == [request[c] EXCEPT !.step = "get", !.job = j, !.rest = rest]
  <2>1. rest \in SUBSET Jobs /\ j \in Jobs
    BY <1>1
  <2>2. request' = [request EXCEPT ![c] = r]
    BY <1>3
  <2> HIDE DEF rest
  <2>3. r \in HttpRequest /\ r.step = "get" /\ r.job = j /\ ~r.artifact_dir
    BY <1>1, <1>3, <2>1 DEF HttpRequest, Steps
  <2> HIDE DEF r
  <2>4. WellFormed(r) /\ Follows(r)
    BY <2>1, <2>3 DEF WellFormed, Follows, Working, RemovesRecord, Deleting
  <2> QED
    BY <1>1, <2>2, <2>3, <2>4, RequestBecomes
<1> QED
  BY <1>2, <1>3 DEF NextJob

\* Only a record that names a directory leads to its artifacts, and only one that is
\* not active any more to a deletion.
LEMMA GetJobPreserves ==
    ASSUME TypeOK, IInv, NEW c \in Clients, GetJob(c)
    PROVE  TypeOK' /\ IInv'
<1> DEFINE j == request[c].job
<1>1. j \in Jobs /\ OnlyRequests /\ request[c].step = "get"
  BY RequestFacts DEF GetJob, At
<1>2. ASSUME NEW error, Raise(c, error) PROVE TypeOK' /\ IInv'
  BY <1>1, <1>2, RaisePreserves
<1>3. CASE Goto(c, "cancel read")
  <2>1. Follows([request[c] EXCEPT !.step = "cancel read"])
    BY RequestFacts DEF HttpRequest, Follows, Working, RemovesRecord, Deleting
  <2> QED
    BY <1>1, <1>3, <2>1, GotoPreserves DEF Steps
<1>4. ASSUME Readable(j), record[j].status \notin Active,
             HoldRecord(c, IF record[j].artifact_dir THEN "safe dir" ELSE "check record")
      PROVE  TypeOK' /\ IInv'
  <2>1. CASE record[j].artifact_dir
    <3>1. HoldRecord(c, "safe dir")
      BY <1>4, <2>1
    <3> QED
      BY <1>1, <1>4, <2>1, <3>1, HoldRecordPreserves
  <2>2. CASE ~record[j].artifact_dir
    <3>1. HoldRecord(c, "check record") /\ "check record" \notin Working
      BY <1>4, <2>2 DEF Working
    <3> QED
      BY <1>1, <1>4, <2>2, <3>1, HoldRecordPreserves
  <2> QED
    BY <2>1, <2>2
<1>5. ASSUME record[j].artifact_dir, HoldRecord(c, "artifact dir")
      PROVE  TypeOK' /\ IInv'
  <2>1. "artifact dir" \notin Deleting
    BY DEF Deleting, RemovesRecord
  <2> QED
    BY <1>1, <1>5, <2>1, HoldRecordPreserves
<1> QED
  BY <1>2, <1>3, <1>4, <1>5 DEF GetJob

\* The directory is looked for.
LEMMA ArtifactDirPreserves ==
    ASSUME TypeOK, IInv, NEW c \in Clients, ArtifactDir(c)
    PROVE  TypeOK' /\ IInv'
<1>1. /\ request[c].job \in Jobs /\ OnlyRequests /\ request[c].artifact_dir
  BY RequestFacts DEF ArtifactDir, At, Working, Follows
<1>2. ASSUME NEW error, Raise(c, error) PROVE TypeOK' /\ IInv'
  BY <1>1, <1>2, RaisePreserves
<1>3. ASSUME NEW step \in {"iterdir", "check file"}, Goto(c, step)
      PROVE  TypeOK' /\ IInv'
  <2>1. Follows([request[c] EXCEPT !.step = step])
    BY <1>1, RequestFacts DEF HttpRequest, Follows, Working, RemovesRecord, Deleting
  <2> QED
    BY <1>1, <1>3, <2>1, GotoPreserves DEF Steps
<1> QED
  BY <1>2, <1>3 DEF ArtifactDir

\* The names of the files in a directory are read.
LEMMA IterDirPreserves ==
    ASSUME TypeOK, IInv, NEW c \in Clients, IterDir(c)
    PROVE  TypeOK' /\ IInv'
<1> DEFINE names == files[request[c].job]
           r == [request[c] EXCEPT !.step = "stat", !.found = names]
<1>1. /\ request[c].job \in Jobs /\ request[c].artifact_dir /\ OnlyRequests
      /\ request[c] \in HttpRequest /\ Follows(request[c])
  BY RequestFacts DEF IterDir, At, Working, Follows
<1>2. CASE Raise(c, "os error")
  BY <1>1, <1>2, RaisePreserves
<1>3. CASE request' = [request EXCEPT ![c].step = "stat", ![c].found = names]
  <2>1. names \in SUBSET (Jobs \cup Names) /\ "stat" \in Steps
    BY <1>1 DEF TypeOK, Steps
  <2>2. request' = [request EXCEPT ![c] = r]
    BY <1>3
  <2> HIDE DEF names
  <2>3. /\ r \in HttpRequest /\ r.step = "stat" /\ r.job = request[c].job
        /\ r.artifact_dir = request[c].artifact_dir
    BY <1>1, <2>1 DEF HttpRequest
  <2> HIDE DEF r
  <2>4. WellFormed(r) /\ Follows(r)
    BY <1>1, <2>3 DEF WellFormed, Follows, RemovesRecord, Deleting
  <2> QED
    BY <1>1, <2>2, <2>3, <2>4, RequestBecomes
<1> QED
  BY <1>2, <1>3 DEF IterDir

\* The files are looked at one after the other.
LEMMA StatFilesPreserves ==
    ASSUME TypeOK, IInv, NEW c \in Clients, StatFiles(c)
    PROVE  TypeOK' /\ IInv'
<1>1. OnlyRequests
  BY DEF StatFiles
<1>2. CASE Raise(c, "os error")
  BY <1>1, <1>2, RaisePreserves
<1>3. CASE Answer(c)
  BY <1>1, <1>3, AnswerPreserves
<1>4. CASE GoOn(c)
  BY <1>1, <1>4, GoOnPreserves
<1> QED
  BY <1>2, <1>3, <1>4 DEF StatFiles

\* A file that is read or removed has a name.
LEMMA CheckFilePreserves ==
    ASSUME TypeOK, IInv, NEW c \in Clients, CheckFile(c)
    PROVE  TypeOK' /\ IInv'
<1>1. /\ request[c].job \in Jobs /\ request[c].artifact_dir /\ OnlyRequests
      /\ request[c] \in HttpRequest /\ Follows(request[c])
  BY RequestFacts DEF CheckFile, At, Working, Follows
<1>2. CASE Raise(c, "artifact not found")
  BY <1>1, <1>2, RaisePreserves
<1>3. CASE Answer(c)
  BY <1>1, <1>3, AnswerPreserves
<1>4. ASSUME NEW name \in PathsFor(c) \cap files[request[c].job],
             NEW step \in {"unlink file", "read file"},
             request' = [request EXCEPT ![c].name = name, ![c].step = step]
      PROVE  TypeOK' /\ IInv'
  <2> DEFINE r == [request[c] EXCEPT !.name = name, !.step = step]
  <2>1. name \in Names /\ step \in Steps
    BY <1>1 DEF TypeOK, Steps
  <2>2. request' = [request EXCEPT ![c] = r]
    BY <1>4
  <2>3. /\ r \in HttpRequest /\ r.step = step /\ r.job = request[c].job /\ r.name = name
        /\ r.artifact_dir = request[c].artifact_dir
    BY <1>1, <2>1 DEF HttpRequest
  <2> HIDE DEF r
  <2>4. WellFormed(r) /\ Follows(r)
    BY <1>1, <2>1, <2>3 DEF WellFormed, Follows, RemovesRecord, Deleting
  <2> QED
    BY <1>1, <2>2, <2>3, <2>4, RequestBecomes
<1> QED
  BY <1>2, <1>3, <1>4 DEF CheckFile

\* A file is read or has gone.
LEMMA ReadFilePreserves ==
    ASSUME TypeOK, IInv, NEW c \in Clients, ReadFile(c)
    PROVE  TypeOK' /\ IInv'
  BY AnswerPreserves, RaisePreserves DEF ReadFile

\* A deletion goes past the directory only if it is not there.
LEMMA SafeDirPreserves ==
    ASSUME TypeOK, IInv, NEW c \in Clients, SafeDir(c)
    PROVE  TypeOK' /\ IInv'
<1> DEFINE j == request[c].job
<1>1. j \in Jobs /\ request[c].artifact_dir /\ request[c].step = "safe dir" /\ OnlyRequests
  BY RequestFacts DEF SafeDir, At, Working, Follows
<1>2. CASE dir[j]
  <2>1. Goto(c, "rmtree")
    BY <1>2 DEF SafeDir
  <2>2. Follows([request[c] EXCEPT !.step = "rmtree"])
    BY <1>1, RequestFacts DEF HttpRequest, Follows, Working, RemovesRecord, Deleting
  <2> QED
    BY <1>1, <2>1, <2>2, GotoPreserves DEF Steps
<1>3. CASE ~dir[j]
  <2>1. Goto(c, "check record")
    BY <1>3 DEF SafeDir
  <2>2. Follows([request[c] EXCEPT !.step = "check record"])
    BY <1>1, <1>3, RequestFacts DEF HttpRequest, Follows, Working, RemovesRecord, Deleting
  <2> QED
    BY <1>1, <2>1, <2>2, GotoPreserves DEF Steps
<1> QED
  BY <1>2, <1>3

\* The file of the record is looked for.
LEMMA CheckRecordPreserves ==
    ASSUME TypeOK, IInv, NEW c \in Clients, CheckRecord(c)
    PROVE  TypeOK' /\ IInv'
<1>1. request[c].job \in Jobs /\ request[c].step = "check record" /\ OnlyRequests
  BY RequestFacts DEF CheckRecord, At
<1>2. CASE Raise(c, "job not found")
  BY <1>1, <1>2, RaisePreserves
<1>3. CASE Goto(c, "unlink record")
  <2>1. Follows([request[c] EXCEPT !.step = "unlink record"])
    BY <1>1, RequestFacts DEF HttpRequest, Follows, Working, RemovesRecord, Deleting
  <2> QED
    BY <1>1, <1>3, <2>1, GotoPreserves DEF Steps
<1> QED
  BY <1>2, <1>3 DEF CheckRecord

\* A cancel holds the record that its update reads.
LEMMA CancelReadPreserves ==
    ASSUME TypeOK, IInv, NEW c \in Clients, CancelRead(c)
    PROVE  TypeOK' /\ IInv'
<1>1. request[c].job \in Jobs /\ OnlyRequests
  BY RequestFacts DEF CancelRead, At
<1>2. ASSUME NEW error, Raise(c, error) PROVE TypeOK' /\ IInv'
  BY <1>1, <1>2, RaisePreserves
<1>3. CASE HoldRecord(c, "cancel open")
  <2>1. "cancel open" \notin Working \cup Deleting
    BY DEF Working, Deleting, RemovesRecord
  <2> QED
    BY <1>1, <1>3, <2>1, HoldRecordPreserves
<1> QED
  BY <1>2, <1>3 DEF CancelRead

-----------------------------------------------------------------------------
(* The steps of tasks.                                                     *)

\* What the invariant says of a task that is not over.
LEMMA TaskFacts ==
    ASSUME TypeOK, IInv, NEW j \in Jobs, task[j].pc # "over"
    PROVE  /\ task[j] \in Task /\ Aims(task[j])
           /\ record[j] \in Records /\ ~record[j].artifact_dir /\ ~task[j].cur.artifact_dir
           /\ j \notin canceled =>
                 /\ Readable(j) => record[j].status \in Active
                 /\ task[j].cur.status \in Active /\ reported[j][""] = 0
  BY DEF TypeOK, Records, IInv, JobSound, DirectoryNamed, LastRecord

\* A step of a task that keeps requests and histories, and its job sound, keeps types
\* and invariant.
LEMMA TaskPreserves ==
    ASSUME TypeOK, IInv, NEW j \in Jobs, task[j].pc # "over", JobSound(j)',
           NEW t \in Task, task' = [task EXCEPT ![j] = t],
           record' \in [Jobs -> Records], writers' \in [Jobs -> SUBSET (Jobs \cup Clients)],
           dir' \in [Jobs -> BOOLEAN], files' \in [Jobs -> SUBSET Names],
           \A i \in Jobs \ {j} : /\ record'[i] = record[i] /\ dir'[i] = dir[i]
                                 /\ files'[i] = files[i],
           UNCHANGED <<request, reported, removing, canceled, crashes>>
    PROVE  TypeOK' /\ IInv'
<1>1. task' \in [Jobs -> Task] /\ \A i \in Jobs \ {j} : task'[i] = task[i]
  BY DEF TypeOK
<1>2. TypeOK'
  BY <1>1 DEF TypeOK, Records
<1>3. Kept(j) /\ \A i \in Jobs \ {j} : SameJob(i)
  BY <1>1 DEF Kept, SameJob
<1> QED
  BY <1>2, <1>3, StepPreserves

\* A task that becomes t without touching the files keeps its job sound: what it is
\* to write stays right, and so does what it has written.
LEMMA TaskSound ==
    ASSUME TypeOK, IInv, NEW j \in Jobs, task[j].pc # "over",
           NEW t \in Task, task' = [task EXCEPT ![j] = t],
           Aims(t), t.names = task[j].names, ~t.cur.artifact_dir,
           t.pc # "over" /\ t.goal \notin Finished => task[j].goal \notin Finished,
           j \notin canceled => t.cur.status \in Active,
           record'[j].artifact_dir => t.pc = "over" /\ t.names,
           j \notin canceled /\ record'[j].status \in Status \ Active =>
              /\ t.pc = "over" /\ record'[j].status \in Finished
              /\ record'[j].artifact_dir = t.names,
           UNCHANGED <<dir, files, request, reported, removing, canceled, crashes>>
    PROVE  JobSound(j)'
<1>1. task'[j] = t
  BY DEF TypeOK
<1>2. /\ FilesInDir(j) /\ DirectoryNamed(j) /\ ArtifactsReportedOnce(j)
      /\ j \notin canceled => reported[j][""] = 0
  BY TaskFacts DEF IInv, JobSound
<1>3. Aims(task[j])'
  BY <1>1 DEF Aims
<1>4. FilesInDir(j)'
  BY <1>1, <1>2 DEF FilesInDir
<1>5. DirectoryNamed(j)'
  BY <1>1, <1>2 DEF DirectoryNamed, Untouched
<1>6. LastRecord(j)'
  <2>1. j \notin canceled => reported'[j][""] = 0
    BY <1>2
  <2>2. j \notin canceled /\ Readable(j)' /\ record'[j].status \notin Active =>
           /\ t.pc = "over" /\ record'[j].status \in Finished
           /\ record'[j].artifact_dir = t.names
    BY DEF Readable
  <2> QED
    BY <1>1, <2>1, <2>2 DEF LastRecord
<1>7. ArtifactsReportedOnce(j)'
  BY <1>2 DEF ArtifactsReportedOnce
<1> QED
  BY <1>3, <1>4, <1>5, <1>6, <1>7 DEF JobSound

\* So does a step that does not touch the record either.
LEMMA OnlyTasksPreserves ==
    ASSUME TypeOK, IInv, OnlyTasks, NEW j \in Jobs, task[j].pc # "over",
           NEW t \in Task, task' = [task EXCEPT ![j] = t],
           Aims(t), t.names = task[j].names, ~t.cur.artifact_dir,
           t.pc # "over" /\ t.goal \notin Finished => task[j].goal \notin Finished,
           j \notin canceled => t.cur.status \in Active
    PROVE  TypeOK' /\ IInv'
<1>1. /\ ~record[j].artifact_dir
      /\ j \notin canceled /\ Readable(j) => record[j].status \in Active
  BY TaskFacts
<1>2. UNCHANGED <<record, dir, files, request, reported, removing, canceled, crashes>>
  BY DEF OnlyTasks
<1>3. JobSound(j)'
  BY <1>1, <1>2, TaskSound DEF Readable
<1>4. /\ record \in [Jobs -> Records] /\ writers' \in [Jobs -> SUBSET (Jobs \cup Clients)]
      /\ dir \in [Jobs -> BOOLEAN] /\ files \in [Jobs -> SUBSET Names]
  BY DEF TypeOK, OnlyTasks, Records
<1> QED
  BY <1>2, <1>3, <1>4, TaskPreserves

\* How a task ends, and a callback.
OverIs(t) ==
    /\ Over(t) \in Task /\ Over(t).pc = "over" /\ Over(t).goal = "QUEUED"
    /\ Over(t).names = t.names /\ ~Over(t).cur.artifact_dir /\ Over(t).cur.status \in Active

CallbackOverIs(t) ==
    /\ CallbackOver(t) \in Task /\ CallbackOver(t).pc = "graph"
    /\ CallbackOver(t).goal = "RUNNING" /\ CallbackOver(t).names = t.names
    /\ CallbackOver(t).cur = t.cur

\* Every typed task can end.
LEMMA OverTyped ==
    ASSUME NEW t \in Task
    PROVE  OverIs(t)
<1> DEFINE w == Waiting
<1>1. t.names \in BOOLEAN
  BY DEF Task
<1>2. w \in Task /\ w.goal = "QUEUED" /\ ~w.cur.artifact_dir /\ w.cur.status \in Active
  BY InitialTypes DEF Waiting, Record, Active
<1>3. Over(t) = [w EXCEPT !.pc = "over", !.names = t.names]
  BY DEF Over
<1> HIDE DEF w
<1> QED
  BY <1>1, <1>2, <1>3 DEF OverIs, Task

\* And every typed callback.
LEMMA CallbackOverTyped ==
    ASSUME NEW t \in Task, t.checked # 0
    PROVE  CallbackOverIs(t)
<1>1. t.checked - 1 \in 0..Threads
  <2>1. t.checked \in 0..Threads
    BY DEF Task
  <2> QED
    BY <2>1, RunLibraryAssumption
<1> QED
  BY <1>1 DEF CallbackOverIs, CallbackOver, Task

\* A task that ends without another write keeps types and invariant.
LEMMA OverPreserves ==
    ASSUME TypeOK, IInv, OnlyTasks, NEW j \in Jobs, task[j].pc # "over",
           task' = [task EXCEPT ![j] = Over(task[j])]
    PROVE  TypeOK' /\ IInv'
<1>1. OverIs(task[j])
  BY TaskFacts, OverTyped
<1> QED
  BY <1>1, OnlyTasksPreserves DEF OverIs, Aims

\* And a callback that does.
LEMMA CallbackOverPreserves ==
    ASSUME TypeOK, IInv, OnlyTasks, NEW j \in Jobs, task[j].pc \in {"graph", "reread"},
           task[j].checked # 0, task' = [task EXCEPT ![j] = CallbackOver(task[j])]
    PROVE  TypeOK' /\ IInv'
<1>1. /\ task[j] \in Task /\ Aims(task[j]) /\ ~task[j].cur.artifact_dir
      /\ j \notin canceled => task[j].cur.status \in Active
  BY TaskFacts
<1>2. CallbackOverIs(task[j])
  BY <1>1, CallbackOverTyped
<1> QED
  BY <1>1, <1>2, OnlyTasksPreserves DEF CallbackOverIs, Aims, Finished

-----------------------------------------------------------------------------
(* Files of records.                                                       *)

\* The file of one job becomes one of the records S; writers are typed.
Writes(j, S) ==
    /\ record' \in [Jobs -> Records] /\ writers' \in [Jobs -> SUBSET (Jobs \cup Clients)]
    /\ record'[j] \in S /\ \A i \in Jobs \ {j} : record'[i] = record[i]

\* Remains are records of no status that name no directory.
LEMMA RemainsAre ==
    \A b \in Blank : /\ Record(b, FALSE) \in Records /\ Record(b, FALSE).status = b
                    /\ b \notin Status /\ ~Record(b, FALSE).artifact_dir
  BY DEF Record, Records, Blank, Status, Active, Finished

\* A file that is opened is empty.
LEMMA OpenFileIs ==
    ASSUME TypeOK, NEW j \in Jobs, NEW w \in Jobs \cup Clients, OpenFile(w, j)
    PROVE  Writes(j, {Record("EMPTY", FALSE)})
<1>1. Record("EMPTY", FALSE) \in Records
  BY RemainsAre DEF Blank
<1>2. /\ record \in [Jobs -> Records] /\ writers \in [Jobs -> SUBSET (Jobs \cup Clients)]
  BY DEF TypeOK, Records
<1> QED
  BY <1>1, <1>2 DEF OpenFile, Writes

\* A file that is filled holds the record, what it held, or a mixture.
LEMMA FillFileIs ==
    ASSUME TypeOK, NEW j \in Jobs, NEW w \in Jobs \cup Clients, NEW s \in Records,
           FillFile(w, j, s)
    PROVE  Writes(j, {record[j], s, Record("TORN", FALSE)})
<1>1. Record("TORN", FALSE) \in Records
  BY RemainsAre DEF Blank
<1>2. /\ record \in [Jobs -> Records] /\ writers \in [Jobs -> SUBSET (Jobs \cup Clients)]
  BY DEF TypeOK, Records
<1>3. writers' \in [Jobs -> SUBSET (Jobs \cup Clients)]
  BY <1>2 DEF FillFile
<1>4. \/ UNCHANGED record
      \/ record' = [record EXCEPT ![j] = s]
      \/ record' = [record EXCEPT ![j] = Record("TORN", FALSE)]
  BY DEF FillFile
<1> QED
  BY <1>1, <1>2, <1>3, <1>4 DEF Writes

\* A task that writes keeps types and invariant if its job stays sound.
LEMMA WritePreserves ==
    ASSUME TypeOK, IInv, OnlyRecords, NEW j \in Jobs, task[j].pc # "over",
           NEW t \in Task, task' = [task EXCEPT ![j] = t],
           NEW S, Writes(j, S), JobSound(j)'
    PROVE  TypeOK' /\ IInv'
<1>1. UNCHANGED <<dir, files, request, reported, removing, canceled, crashes>>
  BY DEF OnlyRecords
<1>2. dir \in [Jobs -> BOOLEAN] /\ files \in [Jobs -> SUBSET Names]
  BY DEF TypeOK
<1> QED
  BY <1>1, <1>2, TaskPreserves DEF Writes

\* A task that opens its file keeps types and invariant.
LEMMA TaskOpens ==
    ASSUME TypeOK, IInv, OnlyRecords, NEW j \in Jobs, task[j].pc \in {"waiting", "open"},
           OpenFile(j, j), task' = [task EXCEPT ![j].pc = "fill"]
    PROVE  TypeOK' /\ IInv'
<1> DEFINE t == [task[j] EXCEPT !.pc = "fill"]
<1>1. /\ task[j] \in Task /\ Aims(task[j]) /\ ~task[j].cur.artifact_dir
      /\ j \notin canceled => task[j].cur.status \in Active
  BY TaskFacts
<1>2. /\ t \in Task /\ t.pc = "fill" /\ t.goal = task[j].goal /\ t.cur = task[j].cur
      /\ t.names = task[j].names /\ t.checked = task[j].checked
  BY <1>1 DEF Task
<1>3. task' = [task EXCEPT ![j] = t]
  OBVIOUS
<1> HIDE DEF t
<1>4. Aims(t)
  BY <1>1, <1>2 DEF Aims
<1>5. Writes(j, {Record("EMPTY", FALSE)})
  BY OpenFileIs
<1>6. record'[j].status \notin Status /\ ~record'[j].artifact_dir
  BY <1>5, RemainsAre DEF Writes, Blank
<1>7. UNCHANGED <<dir, files, request, reported, removing, canceled, crashes>>
  BY DEF OnlyRecords
<1>8. JobSound(j)'
  BY <1>1, <1>2, <1>3, <1>4, <1>6, <1>7, TaskSound
<1> QED
  BY <1>2, <1>3, <1>5, <1>8, WritePreserves

-----------------------------------------------------------------------------
(* Task by task.                                                           *)

\* A job is created.
LEMMA CreateJobPreserves ==
    ASSUME TypeOK, IInv, NEW j \in Jobs, CreateJob(j)
    PROVE  TypeOK' /\ IInv'
  BY TaskOpens DEF CreateJob

\* A task opens the file of its record.
LEMMA TaskOpenPreserves ==
    ASSUME TypeOK, IInv, NEW j \in Jobs, TaskOpen(j)
    PROVE  TypeOK' /\ IInv'
  BY TaskOpens DEF TaskOpen

\* A task looks for a cancel.
LEMMA TaskCheckPreserves ==
    ASSUME TypeOK, IInv, NEW j \in Jobs, TaskCheck(j)
    PROVE  TypeOK' /\ IInv'
<1> DEFINE t == [task[j] EXCEPT !.pc = "read"]
<1>1. task[j].pc = "check" /\ OnlyTasks
  BY DEF TaskCheck
<1>2. /\ task[j] \in Task /\ Aims(task[j]) /\ ~task[j].cur.artifact_dir
      /\ j \notin canceled => task[j].cur.status \in Active
  BY <1>1, TaskFacts
<1>3. CASE task' = [task EXCEPT ![j] = Over(task[j])]
  BY <1>1, <1>3, OverPreserves
<1>4. CASE task' = [task EXCEPT ![j] = t]
  <2>1. /\ t \in Task /\ t.pc = "read" /\ t.goal = task[j].goal /\ t.cur = task[j].cur
        /\ t.names = task[j].names /\ t.checked = task[j].checked
    BY <1>2 DEF Task
  <2> HIDE DEF t
  <2>2. Aims(t)
    BY <1>1, <1>2, <2>1 DEF Aims
  <2> QED
    BY <1>1, <1>2, <1>4, <2>1, <2>2, OnlyTasksPreserves
<1> QED
  BY <1>3, <1>4 DEF TaskCheck

\* A task reads the record it will write.
LEMMA TaskReadPreserves ==
    ASSUME TypeOK, IInv, NEW j \in Jobs, TaskRead(j)
    PROVE  TypeOK' /\ IInv'
<1> DEFINE t == [task[j] EXCEPT !.pc = "open", !.cur = record[j]]
<1>1. task[j].pc = "read" /\ OnlyTasks
  BY DEF TaskRead
<1>2. /\ task[j] \in Task /\ Aims(task[j]) /\ record[j] \in Records
      /\ ~record[j].artifact_dir
      /\ j \notin canceled /\ Readable(j) => record[j].status \in Active
  BY <1>1, TaskFacts
<1>3. CASE task' = [task EXCEPT ![j] = Over(task[j])]
  BY <1>1, <1>3, OverPreserves
<1>4. CASE Readable(j) /\ task' = [task EXCEPT ![j] = t]
  <2>1. record[j] \in [status : Status, artifact_dir : BOOLEAN]
    BY <1>2, <1>4 DEF Readable, Records
  <2>2. /\ t \in Task /\ t.pc = "open" /\ t.goal = task[j].goal /\ t.cur = record[j]
        /\ t.names = task[j].names /\ t.checked = task[j].checked
    BY <1>2, <2>1 DEF Task
  <2> HIDE DEF t
  <2>3. Aims(t)
    BY <1>1, <1>2, <2>2 DEF Aims
  <2> QED
    BY <1>1, <1>2, <1>4, <2>2, <2>3, OnlyTasksPreserves
<1> QED
  BY <1>3, <1>4 DEF TaskRead

\* What a task becomes when it has written: it is over after its last record only.
LEMMA AfterFillIs ==
    ASSUME NEW t \in Task, Aims(t), t.pc = "fill"
    PROVE  /\ AfterFill(t) \in Task /\ Aims(AfterFill(t)) /\ AfterFill(t).names = t.names
           /\ AfterFill(t).pc = "over" <=> t.goal \in Finished
           /\ AfterFill(t).pc # "over" => AfterFill(t).goal = "RUNNING"
           /\ AfterFill(t).cur = t.cur \/ (/\ ~AfterFill(t).cur.artifact_dir
                                           /\ AfterFill(t).cur.status \in Active)
<1> DEFINE u == AfterFill(t)
<1>1. CASE t.goal = "QUEUED"
  <2>1. u = [t EXCEPT !.pc = "check", !.goal = "RUNNING"]
    BY <1>1 DEF AfterFill
  <2>2. /\ u \in Task /\ u.pc = "check" /\ u.goal = "RUNNING" /\ u.names = t.names
        /\ u.cur = t.cur
    BY <2>1 DEF Task
  <2> HIDE DEF u
  <2> QED
    BY <1>1, <2>2 DEF Aims, Finished, u
<1>2. CASE t.goal = "RUNNING"
  <2>1. u = [t EXCEPT !.pc = "workflow"]
    BY <1>2 DEF AfterFill
  <2>2. /\ u \in Task /\ u.pc = "workflow" /\ u.goal = "RUNNING" /\ u.names = t.names
        /\ u.cur = t.cur
    BY <1>2, <2>1 DEF Task
  <2> HIDE DEF u
  <2> QED
    BY <1>2, <2>2 DEF Aims, Finished, u
<1>3. CASE t.goal = "EVENT"
  <2>1. u = CallbackOver(t)
    BY <1>3 DEF AfterFill
  <2>2. CallbackOverIs(t)
    BY <1>3, CallbackOverTyped DEF Aims
  <2> HIDE DEF u
  <2> QED
    BY <1>3, <2>1, <2>2 DEF Aims, Finished, u, CallbackOverIs
<1>4. CASE t.goal \in Finished
  <2>1. u = Over(t)
    BY <1>4 DEF AfterFill, Finished
  <2>2. OverIs(t)
    BY OverTyped
  <2> HIDE DEF u
  <2> QED
    BY <1>4, <2>1, <2>2 DEF Aims, Finished, u, OverIs
<1> QED
  BY <1>1, <1>2, <1>3, <1>4 DEF Task

\* A task fills its file: if nobody canceled the job, with an active status unless it
\* is over now, and with the directory only if it is.
LEMMA TaskFillPreserves ==
    ASSUME TypeOK, IInv, NEW j \in Jobs, TaskFill(j)
    PROVE  TypeOK' /\ IInv'
<1> DEFINE t == task[j]
           u == AfterFill(t)
           s == Snapshot(t)
<1>1. t.pc = "fill" /\ OnlyRecords /\ FillFile(j, j, s) /\ task' = [task EXCEPT ![j] = u]
  BY DEF TaskFill
<1>2. /\ t \in Task /\ Aims(t) /\ ~t.cur.artifact_dir /\ ~record[j].artifact_dir
      /\ j \notin canceled => /\ Readable(j) => record[j].status \in Active
                              /\ t.cur.status \in Active
  BY <1>1, TaskFacts
<1> HIDE DEF t
<1>3. /\ u \in Task /\ Aims(u) /\ u.names = t.names
      /\ u.pc = "over" <=> t.goal \in Finished
      /\ u.pc # "over" => u.goal = "RUNNING"
      /\ u.cur = t.cur \/ (~u.cur.artifact_dir /\ u.cur.status \in Active)
  BY <1>1, <1>2, AfterFillIs
<1>4. /\ s \in Records /\ s.artifact_dir = t.names
      /\ s.status = IF t.goal = "EVENT" THEN t.cur.status ELSE t.goal
  <2>1. /\ t.cur.status \in Status /\ t.cur.artifact_dir \in BOOLEAN /\ t.names \in BOOLEAN
        /\ t.goal \in {"QUEUED", "RUNNING", "EVENT"} \cup Finished
    BY <1>2 DEF Task
  <2>2. (IF t.goal = "EVENT" THEN t.cur.status ELSE t.goal) \in Status
    BY <2>1 DEF Status, Active
  <2> QED
    BY <1>2, <2>1, <2>2 DEF Snapshot, Record, Records
<1>5. t.names => t.goal \in Finished
  BY <1>1, <1>2 DEF Aims
<1> HIDE DEF u, s
<1>6. Writes(j, {record[j], s, Record("TORN", FALSE)})
  BY <1>1, <1>4, FillFileIs
<1>7. record'[j].artifact_dir => u.pc = "over" /\ u.names
  BY <1>2, <1>3, <1>4, <1>5, <1>6, RemainsAre DEF Writes, Blank
<1>8. ASSUME j \notin canceled, record'[j].status \in Status \ Active
      PROVE  /\ u.pc = "over" /\ record'[j].status \in Finished
             /\ record'[j].artifact_dir = u.names
  <2>1. record'[j] = s
    <3>1. Record("TORN", FALSE).status \notin Status
      BY RemainsAre DEF Blank
    <3> QED
      BY <1>2, <1>6, <1>8, <3>1 DEF Writes, Readable
  <2>2. s.status \in Finished /\ t.goal \in Finished
    <3>1. t.goal \in {"QUEUED", "RUNNING", "EVENT"} \cup Finished
      BY <1>2 DEF Task
    <3> QED
      BY <1>2, <1>4, <1>8, <2>1, <3>1 DEF Active, Finished
  <2> QED
    BY <1>3, <1>4, <2>1, <2>2
<1>9. u.pc # "over" /\ u.goal \notin Finished => t.goal \notin Finished
  BY <1>3
<1>10. ~u.cur.artifact_dir /\ (j \notin canceled => u.cur.status \in Active)
  BY <1>2, <1>3
<1>11. UNCHANGED <<dir, files, request, reported, removing, canceled, crashes>>
  BY <1>1 DEF OnlyRecords
<1>12. JobSound(j)'
  BY <1>1, <1>3, <1>7, <1>8, <1>9, <1>10, <1>11, TaskSound DEF t
<1> QED
  BY <1>1, <1>3, <1>6, <1>12, WritePreserves DEF t

\* A task that goes on to write FAILED keeps types and invariant.
LEMMA FailsPreserves ==
    ASSUME TypeOK, IInv, OnlyTasks, NEW j \in Jobs,
           task[j].pc \in {"workflow", "artifacts"}, ~task[j].names,
           task' = [task EXCEPT ![j].pc = "read", ![j].goal = "FAILED"]
    PROVE  TypeOK' /\ IInv'
<1> DEFINE t == [task[j] EXCEPT !.pc = "read", !.goal = "FAILED"]
<1>1. /\ task[j] \in Task /\ Aims(task[j]) /\ ~task[j].cur.artifact_dir
      /\ j \notin canceled => task[j].cur.status \in Active
  BY TaskFacts
<1>2. task' = [task EXCEPT ![j] = t]
  OBVIOUS
<1>3. /\ t \in Task /\ t.pc = "read" /\ t.goal = "FAILED" /\ t.cur = task[j].cur
      /\ t.names = task[j].names
  BY <1>1 DEF Task, Finished
<1> HIDE DEF t
<1>4. Aims(t) /\ t.goal \in Finished
  BY <1>3 DEF Aims, Finished
<1> QED
  BY <1>1, <1>2, <1>3, <1>4, OnlyTasksPreserves

\* The service validates the request.
LEMMA StartWorkflowPreserves ==
    ASSUME TypeOK, IInv, NEW j \in Jobs, StartWorkflow(j)
    PROVE  TypeOK' /\ IInv'
<1>1. task[j].pc = "workflow" /\ OnlyTasks
  BY DEF StartWorkflow
<1>2. /\ task[j] \in Task /\ Aims(task[j]) /\ ~task[j].cur.artifact_dir
      /\ j \notin canceled => task[j].cur.status \in Active
      /\ task[j].goal = "RUNNING" /\ ~task[j].names
  BY <1>1, TaskFacts DEF Aims, Finished
<1>3. CASE task' = [task EXCEPT ![j].pc = "graph"]
  <2> DEFINE t == [task[j] EXCEPT !.pc = "graph"]
  <2>1. task' = [task EXCEPT ![j] = t]
    BY <1>3
  <2>2. /\ t \in Task /\ t.pc = "graph" /\ t.goal = task[j].goal /\ t.cur = task[j].cur
        /\ t.names = task[j].names
    BY <1>2 DEF Task
  <2> HIDE DEF t
  <2>3. Aims(t)
    BY <1>2, <2>2 DEF Aims
  <2> QED
    BY <1>1, <1>2, <2>1, <2>2, <2>3, OnlyTasksPreserves
<1>4. CASE task' = [task EXCEPT ![j].pc = "read", ![j].goal = "FAILED"]
  BY <1>1, <1>2, <1>4, FailsPreserves
<1> QED
  BY <1>3, <1>4 DEF StartWorkflow

\* A callback has looked for a cancel.
LEMMA CallbackCheckPreserves ==
    ASSUME TypeOK, IInv, NEW j \in Jobs, CallbackCheck(j)
    PROVE  TypeOK' /\ IInv'
<1> DEFINE n == task[j].checked + 1
           t == [task[j] EXCEPT !.checked = n]
<1>1. task[j].pc = "graph" /\ OnlyTasks /\ task' = [task EXCEPT ![j] = t]
  BY DEF CallbackCheck
<1>2. /\ task[j] \in Task /\ Aims(task[j]) /\ ~task[j].cur.artifact_dir
      /\ j \notin canceled => task[j].cur.status \in Active
  BY <1>1, TaskFacts
<1>3. n \in 0..Threads
  <2>1. task[j].checked \in 0..Threads /\ task[j].checked < Threads
    BY <1>2 DEF Task, CallbackCheck
  <2> QED
    BY <2>1, RunLibraryAssumption
<1> HIDE DEF n
<1>4. /\ t \in Task /\ t.pc = "graph" /\ t.goal = task[j].goal /\ t.cur = task[j].cur
      /\ t.names = task[j].names
  BY <1>1, <1>2, <1>3 DEF Task
<1> HIDE DEF t
<1>5. Aims(t)
  BY <1>1, <1>2, <1>4 DEF Aims
<1> QED
  BY <1>1, <1>2, <1>4, <1>5, OnlyTasksPreserves

\* An append reads the record.
LEMMA AppendGetPreserves ==
    ASSUME TypeOK, IInv, NEW j \in Jobs, AppendGet(j)
    PROVE  TypeOK' /\ IInv'
<1> DEFINE t == [task[j] EXCEPT !.pc = "reread", !.goal = "EVENT", !.cur = record[j]]
<1>1. task[j].pc = "graph" /\ OnlyTasks
  BY DEF AppendGet
<1>2. /\ task[j] \in Task /\ Aims(task[j]) /\ record[j] \in Records
      /\ ~record[j].artifact_dir /\ ~task[j].names
      /\ j \notin canceled /\ Readable(j) => record[j].status \in Active
  BY <1>1, TaskFacts DEF Aims, Finished
<1>3. task[j].checked # 0
  <2>1. \A n \in 0..Threads : n > 0 => n # 0
    BY RunLibraryAssumption
  <2> QED
    BY <1>2, <2>1 DEF AppendGet, Task
<1>4. CASE task' = [task EXCEPT ![j] = CallbackOver(task[j])]
  BY <1>1, <1>3, <1>4, CallbackOverPreserves
<1>5. CASE Readable(j) /\ task' = [task EXCEPT ![j] = t]
  <2>1. record[j] \in [status : Status, artifact_dir : BOOLEAN]
    BY <1>2, <1>5 DEF Readable, Records
  <2>2. /\ t \in Task /\ t.pc = "reread" /\ t.goal = "EVENT" /\ t.cur = record[j]
        /\ t.names = task[j].names /\ t.checked = task[j].checked
    BY <1>2, <2>1 DEF Task
  <2> HIDE DEF t
  <2>3. Aims(t) /\ task[j].goal \notin Finished
    BY <1>1, <1>2, <1>3, <2>2 DEF Aims, Finished
  <2> QED
    BY <1>1, <1>2, <1>5, <2>2, <2>3, OnlyTasksPreserves
<1> QED
  BY <1>4, <1>5 DEF AppendGet

\* An append reads the record again, and keeps the status of the first read.
LEMMA AppendRereadPreserves ==
    ASSUME TypeOK, IInv, NEW j \in Jobs, AppendReread(j)
    PROVE  TypeOK' /\ IInv'
<1> DEFINE named == record[j].artifact_dir
           t == [task[j] EXCEPT !.pc = "open", !.cur.artifact_dir = named]
<1>1. task[j].pc = "reread" /\ OnlyTasks
  BY DEF AppendReread
<1>2. /\ task[j] \in Task /\ Aims(task[j]) /\ named \in BOOLEAN /\ ~named
      /\ task[j].goal = "EVENT" /\ task[j].checked # 0
      /\ j \notin canceled => task[j].cur.status \in Active
  BY <1>1, TaskFacts DEF Aims, Records
<1>3. CASE task' = [task EXCEPT ![j] = CallbackOver(task[j])]
  BY <1>1, <1>2, <1>3, CallbackOverPreserves
<1>4. CASE task' = [task EXCEPT ![j].pc = "open", ![j].cur.artifact_dir = named]
  <2>1. task' = [task EXCEPT ![j] = t]
    BY <1>4
  <2> HIDE DEF named
  <2>2. /\ t \in Task /\ t.pc = "open" /\ t.goal = task[j].goal
        /\ ~t.cur.artifact_dir /\ t.cur.status = task[j].cur.status
        /\ t.names = task[j].names /\ t.checked = task[j].checked
    BY <1>2 DEF Task
  <2> HIDE DEF t
  <2>3. Aims(t)
    BY <1>1, <1>2, <2>2 DEF Aims
  <2> QED
    BY <1>1, <1>2, <2>1, <2>2, <2>3, OnlyTasksPreserves
<1> QED
  BY <1>3, <1>4 DEF AppendReread

\* The graph ends: the directory of a failed run is made.
LEMMA GraphEndsPreserves ==
    ASSUME TypeOK, IInv, NEW j \in Jobs, GraphEnds(j)
    PROVE  TypeOK' /\ IInv'
<1>1. PICK ending \in Finished :
         /\ task' = [task EXCEPT ![j].pc = "artifacts", ![j].goal = ending]
         /\ dir' = [dir EXCEPT ![j] = ending = "FAILED"]
  BY DEF GraphEnds
<1> DEFINE t == [task[j] EXCEPT !.pc = "artifacts", !.goal = ending]
           made == ending = "FAILED"
<1>2. task[j].pc = "graph" /\ UNCHANGED <<record, writers, files, request, reported, removing,
                                          canceled, crashes>>
  BY DEF GraphEnds
<1>3. /\ task[j] \in Task /\ task[j].goal = "RUNNING" /\ ~task[j].names
      /\ ~record[j].artifact_dir /\ ~task[j].cur.artifact_dir
      /\ j \notin canceled => /\ Readable(j) => record[j].status \in Active
                              /\ task[j].cur.status \in Active /\ reported[j][""] = 0
  BY <1>2, TaskFacts DEF Aims, Finished
<1>4. task' = [task EXCEPT ![j] = t] /\ dir' = [dir EXCEPT ![j] = made] /\ made \in BOOLEAN
  BY <1>1
<1>5. /\ t \in Task /\ t.pc = "artifacts" /\ t.goal = ending /\ t.cur = task[j].cur
      /\ ~t.names
  BY <1>3 DEF Task
<1> HIDE DEF t, made
<1>6. /\ task'[j] = t /\ dir' \in [Jobs -> BOOLEAN]
      /\ \A i \in Jobs \ {j} : dir'[i] = dir[i]
  BY <1>4 DEF TypeOK
<1>7. files[j] = {} /\ Untouched(j) /\ ArtifactsReportedOnce(j)
  BY <1>2, <1>3 DEF IInv, JobSound, FilesInDir, DirectoryNamed, Finished
<1>8. JobSound(j)'
  <2>1. Aims(task[j])'
    BY <1>5, <1>6 DEF Aims, Finished
  <2>2. FilesInDir(j)' /\ ArtifactsReportedOnce(j)'
    BY <1>2, <1>7 DEF FilesInDir, ArtifactsReportedOnce
  <2>3. DirectoryNamed(j)'
    BY <1>2, <1>3, <1>5, <1>6, <1>7 DEF DirectoryNamed, Untouched
  <2>4. LastRecord(j)'
    BY <1>2, <1>3, <1>5, <1>6 DEF LastRecord, Readable
  <2> QED
    BY <2>1, <2>2, <2>3, <2>4 DEF JobSound
<1>9. /\ record \in [Jobs -> Records] /\ writers' \in [Jobs -> SUBSET (Jobs \cup Clients)]
      /\ files \in [Jobs -> SUBSET Names]
  BY <1>2 DEF TypeOK, Records
<1> QED
  BY <1>2, <1>4, <1>5, <1>6, <1>8, <1>9, TaskPreserves

\* The artifacts, one by one.
LEMMA NamesAre == Names = {"report", "llm_calls.jsonl"} /\ "" \notin Names
<1>1. DOMAIN write_artifacts = {1, 2}
  BY DEF write_artifacts
<1>2. Names = {"report", "llm_calls.jsonl"}
  BY <1>1 DEF Names, write_artifacts
<1> QED
  BY <1>2

\* Two artifacts are written.
LEMMA NamesCounted == IsFiniteSet(Names) /\ Cardinality(Names) = 2
<1> DEFINE a == {"report"}
<1>1. Names = a \cup {"llm_calls.jsonl"}
  BY NamesAre
<1>2. IsFiniteSet(a) /\ Cardinality(a) = 1
  BY FS_Singleton
<1>3. "llm_calls.jsonl" \notin a
  OBVIOUS
<1> HIDE DEF a
<1> QED
  BY <1>1, <1>2, <1>3, FS_AddElement

\* While an artifact is missing there is a next one to write.
LEMMA NextIsAName ==
    ASSUME NEW S \in SUBSET Names, S # Names
    PROVE  write_artifacts[Cardinality(S) + 1] \in Names
<1>1. /\ IsFiniteSet(S) /\ Cardinality(S) <= Cardinality(Names)
      /\ Cardinality(S) = Cardinality(Names) => S = Names
  BY NamesCounted, FS_Subset
<1>2. Cardinality(S) \in Nat
  BY <1>1, FS_CardinalityType
<1>3. Cardinality(S) + 1 \in 1 .. 2
  BY <1>1, <1>2, NamesCounted
<1>4. DOMAIN write_artifacts = 1 .. 2
  BY DEF write_artifacts
<1> QED
  BY <1>3, <1>4 DEF Names

\* An artifact is written, while there is no record that names the directory.
LEMMA WriteArtifactPreserves ==
    ASSUME TypeOK, IInv, NEW j \in Jobs, WriteArtifact(j)
    PROVE  TypeOK' /\ IInv'
<1> DEFINE name == write_artifacts[Cardinality(files[j]) + 1]
<1>1. /\ task[j].pc = "artifacts" /\ files[j] # Names
      /\ dir' = [dir EXCEPT ![j] = TRUE] /\ files' = [files EXCEPT ![j] = files[j] \cup {name}]
      /\ UNCHANGED <<record, writers, task, request, reported, removing, canceled, crashes>>
  BY DEF WriteArtifact, AllWritten
<1>2. /\ task[j] \in Task /\ Aims(task[j]) /\ ~task[j].names /\ task[j].goal \in Finished
      /\ j \notin canceled => reported[j][""] = 0
  BY <1>1, TaskFacts DEF Aims
<1>3. name \in Names
  BY NextIsAName, <1>1 DEF TypeOK
<1> HIDE DEF name
<1>4. /\ dir' \in [Jobs -> BOOLEAN] /\ files' \in [Jobs -> SUBSET Names] /\ dir'[j]
      /\ \A i \in Jobs \ {j} : dir'[i] = dir[i] /\ files'[i] = files[i]
  BY <1>1, <1>3 DEF TypeOK
<1>5. DirectoryNamed(j) /\ LastRecord(j) /\ Untouched(j)
  BY <1>2 DEF IInv, JobSound, DirectoryNamed
<1>6. JobSound(j)'
  <2>1. Aims(task[j])'
    BY <1>1, <1>2 DEF Aims
  <2>2. FilesInDir(j)' /\ ArtifactsReportedOnce(j)'
    BY <1>1, <1>2, <1>4, <1>5 DEF FilesInDir, ArtifactsReportedOnce, Untouched
  <2>3. DirectoryNamed(j)'
    BY <1>1, <1>2, <1>5 DEF DirectoryNamed, Untouched
  <2>4. LastRecord(j)'
    BY <1>1, <1>2, <1>5 DEF LastRecord, Readable
  <2> QED
    BY <2>1, <2>2, <2>3, <2>4 DEF JobSound
<1>7. /\ record' \in [Jobs -> Records] /\ writers' \in [Jobs -> SUBSET (Jobs \cup Clients)]
      /\ task' = [task EXCEPT ![j] = task[j]]
  BY <1>1 DEF TypeOK, Records
<1> QED
  BY <1>1, <1>2, <1>4, <1>6, <1>7, TaskPreserves

\* A write raises.
LEMMA WriteRaisesPreserves ==
    ASSUME TypeOK, IInv, NEW j \in Jobs, WriteRaises(j)
    PROVE  TypeOK' /\ IInv'
<1>1. ~task[j].names
  BY TaskFacts DEF WriteRaises, Aims
<1> QED
  BY <1>1, FailsPreserves DEF WriteRaises

\* All artifacts are written: the task is to name the directory.
LEMMA ArtifactsWrittenPreserves ==
    ASSUME TypeOK, IInv, NEW j \in Jobs, ArtifactsWritten(j)
    PROVE  TypeOK' /\ IInv'
<1> DEFINE pc == IF task[j].goal = "SUCCEEDED" THEN "check" ELSE "read"
           t == [task[j] EXCEPT !.names = TRUE, !.pc = pc]
<1>1. task[j].pc = "artifacts" /\ files[j] = Names /\ OnlyTasks
  BY DEF ArtifactsWritten, AllWritten
<1>2. /\ task[j] \in Task /\ Aims(task[j]) /\ ~task[j].names /\ task[j].goal \in Finished
      /\ ~record[j].artifact_dir /\ ~task[j].cur.artifact_dir
      /\ j \notin canceled => /\ Readable(j) => record[j].status \in Active
                              /\ task[j].cur.status \in Active /\ reported[j][""] = 0
  BY <1>1, TaskFacts DEF Aims
<1>3. pc \in {"check", "read"}
  OBVIOUS
<1>4. task' = [task EXCEPT ![j] = t]
  BY DEF ArtifactsWritten
<1> HIDE DEF pc
<1>5. /\ t \in Task /\ t.pc = pc /\ t.goal = task[j].goal /\ t.cur = task[j].cur
      /\ t.names /\ t.checked = task[j].checked
  BY <1>2, <1>3 DEF Task
<1> HIDE DEF t
<1>6. /\ task'[j] = t
      /\ UNCHANGED <<record, writers, dir, files, request, reported, removing, canceled,
                     crashes>>
  BY <1>1, <1>4 DEF OnlyTasks, TypeOK
<1>7. dir[j] /\ Untouched(j) /\ ArtifactsReportedOnce(j)
  BY <1>1, <1>2, NamesAre DEF IInv, JobSound, FilesInDir, DirectoryNamed
<1>8. JobSound(j)'
  <2>1. Aims(task[j])'
    BY <1>2, <1>3, <1>5, <1>6 DEF Aims, Finished
  <2>2. FilesInDir(j)' /\ ArtifactsReportedOnce(j)'
    BY <1>2, <1>5, <1>6, <1>7 DEF FilesInDir, ArtifactsReportedOnce
  <2>3. DirectoryNamed(j)'
    BY <1>1, <1>2, <1>5, <1>6, <1>7 DEF DirectoryNamed, Untouched
  <2>4. LastRecord(j)'
    BY <1>2, <1>5, <1>6 DEF LastRecord, Readable
  <2> QED
    BY <2>1, <2>2, <2>3, <2>4 DEF JobSound
<1>9. /\ record' \in [Jobs -> Records] /\ writers' \in [Jobs -> SUBSET (Jobs \cup Clients)]
      /\ dir' \in [Jobs -> BOOLEAN] /\ files' \in [Jobs -> SUBSET Names]
  BY <1>6 DEF TypeOK, Records
<1> QED
  BY <1>1, <1>4, <1>5, <1>6, <1>8, <1>9, TaskPreserves

-----------------------------------------------------------------------------
(* The steps of requests that write and remove.                            *)

\* Artifacts can be deleted, and so can jobs.
LEMMA PartsAre == Names \subseteq Parts /\ "" \in Parts
  BY DEF Parts

\* A step of a request on a job keeps types and invariant if both are sound after it.
LEMMA RequestOnJobPreserves ==
    ASSUME TypeOK, IInv, NEW c \in Clients, NEW j \in Jobs, JobSound(j)', Kept(j),
           \A i \in Jobs \ {j} : SameJob(i),
           Becomes(c, request'[c]), WellFormed(request'[c]), Follows(request[c])',
           record' \in [Jobs -> Records], writers' \in [Jobs -> SUBSET (Jobs \cup Clients)],
           dir' \in [Jobs -> BOOLEAN], files' \in [Jobs -> SUBSET Names],
           reported' \in [Jobs -> [Parts -> 0..2]],
           removing' \subseteq Jobs, canceled' \subseteq Jobs, UNCHANGED <<task, crashes>>
    PROVE  TypeOK' /\ IInv'
<1>1. TypeOK'
  BY DEF TypeOK, Records, Becomes, WellFormed
<1>2. \A d \in Clients : request'[d] = request[d] \/ Follows(request[d])'
  BY DEF Becomes
<1> QED
  BY <1>1, <1>2, StepPreserves

\* One more artifact, or the job, is reported deleted, and its request is done
\* with the job.
Reports(c, j, n) ==
    /\ Done(c)
    /\ reported' \in [Jobs -> [Parts -> 0..2]]
    /\ reported[j][n] = 0 => reported'[j][n] = 1
    /\ \A m \in Parts \ {n} : reported'[j][m] = reported[j][m]
    /\ \A i \in Jobs \ {j} : reported'[i] = reported[i]

\* Deleted does that.
LEMMA DeletedIs ==
    ASSUME TypeOK, NEW c \in Clients, NEW j \in Jobs, NEW n \in Parts,
           Deleted(c, j, n)
    PROVE  Reports(c, j, n)
<1> DEFINE old == reported[j]
           more == IF old[n] < 2 THEN old[n] + 1 ELSE old[n]
           new == [old EXCEPT ![n] = more]
<1>1. Done(c)
  BY AnswerIs, GoOnIs DEF Deleted
<1>2. reported \in [Jobs -> [Parts -> 0..2]]
  BY DEF TypeOK
<1>3. old \in [Parts -> 0..2]
  BY <1>2
<1> HIDE DEF old
<1>4. old[n] \in 0..2
  BY <1>3
<1>5. more \in 0..2 /\ (old[n] = 0 => more = 1)
  BY <1>4
<1>6. reported' = [reported EXCEPT ![j] = new]
  BY DEF Deleted, old
<1> HIDE DEF more
<1>7. /\ new \in [Parts -> 0..2] /\ new[n] = more
      /\ \A m \in Parts \ {n} : new[m] = old[m]
  BY <1>3, <1>5
<1> HIDE DEF new
<1>8. /\ reported' \in [Jobs -> [Parts -> 0..2]] /\ reported'[j] = new
      /\ \A i \in Jobs \ {j} : reported'[i] = reported[i]
  BY <1>2, <1>6, <1>7
<1> QED
  BY <1>1, <1>5, <1>7, <1>8 DEF Reports, old

\* A request removes a file of a run that is over, and reports it.
LEMMA UnlinkFilePreserves ==
    ASSUME TypeOK, IInv, NEW c \in Clients, UnlinkFile(c)
    PROVE  TypeOK' /\ IInv'
<1>0. PICK j \in Jobs : j = request[c].job
  BY RequestFacts DEF UnlinkFile, At
<1> DEFINE name == request[c].name
<1>1. /\ j \in Jobs /\ name \in Names /\ task[j].pc = "over" /\ task[j].names
      /\ JobSound(j)
  BY <1>0, RequestFacts DEF UnlinkFile, At, Working, WellFormed, Follows, IInv
<1>2. UNCHANGED <<record, writers, task, dir, removing, canceled, crashes>>
  BY <1>0 DEF UnlinkFile
<1> HIDE DEF name
<1>3. CASE name \notin files[j]
  BY <1>0, <1>2, <1>3, RaisePreserves DEF UnlinkFile, Unlinks, OnlyRequests, name
<1>4. CASE name \in files[j]
  <2>1. Reports(c, j, name)
    BY <1>0, <1>1, <1>4, DeletedIs, PartsAre DEF UnlinkFile, Unlinks, name
  <2>2. reported[j][name] = 0
    BY <1>1, <1>4 DEF JobSound, ArtifactsReportedOnce
  <2>3. /\ files' \in [Jobs -> SUBSET Names] /\ files'[j] = files[j] \ {name}
        /\ \A i \in Jobs \ {j} : files'[i] = files[i]
    <3>1. files' = [files EXCEPT ![j] = files[j] \ {name}]
      BY <1>0, <1>4 DEF UnlinkFile, Unlinks, name
    <3>2. files \in [Jobs -> SUBSET Names]
      BY DEF TypeOK
    <3> QED
      BY <1>1, <3>1, <3>2
  <2>4. /\ reported'[j][name] = 1 /\ reported'[j][""] = reported[j][""]
        /\ \A n \in Names \ {name} : reported'[j][n] = reported[j][n]
    <3>1. "" # name /\ "" \in Parts /\ Names \subseteq Parts
      BY <1>1, NamesAre, PartsAre
    <3> QED
      BY <1>1, <2>1, <2>2, <3>1 DEF Reports
  <2>5. JobSound(j)'
    <3>1. Aims(task[j])' /\ FilesInDir(j)'
      BY <1>1, <1>2, <2>3 DEF JobSound, Aims, FilesInDir
    <3>2. DirectoryNamed(j)'
      <4>1. 1 # 0
        OBVIOUS
      <4>2. \A n \in Names : reported'[j][n] = 0 <=> n # name /\ reported[j][n] = 0
        BY <1>1, <2>4, <4>1, Zenon
      <4>3. j \notin removing => files'[j] = {n \in Names : reported'[j][n] = 0}
        BY <1>1, <2>3, <4>2 DEF JobSound, DirectoryNamed
      <4> QED
        BY <1>1, <1>2, <4>3 DEF JobSound, DirectoryNamed
    <3>3. LastRecord(j)'
      BY <1>1, <1>2, <2>4 DEF JobSound, LastRecord, Readable, HasFile
    <3>4. ArtifactsReportedOnce(j)'
      BY <1>1, <2>3, <2>4 DEF JobSound, ArtifactsReportedOnce
    <3> QED
      BY <3>1, <3>2, <3>3, <3>4 DEF JobSound
  <2>6. Kept(j) /\ \A i \in Jobs \ {j} : SameJob(i)
    BY <1>2, <2>1, <2>3 DEF Kept, SameJob, Reports
  <2>7. Becomes(c, request'[c]) /\ WellFormed(request'[c]) /\ Follows(request[c])'
    BY <2>1, DoneFollows DEF Reports, Done
  <2>8. /\ record' \in [Jobs -> Records] /\ writers' \in [Jobs -> SUBSET (Jobs \cup Clients)]
        /\ dir' \in [Jobs -> BOOLEAN] /\ removing' \subseteq Jobs /\ canceled' \subseteq Jobs
    BY <1>2 DEF TypeOK, Records
  <2> QED
    BY <1>1, <1>2, <2>1, <2>3, <2>5, <2>6, <2>7, <2>8, RequestOnJobPreserves DEF Reports
<1> QED
  BY <1>3, <1>4

\* A request empties and removes the directory of a run that is over.
LEMMA RmtreePreserves ==
    ASSUME TypeOK, IInv, NEW c \in Clients, Rmtree(c)
    PROVE  TypeOK' /\ IInv'
<1>0. PICK j \in Jobs : j = request[c].job
  BY RequestFacts DEF Rmtree, At
<1>1. /\ j \in Jobs /\ task[j].pc = "over" /\ task[j].names /\ request[c].artifact_dir
      /\ JobSound(j) /\ request[c].step = "rmtree" /\ Follows(request[c])
      /\ request[c] \in HttpRequest /\ WellFormed(request[c])
  BY <1>0, RequestFacts DEF Rmtree, At, Working, Follows, IInv
<1>2. /\ UNCHANGED <<record, writers, task, reported, canceled, crashes>>
      /\ removing' = removing \cup {j}
  BY <1>0 DEF Rmtree
<1>3. ASSUME /\ files' \in [Jobs -> SUBSET Names] /\ dir' \in [Jobs -> BOOLEAN]
             /\ files'[j] \subseteq files[j] /\ (dir'[j] => dir[j])
             /\ \A i \in Jobs \ {j} : files'[i] = files[i] /\ dir'[i] = dir[i]
             /\ files'[j] # {} => dir'[j],
             Becomes(c, request'[c]), WellFormed(request'[c]), Follows(request[c])'
      PROVE  TypeOK' /\ IInv'
  <2>1. JobSound(j)'
    <3>1. Aims(task[j])' /\ FilesInDir(j)' /\ ArtifactsReportedOnce(j)'
      BY <1>1, <1>2, <1>3 DEF JobSound, Aims, FilesInDir, ArtifactsReportedOnce
    <3>2. DirectoryNamed(j)' /\ LastRecord(j)'
      BY <1>1, <1>2, <1>3 DEF JobSound, DirectoryNamed, LastRecord, Readable, HasFile
    <3> QED
      BY <3>1, <3>2 DEF JobSound
  <2>2. Kept(j) /\ \A i \in Jobs \ {j} : SameJob(i)
    BY <1>2, <1>3 DEF Kept, SameJob
  <2>3. /\ record' \in [Jobs -> Records] /\ writers' \in [Jobs -> SUBSET (Jobs \cup Clients)]
        /\ reported' \in [Jobs -> [Parts -> 0..2]]
        /\ removing' \subseteq Jobs /\ canceled' \subseteq Jobs
    BY <1>1, <1>2 DEF TypeOK, Records
  <2> QED
    BY <1>1, <1>2, <1>3, <2>1, <2>2, <2>3, RequestOnJobPreserves
<1>4. files \in [Jobs -> SUBSET Names] /\ dir \in [Jobs -> BOOLEAN]
  BY DEF TypeOK
<1>5. files[j] # {} => dir[j]
  BY <1>1 DEF JobSound, FilesInDir
<1>6. ASSUME NEW name \in files[j], UNCHANGED <<dir, request>>,
             files' = [files EXCEPT ![j] = @ \ {name}]
      PROVE  TypeOK' /\ IInv'
  <2>1. Becomes(c, request'[c]) /\ WellFormed(request'[c])
    BY <1>1, <1>6 DEF Becomes, TypeOK
  <2>2. Follows(request[c])'
    BY <1>1, <1>2, <1>6 DEF Follows
  <2>3. /\ files' \in [Jobs -> SUBSET Names] /\ files'[j] \subseteq files[j]
        /\ \A i \in Jobs \ {j} : files'[i] = files[i]
    BY <1>1, <1>4, <1>6
  <2>4. dir' = dir /\ files[j] # {}
    BY <1>6
  <2> QED
    BY <1>3, <1>4, <1>5, <2>1, <2>2, <2>3, <2>4
<1>7. ASSUME files[j] = {}, dir' = [dir EXCEPT ![j] = FALSE], Goto(c, "check record"),
             UNCHANGED files
      PROVE  TypeOK' /\ IInv'
  <2>1. /\ Becomes(c, request'[c]) /\ request'[c].step = "check record"
        /\ request'[c].job = j /\ request'[c].artifact_dir
    BY <1>0, <1>1, <1>7, GotoIs DEF Steps
  <2>2. /\ dir' \in [Jobs -> BOOLEAN] /\ ~dir'[j]
        /\ \A i \in Jobs \ {j} : dir'[i] = dir[i]
    BY <1>1, <1>4, <1>7
  <2>3. WellFormed(request'[c])
    BY <1>1, <2>1 DEF WellFormed
  <2>4. Follows(request[c])'
    BY <1>0, <1>1, <1>2, <2>1, <2>2 DEF Follows, Working
  <2> QED
    BY <1>3, <1>4, <1>7, <2>1, <2>2, <2>3, <2>4
<1>8. ASSUME Raise(c, "os error"), UNCHANGED <<dir, files>>
      PROVE  TypeOK' /\ IInv'
  <2>1. Becomes(c, request'[c]) /\ WellFormed(request'[c]) /\ Follows(request[c])'
    BY <1>8, RaiseIs, DoneFollows DEF Done
  <2> QED
    BY <1>3, <1>4, <1>5, <1>8, <2>1
<1> QED
  BY <1>0, <1>6, <1>7, <1>8 DEF Rmtree, RmtreeRaises

\* A request removes the record of a job; if no cancel has met the job, that of a
\* task that is over and of a directory that is gone, if the record named one.
LEMMA UnlinkRecordPreserves ==
    ASSUME TypeOK, IInv, NEW c \in Clients, UnlinkRecord(c)
    PROVE  TypeOK' /\ IInv'
<1>0. PICK j \in Jobs : j = request[c].job
  BY RequestFacts DEF UnlinkRecord, At
<1>1. /\ j \in Jobs /\ JobSound(j)
      /\ j \notin canceled => task[j].pc = "over" /\ (task[j].names => ~dir[j])
  BY <1>0, RequestFacts DEF UnlinkRecord, At, Deleting, RemovesRecord, Follows, IInv
<1>2. UNCHANGED <<task, dir, files, removing, canceled, crashes>>
  BY <1>0 DEF UnlinkRecord
<1>3. CASE ~HasFile(j)
  BY <1>0, <1>2, <1>3, RaisePreserves DEF UnlinkRecord, Unlinks, OnlyRequests
<1>4. CASE HasFile(j)
  <2>1. /\ record' = [record EXCEPT ![j] = Record("NONE", FALSE)]
        /\ writers' = [writers EXCEPT ![j] = {}] /\ Deleted(c, j, "")
    BY <1>0, <1>4 DEF UnlinkRecord, Unlinks
  <2>2. Reports(c, j, "")
    BY <1>1, <2>1, DeletedIs, PartsAre
  <2>3. /\ record' \in [Jobs -> Records] /\ record'[j] = Record("NONE", FALSE)
        /\ \A i \in Jobs \ {j} : record'[i] = record[i]
    <3>1. Record("NONE", FALSE) \in Records /\ record \in [Jobs -> Records]
      BY InitialTypes DEF TypeOK, Records
    <3> QED
      BY <1>1, <2>1, <3>1
  <2>4. record'[j].status = "NONE" /\ ~record'[j].artifact_dir /\ "NONE" \notin Status
    BY <2>3, RemainsAre DEF Blank
  <2>5. /\ j \notin canceled => reported'[j][""] = 1
        /\ \A n \in Names : reported'[j][n] = reported[j][n]
    <3>1. \A n \in Names : n # "" /\ n \in Parts
      BY NamesAre, PartsAre
    <3>2. j \notin canceled => reported[j][""] = 0
      BY <1>1, <1>4 DEF JobSound, LastRecord
    <3> QED
      BY <1>1, <2>2, <3>1, <3>2 DEF Reports
  <2>6. JobSound(j)'
    <3>1. Aims(task[j])' /\ FilesInDir(j)' /\ ArtifactsReportedOnce(j)'
      BY <1>1, <1>2, <2>5 DEF JobSound, Aims, FilesInDir, ArtifactsReportedOnce
    <3>2. DirectoryNamed(j)'
      BY <1>1, <1>2, <2>4, <2>5 DEF JobSound, DirectoryNamed, Untouched
    <3>3. LastRecord(j)'
      BY <1>1, <1>2, <2>4, <2>5 DEF JobSound, LastRecord, Readable, HasFile
    <3> QED
      BY <3>1, <3>2, <3>3 DEF JobSound
  <2>7. Kept(j) /\ \A i \in Jobs \ {j} : SameJob(i)
    BY <1>2, <2>2, <2>3 DEF Kept, SameJob, Reports
  <2>8. Becomes(c, request'[c]) /\ WellFormed(request'[c]) /\ Follows(request[c])'
    BY <2>2, DoneFollows DEF Reports, Done
  <2>9. /\ writers' \in [Jobs -> SUBSET (Jobs \cup Clients)]
        /\ dir' \in [Jobs -> BOOLEAN] /\ files' \in [Jobs -> SUBSET Names]
        /\ removing' \subseteq Jobs /\ canceled' \subseteq Jobs
    BY <1>2, <2>1 DEF TypeOK
  <2> QED
    BY <1>1, <1>2, <2>2, <2>3, <2>6, <2>7, <2>8, <2>9, RequestOnJobPreserves DEF Reports
<1> QED
  BY <1>3, <1>4

\* A cancel writes the record of a job: it may name the directory only if the
\* record that was read, or is there, does.
LEMMA CancelWritePreserves ==
    ASSUME TypeOK, IInv, NEW c \in Clients, NEW j \in Jobs, NEW S, Writes(j, S),
           record'[j].artifact_dir => task[j].pc = "over" /\ task[j].names,
           j \in canceled', canceled' = canceled \cup {j},
           UNCHANGED <<task, dir, files, reported, removing, crashes>>,
           Becomes(c, request'[c]), WellFormed(request'[c]), Follows(request[c])'
    PROVE  TypeOK' /\ IInv'
<1>1. JobSound(j)
  BY DEF IInv
<1>2. JobSound(j)'
  <2>1. Aims(task[j])' /\ FilesInDir(j)' /\ ArtifactsReportedOnce(j)'
    BY <1>1 DEF JobSound, Aims, FilesInDir, ArtifactsReportedOnce
  <2>2. DirectoryNamed(j)' /\ LastRecord(j)'
    BY <1>1 DEF JobSound, DirectoryNamed, LastRecord, Untouched
  <2> QED
    BY <2>1, <2>2 DEF JobSound
<1>3. Kept(j) /\ \A i \in Jobs \ {j} : SameJob(i)
  BY DEF Kept, SameJob, Writes
<1>4. /\ dir' \in [Jobs -> BOOLEAN] /\ files' \in [Jobs -> SUBSET Names]
      /\ reported' \in [Jobs -> [Parts -> 0..2]]
      /\ removing' \subseteq Jobs /\ canceled' \subseteq Jobs
  BY DEF TypeOK
<1> QED
  BY <1>2, <1>3, <1>4, RequestOnJobPreserves DEF Writes

\* A cancel opens the file.
LEMMA CancelOpenPreserves ==
    ASSUME TypeOK, IInv, NEW c \in Clients, CancelOpen(c)
    PROVE  TypeOK' /\ IInv'
<1>0. PICK j \in Jobs : j = request[c].job
  BY RequestFacts DEF CancelOpen, At
<1>1. /\ j \in Jobs /\ Follows(request[c]) /\ canceled' = canceled \cup {j}
      /\ UNCHANGED <<task, dir, files, reported, removing, crashes>>
  BY <1>0, RequestFacts DEF CancelOpen, At
<1>2. Writes(j, {Record("EMPTY", FALSE)})
  BY <1>0, <1>1, OpenFileIs DEF CancelOpen
<1>3. /\ Becomes(c, request'[c]) /\ request'[c].step = "cancel fill"
      /\ request'[c].job = j /\ request'[c].artifact_dir = request[c].artifact_dir
  BY <1>0, GotoIs DEF CancelOpen, Steps
<1>4. WellFormed(request'[c])
  BY <1>1, <1>3 DEF WellFormed
<1>5. Follows(request[c])'
  BY <1>0, <1>1, <1>3 DEF Follows, Working, RemovesRecord, Deleting
<1>6. ~record'[j].artifact_dir
  BY <1>2, RemainsAre DEF Writes, Blank
<1> QED
  BY <1>1, <1>2, <1>3, <1>4, <1>5, <1>6, CancelWritePreserves

\* A cancel fills it.
LEMMA CancelFillPreserves ==
    ASSUME TypeOK, IInv, NEW c \in Clients, CancelFill(c)
    PROVE  TypeOK' /\ IInv'
<1>0. PICK j \in Jobs : j = request[c].job
  BY RequestFacts DEF CancelFill, At
<1> DEFINE s == Record("CANCELED", request[c].artifact_dir)
<1>1. /\ j \in Jobs /\ j \in canceled /\ JobSound(j) /\ request[c] \in HttpRequest
      /\ request[c].artifact_dir => task[j].pc = "over" /\ task[j].names
      /\ UNCHANGED <<task, dir, files, reported, removing, canceled, crashes>>
  BY <1>0, RequestFacts DEF CancelFill, At, Follows, IInv
<1>2. s \in Records /\ s.artifact_dir = request[c].artifact_dir
  BY <1>1 DEF Record, Records, Status, HttpRequest
<1> HIDE DEF s
<1>3. Writes(j, {record[j], s, Record("TORN", FALSE)})
  BY <1>0, <1>1, <1>2, FillFileIs DEF CancelFill, s
<1>4. record'[j].artifact_dir => task[j].pc = "over" /\ task[j].names
  <2>1. record[j].artifact_dir => task[j].pc = "over" /\ task[j].names
    BY <1>1 DEF JobSound, DirectoryNamed
  <2> QED
    BY <1>1, <1>2, <1>3, <2>1, RemainsAre DEF Writes, Blank
<1>5. Becomes(c, request'[c]) /\ WellFormed(request'[c]) /\ Follows(request[c])'
  BY AnswerIs, DoneFollows DEF CancelFill, Done
<1>6. j \in canceled' /\ canceled' = canceled \cup {j}
  BY <1>1
<1> QED
  BY <1>1, <1>3, <1>4, <1>5, <1>6, CancelWritePreserves

-----------------------------------------------------------------------------
(* Any step.                                                               *)

\* A crash ends the requests and the tasks, and leaves what is written.
LEMMA CrashPreserves ==
    ASSUME TypeOK, IInv, Crash
    PROVE  TypeOK' /\ IInv'
<1>1. /\ UNCHANGED <<record, dir, files, reported, removing, canceled>>
      /\ \A c \in Clients : request'[c] = Idle
      /\ \A j \in Jobs : task'[j] = IF task[j].pc = "waiting" THEN task[j] ELSE Over(task[j])
  BY DEF Crash
<1>2. TypeOK'
  <2>1. request' \in [Clients -> HttpRequest] /\ \A c \in Clients : request'[c].step = "idle"
    BY <1>1, InitialTypes DEF Crash
  <2>2. task' \in [Jobs -> Task]
    <3>1. \A j \in Jobs : task[j] \in Task /\ Over(task[j]) \in Task
      BY OverTyped DEF TypeOK, OverIs
    <3> QED
      BY <3>1 DEF Crash
  <2>3. crashes' \in 0..MaxCrashes
    <3>1. crashes \in 0..MaxCrashes
      BY DEF TypeOK
    <3>2. crashes < MaxCrashes /\ crashes' = crashes + 1
      BY DEF Crash
    <3> QED
      BY <3>1, <3>2, RunLibraryAssumption
  <2>4. writers' \in [Jobs -> SUBSET (Jobs \cup Clients)]
    BY DEF Crash
  <2> QED
    BY <1>1, <2>1, <2>2, <2>3, <2>4 DEF TypeOK
<1>3. ASSUME NEW j \in Jobs PROVE JobSound(j)'
  <2>1. CASE task[j].pc = "waiting"
    <3>1. SameJob(j)
      BY <1>1, <2>1 DEF SameJob
    <3> QED
      BY <3>1, SameJobSound DEF IInv
  <2>2. CASE task[j].pc # "waiting"
    <3>1. task[j] \in Task /\ JobSound(j)
      BY DEF TypeOK, IInv
    <3> DEFINE t == Over(task[j])
    <3>2. /\ t.pc = "over" /\ t.goal = "QUEUED" /\ t.names = task[j].names
          /\ ~t.cur.artifact_dir /\ t.cur.status \in Active
      BY <3>1, OverTyped DEF OverIs
    <3>3. task'[j] = t
      BY <1>1, <2>2
    <3> HIDE DEF t
    <3>4. Aims(task[j])'
      BY <3>2, <3>3 DEF Aims
    <3>5. FilesInDir(j)' /\ ArtifactsReportedOnce(j)'
      BY <1>1, <3>1, <3>2, <3>3 DEF JobSound, FilesInDir, ArtifactsReportedOnce
    <3>6. DirectoryNamed(j)'
      BY <1>1, <3>1, <3>2, <3>3 DEF JobSound, DirectoryNamed, Untouched
    <3>7. LastRecord(j)'
      BY <1>1, <3>1, <3>2, <3>3 DEF JobSound, LastRecord, Readable, HasFile
    <3> QED
      BY <3>4, <3>5, <3>6, <3>7 DEF JobSound
  <2> QED
    BY <2>1, <2>2
<1>4. ASSUME NEW c \in Clients PROVE Follows(request[c])'
  BY <1>1, InitialTypes DEF Follows, Working, RemovesRecord, Deleting
<1> QED
  BY <1>2, <1>3, <1>4 DEF IInv

\* Every step keeps types and invariant.
LEMMA NextPreserves ==
    ASSUME TypeOK, IInv, Next
    PROVE  TypeOK' /\ IInv'
<1>1. ASSUME NEW j \in Jobs, RunStep(j)
      PROVE  TypeOK' /\ IInv'
  BY <1>1, CreateJobPreserves, TaskCheckPreserves, TaskReadPreserves, TaskOpenPreserves,
     TaskFillPreserves, StartWorkflowPreserves, CallbackCheckPreserves, AppendGetPreserves,
     AppendRereadPreserves, GraphEndsPreserves, WriteArtifactPreserves,
     WriteRaisesPreserves, ArtifactsWrittenPreserves DEF RunStep
<1>2. ASSUME NEW c \in Clients, RequestStep(c)
      PROVE  TypeOK' /\ IInv'
  BY <1>2, ReceivePreserves, ListPreserves, ReadRecordPreserves, NextJobPreserves,
     GetJobPreserves, ArtifactDirPreserves, IterDirPreserves, StatFilesPreserves,
     CheckFilePreserves, ReadFilePreserves, UnlinkFilePreserves, SafeDirPreserves,
     RmtreePreserves, CheckRecordPreserves, UnlinkRecordPreserves, CancelReadPreserves,
     CancelOpenPreserves, CancelFillPreserves DEF RequestStep
<1> QED
  BY <1>1, <1>2, CrashPreserves DEF Next

\* A stuttering step keeps both.
LEMMA StutteringPreserves ==
    ASSUME TypeOK, IInv, UNCHANGED vars
    PROVE  TypeOK' /\ IInv'
<1>1. TypeOK'
  BY DEF vars, TypeOK
<1>2. ASSUME NEW j \in Jobs PROVE JobSound(j)'
  <2>1. SameJob(j)
    BY DEF vars, SameJob
  <2> QED
    BY <2>1, SameJobSound DEF IInv
<1>3. ASSUME NEW c \in Clients PROVE Follows(request[c])'
  BY FollowsKept DEF vars, Kept
<1> QED
  BY <1>1, <1>2, <1>3 DEF IInv

\* Types and invariant hold in every reachable state, for any number of jobs,
\* requests, callbacks and crashes (run_job, cancel_job, and ReviewJobRunner's library
\* and artifact methods).
THEOREM InductiveInvariant == Spec => [](TypeOK /\ IInv)
<1>1. Init => TypeOK /\ IInv
  BY TypeInit, InvariantInit
<1>2. TypeOK /\ IInv /\ [Next]_vars => (TypeOK /\ IInv)'
  BY NextPreserves, StutteringPreserves
<1> QED
  BY <1>1, <1>2, PTL DEF Spec

\* Counts of reports are numbers.
LEMMA ReportedTyped ==
    ASSUME TypeOK, NEW j \in Jobs
    PROVE  reported[j][""] > 0 => reported[j][""] # 0
<1>1. reported[j] \in [Parts -> 0..2] /\ "" \in Parts
  BY PartsAre DEF TypeOK
<1>2. reported[j][""] \in 0..2
  BY <1>1
<1>3. \A k \in 0..2 : k > 0 => k # 0
  OBVIOUS
<1> QED
  BY <1>2, <1>3

\* The variables have their types.
THEOREM TypeCorrect == Spec => []TypeOK
  BY InductiveInvariant, PTL

\* The record and the directory of a run agree, whatever requests meet and
\* wherever the process dies (delete_job, delete_artifact, cancel_job, run_job).
THEOREM RecordsAgreeWithFiles == Spec => []RecordAgreesWithFiles
<1>1. TypeOK /\ IInv => RecordAgreesWithFiles
  <2> SUFFICES ASSUME TypeOK, IInv, NEW j \in Jobs
               PROVE  /\ record[j].artifact_dir /\ j \notin removing =>
                            /\ dir[j]
                            /\ files[j] = {n \in Names : reported[j][n] = 0}
                      /\ reported[j][""] > 0 /\ dir[j] => j \in canceled \/ ~task[j].names
    BY DEF RecordAgreesWithFiles
  <2>1. DirectoryNamed(j) /\ LastRecord(j)
    BY DEF IInv, JobSound
  <2>2. reported[j][""] > 0 => reported[j][""] # 0
    BY ReportedTyped
  <2> QED
    BY <2>1, <2>2 DEF DirectoryNamed, LastRecord
<1> QED
  BY <1>1, InductiveInvariant, PTL

\* Of the requests that delete the same artifact, or the same job if no cancel met
\* it, one reports it deleted, and it is gone for good (delete_job, delete_artifact).
THEOREM DeletionsReportedOnce == Spec => []ReportedDeletedOnce
<1>1. TypeOK /\ IInv => ReportedDeletedOnce
  <2> SUFFICES ASSUME IInv PROVE ReportedDeletedOnce
    OBVIOUS
  <2>1. \A k : k = 0 \/ k = 1 => k <= 1
    <3>1. 0 <= 1 /\ 1 <= 1
      OBVIOUS
    <3> QED
      BY <3>1, Zenon
  <2>2. 1 # 0
    OBVIOUS
  <2>3. ASSUME NEW j \in Jobs, j \notin canceled
        PROVE  reported[j][""] <= 1 /\ (reported[j][""] = 1 => ~HasFile(j))
    <3>1. /\ reported[j][""] = 0 \/ reported[j][""] = 1
          /\ reported[j][""] = 1 => ~HasFile(j)
      BY <2>2, <2>3 DEF IInv, JobSound, LastRecord
    <3> QED
      BY <2>1, <3>1, Zenon
  <2>4. ASSUME NEW j \in Jobs, NEW n \in Names
        PROVE  reported[j][n] <= 1 /\ (reported[j][n] = 1 => n \notin files[j])
    <3>1. /\ reported[j][n] = 0 \/ reported[j][n] = 1
          /\ reported[j][n] = 1 => n \notin files[j]
      BY <2>2, <2>4 DEF IInv, JobSound, ArtifactsReportedOnce
    <3> QED
      BY <2>1, <3>1, Zenon
  <2> QED
    BY <2>3, <2>4, Zenon DEF ReportedDeletedOnce
<1> QED
  BY <1>1, InductiveInvariant, PTL

-----------------------------------------------------------------------------
(* The venue file of a run.                                                *)

\* An item of the catalog comes from one file, whose kind it has
\* (venue_catalog.py).
LEMMA ItemHasFile ==
    ASSUME NEW venue, contains(venue)
    PROVE  \E f \in VenueFiles :
              /\ f.code = venue.code
              /\ \/ f.dir = "ccfa" /\ venue.domain = "CS"
                 \/ /\ f.dir = "utd_ft50" /\ venue.domain = "IS"
                    /\ venue.venue_collection \in CollectionsOf(f.suffix)
<1>1. CASE venue \in iter_cs_items
  BY <1>1 DEF iter_cs_items, Item
<1>2. CASE venue \in iter_is_items
  <2>1. PICK f \in {g \in VenueFiles : g.dir = "utd_ft50"} :
           venue \in {Item(f, "IS", collection) : collection \in CollectionsOf(f.suffix)}
    BY <1>2 DEF iter_is_items
  <2>2. PICK collection \in CollectionsOf(f.suffix) : venue = Item(f, "IS", collection)
    BY <2>1
  <2> QED
    BY <2>1, <2>2 DEF Item
<1> QED
  BY <1>1, <1>2 DEF contains, list_items

\* A venue file is one of ccfa/ or one of utd_ft50/, and its fields tell it from others.
LEMMA VenueFileIs ==
    ASSUME NEW f \in VenueFiles
    PROVE  /\ \/ f.dir = "ccfa" /\ f.suffix \in {"_CCFA", ""}
              \/ f.dir = "utd_ft50" /\ f.suffix \in CollectionSuffixes \cup {""}
           /\ f = [dir |-> f.dir, code |-> f.code, suffix |-> f.suffix]
           /\ f.code \in Codes
<1>1. \/ f \in [dir : {"ccfa"}, code : STRING, suffix : {"_CCFA", ""}]
      \/ f \in [dir : {"utd_ft50"}, code : STRING, suffix : CollectionSuffixes \cup {""}]
  BY VenueFilesAssumption
<1> QED
  BY <1>1 DEF Codes

\* A file whose suffix the loader tries before those of the other files of its code
\* is the one it loads.
LEMMA LoadsFirst ==
    ASSUME NEW f \in VenueFiles, f.suffix # "",
           \A g \in candidate_paths(f.code) :
              /\ g.suffix \notin Before(f.suffix)
              /\ g # f => f.suffix \in Before(g.suffix)
    PROVE  load(f.code) = {f}
<1>1. f \in candidate_paths(f.code)
  BY DEF candidate_paths
<1> QED
  BY <1>1 DEF load

\* A code with one file of each suffix: two files of a code with the same suffix, that
\* the loader knows, are the same.
LEMMA OneOfEachSuffix ==
    ASSUME NEW f \in VenueFiles, NEW g \in VenueFiles,
           f.code = g.code, f.suffix = g.suffix, f.suffix # ""
    PROVE  f = g
<1>1. f.dir = g.dir
  BY VenueFileIs DEF CollectionSuffixes
<1> QED
  BY <1>1, VenueFileIs

\* In an unambiguous catalog the file that is loaded is of the item that was chosen.
LEMMA UnambiguousSuffices ==
    ASSUME Unambiguous, NEW venue, contains(venue), venue.code # ""
    PROVE  \E f \in VenueFiles :
              /\ load(venue.code) = {f}
              /\ venue.domain = "CS" <=> f.dir = "ccfa"
              /\ venue.domain = "IS" => venue.venue_collection \in CollectionsOf(f.suffix)
<1> DEFINE code == venue.code
           ccfa == SuffixesOf(code, "ccfa")
           utd == SuffixesOf(code, "utd_ft50")
<1>1. PICK h \in VenueFiles :
              /\ h.code = code
              /\ \/ h.dir = "ccfa" /\ venue.domain = "CS"
                 \/ /\ h.dir = "utd_ft50" /\ venue.domain = "IS"
                    /\ venue.venue_collection \in CollectionsOf(h.suffix)
  BY ItemHasFile
<1>2. code \in Codes \ {""}
  BY <1>1, VenueFileIs
<1>3. /\ ccfa # {} => "_CCFA" \in ccfa /\ utd \subseteq {""}
      /\ {"_UTD", "_FT50"} \subseteq utd => "_UTD_FT50" \in utd
  BY <1>2 DEF Unambiguous
<1>4. \A f \in VenueFiles : f.code = code => \/ f.dir = "ccfa" /\ f.suffix \in ccfa
                                             \/ f.dir = "utd_ft50" /\ f.suffix \in utd
  BY VenueFileIs DEF SuffixesOf
<1>5. \A suffix \in ccfa : \E f \in VenueFiles :
         f.code = code /\ f.dir = "ccfa" /\ f.suffix = suffix
  BY DEF SuffixesOf
<1>6. \A suffix \in utd : \E f \in VenueFiles :
         f.code = code /\ f.dir = "utd_ft50" /\ f.suffix = suffix
  BY DEF SuffixesOf
<1> HIDE DEF code, ccfa, utd
<1>7. CASE h.dir = "ccfa"
  <2>1. PICK f \in VenueFiles : f.code = code /\ f.dir = "ccfa" /\ f.suffix = "_CCFA"
    BY <1>1, <1>3, <1>4, <1>5, <1>7
  <2>2. ASSUME NEW g \in candidate_paths(code) PROVE g = f
    <3>1. g \in VenueFiles /\ g.code = code /\ g.suffix # ""
      BY <2>2 DEF candidate_paths
    <3>2. g.suffix = "_CCFA"
      BY <1>1, <1>3, <1>4, <1>7, <3>1, VenueFileIs
    <3> QED
      BY <2>1, <3>1, <3>2, OneOfEachSuffix
  <2>3. load(code) = {f}
    BY <2>1, <2>2, LoadsFirst DEF Before
  <2> QED
    BY <1>1, <1>7, <2>1, <2>3 DEF code
<1>8. CASE h.dir = "utd_ft50"
  <2>1. h.suffix \in CollectionSuffixes /\ h.suffix \in utd
    <3>1. h.suffix \in CollectionSuffixes \cup {""} /\ h.suffix # ""
      BY <1>1, <1>8, VenueFileIs DEF CollectionsOf
    <3> QED
      BY <1>1, <1>4, <1>8, <3>1
  <2>2. ccfa = {}
    BY <1>3, <2>1 DEF CollectionSuffixes
  <2>3. ASSUME NEW g \in candidate_paths(code)
        PROVE  /\ g \in VenueFiles /\ g.code = code
               /\ g.suffix \in CollectionSuffixes /\ g.suffix \in utd
    <3>1. g \in VenueFiles /\ g.code = code /\ g.suffix # ""
      BY <2>3 DEF candidate_paths
    <3> QED
      BY <1>4, <2>2, <3>1, VenueFileIs
  <2>4. CASE "_UTD_FT50" \in utd
    <3>1. PICK f \in VenueFiles : f.code = code /\ f.dir = "utd_ft50" /\ f.suffix = "_UTD_FT50"
      BY <1>6, <2>4
    <3>2. ASSUME NEW g \in candidate_paths(code)
          PROVE  g.suffix # "_CCFA" /\ (g # f => g.suffix \in {"_UTD", "_FT50"})
      BY <2>3, <3>1, <3>2, OneOfEachSuffix DEF CollectionSuffixes
    <3>3. load(code) = {f}
      BY <3>1, <3>2, LoadsFirst DEF Before
    <3>4. venue.venue_collection \in CollectionsOf(f.suffix)
      BY <1>1, <1>8, <2>1, <3>1 DEF CollectionsOf, CollectionSuffixes
    <3> QED
      BY <1>1, <1>8, <3>1, <3>3, <3>4 DEF code
  <2>5. CASE "_UTD_FT50" \notin utd
    <3>1. ASSUME NEW g \in candidate_paths(code) PROVE g = h
      <4>1. g.suffix = h.suffix
        BY <1>3, <2>1, <2>3, <2>5 DEF CollectionSuffixes
      <4> QED
        BY <1>1, <2>1, <2>3, <4>1, OneOfEachSuffix DEF CollectionSuffixes
    <3>2. h.suffix \notin Before(h.suffix)
      BY <2>1 DEF Before, CollectionSuffixes
    <3>3. load(code) = {h}
      BY <1>1, <2>1, <3>1, <3>2, LoadsFirst DEF CollectionSuffixes
    <3> QED
      BY <1>1, <1>8, <3>3 DEF code
  <2> QED
    BY <2>4, <2>5
<1> QED
  BY <1>1, <1>7, <1>8

\* The items of two kinds of files, which can be chosen.
LEMMA CanBeChosen ==
    ASSUME ChosenVenueIsRead, NEW f \in VenueFiles, f.code # "",
           NEW domain \in {"CS", "IS"}, NEW collection \in {"CCFA", "FT50", "UTD24"},
           \/ f.dir = "ccfa" /\ domain = "CS" /\ collection = "CCFA"
           \/ f.dir = "utd_ft50" /\ domain = "IS" /\ collection \in CollectionsOf(f.suffix)
    PROVE  \E g \in VenueFiles :
              /\ load(f.code) = {g}
              /\ domain = "CS" <=> g.dir = "ccfa"
              /\ domain = "IS" => collection \in CollectionsOf(g.suffix)
<1> DEFINE v == Item(f, domain, collection)
           paper == [suffix |-> ".pdf", exists |-> TRUE]
           r == [paper |-> paper, venue |-> v]
<1>1. /\ v \in Venue /\ v.code = f.code /\ v.domain = domain
      /\ v.venue_collection = collection
  BY VenueFileIs DEF Item, Venue
<1>2. v \in list_items
  <2>1. CASE f.dir = "ccfa"
    <3>1. v \in iter_cs_items
      BY <2>1 DEF iter_cs_items
    <3> QED
      BY <3>1 DEF list_items
  <2>2. CASE f.dir = "utd_ft50"
    <3> DEFINE items == {Item(f, "IS", k) : k \in CollectionsOf(f.suffix)}
    <3>1. domain = "IS" /\ collection \in CollectionsOf(f.suffix)
      BY <2>2
    <3>2. v \in items
      BY <3>1
    <3>3. items \subseteq iter_is_items
      BY <2>2 DEF iter_is_items
    <3> QED
      BY <3>2, <3>3 DEF list_items
  <2> QED
    BY <2>1, <2>2
<1>3. paper \in Paper /\ paper.exists /\ paper.suffix \in ALLOWED_SUBMISSION_SUFFIXES
  BY DEF Paper, ALLOWED_SUBMISSION_SUFFIXES
<1> HIDE DEF v, paper
<1>4. r \in Request /\ r.venue = v /\ r.paper = paper
  BY <1>1, <1>3 DEF Request
<1> HIDE DEF r
<1>5. validate_submission(r)
  BY <1>1, <1>2, <1>3, <1>4 DEF validate_submission, contains
<1> QED
  BY <1>1, <1>4, <1>5 DEF ChosenVenueIsRead

\* What is loaded has a code and a suffix that were asked for, and nothing comes before.
LEMMA LoadedIs ==
    ASSUME NEW code, NEW g, load(code) = {g}
    PROVE  /\ g \in VenueFiles /\ g.code = code /\ g.suffix # ""
           /\ \A f \in VenueFiles :
                 f.code = code /\ f.suffix # "" => f.suffix \notin Before(g.suffix)
<1>1. g \in load(code)
  OBVIOUS
<1> QED
  BY <1>1 DEF load, candidate_paths

\* In a catalog that is not unambiguous somebody may choose a venue whose file is not
\* read.
LEMMA UnambiguousIsNeeded ==
    ASSUME ChosenVenueIsRead
    PROVE  Unambiguous
<1> SUFFICES ASSUME NEW code \in Codes \ {""}
             PROVE  /\ SuffixesOf(code, "ccfa") # {} =>
                           /\ "_CCFA" \in SuffixesOf(code, "ccfa")
                           /\ SuffixesOf(code, "utd_ft50") \subseteq {""}
                    /\ {"_UTD", "_FT50"} \subseteq SuffixesOf(code, "utd_ft50") =>
                           "_UTD_FT50" \in SuffixesOf(code, "utd_ft50")
  BY DEF Unambiguous
<1>1. ASSUME NEW f \in VenueFiles, f.code = code, f.dir = "ccfa"
      PROVE  "_CCFA" \in SuffixesOf(code, "ccfa")
  <2>1. PICK g \in VenueFiles : load(code) = {g} /\ g.dir = "ccfa"
    BY <1>1, CanBeChosen
  <2>2. g.code = code /\ g.suffix = "_CCFA"
    BY <2>1, LoadedIs, VenueFileIs DEF CollectionSuffixes
  <2> QED
    BY <2>1, <2>2 DEF SuffixesOf
<1>2. ASSUME "_CCFA" \in SuffixesOf(code, "ccfa"), NEW h \in VenueFiles, h.code = code,
             h.dir = "utd_ft50", h.suffix # ""
      PROVE  FALSE
  <2>1. PICK f \in VenueFiles : f.code = code /\ f.dir = "ccfa" /\ f.suffix = "_CCFA"
    BY <1>2 DEF SuffixesOf
  <2>2. PICK collection \in {"FT50", "UTD24"} : collection \in CollectionsOf(h.suffix)
    BY <1>2, VenueFileIs DEF CollectionsOf, CollectionSuffixes
  <2>3. PICK g \in VenueFiles : load(code) = {g} /\ g.dir # "ccfa"
    BY <1>2, <2>2, CanBeChosen
  <2>4. "_CCFA" \notin Before(g.suffix) /\ g.suffix # ""
    <3>1. /\ g.suffix # ""
          /\ f.code = code /\ f.suffix # "" => f.suffix \notin Before(g.suffix)
      BY <2>3, LoadedIs
    <3> QED
      BY <2>1, <3>1
  <2>5. g.suffix \in CollectionSuffixes
    BY <2>3, <2>4, VenueFileIs
  <2> QED
    BY <2>4, <2>5 DEF Before, CollectionSuffixes
<1>3. ASSUME {"_UTD", "_FT50"} \subseteq SuffixesOf(code, "utd_ft50")
      PROVE  "_UTD_FT50" \in SuffixesOf(code, "utd_ft50")
  <2>1. PICK f \in VenueFiles : f.code = code /\ f.dir = "utd_ft50" /\ f.suffix = "_UTD"
    BY <1>3 DEF SuffixesOf
  <2>2. PICK h \in VenueFiles : h.code = code /\ h.dir = "utd_ft50" /\ h.suffix = "_FT50"
    BY <1>3 DEF SuffixesOf
  <2>3. "FT50" \in CollectionsOf(h.suffix)
    BY <2>2 DEF CollectionsOf
  <2>4. PICK g \in VenueFiles : /\ load(code) = {g} /\ g.dir # "ccfa"
                               /\ "FT50" \in CollectionsOf(g.suffix)
    BY <2>2, <2>3, CanBeChosen
  <2>5. g.code = code /\ "_UTD" \notin Before(g.suffix) /\ g.suffix # ""
    <3>1. /\ g.code = code /\ g.suffix # ""
          /\ f.code = code /\ f.suffix # "" => f.suffix \notin Before(g.suffix)
      BY <2>4, LoadedIs
    <3> QED
      BY <2>1, <3>1
  <2>6. g.dir = "utd_ft50" /\ g.suffix \in CollectionSuffixes
    BY <2>4, <2>5, VenueFileIs
  <2>7. g.suffix = "_UTD_FT50"
    BY <2>4, <2>5, <2>6 DEF Before, CollectionSuffixes, CollectionsOf
  <2> QED
    BY <2>5, <2>6, <2>7 DEF SuffixesOf
<1>4. SuffixesOf(code, "ccfa") # {} => "_CCFA" \in SuffixesOf(code, "ccfa")
  BY <1>1 DEF SuffixesOf
<1>5. "_CCFA" \in SuffixesOf(code, "ccfa") => SuffixesOf(code, "utd_ft50") \subseteq {""}
  BY <1>2 DEF SuffixesOf
<1> QED
  BY <1>3, <1>4, <1>5

\* For every catalog in VENUES_DIR: the runs the service starts read the file of the
\* domain and collection that was chosen (validate_submission, venue_catalog.py,
\* venues.py) if, and only if, the catalog is unambiguous.
THEOREM VenueOfTheChoice == ChosenVenueIsRead <=> Unambiguous
<1>1. ASSUME Unambiguous PROVE ChosenVenueIsRead
  BY <1>1, UnambiguousSuffices DEF ChosenVenueIsRead, validate_submission
<1> QED
  BY <1>1, UnambiguousIsNeeded
=============================================================================

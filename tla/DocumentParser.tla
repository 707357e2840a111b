--------------------------- MODULE DocumentParser ---------------------------
(***************************************************************************)
(* infra/parsers: LocalDocumentParser chooses a parser for each paper;     *)
(* MinerUStandardPDFParser talks to a service that works on its own time;  *)
(* what fails with a DocumentParseError falls back to PyMuPDF, anything    *)
(* else is raised to the caller.                                           *)
(*                                                                         *)
(* A docx is refused by the review service before it gets here.            *)
(* Abstracted: text, titles, sections and pages; a paper's text is known   *)
(* by the parser it comes from.  The deadline of the polling may pass      *)
(* before any poll, and has passed after MaxPolls of them, the number that *)
(* fits between mineru_timeout_sec and mineru_poll_interval_sec.           *)
(***************************************************************************)
EXTENDS Naturals, Sequences

CONSTANTS Papers,       \* files, each parsed once
          Format,       \* the kind of file each one is: .pdf, .md or .tex, other
          Backends,     \* values of settings.parser_backend
          MaxPolls

ASSUME DocumentParserAssumption ==
    /\ Format \in [Papers -> {"pdf", "text", "unsupported"}]
    /\ MaxPolls \in Nat

VARIABLES
    backend,        \* settings.parser_backend, and whether a MinerU token is set
    is_configured,
    parse,          \* per paper: where its parsing is
    task            \* per paper: its task at the MinerU service

parserVars == <<backend, is_configured, parse, task>>

MinerUBackends == {"auto", "mineru", "mineru-standard"}
LocalBackends == {"pymupdf", "local"}

\* How a paper's parsing ends, and where it is until then.
Ends == {"parsed", "error", "os_error", "raised"}
ParserTypeOK ==
    /\ backend \in Backends /\ is_configured \in BOOLEAN
    /\ parse \in [Papers ->
          [pc : {"idle", "post", "put", "poll", "zip", "pymupdf", "read"} \cup Ends,
           polls : 0..MaxPolls, by : {"none", "mineru", "pymupdf", "text_docx"},
           errors : SUBSET {"mineru", "pymupdf", "text_docx"}]]
    /\ task \in [Papers -> {"none", "running", "done", "failed"}]

ParserInit ==
    /\ backend \in Backends
    /\ is_configured \in BOOLEAN
    /\ parse = [p \in Papers |->
          [pc |-> "idle", polls |-> 0, by |-> "none", errors |-> {}]]
    /\ task = [p \in Papers |-> "none"]

-----------------------------------------------------------------------------
ShouldTryMinerU == backend \in MinerUBackends /\ is_configured
ShouldTryPyMuPDF == backend \in MinerUBackends \cup LocalBackends

GoOn(p, pc) == parse' = [parse EXCEPT ![p].pc = pc]

\* build_parsed_paper: text that is not empty after normalize_text is the
\* paper's, and empty text is a DocumentParseError.
Built(p, by) == parse' = [parse EXCEPT ![p].pc = "parsed", ![p].by = by]

\* _parse_pdf catches the DocumentParseError of a parser.
Falls(p, parser) ==
    parse' = [parse EXCEPT ![p].errors = @ \cup {parser},
                           ![p].pc = IF parser = "mineru" /\ ShouldTryPyMuPDF
                                     THEN "pymupdf" ELSE "error"]

\* parse: the parser that is tried first.
StartParse(p) ==
    /\ parse[p].pc = "idle"
    /\ GoOn(p, CASE Format[p] = "text" -> "read"
                 [] Format[p] = "pdf" /\ ShouldTryMinerU -> "post"
                 [] Format[p] = "pdf" /\ ~ShouldTryMinerU /\ ShouldTryPyMuPDF -> "pymupdf"
                 [] OTHER -> "error")
    /\ UNCHANGED <<backend, is_configured, task>>

\* The upload URL is asked for, and the file is put there: the task begins.
Upload(p) ==
    /\ \/ parse[p].pc = "post" /\ GoOn(p, "put") /\ UNCHANGED task
       \/ parse[p].pc = "put" /\ GoOn(p, "poll") /\ task' = [task EXCEPT ![p] = "running"]
    /\ UNCHANGED <<backend, is_configured>>

\* The service ends a task when it likes.
ServiceEnds(p) ==
    /\ task[p] = "running"
    /\ \E state \in {"done", "failed"} : task' = [task EXCEPT ![p] = state]
    /\ UNCHANGED <<backend, is_configured, parse>>

PollForever(p) ==       \* mutant: the deadline is not looked at
    /\ parse[p].pc = "poll"
    /\ \/ task[p] = "running" /\ GoOn(p, "poll")
       \/ task[p] = "done" /\ GoOn(p, "zip")
       \/ task[p] = "failed" /\ Falls(p, "mineru")
    /\ UNCHANGED <<backend, is_configured, task>>

\* One turn of the loop of _poll_batch_result.
Poll(p) ==
    /\ parse[p].pc = "poll"
    /\ \/ Falls(p, "mineru")                            \* the deadline has passed
       \/ /\ parse[p].polls < MaxPolls
          /\ \/ /\ task[p] = "running"
                /\ parse' = [parse EXCEPT ![p].polls = @ + 1]
             \/ task[p] = "done" /\ GoOn(p, "zip")
             \/ task[p] = "failed" /\ Falls(p, "mineru")
    /\ UNCHANGED <<backend, is_configured, task>>

\* The archive is fetched and holds a full.md with text.
Unzip(p) ==
    /\ parse[p].pc = "zip"
    /\ Built(p, "mineru")
    /\ UNCHANGED <<backend, is_configured, task>>

\* A request, or what it returned, is a DocumentParseError: no connection, a
\* status, no JSON, no upload URL, no archive, no full.md, an empty one.
MinerUFails(p) ==
    /\ parse[p].pc \in {"post", "put", "poll", "zip"}
    /\ Falls(p, "mineru")
    /\ UNCHANGED <<backend, is_configured, task>>

\* The file cannot be read, the answer has another shape, the archive is
\* damaged: these raise something else, which nothing here catches.
MinerURaises(p) ==
    /\ \/ parse[p].pc = "put" /\ GoOn(p, "os_error")
       \/ parse[p].pc \in {"post", "poll", "zip"} /\ GoOn(p, "raised")
    /\ UNCHANGED <<backend, is_configured, task>>

\* PyMuPDFDocumentParser.parse: whatever fitz raises is a DocumentParseError.
PyMuPDF(p) ==
    /\ parse[p].pc = "pymupdf"
    /\ Built(p, "pymupdf") \/ Falls(p, "pymupdf")
    /\ UNCHANGED <<backend, is_configured, task>>

\* TextDocxDocumentParser.parse: any bytes decode, if they can be read.
ReadText(p) ==
    /\ parse[p].pc = "read"
    /\ Built(p, "text_docx") \/ Falls(p, "text_docx") \/ GoOn(p, "os_error")
    /\ UNCHANGED <<backend, is_configured, task>>

ParseGoesOn(p) == Upload(p) \/ Poll(p) \/ Unzip(p) \/ PyMuPDF(p) \/ ReadText(p)

ParseStep(p) == ParseGoesOn(p) \/ MinerUFails(p) \/ MinerURaises(p)

ParseEnded(p) == parse[p].pc \in Ends

\* doc_parse_node takes the errors it expects for a paper that cannot be read.
ParseError(p) == parse[p].pc \in {"error", "os_error"}
=============================================================================

----------------------------- MODULE Submission -----------------------------
(***************************************************************************)
(* Where the paper and the venue of a request come from, what the API and  *)
(* the review service refuse, and which venue file a run reads.            *)
(*                                                                         *)
(* A paper is its suffix and whether it is on disk; a venue file its       *)
(* directory, the venue's code and the suffix of its name.                 *)
(***************************************************************************)
CONSTANTS
    VenueFiles,         \* the venue files of venues/
    UploadExtensions    \* APP_SUPPORTED_UPLOAD_EXTENSIONS

\* The kinds the loader and the catalog know; any other ending, "", is part of the code.
CollectionSuffixes == {"_UTD_FT50", "_UTD", "_FT50"}

ASSUME VenueFilesAssumption ==
    /\ VenueFiles \subseteq [dir : {"ccfa"}, code : STRING, suffix : {"_CCFA", ""}]
                        \cup [dir : {"utd_ft50"}, code : STRING,
                              suffix : CollectionSuffixes \cup {""}]
    /\ UploadExtensions \subseteq STRING

-----------------------------------------------------------------------------
(* The catalog the user chooses from (core/venue_catalog.py).              *)

Item(f, domain, collection) ==
    [code |-> f.code, domain |-> domain, venue_collection |-> collection]

\* Every file of ccfa/ counts, whatever its suffix.
iter_cs_items == {Item(f, "CS", "CCFA") : f \in {g \in VenueFiles : g.dir = "ccfa"}}

CollectionsOf(suffix) ==
    CASE suffix = "_UTD_FT50" -> {"FT50", "UTD24"}
      [] suffix = "_FT50" -> {"FT50"}
      [] suffix = "_UTD" -> {"UTD24"}
      [] OTHER -> {}

iter_is_items ==
    UNION {{Item(f, "IS", collection) : collection \in CollectionsOf(f.suffix)} :
              f \in {g \in VenueFiles : g.dir = "utd_ft50"}}

list_items == iter_cs_items \cup iter_is_items

contains(venue) == venue \in list_items

-----------------------------------------------------------------------------
(* The file the run reads (core/venues.py): by code alone.                 *)

candidate_paths(code) == {f \in VenueFiles : f.code = code /\ f.suffix # ""}

\* The suffixes the loader tries first.
Before(suffix) ==
    CASE suffix = "_CCFA" -> {}
      [] suffix = "_UTD_FT50" -> {"_CCFA"}
      [] suffix = "_UTD" -> {"_CCFA", "_UTD_FT50"}
      [] OTHER -> {"_CCFA", "_UTD_FT50", "_UTD"}

load(code) ==
    {f \in candidate_paths(code) : \A g \in candidate_paths(code) : g.suffix \notin Before(f.suffix)}

-----------------------------------------------------------------------------
(* Requests.                                                               *)

Paper == [suffix : {".pdf", ".md", ".tex", ".docx"}, exists : BOOLEAN]

Codes == {f.code : f \in VenueFiles} \cup {""}

Venue == [code : Codes, domain : {"CS", "IS"},
          venue_collection : {"CCFA", "CCFB", "CCFC", "FT50", "UTD24"}]

Request == [paper : Paper, venue : Venue]

\* A JSON request names a path, and a domain and collection of the enumerations.
review_request_from_json == Request

\* A file sent with the form is stored if its suffix is one of the configured ones and
\* it is not too large.
review_request_from_upload ==
    {r \in Request : r.paper.exists /\ r.paper.suffix \in UploadExtensions}

\* A fetched paper is a stored pdf; anything else arXiv sends is refused.
fetch_arxiv_pdf == [suffix |-> ".pdf", exists |-> TRUE]

review_request_from_arxiv == {r \in Request : r.paper = fetch_arxiv_pdf}

ALLOWED_SUBMISSION_SUFFIXES == {".pdf", ".md", ".tex"}

\* The service looks when the run starts.
validate_submission(r) ==
    /\ r.paper.exists
    /\ r.paper.suffix \in ALLOWED_SUBMISSION_SUFFIXES
    /\ r.venue.code # ""
    /\ contains(r.venue)

-----------------------------------------------------------------------------
(* Properties of catalogs and settings.                                    *)

\* A run the service starts reads exactly one venue file, and that is a file of
\* the domain and collection the user chose, although it looks by code alone.
ChosenVenueIsRead ==
    \A r \in Request : validate_submission(r) =>
        \E f \in VenueFiles :
            /\ load(r.venue.code) = {f}
            /\ (r.venue.domain = "CS" <=> f.dir = "ccfa")
            /\ r.venue.domain = "IS" => r.venue.venue_collection \in CollectionsOf(f.suffix)

SuffixesOf(code, dir) == {f.suffix : f \in {g \in VenueFiles : g.code = code /\ g.dir = dir}}

\* The catalogs for which that is so: a code that ccfa/ lists has a file there that the
\* loader looks for, and then none in a collection of utd_ft50/; and one of both
\* collections has a file for both.
Unambiguous ==
    \A code \in Codes \ {""} :
        LET ccfa == SuffixesOf(code, "ccfa")
            utd_ft50 == SuffixesOf(code, "utd_ft50")
        IN /\ ccfa # {} => "_CCFA" \in ccfa /\ utd_ft50 \subseteq {""}
           /\ {"_UTD", "_FT50"} \subseteq utd_ft50 => "_UTD_FT50" \in utd_ft50

\* What is uploaded or fetched is not refused for its suffix.
UploadsAreAllowed ==
    \A r \in review_request_from_upload \cup review_request_from_arxiv :
        contains(r.venue) /\ r.venue.code # "" => validate_submission(r)
=============================================================================

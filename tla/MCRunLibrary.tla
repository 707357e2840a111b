---------------------------- MODULE MCRunLibrary ----------------------------
(* Instances of RunLibrary for TLC. *)
EXTENDS RunLibrary, TLC

Symmetry == Permutations(Clients)

\* One file of each kind the catalog knows.
MCVenueFiles == {
    [dir |-> "ccfa", code |-> "AAAI", suffix |-> "_CCFA"],
    [dir |-> "utd_ft50", code |-> "MISQ", suffix |-> "_UTD_FT50"],
    [dir |-> "utd_ft50", code |-> "JOC", suffix |-> "_UTD"],
    [dir |-> "utd_ft50", code |-> "JIBS", suffix |-> "_FT50"]}

\* The default of the settings.
MCUploadExtensions == {".pdf", ".md", ".tex"}

\* The example of VenueRepository's docstring: a code in both directories, and in
\* utd_ft50/ with a file of every kind.
DocumentedVenueFiles ==
    [dir : {"ccfa"}, code : {"AAAI"}, suffix : {"_CCFA"}]
        \cup [dir : {"utd_ft50"}, code : {"AAAI"}, suffix : CollectionSuffixes]

Documented == INSTANCE Submission WITH VenueFiles <- DocumentedVenueFiles

ASSUME MCSubmissionAssumption ==
    /\ ChosenVenueIsRead /\ Unambiguous /\ UploadsAreAllowed
    /\ ~Documented!ChosenVenueIsRead /\ ~Documented!Unambiguous
=============================================================================

SPECIFICATION Spec
CONSTANTS
    Jobs = {j1}
    Clients = {c1, c2}
    Threads = 2
    MaxCrashes = 1
    VenueFiles <- MCVenueFiles
    UploadExtensions <- MCUploadExtensions
SYMMETRY Symmetry
INVARIANTS
    RecordAgreesWithFiles
    ReportedDeletedOnce

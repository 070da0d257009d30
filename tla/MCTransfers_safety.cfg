\* Two processes and two transfers, each of which may be a retry.
SPECIFICATION Spec
CONSTANTS
    movie = movie
    still = still
    clip = clip
    Procs = {p1, p2}
    Media = {movie, still}
    Compliant = {still}
    Names = {clip}
    Jobs <- MCJobs
    Keep = 1
    MaxTransfers = 2
SYMMETRY ProcSymmetry
INVARIANTS
    TypeOK
    JournalTells
    SentIsWhole
PROPERTIES
    ReplaceLeavesOldOrNew

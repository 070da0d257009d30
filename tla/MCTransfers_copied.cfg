\* One transfer, kept by a copy.
SPECIFICATION Spec
CONSTANTS
    movie = movie
    still = still
    clip = clip
    Procs = {p1}
    Media = {movie, still}
    Compliant = {still}
    Names = {clip}
    Jobs <- MCJobs
    Keep = 1
    MaxTransfers = 1
SYMMETRY ProcSymmetry
INVARIANTS
    KeptIsWhole

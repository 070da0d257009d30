---------------------------- MODULE MCTransfers ----------------------------
(***************************************************************************)
(* Small instances of Transfers for TLC.                                   *)
(***************************************************************************)
EXTENDS Transfers, TLC

CONSTANTS movie, still, clip

\* An encoded upload, shown or replacing or neither; a replacement; and an
\* upload of a compliant file.
UploadOf(m) == [kind |-> "upload", media |-> m, name |-> clip,
                show |-> FALSE, replace |-> FALSE]
MCJobs == {UploadOf(movie), UploadOf(still),
           [UploadOf(movie) EXCEPT !.show = TRUE],
           [UploadOf(movie) EXCEPT !.kind = "replace", !.replace = TRUE]}

\* Processes are interchangeable.
ProcSymmetry == Permutations(Procs)

=============================================================================

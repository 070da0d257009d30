------------------------------ MODULE MCDaemon ------------------------------
(***************************************************************************)
(* Small instances of Daemon for TLC.                                      *)
(***************************************************************************)
EXTENDS Daemon, TLC

\* Client connections are interchangeable: no fairness and no property of a
\* safety run names one of them.
CallSymmetry == Permutations(Calls)

=============================================================================

---------------------------- MODULE MCTermination ----------------------------
(***************************************************************************)
(* Small instances of the termination protocol.                            *)
(***************************************************************************)
EXTENDS Termination, TLC

\* Sound for the safety runs: no operator tells one worker from another.
WorkerSymmetry == Permutations(Workers)
=============================================================================

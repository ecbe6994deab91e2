------------------------- MODULE TerminationDetector -------------------------
(***************************************************************************)
(* What the termination protocol promises, without messages, ids and       *)
(* rounds: processes come to rest, are woken by processes that are not at  *)
(* rest, and leave when all are at rest (docs/concepts.md, "Termination"). *)
(***************************************************************************)
CONSTANT Ranks

VARIABLES
  quiet,   \* per process: its main thread is in edatFinalise, and nothing is left
  over     \* the processes that have left edatFinalise

Init == quiet = [r \in Ranks |-> FALSE] /\ over = {}

Settle(r) ==
  /\ ~quiet[r]
  /\ quiet' = [quiet EXCEPT ![r] = TRUE]
  /\ UNCHANGED over

\* An event of s reaches r.
Wake(r, s) ==
  /\ quiet[r] /\ ~quiet[s]
  /\ quiet' = [quiet EXCEPT ![r] = FALSE]
  /\ UNCHANGED over

Leave(r) ==
  /\ \A s \in Ranks : quiet[s]
  /\ over' = over \union {r}
  /\ UNCHANGED quiet

Next == \E r \in Ranks : Settle(r) \/ (\E s \in Ranks : Wake(r, s)) \/ Leave(r)

Spec == Init /\ [][Next]_<<quiet, over>>
=============================================================================

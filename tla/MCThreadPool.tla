---------------------------- MODULE MCThreadPool ----------------------------
(***************************************************************************)
(* Configurations of the thread pool.                                      *)
(***************************************************************************)
EXTENDS ThreadPoolProperties

setting(n, main, thread) ==
  [workers |-> n, mainIsWorker |-> main, progressThread |-> thread, report |-> FALSE, restarts |-> 0]

\* All there are with two workers, and two with one worker.
Work ==
  {setting(2, m, p) : m, p \in BOOLEAN} \union
  {[setting(1, FALSE, TRUE) EXCEPT !.report = TRUE], [setting(1, TRUE, FALSE) EXCEPT !.restarts = 1]}

\* One or two workers beside the main thread, whose threads take turns.
Beside == {setting(n, FALSE, p) : n \in {1, 2}, p \in BOOLEAN}

\* One worker beside a progress thread.
Default == {setting(1, FALSE, TRUE)}

\* One worker, which is also to poll.
Alone == {setting(1, FALSE, FALSE)}
=============================================================================

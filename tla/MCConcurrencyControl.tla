------------------------- MODULE MCConcurrencyControl -------------------------
(***************************************************************************)
(* Small instances of the named locks.                                     *)
(***************************************************************************)
EXTENDS ConcurrencyControl

\* a worker, and a main thread that is not one
MainAndWorker == {0, NoWorker}
=============================================================================

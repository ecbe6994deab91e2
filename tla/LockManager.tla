----------------------------- MODULE LockManager -----------------------------
(***************************************************************************)
(* What named locks promise (docs/protecting_shared_data.md), without the  *)
(* books and the mutexes of the library: a lock is granted to one worker   *)
(* at a time; a call returns when all it waits for is granted; a wait      *)
(* gives back all a task has, and returns when it has the same again.      *)
(***************************************************************************)
CONSTANTS Callers, Names

VARIABLES
  has,    \* per caller: the locks it has
  due,    \* per caller: the locks it is still to be granted
  phase   \* per caller: works (in user code), asks (for locks) or waits (for events)

Init ==
  /\ has = [c \in Callers |-> {}]
  /\ due = [c \in Callers |-> {}]
  /\ phase = [c \in Callers |-> "works"]

Move(c, from, to) == phase[c] = from /\ phase' = [phase EXCEPT ![c] = to]

\* To ask for a lock one has already is to ask for nothing.
Request(c, n) ==
  /\ Move(c, "works", "asks")
  /\ due' = [due EXCEPT ![c] = {n} \ has[c]]
  /\ UNCHANGED has

Grant(c, n) ==
  /\ phase[c] = "asks" /\ n \in due[c] /\ \A d \in Callers : n \notin has[d]
  /\ has' = [has EXCEPT ![c] = @ \union {n}]
  /\ due' = [due EXCEPT ![c] = @ \ {n}]
  /\ UNCHANGED phase

Return(c) ==
  /\ Move(c, "asks", "works") /\ due[c] = {}
  /\ UNCHANGED <<has, due>>

Release(c, n) ==
  /\ phase[c] = "works" /\ n \in has[c]
  /\ has' = [has EXCEPT ![c] = @ \ {n}]
  /\ UNCHANGED <<due, phase>>

EndTask(c) ==
  /\ phase[c] = "works"
  /\ has' = [has EXCEPT ![c] = {}]
  /\ UNCHANGED <<due, phase>>

Suspend(c) ==
  /\ Move(c, "works", "waits")
  /\ has' = [has EXCEPT ![c] = {}]
  /\ due' = [due EXCEPT ![c] = has[c]]

Resume(c) ==
  /\ Move(c, "waits", "asks")
  /\ UNCHANGED <<has, due>>

Next ==
  \E c \in Callers :
    \/ \E n \in Names : Request(c, n) \/ Grant(c, n) \/ Release(c, n)
    \/ Return(c) \/ EndTask(c) \/ Suspend(c) \/ Resume(c)

Spec == Init /\ [][Next]_<<has, due, phase>>
=============================================================================

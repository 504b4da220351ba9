----------------------------- MODULE TaskGraph -----------------------------
(***************************************************************************)
(* What the execution of a decomposed quest promises while its parent is   *)
(* open: a task starts only when every task it depends on is done, done    *)
(* tasks stay done, and the result is delivered when all tasks are done.   *)
(* Who works on a task, how often it is retried and how its result is      *)
(* judged is left open.  processor/questdagexec/types.go:133-142 gives the *)
(* rules in prose; DagExec implements this module.                         *)
(***************************************************************************)
EXTENDS Naturals

CONSTANTS Tasks, DependsOn

VARIABLES
  phase,    \* of each task: "waiting", "working" or "done"
  outcome   \* of the whole: "open", "delivered" or "given up"

vars == <<phase, outcome>>

Init ==
  /\ phase = [t \in Tasks |-> "waiting"]
  /\ outcome = "open"

Start(t) ==
  /\ phase[t] = "waiting"
  /\ \A d \in DependsOn[t] : phase[d] = "done"
  /\ phase' = [phase EXCEPT ![t] = "working"]
  /\ UNCHANGED outcome

\* The attempt at the task ends, with success or to be repeated.
Stop(t) ==
  /\ phase[t] = "working"
  /\ \E to \in {"done", "waiting"} : phase' = [phase EXCEPT ![t] = to]
  /\ UNCHANGED outcome

Deliver ==
  /\ \A t \in Tasks : phase[t] = "done"
  /\ outcome' = "delivered"
  /\ UNCHANGED phase

GiveUp ==
  /\ outcome' = "given up"
  /\ UNCHANGED phase

\* Once the outcome is decided nothing is promised about the tasks.
Next ==
  \/ outcome # "open" /\ outcome' # "open"
  \/ outcome = "open" /\ (Deliver \/ GiveUp \/ \E t \in Tasks : Start(t) \/ Stop(t))

Spec == Init /\ [][Next]_vars
=============================================================================

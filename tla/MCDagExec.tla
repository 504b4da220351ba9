----------------------------- MODULE MCDagExec -----------------------------
(***************************************************************************)
(* Instances of DagExec small enough for TLC.                              *)
(***************************************************************************)
EXTENDS DagExec, TLC

CONSTANTS m1, m2

\* Two independent nodes and one that needs both: a member must be free again for it.
MCJoin == 1 :> {} @@ 2 :> {} @@ 3 :> {1, 2}

\* One member fits the second node better.
MCFit == [n \in Nodes |-> m1 :> 1 @@ m2 :> IF n = 2 THEN 2 ELSE 1]

\* Triage where it can fail to be reached, and no retries where faults are many.
EachFault ==
  [fault : {"none", "publish"}, triage : BOOLEAN, retries : {1}]
    \cup [fault : {"crash"}, triage : {FALSE}, retries : {1}]
    \cup [fault : {"duplicate", "operator"}, triage : {FALSE}, retries : {0}]

Undisturbed == [fault : {"none"}, triage : {FALSE}, retries : {1}]
=============================================================================

----------------------------- MODULE MCToolDesk -----------------------------
(* One explore of one quest's loop.                                        *)
EXTENDS ToolDesk

MCCallKinds == [explore |-> [shape |-> "good", tool |-> "explore", claimed |-> 3]]
MCToolTiers == [bash |-> 1]

Spec == ToolsInit /\ [][ToolsNext]_tkVars
=============================================================================

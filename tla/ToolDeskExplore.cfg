\* A sub-agent ends before the loop that asked for it.
SPECIFICATION Spec
CONSTANTS
 CallBound = 1
 CallKinds <- MCCallKinds
 ToolTiers <- MCToolTiers
 ToolMishaps = 0
INVARIANT ExploresLeaveQuest
CHECK_DEADLOCK FALSE

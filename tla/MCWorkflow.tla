------------------------------- MODULE MCWorkflow -------------------------------
(***************************************************************************)
(* WorkflowOrchestrator with small constants.                               *)
(***************************************************************************)
EXTENDS WorkflowOrchestrator, TLC

CONSTANTS t1, t2

TaskSymmetry == Permutations(Tasks)

Allow(cs) == [c \in Commands |-> IF c \in cs THEN 1 ELSE 0]
NoCommand == Allow({})
CancelOnly == Allow({"cancel"})
PauseOnly == Allow({"pause"})
QueryOnly == Allow({"query"})
CancelAndRetry == Allow({"cancel", "retry"})
All == Allow(Commands)

\* Three of six events: the four commands, a stage job that cannot be created, and the end
\* of the process.
MaxEvents == 3
Events == Cardinality({c \in Commands : used[c] > 0}) + errors + crashes
MCNext == Next /\ Events' <= MaxEvents
================================================================================

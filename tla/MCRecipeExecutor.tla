-------------------------- MODULE MCRecipeExecutor --------------------------
(* RecipeExecutor for TLC.  The fault sets a configuration chooses from.   *)
EXTENDS RecipeExecutor

\* Faults under which the deadman's own messages get through in order.
WindowFaults == {"crash", "stop_fails", "stop_answer_lost", "start_fails",
                 "step_fails", "refused"}

\* Faults under which every stopped unit must come back: arms are late but
\* not lost, and a stop succeeds.
DelayFaults == {"crash", "start_fails", "step_fails", "disarm_lost", "check_answer_lost"}

\* Recipes: everything a Recipe can ask for, and files only.
FullRecipe == [paths |-> 1, db |-> TRUE, owner |-> TRUE, post |-> TRUE]
TwoPaths == [paths |-> 2, db |-> FALSE, owner |-> FALSE, post |-> FALSE]
FilesOnly == [paths |-> 1, db |-> FALSE, owner |-> FALSE, post |-> FALSE]
AllShapes == [paths : 0..1, db : BOOLEAN, owner : BOOLEAN, post : BOOLEAN] \cup {TwoPaths}
TwoShapes == {FullRecipe, FilesOnly}
JustFiles == {FilesOnly}

\* Everything but the driver's death.
LiveDriverFaults == AllFaults \ {"crash"}

BackupOnly == {"backup"}

NoFaults == {}
CrashOnly == {"crash"}
LossOnly == {"arm_lost"}
CrashAndStop == {"crash", "stop_fails"}
============================================================================

---------------------------- MODULE MCGovernance ----------------------------
(* Commands for small instances of Governance. *)
EXTENDS Governance

\* `ls', an allowlisted command.
ls == [tool |-> "shell", destructive |-> FALSE, risky |-> FALSE, safeHead |-> TRUE]

\* `rm -rf build', a catastrophic one.
rmrf == [tool |-> "shell", destructive |-> TRUE, risky |-> FALSE, safeHead |-> FALSE]

\* A read-only tool whose argument contains a catastrophic pattern.
readRmrf == [tool |-> "read", destructive |-> TRUE, risky |-> FALSE, safeHead |-> FALSE]

MCTwoRisks == {ls, rmrf}
MCReadTool == {ls, readRmrf}
=============================================================================

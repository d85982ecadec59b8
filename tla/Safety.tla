------------------------------- MODULE Safety -------------------------------
(***************************************************************************)
(* The autonomy safety classifier of crates/protocol/src/safety.rs.        *)
(* A command is kept as the answers the pattern tables give about it: which *)
(* family its tool belongs to, whether the normalized text contains one of *)
(* NEVER_AUTO_PATTERNS, one of RISKY_PATTERNS, and whether it starts with  *)
(* one of SAFE_HEADS.  The texts of the tables themselves are left out.    *)
(***************************************************************************)

Autonomies == {"Manual", "Guarded", "Auto"}

Risks == {"Safe", "Risky", "NeverAuto"}

Command == [tool : {"read", "write", "shell"},
            destructive : BOOLEAN, risky : BOOLEAN, safeHead : BOOLEAN]

\* A read-only tool, or command text on the allowlist and off the risky list.
IsSafe(c) == \/ c.tool = "read"
             \/ c.tool = "shell" /\ ~c.risky /\ c.safeHead

\* Faulty variant: the kind of tool is looked at before the catastrophic list.
ClassifyToolFirst(c) == IF IsSafe(c) THEN "Safe"
                        ELSE IF c.destructive THEN "NeverAuto" ELSE "Risky"

\* Catastrophic markers win regardless of tool.
Classify(c) == IF c.destructive THEN "NeverAuto"
               ELSE IF IsSafe(c) THEN "Safe" ELSE "Risky"

\* May an action of this risk proceed without the human at this level?
Decide(autonomy, risk) ==
    IF \/ risk = "Safe" /\ autonomy # "Manual"
       \/ risk = "Risky" /\ autonomy = "Auto"
    THEN "Allow" ELSE "Escalate"
=============================================================================

------------------------------- MODULE MCPanes -------------------------------
(***************************************************************************)
(* A roomy window and one below the least size of a terminal, for Panes.   *)
(***************************************************************************)
EXTENDS Panes, TLC

MCWindows == {<<160, 40>>, <<50, 4>>}

\* DEFAULT_COLS and DEFAULT_ROWS (daemon.rs:40)
MCDefaultSize == <<120, 40>>

\* Sessions are alike, and so are cockpits.
MCSymmetry == Permutations(Sessions) \cup Permutations(Cockpits)
=============================================================================

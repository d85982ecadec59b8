------------------------------- MODULE MCAgents -------------------------------
(* Agents on a small instance, with calls numbered. *)
EXTENDS Agents

\* Bounds.  Calls have no names in the daemon, so a new one takes the first free
\* number.  Agents get a worktree and other sessions none, and what it holds on disk
\* is left to the run of the sessions.
FirstFree == \A a \in Agents, c \in Calls \ {1} :
                hook[a][c] = "none" /\ hook'[a][c] # "none" => hook[a][c - 1] # "none"

Trees == \A s \in Sessions :
            /\ tree'[s] # "dirty"
            /\ spawn[s] = "none" /\ spawn'[s] = "begun" => (s \in worktrees' <=> s \in Agents)

\* Of the calls that an agent has open at once all but one are of tools.
Parallel == \A a \in Agents, c, d \in Calls :
               c # d /\ hook'[a][c] # "none" /\ hook'[a][d] # "none"
               => "PreToolUse" \in {hook'[a][c], hook'[a][d]}

MCNext == AgentNext /\ FirstFree /\ Parallel /\ Trees

MCSpec == AgentInit /\ [][MCNext]_allVars /\ AgentFairness
===============================================================================

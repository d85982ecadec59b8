------------------------------ MODULE MCSessions ------------------------------
(* Pipelines on a small instance: some sessions are led through everything that *)
(* Lifecycle knows, the others only from spawn to exit or stop.                 *)
EXTENDS Pipelines

CONSTANT Followed  \* bound: the sessions that are led through everything

ASSUME FollowedAssumption == Followed \subseteq Sessions

\* A session without worktree or close, that humans may only stop, and whose screen
\* says nothing.
SimpleLife(s) ==
    /\ s \notin worktrees' /\ order'[s] # "Working" /\ closing'[s] = "no"
    /\ poll'[s] \in {"off", "asleep", "alive", "Done"}

\* Where SimpleLife forbids what a task may do next, it leaves another way to go on;
\* so the fairness of Pipelines is no demand for a forbidden step.
MCSpec == /\ PipelineInit
          /\ [][PipelineNext /\ \A s \in Sessions \ Followed : SimpleLife(s)]_vars
          /\ PipelineFairness
===============================================================================

----------------------------- MODULE Lifecycle ------------------------------
(***************************************************************************)
(* The life of sessions without hooks (shells, codex, aider, gemini): how  *)
(* Daemon::spawn builds one up from a worktree, a child, a PTY entry and a *)
(* registry entry, and how the poller, pause, resume, stop, decide and     *)
(* close drive it (daemon.rs, with infer_state of tools.rs, the child      *)
(* handling of pty.rs and the requests of server.rs).                      *)
(*                                                                         *)
(* A step is one critical section (registry, ptys, worktrees, child) with  *)
(* the local work around it.  Names, prompts, grids and the texts on the   *)
(* screen are left out.                                                    *)
(***************************************************************************)

CONSTANTS
    Sessions,      \* ids Registry::alloc_id can hand out
    WorktreeFrom,  \* which specs there are: with (TRUE) or without a worktree
    Requests       \* the requests humans make: "pause", "resume", "stop", "decide"

ASSUME WorktreeAssumption == WorktreeFrom \subseteq BOOLEAN
ASSUME RequestsAssumption == Requests \subseteq {"pause", "resume", "stop", "decide"}

VARIABLES
    spawn,      \* where Daemon::spawn stands for an id
    worktrees,  \* Daemon.worktrees: ids with an entry
    tree,       \* the worktree directory on disk
    ptys,       \* Daemon.ptys: ids with an entry
    child,      \* the child process of an id
    state,      \* Session.state in the registry, "absent" when not listed
    poll,       \* where the poller task stands: off, asleep, alive (the child has
                \* not exited), or the state it is about to set
    order,      \* the state a pause, resume or stop is about to set, or "none"
    closing     \* where Daemon::close stands for an id

sessionVars == <<spawn, worktrees, tree, ptys, child, state, poll, order, closing>>

\* What the variables hold.
Types ==
    /\ spawn \in [Sessions -> {"none", "begun", "child", "pty", "listed", "failed"}]
    /\ worktrees \subseteq Sessions
    /\ tree \in [Sessions -> {"none", "clean", "dirty"}]
    /\ ptys \subseteq Sessions
    /\ child \in [Sessions -> {"none", "running", "paused", "exited", "reaped"}]
    /\ state \in [Sessions -> {"absent", "Working", "Idle", "Question", "Done", "Dead"}]
    /\ poll \in [Sessions -> {"off", "asleep", "alive", "Idle", "Question", "Done"}]
    /\ order \in [Sessions -> {"none", "Working", "Dead"}]
    /\ closing \in [Sessions -> {"no", "tree", "remove", "unlist"}]

\* Besides, pollers, requests and closes only ever run for sessions whose spawn is
\* over.
TypeOK ==
    /\ Types
    /\ \A s \in Sessions :
          poll[s] # "off" \/ order[s] # "none" \/ closing[s] # "no" => spawn[s] = "listed"

Init ==
    /\ spawn = [s \in Sessions |-> "none"]
    /\ worktrees = {} /\ ptys = {}
    /\ tree = [s \in Sessions |-> "none"]
    /\ child = [s \in Sessions |-> "none"]
    /\ state = [s \in Sessions |-> "absent"]
    /\ poll = [s \in Sessions |-> "off"]
    /\ order = [s \in Sessions |-> "none"]
    /\ closing = [s \in Sessions |-> "no"]

Listed(s) == state[s] # "absent"

Alive(s) == child[s] \in {"running", "paused"}

\* Faulty variant: an id that is not listed is listed again.
SetStateAlways(s, st) == state' = [state EXCEPT ![s] = st]

\* Registry::set_state: a no-op on an id that is not listed.
SetState(s, st) == state' = IF Listed(s) THEN [state EXCEPT ![s] = st] ELSE state

\* PtySession::kill behind an entry of ptys: SIGHUP, then SIGKILL.
Kill(s) == child' = IF s \in ptys /\ Alive(s)
                    THEN [child EXCEPT ![s] = "exited"] ELSE child

-----------------------------------------------------------------------------
\* Daemon::spawn

\* alloc_id and the worktree: created and recorded if the spec asks for one, or
\* fallen back from.
Begin(s) ==
    /\ spawn[s] = "none"
    /\ spawn' = [spawn EXCEPT ![s] = "begun"]
    /\ \/ UNCHANGED <<worktrees, tree>>
       \/ /\ TRUE \in WorktreeFrom
          /\ worktrees' = worktrees \cup {s}
          /\ tree' = [tree EXCEPT ![s] = "clean"]
    /\ UNCHANGED <<ptys, child, state, poll, order, closing>>

\* PtySession::spawn: each `?' leaves with the worktree entry in place, those on
\* reader and writer also with a child that runs and that nobody has a handle of.
StartChild(s) ==
    /\ spawn[s] = "begun"
    /\ \/ /\ spawn' = [spawn EXCEPT ![s] = "child"]
          /\ child' = [child EXCEPT ![s] = "running"]
       \/ /\ spawn' = [spawn EXCEPT ![s] = "failed"]
          /\ UNCHANGED child \/ child' = [child EXCEPT ![s] = "running"]
    /\ UNCHANGED <<worktrees, tree, ptys, state, poll, order, closing>>

\* Faulty variant: the poller starts before the session is listed.
AddPtyPolls(s) ==
    /\ spawn[s] = "child"
    /\ spawn' = [spawn EXCEPT ![s] = "pty"]
    /\ ptys' = ptys \cup {s}
    /\ poll' = [poll EXCEPT ![s] = "asleep"]
    /\ UNCHANGED <<worktrees, tree, child, state, order, closing>>

\* The entry through which Input, Resize, Pause, Stop and close reach it.
AddPty(s) ==
    /\ spawn[s] = "child"
    /\ spawn' = [spawn EXCEPT ![s] = "pty"]
    /\ ptys' = ptys \cup {s}
    /\ UNCHANGED <<worktrees, tree, child, state, poll, order, closing>>

\* Registry::insert, then the poller is started.
List(s) ==
    /\ spawn[s] = "pty"
    /\ spawn' = [spawn EXCEPT ![s] = "listed"]
    /\ state' = [state EXCEPT ![s] = "Working"]
    /\ poll' = [poll EXCEPT ![s] = "asleep"]
    /\ UNCHANGED <<worktrees, tree, ptys, child, order, closing>>

-----------------------------------------------------------------------------
\* The child and the files

\* It ends by itself, or something else than the daemon kills it.
Exit(s) ==
    /\ Alive(s)
    /\ child' = [child EXCEPT ![s] = "exited"]
    /\ UNCHANGED <<spawn, worktrees, tree, ptys, state, poll, order, closing>>

\* Agents, what they started, and humans edit and commit in a worktree, also
\* while it is being cleaned up.
Edit(s) ==
    /\ tree[s] # "none"
    /\ tree' = [tree EXCEPT ![s] = IF @ = "clean" THEN "dirty" ELSE "clean"]
    /\ UNCHANGED <<spawn, worktrees, ptys, child, state, poll, order, closing>>

-----------------------------------------------------------------------------
\* The poller

\* Faulty variant: a session that was stopped is not asked whether it exited.
PollExitSkipsDead(s) ==
    /\ poll[s] = "asleep"
    /\ IF ~Listed(s)
       THEN poll' = [poll EXCEPT ![s] = "off"] /\ UNCHANGED child
       ELSE IF Alive(s) \/ state[s] = "Dead"
            THEN poll' = [poll EXCEPT ![s] = "alive"] /\ UNCHANGED child
            ELSE /\ poll' = [poll EXCEPT ![s] = "Done"]
                 /\ child' = [child EXCEPT ![s] = "reaped"]
    /\ UNCHANGED <<spawn, worktrees, tree, ptys, state, order, closing>>

\* A round begins: stop if the session is gone, Done if the child has exited
\* (has_exited reaps it), else look at the screen.
PollExit(s) ==
    /\ poll[s] = "asleep"
    /\ IF ~Listed(s)
       THEN poll' = [poll EXCEPT ![s] = "off"] /\ UNCHANGED child
       ELSE IF Alive(s)
            THEN poll' = [poll EXCEPT ![s] = "alive"] /\ UNCHANGED child
            ELSE /\ poll' = [poll EXCEPT ![s] = "Done"]
                 /\ child' = [child EXCEPT ![s] = "reaped"]
    /\ UNCHANGED <<spawn, worktrees, tree, ptys, state, order, closing>>

\* A line that looks like a prompt wins over 15 s of silence.
InferState(prompt, quiet) ==
    IF prompt THEN "Question" ELSE IF quiet THEN "Idle" ELSE "none"

\* What infer_state makes of the screen is set only if the registry has another
\* state, or a question with another prompt, at this moment.
PollScreen(s) ==
    /\ poll[s] = "alive"
    /\ \E prompt, quiet, other \in BOOLEAN :
          LET guess == InferState(prompt, quiet)
              changed == \/ guess # state[s]
                         \/ guess = "Question" /\ other
          IN  poll' = [poll EXCEPT ![s] =
                  IF Listed(s) /\ guess # "none" /\ changed THEN guess ELSE "asleep"]
    /\ UNCHANGED <<spawn, worktrees, tree, ptys, child, state, order, closing>>

\* The set_state the round ends with.
PollSet(s) ==
    /\ poll[s] \in {"Idle", "Question"}
    /\ SetState(s, poll[s])
    /\ poll' = [poll EXCEPT ![s] = "asleep"]
    /\ UNCHANGED <<spawn, worktrees, tree, ptys, child, order, closing>>

\* Faulty variant: the poller does not end.
PollDoneOn(s) ==
    /\ poll[s] = "Done"
    /\ SetState(s, "Done")
    /\ poll' = [poll EXCEPT ![s] = "asleep"]
    /\ UNCHANGED <<spawn, worktrees, tree, ptys, child, order, closing>>

\* set_state(Done), and the poller ends.
PollDone(s) ==
    /\ poll[s] = "Done"
    /\ SetState(s, "Done")
    /\ poll' = [poll EXCEPT ![s] = "off"]
    /\ UNCHANGED <<spawn, worktrees, tree, ptys, child, order, closing>>

-----------------------------------------------------------------------------
\* Requests on listed sessions.  The session is looked up and signalled first;
\* its state is set afterwards, in SetOrdered, whatever happened meanwhile.  One
\* request at a time is on its way to a session.

CanOrder(s, request) == request \in Requests /\ Listed(s) /\ order[s] = "none"

Pause(s) ==
    /\ CanOrder(s, "pause")
    /\ child' = IF s \in ptys /\ child[s] = "running"
                THEN [child EXCEPT ![s] = "paused"] ELSE child
    /\ order' = [order EXCEPT ![s] = "Working"]
    /\ UNCHANGED <<spawn, worktrees, tree, ptys, state, poll, closing>>

Resume(s) ==
    /\ CanOrder(s, "resume")
    /\ child' = IF s \in ptys /\ child[s] = "paused"
                THEN [child EXCEPT ![s] = "running"] ELSE child
    /\ order' = [order EXCEPT ![s] = "Working"]
    /\ UNCHANGED <<spawn, worktrees, tree, ptys, state, poll, closing>>

Stop(s) ==
    /\ CanOrder(s, "stop")
    /\ Kill(s)
    /\ order' = [order EXCEPT ![s] = "Dead"]
    /\ UNCHANGED <<spawn, worktrees, tree, ptys, state, poll, closing>>

\* Request::Decide without a parked hook: take_pending finds nothing.
Decide(s) ==
    /\ CanOrder(s, "decide")
    /\ order' = [order EXCEPT ![s] = "Working"]
    /\ UNCHANGED <<spawn, worktrees, tree, ptys, child, state, poll, closing>>

SetOrdered(s) ==
    /\ order[s] # "none"
    /\ SetState(s, order[s])
    /\ order' = [order EXCEPT ![s] = "none"]
    /\ UNCHANGED <<spawn, worktrees, tree, ptys, child, poll, closing>>

-----------------------------------------------------------------------------
\* Daemon::close, one at a time for a session

\* Faulty variant: taken out of the map, but left to itself.
ClosePtyLeaves(s) ==
    /\ Listed(s) /\ closing[s] = "no"
    /\ ptys' = ptys \ {s}
    /\ closing' = [closing EXCEPT ![s] = "tree"]
    /\ UNCHANGED <<spawn, worktrees, tree, child, state, poll, order>>

\* The PTY entry goes and the child with it.
ClosePty(s) ==
    /\ Listed(s) /\ closing[s] = "no"
    /\ ptys' = ptys \ {s}
    /\ Kill(s)
    /\ closing' = [closing EXCEPT ![s] = "tree"]
    /\ UNCHANGED <<spawn, worktrees, tree, state, poll, order>>

\* Faulty variant: the worktree is looked up, its entry stays.
CloseTreeKeeps(s) ==
    /\ closing[s] = "tree"
    /\ closing' = [closing EXCEPT ![s] =
          IF s \in worktrees /\ tree[s] = "clean" THEN "remove" ELSE "unlist"]
    /\ UNCHANGED <<spawn, worktrees, tree, ptys, child, state, poll, order>>

\* The worktree entry goes; git status decides whether to try a removal.
CloseTree(s) ==
    /\ closing[s] = "tree"
    /\ worktrees' = worktrees \ {s}
    /\ \/ closing' = [closing EXCEPT ![s] = "unlist"]
       \/ /\ s \in worktrees /\ tree[s] = "clean"
          /\ closing' = [closing EXCEPT ![s] = "remove"]
    /\ UNCHANGED <<spawn, tree, ptys, child, state, poll, order>>

\* git worktree remove, which itself refuses a worktree that got dirty, and may
\* fail on a clean one.
RemoveTree(s) ==
    /\ closing[s] = "remove"
    /\ \/ UNCHANGED tree
       \/ tree[s] = "clean" /\ tree' = [tree EXCEPT ![s] = "none"]
    /\ closing' = [closing EXCEPT ![s] = "unlist"]
    /\ UNCHANGED <<spawn, worktrees, ptys, child, state, poll, order>>

\* Registry::remove
Unlist(s) ==
    /\ closing[s] = "unlist"
    /\ state' = [state EXCEPT ![s] = "absent"]
    /\ closing' = [closing EXCEPT ![s] = "no"]
    /\ UNCHANGED <<spawn, worktrees, tree, ptys, child, poll, order>>

-----------------------------------------------------------------------------
Spawning(s) == StartChild(s) \/ AddPty(s) \/ List(s)
Polling(s) == PollExit(s) \/ PollScreen(s) \/ PollSet(s) \/ PollDone(s)
Ordering(s) == Pause(s) \/ Resume(s) \/ Stop(s) \/ Decide(s)
Closing(s) == CloseTree(s) \/ RemoveTree(s) \/ Unlist(s)

Next == \E s \in Sessions :
          \/ Begin(s) \/ Spawning(s) \/ Exit(s) \/ Edit(s) \/ Polling(s)
          \/ Ordering(s) \/ SetOrdered(s) \/ ClosePty(s) \/ Closing(s)

Spec == Init /\ [][Next]_sessionVars

\* The daemon's tasks go on; humans, children and files are left to themselves.
FairSpec == Spec /\ \A s \in Sessions :
    /\ WF_sessionVars(Spawning(s)) /\ WF_sessionVars(Polling(s))
    /\ WF_sessionVars(SetOrdered(s)) /\ WF_sessionVars(Closing(s))

-----------------------------------------------------------------------------
(***************************************************************************)
(* Properties                                                              *)
(***************************************************************************)

\* A child that runs can be stopped: once its spawn has succeeded, its session is
\* listed and has the PTY entry through which stop and close kill it.  A child that
\* was started by a spawn which then failed (pty.rs:87) is out of reach for good.
LiveChildIsReachable ==
    \A s \in Sessions : spawn[s] = "listed" /\ Alive(s) => Listed(s) /\ s \in ptys

\* A worktree entry can be cleaned up: its session is listed, so a human can
\* close it, or its spawn has not come to the insert.  A spawn that fails at the `?'
\* of daemon.rs:234 never will, and leaves its entry behind for good.
TreesAreOwned ==
    \A s \in worktrees : Listed(s) \/ spawn[s] # "listed"

\* A session reads Done only when its child has exited and was reaped, and then
\* no poller is left that could take it out of Done again.
DoneMeansExited ==
    \A s \in Sessions : state[s] = "Done" => child[s] = "reaped" /\ poll[s] = "off"

\* A closed session does not come back, although the poller, pause, resume, stop
\* and decide set states of sessions they looked up before the close.
ClosedStaysClosed ==
    [][\A s \in Sessions : spawn[s] = "listed" /\ ~Listed(s) => ~Listed(s)']_sessionVars

\* A child that exits is announced as Done, whatever is paused, stopped, decided
\* or guessed meanwhile, unless its session is closed.
ExitIsAnnounced ==
    \A s \in Sessions :
        child[s] = "exited" /\ spawn[s] = "listed" ~> (state[s] = "Done" \/ ~Listed(s))
=============================================================================

-------------------------------- MODULE Agents --------------------------------
(***************************************************************************)
(* Claude sessions among the others: no poller watches them, their hooks   *)
(* say how they are (hooks.rs), and so their Done, which starts pipelines, *)
(* is the end of a turn.  An agent may have several hook calls open, of    *)
(* parallel tools and subagents; what they do about commands and levels is *)
(* Governance's matter, here a PreToolUse is passed or asked about.        *)
(*                                                                         *)
(* What agents share with other sessions is Lifecycle's, and the watcher   *)
(* is Pipelines'.  Of other sessions only their spawn is begun here.       *)
(***************************************************************************)
EXTENDS Pipelines

CONSTANTS
    Agents,    \* the Claude sessions
    Calls,     \* the hook calls an agent can have open at once
    Nobody,    \* no sender is kept for an agent
    Forsaken,  \* the sender of a parked handler whose forwarder has given up
    MaxTurns   \* bound: prompts an agent takes

ASSUME AgentsAssumption == Agents \subseteq Sessions
ASSUME CallsAssumption == Nobody \notin Calls /\ Forsaken \notin Calls /\ Nobody # Forsaken
ASSUME TurnsAssumption == MaxTurns \in Nat

VARIABLES
    turn,      \* whether an agent works on a prompt
    turns,     \* how many it has taken
    hook,      \* its hook calls under way: the kind of each, or "none"
    handler,   \* where the handlers of these calls stand
    pending,   \* Inner.pending: the call whose oneshot sender is kept for an agent
    parted,    \* history: a SessionEnd has unlisted it, and no hook listed it since
    ghost,     \* history: it was listed when close had taken its PTY entry
    hasty      \* history: close came before its spawn was over

callVars == <<hook, handler, pending>>
agentVars == <<turn, turns, callVars, parted, ghost, hasty>>
allVars == <<vars, agentVars>>

HookKinds == {"UserPromptSubmit", "PreToolUse", "PostToolUse", "Notification",
              "Stop", "SessionEnd"}

\* What the variables hold; no poller runs for an agent, only a PreToolUse parks, and
\* the one call that is parked is the one whose sender is kept.
AgentTypeOK ==
    /\ PipelineTypeOK
    /\ turn \in [Agents -> {"idle", "busy"}] /\ turns \in [Agents -> 0..MaxTurns]
    /\ hook \in [Agents -> [Calls -> HookKinds \cup {"none"}]]
    /\ handler \in [Agents -> [Calls -> {"sent", "ensured", "parked"}]]
    /\ pending \in [Agents -> Calls \cup {Nobody, Forsaken}]
    /\ parted \subseteq Agents /\ ghost \subseteq Agents /\ hasty \subseteq Agents
    /\ \A a \in Agents : poll[a] = "off"
    /\ \A a \in Agents, c \in Calls :
          /\ handler[a][c] = "parked" <=> pending[a] = c
          /\ handler[a][c] = "parked" => hook[a][c] = "PreToolUse"

AgentInit ==
    /\ PipelineInit
    /\ turn = [a \in Agents |-> "idle"] /\ turns = [a \in Agents |-> 0]
    /\ hook = [a \in Agents |-> [c \in Calls |-> "none"]]
    /\ handler = [a \in Agents |-> [c \in Calls |-> "sent"]]
    /\ pending = [a \in Agents |-> Nobody]
    /\ parted = {} /\ ghost = {} /\ hasty = {}

-----------------------------------------------------------------------------
\* The agent and its hooks, each a run of the forwarder

\* Nothing in the daemon keeps the calls of an agent apart or in order.
Call(a, c, kind) ==
    /\ child[a] = "running" /\ hook[a][c] = "none"
    /\ hook' = [hook EXCEPT ![a][c] = kind]
    /\ UNCHANGED <<vars, handler, pending, parted, ghost, hasty>>

\* A prompt is submitted.
BeginTurn(a, c) ==
    /\ turn[a] = "idle" /\ turns[a] < MaxTurns
    /\ Call(a, c, "UserPromptSubmit")
    /\ turn' = [turn EXCEPT ![a] = "busy"]
    /\ turns' = [turns EXCEPT ![a] = @ + 1]

\* It wants to use a tool, or has used one.
UseTool(a, c) ==
    /\ turn[a] = "busy"
    /\ Call(a, c, "PreToolUse") \/ Call(a, c, "PostToolUse")
    /\ UNCHANGED <<turn, turns>>

\* It waits for input: a permission of its own, or the next prompt.
Notify(a, c) ==
    /\ Call(a, c, "Notification")
    /\ UNCHANGED <<turn, turns>>

EndTurn(a, c) ==
    /\ turn[a] = "busy"
    /\ Call(a, c, "Stop")
    /\ turn' = [turn EXCEPT ![a] = "idle"]
    /\ UNCHANGED turns

\* The conversation ends; the agent exits, or goes on with a new one.
EndSession(a, c) ==
    /\ turn[a] = "idle"
    /\ Call(a, c, "SessionEnd")
    /\ UNCHANGED <<turn, turns>>

\* No forwarder of the agent runs for this call any more.
Over(a, c) == /\ hook' = [hook EXCEPT ![a][c] = "none"]
              /\ handler' = [handler EXCEPT ![a][c] = "sent"]

\* The forwarder gives up after 600 s, and the agent asks by itself.  The handler does
\* not notice: its sender stays in Inner.pending until it is answered or replaced.
GiveUp(a, c) ==
    /\ handler[a][c] = "parked"
    /\ Over(a, c)
    /\ pending' = [pending EXCEPT ![a] = Forsaken]
    /\ UNCHANGED <<vars, turn, turns, parted, ghost, hasty>>

-----------------------------------------------------------------------------
\* handle_hook

\* An agent is listed, perhaps once more; if only its PTY entry were still there.
Appears(a) ==
    /\ parted' = parted \ {a}
    /\ ghost' = IF ~Listed(a) /\ spawn[a] \in {"pty", "listed"} /\ a \notin ptys
                THEN ghost \cup {a} ELSE ghost

\* Registry::ensure
Ensure(a, c) ==
    /\ hook[a][c] # "none" /\ handler[a][c] = "sent"
    /\ handler' = [handler EXCEPT ![a][c] = "ensured"]
    /\ state' = IF Listed(a) THEN state ELSE [state EXCEPT ![a] = "Working"]
    /\ Appears(a)
    /\ UNCHANGED <<spawn, worktrees, tree, ptys, child, poll, order, closing>>
    /\ UNCHANGED <<pipelineVars, turn, turns, hook, pending, hasty>>

\* A handler that has listed the session goes on with this kind of call.
Handles(a, c, kinds) == handler[a][c] = "ensured" /\ hook[a][c] \in kinds

HandleAs(a, st) ==
    /\ SetState(a, st)
    /\ UNCHANGED <<spawn, worktrees, tree, ptys, child, poll, order, closing>>
    /\ UNCHANGED <<turn, turns, ghost, hasty>>

\* UserPromptSubmit, PostToolUse and a PreToolUse that is allowed set Working, a
\* Notification NeedsInput.
HandleReport(a, c) ==
    /\ Handles(a, c, HookKinds \ {"Stop", "SessionEnd"})
    /\ HandleAs(a, IF hook[a][c] = "Notification" THEN "Question" ELSE "Working")
    /\ Over(a, c)
    /\ UNCHANGED <<pipelineVars, pending, parted>>

\* Faulty variant: a newer hook is parked beside the older one.
HandleAskBeside(a, c) ==
    /\ Handles(a, c, {"PreToolUse"})
    /\ HandleAs(a, "Question")
    /\ handler' = [handler EXCEPT ![a][c] = "parked"]
    /\ pending' = [pending EXCEPT ![a] = c]
    /\ UNCHANGED <<pipelineVars, hook, parted>>

\* A PreToolUse that is not: NeedsInput, and the hook is parked.  The sender of an older
\* one is dropped, and that call is denied.
HandleAsk(a, c) ==
    /\ Handles(a, c, {"PreToolUse"})
    /\ HandleAs(a, "Question")
    /\ hook' = [hook EXCEPT ![a] = [d \in Calls |-> IF d = pending[a] THEN "none" ELSE @[d]]]
    /\ handler' = [handler EXCEPT ![a] = [d \in Calls |->
          IF d = c THEN "parked" ELSE IF d = pending[a] THEN "sent" ELSE @[d]]]
    /\ pending' = [pending EXCEPT ![a] = c]
    /\ UNCHANGED <<pipelineVars, parted>>

\* Faulty variant: only a session that works is set to Done.
HandleStopWorking(a, c) ==
    /\ Handles(a, c, {"Stop"})
    /\ HandleAs(a, IF state[a] = "Working" THEN "Done" ELSE state[a])
    /\ IF state[a] = "Working"
       THEN /\ Len(inbox) < InboxBound
            /\ inbox' = Append(inbox, a)
            /\ finished' = finished \cup {a}
       ELSE UNCHANGED <<inbox, finished>>
    /\ Over(a, c)
    /\ UNCHANGED <<watcherVars, lagged, pending, parted>>

\* Stop: Done, announced if the session is still listed.
HandleStop(a, c) ==
    /\ Handles(a, c, {"Stop"})
    /\ HandleAs(a, "Done")
    /\ IF Listed(a)
       THEN /\ Len(inbox) < InboxBound
            /\ inbox' = Append(inbox, a)
            /\ finished' = finished \cup {a}
       ELSE UNCHANGED <<inbox, finished>>
    /\ Over(a, c)
    /\ UNCHANGED <<watcherVars, lagged, pending, parted>>

\* Faulty variant: the PTY entry goes too.
HandleEndForgets(a, c) ==
    /\ Handles(a, c, {"SessionEnd"})
    /\ state' = [state EXCEPT ![a] = "absent"]
    /\ ptys' = ptys \ {a}
    /\ Over(a, c)
    /\ UNCHANGED <<spawn, worktrees, tree, child, poll, order, closing>>
    /\ UNCHANGED <<pipelineVars, turn, turns, pending, parted, ghost, hasty>>

\* SessionEnd: Registry::remove, and nothing else of the session goes.
HandleEnd(a, c) ==
    /\ Handles(a, c, {"SessionEnd"})
    /\ state' = [state EXCEPT ![a] = "absent"]
    /\ parted' = IF a \in ptys THEN parted \cup {a} ELSE parted
    /\ Over(a, c)
    /\ UNCHANGED <<spawn, worktrees, tree, ptys, child, poll, order, closing>>
    /\ UNCHANGED <<pipelineVars, turn, turns, pending, ghost, hasty>>

Handling(a, c) == \/ Ensure(a, c) \/ HandleReport(a, c) \/ HandleAsk(a, c)
                  \/ HandleStop(a, c) \/ HandleEnd(a, c)

\* Request::Decide on an agent: the hook whose sender is kept gets the answer, heard or
\* not, and the state is set afterwards, in SetOrdered.
Answer(a) ==
    /\ Decide(a)
    /\ \/ \E c \in Calls : pending[a] = c /\ Over(a, c)
       \/ pending[a] \notin Calls /\ UNCHANGED <<hook, handler>>
    /\ pending' = [pending EXCEPT ![a] = Nobody]
    /\ UNCHANGED <<pipelineVars, turn, turns, parted, ghost, hasty>>

-----------------------------------------------------------------------------
\* What agents have in common with other sessions

\* Registry::insert; no poller is started.
ListAgent(a) ==
    /\ spawn[a] = "pty"
    /\ spawn' = [spawn EXCEPT ![a] = "listed"]
    /\ state' = [state EXCEPT ![a] = "Working"]
    /\ Appears(a)
    /\ UNCHANGED <<worktrees, tree, ptys, child, poll, order, closing, pipelineVars>>
    /\ UNCHANGED <<turn, turns, callVars, hasty>>

\* Requests, close, child and files.
Common(s) ==
    /\ \/ Begin(s) \/ StartChild(s) \/ AddPty(s) \/ Exit(s) \/ Edit(s)
       \/ Pause(s) \/ Resume(s) \/ Stop(s) \/ SetOrdered(s) \/ ClosePty(s) \/ Closing(s)
    /\ hasty' = IF closing[s] = "no" /\ closing'[s] # "no" /\ spawn[s] # "listed"
                THEN hasty \cup {s} ELSE hasty
    /\ UNCHANGED <<pipelineVars, turn, turns, callVars, parted, ghost>>

Agent(a) ==
    \/ \E c \in Calls :
          \/ BeginTurn(a, c) \/ UseTool(a, c) \/ Notify(a, c) \/ EndTurn(a, c)
          \/ EndSession(a, c) \/ GiveUp(a, c) \/ Handling(a, c)
    \/ ListAgent(a) \/ Answer(a)

Watcher ==
    /\ \/ \E a \in Agents : SetAutonomy(a) \/ \E p \in Specs : SpawnAfter(p, a)
       \/ Watching \/ Lag
    /\ UNCHANGED agentVars

AgentNext ==
    \/ \E a \in Agents : Common(a) \/ Agent(a)
    \/ Watcher

AgentSpec == AgentInit /\ [][AgentNext]_allVars

\* What the daemon's task that spawns an agent does without being asked.
AgentTask(a) == (Common(a) /\ (StartChild(a) \/ AddPty(a))) \/ ListAgent(a)

\* Watcher, tasks and handlers go on; humans, children and agents are left to themselves.
AgentFairness ==
    /\ WF_allVars(Watching /\ UNCHANGED agentVars)
    /\ \A a \in Agents : /\ WF_allVars(AgentTask(a))
                         /\ \A c \in Calls : WF_allVars(Handling(a, c))

AgentFairSpec == AgentSpec /\ AgentFairness

-----------------------------------------------------------------------------
(***************************************************************************)
(* Properties                                                              *)
(***************************************************************************)

\* What is left of an agent and its card in the cockpit agree: a child, terminal or
\* worktree without a card is one that SessionEnd has unlisted (hooks.rs:95), and a
\* card without a terminal one that a late hook has listed after close (hooks.rs:16).
\* It may be otherwise if a human closes an agent before its spawn is over.
CardsMatchTerminals ==
    \A a \in Agents : spawn[a] = "listed" /\ closing[a] = "no" /\ a \notin hasty =>
        /\ Alive(a) => a \in ptys
        /\ a \in ptys \cup worktrees => Listed(a) \/ a \in parted
        /\ Listed(a) => a \in ptys \/ a \in ghost

\* The end of a turn starts the spec that waits for the agent, unless the agent is
\* unlisted before it is announced, the watcher lapped, or the bound on ids reached.
StopStartsPipeline ==
    \A p \in Specs, a \in Agents :
        waits[p] = a /\ (\E c \in Calls : hook[a][c] = "Stop")
        ~> (fired[p] > 0 /\ p \notin ready) \/ ~Listed(a) \/ lagged \/ NoIdLeft
=============================================================================

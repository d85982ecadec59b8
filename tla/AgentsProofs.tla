----------------------------- MODULE AgentsProofs ------------------------------
(***************************************************************************)
(* Proofs about Agents, for any sessions, agents and specs and any number  *)
(* of turns: the types, and that what is left of an agent and its card in  *)
(* the cockpit agree but for the cases that CardsMatchTerminals names.     *)
(***************************************************************************)
EXTENDS Agents, SequenceTheorems, TLAPS

-----------------------------------------------------------------------------
(***************************************************************************)
(* The inductive invariant                                                 *)
(***************************************************************************)

\* Spawn and close of an agent, unless a human closed it before its spawn was over:
\* there is a PTY entry from the end of the spawn until close takes it, and the child
\* and the worktree entry do not outlast it.
Terminal(a) ==
    /\ spawn[a] # "listed" => closing[a] = "no"
    /\ spawn[a] = "pty" => a \in ptys
    /\ closing[a] # "no" => a \notin ptys
    /\ spawn[a] \in {"pty", "listed"} /\ Alive(a) => a \in ptys
    /\ spawn[a] = "listed" /\ a \notin ptys /\ closing[a] # "tree" => a \notin worktrees

\* And its card, which every hook may put there and SessionEnd takes away.
Card(a) ==
    spawn[a] = "listed" /\ closing[a] = "no" =>
        /\ a \in ptys \cup worktrees => Listed(a) \/ a \in parted
        /\ Listed(a) => a \in ptys \/ a \in ghost

Fits(a) == a \notin hasty => Terminal(a) /\ Card(a)

AInv == AgentTypeOK /\ \A a \in Agents : Fits(a)

-----------------------------------------------------------------------------
(***************************************************************************)
(* Types                                                                   *)
(***************************************************************************)

\* The types of what Agents adds.
HookTypes ==
    /\ turn \in [Agents -> {"idle", "busy"}] /\ turns \in [Agents -> 0..MaxTurns]
    /\ hook \in [Agents -> [Calls -> HookKinds \cup {"none"}]]
    /\ handler \in [Agents -> [Calls -> {"sent", "ensured", "parked"}]]
    /\ pending \in [Agents -> Calls \cup {Nobody, Forsaken}]
    /\ parted \subseteq Agents /\ ghost \subseteq Agents /\ hasty \subseteq Agents

PollersOff == \A a \in Agents : poll[a] = "off"
OnlyAsksPark == \A a \in Agents, c \in Calls :
                   /\ handler[a][c] = "parked" <=> pending[a] = c
                   /\ handler[a][c] = "parked" => hook[a][c] = "PreToolUse"

LEMMA TypeParts == AgentTypeOK <=> PipelineTypeOK /\ HookTypes /\ PollersOff /\ OnlyAsksPark
  BY DEF AgentTypeOK, HookTypes, PollersOff, OnlyAsksPark

LEMMA TypePartsAfter ==
    PipelineTypeOK' /\ HookTypes' /\ PollersOff' /\ OnlyAsksPark' => AgentTypeOK'
  BY DEF AgentTypeOK, HookTypes, PollersOff, OnlyAsksPark

LEMMA InitTypes == AgentInit => AgentTypeOK
  <1> SUFFICES ASSUME AgentInit PROVE AgentTypeOK
    OBVIOUS
  <1>1. Types
    BY DEF AgentInit, PipelineInit, Init, Types
  <1>2. inbox \in Seq(Sessions)
    BY EmptySeq DEF AgentInit, PipelineInit
  <1>3. PipelineTypeOK
    BY <1>1, <1>2 DEF AgentInit, PipelineInit, PipelineTypeOK
  <1>4. HookTypes
    BY TurnsAssumption DEF AgentInit, HookTypes
  <1>5. PollersOff /\ OnlyAsksPark
    BY AgentsAssumption, CallsAssumption
    DEF AgentInit, PipelineInit, Init, PollersOff, OnlyAsksPark
  <1> QED BY <1>3, <1>4, <1>5, TypeParts

\* The steps of Lifecycle that agents take as well.
Shared(s) ==
    \/ Begin(s) \/ StartChild(s) \/ AddPty(s) \/ Exit(s) \/ Edit(s) \/ Pause(s) \/ Resume(s)
    \/ Stop(s) \/ Decide(s) \/ SetOrdered(s) \/ ClosePty(s) \/ Closing(s)

\* They keep the types, start no poller and leave other sessions alone.
LEMMA SharedTypes ==
    ASSUME Types, NEW s \in Sessions, Shared(s)
    PROVE  /\ Types' /\ poll' = poll
           /\ \A r \in Sessions : r # s =>
                 /\ spawn'[r] = spawn[r] /\ child'[r] = child[r] /\ state'[r] = state[r]
                 /\ closing'[r] = closing[r]
                 /\ r \in ptys' <=> r \in ptys
                 /\ r \in worktrees' <=> r \in worktrees
  <1> USE DEF Types
  <1>1. CASE Begin(s)
    <2>1. /\ worktrees' \subseteq Sessions /\ tree' \in [Sessions -> {"none", "clean", "dirty"}]
          /\ \A r \in Sessions : r # s => (r \in worktrees' <=> r \in worktrees)
      BY <1>1 DEF Begin
    <2>2. /\ spawn' = [spawn EXCEPT ![s] = "begun"]
          /\ UNCHANGED <<ptys, child, state, poll, order, closing>>
      BY <1>1 DEF Begin
    <2> QED BY <2>1, <2>2
  <1>2. CASE StartChild(s)
    BY <1>2 DEF StartChild
  <1>3. CASE AddPty(s)
    BY <1>3 DEF AddPty
  <1>4. CASE Exit(s)
    BY <1>4 DEF Exit
  <1>5. CASE Edit(s)
    BY <1>5 DEF Edit
  <1>6. CASE Pause(s)
    BY <1>6 DEF Pause
  <1>7. CASE Resume(s)
    BY <1>7 DEF Resume
  <1>8. CASE Stop(s)
    BY <1>8 DEF Stop, Kill
  <1>9. CASE Decide(s)
    BY <1>9 DEF Decide
  <1>10. CASE SetOrdered(s)
    BY <1>10 DEF SetOrdered, SetState
  <1>11. CASE ClosePty(s)
    BY <1>11 DEF ClosePty, Kill
  <1>12. CASE CloseTree(s)
    BY <1>12 DEF CloseTree
  <1>13. CASE RemoveTree(s)
    BY <1>13 DEF RemoveTree
  <1>14. CASE Unlist(s)
    BY <1>14 DEF Unlist
  <1> QED BY <1>1, <1>2, <1>3, <1>4, <1>5, <1>6, <1>7, <1>8, <1>9, <1>10, <1>11, <1>12,
             <1>13, <1>14
          DEF Shared, Closing

\* The way of a Done event: sent, received.
LEMMA InboxTypes ==
    ASSUME inbox \in Seq(Sessions), NEW s \in Sessions,
           \/ inbox' = Append(inbox, s)
           \/ inbox # <<>> /\ inbox' = Tail(inbox)
           \/ inbox' = inbox
    PROVE  inbox' \in Seq(Sessions)
  OBVIOUS

\* What an agent has in common with other sessions.
LEMMA CommonTypes ==
    ASSUME AgentTypeOK, NEW a \in Agents, Common(a)
    PROVE  AgentTypeOK' /\ Shared(a)
  <1>1. /\ Shared(a) /\ a \in Sessions
        /\ UNCHANGED <<waits, inbox, ready, fired, finished, lagged, turn, turns, hook, handler,
                       pending, parted, ghost>>
    BY AgentsAssumption DEF Common, Shared, pipelineVars, callVars
  <1>2. Types' /\ poll' = poll
    BY <1>1, SharedTypes DEF AgentTypeOK, PipelineTypeOK
  <1>3. PipelineTypeOK'
    BY <1>1, <1>2 DEF AgentTypeOK, PipelineTypeOK
  <1>4. hasty' \subseteq Agents
    BY DEF Common, AgentTypeOK
  <1>5. HookTypes' /\ PollersOff' /\ OnlyAsksPark'
    BY <1>1, <1>2, <1>4, TypeParts DEF HookTypes, PollersOff, OnlyAsksPark
  <1> QED BY <1>1, <1>3, <1>5, TypePartsAfter

\* A step of the agent: its hooks go out, or are given up.
Acting(a, c) == \/ BeginTurn(a, c) \/ UseTool(a, c) \/ Notify(a, c) \/ EndTurn(a, c)
                \/ EndSession(a, c) \/ GiveUp(a, c)

\* One place of a table of tables is set.
LEMMA SetOne ==
    ASSUME NEW T, NEW f \in [Agents -> [Calls -> T]], NEW a \in Agents, NEW c \in Calls, NEW v \in T
    PROVE  /\ [f EXCEPT ![a][c] = v] \in [Agents -> [Calls -> T]]
           /\ \A b \in Agents, d \in Calls :
                 [f EXCEPT ![a][c] = v][b][d] = IF b = a /\ d = c THEN v ELSE f[b][d]
  OBVIOUS

\* The tables of a call that is over.
LEMMA OverTypes ==
    ASSUME HookTypes, NEW a \in Agents, NEW c \in Calls, Over(a, c)
    PROVE  /\ hook' \in [Agents -> [Calls -> HookKinds \cup {"none"}]]
           /\ handler' \in [Agents -> [Calls -> {"sent", "ensured", "parked"}]]
           /\ \A b \in Agents, d \in Calls :
                 /\ hook'[b][d] = IF b = a /\ d = c THEN "none" ELSE hook[b][d]
                 /\ handler'[b][d] = IF b = a /\ d = c THEN "sent" ELSE handler[b][d]
  BY SetOne DEF HookTypes, Over

\* The agent's own steps move its hooks only, and what is kept of them.
LEMMA CallTypes ==
    ASSUME AgentTypeOK, NEW a \in Agents, NEW c \in Calls, Acting(a, c)
    PROVE  AgentTypeOK' /\ UNCHANGED <<vars, parted, ghost, hasty>>
  <1>0. HookTypes /\ PollersOff /\ OnlyAsksPark /\ PipelineTypeOK
    BY TypeParts
  <1>1. UNCHANGED <<vars, parted, ghost, hasty>>
    BY DEF Acting, BeginTurn, UseTool, Notify, EndTurn, EndSession, GiveUp, Call
  <1>2. turn' \in [Agents -> {"idle", "busy"}] /\ turns' \in [Agents -> 0..MaxTurns]
    <2>1. CASE BeginTurn(a, c)
      <3>1. turns' = [turns EXCEPT ![a] = @ + 1] /\ turns[a] < MaxTurns
        BY <2>1 DEF BeginTurn
      <3>2. turns' \in [Agents -> 0..MaxTurns]
        BY <1>0, <3>1, TurnsAssumption DEF HookTypes
      <3> QED BY <1>0, <2>1, <3>2 DEF BeginTurn, HookTypes
    <2>2. CASE ~BeginTurn(a, c)
      BY <1>0, <2>2 DEF Acting, UseTool, Notify, EndTurn, EndSession, GiveUp, HookTypes
    <2> QED BY <2>1, <2>2
  <1>3. CASE GiveUp(a, c)
    <2>1. /\ handler[a][c] = "parked" /\ Over(a, c)
          /\ pending' = [pending EXCEPT ![a] = Forsaken]
      BY <1>3 DEF GiveUp
    <2>2. HookTypes'
      BY <1>0, <1>1, <1>2, <2>1, OverTypes DEF HookTypes
    <2>3. OnlyAsksPark'
      BY <1>0, <2>1, OverTypes, CallsAssumption DEF HookTypes, OnlyAsksPark
    <2>4. PipelineTypeOK' /\ PollersOff'
      BY <1>0, <1>1 DEF vars, sessionVars, pipelineVars, PipelineTypeOK, Types, PollersOff
    <2> QED BY <1>1, <2>2, <2>3, <2>4, TypePartsAfter
  <1>4. ASSUME NEW kind \in HookKinds, Call(a, c, kind) PROVE AgentTypeOK'
    <2>1. /\ hook[a][c] = "none" /\ hook' = [hook EXCEPT ![a][c] = kind]
          /\ UNCHANGED <<handler, pending>>
      BY <1>4 DEF Call
    <2>2. /\ hook' \in [Agents -> [Calls -> HookKinds \cup {"none"}]]
          /\ \A b \in Agents, d \in Calls :
                hook'[b][d] = IF b = a /\ d = c THEN kind ELSE hook[b][d]
      BY <1>0, <2>1, SetOne DEF HookTypes
    <2>3. HookTypes'
      BY <1>0, <1>1, <1>2, <2>1, <2>2 DEF HookTypes
    <2>4. OnlyAsksPark'
      BY <1>0, <2>1, <2>2 DEF OnlyAsksPark
    <2>5. PipelineTypeOK' /\ PollersOff'
      BY <1>0, <1>1 DEF vars, sessionVars, pipelineVars, PipelineTypeOK, Types, PollersOff
    <2> QED BY <2>3, <2>4, <2>5, TypePartsAfter
  <1> QED BY <1>1, <1>3, <1>4
          DEF Acting, BeginTurn, UseTool, Notify, EndTurn, EndSession, HookKinds

\* The handlers set the state of a listed agent or list it, park or reply.
LEMMA HandlingTypes ==
    ASSUME AgentTypeOK, NEW a \in Agents, NEW c \in Calls, Handling(a, c)
    PROVE  /\ AgentTypeOK'
           /\ UNCHANGED <<spawn, worktrees, tree, ptys, child, poll, order, closing, hasty>>
  <1> USE DEF HandleReport, HandleAsk, HandleStop, HandleEnd, HandleAs
  <1>0. HookTypes /\ PollersOff /\ OnlyAsksPark
    BY TypeParts
  <1>1. UNCHANGED <<spawn, worktrees, tree, ptys, child, poll, order, closing, hasty,
                    turn, turns, waits, ready, fired, lagged>>
    BY DEF Handling, Ensure, watcherVars, pipelineVars
  <1>2. a \in Sessions /\ inbox \in Seq(Sessions)
    BY AgentsAssumption DEF AgentTypeOK, PipelineTypeOK
  <1>3. state' \in [Sessions -> {"absent", "Working", "Idle", "Question", "Done", "Dead"}]
    <2> USE <1>2 DEF AgentTypeOK, PipelineTypeOK, Types
    <2>1. CASE Ensure(a, c)
      BY <2>1 DEF Ensure
    <2>2. ASSUME NEW st \in {"Working", "Question", "Done"}, SetState(a, st)
          PROVE  state' \in [Sessions -> {"absent", "Working", "Idle", "Question", "Done", "Dead"}]
      BY <2>2 DEF SetState
    <2>3. CASE HandleReport(a, c)
      BY <2>2, <2>3
    <2>4. CASE HandleAsk(a, c)
      BY <2>2, <2>4
    <2>5. CASE HandleStop(a, c)
      BY <2>2, <2>5
    <2>6. CASE HandleEnd(a, c)
      BY <2>6
    <2> QED BY <2>1, <2>3, <2>4, <2>5, <2>6 DEF Handling
  <1>4. inbox' \in Seq(Sessions) /\ finished' \subseteq Sessions
    BY <1>2, InboxTypes DEF Handling, Ensure, pipelineVars, AgentTypeOK, PipelineTypeOK
  <1>5. parted' \subseteq Agents /\ ghost' \subseteq Agents
    BY DEF Handling, Ensure, Appears, AgentTypeOK
  <1>6. /\ hook' \in [Agents -> [Calls -> HookKinds \cup {"none"}]]
        /\ handler' \in [Agents -> [Calls -> {"sent", "ensured", "parked"}]]
        /\ pending' \in [Agents -> Calls \cup {Nobody, Forsaken}]
        /\ OnlyAsksPark'
    <2>1. CASE Ensure(a, c)
      <3>1. /\ handler' = [handler EXCEPT ![a][c] = "ensured"] /\ handler[a][c] = "sent"
            /\ UNCHANGED <<hook, pending>>
        BY <2>1 DEF Ensure
      <3>2. /\ handler' \in [Agents -> [Calls -> {"sent", "ensured", "parked"}]]
            /\ \A b \in Agents, d \in Calls :
                  handler'[b][d] = IF b = a /\ d = c THEN "ensured" ELSE handler[b][d]
        BY <1>0, <3>1, SetOne DEF HookTypes
      <3> QED BY <1>0, <3>1, <3>2 DEF HookTypes, OnlyAsksPark
    <2>2. CASE HandleAsk(a, c)
      <3> DEFINE hooks == [d \in Calls |-> IF d = pending[a] THEN "none" ELSE hook[a][d]]
                 handlers == [d \in Calls |-> IF d = c THEN "parked"
                                ELSE IF d = pending[a] THEN "sent" ELSE handler[a][d]]
      <3>1. /\ handler[a][c] = "ensured" /\ hook[a][c] = "PreToolUse"
            /\ hook' = [hook EXCEPT ![a] = hooks]
            /\ handler' = [handler EXCEPT ![a] = handlers]
            /\ pending' = [pending EXCEPT ![a] = c]
        BY <1>0, <2>2 DEF HookTypes, Handles
      <3>2. /\ hooks \in [Calls -> HookKinds \cup {"none"}]
            /\ handlers \in [Calls -> {"sent", "ensured", "parked"}]
        BY <1>0 DEF HookTypes
      <3>3. /\ hook' \in [Agents -> [Calls -> HookKinds \cup {"none"}]]
            /\ handler' \in [Agents -> [Calls -> {"sent", "ensured", "parked"}]]
            /\ pending' \in [Agents -> Calls \cup {Nobody, Forsaken}]
            /\ hook'[a] = hooks /\ handler'[a] = handlers /\ pending'[a] = c
            /\ \A b \in Agents : b # a => /\ hook'[b] = hook[b] /\ handler'[b] = handler[b]
                                         /\ pending'[b] = pending[b]
        BY <1>0, <3>1, <3>2 DEF HookTypes
      <3>4. pending[a] # c
        BY <1>0, <3>1 DEF OnlyAsksPark
      <3>5. ASSUME NEW d \in Calls
            PROVE  /\ handlers[d] = "parked" <=> c = d
                   /\ handlers[d] = "parked" => hooks[d] = "PreToolUse"
        BY <1>0, <3>1, <3>4, <3>5 DEF OnlyAsksPark
      <3> QED BY <1>0, <3>3, <3>5 DEF OnlyAsksPark
    <2>3. CASE HandleReport(a, c) \/ HandleStop(a, c) \/ HandleEnd(a, c)
      <3>1. Over(a, c) /\ pending' = pending /\ handler[a][c] = "ensured"
        BY <2>3 DEF Handles
      <3>2. OnlyAsksPark'
        BY <1>0, <3>1, OverTypes DEF OnlyAsksPark
      <3> QED BY <1>0, <3>1, <3>2, OverTypes DEF HookTypes
    <2> QED BY <2>1, <2>2, <2>3 DEF Handling
  <1>7. PipelineTypeOK'
    BY <1>1, <1>3, <1>4 DEF AgentTypeOK, PipelineTypeOK, Types
  <1>8. HookTypes' /\ PollersOff'
    BY <1>0, <1>1, <1>5, <1>6 DEF HookTypes, PollersOff
  <1> QED BY <1>1, <1>6, <1>7, <1>8, TypePartsAfter

LEMMA AnswerTypes ==
    ASSUME AgentTypeOK, NEW a \in Agents, Answer(a)
    PROVE  AgentTypeOK' /\ Decide(a) /\ UNCHANGED <<parted, ghost, hasty>>
  <1>1. /\ Decide(a) /\ a \in Sessions
        /\ UNCHANGED <<waits, inbox, ready, fired, finished, lagged, turn, turns, parted,
                       ghost, hasty>>
    BY AgentsAssumption DEF Answer, pipelineVars
  <1>2. Types' /\ poll' = poll
    BY <1>1, SharedTypes DEF Shared, AgentTypeOK, PipelineTypeOK
  <1>3. PipelineTypeOK' /\ PollersOff'
    BY <1>1, <1>2, TypeParts DEF PipelineTypeOK, PollersOff
  <1>4. HookTypes' /\ OnlyAsksPark'
    <2>0. HookTypes /\ OnlyAsksPark /\ pending' = [pending EXCEPT ![a] = Nobody]
      BY TypeParts DEF Answer
    <2>1. ASSUME NEW c \in Calls, pending[a] = c, Over(a, c)
          PROVE  HookTypes' /\ OnlyAsksPark'
      <3>1. OnlyAsksPark'
        BY <2>0, <2>1, OverTypes, CallsAssumption DEF HookTypes, OnlyAsksPark
      <3> QED BY <1>1, <2>0, <2>1, <3>1, OverTypes DEF HookTypes
    <2>2. ASSUME pending[a] \notin Calls, UNCHANGED <<hook, handler>>
          PROVE  HookTypes' /\ OnlyAsksPark'
      BY <1>1, <2>0, <2>2, CallsAssumption DEF HookTypes, OnlyAsksPark
    <2> QED BY <2>1, <2>2 DEF Answer
  <1> QED BY <1>1, <1>3, <1>4, TypePartsAfter

LEMMA ListAgentTypes ==
    ASSUME AgentTypeOK, NEW a \in Agents, ListAgent(a)
    PROVE  AgentTypeOK'
  <1>1. /\ a \in Sessions
        /\ UNCHANGED <<worktrees, tree, ptys, child, poll, order, closing, waits, inbox, ready,
                       fired, finished, lagged, turn, turns, hook, handler, pending, hasty>>
    BY AgentsAssumption DEF ListAgent, pipelineVars, callVars
  <1>2. PipelineTypeOK' /\ PollersOff'
    BY <1>1, TypeParts DEF ListAgent, PipelineTypeOK, PollersOff, Types
  <1>3. HookTypes' /\ OnlyAsksPark'
    BY <1>1, TypeParts DEF ListAgent, Appears, HookTypes, OnlyAsksPark
  <1> QED BY <1>2, <1>3, TypePartsAfter

\* The watcher begins the spawn of a session at most.
LEMMA WatcherTypes ==
    ASSUME AgentTypeOK, Watcher
    PROVE  /\ AgentTypeOK' /\ UNCHANGED agentVars
           /\ (\E s \in Sessions : Begin(s)) \/ UNCHANGED sessionVars
  <1>1. UNCHANGED <<turn, turns, hook, handler, pending, parted, ghost, hasty>>
    BY DEF Watcher, agentVars, callVars
  <1>2. (\E s \in Sessions : Begin(s)) \/ UNCHANGED sessionVars
    BY DEF Watcher, SetAutonomy, SpawnAfter, Watching, Drain, Launch, Lag
  <1>3. Types' /\ poll' = poll
    BY <1>2, SharedTypes DEF AgentTypeOK, PipelineTypeOK, Shared, sessionVars, Types
  <1>4. PipelineTypeOK'
    <2> USE <1>3, TypeParts DEF PipelineTypeOK
    <2>1. ASSUME NEW a \in Agents, SetAutonomy(a) PROVE PipelineTypeOK'
      BY <2>1, AgentsAssumption, InboxTypes DEF SetAutonomy, watcherVars
    <2>2. ASSUME NEW a \in Agents, NEW p \in Specs, SpawnAfter(p, a) PROVE PipelineTypeOK'
      BY <2>2, AgentsAssumption DEF SpawnAfter
    <2>3. CASE Drain
      <3>1. inbox' \in Seq(Sessions)
        BY <2>3 DEF Drain
      <3>2. ready' \subseteq {p \in Specs : waits'[p] = NoSession}
        BY <2>3 DEF Drain
      <3> QED BY <2>3, <3>1, <3>2 DEF Drain
    <2>4. ASSUME NEW p \in Specs, NEW s \in Sessions, Launch(p, s) PROVE PipelineTypeOK'
      BY <2>4 DEF Launch
    <2>5. CASE Lag
      <3>1. inbox' \in Seq(Sessions)
        BY <2>5 DEF Lag
      <3> QED BY <2>5, <3>1 DEF Lag
    <2> QED BY <2>1, <2>2, <2>3, <2>4, <2>5 DEF Watcher, Watching
  <1>5. HookTypes' /\ PollersOff' /\ OnlyAsksPark'
    BY <1>1, <1>3, TypeParts DEF HookTypes, PollersOff, OnlyAsksPark
  <1> QED BY <1>1, <1>2, <1>4, <1>5, TypePartsAfter DEF agentVars, callVars

-----------------------------------------------------------------------------
(***************************************************************************)
(* Terminals and cards                                                     *)
(***************************************************************************)

\* What does not touch an agent leaves it as it is.
LEMMA FitsFrame ==
    ASSUME NEW a \in Agents, Fits(a),
           spawn'[a] = spawn[a], closing'[a] = closing[a], child'[a] = child[a],
           state'[a] = state[a], a \in ptys' <=> a \in ptys,
           a \in worktrees' <=> a \in worktrees, a \in parted' <=> a \in parted,
           a \in ghost' <=> a \in ghost, a \in hasty' <=> a \in hasty
    PROVE  Fits(a)'
  BY DEF Fits, Terminal, Card, Alive, Listed

\* Nor does a state that is set on a listed session.
LEMMA FitsListed ==
    ASSUME NEW a \in Agents, Fits(a),
           spawn'[a] = spawn[a], closing'[a] = closing[a], child'[a] = child[a],
           Listed(a)' <=> Listed(a), a \in ptys' <=> a \in ptys,
           a \in worktrees' <=> a \in worktrees, a \in parted' <=> a \in parted,
           a \in ghost' <=> a \in ghost, a \in hasty' <=> a \in hasty
    PROVE  Fits(a)'
  BY DEF Fits, Terminal, Card, Alive

LEMMA SetStateKeepsListed ==
    ASSUME Types, NEW s \in Sessions, NEW st, st # "absent", SetState(s, st)
    PROVE  Listed(s)' <=> Listed(s)
  BY DEF SetState, Listed, Types

\* Requests, close, child and files.  A close that begins before the spawn is over makes
\* the agent hasty.
LEMMA CommonFits ==
    ASSUME Types, NEW a \in Agents, Fits(a), Common(a)
    PROVE  Fits(a)'
  <1>1. a \in Sessions /\ UNCHANGED <<parted, ghost>>
    BY AgentsAssumption DEF Common
  <1>2. /\ a \in hasty => a \in hasty'
        /\ closing[a] = "no" /\ closing'[a] # "no" /\ spawn[a] # "listed" => a \in hasty'
    BY DEF Common
  <1> SUFFICES ASSUME a \notin hasty' PROVE Terminal(a)' /\ Card(a)'
    BY DEF Fits
  <1>3. Terminal(a) /\ Card(a)
    BY <1>2 DEF Fits
  <1> USE <1>1, <1>2, <1>3 DEF Terminal, Card, Types, Alive, Listed
  <1>4. CASE Begin(a)
    BY <1>4 DEF Begin
  <1>5. CASE StartChild(a)
    BY <1>5 DEF StartChild
  <1>6. CASE AddPty(a)
    BY <1>6 DEF AddPty
  <1>7. CASE Exit(a)
    BY <1>7 DEF Exit
  <1>8. CASE Edit(a)
    BY <1>8 DEF Edit
  <1>9. CASE Pause(a)
    BY <1>9 DEF Pause
  <1>10. CASE Resume(a)
    BY <1>10 DEF Resume
  <1>11. CASE Stop(a)
    BY <1>11 DEF Stop, Kill
  <1>12. CASE SetOrdered(a)
    BY <1>12 DEF SetOrdered, SetState
  <1>13. CASE ClosePty(a)
    BY <1>13 DEF ClosePty, Kill
  <1>14. CASE CloseTree(a)
    BY <1>14 DEF CloseTree
  <1>15. CASE RemoveTree(a)
    BY <1>15 DEF RemoveTree
  <1>16. CASE Unlist(a)
    BY <1>16 DEF Unlist
  <1> QED BY <1>4, <1>5, <1>6, <1>7, <1>8, <1>9, <1>10, <1>11, <1>12, <1>13, <1>14, <1>15,
             <1>16
          DEF Common, Closing

\* A hook that lists an agent makes a ghost of it or ends its parting; SessionEnd parts it
\* from what is left.
LEMMA HandlingFits ==
    ASSUME AgentTypeOK, NEW a \in Agents, NEW c \in Calls, Fits(a), Handling(a, c)
    PROVE  Fits(a)'
  <1>1. a \in Sessions /\ Types
    BY AgentsAssumption DEF AgentTypeOK, PipelineTypeOK
  <1>2. UNCHANGED <<spawn, worktrees, tree, ptys, child, poll, order, closing, hasty>>
    BY HandlingTypes
  <1>3. CASE Ensure(a, c)
    <2>1. Listed(a)'
      BY <1>1, <1>3 DEF Ensure, Listed, Types
    <2>2. ~Listed(a) /\ spawn[a] = "listed" /\ a \notin ptys => a \in ghost'
      BY <1>3 DEF Ensure, Appears
    <2>3. a \in ghost => a \in ghost'
      BY <1>3 DEF Ensure, Appears
    <2> QED BY <1>2, <2>1, <2>2, <2>3 DEF Fits, Terminal, Card, Alive
  <1>4. ASSUME NEW st, st # "absent", HandleAs(a, st), parted' = parted PROVE Fits(a)'
    <2>1. Listed(a)' <=> Listed(a)
      BY <1>1, <1>4, SetStateKeepsListed DEF HandleAs
    <2> QED BY <1>2, <1>4, <2>1, FitsListed DEF HandleAs
  <1>5. CASE HandleReport(a, c)
    BY <1>4, <1>5 DEF HandleReport
  <1>6. CASE HandleAsk(a, c)
    BY <1>4, <1>6 DEF HandleAsk
  <1>7. CASE HandleStop(a, c)
    BY <1>4, <1>7 DEF HandleStop
  <1>8. CASE HandleEnd(a, c)
    <2>1. ~Listed(a)' /\ (a \in ptys => a \in parted') /\ ghost' = ghost
      BY <1>1, <1>8 DEF HandleEnd, Listed, Types
    <2> QED BY <1>2, <2>1 DEF Fits, Terminal, Card, Alive
  <1> QED BY <1>3, <1>5, <1>6, <1>7, <1>8 DEF Handling

LEMMA AnswerFits ==
    ASSUME Types, NEW a \in Agents, Fits(a), Answer(a)
    PROVE  Fits(a)'
  BY FitsFrame DEF Answer, Decide

LEMMA ListAgentFits ==
    ASSUME Types, NEW a \in Agents, Fits(a), ListAgent(a)
    PROVE  Fits(a)'
  <1>1. a \in Sessions /\ UNCHANGED <<worktrees, ptys, child, closing, hasty>>
    BY AgentsAssumption DEF ListAgent
  <1>2. spawn[a] = "pty" /\ spawn'[a] = "listed" /\ state'[a] = "Working"
    BY <1>1 DEF ListAgent, Types
  <1> QED BY <1>1, <1>2 DEF Fits, Terminal, Card, Alive, Listed

\* A spec that is launched begins the spawn of an agent or of another session.
LEMMA BeginFits ==
    ASSUME Types, NEW a \in Agents, Fits(a), NEW s \in Sessions, Begin(s),
           UNCHANGED <<parted, ghost, hasty>>
    PROVE  Fits(a)'
  <1>1. a \in Sessions
    BY AgentsAssumption
  <1>2. CASE s = a
    BY <1>1, <1>2 DEF Begin, Fits, Terminal, Card, Alive, Listed, Types
  <1>3. CASE s # a
    BY <1>1, <1>3, SharedTypes, FitsFrame DEF Shared
  <1> QED BY <1>2, <1>3

\* The agents are separate.
LEMMA OthersFit ==
    ASSUME AgentTypeOK, NEW a \in Agents, NEW b \in Agents, a # b, Fits(b),
           Common(a) \/ Agent(a)
    PROVE  Fits(b)'
  <1>1. a \in Sessions /\ b \in Sessions /\ Types
    BY AgentsAssumption DEF AgentTypeOK, PipelineTypeOK
  <1>2. CASE Common(a)
    <2>1. Shared(a) /\ UNCHANGED <<parted, ghost>> /\ (b \in hasty' <=> b \in hasty)
      BY <1>2, CommonTypes DEF Common
    <2> QED BY <1>1, <2>1, SharedTypes, FitsFrame
  <1>3. ASSUME NEW c \in Calls, Acting(a, c) PROVE Fits(b)'
    BY <1>3, CallTypes, FitsFrame DEF vars, sessionVars
  <1>4. CASE ListAgent(a)
    BY <1>1, <1>4, FitsFrame DEF ListAgent, Appears, Types
  <1>5. ASSUME NEW c \in Calls, Handling(a, c) PROVE Fits(b)'
    <2>1. UNCHANGED <<spawn, worktrees, tree, ptys, child, poll, order, closing, hasty>>
      BY <1>5, HandlingTypes
    <2>2. /\ state'[b] = state[b]
          /\ b \in parted' <=> b \in parted
          /\ b \in ghost' <=> b \in ghost
      BY <1>1, <1>5 DEF Handling, Ensure, Appears, HandleReport, HandleAsk, HandleStop,
                        HandleEnd, HandleAs, SetState, Types
    <2> QED BY <2>1, <2>2, FitsFrame
  <1>6. CASE Answer(a)
    <2>1. Decide(a) /\ UNCHANGED <<parted, ghost, hasty>>
      BY <1>6 DEF Answer
    <2> QED BY <1>1, <2>1, SharedTypes, FitsFrame DEF Shared
  <1> QED BY <1>2, <1>3, <1>4, <1>5, <1>6 DEF Agent, Acting

-----------------------------------------------------------------------------
(***************************************************************************)
(* The theorems                                                            *)
(***************************************************************************)

LEMMA InitAInv == AgentInit => AInv
  <1> SUFFICES ASSUME AgentInit PROVE AInv
    OBVIOUS
  <1>1. ASSUME NEW a \in Agents PROVE Fits(a)
    BY AgentsAssumption
    DEF AgentInit, PipelineInit, Init, Fits, Terminal, Card, Alive, Listed
  <1> QED BY <1>1, InitTypes DEF AInv

LEMMA NextAInv == AInv /\ [AgentNext]_allVars => AInv'
  <1> SUFFICES ASSUME AInv, [AgentNext]_allVars PROVE AInv'
    OBVIOUS
  <1>1. AgentTypeOK /\ Types
    BY DEF AInv, AgentTypeOK, PipelineTypeOK
  <1>2. ASSUME NEW a \in Agents, Common(a) \/ Agent(a) PROVE AInv'
    <2>1. AgentTypeOK'
      BY <1>1, <1>2, CommonTypes, CallTypes, ListAgentTypes, HandlingTypes, AnswerTypes
      DEF Agent, Acting
    <2>2. Fits(a)'
      <3>1. Fits(a)
        BY DEF AInv
      <3>2. ASSUME NEW c \in Calls, Acting(a, c) PROVE Fits(a)'
        BY <1>1, <3>1, <3>2, CallTypes, FitsFrame DEF vars, sessionVars
      <3> QED BY <1>1, <1>2, <3>1, <3>2, CommonFits, ListAgentFits, HandlingFits, AnswerFits
              DEF Agent, Acting
    <2>3. ASSUME NEW b \in Agents, b # a PROVE Fits(b)'
      BY <1>1, <1>2, <2>3, OthersFit DEF AInv
    <2> QED BY <2>1, <2>2, <2>3 DEF AInv
  <1>3. CASE Watcher
    <2>1. /\ AgentTypeOK' /\ UNCHANGED <<parted, ghost, hasty>>
          /\ (\E s \in Sessions : Begin(s)) \/ UNCHANGED sessionVars
      BY <1>1, <1>3, WatcherTypes DEF agentVars
    <2>2. ASSUME NEW a \in Agents PROVE Fits(a)'
      <3>1. Fits(a)
        BY DEF AInv
      <3>2. CASE UNCHANGED sessionVars
        BY <2>1, <3>1, <3>2, FitsFrame DEF sessionVars
      <3>3. ASSUME NEW s \in Sessions, Begin(s) PROVE Fits(a)'
        BY <1>1, <2>1, <3>1, <3>3, BeginFits
      <3> QED BY <2>1, <3>2, <3>3
    <2> QED BY <2>1, <2>2 DEF AInv
  <1>4. CASE UNCHANGED allVars
    <2>1. AgentTypeOK'
      BY <1>1, <1>4 DEF allVars, agentVars, callVars, vars, sessionVars, pipelineVars, AgentTypeOK,
                        PipelineTypeOK, Types
    <2>2. ASSUME NEW a \in Agents PROVE Fits(a)'
      BY <1>4, FitsFrame DEF AInv, allVars, agentVars, vars, sessionVars
    <2> QED BY <2>1, <2>2 DEF AInv
  <1> QED BY <1>2, <1>3, <1>4 DEF AgentNext

\* Every state that hooks, humans and the watcher reach satisfies the invariant.
THEOREM AgentInvariance == AgentSpec => []AInv
  BY InitAInv, NextAInv, PTL DEF AgentSpec

\* The types hold: no poller watches an agent, and only a PreToolUse is parked.
THEOREM AgentTypeCorrect == AgentSpec => []AgentTypeOK
  <1>1. AInv => AgentTypeOK
    BY DEF AInv
  <1> QED BY <1>1, AgentInvariance, PTL

\* A terminal has its card and a card its terminal, but for what a SessionEnd and a late
\* hook leave behind.
THEOREM CardsMatch == AgentSpec => []CardsMatchTerminals
  <1>1. AInv => CardsMatchTerminals
    BY DEF AInv, Fits, Terminal, Card, CardsMatchTerminals, Alive
  <1> QED BY <1>1, AgentInvariance, PTL
=============================================================================

----------------------------- MODULE Governance -----------------------------
(***************************************************************************)
(* The agent-governance loop of fleetd: hook calls (hooks.rs), the registry *)
(* of sessions and parked hooks (registry.rs), the UI requests that answer *)
(* them (server.rs) and the parts of Daemon::spawn and Daemon::close that  *)
(* add and remove sessions (daemon.rs).                                    *)
(*                                                                         *)
(* Every connection is a tokio task and the registry is one mutex, so a    *)
(* step here is one critical section of that mutex together with the local *)
(* work around it; whatever runs between two sections can be interleaved.  *)
(* Costs, activity texts and the event stream are left out (EventStream    *)
(* has the latter).                                                        *)
(***************************************************************************)
EXTENDS Safety

CONSTANTS
    Sessions,     \* ids Registry::alloc_id can hand out
    Hooks,        \* one value per run of the fleetterm-hook binary
    Clients,      \* one value per Decide request in flight
    Commands,     \* the tool calls agents can propose
    Kinds,        \* the hook kinds that agents fire besides PreToolUse
    HookPhases,   \* the phases of an agent in which its hooks fire
    PillLevels,   \* the levels a human may set on a session or as default
    Absent, NoHook, NoCall, NoCommand, NoVerdict, NoRequest

ASSUME CommandsAssumption == Commands \subseteq Command /\ NoCommand \notin Commands
ASSUME LevelsAssumption == PillLevels \subseteq Autonomies
ASSUME KindsAssumption ==
    Kinds \subseteq {"Notification", "PostToolUse", "Stop", "SessionEnd", "UserPromptSubmit"}
ASSUME PhasesAssumption == HookPhases \subseteq {"starting", "running", "ended"}

VARIABLES
    defaultAutonomy,  \* Inner.default_autonomy
    sessions,         \* Inner.sessions: the record of a listed id, else Absent
    pending,          \* Inner.pending: the hook whose oneshot sender is kept
    agent,            \* where Daemon::spawn and the child of an id stand
    spec,             \* the level of the SpawnSpec that the spawn of an id holds
    asked,            \* history: the level a human last asked for on an id
    overwritten,      \* history: the insert replaced what was last asked for
    pc,               \* where the handler of a hook call stands
    call,             \* the HookEnvelope of a hook call
    verdict,          \* what the hook call is answered with, and by whom
    req               \* Decide requests on their way through handle_request

levels == <<spec, asked, overwritten>>

vars == <<defaultAutonomy, sessions, pending, agent, levels, pc, call, verdict, req>>

\* Types

\* The command of a PreToolUse call; NoCommand for the other hook kinds.
Envelope == [session : Sessions, kind : {"PreToolUse"}, cmd : Commands]
            \cup [session : Sessions, kind : Kinds, cmd : {NoCommand}]

\* Session.state with what NeedsInput(Permission) shows to the human.
Session == [state : {"Permission"}, asks : Commands, autonomy : Autonomies]
           \cup [state : {"Working", "Question", "Done"}, asks : {NoCommand},
                 autonomy : Autonomies]

\* HookReply.decision; `by' and `shown' are history: who answered, and which
\* command the human was looking at when they clicked.
Verdict == [answer : {"allow", "deny"}, by : {"policy", "human", "closed"},
            shown : Commands \cup {NoCommand}]

Request == [stage : {"sent", "taken"}, session : Sessions, approve : BOOLEAN,
            shown : Commands \cup {NoCommand}]

ASSUME NullAssumption ==
    /\ NoHook \notin Hooks /\ Absent \notin Session /\ NoCall \notin Envelope
    /\ NoVerdict \notin Verdict /\ NoRequest \notin Request

\* What the variables hold; a prompt is kept exactly while one is shown.
TypeOK ==
    /\ defaultAutonomy \in Autonomies
    /\ sessions \in [Sessions -> Session \cup {Absent}]
    /\ pending \in [Sessions -> Hooks \cup {NoHook}]
    /\ agent \in [Sessions -> {"none", "starting", "running", "ended", "closed"}]
    /\ spec \in [Sessions -> Autonomies]
    /\ asked \in [Sessions -> Autonomies]
    /\ overwritten \in [Sessions -> BOOLEAN]
    /\ pc \in [Hooks -> {"idle", "received", "allowing", "escalating",
                         "reporting", "escalated", "parked", "answered", "done"}]
    /\ call \in [Hooks -> Envelope \cup {NoCall}]
    /\ verdict \in [Hooks -> Verdict \cup {NoVerdict}]
    /\ req \in [Clients -> Request \cup {NoRequest}]

Init ==
    /\ defaultAutonomy = "Guarded"
    /\ sessions = [s \in Sessions |-> Absent]
    /\ pending = [s \in Sessions |-> NoHook]
    /\ agent = [s \in Sessions |-> "none"]
    /\ spec = [s \in Sessions |-> "Guarded"]
    /\ asked = [s \in Sessions |-> "Guarded"]
    /\ overwritten = [s \in Sessions |-> FALSE]
    /\ pc = [h \in Hooks |-> "idle"]
    /\ call = [h \in Hooks |-> NoCall]
    /\ verdict = [h \in Hooks |-> NoVerdict]
    /\ req = [u \in Clients |-> NoRequest]

\* Helpers

Listed(s) == sessions[s] # Absent

\* Faulty variant: the prompt of the last request is not replaced.
SetStateKeepsPrompt(s, st, c) ==
    sessions' = IF Listed(s)
                THEN [sessions EXCEPT ![s].state = st,
                        ![s].asks = IF c = NoCommand THEN @ ELSE c]
                ELSE sessions

\* Registry::set_state: a no-op on an id that is not listed.
SetState(s, st, c) ==
    sessions' = IF Listed(s)
                THEN [sessions EXCEPT ![s] =
                        [state |-> st, asks |-> c, autonomy |-> sessions[s].autonomy]]
                ELSE sessions

\* Registry::remove: the id leaves the map, its parked hook does not.
Remove(s) == sessions' = [sessions EXCEPT ![s] = Absent]

\* State::needs_human, which decides whether a card has its two buttons.
NeedsHuman(s) == Listed(s) /\ sessions[s].state \in {"Permission", "Question"}

\* A hook waits on its oneshot and nobody has resolved or dropped the sender.
Parked(h) == pc[h] = "parked" /\ verdict[h] = NoVerdict

\* A Decide for a session is on its way to take_pending.
Deciding(u, s) == req[u] # NoRequest /\ req[u].stage = "sent" /\ req[u].session = s

-----------------------------------------------------------------------------
\* Sessions

\* Daemon::spawn up to PtySession::spawn: an id is taken and the child runs,
\* so its hooks can reach the socket, but the registry does not list it yet.
Spawn(s, l) ==
    /\ agent[s] = "none"
    /\ agent' = [agent EXCEPT ![s] = "starting"]
    /\ spec' = [spec EXCEPT ![s] = l]
    /\ asked' = [asked EXCEPT ![s] = l]
    /\ UNCHANGED <<defaultAutonomy, sessions, pending, overwritten, pc, call, verdict, req>>

\* Daemon::spawn, the insert: replaces whatever a hook created meanwhile, with
\* the level that a human may have given it.
Insert(s) ==
    /\ agent[s] = "starting"
    /\ agent' = [agent EXCEPT ![s] = "running"]
    /\ sessions' = [sessions EXCEPT ![s] =
          [state |-> "Working", asks |-> NoCommand, autonomy |-> spec[s]]]
    /\ overwritten' = [overwritten EXCEPT ![s] = asked[s] # spec[s]]
    /\ UNCHANGED <<defaultAutonomy, pending, spec, asked, pc, call, verdict, req>>

\* Daemon::close as far as the registry goes; the child is killed.
Close(s) ==
    /\ Listed(s)
    /\ Remove(s)
    /\ agent' = [agent EXCEPT ![s] = IF @ = "starting" THEN @ ELSE "closed"]
    /\ UNCHANGED <<defaultAutonomy, pending, levels, pc, call, verdict, req>>

\* Request::SetAutonomy on a card of the sidebar, also on one that a hook has
\* listed before the insert.
SetAutonomy(s, l) ==
    /\ Listed(s)
    /\ sessions' = [sessions EXCEPT ![s].autonomy = l]
    /\ asked' = [asked EXCEPT ![s] = l]
    /\ overwritten' = [overwritten EXCEPT ![s] = FALSE]
    /\ UNCHANGED <<defaultAutonomy, pending, agent, spec, pc, call, verdict, req>>

\* Request::SetDefaultAutonomy
SetDefaultAutonomy(l) ==
    /\ defaultAutonomy' = l
    /\ UNCHANGED <<sessions, pending, agent, levels, pc, call, verdict, req>>

-----------------------------------------------------------------------------
\* Hook calls

\* An agent runs fleetterm-hook, which connects and sends its envelope.  An
\* agent may have several calls open (parallel tools, subagents), and goes on
\* after a SessionEnd (/clear).
Fire(h, e) ==
    /\ pc[h] = "idle"
    /\ agent[e.session] \in HookPhases
    /\ pc' = [pc EXCEPT ![h] = "received"]
    /\ call' = [call EXCEPT ![h] = e]
    /\ UNCHANGED <<defaultAutonomy, sessions, pending, agent, levels, verdict, req>>

\* Faulty variant: the entry is overwritten by a fresh one.
EnsureAnew(h) ==
    LET s == call[h].session
        fresh == [state |-> "Working", asks |-> NoCommand, autonomy |-> defaultAutonomy]
        outcome == Decide(defaultAutonomy, Classify(call[h].cmd))
    IN  /\ pc[h] = "received"
        /\ sessions' = [sessions EXCEPT ![s] = fresh]
        /\ pc' = [pc EXCEPT ![h] = IF call[h].kind # "PreToolUse" THEN "reporting"
                                   ELSE IF outcome = "Allow" THEN "allowing"
                                   ELSE "escalating"]
        /\ UNCHANGED <<defaultAutonomy, pending, agent, levels, call, verdict, req>>

\* Registry::ensure, as handle_hook calls it: an id that is not listed is
\* listed at the default level, silently.  The snapshot it returns decides the
\* branch, so a level set after this step comes too late for this call.
Ensure(h) ==
    LET s == call[h].session
        fresh == [state |-> "Working", asks |-> NoCommand, autonomy |-> defaultAutonomy]
        found == IF Listed(s) THEN sessions[s] ELSE fresh
        outcome == Decide(found.autonomy, Classify(call[h].cmd))
    IN  /\ pc[h] = "received"
        /\ sessions' = [sessions EXCEPT ![s] = found]
        /\ pc' = [pc EXCEPT ![h] = IF call[h].kind # "PreToolUse" THEN "reporting"
                                   ELSE IF outcome = "Allow" THEN "allowing"
                                   ELSE "escalating"]
        /\ UNCHANGED <<defaultAutonomy, pending, agent, levels, call, verdict, req>>

\* PreToolUse, the allow branch.
AutoAllow(h) ==
    /\ pc[h] = "allowing"
    /\ SetState(call[h].session, "Working", NoCommand)
    /\ verdict' = [verdict EXCEPT ![h] =
          [answer |-> "allow", by |-> "policy", shown |-> NoCommand]]
    /\ pc' = [pc EXCEPT ![h] = "answered"]
    /\ UNCHANGED <<defaultAutonomy, pending, agent, levels, call, req>>

\* PreToolUse, the escalate branch up to emit_decision_pending: the human can
\* see the request, and answer it, before the hook is registered.
Escalate(h) ==
    /\ pc[h] = "escalating"
    /\ SetState(call[h].session, "Permission", call[h].cmd)
    /\ pc' = [pc EXCEPT ![h] = "escalated"]
    /\ UNCHANGED <<defaultAutonomy, pending, agent, levels, call, verdict, req>>

\* Faulty variant: a sender already in the map is left there (or_insert).
ParkBehind(h) ==
    LET s == call[h].session
    IN  /\ pc[h] = "escalated"
        /\ pc' = [pc EXCEPT ![h] = "parked"]
        /\ pending' = IF pending[s] = NoHook THEN [pending EXCEPT ![s] = h] ELSE pending
        /\ UNCHANGED <<defaultAutonomy, sessions, agent, levels, call, verdict, req>>

\* Registry::register_pending, then await: the sender of an older hook of the
\* same session is dropped by the insert, and that hook is denied.
Park(h) ==
    LET s == call[h].session
        old == pending[s]
    IN  /\ pc[h] = "escalated"
        /\ pc' = [pc EXCEPT ![h] = "parked"]
        /\ pending' = [pending EXCEPT ![s] = h]
        /\ verdict' = IF old = NoHook THEN verdict
                      ELSE [verdict EXCEPT ![old] =
                              [answer |-> "deny", by |-> "closed", shown |-> NoCommand]]
        /\ UNCHANGED <<defaultAutonomy, sessions, agent, levels, call, req>>

\* The await returns: Ok(decision) or Err, as the verdict says.
Wake(h) ==
    /\ pc[h] = "parked" /\ verdict[h] # NoVerdict
    /\ pc' = [pc EXCEPT ![h] = "answered"]
    /\ UNCHANGED <<defaultAutonomy, sessions, pending, agent, levels, call, verdict, req>>

\* The hook kinds that only report: the state each one sets.
ReportedState == [Notification |-> "Question", PostToolUse |-> "Working",
                  Stop |-> "Done", UserPromptSubmit |-> "Working"]

Report(h) ==
    /\ pc[h] = "reporting" /\ call[h].kind \in DOMAIN ReportedState
    /\ SetState(call[h].session, ReportedState[call[h].kind], NoCommand)
    /\ pc' = [pc EXCEPT ![h] = "answered"]
    /\ UNCHANGED <<defaultAutonomy, pending, agent, levels, call, verdict, req>>

\* SessionEnd removes the session; the child may live on (`ended' is history).
SessionEnd(h) ==
    LET s == call[h].session
    IN  /\ pc[h] = "reporting" /\ call[h].kind = "SessionEnd"
        /\ Remove(s)
        /\ agent' = [agent EXCEPT ![s] = IF @ = "running" THEN "ended" ELSE @]
        /\ pc' = [pc EXCEPT ![h] = "answered"]
        /\ UNCHANGED <<defaultAutonomy, pending, levels, call, verdict, req>>

\* handle_conn writes the reply.  A hook that gave up after its 600 s read
\* timeout does not read it; the handler, which reads nothing while it awaits,
\* does not notice, so nothing else in the daemon differs.
Reply(h) ==
    /\ pc[h] = "answered"
    /\ pc' = [pc EXCEPT ![h] = "done"]
    /\ UNCHANGED <<defaultAutonomy, sessions, pending, agent, levels, call, verdict, req>>

-----------------------------------------------------------------------------
\* Answers

\* A human clicks Approve or Deny on a card of the NEEDS YOU group: the request
\* names the session only.
Click(u, s, approve) ==
    /\ req[u] = NoRequest
    /\ NeedsHuman(s)
    /\ req' = [req EXCEPT ![u] = [stage |-> "sent", session |-> s,
                                  approve |-> approve, shown |-> sessions[s].asks]]
    /\ UNCHANGED <<defaultAutonomy, sessions, pending, agent, levels, pc, call, verdict>>

\* Faulty variant: the sender is looked up but stays in the map.
TakePendingKeeps(u) ==
    LET s == req[u].session
        h == pending[s]
    IN  /\ req[u] # NoRequest /\ req[u].stage = "sent"
        /\ verdict' = IF h = NoHook THEN verdict
                      ELSE [verdict EXCEPT ![h] =
                              [answer |-> IF req[u].approve THEN "allow" ELSE "deny",
                               by |-> "human", shown |-> req[u].shown]]
        /\ req' = [req EXCEPT ![u].stage = "taken"]
        /\ UNCHANGED <<defaultAutonomy, sessions, pending, agent, levels, pc, call>>

\* Request::Decide, first half: take_pending and send on the oneshot.
TakePending(u) ==
    LET s == req[u].session
        h == pending[s]
    IN  /\ req[u] # NoRequest /\ req[u].stage = "sent"
        /\ pending' = [pending EXCEPT ![s] = NoHook]
        /\ verdict' = IF h = NoHook THEN verdict
                      ELSE [verdict EXCEPT ![h] =
                              [answer |-> IF req[u].approve THEN "allow" ELSE "deny",
                               by |-> "human", shown |-> req[u].shown]]
        /\ req' = [req EXCEPT ![u].stage = "taken"]
        /\ UNCHANGED <<defaultAutonomy, sessions, agent, levels, pc, call>>

\* Request::Decide, second half: the session works again, whatever was found.
ShowDecided(u) ==
    /\ req[u] # NoRequest /\ req[u].stage = "taken"
    /\ SetState(req[u].session, "Working", NoCommand)
    /\ req' = [req EXCEPT ![u] = NoRequest]
    /\ UNCHANGED <<defaultAutonomy, pending, agent, levels, pc, call, verdict>>

-----------------------------------------------------------------------------
Handler(h) == \/ Ensure(h) \/ AutoAllow(h) \/ Escalate(h) \/ Park(h) \/ Wake(h)
              \/ Report(h) \/ SessionEnd(h) \/ Reply(h)

Server(u) == TakePending(u) \/ ShowDecided(u)

Next ==
    \/ \E s \in Sessions : Insert(s) \/ Close(s)
    \/ \E s \in Sessions, l \in Autonomies : Spawn(s, l)
    \/ \E s \in Sessions, l \in PillLevels : SetAutonomy(s, l)
    \/ \E l \in PillLevels : SetDefaultAutonomy(l)
    \/ \E h \in Hooks : Handler(h)
    \/ \E h \in Hooks, e \in Envelope : Fire(h, e)
    \/ \E u \in Clients : Server(u)
    \/ \E u \in Clients, s \in Sessions, approve \in BOOLEAN : Click(u, s, approve)

Spec == Init /\ [][Next]_vars

\* The tasks of the daemon run whenever they can; agents and humans need not.
Fairness == /\ \A h \in Hooks : WF_vars(Handler(h))
            /\ \A u \in Clients : WF_vars(Server(u))

FairSpec == Spec /\ Fairness

\* A human who answers any request the cockpit keeps showing.
AttentiveSpec == FairSpec /\ \A s \in Sessions :
                   WF_vars(\E u \in Clients, approve \in BOOLEAN : Click(u, s, approve))
-----------------------------------------------------------------------------
(***************************************************************************)
(* Properties                                                              *)
(***************************************************************************)

IsToolCall(h) == call[h] # NoCall /\ call[h].kind = "PreToolUse"

\* The trust invariant of safety.rs: a command on the catastrophic list is
\* allowed by a human's answer or not at all, at every autonomy level and in
\* every interleaving of level changes, hooks and removals.
TrustInvariant ==
    \A h \in Hooks :
        verdict[h] # NoVerdict /\ verdict[h].answer = "allow" /\ call[h].cmd.destructive
        => verdict[h].by = "human"

\* The pending map and the parked hooks agree: a hook that awaits an open
\* oneshot is the one its session's entry holds, and an entry never outlives
\* the wait.  Were this to fail, a Decide could answer nobody or a parked agent
\* could not be reached by any Decide.
PendingIsParked ==
    \A s \in Sessions, h \in Hooks :
        pending[s] = h <=> Parked(h) /\ call[h].session = s

\* What the program counter of a handler says about its call: the inductive
\* part that ties PendingIsParked and TrustInvariant to the branches taken.
CallShape ==
    \A h \in Hooks :
        /\ pc[h] = "idle" <=> call[h] = NoCall
        /\ pc[h] \in {"allowing", "escalating", "escalated", "parked"} => IsToolCall(h)
        /\ pc[h] = "allowing" => ~call[h].cmd.destructive
        /\ verdict[h] # NoVerdict => IsToolCall(h) /\ pc[h] \in {"parked", "answered", "done"}

\* The level of a session whose spawn finished and that has not ended is the one
\* a human last asked for, by spawn or pill: neither a racing hook
\* (Registry::ensure) nor a change of the fleet default touches it.  The one level
\* that is lost is of a pill set before the insert, on a card that a hook had
\* listed: then the session runs at the level of its spec, until the next pill.
LevelIsTheHumans ==
    \A s \in Sessions :
        agent[s] = "running" =>
            /\ Listed(s)
            /\ sessions[s].autonomy = IF overwritten[s] THEN spec[s] ELSE asked[s]

\* A hook call is answered once: no later Decide, newer hook or close changes
\* an answer that was given.
VerdictIsFinal ==
    [][\A h \in Hooks : verdict[h] # NoVerdict => verdict'[h] = verdict[h]]_vars

\* A click on a parked call comes through: while a Decide for its session is on
\* its way to take_pending, a hook that is parked will be answered, by this click,
\* another one or a newer hook, and its agent goes on; also when the session is
\* closed or ends in between.
ClickUnparks ==
    \A h \in Hooks :
        (pc[h] = "parked" /\ \E u \in Clients : Deciding(u, call[h].session))
        ~> pc[h] = "done"

\* The loop implements the decision gate (DecisionGate): handlers, requests,
\* removals and time-outs only ever move a call along the gate.
GateStatus(h) ==
    IF verdict[h] # NoVerdict
    THEN IF verdict[h].answer = "allow" THEN "allowed" ELSE "denied"
    ELSE IF pc[h] = "parked" THEN "waiting" ELSE "new"

Gate == INSTANCE DecisionGate WITH
          status <- [h \in Hooks |-> GateStatus(h)],
          subject <- [h \in Hooks |-> IF IsToolCall(h)
                                      THEN <<call[h].session, call[h].cmd>> ELSE <<>>],
          holder <- pending

ImplementsGate == Gate!GateSpec

\* What tests and docs say and the loop does not do ---------------------------

\* "parks the hook on a oneshot until a human resolves it via Request::Decide"
\* (hooks.rs:3): with a human who answers whatever the cockpit keeps showing, a
\* parked call of a session that stays listed is answered.  It is not: an answer
\* taken between Escalate and Park finds no sender and hides the request.
ParkedGetsAnswered ==
    \A h \in Hooks :
        pc[h] = "parked" ~>
        (pc[h] = "done" \/ (call[h] # NoCall /\ ~Listed(call[h].session)))

\* "sender dropped (session closed / superseded) -> safest is to deny"
\* (hooks.rs:57): a hook that is parked when its session is closed is answered.
\* It is not: Registry::remove takes the session away and leaves the sender in
\* Inner.pending, where nothing drops it and no card offers to answer it.
ClosedHookIsDenied ==
    \A h \in Hooks :
        (pc[h] = "parked" /\ ~Listed(call[h].session)) ~> pc[h] = "done"

\* "the parked hook is unblocked with the matching decision"
\* (tests/governance_loop.rs:4): a call a human allowed runs the command that
\* human was shown.  A Decide names a session, not a call, so it may not.
AllowsWhatWasShown ==
    \A h \in Hooks :
        verdict[h] # NoVerdict /\ verdict[h].answer = "allow" /\ verdict[h].by = "human"
        => verdict[h].shown = call[h].cmd
=============================================================================

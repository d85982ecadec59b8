----------------------------- MODULE Pipelines ------------------------------
(***************************************************************************)
(* Inter-agent pipelines: Request::SpawnAfter queues a spec behind a       *)
(* session, and the watcher task spawns it when an event of the stream     *)
(* shows that session Done (daemon.rs:57-99).  The sessions live as        *)
(* Lifecycle says; Done events reach the watcher through its receiver of   *)
(* the broadcast channel, which may lap it.                                *)
(***************************************************************************)
EXTENDS Lifecycle, Naturals, Sequences

CONSTANTS
    Specs,        \* the pipelined specs, one per Request::SpawnAfter
    NoSession,
    InboxBound    \* Done events on their way at once (the channel keeps 2048)

ASSUME NoSessionAssumption == NoSession \notin Sessions
ASSUME InboxAssumption == InboxBound \in Nat \ {0}

VARIABLES
    waits,      \* Daemon.pending_pipelines: the predecessor a spec waits for
    inbox,      \* updates of Done sessions on their way to the watcher
    ready,      \* specs the watcher has drained and not yet spawned
    fired,      \* history: how often a spec was drained
    finished,   \* history: ids that were announced as Done
    lagged      \* history: the watcher's receiver has dropped an event

watcherVars == <<waits, ready, fired>>
pipelineVars == <<waits, inbox, ready, fired, finished, lagged>>
vars == <<sessionVars, pipelineVars>>

\* What the variables hold; a spec waits or is ready or was never queued or is
\* spawned, never two of these.
PipelineTypeOK ==
    /\ Types
    /\ waits \in [Specs -> Sessions \cup {NoSession}]
    /\ inbox \in Seq(Sessions)
    /\ ready \subseteq {p \in Specs : waits[p] = NoSession}
    /\ fired \in [Specs -> Nat]
    /\ finished \subseteq Sessions
    /\ lagged \in BOOLEAN

PipelineInit ==
    /\ Init
    /\ waits = [p \in Specs |-> NoSession]
    /\ inbox = <<>> /\ ready = {}
    /\ fired = [p \in Specs |-> 0]
    /\ finished = {} /\ lagged = FALSE

-----------------------------------------------------------------------------
\* Session steps, and which of them the watcher sees

\* Steps whose events do not show a Done session.
Unannounced(s) ==
    /\ \/ Begin(s) \/ Spawning(s) \/ Exit(s) \/ Edit(s)
       \/ PollExit(s) \/ PollScreen(s) \/ PollSet(s)
       \/ Ordering(s) \/ SetOrdered(s) \/ ClosePty(s) \/ Closing(s)
    /\ UNCHANGED pipelineVars

\* Faulty variant: the poller ends without its last set_state being announced.
FinishSilently(s) ==
    /\ PollDone(s)
    /\ finished' = IF Listed(s) THEN finished \cup {s} ELSE finished
    /\ UNCHANGED <<inbox, watcherVars, lagged>>

\* The poller's set_state(Done), announced if the session is still listed.
Finish(s) ==
    /\ PollDone(s)
    /\ IF Listed(s)
       THEN /\ Len(inbox) < InboxBound
            /\ inbox' = Append(inbox, s)
            /\ finished' = finished \cup {s}
       ELSE UNCHANGED <<inbox, finished>>
    /\ UNCHANGED <<watcherVars, lagged>>

\* Request::SetAutonomy on a Done session: its SessionUpdate shows Done again.
\* It leaves one place of the bound to Finish.
SetAutonomy(s) ==
    /\ state[s] = "Done" /\ Len(inbox) + 1 < InboxBound
    /\ inbox' = Append(inbox, s)
    /\ UNCHANGED <<sessionVars, watcherVars, finished, lagged>>

-----------------------------------------------------------------------------
\* The queue and the watcher

\* Request::SpawnAfter, on any id that was ever handed out.
SpawnAfter(p, s) ==
    /\ waits[p] = NoSession /\ p \notin ready /\ fired[p] = 0
    /\ spawn[s] # "none"
    /\ waits' = [waits EXCEPT ![p] = s]
    /\ UNCHANGED <<sessionVars, inbox, ready, fired, finished, lagged>>

\* Faulty variant: the specs are copied out of the list and stay in it.
DrainCopies ==
    /\ inbox # <<>> /\ ready = {}
    /\ ready' = {p \in Specs : waits[p] = Head(inbox)}
    /\ fired' = [p \in Specs |-> IF p \in ready' THEN fired[p] + 1 ELSE fired[p]]
    /\ inbox' = Tail(inbox)
    /\ UNCHANGED <<sessionVars, waits, finished, lagged>>

\* The watcher receives an update and drains the specs that wait for the session.
\* It is one task: it receives again when it has called spawn for all of them.
Drain ==
    /\ inbox # <<>> /\ ready = {}
    /\ ready' = {p \in Specs : waits[p] = Head(inbox)}
    /\ waits' = [p \in Specs |-> IF p \in ready' THEN NoSession ELSE waits[p]]
    /\ fired' = [p \in Specs |-> IF p \in ready' THEN fired[p] + 1 ELSE fired[p]]
    /\ inbox' = Tail(inbox)
    /\ UNCHANGED <<sessionVars, finished, lagged>>

\* The watcher calls Daemon::spawn for a drained spec; if that fails, so be it.
Launch(p, s) ==
    /\ p \in ready
    /\ Begin(s)
    /\ ready' = ready \ {p}
    /\ UNCHANGED <<waits, inbox, fired, finished, lagged>>

\* The channel laps the watcher, which skips what it missed.
Lag ==
    /\ inbox # <<>>
    /\ inbox' = Tail(inbox)
    /\ lagged' = TRUE
    /\ UNCHANGED <<sessionVars, waits, ready, fired, finished>>

-----------------------------------------------------------------------------
Watching == Drain \/ \E p \in Specs, s \in Sessions : Launch(p, s)

PipelineNext ==
    \/ \E s \in Sessions : Unannounced(s) \/ Finish(s) \/ SetAutonomy(s)
    \/ \E p \in Specs, s \in Sessions : SpawnAfter(p, s)
    \/ Watching
    \/ Lag

PipelineSpec == PipelineInit /\ [][PipelineNext]_vars

\* What the daemon's tasks do for a session without being asked.
Task(s) == \/ (Spawning(s) \/ PollExit(s) \/ PollScreen(s) \/ PollSet(s)) /\ UNCHANGED pipelineVars
           \/ Finish(s)

\* Watcher and tasks go on; humans and children are left to themselves.
PipelineFairness == WF_vars(Watching) /\ \A s \in Sessions : WF_vars(Task(s))

PipelineFairSpec == PipelineSpec /\ PipelineFairness

-----------------------------------------------------------------------------
(***************************************************************************)
(* Properties                                                              *)
(***************************************************************************)

\* "Only once session `after' reaches `Done' [...].  The dependency fires once"
\* (protocol/src/lib.rs:142): a spec gets ready behind a session that was announced as
\* Done, and never a second time, however often the stream shows that.
FiresOnceDone ==
    [][\A p \in ready' \ ready : waits[p] \in finished /\ fired[p] = 0]_vars

NoIdLeft == \A s \in Sessions : spawn[s] # "none"

\* "Once session `after' reaches `Done' (it finishes / its process exits)"
\* (protocol/src/lib.rs:142): a session that a spec waits for and whose child exits
\* starts that spec, unless the session is closed, the watcher lapped, or the bound on
\* ids reached.
ExitStartsPipeline ==
    \A p \in Specs, s \in Sessions :
        waits[p] = s /\ child[s] = "exited" /\ spawn[s] = "listed"
        ~> (fired[p] > 0 /\ p \notin ready) \/ ~Listed(s) \/ lagged \/ NoIdLeft
=============================================================================

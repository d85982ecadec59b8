------------------------------- MODULE Typing --------------------------------
(***************************************************************************)
(* The way of what is typed: from Request::Input through the task of its   *)
(* connection (server.rs, daemon.rs) into the terminal of one session or   *)
(* several (pty.rs), where the primer of a Claude session types too        *)
(* (daemon.rs), and out of it again in the child.                          *)
(*                                                                         *)
(* Text is the write it belongs to and whether it ends with a carriage     *)
(* return.  A write blocks while the terminal's input queue is full, and a *)
(* blocked task keeps the worker thread it runs on.  Children read when    *)
(* they run; the screens of an agent are the three the primer tells apart. *)
(***************************************************************************)
EXTENDS Naturals, Sequences, SequencesExt

CONSTANTS
    Sessions,
    Agents,     \* the Claude sessions among them, spawned with an opening prompt
    Cockpits,
    None,
    Workers,    \* worker threads of the daemon's runtime
    QueueBound, \* pieces that the input queue of a terminal holds
    MaxPolls,   \* bound: rounds of the primer (60 in the code)
    MaxActs     \* bound: what humans and programs do

ASSUME NamesAssumption == /\ Agents \subseteq Sessions
                          /\ Sessions \cap Cockpits = {} /\ None \notin Sessions \cup Cockpits
ASSUME BoundsAssumption == Workers \in Nat \ {0} /\ QueueBound \in Nat \ {0}
                           /\ MaxPolls \in Nat \ {0} /\ MaxActs \in Nat

VARIABLES
    requests,  \* Request: under way to the daemon
    job,       \* the write that the task of a connection, or a primer, is at
    writer,    \* who holds PtySession.writer
    queue,     \* the input queue of a terminal
    line,      \* what the child has read of a line
    child,     \* running, paused or exited
    screen,    \* what an agent shows: its banner, the trust dialog, its prompt
    primer,    \* where the primer of an agent stands
    polls,     \* how often it has looked
    taken,     \* history: agents that have read the opening as a line of its own
    touched,   \* history: agents that were typed into by humans
    acts       \* how many of the MaxActs were done

writeVars == <<job, writer, queue>>
childVars == <<line, child, screen, taken>>
primerVars == <<primer, polls>>
daemonVars == <<writeVars, childVars, primerVars, touched>>
vars == <<requests, daemonVars, acts>>

\* Whoever writes: the task of a connection, or the primer of an agent.
Tasks == Cockpits \cup Agents

Parts == {"key", "text", "cr"}

\* A piece of the n-th write of a task.
Piece == [by : Tasks, n : Nat, part : Parts]

\* A line is written with its carriage return, a key is one piece.
Line == <<"text", "cr">>
Data == {<<"key">>, <<"cr">>, Line}

\* One session, or several: Target::All and AllWorking.
Targets == Sessions \cup {"several"}

Request == [kind : {"Input"}, target : Targets, n : Nat, data : Data]
           \cup [kind : {"Pause", "Resume", "Stop"}, target : Sessions]

Job == [at : Sessions, todo : SUBSET Sessions, n : Nat, data : Data, left : Seq(Parts)]

ASSUME NoneAssumption == None \notin Job

\* What the variables hold; who holds a terminal's lock is writing to it.
TypeOK ==
    /\ requests \in [Cockpits -> Seq(Request)]
    /\ job \in [Tasks -> Job \cup {None}]
    /\ writer \in [Sessions -> Tasks \cup {None}]
    /\ \A s \in Sessions : writer[s] # None => job[writer[s]] # None /\ job[writer[s]].at = s
    /\ queue \in [Sessions -> Seq(Piece)] /\ line \in [Sessions -> Seq(Piece)]
    /\ child \in [Sessions -> {"running", "paused", "exited"}]
    /\ screen \in [Sessions -> {"banner", "dialog", "prompt"}]
    /\ primer \in [Agents -> {"poll", "accept", "type", "typing", "done"}]
    /\ polls \in [Agents -> 0..MaxPolls]
    /\ taken \subseteq Agents /\ touched \subseteq Agents
    /\ acts \in 0..MaxActs

\* The sessions have been spawned, some were paused at once, and nothing was typed.
Init ==
    /\ requests = [c \in Cockpits |-> <<>>]
    /\ job = [t \in Tasks |-> None] /\ writer = [s \in Sessions |-> None]
    /\ queue = [s \in Sessions |-> <<>>] /\ line = [s \in Sessions |-> <<>>]
    /\ child \in [Sessions -> {"running", "paused"}]
    /\ screen = [s \in Sessions |-> IF s \in Agents THEN "banner" ELSE "prompt"]
    /\ primer = [s \in Agents |-> "poll"] /\ polls = [s \in Agents |-> 0]
    /\ taken = {} /\ touched = {} /\ acts = 0

Act == acts < MaxActs /\ acts' = acts + 1

-----------------------------------------------------------------------------
\* Clients

\* A key (encode_key) or a line of the composer is sent as Request::Input.
SendInput(c, target, data) ==
    /\ Act
    /\ requests' = [requests EXCEPT ![c] = Append(@,
          [kind |-> "Input", target |-> target, n |-> acts, data |-> data])]
    /\ UNCHANGED daemonVars

\* Request::Pause, Resume and Stop: clients may send them, no button does yet.
Order(c, kind, s) ==
    /\ Act
    /\ requests' = [requests EXCEPT ![c] = Append(@, [kind |-> kind, target |-> s])]
    /\ UNCHANGED daemonVars

-----------------------------------------------------------------------------
\* The daemon: requests of a connection one after the other, on a worker thread

Busy == {t \in Tasks : job[t] # None}

AWorkerIsFree == Cardinality(Busy) < Workers

\* Registry::resolve_targets: any of the sessions may be Working.
Resolve(target) == IF target = "several" THEN SUBSET Sessions ELSE {{target}}

\* A write begins, at any of the sessions it is for.
Begin(t, targets, n, data) ==
    \E s \in targets :
        job' = [job EXCEPT ![t] = [at |-> s, todo |-> targets \ {s},
                                   n |-> n, data |-> data, left |-> data]]

Take(c, r, targets) ==
    /\ r.kind = "Input" /\ targets \in Resolve(r.target)
    /\ IF targets = {} THEN UNCHANGED job ELSE Begin(c, targets, r.n, r.data)
    /\ touched' = touched \cup (targets \cap Agents)
    /\ UNCHANGED <<writer, queue, childVars, primerVars, acts>>

\* Faulty variant: requests are served in any order.
TakeAny(c) ==
    /\ job[c] = None /\ AWorkerIsFree
    /\ \E i \in DOMAIN requests[c], targets \in SUBSET Sessions :
          /\ Take(c, requests[c][i], targets)
          /\ requests' = [requests EXCEPT ![c] = RemoveAt(@, i)]

\* Request::Input
TakeInput(c) ==
    /\ job[c] = None /\ AWorkerIsFree /\ requests[c] # <<>>
    /\ \E targets \in SUBSET Sessions : Take(c, Head(requests[c]), targets)
    /\ requests' = [requests EXCEPT ![c] = Tail(@)]

\* Daemon::pause, resume and stop.
Obey(c) ==
    /\ job[c] = None /\ AWorkerIsFree
    /\ requests[c] # <<>> /\ Head(requests[c]).kind # "Input"
    /\ LET s == Head(requests[c]).target
           to == [Pause |-> "paused", Resume |-> "running", Stop |-> "exited"]
       IN  child' = IF child[s] = "exited" THEN child
                    ELSE [child EXCEPT ![s] = to[Head(requests[c]).kind]]
    /\ requests' = [requests EXCEPT ![c] = Tail(@)]
    /\ UNCHANGED <<writeVars, line, screen, taken, primerVars, touched, acts>>

-----------------------------------------------------------------------------
\* PtySession::write_input

\* Where a task stands when it has written all to a session, or failed to: the
\* next session's turn, or the end.
Written(t) ==
    /\ writer' = [writer EXCEPT ![job[t].at] = IF @ = t THEN None ELSE @]
    /\ IF job[t].todo = {} THEN job' = [job EXCEPT ![t] = None]
                           ELSE Begin(t, job[t].todo, job[t].n, job[t].data)
    /\ primer' = [s \in Agents |->
          IF s # t THEN primer[s] ELSE IF primer[s] = "accept" THEN "type" ELSE "done"]

\* A piece goes into the terminal when there is room.
Append1(t) ==
    LET s == job[t].at
    IN  /\ child[s] # "exited" /\ Len(queue[s]) < QueueBound
        /\ queue' = [queue EXCEPT ![s] =
              Append(@, [by |-> t, n |-> job[t].n, part |-> Head(job[t].left)])]
        /\ IF Len(job[t].left) = 1 THEN Written(t)
           ELSE /\ job' = [job EXCEPT ![t].left = Tail(@)]
                /\ writer' = [writer EXCEPT ![s] = t]
                /\ UNCHANGED primer

\* Faulty variant: each piece is written without regard to the lock.
PutUnlocked(t) ==
    /\ job[t] # None
    /\ Append1(t)
    /\ UNCHANGED <<requests, childVars, polls, touched, acts>>

\* write_all under the lock of the writer, which is given back at the end.
Put(t) ==
    /\ job[t] # None /\ writer[job[t].at] \in {None, t}
    /\ Append1(t)
    /\ UNCHANGED <<requests, childVars, polls, touched, acts>>

\* Faulty variant: an error ends the task with the lock in its hands.
FailHolding(t) ==
    /\ job[t] # None /\ writer[job[t].at] \in {None, t} /\ child[job[t].at] = "exited"
    /\ job' = [job EXCEPT ![t] = None]
    /\ UNCHANGED <<requests, writer, queue, childVars, primerVars, touched, acts>>

\* The child is gone: the rest is not written, and the next session's turn comes.
Fail(t) ==
    /\ job[t] # None /\ writer[job[t].at] \in {None, t} /\ child[job[t].at] = "exited"
    /\ Written(t)
    /\ UNCHANGED <<requests, queue, childVars, polls, touched, acts>>

-----------------------------------------------------------------------------
\* The primer of an agent

\* Faulty variant: a screen that is not empty is ready.
LookOnce(s) ==
    /\ primer[s] = "poll" /\ AWorkerIsFree
    /\ primer' = [primer EXCEPT ![s] = "type"]
    /\ UNCHANGED <<requests, writeVars, childVars, polls, touched, acts>>

\* A round: the trust dialog is accepted with Enter, the prompt means ready, and
\* so do MaxPolls rounds without either.
Look(s) ==
    /\ primer[s] = "poll" /\ AWorkerIsFree
    /\ CASE screen[s] = "dialog" -> /\ Begin(s, {s}, 0, <<"cr">>)
                                    /\ primer' = [primer EXCEPT ![s] = "accept"]
                                    /\ UNCHANGED polls
         [] screen[s] = "prompt" -> /\ primer' = [primer EXCEPT ![s] = "type"]
                                    /\ UNCHANGED <<job, polls>>
         [] screen[s] = "banner" -> /\ polls' = [polls EXCEPT ![s] = @ + 1]
                                    /\ primer' = IF polls'[s] < MaxPolls THEN primer
                                                 ELSE [primer EXCEPT ![s] = "type"]
                                    /\ UNCHANGED job
    /\ UNCHANGED <<requests, writer, queue, childVars, touched, acts>>

\* The opening prompt is written.
Type(s) ==
    /\ primer[s] = "type" /\ AWorkerIsFree
    /\ Begin(s, {s}, 1, Line)
    /\ primer' = [primer EXCEPT ![s] = "typing"]
    /\ UNCHANGED <<requests, writer, queue, childVars, polls, touched, acts>>

-----------------------------------------------------------------------------
\* The child

\* An agent has started: in a new folder it asks for trust.
Show(s) ==
    /\ child[s] = "running" /\ screen[s] = "banner"
    /\ \E x \in {"dialog", "prompt"} : screen' = [screen EXCEPT ![s] = x]
    /\ UNCHANGED <<requests, writeVars, line, child, taken>>
    /\ UNCHANGED <<primerVars, touched, acts>>

Opening(s) == [by |-> s, n |-> 1, part |-> "text"]

\* It reads a piece.  The dialog takes Enter for a yes and swallows the rest.
Read(s) ==
    /\ child[s] = "running" /\ screen[s] # "banner" /\ queue[s] # <<>>
    /\ queue' = [queue EXCEPT ![s] = Tail(@)]
    /\ LET p == Head(queue[s])
       IN  IF screen[s] = "dialog"
           THEN /\ screen' = IF p.part = "cr" THEN [screen EXCEPT ![s] = "prompt"] ELSE screen
                /\ UNCHANGED <<line, taken>>
           ELSE /\ line' = [line EXCEPT ![s] = IF p.part = "cr" THEN <<>> ELSE Append(@, p)]
                /\ taken' = IF p.part = "cr" /\ line[s] = <<Opening(s)>>
                            THEN taken \cup {s} ELSE taken
                /\ UNCHANGED screen
    /\ UNCHANGED <<requests, job, writer, child, primerVars, touched, acts>>

-----------------------------------------------------------------------------
Writing(t) == Put(t) \/ Fail(t)
Serve(c) == TakeInput(c) \/ Obey(c) \/ Writing(c)
Prime(s) == Look(s) \/ Type(s) \/ Writing(s)

Next ==
    \/ \E c \in Cockpits :
          \/ \E target \in Targets, data \in Data : SendInput(c, target, data)
          \/ \E kind \in {"Pause", "Resume", "Stop"}, s \in Sessions : Order(c, kind, s)
          \/ Serve(c)
    \/ \E s \in Agents : Prime(s)
    \/ \E s \in Sessions : Show(s) \/ Read(s)

Spec == Init /\ [][Next]_vars

\* Tasks go on when there is a worker for them, and a child that runs gets ready and
\* reads.
FairSpec ==
    /\ Spec
    /\ \A c \in Cockpits : WF_vars(Serve(c))
    /\ \A s \in Agents : WF_vars(Prime(s))
    /\ \A s \in Sessions : WF_vars(Show(s)) /\ WF_vars(Read(s))

-----------------------------------------------------------------------------
(***************************************************************************)
(* Properties                                                              *)
(***************************************************************************)

\* The last piece of the line that the child is at, and what is there for it.
Stream(s) == (IF line[s] = <<>> THEN <<>> ELSE <<line[s][Len(line[s])]>>) \o queue[s]

\* Composer lines and prompts are written under the writer's lock: whatever others
\* type at that moment, the text is followed by its own carriage return.
LinesStayWhole ==
    \A s \in Sessions : \A i \in 1..(Len(Stream(s)) - 1) :
        Stream(s)[i].part = "text" => Stream(s)[i + 1] = [Stream(s)[i] EXCEPT !.part = "cr"]

\* What a cockpit types into a session gets there in the order it was typed in,
\* through channel, socket, task and terminal: of the Inputs on their way, the ones in
\* the terminal precede the one that is being written, and that one those to come.
TypedInOrder ==
    \A c \in Cockpits, s \in Sessions :
        LET typed == {i \in DOMAIN queue[s] : queue[s][i].by = c}
            writing == IF job[c] # None /\ job[c].left # <<>> /\ job[c].at = s
                       THEN {job[c].n} ELSE {}
            sent == {i \in DOMAIN requests[c] : requests[c][i].kind = "Input"
                                                /\ requests[c][i].target = s}
        IN  /\ \A i, j \in typed : i < j => queue[s][i].n <= queue[s][j].n
            /\ \A i, j \in sent : i < j => requests[c][i].n <= requests[c][j].n
            /\ \A i \in typed, n \in writing : queue[s][i].n <= n
            /\ \A i \in typed, j \in sent : queue[s][i].n <= requests[c][j].n
            /\ \A n \in writing, j \in sent : n <= requests[c][j].n

\* "wait for it to render, accept the trust dialog [...], then send the prompt"
\* (daemon.rs:257): an agent gets its opening prompt as a line of its own, unless a
\* human typed into it meanwhile, or the dialog came after the last round.
OpeningIsTaken ==
    \A s \in Agents :
        primer[s] = "done" /\ child[s] # "exited"
        /\ (\A i \in DOMAIN Stream(s) : Stream(s)[i].by # s) =>
            s \in taken \/ s \in touched \/ polls[s] = MaxPolls

\* A task that waits for room in the terminal of a child that does not read.
Stuck(t) == /\ job[t] # None /\ job[t].left # <<>>
            /\ child[job[t].at] = "paused"


=============================================================================

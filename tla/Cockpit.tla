------------------------------- MODULE Cockpit -------------------------------
(***************************************************************************)
(* What the terminal pane of the cockpit shows: FleetTermApp's focus and   *)
(* its grids (fleetterm main.rs), against the daemon's `watched' session,  *)
(* the task that pushes the grid of a session every 80 ms and the requests *)
(* that ask for one (daemon.rs, pty.rs).                                   *)
(*                                                                         *)
(* Both ways between them are queues in order: the broadcast channel with  *)
(* its forwarder and socket, and the request channel with its socket.      *)
(* That a receiver can be lapped or subscribe late is EventStream's.  Of   *)
(* what a terminal shows only this is kept: whether the text has changed   *)
(* since a snapshot of it was taken.                                       *)
(***************************************************************************)
EXTENDS Naturals, Sequences, FiniteSetsExt

CONSTANTS
    Sessions,   \* ids Registry::alloc_id hands out, counted from 1
    MaxActs     \* bound: what humans, programs and hooks do in a behaviour

ASSUME SessionsAssumption == Sessions \subseteq Nat \ {0}
ASSUME MaxActsAssumption == MaxActs \in Nat

VARIABLES
    listed,     \* Registry.sessions
    ptys,       \* Daemon.ptys
    closing,    \* where Daemon::close stands for an id
    task,       \* the grid task of a session: none, the spawn steps before it
                \* ("child", "pty"), asleep, about to push a snapshot that
                \* is "current" or "stale", off
    fresh,      \* whether the text on the screen differs from the task's last_sig
    watched,    \* Daemon.watched
    requests,   \* Request::RequestGrid: sessions, under way to the daemon
    events,     \* Event: under way to the cockpit
    cards,      \* FleetTermApp.sessions
    focused,    \* FleetTermApp.focused
    grids,      \* FleetTermApp.grids: none, current or stale
    late,       \* history: sessions with an Output or Grid sent while not listed
    relisted,   \* history: sessions that were gone and are listed again
    missed,     \* history: sessions with a request handled while they had no PTY
    acts        \* how many of the MaxActs were done

daemonVars == <<listed, ptys, closing, task, fresh, watched>>
appVars == <<cards, focused, grids>>
vars == <<daemonVars, requests, events, appVars, late, relisted, missed, acts>>

None == 0

Event == [kind : {"Snapshot"}, sessions : SUBSET Sessions]
         \cup [kind : {"SessionUpdate", "SessionRemoved", "Output"}, session : Sessions]
         \cup [kind : {"Grid"}, session : Sessions, shows : {"current", "stale"}]

\* What the variables hold; no request and no push is for nobody.
TypeOK ==
    /\ listed \subseteq Sessions /\ ptys \subseteq Sessions
    /\ closing \in [Sessions -> {"no", "watched", "unlist"}]
    /\ task \in [Sessions -> {"none", "child", "pty", "asleep",
                              "current", "stale", "off"}]
    /\ fresh \in [Sessions -> BOOLEAN]
    /\ watched \in Sessions \cup {None}
    /\ requests \in Seq(Sessions) /\ events \in Seq(Event)
    /\ cards \subseteq Sessions /\ focused \in Sessions \cup {None}
    /\ grids \in [Sessions -> {"none", "current", "stale"}]
    /\ late \subseteq Sessions /\ relisted \subseteq Sessions /\ missed \subseteq Sessions
    /\ acts \in 0..MaxActs

\* The cockpit starts, subscribes and gets the sessions there are.
Init == \E old \in SUBSET Sessions :
    /\ listed = old /\ ptys = old
    /\ closing = [s \in Sessions |-> "no"]
    /\ task = [s \in Sessions |-> IF s \in old THEN "asleep" ELSE "none"]
    /\ fresh = [s \in Sessions |-> s \notin old]
    /\ watched = None
    /\ requests = <<>>
    /\ events = <<[kind |-> "Snapshot", sessions |-> old]>>
    /\ cards = {} /\ focused = None
    /\ grids = [s \in Sessions |-> "none"]
    /\ late = {} /\ relisted = {} /\ missed = {} /\ acts = 0

Act == acts < MaxActs /\ acts' = acts + 1

\* The lowest id: the first key of a BTreeMap.
First(S) == IF S = {} THEN None ELSE Min(S)

Emit(s, e) ==
    /\ events' = Append(events, e)
    /\ late' = IF e.kind \in {"Output", "Grid"} /\ s \notin listed
               THEN late \cup {s} ELSE late

EmitGrid(s, shows) == Emit(s, [kind |-> "Grid", session |-> s, shows |-> shows])

-----------------------------------------------------------------------------
\* Sessions come, print and go

\* PtySession::spawn: the reader thread runs before the session has a PTY entry.
Start(s) ==
    /\ Act /\ task[s] = "none" /\ \A t \in Sessions : t < s => task[t] # "none"
    /\ task' = [task EXCEPT ![s] = "child"]
    /\ UNCHANGED <<listed, ptys, closing, fresh, watched>>
    /\ UNCHANGED <<requests, events, appVars, late, relisted, missed>>

AddPty(s) ==
    /\ task[s] = "child"
    /\ task' = [task EXCEPT ![s] = "pty"]
    /\ ptys' = ptys \cup {s}
    /\ UNCHANGED <<listed, closing, fresh, watched>>
    /\ UNCHANGED <<requests, events, appVars, late, relisted, missed, acts>>

\* Registry::insert, then the grid task is started.
List(s) ==
    /\ task[s] = "pty"
    /\ task' = [task EXCEPT ![s] = "asleep"]
    /\ listed' = listed \cup {s}
    /\ Emit(s, [kind |-> "SessionUpdate", session |-> s])
    /\ UNCHANGED <<ptys, closing, fresh, watched>>
    /\ UNCHANGED <<requests, appVars, relisted, missed, acts>>

\* Output changes the text on the screen, and every snapshot of it is old now.
\* What a killed child has written is read after the close as well.
Output(s) ==
    LET Old(x) == IF x = "current" THEN "stale" ELSE x
        AllOld == [i \in DOMAIN events |->
                      IF events[i].kind = "Grid" /\ events[i].session = s
                      THEN [events[i] EXCEPT !.shows = "stale"] ELSE events[i]]
    IN  /\ Act /\ task[s] # "none"
        /\ fresh' = [fresh EXCEPT ![s] = TRUE]
        /\ task' = [task EXCEPT ![s] = Old(@)]
        /\ grids' = [grids EXCEPT ![s] = Old(@)]
        /\ events' = Append(AllOld, [kind |-> "Output", session |-> s])
        /\ late' = IF s \in listed THEN late ELSE late \cup {s}
        /\ UNCHANGED <<listed, ptys, closing, watched>>
        /\ UNCHANGED <<requests, cards, focused, relisted, missed>>

\* A SessionEnd hook: Registry::remove and nothing else.
SessionEnd(s) ==
    /\ Act /\ s \in listed
    /\ listed' = listed \ {s}
    /\ Emit(s, [kind |-> "SessionRemoved", session |-> s])
    /\ UNCHANGED <<ptys, closing, task, fresh, watched>>
    /\ UNCHANGED <<requests, appVars, relisted, missed>>

\* Any other hook of a session that is gone: Registry::ensure lists it again,
\* and the update that the handler ends with tells the cockpit.
LateHook(s) ==
    /\ Act /\ s \notin listed /\ task[s] \notin {"none", "child", "pty"}
    /\ listed' = listed \cup {s}
    /\ relisted' = relisted \cup {s}
    /\ Emit(s, [kind |-> "SessionUpdate", session |-> s])
    /\ UNCHANGED <<ptys, closing, task, fresh, watched>>
    /\ UNCHANGED <<requests, appVars, missed>>

\* Daemon::close, for another client: the PTY entry, the watch, the registry.  It
\* takes what there is: a spawn that is not over goes on, and lists the session.
ClosePty(s) ==
    /\ Act /\ task[s] # "none" /\ closing[s] = "no"
    /\ ptys' = ptys \ {s}
    /\ closing' = [closing EXCEPT ![s] = "watched"]
    /\ UNCHANGED <<listed, task, fresh, watched>>
    /\ UNCHANGED <<requests, events, appVars, late, relisted, missed>>

CloseWatched(s) ==
    /\ closing[s] = "watched"
    /\ watched' = IF watched = s THEN None ELSE watched
    /\ closing' = [closing EXCEPT ![s] = "unlist"]
    /\ UNCHANGED <<listed, ptys, task, fresh>>
    /\ UNCHANGED <<requests, events, appVars, late, relisted, missed, acts>>

Unlist(s) ==
    /\ closing[s] = "unlist"
    /\ closing' = [closing EXCEPT ![s] = "no"]
    /\ listed' = listed \ {s}
    /\ Emit(s, [kind |-> "SessionRemoved", session |-> s])
    /\ UNCHANGED <<ptys, task, fresh, watched>>
    /\ UNCHANGED <<requests, appVars, relisted, missed, acts>>

-----------------------------------------------------------------------------
\* The grid task of a session.  Its rounds are 80 ms apart, in which what is under
\* way for the session arrives: Drained bounds the messages by that.

Drained(s) ==
    /\ \A i \in DOMAIN events : events[i].kind = "Grid" => events[i].session # s
    /\ \A i \in DOMAIN requests : requests[i] # s

\* Faulty variant: only the watched session is pushed.
LookIfWatched(s) ==
    /\ task[s] = "asleep" /\ Drained(s)
    /\ IF s \notin listed
       THEN task' = [task EXCEPT ![s] = "off"] /\ UNCHANGED fresh
       ELSE /\ watched = s
            /\ task' = [task EXCEPT ![s] = "current"]
            /\ fresh' = [fresh EXCEPT ![s] = FALSE]
    /\ UNCHANGED <<listed, ptys, closing, watched>>
    /\ UNCHANGED <<requests, events, appVars, late, relisted, missed, acts>>

\* The task ends if the session is gone, and takes a snapshot if it is watched
\* or its text has changed.
Look(s) ==
    /\ task[s] = "asleep" /\ Drained(s)
    /\ IF s \notin listed
       THEN task' = [task EXCEPT ![s] = "off"] /\ UNCHANGED fresh
       ELSE /\ watched = s \/ fresh[s]
            /\ task' = [task EXCEPT ![s] = "current"]
            /\ fresh' = [fresh EXCEPT ![s] = FALSE]
    /\ UNCHANGED <<listed, ptys, closing, watched>>
    /\ UNCHANGED <<requests, events, appVars, late, relisted, missed, acts>>

Push(s) ==
    /\ task[s] \in {"current", "stale"}
    /\ EmitGrid(s, task[s])
    /\ task' = [task EXCEPT ![s] = "asleep"]
    /\ UNCHANGED <<listed, ptys, closing, fresh, watched>>
    /\ UNCHANGED <<requests, appVars, relisted, missed, acts>>

-----------------------------------------------------------------------------
\* Daemon::request_grid, for the requests of the cockpit one after the other: the
\* watch, and a grid if the session has a PTY.  Nothing that could happen in
\* between would show.
RequestGrid ==
    /\ requests # <<>>
    /\ requests' = Tail(requests)
    /\ watched' = Head(requests)
    /\ IF Head(requests) \in ptys
       THEN EmitGrid(Head(requests), "current") /\ UNCHANGED missed
       ELSE missed' = missed \cup {Head(requests)} /\ UNCHANGED <<events, late>>
    /\ UNCHANGED <<listed, ptys, closing, task, fresh, appVars, relisted, acts>>

-----------------------------------------------------------------------------
\* The cockpit

Ask(s) == requests' = Append(requests, s)

\* Faulty variant: a session that goes keeps the focus.
FocusStays(e) ==
    CASE e.kind = "Snapshot" -> IF focused = None THEN First(e.sessions) ELSE focused
      [] e.kind \in {"SessionUpdate", "SessionRemoved"} -> focused
      [] e.kind = "Output" -> IF focused = None THEN e.session ELSE focused
      [] e.kind = "Grid" -> e.session

\* Where an event takes the focus.
FocusAfter(e) ==
    CASE e.kind = "Snapshot" -> IF focused = None THEN First(e.sessions) ELSE focused
      [] e.kind = "SessionUpdate" -> focused
      [] e.kind = "SessionRemoved" ->
            IF focused = e.session THEN First(cards \ {e.session}) ELSE focused
      [] e.kind = "Output" -> IF focused = None THEN e.session ELSE focused
      [] e.kind = "Grid" -> e.session

\* Faulty variant: a request for no session.
AskForAny(f) == IF f = focused THEN UNCHANGED requests ELSE Ask(f)

\* A new focus asks for its grid.
AskFor(f) == IF f \in {focused, None} THEN UNCHANGED requests ELSE Ask(f)

Apply ==
    /\ events # <<>>
    /\ events' = Tail(events)
    /\ LET e == Head(events) IN
          /\ cards' = CASE e.kind = "Snapshot" -> e.sessions
                        [] e.kind = "SessionUpdate" -> cards \cup {e.session}
                        [] e.kind = "SessionRemoved" -> cards \ {e.session}
                        [] OTHER -> cards
          /\ grids' = CASE e.kind = "Grid" -> [grids EXCEPT ![e.session] = e.shows]
                        [] e.kind = "SessionRemoved" -> [grids EXCEPT ![e.session] = "none"]
                        [] OTHER -> grids
          /\ focused' = FocusAfter(e)
    /\ AskFor(focused')
    /\ UNCHANGED <<daemonVars, late, relisted, missed, acts>>

\* Faulty variant: the focus moves and nobody is asked for the grid.
ClickSilently(s) ==
    /\ Act /\ s \in cards
    /\ focused' = s
    /\ UNCHANGED <<daemonVars, requests, events, cards, grids, late, relisted, missed>>

\* A click on a card.
Click(s) ==
    /\ Act /\ s \in cards
    /\ focused' = s
    /\ Ask(s)
    /\ UNCHANGED <<daemonVars, events, cards, grids, late, relisted, missed>>

\* Enter in the palette: the first card with the query in its name, any of them.
Jump == \E s \in Sessions : Click(s)

\* A click on a tile, which leaves the focus to the grid that comes.
ClickTile(s) ==
    /\ Act /\ s \in cards
    /\ Ask(s)
    /\ UNCHANGED <<daemonVars, events, appVars, late, relisted, missed>>

\* The mouse wheel: Daemon::scroll ends in request_grid.
Scroll ==
    /\ Act /\ focused # None
    /\ Ask(focused)
    /\ UNCHANGED <<daemonVars, events, appVars, late, relisted, missed>>

-----------------------------------------------------------------------------
Spawning(s) == AddPty(s) \/ List(s)
Pushing(s) == Look(s) \/ Push(s)
Closing(s) == CloseWatched(s) \/ Unlist(s)

\* What is up to humans, programs and hooks.
Outside == \/ Scroll \/ Jump
           \/ \E s \in Sessions : \/ Start(s) \/ Output(s) \/ SessionEnd(s) \/ LateHook(s)
                                  \/ ClosePty(s) \/ Click(s) \/ ClickTile(s)

Next == \/ Outside \/ RequestGrid \/ Apply
        \/ \E s \in Sessions : Spawning(s) \/ Pushing(s) \/ Closing(s)

Spec == Init /\ [][Next]_vars

\* The tasks of the daemon and the event loop of the cockpit go on.
FairSpec ==
    /\ Spec
    /\ WF_vars(RequestGrid) /\ WF_vars(Apply)
    /\ \A s \in Sessions :
          WF_vars(Spawning(s)) /\ WF_vars(Pushing(s)) /\ WF_vars(Closing(s))

-----------------------------------------------------------------------------
(***************************************************************************)
(* Properties                                                              *)
(***************************************************************************)

\* Nothing is under way between the cockpit and the daemon.
Quiet ==
    /\ events = <<>> /\ requests = <<>>
    /\ \A s \in Sessions : closing[s] = "no" /\ task[s] \notin {"child", "pty"}

\* Once nothing is under way, the pane is on a session that is listed; the one
\* exception is a session of which output or a grid was sent when it was gone.
FocusIsListed ==
    Quiet /\ focused # None => focused \in listed \cup late

\* Once nothing is under way, the session the daemon takes for the one a UI is
\* viewing is the one in the pane, unless a request came for a session without
\* a PTY, which watches it (or its close forgets it) and answers nothing.
PaneIsWatched ==
    Quiet /\ focused # None =>
        \/ watched = focused
        \/ missed # {} /\ watched \in missed \cup {None}

\* Text that changes on a screen gets to the cockpit, for the pane and for the
\* tiles, and so does the screen of the session in the pane.  Two exceptions: a
\* session that is listed again after it was gone may have no grid task any more;
\* and one that was silent since before the cockpit connected has no grid there.
GridsCatchUp == \A s \in Sessions :
    s \in listed /\ (fresh[s] \/ focused = s)
        ~> grids[s] = "current" \/ s \notin listed \/ s \in relisted

\* "clicking a sidebar card ... will both fetch the grid and switch the terminal
\* pane to that session" (main.rs:248): when humans, programs and hooks are done,
\* the pane comes to rest.
FocusSettles == <>[][focused' = focused]_vars
=============================================================================

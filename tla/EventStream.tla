---------------------------- MODULE EventStream -----------------------------
(***************************************************************************)
(* How the cockpit learns what the registry knows: Registry methods change *)
(* the map under its lock and emit an event after the unlock (registry.rs),*)
(* the events go through one bounded broadcast channel, and handle_conn    *)
(* sends a snapshot and forwards what its receiver gives it (server.rs) to *)
(* a UI that keeps a copy of the fleet (client.rs, fleetterm main.rs).     *)
(*                                                                         *)
(* What is in a session does not matter here, only which change of it one  *)
(* looks at: an entry is a version number, raised by every change, and     *)
(* whether the session is listed.  Output, Grid and Block events take up   *)
(* room in the channel and nothing else, so they are left out; the small   *)
(* Capacity of an instance stands for the room they leave.                 *)
(***************************************************************************)
EXTENDS Naturals, Sequences, FiniteSets

CONSTANTS
    Sessions,
    Writers,    \* tasks that call the methods of the registry
    Clients,    \* UI connections
    Capacity,   \* of the broadcast channel (2048 in Registry::new)
    MaxEvents,  \* bound: the events emitted in a behaviour
    NoEvent

ASSUME CapacityAssumption == Capacity \in Nat \ {0}
ASSUME MaxEventsAssumption == MaxEvents \in Nat

VARIABLES
    registry,   \* Inner.sessions: version of an entry and whether it is listed
    held,       \* the event a writer has made and not yet emitted
    sent,       \* every event sent on Registry.events, the oldest first
    crossed,    \* history: sessions that two writers changed at the same time
    conn,       \* where handle_conn and its forwarder stand for a client
    snapshot,   \* the Event::Snapshot handle_conn has taken for a client
    cursor,     \* how many events the receiver of a client is past
    view,       \* FleetTermApp.sessions of a client
    missed      \* history: events that never reach a client

registryVars == <<registry, held, sent, crossed>>
clientVars == <<conn, snapshot, cursor, view, missed>>
vars == <<registryVars, clientVars>>

Entry == [ver : Nat, listed : BOOLEAN]
Fleet == [Sessions -> Entry]
NoFleet == [s \in Sessions |-> [ver |-> 0, listed |-> FALSE]]

\* SessionUpdate or SessionRemoved, and which change it tells.
Event == [session : Sessions, ver : Nat, listed : BOOLEAN]

ASSUME NoEventAssumption == NoEvent \notin Event

\* What the variables hold; a receiver is never past the newest event.
TypeOK ==
    /\ registry \in Fleet
    /\ held \in [Writers -> Event \cup {NoEvent}]
    /\ sent \in Seq(Event)
    /\ crossed \subseteq Sessions
    /\ conn \in [Clients -> {"connected", "snapshot", "written", "following"}]
    /\ snapshot \in [Clients -> Fleet]
    /\ cursor \in [Clients -> 0..Len(sent)]
    /\ view \in [Clients -> Fleet]
    /\ missed \in [Clients -> SUBSET Event]

Init ==
    /\ registry = NoFleet
    /\ held = [w \in Writers |-> NoEvent]
    /\ sent = <<>>
    /\ crossed = {}
    /\ conn = [u \in Clients |-> "connected"]
    /\ snapshot = [u \in Clients |-> NoFleet]
    /\ cursor = [u \in Clients |-> 0]
    /\ view = [u \in Clients |-> NoFleet]
    /\ missed = [u \in Clients |-> {}]

-----------------------------------------------------------------------------
\* The registry

\* Events that are made or sent, which MaxEvents bounds.
Made == Len(sent) + Cardinality({w \in Writers : held[w] # NoEvent})

\* Under the lock: the entry changes and the event that tells it is made.
Change(w, s, listed) ==
    LET entry == [ver |-> registry[s].ver + 1, listed |-> listed]
    IN  /\ held[w] = NoEvent /\ Made < MaxEvents
        /\ registry' = [registry EXCEPT ![s] = entry]
        /\ held' = [held EXCEPT ![w] =
              [session |-> s, ver |-> entry.ver, listed |-> listed]]
        /\ crossed' = IF \E x \in Writers : held[x] # NoEvent /\ held[x].session = s
                      THEN crossed \cup {s} ELSE crossed
        /\ UNCHANGED <<sent, clientVars>>

\* Registry::insert, new or replacing an entry.
Insert(w, s) == Change(w, s, TRUE)

\* Registry::set_state, set_autonomy, set_cost: nothing for an unknown id.
\* (An entry that Registry::ensure makes is followed by one of them or by a
\* remove in the same handler, so its listing is told with that change.)
Update(w, s) == registry[s].listed /\ Change(w, s, TRUE)

\* Registry::remove, which tells about an unknown id as well.
Remove(w, s) == Change(w, s, FALSE)

\* Registry::emit, after the unlock.
Emit(w) ==
    /\ held[w] # NoEvent
    /\ sent' = Append(sent, held[w])
    /\ held' = [held EXCEPT ![w] = NoEvent]
    /\ UNCHANGED <<registry, crossed, clientVars>>

-----------------------------------------------------------------------------
\* A UI connection

\* Request::Subscribe: the snapshot is taken,
TakeSnapshot(u) ==
    /\ conn[u] = "connected"
    /\ conn' = [conn EXCEPT ![u] = "snapshot"]
    /\ snapshot' = [snapshot EXCEPT ![u] = registry]
    /\ cursor' = [cursor EXCEPT ![u] = Len(sent)]
    /\ UNCHANGED <<registryVars, view, missed>>

\* written, and applied by the UI,
WriteSnapshot(u) ==
    /\ conn[u] = "snapshot"
    /\ conn' = [conn EXCEPT ![u] = "written"]
    /\ view' = [view EXCEPT ![u] = snapshot[u]]
    /\ UNCHANGED <<registryVars, snapshot, cursor, missed>>

\* The events of positions i+1..j that say more than the fleet f does.
News(f, i, j) == {e \in {sent[n] : n \in i+1..j} : e.ver > f[e.session].ver}

\* Faulty variant: the receiver starts behind the event to come.
FollowNext(u) ==
    /\ conn[u] = "written"
    /\ conn' = [conn EXCEPT ![u] = "following"]
    /\ cursor' = [cursor EXCEPT ![u] = Len(sent) + 1]
    /\ missed' = [missed EXCEPT ![u] = News(snapshot[u], cursor[u], Len(sent))]
    /\ UNCHANGED <<registryVars, snapshot, view>>

\* Faulty variant: the receiver starts at the oldest event the channel has.
FollowOldest(u) ==
    /\ conn[u] = "written"
    /\ conn' = [conn EXCEPT ![u] = "following"]
    /\ cursor' = [cursor EXCEPT ![u] =
          IF Len(sent) > Capacity THEN Len(sent) - Capacity ELSE 0]
    /\ UNCHANGED <<registryVars, snapshot, view, missed>>

\* and only then a receiver is made, which gets what is sent from now on.
Follow(u) ==
    /\ conn[u] = "written"
    /\ conn' = [conn EXCEPT ![u] = "following"]
    /\ cursor' = [cursor EXCEPT ![u] = Len(sent)]
    /\ missed' = [missed EXCEPT ![u] = News(snapshot[u], cursor[u], Len(sent))]
    /\ UNCHANGED <<registryVars, snapshot, view>>

Lagging(u) == Len(sent) - cursor[u] > Capacity

\* Faulty variant: SessionRemoved takes a session that is shown out for good.
ForwardKeepsRemoved(u) ==
    LET e == sent[cursor[u] + 1]
    IN  /\ conn[u] = "following" /\ cursor[u] < Len(sent) /\ ~Lagging(u)
        /\ cursor' = [cursor EXCEPT ![u] = @ + 1]
        /\ view' = IF e.listed \/ ~view[u][e.session].listed
                   THEN [view EXCEPT ![u][e.session] = [ver |-> e.ver, listed |-> e.listed]]
                   ELSE [view EXCEPT ![u][e.session].ver = e.ver]
        /\ UNCHANGED <<registryVars, conn, snapshot, missed>>

\* The forwarder receives an event and writes it; FleetTermApp::apply puts the
\* session in, replaces it or takes it out.
Forward(u) ==
    LET e == sent[cursor[u] + 1]
    IN  /\ conn[u] = "following" /\ cursor[u] < Len(sent) /\ ~Lagging(u)
        /\ cursor' = [cursor EXCEPT ![u] = @ + 1]
        /\ view' = [view EXCEPT ![u][e.session] = [ver |-> e.ver, listed |-> e.listed]]
        /\ UNCHANGED <<registryVars, conn, snapshot, missed>>

\* Faulty variant: the receiver is left where it was.
SkipStays(u) ==
    /\ conn[u] = "following" /\ Lagging(u)
    /\ UNCHANGED vars

\* RecvError::Lagged: the receiver goes on with the oldest event there still is.
Skip(u) ==
    LET oldest == Len(sent) - Capacity
    IN  /\ conn[u] = "following" /\ Lagging(u)
        /\ cursor' = [cursor EXCEPT ![u] = oldest]
        /\ missed' = [missed EXCEPT ![u] = @ \cup News(view[u], cursor[u], oldest)]
        /\ UNCHANGED <<registryVars, conn, snapshot, view>>

-----------------------------------------------------------------------------
Serve(u) == TakeSnapshot(u) \/ WriteSnapshot(u) \/ Follow(u) \/ Forward(u) \/ Skip(u)

Next ==
    \/ \E w \in Writers, s \in Sessions : Insert(w, s) \/ Update(w, s) \/ Remove(w, s)
    \/ \E w \in Writers : Emit(w)
    \/ \E u \in Clients : Serve(u)

Spec == Init /\ [][Next]_vars

\* The tasks of the daemon run; nobody has to change anything.
FairSpec == Spec /\ (\A w \in Writers : WF_vars(Emit(w)))
                 /\ (\A u \in Clients : WF_vars(Serve(u)))

-----------------------------------------------------------------------------
(***************************************************************************)
(* Properties                                                              *)
(***************************************************************************)

\* Nothing is on its way to client u.
Quiet(u) == /\ \A w \in Writers : held[w] = NoEvent
            /\ conn[u] = "following" /\ cursor[u] = Len(sent)

\* The events about s were sent in the order of the changes they tell.
InOrder(s) == \A i, j \in 1..Len(sent) :
                i < j /\ sent[i].session = s /\ sent[j].session = s
                => sent[i].ver < sent[j].ver

Lost(u, s) == \E e \in missed[u] : e.session = s

\* What the cockpit shows is what the registry has once nothing is on its way,
\* for every session, except where an event fell into the gap between snapshot
\* and receiver, was skipped by a lagging receiver, or crossed another one
\* between unlock and emit: there is no fourth way to get out of step.
QuietViewIsFleet ==
    \A u \in Clients, s \in Sessions :
        Quiet(u) /\ ~Lost(u, s) /\ InOrder(s) => view[u][s] = registry[s]

\* The cockpit never shows an older state of a session after a newer one, unless
\* two writers of that session were between unlock and emit at the same time.
ViewMovesForward ==
    [][\A u \in Clients, s \in Sessions \ crossed :
         view'[u][s].ver >= view[u][s].ver]_vars

\* Whoever subscribes is served up to the newest event, lagging or not.
SubscriberCatchesUp ==
    \A u \in Clients : <>[](conn[u] = "following" /\ cursor[u] = Len(sent))
=============================================================================

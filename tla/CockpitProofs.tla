----------------------------- MODULE CockpitProofs -----------------------------
(***************************************************************************)
(* Proofs about Cockpit, for any sessions and any number of acts: the      *)
(* types, that the pane comes to a session that is there, and that the     *)
(* daemon watches the session in the pane, but for the named crossings.    *)
(***************************************************************************)
EXTENDS Cockpit, SequenceTheorems, WellFoundedInduction, TLAPS

-----------------------------------------------------------------------------
(***************************************************************************)
(* The inductive invariant                                                 *)
(***************************************************************************)

Removal(s) == [kind |-> "SessionRemoved", session |-> s]

\* Behind the i-th event it is told that a session has gone.
Told(s, i) == \E j \in i + 1..Len(events) : events[j] = Removal(s)

\* The sessions that an event gives a card, or the focus.
Names(e) == CASE e.kind = "Snapshot" -> e.sessions
              [] e.kind = "SessionRemoved" -> {}
              [] OTHER -> {e.session}

\* Whatever the cockpit knows of, or will hear of, is listed, or it will hear
\* afterwards that it has gone; output and grids of a session that had gone by then are
\* the exception.
EventsTell == \A i \in 1..Len(events) : \A s \in Names(events[i]) :
                  \/ s \in listed \/ Told(s, i)
                  \/ events[i].kind \in {"Output", "Grid"} /\ s \in late
CardsTell == \A s \in cards : s \in listed \/ Told(s, 0)
FocusTells == focused # None => focused \in listed \cup late \/ Told(focused, 0)

\* An event on its way takes the focus elsewhere.
WillMove == \E i \in 1..Len(events) :
                \/ events[i].kind = "Grid" /\ events[i].session # focused
                \/ events[i] = Removal(focused)

\* When all requests have been handled, the daemon watches what is in the pane, or the
\* pane will move and ask again.
WatchFollows ==
    requests = <<>> /\ focused # None =>
        \/ watched = focused \/ WillMove
        \/ watched = None /\ closing[focused] = "unlist"
        \/ missed # {} /\ watched \in missed \cup {None}

IInv == TypeOK /\ EventsTell /\ CardsTell /\ FocusTells /\ WatchFollows

-----------------------------------------------------------------------------
(***************************************************************************)
(* First and the queues                                                    *)
(***************************************************************************)

\* Some numbers have a least one.
LEMMA Least ==
  ASSUME NEW S \in SUBSET Nat, S # {}
  PROVE  \E m \in S : \A t \in S : m <= t
<1> DEFINE Below == {p \in Nat \X Nat : p[1] < p[2]}
<1>1. IsWellFoundedOn(Below, Nat)
  BY NatLessThanWellFounded DEF OpToRel
<1>2. \A t, m \in Nat : t < m => <<t, m>> \in Below
  OBVIOUS
<1> HIDE DEF Below
<1>3. PICK m \in S : \A t \in S : ~(<<t, m>> \in Below)
  BY <1>1, WFMin
<1>4. \A t \in S : m \in Nat /\ t \in Nat /\ ~(t < m)
  BY <1>2, <1>3
<1>5. \A t \in S : m <= t
  BY <1>4
<1> QED
  BY <1>5

\* The first of some sessions is one of them.
LEMMA FirstIsThere ==
  ASSUME NEW S \in SUBSET Sessions
  PROVE  First(S) \in S \cup {None} /\ (S # {} => First(S) \in S)
<1>1. CASE S = {}
  BY <1>1 DEF First, None
<1>2. CASE S # {}
  <2>1. \E m \in S : \A t \in S : m <= t
    BY <1>2, SessionsAssumption, Least
  <2>2. Min(S) \in S
    BY <2>1 DEF Min
  <2> QED
    BY <1>2, <2>2 DEF First
<1> QED
  BY <1>1, <1>2

\* What the fields of an event are.
LEMMA Fields ==
  ASSUME NEW e \in Event
  PROVE  /\ e.kind \in {"Snapshot", "SessionUpdate", "SessionRemoved", "Output", "Grid"}
         /\ e.kind = "Snapshot" => e.sessions \subseteq Sessions
         /\ e.kind # "Snapshot" => e.session \in Sessions
         /\ e.kind = "Grid" => e.shows \in {"current", "stale"}
         /\ e.kind = "SessionRemoved" => e = Removal(e.session)
BY DEF Event, Removal

\* The messages that the daemon sends are events.
LEMMA Sent ==
  ASSUME NEW s \in Sessions
  PROVE  /\ Removal(s) \in Event /\ [kind |-> "SessionUpdate", session |-> s] \in Event
         /\ [kind |-> "Output", session |-> s] \in Event
         /\ \A x \in {"current", "stale"} :
               [kind |-> "Grid", session |-> s, shows |-> x] \in Event
BY DEF Event, Removal

\* A queue and what is appended to it.
LEMMA Appended ==
  ASSUME NEW S, NEW q \in Seq(S), NEW x \in S
  PROVE  /\ Append(q, x) \in Seq(S) /\ Append(q, x) # <<>>
         /\ Len(q) \in Nat /\ Len(Append(q, x)) = Len(q) + 1
         /\ Append(q, x)[Len(q) + 1] = x
         /\ \A i \in 1..Len(q) : Append(q, x)[i] = q[i]
OBVIOUS

\* A queue without its head.
LEMMA Taken ==
  ASSUME NEW S, NEW q \in Seq(S), q # <<>>
  PROVE  /\ Head(q) \in S /\ Tail(q) \in Seq(S) /\ Head(q) = q[1]
         /\ Len(q) \in Nat \ {0} /\ Len(Tail(q)) = Len(q) - 1
         /\ \A i \in 1..Len(q) - 1 : Tail(q)[i] = q[i + 1]
<1>1. Head(q) \in S /\ Tail(q) \in Seq(S) /\ Len(Tail(q)) = Len(q) - 1 /\ Head(q) = q[1]
  BY HeadTailProperties
<1>2. Len(q) \in Nat \ {0}
  BY EmptySeq
<1>3. \A i \in 1..Len(Tail(q)) : Tail(q)[i] = q[i + 1]
  BY HeadTailProperties
<1> QED
  BY <1>1, <1>2, <1>3

-----------------------------------------------------------------------------
(***************************************************************************)
(* Types                                                                   *)
(***************************************************************************)

LEMMA InitInvariant == Init => IInv
<1> SUFFICES ASSUME Init PROVE IInv
  OBVIOUS
<1>1. PICK old \in SUBSET Sessions :
         /\ listed = old /\ ptys = old
         /\ task = [s \in Sessions |-> IF s \in old THEN "asleep" ELSE "none"]
         /\ fresh = [s \in Sessions |-> s \notin old]
         /\ events = <<[kind |-> "Snapshot", sessions |-> old]>>
  BY DEF Init
<1>2. /\ events \in Seq(Event) /\ Len(events) = 1
      /\ events[1] = [kind |-> "Snapshot", sessions |-> old]
  BY <1>1 DEF Event
<1>3. /\ closing = [s \in Sessions |-> "no"] /\ watched = None /\ requests = <<>>
      /\ cards = {} /\ focused = None /\ grids = [s \in Sessions |-> "none"]
      /\ late = {} /\ relisted = {} /\ missed = {} /\ acts = 0
  BY DEF Init
<1>4. TypeOK
  <2>1. requests \in Seq(Sessions)
    BY <1>3
  <2>2. acts \in 0..MaxActs
    BY <1>3, MaxActsAssumption
  <2> QED
    BY <1>1, <1>2, <1>3, <2>1, <2>2 DEF TypeOK
<1>5. EventsTell
  BY <1>1, <1>2 DEF EventsTell, Names
<1> QED
  BY <1>3, <1>4, <1>5 DEF IInv, CardsTell, FocusTells, WatchFollows

\* An event sent: the queue grows by it.
LEMMA EmitTypes ==
  ASSUME TypeOK, NEW s \in Sessions, NEW e \in Event, Emit(s, e)
  PROVE  events' \in Seq(Event) /\ late' \subseteq Sessions
<1>1. events \in Seq(Event) /\ late \subseteq Sessions
  BY DEF TypeOK
<1> QED
  BY <1>1, Appended DEF Emit

\* A session that comes, prints or goes keeps the types.
LEMMA SessionTypes ==
  ASSUME TypeOK, NEW s \in Sessions,
         Start(s) \/ AddPty(s) \/ List(s) \/ SessionEnd(s) \/ LateHook(s)
         \/ ClosePty(s) \/ CloseWatched(s) \/ Unlist(s)
  PROVE  TypeOK'
<1>1. /\ [kind |-> "SessionUpdate", session |-> s] \in Event
      /\ [kind |-> "SessionRemoved", session |-> s] \in Event
  BY Sent DEF Removal
<1>2. ASSUME Act PROVE acts' \in 0..MaxActs
  BY <1>2, MaxActsAssumption DEF Act, TypeOK
<1>3. CASE Start(s)
  BY <1>3, <1>2 DEF Start, TypeOK, appVars
<1>4. CASE AddPty(s)
  BY <1>4 DEF AddPty, TypeOK, appVars
<1>5. CASE List(s)
  <2>1. events' \in Seq(Event) /\ late' \subseteq Sessions
    BY <1>5, <1>1, EmitTypes DEF List
  <2> QED
    BY <1>5, <2>1 DEF List, TypeOK, appVars
<1>6. CASE SessionEnd(s)
  <2>1. events' \in Seq(Event) /\ late' \subseteq Sessions
    BY <1>6, <1>1, EmitTypes DEF SessionEnd
  <2> QED
    BY <1>6, <1>2, <2>1 DEF SessionEnd, TypeOK, appVars
<1>7. CASE LateHook(s)
  <2>1. events' \in Seq(Event) /\ late' \subseteq Sessions
    BY <1>7, <1>1, EmitTypes DEF LateHook
  <2> QED
    BY <1>7, <1>2, <2>1 DEF LateHook, TypeOK, appVars
<1>8. CASE ClosePty(s)
  BY <1>8, <1>2 DEF ClosePty, TypeOK, appVars
<1>9. CASE CloseWatched(s)
  BY <1>9 DEF CloseWatched, TypeOK, appVars
<1>10. CASE Unlist(s)
  <2>1. events' \in Seq(Event) /\ late' \subseteq Sessions
    BY <1>10, <1>1, EmitTypes DEF Unlist
  <2> QED
    BY <1>10, <2>1 DEF Unlist, TypeOK, appVars
<1> QED
  BY <1>3, <1>4, <1>5, <1>6, <1>7, <1>8, <1>9, <1>10

\* A step of a grid task, or a request handled, keeps the types.
LEMMA GridTypes ==
  ASSUME TypeOK, RequestGrid \/ \E s \in Sessions : Look(s) \/ Push(s)
  PROVE  TypeOK'
<1>1. CASE RequestGrid
  <2>1. requests \in Seq(Sessions) /\ requests # <<>>
    BY <1>1 DEF RequestGrid, TypeOK
  <2>2. PICK r \in Sessions : r = Head(requests)
    BY <2>1, Taken
  <2>3. requests' \in Seq(Sessions) /\ watched' \in Sessions
    BY <1>1, <2>1, <2>2, Taken DEF RequestGrid
  <2>4. CASE r \in ptys
    <3>1. EmitGrid(r, "current") /\ UNCHANGED missed
      BY <1>1, <2>2, <2>4 DEF RequestGrid
    <3>2. events' \in Seq(Event) /\ late' \subseteq Sessions
      BY <3>1, Sent, EmitTypes DEF EmitGrid
    <3> QED
      BY <1>1, <2>3, <3>1, <3>2 DEF RequestGrid, TypeOK, appVars
  <2>5. CASE r \notin ptys
    BY <1>1, <2>2, <2>3, <2>5 DEF RequestGrid, TypeOK, appVars
  <2> QED
    BY <2>4, <2>5
<1>2. ASSUME NEW s \in Sessions, Look(s) PROVE TypeOK'
  BY <1>2 DEF Look, TypeOK, appVars
<1>3. ASSUME NEW s \in Sessions, Push(s) PROVE TypeOK'
  <2>1. [kind |-> "Grid", session |-> s, shows |-> task[s]] \in Event
    BY <1>3, Sent DEF Push
  <2>2. events' \in Seq(Event) /\ late' \subseteq Sessions
    BY <1>3, <2>1, EmitTypes DEF Push, EmitGrid
  <2> QED
    BY <1>3, <2>2 DEF Push, TypeOK, appVars
<1> QED
  BY <1>1, <1>2, <1>3

\* Output ages the snapshots under way, and is sent itself.
LEMMA OutputEffect ==
  ASSUME TypeOK, NEW s \in Sessions, Output(s)
  PROVE  /\ events' \in Seq(Event) /\ Len(events') = Len(events) + 1
         /\ events'[Len(events) + 1] = [kind |-> "Output", session |-> s]
         /\ \A i \in 1..Len(events) :
               /\ events'[i].kind = events[i].kind
               /\ events[i].kind = "Grid" => events'[i].session = events[i].session
               /\ events[i].kind # "Grid" => events'[i] = events[i]
<1> DEFINE Old(i) == IF events[i].kind = "Grid" /\ events[i].session = s
                     THEN [events[i] EXCEPT !.shows = "stale"] ELSE events[i]
           AllOld == [i \in DOMAIN events |-> Old(i)]
<1>1. events \in Seq(Event) /\ Len(events) \in Nat /\ DOMAIN events = 1..Len(events)
      /\ \A i \in 1..Len(events) : events[i] \in Event
  BY DEF TypeOK
<1>2. \A i \in 1..Len(events) :
        /\ Old(i) \in Event /\ Old(i).kind = events[i].kind
        /\ events[i].kind = "Grid" => Old(i).session = events[i].session
        /\ events[i].kind # "Grid" => Old(i) = events[i]
  BY <1>1 DEF Event
<1>3. AllOld \in Seq(Event) /\ Len(AllOld) = Len(events)
      /\ \A i \in 1..Len(events) : AllOld[i] = Old(i)
  BY <1>1, <1>2
<1> HIDE DEF Old, AllOld
<1>4. events' = Append(AllOld, [kind |-> "Output", session |-> s])
  BY DEF Output, AllOld, Old
<1>5. DEFINE out == [kind |-> "Output", session |-> s]
<1>6. out \in Event
  BY Sent
<1> HIDE DEF out
<1>7. events' = Append(AllOld, out)
  BY <1>4 DEF out
<1>8. /\ events' \in Seq(Event) /\ Len(events') = Len(events) + 1
      /\ events'[Len(events) + 1] = out
      /\ \A i \in 1..Len(events) : events'[i] = Old(i)
  BY <1>3, <1>6, <1>7, Appended
<1> QED
  BY <1>2, <1>8 DEF out

\* Where the focus is after an event: where it was, on a session that the event names,
\* or, if it was on a session that goes, on another card.
LEMMA FocusMoves ==
  ASSUME TypeOK, NEW e \in Event
  PROVE  /\ FocusAfter(e) \in Sessions \cup {None}
         /\ \/ FocusAfter(e) = focused /\ (focused # None => e # Removal(focused))
            \/ FocusAfter(e) \in Names(e)
            \/ /\ e.kind = "SessionRemoved" /\ e.session = focused
               /\ FocusAfter(e) \in (cards \ {focused}) \cup {None}
            \/ FocusAfter(e) = None
         /\ e.kind = "Grid" => FocusAfter(e) = e.session
         /\ e.kind = "SessionRemoved" => FocusAfter(e) # e.session \/ e.session = None
<1>1. /\ e.kind \in {"Snapshot", "SessionUpdate", "SessionRemoved", "Output", "Grid"}
      /\ e.kind = "Snapshot" => e.sessions \subseteq Sessions
      /\ e.kind # "Snapshot" => e.session \in Sessions
  BY Fields
<1>2. focused \in Sessions \cup {None} /\ cards \subseteq Sessions
  BY DEF TypeOK
<1>3. CASE e.kind = "Snapshot"
  <2>1. FocusAfter(e) = (IF focused = None THEN First(e.sessions) ELSE focused)
    BY <1>3 DEF FocusAfter
  <2>2. First(e.sessions) \in e.sessions \cup {None}
    BY <1>1, <1>3, FirstIsThere
  <2>3. Names(e) = e.sessions /\ \A x : e # Removal(x)
    BY <1>3 DEF Names, Removal
  <2> QED
    BY <1>1, <1>2, <1>3, <2>1, <2>2, <2>3
<1>4. CASE e.kind = "SessionUpdate"
  BY <1>1, <1>2, <1>4 DEF FocusAfter, Names, Removal
<1>5. CASE e.kind = "SessionRemoved"
  <2>1. FocusAfter(e) = (IF focused = e.session THEN First(cards \ {e.session}) ELSE focused)
    BY <1>5 DEF FocusAfter
  <2>2. First(cards \ {e.session}) \in (cards \ {e.session}) \cup {None}
    BY <1>2, FirstIsThere
  <2>3. e = Removal(e.session)
    BY <1>5, Fields
  <2>4. e # Removal(focused) \/ e.session = focused
    BY <1>5, <2>3 DEF Removal
  <2> QED
    BY <1>1, <1>2, <1>5, <2>1, <2>2, <2>4
<1>6. CASE e.kind = "Output"
  BY <1>1, <1>2, <1>6 DEF FocusAfter, Names, Removal
<1>7. CASE e.kind = "Grid"
  BY <1>1, <1>2, <1>7 DEF FocusAfter, Names, Removal
<1> QED
  BY <1>1, <1>3, <1>4, <1>5, <1>6, <1>7

\* What applying the next event does.
LEMMA ApplyEffect ==
  ASSUME TypeOK, Apply
  PROVE  \E e \in Event :
            /\ e = events[1] /\ events' \in Seq(Event)
            /\ Len(events) \in Nat \ {0} /\ Len(events') = Len(events) - 1
            /\ \A i \in 1..Len(events) - 1 : events'[i] = events[i + 1]
            /\ cards' = CASE e.kind = "Snapshot" -> e.sessions
                          [] e.kind = "SessionUpdate" -> cards \cup {e.session}
                          [] e.kind = "SessionRemoved" -> cards \ {e.session}
                          [] OTHER -> cards
            /\ grids' = CASE e.kind = "Grid" -> [grids EXCEPT ![e.session] = e.shows]
                          [] e.kind = "SessionRemoved" -> [grids EXCEPT ![e.session] = "none"]
                          [] OTHER -> grids
            /\ focused' = FocusAfter(e)
<1>1. events \in Seq(Event) /\ events # <<>>
  BY DEF Apply, TypeOK
<1> DEFINE e == Head(events)
<1>2. /\ e \in Event /\ e = events[1] /\ events' \in Seq(Event)
      /\ Len(events) \in Nat \ {0} /\ Len(events') = Len(events) - 1
      /\ \A i \in 1..Len(events) - 1 : events'[i] = events[i + 1]
  BY <1>1, Taken DEF Apply
<1>3. /\ cards' = CASE e.kind = "Snapshot" -> e.sessions
                    [] e.kind = "SessionUpdate" -> cards \cup {e.session}
                    [] e.kind = "SessionRemoved" -> cards \ {e.session}
                    [] OTHER -> cards
      /\ grids' = CASE e.kind = "Grid" -> [grids EXCEPT ![e.session] = e.shows]
                    [] e.kind = "SessionRemoved" -> [grids EXCEPT ![e.session] = "none"]
                    [] OTHER -> grids
      /\ focused' = FocusAfter(e)
  BY DEF Apply
<1> QED
  BY <1>2, <1>3

\* What the cockpit does keeps the types.
LEMMA CockpitTypes ==
  ASSUME TypeOK, Apply \/ Scroll \/ \E s \in Sessions : Click(s) \/ ClickTile(s)
  PROVE  TypeOK'
<1>1. requests \in Seq(Sessions) /\ focused \in Sessions \cup {None}
  BY DEF TypeOK
<1>2. \A s \in Sessions : Ask(s) => requests' \in Seq(Sessions)
  BY <1>1 DEF Ask
<1>3. ASSUME Act PROVE acts' \in 0..MaxActs
  BY <1>3, MaxActsAssumption DEF Act, TypeOK
<1>4. CASE Apply
  <2>1. PICK e \in Event :
           /\ events' \in Seq(Event)
           /\ cards' = CASE e.kind = "Snapshot" -> e.sessions
                         [] e.kind = "SessionUpdate" -> cards \cup {e.session}
                         [] e.kind = "SessionRemoved" -> cards \ {e.session}
                         [] OTHER -> cards
           /\ grids' = CASE e.kind = "Grid" -> [grids EXCEPT ![e.session] = e.shows]
                         [] e.kind = "SessionRemoved" -> [grids EXCEPT ![e.session] = "none"]
                         [] OTHER -> grids
           /\ focused' = FocusAfter(e)
    BY <1>4, ApplyEffect
  <2>2. /\ e.kind \in {"Snapshot", "SessionUpdate", "SessionRemoved", "Output", "Grid"}
        /\ e.kind = "Snapshot" => e.sessions \subseteq Sessions
        /\ e.kind # "Snapshot" => e.session \in Sessions
        /\ e.kind = "Grid" => e.shows \in {"current", "stale"}
    BY Fields
  <2>3. cards' \subseteq Sessions
    BY <2>1, <2>2 DEF TypeOK
  <2>4. grids' \in [Sessions -> {"none", "current", "stale"}]
    BY <2>1, <2>2 DEF TypeOK
  <2>5. focused' \in Sessions \cup {None}
    BY <2>1, FocusMoves
  <2>6. requests' \in Seq(Sessions)
    <3>1. focused' \in {focused, None} => requests' = requests
      BY <1>4 DEF Apply, AskFor
    <3>2. focused' \notin {focused, None} => requests' = Append(requests, focused')
      BY <1>4 DEF Apply, AskFor, Ask
    <3> QED
      BY <1>1, <2>5, <3>1, <3>2
  <2> QED
    BY <1>4, <2>1, <2>3, <2>4, <2>5, <2>6 DEF Apply, TypeOK, daemonVars
<1>5. CASE Scroll
  BY <1>1, <1>2, <1>3, <1>5 DEF Scroll, TypeOK, daemonVars, appVars
<1>6. ASSUME NEW s \in Sessions, Click(s) PROVE TypeOK'
  BY <1>2, <1>3, <1>6 DEF Click, TypeOK, daemonVars
<1>7. ASSUME NEW s \in Sessions, ClickTile(s) PROVE TypeOK'
  BY <1>2, <1>3, <1>7 DEF ClickTile, TypeOK, daemonVars, appVars
<1> QED
  BY <1>4, <1>5, <1>6, <1>7

\* Output keeps the types.
LEMMA OutputTypes ==
  ASSUME TypeOK, NEW s \in Sessions, Output(s)
  PROVE  TypeOK'
<1>1. events' \in Seq(Event)
  BY OutputEffect
<1>2. acts' \in 0..MaxActs
  BY MaxActsAssumption DEF Output, Act, TypeOK
<1>3. task' \in [Sessions -> {"none", "child", "pty", "asleep", "current", "stale", "off"}]
  BY DEF Output, TypeOK
<1>4. grids' \in [Sessions -> {"none", "current", "stale"}]
  BY DEF Output, TypeOK
<1> QED
  BY <1>1, <1>2, <1>3, <1>4 DEF Output, TypeOK

-----------------------------------------------------------------------------
(***************************************************************************)
(* Who goes from the registry is announced                                 *)
(***************************************************************************)

\* One more event is under way; of those that were, only what a grid shows may differ.
Grows ==
    /\ Len(events') = Len(events) + 1
    /\ \A i \in 1..Len(events) :
          /\ events'[i].kind = events[i].kind
          /\ events[i].kind = "Grid" => events'[i].session = events[i].session
          /\ events[i].kind # "Grid" => events'[i] = events[i]

\* What is sent last says who went from the registry, and names nobody who is not there
\* but for output and grids.
LastTells ==
    /\ \A s \in listed \ listed' : events'[Len(events')] = Removal(s)
    /\ \A s \in Names(events'[Len(events')]) :
          \/ s \in listed'
          \/ events'[Len(events')].kind \in {"Output", "Grid"} /\ s \in late'

\* A step that is not the cockpit's.
Tells ==
    /\ UNCHANGED <<cards, focused>> /\ late \subseteq late'
    /\ \/ events' = events /\ listed \subseteq listed'
       \/ Grows /\ LastTells

\* An event sent is the last one.
LEMMA EmitGrows ==
  ASSUME TypeOK, NEW s \in Sessions, NEW e \in Event, Emit(s, e)
  PROVE  /\ Grows /\ events'[Len(events')] = e /\ late \subseteq late'
         /\ e.kind \in {"Output", "Grid"} => s \in listed \/ s \in late'
<1>1. events \in Seq(Event) /\ events' = Append(events, e)
  BY DEF TypeOK, Emit
<1> QED
  BY <1>1, Appended DEF Grows, Emit

\* The steps of the daemon and of its children are such steps.
LEMMA DaemonTells ==
  ASSUME TypeOK,
         \/ RequestGrid
         \/ \E s \in Sessions :
               \/ Start(s) \/ AddPty(s) \/ List(s) \/ SessionEnd(s) \/ LateHook(s)
               \/ ClosePty(s) \/ CloseWatched(s) \/ Unlist(s)
               \/ Look(s) \/ Push(s) \/ Output(s)
  PROVE  Tells
<1>1. CASE RequestGrid
  <2>1. PICK r \in Sessions : r = Head(requests)
    BY <1>1, Taken DEF RequestGrid, TypeOK
  <2>2. CASE r \in ptys
    <3>1. DEFINE e == [kind |-> "Grid", session |-> r, shows |-> "current"]
    <3>2. e \in Event /\ Names(e) = {r} /\ Emit(r, e) /\ e.kind = "Grid"
      BY <1>1, <2>1, <2>2, Sent DEF RequestGrid, EmitGrid, Names
    <3>3. listed' = listed /\ UNCHANGED <<cards, focused>>
      BY <1>1 DEF RequestGrid, appVars
    <3> HIDE DEF e
    <3> QED
      BY <3>2, <3>3, EmitGrows DEF Tells, LastTells
  <2>3. CASE r \notin ptys
    BY <1>1, <2>1, <2>3 DEF RequestGrid, Tells, appVars
  <2> QED
    BY <2>2, <2>3
<1>2. ASSUME NEW s \in Sessions, List(s) \/ LateHook(s) PROVE Tells
  <2>1. DEFINE e == [kind |-> "SessionUpdate", session |-> s]
  <2>2. e \in Event /\ Names(e) = {s} /\ Emit(s, e)
    BY <1>2, Sent DEF List, LateHook, Names
  <2>3. listed' = listed \cup {s} /\ UNCHANGED <<cards, focused>>
    BY <1>2 DEF List, LateHook, appVars
  <2> HIDE DEF e
  <2> QED
    BY <2>2, <2>3, EmitGrows DEF Tells, LastTells
<1>3. ASSUME NEW s \in Sessions, SessionEnd(s) \/ Unlist(s) PROVE Tells
  <2>1. Removal(s) \in Event /\ Names(Removal(s)) = {} /\ Emit(s, Removal(s))
    BY <1>3, Sent DEF SessionEnd, Unlist, Names, Removal
  <2>2. listed' = listed \ {s} /\ UNCHANGED <<cards, focused>>
    BY <1>3 DEF SessionEnd, Unlist, appVars
  <2> QED
    BY <2>1, <2>2, EmitGrows DEF Tells, LastTells
<1>4. ASSUME NEW s \in Sessions, Push(s) PROVE Tells
  <2>1. DEFINE e == [kind |-> "Grid", session |-> s, shows |-> task[s]]
  <2>2. e \in Event /\ Names(e) = {s} /\ Emit(s, e) /\ e.kind = "Grid"
    BY <1>4, Sent DEF Push, EmitGrid, Names
  <2>3. listed' = listed /\ UNCHANGED <<cards, focused>>
    BY <1>4 DEF Push, appVars
  <2> HIDE DEF e
  <2> QED
    BY <2>2, <2>3, EmitGrows DEF Tells, LastTells
<1>5. ASSUME NEW s \in Sessions, Output(s) PROVE Tells
  <2>1. DEFINE e == [kind |-> "Output", session |-> s]
  <2>2. Grows /\ events'[Len(events')] = e
    BY <1>5, OutputEffect DEF Grows
  <2>3. Names(e) = {s} /\ e.kind = "Output"
    BY DEF Names
  <2>4. /\ listed' = listed /\ UNCHANGED <<cards, focused>>
        /\ late \subseteq late' /\ (s \in listed \/ s \in late')
    BY <1>5 DEF Output
  <2> HIDE DEF e
  <2> QED
    BY <2>2, <2>3, <2>4 DEF Tells, LastTells
<1>6. ASSUME NEW s \in Sessions, Start(s) \/ AddPty(s) \/ ClosePty(s) \/ CloseWatched(s) \/ Look(s)
      PROVE  Tells
  BY <1>6 DEF Tells, Start, AddPty, ClosePty, CloseWatched, Look, appVars
<1> QED
  BY <1>1, <1>2, <1>3, <1>4, <1>5, <1>6

\* What was told, and that the focus will move, stays so when the events grow.
LEMMA StillTold ==
  ASSUME TypeOK, Grows \/ events' = events
  PROVE  /\ \A s : \A i \in Nat : Told(s, i) => Told(s, i)'
         /\ \A i \in 1..Len(events) : /\ i \in 1..Len(events')
                                      /\ Names(events'[i]) = Names(events[i])
                                      /\ events'[i].kind = events[i].kind
         /\ WillMove /\ focused' = focused => WillMove'
<1>1. Len(events) \in Nat /\ Len(events') \in {Len(events), Len(events) + 1}
  BY DEF TypeOK, Grows
<1>2. \A i \in 1..Len(events) :
        /\ i \in 1..Len(events')
        /\ events'[i].kind = events[i].kind
        /\ events[i].kind = "Grid" => events'[i].session = events[i].session
        /\ events[i].kind # "Grid" => events'[i] = events[i]
        /\ \A s : events[i] = Removal(s) => events'[i] = Removal(s)
  BY <1>1 DEF Grows, Removal
<1>3. \A i \in 1..Len(events) : Names(events'[i]) = Names(events[i])
  BY <1>2 DEF Names
<1>4. ASSUME NEW s, NEW i \in Nat, Told(s, i) PROVE Told(s, i)'
  <2>1. PICK j \in i + 1..Len(events) : events[j] = Removal(s)
    BY <1>4 DEF Told
  <2>2. j \in 1..Len(events) /\ j \in i + 1..Len(events')
    BY <1>1, <2>1
  <2> QED
    BY <1>2, <2>1, <2>2 DEF Told
<1>5. ASSUME WillMove, focused' = focused PROVE WillMove'
  <2>1. PICK i \in 1..Len(events) : \/ events[i].kind = "Grid" /\ events[i].session # focused
                                    \/ events[i] = Removal(focused)
    BY <1>5 DEF WillMove
  <2>2. \/ events'[i].kind = "Grid" /\ events'[i].session # focused'
        \/ events'[i] = Removal(focused')
    BY <1>2, <1>5, <2>1
  <2> QED
    BY <1>2, <2>2 DEF WillMove
<1> QED
  BY <1>2, <1>3, <1>4, <1>5

\* Hence whoever goes is told of.
LEMMA TellingKeeps ==
  ASSUME IInv, Tells
  PROVE  EventsTell' /\ CardsTell' /\ FocusTells'
<1>1. /\ Len(events) \in Nat /\ late \subseteq late' /\ cards' = cards /\ focused' = focused
      /\ Grows \/ events' = events
      /\ TypeOK
  BY DEF IInv, TypeOK, Tells
<1>2. ASSUME NEW s, NEW i \in Nat, i <= Len(events), s \in listed \/ Told(s, i)
      PROVE  s \in listed' \/ Told(s, i)'
  <2>1. CASE Told(s, i)
    BY <1>1, <2>1, StillTold
  <2>2. CASE s \in listed \ listed'
    <3>1. Grows /\ LastTells
      BY <2>2 DEF Tells
    <3>2. events'[Len(events')] = Removal(s) /\ Len(events') \in i + 1..Len(events')
      BY <1>1, <1>2, <2>2, <3>1 DEF Grows, LastTells
    <3> QED
      BY <3>2 DEF Told
  <2> QED
    BY <1>2, <2>1, <2>2
<1>3. EventsTell'
  <2>1. SUFFICES ASSUME NEW i \in 1..Len(events'), NEW s \in Names(events'[i])
                 PROVE  \/ s \in listed' \/ Told(s, i)'
                        \/ events'[i].kind \in {"Output", "Grid"} /\ s \in late'
    BY DEF EventsTell
  <2>2. CASE i \in 1..Len(events)
    <3>1. s \in Names(events[i]) /\ events'[i].kind = events[i].kind
      BY <1>1, <2>2, StillTold
    <3>2. \/ s \in listed \/ Told(s, i)
          \/ events[i].kind \in {"Output", "Grid"} /\ s \in late
      BY <2>2, <3>1 DEF IInv, EventsTell
    <3> QED
      BY <1>1, <1>2, <2>2, <3>1, <3>2
  <2>3. CASE i \notin 1..Len(events)
    <3>1. Grows /\ LastTells /\ i = Len(events')
      BY <1>1, <2>3 DEF Tells, Grows
    <3> QED
      BY <3>1 DEF LastTells
  <2> QED
    BY <2>2, <2>3
<1>4. CardsTell'
  BY <1>1, <1>2 DEF IInv, CardsTell
<1>5. FocusTells'
  BY <1>1, <1>2 DEF IInv, FocusTells
<1> QED
  BY <1>3, <1>4, <1>5

\* When an event is applied, what came behind it is still to come: what it gives a card
\* or the focus was told of behind it, and what its removal took has neither.
LEMMA ApplyTells ==
  ASSUME IInv, Apply
  PROVE  EventsTell' /\ CardsTell' /\ FocusTells'
<1>1. PICK e \in Event :
         /\ e = events[1]
         /\ Len(events) \in Nat \ {0} /\ Len(events') = Len(events) - 1
         /\ \A i \in 1..Len(events) - 1 : events'[i] = events[i + 1]
         /\ cards' = CASE e.kind = "Snapshot" -> e.sessions
                       [] e.kind = "SessionUpdate" -> cards \cup {e.session}
                       [] e.kind = "SessionRemoved" -> cards \ {e.session}
                       [] OTHER -> cards
         /\ focused' = FocusAfter(e)
  BY ApplyEffect DEF IInv
<1>2. listed' = listed /\ late' = late
  BY DEF Apply, daemonVars
<1>3. ASSUME NEW s, NEW i \in Nat, Told(s, i + 1) PROVE Told(s, i)'
  <2>1. PICK j \in i + 2..Len(events) : events[j] = Removal(s)
    BY <1>3 DEF Told
  <2>2. j - 1 \in i + 1..Len(events') /\ j - 1 \in 1..Len(events) - 1
        /\ (j - 1) + 1 = j
    BY <1>1, <2>1
  <2>3. events'[j - 1] = Removal(s)
    BY <1>1, <2>1, <2>2
  <2> QED
    BY <2>2, <2>3 DEF Told
<1>4. ASSUME NEW s, Told(s, 0), e # Removal(s) PROVE Told(s, 0)'
  <2>1. PICK j \in 1..Len(events) : events[j] = Removal(s)
    BY <1>4 DEF Told
  <2>2. j \in 0 + 1 + 1..Len(events)
    BY <1>1, <1>4, <2>1
  <2>3. Told(s, 0 + 1)
    BY <2>1, <2>2 DEF Told
  <2> QED
    BY <1>3, <2>3
<1>5. ASSUME NEW s \in Names(e)
      PROVE  \/ s \in listed' \/ Told(s, 0)'
             \/ e.kind \in {"Output", "Grid"} /\ s \in late'
  <2>1. \/ s \in listed \/ Told(s, 1)
        \/ e.kind \in {"Output", "Grid"} /\ s \in late
    BY <1>1 DEF IInv, EventsTell
  <2> QED
    BY <1>2, <1>3, <2>1
<1>6. EventsTell'
  <2>1. SUFFICES ASSUME NEW i \in 1..Len(events'), NEW s \in Names(events'[i])
                 PROVE  \/ s \in listed' \/ Told(s, i)'
                        \/ events'[i].kind \in {"Output", "Grid"} /\ s \in late'
    BY DEF EventsTell
  <2>2. i + 1 \in 1..Len(events) /\ events'[i] = events[i + 1] /\ i \in Nat
    BY <1>1
  <2>3. \/ s \in listed \/ Told(s, i + 1)
        \/ events[i + 1].kind \in {"Output", "Grid"} /\ s \in late
    BY <2>2 DEF IInv, EventsTell
  <2> QED
    BY <1>2, <1>3, <2>2, <2>3
<1>7. ASSUME NEW s \in cards, e # Removal(s) PROVE s \in listed' \/ Told(s, 0)'
  BY <1>2, <1>4, <1>7 DEF IInv, CardsTell
<1>8. CardsTell'
  <2>1. SUFFICES ASSUME NEW s \in cards' PROVE s \in listed' \/ Told(s, 0)'
    BY DEF CardsTell
  <2>2. \/ s \in Names(e) /\ e.kind \notin {"Output", "Grid"}
        \/ s \in cards /\ e # Removal(s)
    BY <1>1, Fields DEF Names, Removal
  <2> QED
    BY <1>5, <1>7, <2>2
<1>9. FocusTells'
  <2>1. SUFFICES ASSUME focused' # None
                 PROVE  \/ focused' \in listed' \cup late'
                        \/ \E j \in 0 + 1..Len(events') : events'[j] = Removal(focused')
    BY DEF FocusTells, Told
  <2>2. PICK f : f = focused'
    OBVIOUS
  <2>3. f # None
    BY <2>1, <2>2
  <2>4. \/ f = focused /\ e # Removal(focused)
        \/ f \in Names(e)
        \/ /\ e.kind = "SessionRemoved" /\ e.session = focused
           /\ f \in cards \ {focused}
    BY <1>1, <2>2, <2>3, FocusMoves DEF IInv
  <2>5. f \in listed' \cup late' \/ Told(f, 0)'
    <3>1. CASE f = focused /\ e # Removal(focused)
      BY <1>2, <1>4, <2>3, <3>1 DEF IInv, FocusTells
    <3>2. CASE f \in Names(e)
      BY <1>5, <3>2
    <3>3. CASE e.kind = "SessionRemoved" /\ e.session = focused /\ f \in cards \ {focused}
      <4>1. e # Removal(f)
        BY <3>3 DEF Removal
      <4> QED
        BY <1>7, <3>3, <4>1
    <3> QED
      BY <2>4, <3>1, <3>2, <3>3
  <2> QED
    BY <2>2, <2>5 DEF Told
<1> QED
  BY <1>6, <1>8, <1>9

-----------------------------------------------------------------------------
(***************************************************************************)
(* The watch follows the pane                                              *)
(***************************************************************************)

\* A step of the daemon that leaves the requests alone.
LEMMA DaemonWatch ==
  ASSUME IInv, Tells, UNCHANGED <<requests, missed>>,
         \/ UNCHANGED watched /\ \A s \in Sessions : closing[s] = "unlist" => closing'[s] = "unlist"
         \/ \E s \in Sessions : CloseWatched(s) \/ Unlist(s)
  PROVE  WatchFollows'
<1>1. /\ TypeOK
      /\ Grows \/ events' = events
      /\ focused' = focused /\ requests' = requests /\ missed' = missed
  BY DEF IInv, Tells
<1>2. SUFFICES ASSUME requests = <<>>, focused # None
               PROVE  \/ watched' = focused' \/ WillMove'
                      \/ watched' = None /\ closing'[focused'] = "unlist"
                      \/ missed' # {} /\ watched' \in missed' \cup {None}
  BY <1>1 DEF WatchFollows
<1>3. /\ focused \in Sessions /\ closing \in [Sessions -> {"no", "watched", "unlist"}]
  BY <1>2 DEF IInv, TypeOK
<1>4. \/ watched = focused \/ WillMove
      \/ watched = None /\ closing[focused] = "unlist"
      \/ missed # {} /\ watched \in missed \cup {None}
  BY <1>2 DEF IInv, WatchFollows
<1>5. WillMove => WillMove'
  BY <1>1, StillTold
<1>6. CASE UNCHANGED watched /\ \A s \in Sessions : closing[s] = "unlist" => closing'[s] = "unlist"
  BY <1>1, <1>3, <1>4, <1>5, <1>6
<1>7. ASSUME NEW s \in Sessions, CloseWatched(s)
      PROVE  \/ watched' = focused' \/ WillMove'
             \/ watched' = None /\ closing'[focused'] = "unlist"
             \/ missed' # {} /\ watched' \in missed' \cup {None}
  <2>1. /\ watched' = IF watched = s THEN None ELSE watched
        /\ closing' = [closing EXCEPT ![s] = "unlist"]
    BY <1>7 DEF CloseWatched
  <2> QED
    BY <1>1, <1>2, <1>3, <1>4, <1>5, <2>1
<1>8. ASSUME NEW s \in Sessions, Unlist(s)
      PROVE  \/ watched' = focused' \/ WillMove'
             \/ watched' = None /\ closing'[focused'] = "unlist"
             \/ missed' # {} /\ watched' \in missed' \cup {None}
  <2>1. closing' = [closing EXCEPT ![s] = "no"] /\ watched' = watched
    BY <1>8 DEF Unlist
  <2>2. CASE s # focused
    BY <1>1, <1>3, <1>4, <1>5, <2>1, <2>2
  <2>3. CASE s = focused
    <3>1. Grows /\ events'[Len(events')] = Removal(s)
      <4>1. Removal(s) \in Event /\ Emit(s, Removal(s))
        BY <1>8, Sent DEF Unlist, Removal
      <4> QED
        BY <1>1, <4>1, EmitGrows
    <3>2. Len(events') \in 1..Len(events')
      BY <1>1, <3>1 DEF Grows, TypeOK
    <3>3. WillMove'
      BY <1>1, <2>3, <3>1, <3>2 DEF WillMove
    <3> QED
      BY <3>3
  <2> QED
    BY <2>2, <2>3
<1> QED
  BY <1>6, <1>7, <1>8

\* The last request sets the watch, and its grid takes the focus along.
LEMMA RequestWatch ==
  ASSUME IInv, RequestGrid
  PROVE  WatchFollows'
<1>1. PICK r \in Sessions : r = Head(requests)
  BY Taken DEF IInv, TypeOK, RequestGrid
<1>2. watched' = r /\ focused' = focused
  BY <1>1 DEF RequestGrid, appVars
<1>3. CASE r \in ptys
  <2>1. DEFINE e == [kind |-> "Grid", session |-> r, shows |-> "current"]
  <2>2. e \in Event /\ Emit(r, e) /\ e.kind = "Grid" /\ e.session = r
    BY <1>1, <1>3, Sent DEF RequestGrid, EmitGrid
  <2> HIDE DEF e
  <2>3. Grows /\ events'[Len(events')] = e
    BY <2>2, EmitGrows DEF IInv
  <2>4. Len(events') \in 1..Len(events')
    BY <2>3 DEF Grows, IInv, TypeOK
  <2>5. r # focused => WillMove'
    BY <1>2, <2>2, <2>3, <2>4 DEF WillMove
  <2> QED
    BY <1>2, <2>5 DEF WatchFollows
<1>4. CASE r \notin ptys
  BY <1>1, <1>2, <1>4 DEF RequestGrid, WatchFollows
<1> QED
  BY <1>3, <1>4

\* Who moves the focus asks for a grid.
LEMMA CockpitWatch ==
  ASSUME IInv, Apply \/ Scroll \/ \E s \in Sessions : Click(s) \/ ClickTile(s)
  PROVE  WatchFollows'
<1>1. requests \in Seq(Sessions) /\ focused \in Sessions \cup {None}
  BY DEF IInv, TypeOK
<1>2. ASSUME NEW s \in Sessions, Ask(s) PROVE WatchFollows'
  <2>1. requests' # <<>>
    BY <1>1, <1>2, Appended DEF Ask
  <2> QED
    BY <2>1 DEF WatchFollows
<1>3. CASE Apply
  <2>1. PICK e \in Event :
           /\ e = events[1]
           /\ Len(events) \in Nat \ {0} /\ Len(events') = Len(events) - 1
           /\ \A i \in 1..Len(events) - 1 : events'[i] = events[i + 1]
           /\ focused' = FocusAfter(e)
    BY <1>3, ApplyEffect DEF IInv
  <2>2. focused' \in Sessions \cup {None}
    BY <2>1, FocusMoves DEF IInv
  <2>3. CASE focused' \notin {focused, None}
    <3>1. requests' = Append(requests, focused') /\ focused' \in Sessions
      BY <1>3, <2>2, <2>3 DEF Apply, AskFor, Ask
    <3>2. requests' # <<>>
      BY <1>1, <3>1, Appended
    <3> QED
      BY <3>2 DEF WatchFollows
  <2>4. CASE focused' = None
    BY <2>4 DEF WatchFollows
  <2>5. CASE focused' = focused /\ focused # None
    <3>1. requests' = requests /\ watched' = watched /\ closing' = closing /\ missed' = missed
      BY <1>3, <2>5 DEF Apply, AskFor, daemonVars
    <3>2. ASSUME WillMove PROVE WillMove'
      <4>1. PICK i \in 1..Len(events) : \/ events[i].kind = "Grid" /\ events[i].session # focused
                                        \/ events[i] = Removal(focused)
        BY <3>2 DEF WillMove
      <4>2. ~(e.kind = "Grid" /\ e.session # focused) /\ e # Removal(focused)
        BY <2>1, <2>5, FocusMoves DEF IInv, Removal
      <4>3. i # 1 /\ i - 1 \in 1..Len(events') /\ events'[i - 1] = events[i]
        BY <2>1, <4>1, <4>2
      <4> QED
        BY <2>5, <4>1, <4>3 DEF WillMove
    <3> QED
      BY <2>5, <3>1, <3>2 DEF IInv, WatchFollows
  <2> QED
    BY <2>3, <2>4, <2>5
<1>4. CASE Scroll
  BY <1>1, <1>2, <1>4 DEF Scroll
<1>5. ASSUME NEW s \in Sessions, Click(s) \/ ClickTile(s) PROVE WatchFollows'
  BY <1>2, <1>5 DEF Click, ClickTile
<1> QED
  BY <1>3, <1>4, <1>5

-----------------------------------------------------------------------------
(***************************************************************************)
(* The theorems                                                            *)
(***************************************************************************)

\* One step of the fleet and its cockpit keeps the invariant.
LEMMA NextInvariant == IInv /\ [Next]_vars => IInv'
<1> SUFFICES ASSUME IInv, [Next]_vars PROVE IInv'
  OBVIOUS
<1>1. TypeOK
  BY DEF IInv
<1>2. ASSUME TypeOK', Tells, UNCHANGED <<requests, missed>>,
             \/ /\ UNCHANGED watched
                /\ \A s \in Sessions : closing[s] = "unlist" => closing'[s] = "unlist"
             \/ \E s \in Sessions : CloseWatched(s) \/ Unlist(s)
      PROVE  IInv'
  BY <1>2, TellingKeeps, DaemonWatch DEF IInv
<1>3. ASSUME Apply \/ Scroll \/ \E s \in Sessions : Click(s) \/ ClickTile(s) PROVE IInv'
  <2>1. TypeOK' /\ WatchFollows'
    BY <1>1, <1>3, CockpitTypes, CockpitWatch
  <2>2. CASE Apply
    BY <2>1, <2>2, ApplyTells DEF IInv
  <2>3. CASE ~Apply
    <3>1. events' = events /\ listed' = listed /\ late' = late /\ cards' = cards
      BY <1>3, <2>3 DEF Scroll, Click, ClickTile, daemonVars, appVars
    <3>2. focused' = focused \/ focused' \in cards
      BY <1>3, <2>3 DEF Scroll, Click, ClickTile, appVars
    <3>3. EventsTell' /\ CardsTell'
      BY <3>1 DEF IInv, EventsTell, CardsTell, Told
    <3>4. FocusTells'
      BY <3>1, <3>2 DEF IInv, CardsTell, FocusTells, Told
    <3> QED
      BY <2>1, <3>3, <3>4 DEF IInv
  <2> QED
    BY <2>2, <2>3
<1>4. CASE RequestGrid
  BY <1>1, <1>4, GridTypes, DaemonTells, TellingKeeps, RequestWatch DEF IInv
<1>5. ASSUME NEW s \in Sessions, Start(s) \/ AddPty(s) \/ List(s) \/ SessionEnd(s) \/ LateHook(s)
             \/ ClosePty(s) \/ Look(s) \/ Push(s) \/ Output(s)
      PROVE  IInv'
  <2>1. TypeOK'
    BY <1>1, <1>5, SessionTypes, GridTypes, OutputTypes
  <2>2. Tells
    BY <1>1, <1>5, DaemonTells
  <2>3. /\ UNCHANGED <<requests, missed>> /\ UNCHANGED watched
        /\ \A t \in Sessions : closing[t] = "unlist" => closing'[t] = "unlist"
    BY <1>1, <1>5
    DEF TypeOK, Start, AddPty, List, SessionEnd, LateHook, ClosePty, Look, Push, Output
  <2> QED
    BY <1>2, <2>1, <2>2, <2>3
<1>6. ASSUME NEW s \in Sessions, Closing(s) PROVE IInv'
  <2>1. CloseWatched(s) \/ Unlist(s)
    BY <1>6 DEF Closing
  <2>2. TypeOK' /\ Tells
    BY <1>1, <2>1, SessionTypes, DaemonTells
  <2>3. UNCHANGED <<requests, missed>>
    BY <2>1 DEF CloseWatched, Unlist
  <2> QED
    BY <1>2, <2>1, <2>2, <2>3
<1>7. CASE UNCHANGED vars
  BY <1>1, <1>2, <1>7 DEF TypeOK, Tells, vars, daemonVars, appVars
<1> QED
  BY <1>3, <1>4, <1>5, <1>6, <1>7 DEF Next, Outside, Jump, Spawning, Pushing

\* In every behaviour of the cockpit and the daemon the inductive invariant holds.
THEOREM Invariance == Spec => []IInv
<1> QED
  BY InitInvariant, NextInvariant, PTL DEF Spec

\* The variables of the two programs keep their types (FleetTermApp, Daemon).
THEOREM TypeCorrect == Spec => []TypeOK
<1>1. IInv => TypeOK
  BY DEF IInv
<1> QED
  BY <1>1, Invariance, PTL

\* When nothing is under way, the pane is on a session of the registry, or on one that
\* sent output or a grid when it had gone (main.rs, apply and its focus).
THEOREM PaneIsListed == Spec => []FocusIsListed
<1>1. IInv => FocusIsListed
  BY DEF IInv, TypeOK, FocusTells, FocusIsListed, Quiet, Told
<1> QED
  BY <1>1, Invariance, PTL

\* When nothing is under way, the daemon watches the session in the pane, but for a
\* request that met no PTY (Daemon::request_grid, main.rs apply).
THEOREM WatchIsOnPane == Spec => []PaneIsWatched
<1>1. IInv => PaneIsWatched
  <2> SUFFICES ASSUME IInv, Quiet, focused # None
               PROVE  \/ watched = focused
                      \/ missed # {} /\ watched \in missed \cup {None}
    BY DEF PaneIsWatched
  <2>1. ~WillMove
    <3>1. Len(events) = 0
      BY DEF Quiet
    <3> QED
      BY <3>1 DEF WillMove
  <2>2. focused \in Sessions
    BY DEF IInv, TypeOK
  <2> QED
    BY <2>1, <2>2 DEF IInv, WatchFollows, Quiet
<1> QED
  BY <1>1, Invariance, PTL
=============================================================================

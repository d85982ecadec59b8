-------------------------- MODULE EventStreamProofs ---------------------------
(***************************************************************************)
(* Proofs about EventStream, for any sessions, writers and clients and any *)
(* capacity of the channel: the types, that a cockpit's view of a session  *)
(* moves forward only, and that there are but three ways for a view to get *)
(* out of step.                                                            *)
(***************************************************************************)
EXTENDS EventStream, SequenceTheorems, TLAPS

-----------------------------------------------------------------------------
(***************************************************************************)
(* The inductive invariant                                                 *)
(***************************************************************************)

\* What an event tells was so, and is so if nothing has changed since.
Tells(e) == /\ e.ver # 0 /\ e.ver <= registry[e.session].ver
            /\ e.ver = registry[e.session].ver => e.listed = registry[e.session].listed

EventsAreTrue == /\ \A n \in 1..Len(sent) : Tells(sent[n])
                 /\ \A w \in Writers : held[w] # NoEvent => Tells(held[w])

Holds(w, s) == held[w] # NoEvent /\ held[w].session = s

\* The last change of a session is told by an event, sent or held.
LastIsTold ==
    \A s \in Sessions : registry[s].ver # 0 =>
        \/ \E n \in 1..Len(sent) : sent[n].session = s /\ sent[n].ver = registry[s].ver
        \/ \E w \in Writers : Holds(w, s) /\ held[w].ver = registry[s].ver

\* A fleet shows sessions as they are or were.
Past(f) == \A s \in Sessions : /\ f[s].ver <= registry[s].ver
                               /\ f[s].ver = registry[s].ver => f[s] = registry[s]

FleetsArePast == \A u \in Clients : Past(view[u]) /\ Past(snapshot[u])

\* Before its receiver is made, a client has nothing or the snapshot, which has
\* all that was sent when it was taken.
BeforeFollowing ==
    \A u \in Clients :
        /\ conn[u] \in {"connected", "snapshot"} => view[u] = NoFleet
        /\ conn[u] = "written" => view[u] = snapshot[u]
        /\ conn[u] \in {"snapshot", "written"} =>
              \A n \in 1..cursor[u] : sent[n].ver <= snapshot[u][sent[n].session].ver

\* Then it has all that its receiver is past, but for what was lost or out of order.
ViewHasPassed ==
    \A u \in Clients, s \in Sessions :
        conn[u] = "following" /\ ~Lost(u, s) /\ InOrder(s) =>
            \A n \in 1..cursor[u] : sent[n].session = s => sent[n].ver <= view[u][s].ver

\* While no two writers cross, at most one has something to tell of a session, and
\* that is newer than all that was sent of it, which is in order.
Uncrossed ==
    \A s \in Sessions \ crossed :
        /\ InOrder(s)
        /\ \A w \in Writers : Holds(w, s) =>
              /\ held[w].ver = registry[s].ver
              /\ \A n \in 1..Len(sent) : sent[n].session = s => sent[n].ver < held[w].ver
              /\ \A x \in Writers : Holds(x, s) => x = w

\* And what is yet to come is no older than what is shown.
ViewIsBehind ==
    \A u \in Clients, s \in Sessions \ crossed :
        conn[u] = "following" =>
            \A n \in cursor[u] + 1..Len(sent) :
                sent[n].session = s => view[u][s].ver <= sent[n].ver

History == /\ EventsAreTrue /\ LastIsTold /\ FleetsArePast /\ BeforeFollowing
           /\ ViewHasPassed /\ Uncrossed /\ ViewIsBehind

IInv == TypeOK /\ History

-----------------------------------------------------------------------------
(***************************************************************************)
(* Types                                                                   *)
(***************************************************************************)

\* What an appended event leaves in its place.
LEMMA Appended ==
    ASSUME NEW q \in Seq(Event), NEW e \in Event
    PROVE  /\ Append(q, e) \in Seq(Event) /\ Len(Append(q, e)) = Len(q) + 1
           /\ \A n \in 1..Len(q) : Append(q, e)[n] = q[n]
           /\ Append(q, e)[Len(q) + 1] = e
           /\ Len(q) \in Nat
  BY DEF Event

\* Every position of `sent' is an event.
LEMMA SentAreEvents ==
    ASSUME TypeOK
    PROVE  Len(sent) \in Nat /\ \A n \in 1..Len(sent) : sent[n] \in Event
  BY DEF TypeOK

LEMMA NewsAreEvents ==
    ASSUME TypeOK, NEW f \in Fleet, NEW i \in Nat, NEW j \in 0..Len(sent)
    PROVE  News(f, i, j) \subseteq Event
  <1>1. \A n \in i+1..j : n \in 1..Len(sent)
    BY SentAreEvents
  <1> QED BY <1>1, SentAreEvents DEF News

\* The initial state has the types of the variables.
LEMMA InitTypes == Init => TypeOK
  <1> SUFFICES ASSUME Init PROVE TypeOK
    OBVIOUS
  <1>1. NoFleet \in Fleet
    BY DEF NoFleet, Fleet, Entry
  <1>2. sent \in Seq(Event) /\ Len(sent) = 0
    BY EmptySeq DEF Init
  <1> QED BY <1>1, <1>2 DEF Init, TypeOK

\* Every step keeps them.
LEMMA StepTypes == TypeOK /\ [Next]_vars => TypeOK'
  <1> SUFFICES ASSUME TypeOK, [Next]_vars PROVE TypeOK'
    OBVIOUS
  <1> USE CapacityAssumption
  <1>1. ASSUME NEW w \in Writers, NEW s \in Sessions, NEW l \in BOOLEAN, Change(w, s, l)
        PROVE  TypeOK'
    <2>1. registry[s] \in Entry
      BY DEF TypeOK, Fleet
    <2>2. [ver |-> registry[s].ver + 1, listed |-> l] \in Entry
          /\ [session |-> s, ver |-> registry[s].ver + 1, listed |-> l] \in Event
      BY <2>1 DEF Entry, Event
    <2> QED BY <1>1, <2>2 DEF Change, TypeOK, Fleet, clientVars
  <1>2. ASSUME NEW w \in Writers, Emit(w) PROVE TypeOK'
    <2>1. held[w] \in Event
      BY <1>2 DEF Emit, TypeOK
    <2>2. sent' \in Seq(Event) /\ Len(sent') = Len(sent) + 1 /\ Len(sent) \in Nat
      BY <1>2, <2>1, Appended DEF Emit, TypeOK
    <2>3. cursor' \in [Clients -> 0..Len(sent')]
      BY <1>2, <2>2 DEF Emit, TypeOK, clientVars
    <2> QED BY <1>2, <2>2, <2>3 DEF Emit, TypeOK, clientVars
  <1>3. ASSUME NEW u \in Clients, TakeSnapshot(u) PROVE TypeOK'
    BY <1>3, SentAreEvents DEF TakeSnapshot, TypeOK, registryVars
  <1>4. ASSUME NEW u \in Clients, WriteSnapshot(u) PROVE TypeOK'
    BY <1>4 DEF WriteSnapshot, TypeOK, registryVars
  <1>5. ASSUME NEW u \in Clients, Follow(u) PROVE TypeOK'
    <2>1. News(snapshot[u], cursor[u], Len(sent)) \subseteq Event
      BY NewsAreEvents, SentAreEvents DEF TypeOK
    <2> QED BY <1>5, <2>1, SentAreEvents DEF Follow, TypeOK, registryVars
  <1>6. ASSUME NEW u \in Clients, Forward(u) PROVE TypeOK'
    <2>1. cursor[u] + 1 \in 1..Len(sent)
      BY <1>6, SentAreEvents DEF Forward, TypeOK
    <2>2. sent[cursor[u] + 1] \in Event
      BY <2>1, SentAreEvents
    <2>3. [ver |-> sent[cursor[u] + 1].ver, listed |-> sent[cursor[u] + 1].listed] \in Entry
      BY <2>2 DEF Event, Entry
    <2>4. view' \in [Clients -> Fleet]
      BY <1>6, <2>3 DEF Forward, TypeOK, Fleet
    <2>5. cursor' \in [Clients -> 0..Len(sent)]
      BY <1>6, <2>1 DEF Forward, TypeOK
    <2> QED BY <1>6, <2>4, <2>5 DEF Forward, TypeOK, registryVars
  <1>7. ASSUME NEW u \in Clients, Skip(u) PROVE TypeOK'
    <2>1. Len(sent) - Capacity \in 0..Len(sent)
      BY <1>7, SentAreEvents DEF Skip, Lagging, TypeOK
    <2>2. News(view[u], cursor[u], Len(sent) - Capacity) \subseteq Event
      BY <2>1, NewsAreEvents DEF TypeOK
    <2> QED BY <1>7, <2>1, <2>2 DEF Skip, TypeOK, registryVars
  <1>8. CASE UNCHANGED vars
    BY <1>8 DEF vars, registryVars, clientVars, TypeOK
  <1> QED BY <1>1, <1>2, <1>3, <1>4, <1>5, <1>6, <1>7, <1>8
          DEF Next, Insert, Update, Remove, Serve

-----------------------------------------------------------------------------
(***************************************************************************)
(* Steps keep the history                                                  *)
(***************************************************************************)

\* What the types say of the values at hand.
LEMMA Values ==
    ASSUME TypeOK
    PROVE  /\ Len(sent) \in Nat
           /\ \A n \in 1..Len(sent) : /\ sent[n] \in Event /\ sent[n].session \in Sessions
                                      /\ sent[n].ver \in Nat /\ sent[n].listed \in BOOLEAN
           /\ \A w \in Writers : held[w] # NoEvent =>
                 /\ held[w] \in Event /\ held[w].session \in Sessions
                 /\ held[w].ver \in Nat /\ held[w].listed \in BOOLEAN
           /\ \A s \in Sessions : registry[s] \in Entry /\ registry[s].ver \in Nat
           /\ \A u \in Clients :
                 /\ cursor[u] \in 0..Len(sent) /\ view[u] \in Fleet /\ snapshot[u] \in Fleet
                 /\ \A s \in Sessions : /\ view[u][s] \in Entry /\ view[u][s].ver \in Nat
                                        /\ snapshot[u][s] \in Entry
                                        /\ snapshot[u][s].ver \in Nat
  <1>1. /\ \A e \in Event : /\ e.session \in Sessions /\ e.ver \in Nat
                            /\ e.listed \in BOOLEAN
        /\ \A r \in Entry : r.ver \in Nat
        /\ \A f \in Fleet, s \in Sessions : f[s] \in Entry
    BY DEF Event, Entry, Fleet
  <1>2. Len(sent) \in Nat /\ \A n \in 1..Len(sent) : sent[n] \in Event
    BY SentAreEvents
  <1>3. /\ \A w \in Writers : held[w] # NoEvent => held[w] \in Event
        /\ \A s \in Sessions : registry[s] \in Entry
        /\ \A u \in Clients :
              cursor[u] \in 0..Len(sent) /\ view[u] \in Fleet /\ snapshot[u] \in Fleet
    BY DEF TypeOK, Fleet
  <1> QED BY <1>1, <1>2, <1>3

LEMMA InitHistory == Init => History
  <1> SUFFICES ASSUME Init PROVE History
    OBVIOUS
  <1> USE InitTypes, Values DEF Init
  <1>1. sent = <<>> /\ Len(sent) = 0
    BY EmptySeq
  <1>2. \A u \in Clients : view[u] = NoFleet /\ snapshot[u] = NoFleet /\ conn[u] = "connected"
    OBVIOUS
  <1>3. EventsAreTrue /\ LastIsTold
    BY <1>1 DEF EventsAreTrue, LastIsTold, NoFleet
  <1>4. FleetsArePast
    BY <1>2 DEF FleetsArePast, Past, NoFleet
  <1>5. BeforeFollowing
    BY <1>2 DEF BeforeFollowing
  <1>6. ViewHasPassed /\ ViewIsBehind
    BY <1>2 DEF ViewHasPassed, ViewIsBehind
  <1>7. Uncrossed
    BY <1>1 DEF Uncrossed, InOrder, Holds
  <1> QED BY <1>3, <1>4, <1>5, <1>6, <1>7 DEF History

\* A change raises the version of one session, and its event is held.
LEMMA ChangeHistory ==
    ASSUME IInv, NEW w \in Writers, NEW s \in Sessions, NEW l \in BOOLEAN, Change(w, s, l)
    PROVE  History'
  <1> DEFINE v == registry[s].ver + 1
  <1> USE DEF IInv
  <1>1. /\ sent' = sent /\ conn' = conn /\ snapshot' = snapshot /\ cursor' = cursor
        /\ view' = view /\ missed' = missed
    BY DEF Change, clientVars
  <1>2. /\ registry'[s] = [ver |-> v, listed |-> l]
        /\ \A r \in Sessions \ {s} : registry'[r] = registry[r]
    BY DEF Change, TypeOK, Fleet
  <1>3. /\ held[w] = NoEvent /\ held'[w] = [session |-> s, ver |-> v, listed |-> l]
        /\ held'[w] # NoEvent
        /\ \A x \in Writers \ {w} : held'[x] = held[x]
    <2>1. [session |-> s, ver |-> v, listed |-> l] \in Event
      BY Values DEF Event
    <2> QED BY <2>1, NoEventAssumption DEF Change, TypeOK
  <1>4. /\ crossed \subseteq crossed'
        /\ s \notin crossed' => \A x \in Writers : ~Holds(x, s)
    BY DEF Change, Holds
  <1>5. EventsAreTrue'
    <2>1. \A e \in Event : Tells(e) => Tells(e)'
      BY <1>2, Values DEF Tells, Event
    <2>2. \A f : f = [session |-> s, ver |-> v, listed |-> l] =>
                    /\ f.ver # 0 /\ f.ver <= registry'[f.session].ver
                    /\ f.ver = registry'[f.session].ver => f.listed = registry'[f.session].listed
      BY <1>2, Values
    <2>3. \A n \in 1..Len(sent) : Tells(sent[n]) /\ sent[n] \in Event
      BY Values DEF History, EventsAreTrue
    <2>4. \A x \in Writers \ {w} : held[x] # NoEvent => Tells(held[x]) /\ held[x] \in Event
      BY Values DEF History, EventsAreTrue
    <2>5. \A n \in 1..Len(sent) : \A f : f = sent[n] => Tells(f)'
      BY <2>1, <2>3
    <2>6. \A x \in Writers : held'[x] # NoEvent => \A f : f = held'[x] => Tells(f)'
      BY <1>3, <2>1, <2>2, <2>4 DEF Tells
    <2> QED BY <1>1, <2>5, <2>6 DEF EventsAreTrue, Tells
  <1>6. LastIsTold'
    <2> SUFFICES ASSUME NEW r \in Sessions, registry'[r].ver # 0
                 PROVE  \/ \E n \in 1..Len(sent) : /\ sent[n].session = r
                                                   /\ sent[n].ver = registry'[r].ver
                        \/ \E x \in Writers : /\ held'[x] # NoEvent /\ held'[x].session = r
                                              /\ held'[x].ver = registry'[r].ver
      BY <1>1 DEF LastIsTold, Holds
    <2>1. CASE r = s
      BY <1>2, <1>3, <2>1
    <2>2. CASE r # s
      BY <1>2, <1>3, <2>2 DEF History, LastIsTold, Holds
    <2> QED BY <2>1, <2>2
  <1>7. FleetsArePast'
    <2> SUFFICES ASSUME NEW u \in Clients, NEW r \in Sessions
                 PROVE  /\ view[u][r].ver <= registry'[r].ver
                        /\ view[u][r].ver = registry'[r].ver => view[u][r] = registry'[r]
                        /\ snapshot[u][r].ver <= registry'[r].ver
                        /\ snapshot[u][r].ver = registry'[r].ver => snapshot[u][r] = registry'[r]
      BY <1>1 DEF FleetsArePast, Past
    <2> QED BY <1>2, Values DEF History, FleetsArePast, Past
  <1>8. BeforeFollowing' /\ ViewHasPassed'
    BY <1>1 DEF History, BeforeFollowing, ViewHasPassed, Lost, InOrder
  <1>9. Uncrossed'
    <2> SUFFICES ASSUME NEW r \in Sessions \ crossed'
                 PROVE  /\ InOrder(r)
                        /\ \A x \in Writers : held'[x] # NoEvent /\ held'[x].session = r =>
                             /\ held'[x].ver = registry'[r].ver
                             /\ \A n \in 1..Len(sent) :
                                   sent[n].session = r => sent[n].ver < held'[x].ver
                             /\ \A y \in Writers : held'[y] # NoEvent /\ held'[y].session = r
                                                   => y = x
      BY <1>1 DEF Uncrossed, Holds, InOrder
    <2>1. r \in Sessions \ crossed
      BY <1>4
    <2>2. CASE r # s
      BY <1>2, <1>3, <2>1, <2>2 DEF History, Uncrossed, Holds
    <2>3. CASE r = s
      <3>1. \A x \in Writers : held'[x] # NoEvent /\ held'[x].session = s => x = w
        BY <1>3, <1>4, <2>3 DEF Holds
      <3>2. \A n \in 1..Len(sent) : sent[n].session = s => sent[n].ver < v
        BY Values DEF History, EventsAreTrue, Tells
      <3> QED BY <1>2, <1>3, <2>1, <2>3, <3>1, <3>2 DEF History, Uncrossed
    <2> QED BY <2>2, <2>3
  <1>10. ViewIsBehind'
    BY <1>1, <1>4 DEF History, ViewIsBehind
  <1> QED BY <1>5, <1>6, <1>7, <1>8, <1>9, <1>10 DEF History

\* The event that is sent is the newest, if no two writers of its session crossed.
LEMMA EmitHistory ==
    ASSUME IInv, NEW w \in Writers, Emit(w)
    PROVE  History'
  <1> DEFINE e == held[w]
             last == Len(sent) + 1
  <1> USE DEF IInv
  <1>1. /\ registry' = registry /\ crossed' = crossed /\ conn' = conn
        /\ snapshot' = snapshot /\ cursor' = cursor /\ view' = view /\ missed' = missed
    BY DEF Emit, clientVars
  <1>2. e # NoEvent /\ e \in Event /\ e.session \in Sessions /\ e.ver \in Nat
    BY Values DEF Emit
  <1>3. /\ Len(sent') = last /\ sent'[last] = e /\ Len(sent) \in Nat
        /\ \A n \in 1..Len(sent) : sent'[n] = sent[n]
    BY <1>2, Appended DEF Emit, TypeOK
  <1>4. held'[w] = NoEvent /\ \A x \in Writers \ {w} : held'[x] = held[x]
    BY DEF Emit, TypeOK
  <1>5. \A n \in 1..last : n \in 1..Len(sent) \/ n = last
    BY <1>3
  <1>6. EventsAreTrue'
    <2>1. Tells(e)
      BY <1>2 DEF History, EventsAreTrue
    <2>2. \A f : Tells(f)' <=> Tells(f)
      BY <1>1 DEF Tells
    <2>3. \A n \in 1..last : Tells(sent'[n])
      BY <1>3, <1>5, <2>1 DEF History, EventsAreTrue
    <2>4. \A x \in Writers : held'[x] # NoEvent => Tells(held'[x])
      BY <1>4 DEF History, EventsAreTrue
    <2> QED BY <1>3, <2>2, <2>3, <2>4 DEF EventsAreTrue
  <1>7. LastIsTold'
    <2> SUFFICES ASSUME NEW r \in Sessions, registry[r].ver # 0
                 PROVE  \/ \E n \in 1..last : /\ sent'[n].session = r
                                              /\ sent'[n].ver = registry[r].ver
                        \/ \E x \in Writers : /\ held'[x] # NoEvent /\ held'[x].session = r
                                              /\ held'[x].ver = registry[r].ver
      BY <1>1, <1>3 DEF LastIsTold, Holds
    <2>1. CASE \E n \in 1..Len(sent) : sent[n].session = r /\ sent[n].ver = registry[r].ver
      BY <1>3, <2>1
    <2>2. CASE \E x \in Writers : Holds(x, r) /\ held[x].ver = registry[r].ver
      <3>1. PICK x \in Writers : Holds(x, r) /\ held[x].ver = registry[r].ver
        BY <2>2
      <3>2. last \in 1..last
        BY <1>3
      <3> QED BY <1>3, <1>4, <3>1, <3>2 DEF Holds
    <2> QED BY <2>1, <2>2 DEF History, LastIsTold
  <1>8. FleetsArePast'
    BY <1>1 DEF History, FleetsArePast, Past
  <1>9. BeforeFollowing'
    <2>1. \A u \in Clients : \A n \in 1..cursor[u] : sent'[n] = sent[n]
      BY <1>3, Values
    <2> QED BY <1>1, <2>1 DEF History, BeforeFollowing
  <1>10. \A s \in Sessions : InOrder(s)' => InOrder(s)
    BY <1>3 DEF InOrder
  <1>11. ViewHasPassed'
    <2>1. \A u \in Clients : \A n \in 1..cursor[u] : sent'[n] = sent[n]
      BY <1>3, Values
    <2> QED BY <1>1, <1>10, <2>1 DEF History, ViewHasPassed, Lost
  <1>12. Uncrossed'
    <2> SUFFICES ASSUME NEW r \in Sessions \ crossed
                 PROVE  /\ \A i, j \in 1..last :
                              i < j /\ sent'[i].session = r /\ sent'[j].session = r
                              => sent'[i].ver < sent'[j].ver
                        /\ \A x \in Writers : held'[x] # NoEvent /\ held'[x].session = r =>
                             /\ held'[x].ver = registry[r].ver
                             /\ \A n \in 1..last :
                                   sent'[n].session = r => sent'[n].ver < held'[x].ver
                             /\ \A y \in Writers : held'[y] # NoEvent /\ held'[y].session = r
                                                   => y = x
      BY <1>1, <1>3 DEF Uncrossed, Holds, InOrder
    <2>1. InOrder(r)
      BY DEF History, Uncrossed
    <2>2. e.session = r => \A n \in 1..Len(sent) : sent[n].session = r => sent[n].ver < e.ver
      BY <1>2 DEF History, Uncrossed, Holds
    <2>3. e.session = r => \A x \in Writers : ~(held'[x] # NoEvent /\ held'[x].session = r)
      BY <1>2, <1>4 DEF History, Uncrossed, Holds
    <2>4. ASSUME NEW i \in 1..last, NEW j \in 1..last,
                 i < j, sent'[i].session = r, sent'[j].session = r
          PROVE  sent'[i].ver < sent'[j].ver
      <3>1. i \in 1..Len(sent)
        BY <1>3, <2>4
      <3> QED BY <1>3, <1>5, <2>1, <2>2, <2>4, <3>1 DEF InOrder
    <2>5. ASSUME NEW x \in Writers, held'[x] # NoEvent, held'[x].session = r
          PROVE  /\ held'[x].ver = registry[r].ver
                 /\ \A n \in 1..last : sent'[n].session = r => sent'[n].ver < held'[x].ver
                 /\ \A y \in Writers : held'[y] # NoEvent /\ held'[y].session = r => y = x
      <3>1. x # w /\ held'[x] = held[x] /\ e.session # r
        BY <1>4, <2>3, <2>5
      <3>2. Holds(x, r)
        BY <2>5, <3>1 DEF Holds
      <3>3. /\ held[x].ver = registry[r].ver
            /\ \A n \in 1..Len(sent) : sent[n].session = r => sent[n].ver < held[x].ver
            /\ \A y \in Writers : Holds(y, r) => y = x
        BY <3>2 DEF History, Uncrossed
      <3>4. \A n \in 1..last : sent'[n].session = r => sent'[n].ver < held'[x].ver
        BY <1>3, <1>5, <3>1, <3>3
      <3>5. \A y \in Writers : held'[y] # NoEvent /\ held'[y].session = r => y = x
        BY <1>4, <3>3 DEF Holds
      <3> QED BY <3>1, <3>3, <3>4, <3>5
    <2> QED BY <2>4, <2>5
  <1>13. ViewIsBehind'
    <2> SUFFICES ASSUME NEW u \in Clients, NEW r \in Sessions \ crossed,
                        conn[u] = "following",
                        NEW n \in cursor[u] + 1..last, sent'[n].session = r
                 PROVE  view[u][r].ver <= sent'[n].ver
      BY <1>1, <1>3 DEF ViewIsBehind
    <2>1. CASE n = last
      <3>1. e.session = r /\ e.ver = registry[r].ver
        BY <1>2, <1>3, <2>1 DEF History, Uncrossed, Holds
      <3> QED BY <1>3, <2>1, <3>1 DEF History, FleetsArePast, Past
    <2>2. CASE n # last
      <3>1. n \in cursor[u] + 1..Len(sent) /\ n \in 1..Len(sent)
        BY <1>3, <2>2, Values
      <3> QED BY <1>3, <3>1 DEF History, ViewIsBehind
    <2> QED BY <2>1, <2>2
  <1> QED BY <1>6, <1>7, <1>8, <1>9, <1>11, <1>12, <1>13 DEF History

\* A step of a connection leaves the registry and what was sent alone.
LEMMA ServeHistory ==
    ASSUME IInv, UNCHANGED registryVars,
           FleetsArePast', BeforeFollowing', ViewHasPassed', ViewIsBehind'
    PROVE  History'
  <1>1. EventsAreTrue' /\ LastIsTold'
    BY DEF IInv, History, EventsAreTrue, Tells, LastIsTold, Holds, registryVars
  <1>2. Uncrossed'
    BY DEF IInv, History, Uncrossed, InOrder, Holds, registryVars
  <1> QED BY <1>1, <1>2 DEF History

LEMMA TakeSnapshotHistory ==
    ASSUME IInv, NEW u \in Clients, TakeSnapshot(u)
    PROVE  History'
  <1> USE DEF IInv
  <1>1. /\ UNCHANGED <<registryVars, sent, registry, view, missed, crossed>>
        /\ conn[u] = "connected" /\ conn'[u] = "snapshot"
        /\ snapshot'[u] = registry /\ cursor'[u] = Len(sent)
        /\ \A x \in Clients \ {u} : /\ conn'[x] = conn[x] /\ snapshot'[x] = snapshot[x]
                                    /\ cursor'[x] = cursor[x]
    BY DEF TakeSnapshot, TypeOK, registryVars
  <1>2. \A n \in 1..Len(sent) : sent[n].ver <= registry[sent[n].session].ver
    BY DEF History, EventsAreTrue, Tells
  <1>3. FleetsArePast'
    BY <1>1, Values DEF History, FleetsArePast, Past
  <1>4. BeforeFollowing'
    <2> SUFFICES ASSUME NEW x \in Clients
                 PROVE  /\ conn'[x] \in {"connected", "snapshot"} => view[x] = NoFleet
                        /\ conn'[x] = "written" => view[x] = snapshot'[x]
                        /\ conn'[x] \in {"snapshot", "written"} =>
                              \A n \in 1..cursor'[x] :
                                 sent[n].ver <= snapshot'[x][sent[n].session].ver
      BY <1>1 DEF BeforeFollowing, NoFleet
    <2>1. CASE x = u
      BY <1>1, <1>2, <2>1 DEF History, BeforeFollowing
    <2>2. CASE x # u
      BY <1>1, <2>2 DEF History, BeforeFollowing
    <2> QED BY <2>1, <2>2
  <1>5. ViewHasPassed' /\ ViewIsBehind'
    BY <1>1 DEF History, ViewHasPassed, ViewIsBehind, Lost, InOrder
  <1> QED BY <1>1, <1>3, <1>4, <1>5, ServeHistory

LEMMA WriteSnapshotHistory ==
    ASSUME IInv, NEW u \in Clients, WriteSnapshot(u)
    PROVE  History'
  <1> USE DEF IInv
  <1>1. /\ UNCHANGED <<registryVars, sent, registry, snapshot, cursor, missed, crossed>>
        /\ conn[u] = "snapshot" /\ conn'[u] = "written" /\ view'[u] = snapshot[u]
        /\ \A x \in Clients \ {u} : conn'[x] = conn[x] /\ view'[x] = view[x]
    BY DEF WriteSnapshot, TypeOK, registryVars
  <1>2. FleetsArePast'
    BY <1>1 DEF History, FleetsArePast, Past
  <1>3. BeforeFollowing'
    BY <1>1 DEF History, BeforeFollowing, NoFleet
  <1>4. ViewHasPassed' /\ ViewIsBehind'
    BY <1>1 DEF History, ViewHasPassed, ViewIsBehind, Lost, InOrder
  <1> QED BY <1>1, <1>2, <1>3, <1>4, ServeHistory

\* What was sent since the snapshot and is news to it is missed.
LEMMA FollowHistory ==
    ASSUME IInv, NEW u \in Clients, Follow(u)
    PROVE  History'
  <1> USE DEF IInv
  <1>1. /\ UNCHANGED <<registryVars, sent, registry, snapshot, view, crossed>>
        /\ conn[u] = "written" /\ conn'[u] = "following" /\ cursor'[u] = Len(sent)
        /\ missed'[u] = News(snapshot[u], cursor[u], Len(sent))
        /\ \A x \in Clients \ {u} : /\ conn'[x] = conn[x] /\ cursor'[x] = cursor[x]
                                    /\ missed'[x] = missed[x]
    BY DEF Follow, TypeOK, registryVars
  <1>2. view[u] = snapshot[u]
        /\ \A n \in 1..cursor[u] : sent[n].ver <= snapshot[u][sent[n].session].ver
    BY <1>1 DEF History, BeforeFollowing
  <1>3. FleetsArePast' /\ BeforeFollowing'
    BY <1>1 DEF History, FleetsArePast, Past, BeforeFollowing, NoFleet
  <1>4. ViewHasPassed'
    <2> SUFFICES ASSUME NEW x \in Clients, NEW s \in Sessions, conn'[x] = "following",
                        ~(\E e \in missed'[x] : e.session = s), InOrder(s),
                        NEW n \in 1..cursor'[x], sent[n].session = s
                 PROVE  sent[n].ver <= view[x][s].ver
      BY <1>1 DEF ViewHasPassed, Lost, InOrder
    <2>1. CASE x # u
      BY <1>1, <2>1 DEF History, ViewHasPassed, Lost
    <2>2. CASE x = u /\ n \in 1..cursor[u]
      BY <1>2, <2>2
    <2>3. CASE x = u /\ n \notin 1..cursor[u]
      <3>1. n \in cursor[u] + 1..Len(sent) /\ n \in 1..Len(sent)
        BY <1>1, <2>3, Values
      <3>2. sent[n] \notin News(snapshot[u], cursor[u], Len(sent))
        BY <1>1, <2>3
      <3>3. ~(sent[n].ver > snapshot[u][s].ver)
        BY <3>1, <3>2 DEF News
      <3>4. sent[n].ver \in Nat /\ snapshot[u][s].ver \in Nat
        BY <3>1, Values
      <3> QED BY <1>2, <2>3, <3>3, <3>4
    <2> QED BY <2>1, <2>2, <2>3
  <1>5. ViewIsBehind'
    <2>1. \A n : n \notin Len(sent) + 1..Len(sent)
      BY Values
    <2> QED BY <1>1, <2>1 DEF History, ViewIsBehind
  <1> QED BY <1>1, <1>3, <1>4, <1>5, ServeHistory

\* The event that is shown was the next.
LEMMA ForwardHistory ==
    ASSUME IInv, NEW u \in Clients, Forward(u)
    PROVE  History'
  <1> USE DEF IInv
  <1> DEFINE next == cursor[u] + 1
             e == sent[next]
  <1>1. next \in 1..Len(sent) /\ e.session \in Sessions /\ e.ver \in Nat
        /\ cursor[u] \in 0..Len(sent)
    BY Values DEF Forward
  <1>2. /\ UNCHANGED <<registryVars, sent, registry, conn, snapshot, missed, crossed>>
        /\ conn[u] = "following" /\ cursor'[u] = next
        /\ view'[u][e.session] = [ver |-> e.ver, listed |-> e.listed]
        /\ \A s \in Sessions \ {e.session} : view'[u][s] = view[u][s]
        /\ \A x \in Clients \ {u} : cursor'[x] = cursor[x] /\ view'[x] = view[x]
    BY <1>1 DEF Forward, TypeOK, Fleet, registryVars
  <1>3. Tells(e)
    BY <1>1 DEF History, EventsAreTrue
  <1>4. FleetsArePast'
    <2> SUFFICES ASSUME NEW x \in Clients, NEW s \in Sessions
                 PROVE  /\ view'[x][s].ver <= registry[s].ver
                        /\ view'[x][s].ver = registry[s].ver => view'[x][s] = registry[s]
      BY <1>2 DEF History, FleetsArePast, Past
    <2>1. CASE x = u /\ s = e.session
      <3>1. registry[s] = [ver |-> registry[s].ver, listed |-> registry[s].listed]
        BY Values DEF Entry
      <3> QED BY <1>2, <1>3, <2>1, <3>1 DEF Tells
    <2>2. CASE ~(x = u /\ s = e.session)
      BY <1>2, <2>2 DEF History, FleetsArePast, Past
    <2> QED BY <2>1, <2>2
  <1>5. BeforeFollowing'
    BY <1>2 DEF History, BeforeFollowing, NoFleet
  <1>6. ViewHasPassed'
    <2> SUFFICES ASSUME NEW x \in Clients, NEW s \in Sessions, conn[x] = "following",
                        ~Lost(x, s), InOrder(s), NEW n \in 1..cursor'[x], sent[n].session = s
                 PROVE  sent[n].ver <= view'[x][s].ver
      BY <1>2 DEF ViewHasPassed, Lost, InOrder
    <2>1. CASE x # u
      BY <1>2, <2>1 DEF History, ViewHasPassed
    <2>2. CASE x = u /\ n = next
      BY <1>1, <1>2, <2>2
    <2>3. CASE x = u /\ n # next
      <3>1. n \in 1..cursor[u] /\ n \in 1..Len(sent) /\ n < next
        BY <1>1, <1>2, <2>3
      <3>2. CASE s = e.session
        <4>1. sent[n].ver < e.ver
          BY <1>1, <3>1, <3>2 DEF InOrder
        <4>2. view'[x][s].ver = e.ver
          BY <1>2, <2>3, <3>2
        <4>3. e.ver \in Nat /\ sent[n].ver \in Nat
          BY <1>1, <3>1, Values
        <4> QED BY <4>1, <4>2, <4>3
      <3>3. CASE s # e.session
        BY <1>2, <2>3, <3>1, <3>3 DEF History, ViewHasPassed
      <3> QED BY <3>2, <3>3
    <2> QED BY <2>1, <2>2, <2>3
  <1>7. ViewIsBehind'
    <2> SUFFICES ASSUME NEW x \in Clients, NEW s \in Sessions \ crossed,
                        conn[x] = "following",
                        NEW n \in cursor'[x] + 1..Len(sent), sent[n].session = s
                 PROVE  view'[x][s].ver <= sent[n].ver
      BY <1>2 DEF ViewIsBehind
    <2>1. CASE x # u
      BY <1>2, <2>1 DEF History, ViewIsBehind
    <2>2. CASE x = u
      <3>1. n \in cursor[u] + 1..Len(sent) /\ n \in 1..Len(sent) /\ next < n
        BY <1>1, <1>2, <2>2
      <3>2. CASE s = e.session
        <4>1. e.ver < sent[n].ver
          BY <1>1, <3>1, <3>2 DEF History, Uncrossed, InOrder
        <4>2. view'[x][s].ver = e.ver
          BY <1>2, <2>2, <3>2
        <4>3. e.ver \in Nat /\ sent[n].ver \in Nat
          BY <1>1, <3>1, Values
        <4> QED BY <4>1, <4>2, <4>3
      <3>3. CASE s # e.session
        BY <1>2, <2>2, <3>1, <3>3 DEF History, ViewIsBehind
      <3> QED BY <3>2, <3>3
    <2> QED BY <2>1, <2>2
  <1> QED BY <1>2, <1>4, <1>5, <1>6, <1>7, ServeHistory

\* What a lagging receiver skips and is news to the view is missed.
LEMMA SkipHistory ==
    ASSUME IInv, NEW u \in Clients, Skip(u)
    PROVE  History'
  <1> USE DEF IInv
  <1> DEFINE oldest == Len(sent) - Capacity
  <1>1. oldest \in 0..Len(sent) /\ cursor[u] \in 0..Len(sent) /\ cursor[u] < oldest
    BY CapacityAssumption, Values DEF Skip, Lagging
  <1>2. /\ UNCHANGED <<registryVars, sent, registry, conn, snapshot, view, crossed>>
        /\ conn[u] = "following" /\ cursor'[u] = oldest
        /\ missed'[u] = missed[u] \cup News(view[u], cursor[u], oldest)
        /\ \A x \in Clients \ {u} : cursor'[x] = cursor[x] /\ missed'[x] = missed[x]
    BY DEF Skip, TypeOK, registryVars
  <1>3. FleetsArePast' /\ BeforeFollowing'
    BY <1>2 DEF History, FleetsArePast, Past, BeforeFollowing, NoFleet
  <1>4. ViewHasPassed'
    <2> SUFFICES ASSUME NEW x \in Clients, NEW s \in Sessions, conn[x] = "following",
                        ~(\E e \in missed'[x] : e.session = s), InOrder(s),
                        NEW n \in 1..cursor'[x], sent[n].session = s
                 PROVE  sent[n].ver <= view[x][s].ver
      BY <1>2 DEF ViewHasPassed, Lost, InOrder
    <2>1. CASE x # u \/ n \in 1..cursor[u]
      BY <1>2, <2>1 DEF History, ViewHasPassed, Lost
    <2>2. CASE x = u /\ n \notin 1..cursor[u]
      <3>1. n \in cursor[u] + 1..oldest /\ n \in 1..Len(sent)
        BY <1>1, <1>2, <2>2
      <3>2. sent[n] \notin News(view[u], cursor[u], oldest)
        BY <1>2, <2>2
      <3> QED BY <2>2, <3>1, <3>2, Values DEF News
    <2> QED BY <2>1, <2>2
  <1>5. ViewIsBehind'
    <2>1. \A n \in oldest + 1..Len(sent) : n \in cursor[u] + 1..Len(sent)
      BY <1>1
    <2> QED BY <1>2, <2>1 DEF History, ViewIsBehind
  <1> QED BY <1>2, <1>3, <1>4, <1>5, ServeHistory

-----------------------------------------------------------------------------
(***************************************************************************)
(* The theorems                                                            *)
(***************************************************************************)

\* The inductive invariant: what events, fleets and receivers say of each other.
THEOREM Invariance == Spec => []IInv
  <1>1. Init => IInv
    BY InitTypes, InitHistory DEF IInv
  <1>2. IInv /\ [Next]_vars => IInv'
    <2> SUFFICES ASSUME IInv, [Next]_vars PROVE History'
      BY StepTypes DEF IInv
    <2>1. CASE UNCHANGED vars
      <3>1. UNCHANGED <<registryVars, registry, sent, crossed, conn, snapshot, cursor, view,
                        missed>>
        BY <2>1 DEF vars, registryVars, clientVars
      <3>2. FleetsArePast' /\ BeforeFollowing'
        BY <3>1 DEF IInv, History, FleetsArePast, Past, BeforeFollowing, NoFleet
      <3>3. ViewHasPassed' /\ ViewIsBehind'
        BY <3>1 DEF IInv, History, ViewHasPassed, ViewIsBehind, Lost, InOrder
      <3> QED BY <3>1, <3>2, <3>3, ServeHistory
    <2> QED BY <2>1, ChangeHistory, EmitHistory, TakeSnapshotHistory, WriteSnapshotHistory,
               FollowHistory, ForwardHistory, SkipHistory
            DEF Next, Insert, Update, Remove, Serve
  <1> QED BY <1>1, <1>2, PTL DEF Spec

\* The types of EventStream hold in every reachable state.
THEOREM TypeCorrect == Spec => []TypeOK
  <1>1. IInv => TypeOK
    BY DEF IInv
  <1> QED BY <1>1, Invariance, PTL

\* A cockpit's view of a session gets out of step with the registry in three ways
\* only: an event in the gap before the receiver, one skipped, or two that crossed.
THEOREM ViewsAgree == Spec => []QuietViewIsFleet
  <1>1. IInv => QuietViewIsFleet
    <2> SUFFICES ASSUME IInv, NEW u \in Clients, NEW s \in Sessions,
                        Quiet(u), ~Lost(u, s), InOrder(s)
                 PROVE  view[u][s] = registry[s]
      BY DEF QuietViewIsFleet
    <2> USE DEF IInv
    <2>1. /\ view[u][s].ver <= registry[s].ver
          /\ view[u][s].ver = registry[s].ver => view[u][s] = registry[s]
      BY DEF History, FleetsArePast, Past
    <2>2. registry[s].ver <= view[u][s].ver
      <3>1. CASE registry[s].ver = 0
        BY <3>1, Values
      <3>2. CASE registry[s].ver # 0
        <4>1. PICK n \in 1..Len(sent) :
                  sent[n].session = s /\ sent[n].ver = registry[s].ver
          BY <3>2 DEF History, LastIsTold, Holds, Quiet
        <4>2. sent[n].ver <= view[u][s].ver
          BY <4>1 DEF History, ViewHasPassed, Quiet
        <4> QED BY <4>1, <4>2
      <3> QED BY <3>1, <3>2
    <2> QED BY <2>1, <2>2, Values
  <1> QED BY <1>1, Invariance, PTL

\* No step shows an older state of a session after a newer one, unless two writers
\* of that session crossed.
THEOREM ViewsMoveForward == Spec => ViewMovesForward
  <1>1. IInv /\ [Next]_vars =>
            [\A u \in Clients, s \in Sessions \ crossed : view'[u][s].ver >= view[u][s].ver]_vars
    <2> SUFFICES ASSUME IInv, [Next]_vars, NEW u \in Clients, NEW s \in Sessions \ crossed
                 PROVE  view'[u][s].ver >= view[u][s].ver
      OBVIOUS
    <2> USE Values DEF IInv
    <2>1. CASE view' = view
      BY <2>1
    <2>2. ASSUME NEW x \in Clients, WriteSnapshot(x) PROVE view'[u][s].ver >= view[u][s].ver
      <3>1. CASE x = u
        <4>1. view[u] = NoFleet /\ view'[u] = snapshot[u]
          BY <2>2, <3>1 DEF WriteSnapshot, TypeOK, History, BeforeFollowing
        <4> QED BY <4>1 DEF NoFleet
      <3>2. CASE x # u
        BY <2>2, <3>2 DEF WriteSnapshot, TypeOK
      <3> QED BY <3>1, <3>2
    <2>3. ASSUME NEW x \in Clients, Forward(x) PROVE view'[u][s].ver >= view[u][s].ver
      <3>1. /\ conn[x] = "following" /\ cursor[x] + 1 \in cursor[x] + 1..Len(sent)
            /\ cursor[x] + 1 \in 1..Len(sent)
        BY <2>3 DEF Forward
      <3>2. sent[cursor[x] + 1].session \in Sessions
        BY <3>1
      <3>3. CASE x = u /\ s = sent[cursor[x] + 1].session
        <4>1. view'[u][s].ver = sent[cursor[u] + 1].ver
          BY <2>3, <3>3 DEF Forward, TypeOK, Fleet
        <4>2. view[u][s].ver <= sent[cursor[u] + 1].ver
          BY <3>1, <3>3 DEF History, ViewIsBehind
        <4> QED BY <3>1, <3>3, <4>1, <4>2
      <3>4. CASE ~(x = u /\ s = sent[cursor[x] + 1].session)
        <4>1. view'[u][s] = view[u][s]
          BY <2>3, <3>2, <3>4 DEF Forward, TypeOK, Fleet
        <4> QED BY <4>1
      <3> QED BY <3>3, <3>4
    <2> QED BY <2>1, <2>2, <2>3 DEF Next, Insert, Update, Remove, Change, Emit, Serve,
               TakeSnapshot, Follow, Skip, vars, clientVars
  <1> QED BY <1>1, Invariance, PTL DEF Spec, ViewMovesForward
=============================================================================

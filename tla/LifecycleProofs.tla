-------------------------- MODULE LifecycleProofs ---------------------------
(***************************************************************************)
(* Proofs about Lifecycle and, in the second part, about Pipelines, for    *)
(* every set of sessions, requests and specs: type correctness, that       *)
(* nothing a session owns gets out of reach, what Done means, and that     *)
(* closed sessions stay closed; then that the sessions of Pipelines live   *)
(* as Lifecycle says, so that all of this holds of them, and that a spec   *)
(* fires once and only after Done.                                         *)
(***************************************************************************)
EXTENDS Pipelines, TLAPS

(***************************************************************************)
(* The inductive invariant                                                 *)
(***************************************************************************)

\* How far spawn, close and the poller of a session have got, and what that says
\* about what it owns.
Stages(s) ==
    /\ Listed(s) => spawn[s] = "listed"
    /\ spawn[s] = "pty" => s \in ptys
    /\ closing[s] # "no" => ~Alive(s)
    /\ closing[s] \in {"remove", "unlist"} => s \notin worktrees
    /\ poll[s] = "Done" => child[s] = "reaped"

\* The invariants of Lifecycle, for one session.
Sound(s) ==
    /\ Stages(s)
    /\ spawn[s] = "listed" /\ Alive(s) => Listed(s) /\ s \in ptys
    /\ s \in worktrees => Listed(s) \/ spawn[s] # "listed"
    /\ state[s] = "Done" => child[s] = "reaped" /\ poll[s] = "off"

IInv == TypeOK /\ \A s \in Sessions : Sound(s)

\* A step of one session, as Next has them.
Step(s) == \/ Begin(s) \/ Spawning(s) \/ Exit(s) \/ Edit(s) \/ Polling(s)
           \/ Ordering(s) \/ SetOrdered(s) \/ ClosePty(s) \/ Closing(s)

-----------------------------------------------------------------------------
\* The initial state, in which nothing exists, satisfies it.
LEMMA InitIInv == Init => IInv
<1> SUFFICES ASSUME Init PROVE IInv
  OBVIOUS
<1>1. TypeOK
  BY DEF Init, TypeOK, Types
<1>2. ASSUME NEW s \in Sessions PROVE Sound(s)
  BY DEF Init, Sound, Stages, Listed, Alive
<1> QED
  BY <1>1, <1>2 DEF IInv

\* Every step of a session keeps the variables well typed; for the last conjunct
\* of TypeOK, only listed sessions are closed or ordered about.
LEMMA StepTypeOK ==
  ASSUME IInv, NEW s \in Sessions, Step(s) PROVE TypeOK'
<1>0. TypeOK /\ Stages(s)
  BY DEF IInv, Sound
<1> USE DEF TypeOK, Types
<1>1. CASE Begin(s)
  <2>0. worktrees \subseteq Sessions /\ tree \in [Sessions -> {"none", "clean", "dirty"}]
    BY <1>0
  <2>1. worktrees' \subseteq Sessions /\ tree' \in [Sessions -> {"none", "clean", "dirty"}]
    BY <2>0, <1>1 DEF Begin
  <2>2. /\ spawn[s] = "none" /\ spawn' = [spawn EXCEPT ![s] = "begun"]
        /\ UNCHANGED <<ptys, child, state, poll, order, closing>>
    BY <1>1 DEF Begin
  <2> QED
    BY <1>0, <2>1, <2>2
<1>2. CASE StartChild(s)
  BY <1>0, <1>2 DEF StartChild
<1>3. CASE AddPty(s)
  BY <1>0, <1>3 DEF AddPty
<1>4. CASE List(s)
  BY <1>0, <1>4 DEF List
<1>5. CASE Exit(s)
  BY <1>0, <1>5 DEF Exit
<1>6. CASE Edit(s)
  BY <1>0, <1>6 DEF Edit
<1>7. CASE PollExit(s)
  BY <1>0, <1>7 DEF PollExit
<1>8. CASE PollScreen(s)
  BY <1>0, <1>8 DEF PollScreen, InferState
<1>9. CASE PollSet(s)
  BY <1>0, <1>9 DEF PollSet, SetState
<1>10. CASE PollDone(s)
  BY <1>0, <1>10 DEF PollDone, SetState
<1>11. CASE Pause(s)
  BY <1>0, <1>11 DEF Pause, CanOrder, Stages
<1>12. CASE Resume(s)
  BY <1>0, <1>12 DEF Resume, CanOrder, Stages
<1>13. CASE Stop(s)
  BY <1>0, <1>13 DEF Stop, Kill, CanOrder, Stages
<1>14. CASE Decide(s)
  BY <1>0, <1>14 DEF Decide, CanOrder, Stages
<1>15. CASE SetOrdered(s)
  BY <1>0, <1>15 DEF SetOrdered, SetState
<1>16. CASE ClosePty(s)
  BY <1>0, <1>16 DEF ClosePty, Kill, Stages
<1>17. CASE CloseTree(s)
  BY <1>0, <1>17 DEF CloseTree
<1>18. CASE RemoveTree(s)
  BY <1>0, <1>18 DEF RemoveTree
<1>19. CASE Unlist(s)
  BY <1>0, <1>19 DEF Unlist
<1> QED
  BY <1>1, <1>2, <1>3, <1>4, <1>5, <1>6, <1>7, <1>8, <1>9, <1>10, <1>11,
     <1>12, <1>13, <1>14, <1>15, <1>16, <1>17, <1>18, <1>19
  DEF Step, Spawning, Polling, Ordering, Closing

\* A step of one session leaves the others alone.
LEMMA StepFrame ==
  ASSUME IInv, NEW s \in Sessions, Step(s), NEW r \in Sessions, r # s
  PROVE  /\ spawn'[r] = spawn[r] /\ child'[r] = child[r] /\ state'[r] = state[r]
         /\ poll'[r] = poll[r] /\ closing'[r] = closing[r] /\ tree'[r] = tree[r]
         /\ r \in ptys' <=> r \in ptys
         /\ r \in worktrees' <=> r \in worktrees
<1>0. Types
  BY DEF IInv, TypeOK
<1> USE DEF Types
<1>1. CASE Begin(s)
  BY <1>0, <1>1 DEF Begin
<1>2. CASE StartChild(s)
  BY <1>0, <1>2 DEF StartChild
<1>3. CASE AddPty(s)
  BY <1>0, <1>3 DEF AddPty
<1>4. CASE List(s)
  BY <1>0, <1>4 DEF List
<1>5. CASE Exit(s)
  BY <1>0, <1>5 DEF Exit
<1>6. CASE Edit(s)
  BY <1>0, <1>6 DEF Edit
<1>7. CASE PollExit(s)
  BY <1>0, <1>7 DEF PollExit
<1>8. CASE PollScreen(s)
  BY <1>0, <1>8 DEF PollScreen, InferState
<1>9. CASE PollSet(s)
  BY <1>0, <1>9 DEF PollSet, SetState
<1>10. CASE PollDone(s)
  BY <1>0, <1>10 DEF PollDone, SetState
<1>11. CASE Pause(s)
  BY <1>0, <1>11 DEF Pause
<1>12. CASE Resume(s)
  BY <1>0, <1>12 DEF Resume
<1>13. CASE Stop(s)
  BY <1>0, <1>13 DEF Stop, Kill
<1>14. CASE Decide(s)
  BY <1>0, <1>14 DEF Decide
<1>15. CASE SetOrdered(s)
  BY <1>0, <1>15 DEF SetOrdered, SetState
<1>16. CASE ClosePty(s)
  BY <1>0, <1>16 DEF ClosePty, Kill
<1>17. CASE CloseTree(s)
  BY <1>0, <1>17 DEF CloseTree
<1>18. CASE RemoveTree(s)
  BY <1>0, <1>18 DEF RemoveTree
<1>19. CASE Unlist(s)
  BY <1>0, <1>19 DEF Unlist
<1> QED
  BY <1>1, <1>2, <1>3, <1>4, <1>5, <1>6, <1>7, <1>8, <1>9, <1>10, <1>11,
     <1>12, <1>13, <1>14, <1>15, <1>16, <1>17, <1>18, <1>19
  DEF Step, Spawning, Polling, Ordering, Closing

\* A step of a session keeps what it owns in reach.
LEMMA StepSound ==
  ASSUME IInv, NEW s \in Sessions, Step(s) PROVE Sound(s)'
<1> USE DEF TypeOK, Types, Sound, Stages, Listed, Alive
<1>0. TypeOK /\ Sound(s)
  BY DEF IInv
<1>1. CASE Begin(s)
  BY <1>0, <1>1 DEF Begin
<1>2. CASE StartChild(s)
  BY <1>0, <1>2 DEF StartChild
<1>3. CASE AddPty(s)
  BY <1>0, <1>3 DEF AddPty
<1>4. CASE List(s)
  BY <1>0, <1>4 DEF List
<1>5. CASE Exit(s)
  BY <1>0, <1>5 DEF Exit
<1>6. CASE Edit(s)
  BY <1>0, <1>6 DEF Edit
<1>7. CASE PollExit(s)
  BY <1>0, <1>7 DEF PollExit
<1>8. CASE PollScreen(s)
  BY <1>0, <1>8 DEF PollScreen, InferState
<1>9. CASE PollSet(s)
  BY <1>0, <1>9 DEF PollSet, SetState
<1>10. CASE PollDone(s)
  BY <1>0, <1>10 DEF PollDone, SetState
<1>11. CASE Pause(s)
  BY <1>0, <1>11 DEF Pause, CanOrder
<1>12. CASE Resume(s)
  BY <1>0, <1>12 DEF Resume, CanOrder
<1>13. CASE Stop(s)
  BY <1>0, <1>13 DEF Stop, Kill, CanOrder
<1>14. CASE Decide(s)
  BY <1>0, <1>14 DEF Decide, CanOrder
<1>15. CASE SetOrdered(s)
  BY <1>0, <1>15 DEF SetOrdered, SetState
<1>16. CASE ClosePty(s)
  BY <1>0, <1>16 DEF ClosePty, Kill
<1>17. CASE CloseTree(s)
  BY <1>0, <1>17 DEF CloseTree
<1>18. CASE RemoveTree(s)
  BY <1>0, <1>18 DEF RemoveTree
<1>19. CASE Unlist(s)
  BY <1>0, <1>19 DEF Unlist
<1> QED
  BY <1>1, <1>2, <1>3, <1>4, <1>5, <1>6, <1>7, <1>8, <1>9, <1>10, <1>11,
     <1>12, <1>13, <1>14, <1>15, <1>16, <1>17, <1>18, <1>19
  DEF Step, Spawning, Polling, Ordering, Closing

\* The invariant is inductive: the session that moves stays sound by StepSound, the
\* others by StepFrame.
LEMMA NextIInv == IInv /\ [Next]_sessionVars => IInv'
<1> SUFFICES ASSUME IInv, [Next]_sessionVars PROVE IInv'
  OBVIOUS
<1>1. ASSUME NEW s \in Sessions, Step(s) PROVE IInv'
  <2>1. TypeOK'
    BY <1>1, StepTypeOK
  <2>2. ASSUME NEW r \in Sessions PROVE Sound(r)'
    <3>1. CASE r = s
      BY <1>1, <3>1, StepSound
    <3>2. CASE r # s
      <4>1. Sound(r)
        BY DEF IInv
      <4> QED
        BY <1>1, <3>2, <4>1, StepFrame DEF Sound, Stages, Listed, Alive
    <3> QED
      BY <3>1, <3>2
  <2> QED
    BY <2>1, <2>2 DEF IInv
<1>2. CASE UNCHANGED sessionVars
  BY <1>2 DEF IInv, TypeOK, Types, Sound, Stages, Listed, Alive, sessionVars
<1> QED
  BY <1>1, <1>2 DEF Next, Step

\* The inductive invariant holds in every state, for any number of sessions.
THEOREM Invariance == Spec => []IInv
<1>1. Init => IInv
  BY InitIInv
<1>2. IInv /\ [Next]_sessionVars => IInv'
  BY NextIInv
<1> QED
  BY <1>1, <1>2, PTL DEF Spec

\* The variables always hold values of their types, and pollers, requests and
\* closes run for sessions only whose Daemon::spawn is over.
THEOREM TypeCorrect == Spec => []TypeOK
  BY Invariance, PTL DEF IInv

\* No child runs that stop and close could not reach.
THEOREM ChildrenAreReachable == Spec => []LiveChildIsReachable
<1>1. IInv => LiveChildIsReachable
  BY DEF IInv, Sound, LiveChildIsReachable
<1> QED
  BY <1>1, Invariance, PTL

\* Every worktree entry belongs to a session that can be closed, or to a spawn that
\* is under way or has failed.
THEOREM WorktreesAreOwned == Spec => []TreesAreOwned
<1>1. IInv => TreesAreOwned
  BY DEF IInv, TypeOK, Types, Sound, TreesAreOwned
<1> QED
  BY <1>1, Invariance, PTL

\* A session that reads Done has no child any more and no poller.
THEOREM DoneIsExited == Spec => []DoneMeansExited
<1>1. IInv => DoneMeansExited
  BY DEF IInv, Sound, DoneMeansExited
<1> QED
  BY <1>1, Invariance, PTL

(***************************************************************************)
(* What a step may never do                                                *)
(***************************************************************************)

\* No set_state of a poller or a request brings a closed session back.
THEOREM ClosedForGood == Spec => ClosedStaysClosed
<1>1. IInv /\ [Next]_sessionVars =>
      [\A s \in Sessions : spawn[s] = "listed" /\ ~Listed(s) => ~Listed(s)']_sessionVars
  <2> SUFFICES ASSUME IInv, NEW s \in Sessions, Step(s), NEW r \in Sessions,
                      spawn[r] = "listed", state[r] = "absent"
               PROVE  state'[r] = "absent"
    BY DEF Next, Step, Listed
  <2>1. CASE r # s
    BY <2>1, StepFrame
  <2>2. CASE r = s
    <3>1. state[s] = "absent" /\ spawn[s] = "listed" /\ TypeOK
      BY <2>2 DEF IInv
    <3> QED
      BY <2>2, <3>1
      DEF TypeOK, Types, Listed, SetState, CanOrder, Step, Spawning, Polling, Ordering, Closing,
          Begin, StartChild, AddPty, List, Exit, Edit, PollExit, PollScreen, InferState, PollSet,
          PollDone, Pause, Resume, Stop, Decide, SetOrdered, ClosePty, CloseTree,
          RemoveTree, Unlist
  <2> QED
    BY <2>1, <2>2
<1> QED
  BY <1>1, Invariance, PTL DEF Spec, ClosedStaysClosed

-----------------------------------------------------------------------------
(***************************************************************************)
(* Pipelines: sessions with a watcher are sessions                         *)
(***************************************************************************)

\* What a step does to the sessions is one of their own steps, also when it is the
\* watcher that begins a spawn, or nothing.
LEMMA SessionStep == [PipelineNext]_vars => [Next]_sessionVars
<1> SUFFICES ASSUME [PipelineNext]_vars PROVE [Next]_sessionVars
  OBVIOUS
<1>1. ASSUME NEW s \in Sessions, Unannounced(s) PROVE Next
  BY <1>1 DEF Unannounced, Next, Polling
<1>2. ASSUME NEW s \in Sessions, Finish(s) PROVE Next
  BY <1>2 DEF Finish, Next, Polling
<1>3. ASSUME NEW p \in Specs, NEW s \in Sessions, Launch(p, s) PROVE Next
  BY <1>3 DEF Launch, Next
<1>4. CASE \/ \E s \in Sessions : SetAutonomy(s)
           \/ \E p \in Specs, s \in Sessions : SpawnAfter(p, s)
           \/ Drain \/ Lag \/ UNCHANGED vars
  BY <1>4 DEF SetAutonomy, SpawnAfter, Drain, Lag, vars
<1> QED
  BY <1>1, <1>2, <1>3, <1>4 DEF PipelineNext, Watching

\* Pipelines implements Lifecycle: with the watcher in it, a session still lives as
\* Daemon::spawn, its poller, the requests and Daemon::close alone make it live.
THEOREM SessionsLiveOn == PipelineSpec => Spec
  BY SessionStep, PTL DEF PipelineSpec, PipelineInit, Spec

\* No child runs out of reach, pipelines or not.
THEOREM FleetIsReachable == PipelineSpec => []LiveChildIsReachable
  BY SessionsLiveOn, ChildrenAreReachable, PTL

-----------------------------------------------------------------------------
(***************************************************************************)
(* Pipelines: the inductive invariant                                      *)
(***************************************************************************)

\* Whatever tells the watcher that a session is Done comes after that session was
\* announced as Done, and a spec that waits has not fired.
PInv ==
    /\ PipelineTypeOK
    /\ \A s \in Sessions : state[s] = "Done" => s \in finished
    /\ \A i \in 1..Len(inbox) : inbox[i] \in finished
    /\ \A p \in Specs : waits[p] # NoSession => fired[p] = 0

\* It holds at the start, when nothing is queued and nobody is Done.
LEMMA InitPInv == PipelineInit => PInv
<1> SUFFICES ASSUME PipelineInit PROVE PInv
  OBVIOUS
<1>1. Types
  BY InitIInv DEF PipelineInit, IInv, TypeOK
<1>2. inbox \in Seq(Sessions) /\ Len(inbox) = 0
  <2>1. <<>> \in Seq(Sessions) /\ Len(<<>>) = 0
    OBVIOUS
  <2> QED
    BY <2>1 DEF PipelineInit
<1>3. \A s \in Sessions : state[s] = "absent"
  BY DEF PipelineInit, Init
<1>4. /\ waits = [p \in Specs |-> NoSession] /\ fired = [p \in Specs |-> 0]
      /\ ready = {} /\ finished = {} /\ lagged = FALSE
  BY DEF PipelineInit
<1>5. PipelineTypeOK
  BY <1>1, <1>2, <1>4 DEF PipelineTypeOK
<1>6. \A i \in 1..Len(inbox) : inbox[i] \in finished
  BY <1>2
<1>7. \A p \in Specs : fired[p] = 0
  BY <1>4
<1> QED
  BY <1>3, <1>5, <1>6, <1>7 DEF PInv

\* Only the poller's last step sets a session Done.
LEMMA OnlyFinishSetsDone ==
  ASSUME IInv, NEW s \in Sessions, Unannounced(s), NEW r \in Sessions,
         state'[r] = "Done"
  PROVE  state[r] = "Done"
<1>0. Step(s)
  BY DEF Unannounced, Step, Polling
<1>1. CASE r # s
  BY <1>0, <1>1, StepFrame
<1>2. CASE r = s
  <2>1. /\ state \in [Sessions -> {"absent", "Working", "Idle", "Question", "Done", "Dead"}]
        /\ poll[s] # "Done" => poll[s] \in {"off", "asleep", "alive", "Idle", "Question"}
        /\ order[s] \in {"none", "Working", "Dead"}
    BY DEF IInv, TypeOK, Types
  <2>2. CASE state' = state
    BY <2>2
  <2>3. CASE List(s)
    BY <1>2, <2>1, <2>3 DEF List
  <2>4. CASE PollSet(s)
    BY <1>2, <2>1, <2>4 DEF PollSet, SetState
  <2>5. CASE SetOrdered(s)
    BY <1>2, <2>1, <2>5 DEF SetOrdered, SetState
  <2>6. CASE Unlist(s)
    BY <1>2, <2>1, <2>6 DEF Unlist
  <2>7. state' = state \/ List(s) \/ PollSet(s) \/ SetOrdered(s) \/ Unlist(s)
    BY DEF Unannounced, Spawning, Ordering, Closing, Begin, StartChild, AddPty, Exit, Edit,
           PollExit, PollScreen, Pause, Resume, Stop, Decide, ClosePty, CloseTree, RemoveTree
  <2> QED
    BY <2>2, <2>3, <2>4, <2>5, <2>6, <2>7
<1> QED
  BY <1>1, <1>2

\* An event of a session that was announced may be sent to the watcher.
LEMMA SendPInv ==
  ASSUME inbox \in Seq(Sessions), NEW s \in Sessions, inbox' = Append(inbox, s),
         s \in finished', finished \subseteq finished',
         \A i \in 1..Len(inbox) : inbox[i] \in finished
  PROVE  /\ inbox' \in Seq(Sessions)
         /\ \A i \in 1..Len(inbox') : inbox'[i] \in finished'
<1>1. Len(inbox') = Len(inbox) + 1 /\ Len(inbox) \in Nat
  OBVIOUS
<1>2. \A i \in 1..Len(inbox) + 1 :
         inbox'[i] = IF i = Len(inbox) + 1 THEN s ELSE inbox[i]
  OBVIOUS
<1> QED
  BY <1>1, <1>2

\* The watcher takes the oldest event.
LEMMA ReceivePInv ==
  ASSUME inbox \in Seq(Sessions), inbox # <<>>, inbox' = Tail(inbox), finished' = finished,
         \A i \in 1..Len(inbox) : inbox[i] \in finished
  PROVE  /\ inbox' \in Seq(Sessions)
         /\ \A i \in 1..Len(inbox') : inbox'[i] \in finished'
         /\ Head(inbox) \in finished /\ Head(inbox) \in Sessions
<1>1. Len(inbox) \in Nat \ {0} /\ Len(inbox') = Len(inbox) - 1
  OBVIOUS
<1>2. \A i \in 1..Len(inbox') : inbox'[i] = inbox[i + 1]
  OBVIOUS
<1>3. Head(inbox) = inbox[1] /\ inbox[1] \in Sessions
  BY <1>1
<1> QED
  BY <1>1, <1>2, <1>3

\* Every step keeps it; of the sessions that the invariant of Lifecycle holds is known.
LEMMA NextPInv == IInv /\ IInv' /\ PInv /\ [PipelineNext]_vars => PInv'
<1> SUFFICES ASSUME IInv, IInv', PInv, [PipelineNext]_vars PROVE PInv'
  OBVIOUS
<1>0. Types'
  BY DEF IInv, TypeOK
<1> USE DEF PInv, PipelineTypeOK
<1>1. ASSUME NEW s \in Sessions, Unannounced(s) PROVE PInv'
  BY <1>0, <1>1, OnlyFinishSetsDone DEF Unannounced, pipelineVars
<1>2. ASSUME NEW s \in Sessions, Finish(s) PROVE PInv'
  <2>1. state' = IF Listed(s) THEN [state EXCEPT ![s] = "Done"] ELSE state
    BY <1>2 DEF Finish, PollDone, SetState
  <2>2. UNCHANGED <<waits, ready, fired>>
    BY <1>2 DEF Finish, watcherVars
  <2>3. CASE ~Listed(s)
    BY <1>0, <1>2, <2>1, <2>2, <2>3 DEF Finish
  <2>4. CASE Listed(s)
    <3>1. inbox' = Append(inbox, s) /\ finished' = finished \cup {s} /\ UNCHANGED lagged
      BY <1>2, <2>4 DEF Finish
    <3>2. /\ inbox' \in Seq(Sessions)
          /\ \A i \in 1..Len(inbox') : inbox'[i] \in finished'
      BY <3>1, SendPInv
    <3>3. \A r \in Sessions : state'[r] = "Done" => r \in finished'
      BY <2>1, <2>4, <3>1 DEF IInv, TypeOK, Types
    <3> QED
      BY <1>0, <2>2, <3>1, <3>2, <3>3
  <2> QED
    BY <2>3, <2>4
<1>3. ASSUME NEW s \in Sessions, SetAutonomy(s) PROVE PInv'
  <2>1. /\ inbox' = Append(inbox, s) /\ s \in finished /\ finished' = finished
        /\ UNCHANGED <<state, waits, ready, fired, lagged>>
    BY <1>3 DEF SetAutonomy, sessionVars, watcherVars
  <2>2. /\ inbox' \in Seq(Sessions)
        /\ \A i \in 1..Len(inbox') : inbox'[i] \in finished'
    BY <2>1, SendPInv
  <2> QED
    BY <1>0, <2>1, <2>2
<1>4. ASSUME NEW p \in Specs, NEW s \in Sessions, SpawnAfter(p, s) PROVE PInv'
  BY <1>0, <1>4 DEF SpawnAfter, sessionVars
<1>5. CASE Drain
  <2>1. /\ inbox # <<>> /\ inbox' = Tail(inbox)
        /\ UNCHANGED <<state, finished, lagged>>
    BY <1>5 DEF Drain, sessionVars
  <2>2. /\ inbox' \in Seq(Sessions)
        /\ \A i \in 1..Len(inbox') : inbox'[i] \in finished'
    BY <2>1, ReceivePInv
  <2> QED
    BY <1>0, <1>5, <2>1, <2>2, NoSessionAssumption DEF Drain
<1>6. ASSUME NEW p \in Specs, NEW s \in Sessions, Launch(p, s) PROVE PInv'
  BY <1>0, <1>6 DEF Launch, Begin
<1>7. CASE Lag
  <2>1. /\ inbox # <<>> /\ inbox' = Tail(inbox) /\ lagged' = TRUE
        /\ UNCHANGED <<state, finished, waits, ready, fired>>
    BY <1>7 DEF Lag, sessionVars
  <2>2. /\ inbox' \in Seq(Sessions)
        /\ \A i \in 1..Len(inbox') : inbox'[i] \in finished'
    BY <2>1, ReceivePInv
  <2> QED
    BY <1>0, <2>1, <2>2
<1>8. CASE UNCHANGED vars
  BY <1>0, <1>8 DEF vars, sessionVars, pipelineVars
<1> QED
  BY <1>1, <1>2, <1>3, <1>4, <1>5, <1>6, <1>7, <1>8 DEF PipelineNext, Watching

\* The invariant holds in every state.
THEOREM PipelineInvariance == PipelineSpec => [](IInv /\ PInv)
<1>1. PipelineInit => PInv
  BY InitPInv
<1>2. IInv /\ IInv' /\ PInv /\ [PipelineNext]_vars => PInv'
  BY NextPInv
<1>3. PipelineSpec => []IInv
  BY SessionsLiveOn, Invariance, PTL
<1> QED
  BY <1>1, <1>2, <1>3, PTL DEF PipelineSpec

\* The queue, the watcher's way and its specs always hold values of their types, and
\* no spec waits and is drained at once.
THEOREM PipelineTypeCorrect == PipelineSpec => []PipelineTypeOK
<1>1. PInv => PipelineTypeOK
  BY DEF PInv
<1> QED
  BY <1>1, PipelineInvariance, PTL

\* "Only once [...] The dependency fires once": the watcher takes a spec only for an
\* event of the session it waits for, after that session was announced as Done, and
\* never again.
THEOREM FiresOnceAfterDone == PipelineSpec => FiresOnceDone
<1>1. PInv /\ [PipelineNext]_vars =>
      [\A p \in ready' \ ready : waits[p] \in finished /\ fired[p] = 0]_vars
  <2> SUFFICES ASSUME PInv, PipelineNext, NEW p \in ready' \ ready
               PROVE  waits[p] \in finished /\ fired[p] = 0
    OBVIOUS
  <2>1. Drain
    BY DEF PipelineNext, Unannounced, pipelineVars, Finish, SetAutonomy, watcherVars,
           SpawnAfter, Watching, Launch, Lag
  <2>2. Head(inbox) \in finished /\ Head(inbox) \in Sessions
    BY <2>1, ReceivePInv DEF Drain, PInv, PipelineTypeOK
  <2>3. p \in Specs /\ waits[p] = Head(inbox)
    BY <2>1 DEF Drain
  <2> QED
    BY <2>2, <2>3, NoSessionAssumption DEF PInv
<1> QED
  BY <1>1, PipelineInvariance, PTL DEF PipelineSpec, FiresOnceDone
=============================================================================

-------------------------- MODULE GovernanceProofs --------------------------
(***************************************************************************)
(* Proofs about Governance, for every set of sessions, hooks, commands and *)
(* clients: type correctness, the trust invariant, the agreement of the    *)
(* pending map with the parked hooks, the autonomy of running sessions, and *)
(* the implementation of the decision gate.                                *)
(***************************************************************************)
EXTENDS Governance, TLAPS

(***************************************************************************)
(* Type correctness                                                        *)
(***************************************************************************)

\* The state Registry::new leaves, with no hook and no request under way, is
\* well typed.
LEMMA InitTypeOK == Init => TypeOK
  BY DEF Init, TypeOK, Autonomies

\* Registry::set_state keeps the records of the registry well formed.
LEMMA SetStateType ==
  ASSUME TypeOK, NEW s \in Sessions, NEW st, NEW c, SetState(s, st, c),
         \/ st = "Permission" /\ c \in Commands
         \/ st \in {"Working", "Question", "Done"} /\ c = NoCommand
  PROVE  sessions' \in [Sessions -> Session \cup {Absent}]
<1>1. CASE ~Listed(s)
  BY <1>1 DEF TypeOK, SetState
<1>2. CASE Listed(s)
  <2>1. sessions[s].autonomy \in Autonomies
    BY <1>2 DEF TypeOK, Listed, Session
  <2>2. [state |-> st, asks |-> c, autonomy |-> sessions[s].autonomy] \in Session
    BY <2>1 DEF Session
  <2> QED
    BY <1>2, <2>2 DEF TypeOK, SetState
<1> QED
  BY <1>1, <1>2

\* No hook kind that only reports sets the state Permission, the one with a
\* prompt.
LEMMA ReportedStateType ==
  \A k \in DOMAIN ReportedState : ReportedState[k] \in {"Working", "Question", "Done"}
  BY DEF ReportedState

\* Every handler, request and session step keeps the variables well typed; that
\* only tool calls are escalated (CallShape) is needed for the prompt.
LEMMA NextTypeOK == TypeOK /\ CallShape /\ [Next]_vars => TypeOK'
<1> SUFFICES ASSUME TypeOK, CallShape, [Next]_vars PROVE TypeOK'
  OBVIOUS
<1> USE NullAssumption, CommandsAssumption, LevelsAssumption DEF levels
<1>1. ASSUME NEW s \in Sessions, NEW l \in Autonomies, Spawn(s, l) PROVE TypeOK'
  BY <1>1 DEF TypeOK, Spawn
<1>2. ASSUME NEW s \in Sessions, Insert(s) PROVE TypeOK'
  BY <1>2 DEF TypeOK, Insert, Session
<1>3. ASSUME NEW s \in Sessions, Close(s) PROVE TypeOK'
  BY <1>3 DEF TypeOK, Close, Remove
<1>4. ASSUME NEW s \in Sessions, NEW l \in PillLevels, SetAutonomy(s, l) PROVE TypeOK'
  BY <1>4 DEF TypeOK, SetAutonomy, Session, Listed
<1>5. ASSUME NEW l \in PillLevels, SetDefaultAutonomy(l) PROVE TypeOK'
  BY <1>5 DEF TypeOK, SetDefaultAutonomy
<1>6. ASSUME NEW h \in Hooks, NEW e \in Envelope, Fire(h, e) PROVE TypeOK'
  BY <1>6 DEF TypeOK, Fire
<1>7. ASSUME NEW h \in Hooks, Handler(h) PROVE TypeOK'
  <2> DEFINE s == call[h].session
  <2>0. /\ s \in Sessions
        /\ IsToolCall(h) => call[h].cmd \in Commands
    <3>1. pc[h] # "idle"
      BY <1>7 DEF Handler, Ensure, AutoAllow, Escalate, Park, Wake, Report,
                  SessionEnd, Reply
    <3>2. call[h] \in Envelope
      BY <3>1 DEF TypeOK, CallShape
    <3> QED
      BY <3>2, KindsAssumption DEF Envelope, IsToolCall
  <2>1. CASE Ensure(h)
    BY <2>0, <2>1 DEF TypeOK, Ensure, Session, Listed
  <2>2. CASE AutoAllow(h)
    <3>1. sessions' \in [Sessions -> Session \cup {Absent}]
      BY <2>0, <2>2, SetStateType DEF AutoAllow
    <3> QED
      BY <2>2, <3>1 DEF TypeOK, AutoAllow, Verdict
  <2>3. CASE Escalate(h)
    <3>1. call[h].cmd \in Commands
      BY <2>0, <2>3 DEF Escalate, CallShape
    <3>2. sessions' \in [Sessions -> Session \cup {Absent}]
      BY <2>0, <2>3, <3>1, SetStateType DEF Escalate
    <3> QED
      BY <2>3, <3>2 DEF TypeOK, Escalate
  <2>4. CASE Park(h)
    BY <2>0, <2>4 DEF TypeOK, Park, Verdict
  <2>5. CASE Wake(h)
    BY <2>5 DEF TypeOK, Wake
  <2>6. CASE Report(h)
    <3>1. sessions' \in [Sessions -> Session \cup {Absent}]
      BY <2>0, <2>6, SetStateType, ReportedStateType DEF Report
    <3> QED
      BY <2>6, <3>1 DEF TypeOK, Report
  <2>7. CASE SessionEnd(h)
    BY <2>0, <2>7 DEF TypeOK, SessionEnd, Remove
  <2>8. CASE Reply(h)
    BY <2>8 DEF TypeOK, Reply
  <2> QED
    BY <1>7, <2>1, <2>2, <2>3, <2>4, <2>5, <2>6, <2>7, <2>8 DEF Handler
<1>8. ASSUME NEW u \in Clients, Server(u) PROVE TypeOK'
  <2>1. req[u] \in Request
    BY <1>8 DEF TypeOK, Server, TakePending, ShowDecided
  <2>2. CASE TakePending(u)
    BY <2>1, <2>2 DEF TypeOK, TakePending, Request, Verdict
  <2>3. CASE ShowDecided(u)
    <3>1. sessions' \in [Sessions -> Session \cup {Absent}]
      BY <2>1, <2>3, SetStateType DEF ShowDecided, Request
    <3> QED
      BY <2>3, <3>1 DEF TypeOK, ShowDecided
  <2> QED
    BY <1>8, <2>2, <2>3 DEF Server
<1>9. ASSUME NEW u \in Clients, NEW s \in Sessions, NEW approve \in BOOLEAN,
             Click(u, s, approve)
      PROVE  TypeOK'
  <2>1. sessions[s].asks \in Commands \cup {NoCommand}
    BY <1>9 DEF TypeOK, Click, NeedsHuman, Listed, Session
  <2> QED
    BY <1>9, <2>1 DEF TypeOK, Click, Request
<1>10. CASE UNCHANGED vars
  BY <1>10 DEF TypeOK, vars
<1> QED
  BY <1>1, <1>2, <1>3, <1>4, <1>5, <1>6, <1>7, <1>8, <1>9, <1>10 DEF Next

(***************************************************************************)
(* The inductive invariant: the shape of calls, the pending map, trust     *)
(***************************************************************************)

IInv == TypeOK /\ CallShape /\ PendingIsParked /\ TrustInvariant

\* safety.rs: policy never lets a catastrophic command through.
LEMMA AllowIsNotDestructive ==
  ASSUME NEW l \in Autonomies, NEW c \in Command, Decide(l, Classify(c)) = "Allow"
  PROVE  ~c.destructive
  BY DEF Decide, Classify, Command

\* A daemon that has just started satisfies the inductive invariant.
LEMMA InitIInv == Init => IInv
<1> SUFFICES ASSUME Init PROVE IInv
  OBVIOUS
<1>1. TypeOK
  BY InitTypeOK
<1>2. CallShape /\ PendingIsParked /\ TrustInvariant
  BY NullAssumption DEF Init, CallShape, PendingIsParked, TrustInvariant, Parked
<1> QED
  BY <1>1, <1>2 DEF IInv

\* Steps that touch neither a handler nor the pending map.
LEMMA Bystander ==
  ASSUME IInv, UNCHANGED <<pending, pc, call, verdict>>
  PROVE  CallShape' /\ PendingIsParked' /\ TrustInvariant'
  BY DEF IInv, CallShape, PendingIsParked, TrustInvariant, Parked, IsToolCall

\* Every step keeps it: the steps of a handler by the branch it is in, Park and
\* TakePending because the pending map says which hook they answer.
LEMMA NextIInv == IInv /\ [Next]_vars => IInv'
<1> SUFFICES ASSUME IInv, [Next]_vars PROVE IInv'
  OBVIOUS
<1> DEFINE Rest == CallShape /\ PendingIsParked /\ TrustInvariant
<1>0. TypeOK'
  BY NextTypeOK DEF IInv
<1>1. ASSUME NEW s \in Sessions, Insert(s) \/ Close(s) PROVE Rest'
  BY <1>1, Bystander DEF Insert, Close
<1>2. ASSUME NEW s \in Sessions, NEW l, Spawn(s, l) \/ SetAutonomy(s, l) PROVE Rest'
  BY <1>2, Bystander DEF Spawn, SetAutonomy
<1>3. ASSUME NEW l, SetDefaultAutonomy(l) PROVE Rest'
  BY <1>3, Bystander DEF SetDefaultAutonomy
<1>4. ASSUME NEW u \in Clients, NEW s \in Sessions, NEW a, Click(u, s, a) PROVE Rest'
  BY <1>4, Bystander DEF Click
<1>5. ASSUME NEW u \in Clients, ShowDecided(u) PROVE Rest'
  BY <1>5, Bystander DEF ShowDecided
<1>6. ASSUME NEW h \in Hooks, NEW e \in Envelope, Fire(h, e) PROVE Rest'
  <2>1. CallShape'
    BY <1>6, NullAssumption DEF IInv, TypeOK, CallShape, Fire, IsToolCall
  <2>2. PendingIsParked'
    BY <1>6 DEF IInv, TypeOK, PendingIsParked, Parked, Fire
  <2>3. TrustInvariant'
    BY <1>6 DEF IInv, TypeOK, CallShape, TrustInvariant, Fire
  <2> QED
    BY <2>1, <2>2, <2>3
<1>7. ASSUME NEW h \in Hooks, Ensure(h) PROVE Rest'
  <2>1. CallShape'
    <3>1. ASSUME pc'[h] \in {"allowing", "escalating"} PROVE IsToolCall(h)
      BY <1>7, <3>1 DEF IInv, TypeOK, CallShape, Ensure, IsToolCall
    <3>2. ASSUME pc'[h] = "allowing" PROVE ~call[h].cmd.destructive
      <4> DEFINE s == call[h].session
                 l == IF Listed(s) THEN sessions[s].autonomy ELSE defaultAutonomy
      <4>1. call[h] \in Envelope /\ IsToolCall(h)
        BY <1>7, <3>1, <3>2 DEF IInv, TypeOK, CallShape, Ensure
      <4>2. s \in Sessions /\ call[h].cmd \in Command
        BY <4>1, KindsAssumption, CommandsAssumption DEF Envelope, IsToolCall
      <4>3. l \in Autonomies
        BY <4>2 DEF IInv, TypeOK, Listed, Session
      <4>4. Decide(l, Classify(call[h].cmd)) = "Allow"
        BY <1>7, <3>2, <4>1, <4>2 DEF IInv, TypeOK, Ensure, IsToolCall
      <4> QED
        BY <4>2, <4>3, <4>4, AllowIsNotDestructive
    <3> QED
      BY <1>7, <3>1, <3>2 DEF IInv, TypeOK, CallShape, Ensure, IsToolCall
  <2>2. PendingIsParked'
    BY <1>7 DEF IInv, TypeOK, PendingIsParked, Parked, Ensure
  <2>3. TrustInvariant'
    BY <1>7 DEF IInv, TypeOK, TrustInvariant, Ensure
  <2> QED
    BY <2>1, <2>2, <2>3
<1>8. ASSUME NEW h \in Hooks, AutoAllow(h) PROVE Rest'
  <2>1. CallShape'
    BY <1>8 DEF IInv, TypeOK, CallShape, AutoAllow, IsToolCall
  <2>2. PendingIsParked'
    BY <1>8 DEF IInv, TypeOK, PendingIsParked, Parked, AutoAllow
  <2>3. TrustInvariant'
    BY <1>8 DEF IInv, TypeOK, CallShape, TrustInvariant, AutoAllow
  <2> QED
    BY <2>1, <2>2, <2>3
<1>9. ASSUME NEW h \in Hooks, Park(h) PROVE Rest'
  <2> DEFINE s == call[h].session
             old == pending[s]
  <2>1. s \in Sessions /\ IsToolCall(h) /\ verdict[h] = NoVerdict
    BY <1>9 DEF IInv, TypeOK, CallShape, Park, IsToolCall, Envelope
  <2>2. old # NoHook => old \in Hooks /\ old # h /\ Parked(old) /\ call[old].session = s
    BY <1>9, <2>1 DEF IInv, TypeOK, PendingIsParked, Parked, Park
  <2>3. CallShape'
    BY <1>9, <2>1, <2>2 DEF IInv, TypeOK, CallShape, Park, IsToolCall, Parked
  <2>4. PendingIsParked'
    <3> SUFFICES ASSUME NEW r \in Sessions, NEW g \in Hooks
                 PROVE  (pending[r] = g <=> Parked(g) /\ call[g].session = r)'
      BY DEF PendingIsParked
    <3>1. CASE g = h
      BY <1>9, <2>1, <2>2, <3>1 DEF IInv, TypeOK, PendingIsParked, Parked, Park
    <3>2. CASE g # h /\ g = old
      BY <1>9, <2>1, <2>2, <3>2, NullAssumption
      DEF IInv, TypeOK, PendingIsParked, Parked, Park, Verdict
    <3>3. CASE g # h /\ g # old
      BY <1>9, <2>1, <2>2, <3>3 DEF IInv, TypeOK, PendingIsParked, Parked, Park
    <3> QED
      BY <3>1, <3>2, <3>3
  <2>5. TrustInvariant'
    BY <1>9, <2>2 DEF IInv, TypeOK, TrustInvariant, Park
  <2> QED
    BY <2>3, <2>4, <2>5
<1>10. ASSUME NEW h \in Hooks, Escalate(h) \/ Wake(h) \/ Reply(h) PROVE Rest'
  <2>1. CallShape'
    BY <1>10 DEF IInv, TypeOK, CallShape, Escalate, Wake, Reply, IsToolCall
  <2>2. PendingIsParked'
    BY <1>10 DEF IInv, TypeOK, PendingIsParked, Parked, Escalate, Wake, Reply
  <2>3. TrustInvariant'
    BY <1>10 DEF IInv, TypeOK, TrustInvariant, Escalate, Wake, Reply
  <2> QED
    BY <2>1, <2>2, <2>3
<1>11. ASSUME NEW h \in Hooks, Report(h) \/ SessionEnd(h) PROVE Rest'
  <2>1. CallShape'
    BY <1>11 DEF IInv, TypeOK, CallShape, Report, SessionEnd, IsToolCall
  <2>2. PendingIsParked'
    BY <1>11 DEF IInv, TypeOK, PendingIsParked, Parked, Report, SessionEnd
  <2>3. TrustInvariant'
    BY <1>11 DEF IInv, TypeOK, TrustInvariant, Report, SessionEnd
  <2> QED
    BY <2>1, <2>2, <2>3
<1>12. ASSUME NEW u \in Clients, TakePending(u) PROVE Rest'
  <2> DEFINE s == req[u].session
             h == pending[s]
  <2>1. s \in Sessions
    BY <1>12 DEF IInv, TypeOK, TakePending, Request
  <2>2. h # NoHook => h \in Hooks /\ Parked(h) /\ call[h].session = s
    BY <1>12, <2>1 DEF IInv, TypeOK, PendingIsParked
  <2>3. CallShape'
    BY <1>12, <2>1, <2>2 DEF IInv, TypeOK, CallShape, TakePending, IsToolCall, Parked
  <2>4. PendingIsParked'
    <3> SUFFICES ASSUME NEW r \in Sessions, NEW g \in Hooks
                 PROVE  (pending[r] = g <=> Parked(g) /\ call[g].session = r)'
      BY DEF PendingIsParked
    <3>1. CASE g = h
      <4>1. verdict'[g] # NoVerdict
        <5>1. verdict'[g] = [answer |-> IF req[u].approve THEN "allow" ELSE "deny",
                             by |-> "human", shown |-> req[u].shown]
          BY <1>12, <3>1, NullAssumption DEF IInv, TypeOK, TakePending
        <5>2. req[u].shown \in Commands \cup {NoCommand}
          BY <1>12 DEF IInv, TypeOK, TakePending, Request
        <5> QED
          BY <5>1, <5>2, NullAssumption DEF Verdict
      <4>2. pending'[r] # g
        BY <1>12, <2>1, <2>2, <3>1, NullAssumption
        DEF IInv, TypeOK, PendingIsParked, TakePending
      <4> QED
        BY <4>1, <4>2 DEF Parked
    <3>2. CASE g # h
      BY <1>12, <2>1, <2>2, <3>2, NullAssumption
      DEF IInv, TypeOK, PendingIsParked, Parked, TakePending
    <3> QED
      BY <3>1, <3>2
  <2>5. TrustInvariant'
    BY <1>12, <2>2 DEF IInv, TypeOK, TrustInvariant, TakePending
  <2> QED
    BY <2>3, <2>4, <2>5
<1>13. ASSUME UNCHANGED vars PROVE Rest'
  BY <1>13, Bystander DEF vars
<1> QED
  BY <1>0, <1>1, <1>2, <1>3, <1>4, <1>5, <1>6, <1>7, <1>8, <1>9, <1>10, <1>11,
     <1>12, <1>13 DEF Next, Handler, Server, IInv

\* The inductive invariant holds in every state of the loop, for any number of
\* sessions, hooks, commands and requests.
THEOREM Invariance == Spec => []IInv
<1>1. Init => IInv
  BY InitIInv
<1>2. IInv /\ [Next]_vars => IInv'
  BY NextIInv
<1> QED
  BY <1>1, <1>2, PTL DEF Spec

\* The variables of the loop always hold values of their types: in particular
\* a prompt is shown exactly while the session's state is Permission.
THEOREM TypeCorrect == Spec => []TypeOK
  BY Invariance, PTL DEF IInv

\* The trust invariant of safety.rs, for any number of agents and humans.
THEOREM Trust == Spec => []TrustInvariant
  BY Invariance, PTL DEF IInv

\* A hook that awaits a decision is exactly the one its session's entry of
\* Inner.pending can resolve.
THEOREM PendingAgrees == Spec => []PendingIsParked
  BY Invariance, PTL DEF IInv

(***************************************************************************)
(* Answers are final                                                       *)
(***************************************************************************)

\* No step replaces a verdict: Park and TakePending answer hooks that still wait,
\* AutoAllow one that has not parked.
LEMMA StepKeepsVerdicts ==
  IInv /\ [Next]_vars => \A g \in Hooks : verdict[g] # NoVerdict => verdict'[g] = verdict[g]
<1> SUFFICES ASSUME IInv, [Next]_vars, NEW g \in Hooks, verdict[g] # NoVerdict
             PROVE  verdict'[g] = verdict[g]
  OBVIOUS
<1>1. ASSUME NEW h \in Hooks, AutoAllow(h) PROVE verdict'[g] = verdict[g]
  BY <1>1 DEF IInv, TypeOK, CallShape, AutoAllow
<1>2. ASSUME NEW h \in Hooks, Park(h) PROVE verdict'[g] = verdict[g]
  <2>1. call[h].session \in Sessions
    BY <1>2 DEF IInv, TypeOK, CallShape, Park, Envelope
  <2>2. pending[call[h].session] # g
    BY <2>1 DEF IInv, PendingIsParked, Parked
  <2> QED
    BY <1>2, <2>2 DEF IInv, TypeOK, Park
<1>3. ASSUME NEW u \in Clients, TakePending(u) PROVE verdict'[g] = verdict[g]
  <2>1. req[u].session \in Sessions
    BY <1>3 DEF IInv, TypeOK, TakePending, Request
  <2>2. pending[req[u].session] # g
    BY <2>1 DEF IInv, PendingIsParked, Parked
  <2> QED
    BY <1>3, <2>2 DEF IInv, TypeOK, TakePending
<1>4. CASE UNCHANGED verdict
  BY <1>4
<1> QED
  BY <1>1, <1>2, <1>3, <1>4
  DEF Next, Handler, Server, vars, Insert, Close, Spawn, SetAutonomy,
      SetDefaultAutonomy, Fire, Ensure, Escalate, Wake, Report, SessionEnd, Reply,
      Click, ShowDecided

\* A hook call gets one answer: nothing that happens later replaces it.
THEOREM AnswersAreFinal == Spec => VerdictIsFinal
<1>1. IInv /\ [Next]_vars =>
      [\A h \in Hooks : verdict[h] # NoVerdict => verdict'[h] = verdict[h]]_vars
  BY StepKeepsVerdicts
<1> QED
  BY <1>1, Invariance, PTL DEF Spec, VerdictIsFinal

(***************************************************************************)
(* A running session keeps the level its human gave it                     *)
(***************************************************************************)

\* Registry::set_state changes no level and lists or removes no session.
LEMMA SetStateKeepsLevels ==
  ASSUME TypeOK, LevelIsTheHumans, NEW s \in Sessions, NEW st, NEW c,
         SetState(s, st, c), UNCHANGED <<agent, levels>>,
         \/ st = "Permission" /\ c \in Commands
         \/ st \in {"Working", "Question", "Done"} /\ c = NoCommand
  PROVE  LevelIsTheHumans'
<1> USE DEF levels
<1>1. CASE ~Listed(s)
  BY <1>1 DEF SetState, LevelIsTheHumans, Listed
<1>2. CASE Listed(s)
  <2> SUFFICES ASSUME NEW r \in Sessions, agent[r] = "running"
               PROVE  /\ sessions'[r] # Absent
                      /\ sessions'[r].autonomy = IF overwritten[r] THEN spec[r] ELSE asked[r]
    BY DEF LevelIsTheHumans, Listed
  <2>1. CASE r # s
    BY <1>2, <2>1 DEF SetState, TypeOK, LevelIsTheHumans, Listed
  <2>2. CASE r = s
    <3> DEFINE rec == [state |-> st, asks |-> c, autonomy |-> sessions[s].autonomy]
    <3>1. sessions'[s] = rec
      BY <1>2 DEF SetState, TypeOK
    <3>2. rec # Absent
      BY <1>2, NullAssumption DEF Listed, TypeOK, Session
    <3> QED
      BY <2>2, <3>1, <3>2 DEF LevelIsTheHumans
  <2> QED
    BY <2>1, <2>2
<1> QED
  BY <1>1, <1>2

\* Every step keeps running sessions listed at the level last asked for, or at
\* that of the spec if Insert has replaced it; Ensure finds them in the registry
\* and so does not use the default.
LEMMA NextLevels == IInv /\ LevelIsTheHumans /\ [Next]_vars => LevelIsTheHumans'
<1> SUFFICES ASSUME IInv, LevelIsTheHumans, [Next]_vars PROVE LevelIsTheHumans'
  OBVIOUS
<1> USE DEF levels
<1>0. TypeOK /\ TypeOK'
  BY NextTypeOK DEF IInv
<1>1. ASSUME NEW s \in Sessions, NEW l, Spawn(s, l) PROVE LevelIsTheHumans'
  BY <1>0, <1>1 DEF Spawn, TypeOK, LevelIsTheHumans, Listed
<1>2. ASSUME NEW s \in Sessions, Insert(s) PROVE LevelIsTheHumans'
  <2>1. [state |-> "Working", asks |-> NoCommand, autonomy |-> spec[s]] \in Session
    BY <1>0 DEF TypeOK, Session
  <2> QED
    BY <1>0, <1>2, <2>1, NullAssumption DEF Insert, TypeOK, LevelIsTheHumans, Listed
<1>3. ASSUME NEW s \in Sessions, Close(s) PROVE LevelIsTheHumans'
  BY <1>0, <1>3 DEF Close, Remove, TypeOK, LevelIsTheHumans, Listed
<1>4. ASSUME NEW s \in Sessions, NEW l \in PillLevels, SetAutonomy(s, l)
      PROVE  LevelIsTheHumans'
  <2>1. [sessions[s] EXCEPT !.autonomy = l] \in Session
    BY <1>0, <1>4, LevelsAssumption DEF SetAutonomy, TypeOK, Listed, Session
  <2>2. sessions'[s].autonomy = l /\ sessions'[s] # Absent
    BY <1>0, <1>4, <2>1, NullAssumption DEF SetAutonomy, TypeOK, Listed, Session
  <2> QED
    BY <1>0, <1>4, <2>2 DEF SetAutonomy, TypeOK, LevelIsTheHumans, Listed
<1>5. ASSUME NEW h \in Hooks, Ensure(h) PROVE LevelIsTheHumans'
  <2>1. call[h].session \in Sessions
    BY <1>0, <1>5 DEF IInv, TypeOK, CallShape, Ensure, Envelope
  <2> QED
    BY <1>0, <1>5, <2>1 DEF Ensure, TypeOK, LevelIsTheHumans, Listed
<1>6. ASSUME NEW h \in Hooks, AutoAllow(h) \/ Escalate(h) \/ Report(h)
      PROVE  LevelIsTheHumans'
  <2>1. call[h] \in Envelope
    BY <1>0, <1>6 DEF IInv, TypeOK, CallShape, AutoAllow, Escalate, Report
  <2>2. call[h].session \in Sessions
    BY <2>1 DEF Envelope
  <2>3. CASE AutoAllow(h)
    BY <1>0, <2>2, <2>3, SetStateKeepsLevels DEF AutoAllow
  <2>4. CASE Escalate(h)
    <3>1. call[h].cmd \in Commands
      BY <2>1, <2>4, KindsAssumption DEF IInv, CallShape, Escalate, IsToolCall, Envelope
    <3> QED
      BY <1>0, <2>2, <2>4, <3>1, SetStateKeepsLevels DEF Escalate
  <2>5. CASE Report(h)
    BY <1>0, <2>2, <2>5, SetStateKeepsLevels, ReportedStateType DEF Report
  <2> QED
    BY <1>6, <2>3, <2>4, <2>5
<1>7. ASSUME NEW h \in Hooks, SessionEnd(h) PROVE LevelIsTheHumans'
  <2>1. call[h].session \in Sessions
    BY <1>0, <1>7 DEF IInv, TypeOK, CallShape, SessionEnd, Envelope
  <2> QED
    BY <1>0, <1>7, <2>1 DEF SessionEnd, Remove, TypeOK, LevelIsTheHumans, Listed
<1>8. ASSUME NEW u \in Clients, ShowDecided(u) PROVE LevelIsTheHumans'
  <2>1. req[u].session \in Sessions
    BY <1>0, <1>8 DEF TypeOK, ShowDecided, Request
  <2> QED
    BY <1>0, <1>8, <2>1, SetStateKeepsLevels DEF ShowDecided, TypeOK
<1>9. CASE UNCHANGED <<sessions, agent, levels>>
  BY <1>9 DEF LevelIsTheHumans, Listed
<1> QED
  BY <1>1, <1>2, <1>3, <1>4, <1>5, <1>6, <1>7, <1>8, <1>9
  DEF Next, Handler, Server, vars, SetDefaultAutonomy, Fire, Park, Wake, Reply,
      Click, TakePending

\* No racing hook and no change of the fleet default alters the level of a
\* session that is running: it is the one last asked for by spawn or pill, but for
\* a pill that the insert of the spawn has replaced, which leaves the spec's.
THEOREM LevelsAreTheHumans == Spec => []LevelIsTheHumans
<1>1. Init => LevelIsTheHumans
  BY DEF Init, LevelIsTheHumans
<1>2. IInv /\ LevelIsTheHumans /\ [Next]_vars => LevelIsTheHumans'
  BY NextLevels
<1> QED
  BY <1>1, <1>2, Invariance, PTL DEF Spec

(***************************************************************************)
(* The loop implements the decision gate                                   *)
(***************************************************************************)

\* A daemon without hooks is a gate without calls.
LEMMA InitGate == Init => Gate!GateInit
  BY DEF Init, Gate!GateInit, GateStatus, IsToolCall

\* Every step of the loop is a step of the gate or leaves it unchanged.
LEMMA StepGate == IInv /\ IInv' /\ [Next]_vars => [Gate!GateNext]_(Gate!gateVars)
<1> SUFFICES ASSUME IInv, IInv', [Next]_vars
             PROVE  Gate!GateNext \/ UNCHANGED Gate!gateVars
  OBVIOUS
<1> DEFINE Same == UNCHANGED Gate!gateVars
<1>1. ASSUME UNCHANGED <<pending, pc, call, verdict>> PROVE Same
  BY <1>1 DEF Gate!gateVars, GateStatus, IsToolCall
<1>2. ASSUME NEW h \in Hooks, NEW e \in Envelope, Fire(h, e)
      PROVE  Gate!Propose(h) \/ Same
  <2>1. call[h] = NoCall /\ call' = [call EXCEPT ![h] = e] /\ e # NoCall
    BY <1>2, NullAssumption DEF IInv, CallShape, Fire
  <2>2. \A g \in Hooks : GateStatus(g)' = GateStatus(g)
    BY <1>2 DEF IInv, TypeOK, GateStatus, Fire
  <2>3. CASE e.kind = "PreToolUse"
    <3>1. e.session \in Sessions /\ e.cmd \in Commands
      BY <2>3, KindsAssumption DEF Envelope
    <3> DEFINE Subject(g) == IF IsToolCall(g) THEN <<call[g].session, call[g].cmd>>
                             ELSE <<>>
    <3>2. \A g \in Hooks : Subject(g)' = IF g = h THEN <<e.session, e.cmd>> ELSE Subject(g)
      BY <2>1, <2>3 DEF IInv, TypeOK, IsToolCall
    <3>3. [g \in Hooks |-> Subject(g)]' =
            [[g \in Hooks |-> Subject(g)] EXCEPT ![h] = <<e.session, e.cmd>>]
      BY <3>2
    <3>4. Subject(h) = <<>>
      BY <2>1 DEF IsToolCall
    <3>5. UNCHANGED pending
      BY <1>2 DEF Fire
    <3> QED
      BY <2>2, <3>1, <3>3, <3>4, <3>5 DEF Gate!Propose
  <2>4. CASE e.kind # "PreToolUse"
    <3>1. \A g \in Hooks : IsToolCall(g)' = IsToolCall(g)
                           /\ (IsToolCall(g) => call'[g] = call[g])
      BY <2>1, <2>4 DEF IInv, TypeOK, IsToolCall
    <3> QED
      BY <1>2, <2>2, <3>1 DEF Gate!gateVars, Fire
  <2> QED
    BY <2>3, <2>4
<1>3. ASSUME NEW h \in Hooks, Ensure(h) \/ Escalate(h) \/ Wake(h) \/ Reply(h)
                              \/ Report(h) \/ SessionEnd(h)
      PROVE  Same
  <2>1. UNCHANGED <<pending, call, verdict>>
    BY <1>3 DEF Ensure, Escalate, Wake, Reply, Report, SessionEnd
  <2>2. \A g \in Hooks : GateStatus(g)' = GateStatus(g)
    BY <1>3, <2>1 DEF IInv, TypeOK, GateStatus, Ensure, Escalate, Wake, Reply, Report,
                      SessionEnd
  <2> QED
    BY <2>1, <2>2 DEF Gate!gateVars, IsToolCall
<1>4. ASSUME NEW h \in Hooks, AutoAllow(h) PROVE Gate!Pass(h)
  <2>1. IsToolCall(h) /\ verdict[h] = NoVerdict /\ ~call[h].cmd.destructive
    BY <1>4 DEF IInv, CallShape, AutoAllow
  <2>2. \A g \in Hooks : GateStatus(g)' = IF g = h THEN "allowed" ELSE GateStatus(g)
    BY <1>4, <2>1, NullAssumption DEF IInv, IInv, TypeOK, GateStatus, AutoAllow, Verdict
  <2> QED
    BY <1>4, <2>1, <2>2 DEF Gate!Pass, GateStatus, AutoAllow, IsToolCall
<1>5. ASSUME NEW h \in Hooks, Park(h) PROVE Gate!Hold(h)
  <2> DEFINE s == call[h].session
             old == pending[s]
  <2>1. s \in Sessions /\ IsToolCall(h) /\ verdict[h] = NoVerdict
    BY <1>5 DEF IInv, TypeOK, CallShape, Park, IsToolCall, Envelope
  <2>2. old # NoHook => old \in Hooks /\ old # h /\ Parked(old)
    BY <1>5, <2>1 DEF IInv, TypeOK, PendingIsParked, Parked, Park
  <2>3. \A g \in Hooks : GateStatus(g)' = IF g = h THEN "waiting"
                                          ELSE IF g = old THEN "denied"
                                          ELSE GateStatus(g)
    BY <1>5, <2>1, <2>2, NullAssumption DEF IInv, TypeOK, GateStatus, Park, Verdict
  <2>4. GateStatus(h) = "new"
    BY <1>5, <2>1 DEF GateStatus, Park
  <2> QED
    BY <1>5, <2>1, <2>3, <2>4 DEF Gate!Hold, Park, IsToolCall
<1>6. ASSUME NEW u \in Clients, TakePending(u)
      PROVE  (\E s \in Sessions : Gate!Answer(s)) \/ Same
  <2> DEFINE s == req[u].session
             h == pending[s]
             answer == IF req[u].approve THEN "allowed" ELSE "denied"
  <2>1. s \in Sessions /\ req[u].shown \in Commands \cup {NoCommand}
    BY <1>6 DEF IInv, TypeOK, TakePending, Request
  <2>2. CASE h = NoHook
    <3>1. UNCHANGED <<pending, pc, call, verdict>>
      BY <1>6, <2>1, <2>2 DEF IInv, TypeOK, TakePending
    <3> QED
      BY <1>1, <3>1
  <2>3. CASE h # NoHook
    <3>1. h \in Hooks /\ Parked(h)
      BY <2>1, <2>3 DEF IInv, TypeOK, PendingIsParked
    <3>2. \A g \in Hooks : GateStatus(g)' = IF g = h THEN answer ELSE GateStatus(g)
      BY <1>6, <2>1, <2>3, <3>1, NullAssumption
      DEF IInv, TypeOK, GateStatus, TakePending, Verdict
    <3>3. Gate!Answer(s)
      BY <1>6, <2>1, <2>3, <3>1, <3>2 DEF Gate!Answer, TakePending, IsToolCall
    <3> QED
      BY <2>1, <3>3
  <2> QED
    BY <2>2, <2>3
<1> QED
  BY <1>1, <1>2, <1>3, <1>4, <1>5, <1>6
  DEF Next, Handler, Server, vars, Insert, Close, Spawn, SetAutonomy,
      SetDefaultAutonomy, Click, ShowDecided, Gate!GateNext

\* Whatever the tasks of the daemon interleave, tool calls move only along the
\* decision gate: they are answered once, a catastrophic one never without
\* having waited for a human, and one answer ends at most one wait.
THEOREM Implementation == Spec => ImplementsGate
<1>1. Init => Gate!GateInit
  BY InitGate
<1>2. IInv /\ IInv' /\ [Next]_vars => [Gate!GateNext]_(Gate!gateVars)
  BY StepGate
<1> QED
  BY <1>1, <1>2, Invariance, PTL DEF Spec, ImplementsGate, Gate!GateSpec
=============================================================================

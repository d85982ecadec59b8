----------------------------- MODULE TypingProofs ------------------------------
(***************************************************************************)
(* Proofs about Typing, for any sessions, agents, cockpits and workers and *)
(* any room in the queues: the types, that lines stay whole, that what a   *)
(* cockpit types arrives in order, and that an agent gets its opening      *)
(* prompt.                                                                 *)
(***************************************************************************)
EXTENDS Typing, SequenceTheorems, TLAPS

-----------------------------------------------------------------------------
(***************************************************************************)
(* The inductive invariant                                                 *)
(***************************************************************************)

\* What a task has left to write is a key, a carriage return or a whole line; who
\* keeps a terminal's lock between two pieces has the carriage return left.
WritesHaveShape ==
    /\ \A t \in Tasks : job[t] # None => job[t].left \in Data
    /\ \A s \in Sessions : writer[s] # None => job[writer[s]].left = <<"cr">>

\* A primer writes at its own session only, and only when it has said so, and looks
\* until its rounds are over.
PrimersHaveShape ==
    \A s \in Agents :
        /\ job[s] # None => job[s].todo = {} /\ primer[s] \in {"accept", "typing"}
        /\ primer[s] = "poll" => polls[s] < MaxPolls

\* Nothing is in the line of a child that does not show its prompt yet.
LinesStartAtPrompt == \A s \in Sessions : screen[s] # "prompt" => line[s] = <<>>

\* A text is followed by its carriage return.
Whole(q) == \A i \in 1..(Len(q) - 1) :
                q[i].part = "text" => q[i + 1] = [q[i] EXCEPT !.part = "cr"]

\* A text at the end is that of the task in between its pieces.
Open(s) ==
    LET q == Stream(s)
    IN  child[s] # "exited" /\ q # <<>> /\ q[Len(q)].part = "text" =>
            writer[s] # None /\ q[Len(q)] = [by |-> writer[s], n |-> job[writer[s]].n,
                                            part |-> "text"]

LinesAreOpen == \A s \in Sessions : Open(s)

Shape == WritesHaveShape /\ PrimersHaveShape /\ LinesStartAtPrompt

IInv == TypeOK /\ Shape /\ LinesAreOpen /\ LinesStayWhole

-----------------------------------------------------------------------------
(***************************************************************************)
(* Types and shapes                                                        *)
(***************************************************************************)

\* The parts of what is written, one after the other.
LEMMA DataParts ==
    /\ Data \subseteq Seq(Parts)
    /\ \A d \in Data : /\ Len(d) \in {1, 2} /\ Head(d) \in Parts
                       /\ Len(d) = 1 => Tail(d) = <<>>
                       /\ Len(d) = 2 => Head(d) = "text" /\ Tail(d) = <<"cr">>
                       /\ Head(d) = "text" => Len(d) = 2
    /\ <<"cr">> \in Data /\ Line \in Data /\ Head(<<"cr">>) = "cr"
  BY DEF Data, Line, Parts

LEMMA TasksAreNoNone == None \notin Tasks /\ Agents \subseteq Tasks /\ Cockpits \subseteq Tasks
                        /\ Agents \subseteq Sessions /\ Agents \cap Cockpits = {}
  BY NamesAssumption DEF Tasks

\* What the types say of a task and of a terminal.
LEMMA JobValues ==
    ASSUME TypeOK, NEW t \in Tasks, job[t] # None
    PROVE  /\ job[t] \in Job /\ job[t].at \in Sessions /\ job[t].todo \subseteq Sessions
           /\ job[t].n \in Nat /\ job[t].data \in Data /\ job[t].left \in Seq(Parts)
           /\ \A s \in Sessions : writer[s] = t => s = job[t].at
  BY TasksAreNoNone DEF TypeOK, Job

\* A write begins at one of its sessions, with all of it left.
LEMMA BeginEffect ==
    ASSUME TypeOK, NEW t \in Tasks, NEW r \in Job, job' = [job EXCEPT ![t] = r]
    PROVE  /\ job' \in [Tasks -> Job \cup {None}] /\ job'[t] = r
           /\ \A x \in Tasks \ {t} : job'[x] = job[x]
  BY DEF TypeOK

\* A task that is done with a session goes on to the next, or ends.
LEMMA WrittenEffect ==
    ASSUME TypeOK, Shape, NEW t \in Tasks, job[t] # None, Written(t)
    PROVE  /\ job' \in [Tasks -> Job \cup {None}]
           /\ \A x \in Tasks \ {t} : job'[x] = job[x]
           /\ job'[t] # None => job'[t].left \in Data /\ t \notin Agents
           /\ writer' \in [Sessions -> Tasks \cup {None}]
           /\ \A s \in Sessions : writer'[s] # t
           /\ \A s \in Sessions : /\ writer'[s] \in {writer[s], None}
                                  /\ s # job[t].at => writer'[s] = writer[s]
           /\ primer' \in [Agents -> {"poll", "accept", "type", "typing", "done"}]
           /\ \A s \in Agents : IF s = t THEN primer'[s] # "poll"
                                         ELSE primer'[s] = primer[s]
  <1>1. /\ job' \in [Tasks -> Job \cup {None}]
        /\ \A x \in Tasks \ {t} : job'[x] = job[x]
        /\ job'[t] # None => job'[t].left \in Data /\ t \notin Agents
    <2>1. CASE job[t].todo = {}
      BY <2>1 DEF Written, TypeOK
    <2>2. CASE job[t].todo # {}
      <3>1. PICK s \in job[t].todo : job' = [job EXCEPT ![t] =
                [at |-> s, todo |-> job[t].todo \ {s}, n |-> job[t].n,
                 data |-> job[t].data, left |-> job[t].data]]
        BY <2>2 DEF Written, Begin
      <3>2. [at |-> s, todo |-> job[t].todo \ {s}, n |-> job[t].n,
             data |-> job[t].data, left |-> job[t].data] \in Job
        BY JobValues, DataParts DEF Job
      <3>3. t \notin Agents
        BY <2>2 DEF Shape, PrimersHaveShape
      <3> QED BY <3>1, <3>2, <3>3, JobValues, BeginEffect
    <2> QED BY <2>1, <2>2
  <1>2. /\ writer' \in [Sessions -> Tasks \cup {None}]
        /\ \A s \in Sessions : writer'[s] # t
        /\ \A s \in Sessions : /\ writer'[s] \in {writer[s], None}
                               /\ s # job[t].at => writer'[s] = writer[s]
    <2>1. writer' = [writer EXCEPT ![job[t].at] = IF @ = t THEN None ELSE @]
      BY DEF Written
    <2>2. t # None /\ \A s \in Sessions : writer[s] = t => s = job[t].at
      BY JobValues, TasksAreNoNone
    <2> QED BY <2>1, <2>2, JobValues DEF TypeOK
  <1>3. /\ primer' \in [Agents -> {"poll", "accept", "type", "typing", "done"}]
        /\ \A s \in Agents : IF s = t THEN primer'[s] # "poll"
                                      ELSE primer'[s] = primer[s]
    BY DEF Written, TypeOK
  <1> QED BY <1>1, <1>2, <1>3

\* A task goes on with the same write, at one of the sessions that are left.
LEMMA WrittenNext ==
    ASSUME TypeOK, NEW t \in Tasks, job[t] # None, Written(t), job'[t] # None
    PROVE  job'[t].n = job[t].n /\ {job'[t].at} \cup job'[t].todo \subseteq job[t].todo
  <1>1. job[t].todo # {}
    BY DEF Written, TypeOK
  <1>2. PICK s \in job[t].todo : job' = [job EXCEPT ![t] =
            [at |-> s, todo |-> job[t].todo \ {s}, n |-> job[t].n,
             data |-> job[t].data, left |-> job[t].data]]
    BY <1>1 DEF Written, Begin
  <1> QED BY <1>2 DEF TypeOK

\* Writes keep their shape when the one task that moves holds no lock.
LEMMA OtherWrites ==
    ASSUME TypeOK, Shape, NEW t \in Tasks, writer' = writer,
           \A s \in Sessions : writer[s] # t,
           \A x \in Tasks : x # t => job'[x] = job[x],
           job'[t] # None => job'[t].left \in Data
    PROVE  WritesHaveShape'
  <1>1. \A x \in Tasks : job'[x] # None => job'[x].left \in Data
    BY DEF Shape, WritesHaveShape
  <1>2. \A s \in Sessions : writer[s] # None => job'[writer[s]].left = <<"cr">>
    BY DEF Shape, WritesHaveShape, TypeOK
  <1> QED BY <1>1, <1>2 DEF WritesHaveShape

\* The initial state has the types and shapes.
LEMMA InitShape == Init => TypeOK /\ Shape
  <1> SUFFICES ASSUME Init PROVE TypeOK /\ Shape
    OBVIOUS
  <1> USE DEF Init
  <1>1. <<>> \in Seq(Request) /\ <<>> \in Seq(Piece)
    BY EmptySeq
  <1>2. TypeOK
    BY <1>1, BoundsAssumption DEF TypeOK
  <1>3. Shape
    BY TasksAreNoNone, BoundsAssumption
    DEF Shape, WritesHaveShape, PrimersHaveShape, LinesStartAtPrompt
  <1> QED BY <1>2, <1>3

\* Clients only send.
LEMMA ClientTypes ==
    ASSUME TypeOK, Shape, NEW c \in Cockpits,
           \/ \E target \in Targets, data \in Data : SendInput(c, target, data)
           \/ \E kind \in {"Pause", "Resume", "Stop"}, s \in Sessions : Order(c, kind, s)
    PROVE  TypeOK' /\ Shape' /\ UNCHANGED daemonVars
  <1>1. PICK r \in Request : requests' = [requests EXCEPT ![c] = Append(@, r)]
    <2>1. ASSUME NEW target \in Targets, NEW data \in Data, SendInput(c, target, data)
          PROVE  \E r \in Request : requests' = [requests EXCEPT ![c] = Append(@, r)]
      <3>1. [kind |-> "Input", target |-> target, n |-> acts, data |-> data] \in Request
        BY BoundsAssumption DEF Request, TypeOK
      <3> QED BY <2>1, <3>1 DEF SendInput
    <2>2. ASSUME NEW kind \in {"Pause", "Resume", "Stop"}, NEW s \in Sessions, Order(c, kind, s)
          PROVE  \E r \in Request : requests' = [requests EXCEPT ![c] = Append(@, r)]
      <3>1. [kind |-> kind, target |-> s] \in Request
        BY DEF Request
      <3> QED BY <2>2, <3>1 DEF Order
    <2> QED BY <2>1, <2>2
  <1>2. UNCHANGED daemonVars /\ acts' \in 0..MaxActs
    <2>1. UNCHANGED daemonVars /\ acts < MaxActs /\ acts' = acts + 1
      BY DEF SendInput, Order, Act
    <2> QED BY <2>1, BoundsAssumption DEF TypeOK
  <1>3. requests' \in [Cockpits -> Seq(Request)]
    BY <1>1 DEF TypeOK
  <1>4. TypeOK'
    BY <1>2, <1>3 DEF TypeOK, daemonVars, writeVars, childVars, primerVars
  <1>5. Shape'
    BY <1>2 DEF Shape, WritesHaveShape, PrimersHaveShape, LinesStartAtPrompt,
                daemonVars, writeVars, childVars, primerVars
  <1> QED BY <1>2, <1>4, <1>5

\* A task that had nothing to write begins.
LEMMA TakeInputTypes ==
    ASSUME TypeOK, Shape, NEW c \in Cockpits, TakeInput(c)
    PROVE  /\ TypeOK' /\ Shape' /\ UNCHANGED <<line, queue, child, writer>>
           /\ job[c] = None /\ \A x \in Tasks \ {c} : job'[x] = job[x]
  <1>1. PICK targets \in SUBSET Sessions : Take(c, Head(requests[c]), targets)
    BY DEF TakeInput
  <1>2. /\ UNCHANGED <<line, queue, child, writer, screen, taken, primer, polls, acts>>
        /\ job[c] = None /\ requests[c] # <<>> /\ requests[c] \in Seq(Request)
        /\ requests' = [requests EXCEPT ![c] = Tail(@)]
        /\ touched' \subseteq Agents
    BY <1>1 DEF TakeInput, Take, childVars, primerVars, TypeOK
  <1>3. Head(requests[c]) \in Request /\ requests' \in [Cockpits -> Seq(Request)]
    BY <1>2 DEF TypeOK
  <1>4. Head(requests[c]).n \in Nat /\ Head(requests[c]).data \in Data
    BY <1>1, <1>3 DEF Take, Request
  <1>5. /\ job' \in [Tasks -> Job \cup {None}]
        /\ \A x \in Tasks \ {c} : job'[x] = job[x]
        /\ job'[c] # None => job'[c].left \in Data
    <2>1. CASE targets = {}
      BY <1>1, <1>2, <2>1 DEF Take, TypeOK
    <2>2. CASE targets # {}
      <3> DEFINE r(s) == [at |-> s, todo |-> targets \ {s}, n |-> Head(requests[c]).n,
                          data |-> Head(requests[c]).data, left |-> Head(requests[c]).data]
      <3>1. PICK s \in targets : job' = [job EXCEPT ![c] = r(s)]
        BY <1>1, <2>2 DEF Take, Begin
      <3>2. r(s) \in Job
        BY <1>4, DataParts DEF Job
      <3> QED BY <1>4, <3>1, <3>2, BeginEffect, TasksAreNoNone
    <2> QED BY <2>1, <2>2
  <1>6. \A s \in Sessions : writer[s] # c
    BY <1>2, TasksAreNoNone DEF TypeOK
  <1>7. TypeOK'
    BY <1>2, <1>3, <1>5, <1>6 DEF TypeOK
  <1>8. WritesHaveShape'
    BY <1>2, <1>5, <1>6, TasksAreNoNone, OtherWrites
  <1>9. PrimersHaveShape' /\ LinesStartAtPrompt'
    BY <1>2, <1>5, TasksAreNoNone DEF Shape, PrimersHaveShape, LinesStartAtPrompt
  <1> QED BY <1>2, <1>5, <1>7, <1>8, <1>9 DEF Shape

\* A request to a child.
LEMMA ObeyTypes ==
    ASSUME TypeOK, Shape, NEW c \in Cockpits, Obey(c)
    PROVE  /\ TypeOK' /\ Shape' /\ UNCHANGED <<line, queue, job, writer>>
           /\ \A s \in Sessions : child[s] = "exited" => child'[s] = "exited"
  <1>1. /\ UNCHANGED <<job, writer, queue, line, screen, taken, primer, polls, touched, acts>>
        /\ requests[c] # <<>> /\ Head(requests[c]).kind # "Input"
        /\ requests' = [requests EXCEPT ![c] = Tail(@)]
    BY DEF Obey, writeVars, primerVars
  <1>2. Head(requests[c]) \in Request /\ requests' \in [Cockpits -> Seq(Request)]
    BY <1>1 DEF TypeOK
  <1>3. /\ Head(requests[c]).kind \in {"Pause", "Resume", "Stop"}
        /\ Head(requests[c]).target \in Sessions
    BY <1>1, <1>2 DEF Request
  <1>4. /\ child' \in [Sessions -> {"running", "paused", "exited"}]
        /\ \A s \in Sessions : child[s] = "exited" => child'[s] = "exited"
    <2> DEFINE target == Head(requests[c]).target
               to == [Pause |-> "paused", Resume |-> "running", Stop |-> "exited"]
    <2>1. to[Head(requests[c]).kind] \in {"running", "paused", "exited"}
      BY <1>3
    <2>2. child' = IF child[target] = "exited" THEN child
                   ELSE [child EXCEPT ![target] = to[Head(requests[c]).kind]]
      BY DEF Obey
    <2> HIDE DEF to
    <2> QED BY <1>3, <2>1, <2>2 DEF TypeOK
  <1>5. TypeOK'
    BY <1>1, <1>2, <1>4 DEF TypeOK
  <1>6. Shape'
    BY <1>1 DEF Shape, WritesHaveShape, PrimersHaveShape, LinesStartAtPrompt
  <1> QED BY <1>1, <1>4, <1>5, <1>6

\* A task that has written to a session, or failed to, keeps types and shapes.
LEMMA WrittenTypes ==
    ASSUME TypeOK, Shape, NEW t \in Tasks, job[t] # None, Written(t),
           queue' \in [Sessions -> Seq(Piece)],
           UNCHANGED <<requests, line, child, screen, taken, polls, touched, acts>>
    PROVE  TypeOK' /\ Shape'
  <1>1. /\ job' \in [Tasks -> Job \cup {None}] /\ writer' \in [Sessions -> Tasks \cup {None}]
        /\ primer' \in [Agents -> {"poll", "accept", "type", "typing", "done"}]
    BY WrittenEffect
  <1>2. \A x \in Tasks : x # t => job'[x] = job[x]
    BY WrittenEffect
  <1>3. \A s \in Sessions : writer'[s] # None => writer'[s] = writer[s] /\ writer'[s] # t
    BY WrittenEffect
  <1>4. TypeOK'
    <2>1. \A s \in Sessions : writer'[s] # None =>
              job'[writer'[s]] # None /\ job'[writer'[s]].at = s
      BY <1>2, <1>3 DEF TypeOK
    <2> QED BY <1>1, <2>1 DEF TypeOK
  <1>5. WritesHaveShape'
    <2>1. \A x \in Tasks : job'[x] # None => job'[x].left \in Data
      BY <1>2, WrittenEffect DEF Shape, WritesHaveShape
    <2>2. \A s \in Sessions : writer'[s] # None => job'[writer'[s]].left = <<"cr">>
      BY <1>2, <1>3 DEF Shape, WritesHaveShape, TypeOK
    <2> QED BY <2>1, <2>2 DEF WritesHaveShape
  <1>6. PrimersHaveShape'
    BY <1>2, WrittenEffect, TasksAreNoNone DEF Shape, PrimersHaveShape
  <1>7. LinesStartAtPrompt'
    BY DEF Shape, LinesStartAtPrompt
  <1> QED BY <1>4, <1>5, <1>6, <1>7 DEF Shape

\* A task writes a piece, or fails to.
LEMMA PutTypes ==
    ASSUME TypeOK, Shape, NEW t \in Tasks, Put(t)
    PROVE  TypeOK' /\ Shape'
  <1> DEFINE at == job[t].at
             p == [by |-> t, n |-> job[t].n, part |-> Head(job[t].left)]
  <1>1. /\ job[t] # None /\ queue' = [queue EXCEPT ![at] = Append(@, p)]
        /\ UNCHANGED <<requests, line, child, screen, taken, polls, touched, acts>>
    BY DEF Put, Append1, childVars
  <1>2. job[t].left \in Data /\ at \in Sessions /\ job[t] \in Job
    BY <1>1, JobValues DEF Shape, WritesHaveShape
  <1>3. queue' \in [Sessions -> Seq(Piece)]
    <2>1. p \in Piece
      BY <1>1, <1>2, JobValues, DataParts DEF Piece
    <2> QED BY <1>1, <1>2, <2>1 DEF TypeOK
  <1>4. CASE Len(job[t].left) = 1
    BY <1>1, <1>3, <1>4, WrittenTypes DEF Put, Append1
  <1>5. CASE Len(job[t].left) # 1
    <2>1. /\ job' = [job EXCEPT ![t].left = Tail(@)] /\ writer' = [writer EXCEPT ![at] = t]
          /\ primer' = primer
      BY <1>5 DEF Put, Append1
    <2>2. Tail(job[t].left) = <<"cr">> /\ Tail(job[t].left) \in Seq(Parts)
      BY <1>2, <1>5, DataParts
    <2>3. /\ job'[t] \in Job /\ job'[t].at = at /\ job'[t].left = <<"cr">>
          /\ job'[t].todo = job[t].todo
      BY <1>2, <2>1, <2>2 DEF Job, TypeOK
    <2>4. /\ job' \in [Tasks -> Job \cup {None}]
          /\ \A x \in Tasks : x # t => job'[x] = job[x]
      BY <2>1, <2>3 DEF TypeOK
    <2>5. writer' \in [Sessions -> Tasks \cup {None}]
          /\ \A s \in Sessions : IF s = at THEN writer'[s] = t
                                 ELSE writer'[s] = writer[s] /\ writer[s] # t
      BY <1>1, <1>2, <2>1, JobValues DEF TypeOK
    <2>6. \A s \in Sessions : writer'[s] # None => /\ job'[writer'[s]] # None
                                                   /\ job'[writer'[s]].at = s
                                                   /\ job'[writer'[s]].left = <<"cr">>
      <3>1. job'[t] # None
        BY <2>3, NoneAssumption
      <3>2. \A s \in Sessions : s # at /\ writer[s] # None =>
                /\ writer[s] \in Tasks /\ writer[s] # t
                /\ job[writer[s]] # None /\ job[writer[s]].at = s
                /\ job[writer[s]].left = <<"cr">>
        BY <2>5 DEF TypeOK, Shape, WritesHaveShape
      <3> SUFFICES ASSUME NEW s \in Sessions, writer'[s] # None
                   PROVE  /\ job'[writer'[s]] # None /\ job'[writer'[s]].at = s
                          /\ job'[writer'[s]].left = <<"cr">>
        OBVIOUS
      <3>3. CASE s = at
        BY <2>3, <2>5, <3>1, <3>3
      <3>4. CASE s # at
        <4>1. writer'[s] = writer[s] /\ writer[s] # None
          BY <2>5, <3>4
        <4>2. job'[writer[s]] = job[writer[s]]
          BY <2>4, <3>2, <3>4, <4>1
        <4> QED BY <3>2, <3>4, <4>1, <4>2
      <3> QED BY <3>3, <3>4
    <2>7. TypeOK'
      BY <1>1, <1>3, <2>1, <2>4, <2>5, <2>6 DEF TypeOK
    <2>8. WritesHaveShape'
      BY <2>3, <2>4, <2>6, DataParts DEF Shape, WritesHaveShape
    <2>9. PrimersHaveShape'
      BY <1>1, <2>1, <2>3, <2>4, TasksAreNoNone DEF Shape, PrimersHaveShape
    <2>10. LinesStartAtPrompt'
      BY <1>1 DEF Shape, LinesStartAtPrompt
    <2> QED BY <2>7, <2>8, <2>9, <2>10 DEF Shape
  <1> QED BY <1>4, <1>5

LEMMA FailTypes ==
    ASSUME TypeOK, Shape, NEW t \in Tasks, Fail(t)
    PROVE  TypeOK' /\ Shape'
  <1>1. /\ job[t] # None /\ Written(t) /\ queue' = queue
        /\ UNCHANGED <<requests, line, child, screen, taken, polls, touched, acts>>
    BY DEF Fail, childVars
  <1>2. queue' \in [Sessions -> Seq(Piece)]
    BY <1>1 DEF TypeOK
  <1> QED BY <1>1, <1>2, WrittenTypes

\* A primer begins to write, at its own session.
LEMMA PrimerBegins ==
    ASSUME TypeOK, Shape, NEW s \in Agents, NEW n \in Nat, NEW data \in Data,
           primer[s] \in {"poll", "type"},
           Begin(s, {s}, n, data), NEW to \in {"accept", "typing"},
           primer' = [primer EXCEPT ![s] = to],
           UNCHANGED <<requests, writer, queue, line, child, screen, taken, polls, touched, acts>>
    PROVE  /\ TypeOK' /\ Shape' /\ job[s] = None
           /\ \A x \in Tasks : x # s => job'[x] = job[x]
  <1> DEFINE r == [at |-> s, todo |-> {}, n |-> n, data |-> data, left |-> data]
  <1>1. s \in Tasks /\ s \in Sessions /\ job[s] = None
    BY TasksAreNoNone DEF Shape, PrimersHaveShape
  <1>2. job' = [job EXCEPT ![s] = r]
    <2>1. {s} \ {s} = {}
      OBVIOUS
    <2> QED BY <2>1 DEF Begin
  <1>3. r \in Job
    BY <1>1, DataParts DEF Job
  <1>4. /\ job' \in [Tasks -> Job \cup {None}] /\ job'[s] = r
        /\ \A x \in Tasks : x # s => job'[x] = job[x]
    BY <1>1, <1>2, <1>3 DEF TypeOK
  <1>5. \A x \in Sessions : writer[x] # s
    BY <1>1, TasksAreNoNone DEF TypeOK
  <1>6. TypeOK'
    BY <1>4, <1>5 DEF TypeOK
  <1>7. WritesHaveShape'
    BY <1>1, <1>4, <1>5, OtherWrites
  <1>8. PrimersHaveShape'
    BY <1>1, <1>4, TasksAreNoNone DEF Shape, PrimersHaveShape, TypeOK
  <1>9. LinesStartAtPrompt'
    BY DEF Shape, LinesStartAtPrompt
  <1> QED BY <1>1, <1>4, <1>6, <1>7, <1>8, <1>9 DEF Shape

LEMMA PrimeTypes ==
    ASSUME TypeOK, Shape, NEW s \in Agents, Look(s) \/ Type(s)
    PROVE  /\ TypeOK' /\ Shape' /\ UNCHANGED <<line, queue, child, writer>>
           /\ \A x \in Tasks : job[x] # None => job'[x] = job[x]
  <1>1. UNCHANGED <<requests, writer, queue, line, child, screen, taken, touched, acts>>
    BY DEF Look, Type, childVars
  <1>2. CASE Type(s)
    <2>1. primer[s] = "type" /\ Begin(s, {s}, 1, Line) /\ polls' = polls
          /\ primer' = [primer EXCEPT ![s] = "typing"]
      BY <1>2 DEF Type
    <2> QED BY <1>1, <2>1, PrimerBegins, DataParts
  <1>3. CASE Look(s) /\ screen[s] = "dialog"
    <2>1. primer[s] = "poll" /\ Begin(s, {s}, 0, <<"cr">>) /\ polls' = polls
          /\ primer' = [primer EXCEPT ![s] = "accept"]
      BY <1>3 DEF Look
    <2> QED BY <1>1, <2>1, PrimerBegins, DataParts
  <1>4. CASE Look(s) /\ screen[s] # "dialog"
    <2>1. screen[s] \in {"banner", "prompt"} /\ primer[s] = "poll" /\ polls[s] \in 0..MaxPolls
          /\ job[s] = None
      BY <1>4, TasksAreNoNone DEF Look, TypeOK, Shape, PrimersHaveShape
    <2>2. /\ job' = job
          /\ \/ primer' = primer /\ (screen[s] = "banner" => polls'[s] < MaxPolls)
             \/ primer' = [primer EXCEPT ![s] = "type"]
          /\ \A x \in Agents : x # s => polls'[x] = polls[x]
          /\ primer' = primer => screen[s] = "banner"
      BY <1>4, <2>1 DEF Look, TypeOK
    <2>3. polls' \in [Agents -> 0..MaxPolls]
      <3>1. CASE screen[s] = "prompt"
        BY <1>4, <3>1 DEF Look, TypeOK
      <3>2. CASE screen[s] = "banner"
        <4>1. /\ polls' = [polls EXCEPT ![s] = @ + 1]
              /\ primer' = IF polls'[s] < MaxPolls THEN primer ELSE [primer EXCEPT ![s] = "type"]
          BY <1>4, <3>2 DEF Look
        <4>2. polls[s] < MaxPolls
          BY <2>1 DEF Shape, PrimersHaveShape
        <4> QED BY <2>1, <4>1, <4>2, BoundsAssumption DEF TypeOK
      <3> QED BY <2>1, <3>1, <3>2
    <2>4. TypeOK'
      BY <1>1, <2>2, <2>3 DEF TypeOK
    <2>5. Shape'
      <3>1. WritesHaveShape' /\ LinesStartAtPrompt'
        BY <1>1, <2>2 DEF Shape, WritesHaveShape, LinesStartAtPrompt
      <3>2. PrimersHaveShape'
        <4> SUFFICES ASSUME NEW x \in Agents
                     PROVE  /\ job[x] # None =>
                                  job[x].todo = {} /\ primer'[x] \in {"accept", "typing"}
                            /\ primer'[x] = "poll" => polls'[x] < MaxPolls
          BY <2>2 DEF PrimersHaveShape
        <4>1. primer \in [Agents -> {"poll", "accept", "type", "typing", "done"}]
          BY DEF TypeOK
        <4>2. CASE x = s
          BY <2>1, <2>2, <4>1, <4>2
        <4>3. CASE x # s
          <5>1. primer'[x] = primer[x] /\ polls'[x] = polls[x]
            BY <2>2, <4>1, <4>3
          <5> QED BY <5>1 DEF Shape, PrimersHaveShape
        <4> QED BY <4>2, <4>3
      <3> QED BY <3>1, <3>2 DEF Shape
    <2> QED BY <1>1, <2>2, <2>4, <2>5
  <1> QED BY <1>2, <1>3, <1>4

\* A task is at the part left of its n-th write.
Writes(t, n, left) == job[t] # None /\ job[t].n = n /\ job[t].left = left

\* What a primer does: it accepts the dialog, is ready, looks once more, or writes.
LEMMA PrimerSteps ==
    ASSUME TypeOK, Shape, NEW s \in Agents, Look(s) \/ Type(s)
    PROVE  /\ UNCHANGED <<requests, writer, queue, line, child, screen, taken, touched, acts>>
           /\ \A x \in Tasks : x # s => job'[x] = job[x]
           /\ \A x \in Agents : x # s => primer'[x] = primer[x] /\ polls'[x] = polls[x]
           /\ job'[s] # None => job'[s].at = s
           /\ polls[s] <= polls'[s]
           /\ \/ /\ primer[s] = "poll" /\ screen[s] = "dialog" /\ primer'[s] = "accept"
                 /\ Writes(s, 0, <<"cr">>)'
              \/ primer[s] = "poll" /\ screen[s] = "prompt" /\ primer'[s] = "type"
              \/ /\ primer[s] = "poll" /\ screen[s] = "banner"
                 /\ primer'[s] = "poll" \/ ~(polls'[s] < MaxPolls)
              \/ primer[s] = "type" /\ primer'[s] = "typing" /\ Writes(s, 1, Line)'
  <1> DEFINE r(n, d) == [at |-> s, todo |-> {}, n |-> n, data |-> d, left |-> d]
  <1>1. /\ UNCHANGED <<requests, writer, queue, line, child, screen, taken, touched, acts>>
        /\ s \in Tasks /\ polls[s] \in Nat
        /\ primer[s] \in {"poll", "type"} => job[s] = None
    <2>1. UNCHANGED <<requests, writer, queue, line, child, screen, taken, touched, acts>>
      BY DEF Look, Type, childVars
    <2>2. s \in Tasks /\ polls[s] \in Nat
      BY TasksAreNoNone, BoundsAssumption DEF TypeOK
    <2>3. primer[s] \in {"poll", "type"} => job[s] = None
      BY TasksAreNoNone DEF Shape, PrimersHaveShape
    <2> QED BY <2>1, <2>2, <2>3
  <1>2. \A n, d : Begin(s, {s}, n, d) => job' = [job EXCEPT ![s] = r(n, d)]
    <2>1. {s} \ {s} = {}
      OBVIOUS
    <2> QED BY <2>1 DEF Begin
  <1>3. r(0, <<"cr">>) \in Job /\ r(1, Line) \in Job
    BY DataParts, NamesAssumption DEF Job
  <1>4. r(0, <<"cr">>) # None /\ r(1, Line) # None
    BY <1>3, NoneAssumption
  <1>5. CASE Type(s)
    <2>1. /\ primer[s] = "type" /\ job' = [job EXCEPT ![s] = r(1, Line)] /\ polls' = polls
          /\ primer' = [primer EXCEPT ![s] = "typing"]
      BY <1>2, <1>5 DEF Type
    <2>2. job'[s] = r(1, Line) /\ \A x \in Tasks : x # s => job'[x] = job[x]
      BY <1>1, <2>1 DEF TypeOK
    <2>3. Writes(s, 1, Line)' /\ job'[s].at = s
      BY <1>4, <2>2 DEF Writes
    <2> QED BY <1>1, <2>1, <2>2, <2>3 DEF TypeOK
  <1>6. CASE Look(s) /\ screen[s] = "dialog"
    <2>1. /\ primer[s] = "poll" /\ job' = [job EXCEPT ![s] = r(0, <<"cr">>)] /\ polls' = polls
          /\ primer' = [primer EXCEPT ![s] = "accept"]
      BY <1>2, <1>6 DEF Look
    <2>2. job'[s] = r(0, <<"cr">>) /\ \A x \in Tasks : x # s => job'[x] = job[x]
      BY <1>1, <2>1 DEF TypeOK
    <2>3. Writes(s, 0, <<"cr">>)' /\ job'[s].at = s
      BY <1>4, <2>2 DEF Writes
    <2> QED BY <1>1, <1>6, <2>1, <2>2, <2>3 DEF TypeOK
  <1>7. CASE Look(s) /\ screen[s] = "prompt"
    <2>1. /\ primer[s] = "poll" /\ job' = job /\ polls' = polls
          /\ primer' = [primer EXCEPT ![s] = "type"]
      BY <1>7 DEF Look
    <2> QED BY <1>1, <1>7, <2>1 DEF TypeOK
  <1>8. CASE Look(s) /\ screen[s] = "banner"
    <2>1. /\ primer[s] = "poll" /\ job' = job /\ polls' = [polls EXCEPT ![s] = @ + 1]
          /\ primer' = IF polls'[s] < MaxPolls THEN primer ELSE [primer EXCEPT ![s] = "type"]
      BY <1>8 DEF Look
    <2>2. polls'[s] = polls[s] + 1 /\ \A x \in Agents : x # s => polls'[x] = polls[x]
      BY <2>1 DEF TypeOK
    <2>3. /\ primer'[s] = "poll" \/ ~(polls'[s] < MaxPolls)
          /\ \A x \in Agents : x # s => primer'[x] = primer[x]
      BY <2>1 DEF TypeOK
    <2> QED BY <1>1, <1>8, <2>1, <2>2, <2>3
  <1>9. screen[s] \in {"banner", "dialog", "prompt"}
    BY TasksAreNoNone DEF TypeOK
  <1> QED BY <1>5, <1>6, <1>7, <1>8, <1>9

\* A child gets ready, or reads.
LEMMA ChildTypes ==
    ASSUME TypeOK, Shape, NEW s \in Sessions, Show(s) \/ Read(s)
    PROVE  TypeOK' /\ Shape'
  <1>1. UNCHANGED <<requests, job, writer, child, primer, polls, touched, acts>>
    BY DEF Show, Read, writeVars, primerVars
  <1>2. CASE Show(s)
    <2>1. /\ screen' \in [Sessions -> {"banner", "dialog", "prompt"}]
          /\ screen[s] = "banner" /\ UNCHANGED <<queue, line, taken>>
          /\ \A x \in Sessions : x # s => screen'[x] = screen[x]
      BY <1>2 DEF Show, TypeOK, writeVars
    <2>2. TypeOK'
      BY <1>1, <2>1 DEF TypeOK
    <2>3. Shape'
      BY <1>1, <2>1 DEF Shape, WritesHaveShape, PrimersHaveShape, LinesStartAtPrompt
    <2> QED BY <2>2, <2>3
  <1>3. CASE Read(s)
    <2>1. /\ queue[s] # <<>> /\ queue[s] \in Seq(Piece) /\ line[s] \in Seq(Piece)
          /\ screen[s] # "banner" /\ queue' = [queue EXCEPT ![s] = Tail(@)]
      BY <1>3 DEF Read, TypeOK
    <2>2. Head(queue[s]) \in Piece /\ queue' \in [Sessions -> Seq(Piece)]
      BY <2>1 DEF TypeOK
    <2>3. CASE screen[s] = "dialog"
      <3>1. /\ screen' \in [Sessions -> {"banner", "dialog", "prompt"}]
            /\ UNCHANGED <<line, taken>>
            /\ \A x \in Sessions : screen'[x] = "prompt" \/ screen'[x] = screen[x]
        BY <1>3, <2>3 DEF Read, TypeOK
      <3>2. TypeOK'
        BY <1>1, <2>2, <3>1 DEF TypeOK
      <3>3. Shape'
        BY <1>1, <3>1 DEF Shape, WritesHaveShape, PrimersHaveShape, LinesStartAtPrompt
      <3> QED BY <3>2, <3>3
    <2>4. CASE screen[s] # "dialog"
      <3>1. screen[s] = "prompt" /\ screen' = screen
        BY <1>3, <2>1, <2>4 DEF Read, TypeOK
      <3>2. line' = [line EXCEPT ![s] = IF Head(queue[s]).part = "cr" THEN <<>>
                                        ELSE Append(@, Head(queue[s]))]
        BY <1>3, <2>4 DEF Read
      <3>3. line' \in [Sessions -> Seq(Piece)] /\ \A x \in Sessions : x # s => line'[x] = line[x]
        <4>1. <<>> \in Seq(Piece) /\ Append(line[s], Head(queue[s])) \in Seq(Piece)
          BY <2>1, <2>2, EmptySeq
        <4> QED BY <3>2, <4>1 DEF TypeOK
      <3>4. taken' \subseteq Agents
        <4>1. ASSUME line[s] = <<Opening(s)>> PROVE s \in Agents
          <5>1. line[s][1] = Opening(s) /\ Opening(s).by = s
            BY <4>1 DEF Opening
          <5>2. line[s][1] \in Piece
            BY <2>1, <4>1
          <5> QED BY <5>1, <5>2, NamesAssumption DEF Piece, Tasks
        <4> QED BY <1>3, <2>4, <4>1 DEF Read, TypeOK
      <3>5. TypeOK'
        BY <1>1, <2>2, <3>1, <3>3, <3>4 DEF TypeOK
      <3>6. Shape'
        BY <1>1, <3>1, <3>3 DEF Shape, WritesHaveShape, PrimersHaveShape, LinesStartAtPrompt
      <3> QED BY <3>5, <3>6
    <2> QED BY <2>3, <2>4
  <1> QED BY <1>2, <1>3

-----------------------------------------------------------------------------
(***************************************************************************)
(* Lines                                                                   *)
(***************************************************************************)

LEMMA AppendWhole ==
    ASSUME NEW q \in Seq(Piece), Whole(q), NEW p \in Piece,
           q # <<>> /\ q[Len(q)].part = "text" => p = [q[Len(q)] EXCEPT !.part = "cr"]
    PROVE  Whole(Append(q, p))
  <1>1. /\ Len(q) \in Nat /\ Len(Append(q, p)) = Len(q) + 1
        /\ \A i \in 1..Len(q) : Append(q, p)[i] = q[i]
        /\ Append(q, p)[Len(q) + 1] = p
    OBVIOUS
  <1> SUFFICES ASSUME NEW i \in 1..Len(q), q[i].part = "text"
               PROVE  Append(q, p)[i + 1] = [q[i] EXCEPT !.part = "cr"]
    BY <1>1 DEF Whole
  <1>2. CASE i = Len(q)
    <2>1. q # <<>>
      BY <1>1, <1>2
    <2> QED BY <1>1, <1>2, <2>1
  <1>3. CASE i # Len(q)
    <2>1. i \in 1..(Len(q) - 1) /\ i + 1 \in 1..Len(q)
      BY <1>1, <1>3
    <2> QED BY <1>1, <2>1 DEF Whole
  <1> QED BY <1>2, <1>3

LEMMA TailWhole ==
    ASSUME NEW q \in Seq(Piece), Whole(q), q # <<>>
    PROVE  Whole(Tail(q))
  <1>1. /\ Len(q) \in Nat \ {0} /\ Len(Tail(q)) = Len(q) - 1
        /\ \A i \in 1..Len(Tail(q)) : Tail(q)[i] = q[i + 1]
    OBVIOUS
  <1> SUFFICES ASSUME NEW i \in 1..(Len(Tail(q)) - 1), Tail(q)[i].part = "text"
               PROVE  Tail(q)[i + 1] = [Tail(q)[i] EXCEPT !.part = "cr"]
    BY DEF Whole
  <1>2. i \in 1..Len(Tail(q)) /\ i + 1 \in 1..Len(Tail(q)) /\ i + 1 \in 1..(Len(q) - 1)
    BY <1>1
  <1>3. q[i + 1].part = "text" => q[i + 2] = [q[i + 1] EXCEPT !.part = "cr"]
    BY <1>2 DEF Whole
  <1> QED BY <1>1, <1>2, <1>3

\* The stream of a terminal is its queue, behind one piece at most.
LEMMA StreamParts ==
    ASSUME TypeOK, NEW s \in Sessions
    PROVE  /\ Stream(s) \in Seq(Piece)
           /\ Stream(s) # queue[s] => Stream(s) # <<>> /\ Tail(Stream(s)) = queue[s]
           /\ queue[s] # <<>> => Stream(s) # <<>>
                                 /\ queue[s][Len(queue[s])] = Stream(s)[Len(Stream(s))]
  <1>1. queue[s] \in Seq(Piece) /\ line[s] \in Seq(Piece)
    BY DEF TypeOK
  <1>2. CASE line[s] = <<>>
    <2>1. Stream(s) = queue[s]
      BY <1>1, <1>2, ConcatEmptySeq DEF Stream
    <2> QED BY <1>1, <2>1
  <1>3. CASE line[s] # <<>>
    <2> DEFINE x == line[s][Len(line[s])]
    <2>1. x \in Piece
      BY <1>1, <1>3
    <2>2. Stream(s) = <<x>> \o queue[s]
      BY <1>3 DEF Stream
    <2> HIDE DEF x
    <2> QED BY <1>1, <2>1, <2>2
  <1> QED BY <1>2, <1>3

Lines(s) == Open(s) /\ Whole(Stream(s))

\* Terminals that a step does not write to or read from.
LEMMA LinesFrame ==
    ASSUME TypeOK, NEW s \in Sessions, Lines(s),
           line'[s] = line[s], queue'[s] = queue[s], writer'[s] = writer[s],
           writer[s] # None => job'[writer[s]].n = job[writer[s]].n,
           child[s] = "exited" => child'[s] = "exited"
    PROVE  Lines(s)'
  <1>1. Stream(s)' = Stream(s)
    BY DEF Stream
  <1>2. child'[s] # "exited" => child[s] # "exited"
    OBVIOUS
  <1>3. Whole(Stream(s))'
    BY <1>1 DEF Lines, Whole
  <1>4. Open(s)'
    BY <1>1, <1>2 DEF Lines, Open
  <1> QED BY <1>3, <1>4 DEF Lines

LEMMA ConcatAppend ==
    ASSUME NEW f \in Seq(Piece), NEW q \in Seq(Piece), NEW p \in Piece
    PROVE  f \o Append(q, p) = Append(f \o q, p)
  <1>1. /\ f \o q \in Seq(Piece) /\ Append(q, p) \in Seq(Piece) /\ <<p>> \in Seq(Piece)
        /\ Append(q, p) = q \o <<p>> /\ Append(f \o q, p) = (f \o q) \o <<p>>
    BY AppendIsConcat
  <1> QED BY <1>1, ConcatAssociative

\* A piece that is put into a terminal goes behind what may stand before it.
LEMMA PutLines ==
    ASSUME TypeOK, Shape, NEW t \in Tasks, Put(t), \A s \in Sessions : Lines(s)
    PROVE  \A s \in Sessions : Lines(s)'
  <1>1. PICK at, p : at = job[t].at /\ p = [by |-> t, n |-> job[t].n, part |-> Head(job[t].left)]
    OBVIOUS
  <1>2. /\ job[t] # None /\ writer[at] \in {None, t} /\ child[at] # "exited"
        /\ queue' = [queue EXCEPT ![at] = Append(@, p)]
        /\ line' = line /\ child' = child
    BY <1>1 DEF Put, Append1, childVars
  <1>3. job[t].left \in Data /\ at \in Sessions /\ job[t] \in Job
    BY <1>1, <1>2, JobValues DEF Shape, WritesHaveShape
  <1>4. p \in Piece
    BY <1>1, <1>2, <1>3, JobValues, DataParts DEF Piece
  <1>5. ASSUME NEW s \in Sessions, s # at PROVE Lines(s)'
    <2>1. queue'[s] = queue[s]
      BY <1>2, <1>5 DEF TypeOK
    <2>2. writer'[s] = writer[s] /\ \A x \in Tasks : x # t => job'[x] = job[x]
      <3>1. CASE Len(job[t].left) = 1
        BY <1>1, <1>2, <1>5, <3>1, WrittenEffect DEF Put, Append1
      <3>2. CASE Len(job[t].left) # 1
        BY <1>1, <1>2, <1>5, <3>2 DEF Put, Append1, TypeOK
      <3> QED BY <3>1, <3>2
    <2>3. writer[s] # t
      BY <1>1, <1>2, <1>5, JobValues
    <2>4. writer[s] # None => job'[writer[s]].n = job[writer[s]].n
      BY <2>2, <2>3 DEF TypeOK
    <2> QED BY <1>2, <2>1, <2>2, <2>4, LinesFrame
  <1>6. Lines(at)'
    <2>1. /\ Stream(at) \in Seq(Piece) /\ Whole(Stream(at)) /\ Open(at)
          /\ queue[at] \in Seq(Piece) /\ line[at] \in Seq(Piece)
          /\ queue'[at] = Append(queue[at], p)
      BY <1>2, <1>3, StreamParts DEF TypeOK, Lines
    <2>2. Stream(at)' = Append(Stream(at), p)
      <3> DEFINE front == IF line[at] = <<>> THEN <<>> ELSE <<line[at][Len(line[at])]>>
      <3>1. Stream(at) = front \o queue[at] /\ Stream(at)' = front \o queue'[at]
        BY <1>2 DEF Stream
      <3>2. front \in Seq(Piece)
        BY <2>1
      <3> HIDE DEF front
      <3> QED BY <1>4, <2>1, <3>1, <3>2, ConcatAppend
    <2>3. PICK q \in Seq(Piece) : q = Stream(at)
      BY <2>1
    <2>4. ASSUME q # <<>>, q[Len(q)].part = "text" PROVE p = [q[Len(q)] EXCEPT !.part = "cr"]
      <3>1. writer[at] # None /\ q[Len(q)] = [by |-> writer[at], n |-> job[writer[at]].n,
                                              part |-> "text"]
        BY <1>2, <2>1, <2>3, <2>4 DEF Open
      <3>2. writer[at] = t /\ job[t].left = <<"cr">>
        BY <1>2, <1>3, <3>1 DEF Shape, WritesHaveShape
      <3> QED BY <1>1, <3>1, <3>2, DataParts
    <2>5. Whole(Append(q, p))
      BY <1>4, <2>1, <2>3, <2>4, AppendWhole
    <2>6. p.part = "text" => writer'[at] = t /\ job'[t].n = job[t].n
      <3> SUFFICES ASSUME p.part = "text" PROVE writer'[at] = t /\ job'[t].n = job[t].n
        OBVIOUS
      <3>1. Len(job[t].left) # 1
        BY <1>1, <1>3, DataParts
      <3>2. /\ job' = [job EXCEPT ![t].left = Tail(@)]
            /\ writer' = [writer EXCEPT ![at] = t]
        BY <1>1, <3>1 DEF Put, Append1
      <3> QED BY <1>3, <3>2 DEF Job, TypeOK
    <2>7. Append(q, p)[Len(Append(q, p))] = p
      BY <1>4
    <2>8. Open(at)'
      BY <1>1, <2>2, <2>3, <2>6, <2>7, TasksAreNoNone DEF Open
    <2>9. Whole(Stream(at))'
      BY <2>2, <2>3, <2>5 DEF Whole
    <2> QED BY <2>8, <2>9 DEF Lines
  <1> QED BY <1>5, <1>6

\* What a child reads it takes away from the front.
LEMMA ReadLines ==
    ASSUME TypeOK, Shape, NEW s \in Sessions, Read(s), Lines(s)
    PROVE  Lines(s)'
  <1>1. /\ queue[s] # <<>> /\ queue[s] \in Seq(Piece) /\ line[s] \in Seq(Piece)
        /\ queue'[s] = Tail(queue[s])
        /\ UNCHANGED <<job, writer, child>>
    BY DEF Read, TypeOK
  <1>2. PICK q \in Seq(Piece) : q = queue[s]
    BY <1>1
  <1>3. Whole(q) /\ Whole(Tail(q)) /\ Tail(q) \in Seq(Piece)
    <2>1. Whole(q)
      BY <1>2, StreamParts, TailWhole DEF Lines
    <2> QED BY <1>1, <1>2, <2>1, TailWhole
  <1>4. Stream(s)' \in {q, Tail(q)}
    <2>1. ASSUME line'[s] = <<>> PROVE Stream(s)' = Tail(q)
      <3>1. Stream(s)' = <<>> \o queue'[s]
        BY <2>1 DEF Stream
      <3> QED BY <1>1, <1>2, <1>3, <3>1, ConcatEmptySeq
    <2>2. ASSUME line'[s] = Append(line[s], Head(q)) PROVE Stream(s)' = q
      <3>1. line'[s] # <<>> /\ line'[s][Len(line'[s])] = Head(q)
        <4>1. PICK l \in Seq(Piece), p \in Piece : l = line[s] /\ p = Head(q)
          BY <1>1, <1>2
        <4>2. /\ Append(l, p) \in Seq(Piece) /\ Len(Append(l, p)) = Len(l) + 1
              /\ Append(l, p)[Len(l) + 1] = p /\ Len(l) \in Nat
          OBVIOUS
        <4>3. Append(l, p) # <<>>
          BY <4>2, EmptySeq
        <4> QED BY <2>2, <4>1, <4>2, <4>3
      <3>2. Stream(s)' = <<Head(q)>> \o queue'[s]
        BY <3>1 DEF Stream
      <3> QED BY <1>1, <1>2, <3>2
    <2>3. line'[s] = <<>> \/ line'[s] = Append(line[s], Head(q))
      BY <1>1, <1>2 DEF Read, TypeOK, Shape, LinesStartAtPrompt
    <2> QED BY <2>1, <2>2, <2>3
  <1>5. Whole(Stream(s))'
    BY <1>3, <1>4 DEF Whole
  <1>6. \A x \in {q, Tail(q)} : x # <<>> => x[Len(x)] = Stream(s)[Len(Stream(s))]
    <2>1. Stream(s) # <<>> /\ q[Len(q)] = Stream(s)[Len(Stream(s))]
      BY <1>1, <1>2, StreamParts
    <2>2. Tail(q) # <<>> => Tail(q)[Len(Tail(q))] = q[Len(q)]
      BY <1>1, <1>2
    <2> QED BY <2>1, <2>2
  <1>7. Stream(s) # <<>>
    BY <1>1, StreamParts
  <1>8. Open(s)'
    BY <1>1, <1>4, <1>6, <1>7 DEF Lines, Open
  <1> QED BY <1>5, <1>8 DEF Lines

-----------------------------------------------------------------------------
(***************************************************************************)
(* The theorems                                                            *)
(***************************************************************************)

LEMMA LinesAre == LinesAreOpen /\ LinesStayWhole <=> \A s \in Sessions : Lines(s)
  BY DEF LinesAreOpen, LinesStayWhole, Lines, Whole

LEMMA InitInvariant == Init => IInv
  <1> SUFFICES ASSUME Init PROVE \A s \in Sessions : Lines(s)
    BY InitShape, LinesAre DEF IInv
  <1> TAKE s \in Sessions
  <1>1. line[s] = <<>> /\ queue[s] = <<>>
    BY DEF Init
  <1>2. Stream(s) = <<>>
    BY <1>1, EmptySeq, ConcatEmptySeq DEF Stream
  <1>3. Len(<<>>) = 0
    OBVIOUS
  <1> QED BY <1>2, <1>3 DEF Lines, Open, Whole

LEMMA NextInvariant == IInv /\ [Next]_vars => IInv'
  <1> SUFFICES ASSUME IInv, [Next]_vars PROVE IInv'
    OBVIOUS
  <1>1. TypeOK /\ Shape /\ \A s \in Sessions : Lines(s)
    BY LinesAre DEF IInv
  <1> SUFFICES TypeOK' /\ Shape' /\ \A s \in Sessions : Lines(s)'
    <2>1. (LinesAreOpen /\ LinesStayWhole)' <=> \A s \in Sessions : Lines(s)'
      BY DEF LinesAreOpen, LinesStayWhole, Lines, Whole
    <2> QED BY <2>1 DEF IInv
  <1>2. ASSUME NEW c \in Cockpits,
               \/ \E target \in Targets, data \in Data : SendInput(c, target, data)
               \/ \E kind \in {"Pause", "Resume", "Stop"}, s \in Sessions : Order(c, kind, s)
        PROVE  TypeOK' /\ Shape' /\ \A s \in Sessions : Lines(s)'
    <2>1. TypeOK' /\ Shape' /\ UNCHANGED <<line, queue, writer, job, child>>
      BY <1>1, <1>2, ClientTypes DEF daemonVars, writeVars, childVars
    <2> QED BY <1>1, <2>1, LinesFrame
  <1>3. ASSUME NEW c \in Cockpits, TakeInput(c)
        PROVE  TypeOK' /\ Shape' /\ \A s \in Sessions : Lines(s)'
    <2>1. /\ TypeOK' /\ Shape' /\ UNCHANGED <<line, queue, child, writer>>
          /\ job[c] = None /\ \A x \in Tasks \ {c} : job'[x] = job[x]
      BY <1>1, <1>3, TakeInputTypes
    <2>2. \A s \in Sessions : writer[s] # None => writer[s] \in Tasks \ {c}
      BY <1>1, <2>1 DEF TypeOK
    <2>3. \A s \in Sessions : writer[s] # None => job'[writer[s]].n = job[writer[s]].n
      BY <2>1, <2>2
    <2> QED BY <1>1, <2>1, <2>3, LinesFrame
  <1>4. ASSUME NEW c \in Cockpits, Obey(c)
        PROVE  TypeOK' /\ Shape' /\ \A s \in Sessions : Lines(s)'
    <2>1. /\ TypeOK' /\ Shape' /\ UNCHANGED <<line, queue, job, writer>>
          /\ \A s \in Sessions : child[s] = "exited" => child'[s] = "exited"
      BY <1>1, <1>4, ObeyTypes
    <2> QED BY <1>1, <2>1, LinesFrame
  <1>5. ASSUME NEW t \in Tasks, Put(t)
        PROVE  TypeOK' /\ Shape' /\ \A s \in Sessions : Lines(s)'
    BY <1>1, <1>5, PutTypes, PutLines
  <1>6. ASSUME NEW t \in Tasks, Fail(t)
        PROVE  TypeOK' /\ Shape' /\ \A s \in Sessions : Lines(s)'
    <2>1. TypeOK' /\ Shape'
      BY <1>1, <1>6, FailTypes
    <2>2. /\ job[t] # None /\ child[job[t].at] = "exited" /\ Written(t)
          /\ UNCHANGED <<line, queue, child>>
      BY <1>6 DEF Fail, childVars
    <2>3. ASSUME NEW s \in Sessions, s # job[t].at PROVE Lines(s)'
      <3>1. writer'[s] = writer[s] /\ \A x \in Tasks : x # t => job'[x] = job[x]
        BY <1>1, <2>2, <2>3, WrittenEffect
      <3>2. writer[s] # t
        BY <1>1, <2>2, <2>3, JobValues
      <3>3. writer[s] # None => job'[writer[s]].n = job[writer[s]].n
        BY <1>1, <3>1, <3>2 DEF TypeOK
      <3> QED BY <1>1, <2>2, <3>1, <3>3, LinesFrame
    <2>4. ASSUME NEW s \in Sessions, s = job[t].at PROVE Lines(s)'
      <3>1. Stream(s)' = Stream(s) /\ child'[s] = "exited"
        BY <2>2, <2>4 DEF Stream
      <3> QED BY <1>1, <3>1 DEF Lines, Open, Whole
    <2> QED BY <2>1, <2>3, <2>4
  <1>7. ASSUME NEW s \in Agents, Look(s) \/ Type(s)
        PROVE  TypeOK' /\ Shape' /\ \A x \in Sessions : Lines(x)'
    <2>1. /\ TypeOK' /\ Shape' /\ UNCHANGED <<line, queue, child, writer>>
          /\ \A x \in Tasks : job[x] # None => job'[x] = job[x]
      BY <1>1, <1>7, PrimeTypes
    <2>2. \A x \in Sessions : writer[x] # None => job'[writer[x]].n = job[writer[x]].n
      BY <1>1, <2>1 DEF TypeOK
    <2> QED BY <1>1, <2>1, <2>2, LinesFrame
  <1>8. ASSUME NEW s \in Sessions, Show(s) \/ Read(s)
        PROVE  TypeOK' /\ Shape' /\ \A x \in Sessions : Lines(x)'
    <2>1. TypeOK' /\ Shape'
      BY <1>1, <1>8, ChildTypes
    <2>2. CASE Show(s)
      <3>1. UNCHANGED <<line, queue, writer, job, child>>
        BY <2>2 DEF Show, writeVars
      <3> QED BY <1>1, <2>1, <3>1, LinesFrame
    <2>3. CASE Read(s)
      <3>1. /\ UNCHANGED <<job, writer, child>>
            /\ \A x \in Sessions : x # s => line'[x] = line[x] /\ queue'[x] = queue[x]
        BY <1>1, <2>3 DEF Read, TypeOK
      <3>2. \A x \in Sessions : x # s => Lines(x)'
        BY <1>1, <3>1, LinesFrame
      <3>3. Lines(s)'
        BY <1>1, <2>3, ReadLines
      <3> QED BY <2>1, <3>2, <3>3
    <2> QED BY <1>8, <2>2, <2>3
  <1>9. CASE UNCHANGED vars
    <2>1. UNCHANGED <<requests, job, writer, queue, line, child, screen, taken, primer, polls,
                      touched, acts>>
      BY <1>9 DEF vars, daemonVars, writeVars, childVars, primerVars
    <2>2. TypeOK'
      BY <1>1, <2>1 DEF TypeOK
    <2>3. Shape'
      BY <1>1, <2>1 DEF Shape, WritesHaveShape, PrimersHaveShape, LinesStartAtPrompt
    <2> QED BY <1>1, <2>1, <2>2, <2>3, LinesFrame
  <1> QED BY <1>2, <1>3, <1>4, <1>5, <1>6, <1>7, <1>8, <1>9, TasksAreNoNone
          DEF Next, Serve, Prime, Writing

\* The inductive invariant: what is left to write, who holds a lock, and what stands at
\* the end of a terminal fit together.
THEOREM Invariance == Spec => []IInv
  <1> QED BY InitInvariant, NextInvariant, PTL DEF Spec

\* The types of Typing hold in every reachable state.
THEOREM TypeCorrect == Spec => []TypeOK
  <1>1. IInv => TypeOK
    BY DEF IInv
  <1> QED BY <1>1, Invariance, PTL

\* However many tasks write to a terminal, block in the middle or fail, and whatever
\* its child reads: a text is followed by its own carriage return.
THEOREM LinesAreWhole == Spec => []LinesStayWhole
  <1>1. IInv => LinesStayWhole
    BY DEF IInv
  <1> QED BY <1>1, Invariance, PTL

-----------------------------------------------------------------------------
(***************************************************************************)
(* The order of what is typed                                              *)
(***************************************************************************)

\* No Input of the requests r was sent before the n-th.
After(r, n) == \A i \in 1..Len(r) : r[i].kind = "Input" => n <= r[i].n

\* The Inputs of r come in the order of their numbers, all smaller than a.
Sent(r, a) ==
    \A i \in 1..Len(r) : r[i].kind = "Input" =>
        /\ r[i].n < a
        /\ \A k \in i + 1..Len(r) : r[k].kind = "Input" => r[i].n <= r[k].n

\* The n-th write is begun: the one at hand, j, and those to come are not older.
Begun(n, j, r, a) == n < a /\ After(r, n) /\ (j # None => n <= j.n)

\* What c has typed into a terminal with the queue q came in order.
Sorted(c, q, j, r, a) ==
    \A i \in 1..Len(q) : q[i].by = c =>
        /\ Begun(q[i].n, j, r, a)
        /\ \A k \in i + 1..Len(q) : q[k].by = c => q[i].n <= q[k].n

\* Of what c types, the pieces in the terminals come first, then the write at hand, then
\* the requests under way.
Ordered(c) ==
    /\ Sent(requests[c], acts)
    /\ job[c] # None => Begun(job[c].n, job[c], requests[c], acts)
    /\ \A s \in Sessions : Sorted(c, queue[s], job[c], requests[c], acts)

\* The numbers of requests and pieces.
LEMMA Numbers ==
    ASSUME TypeOK
    PROVE  /\ \A r \in Request : r.kind = "Input" => r.n \in Nat
           /\ \A p \in Piece : p.n \in Nat
           /\ \A t \in Tasks : job[t] # None => job[t].n \in Nat
           /\ acts \in Nat /\ \A s \in Sessions : queue[s] \in Seq(Piece)
           /\ \A c \in Cockpits : requests[c] \in Seq(Request) /\ c \in Tasks
  <1>1. \A t \in Tasks : job[t] # None => job[t].n \in Nat
    BY JobValues
  <1>2. \A r \in Request : r.kind = "Input" => r.n \in Nat
    BY DEF Request
  <1>3. \A p \in Piece : p.n \in Nat
    BY DEF Piece
  <1>4. acts \in Nat
    BY BoundsAssumption DEF TypeOK
  <1> QED BY <1>1, <1>2, <1>3, <1>4 DEF TypeOK, Tasks

\* The first request is served.
LEMMA FirstServed ==
    ASSUME NEW r \in Seq(Request), r # <<>>, NEW a \in Nat, Sent(r, a)
    PROVE  /\ Sent(Tail(r), a)
           /\ \A n \in Nat : After(r, n) => After(Tail(r), n)
           /\ Head(r).kind = "Input" => /\ Head(r).n < a /\ After(Tail(r), Head(r).n)
                                        /\ \A n \in Nat : After(r, n) => n <= Head(r).n
  <1>1. PICK m \in Nat : Len(r) = m + 1
    <2>1. Len(r) \in Nat \ {0} /\ Len(r) - 1 \in Nat /\ Len(r) = (Len(r) - 1) + 1
      BY EmptySeq
    <2> QED BY <2>1
  <1>2. PICK q \in Seq(Request) : q = Tail(r)
    BY HeadTailProperties
  <1>3. Len(q) = m /\ \A i \in 1..m : q[i] = r[i + 1]
    BY <1>1, <1>2
  <1>4. /\ 1 \in 1..m + 1 /\ Head(r) = r[1]
        /\ \A i \in 1..m : i + 1 \in 1 + 1..m + 1 /\ i + 1 \in 1..m + 1
    OBVIOUS
  <1>5. Sent(q, a)
    <2> SUFFICES ASSUME NEW i \in 1..m, q[i].kind = "Input"
                 PROVE  /\ q[i].n < a
                        /\ \A k \in i + 1..m : q[k].kind = "Input" => q[i].n <= q[k].n
      BY <1>3 DEF Sent
    <2>1. i + 1 \in 1..m + 1 /\ q[i] = r[i + 1]
      BY <1>3
    <2>2. /\ r[i + 1].n < a
          /\ \A k \in (i + 1) + 1..m + 1 : r[k].kind = "Input" => r[i + 1].n <= r[k].n
      BY <1>1, <2>1 DEF Sent
    <2>3. ASSUME NEW k \in i + 1..m, q[k].kind = "Input" PROVE q[i].n <= q[k].n
      <3>1. k + 1 \in (i + 1) + 1..m + 1 /\ k \in 1..m
        OBVIOUS
      <3>2. q[k] = r[k + 1]
        BY <1>3, <3>1
      <3> QED BY <2>1, <2>2, <2>3, <3>1, <3>2
    <2> QED BY <2>1, <2>2, <2>3
  <1>6. ASSUME NEW n \in Nat, After(r, n) PROVE After(q, n)
    BY <1>1, <1>3, <1>4, <1>6 DEF After
  <1>7. ASSUME Head(r).kind = "Input" PROVE Head(r).n < a /\ After(q, Head(r).n)
    <2>1. /\ r[1].n < a
          /\ \A k \in 1 + 1..m + 1 : r[k].kind = "Input" => r[1].n <= r[k].n
      BY <1>1, <1>4, <1>7 DEF Sent
    <2> QED BY <1>3, <1>4, <2>1 DEF After
  <1>8. ASSUME Head(r).kind = "Input", NEW n \in Nat, After(r, n) PROVE n <= Head(r).n
    BY <1>1, <1>4, <1>8 DEF After
  <1> QED BY <1>2, <1>5, <1>6, <1>7, <1>8

\* A request is sent behind the others.
LEMMA LastSent ==
    ASSUME NEW r \in Seq(Request), NEW a \in Nat, Sent(r, a), NEW x \in Request,
           x.kind = "Input" => x.n = a,
           \A y \in Request : y.kind = "Input" => y.n \in Nat
    PROVE  /\ Sent(Append(r, x), a + 1)
           /\ \A n \in Nat : n < a /\ After(r, n) => n < a + 1 /\ After(Append(r, x), n)
  <1>1. PICK m \in Nat : Len(r) = m
    OBVIOUS
  <1>2. PICK q \in Seq(Request) : q = Append(r, x)
    BY AppendProperties
  <1>3. Len(q) = m + 1 /\ q[m + 1] = x /\ \A i \in 1..m : q[i] = r[i]
    BY <1>1, <1>2
  <1>4. \A i \in 1..m + 1 : i \in 1..m \/ i = m + 1
    OBVIOUS
  <1>5. Sent(q, a + 1)
    <2> SUFFICES ASSUME NEW i \in 1..m + 1, q[i].kind = "Input"
                 PROVE  /\ q[i].n < a + 1
                        /\ \A k \in i + 1..m + 1 : q[k].kind = "Input" => q[i].n <= q[k].n
      BY <1>3 DEF Sent
    <2>1. CASE i = m + 1
      BY <1>3, <2>1
    <2>2. CASE i \in 1..m
      <3>1. /\ q[i] = r[i] /\ r[i].n < a /\ r[i].n \in Nat
            /\ \A k \in i + 1..m : r[k].kind = "Input" => r[i].n <= r[k].n
        BY <1>1, <1>3, <2>2 DEF Sent
      <3>2. i \in Nat /\ \A k \in i + 1..m + 1 : k \in i + 1..m \/ k = m + 1
        BY <2>2
      <3>3. \A k \in i + 1..m : k \in 1..m
        BY <2>2
      <3>4. q[i].n < a + 1 /\ q[i] = r[i] /\ q[i].n <= a
        BY <3>1
      <3>5. ASSUME NEW k \in i + 1..m + 1, q[k].kind = "Input" PROVE q[i].n <= q[k].n
        <4>1. CASE k \in i + 1..m
          BY <1>3, <3>1, <3>3, <3>5, <4>1
        <4>2. CASE k = m + 1
          BY <1>3, <3>4, <3>5, <4>2
        <4> QED BY <3>2, <4>1, <4>2
      <3> QED BY <3>4, <3>5
    <2> QED BY <1>4, <2>1, <2>2
  <1>6. ASSUME NEW n \in Nat, n < a, After(r, n) PROVE n < a + 1 /\ After(q, n)
    <2>1. \A i \in 1..m : r[i].kind = "Input" => n <= r[i].n
      BY <1>1, <1>6 DEF After
    <2> QED BY <1>3, <1>4, <1>6, <2>1 DEF After
  <1> QED BY <1>2, <1>5, <1>6

\* A piece is put into a terminal: one of somebody else, or of the write at hand.
LEMMA PieceSorted ==
    ASSUME NEW c, NEW q \in Seq(Piece), NEW j, NEW r, NEW a, NEW p \in Piece,
           Sorted(c, q, j, r, a),
           p.by = c => Begun(p.n, j, r, a) /\ j # None /\ j.n = p.n
    PROVE  Sorted(c, Append(q, p), j, r, a)
  <1>1. PICK m \in Nat : Len(q) = m
    OBVIOUS
  <1>2. PICK w \in Seq(Piece) : w = Append(q, p)
    BY AppendProperties
  <1>3. Len(w) = m + 1 /\ w[m + 1] = p /\ \A i \in 1..m : w[i] = q[i]
    BY <1>1, <1>2
  <1> SUFFICES ASSUME NEW i \in 1..m + 1, w[i].by = c
               PROVE  /\ Begun(w[i].n, j, r, a)
                      /\ \A k \in i + 1..m + 1 : w[k].by = c => w[i].n <= w[k].n
    BY <1>2, <1>3 DEF Sorted
  <1>4. CASE i = m + 1
    BY <1>3, <1>4
  <1>5. CASE i # m + 1
    <2>1. i \in 1..m
      BY <1>5
    <2>2. /\ w[i] = q[i] /\ Begun(q[i].n, j, r, a)
          /\ \A k \in i + 1..m : q[k].by = c => q[i].n <= q[k].n
      BY <1>1, <1>3, <2>1 DEF Sorted
    <2>3. p.by = c => q[i].n <= p.n
      BY <2>2 DEF Begun
    <2>4. \A k \in i + 1..m + 1 : (k \in i + 1..m /\ k \in 1..m) \/ k = m + 1
      BY <2>1
    <2> QED BY <1>3, <2>2, <2>3, <2>4
  <1> QED BY <1>4, <1>5

\* The first piece is read.
LEMMA TailSorted ==
    ASSUME NEW c, NEW q \in Seq(Piece), q # <<>>, NEW j, NEW r, NEW a, Sorted(c, q, j, r, a)
    PROVE  Sorted(c, Tail(q), j, r, a)
  <1>1. PICK m \in Nat : Len(q) = m + 1
    <2>1. Len(q) \in Nat \ {0} /\ Len(q) - 1 \in Nat /\ Len(q) = (Len(q) - 1) + 1
      BY EmptySeq
    <2> QED BY <2>1
  <1>2. PICK w \in Seq(Piece) : w = Tail(q)
    BY HeadTailProperties
  <1>3. Len(w) = m /\ \A i \in 1..m : w[i] = q[i + 1]
    BY <1>1, <1>2
  <1> SUFFICES ASSUME NEW i \in 1..m, w[i].by = c
               PROVE  /\ Begun(w[i].n, j, r, a)
                      /\ \A k \in i + 1..m : w[k].by = c => w[i].n <= w[k].n
    BY <1>2, <1>3 DEF Sorted
  <1>4. i + 1 \in 1..m + 1 /\ w[i] = q[i + 1]
    BY <1>3
  <1>5. /\ Begun(q[i + 1].n, j, r, a)
        /\ \A k \in (i + 1) + 1..m + 1 : q[k].by = c => q[i + 1].n <= q[k].n
    BY <1>1, <1>4 DEF Sorted
  <1>6. ASSUME NEW k \in i + 1..m, w[k].by = c PROVE w[i].n <= w[k].n
    <2>1. k + 1 \in (i + 1) + 1..m + 1 /\ k \in 1..m
      OBVIOUS
    <2>2. w[k] = q[k + 1]
      BY <1>3, <2>1
    <2> QED BY <1>4, <1>5, <1>6, <2>1, <2>2
  <1> QED BY <1>4, <1>5, <1>6

\* What is in the terminals stays in order when what was begun stays so.
LEMMA TerminalsKept ==
    ASSUME TypeOK, NEW c \in Cockpits, Ordered(c), queue' = queue,
           \A n \in Nat : Begun(n, job[c], requests[c], acts) =>
                          Begun(n, job'[c], requests'[c], acts')
    PROVE  \A s \in Sessions : Sorted(c, queue'[s], job'[c], requests'[c], acts')
  <1> SUFFICES ASSUME NEW s \in Sessions
               PROVE  Sorted(c, queue[s], job'[c], requests'[c], acts')
    OBVIOUS
  <1>1. PICK q \in Seq(Piece) : q = queue[s]
    BY DEF TypeOK
  <1>2. Sorted(c, q, job[c], requests[c], acts)
    BY <1>1 DEF Ordered
  <1>3. \A i \in 1..Len(q) : q[i].n \in Nat
    BY Numbers
  <1> QED BY <1>1, <1>2, <1>3 DEF Sorted

\* A cockpit sends, in the order of its acts.
LEMMA ClientOrder ==
    ASSUME TypeOK, Shape, NEW c \in Cockpits, NEW x \in Cockpits, Ordered(c),
           \/ \E target \in Targets, data \in Data : SendInput(x, target, data)
           \/ \E kind \in {"Pause", "Resume", "Stop"}, s \in Sessions : Order(x, kind, s)
    PROVE  Ordered(c)'
  <1>1. /\ job' = job /\ queue' = queue /\ acts' = acts + 1 /\ acts \in Nat
        /\ requests[c] \in Seq(Request) /\ requests' \in [Cockpits -> Seq(Request)]
    BY ClientTypes, Numbers DEF SendInput, Order, Act, daemonVars, writeVars, TypeOK
  <1>2. PICK r \in Request : /\ requests' = [requests EXCEPT ![x] = Append(@, r)]
                             /\ r.kind = "Input" => r.n = acts
    <2>1. ASSUME NEW target \in Targets, NEW data \in Data, SendInput(x, target, data)
          PROVE  \E r \in Request : /\ requests' = [requests EXCEPT ![x] = Append(@, r)]
                                    /\ r.kind = "Input" => r.n = acts
      <3>1. [kind |-> "Input", target |-> target, n |-> acts, data |-> data] \in Request
        BY <1>1 DEF Request
      <3> QED BY <2>1, <3>1 DEF SendInput
    <2>2. ASSUME NEW kind \in {"Pause", "Resume", "Stop"}, NEW s \in Sessions, Order(x, kind, s)
          PROVE  \E r \in Request : /\ requests' = [requests EXCEPT ![x] = Append(@, r)]
                                    /\ r.kind = "Input" => r.n = acts
      <3>1. [kind |-> kind, target |-> s] \in Request
        BY DEF Request
      <3> QED BY <2>2, <3>1 DEF Order
    <2> QED BY <2>1, <2>2
  <1>3. /\ Sent(requests'[c], acts')
        /\ \A n \in Nat : n < acts /\ After(requests[c], n) =>
                          n < acts' /\ After(requests'[c], n)
    <2>1. Sent(requests[c], acts) /\ \A y \in Request : y.kind = "Input" => y.n \in Nat
      BY Numbers DEF Ordered
    <2>2. CASE c = x
      <3>1. requests'[c] = Append(requests[c], r)
        BY <1>2, <2>2 DEF TypeOK
      <3> QED BY <1>1, <1>2, <2>1, <3>1, LastSent
    <2>3. CASE c # x
      <3>1. requests'[c] = requests[c]
        BY <1>2, <2>3 DEF TypeOK
      <3>2. \A i \in 1..Len(requests[c]) : requests[c][i] \in Request
        BY <1>1
      <3>3. \A i \in 1..Len(requests[c]) : requests[c][i].kind = "Input" =>
                requests[c][i].n < acts + 1
        BY <1>1, <2>1, <3>2 DEF Sent
      <3> QED BY <1>1, <2>1, <3>1, <3>3 DEF Sent
    <2> QED BY <2>2, <2>3
  <1>4. \A n \in Nat : Begun(n, job[c], requests[c], acts) =>
                       Begun(n, job'[c], requests'[c], acts')
    BY <1>1, <1>3 DEF Begun
  <1>5. \A s \in Sessions : Sorted(c, queue'[s], job'[c], requests'[c], acts')
    BY <1>1, <1>4, TerminalsKept
  <1>6. job'[c] # None => Begun(job'[c].n, job'[c], requests'[c], acts')
    BY <1>1, <1>4, Numbers DEF Ordered
  <1> QED BY <1>3, <1>5, <1>6 DEF Ordered

\* What somebody else does.
LEMMA OthersOrder ==
    ASSUME TypeOK, NEW c \in Cockpits, Ordered(c),
           job'[c] = job[c], requests'[c] = requests[c], queue' = queue, acts' = acts
    PROVE  Ordered(c)'
  <1>1. \A s \in Sessions : Sorted(c, queue'[s], job'[c], requests'[c], acts')
    BY TerminalsKept
  <1> QED BY <1>1 DEF Ordered

\* The first request of a cockpit is served: an Input becomes the write at hand.
LEMMA ServedOrder ==
    ASSUME TypeOK, NEW c \in Cockpits, Ordered(c), job[c] = None, requests[c] # <<>>,
           requests'[c] = Tail(requests[c]), queue' = queue, acts' = acts,
           job'[c] # None => Head(requests[c]).kind = "Input" /\ job'[c].n = Head(requests[c]).n
    PROVE  Ordered(c)'
  <1>1. PICK r \in Seq(Request) : r = requests[c]
    BY DEF TypeOK
  <1>2. /\ Sent(r, acts) /\ acts \in Nat /\ r # <<>>
        /\ Head(r) \in Request /\ (Head(r).kind = "Input" => Head(r).n \in Nat)
    BY <1>1, Numbers DEF Ordered
  <1>3. /\ Sent(Tail(r), acts)
        /\ \A n \in Nat : After(r, n) => After(Tail(r), n)
        /\ Head(r).kind = "Input" => /\ Head(r).n < acts /\ After(Tail(r), Head(r).n)
                                     /\ \A n \in Nat : After(r, n) => n <= Head(r).n
    BY <1>2, FirstServed
  <1>4. \A n \in Nat : Begun(n, job[c], requests[c], acts) =>
                       Begun(n, job'[c], requests'[c], acts')
    BY <1>1, <1>3 DEF Begun
  <1>5. \A s \in Sessions : Sorted(c, queue'[s], job'[c], requests'[c], acts')
    BY <1>4, TerminalsKept
  <1>6. job'[c] # None => Begun(job'[c].n, job'[c], requests'[c], acts')
    BY <1>1, <1>2, <1>3 DEF Begun
  <1> QED BY <1>1, <1>3, <1>5, <1>6 DEF Ordered

\* Requests, pieces and reading keep the order, of the cockpit that acts and of others.
LEMMA TakeInputOrder ==
    ASSUME TypeOK, Shape, NEW c \in Cockpits, NEW x \in Cockpits, Ordered(c), TakeInput(x)
    PROVE  Ordered(c)'
  <1>1. PICK targets \in SUBSET Sessions : Take(x, Head(requests[x]), targets)
    BY DEF TakeInput
  <1>2. /\ queue' = queue /\ acts' = acts /\ job[x] = None /\ requests[x] # <<>>
        /\ requests' = [requests EXCEPT ![x] = Tail(@)]
        /\ Head(requests[x]).kind = "Input" /\ x \in Tasks /\ c \in Tasks
        /\ \A y \in Tasks \ {x} : job'[y] = job[y]
    BY <1>1, TakeInputTypes DEF TakeInput, Take, Tasks
  <1>3. job'[x] # None => job'[x].n = Head(requests[x]).n
    <2>1. CASE targets = {}
      BY <1>1, <1>2, <2>1 DEF Take
    <2>2. CASE targets # {}
      <3>1. PICK s \in targets : job' = [job EXCEPT ![x] =
                [at |-> s, todo |-> targets \ {s}, n |-> Head(requests[x]).n,
                 data |-> Head(requests[x]).data, left |-> Head(requests[x]).data]]
        BY <1>1, <2>2 DEF Take, Begin
      <3> QED BY <1>2, <3>1 DEF TypeOK
    <2> QED BY <2>1, <2>2
  <1>4. CASE c = x
    <2>1. requests'[c] = Tail(requests[c])
      BY <1>2, <1>4 DEF TypeOK
    <2> QED BY <1>2, <1>3, <1>4, <2>1, ServedOrder
  <1>5. CASE c # x
    <2>1. requests'[c] = requests[c] /\ job'[c] = job[c]
      BY <1>2, <1>5 DEF TypeOK
    <2> QED BY <1>2, <2>1, OthersOrder
  <1> QED BY <1>4, <1>5

LEMMA ObeyOrder ==
    ASSUME TypeOK, NEW c \in Cockpits, NEW x \in Cockpits, Ordered(c), Obey(x)
    PROVE  Ordered(c)'
  <1>1. /\ queue' = queue /\ acts' = acts /\ job' = job /\ job[x] = None
        /\ requests[x] # <<>> /\ requests' = [requests EXCEPT ![x] = Tail(@)]
    BY DEF Obey, writeVars
  <1>2. CASE c = x
    <2>1. requests'[c] = Tail(requests[c])
      BY <1>1, <1>2 DEF TypeOK
    <2> QED BY <1>1, <1>2, <2>1, ServedOrder
  <1>3. CASE c # x
    <2>1. requests'[c] = requests[c]
      BY <1>1, <1>3 DEF TypeOK
    <2> QED BY <1>1, <2>1, OthersOrder
  <1> QED BY <1>2, <1>3

\* A write goes on: what it has begun with stays begun.
LEMMA SameWrite ==
    ASSUME TypeOK, NEW c \in Cockpits, Ordered(c),
           job'[c] # None => job[c] # None /\ job'[c].n = job[c].n,
           requests' = requests, acts' = acts
    PROVE  /\ \A n \in Nat : Begun(n, job[c], requests[c], acts) =>
                             Begun(n, job'[c], requests'[c], acts')
           /\ Sent(requests'[c], acts')
           /\ job'[c] # None => Begun(job'[c].n, job'[c], requests'[c], acts')
  <1>1. \A n \in Nat : Begun(n, job[c], requests[c], acts) =>
                       Begun(n, job'[c], requests'[c], acts')
    BY DEF Begun
  <1> QED BY <1>1, Numbers DEF Ordered

LEMMA PutOrder ==
    ASSUME TypeOK, Shape, NEW c \in Cockpits, NEW t \in Tasks, Ordered(c), Put(t)
    PROVE  Ordered(c)'
  <1>1. PICK at, p : at = job[t].at /\ p = [by |-> t, n |-> job[t].n, part |-> Head(job[t].left)]
    OBVIOUS
  <1>2. /\ job[t] # None /\ queue' = [queue EXCEPT ![at] = Append(@, p)]
        /\ requests' = requests /\ acts' = acts
    BY <1>1 DEF Put, Append1
  <1>3. /\ job[t].left \in Data /\ at \in Sessions /\ job[t] \in Job /\ job[t].n \in Nat
        /\ c \in Tasks
    BY <1>1, <1>2, JobValues DEF Shape, WritesHaveShape, Tasks
  <1>4. p \in Piece /\ p.by = t /\ p.n = job[t].n
    BY <1>1, <1>2, <1>3, JobValues, DataParts DEF Piece
  <1>5. job'[c] # None => job[c] # None /\ job'[c].n = job[c].n
    <2>1. CASE Len(job[t].left) = 1
      <3>1. Written(t)
        BY <2>1 DEF Put, Append1
      <3>2. CASE c = t
        BY <1>2, <3>1, <3>2, WrittenNext
      <3>3. CASE c # t
        BY <1>2, <1>3, <3>1, <3>3, WrittenEffect
      <3> QED BY <3>2, <3>3
    <2>2. CASE Len(job[t].left) # 1
      <3>1. job' = [job EXCEPT ![t].left = Tail(@)]
        BY <2>2 DEF Put, Append1
      <3>2. CASE c = t
        BY <1>2, <1>3, <3>1, <3>2 DEF TypeOK, Job
      <3>3. CASE c # t
        BY <1>3, <3>1, <3>3 DEF TypeOK
      <3> QED BY <3>2, <3>3
    <2> QED BY <2>1, <2>2
  <1>6. ASSUME NEW s \in Sessions PROVE Sorted(c, queue'[s], job'[c], requests'[c], acts')
    <2>1. PICK q \in Seq(Piece) : q = queue[s]
      BY DEF TypeOK
    <2>2. Sorted(c, q, job[c], requests[c], acts)
      BY <2>1 DEF Ordered
    <2>3. PICK w \in Seq(Piece) : w = queue'[s] /\ Sorted(c, w, job[c], requests[c], acts)
      <3>1. CASE s = at
        <4>1. queue'[s] = Append(q, p)
          BY <1>2, <1>3, <2>1, <3>1 DEF TypeOK
        <4>2. p.by = c => Begun(p.n, job[c], requests[c], acts) /\ job[c] # None /\ job[c].n = p.n
          BY <1>2, <1>4 DEF Ordered
        <4>3. Sorted(c, Append(q, p), job[c], requests[c], acts)
          BY <1>4, <2>2, <4>2, PieceSorted
        <4>4. Append(q, p) \in Seq(Piece)
          BY <1>4
        <4> QED BY <4>1, <4>3, <4>4
      <3>2. CASE s # at
        BY <1>2, <2>1, <2>2, <3>2 DEF TypeOK
      <3> QED BY <3>1, <3>2
    <2>4. \A i \in 1..Len(w) : w[i].n \in Nat
      BY Numbers
    <2>5. \A n \in Nat : Begun(n, job[c], requests[c], acts) =>
                         Begun(n, job'[c], requests'[c], acts')
      BY <1>2, <1>5, SameWrite
    <2> QED BY <2>3, <2>4, <2>5 DEF Sorted
  <1> QED BY <1>2, <1>5, <1>6, SameWrite DEF Ordered

LEMMA FailOrder ==
    ASSUME TypeOK, Shape, NEW c \in Cockpits, NEW t \in Tasks, Ordered(c), Fail(t)
    PROVE  Ordered(c)'
  <1>1. job[t] # None /\ Written(t) /\ UNCHANGED <<queue, requests, acts>> /\ c \in Tasks
    BY DEF Fail, Tasks
  <1>2. job'[c] # None => job[c] # None /\ job'[c].n = job[c].n
    <2>1. CASE c = t
      BY <1>1, <2>1, WrittenNext
    <2>2. CASE c # t
      BY <1>1, <2>2, WrittenEffect
    <2> QED BY <2>1, <2>2
  <1>3. /\ \A n \in Nat : Begun(n, job[c], requests[c], acts) =>
                          Begun(n, job'[c], requests'[c], acts')
        /\ Sent(requests'[c], acts')
        /\ job'[c] # None => Begun(job'[c].n, job'[c], requests'[c], acts')
    BY <1>1, <1>2, SameWrite
  <1>4. \A s \in Sessions : Sorted(c, queue'[s], job'[c], requests'[c], acts')
    BY <1>1, <1>3, TerminalsKept
  <1> QED BY <1>3, <1>4 DEF Ordered

LEMMA ReadOrder ==
    ASSUME TypeOK, NEW c \in Cockpits, NEW x \in Sessions, Ordered(c), Read(x)
    PROVE  Ordered(c)'
  <1>1. /\ queue[x] # <<>> /\ queue' = [queue EXCEPT ![x] = Tail(@)]
        /\ UNCHANGED <<requests, job, acts>>
    BY DEF Read
  <1>2. ASSUME NEW s \in Sessions PROVE Sorted(c, queue'[s], job[c], requests[c], acts)
    <2>1. PICK q \in Seq(Piece) : q = queue[s]
      BY DEF TypeOK
    <2>2. Sorted(c, q, job[c], requests[c], acts)
      BY <2>1 DEF Ordered
    <2>3. CASE s = x
      <3>1. queue'[s] = Tail(q) /\ q # <<>>
        BY <1>1, <2>1, <2>3 DEF TypeOK
      <3> QED BY <2>2, <3>1, TailSorted
    <2>4. CASE s # x
      BY <1>1, <2>1, <2>2, <2>4 DEF TypeOK
    <2> QED BY <2>3, <2>4
  <1> QED BY <1>1, <1>2 DEF Ordered

\* The inductive invariant of the order: together with the types and shapes.
AllOrdered == \A c \in Cockpits : Ordered(c)

LEMMA InitOrdered == Init => AllOrdered
  <1> SUFFICES ASSUME Init, NEW c \in Cockpits PROVE Ordered(c)
    BY DEF AllOrdered
  <1>1. c \in Tasks /\ Len(<<>>) = 0
    BY DEF Tasks
  <1> QED BY <1>1 DEF Init, Ordered, Sent, Sorted

LEMMA NextOrdered == IInv /\ AllOrdered /\ [Next]_vars => AllOrdered'
  <1> SUFFICES ASSUME TypeOK, Shape, AllOrdered, [Next]_vars, NEW c \in Cockpits
               PROVE  Ordered(c)'
    BY DEF IInv, AllOrdered
  <1>1. Ordered(c)
    BY DEF AllOrdered
  <1>2. ASSUME NEW x \in Cockpits,
               \/ \E target \in Targets, data \in Data : SendInput(x, target, data)
               \/ \E kind \in {"Pause", "Resume", "Stop"}, s \in Sessions : Order(x, kind, s)
        PROVE  Ordered(c)'
    BY <1>1, <1>2, ClientOrder
  <1>3. ASSUME NEW x \in Cockpits, TakeInput(x) \/ Obey(x) PROVE Ordered(c)'
    BY <1>1, <1>3, TakeInputOrder, ObeyOrder
  <1>4. ASSUME NEW t \in Tasks, Put(t) \/ Fail(t) PROVE Ordered(c)'
    BY <1>1, <1>4, PutOrder, FailOrder
  <1>5. ASSUME NEW s \in Agents, Look(s) \/ Type(s) PROVE Ordered(c)'
    <2>1. UNCHANGED <<requests, queue, acts>>
      BY <1>5 DEF Look, Type
    <2>2. job'[c] = job[c]
      <3>1. c # s /\ c \in Tasks
        BY TasksAreNoNone
      <3> QED BY <1>5, <3>1, PrimerSteps
    <2> QED BY <1>1, <2>1, <2>2, OthersOrder
  <1>6. ASSUME NEW s \in Sessions, Show(s) PROVE Ordered(c)'
    BY <1>1, <1>6, OthersOrder DEF Show, writeVars
  <1>7. ASSUME NEW s \in Sessions, Read(s) PROVE Ordered(c)'
    BY <1>1, <1>7, ReadOrder
  <1>8. CASE UNCHANGED vars
    BY <1>1, <1>8, OthersOrder DEF vars, daemonVars, writeVars
  <1> QED BY <1>2, <1>3, <1>4, <1>5, <1>6, <1>7, <1>8, TasksAreNoNone
          DEF Next, Serve, Prime, Writing

\* The order of the numbers is the one the property speaks of.
LEMMA InOrder == TypeOK /\ AllOrdered => TypedInOrder
  <1> SUFFICES ASSUME TypeOK, AllOrdered PROVE TypedInOrder
    OBVIOUS
  <1> SUFFICES ASSUME NEW c \in Cockpits, NEW s \in Sessions
      PROVE  LET typed == {i \in DOMAIN queue[s] : queue[s][i].by = c}
                 writing == IF job[c] # None /\ job[c].left # <<>> /\ job[c].at = s
                            THEN {job[c].n} ELSE {}
                 sent == {i \in DOMAIN requests[c] : requests[c][i].kind = "Input"
                                                     /\ requests[c][i].target = s}
             IN  /\ \A i, j \in typed : i < j => queue[s][i].n <= queue[s][j].n
                 /\ \A i, j \in sent : i < j => requests[c][i].n <= requests[c][j].n
                 /\ \A i \in typed, n \in writing : queue[s][i].n <= n
                 /\ \A i \in typed, j \in sent : queue[s][i].n <= requests[c][j].n
                 /\ \A n \in writing, j \in sent : n <= requests[c][j].n
    BY DEF TypedInOrder
  <1>1. PICK q \in Seq(Piece), r \in Seq(Request) : q = queue[s] /\ r = requests[c]
    BY DEF TypeOK
  <1>2. /\ Sent(r, acts) /\ Sorted(c, q, job[c], r, acts)
        /\ job[c] # None => After(r, job[c].n)
    BY <1>1 DEF AllOrdered, Ordered, Begun
  <1>3. DOMAIN q = 1..Len(q) /\ DOMAIN r = 1..Len(r) /\ Len(q) \in Nat /\ Len(r) \in Nat
    OBVIOUS
  <1>4. \A i, j \in 1..Len(q) : i < j /\ q[i].by = c /\ q[j].by = c => q[i].n <= q[j].n
    BY <1>2, <1>3 DEF Sorted
  <1>5. \A i, j \in 1..Len(r) : i < j /\ r[i].kind = "Input" /\ r[j].kind = "Input" =>
            r[i].n <= r[j].n
    BY <1>2, <1>3 DEF Sent
  <1>6. \A i \in 1..Len(q) : q[i].by = c => /\ After(r, q[i].n)
                                            /\ job[c] # None => q[i].n <= job[c].n
    BY <1>2 DEF Sorted, Begun
  <1> QED BY <1>1, <1>2, <1>3, <1>4, <1>5, <1>6 DEF After

\* What a cockpit types gets into every terminal in the order it was typed in,
\* whatever else is typed there, and whoever blocks or fails.
THEOREM OrderIsKept == Spec => []TypedInOrder
  <1>1. Spec => []AllOrdered
    BY InitOrdered, NextOrdered, Invariance, PTL DEF Spec
  <1> QED BY <1>1, TypeCorrect, InOrder, PTL

-----------------------------------------------------------------------------
(***************************************************************************)
(* The opening prompt                                                      *)
(***************************************************************************)

\* Whom a write is for: an agent that a cockpit writes to was typed into, and a primer
\* writes at its own session.
WritesAreKnown ==
    /\ \A c \in Cockpits : job[c] # None =>
          ({job[c].at} \cup job[c].todo) \cap Agents \subseteq touched
    /\ \A s \in Agents : job[s] # None => job[s].at = s

\* The Enter of the accepted dialog, and the one that closes the opening prompt.
Enter(s) == [by |-> s, n |-> 0, part |-> "cr"]
Closing(s) == [by |-> s, n |-> 1, part |-> "cr"]

\* Where the opening prompt stands while the agent s shows its banner, the dialog and
\* its prompt, when only the primer types.
OnBanner(s) == screen[s] = "banner" /\ primer[s] = "poll" /\ queue[s] = <<>> /\ line[s] = <<>>

OnDialog(s) ==
    LET q == queue[s] IN
    /\ screen[s] = "dialog" /\ line[s] = <<>>
    /\ \/ primer[s] = "poll" /\ q = <<>>
       \/ primer[s] = "accept" /\ Writes(s, 0, <<"cr">>) /\ q = <<>>
       \/ primer[s] = "type" /\ q = <<Enter(s)>>
       \/ primer[s] = "typing" /\ Writes(s, 1, Line) /\ q = <<Enter(s)>>
       \/ primer[s] = "typing" /\ Writes(s, 1, <<"cr">>) /\ q = <<Enter(s), Opening(s)>>
       \/ primer[s] = "done" /\ q = <<Enter(s), Opening(s), Closing(s)>>

OnPrompt(s) ==
    LET q == queue[s] l == line[s] IN
    /\ screen[s] = "prompt"
    /\ \/ primer[s] \in {"poll", "type"} /\ l = <<>> /\ q = <<>>
       \/ primer[s] = "typing" /\ Writes(s, 1, Line) /\ l = <<>> /\ q = <<>>
       \/ primer[s] = "typing" /\ Writes(s, 1, <<"cr">>) /\ l = <<>> /\ q = <<Opening(s)>>
       \/ primer[s] = "typing" /\ Writes(s, 1, <<"cr">>) /\ l = <<Opening(s)>> /\ q = <<>>
       \/ primer[s] = "done" /\ l = <<>> /\ q = <<Opening(s), Closing(s)>>
       \/ primer[s] = "done" /\ l = <<Opening(s)>> /\ q = <<Closing(s)>>

\* The opening prompt of an agent that nobody typed into is somewhere on its way.
OnItsWay(s) ==
    s \notin touched /\ s \notin taken /\ child[s] # "exited" /\ polls[s] < MaxPolls =>
        OnBanner(s) \/ OnDialog(s) \/ OnPrompt(s)

OpeningsAreOnTheirWay == \A s \in Agents : OnItsWay(s)

\* What a write does to the tasks.
LEMMA WritingJobs ==
    ASSUME TypeOK, Shape, NEW t \in Tasks, Put(t) \/ Fail(t)
    PROVE  /\ job[t] # None /\ \A x \in Tasks : x # t => job'[x] = job[x]
           /\ job'[t] # None =>
                 \/ job'[t].at = job[t].at /\ job'[t].todo = job[t].todo
                 \/ t \notin Agents /\ {job'[t].at} \cup job'[t].todo \subseteq job[t].todo
           /\ \A s \in Agents : s # t => primer'[s] = primer[s]
           /\ UNCHANGED <<requests, line, child, screen, taken, polls, touched, acts>>
  <1>1. /\ job[t] # None
        /\ UNCHANGED <<requests, line, child, screen, taken, polls, touched, acts>>
    BY DEF Put, Fail, childVars
  <1>2. CASE Written(t)
    BY <1>1, <1>2, WrittenEffect, WrittenNext
  <1>3. CASE ~Written(t)
    <2>1. job' = [job EXCEPT ![t].left = Tail(@)] /\ primer' = primer
      BY <1>3 DEF Put, Fail, Append1
    <2>2. job[t] \in Job
      BY <1>1, JobValues
    <2> QED BY <1>1, <2>1, <2>2 DEF TypeOK, Job
  <1> QED BY <1>2, <1>3

\* Only the task t moves.
LEMMA KnownFrame ==
    ASSUME WritesAreKnown, NEW t \in Tasks, \A x \in Tasks : x # t => job'[x] = job[x],
           touched \subseteq touched',
           t \in Cockpits /\ job'[t] # None =>
               ({job'[t].at} \cup job'[t].todo) \cap Agents \subseteq touched',
           t \in Agents /\ job'[t] # None => job'[t].at = t
    PROVE  WritesAreKnown'
  BY TasksAreNoNone DEF WritesAreKnown

\* Every step keeps what is known of the writes, and a human's typing is not forgotten.
LEMMA NextKnown ==
    IInv /\ WritesAreKnown /\ [Next]_vars => WritesAreKnown' /\ touched \subseteq touched'
  <1> SUFFICES ASSUME TypeOK, Shape, WritesAreKnown, [Next]_vars
               PROVE  WritesAreKnown' /\ touched \subseteq touched'
    BY DEF IInv
  <1>1. ASSUME job' = job, touched' = touched
        PROVE  WritesAreKnown' /\ touched \subseteq touched'
    BY <1>1 DEF WritesAreKnown
  <1>2. ASSUME NEW x \in Cockpits,
               \/ \E target \in Targets, data \in Data : SendInput(x, target, data)
               \/ \E kind \in {"Pause", "Resume", "Stop"}, s \in Sessions : Order(x, kind, s)
        PROVE  WritesAreKnown' /\ touched \subseteq touched'
    BY <1>1, <1>2, ClientTypes DEF daemonVars, writeVars
  <1>3. ASSUME NEW c \in Cockpits, TakeInput(c)
        PROVE  WritesAreKnown' /\ touched \subseteq touched'
    <2>1. PICK targets \in SUBSET Sessions : Take(c, Head(requests[c]), targets)
      BY <1>3 DEF TakeInput
    <2>2. /\ job[c] = None /\ \A x \in Tasks \ {c} : job'[x] = job[x]
          /\ touched' = touched \cup (targets \cap Agents) /\ c \in Tasks /\ c \notin Agents
      BY <1>3, <2>1, TakeInputTypes, TasksAreNoNone DEF Take
    <2>3. job'[c] # None => {job'[c].at} \cup job'[c].todo \subseteq targets
      <3>1. CASE targets = {}
        BY <2>1, <2>2, <3>1 DEF Take
      <3>2. CASE targets # {}
        <4>1. PICK s \in targets : job' = [job EXCEPT ![c] =
                  [at |-> s, todo |-> targets \ {s}, n |-> Head(requests[c]).n,
                   data |-> Head(requests[c]).data, left |-> Head(requests[c]).data]]
          BY <2>1, <3>2 DEF Take, Begin
        <4> QED BY <2>2, <4>1 DEF TypeOK
      <3> QED BY <3>1, <3>2
    <2> QED BY <2>2, <2>3, KnownFrame
  <1>4. ASSUME NEW c \in Cockpits, Obey(c)
        PROVE  WritesAreKnown' /\ touched \subseteq touched'
    BY <1>1, <1>4 DEF Obey, writeVars
  <1>5. ASSUME NEW t \in Tasks, Put(t) \/ Fail(t)
        PROVE  WritesAreKnown' /\ touched \subseteq touched'
    <2>1. /\ job[t] # None /\ \A x \in Tasks : x # t => job'[x] = job[x]
          /\ job'[t] # None =>
                \/ job'[t].at = job[t].at /\ job'[t].todo = job[t].todo
                \/ t \notin Agents /\ {job'[t].at} \cup job'[t].todo \subseteq job[t].todo
          /\ touched' = touched
      BY <1>5, WritingJobs
    <2>2. t \in Cockpits /\ job'[t] # None =>
              ({job'[t].at} \cup job'[t].todo) \cap Agents \subseteq touched'
      BY <2>1 DEF WritesAreKnown
    <2>3. t \in Agents /\ job'[t] # None => job'[t].at = t
      BY <2>1 DEF WritesAreKnown
    <2> QED BY <2>1, <2>2, <2>3, KnownFrame
  <1>6. ASSUME NEW s \in Agents, Look(s) \/ Type(s)
        PROVE  WritesAreKnown' /\ touched \subseteq touched'
    <2>1. /\ \A x \in Tasks : x # s => job'[x] = job[x]
          /\ job'[s] # None => job'[s].at = s
          /\ touched' = touched /\ s \in Tasks /\ s \notin Cockpits
      BY <1>6, PrimerSteps, TasksAreNoNone
    <2> QED BY <2>1, KnownFrame
  <1>7. ASSUME NEW s \in Sessions, Show(s) \/ Read(s)
        PROVE  WritesAreKnown' /\ touched \subseteq touched'
    BY <1>1, <1>7 DEF Show, Read, writeVars
  <1>8. CASE UNCHANGED vars
    BY <1>1, <1>8 DEF vars, daemonVars, writeVars
  <1> QED BY <1>2, <1>3, <1>4, <1>5, <1>6, <1>7, <1>8, TasksAreNoNone
          DEF Next, Serve, Prime, Writing

-----------------------------------------------------------------------------
\* An agent that a step leaves alone.
LEMMA WayFrame ==
    ASSUME TypeOK, NEW s \in Agents, OnItsWay(s),
           job'[s] = job[s], primer'[s] = primer[s], queue'[s] = queue[s],
           line'[s] = line[s], screen'[s] = screen[s], touched \subseteq touched',
           taken \subseteq taken', child[s] = "exited" => child'[s] = "exited",
           polls'[s] = polls[s]
    PROVE  OnItsWay(s)'
  <1>1. ASSUME s \notin touched', s \notin taken', child'[s] # "exited", polls'[s] < MaxPolls
        PROVE  OnBanner(s) \/ OnDialog(s) \/ OnPrompt(s)
    BY <1>1 DEF OnItsWay
  <1>2. /\ OnBanner(s) => OnBanner(s)'
        /\ OnDialog(s) => OnDialog(s)'
        /\ OnPrompt(s) => OnPrompt(s)'
    BY DEF OnBanner, OnDialog, OnPrompt, Writes, Enter, Opening, Closing
  <1> QED BY <1>1, <1>2 DEF OnItsWay

\* Up to three pieces.
LEMMA Tuples ==
    ASSUME NEW a \in Piece, NEW b \in Piece, NEW c \in Piece
    PROVE  /\ Append(<<>>, a) = <<a>> /\ Append(<<a>>, b) = <<a, b>>
           /\ Append(<<a, b>>, c) = <<a, b, c>>
           /\ Head(<<a>>) = a /\ Head(<<a, b>>) = a /\ Head(<<a, b, c>>) = a
           /\ Tail(<<a>>) = <<>> /\ Tail(<<a, b>>) = <<b>> /\ Tail(<<a, b, c>>) = <<b, c>>
  <1>1. Append(<<>>, a) = <<a>>
    OBVIOUS
  <1>6. Append(<<a>>, b) = <<a, b>>
    <2>1. <<a>> \in Seq(Piece) /\ <<a, b>> \in Seq(Piece) /\ Len(<<a>>) = 1 /\ Len(<<a, b>>) = 2
      OBVIOUS
    <2>2. /\ Append(<<a>>, b) \in Seq(Piece) /\ Len(Append(<<a>>, b)) = 2
          /\ \A i \in 1..2 : Append(<<a>>, b)[i] = <<a, b>>[i]
      BY <2>1, AppendProperties
    <2> QED BY <2>1, <2>2, SeqEqual
  <1>7. Append(<<a, b>>, c) = <<a, b, c>>
    <2>1. /\ <<a, b>> \in Seq(Piece) /\ <<a, b, c>> \in Seq(Piece)
          /\ Len(<<a, b>>) = 2 /\ Len(<<a, b, c>>) = 3
      OBVIOUS
    <2>2. /\ Append(<<a, b>>, c) \in Seq(Piece) /\ Len(Append(<<a, b>>, c)) = 3
          /\ \A i \in 1..3 : Append(<<a, b>>, c)[i] = <<a, b, c>>[i]
      BY <2>1, AppendProperties
    <2> QED BY <2>1, <2>2, SeqEqual
  <1>2. Head(<<a>>) = a /\ Head(<<a, b>>) = a /\ Head(<<a, b, c>>) = a
    OBVIOUS
  <1>3. Tail(<<a>>) = <<>>
    OBVIOUS
  <1>4. Tail(<<a, b>>) = <<b>>
    OBVIOUS
  <1>5. Tail(<<a, b, c>>) = <<b, c>>
    OBVIOUS
  <1> QED BY <1>1, <1>2, <1>3, <1>4, <1>5, <1>6, <1>7

\* The pieces of a primer.
LEMMA PrimerPieces ==
    ASSUME NEW s \in Agents
    PROVE  /\ Enter(s) \in Piece /\ Opening(s) \in Piece /\ Closing(s) \in Piece
           /\ Enter(s).part = "cr" /\ Opening(s).part # "cr" /\ Closing(s).part = "cr"
           /\ Opening(s).by = s /\ Enter(s).by = s
  BY TasksAreNoNone DEF Enter, Opening, Closing, Piece, Parts

\* What is left of them when the first is read.
LEMMA PrimerReads ==
    ASSUME NEW s \in Agents
    PROVE  LET e == Enter(s)  o == Opening(s)  c == Closing(s)
           IN  /\ Tail(<<e>>) = <<>> /\ Tail(<<e, o>>) = <<o>> /\ Tail(<<e, o, c>>) = <<o, c>>
               /\ Tail(<<o>>) = <<>> /\ Tail(<<o, c>>) = <<c>> /\ Append(<<>>, o) = <<o>>
               /\ Head(<<e>>) = e /\ Head(<<e, o>>) = e /\ Head(<<e, o, c>>) = e
               /\ Head(<<o>>) = o /\ Head(<<o, c>>) = o /\ Head(<<c>>) = c
  <1>1. PICK e \in Piece, o \in Piece, c \in Piece :
            e = Enter(s) /\ o = Opening(s) /\ c = Closing(s)
    BY PrimerPieces
  <1>2. Tail(<<e, o>>) = <<o>> /\ Tail(<<e, o, c>>) = <<o, c>>
    BY Tuples
  <1>3. /\ Tail(<<o, c>>) = <<c>> /\ Tail(<<e>>) = <<>> /\ Tail(<<o>>) = <<>>
        /\ Append(<<>>, o) = <<o>>
    BY Tuples
  <1>4. /\ Head(<<e>>) = e /\ Head(<<e, o>>) = e /\ Head(<<e, o, c>>) = e
        /\ Head(<<o>>) = o /\ Head(<<o, c>>) = o /\ Head(<<c>>) = c
    BY Tuples
  <1> QED BY <1>1, <1>2, <1>3, <1>4

\* The parts that a primer writes.
LEMMA PrimerParts ==
    /\ Head(<<"cr">>) = "cr" /\ Len(<<"cr">>) = 1
    /\ Head(Line) = "text" /\ Tail(Line) = <<"cr">> /\ Len(Line) = 2
  BY DEF Line

\* What a primer puts into its terminal.
LEMMA PrimerPuts ==
    ASSUME TypeOK, Shape, WritesAreKnown, NEW s \in Agents, Put(s)
    PROVE  /\ Writes(s, 0, <<"cr">>) /\ primer[s] = "accept" =>
                  queue'[s] = Append(queue[s], Enter(s)) /\ primer'[s] = "type"
           /\ Writes(s, 1, Line) /\ primer[s] = "typing" =>
                  queue'[s] = Append(queue[s], Opening(s)) /\ primer'[s] = "typing"
                  /\ Writes(s, 1, <<"cr">>)'
           /\ Writes(s, 1, <<"cr">>) /\ primer[s] = "typing" =>
                  queue'[s] = Append(queue[s], Closing(s)) /\ primer'[s] = "done"
  <1>1. /\ job[s] # None /\ s \in Tasks /\ s \in Sessions /\ job[s].at = s /\ job[s] \in Job
        /\ queue' = [queue EXCEPT ![s] =
               Append(@, [by |-> s, n |-> job[s].n, part |-> Head(job[s].left)])]
    BY TasksAreNoNone, JobValues DEF Put, Append1, WritesAreKnown
  <1>2. queue'[s] = Append(queue[s], [by |-> s, n |-> job[s].n, part |-> Head(job[s].left)])
    BY <1>1 DEF TypeOK
  <1>3. CASE job[s].left = <<"cr">>
    <2>1. Written(s)
      BY <1>3, PrimerParts DEF Put, Append1
    <2>2. primer'[s] = IF primer[s] = "accept" THEN "type" ELSE "done"
      BY <2>1 DEF Written
    <2> QED BY <1>2, <1>3, <2>2, PrimerParts DEF Writes, Enter, Closing, Line
  <1>4. CASE job[s].left = Line
    <2>1. /\ job' = [job EXCEPT ![s].left = Tail(@)] /\ primer' = primer
      BY <1>4, PrimerParts DEF Put, Append1
    <2>2. job'[s].left = <<"cr">> /\ job'[s].n = job[s].n
      BY <1>1, <1>4, <2>1, PrimerParts DEF TypeOK, Job
    <2>3. job'[s] \in Job
      <3>1. <<"cr">> \in Seq(Parts)
        BY DataParts
      <3>2. job'[s] = [job[s] EXCEPT !.left = <<"cr">>]
        BY <1>1, <1>4, <2>1, PrimerParts DEF TypeOK
      <3> QED BY <1>1, <3>1, <3>2 DEF Job
    <2>4. job'[s] # None
      BY <2>3, NoneAssumption
    <2> QED BY <1>2, <1>4, <2>1, <2>2, <2>4, PrimerParts DEF Writes, Opening
  <1> QED BY <1>3, <1>4 DEF Writes

\* The primer of s puts a piece into its terminal.
LEMMA PutOnItsWay ==
    ASSUME TypeOK, Shape, WritesAreKnown, NEW s \in Agents, Put(s), OnItsWay(s)
    PROVE  OnItsWay(s)'
  <1>1. /\ UNCHANGED <<line, child, screen, taken, polls, touched>>
        /\ s \in Tasks /\ primer[s] \in {"accept", "typing"}
    BY WritingJobs, TasksAreNoNone DEF Shape, PrimersHaveShape
  <1> SUFFICES ASSUME OnBanner(s) \/ OnDialog(s) \/ OnPrompt(s)
               PROVE  OnDialog(s)' \/ OnPrompt(s)'
    BY <1>1 DEF OnItsWay
  <1>2. /\ Append(<<>>, Enter(s)) = <<Enter(s)>> /\ Append(<<>>, Opening(s)) = <<Opening(s)>>
        /\ Append(<<>>, Closing(s)) = <<Closing(s)>>
        /\ Append(<<Enter(s)>>, Opening(s)) = <<Enter(s), Opening(s)>>
        /\ Append(<<Opening(s)>>, Closing(s)) = <<Opening(s), Closing(s)>>
        /\ Append(<<Enter(s), Opening(s)>>, Closing(s)) = <<Enter(s), Opening(s), Closing(s)>>
    <2>1. PICK e \in Piece, o \in Piece, c \in Piece :
              e = Enter(s) /\ o = Opening(s) /\ c = Closing(s)
      BY PrimerPieces
    <2>2. Append(<<>>, e) = <<e>> /\ Append(<<>>, o) = <<o>> /\ Append(<<>>, c) = <<c>>
      BY Tuples
    <2>3. Append(<<e>>, o) = <<e, o>> /\ Append(<<o>>, c) = <<o, c>>
      BY Tuples
    <2>4. Append(<<e, o>>, c) = <<e, o, c>>
      BY Tuples
    <2> QED BY <2>1, <2>2, <2>3, <2>4
  <1>3. Enter(s)' = Enter(s) /\ Opening(s)' = Opening(s) /\ Closing(s)' = Closing(s)
    BY DEF Enter, Opening, Closing
  <1>4. CASE OnDialog(s)
    <2>1. \/ primer[s] = "accept" /\ Writes(s, 0, <<"cr">>) /\ queue[s] = <<>>
          \/ primer[s] = "typing" /\ Writes(s, 1, Line) /\ queue[s] = <<Enter(s)>>
          \/ primer[s] = "typing" /\ Writes(s, 1, <<"cr">>) /\ queue[s] = <<Enter(s), Opening(s)>>
      BY <1>1, <1>4 DEF OnDialog
    <2>2. \/ primer'[s] = "type" /\ queue'[s] = <<Enter(s)>>
          \/ /\ primer'[s] = "typing" /\ Writes(s, 1, <<"cr">>)'
             /\ queue'[s] = <<Enter(s), Opening(s)>>
          \/ primer'[s] = "done" /\ queue'[s] = <<Enter(s), Opening(s), Closing(s)>>
      BY <1>2, <2>1, PrimerPuts
    <2> QED BY <1>1, <1>3, <1>4, <2>2 DEF OnDialog
  <1>5. CASE OnPrompt(s)
    <2>1. \/ primer[s] = "typing" /\ Writes(s, 1, Line) /\ line[s] = <<>> /\ queue[s] = <<>>
          \/ /\ primer[s] = "typing" /\ Writes(s, 1, <<"cr">>)
             /\ line[s] = <<>> /\ queue[s] = <<Opening(s)>>
          \/ /\ primer[s] = "typing" /\ Writes(s, 1, <<"cr">>)
             /\ line[s] = <<Opening(s)>> /\ queue[s] = <<>>
      BY <1>1, <1>5 DEF OnPrompt
    <2>2. \/ /\ primer'[s] = "typing" /\ Writes(s, 1, <<"cr">>)'
             /\ line[s] = <<>> /\ queue'[s] = <<Opening(s)>>
          \/ primer'[s] = "done" /\ line[s] = <<>> /\ queue'[s] = <<Opening(s), Closing(s)>>
          \/ primer'[s] = "done" /\ line[s] = <<Opening(s)>> /\ queue'[s] = <<Closing(s)>>
      BY <1>2, <2>1, PrimerPuts
    <2> QED BY <1>1, <1>3, <1>5, <2>2 DEF OnPrompt
  <1>6. ~OnBanner(s)
    BY <1>1 DEF OnBanner
  <1> QED BY <1>4, <1>5, <1>6

\* The primer of s looks, or begins to write.
LEMMA PrimerOnItsWay ==
    ASSUME TypeOK, Shape, NEW s \in Agents, Look(s) \/ Type(s), OnItsWay(s)
    PROVE  OnItsWay(s)'
  <1>1. /\ UNCHANGED <<queue, line, child, screen, taken, touched>>
        /\ polls[s] <= polls'[s] /\ polls[s] \in Nat
        /\ \/ /\ primer[s] = "poll" /\ screen[s] = "dialog" /\ primer'[s] = "accept"
              /\ Writes(s, 0, <<"cr">>)'
           \/ primer[s] = "poll" /\ screen[s] = "prompt" /\ primer'[s] = "type"
           \/ /\ primer[s] = "poll" /\ screen[s] = "banner"
              /\ primer'[s] = "poll" \/ ~(polls'[s] < MaxPolls)
           \/ primer[s] = "type" /\ primer'[s] = "typing" /\ Writes(s, 1, Line)'
    <2>1. polls[s] \in Nat
      BY BoundsAssumption DEF TypeOK
    <2> QED BY <2>1, PrimerSteps
  <1>2. polls'[s] < MaxPolls => polls[s] < MaxPolls
    <2>1. polls'[s] \in Nat
      BY PrimeTypes, BoundsAssumption DEF TypeOK
    <2> QED BY <1>1, <2>1, BoundsAssumption
  <1> SUFFICES ASSUME polls'[s] < MaxPolls, OnBanner(s) \/ OnDialog(s) \/ OnPrompt(s)
               PROVE  OnBanner(s)' \/ OnDialog(s)' \/ OnPrompt(s)'
    BY <1>1, <1>2 DEF OnItsWay
  <1>3. Enter(s)' = Enter(s) /\ Opening(s)' = Opening(s) /\ Closing(s)' = Closing(s)
    BY DEF Enter, Opening, Closing
  <1>4. CASE OnBanner(s)
    BY <1>1, <1>4 DEF OnBanner
  <1>5. CASE OnDialog(s)
    <2>1. \/ primer[s] = "poll" /\ queue[s] = <<>> /\ primer'[s] = "accept"
             /\ Writes(s, 0, <<"cr">>)'
          \/ primer[s] = "type" /\ queue[s] = <<Enter(s)>> /\ primer'[s] = "typing"
             /\ Writes(s, 1, Line)'
      BY <1>1, <1>5 DEF OnDialog
    <2> QED BY <1>1, <1>3, <1>5, <2>1 DEF OnDialog
  <1>6. CASE OnPrompt(s)
    <2>1. /\ line[s] = <<>> /\ queue[s] = <<>>
          /\ primer'[s] = "type" \/ (primer'[s] = "typing" /\ Writes(s, 1, Line)')
      BY <1>1, <1>6 DEF OnPrompt
    <2> QED BY <1>1, <1>6, <2>1 DEF OnPrompt
  <1> QED BY <1>4, <1>5, <1>6

\* The child of s gets ready.
LEMMA ShowOnItsWay ==
    ASSUME TypeOK, NEW s \in Agents, Show(s), OnItsWay(s)
    PROVE  OnItsWay(s)'
  <1>1. /\ UNCHANGED <<queue, line, child, taken, primer, polls, touched>>
        /\ screen[s] = "banner" /\ screen'[s] \in {"dialog", "prompt"}
    BY NamesAssumption DEF Show, TypeOK, writeVars, primerVars
  <1>2. OnBanner(s) => OnDialog(s)' \/ OnPrompt(s)'
    BY <1>1 DEF OnBanner, OnDialog, OnPrompt
  <1>3. ~OnDialog(s) /\ ~OnPrompt(s)
    BY <1>1 DEF OnDialog, OnPrompt
  <1> QED BY <1>1, <1>2, <1>3 DEF OnItsWay

\* The child of s reads.
LEMMA ReadOnItsWay ==
    ASSUME TypeOK, NEW s \in Agents, Read(s), OnItsWay(s)
    PROVE  OnItsWay(s)'
  <1> DEFINE p == Head(queue[s])
  <1>1. /\ UNCHANGED <<job, child, primer, polls, touched>> /\ taken \subseteq taken'
        /\ queue[s] # <<>> /\ queue'[s] = Tail(queue[s]) /\ screen[s] # "banner"
        /\ s \in Sessions
    <2>1. s \in Sessions
      BY NamesAssumption
    <2>2. UNCHANGED <<job, child, primer, polls, touched>> /\ taken \subseteq taken'
      BY DEF Read, primerVars
    <2> QED BY <2>1, <2>2 DEF Read, TypeOK
  <1>2. CASE screen[s] = "dialog"
    <2>1. /\ line' = line
          /\ p.part = "cr" => screen'[s] = "prompt"
      BY <1>1, <1>2 DEF Read, TypeOK
    <2> SUFFICES ASSUME OnDialog(s) PROVE OnPrompt(s)'
      BY <1>1, <1>2 DEF OnItsWay, OnBanner, OnPrompt
    <2>2. \/ queue[s] = <<Enter(s)>>
          \/ queue[s] = <<Enter(s), Opening(s)>>
          \/ queue[s] = <<Enter(s), Opening(s), Closing(s)>>
      BY <1>1 DEF OnDialog
    <2>3. p = Enter(s) /\ screen'[s] = "prompt"
      BY <2>1, <2>2, PrimerPieces, PrimerReads
    <2>4. /\ queue[s] = <<Enter(s)>> => queue'[s] = <<>>
          /\ queue[s] = <<Enter(s), Opening(s)>> => queue'[s] = <<Opening(s)>>
          /\ queue[s] = <<Enter(s), Opening(s), Closing(s)>> =>
                 queue'[s] = <<Opening(s), Closing(s)>>
      BY <1>1, PrimerPieces, PrimerReads
    <2>5. Opening(s)' = Opening(s) /\ Closing(s)' = Closing(s) /\ line'[s] = <<>>
      BY <2>1 DEF Opening, Closing, OnDialog
    <2>6. \A n, l : Writes(s, n, l)' <=> Writes(s, n, l)
      BY <1>1 DEF Writes
    <2>7. \/ primer[s] = "type" /\ queue'[s] = <<>>
          \/ primer[s] = "typing" /\ Writes(s, 1, Line) /\ queue'[s] = <<>>
          \/ primer[s] = "typing" /\ Writes(s, 1, <<"cr">>) /\ queue'[s] = <<Opening(s)>>
          \/ primer[s] = "done" /\ queue'[s] = <<Opening(s), Closing(s)>>
      BY <1>1, <2>4 DEF OnDialog
    <2> QED BY <1>1, <2>3, <2>5, <2>6, <2>7 DEF OnPrompt
  <1>3. CASE screen[s] # "dialog"
    <2>1. /\ screen' = screen
          /\ line'[s] = IF p.part = "cr" THEN <<>> ELSE Append(line[s], p)
          /\ p.part = "cr" /\ line[s] = <<Opening(s)>> => s \in taken'
      BY <1>1, <1>3 DEF Read, TypeOK
    <2> SUFFICES ASSUME OnPrompt(s), s \notin taken' PROVE OnPrompt(s)'
      BY <1>1, <1>3 DEF OnItsWay, OnBanner, OnDialog
    <2>2. \/ /\ primer[s] = "typing" /\ Writes(s, 1, <<"cr">>)
             /\ line[s] = <<>> /\ queue[s] = <<Opening(s)>>
          \/ primer[s] = "done" /\ line[s] = <<>> /\ queue[s] = <<Opening(s), Closing(s)>>
          \/ primer[s] = "done" /\ line[s] = <<Opening(s)>> /\ queue[s] = <<Closing(s)>>
      BY <1>1 DEF OnPrompt
    <2>3. queue[s] # <<Closing(s)>> \/ line[s] # <<Opening(s)>>
      BY <2>1, PrimerPieces, PrimerReads
    <2>4. line[s] = <<>> /\ p = Opening(s) /\ line'[s] = <<Opening(s)>>
      <3>1. line[s] = <<>> /\ p = Opening(s)
        BY <2>2, <2>3, PrimerReads
      <3>2. line'[s] = Append(<<>>, p)
        BY <2>1, <3>1, PrimerPieces
      <3> QED BY <3>1, <3>2, PrimerReads
    <2>5. \/ primer[s] = "typing" /\ Writes(s, 1, <<"cr">>) /\ queue'[s] = <<>>
          \/ primer[s] = "done" /\ queue'[s] = <<Closing(s)>>
      BY <1>1, <2>2, <2>3, PrimerPieces, PrimerReads
    <2>6. /\ Opening(s)' = Opening(s) /\ Closing(s)' = Closing(s)
          /\ \A n, l : Writes(s, n, l)' <=> Writes(s, n, l)
      BY <1>1 DEF Opening, Closing, Writes
    <2> QED BY <1>1, <2>1, <2>4, <2>5, <2>6 DEF OnPrompt
  <1> QED BY <1>2, <1>3

LEMMA InitOpenings == Init => WritesAreKnown /\ OpeningsAreOnTheirWay
  <1> SUFFICES ASSUME Init PROVE WritesAreKnown /\ OpeningsAreOnTheirWay
    OBVIOUS
  <1>1. WritesAreKnown
    BY TasksAreNoNone DEF Init, WritesAreKnown
  <1>2. \A s \in Agents : OnBanner(s)
    BY TasksAreNoNone DEF Init, OnBanner
  <1> QED BY <1>1, <1>2 DEF OpeningsAreOnTheirWay, OnItsWay

\* A piece that somebody else puts into a terminal goes to another session, or the
\* agent was typed into.
LEMMA OthersWrite ==
    ASSUME TypeOK, Shape, WritesAreKnown, NEW t \in Tasks, Put(t) \/ Fail(t),
           NEW s \in Agents, s # t, OnItsWay(s)
    PROVE  OnItsWay(s)'
  <1>1. /\ UNCHANGED <<line, child, screen, taken, polls, touched>>
        /\ job'[s] = job[s] /\ primer'[s] = primer[s] /\ job[t] # None
    BY WritingJobs, TasksAreNoNone
  <1>2. CASE job[t].at = s
    <2>1. s \in touched
      BY <1>1, <1>2 DEF WritesAreKnown, Tasks
    <2> QED BY <1>1, <2>1 DEF OnItsWay
  <1>3. CASE job[t].at # s
    <2>1. queue'[s] = queue[s]
      BY <1>3, TasksAreNoNone DEF Put, Append1, Fail, TypeOK
    <2> QED BY <1>1, <2>1, WayFrame
  <1> QED BY <1>2, <1>3

\* Every step keeps the openings on their way.
LEMMA NextOpenings ==
    IInv /\ WritesAreKnown /\ OpeningsAreOnTheirWay /\ [Next]_vars => OpeningsAreOnTheirWay'
  <1> SUFFICES ASSUME TypeOK, Shape, WritesAreKnown, OpeningsAreOnTheirWay, [Next]_vars,
                      touched \subseteq touched', NEW s \in Agents
               PROVE  OnItsWay(s)'
    BY NextKnown DEF IInv, OpeningsAreOnTheirWay
  <1>1. OnItsWay(s) /\ s \in Tasks /\ s \in Sessions /\ s \notin Cockpits
    BY TasksAreNoNone DEF OpeningsAreOnTheirWay
  <1>2. ASSUME NEW x \in Cockpits,
               \/ \E target \in Targets, data \in Data : SendInput(x, target, data)
               \/ \E kind \in {"Pause", "Resume", "Stop"}, y \in Sessions : Order(x, kind, y)
        PROVE  OnItsWay(s)'
    <2>1. UNCHANGED <<job, primer, queue, line, screen, taken, child, polls>>
      BY <1>2, ClientTypes DEF daemonVars, writeVars, childVars, primerVars
    <2> QED BY <1>1, <2>1, WayFrame
  <1>3. ASSUME NEW c \in Cockpits, TakeInput(c) PROVE OnItsWay(s)'
    <2>1. UNCHANGED <<primer, queue, line, screen, taken, child, polls>>
      BY <1>3 DEF TakeInput, Take, childVars, primerVars
    <2>2. job'[s] = job[s]
      BY <1>1, <1>3, TakeInputTypes
    <2> QED BY <1>1, <2>1, <2>2, WayFrame
  <1>4. ASSUME NEW c \in Cockpits, Obey(c) PROVE OnItsWay(s)'
    <2>1. UNCHANGED <<job, primer, queue, line, screen, taken, polls>>
      BY <1>4 DEF Obey, writeVars, primerVars
    <2>2. child[s] = "exited" => child'[s] = "exited"
      BY <1>1, <1>4, ObeyTypes
    <2> QED BY <1>1, <2>1, <2>2, WayFrame
  <1>5. ASSUME NEW t \in Tasks, Put(t) \/ Fail(t) PROVE OnItsWay(s)'
    <2>1. CASE t # s
      BY <1>1, <1>5, <2>1, OthersWrite
    <2>2. CASE t = s /\ Put(t)
      BY <1>1, <2>2, PutOnItsWay
    <2>3. CASE t = s /\ Fail(t)
      <3>1. child'[s] = "exited"
        BY <2>3, <1>1 DEF Fail, childVars, WritesAreKnown
      <3> QED BY <3>1 DEF OnItsWay
    <2> QED BY <1>5, <2>1, <2>2, <2>3
  <1>6. ASSUME NEW x \in Agents, Look(x) \/ Type(x) PROVE OnItsWay(s)'
    <2>1. CASE x = s
      BY <1>1, <1>6, <2>1, PrimerOnItsWay
    <2>2. CASE x # s
      <3>1. UNCHANGED <<queue, line, screen, taken, child>> /\ job'[s] = job[s]
            /\ primer'[s] = primer[s] /\ polls'[s] = polls[s]
        BY <1>1, <1>6, <2>2, PrimerSteps
      <3> QED BY <1>1, <3>1, WayFrame
    <2> QED BY <2>1, <2>2
  <1>7. ASSUME NEW x \in Sessions, Show(x) PROVE OnItsWay(s)'
    <2>1. CASE x = s
      BY <1>1, <1>7, <2>1, ShowOnItsWay
    <2>2. CASE x # s
      <3>1. UNCHANGED <<queue, line, taken, child, job, primer, polls>>
            /\ screen'[s] = screen[s]
        BY <1>1, <1>7, <2>2 DEF Show, TypeOK, writeVars, primerVars
      <3> QED BY <1>1, <3>1, WayFrame
    <2> QED BY <2>1, <2>2
  <1>8. ASSUME NEW x \in Sessions, Read(x) PROVE OnItsWay(s)'
    <2>1. CASE x = s
      BY <1>1, <1>8, <2>1, ReadOnItsWay
    <2>2. CASE x # s
      <3>1. UNCHANGED <<child, job, primer, polls>> /\ taken \subseteq taken'
        BY <1>8 DEF Read, primerVars
      <3>2. queue'[s] = queue[s]
        BY <1>1, <1>8, <2>2 DEF Read, TypeOK
      <3>3. line'[s] = line[s]
        BY <1>1, <1>8, <2>2 DEF Read, TypeOK
      <3>4. screen'[s] = screen[s]
        BY <1>1, <1>8, <2>2 DEF Read, TypeOK
      <3> QED BY <1>1, <3>1, <3>2, <3>3, <3>4, WayFrame
    <2> QED BY <2>1, <2>2
  <1>9. CASE UNCHANGED vars
    <2>1. UNCHANGED <<job, primer, queue, line, screen, taken, child, polls>>
      BY <1>9 DEF vars, daemonVars, writeVars, childVars, primerVars
    <2> QED BY <1>1, <2>1, WayFrame
  <1> QED BY <1>2, <1>3, <1>4, <1>5, <1>6, <1>7, <1>8, <1>9, TasksAreNoNone
          DEF Next, Serve, Prime, Writing

\* A primer that is done, and whose writing has been read, leaves the agent with its line.
LEMMA OpeningsAreTaken == TypeOK /\ OpeningsAreOnTheirWay => OpeningIsTaken
  <1> SUFFICES ASSUME TypeOK, OpeningsAreOnTheirWay, NEW s \in Agents,
                      primer[s] = "done", child[s] # "exited",
                      s \notin taken, s \notin touched, polls[s] # MaxPolls
               PROVE  \E i \in DOMAIN Stream(s) : Stream(s)[i].by = s
    BY DEF OpeningIsTaken
  <1>1. polls[s] < MaxPolls
    <2>1. polls[s] \in 0..MaxPolls
      BY DEF TypeOK
    <2> QED BY <2>1, BoundsAssumption
  <1>2. OnDialog(s) \/ OnPrompt(s)
    BY <1>1 DEF OpeningsAreOnTheirWay, OnItsWay, OnBanner
  <1>3. PICK e \in Piece, o \in Piece, c \in Piece :
            e = Enter(s) /\ o = Opening(s) /\ c = Closing(s)
    BY PrimerPieces
  <1>4. e.by = s /\ o.by = s
    BY <1>3, PrimerPieces
  <1>5. Stream(s) \in {<<e, o, c>>, <<o, c>>}
    <2>1. CASE line[s] = <<>>
      <3>1. queue[s] \in {<<e, o, c>>, <<o, c>>}
        <4>1. CASE OnDialog(s)
          BY <1>3, <4>1 DEF OnDialog
        <4>2. CASE OnPrompt(s)
          <5>1. line[s] # <<Opening(s)>>
            BY <2>1
          <5> QED BY <1>3, <4>2, <5>1 DEF OnPrompt
        <4> QED BY <1>2, <4>1, <4>2
      <3>2. Stream(s) = <<>> \o queue[s] /\ queue[s] \in Seq(Piece)
        BY <2>1, TasksAreNoNone DEF Stream, TypeOK
      <3> QED BY <3>1, <3>2, ConcatEmptySeq
    <2>2. CASE line[s] # <<>>
      <3>1. line[s] = <<o>> /\ queue[s] = <<c>>
        BY <1>2, <1>3, <2>2 DEF OnDialog, OnPrompt
      <3>2. Len(<<o>>) = 1 /\ <<o>>[1] = o
        OBVIOUS
      <3>3. Stream(s) = <<o>> \o <<c>>
        BY <2>2, <3>1, <3>2 DEF Stream
      <3>4. <<o>> \o <<c>> = Append(<<o>>, c)
        <4>1. <<o>> \in Seq(Piece)
          OBVIOUS
        <4> QED BY <4>1, AppendIsConcat
      <3> QED BY <3>3, <3>4, Tuples
    <2> QED BY <2>1, <2>2
  <1>6. 1 \in DOMAIN Stream(s)
    BY <1>5
  <1>7. Stream(s)[1].by = s
    BY <1>4, <1>5
  <1> QED BY <1>6, <1>7

\* The opening prompt arrives as a line of its own, whenever the agent gets ready, if
\* nobody typed into it and it was ready in time.
THEOREM OpeningArrives == Spec => []OpeningIsTaken
  <1>1. Spec => []WritesAreKnown
    BY InitOpenings, NextKnown, Invariance, PTL DEF Spec
  <1>2. Spec => []OpeningsAreOnTheirWay
    BY <1>1, InitOpenings, NextOpenings, Invariance, PTL DEF Spec
  <1> QED BY <1>2, TypeCorrect, OpeningsAreTaken, PTL

=============================================================================

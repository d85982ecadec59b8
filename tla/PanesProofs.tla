---------------------------- MODULE PanesProofs -----------------------------
(***************************************************************************)
(* Proofs about Panes, for every set of sessions, cockpits and windows:    *)
(* its types, that only crossing resizes part PTY and VT grid, that a      *)
(* screen fits its grid and a terminal the pane that shows it.             *)
(***************************************************************************)
EXTENDS Panes, SequenceTheorems, TLAPS

(***************************************************************************)
(* The inductive invariant                                                 *)
(***************************************************************************)

\* The connection of a cockpit is between the two halves of a resize of s.
On(c, s) == halfway[c] # None /\ halfway[c].session = s

\* The child has painted for the last signal it got, and all of that was read.
Settled(s) == ~winch[s] /\ painted[s] = <<>>

\* PTY and grid differ only while a resize is halfway, or after two of them have
\* crossed: then for as long as nobody resizes the session again.
CrossingParts ==
    \A s \in Sessions : size[s] = grid[s] \/ Halfway(s) \/ crossed[s]

\* What is halfway is the PTY's size, unless resizes have crossed.
HalfIsWhole == \A s \in Sessions, c \in Cockpits :
    On(c, s) => halfway[c].size = size[s] \/ crossed[s]

\* What was painted last is for the size the PTY has, or a signal is pending.
PaintedForSize == \A s \in Sessions :
    /\ ~winch[s] /\ painted[s] # <<>> => painted[s][Len(painted[s])] = size[s]
    /\ Settled(s) => screen[s].for = size[s]

\* A screen that was parsed between resizes has stayed right: a resize to another
\* size since then would have signalled the child.
ParsedInSize == \A s \in Sessions :
    Settled(s) /\ ~early[s] =>
        /\ screen[s].in = size[s] /\ grid[s] = size[s]
        /\ \A c \in Cockpits : On(c, s) => halfway[c].size = size[s]

\* The last Resize of a cockpit is still on its way, or was served, or dropped, or
\* another cockpit's came after it.
LastResize == \A c \in Cockpits :
    /\ requests[c] # <<>> => requests[c][Len(requests[c])] = sent[c] /\ sent[c] # None
    /\ requests[c] = <<>> /\ sent[c] # None =>
          LET s == sent[c].session
          IN  s \in dropped[c] \/ sizedBy[s] \notin {c, None} \/ size[s] = sent[c].size

IInv ==
    TypeOK /\ CrossingParts /\ HalfIsWhole /\ PaintedForSize /\ ParsedInSize /\ LastResize

-----------------------------------------------------------------------------
(***************************************************************************)
(* Sequences                                                               *)
(***************************************************************************)

\* What is appended comes last.
LEMMA LastOfAppend ==
  ASSUME NEW S, NEW q \in Seq(S), NEW x \in S
  PROVE  /\ Append(q, x) \in Seq(S) /\ Append(q, x) # <<>>
         /\ Append(q, x)[Len(Append(q, x))] = x
<1>1. Len(q) \in Nat /\ Len(Append(q, x)) = Len(q) + 1
  OBVIOUS
<1>2. Append(q, x)[Len(q) + 1] = x
  OBVIOUS
<1> QED
  BY <1>1, <1>2

\* The tail of a queue ends like the queue; a queue without one is its head.
LEMMA LastOfTail ==
  ASSUME NEW S, NEW q \in Seq(S), q # <<>>
  PROVE  /\ Head(q) \in S /\ Tail(q) \in Seq(S)
         /\ Tail(q) # <<>> => Tail(q)[Len(Tail(q))] = q[Len(q)]
         /\ Tail(q) = <<>> => Head(q) = q[Len(q)]
<1>1. Len(q) \in Nat \ {0} /\ Len(Tail(q)) = Len(q) - 1 /\ Head(q) = q[1]
  BY HeadTailProperties, EmptySeq
<1>2. Head(q) \in S /\ Tail(q) \in Seq(S)
  BY HeadTailProperties
<1>3. ASSUME Tail(q) # <<>> PROVE Tail(q)[Len(Tail(q))] = q[Len(q)]
  <2>1. Len(Tail(q)) \in Nat \ {0}
    BY <1>2, <1>3, EmptySeq
  <2>2. \A n \in Nat \ {0} : n \in 1..n
    OBVIOUS
  <2>3. Tail(q)[Len(Tail(q))] = q[Len(Tail(q)) + 1]
    BY <2>1, <2>2, HeadTailProperties, Zenon
  <2>4. \A m \in Nat \ {0} : (m - 1) + 1 = m
    OBVIOUS
  <2> QED
    BY <1>1, <2>3, <2>4, Zenon
<1>4. ASSUME Tail(q) = <<>> PROVE Head(q) = q[Len(q)]
  <2>1. Len(Tail(q)) = 0
    BY <1>4, EmptySeq, Zenon
  <2>2. \A m \in Nat \ {0} : m - 1 = 0 => m = 1
    OBVIOUS
  <2> QED
    BY <1>1, <2>1, <2>2, Zenon
<1> QED
  BY <1>2, <1>3, <1>4

-----------------------------------------------------------------------------
(***************************************************************************)
(* Type correctness                                                        *)
(***************************************************************************)

\* However small its window, a cockpit asks for at least 20 columns and 6 rows.
LEMMA PaneIsLarge ==
  ASSUME TypeOK, NEW c \in Cockpits PROVE Pane(c) \in PaneSize
<1>1. window[c] \in Int \X Int
  BY SizeAssumption DEF TypeOK
<1>2. window[c][1] \in Int /\ window[c][2] \in Int /\ SidebarCols \in Int
  BY <1>1, SizeAssumption
<1>3. \A n \in Int : AtLeast(20, n) \in Int /\ AtLeast(20, n) >= 20
  BY DEF AtLeast
<1>4. \A n \in Int : AtLeast(6, n) \in Int /\ AtLeast(6, n) >= 6
  BY DEF AtLeast
<1>5. window[c][1] - (IF mode[c] = "Split" THEN SidebarCols ELSE 0) \in Int
  BY <1>2
<1> QED
  BY <1>2, <1>3, <1>4, <1>5 DEF Pane, PaneSize, Size

\* The initial state is well typed.
LEMMA InitTypeOK == Init => TypeOK
<1> SUFFICES ASSUME Init PROVE TypeOK
  OBVIOUS
<1>1. \A S : <<>> \in Seq(S)
  BY EmptySeq
<1>2. DefaultSize \in Size /\ MaxActs \in Nat
  BY SizeAssumption, MaxActsAssumption DEF Size
<1>3. /\ painted \in [Sessions -> Seq(Size)] /\ requests \in [Cockpits -> Seq(Resize)]
  BY <1>1 DEF Init
<1>4. screen \in [Sessions -> [for : Size, in : Size]]
  BY <1>2 DEF Init
<1> QED
  BY <1>2, <1>3, <1>4 DEF Init, TypeOK

\* What sessions, their children and the reader thread do keeps the types.
LEMMA SessionTypeOK ==
  ASSUME TypeOK, NEW s \in Sessions,
         Start(s) \/ AddPty(s) \/ Close(s) \/ Paint(s) \/ Parse(s)
  PROVE  TypeOK'
<1> USE DEF TypeOK, paneVars, history
<1>1. CASE Start(s)
  BY <1>1 DEF Start
<1>2. CASE AddPty(s)
  BY <1>2 DEF AddPty
<1>3. CASE Close(s)
  BY <1>3, MaxActsAssumption DEF Close, Act
<1>4. CASE Paint(s)
  <2>1. Append(painted[s], size[s]) \in Seq(Size)
    OBVIOUS
  <2> QED
    BY <1>4, <2>1 DEF Paint
<1>5. CASE Parse(s)
  <2>1. Head(painted[s]) \in Size /\ Tail(painted[s]) \in Seq(Size)
    BY <1>5, HeadTailProperties DEF Parse
  <2>2. [for |-> Head(painted[s]), in |-> grid[s]] \in [for : Size, in : Size]
    BY <2>1
  <2>3. (Halfway(s) \/ crossed[s]) \in BOOLEAN
    OBVIOUS
  <2> QED
    BY <1>5, <2>1, <2>2, <2>3 DEF Parse
<1> QED
  BY <1>1, <1>2, <1>3, <1>4, <1>5

\* So does what cockpits do,
LEMMA CockpitTypeOK ==
  ASSUME TypeOK, NEW c \in Cockpits,
         \/ \E w \in Windows : Drag(c, w)
         \/ \E m \in {"Split", "Tiled", "Focus"} : ClickChip(c, m)
         \/ \E s \in Sessions : MoveFocus(c, s)
         \/ Render(c)
  PROVE  TypeOK'
<1> USE MaxActsAssumption DEF TypeOK, ptyVars, history
<1>1. CASE \E w \in Windows : Drag(c, w)
  BY <1>1 DEF Drag, Act
<1>2. CASE \E m \in {"Split", "Tiled", "Focus"} : ClickChip(c, m)
  BY <1>2 DEF ClickChip, Act
<1>3. CASE \E s \in Sessions : MoveFocus(c, s)
  BY <1>3 DEF MoveFocus, Act
<1>4. CASE Render(c)
  <2>1. focused[c] \in Sessions
    BY <1>4 DEF Render, NeedsSend
  <2>2. [session |-> focused[c], size |-> Pane(c)] \in Resize
    BY <2>1, PaneIsLarge DEF Resize
  <2>3. sent' = [sent EXCEPT ![c] = [session |-> focused[c], size |-> Pane(c)]]
    BY <1>4 DEF Render
  <2>4. sent'[c] \in Resize
    BY <2>2, <2>3
  <2>5. Append(requests[c], sent'[c]) \in Seq(Resize)
    BY <2>4
  <2>6. requests' = [requests EXCEPT ![c] = Append(@, sent'[c])]
    BY <1>4 DEF Render
  <2>7. requests' \in [Cockpits -> Seq(Resize)]
    BY <2>5, <2>6
  <2> QED
    BY <1>4, <2>2, <2>3, <2>7 DEF Render
<1> QED
  BY <1>1, <1>2, <1>3, <1>4

\* and the daemon's resizing.
LEMMA ServeTypeOK ==
  ASSUME TypeOK, NEW c \in Cockpits, Serve(c) PROVE TypeOK'
<1> USE DEF TypeOK, ptyVars, paneVars, history
<1>0. requests[c] # <<>> => Head(requests[c]) \in Resize /\ Tail(requests[c]) \in Seq(Resize)
  BY HeadTailProperties
<1>1. CASE Drop(c)
  BY <1>0, <1>1 DEF Drop, Resize
<1>2. CASE ResizePty(c)
  <2> DEFINE r == Head(requests[c])
  <2>1. r \in Resize /\ r.session \in Sessions /\ r.size \in Size
    BY <1>0, <1>2 DEF ResizePty, Resize, PaneSize
  <2>2. Halfway(r.session) \in BOOLEAN
    BY DEF Halfway
  <2> QED
    BY <1>0, <1>2, <2>1, <2>2 DEF ResizePty
<1>3. CASE ResizeGrid(c)
  <2>1. halfway[c] \in Resize /\ halfway[c].session \in Sessions /\ halfway[c].size \in Size
    BY <1>3 DEF ResizeGrid, Resize, PaneSize
  <2> QED
    BY <1>3, <2>1 DEF ResizeGrid
<1> QED
  BY <1>1, <1>2, <1>3 DEF Serve

-----------------------------------------------------------------------------
(***************************************************************************)
(* Sizes                                                                   *)
(***************************************************************************)

\* At the start PTY, grid and screen have the default size, and nobody has resized.
LEMMA InitSizes ==
  Init => CrossingParts /\ HalfIsWhole /\ PaintedForSize /\ ParsedInSize /\ LastResize
  BY DEF Init, CrossingParts, HalfIsWhole, On, PaintedForSize, Settled, ParsedInSize, LastResize

\* The child and the reader thread keep what is known of the screen.
LEMMA SessionSizes ==
  ASSUME IInv, NEW s \in Sessions,
         Start(s) \/ AddPty(s) \/ Close(s) \/ Paint(s) \/ Parse(s)
  PROVE  CrossingParts' /\ HalfIsWhole' /\ PaintedForSize' /\ ParsedInSize' /\ LastResize'
<1>0. TypeOK
  BY DEF IInv
<1>1. UNCHANGED <<size, grid, halfway, crossed, requests, sent, dropped, sizedBy>>
  BY DEF Start, AddPty, Close, Paint, Parse, paneVars, history
<1>2. CrossingParts' /\ HalfIsWhole' /\ LastResize'
  BY <1>1 DEF IInv, CrossingParts, Halfway, HalfIsWhole, On, LastResize
<1>3. CASE Start(s) \/ AddPty(s) \/ Close(s)
  <2>1. UNCHANGED <<painted, screen, early>> /\ \A r \in Sessions : ~winch'[r] => ~winch[r]
    BY <1>0, <1>3 DEF Start, AddPty, Close, history, TypeOK
  <2> QED
    BY <1>1, <1>2, <2>1 DEF IInv, PaintedForSize, Settled, ParsedInSize, On
<1>4. CASE Paint(s)
  <2>1. /\ painted' = [painted EXCEPT ![s] = Append(@, size[s])]
        /\ winch' = [winch EXCEPT ![s] = FALSE] /\ UNCHANGED <<screen, early>>
    BY <1>4 DEF Paint, history
  <2>2. painted'[s] # <<>> /\ painted'[s][Len(painted'[s])] = size[s]
    <3>1. painted'[s] = Append(painted[s], size[s]) /\ painted[s] \in Seq(Size) /\ size[s] \in Size
      BY <1>0, <2>1 DEF TypeOK
    <3>2. \A q \in Seq(Size), x \in Size :
             Append(q, x) # <<>> /\ Append(q, x)[Len(Append(q, x))] = x
      BY LastOfAppend
    <3> QED
      BY <3>1, <3>2, Zenon
  <2>3. \A r \in Sessions \ {s} : painted'[r] = painted[r] /\ winch'[r] = winch[r]
    BY <1>0, <2>1 DEF TypeOK
  <2> QED
    BY <1>1, <1>2, <2>1, <2>2, <2>3 DEF IInv, PaintedForSize, Settled, ParsedInSize, On
<1>5. CASE Parse(s)
  <2>1. /\ painted[s] # <<>> /\ painted' = [painted EXCEPT ![s] = Tail(@)]
        /\ screen' = [screen EXCEPT ![s] = [for |-> Head(painted[s]), in |-> grid[s]]]
        /\ early' = [early EXCEPT ![s] = Halfway(s) \/ crossed[s]] /\ UNCHANGED winch
    BY <1>5 DEF Parse
  <2>2. /\ painted'[s] # <<>> => painted'[s][Len(painted'[s])] = painted[s][Len(painted[s])]
        /\ painted'[s] = <<>> => screen'[s].for = painted[s][Len(painted[s])]
    <3>1. /\ painted'[s] = Tail(painted[s]) /\ painted[s] \in Seq(Size)
          /\ screen'[s].for = Head(painted[s])
      BY <1>0, <2>1 DEF TypeOK
    <3> QED
      BY <2>1, <3>1, LastOfTail, Zenon
  <2>3. screen'[s].in = grid[s] /\ (early'[s] <=> Halfway(s) \/ crossed[s])
    BY <1>0, <2>1 DEF TypeOK
  <2>4. ~early'[s] => grid[s] = size[s] /\ \A c \in Cockpits : ~On(c, s)
    BY <2>3 DEF IInv, CrossingParts, Halfway, On
  <2>5. \A r \in Sessions \ {s} : /\ painted'[r] = painted[r] /\ screen'[r] = screen[r]
                                  /\ early'[r] = early[r]
    BY <1>0, <2>1 DEF TypeOK
  <2>6. PaintedForSize'
    BY <1>1, <2>1, <2>2, <2>5 DEF IInv, PaintedForSize, Settled
  <2>7. ParsedInSize'
    BY <1>1, <2>1, <2>3, <2>4, <2>5 DEF IInv, ParsedInSize, Settled, On
  <2> QED
    BY <1>2, <2>6, <2>7
<1> QED
  BY <1>3, <1>4, <1>5

\* A cockpit that sends a Resize sends it last.
LEMMA CockpitSizes ==
  ASSUME IInv, NEW c \in Cockpits,
         \/ \E w \in Windows : Drag(c, w)
         \/ \E m \in {"Split", "Tiled", "Focus"} : ClickChip(c, m)
         \/ \E s \in Sessions : MoveFocus(c, s)
         \/ Render(c)
  PROVE  CrossingParts' /\ HalfIsWhole' /\ PaintedForSize' /\ ParsedInSize' /\ LastResize'
<1>0. TypeOK
  BY DEF IInv
<1>1. /\ UNCHANGED <<size, grid, halfway, crossed, dropped, sizedBy>>
      /\ UNCHANGED <<winch, painted, screen, early>>
  BY DEF Drag, ClickChip, MoveFocus, Render, ptyVars, history
<1>2. CrossingParts' /\ HalfIsWhole' /\ PaintedForSize' /\ ParsedInSize'
  BY <1>1 DEF IInv, CrossingParts, Halfway, HalfIsWhole, On, PaintedForSize, Settled, ParsedInSize
<1>3. CASE ~Render(c)
  <2>1. UNCHANGED <<requests, sent>>
    BY <1>3 DEF Drag, ClickChip, MoveFocus
  <2> QED
    BY <1>1, <1>2, <2>1 DEF IInv, LastResize
<1>4. CASE Render(c)
  <2>1. sent' = [sent EXCEPT ![c] = [session |-> focused[c], size |-> Pane(c)]]
    BY <1>4 DEF Render
  <2>2. [session |-> focused[c], size |-> Pane(c)] \in Resize
    BY <1>0, <1>4, PaneIsLarge DEF Render, NeedsSend, TypeOK, Resize
  <2>3. sent'[c] \in Resize /\ sent'[c] # None
    BY <1>0, <2>1, <2>2, NoneAssumption DEF TypeOK, Resize, PaneSize, Size
  <2>4. requests' = [requests EXCEPT ![c] = Append(@, sent'[c])]
    BY <1>4 DEF Render
  <2>5. requests'[c] # <<>> /\ requests'[c][Len(requests'[c])] = sent'[c]
    BY <1>0, <2>3, <2>4, LastOfAppend DEF TypeOK
  <2>6. \A d \in Cockpits \ {c} : requests'[d] = requests[d] /\ sent'[d] = sent[d]
    BY <1>0, <2>1, <2>4 DEF TypeOK
  <2>7. LastResize'
    BY <1>1, <2>3, <2>5, <2>6 DEF IInv, LastResize
  <2> QED
    BY <1>2, <2>7
<1> QED
  BY <1>3, <1>4

\* A resize keeps the two sizes in step, but for the half that is left of it.
LEMMA ServeSizes ==
  ASSUME IInv, NEW c \in Cockpits, Serve(c)
  PROVE  CrossingParts' /\ HalfIsWhole' /\ PaintedForSize' /\ ParsedInSize' /\ LastResize'
<1>0. /\ TypeOK
      /\ requests[c] # <<>> =>
            /\ Head(requests[c]) \in Resize
            /\ Tail(requests[c]) # <<>> =>
                  Tail(requests[c])[Len(Tail(requests[c]))] = requests[c][Len(requests[c])]
            /\ Tail(requests[c]) = <<>> => Head(requests[c]) = requests[c][Len(requests[c])]
  <2>1. TypeOK /\ requests[c] \in Seq(Resize)
    BY DEF IInv, TypeOK
  <2> QED
    BY <2>1, LastOfTail, Zenon
<1>1. ASSUME Drop(c) \/ ResizePty(c) PROVE
      \* What is left of the queue ends with the last Resize, or that was its head.
      /\ \A d \in Cockpits \ {c} : requests'[d] = requests[d]
      /\ sent' = sent /\ sent[c] # None
      /\ requests'[c] # <<>> => requests'[c][Len(requests'[c])] = sent[c]
      /\ requests'[c] = <<>> => Head(requests[c]) = sent[c]
  <2>1. /\ requests[c] # <<>> /\ requests' = [requests EXCEPT ![c] = Tail(@)]
        /\ sent' = sent
    BY <1>1 DEF Drop, ResizePty, paneVars
  <2>2. requests'[c] = Tail(requests[c])
    BY <1>0, <2>1 DEF TypeOK
  <2>3. requests[c][Len(requests[c])] = sent[c] /\ sent[c] # None
    BY <2>1 DEF IInv, LastResize
  <2>4. \A d \in Cockpits \ {c} : requests'[d] = requests[d]
    BY <1>0, <2>1 DEF TypeOK
  <2> QED
    BY <1>0, <2>1, <2>2, <2>3, <2>4, Zenon
<1>2. CASE Drop(c)
  <2>1. /\ UNCHANGED <<size, grid, halfway, crossed, sizedBy>>
        /\ UNCHANGED <<winch, painted, screen, early>>
    BY <1>2 DEF Drop, ptyVars
  <2>2. CrossingParts' /\ HalfIsWhole' /\ PaintedForSize' /\ ParsedInSize'
    BY <2>1 DEF IInv, CrossingParts, Halfway, HalfIsWhole, On, PaintedForSize, Settled, ParsedInSize
  <2>3. /\ Head(requests[c]).session \in dropped'[c]
        /\ \A d \in Cockpits \ {c} : dropped'[d] = dropped[d]
    BY <1>0, <1>2 DEF Drop, TypeOK
  <2>4. LastResize'
    BY <1>1, <1>2, <2>1, <2>3 DEF IInv, LastResize
  <2> QED
    BY <2>2, <2>4
<1>3. CASE ResizePty(c)
  <2> DEFINE r == Head(requests[c])
             s == r.session
  <2>1. r \in Resize /\ r # None /\ s \in Sessions /\ halfway[c] = None
    BY <1>0, <1>3, NoneAssumption DEF ResizePty, Resize, PaneSize, Size
  <2>2. /\ size' = [size EXCEPT ![s] = r.size]
        /\ winch' = [winch EXCEPT ![s] = @ \/ size[s] # r.size]
        /\ halfway' = [halfway EXCEPT ![c] = r] /\ sizedBy' = [sizedBy EXCEPT ![s] = c]
        /\ dropped' = [dropped EXCEPT ![c] = @ \ {s}]
        /\ crossed' = [crossed EXCEPT ![s] = Halfway(s)]
        /\ UNCHANGED <<grid, painted, screen, early>>
    BY <1>3 DEF ResizePty, paneVars
  <2> HIDE DEF r, s
  <2>3. /\ size'[s] = r.size /\ (winch'[s] <=> winch[s] \/ size[s] # r.size)
        /\ halfway'[c] = r /\ sizedBy'[s] = c
        /\ (crossed'[s] <=> Halfway(s))
    BY <1>0, <2>1, <2>2 DEF TypeOK
  <2>4. /\ \A q \in Sessions \ {s} : /\ size'[q] = size[q] /\ winch'[q] = winch[q]
                                     /\ crossed'[q] = crossed[q] /\ sizedBy'[q] = sizedBy[q]
        /\ \A d \in Cockpits \ {c} : halfway'[d] = halfway[d] /\ dropped'[d] = dropped[d]
        /\ \A q \in Sessions \ {s} : q \in dropped'[c] <=> q \in dropped[c]
    BY <1>0, <2>1, <2>2 DEF TypeOK
  <2>5. \A d \in Cockpits, q \in Sessions :
           On(d, q)' <=> IF d = c THEN q = s ELSE On(d, q)
    BY <2>1, <2>3, <2>4 DEF On, s
  <2>6. \A q \in Sessions : Halfway(q) <=> \E d \in Cockpits : On(d, q)
    BY DEF Halfway, On
  <2>7. \A q \in Sessions : Halfway(q)' <=> \E d \in Cockpits : On(d, q)'
    BY DEF Halfway, On
  <2>8. \A q \in Sessions \ {s} : Halfway(q) => Halfway(q)'
    BY <2>1, <2>5, <2>6, <2>7 DEF On
  <2>9. CrossingParts'
    <3> SUFFICES ASSUME NEW q \in Sessions PROVE (size[q] = grid[q] \/ Halfway(q) \/ crossed[q])'
      BY DEF CrossingParts
    <3>1. CASE q = s
      BY <2>5, <2>7, <3>1
    <3>2. CASE q # s
      BY <2>2, <2>4, <2>8, <3>2 DEF IInv, CrossingParts
    <3> QED
      BY <3>1, <3>2
  <2>10. HalfIsWhole'
    <3> SUFFICES ASSUME NEW q \in Sessions, NEW d \in Cockpits, On(d, q)'
                 PROVE  (halfway[d].size = size[q] \/ crossed[q])'
      BY DEF HalfIsWhole
    <3>1. CASE d = c
      BY <2>3, <2>5, <3>1
    <3>2. CASE d # c /\ q = s
      BY <2>3, <2>5, <2>6, <3>2
    <3>3. CASE d # c /\ q # s
      BY <2>4, <2>5, <3>3 DEF IInv, HalfIsWhole
    <3> QED
      BY <3>1, <3>2, <3>3
  <2>11. PaintedForSize'
    BY <2>2, <2>3, <2>4 DEF IInv, PaintedForSize, Settled
  <2>12. ParsedInSize'
    <3> SUFFICES ASSUME NEW q \in Sessions, Settled(q)', ~early[q]
                 PROVE  /\ screen[q].in = size'[q] /\ grid[q] = size'[q]
                        /\ \A d \in Cockpits : On(d, q)' => halfway'[d].size = size'[q]
      BY <2>2 DEF ParsedInSize
    <3>1. Settled(q) /\ size'[q] = size[q]
      BY <2>2, <2>3, <2>4 DEF Settled
    <3>2. /\ screen[q].in = size[q] /\ grid[q] = size[q]
          /\ \A d \in Cockpits : On(d, q) => halfway[d].size = size[q]
      BY <3>1 DEF IInv, ParsedInSize
    <3>3. ASSUME NEW d \in Cockpits, On(d, q)' PROVE halfway'[d].size = size'[q]
      BY <2>3, <2>4, <2>5, <3>1, <3>2, <3>3
    <3> QED
      BY <3>1, <3>2, <3>3
  <2>13. LastResize'
    <3> SUFFICES ASSUME NEW d \in Cockpits
                 PROVE  /\ requests'[d] # <<>> =>
                              requests'[d][Len(requests'[d])] = sent'[d] /\ sent'[d] # None
                        /\ requests'[d] = <<>> /\ sent'[d] # None =>
                              \/ sent'[d].session \in dropped'[d]
                              \/ sizedBy'[sent'[d].session] \notin {d, None}
                              \/ size'[sent'[d].session] = sent'[d].size
      BY DEF LastResize
    <3>1. CASE d = c
      BY <1>1, <1>3, <2>3, <3>1 DEF r, s
    <3>2. CASE d # c
      <4>1. requests'[d] = requests[d] /\ sent'[d] = sent[d] /\ dropped'[d] = dropped[d]
        BY <1>1, <1>3, <2>4, <3>2
      <4>2. c # None /\ c # d
        BY <3>2, NoneAssumption
      <4>3. sent[d] # None => sent[d].session \in Sessions
        BY <1>0 DEF TypeOK, Resize
      <4> QED
        BY <2>3, <2>4, <4>1, <4>2, <4>3 DEF IInv, LastResize
    <3> QED
      BY <3>1, <3>2
  <2> QED
    BY <2>9, <2>10, <2>11, <2>12, <2>13
<1>4. CASE ResizeGrid(c)
  <2> DEFINE s == halfway[c].session
  <2>1. /\ halfway[c] # None /\ s \in Sessions
        /\ grid' = [grid EXCEPT ![s] = halfway[c].size]
        /\ halfway' = [halfway EXCEPT ![c] = None]
        /\ UNCHANGED <<size, winch, painted, screen, crossed, early>>
        /\ UNCHANGED <<requests, sent, dropped, sizedBy>>
    BY <1>0, <1>4 DEF ResizeGrid, TypeOK, Resize, paneVars, history
  <2>2. /\ grid'[s] = halfway[c].size /\ \A q \in Sessions \ {s} : grid'[q] = grid[q]
        /\ halfway'[c] = None /\ \A d \in Cockpits \ {c} : halfway'[d] = halfway[d]
    BY <1>0, <2>1 DEF TypeOK
  <2>3. \A d \in Cockpits, q \in Sessions :
           /\ On(d, q)' <=> On(d, q) /\ d # c
           /\ On(d, q)' => halfway'[d] = halfway[d]
    BY <2>2 DEF On
  <2>4. On(c, s) /\ \A q \in Sessions \ {s} : ~On(c, q)
    BY <2>1 DEF On
  <2>5. CrossingParts'
    <3>1. size[s] = grid'[s] \/ crossed[s]
      BY <2>1, <2>2, <2>4 DEF IInv, HalfIsWhole
    <3>2. \A q \in Sessions \ {s} : Halfway(q) => Halfway(q)'
      BY <2>3, <2>4 DEF Halfway, On
    <3> QED
      BY <2>1, <2>2, <3>1, <3>2 DEF IInv, CrossingParts
  <2>6. HalfIsWhole'
    BY <2>1, <2>3 DEF IInv, HalfIsWhole
  <2>7. PaintedForSize'
    BY <2>1 DEF IInv, PaintedForSize, Settled
  <2>8. ParsedInSize'
    BY <2>1, <2>2, <2>3, <2>4 DEF IInv, ParsedInSize, Settled
  <2>9. LastResize'
    BY <2>1 DEF IInv, LastResize
  <2> QED
    BY <2>5, <2>6, <2>7, <2>8, <2>9
<1> QED
  BY <1>2, <1>3, <1>4 DEF Serve

-----------------------------------------------------------------------------
(***************************************************************************)
(* The theorems                                                            *)
(***************************************************************************)

\* The inductive invariant holds in every state, for any number of sessions,
\* cockpits and sizes of windows.
THEOREM Invariance == Spec => []IInv
<1>1. Init => IInv
  BY InitTypeOK, InitSizes DEF IInv
<1>2. IInv /\ [Next]_vars => IInv'
  <2> SUFFICES ASSUME IInv, [Next]_vars PROVE IInv'
    OBVIOUS
  <2>0. TypeOK
    BY DEF IInv
  <2>1. ASSUME NEW s \in Sessions,
               Start(s) \/ AddPty(s) \/ Close(s) \/ Paint(s) \/ Parse(s)
        PROVE  IInv'
    BY <2>0, <2>1, SessionTypeOK, SessionSizes DEF IInv
  <2>2. ASSUME NEW c \in Cockpits,
               \/ \E w \in Windows : Drag(c, w)
               \/ \E m \in {"Split", "Tiled", "Focus"} : ClickChip(c, m)
               \/ \E s \in Sessions : MoveFocus(c, s)
               \/ Render(c)
        PROVE  IInv'
    BY <2>0, <2>2, CockpitTypeOK, CockpitSizes DEF IInv
  <2>3. ASSUME NEW c \in Cockpits, Serve(c) PROVE IInv'
    BY <2>0, <2>3, ServeTypeOK, ServeSizes DEF IInv
  <2>4. CASE UNCHANGED vars
    BY <2>4
    DEF IInv, TypeOK, CrossingParts, Halfway, HalfIsWhole, On, PaintedForSize, Settled, ParsedInSize,
        LastResize, vars, ptyVars, paneVars, history
  <2> QED
    BY <2>1, <2>2, <2>3, <2>4 DEF Next
<1> QED
  BY <1>1, <1>2, PTL DEF Spec

\* No terminal is asked to have less than 20 columns or 6 rows, and all variables
\* hold values of their types.
THEOREM TypeCorrect == Spec => []TypeOK
  BY Invariance, PTL DEF IInv

\* "Resize both the PTY and the VT grid (must stay in lock-step)" (pty.rs:153).
LockStep == \A s \in Sessions : size[s] = grid[s] \/ Halfway(s)

NoneCross == \A s \in Sessions : crossed[s] = FALSE

\* With one cockpit they do: its connection serves one request after the other, and
\* PTY and grid of a session differ only between the two halves of its resize.  With
\* two they need not (CrossingParts is all that is left).
THEOREM OneCockpitInLockStep ==
  ASSUME \A c, d \in Cockpits : c = d
  PROVE  Spec => []LockStep
<1>1. Init => NoneCross
  BY DEF Init, NoneCross
<1>2. IInv /\ NoneCross /\ [Next]_vars => NoneCross'
  <2> SUFFICES ASSUME IInv, NoneCross, [Next]_vars PROVE NoneCross'
    OBVIOUS
  <2>1. ASSUME NEW c \in Cockpits, ResizePty(c) PROVE NoneCross'
    <3>1. PICK s \in Sessions : crossed' = [crossed EXCEPT ![s] = Halfway(s)]
      <4>1. requests[c] \in Seq(Resize) /\ requests[c] # <<>>
        BY <2>1 DEF IInv, TypeOK, ResizePty
      <4>2. Head(requests[c]) \in Resize
        BY <4>1, HeadTailProperties
      <4>3. Head(requests[c]).session \in Sessions
        BY <4>2 DEF Resize
      <4> QED
        BY <2>1, <4>3 DEF ResizePty
    <3>2. halfway[c] = None
      BY <2>1 DEF ResizePty
    <3>3. ~Halfway(s)
      BY <3>2 DEF Halfway
    <3>4. crossed \in [Sessions -> BOOLEAN]
      BY DEF IInv, TypeOK
    <3> QED
      BY <3>1, <3>3, <3>4 DEF NoneCross
  <2>2. ASSUME crossed' = crossed PROVE NoneCross'
    BY <2>2 DEF NoneCross
  <2>3. CASE \E s \in Sessions : Start(s) \/ AddPty(s) \/ Close(s) \/ Paint(s) \/ Parse(s)
    BY <2>2, <2>3 DEF Start, AddPty, Close, Paint, Parse, history
  <2>4. ASSUME NEW c \in Cockpits,
               \/ \E w \in Windows : Drag(c, w)
               \/ \E m \in {"Split", "Tiled", "Focus"} : ClickChip(c, m)
               \/ \E s \in Sessions : MoveFocus(c, s)
               \/ Render(c)
        PROVE  NoneCross'
    BY <2>2, <2>4 DEF Drag, ClickChip, MoveFocus, Render, history
  <2>5. ASSUME NEW c \in Cockpits, Serve(c) PROVE NoneCross'
    BY <2>1, <2>2, <2>5 DEF Serve, Drop, ResizeGrid, history
  <2>6. CASE UNCHANGED vars
    BY <2>2, <2>6 DEF vars, history
  <2> QED
    BY <2>3, <2>4, <2>5, <2>6 DEF Next
<1>3. IInv /\ NoneCross => LockStep
  BY DEF IInv, CrossingParts, LockStep, NoneCross
<1> QED
  BY <1>1, <1>2, <1>3, Invariance, PTL DEF Spec

\* A screen that has come to rest was painted for the size of its grid and parsed in
\* a grid of that size, but for the named crossing of reader and resize.
THEOREM ScreensFit == Spec => []ScreenFitsGrid
<1>1. IInv => ScreenFitsGrid
  <2> SUFFICES ASSUME IInv, NEW s \in Sessions, Settled(s), ~early[s]
               PROVE  screen[s] = [for |-> grid[s], in |-> grid[s]]
    BY DEF ScreenFitsGrid, Settled
  <2>1. screen[s] \in [for : Size, in : Size]
    BY DEF IInv, TypeOK
  <2>2. screen[s].for = size[s] /\ screen[s].in = size[s] /\ grid[s] = size[s]
    BY DEF IInv, PaintedForSize, ParsedInSize
  <2> QED
    BY <2>1, <2>2
<1> QED
  BY <1>1, Invariance, PTL

\* Once its requests are served, a cockpit shows a terminal of the size of its pane,
\* but for the named losses.
THEOREM PanesFit == Spec => []PaneFits
<1>1. IInv => PaneFits
  <2> SUFFICES ASSUME IInv, NEW c \in Cockpits, ~NeedsSend(c), requests[c] = <<>>, ~Excused(c)
               PROVE  size[focused[c]] = Pane(c)
    BY DEF PaneFits
  <2>1. mode[c] # "Tiled" /\ focused[c] # None /\ focused[c] \in Sessions
    BY DEF Excused, IInv, TypeOK
  <2>2. sent[c] = [session |-> focused[c], size |-> Pane(c)]
    BY <2>1 DEF NeedsSend
  <2>3. Pane(c) \in PaneSize
    BY PaneIsLarge DEF IInv
  <2>4. sent[c] # None
    BY <2>1, <2>2, <2>3, NoneAssumption DEF PaneSize, Size
  <2> QED
    BY <2>2, <2>4 DEF IInv, LastResize, Excused
<1> QED
  BY <1>1, Invariance, PTL
=============================================================================

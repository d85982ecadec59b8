----------------------------- MODULE BlocksProofs ------------------------------
(***************************************************************************)
(* Proofs about Blocks, for any shells, bounds and limit of a parameter:   *)
(* the types, that every marker a shell writes gets through the scanner,   *)
(* whatever whole sequences are written in between, and that the exit code *)
(* shown is right if no marker was swallowed.                              *)
(***************************************************************************)
EXTENDS Blocks, SequenceTheorems, TLAPS

-----------------------------------------------------------------------------
(***************************************************************************)
(* The inductive invariant                                                 *)
(***************************************************************************)

\* What is written at a time: a marker or noise.
Chunk == Noise \cup {Osc133(m) : m \in Markers}

\* A label of a unit: its chunk, its place there, and how many markers had been begun.
Label == [chunk : Chunk, at : Nat, nth : Nat]
Weight(c) == IF c \in Noise THEN 0 ELSE 1

\* What the label of the next unit is.
Follows(l, k) ==
    /\ l.at < Len(l.chunk) => k.chunk = l.chunk /\ k.nth = l.nth /\ k.at = l.at + 1
    /\ l.at = Len(l.chunk) => k.at = 1 /\ k.nth = l.nth + Weight(k.chunk)

\* A unit b has the label l, if the markers w were written.
Fits(b, l, w) ==
    /\ l.at \in 1..Len(l.chunk) /\ b = l.chunk[l.at]
    /\ l.nth \in Weight(l.chunk)..Len(w)
    /\ l.chunk \notin Noise => l.chunk = Osc133(w[l.nth])

\* The labels lab tell how the units q are made of chunks; all of them are complete.
Labelled(q, lab, w) ==
    /\ Len(lab) = Len(q)
    /\ \A i \in 1..Len(q) : Fits(q[i], lab[i], w)
    /\ \A i \in 1..Len(q) - 1 : Follows(lab[i], lab[i + 1])
    /\ q # <<>> => lab[Len(q)].at = Len(lab[Len(q)].chunk) /\ lab[Len(q)].nth = Len(w)

\* The scanner is where it must be before the p-th unit of the chunk c; what it
\* collects of a long parameter it may have discarded.
Reached(sc, c, p) ==
    /\ p = 1 => sc.state = "Ground"
    /\ p = 2 => sc.state = "Esc"
    /\ p = 3 => sc.state = "OscPreamble"
    /\ p > 3 /\ c[3] = "x" => sc.state = IF c[p] = "\\" THEN "OscSkipEsc" ELSE "OscSkip"
    /\ p > 3 /\ c[3] = "133" =>
          \/ sc.state = "Param" /\ Len(sc.param) + 4 = p /\ (p = 5 => sc.param[1] = c[4])
          \/ sc.state = "Ground" /\ p > 5

\* The markers returned are the first n of those written.
Returned(out, w, n) == Len(out) = n /\ \A i \in 1..n : out[i] = w[i]

\* The scanner is as far as the first of the units q that are to be read.
Progress(q, lab, w, sc) ==
    /\ Labelled(q, lab, w)
    /\ q # <<>> => /\ Reached(sc, lab[1].chunk, lab[1].at)
                   /\ Returned(sc.out, w, lab[1].nth - Weight(lab[1].chunk))
    /\ q = <<>> => sc.state = "Ground" /\ Returned(sc.out, w, Len(w))

Scanned == \E lab \in Seq(Label) : Progress(tty, lab, wrote, scanner)

\* The last exit code among the first n of the markers q is e.
LastExit(q, n, e) ==
    \/ e = NoExit /\ \A i \in 1..n : q[i] \notin Exits
    \/ \E i \in 1..n : /\ q[i] = e /\ e \in Exits
                       /\ \A j \in i + 1..n : q[j] \notin Exits

\* A snippet that has drawn a prompt is initialized, with Bash's flag set if the
\* trap is its own; it has written the last exit code when there was a command
\* before.  With a trap of the user's it has written none.
SnippetIsRight ==
    /\ shell.stage = "new" <=> prompts = 0
    /\ prompts > 0 => shell.initialized /\ (Traps => shell.running)
    /\ shell.stage = "prompt" /\ prompts > 1 /\ ~shell.trap =>
          LastExit(wrote, Len(wrote), shell.exit)
    /\ shell.trap => /\ shell.kind = "bash" /\ ~shell.running
                     /\ LastExit(wrote, Len(wrote), NoExit)

StatsAreRight == LastExit(scanner.out, applied, stats.last_exit)

IInv == TypeOK /\ (cuts = 0 => Scanned) /\ SnippetIsRight /\ StatsAreRight

-----------------------------------------------------------------------------
(***************************************************************************)
(* The scanner, unit by unit                                               *)
(***************************************************************************)

Scanner == [state : {"Ground", "Esc", "OscPreamble", "Param", "ParamEsc",
                     "OscSkip", "OscSkipEsc"},
            param : Seq(Units), out : Seq(Markers)]

\* A scanner stays one, and its parameter within the limit.
LEMMA FeedTypes ==
  ASSUME NEW sc \in Scanner, Len(sc.param) <= MaxParam, NEW b \in Units
  PROVE  Feed(sc, b) \in Scanner /\ Len(Feed(sc, b).param) <= MaxParam
<1>1. sc.param \in Seq(Units) /\ sc.out \in Seq(Markers) /\ Len(sc.param) \in Nat
  BY DEF Scanner
<1>2. \A s \in {"Ground", "Esc", "OscPreamble", "Param", "ParamEsc", "OscSkip", "OscSkipEsc"} :
        Goto(sc, s) \in Scanner /\ Goto(sc, s).param = sc.param
  BY DEF Goto, Scanner
<1>3. /\ [state |-> "Ground", param |-> <<>>, out |-> sc.out] \in Scanner
      /\ \A s \in {"Ground", "OscPreamble", "Param"} :
            [sc EXCEPT !.state = s, !.param = <<>>] \in Scanner
      /\ \A s : [sc EXCEPT !.state = s, !.param = <<>>].param = <<>>
  <2>1. <<>> \in Seq(Units)
    OBVIOUS
  <2> QED
    BY <1>1, <2>1 DEF Scanner
<1>4. Len(<<>>) <= MaxParam
  BY MaxParamAssumption
<1>5. Discard(sc) \in Scanner /\ Len(Discard(sc).param) <= MaxParam
  BY <1>3, <1>4 DEF Discard
<1>6. EmitMarker(sc) \in Scanner /\ Len(EmitMarker(sc).param) <= MaxParam
  <2>1. ASSUME Len(sc.param) = 1, sc.param[1] \in Markers PROVE sc.param \in Seq(Markers)
    <3>1. sc.param = <<sc.param[1]>>
      BY <1>1, <2>1
    <3>2. \A m \in Markers : <<m>> \in Seq(Markers)
      OBVIOUS
    <3> QED
      BY <2>1, <3>1, <3>2
  <2>2. ASSUME Len(sc.param) = 1, sc.param[1] \in Markers PROVE sc.out \o sc.param \in Seq(Markers)
    BY <1>1, <2>1, <2>2, ConcatProperties
  <2> QED
    BY <1>1, <1>4, <2>2 DEF EmitMarker, Scanner
<1>7. Collect(sc, b) \in Scanner /\ Len(Collect(sc, b).param) <= MaxParam
  <2>1. Append(sc.param, b) \in Seq(Units) /\ Len(Append(sc.param, b)) = Len(sc.param) + 1
    BY <1>1
  <2>2. CASE Len(sc.param) = MaxParam
    BY <1>5, <2>2 DEF Collect
  <2>3. CASE Len(sc.param) # MaxParam
    <3>1. Collect(sc, b) = [sc EXCEPT !.param = Append(sc.param, b)]
      BY <2>3 DEF Collect
    <3>2. Collect(sc, b).param = Append(sc.param, b) /\ Collect(sc, b) \in Scanner
      BY <2>1, <3>1 DEF Scanner
    <3> QED
      BY <1>1, <2>1, <2>3, <3>2, MaxParamAssumption
  <2> QED
    BY <2>2, <2>3
<1>8. AfterSkipEsc(sc, b) \in Scanner /\ Len(AfterSkipEsc(sc, b).param) <= MaxParam
  BY <1>2 DEF AfterSkipEsc
<1>9. sc.state \in {"Ground", "Esc", "OscPreamble", "Param", "ParamEsc", "OscSkip", "OscSkipEsc"}
  BY DEF Scanner
<1> QED
  BY <1>2, <1>3, <1>4, <1>5, <1>6, <1>7, <1>8, <1>9 DEF Feed

\* What is fed to a scanner in one of the states that a chunk leads through.
LEMMA FeedStates ==
  ASSUME NEW sc \in Scanner, NEW b
  PROVE  /\ sc.state = "Ground" /\ b = "ESC" =>
               Feed(sc, b).state = "Esc" /\ Feed(sc, b).out = sc.out
         /\ sc.state = "Ground" /\ b # "ESC" => Feed(sc, b) = sc
         /\ sc.state = "Esc" =>
               /\ Feed(sc, b).out = sc.out
               /\ b = "]" => Feed(sc, b).state = "OscPreamble"
               /\ b = "x" => Feed(sc, b).state = "Ground"
         /\ sc.state = "OscPreamble" =>
               /\ Feed(sc, b).out = sc.out
               /\ b = "133" => Feed(sc, b).state = "Param" /\ Feed(sc, b).param = <<>>
               /\ b = "x" => Feed(sc, b).state = "OscSkip"
         /\ sc.state = "OscSkip" =>
               /\ Feed(sc, b).out = sc.out
               /\ b = "BEL" => Feed(sc, b).state = "Ground"
               /\ b = "ESC" => Feed(sc, b).state = "OscSkipEsc"
               /\ b = "x" => Feed(sc, b).state = "OscSkip"
         /\ sc.state = "OscSkipEsc" =>
               /\ Feed(sc, b).out = sc.out
               /\ b = "\\" => Feed(sc, b).state = "Ground"
BY DEF Feed, Goto, AfterSkipEsc, Scanner

\* What is fed to a scanner that collects a parameter.
LEMMA FeedParam ==
  ASSUME NEW sc \in Scanner, sc.state = "Param", NEW b \in Units, b # "ESC"
  PROVE  /\ b = "BEL" =>
               /\ Feed(sc, b).state = "Ground"
               /\ Feed(sc, b).out = IF Len(sc.param) = 1 /\ sc.param[1] \in Markers
                                    THEN sc.out \o sc.param ELSE sc.out
         /\ b # "BEL" =>
               /\ Feed(sc, b).out = sc.out
               /\ IF Len(sc.param) = MaxParam
                  THEN Feed(sc, b).state = "Ground"
                  ELSE /\ Feed(sc, b).state = "Param"
                       /\ Feed(sc, b).param = Append(sc.param, b)
<1>1. b = "BEL" => Feed(sc, b) = EmitMarker(sc)
  BY DEF Feed
<1>2. b # "BEL" => Feed(sc, b) = Collect(sc, b)
  BY DEF Feed
<1>3. Collect(sc, b).out = sc.out
  BY DEF Collect, Discard, Scanner
<1>4. IF Len(sc.param) = MaxParam
      THEN Collect(sc, b).state = "Ground"
      ELSE Collect(sc, b).state = "Param" /\ Collect(sc, b).param = Append(sc.param, b)
  BY DEF Collect, Discard, Scanner
<1>5. /\ EmitMarker(sc).state = "Ground"
      /\ EmitMarker(sc).out = IF Len(sc.param) = 1 /\ sc.param[1] \in Markers
                              THEN sc.out \o sc.param ELSE sc.out
  BY DEF EmitMarker
<1> QED
  BY <1>1, <1>2, <1>3, <1>4, <1>5

\* What there is at a place of a chunk, and whether the chunk ends there.
ChunkAt(c, p) ==
    \/ p = 1 /\ p >= Len(c) /\ c[p] = "x" /\ c \in Noise
    \/ p = 1 /\ p < Len(c) /\ c[p] = "ESC"
    \/ p = 2 /\ p >= Len(c) /\ c[p] = "x" /\ c \in Noise
    \/ p = 2 /\ p < Len(c) /\ c[p] = "]"
    \/ p = 3 /\ p < Len(c) /\ c[p] \in {"x", "133"}
    \/ p > 3 /\ p < Len(c) /\ c[3] = "x" /\ c[p] = "x" /\ c[p + 1] # "\\"
    \/ p > 3 /\ p < Len(c) /\ c[3] = "x" /\ c[p] = "ESC" /\ c[p + 1] = "\\"
    \/ p > 4 /\ p >= Len(c) /\ c[3] = "x" /\ c[p] \in {"BEL", "\\"} /\ c \in Noise
    \/ p = 4 /\ p < Len(c) /\ c[3] = "133" /\ c[p] \in Markers
    \/ p > 4 /\ p < Len(c) /\ c[3] = "133" /\ c[p] = "x"
    \/ p = 5 /\ p >= Len(c) /\ c[3] = "133" /\ c[p] = "BEL" /\ c \notin Noise /\ c[4] \in Markers
    \/ p = 8 /\ p >= Len(c) /\ c[3] = "133" /\ c[p] = "BEL" /\ c \in Noise

\* No marker is noise.
LEMMA MarkerChunk ==
  ASSUME NEW m \in Markers
  PROVE  /\ Len(Osc133(m)) = 5 /\ Osc133(m)[1] = "ESC" /\ Osc133(m)[2] = "]"
         /\ Osc133(m)[3] = "133" /\ Osc133(m)[4] = m /\ Osc133(m)[5] = "BEL"
         /\ Osc133(m) \notin Noise /\ Osc133(m) \in Chunk
<1> DEFINE c == Osc133(m)
<1>1. /\ Len(c) = 5 /\ c[1] = "ESC" /\ c[2] = "]" /\ c[3] = "133" /\ c[4] = m /\ c[5] = "BEL"
  BY DEF Osc133
<1>2. c \in Chunk
  BY DEF Chunk
<1> HIDE DEF c
<1>3. Len(<<"x">>) = 1 /\ Len(<<"ESC", "x">>) = 2
  OBVIOUS
<1>4. <<"ESC", "]", "x", "x", "BEL">>[3] = "x"
  OBVIOUS
<1>5. Len(<<"ESC", "]", "x", "x", "ESC", "\\">>) = 6
  OBVIOUS
<1>6. Len(<<"ESC", "]", "133", "A", "x", "x", "x", "BEL">>) = 8
  OBVIOUS
<1>7. c \notin Noise
  <2> SUFFICES ASSUME c \in Noise PROVE FALSE
    OBVIOUS
  <2>1. \/ c = <<"x">> \/ c = <<"ESC", "x">>
        \/ c = <<"ESC", "]", "x", "x", "BEL">> \/ c = <<"ESC", "]", "x", "x", "ESC", "\\">>
        \/ c = <<"ESC", "]", "133", "A", "x", "x", "x", "BEL">>
    BY Zenon DEF Noise
  <2>2. Len(c) = 1 \/ Len(c) = 2 \/ Len(c) = 6 \/ Len(c) = 8 \/ c[3] = "x"
    BY <1>3, <1>4, <1>5, <1>6, <2>1, Zenon
  <2> QED
    BY <1>1, <2>2
<1> QED
  BY <1>1, <1>2, <1>7 DEF c

\* Every place of a chunk is one of those.
LEMMA Places ==
  ASSUME NEW c \in Chunk
  PROVE  /\ Len(c) \in Nat \ {0}
         /\ \A p \in 1..Len(c) : ChunkAt(c, p) /\ c[p] \in Units
<1>1. CASE \E m \in Markers : c = Osc133(m)
  <2>1. PICK m \in Markers : c = Osc133(m)
    BY <1>1
  <2>2. /\ Len(c) = 5 /\ c[1] = "ESC" /\ c[2] = "]" /\ c[3] = "133" /\ c[4] = m /\ c[5] = "BEL"
        /\ c \notin Noise
    BY <2>1, MarkerChunk
  <2>3. Len(c) = 5
    BY <2>2
  <2>4. ASSUME NEW p \in 1..Len(c) PROVE p \in {1, 2, 3, 4, 5}
    BY <2>3
  <2>5. ASSUME NEW p \in {1, 2, 3, 4, 5} PROVE ChunkAt(c, p)
    <3>1. ChunkAt(c, 1) /\ ChunkAt(c, 2) /\ ChunkAt(c, 3)
      BY <2>2 DEF ChunkAt
    <3>2. ChunkAt(c, 4) /\ ChunkAt(c, 5)
      BY <2>2 DEF ChunkAt
    <3> QED
      BY <3>1, <3>2
  <2>6. {"ESC", "]", "133", "BEL", m} \subseteq Units
    BY DEF Units
  <2>7. ASSUME NEW p \in {1, 2, 3, 4, 5} PROVE c[p] \in Units
    BY <2>2, <2>6
  <2> QED
    BY <2>3, <2>4, <2>5, <2>7
<1>2. {"ESC", "]", "133", "A", "x", "\\", "BEL"} \subseteq Units /\ "A" \in Markers
  BY DEF Units, Markers
<1>3. CASE c = <<"x">>
  <2>1. Len(c) = 1 /\ c[1] = "x" /\ c \in Noise
    BY <1>3 DEF Noise
  <2>2. ChunkAt(c, 1) /\ \A p \in 1..Len(c) : p = 1
    BY <2>1 DEF ChunkAt
  <2> QED
    BY <1>2, <2>1, <2>2
<1>4. CASE c = <<"ESC", "x">>
  <2>1. Len(c) = 2 /\ c[1] = "ESC" /\ c[2] = "x" /\ c \in Noise
    BY <1>4 DEF Noise
  <2>2. ChunkAt(c, 1) /\ ChunkAt(c, 2) /\ \A p \in 1..Len(c) : p \in {1, 2}
    BY <2>1 DEF ChunkAt
  <2> QED
    BY <1>2, <2>1, <2>2
<1>5. CASE c = <<"ESC", "]", "x", "x", "BEL">>
  <2>1. /\ Len(c) = 5 /\ c[1] = "ESC" /\ c[2] = "]" /\ c[3] = "x" /\ c[4] = "x" /\ c[5] = "BEL"
    BY <1>5
  <2>2. c \in Noise
    BY <1>5 DEF Noise
  <2>3. Len(c) = 5
    BY <2>1
  <2>4. ASSUME NEW p \in 1..Len(c) PROVE p \in {1, 2, 3, 4, 5}
    BY <2>3
  <2>5. ASSUME NEW p \in {1, 2, 3, 4, 5} PROVE ChunkAt(c, p)
    <3>1. ChunkAt(c, 1) /\ ChunkAt(c, 2) /\ ChunkAt(c, 3)
      BY <2>1, <2>2 DEF ChunkAt
    <3>2. ChunkAt(c, 4) /\ ChunkAt(c, 5)
      BY <2>1, <2>2 DEF ChunkAt
    <3> QED
      BY <3>1, <3>2
  <2>6. ASSUME NEW p \in {1, 2, 3, 4, 5} PROVE c[p] \in Units
    BY <1>2, <2>1
  <2> QED
    BY <2>3, <2>4, <2>5, <2>6
<1>6. CASE c = <<"ESC", "]", "x", "x", "ESC", "\\">>
  <2>1. /\ Len(c) = 6 /\ c[1] = "ESC" /\ c[2] = "]" /\ c[3] = "x" /\ c[4] = "x"
        /\ c[5] = "ESC" /\ c[6] = "\\"
    BY <1>6
  <2>2. c \in Noise
    BY <1>6 DEF Noise
  <2>3. Len(c) = 6
    BY <2>1
  <2>4. ASSUME NEW p \in 1..Len(c) PROVE p \in {1, 2, 3, 4, 5, 6}
    BY <2>3
  <2>5. ASSUME NEW p \in {1, 2, 3, 4, 5, 6} PROVE ChunkAt(c, p)
    <3>1. ChunkAt(c, 1) /\ ChunkAt(c, 2) /\ ChunkAt(c, 3)
      BY <2>1, <2>2 DEF ChunkAt
    <3>2. ChunkAt(c, 4) /\ ChunkAt(c, 5) /\ ChunkAt(c, 6)
      BY <2>1, <2>2 DEF ChunkAt
    <3> QED
      BY <3>1, <3>2
  <2>6. ASSUME NEW p \in {1, 2, 3, 4, 5, 6} PROVE c[p] \in Units
    BY <1>2, <2>1
  <2> QED
    BY <2>3, <2>4, <2>5, <2>6
<1>7. CASE c = <<"ESC", "]", "133", "A", "x", "x", "x", "BEL">>
  <2>1. /\ Len(c) = 8 /\ c[1] = "ESC" /\ c[2] = "]" /\ c[3] = "133" /\ c[4] = "A"
        /\ c[5] = "x" /\ c[6] = "x" /\ c[7] = "x" /\ c[8] = "BEL"
    BY <1>7
  <2>2. c \in Noise
    BY <1>7 DEF Noise
  <2>3. Len(c) = 8
    BY <2>1
  <2>4. ASSUME NEW p \in 1..Len(c) PROVE p \in {1, 2, 3, 4, 5, 6, 7, 8}
    BY <2>3
  <2>5. ASSUME NEW p \in {1, 2, 3, 4, 5, 6, 7, 8} PROVE ChunkAt(c, p)
    <3>1. ChunkAt(c, 1) /\ ChunkAt(c, 2) /\ ChunkAt(c, 3) /\ ChunkAt(c, 4)
      BY <1>2, <2>1, <2>2 DEF ChunkAt
    <3>2. ChunkAt(c, 5) /\ ChunkAt(c, 6) /\ ChunkAt(c, 7) /\ ChunkAt(c, 8)
      BY <1>2, <2>1, <2>2 DEF ChunkAt
    <3> QED
      BY <3>1, <3>2
  <2>6. ASSUME NEW p \in {1, 2, 3, 4, 5, 6, 7, 8} PROVE c[p] \in Units
    BY <1>2, <2>1
  <2> QED
    BY <2>3, <2>4, <2>5, <2>6
<1> QED
  BY <1>1, <1>3, <1>4, <1>5, <1>6, <1>7, Zenon DEF Chunk, Noise

\* When a sequence has one element.
LEMMA LengthOne ==
  ASSUME NEW S, NEW q \in Seq(S)
  PROVE  (Len(q) + 4 = 5 => Len(q) = 1) /\ (Len(q) + 4 = 8 => Len(q) # 1)
<1>1. PICK n \in Nat : n = Len(q)
  OBVIOUS
<1>2. Len(q) = 1 <=> n = 1
  BY <1>1
<1>3. (n + 4 = 5 => n = 1) /\ (n + 4 = 8 => n # 1)
  OBVIOUS
<1> QED
  BY <1>1, <1>2, <1>3, Zenon

\* A unit of a chunk takes the scanner one place further; the last one returns the
\* marker, if the chunk is one, and leaves it on the ground.
LEMMA Fed ==
  ASSUME NEW sc \in Scanner, NEW c \in Chunk, NEW p \in 1..Len(c), Reached(sc, c, p)
  PROVE  /\ p < Len(c) => Reached(Feed(sc, c[p]), c, p + 1) /\ Feed(sc, c[p]).out = sc.out
         /\ p >= Len(c) =>
               /\ Feed(sc, c[p]).state = "Ground"
               /\ Feed(sc, c[p]).out = IF c \in Noise THEN sc.out ELSE Append(sc.out, c[4])
<1>1. p \in Nat \ {0} /\ Len(c) \in Nat /\ c[p] \in Units /\ ChunkAt(c, p)
  BY Places
<1>2. sc.param \in Seq(Units) /\ sc.out \in Seq(Markers) /\ Len(sc.param) \in Nat
  BY DEF Scanner
<1>3. CASE p = 1 /\ p >= Len(c) /\ c[p] = "x" /\ c \in Noise
  <2>1. sc.state = "Ground"
    BY <1>3 DEF Reached
  <2>2. Feed(sc, c[p]) = sc
    BY <1>3, <2>1, FeedStates
  <2> QED
    BY <1>1, <1>3, <2>1, <2>2
<1>4. CASE p = 1 /\ p < Len(c) /\ c[p] = "ESC"
  <2>1. sc.state = "Ground"
    BY <1>4 DEF Reached
  <2>2. Feed(sc, c[p]).state = "Esc" /\ Feed(sc, c[p]).out = sc.out
    BY <1>4, <2>1, FeedStates
  <2> QED
    BY <1>1, <1>4, <2>2 DEF Reached
<1>5. CASE p = 2 /\ p >= Len(c) /\ c[p] = "x" /\ c \in Noise
  <2>1. sc.state = "Esc"
    BY <1>5 DEF Reached
  <2>2. Feed(sc, c[p]).state = "Ground" /\ Feed(sc, c[p]).out = sc.out
    BY <1>5, <2>1, FeedStates
  <2> QED
    BY <1>1, <1>5, <2>2
<1>6. CASE p = 2 /\ p < Len(c) /\ c[p] = "]"
  <2>1. sc.state = "Esc"
    BY <1>6 DEF Reached
  <2>2. Feed(sc, c[p]).state = "OscPreamble" /\ Feed(sc, c[p]).out = sc.out
    BY <1>6, <2>1, FeedStates
  <2> QED
    BY <1>1, <1>6, <2>2 DEF Reached
<1>7. CASE p = 3 /\ p < Len(c) /\ c[p] \in {"x", "133"}
  <2>1. sc.state = "OscPreamble"
    BY <1>7 DEF Reached
  <2>2. CASE c[p] = "x"
    <3>1. ChunkAt(c, 4)
      BY <1>1, <1>7, Places
    <3>2. c[3] = "x" /\ c[4] # "\\"
      BY <1>1, <1>7, <2>2, <3>1 DEF ChunkAt
    <3>3. Feed(sc, c[p]).out = sc.out /\ Feed(sc, c[p]).state = "OscSkip"
      BY <2>1, <2>2, FeedStates
    <3> QED
      BY <1>1, <1>7, <3>2, <3>3 DEF Reached
  <2>3. CASE c[p] = "133"
    <3>1. /\ Feed(sc, c[p]).out = sc.out /\ Feed(sc, c[p]).state = "Param"
          /\ Feed(sc, c[p]).param = <<>>
      BY <2>1, <2>3, FeedStates
    <3> QED
      BY <1>1, <1>7, <2>3, <3>1 DEF Reached
  <2> QED
    BY <1>7, <2>2, <2>3
<1>8. CASE p > 3 /\ p < Len(c) /\ c[3] = "x" /\ c[p] = "x" /\ c[p + 1] # "\\"
  <2>1. sc.state = "OscSkip"
    BY <1>8 DEF Reached
  <2>2. Feed(sc, c[p]).out = sc.out /\ Feed(sc, c[p]).state = "OscSkip"
    BY <1>8, <2>1, FeedStates
  <2> QED
    BY <1>1, <1>8, <2>2 DEF Reached
<1>9. CASE p > 3 /\ p < Len(c) /\ c[3] = "x" /\ c[p] = "ESC" /\ c[p + 1] = "\\"
  <2>1. sc.state = "OscSkip"
    BY <1>9 DEF Reached
  <2>2. Feed(sc, c[p]).out = sc.out /\ Feed(sc, c[p]).state = "OscSkipEsc"
    BY <1>9, <2>1, FeedStates
  <2> QED
    BY <1>1, <1>9, <2>2 DEF Reached
<1>10. CASE p > 4 /\ p >= Len(c) /\ c[3] = "x" /\ c[p] \in {"BEL", "\\"} /\ c \in Noise
  <2>1. sc.state = IF c[p] = "\\" THEN "OscSkipEsc" ELSE "OscSkip"
    BY <1>10 DEF Reached
  <2> QED
    BY <1>1, <1>10, <2>1, FeedStates
<1>11. CASE p = 4 /\ p < Len(c) /\ c[3] = "133" /\ c[p] \in Markers
  <2>1. sc.state = "Param" /\ sc.param = <<>> /\ c[p] # "ESC" /\ c[p] # "BEL"
    <3>1. sc.state = "Param" /\ Len(sc.param) = 0
      BY <1>2, <1>11 DEF Reached
    <3> QED
      BY <1>2, <1>11, <3>1 DEF Markers, Exits
  <2>2. /\ Feed(sc, c[p]).out = sc.out /\ Feed(sc, c[p]).state = "Param"
        /\ Feed(sc, c[p]).param = Append(<<>>, c[p])
    BY <1>1, <2>1, FeedParam, MaxParamAssumption
  <2>3. Len(Append(<<>>, c[p])) = 1 /\ Append(<<>>, c[p])[1] = c[p]
    OBVIOUS
  <2> QED
    BY <1>1, <1>11, <2>2, <2>3 DEF Reached
<1>12. CASE p > 4 /\ p < Len(c) /\ c[3] = "133" /\ c[p] = "x"
  <2>1. CASE sc.state = "Ground"
    <3>1. Feed(sc, c[p]) = sc
      BY <1>12, <2>1, FeedStates
    <3> QED
      BY <1>1, <1>12, <2>1, <3>1 DEF Reached
  <2>2. CASE sc.state # "Ground"
    <3>1. sc.state = "Param" /\ Len(sc.param) + 4 = p
      BY <1>1, <1>12, <2>2 DEF Reached
    <3>2. /\ Feed(sc, c[p]).out = sc.out
          /\ IF Len(sc.param) = MaxParam
             THEN Feed(sc, c[p]).state = "Ground"
             ELSE /\ Feed(sc, c[p]).state = "Param"
                  /\ Feed(sc, c[p]).param = Append(sc.param, c[p])
      BY <1>1, <1>12, <3>1, FeedParam
    <3>3. Len(Append(sc.param, c[p])) + 4 = p + 1
      BY <1>1, <1>2, <3>1
    <3> QED
      BY <1>1, <1>12, <3>2, <3>3 DEF Reached
  <2> QED
    BY <2>1, <2>2
<1>13. CASE p = 5 /\ p >= Len(c) /\ c[3] = "133" /\ c[p] = "BEL" /\ c \notin Noise
            /\ c[4] \in Markers
  <2>1. sc.state = "Param" /\ Len(sc.param) = 1 /\ sc.param[1] = c[4]
    <3>1. sc.state = "Param" /\ Len(sc.param) + 4 = 5 /\ sc.param[1] = c[4]
      BY <1>13 DEF Reached
    <3> QED
      BY <1>2, <3>1, LengthOne
  <2>2. sc.param = <<c[4]>>
    BY <1>2, <2>1
  <2>3. Feed(sc, c[p]).state = "Ground" /\ Feed(sc, c[p]).out = sc.out \o sc.param
    BY <1>1, <1>13, <2>1, FeedParam
  <2>4. sc.out \o <<c[4]>> = Append(sc.out, c[4])
    BY <1>2, <1>13, AppendIsConcat
  <2> QED
    BY <1>1, <1>13, <2>2, <2>3, <2>4
<1>14. CASE p = 8 /\ p >= Len(c) /\ c[3] = "133" /\ c[p] = "BEL" /\ c \in Noise
  <2>1. CASE sc.state = "Ground"
    <3>1. Feed(sc, c[p]) = sc
      BY <1>14, <2>1, FeedStates
    <3> QED
      BY <1>1, <1>14, <2>1, <3>1
  <2>2. CASE sc.state # "Ground"
    <3>1. sc.state = "Param" /\ Len(sc.param) # 1
      <4>1. sc.state = "Param" /\ Len(sc.param) + 4 = 8
        BY <1>14, <2>2 DEF Reached
      <4> QED
        BY <1>2, <4>1, LengthOne
    <3>2. Feed(sc, c[p]).state = "Ground" /\ Feed(sc, c[p]).out = sc.out
      BY <1>1, <1>14, <3>1, FeedParam
    <3> QED
      BY <1>1, <1>14, <3>2
  <2> QED
    BY <2>1, <2>2
<1> QED
  BY <1>1, <1>3, <1>4, <1>5, <1>6, <1>7, <1>8, <1>9, <1>10, <1>11, <1>12, <1>13, <1>14 DEF ChunkAt

-----------------------------------------------------------------------------
(***************************************************************************)
(* The labels                                                              *)
(***************************************************************************)

\* Two sequences, one after the other.
LEMMA Joined ==
  ASSUME NEW S, NEW s \in Seq(S), NEW t \in Seq(S),
         NEW n \in Nat, NEW m \in Nat, Len(s) = n, Len(t) = m
  PROVE  /\ s \o t \in Seq(S) /\ Len(s \o t) = n + m
         /\ \A i \in 1..n : (s \o t)[i] = s[i]
OBVIOUS

LEMMA Shifted ==
  ASSUME NEW S, NEW s \in Seq(S), NEW t \in Seq(S), NEW i \in 1..Len(t)
  PROVE  (s \o t)[Len(s) + i] = t[i]
OBVIOUS

\* The markers w2 go on where w ends.
Extends(w2, w) == Len(w) <= Len(w2) /\ \A i \in 1..Len(w) : w2[i] = w[i]

\* The labels lab are those of whole chunks, the first of them after n markers.
Begins(lab, n) == lab[1].at = 1 /\ lab[1].nth = n + Weight(lab[1].chunk)

\* Units b are written behind q: what is known of both.
Written(q, lab, w, b, more, w2) ==
    /\ q \in Seq(Units) /\ lab \in Seq(Label) /\ w \in Seq(Markers) /\ Labelled(q, lab, w)
    /\ b \in Seq(Units) /\ b # <<>> /\ more \in Seq(Label) /\ w2 \in Seq(Markers)
    /\ Extends(w2, w) /\ Labelled(b, more, w2) /\ Begins(more, Len(w))

\* And what follows for the whole, qb.
Whole(q, lab, more, w2, qb, all) ==
    /\ all \in Seq(Label) /\ Labelled(qb, all, w2) /\ qb # <<>>
    /\ q = <<>> => all[1] = more[1]
    /\ q # <<>> => all[1] = lab[1]

\* What is written, and labelled, behind what is labelled.
LEMMA Extended ==
  ASSUME NEW q, NEW lab, NEW w, NEW b, NEW more, NEW w2, Written(q, lab, w, b, more, w2)
  PROVE  Whole(q, lab, more, w2, q \o b, lab \o more)
<1>. USE DEF Written, Whole
<1>1. PICK n \in Nat, m \in Nat \ {0}, all \in Seq(Label), qb \in Seq(Units) :
         /\ Len(q) = n /\ Len(lab) = n /\ Len(b) = m /\ Len(more) = m
         /\ all = lab \o more /\ qb = q \o b
  <2>1. Len(q) \in Nat /\ Len(b) \in Nat \ {0}
    BY EmptySeq
  <2>2. lab \o more \in Seq(Label) /\ q \o b \in Seq(Units)
    BY ConcatProperties
  <2> QED
    BY <2>1, <2>2 DEF Labelled
<1>2. Len(w) \in Nat /\ Len(w2) \in Nat
  OBVIOUS
<1>3. /\ Len(all) = n + m
      /\ \A i \in 1..n : all[i] = lab[i]
      /\ \A i \in 1..m : all[n + i] = more[i]
  <2>1. m \in Nat
    OBVIOUS
  <2>2. Len(lab \o more) = n + m
    BY <1>1, <2>1, Joined
  <2>3. \A i \in 1..n : (lab \o more)[i] = lab[i]
    BY <1>1, <2>1, Joined
  <2>4. \A i \in 1..m : (lab \o more)[n + i] = more[i]
    <3>1. SUFFICES ASSUME NEW i \in 1..m PROVE (lab \o more)[n + i] = more[i]
      OBVIOUS
    <3>2. i \in 1..Len(more) /\ Len(lab) = n
      BY <1>1
    <3>3. (lab \o more)[Len(lab) + i] = more[i]
      BY <3>2, Shifted
    <3> QED
      BY <3>2, <3>3
  <2> QED
    BY <1>1, <2>2, <2>3, <2>4, Zenon
<1>4. /\ Len(qb) = n + m
      /\ \A i \in 1..n : qb[i] = q[i]
      /\ \A i \in 1..m : qb[n + i] = b[i]
  <2>1. m \in Nat
    OBVIOUS
  <2>2. Len(q \o b) = n + m
    BY <1>1, <2>1, Joined
  <2>3. \A i \in 1..n : (q \o b)[i] = q[i]
    BY <1>1, <2>1, Joined
  <2>4. \A i \in 1..m : (q \o b)[n + i] = b[i]
    <3>1. SUFFICES ASSUME NEW i \in 1..m PROVE (q \o b)[n + i] = b[i]
      OBVIOUS
    <3>2. i \in 1..Len(b) /\ Len(q) = n
      BY <1>1
    <3>3. (q \o b)[Len(q) + i] = b[i]
      BY <3>2, Shifted
    <3> QED
      BY <3>2, <3>3
  <2> QED
    BY <1>1, <2>2, <2>3, <2>4, Zenon
<1>5. qb # <<>>
  <2>1. n + m > 0
    OBVIOUS
  <2> QED
    BY <1>4, <2>1, EmptySeq
<1>6. \A i \in 1..n : Fits(qb[i], all[i], w2)
  <2> SUFFICES ASSUME NEW i \in 1..n PROVE Fits(qb[i], all[i], w2)
    OBVIOUS
  <2>1. Fits(q[i], lab[i], w)
    BY <1>1 DEF Labelled
  <2>2. lab[i] \in Label
    BY <1>1
  <2>3. lab[i].chunk \notin Noise => lab[i].nth \in 1..Len(w)
    BY <2>1 DEF Fits, Weight
  <2>4. lab[i].chunk \notin Noise => w2[lab[i].nth] = w[lab[i].nth]
    BY <2>3 DEF Extends
  <2>5. lab[i].nth \in Weight(lab[i].chunk)..Len(w2)
    <3>1. Weight(lab[i].chunk) \in {0, 1}
      BY DEF Weight
    <3>2. lab[i].nth \in Weight(lab[i].chunk)..Len(w) /\ Len(w) <= Len(w2)
      BY <2>1 DEF Fits, Extends
    <3> QED
      BY <1>2, <3>1, <3>2
  <2>6. Fits(q[i], lab[i], w2)
    BY <2>1, <2>4, <2>5 DEF Fits
  <2> QED
    BY <1>3, <1>4, <2>6
<1>7. \A i \in 1..m : Fits(qb[n + i], all[n + i], w2)
  BY <1>1, <1>3, <1>4 DEF Labelled
<1>8. \A i \in 1..n - 1 : Follows(all[i], all[i + 1])
  <2> SUFFICES ASSUME NEW i \in 1..n - 1 PROVE Follows(all[i], all[i + 1])
    OBVIOUS
  <2>1. i \in 1..n /\ i + 1 \in 1..n
    OBVIOUS
  <2>2. Follows(lab[i], lab[i + 1])
    BY <1>1 DEF Labelled
  <2> QED
    BY <1>3, <2>1, <2>2
<1>9. n # 0 => Follows(all[n], all[n + 1])
  <2> SUFFICES ASSUME n # 0 PROVE Follows(all[n], all[n + 1])
    OBVIOUS
  <2>1. n \in 1..n /\ 1 \in 1..m /\ q # <<>>
    BY <1>1
  <2>2. all[n] = lab[n] /\ all[n + 1] = more[1]
    BY <1>3, <2>1
  <2>3. lab[n].at = Len(lab[n].chunk) /\ lab[n].nth = Len(w)
    BY <1>1, <2>1 DEF Labelled
  <2> QED
    BY <2>2, <2>3 DEF Follows, Begins
<1>10. \A i \in 1..m - 1 : Follows(all[n + i], all[n + (i + 1)])
  <2> SUFFICES ASSUME NEW i \in 1..m - 1 PROVE Follows(all[n + i], all[n + (i + 1)])
    OBVIOUS
  <2>1. i \in 1..m /\ i + 1 \in 1..m
    OBVIOUS
  <2>2. Follows(more[i], more[i + 1])
    BY <1>1 DEF Labelled
  <2>3. all[n + i] = more[i]
    BY <1>3, <2>1
  <2>4. all[n + (i + 1)] = more[i + 1]
    BY <1>3, <2>1
  <2> QED
    BY <2>2, <2>3, <2>4
<1>11. all[n + m].at = Len(all[n + m].chunk) /\ all[n + m].nth = Len(w2)
  <2>1. m \in 1..m
    OBVIOUS
  <2>2. all[n + m] = more[m]
    BY <1>3, <2>1
  <2> QED
    BY <1>1, <2>2 DEF Labelled
<1>12. \A i \in 1..n + m : Fits(qb[i], all[i], w2)
  <2> SUFFICES ASSUME NEW i \in 1..n + m PROVE Fits(qb[i], all[i], w2)
    OBVIOUS
  <2>1. CASE i \in 1..n
    BY <1>6, <2>1
  <2>2. CASE i \notin 1..n
    <3>1. PICK j \in 1..m : i = n + j
      <4>1. i - n \in 1..m /\ i = n + (i - n)
        BY <2>2
      <4> QED
        BY <4>1
    <3> QED
      BY <1>7, <3>1
  <2> QED
    BY <2>1, <2>2
<1>13. \A i \in 1..n + m - 1 : Follows(all[i], all[i + 1])
  <2> SUFFICES ASSUME NEW i \in 1..n + m - 1 PROVE Follows(all[i], all[i + 1])
    OBVIOUS
  <2>1. CASE i < n
    BY <1>8, <2>1
  <2>2. CASE i = n
    BY <1>9, <2>2
  <2>3. CASE i > n
    <3>1. PICK j \in 1..m - 1 : i = n + j /\ i + 1 = n + (j + 1)
      <4>1. i - n \in 1..m - 1 /\ i = n + (i - n) /\ i + 1 = n + ((i - n) + 1)
        BY <2>3
      <4> QED
        BY <4>1
    <3> QED
      BY <1>10, <3>1
  <2> QED
    BY <2>1, <2>2, <2>3
<1>14. Labelled(qb, all, w2)
  BY <1>3, <1>4, <1>11, <1>12, <1>13 DEF Labelled
<1>15. (q = <<>> => all[1] = more[1]) /\ (q # <<>> => all[1] = lab[1])
  <2>1. CASE q = <<>>
    <3>1. n = 0 /\ 1 \in 1..m
      BY <1>1, <2>1
    <3>2. all[n + 1] = more[1]
      BY <1>3, <3>1
    <3> QED
      BY <2>1, <3>1, <3>2
  <2>2. CASE q # <<>>
    <3>1. 1 \in 1..n
      BY <1>1, <2>2, EmptySeq
    <3> QED
      BY <1>3, <2>2, <3>1
  <2> QED
    BY <2>1, <2>2
<1> QED
  BY <1>1, <1>5, <1>14, <1>15

\* Hence what is written in whole chunks leaves the scanner where it is.
LEMMA WrittenScanned ==
  ASSUME TypeOK, Scanned, wrote' \in Seq(Markers), scanner' = scanner,
         NEW b \in Seq(Units), b # <<>>, tty' = tty \o b, NEW more \in Seq(Label),
         Extends(wrote', wrote), Labelled(b, more, wrote'), Begins(more, Len(wrote))
  PROVE  Scanned'
<1>1. tty \in Seq(Units) /\ wrote \in Seq(Markers) /\ Len(wrote) \in Nat
  BY DEF TypeOK
<1>2. PICK lab \in Seq(Label) : Progress(tty, lab, wrote, scanner)
  BY DEF Scanned
<1>3. PICK all : all = lab \o more
  OBVIOUS
<1>4. /\ all \in Seq(Label) /\ Labelled(tty', all, wrote') /\ tty' # <<>>
      /\ (tty = <<>> => all[1] = more[1]) /\ (tty # <<>> => all[1] = lab[1])
  <2>1. PICK q \in Seq(Units), w \in Seq(Markers), w2 \in Seq(Markers) :
           q = tty /\ w = wrote /\ w2 = wrote'
    BY <1>1
  <2>2. Written(q, lab, w, b, more, w2)
    BY <1>2, <2>1 DEF Written, Progress
  <2>3. Whole(q, lab, more, w2, q \o b, lab \o more)
    BY <2>2, Extended
  <2> QED
    BY <1>3, <2>1, <2>3 DEF Whole
<1>5. CASE tty = <<>>
  <2>1. all[1] = more[1] /\ scanner.state = "Ground" /\ Returned(scanner.out, wrote, Len(wrote))
    BY <1>2, <1>4, <1>5 DEF Progress
  <2>2. Reached(scanner, all[1].chunk, all[1].at)
    BY <2>1 DEF Reached, Begins
  <2>3. Weight(more[1].chunk) \in Nat
    BY DEF Weight
  <2>4. all[1].nth - Weight(all[1].chunk) = Len(wrote)
    BY <1>1, <2>1, <2>3 DEF Begins
  <2>5. Returned(scanner.out, wrote', all[1].nth - Weight(all[1].chunk))
    BY <2>1, <2>4 DEF Returned, Extends
  <2> QED
    BY <1>4, <2>2, <2>5 DEF Scanned, Progress
<1>6. CASE tty # <<>>
  <2>1. all[1] = lab[1]
    BY <1>4, <1>6
  <2>2. lab[1].nth \in Weight(lab[1].chunk)..Len(wrote)
    <3>1. 1 \in 1..Len(tty)
      BY <1>1, <1>6, EmptySeq
    <3> QED
      BY <1>2, <3>1 DEF Labelled, Fits, Progress
  <2>3. Weight(lab[1].chunk) \in Nat
    BY DEF Weight
  <2>4. \A i \in 1..lab[1].nth - Weight(lab[1].chunk) : i \in 1..Len(wrote)
    BY <1>1, <2>2, <2>3
  <2>5. Returned(scanner.out, wrote', lab[1].nth - Weight(lab[1].chunk))
    BY <1>2, <1>6, <2>4 DEF Returned, Extends, Progress
  <2> QED
    BY <1>2, <1>4, <1>6, <2>1, <2>5 DEF Scanned, Progress
<1> QED
  BY <1>5, <1>6

\* What is left when the first unit is taken.
LEMMA Taken ==
  ASSUME NEW S, NEW s \in Seq(S), NEW n \in Nat, Len(s) = n, n # 0
  PROVE  /\ Tail(s) \in Seq(S) /\ Len(Tail(s)) = n - 1
         /\ \A i \in 1..n - 1 : Tail(s)[i] = s[i + 1]
OBVIOUS

LEMMA TailLabelled ==
  ASSUME NEW q \in Seq(Units), q # <<>>, NEW lab \in Seq(Label), NEW w, Labelled(q, lab, w)
  PROVE  /\ Tail(lab) \in Seq(Label) /\ Labelled(Tail(q), Tail(lab), w)
         /\ Tail(q) # <<>> => Tail(lab)[1] = lab[2] /\ Follows(lab[1], lab[2]) /\ lab[2] \in Label
         /\ Tail(q) = <<>> => lab[1].at = Len(lab[1].chunk) /\ lab[1].nth = Len(w)
<1>1. PICK n \in Nat \ {0} : n = Len(q) /\ n = Len(lab)
  BY EmptySeq DEF Labelled
<1>2. PICK q2 \in Seq(Units), lab2 \in Seq(Label) : q2 = Tail(q) /\ lab2 = Tail(lab)
  BY <1>1, Taken
<1>3. Len(q2) = n - 1 /\ \A i \in 1..n - 1 : q2[i] = q[i + 1]
  BY <1>1, <1>2, Taken
<1>4. Len(lab2) = n - 1 /\ \A i \in 1..n - 1 : lab2[i] = lab[i + 1]
  BY <1>1, <1>2, Taken
<1>5. /\ \A i \in 1..n : Fits(q[i], lab[i], w)
      /\ \A i \in 1..n - 1 : Follows(lab[i], lab[i + 1])
      /\ lab[n].at = Len(lab[n].chunk) /\ lab[n].nth = Len(w)
  BY <1>1 DEF Labelled
<1>6. \A i \in 1..n - 1 : Fits(q2[i], lab2[i], w)
  <2> SUFFICES ASSUME NEW i \in 1..n - 1 PROVE Fits(q2[i], lab2[i], w)
    OBVIOUS
  <2>1. i + 1 \in 1..n
    OBVIOUS
  <2> QED
    BY <1>3, <1>4, <1>5, <2>1
<1>7. \A i \in 1..(n - 1) - 1 : Follows(lab2[i], lab2[i + 1])
  <2> SUFFICES ASSUME NEW i \in 1..(n - 1) - 1 PROVE Follows(lab2[i], lab2[i + 1])
    OBVIOUS
  <2>1. i \in 1..n - 1 /\ i + 1 \in 1..n - 1
    OBVIOUS
  <2>2. lab2[i] = lab[i + 1] /\ lab2[i + 1] = lab[(i + 1) + 1]
    BY <1>4, <2>1
  <2> QED
    BY <1>5, <2>1, <2>2
<1>8. q2 # <<>> => n # 1 /\ lab2[n - 1] = lab[n]
  BY <1>3, <1>4, EmptySeq
<1>9. Labelled(q2, lab2, w)
  BY <1>3, <1>4, <1>5, <1>6, <1>7, <1>8 DEF Labelled
<1>10. q2 # <<>> => lab2[1] = lab[2] /\ Follows(lab[1], lab[2]) /\ lab[2] \in Label
  BY <1>1, <1>4, <1>5, <1>8
<1>11. q2 = <<>> => lab[1].at = Len(lab[1].chunk) /\ lab[1].nth = Len(w)
  <2>1. q2 = <<>> => n = 1
    BY <1>3, EmptySeq
  <2> QED
    BY <1>5, <2>1
<1> QED
  BY <1>2, <1>9, <1>10, <1>11

\* The first unit is read.
LEMMA ReadOne ==
  ASSUME NEW q \in Seq(Units), q # <<>>, NEW lab \in Seq(Label), NEW w \in Seq(Markers),
         NEW sc \in Scanner, Progress(q, lab, w, sc)
  PROVE  Tail(lab) \in Seq(Label) /\ Progress(Tail(q), Tail(lab), w, Feed(sc, Head(q)))
<1>1. PICK c, p, k : c = lab[1].chunk /\ p = lab[1].at /\ k = lab[1].nth
  OBVIOUS
<1>2. /\ c \in Chunk /\ p \in 1..Len(c) /\ Head(q) = c[p] /\ lab[1] \in Label
      /\ k \in Weight(c)..Len(w) /\ (c \notin Noise => c = Osc133(w[k]))
  <2>1. Len(q) \in Nat \ {0} /\ Head(q) = q[1] /\ Len(lab) = Len(q) /\ Fits(q[1], lab[1], w)
    BY EmptySeq DEF Progress, Labelled
  <2>2. lab[1] \in Label
    BY <2>1
  <2> QED
    BY <1>1, <2>1, <2>2 DEF Fits, Label
<1>3. Len(w) \in Nat /\ Len(c) \in Nat /\ p \in Nat /\ k \in Nat
  <2>1. Weight(c) \in {0, 1} /\ Len(w) \in Nat
    BY DEF Weight
  <2> QED
    BY <1>2, <2>1, Places
<1>4. Reached(sc, c, p) /\ Returned(sc.out, w, k - Weight(c)) /\ Labelled(q, lab, w)
  BY <1>1 DEF Progress
<1>5. PICK sc2 : sc2 = Feed(sc, Head(q))
  OBVIOUS
<1>6. /\ p < Len(c) => Reached(sc2, c, p + 1) /\ sc2.out = sc.out
      /\ p >= Len(c) => /\ sc2.state = "Ground"
                        /\ sc2.out = IF c \in Noise THEN sc.out ELSE Append(sc.out, c[4])
  BY <1>2, <1>4, <1>5, Fed
<1>7. PICK q2, lab2 : q2 = Tail(q) /\ lab2 = Tail(lab)
  OBVIOUS
<1>8. /\ lab2 \in Seq(Label) /\ Labelled(q2, lab2, w)
      /\ q2 # <<>> => lab2[1] = lab[2] /\ Follows(lab[1], lab[2]) /\ lab[2] \in Label
      /\ q2 = <<>> => p = Len(c) /\ k = Len(w)
  BY <1>1, <1>4, <1>7, TailLabelled
<1>9. CASE p < Len(c)
  <2>1. q2 # <<>>
    BY <1>3, <1>8, <1>9
  <2>2. lab2[1].chunk = c /\ lab2[1].nth = k /\ lab2[1].at = p + 1
    BY <1>1, <1>8, <1>9, <2>1 DEF Follows
  <2>3. Progress(q2, lab2, w, sc2)
    BY <1>4, <1>6, <1>8, <1>9, <2>1, <2>2 DEF Progress
  <2> QED
    BY <1>5, <1>7, <1>8, <2>3
<1>10. CASE ~(p < Len(c))
  <2>1. p >= Len(c) /\ p = Len(c)
    BY <1>2, <1>3, <1>10
  <2>2. Returned(sc2.out, w, k)
    <3>1. CASE c \in Noise
      <4>1. Weight(c) = 0 /\ k - 0 = k
        BY <1>3, <3>1 DEF Weight
      <4> QED
        BY <1>4, <1>6, <2>1, <3>1, <4>1
    <3>2. CASE c \notin Noise
      <4>1. Weight(c) = 1 /\ k \in 1..Len(w)
        BY <1>2, <1>3, <3>2 DEF Weight
      <4>2. c[4] = w[k] /\ w[k] \in Markers
        BY <1>2, <3>2, <4>1, MarkerChunk
      <4>3. sc2.out = Append(sc.out, w[k]) /\ sc.out \in Seq(Markers)
        BY <1>6, <2>1, <3>2, <4>2 DEF Scanner
      <4>4. Len(sc.out) = k - 1 /\ \A i \in 1..k - 1 : sc.out[i] = w[i]
        BY <1>4, <4>1 DEF Returned
      <4>5. Len(sc2.out) = k /\ sc2.out[k] = w[k]
        BY <1>3, <4>2, <4>3, <4>4
      <4>6. \A i \in 1..k - 1 : sc2.out[i] = w[i]
        BY <1>3, <4>2, <4>3, <4>4
      <4>7. \A i \in 1..k : i = k \/ i \in 1..k - 1
        BY <1>3
      <4> QED
        BY <4>5, <4>6, <4>7 DEF Returned
    <3> QED
      BY <3>1, <3>2
  <2>3. CASE q2 = <<>>
    BY <1>5, <1>6, <1>7, <1>8, <2>1, <2>2, <2>3 DEF Progress
  <2>4. CASE q2 # <<>>
    <3>1. lab2[1].at = 1 /\ lab2[1].nth = k + Weight(lab2[1].chunk)
      BY <1>1, <1>8, <2>1, <2>4 DEF Follows
    <3>2. lab2[1].nth - Weight(lab2[1].chunk) = k
      <4>1. Weight(lab2[1].chunk) \in {0, 1}
        BY DEF Weight
      <4> QED
        BY <1>3, <3>1, <4>1
    <3>3. Reached(sc2, lab2[1].chunk, lab2[1].at)
      BY <1>6, <2>1, <3>1 DEF Reached
    <3>4. Progress(q2, lab2, w, sc2)
      BY <1>8, <2>2, <2>4, <3>2, <3>3 DEF Progress
    <3> QED
      BY <1>5, <1>7, <1>8, <3>4
  <2> QED
    BY <2>3, <2>4
<1> QED
  BY <1>9, <1>10

-----------------------------------------------------------------------------
(***************************************************************************)
(* What is written                                                         *)
(***************************************************************************)

\* Noise is made of units.
LEMMA NoiseUnits ==
  ASSUME NEW b \in Noise
  PROVE  b \in Seq(Units) /\ b # <<>> /\ b \in Chunk /\ Len(b) \in Nat \ {0}
<1>1. b \in Chunk
  BY DEF Chunk
<1>2. Len(b) \in Nat \ {0}
  BY <1>1, Places
<1>3. {"ESC", "]", "133", "A", "x", "\\", "BEL"} \subseteq Units
  BY DEF Units, Markers
<1> HIDE DEF Units
<1>4. \A u \in {"ESC", "]", "133", "A", "x", "\\", "BEL"} : u \in Units
  BY <1>3
<1>5. <<"x">> \in Seq(Units)
  BY <1>4
<1>6. <<"ESC", "x">> \in Seq(Units)
  BY <1>4
<1>7. <<"ESC", "]", "x", "x", "BEL">> \in Seq(Units)
  BY <1>4
<1>8. <<"ESC", "]", "x", "x", "ESC", "\\">> \in Seq(Units)
  BY <1>4
<1>9. <<"ESC", "]", "133", "A", "x", "x", "x", "BEL">> \in Seq(Units)
  BY <1>4
<1>10. b \in Seq(Units)
  BY <1>5, <1>6, <1>7, <1>8, <1>9, Zenon DEF Noise
<1> QED
  BY <1>1, <1>2, <1>10, EmptySeq

\* So is what is cut off.
LEMMA CutOffUnits ==
  ASSUME NEW b \in CutOff
  PROVE  b \in Seq(Units)
<1>1. {"ESC", "]", "133", "x"} \subseteq Units
  BY DEF Units
<1> HIDE DEF Units
<1>2. \A u \in {"ESC", "]", "133", "x"} : u \in Units
  BY <1>1
<1>3. <<"ESC">> \in Seq(Units) /\ <<"ESC", "]">> \in Seq(Units)
  BY <1>2
<1>4. <<"ESC", "]", "x">> \in Seq(Units)
  BY <1>2
<1>5. <<"ESC", "]", "133", "x">> \in Seq(Units)
  BY <1>2
<1> QED
  BY <1>3, <1>4, <1>5, Zenon DEF CutOff

\* The labels of noise.
LEMMA NoiseLabelled ==
  ASSUME NEW b \in Noise, NEW w \in Seq(Markers)
  PROVE  \E more \in Seq(Label) : Labelled(b, more, w) /\ Begins(more, Len(w))
<1>1. PICK n \in Nat \ {0}, k \in Nat : n = Len(b) /\ k = Len(w)
  BY NoiseUnits
<1>2. PICK more : more = [i \in 1..n |-> [chunk |-> b, at |-> i, nth |-> k]]
  OBVIOUS
<1>3. \A i \in 1..n : more[i] \in Label
  BY <1>2, NoiseUnits DEF Label
<1>4. more \in Seq(Label) /\ Len(more) = n
  BY <1>2, <1>3
<1>5. Weight(b) = 0
  BY DEF Weight
<1>6. \A i \in 1..n : Fits(b[i], more[i], w)
  <2> SUFFICES ASSUME NEW i \in 1..n PROVE Fits(b[i], more[i], w)
    OBVIOUS
  <2>1. more[i].chunk = b /\ more[i].at = i /\ more[i].nth = k
    BY <1>2
  <2>2. k \in 0..Len(w)
    BY <1>1
  <2> QED
    BY <1>1, <1>5, <2>1, <2>2 DEF Fits
<1>7. \A i \in 1..n - 1 : Follows(more[i], more[i + 1])
  <2> SUFFICES ASSUME NEW i \in 1..n - 1 PROVE Follows(more[i], more[i + 1])
    OBVIOUS
  <2>1. i \in 1..n /\ i + 1 \in 1..n /\ i # Len(b)
    BY <1>1
  <2>2. /\ more[i].chunk = b /\ more[i].at = i /\ more[i].nth = k
        /\ more[i + 1].chunk = b /\ more[i + 1].at = i + 1 /\ more[i + 1].nth = k
    BY <1>2, <2>1
  <2> QED
    BY <2>1, <2>2 DEF Follows
<1>8. more[n].at = Len(more[n].chunk) /\ more[n].nth = Len(w)
  BY <1>1, <1>2
<1>9. Labelled(b, more, w)
  BY <1>1, <1>4, <1>6, <1>7, <1>8 DEF Labelled
<1>10. Begins(more, Len(w))
  <2>1. more[1].chunk = b /\ more[1].at = 1 /\ more[1].nth = k
    BY <1>2
  <2> QED
    BY <1>1, <1>5, <2>1 DEF Begins
<1> QED
  BY <1>4, <1>9, <1>10

\* Where a unit is among the markers, five units each.
LEMMA Fives ==
  ASSUME NEW k \in Nat, NEW i \in 1..5 * k
  PROVE  /\ (i - 1) \div 5 \in 0..k - 1 /\ (i - 1) % 5 \in 0..4
         /\ (i - 1) % 5 < 4 =>
               (i + 1 - 1) \div 5 = (i - 1) \div 5 /\ (i + 1 - 1) % 5 = ((i - 1) % 5) + 1
         /\ (i - 1) % 5 = 4 =>
               (i + 1 - 1) \div 5 = ((i - 1) \div 5) + 1 /\ (i + 1 - 1) % 5 = 0
         /\ i = 5 * k => (i - 1) \div 5 = k - 1 /\ (i - 1) % 5 = 4
         /\ i = 1 => (i - 1) \div 5 = 0 /\ (i - 1) % 5 = 0
OBVIOUS

\* The units of markers, and their labels.
LEMMA MarkersLabelled ==
  ASSUME NEW ms \in Seq(Markers), ms # <<>>, NEW w \in Seq(Markers)
  PROVE  /\ Bytes(ms) \in Seq(Units) /\ Bytes(ms) # <<>>
         /\ \E more \in Seq(Label) : Labelled(Bytes(ms), more, w \o ms) /\ Begins(more, Len(w))
<1>1. PICK k \in Nat \ {0}, j \in Nat : k = Len(ms) /\ j = Len(w)
  BY EmptySeq
<1>2. PICK d, r : /\ d = [i \in 1..5 * k |-> (i - 1) \div 5]
                  /\ r = [i \in 1..5 * k |-> (i - 1) % 5]
  OBVIOUS
<1>3. \A i \in 1..5 * k : d[i] = (i - 1) \div 5 /\ r[i] = (i - 1) % 5
  BY <1>2
<1>4. /\ \A i \in 1..5 * k : d[i] \in 0..k - 1 /\ r[i] \in 0..4
      /\ d[5 * k] = k - 1 /\ r[5 * k] = 4 /\ d[1] = 0 /\ r[1] = 0
      /\ 5 * k \in 1..5 * k /\ 1 \in 1..5 * k
  <2>1. 5 * k \in 1..5 * k /\ 1 \in 1..5 * k
    BY <1>1
  <2>2. d[5 * k] = k - 1 /\ r[5 * k] = 4
    <3>1. PICK i \in 1..5 * k : i = 5 * k
      BY <2>1
    <3>2. (i - 1) \div 5 = k - 1 /\ (i - 1) % 5 = 4
      BY <3>1, Fives
    <3>3. d[i] = k - 1 /\ r[i] = 4
      BY <1>3, <3>2
    <3> QED
      BY <3>1, <3>3
  <2>3. d[1] = 0 /\ r[1] = 0
    BY <1>3, <2>1, Fives
  <2>4. ASSUME NEW i \in 1..5 * k PROVE d[i] \in 0..k - 1 /\ r[i] \in 0..4
    <3>1. (i - 1) \div 5 \in 0..k - 1 /\ (i - 1) % 5 \in 0..4
      BY Fives
    <3> QED
      BY <1>3, <3>1
  <2> QED
    BY <2>1, <2>2, <2>3, <2>4
<1>5. ASSUME NEW i \in 1..5 * k - 1
      PROVE  \/ r[i] < 4 /\ d[i + 1] = d[i] /\ r[i + 1] = r[i] + 1
             \/ r[i] = 4 /\ d[i + 1] = d[i] + 1 /\ r[i + 1] = 0
  <2>1. i \in 1..5 * k /\ i + 1 \in 1..5 * k
    OBVIOUS
  <2>2. r[i] < 4 \/ r[i] = 4
    <3>1. r[i] \in 0..4
      BY <1>4, <2>1
    <3>2. PICK y \in 0..4 : y = r[i]
      BY <3>1
    <3> QED
      BY <3>2
  <2>3. d[i] = (i - 1) \div 5 /\ r[i] = (i - 1) % 5
    BY <1>3, <2>1
  <2>4. d[i + 1] = (i + 1 - 1) \div 5 /\ r[i + 1] = (i + 1 - 1) % 5
    BY <1>3, <2>1
  <2> QED
    BY <2>1, <2>2, <2>3, <2>4, Fives
<1>6. PICK b : b = [i \in 1..5 * k |-> Osc133(ms[1 + d[i]])[1 + r[i]]]
  OBVIOUS
<1>7. b = Bytes(ms)
  BY <1>1, <1>3, <1>6 DEF Bytes
<1>8. PICK more : more = [i \in 1..5 * k |-> [chunk |-> Osc133(ms[1 + d[i]]), at |-> 1 + r[i],
                                              nth |-> j + 1 + d[i]]]
  OBVIOUS
<1>9. PICK w2 \in Seq(Markers) : w2 = w \o ms
  BY ConcatProperties
<1>10. Len(w2) = j + k /\ \A e \in 0..k - 1 : w2[j + 1 + e] = ms[1 + e]
  <2>1. Len(w2) = j + k
    BY <1>1, <1>9, Joined
  <2>2. ASSUME NEW e \in 0..k - 1 PROVE w2[j + 1 + e] = ms[1 + e]
    <3>1. 1 + e \in 1..Len(ms)
      BY <1>1
    <3>2. w2[Len(w) + (1 + e)] = ms[1 + e]
      BY <1>9, <3>1, Shifted
    <3>3. j + 1 + e = Len(w) + (1 + e)
      BY <1>1
    <3> QED
      BY <3>2, <3>3
  <2> QED
    BY <2>1, <2>2
<1>11. ASSUME NEW i \in 1..5 * k
       PROVE  /\ ms[1 + d[i]] \in Markers /\ d[i] \in 0..k - 1 /\ r[i] \in 0..4
              /\ more[i].chunk = Osc133(ms[1 + d[i]]) /\ more[i].at = 1 + r[i]
              /\ more[i].nth = j + 1 + d[i] /\ more[i] \in Label
              /\ Len(more[i].chunk) = 5 /\ Weight(more[i].chunk) = 1
              /\ more[i].chunk \in Chunk /\ b[i] = more[i].chunk[more[i].at]
  <2>1. d[i] \in 0..k - 1 /\ r[i] \in 0..4
    BY <1>4
  <2>2. 1 + d[i] \in 1..k
    BY <2>1
  <2>3. ms[1 + d[i]] \in Markers
    BY <1>1, <2>2
  <2>4. PICK m \in Markers : m = ms[1 + d[i]]
    BY <2>3
  <2>5. Len(Osc133(m)) = 5 /\ Osc133(m) \in Chunk /\ Osc133(m) \notin Noise
    BY MarkerChunk
  <2>6. more[i] = [chunk |-> Osc133(m), at |-> 1 + r[i], nth |-> j + 1 + d[i]]
    BY <1>8, <2>4
  <2>7. b[i] = Osc133(m)[1 + r[i]]
    BY <1>6, <2>4
  <2>8. more[i].chunk = Osc133(m) /\ more[i].at = 1 + r[i] /\ more[i].nth = j + 1 + d[i]
    BY <2>6
  <2>9. more[i] \in Label
    BY <2>1, <2>5, <2>6 DEF Label
  <2> QED
    BY <2>1, <2>3, <2>4, <2>5, <2>7, <2>8, <2>9 DEF Weight
<1>12. b \in Seq(Units) /\ Len(b) = 5 * k
  <2>1. ASSUME NEW i \in 1..5 * k PROVE b[i] \in Units
    <3>1. /\ more[i].chunk \in Chunk /\ Len(more[i].chunk) = 5 /\ more[i].at = 1 + r[i]
          /\ r[i] \in 0..4 /\ b[i] = more[i].chunk[more[i].at]
      BY <1>11
    <3>2. more[i].at \in 1..Len(more[i].chunk)
      BY <3>1
    <3> QED
      BY <3>1, <3>2, Places
  <2> QED
    BY <1>6, <2>1
<1>13. more \in Seq(Label) /\ Len(more) = 5 * k
  BY <1>8, <1>11
<1>14. ASSUME NEW i \in 1..5 * k PROVE Fits(b[i], more[i], w2)
  <2>1. /\ d[i] \in 0..k - 1 /\ r[i] \in 0..4 /\ Len(more[i].chunk) = 5
        /\ more[i].chunk = Osc133(ms[1 + d[i]]) /\ more[i].at = 1 + r[i]
        /\ more[i].nth = j + 1 + d[i] /\ Weight(more[i].chunk) = 1
        /\ b[i] = more[i].chunk[more[i].at]
    BY <1>11
  <2>2. more[i].at \in 1..Len(more[i].chunk)
    <3>1. PICK y \in 0..4 : y = r[i]
      BY <2>1
    <3>2. 1 + y \in 1..5
      OBVIOUS
    <3> QED
      BY <2>1, <3>1, <3>2
  <2>3. more[i].nth \in Weight(more[i].chunk)..Len(w2)
    BY <1>10, <2>1
  <2>4. w2[more[i].nth] = ms[1 + d[i]]
    BY <1>10, <2>1
  <2> QED
    BY <2>1, <2>2, <2>3, <2>4 DEF Fits
<1>15. ASSUME NEW i \in 1..5 * k - 1 PROVE Follows(more[i], more[i + 1])
  <2>1. i \in 1..5 * k /\ i + 1 \in 1..5 * k
    OBVIOUS
  <2>2. /\ d[i] \in 0..k - 1 /\ r[i] \in 0..4 /\ Len(more[i].chunk) = 5
        /\ more[i].chunk = Osc133(ms[1 + d[i]]) /\ more[i].at = 1 + r[i]
        /\ more[i].nth = j + 1 + d[i]
    BY <1>11, <2>1
  <2>3. /\ d[i + 1] \in 0..k - 1 /\ r[i + 1] \in 0..4
        /\ more[i + 1].chunk = Osc133(ms[1 + d[i + 1]]) /\ more[i + 1].at = 1 + r[i + 1]
        /\ more[i + 1].nth = j + 1 + d[i + 1] /\ Weight(more[i + 1].chunk) = 1
    BY <1>11, <2>1
  <2>4. CASE r[i] < 4 /\ d[i + 1] = d[i] /\ r[i + 1] = r[i] + 1
    <3>0. PICK y \in 0..3 : y = r[i]
      BY <2>2, <2>4
    <3>1. more[i].at # Len(more[i].chunk)
      <4>1. 1 + y # 5
        OBVIOUS
      <4> QED
        BY <2>2, <3>0, <4>1
    <3>2. more[i + 1].at = more[i].at + 1
      <4>1. more[i].at = 1 + y /\ more[i + 1].at = 1 + (y + 1)
        BY <2>2, <2>3, <2>4, <3>0
      <4>2. 1 + (y + 1) = (1 + y) + 1
        OBVIOUS
      <4> QED
        BY <4>1, <4>2
    <3>3. more[i + 1].nth = more[i].nth
      BY <2>2, <2>3, <2>4
    <3>4. more[i + 1].chunk = more[i].chunk
      BY <2>2, <2>3, <2>4
    <3> QED
      BY <3>1, <3>2, <3>3, <3>4 DEF Follows
  <2>5. CASE r[i] = 4 /\ d[i + 1] = d[i] + 1 /\ r[i + 1] = 0
    <3>1. more[i].at = Len(more[i].chunk)
      BY <2>2, <2>5
    <3>2. ~(more[i].at < Len(more[i].chunk))
      BY <2>2, <2>5
    <3>3. more[i + 1].at = 1
      BY <2>3, <2>5
    <3>4. more[i + 1].nth = more[i].nth + Weight(more[i + 1].chunk)
      BY <2>2, <2>3, <2>5
    <3> QED
      BY <3>1, <3>2, <3>3, <3>4 DEF Follows
  <2> QED
    BY <1>5, <2>4, <2>5
<1>16. more[5 * k].at = Len(more[5 * k].chunk) /\ more[5 * k].nth = Len(w2)
  <2>1. /\ more[5 * k].at = 1 + r[5 * k] /\ more[5 * k].nth = j + 1 + d[5 * k]
        /\ Len(more[5 * k].chunk) = 5
    BY <1>4, <1>11
  <2> QED
    BY <1>4, <1>10, <2>1
<1>17. Labelled(b, more, w2)
  BY <1>12, <1>13, <1>14, <1>15, <1>16 DEF Labelled
<1>18. Begins(more, Len(w))
  <2>1. more[1].at = 1 + r[1] /\ more[1].nth = j + 1 + d[1] /\ Weight(more[1].chunk) = 1
    BY <1>4, <1>11
  <2> QED
    BY <1>1, <1>4, <2>1 DEF Begins
<1>19. b # <<>>
  BY <1>12, EmptySeq
<1> QED
  BY <1>7, <1>9, <1>12, <1>13, <1>17, <1>18, <1>19

-----------------------------------------------------------------------------
(***************************************************************************)
(* The actions: the types                                                  *)
(***************************************************************************)

\* Bash's and zsh's prompt write some of these.
LEMMA PromptMarkers ==
  ASSUME TypeOK
  PROVE  /\ \A ms \in {BashPrompt, ZshPrompt} : ms \in Seq(Markers) /\ ms # <<>>
         /\ \A condition : When(condition, <<"C">>) \in Seq(Markers)
<1>1. shell.exit \in Markers /\ {"A", "B", "C"} \subseteq Markers
  BY DEF TypeOK, Markers
<1>2. \A condition : When(condition, <<shell.exit>>) \in Seq(Markers)
  BY <1>1 DEF When
<1>3. <<"A", "C", "B">> \in Seq(Markers) /\ <<"A", "B">> \in Seq(Markers)
  BY <1>1
<1>4. Len(<<"A", "C", "B">>) > 0 /\ Len(<<"A", "B">>) > 0
  OBVIOUS
<1>5. ASSUME NEW s \in Seq(Markers), NEW t \in Seq(Markers), Len(t) > 0
      PROVE  s \o t \in Seq(Markers) /\ s \o t # <<>>
  <2>1. s \o t \in Seq(Markers) /\ Len(s \o t) = Len(s) + Len(t) /\ Len(s) \in Nat /\ Len(t) \in Nat
    BY ConcatProperties
  <2>2. Len(s \o t) > 0
    BY <1>5, <2>1
  <2> QED
    BY <2>1, <2>2, EmptySeq
<1>6. BashPrompt \in Seq(Markers) /\ BashPrompt # <<>>
  <2>1. BashPrompt = When(shell.initialized /\ shell.running, <<shell.exit>>)
                     \o (IF Traps THEN <<"A", "C", "B">> ELSE <<"A", "B">>)
    BY DEF BashPrompt
  <2> QED
    BY <1>2, <1>3, <1>4, <1>5, <2>1
<1>7. ZshPrompt \in Seq(Markers) /\ ZshPrompt # <<>>
  BY <1>2, <1>3, <1>4, <1>5 DEF ZshPrompt
<1>8. \A condition : When(condition, <<"C">>) \in Seq(Markers)
  BY <1>1 DEF When
<1> QED
  BY <1>6, <1>7, <1>8

\* What is written stays within what the PTY buffers.
LEMMA EmitTypes ==
  ASSUME TypeOK, NEW ms \in Seq(Markers), Emit(ms)
  PROVE  /\ tty' \in Seq(Units) /\ Len(tty') <= MaxUnread /\ wrote' \in Seq(Markers)
         /\ Bytes(ms) \in Seq(Units) /\ wrote' = wrote \o ms
         /\ ms = <<>> => Bytes(ms) = <<>>
<1>1. ms = <<>> => Bytes(ms) = <<>>
  <2> SUFFICES ASSUME ms = <<>> PROVE Bytes(ms) = <<>>
    OBVIOUS
  <2>1. Len(ms) = 0 /\ 5 * 0 = 0 /\ 1..0 = {}
    OBVIOUS
  <2>2. Bytes(ms) = [i \in {} |-> Osc133(ms[1 + ((i - 1) \div 5)])[1 + ((i - 1) % 5)]]
    BY <2>1, Zenon DEF Bytes
  <2> QED
    BY <2>2
<1>2. PICK b \in Seq(Units) : b = Bytes(ms)
  <2>1. <<>> \in Seq(Units)
    OBVIOUS
  <2> QED
    BY <1>1, <2>1, MarkersLabelled DEF TypeOK
<1>3. tty \in Seq(Units) /\ wrote \in Seq(Markers)
  BY DEF TypeOK
<1>4. Len(tty) + Len(b) <= MaxUnread /\ tty' = tty \o b /\ wrote' = wrote \o ms
  BY <1>2 DEF Emit
<1>5. tty \o b \in Seq(Units) /\ Len(tty \o b) = Len(tty) + Len(b)
  BY <1>3, ConcatProperties
<1>6. wrote \o ms \in Seq(Markers)
  BY <1>3, ConcatProperties
<1> QED
  BY <1>1, <1>2, <1>4, <1>5, <1>6

\* What else of TypeOK there is.
ShellTypes ==
    /\ shell \in [kind : Shells, stage : {"new", "prompt", "command", "ended"},
                 trap : BOOLEAN, initialized : BOOLEAN, running : BOOLEAN, exit : Exits]
    /\ prompts \in 0..MaxPrompts
TtyTypes == /\ tty \in Seq(Units) /\ Len(tty) <= MaxUnread
            /\ wrote \in Seq(Markers) /\ cuts \in 0..MaxCuts
ScannerTypes == scanner \in Scanner /\ Len(scanner.param) <= MaxParam
StatsTypes ==
    /\ applied \in 0..Len(scanner.out)
    /\ stats \in [commands : Nat, last_exit : Exits \cup {NoExit}, running : BOOLEAN]

LEMMA TypeParts == TypeOK <=> ShellTypes /\ TtyTypes /\ ScannerTypes /\ StatsTypes
BY DEF TypeOK, ShellTypes, TtyTypes, ScannerTypes, StatsTypes, Scanner

\* What the prompt hooks and the trap write.
Writes(ms) ==
    \/ DrawPrompt /\ ms = IF shell.kind = "bash" THEN BashPrompt ELSE ZshPrompt
    \/ RunCommand /\ ms = When(shell.kind = "zsh"
                                  \/ (Traps /\ shell.initialized /\ ~shell.running), <<"C">>)

LEMMA WritesMarkers ==
  ASSUME TypeOK, NEW ms, Writes(ms)
  PROVE  ms \in Seq(Markers) /\ Emit(ms)
BY PromptMarkers DEF Writes, DrawPrompt, RunCommand

\* A scanner returns what it has returned, and maybe more.
LEMMA FeedOut ==
  ASSUME NEW sc \in Scanner, NEW b \in Units
  PROVE  Extends(Feed(sc, b).out, sc.out)
<1>1. sc.out \in Seq(Markers) /\ sc.param \in Seq(Units) /\ Len(sc.out) \in Nat
  BY DEF Scanner
<1>2. Extends(sc.out, sc.out)
  BY <1>1 DEF Extends
<1>3. ASSUME Len(sc.param) = 1, sc.param[1] \in Markers
      PROVE  Extends(sc.out \o sc.param, sc.out)
  <2>1. sc.param = <<sc.param[1]>>
    BY <1>1, <1>3
  <2>2. sc.out \o sc.param = Append(sc.out, sc.param[1])
    BY <1>1, <1>3, <2>1, AppendIsConcat
  <2> QED
    BY <1>1, <1>3, <2>2 DEF Extends
<1>4. Extends(EmitMarker(sc).out, sc.out)
  BY <1>2, <1>3 DEF EmitMarker
<1>5. Feed(sc, b).out = sc.out \/ Feed(sc, b) = EmitMarker(sc)
  <2>1. \A s : Goto(sc, s).out = sc.out
    BY DEF Goto, Scanner
  <2>2. Discard(sc).out = sc.out /\ Collect(sc, b).out = sc.out
    BY DEF Discard, Collect, Scanner
  <2>3. AfterSkipEsc(sc, b).out = sc.out
    BY <2>1 DEF AfterSkipEsc
  <2>4. \A s : [sc EXCEPT !.state = s, !.param = <<>>].out = sc.out
    BY DEF Scanner
  <2> QED
    BY <2>1, <2>2, <2>3, <2>4 DEF Feed, Scanner
<1> QED
  BY <1>2, <1>4, <1>5

\* The types hold after every step.
LEMMA NextTypes ==
  ASSUME TypeOK, [Next]_vars
  PROVE  TypeOK'
<1>1. ShellTypes /\ TtyTypes /\ ScannerTypes /\ StatsTypes
  BY TypeParts
<1>2. ASSUME DrawPrompt \/ RunCommand PROVE TypeOK'
  <2>1. PICK ms : Writes(ms)
    BY <1>2 DEF Writes
  <2>2. TtyTypes'
    BY <1>1, <2>1, WritesMarkers, EmitTypes DEF TtyTypes, Emit
  <2>3. ShellTypes'
    <3>1. CASE DrawPrompt
      <4>1. /\ prompts' = prompts + 1 /\ prompts < MaxPrompts
            /\ shell' = [shell EXCEPT !.stage = "prompt", !.initialized = TRUE,
                                      !.running = Traps]
        BY <3>1 DEF DrawPrompt
      <4>2. prompts' \in 0..MaxPrompts
        BY <1>1, <4>1, BoundsAssumption DEF ShellTypes
      <4>3. Traps \in BOOLEAN
        BY DEF Traps
      <4> QED
        BY <1>1, <4>1, <4>2, <4>3 DEF ShellTypes
    <3>2. CASE RunCommand
      <4>1. /\ prompts' = prompts
            /\ shell' = [shell EXCEPT !.stage = "command", !.running = Traps]
        BY <3>2 DEF RunCommand
      <4>2. Traps \in BOOLEAN
        BY DEF Traps
      <4> QED
        BY <1>1, <4>1, <4>2 DEF ShellTypes
    <3> QED
      BY <1>2, <3>1, <3>2
  <2>4. ScannerTypes' /\ StatsTypes'
    BY <1>1, <1>2 DEF ScannerTypes, StatsTypes, DrawPrompt, RunCommand
  <2>5. (ShellTypes /\ TtyTypes /\ ScannerTypes /\ StatsTypes)'
    BY <2>2, <2>3, <2>4
  <2> QED
    BY <2>5, TypeParts, PTL
<1>3. CASE EndCommand \/ EmptyLine
  <2>1. UNCHANGED <<prompts, tty, wrote, cuts, scanner, applied, stats>>
    BY <1>3 DEF EndCommand, EmptyLine
  <2>2. ShellTypes'
    <3>1. \/ shell' = [shell EXCEPT !.stage = "ended"]
          \/ \E exit \in Exits : shell' = [shell EXCEPT !.stage = "ended", !.exit = exit]
      BY <1>3 DEF EndCommand, EmptyLine
    <3> QED
      BY <1>1, <2>1, <3>1 DEF ShellTypes
  <2>3. TtyTypes' /\ ScannerTypes' /\ StatsTypes'
    BY <1>1, <2>1 DEF TtyTypes, ScannerTypes, StatsTypes
  <2>4. (ShellTypes /\ TtyTypes /\ ScannerTypes /\ StatsTypes)'
    BY <2>2, <2>3
  <2> QED
    BY <2>4, TypeParts, PTL
<1>4. CASE Program
  <2>1. PICK b \in Noise \cup CutOff : /\ Len(tty) + Len(b) <= MaxNoise /\ tty' = tty \o b
                                       /\ cuts' \in {cuts, cuts + 1} /\ cuts' <= MaxCuts
    BY <1>4 DEF Program
  <2>2. b \in Seq(Units)
    BY NoiseUnits, CutOffUnits
  <2>3. tty \in Seq(Units)
    BY DEF TypeOK
  <2>4. tty \o b \in Seq(Units) /\ Len(tty \o b) = Len(tty) + Len(b)
    BY <2>2, <2>3, ConcatProperties
  <2>5. tty' \in Seq(Units) /\ Len(tty') <= MaxUnread
    BY <2>1, <2>2, <2>3, <2>4, BoundsAssumption
  <2>6. cuts' \in 0..MaxCuts
    BY <2>1, BoundsAssumption DEF TypeOK
  <2> QED
    BY <1>4, <2>5, <2>6 DEF TypeOK, Program
<1>5. CASE Read
  <2>1. tty # <<>> /\ tty' = Tail(tty) /\ scanner' = Feed(scanner, Head(tty)) /\ tty \in Seq(Units)
    BY <1>5 DEF Read, TypeOK
  <2>2. Head(tty) \in Units /\ tty' \in Seq(Units) /\ Len(tty') = Len(tty) - 1
    BY <2>1
  <2>3. scanner' \in Scanner /\ Len(scanner'.param) <= MaxParam
    BY <1>1, <2>1, <2>2, FeedTypes DEF ScannerTypes
  <2>4. Extends(scanner'.out, scanner.out)
    BY <1>1, <2>1, <2>2, FeedOut DEF ScannerTypes
  <2>5. scanner.out \in Seq(Markers) /\ scanner'.out \in Seq(Markers)
    BY <1>1, <2>3 DEF ScannerTypes, Scanner
  <2>6. applied \in 0..Len(scanner'.out)
    BY <1>1, <2>4, <2>5 DEF StatsTypes, Extends
  <2>7. Len(tty') <= MaxUnread
    BY <2>1, <2>2, BoundsAssumption DEF TypeOK
  <2> QED
    BY <1>5, <2>2, <2>3, <2>6, <2>7 DEF TypeOK, Read, Scanner
<1>6. CASE Apply
  <2>1. applied < Len(scanner.out) /\ applied' = applied + 1 /\ scanner' = scanner
    BY <1>6 DEF Apply
  <2>2. PICK m : /\ m = scanner.out[applied + 1]
                 /\ stats' = CASE m = "B" -> [stats EXCEPT !.commands = @ + 1, !.running = TRUE]
                               [] m = "C" -> [stats EXCEPT !.running = TRUE]
                               [] m \in Exits -> [stats EXCEPT !.running = FALSE, !.last_exit = m]
                               [] OTHER -> stats
    BY <1>6 DEF Apply
  <2>3. stats' \in [commands : Nat, last_exit : Exits \cup {NoExit}, running : BOOLEAN]
    <3>1. stats \in [commands : Nat, last_exit : Exits \cup {NoExit}, running : BOOLEAN]
      BY <1>1 DEF StatsTypes
    <3>2. CASE m = "B"
      <4>1. stats' = [stats EXCEPT !.commands = @ + 1, !.running = TRUE]
        BY <2>2, <3>2 DEF Exits
      <4>2. stats.commands + 1 \in Nat
        BY <3>1
      <4> QED
        BY <3>1, <4>1, <4>2
    <3>3. CASE m = "C"
      <4>1. stats' = [stats EXCEPT !.running = TRUE]
        BY <2>2, <3>3 DEF Exits
      <4> QED
        BY <3>1, <4>1
    <3>4. CASE m \in Exits /\ m # "B" /\ m # "C"
      <4>1. stats' = [stats EXCEPT !.running = FALSE, !.last_exit = m]
        BY <2>2, <3>4
      <4> QED
        BY <3>1, <3>4, <4>1
    <3>5. CASE m \notin Exits /\ m # "B" /\ m # "C"
      BY <2>2, <3>1, <3>5
    <3> QED
      BY <3>2, <3>3, <3>4, <3>5
  <2>4. scanner.out \in Seq(Markers)
    BY <1>1 DEF ScannerTypes, Scanner
  <2>5. applied' \in 0..Len(scanner'.out)
    BY <1>1, <2>1, <2>4 DEF StatsTypes
  <2> QED
    BY <1>6, <2>3, <2>5 DEF TypeOK, Apply
<1>7. CASE UNCHANGED vars
  BY <1>7 DEF TypeOK, vars
<1> QED
  BY <1>2, <1>3, <1>4, <1>5, <1>6, <1>7 DEF Next

-----------------------------------------------------------------------------
(***************************************************************************)
(* The actions: what is scanned, what is written and what is counted       *)
(***************************************************************************)

\* A step leaves the scanner as far as it must be, unless it cuts a sequence off.
LEMMA NextScanned ==
  ASSUME TypeOK, Scanned, [Next]_vars, cuts' = 0
  PROVE  Scanned'
<1>1. tty \in Seq(Units) /\ wrote \in Seq(Markers) /\ scanner \in Scanner
  BY DEF TypeOK, Scanner
<1>2. ASSUME UNCHANGED <<tty, wrote, scanner>> PROVE Scanned'
  BY <1>2 DEF Scanned
<1>3. ASSUME DrawPrompt \/ RunCommand PROVE Scanned'
  <2>1. PICK ms : Writes(ms)
    BY <1>3 DEF Writes
  <2>2. ms \in Seq(Markers) /\ Emit(ms) /\ scanner' = scanner
    BY <1>3, <2>1, WritesMarkers DEF DrawPrompt, RunCommand
  <2>3. PICK b : b = Bytes(ms)
    OBVIOUS
  <2>4. /\ b \in Seq(Units) /\ wrote' \in Seq(Markers) /\ wrote' = wrote \o ms
        /\ tty' = tty \o b /\ (ms = <<>> => b = <<>>)
    BY <2>2, <2>3, EmitTypes DEF Emit
  <2>5. CASE ms = <<>>
    <3>1. tty' = tty /\ wrote' = wrote
      BY <1>1, <2>4, <2>5, ConcatEmptySeq
    <3> QED
      BY <1>2, <2>2, <3>1
  <2>6. CASE ms # <<>>
    <3>1. b # <<>> /\ \E more \in Seq(Label) :
                         Labelled(b, more, wrote \o ms) /\ Begins(more, Len(wrote))
      BY <1>1, <2>2, <2>3, <2>6, MarkersLabelled
    <3>2. PICK more \in Seq(Label) : Labelled(b, more, wrote') /\ Begins(more, Len(wrote))
      BY <2>4, <3>1
    <3>3. Extends(wrote', wrote)
      <4>1. Len(wrote \o ms) = Len(wrote) + Len(ms) /\ Len(wrote) \in Nat /\ Len(ms) \in Nat
        BY <1>1, <2>2, ConcatProperties
      <4>2. \A i \in 1..Len(wrote) : (wrote \o ms)[i] = wrote[i]
        BY <1>1, <2>2
      <4> QED
        BY <2>4, <4>1, <4>2 DEF Extends
    <3> QED
      BY <2>2, <2>4, <3>1, <3>2, <3>3, WrittenScanned
  <2> QED
    BY <2>5, <2>6
<1>4. CASE EndCommand \/ EmptyLine
  BY <1>2, <1>4 DEF EndCommand, EmptyLine
<1>5. CASE Program
  <2>1. PICK b \in Noise : tty' = tty \o b
    <3>1. PICK b \in Noise \cup CutOff : /\ tty' = tty \o b
                                         /\ cuts' = IF b \in CutOff THEN cuts + 1 ELSE cuts
      BY <1>5 DEF Program
    <3>2. cuts \in Nat
      BY DEF TypeOK
    <3>3. b \notin CutOff
      BY <3>1, <3>2
    <3> QED
      BY <3>1, <3>3
  <2>2. wrote' = wrote /\ scanner' = scanner /\ b \in Seq(Units) /\ b # <<>>
    BY <1>5, NoiseUnits DEF Program
  <2>3. PICK more \in Seq(Label) : Labelled(b, more, wrote') /\ Begins(more, Len(wrote))
    BY <1>1, <2>2, NoiseLabelled
  <2>4. Extends(wrote', wrote)
    BY <1>1, <2>2 DEF Extends
  <2> QED
    BY <1>1, <2>1, <2>2, <2>3, <2>4, WrittenScanned
<1>6. CASE Read
  <2>1. /\ tty # <<>> /\ tty' = Tail(tty) /\ wrote' = wrote
        /\ scanner' = Feed(scanner, Head(tty))
    BY <1>6 DEF Read
  <2>2. PICK lab \in Seq(Label) : Progress(tty, lab, wrote, scanner)
    BY DEF Scanned
  <2>3. /\ Tail(lab) \in Seq(Label)
        /\ Progress(Tail(tty), Tail(lab), wrote, Feed(scanner, Head(tty)))
    BY <1>1, <2>1, <2>2, ReadOne
  <2>4. Progress(tty', Tail(lab), wrote', scanner')
    BY <2>1, <2>3, Zenon
  <2> QED
    BY <2>3, <2>4 DEF Scanned
<1>7. CASE Apply
  BY <1>2, <1>7 DEF Apply
<1>8. CASE UNCHANGED vars
  BY <1>2, <1>8 DEF vars
<1> QED
  BY <1>3, <1>4, <1>5, <1>6, <1>7, <1>8 DEF Next

\* The last exit code of markers that end in a prompt after a command.
LEMMA LastWritten ==
  ASSUME NEW w \in Seq(Markers), NEW e \in Exits, NEW t \in {<<"A", "C", "B">>, <<"A", "B">>}
  PROVE  LastExit(w \o (<<e>> \o t), Len(w \o (<<e>> \o t)), e)
<1>1. PICK n \in Nat, m \in Nat : n = Len(w) /\ m = Len(t)
  OBVIOUS
<1>2. e \in Markers /\ {"A", "B", "C"} \subseteq Markers \ Exits
  BY DEF Markers, Exits
<1>3. t \in Seq(Markers) /\ \A i \in 1..m : t[i] \notin Exits
  <2>1. CASE t = <<"A", "B">>
    <3>1. m = 2 /\ t[1] = "A" /\ t[2] = "B"
      BY <1>1, <2>1
    <3>2. \A i \in 1..m : i = 1 \/ i = 2
      BY <3>1
    <3> QED
      BY <1>2, <2>1, <3>1, <3>2
  <2>2. CASE t = <<"A", "C", "B">>
    <3>1. m = 3 /\ t[1] = "A" /\ t[2] = "C" /\ t[3] = "B"
      BY <1>1, <2>2
    <3>2. \A i \in 1..m : i = 1 \/ i = 2 \/ i = 3
      BY <3>1
    <3> QED
      BY <1>2, <2>2, <3>1, <3>2
  <2> QED
    BY <2>1, <2>2
<1>4. PICK et \in Seq(Markers) : et = <<e>> \o t
  <2>1. <<e>> \in Seq(Markers)
    BY <1>2
  <2>2. <<e>> \o t \in Seq(Markers)
    BY <1>3, <2>1, ConcatProperties
  <2> QED
    BY <2>2
<1>5. Len(et) = m + 1 /\ et[1] = e
  BY <1>1, <1>2, <1>3, <1>4
<1>6. \A i \in 1..m : et[1 + i] = t[i]
  <2> SUFFICES ASSUME NEW i \in 1..m PROVE et[1 + i] = t[i]
    OBVIOUS
  <2>1. i \in 1..Len(t) /\ <<e>> \in Seq(Markers) /\ Len(<<e>>) = 1
    BY <1>1, <1>2
  <2>2. (<<e>> \o t)[Len(<<e>>) + i] = t[i]
    BY <1>3, <2>1, Shifted
  <2> QED
    BY <1>4, <2>1, <2>2
<1>7. PICK all \in Seq(Markers) : all = w \o et
  BY ConcatProperties
<1>8. Len(all) = n + (m + 1)
  <2>1. Len(w \o et) = Len(w) + Len(et)
    BY ConcatProperties
  <2> QED
    BY <1>1, <1>5, <1>7, <2>1
<1>9. \A i \in 1..m + 1 : all[n + i] = et[i]
  <2> SUFFICES ASSUME NEW i \in 1..m + 1 PROVE all[n + i] = et[i]
    OBVIOUS
  <2>1. i \in 1..Len(et)
    BY <1>5
  <2>2. all[Len(w) + i] = et[i]
    BY <1>7, <2>1, Shifted
  <2> QED
    BY <1>1, <2>2
<1>10. all[n + 1] = e
  BY <1>5, <1>9
<1>11. ASSUME NEW j \in (n + 1) + 1..Len(all) PROVE all[j] \notin Exits
  <2>1. PICK i \in 1..m : j = n + (1 + i)
    <3>1. j - (n + 1) \in 1..m /\ j = n + (1 + (j - (n + 1)))
      BY <1>8
    <3> QED
      BY <3>1
  <2>2. 1 + i \in 1..m + 1
    OBVIOUS
  <2>3. all[j] = t[i]
    BY <1>6, <1>9, <2>1, <2>2
  <2> QED
    BY <1>3, <2>3
<1>12. n + 1 \in 1..Len(all)
  BY <1>8
<1>13. LastExit(all, Len(all), e)
  BY <1>10, <1>11, <1>12 DEF LastExit
<1> QED
  BY <1>4, <1>7, <1>13

\* There is one last exit code.
LEMMA OneLast ==
  ASSUME NEW q \in Seq(Markers), NEW e \in Exits, NEW f, LastExit(q, Len(q), e),
         LastExit(q, Len(q), f)
  PROVE  f = e
<1>1. e # NoExit
  BY DEF Exits, NoExit
<1>2. PICK n \in Nat : n = Len(q)
  OBVIOUS
<1>3. PICK i \in 1..n : q[i] = e /\ \A j \in i + 1..n : q[j] \notin Exits
  BY <1>1, <1>2 DEF LastExit
<1>4. PICK k \in 1..n : q[k] = f /\ f \in Exits /\ \A j \in k + 1..n : q[j] \notin Exits
  BY <1>2, <1>3 DEF LastExit
<1>5. i = k
  <2>1. ~(i < k)
    <3>1. i < k => k \in i + 1..n
      OBVIOUS
    <3> QED
      BY <1>3, <1>4, <3>1
  <2>2. ~(k < i)
    <3>1. k < i => i \in k + 1..n
      OBVIOUS
    <3> QED
      BY <1>3, <1>4, <3>1
  <2> QED
    BY <2>1, <2>2
<1> QED
  BY <1>3, <1>4, <1>5

\* Without an exit code among the markers added there is none, if there was none.
LEMMA NoneWritten ==
  ASSUME NEW w \in Seq(Markers), NEW t \in {<<>>, <<"A", "B">>}, LastExit(w, Len(w), NoExit)
  PROVE  LastExit(w \o t, Len(w \o t), NoExit)
<1>1. PICK n \in Nat, m \in Nat : n = Len(w) /\ m = Len(t)
  OBVIOUS
<1>2. \A i \in 1..n : w[i] \notin Exits
  BY <1>1 DEF LastExit, NoExit, Exits
<1>3. t \in Seq(Markers) /\ \A i \in 1..m : t[i] \notin Exits
  <2>1. CASE t = <<>>
    BY <1>1, <2>1
  <2>2. CASE t = <<"A", "B">>
    <3>1. m = 2 /\ t[1] = "A" /\ t[2] = "B"
      BY <1>1, <2>2
    <3>2. \A i \in 1..m : i = 1 \/ i = 2
      BY <3>1
    <3>3. "A" \notin Exits /\ "B" \notin Exits /\ {"A", "B"} \subseteq Markers
      BY DEF Exits, Markers
    <3> QED
      BY <2>2, <3>1, <3>2, <3>3
  <2> QED
    BY <2>1, <2>2
<1>4. PICK all : all = w \o t
  OBVIOUS
<1>5. Len(all) = n + m /\ \A i \in 1..n : all[i] = w[i]
  BY <1>1, <1>3, <1>4
<1>6. \A i \in 1..m : all[n + i] = t[i]
  BY <1>1, <1>3, <1>4, Shifted
<1>7. ASSUME NEW i \in 1..n + m PROVE all[i] \notin Exits
  <2>1. CASE i \in 1..n
    BY <1>2, <1>5, <2>1
  <2>2. CASE i \notin 1..n
    <3>1. PICK h \in 1..m : i = n + h
      <4>1. i - n \in 1..m /\ i = n + (i - n)
        BY <2>2
      <4> QED
        BY <4>1
    <3> QED
      BY <1>3, <1>6, <3>1
  <2> QED
    BY <2>1, <2>2
<1> QED
  BY <1>4, <1>5, <1>7 DEF LastExit

\* A step leaves the variables of the snippet as they must be.
LEMMA NextSnippet ==
  ASSUME TypeOK, SnippetIsRight, [Next]_vars
  PROVE  SnippetIsRight'
<1>1. /\ shell \in [kind : Shells, stage : {"new", "prompt", "command", "ended"},
                    trap : BOOLEAN, initialized : BOOLEAN, running : BOOLEAN, exit : Exits]
      /\ prompts \in Nat /\ wrote \in Seq(Markers)
  BY DEF TypeOK
<1>2. CASE DrawPrompt
  <2>1. PICK ms : Writes(ms) /\ ms = IF shell.kind = "bash" THEN BashPrompt ELSE ZshPrompt
    BY <1>2 DEF Writes
  <2>2. wrote' = wrote \o ms
    BY <2>1, WritesMarkers, EmitTypes
  <2>3. /\ shell.stage \in {"new", "ended"} /\ prompts' = prompts + 1
        /\ shell' = [shell EXCEPT !.stage = "prompt", !.initialized = TRUE, !.running = Traps]
    BY <1>2 DEF DrawPrompt
  <2>4. /\ shell'.stage = "prompt" /\ shell'.initialized = TRUE /\ shell'.kind = shell.kind
        /\ shell'.running = Traps /\ shell'.exit = shell.exit /\ shell'.trap = shell.trap
    BY <1>1, <2>3
  <2>5. ASSUME prompts' > 1, ~shell.trap PROVE LastExit(wrote', Len(wrote'), shell'.exit)
    <3>1. prompts > 0
      BY <1>1, <2>3, <2>5
    <3>2. shell.initialized /\ (shell.kind = "bash" => shell.running)
      BY <2>5, <3>1 DEF SnippetIsRight, Traps
    <3>3. PICK e \in Exits : e = shell.exit
      BY <1>1
    <3>4. \E t \in {<<"A", "C", "B">>, <<"A", "B">>} : ms = <<e>> \o t
      BY <2>1, <2>5, <3>2, <3>3 DEF BashPrompt, ZshPrompt, When, Traps
    <3>5. PICK t \in {<<"A", "C", "B">>, <<"A", "B">>} : ms = <<e>> \o t
      BY <3>4
    <3>6. LastExit(wrote \o ms, Len(wrote \o ms), e)
      BY <1>1, <3>5, LastWritten
    <3> QED
      BY <2>2, <2>4, <3>3, <3>6
  <2>6. prompts' # 0 /\ prompts' \in Nat
    BY <1>1, <2>3
  <2>7. (shell'.stage = "new") <=> (prompts' = 0)
    BY <2>4, <2>6
  <2>8. shell'.initialized /\ (Traps' => shell'.running)
    BY <2>4 DEF Traps
  <2>9. ASSUME shell.trap PROVE /\ shell'.kind = "bash" /\ ~shell'.running
                                /\ LastExit(wrote', Len(wrote'), NoExit)
    <3>1. shell.kind = "bash" /\ ~shell.running /\ LastExit(wrote, Len(wrote), NoExit) /\ ~Traps
      BY <2>9 DEF SnippetIsRight, Traps
    <3>2. ms = <<>> \o <<"A", "B">>
      BY <2>1, <3>1 DEF BashPrompt, When
    <3>3. ms = <<"A", "B">>
      BY <3>2
    <3> QED
      BY <1>1, <2>2, <2>4, <3>1, <3>3, NoneWritten
  <2> QED
    BY <2>4, <2>5, <2>7, <2>8, <2>9 DEF SnippetIsRight
<1>3. CASE RunCommand
  <2>1. /\ shell.stage = "prompt" /\ prompts' = prompts
        /\ shell' = [shell EXCEPT !.stage = "command", !.running = Traps]
    BY <1>3 DEF RunCommand
  <2>2. /\ shell'.stage = "command" /\ shell'.initialized = shell.initialized
        /\ shell'.running = Traps /\ shell'.kind = shell.kind /\ shell'.trap = shell.trap
    BY <1>1, <2>1
  <2>3. ASSUME shell.trap PROVE /\ shell'.kind = "bash" /\ ~shell'.running
                                /\ LastExit(wrote', Len(wrote'), NoExit)
    <3>1. shell.kind = "bash" /\ ~shell.running /\ LastExit(wrote, Len(wrote), NoExit) /\ ~Traps
      BY <2>3 DEF SnippetIsRight, Traps
    <3>2. wrote' = wrote \o <<>>
      BY <1>3, <3>1 DEF RunCommand, Emit, When
    <3> QED
      BY <1>1, <2>2, <3>1, <3>2, NoneWritten
  <2> QED
    BY <2>1, <2>2, <2>3 DEF SnippetIsRight, Traps
<1>4. CASE EndCommand \/ EmptyLine
  <2>1. /\ shell.stage \in {"command", "prompt"} /\ prompts' = prompts /\ wrote' = wrote
        /\ shell'.stage = "ended" /\ shell'.initialized = shell.initialized
        /\ shell'.running = shell.running /\ shell'.kind = shell.kind
        /\ shell'.trap = shell.trap
    BY <1>1, <1>4 DEF EndCommand, EmptyLine
  <2> QED
    BY <2>1 DEF SnippetIsRight, Traps
<1>5. ASSUME UNCHANGED <<shell, prompts, wrote>> PROVE SnippetIsRight'
  BY <1>5 DEF SnippetIsRight, Traps
<1>6. CASE Program \/ Read \/ Apply \/ UNCHANGED vars
  BY <1>5, <1>6 DEF Program, Read, Apply, vars
<1> QED
  BY <1>2, <1>3, <1>4, <1>6 DEF Next

\* A step leaves the exit code shown that of the last marker applied.
LEMMA NextStats ==
  ASSUME TypeOK, StatsAreRight, [Next]_vars
  PROVE  StatsAreRight'
<1>1. /\ scanner \in Scanner /\ scanner.out \in Seq(Markers) /\ tty \in Seq(Units)
      /\ applied \in 0..Len(scanner.out)
      /\ stats \in [commands : Nat, last_exit : Exits \cup {NoExit}, running : BOOLEAN]
  BY DEF TypeOK, Scanner
<1>2. PICK q \in Seq(Markers), n \in Nat, e \in Exits \cup {NoExit} :
         /\ n <= Len(q) /\ q = scanner.out /\ n = applied /\ e = stats.last_exit
         /\ LastExit(q, n, e)
  BY <1>1 DEF StatsAreRight
<1>3. ASSUME UNCHANGED <<scanner, applied, stats>> PROVE StatsAreRight'
  BY <1>3 DEF StatsAreRight
<1>4. CASE Read
  <2>1. Extends(scanner'.out, scanner.out) /\ applied' = applied /\ stats' = stats
    <3>1. Head(tty) \in Units /\ scanner' = Feed(scanner, Head(tty))
      BY <1>1, <1>4 DEF Read
    <3>2. Extends(Feed(scanner, Head(tty)).out, scanner.out)
      BY <1>1, <3>1, FeedOut
    <3> QED
      BY <1>4, <3>1, <3>2 DEF Read
  <2>2. PICK q2 : q2 = scanner'.out
    OBVIOUS
  <2>3. \A i \in 1..n : q2[i] = q[i]
    <3>1. \A i \in 1..n : i \in 1..Len(q)
      BY <1>2
    <3> QED
      BY <1>2, <2>1, <2>2, <3>1 DEF Extends
  <2>4. LastExit(q2, n, e)
    <3>1. CASE e = NoExit /\ \A i \in 1..n : q[i] \notin Exits
      BY <2>3, <3>1 DEF LastExit
    <3>2. CASE \E i \in 1..n : /\ q[i] = e /\ e \in Exits
                               /\ \A j \in i + 1..n : q[j] \notin Exits
      <4>1. PICK i \in 1..n : /\ q[i] = e /\ e \in Exits
                              /\ \A j \in i + 1..n : q[j] \notin Exits
        BY <3>2
      <4>2. \A j \in i + 1..n : j \in 1..n
        OBVIOUS
      <4> QED
        BY <2>3, <4>1, <4>2 DEF LastExit
    <3> QED
      BY <1>2, <3>1, <3>2 DEF LastExit
  <2> QED
    BY <1>2, <2>1, <2>2, <2>4 DEF StatsAreRight
<1>5. CASE Apply
  <2>1. n + 1 \in 1..Len(q) /\ applied' = n + 1 /\ scanner' = scanner
    BY <1>2, <1>5 DEF Apply
  <2>2. PICK m : m = q[n + 1]
    OBVIOUS
  <2>3. stats' = CASE m = "B" -> [stats EXCEPT !.commands = @ + 1, !.running = TRUE]
                   [] m = "C" -> [stats EXCEPT !.running = TRUE]
                   [] m \in Exits -> [stats EXCEPT !.running = FALSE, !.last_exit = m]
                   [] OTHER -> stats
    BY <1>2, <1>5, <2>2 DEF Apply
  <2>4. m \in Exits => stats'.last_exit = m
    <3>1. m \in Exits => m # "B" /\ m # "C"
      BY DEF Exits
    <3>2. m \in Exits => stats' = [stats EXCEPT !.running = FALSE, !.last_exit = m]
      BY <2>3, <3>1
    <3> QED
      BY <1>1, <3>2
  <2>5. m \notin Exits => stats'.last_exit = e
    <3>1. CASE m = "B"
      <4>1. stats' = [stats EXCEPT !.commands = stats.commands + 1, !.running = TRUE]
        BY <2>3, <3>1 DEF Exits
      <4> QED
        BY <1>1, <1>2, <4>1
    <3>2. CASE m = "C"
      <4>1. stats' = [stats EXCEPT !.running = TRUE]
        BY <2>3, <3>2 DEF Exits
      <4> QED
        BY <1>1, <1>2, <4>1
    <3>3. CASE m \notin Exits /\ m # "B" /\ m # "C"
      BY <1>2, <2>3, <3>3
    <3> QED
      BY <3>1, <3>2, <3>3
  <2>6. CASE m \in Exits
    <3>1. \A j \in (n + 1) + 1..n + 1 : FALSE
      OBVIOUS
    <3>2. n + 1 \in 1..n + 1
      OBVIOUS
    <3>3. LastExit(q, n + 1, m)
      BY <2>2, <2>6, <3>1, <3>2 DEF LastExit
    <3> QED
      BY <1>2, <2>1, <2>4, <2>6, <3>3 DEF StatsAreRight
  <2>7. CASE m \notin Exits
    <3>1. LastExit(q, n + 1, e)
      <4>1. CASE e = NoExit /\ \A i \in 1..n : q[i] \notin Exits
        <5>1. \A i \in 1..n + 1 : i \in 1..n \/ i = n + 1
          OBVIOUS
        <5> QED
          BY <2>2, <2>7, <4>1, <5>1 DEF LastExit
      <4>2. CASE \E i \in 1..n : /\ q[i] = e /\ e \in Exits
                                 /\ \A j \in i + 1..n : q[j] \notin Exits
        <5>1. PICK i \in 1..n : /\ q[i] = e /\ e \in Exits
                                /\ \A j \in i + 1..n : q[j] \notin Exits
          BY <4>2
        <5>2. i \in 1..n + 1 /\ \A j \in i + 1..n + 1 : j \in i + 1..n \/ j = n + 1
          OBVIOUS
        <5> QED
          BY <2>2, <2>7, <5>1, <5>2 DEF LastExit
      <4> QED
        BY <1>2, <4>1, <4>2 DEF LastExit
    <3> QED
      BY <1>2, <2>1, <2>5, <2>7, <3>1 DEF StatsAreRight
  <2> QED
    BY <2>6, <2>7
<1>6. CASE DrawPrompt \/ RunCommand \/ EndCommand \/ EmptyLine \/ Program \/ UNCHANGED vars
  BY <1>3, <1>6 DEF DrawPrompt, RunCommand, EndCommand, EmptyLine, Program, vars
<1> QED
  BY <1>4, <1>5, <1>6 DEF Next

-----------------------------------------------------------------------------
(***************************************************************************)
(* The theorems                                                            *)
(***************************************************************************)

LEMMA InitIInv == Init => IInv
<1> SUFFICES ASSUME Init PROVE IInv
  OBVIOUS
<1>1. PICK k \in Shells, t \in BOOLEAN :
          /\ t => k = "bash"
          /\ shell = [kind |-> k, stage |-> "new", trap |-> t, initialized |-> FALSE,
                      running |-> FALSE, exit |-> "D0"]
  BY DEF Init
<1>2. /\ prompts = 0 /\ tty = <<>> /\ wrote = <<>> /\ cuts = 0 /\ applied = 0
      /\ scanner = [state |-> "Ground", param |-> <<>>, out |-> <<>>]
      /\ stats = [commands |-> 0, last_exit |-> NoExit, running |-> FALSE]
  BY DEF Init
<1>3. \A S : <<>> \in Seq(S) /\ Len(<<>>) = 0
  OBVIOUS
<1>4. TypeOK
  <2>1. ShellTypes
    BY <1>1, <1>2, BoundsAssumption DEF ShellTypes, Exits
  <2>2. TtyTypes
    BY <1>2, <1>3, BoundsAssumption DEF TtyTypes
  <2>3. ScannerTypes
    BY <1>2, <1>3, MaxParamAssumption DEF ScannerTypes, Scanner
  <2>4. StatsTypes
    BY <1>2, <1>3 DEF StatsTypes
  <2> QED
    BY <2>1, <2>2, <2>3, <2>4, TypeParts
<1>5. Scanned
  <2>1. Labelled(<<>>, <<>>, wrote)
    BY <1>3 DEF Labelled
  <2>2. Returned(scanner.out, wrote, Len(wrote)) /\ scanner.state = "Ground"
    BY <1>2, <1>3 DEF Returned
  <2>3. Progress(tty, <<>>, wrote, scanner)
    BY <1>2, <2>1, <2>2 DEF Progress
  <2> QED
    BY <1>3, <2>3 DEF Scanned
<1>6. SnippetIsRight
  BY <1>1, <1>2, <1>3 DEF SnippetIsRight, LastExit
<1>7. StatsAreRight
  BY <1>2 DEF StatsAreRight, LastExit
<1> QED
  BY <1>4, <1>5, <1>6, <1>7 DEF IInv

\* The invariant holds: as long as no sequence is cut off, what is written and not
\* yet read is made of whole chunks, the scanner is where their first unit wants it,
\* and what it has returned are the markers begun before that unit.
THEOREM Invariance == Spec => []IInv
<1>1. IInv /\ [Next]_vars => IInv'
  <2> SUFFICES ASSUME IInv, [Next]_vars PROVE IInv'
    OBVIOUS
  <2>1. TypeOK /\ (cuts = 0 => Scanned) /\ SnippetIsRight /\ StatsAreRight
    BY DEF IInv
  <2>2. TypeOK'
    BY <2>1, NextTypes
  <2>3. ASSUME cuts' = 0 PROVE Scanned'
    <3>1. cuts' = cuts \/ cuts' = cuts + 1
      <4>1. CASE Program
        BY <4>1 DEF Program
      <4>2. CASE DrawPrompt
        BY <4>2 DEF DrawPrompt, Emit
      <4>3. CASE RunCommand
        BY <4>3 DEF RunCommand, Emit
      <4>4. CASE EndCommand \/ EmptyLine
        BY <4>4 DEF EndCommand, EmptyLine
      <4>5. CASE Read \/ Apply \/ UNCHANGED vars
        BY <4>5 DEF Read, Apply, vars
      <4> QED
        BY <4>1, <4>2, <4>3, <4>4, <4>5 DEF Next
    <3>2. cuts \in Nat
      BY <2>1 DEF TypeOK
    <3>3. cuts = 0
      BY <2>3, <3>2, <3>1
    <3> QED
      BY <2>1, <2>3, <3>3, NextScanned
  <2>4. SnippetIsRight'
    BY <2>1, NextSnippet
  <2>5. StatsAreRight'
    BY <2>1, NextStats
  <2> QED
    BY <2>2, <2>3, <2>4, <2>5 DEF IInv
<1> QED
  BY <1>1, InitIInv, PTL DEF Spec

\* The types hold: a parameter never grows past MAX_PARAM, nothing is written to a
\* PTY that is full, and the cockpit applies no marker that it was not sent.
THEOREM TypeCorrect == Spec => []TypeOK
<1>1. IInv => TypeOK
  BY DEF IInv
<1> QED
  BY <1>1, Invariance, PTL

\* As long as no program leaves a sequence that is cut off, the scanner returns the
\* markers of the shell in order, and none is lost: text, titles with either
\* terminator and an OSC 133 that is too long cost no marker.  What a cut-off
\* sequence costs is left to the run of MarkersArrive.
THEOREM MarkersGetThrough == Spec => []NoiseIsHarmless
<1>1. IInv => NoiseIsHarmless
  <2> SUFFICES ASSUME IInv, cuts = 0
               PROVE  /\ IsPrefix(scanner.out, wrote)
                      /\ tty = <<>> => scanner.out = wrote
    BY DEF NoiseIsHarmless
  <2>1. /\ tty \in Seq(Units) /\ wrote \in Seq(Markers) /\ scanner.out \in Seq(Markers)
        /\ Len(wrote) \in Nat
    BY DEF IInv, TypeOK
  <2>2. PICK lab \in Seq(Label) : Progress(tty, lab, wrote, scanner)
    BY DEF IInv, Scanned
  <2>3. PICK n \in 0..Len(wrote) : Returned(scanner.out, wrote, n) /\ (tty = <<>> => n = Len(wrote))
    <3>1. CASE tty = <<>>
      BY <2>1, <2>2, <3>1 DEF Progress
    <3>2. CASE tty # <<>>
      <4>1. 1 \in 1..Len(tty)
        BY <2>1, <3>2, EmptySeq
      <4>2. Weight(lab[1].chunk) \in {0, 1}
        BY DEF Weight
      <4>3. lab[1].nth \in Weight(lab[1].chunk)..Len(wrote)
        BY <2>2, <4>1 DEF Progress, Labelled, Fits
      <4>4. lab[1].nth - Weight(lab[1].chunk) \in 0..Len(wrote)
        BY <2>1, <4>2, <4>3
      <4> QED
        BY <2>2, <3>2, <4>4 DEF Progress
    <3> QED
      BY <3>1, <3>2
  <2>4. Len(scanner.out) = n /\ \A i \in 1..n : scanner.out[i] = wrote[i]
    BY <2>3 DEF Returned
  <2>5. IsPrefix(scanner.out, wrote)
    <3>1. PICK q \in Seq(Markers), w \in Seq(Markers) : q = scanner.out /\ w = wrote
      BY <2>1
    <3>2. n <= Len(w) /\ Len(q) = n /\ \A i \in 1..n : q[i] = w[i]
      BY <2>1, <2>4, <3>1
    <3>3. SubSeq(q, 1, n) \in Seq(Markers) /\ SubSeq(w, 1, n) \in Seq(Markers)
      BY <3>2
    <3>4. /\ Len(SubSeq(q, 1, n)) = n /\ Len(SubSeq(w, 1, n)) = n
          /\ \A i \in 1..n : SubSeq(q, 1, n)[i] = q[i] /\ SubSeq(w, 1, n)[i] = w[i]
      BY <3>2
    <3>5. SubSeq(q, 1, n) = SubSeq(w, 1, n)
      BY <3>2, <3>3, <3>4, SeqEqual
    <3> QED
      BY <3>1, <3>2, <3>5 DEF IsPrefix
  <2>6. tty = <<>> => scanner.out = wrote
    BY <2>1, <2>3, <2>4, SeqEqual
  <2> QED
    BY <2>5, <2>6
<1> QED
  BY <1>1, Invariance, PTL

\* The exit code shown at a prompt is that of the last command, if the scanner has
\* returned all markers; in a Bash with a DEBUG trap of its own none is ever shown.
THEOREM ExitCodeIsRight == Spec => []LastExitIsShown
<1>1. IInv => LastExitIsShown
  <2> SUFFICES ASSUME IInv, Settled, shell.stage = "prompt", prompts > 1, scanner.out = wrote
      PROVE  stats.last_exit = IF shell.trap THEN NoExit ELSE shell.exit
    BY DEF LastExitIsShown
  <2>1. /\ wrote \in Seq(Markers) /\ shell.exit \in Exits /\ applied = Len(wrote)
    BY DEF IInv, TypeOK, Settled
  <2>2. LastExit(wrote, Len(wrote), stats.last_exit)
    BY <2>1 DEF IInv, StatsAreRight
  <2>3. CASE ~shell.trap
    <3>1. LastExit(wrote, Len(wrote), shell.exit)
      BY <2>3 DEF IInv, SnippetIsRight
    <3> QED
      BY <2>1, <2>2, <2>3, <3>1, OneLast
  <2>4. CASE shell.trap
    <3>1. LastExit(wrote, Len(wrote), NoExit)
      BY <2>4 DEF IInv, SnippetIsRight
    <3>2. \A i \in 1..Len(wrote) : wrote[i] \notin Exits
      BY <3>1 DEF LastExit, NoExit, Exits
    <3> QED
      BY <2>2, <2>4, <3>2 DEF LastExit
  <2> QED
    BY <2>3, <2>4
<1> QED
  BY <1>1, Invariance, PTL
=============================================================================

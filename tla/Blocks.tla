------------------------------- MODULE Blocks -------------------------------
(***************************************************************************)
(* Command blocks: the shell-integration snippets write OSC 133 markers    *)
(* around prompts and commands (shellinit.rs), the scanner recognizes them *)
(* in what the reader thread of the PTY reads (pty.rs, osc.rs), and the    *)
(* cockpit keeps statistics of them (fleetterm main.rs).                   *)
(*                                                                         *)
(* A byte is kept as what the scanner tells apart; "133" and a marker's    *)
(* parameter are one unit each.  The scanner keeps all it knows between    *)
(* bytes, so the chunks that the thread reads do not matter, and a step    *)
(* here is one byte.  Markers travel on the event channel, of which        *)
(* EventStream says what it may lose.                                      *)
(***************************************************************************)
EXTENDS Integers, Sequences, SequencesExt

CONSTANTS
    Shells,       \* the shells that have a snippet: "bash", "zsh"
    MaxParam,     \* MAX_PARAM (32), in the units above
    MaxPrompts,   \* bound: the prompts of a behaviour
    MaxUnread,    \* what the PTY buffers before the shell blocks
    MaxNoise,     \* bound: and before anything else that writes does
    MaxCuts       \* bound: the sequences that are cut off

ASSUME ShellsAssumption == Shells \subseteq {"bash", "zsh"}
ASSUME MaxParamAssumption == MaxParam \in Nat \ {0}
ASSUME BoundsAssumption ==
    /\ MaxPrompts \in Nat /\ MaxUnread \in Nat /\ MaxNoise \in 0..MaxUnread
    /\ MaxCuts \in Nat

VARIABLES
    shell,     \* the shell and the variables of its snippet; `trap' says that a
               \* Bash had a DEBUG trap before, so that the snippet installs none
    prompts,   \* history: how many prompts were drawn
    tty,       \* what is written to the PTY and not yet read
    wrote,     \* history: the markers in what was written
    cuts,      \* history: how many sequences were written that were cut off
    scanner,   \* osc::Scanner, and in `out' the markers it has returned so far
    applied,   \* how many of them FleetTermApp::apply has had
    stats      \* BlockStats of the session

vars == <<shell, prompts, tty, wrote, cuts, scanner, applied, stats>>

Exits == {"D0", "D1"}
Markers == {"A", "B", "C"} \cup Exits
Units == Markers \cup {"ESC", "]", "\\", "BEL", "133", "x"}

NoExit == "none"

\* What the variables hold; the parameter of a marker stays within its limit.
TypeOK ==
    /\ shell \in [kind : Shells, stage : {"new", "prompt", "command", "ended"},
                 trap : BOOLEAN, initialized : BOOLEAN, running : BOOLEAN, exit : Exits]
    /\ prompts \in 0..MaxPrompts
    /\ tty \in Seq(Units) /\ Len(tty) <= MaxUnread
    /\ wrote \in Seq(Markers) /\ cuts \in 0..MaxCuts
    /\ scanner \in [state : {"Ground", "Esc", "OscPreamble", "Param", "ParamEsc",
                             "OscSkip", "OscSkipEsc"},
                    param : Seq(Units), out : Seq(Markers)]
    /\ Len(scanner.param) <= MaxParam
    /\ applied \in 0..Len(scanner.out)
    /\ stats \in [commands : Nat, last_exit : Exits \cup {NoExit}, running : BOOLEAN]

Init ==
    /\ \E k \in Shells, t \in BOOLEAN :
          /\ t => k = "bash"
          /\ shell = [kind |-> k, stage |-> "new", trap |-> t, initialized |-> FALSE,
                      running |-> FALSE, exit |-> "D0"]
    /\ prompts = 0 /\ tty = <<>> /\ wrote = <<>> /\ cuts = 0
    /\ scanner = [state |-> "Ground", param |-> <<>>, out |-> <<>>]
    /\ applied = 0
    /\ stats = [commands |-> 0, last_exit |-> NoExit, running |-> FALSE]

-----------------------------------------------------------------------------
\* The shell

When(condition, markers) == IF condition THEN markers ELSE <<>>

\* _ft_osc
Osc133(m) == <<"ESC", "]", "133", m, "BEL">>

\* The markers one after the other, five units each.
Bytes(markers) ==
    [i \in 1..5 * Len(markers) |-> Osc133(markers[1 + ((i - 1) \div 5)])[1 + ((i - 1) % 5)]]

\* Markers are written to the PTY, if there is room.
Emit(markers) ==
    /\ Len(tty) + Len(Bytes(markers)) <= MaxUnread
    /\ tty' = tty \o Bytes(markers)
    /\ wrote' = wrote \o markers
    /\ UNCHANGED cuts

\* The DEBUG trap, if it is the snippet's, sets _ft_cmd_running; nothing else does.
Traps == shell.kind = "bash" /\ ~shell.trap

\* Bash, PROMPT_COMMAND="_ft_precmd; _ft_osc B".  The DEBUG trap, which writes C
\* when no command seems to run, precedes both: the first time it finds the flag
\* set (or nothing initialized), the second time _ft_precmd has just reset it.
\* Without the trap the flag stays 0: there is neither a C nor a D, ever.
BashPrompt == When(shell.initialized /\ shell.running, <<shell.exit>>)
              \o IF Traps THEN <<"A", "C", "B">> ELSE <<"A", "B">>

\* Faulty variant: the exit code is read after a command of the hook itself.
ZshPromptLate == When(shell.initialized, <<"D0">>) \o <<"A", "B">>

\* Zsh, the precmd hook.
ZshPrompt == When(shell.initialized, <<shell.exit>>) \o <<"A", "B">>

DrawPrompt ==
    /\ shell.stage \in {"new", "ended"} /\ prompts < MaxPrompts
    /\ prompts' = prompts + 1
    /\ Emit(IF shell.kind = "bash" THEN BashPrompt ELSE ZshPrompt)
    /\ shell' = [shell EXCEPT !.stage = "prompt", !.initialized = TRUE, !.running = Traps]
    /\ UNCHANGED <<scanner, applied, stats>>

\* The human enters a command: DEBUG trap or preexec hook.
RunCommand ==
    /\ shell.stage = "prompt"
    /\ Emit(When(shell.kind = "zsh" \/ (Traps /\ shell.initialized /\ ~shell.running), <<"C">>))
    /\ shell' = [shell EXCEPT !.stage = "command", !.running = Traps]
    /\ UNCHANGED <<prompts, scanner, applied, stats>>

EndCommand ==
    /\ shell.stage = "command"
    /\ \E exit \in Exits : shell' = [shell EXCEPT !.stage = "ended", !.exit = exit]
    /\ UNCHANGED <<prompts, tty, wrote, cuts, scanner, applied, stats>>

\* Enter on an empty line: the prompt hooks run again, $? is what it was.
EmptyLine ==
    /\ shell.stage = "prompt"
    /\ shell' = [shell EXCEPT !.stage = "ended"]
    /\ UNCHANGED <<prompts, tty, wrote, cuts, scanner, applied, stats>>

\* What else is written: text, colours, titles (either terminator), an OSC 133
\* of somebody else with a longer parameter.
Noise == {<<"x">>, <<"ESC", "x">>, <<"ESC", "]", "x", "x", "BEL">>,
          <<"ESC", "]", "x", "x", "ESC", "\\">>,
          <<"ESC", "]", "133", "A", "x", "x", "x", "BEL">>}

\* What a program leaves that is stopped in the middle of a sequence: nothing ends it.
CutOff == {<<"ESC">>, <<"ESC", "]">>, <<"ESC", "]", "x">>, <<"ESC", "]", "133", "x">>}

Program ==
    /\ \E bytes \in Noise \cup CutOff :
          /\ Len(tty) + Len(bytes) <= MaxNoise
          /\ tty' = tty \o bytes
          /\ cuts' = IF bytes \in CutOff THEN cuts + 1 ELSE cuts
    /\ cuts' <= MaxCuts
    /\ UNCHANGED <<shell, prompts, wrote, scanner, applied, stats>>

-----------------------------------------------------------------------------
\* The scanner

\* emit_marker: a parameter that is no marker is dropped.
EmitMarker(sc) ==
    [state |-> "Ground", param |-> <<>>,
     out |-> IF Len(sc.param) = 1 /\ sc.param[1] \in Markers
             THEN sc.out \o sc.param ELSE sc.out]

Goto(sc, state) == [sc EXCEPT !.state = state]
Discard(sc) == [sc EXCEPT !.state = "Ground", !.param = <<>>]

\* Faulty variant: no limit.
CollectAll(sc, b) == [sc EXCEPT !.param = Append(@, b)]

\* A byte of a parameter, which may get too long.
Collect(sc, b) ==
    IF Len(sc.param) = MaxParam THEN Discard(sc) ELSE [sc EXCEPT !.param = Append(@, b)]

\* Faulty variant: ESC ends the OSC that is skipped, its backslash is text.
AfterSkipEscLost(sc, b) == IF b = "ESC" THEN sc ELSE Goto(sc, "OscSkip")

\* The byte after an ESC in an OSC that is skipped.
AfterSkipEsc(sc, b) == CASE b = "\\" -> Goto(sc, "Ground")
                         [] b = "ESC" -> sc
                         [] OTHER -> Goto(sc, "OscSkip")

\* Scanner::feed
Feed(sc, b) ==
    CASE sc.state = "Ground" -> IF b = "ESC" THEN Goto(sc, "Esc") ELSE sc
      [] sc.state = "Esc" ->
           (CASE b = "]" -> [sc EXCEPT !.state = "OscPreamble", !.param = <<>>]
              [] b = "ESC" -> sc
              [] OTHER -> Goto(sc, "Ground"))
      [] sc.state = "OscPreamble" ->
           (CASE b = "BEL" -> Goto(sc, "Ground")
              [] b = "ESC" -> Goto(sc, "OscSkipEsc")
              [] b = "133" -> [sc EXCEPT !.state = "Param", !.param = <<>>]
              [] OTHER -> Goto(sc, "OscSkip"))
      [] sc.state = "Param" ->
           (CASE b = "BEL" -> EmitMarker(sc)
              [] b = "ESC" -> Goto(sc, "ParamEsc")
              [] OTHER -> Collect(sc, b))
      [] sc.state = "ParamEsc" ->
           (CASE b \in {"\\", "BEL"} -> EmitMarker(sc)
              [] b = "ESC" -> sc
              [] OTHER -> Discard(sc))
      [] sc.state = "OscSkip" ->
           (CASE b = "BEL" -> Goto(sc, "Ground")
              [] b = "ESC" -> Goto(sc, "OscSkipEsc")
              [] OTHER -> sc)
      [] sc.state = "OscSkipEsc" -> AfterSkipEsc(sc, b)

\* The reader thread reads a byte and scans it.
Read ==
    /\ tty # <<>>
    /\ tty' = Tail(tty)
    /\ scanner' = Feed(scanner, Head(tty))
    /\ UNCHANGED <<shell, prompts, wrote, cuts, applied, stats>>

-----------------------------------------------------------------------------
\* The cockpit

\* Event::Block
Apply ==
    LET m == scanner.out[applied + 1]
    IN  /\ applied < Len(scanner.out)
        /\ applied' = applied + 1
        /\ stats' = CASE m = "B" -> [stats EXCEPT !.commands = @ + 1, !.running = TRUE]
                      [] m = "C" -> [stats EXCEPT !.running = TRUE]
                      [] m \in Exits -> [stats EXCEPT !.running = FALSE, !.last_exit = m]
                      [] OTHER -> stats
        /\ UNCHANGED <<shell, prompts, tty, wrote, cuts, scanner>>

-----------------------------------------------------------------------------
Next == \/ DrawPrompt \/ RunCommand \/ EndCommand \/ EmptyLine \/ Program
        \/ Read \/ Apply

Spec == Init /\ [][Next]_vars

-----------------------------------------------------------------------------
(***************************************************************************)
(* Properties                                                              *)
(***************************************************************************)

\* All that was written has been read and applied.
Settled == tty = <<>> /\ applied = Len(scanner.out)

\* How many of the markers q come, in their order, in w.
Found(q, w) ==
    FoldLeft(LAMBDA n, m : IF n < Len(q) /\ q[n + 1] = m THEN n + 1 ELSE n, 0, w)

\* Text and whole sequences cost no marker: as long as no sequence was cut off, the
\* scanner returns those that the shell wrote, and once all is read it has them all.
NoiseIsHarmless ==
    cuts = 0 => /\ IsPrefix(scanner.out, wrote)
                /\ tty = <<>> => scanner.out = wrote

\* Whatever else is written in between, cut off or not, the scanner returns only
\* markers that the shell wrote, in their order.  A sequence that is cut off swallows
\* one marker at most (OscSkip and ParamEsc end with it): the scanner always recovers.
MarkersArrive ==
    /\ NoiseIsHarmless
    /\ Found(scanner.out, wrote) = Len(scanner.out)
    /\ tty = <<>> => Len(wrote) - Len(scanner.out) <= cuts

\* At a prompt the cockpit shows the exit code of the command that ran last, with
\* empty lines and commands of any shell that has a snippet, if no marker was
\* swallowed.  With a DEBUG trap of the user's own it never shows one, though the
\* snippet's comment promises C and D for Bash.
LastExitIsShown ==
    Settled /\ shell.stage = "prompt" /\ prompts > 1 /\ scanner.out = wrote
        => stats.last_exit = IF shell.trap THEN NoExit ELSE shell.exit
=============================================================================

-------------------------------- MODULE Panes --------------------------------
(***************************************************************************)
(* How large a terminal is: the pane of a cockpit, as render computes it   *)
(* from window and view mode (fleetterm main.rs), against the size of the  *)
(* PTY and the size of the VT grid, which PtySession::resize sets one      *)
(* after the other while the reader thread parses what the child paints    *)
(* (pty.rs).  Requests of a cockpit arrive in order.                       *)
(*                                                                         *)
(* Sizes are <<columns, rows>>.  A screen is the size it was painted for   *)
(* and the size of the grid it was parsed into.  Where focus comes from is *)
(* Cockpit's matter: here it moves freely.                                 *)
(***************************************************************************)
EXTENDS Integers, Sequences

CONSTANTS
    Sessions,
    Cockpits,
    None,        \* no session, no request, no cockpit
    Windows,     \* what a window has room for, in cells, title and bars taken off
    DefaultSize, \* DEFAULT_COLS, DEFAULT_ROWS
    SidebarCols, \* the 321 pixels of the sidebar, in columns
    MaxActs      \* bound: what humans, programs and event streams do

ASSUME NoneAssumption == /\ None \notin Sessions \cup Cockpits
                         /\ None \notin [session : Sessions, size : Int \X Int]
ASSUME SizeAssumption == /\ Windows \subseteq Int \X Int
                         /\ DefaultSize \in Int \X Int
                         /\ SidebarCols \in Nat
ASSUME MaxActsAssumption == MaxActs \in Nat

VARIABLES
    life,     \* no child yet, a child without an entry in ptys, one with, closed
    size,     \* the size of the PTY, which the child can ask for
    grid,     \* the size of the VT grid
    winch,    \* the child has a SIGWINCH, or its first screen, to act on
    painted,  \* what the child has written and the reader has not read
    screen,   \* what the grid holds: for which size, parsed in which
    window, mode, focused,  \* of a cockpit: window, view_mode, focused
    sent,     \* last_sent_size
    requests, \* Request::Resize, under way to the daemon
    halfway,  \* the resize a connection has done the first half of
    sizedBy,  \* history: whose request set the PTY's size last
    dropped,  \* history: sessions whose last request of a cockpit found no PTY
    crossed,  \* history: the last resize began while another was halfway
    early,    \* history: the last screen was parsed in the middle of a resize
    acts      \* how many of the MaxActs were done

ptyVars == <<life, size, grid, winch, painted, screen>>
paneVars == <<window, mode, focused, sent>>
history == <<sizedBy, dropped, crossed, early>>
vars == <<ptyVars, paneVars, requests, halfway, history, acts>>

Size == Int \X Int

\* No cockpit asks for less than 20 columns and 6 rows, however small its window.
PaneSize == {z \in Size : z[1] >= 20 /\ z[2] >= 6}

Resize == [session : Sessions, size : PaneSize]

\* What the variables hold.
TypeOK ==
    /\ life \in [Sessions -> {"none", "child", "entry", "closed"}]
    /\ size \in [Sessions -> Size] /\ grid \in [Sessions -> Size]
    /\ winch \in [Sessions -> BOOLEAN]
    /\ painted \in [Sessions -> Seq(Size)]
    /\ screen \in [Sessions -> [for : Size, in : Size]]
    /\ window \in [Cockpits -> Windows]
    /\ mode \in [Cockpits -> {"Split", "Tiled", "Focus"}]
    /\ focused \in [Cockpits -> Sessions \cup {None}]
    /\ sent \in [Cockpits -> Resize \cup {None}]
    /\ requests \in [Cockpits -> Seq(Resize)]
    /\ halfway \in [Cockpits -> Resize \cup {None}]
    /\ sizedBy \in [Sessions -> Cockpits \cup {None}]
    /\ dropped \in [Cockpits -> SUBSET Sessions]
    /\ crossed \in [Sessions -> BOOLEAN] /\ early \in [Sessions -> BOOLEAN]
    /\ acts \in 0..MaxActs

Init ==
    /\ life = [s \in Sessions |-> "none"]
    /\ size = [s \in Sessions |-> DefaultSize]
    /\ grid = [s \in Sessions |-> DefaultSize]
    /\ winch = [s \in Sessions |-> FALSE]
    /\ painted = [s \in Sessions |-> <<>>]
    /\ screen = [s \in Sessions |-> [for |-> DefaultSize, in |-> DefaultSize]]
    /\ window \in [Cockpits -> Windows]
    /\ mode = [c \in Cockpits |-> "Split"]
    /\ focused = [c \in Cockpits |-> None]
    /\ sent = [c \in Cockpits |-> None]
    /\ requests = [c \in Cockpits |-> <<>>]
    /\ halfway = [c \in Cockpits |-> None]
    /\ sizedBy = [s \in Sessions |-> None]
    /\ dropped = [c \in Cockpits |-> {}]
    /\ crossed = [s \in Sessions |-> FALSE] /\ early = [s \in Sessions |-> FALSE]
    /\ acts = 0

Act == acts < MaxActs /\ acts' = acts + 1

-----------------------------------------------------------------------------
\* Sessions

\* PtySession::spawn: PTY and grid have the default size.
Start(s) ==
    /\ life[s] = "none"
    /\ life' = [life EXCEPT ![s] = "child"]
    /\ winch' = [winch EXCEPT ![s] = TRUE]
    /\ UNCHANGED <<size, grid, painted, screen, paneVars, requests, halfway, history, acts>>

\* Daemon::spawn puts the entry in ptys: requests find the session from now on.
AddPty(s) ==
    /\ life[s] = "child"
    /\ life' = [life EXCEPT ![s] = "entry"]
    /\ UNCHANGED <<size, grid, winch, painted, screen, paneVars, requests, halfway, history, acts>>

\* Daemon::close takes it out.
Close(s) ==
    /\ Act /\ life[s] = "entry"
    /\ life' = [life EXCEPT ![s] = "closed"]
    /\ UNCHANGED <<size, grid, winch, painted, screen, paneVars, requests, halfway, history>>

\* A full-screen program paints anew for the size that it asks the PTY for.
Paint(s) ==
    /\ winch[s]
    /\ winch' = [winch EXCEPT ![s] = FALSE]
    /\ painted' = [painted EXCEPT ![s] = Append(@, size[s])]
    /\ UNCHANGED <<life, size, grid, screen, paneVars, requests, halfway, history, acts>>

Halfway(s) == \E c \in Cockpits : halfway[c] # None /\ halfway[c].session = s

\* The reader thread parses what was painted, under the lock of the grid.
Parse(s) ==
    /\ painted[s] # <<>>
    /\ screen' = [screen EXCEPT ![s] = [for |-> Head(painted[s]), in |-> grid[s]]]
    /\ painted' = [painted EXCEPT ![s] = Tail(@)]
    /\ early' = [early EXCEPT ![s] = Halfway(s) \/ crossed[s]]
    /\ UNCHANGED <<life, size, grid, winch, paneVars, requests, halfway>>
    /\ UNCHANGED <<sizedBy, dropped, crossed, acts>>

-----------------------------------------------------------------------------
\* The cockpit

\* A human drags the window's edge, or clicks a view-mode chip.
Drag(c, w) ==
    /\ Act /\ w # window[c]
    /\ window' = [window EXCEPT ![c] = w]
    /\ UNCHANGED <<ptyVars, mode, focused, sent, requests, halfway, history>>

ClickChip(c, m) ==
    /\ Act /\ m # mode[c]
    /\ mode' = [mode EXCEPT ![c] = m]
    /\ UNCHANGED <<ptyVars, window, focused, sent, requests, halfway, history>>

\* Clicks, grids and removals move the focus between sessions that were listed;
\* Output takes it to one that is not yet, if nothing has the focus.
MoveFocus(c, s) ==
    /\ Act /\ s # focused[c]
    /\ life[s] # "none" /\ (life[s] = "child" => focused[c] = None)
    /\ focused' = [focused EXCEPT ![c] = s]
    /\ UNCHANGED <<ptyVars, window, mode, sent, requests, halfway, history>>

AtLeast(least, n) == IF n < least THEN least ELSE n

\* Faulty variant: what there is room for.
PaneUnclamped(c) == <<window[c][1] - (IF mode[c] = "Split" THEN SidebarCols ELSE 0),
                      window[c][2]>>

\* The size of the pane; the conversion to u16 makes a negative width 0.
Pane(c) == <<AtLeast(20, window[c][1] - (IF mode[c] = "Split" THEN SidebarCols ELSE 0)),
             AtLeast(6, window[c][2])>>

\* Faulty variant: the size is compared, not the session.
NeedsSendBySize(c) ==
    /\ mode[c] # "Tiled" /\ focused[c] # None
    /\ sent[c] # None => sent[c].size # Pane(c)

\* Tiled has no single pane and sends nothing.
NeedsSend(c) ==
    /\ mode[c] # "Tiled" /\ focused[c] # None
    /\ sent[c] # [session |-> focused[c], size |-> Pane(c)]

\* A frame is drawn and sends what has changed since the last Resize.
Render(c) ==
    /\ NeedsSend(c)
    /\ sent' = [sent EXCEPT ![c] = [session |-> focused[c], size |-> Pane(c)]]
    /\ requests' = [requests EXCEPT ![c] = Append(@, sent'[c])]
    /\ UNCHANGED <<ptyVars, window, mode, focused, halfway, history, acts>>

-----------------------------------------------------------------------------
\* Daemon::resize, in the task of the cockpit's connection

\* The session has no entry: the request is forgotten.
Drop(c) ==
    /\ halfway[c] = None /\ requests[c] # <<>>
    /\ life[Head(requests[c]).session] # "entry"
    /\ dropped' = [dropped EXCEPT ![c] = @ \cup {Head(requests[c]).session}]
    /\ requests' = [requests EXCEPT ![c] = Tail(@)]
    /\ UNCHANGED <<ptyVars, paneVars, halfway, sizedBy, crossed, early, acts>>

\* The PTY gets its size; the kernel signals the child if that is another one.
ResizePty(c) ==
    /\ halfway[c] = None /\ requests[c] # <<>>
    /\ LET r == Head(requests[c])
           s == r.session
       IN  /\ life[s] = "entry"
           /\ size' = [size EXCEPT ![s] = r.size]
           /\ winch' = [winch EXCEPT ![s] = @ \/ size[s] # r.size]
           /\ halfway' = [halfway EXCEPT ![c] = r]
           /\ sizedBy' = [sizedBy EXCEPT ![s] = c]
           /\ dropped' = [dropped EXCEPT ![c] = @ \ {s}]
           /\ crossed' = [crossed EXCEPT ![s] = Halfway(s)]
    /\ requests' = [requests EXCEPT ![c] = Tail(@)]
    /\ UNCHANGED <<life, grid, painted, screen, paneVars, early, acts>>

\* Faulty variant: the dims a session was made with (PtySession::dims) are used.
ResizeGridToDims(c) ==
    /\ halfway[c] # None
    /\ grid' = [grid EXCEPT ![halfway[c].session] = DefaultSize]
    /\ halfway' = [halfway EXCEPT ![c] = None]
    /\ UNCHANGED <<life, size, winch, painted, screen, paneVars, requests, history, acts>>

\* The grid gets its size, under the lock of the grid alone.
ResizeGrid(c) ==
    /\ halfway[c] # None
    /\ grid' = [grid EXCEPT ![halfway[c].session] = halfway[c].size]
    /\ halfway' = [halfway EXCEPT ![c] = None]
    /\ UNCHANGED <<life, size, winch, painted, screen, paneVars, requests, history, acts>>

-----------------------------------------------------------------------------
Serve(c) == Drop(c) \/ ResizePty(c) \/ ResizeGrid(c)

Next ==
    \/ \E s \in Sessions : Start(s) \/ AddPty(s) \/ Close(s) \/ Paint(s) \/ Parse(s)
    \/ \E c \in Cockpits :
          \/ \E w \in Windows : Drag(c, w)
          \/ \E m \in {"Split", "Tiled", "Focus"} : ClickChip(c, m)
          \/ \E s \in Sessions : MoveFocus(c, s)
          \/ Render(c) \/ Serve(c)

Spec == Init /\ [][Next]_vars

-----------------------------------------------------------------------------
(***************************************************************************)
(* Properties                                                              *)
(***************************************************************************)

\* When the child has painted for the last size and the reader has read it, the
\* screen is one for the grid's size that was parsed in a grid of that size,
\* unless the reader parsed it before the second half of the resize, or after two
\* resizes had crossed.
ScreenFitsGrid ==
    \A s \in Sessions :
        life[s] # "none" /\ ~winch[s] /\ painted[s] = <<>> /\ ~Halfway(s) =>
            screen[s] = [for |-> grid[s], in |-> grid[s]] \/ early[s]

\* What excuses a pane from showing a terminal of another size.
Excused(c) ==
    \/ mode[c] = "Tiled" \/ focused[c] = None
    \/ life[focused[c]] # "entry"
    \/ focused[c] \in dropped[c]
    \/ sizedBy[focused[c]] \notin {c, None}

\* Once a cockpit's requests are served, the terminal it shows has the size of its
\* pane.  Not so if the request came before the PTY entry: last_sent_size holds
\* that it was sent (main.rs:728), so it is not sent again; nor if another cockpit
\* has sized the terminal since.
PaneFits ==
    \A c \in Cockpits :
        ~NeedsSend(c) /\ requests[c] = <<>> /\ halfway[c] = None =>
            Excused(c) \/ size[focused[c]] = Pane(c)
=============================================================================

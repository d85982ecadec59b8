---------------------------- MODULE DecisionGate ----------------------------
(***************************************************************************)
(* What the governance loop promises about tool calls, whatever the tasks  *)
(* of the daemon do in between: every call is answered once, a catastrophic *)
(* command is never answered "allow" before it has waited for a human, and *)
(* a session has one call waiting at a time, which one answer of a human or *)
(* a newer call of the same session ends.                                  *)
(***************************************************************************)
EXTENDS Safety

CONSTANTS Sessions, Hooks, Commands, NoHook

VARIABLES
    status,   \* "new", "waiting", "allowed" or "denied"
    subject,  \* the session and command of the call, once it is known
    holder    \* the call that waits in a session's slot

gateVars == <<status, subject, holder>>

GateInit ==
    /\ status = [h \in Hooks |-> "new"]
    /\ subject = [h \in Hooks |-> <<>>]
    /\ holder = [s \in Sessions |-> NoHook]

\* A call arrives: what it is about is fixed from here on.
Propose(h) ==
    /\ subject[h] = <<>>
    /\ \E s \in Sessions, c \in Commands : subject' = [subject EXCEPT ![h] = <<s, c>>]
    /\ UNCHANGED <<status, holder>>

\* Policy alone lets a call run.
Pass(h) ==
    /\ status[h] = "new" /\ subject[h] # <<>>
    /\ ~subject[h][2].destructive
    /\ status' = [status EXCEPT ![h] = "allowed"]
    /\ UNCHANGED <<subject, holder>>

\* A call takes the slot of its session; the call it finds there is denied.
Hold(h) ==
    /\ status[h] = "new" /\ subject[h] # <<>>
    /\ LET s == subject[h][1]
       IN  /\ holder' = [holder EXCEPT ![s] = h]
           /\ status' = [g \in Hooks |-> IF g = h THEN "waiting"
                                         ELSE IF g = holder[s] THEN "denied"
                                         ELSE status[g]]
    /\ UNCHANGED subject

\* A human answers the call in the slot of s.
Answer(s) ==
    /\ holder[s] # NoHook
    /\ \E a \in {"allowed", "denied"} : status' = [status EXCEPT ![holder[s]] = a]
    /\ holder' = [holder EXCEPT ![s] = NoHook]
    /\ UNCHANGED subject

GateNext == \/ \E h \in Hooks : Propose(h) \/ Pass(h) \/ Hold(h)
            \/ \E s \in Sessions : Answer(s)

GateSpec == GateInit /\ [][GateNext]_gateVars
=============================================================================

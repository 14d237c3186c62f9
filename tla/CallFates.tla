------------------------------ MODULE CallFates ------------------------------
(***************************************************************************)
(* What the callers of one connection are promised, with no inbox, queue,  *)
(* window, ledger or authority: what each can be told, and what that says  *)
(* of its line (Outcome, Sent and Farewell; cena-session: command/         *)
(* verdict.rs, command/farewell.rs).                                       *)
(*                                                                         *)
(* A call is made once and told once.  Its line goes out at most once, and *)
(* only while its caller waits.  Who is told that it was refused, taken    *)
(* back, handled here or not sent had no line go out; who is told of an    *)
(* answer, or by the connection of none in time, had.  "Disconnected" and  *)
(* "Dead" say nothing of it, and a caller that stops waiting at its own    *)
(* deadline, or gives up, knows nothing of it ("gone").                    *)
(***************************************************************************)
EXTENDS Sequences

CONSTANTS
    Commands,  \* round trips
    Instants,  \* lines sent at once
    Quits      \* calls that end the connection

VARIABLES
    fate,  \* of each call: "idle", "waiting", "sent" or "leaving", or what it was told
    wire   \* lines gone out that the game has yet to answer

vars == <<fate, wire>>

Calls == Commands \cup Instants \cup Quits

Unsettled == {"waiting", "sent", "leaving"}

(* All that can be known of a call.                                        *)
Known == Unsettled \cup
    {"idle", "gone", "Confirmed", "Answered", "Timeout", "Refused", "Handled", "Sent",
     "Interrupted", "Disconnected", "Dead", "Acknowledged", "TimedOut", "Unsent"}

(* What a call that was not sent can be told.                              *)
WithoutSending(l) ==
    IF l \in Quits THEN {"Unsent"}
    ELSE IF l \in Instants THEN {"Refused", "Interrupted", "Dead"}
    ELSE {"Refused", "Interrupted", "Handled", "Disconnected", "Dead"}

Init ==
    /\ fate = [l \in Calls |-> "idle"]
    /\ wire = <<>>

Make(l) ==
    /\ fate[l] = "idle"
    /\ fate' = [fate EXCEPT ![l] = "waiting"]
    /\ UNCHANGED wire

(* No room for it.                                                         *)
RefuseAtOnce(l) ==
    /\ fate[l] = "idle" /\ l \notin Quits
    /\ fate' = [fate EXCEPT ![l] = "Refused"]
    /\ UNCHANGED wire

(* The caller stops waiting.                                               *)
Withdraw(l) ==
    /\ fate[l] \in Unsettled
    /\ fate' = [fate EXCEPT ![l] = "gone"]
    /\ UNCHANGED wire

(* Some calls that were not sent are told so.                              *)
ToldUnsent(f, g) ==
    \A l \in Calls : \/ g[l] = f[l]
                     \/ /\ f[l] = "waiting"
                        /\ g[l] \in WithoutSending(l)

TurnAway ==
    /\ UNCHANGED wire
    /\ ToldUnsent(fate, fate')
    /\ fate' \in [Calls -> Known]

(* One round trip at a time.                                               *)
SendCommand(c) ==
    /\ fate[c] = "waiting"
    /\ \A l \in Commands : fate[l] # "sent"
    /\ fate' = [fate EXCEPT ![c] = "sent"]
    /\ wire' = Append(wire, c)

SendInstant(i) ==
    /\ fate[i] = "waiting"
    /\ fate' = [fate EXCEPT ![i] = "Sent"]
    /\ wire' = Append(wire, i)

(* The exit command is out: a quit waits for the end.                      *)
Leave(q) ==
    /\ fate[q] = "waiting"
    /\ fate' = [fate EXCEPT ![q] = "leaving"]
    /\ UNCHANGED wire

(* The game has answered the oldest line.                                  *)
Hear == wire # <<>> /\ wire' = Tail(wire)

(* A round trip is decided by an answer, by its prompt, or by time.        *)
Decide(c) ==
    /\ fate[c] = "sent"
    /\ \E v \in {"Confirmed", "Answered", "Timeout"} : fate' = [fate EXCEPT ![c] = v]
    /\ Hear \/ UNCHANGED wire

(* The connection ends: the round trip that is out and all who leave are   *)
(* told of it, and any who wait may be.                                    *)
ToldOfTheEnd(f, g, outcome, farewell) ==
    \A l \in Calls :
        g[l] \in IF f[l] = "sent" THEN {outcome}
                ELSE IF f[l] = "leaving" THEN {farewell}
                ELSE IF f[l] = "waiting" THEN {"waiting"} \cup WithoutSending(l)
                ELSE {f[l]}

End ==
    /\ UNCHANGED wire
    /\ \E outcome \in {"Disconnected", "Dead"}, farewell \in {"Acknowledged", "TimedOut"} :
           ToldOfTheEnd(fate, fate', outcome, farewell)
    /\ fate' \in [Calls -> Known]

Next ==
    \/ TurnAway
    \/ \E l \in Calls : Make(l) \/ RefuseAtOnce(l) \/ Withdraw(l)
    \/ \E c \in Commands : SendCommand(c) \/ Decide(c)
    \/ \E i \in Instants : SendInstant(i)
    \/ \E q \in Quits : Leave(q)
    \/ Hear /\ UNCHANGED fate
    \/ End

Spec == Init /\ [][Next]_vars
=============================================================================

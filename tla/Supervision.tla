----------------------------- MODULE Supervision -----------------------------
(***************************************************************************)
(* A session's life across its connections (cena-session: supervisor.rs,   *)
(* supervisor/core.rs, supervisor/observation.rs, lifecycle.rs,            *)
(* command/attendance.rs): log in, run one connection's actor, decide      *)
(* whether its loss is worth another login, wait, and log in again.        *)
(*                                                                         *)
(* The inbox and the generation outlive a connection; the actor's queue    *)
(* does not.  A caller reads the generation and sends its line in two      *)
(* steps, and a connection may be lost between them.                       *)
(***************************************************************************)
EXTENDS Naturals, Sequences

CONSTANTS
    Lines,          \* lines sent through a handle, each once
    Typed,          \* those a person types (`send_manual_at`)
    Exits,          \* typed lines whose text is the exit command
    Quits,          \* calls of `SessionHandle::quit`
    PagesAttend,    \* the player lets an open page count as a person
    MaxUnattended,  \* MAX_UNATTENDED_LOSSES
    Rungs,          \* rungs of the retry ladder
    MaxGeneration   \* bound: later connection attempts fail

Calls == Lines \cup Quits

ASSUME ConstantsAssumption ==
    /\ Exits \subseteq Typed /\ Typed \subseteq Lines
    /\ Quits \cap Lines = {}
    /\ PagesAttend \in BOOLEAN
    /\ MaxUnattended \in Nat \ {0}
    /\ Rungs \in Nat \ {0}
    /\ MaxGeneration \in Nat \ {0}

VARIABLES
    phase,       \* the supervisor: "dial", "live", "ended", "wait" or "stopped"
    because,     \* why it stopped
    lifecycle,   \* what observers are told
    generation,  \* the GenerationCell
    cancelled,   \* the session's cancel token
    inbox,       \* messages nobody has read
    queued,      \* lines this connection's actor has admitted and not written
    quitting,    \* the exit command has been written on this connection
    attempt,     \* rung of the ladder
    unattended,  \* consecutive unattended losses
    marked,      \* a person has done something since the last loss was counted
    page,        \* a page shows the session
    warned,      \* the server warned of idling, and nothing has been sent since
    received,    \* this connection has received something
    lived,       \* how long it has been up
    stamp,       \* the generation each line's caller read
    call,        \* what each caller knows
    sentOn,      \* the generation each line was written on, or 0 (history)
    askedOf,     \* the connection up when each quit or exit was sent, or 0 (history)
    counted,     \* typed lines sent before the last loss was counted (history)
    absent,      \* losses in a row with nobody there (history)
    waits        \* retry waits since a connection last stayed up (history)

loop == <<phase, because, lifecycle, generation, cancelled>>
actor == <<queued, quitting, received, lived>>
bounds == <<attempt, unattended, marked, page, warned>>
callers == <<stamp, call, sentOn, askedOf>>
history == <<counted, absent, waits>>
vars == <<loop, inbox, actor, bounds, callers, history>>

Reasons == {"running", "Cancelled", "Fatal", "Unattended"}
Lifecycles == {"Connecting", "Syncing", "Ready", "Reconnecting", "Closed"}
Known == {"idle", "stamped", "waiting", "Sent", "Refused", "Disconnected", "Dead",
          "Acknowledged", "TimedOut", "Unsent"}
Generations == 1..(MaxGeneration + 1)

TypeOK ==
    /\ phase \in {"dial", "live", "ended", "wait", "stopped"}
    /\ because \in Reasons
    /\ lifecycle \in Lifecycles
    /\ generation \in Generations
    /\ inbox \in Seq(Calls)
    /\ queued \subseteq Lines
    /\ attempt \in 0..Rungs
    /\ unattended \in 0..MaxUnattended
    /\ {cancelled, quitting, marked, page, warned, received} \subseteq BOOLEAN
    /\ lived \in {"brief", "stable", "long"}
    /\ stamp \in [Lines -> {0} \cup Generations]
    /\ call \in [Calls -> Known]
    /\ sentOn \in [Lines -> {0} \cup Generations]
    /\ askedOf \in [Quits \cup Exits -> {0} \cup Generations]
    /\ counted \subseteq Typed
    /\ absent \in 0..MaxUnattended
    /\ waits \in 0..Rungs

Init ==
    /\ phase = "dial" /\ because = "running" /\ lifecycle = "Connecting"
    /\ generation = 1 /\ cancelled = FALSE
    /\ inbox = <<>> /\ queued = {} /\ quitting = FALSE
    /\ received = FALSE /\ lived = "brief"
    /\ attempt = 0 /\ unattended = 0
    /\ marked = FALSE /\ page = FALSE /\ warned = FALSE
    /\ stamp = [l \in Lines |-> 0]
    /\ call = [c \in Calls |-> "idle"]
    /\ sentOn = [l \in Lines |-> 0]
    /\ askedOf = [c \in Quits \cup Exits |-> 0]
    /\ counted = {} /\ absent = 0 /\ waits = 0

Elements(s) == {s[i] : i \in DOMAIN s}

Answer(c, v) == [call EXCEPT ![c] = v]

-----------------------------------------------------------------------------
(* The callers.                                                            *)

(* A page or a behavior reads the generation it means its line for.        *)
Stamp(l) ==
    /\ call[l] = "idle"
    /\ stamp' = [stamp EXCEPT ![l] = generation]
    /\ call' = Answer(l, "stamped")
    /\ UNCHANGED <<loop, inbox, actor, bounds, sentOn, askedOf, history>>

Remember(c) ==
    askedOf' = IF c \in Quits \cup Exits
               THEN [askedOf EXCEPT ![c] = IF phase = "live" THEN generation ELSE 0]
               ELSE askedOf

(* `Attendance::mark`: a typed line is a person present.                   *)
MarkWhenSent(l) ==   \* a variant that counts only what a connection can take
    marked' = (marked \/ (l \in Typed /\ phase = "live"))

Mark(l) == marked' = (marked \/ l \in Typed)

(* A typed line marks its person, whatever becomes of it; one stamped      *)
(* for an older connection goes no further.                                *)
Send(l) ==
    /\ call[l] = "stamped"
    /\ Mark(l)
    /\ IF l \in Typed /\ stamp[l] # generation
       THEN call' = Answer(l, "Disconnected") /\ UNCHANGED inbox
       ELSE IF phase = "stopped"
       THEN call' = Answer(l, "Dead") /\ UNCHANGED inbox
       ELSE call' = Answer(l, "waiting") /\ inbox' = Append(inbox, l)
    /\ Remember(l)
    /\ UNCHANGED <<loop, actor, attempt, unattended, page, warned, stamp, sentOn, history>>

AskToQuit(q) ==
    /\ call[q] = "idle"
    /\ IF phase = "stopped"
       THEN call' = Answer(q, "Unsent") /\ UNCHANGED inbox
       ELSE call' = Answer(q, "waiting") /\ inbox' = Append(inbox, q)
    /\ Remember(q)
    /\ UNCHANGED <<loop, actor, bounds, stamp, sentOn, history>>

Cancel ==
    /\ ~cancelled
    /\ cancelled' = TRUE
    /\ UNCHANGED <<phase, because, lifecycle, generation, inbox, actor, bounds,
                   callers, history>>

(* A page opens or closes.                                                 *)
TurnPage ==
    /\ page' = ~page
    /\ UNCHANGED <<loop, inbox, actor, attempt, unattended, marked, warned,
                   callers, history>>

Watched == PagesAttend /\ page

-----------------------------------------------------------------------------
(* Answers with no connection to send on.                                  *)

WhileDisconnected(S) ==
    [c \in Calls |-> IF c \notin S THEN call[c]
                     ELSE IF c \in Quits THEN "Unsent" ELSE "Disconnected"]

CloseUnlessReconnecting ==   \* a variant that stops between connections unsaid
    lifecycle' = IF lifecycle = "Reconnecting" THEN lifecycle ELSE "Closed"

Close == lifecycle' = "Closed"

(* `finish`: the receiver goes, and everyone left hears of it; the actor,  *)
(* if one was running, tells its quits `farewell`.                         *)
Finish(why, farewell) ==
    /\ phase' = "stopped" /\ because' = why
    /\ Close
    /\ call' = [c \in Calls |->
                   IF call[c] # "waiting" THEN call[c]
                   ELSE IF c \in Lines THEN "Dead"
                   ELSE IF c \in Elements(inbox) THEN "Unsent" ELSE farewell]
    /\ inbox' = <<>> /\ queued' = {}
    /\ UNCHANGED <<generation, cancelled, quitting, received, lived>>

(* A variant that reads the inbox only in the backoff waits.               *)
RefuseOneWaiting ==
    /\ phase = "wait" /\ ~cancelled
    /\ inbox # <<>>
    /\ call' = WhileDisconnected({Head(inbox)})
    /\ inbox' = Tail(inbox)
    /\ warned' = FALSE
    /\ UNCHANGED <<loop, actor, attempt, unattended, marked, page, stamp, sentOn,
                   askedOf, history>>

(* `refuse_while_disconnected`, from the connect and backoff waits.        *)
RefuseOne ==
    /\ phase \in {"dial", "wait"} /\ ~cancelled
    /\ inbox # <<>>
    /\ call' = WhileDisconnected({Head(inbox)})
    /\ inbox' = Tail(inbox)
    /\ warned' = FALSE
    /\ UNCHANGED <<loop, actor, attempt, unattended, marked, page, stamp, sentOn,
                   askedOf, history>>

StepOffTheLadder ==
    /\ phase' = "wait" /\ lifecycle' = "Reconnecting"
    /\ UNCHANGED <<because, cancelled>>

(* The ladder's last rung repeats.                                         *)
Higher(rung) == IF rung = Rungs THEN Rungs ELSE rung + 1

Climb(rung) == attempt' = Higher(rung) /\ waits' = Higher(waits)

-----------------------------------------------------------------------------
(* Connecting.                                                             *)

(* `sweep_inbox`.                                                          *)
SweepNothing == UNCHANGED <<call, inbox>>   \* a variant that does not

SweepInbox ==
    /\ call' = WhileDisconnected(Elements(inbox))
    /\ inbox' = <<>>

(* The connector returned a source: the inbox is swept, and the actor runs *)
(* under the generation read when the attempt began.                       *)
Connected ==
    /\ phase = "dial" /\ ~cancelled
    /\ generation <= MaxGeneration
    /\ SweepInbox
    /\ warned' = (warned /\ inbox = <<>>)
    /\ phase' = "live" /\ lifecycle' = "Syncing"
    /\ queued' = {} /\ quitting' = FALSE
    /\ received' = FALSE /\ lived' = "brief"
    /\ UNCHANGED <<because, generation, cancelled, attempt, unattended, marked,
                   page, stamp, sentOn, askedOf, history>>

ConnectFails ==
    /\ phase = "dial" /\ ~cancelled
    /\ \/ /\ StepOffTheLadder
          /\ Climb(attempt)
          /\ UNCHANGED <<generation, inbox, actor, call>>
       \/ /\ Finish("Fatal", "Unsent")
          /\ UNCHANGED <<attempt, waits>>
    /\ UNCHANGED <<unattended, marked, page, warned, stamp, sentOn, askedOf,
                   counted, absent>>

WaitIsOver ==
    /\ phase = "wait" /\ ~cancelled
    /\ phase' = "dial"
    /\ UNCHANGED <<because, lifecycle, generation, cancelled, inbox, actor,
                   bounds, callers, history>>

(* A variant whose connect does not race the cancel token.                 *)
StopWaitingBetween ==
    /\ phase = "wait" /\ cancelled
    /\ Finish("Cancelled", "Unsent")
    /\ UNCHANGED <<bounds, stamp, sentOn, askedOf, history>>

StopWaiting ==
    /\ phase \in {"dial", "wait"} /\ cancelled
    /\ Finish("Cancelled", "Unsent")
    /\ UNCHANGED <<bounds, stamp, sentOn, askedOf, history>>

-----------------------------------------------------------------------------
(* One connection's actor (module RoundTrips has its queue and windows).   *)

(* Something is read: the login burst's end makes the session Ready; the   *)
(* server may warn.                                                        *)
Receive ==
    /\ phase = "live"
    /\ received' = TRUE
    /\ lifecycle' \in {lifecycle, "Ready"}
    /\ warned' \in {warned, TRUE}
    /\ UNCHANGED <<phase, because, generation, cancelled, inbox, queued, quitting,
                   lived, attempt, unattended, marked, page, callers, history>>

Age ==
    /\ phase = "live" /\ lived # "long"
    /\ lived' = IF lived = "brief" THEN "stable" ELSE "long"
    /\ waits' = 0
    /\ UNCHANGED <<loop, inbox, queued, quitting, received, bounds, callers,
                   counted, absent>>

(* `begin_quit`: the first writes the exit command, a later one joins it.  *)
WriteExit ==
    /\ quitting' = TRUE /\ warned' = FALSE
    /\ UNCHANGED <<loop, queued, received, lived, attempt, unattended, marked,
                   page, stamp, sentOn, askedOf, history>>

TakeQuit ==
    /\ phase = "live" /\ inbox # <<>> /\ Head(inbox) \in Quits
    /\ inbox' = Tail(inbox)
    /\ WriteExit
    /\ UNCHANGED call

NeverStale(l) == FALSE   \* a variant with no fence

Stale(l) == stamp[l] # generation

(* `handle_inbox` and `admit` for a line.                                  *)
TakeLine ==
    /\ phase = "live" /\ inbox # <<>> /\ Head(inbox) \in Lines
    /\ inbox' = Tail(inbox)
    /\ LET l == Head(inbox)
       IN \/ /\ l \in Exits /\ ~Stale(l)
             /\ call' = Answer(l, "Disconnected")
             /\ WriteExit
          \/ /\ l \notin Exits \/ Stale(l)
             /\ IF Stale(l) \/ quitting
                THEN call' = Answer(l, "Disconnected") /\ UNCHANGED queued
                ELSE IF l \notin Typed /\ lifecycle # "Ready"
                THEN call' = Answer(l, "Refused") /\ UNCHANGED queued
                ELSE queued' = queued \cup {l} /\ UNCHANGED call
             /\ UNCHANGED <<loop, quitting, received, lived, bounds, stamp, sentOn,
                            askedOf, history>>

(* `pump` writes a queued line.                                            *)
Write(l) ==
    /\ phase = "live" /\ ~quitting /\ l \in queued
    /\ queued' = queued \ {l}
    /\ sentOn' = [sentOn EXCEPT ![l] = generation]
    /\ call' = Answer(l, "Sent")
    /\ warned' = FALSE
    /\ UNCHANGED <<loop, inbox, quitting, received, lived, attempt, unattended,
                   marked, page, stamp, askedOf, history>>

(* `finish_quit`: the session had asked to leave.                          *)
NeverLeaving == FALSE   \* a variant that reads every close as a drop

Leaving == quitting

(* The transport goes, under a read or under the line being written.  An   *)
(* answer to a quit ends the session; anything else is the supervisor's to *)
(* judge, and is not told as `Closed`.                                     *)
Lost ==
    /\ phase = "live"
    /\ IF Leaving
       THEN Finish("Cancelled", "Acknowledged") /\ UNCHANGED warned
       ELSE /\ \E failed \in {{}} \cup {{l} : l \in queued} :
                  /\ call' = [c \in Calls |-> IF c \in failed THEN "Dead"
                                             ELSE IF c \in queued THEN "Disconnected"
                                             ELSE call[c]]
                  /\ warned' = (warned /\ failed = {})
            /\ phase' = "ended"
            /\ queued' = {}
            /\ UNCHANGED <<because, lifecycle, generation, cancelled, inbox,
                           quitting, received, lived>>
    /\ UNCHANGED <<attempt, unattended, marked, page, stamp, sentOn, askedOf, history>>

(* Cancelled, or a quit the server did not close in time.                  *)
Stop ==
    /\ phase = "live" /\ (cancelled \/ quitting)
    /\ Finish("Cancelled", "TimedOut")
    /\ UNCHANGED <<bounds, stamp, sentOn, askedOf, history>>

(* A quit whose exit could not be written ends the session too.            *)
QuitFails ==
    /\ phase = "live" /\ ~quitting /\ inbox # <<>>
    /\ \/ Head(inbox) \in Quits
       \/ Head(inbox) \in Exits /\ ~Stale(Head(inbox))
    /\ Finish("Cancelled", "Unsent")
    /\ UNCHANGED <<bounds, stamp, sentOn, askedOf, history>>

-----------------------------------------------------------------------------
(* `after_connection` and `reconnect`.                                     *)

SentTyped == {l \in Typed : call[l] \notin {"idle", "stamped"}}

LongLived == lived = "long" /\ ~warned

AttendedByUptime ==   \* a variant that overlooks the idle warning
    marked \/ Watched \/ lived = "long"

Attended == marked \/ Watched \/ LongLived

WorkedIfHeard == received   \* a variant that trusts any login burst

Worked == received /\ lived # "brief"

Allowed == IF warned THEN 1 ELSE MaxUnattended

(* History: whether somebody was there, by what they sent.                 *)
CountAbsence ==
    /\ counted' = SentTyped
    /\ absent' = IF SentTyped # counted \/ Watched \/ LongLived THEN 0
                 ELSE IF absent = MaxUnattended THEN absent ELSE absent + 1

Reconnect ==
    /\ generation' = generation + 1
    /\ warned' = FALSE
    /\ StepOffTheLadder
    /\ Climb(IF Worked THEN 0 ELSE attempt)
    /\ UNCHANGED <<inbox, actor, call>>

AfterConnection ==
    /\ phase = "ended"
    /\ IF cancelled
       THEN /\ Finish("Cancelled", "Unsent")
            /\ UNCHANGED <<attempt, unattended, marked, warned, history>>
       ELSE /\ CountAbsence
            /\ marked' = FALSE
            /\ IF Attended
               THEN unattended' = 0 /\ Reconnect
               ELSE /\ unattended' = unattended + 1
                    /\ IF unattended + 1 >= Allowed
                       THEN /\ Finish("Unattended", "Unsent")
                            /\ attempt' = IF Worked THEN 0 ELSE attempt
                            /\ UNCHANGED <<warned, waits>>
                       ELSE Reconnect
    /\ UNCHANGED <<page, stamp, sentOn, askedOf>>

-----------------------------------------------------------------------------
Take == TakeQuit \/ TakeLine

Next ==
    \/ \E l \in Lines : Stamp(l) \/ Send(l) \/ Write(l)
    \/ \E q \in Quits : AskToQuit(q)
    \/ Cancel \/ TurnPage
    \/ RefuseOne \/ Connected \/ ConnectFails \/ WaitIsOver \/ StopWaiting
    \/ Receive \/ Age \/ Take \/ Lost \/ Stop \/ QuitFails
    \/ AfterConnection

Spec == Init /\ [][Next]_vars

(* The supervisor's task runs: it reads the inbox in whatever wait it is   *)
(* in, and looks at the cancel token first.  Nothing is asked of the game, *)
(* the network or the callers.                                             *)
Fairness ==
    /\ WF_vars(RefuseOne)
    /\ WF_vars(Take)
    /\ WF_vars(StopWaiting)
    /\ WF_vars(Stop)
    /\ WF_vars(AfterConnection)

FairSpec == Spec /\ Fairness

-----------------------------------------------------------------------------
(* What the supervisor promises.                                           *)

(* A line is written only on the connection it was meant for: one typed at *)
(* a page still showing the last connection, or caught in the inbox or a   *)
(* queue when a connection went, is never replayed on the next             *)
(* (lifecycle.rs, plan/12 5.1).                                            *)
MeantForThisConnection == \A l \in Lines : sentOn[l] \in {0, stamp[l]}

(* A quit or a typed exit logs out only the connection that was up when it *)
(* was sent: one sent during an outage has been told Unsent or             *)
(* Disconnected, and never logs the next connection out (core.rs, SE-1).   *)
ExitWasAskedOfIt ==
    [][~quitting /\ quitting' => askedOf[Head(inbox)] = generation]_vars

(* Having written the exit command, the session never logs back in.        *)
LeavesForGood == quitting => phase \in {"live", "stopped"}

(* Observers are told Closed exactly when the session is over (review      *)
(* finding 2: a dropped connection published it first).                    *)
ClosedIsTheEnd == lifecycle = "Closed" <=> phase = "stopped"

(* Two clients fighting over one character end with this one giving it up: *)
(* MaxUnattended losses in a row with nobody there, whatever behaviors     *)
(* send, are the last (retry.rs MAX_UNATTENDED_LOSSES).                    *)
GivesUp == phase \in {"dial", "wait", "live"} => absent < MaxUnattended

(* Somebody who typed since the last loss is never stopped as absent, even *)
(* if the line was stale, refused or swept (core.rs, idle_kick.rs).        *)
KeepsThePlayer == because = "Unattended" => absent > 0

(* No login storm: the n-th wait since a connection last stayed up is on   *)
(* rung n or higher, whatever was received and written between (retry.rs   *)
(* STABLE_CONNECTION, review finding 3).                                   *)
StormsClimb == phase = "wait" => attempt >= waits

(* A cancel ends the session, in whatever wait it finds the supervisor.    *)
CancelStops == cancelled ~> phase = "stopped"

(* What is sent is read and answered or queued, connection or none, until  *)
(* nothing is left in the inbox: an outage does not leave it to its        *)
(* caller's deadline (review finding 6).                                   *)
InboxIsRead == inbox # <<>> ~> inbox = <<>>
=============================================================================

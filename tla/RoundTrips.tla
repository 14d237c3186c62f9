----------------------------- MODULE RoundTrips -----------------------------
(***************************************************************************)
(* One connection of a session: the command queue, the one window a        *)
(* command's round trip keeps open, the ledger of prompts owed to instant  *)
(* actions, and the actor's loop that drives them (cena-session: queue.rs, *)
(* actor/owed.rs, actor/io.rs, actor.rs, actor/ending.rs).                 *)
(*                                                                         *)
(* The actor alternates between pumping the queue and one arm of its       *)
(* `select!`; callers submit, give up and lose the authority at any time.  *)
(* The game answers written lines in order: for each line some text and    *)
(* then one prompt.  If Unasked, it also speaks and prompts on its own.    *)
(*                                                                         *)
(* Text, lines and prompts carry no wording here, only the line they are   *)
(* the answer to: whose text and whose prompt end a round trip is the      *)
(* question this module asks.                                              *)
(***************************************************************************)
EXTENDS Naturals, Sequences, FiniteSets

CONSTANTS
    Commands,    \* lines sent as a round trip (`send_and_await`, `send_answered`)
    Instants,    \* lines written at once (`send_now`)
    Quits,       \* calls of `SessionHandle::quit`
    Held,        \* lines a behavior sends under its authority token
    Asking,      \* commands that name what answers them (`Answers`)
    Exits,       \* lines whose text is the game's exit command
    InboxBound,  \* COMMAND_CHANNEL_BOUND
    MostOwed,    \* MOST_OWED
    Unasked,     \* the game may speak and prompt without being asked
    Terse,       \* the reply to a line may hold no line that answers it
    WaitLapses,  \* a reply may take longer than WAIT
    OwedLapses,  \* a reply may take longer than OWED_FOR and the prompt deadline
    Nobody,      \* no line
    Game         \* who speaks when the game speaks unasked

Lines == Commands \cup Instants
Calls == Lines \cup Quits

ASSUME ConstantsAssumption ==
    /\ Held \subseteq Lines
    /\ Asking \subseteq Commands
    /\ Exits \subseteq Lines
    /\ Commands \cap Instants = {}
    /\ Quits \cap Lines = {}
    /\ Nobody \notin Calls /\ Game \notin Calls /\ Nobody # Game
    /\ InboxBound \in Nat \ {0}
    /\ MostOwed \in Nat \ {0}
    /\ {Unasked, Terse, WaitLapses, OwedLapses} \subseteq BOOLEAN

(* What a caller can be told, beside its own state.                        *)
Verdicts == {"Confirmed", "Answered", "Timeout", "Refused", "Handled", "Sent",
             "Interrupted", "Disconnected", "Dead",
             "Acknowledged", "TimedOut", "Unsent"}

VARIABLES
    call,        \* what each caller knows: "idle", "waiting", "gone" or its verdict
    credit,      \* whose text and prompt decided each command's verdict (history)
    gaveUp,      \* an owed answer or prompt was given up on as lost (history)
    inbox,       \* the session's bounded channel to the actor
    manual,      \* CommandQueue::manual
    held,        \* CommandQueue::held
    flight,      \* the command whose window is open, or Nobody
    matched,     \* whose frame the window's matcher took first, or Nobody
    answer,      \* whose line the window took as its answer, or Nobody
    owedAnswers, \* CommandQueue::owed
    before,      \* OwedPrompts::before, as the lines whose prompts are owed
    after,       \* OwedPrompts::after
    holding,     \* whether the behaviors' token holds the authority
    ready,       \* the lifecycle has reached Ready
    quitting,    \* the exit command has been written
    leavers,     \* quit calls waiting for the connection to end
    phase,       \* where the actor's loop is
    wire,        \* lines written whose prompt has not arrived
    speaker,     \* whose reply is being received: a line, Game or Nobody
    told         \* that reply has held an answering line

queues == <<manual, held>>
window == <<flight, matched, answer>>
ledger == <<before, after>>
exits == <<quitting, leavers>>
game == <<wire, speaker, told>>
vars == <<call, credit, gaveUp, inbox, queues, window, owedAnswers, ledger, holding,
          ready, exits, phase, game>>

Phases == {"pump", "select", "reading", "lost", "closed"}

TypeOK ==
    /\ call \in [Calls -> {"idle", "waiting", "gone"} \cup Verdicts]
    /\ credit \in [Commands -> SUBSET (Lines \cup {Game})]
    /\ gaveUp \in BOOLEAN
    /\ inbox \in Seq(Calls)
    /\ manual \in Seq(Commands)
    /\ held \in Seq(Commands)
    /\ flight \in Commands \cup {Nobody}
    /\ matched \in Lines \cup {Nobody, Game}
    /\ answer \in Lines \cup {Nobody, Game}
    /\ owedAnswers \in Seq(Asking)
    /\ before \in Seq(Lines)
    /\ after \in Seq(Lines)
    /\ holding \in BOOLEAN
    /\ ready \in BOOLEAN
    /\ quitting \in BOOLEAN
    /\ leavers \subseteq Quits
    /\ phase \in Phases
    /\ wire \in Seq(Lines)
    /\ speaker \in Lines \cup {Nobody, Game}
    /\ told \in BOOLEAN

Init ==
    /\ call = [l \in Calls |-> "idle"]
    /\ credit = [c \in Commands |-> {}] /\ gaveUp = FALSE
    /\ inbox = <<>>
    /\ manual = <<>> /\ held = <<>>
    /\ flight = Nobody /\ matched = Nobody /\ answer = Nobody
    /\ owedAnswers = <<>>
    /\ before = <<>> /\ after = <<>>
    /\ holding = TRUE
    /\ ready = FALSE
    /\ quitting = FALSE /\ leavers = {}
    /\ phase = "pump"
    /\ wire = <<>> /\ speaker = Nobody /\ told = FALSE

-----------------------------------------------------------------------------
(* Answering a caller.  A oneshot whose receiver is gone drops the answer. *)

Gone(l) == call[l] = "gone"

Told(S, v) ==
    [l \in Calls |-> IF l \in S /\ call[l] = "waiting" THEN v ELSE call[l]]

Elements(s) == {s[i] : i \in DOMAIN s}

-----------------------------------------------------------------------------
(* The callers: `submit_and_await`, `send_at`, `quit_inner`, and the       *)
(* deadlines that end their waits.                                         *)

HasRoomForTraffic == InboxBound - Len(inbox) > 1

Submit(l) ==
    /\ call[l] = "idle"
    /\ IF HasRoomForTraffic
       THEN /\ inbox' = Append(inbox, l)
            /\ call' = [call EXCEPT ![l] = "waiting"]
       ELSE /\ call' = [call EXCEPT ![l] = "Refused"]
            /\ UNCHANGED inbox
    /\ UNCHANGED <<credit, gaveUp, queues, window, owedAnswers, ledger,
                   holding, ready, exits, phase, game>>

AskToQuit(q) ==
    /\ call[q] = "idle"
    /\ Len(inbox) < InboxBound
    /\ inbox' = Append(inbox, q)
    /\ call' = [call EXCEPT ![q] = "waiting"]
    /\ UNCHANGED <<credit, gaveUp, queues, window, owedAnswers, ledger,
                   holding, ready, exits, phase, game>>

GiveUp(l) ==
    /\ call[l] = "waiting"
    /\ call' = [call EXCEPT ![l] = "gone"]
    /\ UNCHANGED <<credit, gaveUp, inbox, queues, window, owedAnswers, ledger,
                   holding, ready, exits, phase, game>>

(* The authority changes hands outside the actor: a release, a preemption, *)
(* a claim (module AuthorityCell has the cell itself).                     *)
PassAuthority ==
    /\ holding' = ~holding
    /\ UNCHANGED <<call, credit, gaveUp, inbox, queues, window, owedAnswers,
                   ledger, ready, exits, phase, game>>

-----------------------------------------------------------------------------
(* The end of the connection: `shutdown`, after what ended the loop.       *)

(* `answer_all_waiters`: the command in flight, and what is queued.        *)
WaitersInFlight == {flight} \ {Nobody}   \* a variant that forgets the queues

Waiters == ({flight} \ {Nobody}) \cup Elements(manual) \cup Elements(held)

(* Everyone in flight or queued is answered, and each quit call hears      *)
(* `farewell`.  `also` are the calls the ending step itself answers.       *)
EndConnection(end, farewell, also, verdict) ==
    LET outcome == IF end = "lost" THEN "Disconnected" ELSE "Dead"
    IN /\ call' = [l \in Calls |->
                      IF call[l] # "waiting" THEN call[l]
                      ELSE IF l \in also THEN verdict
                      ELSE IF l \in Waiters THEN outcome
                      ELSE IF l \in leavers THEN farewell
                      ELSE call[l]]
       /\ phase' = end
       /\ manual' = <<>> /\ held' = <<>>
       /\ flight' = Nobody /\ matched' = Nobody /\ answer' = Nobody
       /\ owedAnswers' = <<>>
       /\ leavers' = {}
       /\ UNCHANGED <<credit, gaveUp, ledger, holding, ready, quitting, game>>

(* A variant whose read arm leaves a pending quit to `shutdown`.           *)
PeerEndsUnheard ==
    /\ phase = "select"
    /\ EndConnection(IF quitting THEN "closed" ELSE "lost", "Unsent", {}, "Dead")
    /\ UNCHANGED inbox

(* The read arm saw the connection go: an answer to a quit if there is one. *)
PeerEnds ==
    /\ phase = "select"
    /\ EndConnection(IF quitting THEN "closed" ELSE "lost", "Acknowledged", {}, "Dead")
    /\ UNCHANGED inbox

(* Cancelled, or a quit the server did not close in time.                  *)
Cancel ==
    /\ phase = "select"
    /\ EndConnection("closed", "TimedOut", {}, "Dead")
    /\ UNCHANGED inbox

(* A write failed or was cut short by the cancel: its caller is told, and  *)
(* the loop ends.                                                          *)
WriteFails(l) ==
    \E end \in {"lost", "closed"} : EndConnection(end, "Unsent", {l}, "Dead")

-----------------------------------------------------------------------------
(* `pump`: take commands off the queue until a window is open.             *)

Owe(c) ==
    Append(IF Len(owedAnswers) = MostOwed THEN Tail(owedAnswers) ELSE owedAnswers, c)

WindowIsOpen == flight # Nobody

(* The flight's answer is owed unless it came, or none was asked for.      *)
OweUnanswered ==
    owedAnswers' = IF flight \in Asking /\ answer = Nobody THEN Owe(flight)
                   ELSE owedAnswers

CloseFlight == flight' = Nobody /\ matched' = Nobody /\ answer' = Nobody

(* `reply.is_closed`: somebody still waits for the line.                   *)
WantedRegardless(l) == TRUE   \* a variant that never looks

Wanted(l) == ~Gone(l)

Queued == manual # <<>> \/ held # <<>>

(* Variants that drop an abandoned window only to make room for the next   *)
(* command, and only once its reply has begun.                             *)
MayAbandonForTheNext == Gone(flight) /\ Queued

MayAbandonOnceMatched == Gone(flight) /\ matched # Nobody

MayAbandon == Gone(flight)

(* `window_abandoned`: the window's prompt is owed ahead of what was       *)
(* written after it.                                                       *)
OweAbandonedLast ==   \* a variant that owes it behind
    before' = before \o after \o <<flight>> /\ after' = <<>>

OweAbandoned ==
    before' = before \o <<flight>> \o after /\ after' = <<>>

(* A window whose caller has gone is dropped (`take_next`).                *)
Abandon ==
    /\ phase = "pump" /\ ~quitting
    /\ WindowIsOpen /\ MayAbandon
    /\ OweUnanswered
    /\ CloseFlight
    /\ OweAbandoned
    /\ UNCHANGED <<call, credit, gaveUp, inbox, queues, holding, ready, exits,
                   phase, game>>

(* Manual before held.                                                     *)
ManualIfNoneHeld == held = <<>>   \* a variant with the queues swapped

ManualIsNext == manual # <<>>

Next1 == IF ManualIsNext THEN Head(manual) ELSE Head(held)

Pop ==
    IF ManualIsNext THEN manual' = Tail(manual) /\ UNCHANGED held
    ELSE held' = Tail(held) /\ UNCHANGED manual

Pumping ==
    /\ phase = "pump" /\ ~quitting
    /\ ~WindowIsOpen
    /\ Queued

(* Nobody waits for it: it never goes out.                                 *)
SkipWithdrawn ==
    /\ Pumping
    /\ ~Wanted(Next1)
    /\ Pop
    /\ UNCHANGED <<call, credit, gaveUp, inbox, window, owedAnswers, ledger,
                   holding, ready, exits, phase, game>>

(* Admitted under the authority, and its token no longer holds it.         *)
Revoked(c) == c \in Held /\ ~holding

(* Refused for its lost authority, or by its gate; a line taken back while *)
(* it waited is Interrupted.                                               *)
TurnAway ==
    /\ Pumping
    /\ Wanted(Next1)
    /\ \E v \in (IF Revoked(Next1) THEN {"Refused"} ELSE {"Refused", "Interrupted"}) :
          call' = Told({Next1}, v)
    /\ Pop
    /\ UNCHANGED <<credit, gaveUp, inbox, window, owedAnswers, ledger, holding,
                   ready, exits, phase, game>>

Write ==
    /\ Pumping
    /\ Wanted(Next1)
    /\ ~Revoked(Next1)
    /\ \/ /\ flight' = Next1
          /\ matched' = Nobody /\ answer' = Nobody
          /\ wire' = Append(wire, Next1)
          /\ Pop
          /\ UNCHANGED <<call, owedAnswers, exits, credit, gaveUp, ledger,
                         holding, ready, phase, speaker, told>>
       \/ WriteFails(Next1)
    /\ UNCHANGED inbox

PumpEnds ==
    /\ phase = "pump" /\ ~quitting
    /\ \/ WindowIsOpen /\ ~Gone(flight)
       \/ ~WindowIsOpen /\ ~Queued
    /\ phase' = "select"
    /\ UNCHANGED <<call, credit, gaveUp, inbox, queues, window, owedAnswers,
                   ledger, holding, ready, exits, game>>

(* `refuse_queued_after_quit`: once the exit is written, what is queued is *)
(* answered, as soon as no window is open.                                 *)
PumpAfterQuit ==
    /\ phase = "pump" /\ quitting
    /\ phase' = "select"
    /\ IF WindowIsOpen /\ ~Gone(flight)
       THEN UNCHANGED <<call, queues, window, owedAnswers>>
       ELSE /\ call' = [l \in Calls |->
                  IF call[l] = "waiting" /\ l \in Elements(manual) \cup Elements(held)
                  THEN IF Revoked(l) THEN "Refused" ELSE "Disconnected"
                  ELSE call[l]]
            /\ manual' = <<>> /\ held' = <<>>
            /\ OweUnanswered
            /\ CloseFlight
    /\ UNCHANGED <<credit, gaveUp, inbox, ledger, holding, ready, exits, game>>

-----------------------------------------------------------------------------
(* `handle_inbox`: one message, then the queue is pumped again.            *)

(* `begin_quit`: write the exit command once; a later quit joins it.       *)
JoinOrWriteQuit(l, verdict, failed) ==
    \/ /\ quitting' = TRUE
       /\ phase' = "pump"
       /\ IF l \in Quits
          THEN leavers' = leavers \cup {l} /\ UNCHANGED call
          ELSE call' = Told({l}, verdict) /\ UNCHANGED leavers
       /\ UNCHANGED <<credit, gaveUp, queues, window, owedAnswers, ledger,
                      holding, ready, game>>
    \/ /\ ~quitting
       /\ EndConnection("closed", "Unsent", {l}, failed)

AnswerOnly(l, v) ==
    /\ call' = Told({l}, v)
    /\ phase' = "pump"
    /\ UNCHANGED <<credit, gaveUp, queues, window, owedAnswers, ledger,
                   holding, ready, exits, game>>

Ignore ==
    /\ phase' = "pump"
    /\ UNCHANGED <<call, credit, gaveUp, queues, window, owedAnswers, ledger,
                   holding, ready, exits, game>>

(* `admit`: into the queue, or refused at once.                            *)
Admit(c) ==
    IF quitting THEN AnswerOnly(c, "Disconnected")
    ELSE IF c \in Held /\ (~ready \/ ~holding) THEN AnswerOnly(c, "Refused")
    ELSE /\ IF c \in Held THEN held' = Append(held, c) /\ UNCHANGED manual
            ELSE manual' = Append(manual, c) /\ UNCHANGED held
         /\ phase' = "pump"
         /\ UNCHANGED <<call, credit, gaveUp, window, owedAnswers, ledger,
                        holding, ready, exits, game>>

(* A creature's tag two creatures share: said, and nothing to send.        *)
MistargetedTag(l, v) == l \notin Held /\ AnswerOnly(l, v)

(* may_quit: an exit of the player's, a script's, a trigger's or Lich's is *)
(* a quit, and an agent's while its token holds the authority.  An agent's *)
(* single line, Hydra's own and a behavior's never are, whatever is held.  *)
(* A line says whether it needs the authority and not whose it is, so any  *)
(* exit may be refused.                                                    *)
MayQuit(l) == l \in Held => holding

TakeCommand ==
    /\ phase = "select" /\ inbox # <<>> /\ Head(inbox) \in Commands
    /\ inbox' = Tail(inbox)
    /\ LET c == Head(inbox)
       IN IF ~Wanted(c) THEN Ignore
          ELSE \/ MistargetedTag(c, "Handled")
               \/ c \in Exits /\ AnswerOnly(c, "Refused")
               \/ c \in Exits /\ MayQuit(c) /\ AnswerOnly(c, "Interrupted")
               \/ c \in Exits /\ MayQuit(c) /\ JoinOrWriteQuit(c, "Disconnected", "Dead")
               \/ c \notin Exits /\ Admit(c)

(* `instant_sent`: behind the open window, or ahead of the next.           *)
OweInstant(i) ==
    IF WindowIsOpen THEN after' = Append(after, i) /\ UNCHANGED before
    ELSE before' = Append(before, i) /\ UNCHANGED after

(* `send_now`: past the queue, onto the wire, its prompt owed.             *)
InstantMayGoReady(i) == i \in Held => ready   \* a variant blind to the quit

InstantMayGo(i) == ~quitting /\ (i \in Held => ready)

WriteInstant(i) ==
    \/ /\ call' = Told({i}, "Sent")
       /\ OweInstant(i)
       /\ wire' = Append(wire, i)
       /\ phase' = "pump"
       /\ UNCHANGED <<credit, gaveUp, queues, window, owedAnswers, holding,
                      ready, exits, speaker, told>>
    \/ WriteFails(i)

TakeInstant ==
    /\ phase = "select" /\ inbox # <<>> /\ Head(inbox) \in Instants
    /\ inbox' = Tail(inbox)
    /\ LET i == Head(inbox)
       IN IF ~Wanted(i) THEN Ignore
          ELSE \/ MistargetedTag(i, "Refused")
               \/ i \in Exits /\ AnswerOnly(i, "Refused")
               \/ i \in Exits /\ MayQuit(i) /\ JoinOrWriteQuit(i, "Dead", "Dead")
               \/ /\ i \notin Exits
                  /\ \/ quitting /\ AnswerOnly(i, "Dead")
                     \/ ~quitting /\ AnswerOnly(i, "Refused")
                     \/ InstantMayGo(i) /\ WriteInstant(i)

TakeQuit ==
    /\ phase = "select" /\ inbox # <<>> /\ Head(inbox) \in Quits
    /\ inbox' = Tail(inbox)
    /\ JoinOrWriteQuit(Head(inbox), "Unsent", "Unsent")

(* The read deadline passes with nothing to read, and the queue is pumped. *)
Wake ==
    /\ phase = "select"
    /\ phase' = "pump"
    /\ UNCHANGED <<call, credit, gaveUp, inbox, queues, window, owedAnswers,
                   ledger, holding, ready, exits, game>>

(* Between connections the supervisor answers what is left in the inbox    *)
(* (`discard_stale_inbox`); after the last, its receiver is dropped.       *)
Sweep ==
    /\ phase \in {"lost", "closed"} /\ inbox # <<>>
    /\ LET l == Head(inbox)
       IN call' = Told({l}, IF l \in Quits THEN "Unsent"
                            ELSE IF phase = "closed" THEN "Dead"
                            ELSE IF l \in Commands THEN "Disconnected"
                            ELSE "Interrupted")
    /\ inbox' = Tail(inbox)
    /\ UNCHANGED <<credit, gaveUp, queues, window, owedAnswers, ledger,
                   holding, ready, exits, phase, game>>

-----------------------------------------------------------------------------
(* The game's side of the wire and `ingest`: what a reply's text and its   *)
(* prompt do to the window and the ledger.                                 *)

(* How a window ends: what its waiter is told, and by whose words.         *)
Resolve(at) ==
    LET by == IF flight \in Asking THEN answer ELSE matched
        verdict == IF by = Nobody THEN "Timeout"
                   ELSE IF flight \in Asking THEN "Answered" ELSE "Confirmed"
    IN /\ call' = Told({flight}, verdict)
       /\ credit' = [credit EXCEPT ![flight] = {by, at} \ {Nobody}]
       /\ UNCHANGED gaveUp
       /\ OweUnanswered
       /\ CloseFlight

(* WAIT has passed since the window opened (`expire_window`).              *)
ExpireWindow ==
    /\ phase = "select"
    /\ WaitLapses
    /\ flight \in Asking
    /\ Resolve(Nobody)
    /\ phase' = "pump"
    /\ UNCHANGED <<inbox, queues, ledger, holding, ready, exits, game>>

(* OWED_FOR has passed for the oldest owed answer, or the prompt deadline  *)
(* for the oldest owed prompt.                                             *)
LapseAnswer ==
    /\ OwedLapses /\ owedAnswers # <<>>
    /\ owedAnswers' = Tail(owedAnswers)
    /\ gaveUp' = TRUE
    /\ UNCHANGED <<call, credit, inbox, queues, window, ledger,
                   holding, ready, exits, phase, game>>

LapsePrompt ==
    /\ OwedLapses /\ before # <<>>
    /\ before' = Tail(before)
    /\ gaveUp' = TRUE
    /\ UNCHANGED <<call, credit, inbox, queues, window, owedAnswers,
                   after, holding, ready, exits, phase, game>>

(* Replies come in wire order; the game's own words come between them.     *)
Speaks(o) ==
    /\ phase \in {"select", "reading"}
    /\ IF speaker # Nobody THEN o = speaker
       ELSE \/ wire # <<>> /\ o = Head(wire)
            \/ Unasked /\ o = Game

WindowAlwaysAnsweredNext == TRUE   \* a variant with no ledger

WindowIsAnsweredNext == before = <<>>

(* A finished line of o's reply: offered to the window's matcher, and      *)
(* heard as an answer, unless a reply ahead of the window's is still owed. *)
Offer(o, matches) ==
    matched' = IF WindowIsOpen /\ WindowIsAnsweredNext /\ matched = Nobody /\ matches
               THEN o ELSE matched

HearIgnoringOwed(o, answering) ==   \* a variant that forgets owed answers
    /\ answer' = IF /\ answering /\ WindowIsAnsweredNext
                    /\ flight \in Asking /\ answer = Nobody
                 THEN o ELSE answer
    /\ UNCHANGED owedAnswers

Hear(o, answering) ==
    IF ~answering \/ (WindowIsOpen /\ ~WindowIsAnsweredNext)
    THEN UNCHANGED <<answer, owedAnswers>>
    ELSE IF owedAnswers # <<>>
    THEN owedAnswers' = Tail(owedAnswers) /\ UNCHANGED answer
    ELSE /\ answer' = IF flight \in Asking /\ answer = Nobody THEN o ELSE answer
         /\ UNCHANGED owedAnswers

(* A premise of every command that names its answer: the code hears any    *)
(* unspoken line of the main window, and takes what matches for an answer. *)
(* Here only the text a line was sent for does, once; what the game says   *)
(* unasked never does.                                                     *)
Text(o) ==
    /\ Speaks(o)
    /\ \E matches \in BOOLEAN, answering \in BOOLEAN :
          /\ answering => o # Game /\ ~told
          /\ Offer(o, matches)
          /\ Hear(o, answering)
          /\ told' = (told \/ answering)
    /\ speaker' = o
    /\ phase' = "reading"
    /\ UNCHANGED <<call, credit, gaveUp, inbox, queues, flight, ledger,
                   holding, ready, exits, wire>>

EndOfReply(o) ==
    /\ Speaks(o)
    /\ o \in Asking => told \/ Terse
    /\ wire' = IF o = Game THEN wire ELSE Tail(wire)
    /\ speaker' = Nobody /\ told' = FALSE
    /\ ready' \in {ready, TRUE}
    /\ phase' = "reading"
    /\ UNCHANGED <<inbox, queues, holding, exits>>

(* The prompt of a line whose prompt is owed ahead of the window's.        *)
PromptSpent(o) ==
    /\ EndOfReply(o)
    /\ before # <<>>
    /\ before' = Tail(before)
    /\ UNCHANGED <<call, credit, gaveUp, window, owedAnswers, after>>

(* Nothing owed and no window: a prompt belongs to nobody.                 *)
PromptUnclaimed(o) ==
    /\ EndOfReply(o)
    /\ before = <<>> /\ ~WindowIsOpen
    /\ UNCHANGED <<call, credit, gaveUp, window, owedAnswers, ledger>>

(* The window's prompt (`OwedPrompts::prompt`, `close_window`): a window   *)
(* still waiting for its answer stays open past it.                        *)
PromptForWindow(o) ==
    /\ EndOfReply(o)
    /\ before = <<>> /\ WindowIsOpen
    /\ before' = after /\ after' = <<>>
    /\ IF flight \in Asking /\ answer = Nobody
       THEN UNCHANGED <<call, credit, gaveUp, window, owedAnswers>>
       ELSE Resolve(o)

(* The bytes of this read are used up.                                     *)
ReadEnds ==
    /\ phase = "reading"
    /\ phase' = "pump"
    /\ UNCHANGED <<call, credit, gaveUp, inbox, queues, window, owedAnswers,
                   ledger, holding, ready, exits, game>>

-----------------------------------------------------------------------------
Pump == Abandon \/ SkipWithdrawn \/ TurnAway \/ Write \/ PumpEnds \/ PumpAfterQuit

TakeMessage == TakeCommand \/ TakeInstant \/ TakeQuit

Callers ==
    \/ \E l \in Lines : Submit(l)
    \/ \E q \in Quits : AskToQuit(q)
    \/ \E l \in Calls : GiveUp(l)
    \/ PassAuthority

Speech ==
    \E o \in Lines \cup {Game} :
        Text(o) \/ PromptSpent(o) \/ PromptUnclaimed(o) \/ PromptForWindow(o)

Next ==
    \/ Callers
    \/ Pump
    \/ TakeMessage
    \/ Wake
    \/ ExpireWindow
    \/ LapseAnswer
    \/ LapsePrompt
    \/ Speech
    \/ ReadEnds
    \/ PeerEnds
    \/ Cancel
    \/ Sweep

Spec == Init /\ [][Next]_vars

(* The loop turns (its read arm wakes it twice a second), messages are     *)
(* taken, deadlines pass.  Nothing is asked of the game.                   *)
Fairness ==
    /\ WF_vars(Pump)
    /\ WF_vars(ReadEnds)
    /\ WF_vars(Wake)
    /\ SF_vars(TakeMessage)
    /\ SF_vars(ExpireWindow)
    /\ WF_vars(Sweep)
    /\ \A l \in Calls : WF_vars(GiveUp(l))

FairSpec == Spec /\ Fairness
-----------------------------------------------------------------------------
(* What the round trips promise.                                           *)

Ended == phase \in {"lost", "closed"}

(* A round trip is decided by the reply to its own line: the frame or line *)
(* its verdict carries and the prompt that closed its window belong to the *)
(* command the caller sent, never to an instant action, to an abandoned    *)
(* command or to what the game said unasked (plan/12 4.4, owed.rs).  It is *)
(* promised until an owed reply has been given up on as lost, half a       *)
(* minute late: one that comes after all is the next line's.               *)
OwnReply == ~gaveUp => \A c \in Commands : credit[c] \subseteq {c}

(* The ledger of owed prompts is the wire: what is owed ahead of the open  *)
(* window, the window's own line, and what is owed behind it are, in this  *)
(* order, the lines the game has yet to answer (owed.rs).                  *)
LedgerIsTheWire ==
    ~Ended /\ (WindowIsOpen \/ ~quitting) =>
        wire = before \o (IF WindowIsOpen THEN <<flight>> ELSE <<>>) \o after

(* Prompts are owed behind a window only while one is open; once it has    *)
(* closed they are ahead of whatever is sent next (owed.rs:28-30).         *)
OwedBehindAWindow == ~Ended /\ after # <<>> /\ ~quitting => WindowIsOpen

(* No caller is forgotten and none is answered twice: a line whose caller  *)
(* waits is in exactly one of the inbox, a queue and the open window, and  *)
(* a quit that waits is in the inbox or among those the end will answer.   *)
Places(l) ==
    <<{i \in DOMAIN inbox : inbox[i] = l},
      {i \in DOMAIN manual : manual[i] = l},
      {i \in DOMAIN held : held[i] = l},
      IF flight = l THEN {1} ELSE {},
      IF l \in leavers THEN {1} ELSE {}>>

WaitsInOnePlace ==
    \A l \in Calls : call[l] = "waiting" =>
        \E k \in 1..5 : /\ Cardinality(Places(l)[k]) = 1
                        /\ \A j \in (1..5) \ {k} : Places(l)[j] = {}

(* The exit command is the last line a connection writes: nothing queued   *)
(* behind it, typed after it or sent at once goes out to a character that  *)
(* is leaving (plan/16 5b).                                                *)
NothingAfterQuit == [][quitting => Len(wire') <= Len(wire)]_vars

(* A quit whose exit command went out is never told it was not sent: only  *)
(* the server's close or a timeout ends its wait (Farewell, handle.rs).    *)
ToldOfTheQuit ==
    [][\A q \in leavers : q \notin leavers' =>
           call'[q] \in {"gone", "Acknowledged", "TimedOut"}]_vars

(* What each caller has come to know, as CallFates tells it: its round     *)
(* trip is out while its window is open, a quit leaves once the exit is.   *)
Fate(l) ==
    IF call[l] # "waiting" THEN call[l]
    ELSE IF l = flight THEN "sent"
    ELSE IF l \in leavers THEN "leaving"
    ELSE "waiting"

Fates == INSTANCE CallFates WITH fate <- [l \in Calls |-> Fate(l)]

(* What a caller is told is true of its line, however the queue, the       *)
(* window, the quit and the end of the connection meet: a line goes out at *)
(* most once and only while its caller waits, nobody is told that a line   *)
(* was refused or taken back that went out, nor that one was sent that did *)
(* not, and no second round trip goes out while one's caller waits         *)
(* (Outcome and Sent in command/verdict.rs, command/farewell.rs).          *)
MeetsFates == Fates!Spec

(* A command nobody waits for is never sent, however long it waited in the *)
(* inbox or a queue and whoever closed the window ahead of it.             *)
WithdrawnIsNotSent ==
    [][\A l \in Lines : Gone(l) /\ l \notin Elements(wire)
           => l \notin Elements(wire')]_vars

(* A player's line is never behind automation: no line of a behavior is    *)
(* written while a line the player still waits for is queued (plan/12 4.1).*)
PlayerFirst ==
    [][\A c \in Held \cap Commands :
           c \notin Elements(wire) /\ c \in Elements(wire')
           => \A m \in Elements(manual) : Gone(m)]_vars

(* No window wedges the queue, even if the game never prompts again: an    *)
(* open window closes or is dropped.                                       *)
WindowEnds == \A c \in Commands : flight = c ~> flight # c

(* The player is never locked out: what is queued leaves the queue.        *)
QueueDrains ==
    \A c \in Commands :
        c \in Elements(manual) \cup Elements(held)
            ~> c \notin Elements(manual) \cup Elements(held)
=============================================================================

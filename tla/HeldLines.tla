----------------------------- MODULE HeldLines -----------------------------
(***************************************************************************)
(* What a session's owner shows its viewers, and when (cena-session:       *)
(* actor/line.rs, actor/hooked.rs, actor/io.rs, actor/ending.rs,           *)
(* supervisor.rs, script.rs).  The owner is the actor while a connection   *)
(* is up and the supervisor otherwise; it publishes each finished line, a  *)
(* mark around a quiet command's report, and each change of lifecycle.     *)
(* While a script runner has display hooks, a line's showing waits for the *)
(* runner's answer to the line, which the runner hears at once.            *)
(*                                                                         *)
(* A step is one synchronous turn of the owner.  What it publishes is left *)
(* in `out`, which Viewing publishes event by event.                       *)
(***************************************************************************)
EXTENDS Integers, Sequences, FiniteSets

CONSTANT Hearing    \* EventPublisher::hearing: whether a script runner listens

ASSUME HearingAssumption == Hearing \in BOOLEAN

VARIABLES
    life,       \* "up", "lost", "down", "closing", "over"
    generation, \* GenerationCell
    arrived,    \* how many lines the game has sent: a line is its number
    display,    \* Hooks::display
    answers,    \* Hooks::answers: answers the actor has not taken
    rung,       \* Hooks::answered: the permit of the Notify
    held,       \* Held::waiting, oldest first
    window,     \* SessionActor::quiet_window is Told
    quiets,     \* how many quiet commands there were
    out         \* what this turn of the owner has still to publish

hooks == <<display, answers, rung>>
connection == <<life, generation>>
quiet == <<window, quiets>>
lines == <<arrived, held>>
heldVars == <<connection, quiet, lines, hooks, out>>

HeldTypeOK ==
    /\ life \in {"up", "lost", "down", "closing", "over"} /\ generation \in Nat
    /\ arrived \in Nat
    /\ held \in Seq([line : Nat, answer : {"Awaited", "Hidden", "Text"}, due : BOOLEAN])
    /\ display \in BOOLEAN /\ rung \in BOOLEAN
    /\ answers \subseteq [line : Nat, answer : {"Hidden", "Text"}]
    /\ window \in BOOLEAN /\ quiets \in Nat
    /\ out \in Seq([kind : {"heard", "line", "quiet", "loud", "reconnecting",
                           "authenticating", "closed"}, line : Nat])

Heard(n) == [kind |-> "heard", line |-> n]
Line(n) == [kind |-> "line", line |-> n]
Quiet(on) == [kind |-> IF on THEN "quiet" ELSE "loud", line |-> 0]
StateChanged(state) == [kind |-> state, line |-> 0]

HeldInit ==
    /\ life = "up" /\ generation = 0
    /\ arrived = 0 /\ held = <<>>
    /\ display = FALSE /\ answers = {} /\ rung = FALSE
    /\ window = FALSE /\ quiets = 0
    /\ out = <<>>

---------------------------------------------------------------------------
(* Showing what is held (hooked.rs). *)

\* A variant of WithAnswers: answers are taken for the oldest lines.
OldestWithAnswers ==
    [i \in DOMAIN held |->
        IF i <= Cardinality(answers) THEN [held[i] EXCEPT !.answer =
                (CHOOSE a \in answers : TRUE).answer]
        ELSE held[i]]

\* Each held line with the answer that has come for it.
WithAnswers ==
    [i \in DOMAIN held |->
        IF \E a \in answers : a.line = held[i].line
        THEN [held[i] EXCEPT !.answer =
                (CHOOSE a \in answers : a.line = held[i].line).answer]
        ELSE held[i]]

\* The held lines that stay: none, if all go; else those from the oldest that
\* is neither answered nor past its deadline.
Staying(all) ==
    {i \in DOMAIN held : ~all /\ WithAnswers[i].answer = "Awaited" /\ ~held[i].due}

FirstStaying(all) ==
    IF Staying(all) = {} THEN Len(held) + 1
    ELSE CHOOSE i \in Staying(all) : \A j \in Staying(all) : i <= j

StillHeld(all) == SubSeq(WithAnswers, FirstStaying(all), Len(held))

\* What show_held(all) shows, in order, of those before: a hidden line is not.
Shown(all) == {i \in 1 .. FirstStaying(all) - 1 : WithAnswers[i].answer # "Hidden"}

Rank(i, S) == Cardinality({j \in S : j <= i})

Released(all) ==
    [k \in 1 .. Cardinality(Shown(all)) |->
        Line(held[CHOOSE i \in Shown(all) : Rank(i, Shown(all)) = k].line)]

\* show_held(all), in a turn that publishes `first` before it and `then` after.
ShowHeld(all, first, then) ==
    /\ held' = StillHeld(all \/ ~display)
    /\ answers' = {}
    /\ out' = first \o Released(all \/ ~display) \o then

---------------------------------------------------------------------------
(* The owner's turns. *)

\* The owner is between two turns, the actor's or the supervisor's.
Turn(lives) == out = <<>> /\ life \in lives

\* publish_line: heard first, if a runner listens; then held, or shown
\* behind all that was held.
Arrive ==
    LET n == arrived + 1
        first == IF Hearing THEN <<Heard(n)>> ELSE <<>>
        hold == Hearing /\ display
    IN  /\ Turn({"up"})
        /\ arrived' = n
        /\ \/ /\ hold
              /\ held' = Append(held, [line |-> n, answer |-> "Awaited", due |-> FALSE])
              /\ out' = first
              /\ UNCHANGED answers
           \/ /\ ~hold /\ held # <<>>
              /\ ShowHeld(TRUE, first, <<Line(n)>>)
           \/ /\ ~hold /\ held = <<>>
              /\ out' = Append(first, Line(n))
              /\ UNCHANGED <<held, answers>>
        /\ UNCHANGED <<connection, quiet, display, rung>>

\* A variant of Wake with no deadline.
WakeWhenRung ==
    /\ Turn({"up"}) /\ held # <<>> /\ rung /\ rung' = FALSE
    /\ ShowHeld(FALSE, <<>>, <<>>)
    /\ UNCHANGED <<connection, quiet, arrived, display>>

\* The loop's arm for held lines: the hooks rang, or the oldest is due.
Wake ==
    /\ Turn({"up"}) /\ held # <<>>
    /\ \/ rung /\ rung' = FALSE
       \/ held[1].due /\ UNCHANGED rung
    /\ ShowHeld(FALSE, <<>>, <<>>)
    /\ UNCHANGED <<connection, quiet, arrived, display>>

\* The pump writes a quiet command, once the window before it is closed.
OpenQuietWindow ==
    /\ Turn({"up"}) /\ ~window
    /\ window' = TRUE /\ quiets' = quiets + 1 /\ out' = <<Quiet(TRUE)>>
    /\ UNCHANGED <<connection, lines, hooks>>

\* Its prompt, or its deadline, or its caller gone: the window is over.
EndQuietWindow ==
    /\ Turn({"up"}) /\ window
    /\ window' = FALSE /\ out' = <<Quiet(FALSE)>>
    /\ UNCHANGED <<connection, quiets, lines, hooks>>

\* shutdown: what is held is shown, and the actor goes, its window with it.
Shutdown(then) ==
    /\ Turn({"up"}) /\ ShowHeld(TRUE, <<>>, then) /\ window' = FALSE
    /\ UNCHANGED <<generation, quiets, arrived, display, rung>>

\* The connection is lost.
Lose == Shutdown(<<>>) /\ life' = "lost"

\* The session is cancelled while its actor runs, which says it is closed.
Cancel == Shutdown(<<StateChanged("closed")>>) /\ life' = "closing"

\* SupervisedSession::reconnect
Reconnect ==
    /\ Turn({"lost"})
    /\ generation' = generation + 1 /\ life' = "down"
    /\ out' = <<StateChanged("reconnecting")>>
    /\ UNCHANGED <<quiet, lines, hooks>>

\* The next actor runs.
Connect ==
    /\ Turn({"down"})
    /\ life' = "up" /\ out' = <<StateChanged("authenticating")>>
    /\ UNCHANGED <<generation, quiet, lines, hooks>>

\* The supervisor stops between two connections: SupervisedSession::finish.
Stop ==
    /\ Turn({"lost", "down"})
    /\ life' = "closing" /\ out' = <<StateChanged("closed")>>
    /\ UNCHANGED <<generation, quiet, lines, hooks>>

OwnerTurns ==
    \/ Arrive \/ Wake \/ OpenQuietWindow \/ EndQuietWindow
    \/ Lose \/ Cancel \/ Reconnect \/ Connect \/ Stop

---------------------------------------------------------------------------
(* The runner (script.rs Door), and the clock. *)

\* Door::hook_lines
HookLines(on) ==
    /\ display # on /\ display' = on /\ rung' = (rung \/ ~on)
    /\ UNCHANGED <<connection, quiet, lines, answers, out>>

\* Door::shown, for a line the runner has been told of
Answer(n, answer) ==
    /\ Hearing /\ n \in 1 .. arrived /\ \A a \in answers : a.line # n
    /\ answers' = answers \union {[line |-> n, answer |-> answer]}
    /\ rung' = TRUE
    /\ UNCHANGED <<connection, quiet, lines, display, out>>

\* HOOK_DEADLINE passes for the oldest line still inside it.
DeadlinePasses ==
    /\ \E i \in DOMAIN held :
        /\ ~held[i].due /\ \A j \in 1 .. (i - 1) : held[j].due
        /\ held' = [held EXCEPT ![i].due = TRUE]
    /\ UNCHANGED <<connection, quiet, arrived, hooks, out>>
=============================================================================

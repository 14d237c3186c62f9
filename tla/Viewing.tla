------------------------------ MODULE Viewing ------------------------------
(***************************************************************************)
(* What a session publishes, and what its viewers make of it (cena-session: *)
(* observation.rs, supervisor/observation.rs; cena-web: presentation.rs,   *)
(* presentation/pending.rs; a window's feed in cena-gui/src/feed.rs goes    *)
(* the same way).  Every event has a cursor.  The owner publishes what its  *)
(* turns leave in `out` (HeldLines); any other task publishes notices.  One *)
(* lock, the fence, is held while a cursor is taken and its event sent, and *)
(* while a snapshot is paired with a subscription.                          *)
(*                                                                         *)
(* A viewer subscribes, follows its receiver, and asks again at every       *)
(* change: it catches up on the old receiver to the new snapshot's cursor,  *)
(* then follows the new one.  A receiver too far behind loses its oldest    *)
(* events and says so.                                                      *)
(***************************************************************************)
EXTENDS HeldLines

CONSTANTS
    Viewers,
    Ring,       \* EVENT_CHANNEL_BOUND: what a receiver may be behind
    InboxRoom,  \* the observation inbox's bound
    Nothing,    \* a model value: none
    MaxHappenings   \* bound: lines, quiet commands, reconnections and notices,
                    \* together

Event == [cursor : Nat, generation : Nat,
          kind : {"heard", "line", "quiet", "loud", "notice",
                  "reconnecting", "authenticating", "closed"}]
Receivers == [events : Seq(Event), lagged : BOOLEAN]
Snapshots == [cursor : Nat, generation : Nat, over : BOOLEAN]
Subscriptions == [snapshot : Snapshots, rx : Receivers]

ASSUME ViewingConstantsAssumption ==
    /\ {Ring, InboxRoom} \subseteq Nat \ {0} /\ MaxHappenings \in Nat
    /\ Nothing \notin Nat \union Receivers \union Snapshots \union Subscriptions

VARIABLES
    cursor,     \* EventPublisher::cursor
    saying,     \* the cursor of the notice being said, which holds the fence
    notices,    \* how many notices were said
    requests,   \* the observation inbox: whose, and whether it still waits
    final,      \* ObservationRequests::final_snapshot
    doing,      \* what each viewer's task is at
    receiver,   \* the receiver a viewer follows
    offered,    \* the subscription answered and not yet taken
    view        \* the viewer's Pending, and history of its story: the last
                \* event heard, 0 after a gap, and whether all was in order

publishing == <<cursor, saying, notices>>
observing == <<requests, final>>
watching == <<doing, receiver, offered, view>>
vars == <<heldVars, publishing, observing, watching>>

TypeOK ==
    /\ HeldTypeOK
    /\ cursor \in Nat /\ saying \in Nat \union {Nothing} /\ notices \in Nat
    /\ requests \in Seq([by : Viewers, waits : BOOLEAN])
    /\ final \in Snapshots \union {Nothing}
    /\ doing \in [Viewers -> {"asking", "waiting", "catching", "following", "done"}]
    /\ receiver \in [Viewers -> Receivers \union {Nothing}]
    /\ offered \in [Viewers -> Subscriptions \union {Nothing}]
    /\ view \in [Viewers -> [seen : Nat, generation : Nat, quiet : BOOLEAN,
                            dirty : BOOLEAN, last : Nat, sound : BOOLEAN]]

Fresh(snapshot) == [seen |-> snapshot.cursor, generation |-> snapshot.generation,
                    quiet |-> FALSE, dirty |-> FALSE,
                    last |-> snapshot.cursor, sound |-> TRUE]
Empty == [events |-> <<>>, lagged |-> FALSE]
Snapshot == [cursor |-> cursor, generation |-> generation, over |-> life = "closing"]

Init ==
    /\ HeldInit
    /\ cursor = 0 /\ saying = Nothing /\ notices = 0
    /\ requests = <<>> /\ final = Nothing
    /\ doing = [v \in Viewers |-> "asking"]
    /\ receiver = [v \in Viewers |-> Nothing]
    /\ offered = [v \in Viewers |-> Nothing]
    /\ view = [v \in Viewers |-> Fresh([cursor |-> 0, generation |-> 0])]

---------------------------------------------------------------------------
(* Publishing: EventPublisher::publish.  The cursor is taken and the event *)
(* sent under the fence; for the owner's that is one step, since what      *)
(* could come between, a snapshot, is the owner's own.                     *)

Unfenced == TRUE    \* a variant: nobody waits for the fence
FenceIsFree == saying = Nothing

\* One receiver more behind than the ring is long loses its oldest event.
Received(rx, event) ==
    IF rx = Nothing THEN rx
    ELSE IF Len(rx.events) < Ring THEN [rx EXCEPT !.events = Append(@, event)]
    ELSE [events |-> Append(Tail(rx.events), event), lagged |-> TRUE]

SentToAll(number, kind) ==
    LET event == [cursor |-> number, generation |-> generation, kind |-> kind]
    IN  /\ receiver' = [v \in Viewers |-> Received(receiver[v], event)]
        /\ offered' = [v \in Viewers |->
                IF offered[v] = Nothing THEN Nothing
                ELSE [offered[v] EXCEPT !.rx = Received(@, event)]]

\* The owner publishes the next event of its turn.
Publish ==
    /\ out # <<>> /\ FenceIsFree
    /\ cursor' = cursor + 1
    /\ SentToAll(cursor', Head(out).kind)
    /\ out' = Tail(out)
    /\ UNCHANGED <<connection, quiet, lines, hooks, saying, notices, observing, doing, view>>

\* SessionHandle::say, on any task: a cursor, ...
Say ==
    /\ FenceIsFree
    /\ cursor' = cursor + 1 /\ saying' = cursor' /\ notices' = notices + 1
    /\ UNCHANGED <<heldVars, observing, watching>>

\* ... and its event.
Said ==
    /\ saying # Nothing /\ saying' = Nothing
    /\ SentToAll(saying, "notice")
    /\ UNCHANGED <<heldVars, cursor, notices, observing, doing, view>>

---------------------------------------------------------------------------
(* Answering: the owner, in a turn of its own. *)

\* EventPublisher::answer: nothing for a caller that stopped waiting; else,
\* under the fence, a snapshot and a receiver of what comes after it.
AnswerRequest ==
    LET request == Head(requests)
    IN  /\ Turn({"up", "down"}) /\ requests # <<>>
        /\ requests' = Tail(requests)
        /\ \/ ~request.waits /\ UNCHANGED offered
           \/ /\ request.waits /\ FenceIsFree
              /\ offered' = [offered EXCEPT ![request.by] =
                                [snapshot |-> Snapshot, rx |-> Empty]]
        /\ UNCHANGED <<heldVars, publishing, final, doing, receiver, view>>

\* A variant of Finish that forgets who still waits.
FinishForgets ==
    /\ Turn({"closing"}) /\ life' = "over" /\ final' = Snapshot
    /\ UNCHANGED <<generation, quiet, lines, hooks, out, publishing, requests, watching>>

\* ObservationRequests::finish, in the turn that closed the session: the
\* final snapshot, taken without the fence, and nobody left waiting.
Finish ==
    /\ Turn({"closing"}) /\ life' = "over"
    /\ final' = Snapshot /\ requests' = <<>>
    /\ UNCHANGED <<generation, quiet, lines, hooks, out, publishing, watching>>

---------------------------------------------------------------------------
(* A viewer: presentation::project. *)

\* Pending::observe
Observed(seeing, event) ==
    IF event.cursor <= seeing.seen THEN seeing
    ELSE [seen |-> event.cursor,
          generation |-> event.generation,
          quiet |-> IF event.kind \in {"quiet", "loud"} THEN event.kind = "quiet"
                    ELSE seeing.quiet /\ event.generation = seeing.generation,
          dirty |-> TRUE,
          last |-> event.cursor,
          sound |-> seeing.sound /\ (seeing.last = 0 \/ event.cursor = seeing.last + 1)]

\* Pending::missing; a variant leaves the window open.
MissingStaysQuiet(seeing) == [seeing EXCEPT !.last = 0]
Missing(seeing) == [seeing EXCEPT !.quiet = FALSE, !.last = 0]

\* The viewer goes on from `snapshot`, on the receiver that starts after it.
Follow(v, snapshot, rx) ==
    /\ receiver' = [receiver EXCEPT ![v] = rx]
    /\ offered' = [offered EXCEPT ![v] = Nothing]
    /\ doing' = [doing EXCEPT ![v] = IF snapshot.over THEN "done" ELSE "following"]

\* A snapshot and the receiver that starts after it: a first one is shown as
\* it is; else what the old receiver still holds up to it is read first.
Take(v, snapshot, rx) ==
    IF receiver[v] = Nothing
    THEN /\ view' = [view EXCEPT ![v] = Fresh(snapshot)]
         /\ Follow(v, snapshot, rx)
    ELSE /\ doing' = [doing EXCEPT ![v] = "catching"]
         /\ offered' = [offered EXCEPT ![v] = [snapshot |-> snapshot, rx |-> rx]]
         /\ UNCHANGED <<receiver, view>>

\* SessionObserver::subscribe, tried again for as long as the inbox is full.
Ask(v) ==
    /\ doing[v] = "asking" /\ final = Nothing /\ Len(requests) < InboxRoom
    /\ requests' = Append(requests, [by |-> v, waits |-> TRUE])
    /\ doing' = [doing EXCEPT ![v] = "waiting"]
    /\ UNCHANGED <<heldVars, publishing, final, receiver, offered, view>>

Pending(v) == \E i \in DOMAIN requests : requests[i].by = v /\ requests[i].waits

\* SUBSCRIBE_TIMEOUT: this read is given up on, and tried again later.
TimedOut(v) ==
    /\ doing[v] = "waiting" /\ Pending(v)
    /\ requests' = [i \in DOMAIN requests |->
            [requests[i] EXCEPT !.waits = @ /\ requests[i].by # v]]
    /\ doing' = [doing EXCEPT ![v] = "asking"]
    /\ UNCHANGED <<heldVars, publishing, final, receiver, offered, view>>

TakeAnswer(v) ==
    /\ doing[v] = "waiting" /\ offered[v] # Nothing
    /\ Take(v, offered[v].snapshot, offered[v].rx)
    /\ UNCHANGED <<heldVars, publishing, observing>>

\* closed_snapshot: the inbox is closed, or its request was dropped.
TakeFinal(v) ==
    /\ final # Nothing
    /\ doing[v] = "asking" \/ (doing[v] = "waiting" /\ offered[v] = Nothing /\ ~Pending(v))
    /\ Take(v, final, Empty)
    /\ UNCHANGED <<heldVars, publishing, observing>>

\* catch_up, one read of the old receiver at a time, since other tasks publish
\* meanwhile: it goes on while the snapshot is ahead and the receiver has the
\* next event of those before it.
Behind(v) == view[v].seen < offered[v].snapshot.cursor

HasMore(v) ==
    /\ ~receiver[v].lagged /\ receiver[v].events # <<>>
    /\ Head(receiver[v].events).cursor <= offered[v].snapshot.cursor

CatchUp(v) ==
    /\ doing[v] = "catching" /\ Behind(v) /\ HasMore(v)
    /\ view' = [view EXCEPT ![v] = Observed(@, Head(receiver[v].events))]
    /\ receiver' = [receiver EXCEPT ![v].events = Tail(@)]
    /\ UNCHANGED <<heldVars, publishing, observing, doing, offered>>

\* Pending::fence, its events read: whether they were all there, and on.
Fence(v) ==
    LET snapshot == offered[v].snapshot
    IN  /\ doing[v] = "catching" /\ (Behind(v) => ~HasMore(v))
        /\ view' = [view EXCEPT ![v] =
                [IF Behind(v) THEN Missing(@) ELSE @
                    EXCEPT !.seen = snapshot.cursor, !.generation = snapshot.generation,
                           !.dirty = FALSE]]
        /\ Follow(v, snapshot, offered[v].rx)
        /\ UNCHANGED <<heldVars, publishing, observing>>

\* An event is read; a change of connection or lifecycle asks at once.
Recv(v) ==
    LET event == Head(receiver[v].events)
        asks == \/ event.generation # view[v].generation
                \/ event.kind \in {"reconnecting", "authenticating", "closed"}
    IN  /\ doing[v] = "following" /\ ~receiver[v].lagged /\ receiver[v].events # <<>>
        /\ receiver' = [receiver EXCEPT ![v].events = Tail(@)]
        /\ view' = [view EXCEPT ![v] = Observed(@, event)]
        /\ doing' = [doing EXCEPT ![v] = IF asks THEN "asking" ELSE "following"]
        /\ UNCHANGED <<heldVars, publishing, observing, offered>>

\* The receiver lost events: RecvError::Lagged.
Lagged(v) ==
    /\ doing[v] = "following" /\ receiver[v].lagged
    /\ receiver' = [receiver EXCEPT ![v].lagged = FALSE]
    /\ view' = [view EXCEPT ![v] = Missing(@)]
    /\ doing' = [doing EXCEPT ![v] = "asking"]
    /\ UNCHANGED <<heldVars, publishing, observing, offered>>

\* The interval, once something was heard.
Tick(v) ==
    /\ doing[v] = "following" /\ view[v].dirty
    /\ doing' = [doing EXCEPT ![v] = "asking"]
    /\ UNCHANGED <<heldVars, publishing, observing, receiver, offered, view>>

---------------------------------------------------------------------------

Bounded == arrived' + quiets' + generation' + notices' <= MaxHappenings

WakeStep == Wake /\ UNCHANGED <<publishing, observing, watching>>

OwnerStep == OwnerTurns /\ UNCHANGED <<publishing, observing, watching>> /\ Bounded

\* The runner has read a line before it answers it.
RunnerStep ==
    /\ \/ \E on \in BOOLEAN : HookLines(on)
       \/ \E n \in 1 .. arrived, a \in {"Hidden", "Text"} :
            Answer(n, a) /\ \A i \in DOMAIN out : out[i] # Heard(n)
    /\ UNCHANGED <<publishing, observing, watching>>

ClockStep == DeadlinePasses /\ UNCHANGED <<publishing, observing, watching>>

Viewer(v) ==
    \/ Ask(v) \/ TimedOut(v) \/ TakeAnswer(v) \/ TakeFinal(v)
    \/ CatchUp(v) \/ Fence(v) \/ Recv(v) \/ Lagged(v) \/ Tick(v)

Next ==
    \/ OwnerStep \/ RunnerStep \/ ClockStep
    \/ Publish \/ (Say /\ Bounded) \/ Said \/ AnswerRequest \/ Finish
    \/ \E v \in Viewers : Viewer(v)

Spec == Init /\ [][Next]_vars

\* The owner's loop turns, the clock runs, a notice begun is sent, and each
\* viewer's task runs; nothing is asked of the game or of the runner.
Fairness ==
    /\ WF_vars(Publish \/ WakeStep \/ Finish) /\ WF_vars(ClockStep) /\ WF_vars(Said)
    /\ \A v \in Viewers : WF_vars(Ask(v) \/ TakeAnswer(v) \/ TakeFinal(v)
                                   \/ CatchUp(v) \/ Fence(v) \/ Recv(v) \/ Lagged(v))

FairSpec == Spec /\ Fairness

---------------------------------------------------------------------------
(* Properties. *)

(***************************************************************************)
(* A viewer hears every event after its first snapshot once and in order,  *)
(* whatever snapshots it took in between, or is told of a gap where some    *)
(* are missing: no event is lost at the seam of a snapshot and its          *)
(* subscription (observation.rs, EventPublisher; catch_up).                 *)
(***************************************************************************)
HeardOnceInOrder ==
    \A v \in Viewers : /\ view[v].sound
                       /\ view[v].last \in {0, view[v].seen}

(***************************************************************************)
(* A viewer that has read everything published leaves main-stream text out *)
(* only while the session is inside a quiet command's window: no lag, lost *)
(* connection or fresh snapshot leaves it silent (pending.rs, missing and  *)
(* observe; event.rs, Event::Quiet).                                       *)
(***************************************************************************)
CaughtUp(v) == /\ receiver[v] # Nothing
               /\ receiver[v].events = <<>> /\ ~receiver[v].lagged

QuietWithTheWindow ==
    \A v \in Viewers :
        view[v].quiet /\ CaughtUp(v) /\ FenceIsFree /\ Turn({"up"}) => window

(***************************************************************************)
(* The lines a turn shows are those that stopped waiting, oldest first and  *)
(* before any that still waits; and of those only a line answered "hide" is *)
(* not shown.  Deadlines, answers out of turn, hooks turned off and a lost  *)
(* connection all meet here (hooked.rs, show_held; line.rs, publish_line).  *)
(***************************************************************************)
LinesIn(waiting) == {waiting[i].line : i \in DOMAIN waiting}

TurnShowsInOrder ==
    LET gone == (LinesIn(held) \union (arrived + 1) .. arrived') \ LinesIn(held')
        shows == {i \in DOMAIN out' : out'[i].kind = "line"}
        shown == {out'[i].line : i \in shows}
        hidden == {n \in gone : \/ [line |-> n, answer |-> "Hidden"] \in answers
                                \/ \E i \in DOMAIN held : held[i].line = n
                                                        /\ held[i].answer = "Hidden"}
    IN  /\ \A i, j \in shows : i < j => out'[i].line < out'[j].line
        /\ \A n \in gone, m \in LinesIn(held') : n < m
        /\ shown \subseteq gone /\ gone \ shown \subseteq hidden

ShownInOrder == [][out = <<>> => TurnShowsInOrder]_vars

(***************************************************************************)
(* Nothing is held for good: once the game falls silent, what waits for a   *)
(* runner's hooks is let go, whatever the runner does or leaves undone, and *)
(* however the connection ends (hooked.rs, HOOK_DEADLINE).                 *)
(***************************************************************************)
HeldIsLetGo == held # <<>> ~> held = <<>>

(***************************************************************************)
(* Once a session closes, every viewer comes to its final snapshot, even   *)
(* one whose request waited, was abandoned or met a full inbox as the       *)
(* session ended (observation.rs, finish, closed_snapshot).                 *)
(***************************************************************************)
EndIsSeen == life = "closing" ~> \A v \in Viewers : doing[v] = "done"
=============================================================================

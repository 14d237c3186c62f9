----------------------------- MODULE AgentDoor -----------------------------
(***************************************************************************)
(* The door an agent acts through (crates/cena-session/src/agent.rs,       *)
(* agent/, operation.rs).  An agent's act is decided under one lock -- the  *)
(* level allows it, or the player is asked, or it is refused -- and done    *)
(* with the lock let go.  In between, the player may lower the level,       *)
(* approve, deny or stop, the connection may be replaced, a run may end     *)
(* badly and drop the level, and the session's own task writes lines.       *)
(*                                                                         *)
(* Who acts: the agent's calls (Calls), the player (Player), the watcher   *)
(* of each operation, and the session's task.  The agent's lock is one     *)
(* step; what a handler does between two locks is a step of its own.       *)
(***************************************************************************)
EXTENDS Integers, Sequences, FiniteSets

CONSTANTS
    Lines,          \* request ids that ask to send a line (Act::Command)
    Runs,           \* ... to run a behavior (Act::Perform)
    Takeovers,      \* ... to take the character over (Act::TakeOver)
    Stops,          \* ... to stop the first operation (Act::Control)
    Calls,          \* the agent's calls under way at once
    Player,         \* the player: approves, denies, sets the level, stops
    Levels,         \* the levels the player sets, of Off .. Takeover
    MaxWaiting,     \* MAX_WAITING: requests waiting for the player
    Kept,           \* KEPT_REQUESTS: request ids remembered
    MaxAsks,        \* bound: requests put to the player
    MaxOperations,  \* bound: operations started
    MaxGeneration   \* bound: connections

Off == 0
Observe == 1
Behaviors == 3
Commands == 4
Takeover == 5

Requests == Lines \cup Runs \cup Takeovers \cup Stops
Doers == Calls \cup {Player}

(* An act is of one kind; a takeover is no other's.                         *)
ASSUME ConstantsAssumption ==
    /\ Player \notin Calls
    /\ Takeovers \cap (Lines \cup Runs \cup Stops) = {}
    /\ Levels \subseteq Off .. Takeover /\ Levels # {}
    /\ {MaxWaiting, MaxAsks, MaxOperations} \subseteq Nat
    /\ {Kept, MaxGeneration} \subseteq Nat \ {0}

(* Act::needs *)
Needs(r) == IF r \in Lines THEN Commands
            ELSE IF r \in Takeovers THEN Takeover ELSE Behaviors

VARIABLES
    level,       \* Inner::level
    waiting,     \* Inner::waiting: what the player was asked, the lowest id first
    late,        \* the ids of waiting requests whose time has passed
    requests,    \* Inner::requests: the ids remembered, with their answers
    asked,       \* Inner::last_id
    generation,  \* the connection
    holder,      \* who holds the command authority
    takeover,    \* Inner::takeover: the operation holding, 0 for none
    ops,         \* operation::Table: every operation started, with its line
    doer,        \* how far each caller has come
    refused,     \* history: the ids denied, lapsed or dropped
    evicted      \* history: the requests remember() pushed out

door == <<level, waiting, late, requests, asked, refused, evicted>>
world == <<generation, holder, takeover>>
vars == <<door, world, ops, doer>>

(* An answer remembered: what it is, and the id asked under or the          *)
(* operation started (0 for neither).                                       *)
Answer(is, n) == [is |-> is, n |-> n]

Idle == [at |-> "idle", request |-> Player, id |-> 0, generation |-> 0,
         token |-> "unread", op |-> 0, running |-> {}]

Init ==
    /\ level \in Levels
    /\ waiting = {} /\ late = {} /\ requests = <<>> /\ asked = 0
    /\ generation = 1
    /\ holder \in {"none", "behavior"}
    /\ takeover = 0
    /\ ops = <<>>
    /\ doer = [d \in Doers |-> Idle]
    /\ refused = {} /\ evicted = {}

-----------------------------------------------------------------------------
(* What is done under the agent's lock. *)

Ids(asks) == {w.id : w \in asks}
Remembered(r) == \E i \in DOMAIN requests : requests[i].request = r

(* The requests still waiting once those past their time are taken out. *)
Live == {w \in waiting : w.id \notin late}

(* Inner::settle_asked, for each of ids: the request asked under it was not *)
(* let through.                                                             *)
NotApproved(list, ids) ==
    [i \in DOMAIN list |->
        IF list[i].answer.is = "asked" /\ list[i].answer.n \in ids
        THEN [list[i] EXCEPT !.answer.is = "not approved"] ELSE list[i]]

(* Inner::lapse: every handler that takes the lock to read what waits first *)
(* takes out what is past its time.                                         *)
Lapse == late' = {} /\ refused' = refused \cup late
Lapsed == NotApproved(requests, late)

(* Inner::remember, after a lapse. *)
RememberAll(r, answer) ==
    requests' = Append(Lapsed, [request |-> r, answer |-> answer]) /\ UNCHANGED evicted
Remember(r, answer) ==
    LET longer == Append(Lapsed, [request |-> r, answer |-> answer])
    IN IF Len(longer) > Kept
       THEN requests' = Tail(longer) /\ evicted' = evicted \cup {longer[1].request}
       ELSE requests' = longer /\ UNCHANGED evicted

(* The request ids' memory after a handler that only lapsed. *)
OnlyLapse == /\ Lapse /\ waiting' = Live /\ requests' = Lapsed
             /\ UNCHANGED <<level, asked, evicted>>

Step(d, to) == doer' = [doer EXCEPT ![d].at = to]
Done(d) == doer' = [doer EXCEPT ![d] = Idle]

-----------------------------------------------------------------------------
(* Operations.  `line` is the Revocable: "none" for a run or a takeover.    *)
(* `queue` is the session's side of the line, `trip` the watcher's; `hold`  *)
(* is how far a takeover's task has come; `ending` that a run or takeover   *)
(* was told to end; `out` what its future resolved to; `drop` how far the   *)
(* watcher of a run that ended badly has come in dropping the level, and    *)
(* `holds` the takeover it found there.                                     *)
Operation(r, d) ==
    [request |-> r, id |-> doer[d].id, generation |-> doer[d].generation,
     life |-> "made",
     line |-> IF r \in Lines THEN "waiting" ELSE "none",
     held |-> r \in Lines /\ doer[d].token = "agent",
     queue |-> "no", trip |-> "no", hold |-> "no",
     ending |-> FALSE, out |-> "none", drop |-> "no", holds |-> 0]

Running(o) == ops[o].life = "running"
Ended(o) == o \in DOMAIN ops /\ ops[o].life = "ended"
IsRun(o) == ops[o].request \in Runs
IsTakeover(o) == ops[o].request \in Takeovers
Badly == {"bad"}
Set(o, field, value) == [ops EXCEPT ![o] = [@ EXCEPT ![field] = value]]

(* Revocable::take_back: only what still waits to be written. *)
TakenBack(op) == IF op.line = "waiting" THEN [op EXCEPT !.line = "taken"] ELSE op

(* A stop, as each kind of operation takes it (its steer): a line is taken  *)
(* back, a run or a takeover told to end.                                   *)
Stopped(o) == IF ops[o].line = "none" THEN Set(o, "ending", TRUE)
              ELSE [ops EXCEPT ![o] = TakenBack(@)]
TakesAStop(o) == ops[o].line \in {"none", "waiting"}

(* set_agent_level, under the lock: a lowered level takes back every line   *)
(* not yet written, and every act still waiting is answered not approved.   *)
StillWaiting == waiting
WaitingOnceSet == {}
LinesOnceSet(l, held) ==
    IF l < level THEN [o \in DOMAIN held |-> TakenBack(held[o])] ELSE held
SetLevel(l, held) ==
    /\ level' = l
    /\ waiting' = WaitingOnceSet
    /\ requests' = NotApproved(requests, Ids(waiting))
    /\ refused' = refused \cup Ids(waiting)
    /\ late' = {}
    /\ ops' = LinesOnceSet(l, held)
    /\ UNCHANGED <<asked, evicted>>

(* level_changed: below Takeover, the takeover found under the lock is to   *)
(* be taken back once the lock is let go.                                   *)
FoundHeld(l) == IF l < Takeover THEN takeover ELSE 0

(* Holding::take_back: the authority first, then the takeover's end. *)
TakeBack(o, held) ==
    /\ holder' = IF holder = "agent" THEN "none" ELSE holder
    /\ ops' = [held EXCEPT ![o].ending = TRUE]

-----------------------------------------------------------------------------
(* The agent's call (Door::act). *)

(* The connection is read before the lock; a call meant for another one is  *)
(* refused there.                                                           *)
Call(k, r) ==
    /\ doer[k].at = "idle"
    /\ doer' = [doer EXCEPT ![k] = [Idle EXCEPT !.at = "admitted", !.request = r,
                                    !.generation = generation]]
    /\ UNCHANGED <<door, world, ops>>

(* stale: a run while the agent holds the character, a stop of what is not  *)
(* there or has ended.                                                      *)
IsOpen(o) == o \in DOMAIN ops /\ Running(o)
Stale(r) == \/ r \in Runs /\ takeover # 0
            \/ r \in Stops /\ ~IsOpen(1)

Deciding(k) == doer[k].at = "admitted"
Fresh(k) == Deciding(k) /\ ~Remembered(doer[k].request) /\ ~Stale(doer[k].request)
Allowed(k) == level >= Needs(doer[k].request)

(* A request id seen before is answered as it was; one that can no longer   *)
(* be done, or is not to be put to the player, is refused.                  *)
Turn(k) ==
    /\ Deciding(k)
    /\ \/ Remembered(doer[k].request)
       \/ Stale(doer[k].request)
       \/ ~Allowed(k) /\ (level = Off \/ Cardinality(Live) >= MaxWaiting)
    /\ OnlyLapse
    /\ Done(k)
    /\ UNCHANGED <<world, ops>>

AllowUnremembered(k) ==
    /\ Fresh(k) /\ Allowed(k)
    /\ Lapse /\ waiting' = Live /\ requests' = Lapsed
    /\ Step(k, "do")
    /\ UNCHANGED <<level, asked, evicted, world, ops>>

Allow(k) ==
    /\ Fresh(k) /\ Allowed(k)
    /\ Lapse /\ waiting' = Live
    /\ Remember(doer[k].request, Answer("in flight", 0))
    /\ Step(k, "do")
    /\ UNCHANGED <<level, asked, world, ops>>

(* The player is asked.  The request is kept with the connection of now,    *)
(* read again, not with the one the call was checked against.               *)
Ask(k) ==
    /\ Fresh(k) /\ ~Allowed(k) /\ level # Off
    /\ Cardinality(Live) < MaxWaiting /\ asked < MaxAsks
    /\ Lapse
    /\ asked' = asked + 1
    /\ waiting' = Live \cup {[id |-> asked', request |-> doer[k].request,
                              generation |-> generation]}
    /\ Remember(doer[k].request, Answer("asked", asked'))
    /\ Done(k)
    /\ UNCHANGED <<level, world, ops>>

-----------------------------------------------------------------------------
(* Doing an act (SessionHandle::perform): by a call the level allowed, or   *)
(* by the player's approval.                                                *)

Doing(d, kind) == doer[d].at = "do" /\ doer[d].request \in kind
Start(d) == /\ ops' = Append(ops, Operation(doer[d].request, d))
            /\ doer' = [doer EXCEPT ![d].at = "made", ![d].op = Len(ops) + 1]
MayStart == Len(ops) < MaxOperations

(* operation::send: the token the line goes under is read, then the line is *)
(* kept among the unsent, each under the lock, before its operation is      *)
(* registered.                                                              *)
ReadToken(d) ==
    /\ Doing(d, Lines) /\ doer[d].token = "unread"
    /\ doer' = [doer EXCEPT ![d].token = IF takeover # 0 THEN "agent" ELSE "none"]
    /\ UNCHANGED <<door, world, ops>>

KeepLine(d) ==
    /\ Doing(d, Lines) /\ doer[d].token # "unread" /\ MayStart
    /\ Start(d)
    /\ UNCHANGED <<door, world>>

(* operation::start *)
StartRun(d) == Doing(d, Runs) /\ MayStart /\ Start(d) /\ UNCHANGED <<door, world>>

(* take_over: checked and recorded under one lock. *)
RecordUnchecked(d) ==
    /\ Doing(d, Takeovers) /\ MayStart
    /\ takeover' = Len(ops) + 1
    /\ Start(d)
    /\ UNCHANGED <<door, generation, holder>>

RecordTakeover(d) ==
    /\ Doing(d, Takeovers) /\ MayStart
    /\ takeover = 0
    /\ takeover' = Len(ops) + 1
    /\ Start(d)
    /\ UNCHANGED <<door, generation, holder>>

AlreadyHeld(d) ==
    /\ Doing(d, Takeovers) /\ takeover # 0
    /\ Step(d, "failed")
    /\ UNCHANGED <<door, world, ops>>

(* operation::begin: the operation is added, and its watcher spawned, which *)
(* starts the line's round trip or the takeover's task.                     *)
Register(d) ==
    LET o == doer[d].op IN
    /\ doer[d].at = "made"
    /\ ops' = [ops EXCEPT ![o].life = "running",
                          ![o].queue = IF ops[o].line = "none" THEN "no" ELSE "in",
                          ![o].trip = IF ops[o].line = "none" THEN "no" ELSE "open",
                          ![o].hold = IF IsTakeover(o) THEN "starting" ELSE "no"]
    /\ Step(d, "done")
    /\ UNCHANGED <<door, world>>

(* operation::steer, with a stop, of the first operation. *)
Steer(d) ==
    /\ Doing(d, Stops)
    /\ IF IsOpen(1) /\ TakesAStop(1)
       THEN ops' = Stopped(1) /\ Step(d, "done")
       ELSE UNCHANGED ops /\ Step(d, "failed")
    /\ UNCHANGED <<door, world>>

(* What is remembered afterwards: settle, or forget; settle_asked for an    *)
(* approval.                                                                *)
Entry(d, e) == IF d = Player THEN e.answer = Answer("asked", doer[d].id)
                             ELSE e.request = doer[d].request
Settle(d) ==
    /\ doer[d].at = "done"
    /\ requests' = [i \in DOMAIN requests |->
          IF Entry(d, requests[i])
          THEN [requests[i] EXCEPT !.answer = Answer("done", doer[d].op)]
          ELSE requests[i]]
    /\ Done(d)
    /\ UNCHANGED <<level, waiting, late, asked, refused, evicted, world, ops>>

(* What is remembered but r, which is there once at most. *)
Forgotten(r) ==
    LET i == CHOOSE j \in DOMAIN requests : requests[j].request = r
    IN IF Remembered(r)
       THEN SubSeq(requests, 1, i - 1) \o SubSeq(requests, i + 1, Len(requests))
       ELSE requests
Fail(d) ==
    /\ doer[d].at = "failed"
    /\ requests' = IF d = Player THEN NotApproved(requests, {doer[d].id})
                   ELSE Forgotten(doer[d].request)
    /\ Done(d)
    /\ UNCHANGED <<level, waiting, late, asked, refused, evicted, world, ops>>

-----------------------------------------------------------------------------
(* The player (SessionHandle's side of the agent). *)

PlayerIs(at) == doer[Player].at = at

(* A waiting request's two minutes run out, the oldest's first. *)
Expire ==
    /\ \E w \in Live : /\ \A v \in Live : w.id <= v.id
                       /\ late' = late \cup {w.id}
    /\ UNCHANGED <<level, waiting, requests, asked, refused, evicted, world, ops, doer>>

(* agent_requests *)
ListRequests == PlayerIs("idle") /\ late # {} /\ OnlyLapse /\ UNCHANGED <<world, ops, doer>>

(* take_request, as approve_agent and deny_agent call it. *)
TakeRequest(w, to) ==
    /\ PlayerIs("idle")
    /\ waiting' = {v \in Live : v.id # w.id}
    /\ requests' = Lapsed
    /\ late' = {}
    /\ doer' = [doer EXCEPT ![Player] =
          [Idle EXCEPT !.at = to, !.request = w.request, !.id = w.id,
                       !.generation = w.generation]]
    /\ UNCHANGED <<level, asked, evicted, world, ops>>

Approve(w) == TakeRequest(w, "taken") /\ refused' = refused \cup late
Deny(w) == TakeRequest(w, "failed") /\ refused' = refused \cup late \cup {w.id}

(* approve_agent: only on the connection it was asked on. *)
CheckConnection ==
    /\ PlayerIs("taken")
    /\ Step(Player, IF doer[Player].generation = generation THEN "do" ELSE "failed")
    /\ UNCHANGED <<door, world, ops>>

(* set_agent_level, and what it takes back after the lock. *)
PlayerSetsLevel(l) ==
    /\ PlayerIs("idle") /\ l # level
    /\ SetLevel(l, ops)
    /\ doer' = [doer EXCEPT ![Player] =
          IF FoundHeld(l) = 0 THEN Idle
          ELSE [Idle EXCEPT !.at = "lowered", !.op = FoundHeld(l)]]
    /\ UNCHANGED world

PlayerTakesBack ==
    /\ PlayerIs("lowered")
    /\ TakeBack(doer[Player].op, ops)
    /\ Done(Player)
    /\ UNCHANGED <<door, generation, takeover>>

(* stop_agent: what runs is listed, the takeover found, taken back with the *)
(* lock let go, then each of the others told to stop.                       *)
StopAgent ==
    /\ PlayerIs("idle")
    /\ doer' = [doer EXCEPT ![Player] =
          [Idle EXCEPT !.at = "stopping", !.running = {o \in DOMAIN ops : Running(o)}]]
    /\ UNCHANGED <<door, world, ops>>

FindTakeover ==
    /\ PlayerIs("stopping")
    /\ doer' = [doer EXCEPT ![Player].at = IF takeover # 0 THEN "found" ELSE "stop",
                            ![Player].op = takeover, ![Player].running = @ \ {takeover}]
    /\ UNCHANGED <<door, world, ops>>

StopTakeover ==
    /\ PlayerIs("found")
    /\ TakeBack(doer[Player].op, ops)
    /\ Step(Player, "stop")
    /\ UNCHANGED <<door, generation, takeover>>

StopOne(o) ==
    /\ PlayerIs("stop") /\ o \in doer[Player].running
    /\ ops' = IF Running(o) /\ TakesAStop(o) THEN Stopped(o) ELSE ops
    /\ doer' = [doer EXCEPT ![Player].running = @ \ {o}]
    /\ UNCHANGED <<door, world>>

StopsDone ==
    /\ PlayerIs("stop") /\ doer[Player].running = {}
    /\ Done(Player)
    /\ UNCHANGED <<door, world, ops>>

-----------------------------------------------------------------------------
(* The session's task and the connection. *)

(* CommandQueue::take_next: a line whose caller is gone is dropped, and one *)
(* sent as the holder's once the agent no longer holds is refused.          *)
Pop(o) ==
    /\ ops[o].queue = "in"
    /\ ops' = Set(o, "queue",
          IF ops[o].trip = "open" /\ (ops[o].held => holder = "agent")
          THEN "popped" ELSE "out")
    /\ UNCHANGED <<door, world, doer>>

(* The session refuses it for a reason of its own: admission, the gate. *)
Refuse(o) ==
    /\ ops[o].queue \in {"in", "popped"}
    /\ ops' = Set(o, "queue", "out")
    /\ UNCHANGED <<door, world, doer>>

(* SessionActor::pump: the connection's fence, then Revocable::write, then  *)
(* the bytes.                                                               *)
MayWrite(o) == ops[o].generation = generation
Write(o) ==
    /\ ops[o].queue = "popped"
    /\ ops' = IF MayWrite(o) /\ ops[o].line = "waiting"
              THEN [ops EXCEPT ![o].queue = "out", ![o].line = "written"]
              ELSE Set(o, "queue", "out")
    /\ UNCHANGED <<door, world, doer>>

(* A new connection. *)
Reconnect ==
    /\ generation < MaxGeneration
    /\ generation' = generation + 1
    /\ UNCHANGED <<door, holder, takeover, ops, doer>>

(* A behavior of the player's takes the authority, and lets it go.          *)
BehaviorClaims ==
    /\ holder' = IF holder = "none" THEN "behavior" ELSE "none"
    /\ holder # "agent"
    /\ UNCHANGED <<door, generation, takeover, ops, doer>>

-----------------------------------------------------------------------------
(* The operations' own tasks. *)

(* The round trip resolves: answered, refused, or its deadline. *)
TripEnds(o) ==
    /\ ops[o].trip = "open"
    /\ ops' = Set(o, "trip", "over")
    /\ UNCHANGED <<door, world, doer>>

(* operation::send's future: taken back, or the round trip's end, which     *)
(* takes back what is not written yet before it says so.                    *)
Resolved(o) == Running(o) /\ ops[o].out = "none" /\
               (ops[o].line = "taken" \/ ops[o].trip = "over")
LineResolvesAsItIs(o) ==
    /\ Resolved(o) /\ ops[o].line # "none"
    /\ ops' = [ops EXCEPT ![o].trip = "over",
          ![o].out = IF ops[o].line = "written" THEN "heard" ELSE "unsent"]
    /\ UNCHANGED <<door, world, doer>>
LineResolvesOnceWritten(o) ==
    /\ Resolved(o) /\ ops[o].line = "written"
    /\ ops' = [ops EXCEPT ![o].trip = "over", ![o].out = "heard"]
    /\ UNCHANGED <<door, world, doer>>
LineResolves(o) ==
    /\ Resolved(o) /\ ops[o].line # "none"
    /\ ops' = [ops EXCEPT ![o] = [TakenBack(@) EXCEPT !.trip = "over",
          !.out = IF ops[o].line = "written" THEN "heard" ELSE "unsent"]]
    /\ UNCHANGED <<door, world, doer>>

(* A run ends, well or badly (dead, disconnected, wedged, trouble).  *)
RunEnds(o, how) ==
    /\ IsRun(o) /\ ops[o].out = "none"
    /\ ops' = Set(o, "out", how)
    /\ UNCHANGED <<door, world, doer>>

(* hold: stop what runs, ... *)
Preempt(o) ==
    /\ ops[o].hold = "starting"
    /\ holder' = "none"
    /\ ops' = Set(o, "hold", "claiming")
    /\ UNCHANGED <<door, generation, takeover, doer>>

(* ... take the authority, which another may have taken in between, ... *)
Claim(o) ==
    /\ ops[o].hold = "claiming"
    /\ IF holder = "none"
       THEN holder' = "agent" /\ ops' = Set(o, "hold", "holding")
       ELSE /\ UNCHANGED holder
            /\ ops' = [ops EXCEPT ![o].hold = "over", ![o].out = "good"]
    /\ UNCHANGED <<door, generation, takeover, doer>>

(* ... hold it until it is told to end, the agent is idle or the session    *)
(* closes ("good"), or the character dies or the connection drops ("bad"),  *)
(* and give it back.                                                        *)
LetGo(o, how) ==
    /\ ops[o].hold = "holding"
    /\ holder' = IF holder = "agent" THEN "none" ELSE holder
    /\ ops' = [ops EXCEPT ![o].hold = "over", ![o].out = how]
    /\ UNCHANGED <<door, generation, takeover, doer>>

(* The record is cleared, when it is still its own. *)
ClearNothing(o) ==
    /\ ops[o].hold = "over"
    /\ ops' = Set(o, "hold", "no")
    /\ UNCHANGED <<door, world, doer>>
ClearRecord(o) ==
    /\ ops[o].hold = "over"
    /\ takeover' = IF takeover = o THEN 0 ELSE takeover
    /\ ops' = Set(o, "hold", "no")
    /\ UNCHANGED <<door, generation, holder, doer>>

(* operation::begin's watcher: the operation ends, and a run that ended     *)
(* badly drops the level.                                                   *)
End(o) ==
    /\ Running(o) /\ ops[o].out # "none" /\ ops[o].hold = "no"
    /\ ops' = [ops EXCEPT ![o].life = "ended",
                          ![o].drop = IF ops[o].out \in Badly THEN "look" ELSE "no"]
    /\ UNCHANGED <<door, world, doer>>

(* drop_level: looked at, then set, under two locks. *)
LookAtLevel(o) ==
    /\ ops[o].drop = "look"
    /\ ops' = Set(o, "drop", IF level <= Observe THEN "no" ELSE "set")
    /\ UNCHANGED <<door, world, doer>>

DropLevel(o) ==
    /\ ops[o].drop = "set"
    /\ IF level = Observe
       THEN ops' = Set(o, "drop", "no") /\ UNCHANGED door
       ELSE SetLevel(Observe,
                IF takeover = 0 THEN Set(o, "drop", "no")
                ELSE [ops EXCEPT ![o].drop = "take back", ![o].holds = takeover])
    /\ UNCHANGED <<world, doer>>

DropTakesBack(o) ==
    /\ ops[o].drop = "take back"
    /\ TakeBack(ops[o].holds, Set(o, "drop", "no"))
    /\ UNCHANGED <<door, generation, takeover, doer>>

-----------------------------------------------------------------------------
CallNext(k) == \/ \E r \in Requests : Call(k, r)
               \/ Turn(k) \/ Allow(k) \/ Ask(k)
DoerNext(d) == \/ ReadToken(d) \/ KeepLine(d) \/ StartRun(d) \/ RecordTakeover(d) \/ AlreadyHeld(d)
               \/ Register(d) \/ Steer(d) \/ Settle(d) \/ Fail(d)
PlayerNext == \/ ListRequests
              \/ \E w \in Live : Approve(w) \/ Deny(w)
              \/ \E l \in Levels : PlayerSetsLevel(l)
              \/ CheckConnection \/ PlayerTakesBack
              \/ StopAgent \/ FindTakeover \/ StopTakeover \/ StopsDone
              \/ \E o \in DOMAIN ops : StopOne(o)
SessionNext(o) == Pop(o) \/ Refuse(o) \/ Write(o)
TaskNext(o) == \/ TripEnds(o) \/ LineResolves(o) \/ End(o)
               \/ Preempt(o) \/ Claim(o) \/ ClearRecord(o)
               \/ LookAtLevel(o) \/ DropLevel(o) \/ DropTakesBack(o)
Ends(o) == \E how \in {"good", "bad"} : RunEnds(o, how) \/ LetGo(o, how)

Next == \/ \E k \in Calls : CallNext(k)
        \/ \E d \in Doers : DoerNext(d)
        \/ PlayerNext
        \/ \E o \in DOMAIN ops : SessionNext(o) \/ TaskNext(o) \/ Ends(o)
        \/ Expire \/ Reconnect \/ BehaviorClaims

Spec == Init /\ [][Next]_vars

(* The tasks run, a round trip has a deadline, and a takeover told to end   *)
(* hears it (held selects on its ending).  Nothing else is promised.        *)
Tasks(o) == o \in DOMAIN ops /\ TaskNext(o)
LetsGoOnceTold(o) == o \in DOMAIN ops /\ ops[o].ending /\ LetGo(o, "good")
FairSpec == /\ Spec
            /\ \A o \in 1 .. MaxOperations : WF_vars(Tasks(o)) /\ WF_vars(LetsGoOnceTold(o))
            /\ \A d \in Doers : WF_vars(Register(d))

-----------------------------------------------------------------------------
TypeOK ==
    /\ level \in Off .. Takeover
    /\ waiting \subseteq [id : 1 .. asked, request : Requests,
                          generation : 1 .. generation]
    /\ late \subseteq Ids(waiting)
    /\ Len(requests) <= Kept
    /\ asked \in 0 .. MaxAsks /\ refused \subseteq 1 .. asked
    /\ generation \in 1 .. MaxGeneration
    /\ holder \in {"none", "behavior", "agent"}
    /\ takeover \in 0 .. Len(ops) /\ Len(ops) <= MaxOperations
    /\ \A o \in DOMAIN ops :
          /\ ops[o].life \in {"made", "running", "ended"}
          /\ ops[o].line \in {"none", "waiting", "written", "taken"}
          /\ ops[o].generation \in 1 .. generation
    /\ evicted \subseteq Requests

(* The same request id again is answered as the first time and never done   *)
(* twice (door.rs, Call), however the calls overlap: no request starts two   *)
(* operations while its id is remembered.                                    *)
DoneOnce ==
    \A o, p \in DOMAIN ops :
        ops[o].request = ops[p].request /\ ops[o].request \notin evicted => o = p

(* What the player denied, let lapse, or left waiting when the level        *)
(* changed is never done after, and what they let through is done once:     *)
(* "a level lowered and raised again never brings one back" (agent.rs).     *)
RefusedIsNotDone ==
    \A o \in DOMAIN ops : ops[o].id # 0 =>
        /\ ops[o].id \notin refused
        /\ \A p \in DOMAIN ops : ops[p].id = ops[o].id => p = o

(* An operation that ended saying its line was not sent says so for good:   *)
(* the line is never written after (operation.rs, send).                    *)
UnsentIsUnsent ==
    \A o \in DOMAIN ops : ops[o].out = "unsent" => ops[o].line = "taken"

(* The agent never holds the authority with nothing a lowered level or a    *)
(* stop could take it back by (takeover.rs, take_over).                     *)
HeldCanBeTakenBack == holder = "agent" => takeover # 0

(* A takeover the player took back or the agent gave up is over, its record *)
(* cleared, so that another can begin.                                       *)
TakenBackEnds ==
    \A o \in 1 .. MaxOperations :
        (o \in DOMAIN ops /\ IsTakeover(o) /\ ops[o].ending) ~> Ended(o) /\ takeover # o

(* Every line's operation ends, sent or not: nothing leaves it running.     *)
LinesEnd ==
    \A o \in 1 .. MaxOperations :
        (o \in DOMAIN ops /\ ops[o].line # "none") ~> Ended(o)

-----------------------------------------------------------------------------
(* What the documentation says and the code does not do. *)

(* A level lowered takes back every line of the agent's still waiting: "what *)
(* it was allowed, it no longer is" (agent.rs, set_agent_level).  No line    *)
(* the level allowed is written while the level does not.                   *)
NotWrittenBelowTheLevel ==
    [][\A o \in DOMAIN ops :
        ops[o].line = "waiting" /\ ops'[o].line = "written" /\ ops[o].id = 0
            => level >= Commands]_vars
=============================================================================

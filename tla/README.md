# Cena's session core and what stands on it, in TLA+

Cena ("Hydra" to its players) is a client for a text game. A person, the
client's own *behaviors* (hunting, travel, healing), scripts and an outside
agent all send lines to one character over one connection. The game answers
with text and *prompts*, says nothing about which line it is answering, drops
connections, and logs characters out. This directory specifies and verifies the
part of the program that has to get that right, `crates/cena-session`: the
session and its command authority, the door an outside agent acts through, and
the file a character's facts are kept in, and what a session shows its viewers;
and, of `crates/cena-behavior`, the rest of a group of hunting characters.

Unless said otherwise, a path is below `src/crates/cena-session/src/`.

* [1 The system](#1-the-system): inventory, interactions, what is hard
* [2 The modules](#2-the-modules): how state and actions correspond to the code
* [3 What the runs check](#3-what-the-runs-check), with bounds and fairness
* [4 What the code does that its documents do not say](#4-disagreements)
* [5 What is proved](#5-what-is-proved)
* [6 What is not modelled](#6-what-is-not-modelled)
* [7 The plan](#7-the-plan)

## 1 The system

### Inventory

| Component | Where | State it keeps | Operations | Correct when |
|---|---|---|---|---|
| Command queue and window | `queue.rs`, `actor/io.rs` | two queues, the command in flight, owed answers | admit, write, match, answer, expire, abandon, cancel | a verdict is about its own line; the player goes first |
| Owed prompts | `actor/owed.rs` | prompts due to lines that left or had no window | owe, spend, expire | the ledger is the wire |
| Session actor | `actor.rs`, `actor/` | the loop, one read, quits in progress | take a message, pump, read, end | every caller is told once, and nothing wedges the loop |
| Session handle | `command/handle.rs`, `command/round_trip.rs`, `command/farewell.rs` | a sender, a generation, deadlines | send, round trip, quit, claim, release | a caller's end is heard |
| Command authority | `command/authority.rs` | one cell | claim, release, revoke, preempt | at most one run holds it, and it comes back |
| Attendance | `command/attendance.rs` | a mark, an open page | mark, take | a loss is counted for who was there |
| Supervisor | `supervisor.rs`, `supervisor/`, `lifecycle.rs` | the attempt, unattended losses, the generation | log in, run, judge a loss, wait, sweep, stop | no line outlives its connection; no storm of logins; gone means gone |
| Agent door and approvals | `agent.rs`, `agent/door.rs`, `agent/perform.rs` | a level, requests waiting and remembered | act, ask, approve, deny, lapse, settle, set the level | an act is done at most once and never when refused |
| Agent takeover | `agent/takeover.rs` | the operation that holds the authority for the agent | preempt, claim, hold, take back, drop the level | what is held can be taken back |
| Operations | `operation.rs` | the table of an agent's runs | start, send, steer, progress, end | every operation ends, and says truly whether its line was sent |
| Observation | `observation.rs`, `actor/event.rs` | cursor, event rings, a bounded inbox of requests, final snapshot | publish, say, answer, subscribe, catch up, finish | a viewer's snapshots and events have no gap or repeat it does not know of; everybody sees the end |
| A viewer's pump | `cena-web/src/presentation.rs`, `.../pending.rs`; `cena-gui/src/feed.rs` | the receiver it follows, what it has seen, the connection, whether a report is kept out | follow, ask again, take, lag | the story is whole or says where it is not; it is never silent for good |
| Hooks and Lich text | `actor/hooked.rs`, `script.rs` | lines held for a script's answer | hold, answer, show at the deadline | order is kept, nothing waits for ever |
| Character saves | `actor/saves.rs`, `dirty_groups.rs`, `character_store.rs`, `actor/ending.rs` | the groups taught, a deadline, a chain of writes, one file | load, mark, save, finish | nothing learned is lost or overwritten by older facts; a stamp never claims more than was read |
| Logs and recorders | `player_log/`, `combat_recorder*`, `ledger*` | bounded channels to threads, files, SQLite | append, rotate, report | best effort |
| Platform, protocol, model, map | `cena-platform`, `cena-protocol`, `cena-model`, `cena-map` | sockets; the reduced game state; the map | read and write; parse; reduce; route | their content |
| Group hunting | `cena-behavior/src/hunt/party.rs`, `hunt/rest.rs`, `group/` | the leader's rest number and order, each member's phase and prep, the group's board | publish, muster, rest, prepare, hold, gather, follow, join | nobody walks back before everybody is ready; no member holds the group for good |
| Other behaviors | `cena-behavior` | one run each | the drives | clients of the session core |
| Front ends, host, agent server, binary | `cena-web`, `cena-gui`, `cena-ui`, `cena-host`, `cena-agent`, `cena` | presentation | | clients of the session core |
| Ruby bridge, tools, spikes | `src/bridges`, `src/tools`, `src/spike` | outside the process | | |

### How the parts interact

    callers -- try_send / send().await --> inbox (mpsc, bounded)
                                            |
      one connection:  SessionActor <-------+------> between connections: the
        pump: queue -> one write -> window            supervisor answers it
        read: text -> matcher/answer, prompt -> ledger -> window -> queue
                  |                                      ^
                  +-- ends: lost / closed -- supervisor -+ generation + 1

    Authority: one shared cell. Claim and release travel in the inbox;
    preempt, watchdog and the player's stop write it from other tasks.

Callers and the actor are separate tasks. Every request carries a oneshot; a
caller that leaves closes its end, and that is the only sign the actor gets.
The inbox and the authority outlive a connection, the queue does not.

The agent's calls, the player's commands, an operation's watcher and the actor
meet on one lock and on each line's `Revocable`. Saves run on threads of their
own, chained one behind the other; the actor waits for the chain as it ends.
The members of a hunting group never call each other: each publishes a report
on the group's board at every turn, and reads what the others published last.

The owner of a session, its actor or between connections its supervisor,
publishes events; any task publishes notices. Cursor and send are one critical
section, the *fence*, and so are a snapshot and its subscription. A viewer
follows a bounded ring and asks for snapshots through a bounded inbox. A script
runner hears each line at once; while it has display hooks, the line's showing
waits in the actor for its answer.

### What is hard

The list is `hazards` in `PROJECT.json`, one line of code each. In short: the
game answers in wire order and labels nothing, so a reply is attributed by
bookkeeping alone, while callers leave, windows run out of time and instant
actions slip past the queue; a claim can be granted after its caller has gone,
a release can meet a full inbox; a quit can race a drop and be followed by a
login; a line can outlive the connection it was meant for; an act is decided
under a lock and done after it; a save describes the character of when it was
asked for; a member reads a rest's readiness from a report that may mean the
rest before; a viewer's snapshot and its events come from two queues, one of
which may have lost some.

## 2 The modules

| Module | What it is |
|---|---|
| `RoundTrips` | one connection: callers, inbox, queue, window, ledger, actor's loop, game |
| `CallFates` | what the callers of a connection are promised, with none of those; `RoundTrips` implements it |
| `AuthorityCell` | the authority: runs, claims, releases, preemption, the inbox's room |
| `Supervision` | a session's life across connections |
| `AgentDoor` | the agent's lock, its calls, the player, operations, lines and takeovers |
| `CharacterSaves` | what a session learns, its marks and timer, the chain of saves, the file |
| `FactsKept` | what keeping facts promises, with no actor, timer, chain or connection; `CharacterSaves` implements it |
| `GroupRest` | a leader, its followers, the board between them, and what goes wrong on the way |
| `HeldLines` | what a session's owner shows, and when: lines, hooks, quiet windows, lifecycle |
| `Viewing` | publishing it, snapshots and subscriptions, and a viewer that follows; extends `HeldLines` |
| `RoundTrips_proofs`, `RoundTripsPlaces_proofs`, `AuthorityCell_proofs`, `Supervision_proofs`, `AgentDoor_proofs`, `CharacterSaves_proofs`, `GroupRest_proofs`, `Viewing_proofs` | theorems; the second's are about where a call waits and what it is told |
| `MC...` | an instance of each for TLC |

`RoundTrips`, `AuthorityCell` and `Supervision` are views of one program at
three grains. `RoundTrips` reduces the authority to whether the behaviors'
token holds it, changing at any time (`PassAuthority`): `AuthorityCell` shows
when it does. `Supervision` reduces a connection to the lines its actor has
queued: `RoundTrips` shows what becomes of them. Only the actor's end
(`PeerEnds`, `Cancel`, `WriteFails` in one, `Lost`, `Stop`, `QuitFails` in the
other) is in two modules. `AgentDoor` stands on all three: the authority is who
holds it, the connection is its number, and a line's way through the actor is
`Pop`, `Refuse` and `Write`. `CharacterSaves` needs of a session only when its
connections begin and end, `GroupRest` only when a member's is up. `HeldLines`
takes from `RoundTrips` that a quiet command's window opens and ends, and from
`Supervision` the connections that come and go.

Definitions marked in their comments as *variants* are the plausible slips
(a dropped guard, a forgotten reset) that each property has been seen to catch.

### RoundTrips

| State | Code |
|---|---|
| `call` | what each caller knows: its oneshot and verdict (`Outcome`, `Sent`, `Farewell`) |
| `inbox` | the `mpsc` channel; `InboxBound` is `COMMAND_CHANNEL_BOUND` |
| `manual`, `held` | `CommandQueue::manual`, `held` |
| `flight`, `matched`, `answer` | `CommandQueue::in_flight` and its fields |
| `owedAnswers` | `CommandQueue::owed`, at most `MOST_OWED` |
| `before`, `after` | `OwedPrompts`; an entry is the line, which the code need not know |
| `holding`, `ready` | the authority, and `Lifecycle::Ready` |
| `quitting`, `leavers` | `SessionActor::quitting` and its replies |
| `phase` | where the loop is: pumping, in the `select!`, inside `ingest`, or over |
| `wire`, `speaker`, `told` | the game: unanswered lines, whose reply is arriving, whether it held an answering line |
| `credit` | history: whose text and whose prompt decided each verdict |
| `gaveUp` | history: an owed answer or prompt was given up on as lost |

The actor's steps follow the loop. In `phase = "pump"`: `Abandon` (a window
whose caller has gone: its answer and its prompt are owed), `SkipWithdrawn`,
`TurnAway` (revoked, gated or taken back), `Write`, `PumpEnds`,
`PumpAfterQuit`. In `"select"`: `TakeCommand`, `TakeInstant`, `TakeQuit`,
`ExpireWindow`, `Wake` (the read deadline), `PeerEnds`, `Cancel`. In
`"reading"`: `Text`, `PromptSpent`, `PromptUnclaimed`, `PromptForWindow` until
`ReadEnds`; the queue is pumped only between reads, as in the code. Callers
(`Submit`, `AskToQuit`, `GiveUp`) interleave with all of them.

Abstractions. A line has no text: whether a frame matches or a line answers is
a choice at each line of a reply, except that a reply holds at most one
answering line, and, unless `Terse`, one, and that what the game says *unasked*
never answers anything. The last is a premise of every command that names its
answer, not a fact: the code hears any unspoken line of the main window
(`actor/io.rs:671`), so a line that only looks like the answer is taken for it,
and nothing here says otherwise. A line says whether it needs the authority and
not whose it is, so any exit may be refused (`MayQuit`): an agent's single line,
Hydra's own and a behavior's always are in the code. All commands that name their answer
ask the *same* question, the hardest case for telling two of them apart; late
answers between commands with *different* questions are not covered. Checking
that a caller is there and writing its line is one step, where the code has a
write of up to `WRITE_DEADLINE` between (`handle.rs` calls that "one message");
so is a write that fails, whose caller is told. Deadlines have no length:
`GiveUp`, `ExpireWindow` and the lapses may come whenever their condition
holds. Each line is sent once. Generations are `Supervision`'s.

`CallFates` says what all of this promises a caller. It keeps of a call only its
fate (waiting, sent, leaving, or what it was told) and of the connection only
the lines out: `Make`, `RefuseAtOnce`, `Withdraw`, `TurnAway`, `SendCommand`,
`SendInstant`, `Leave`, `Hear`, `Decide`, `End`. "Disconnected" and "Dead" leave
open whether the line went out, as `command/verdict.rs` says they do; so does a
caller's own deadline (`gone`), which `submit_and_await` also calls a timeout.

### AuthorityCell

`cell` is the `Authority`; `holder` records the run it was granted to, which
the code does not keep. `state`, `watching` are local variables of `claim`,
`preempt` and `hold`. A claim and a send are two steps, `Check...` and `Send...`,
because `has_room_for_traffic` and `try_send` are two operations on a shared
channel. `Read` is the actor or, between connections, the supervisor: both
answer claims and releases alike, and a grant nobody hears is rolled back.
`LetGo` is a run's ending, `Guarded` the runs whose drop guard releases even a
claim that was refused. `Wedged` and `StopTakeover` write the cell directly; a
watchdog preempts whoever holds, which need not be the run it watches.
A run claims once; the token of each run is the binary's own in
`MCAuthorityCell`, where the hunt and the character sync share one. The cell
knows tokens and not runs, so the end of one of them can free what the other
was granted: `undercut` is the history of whom that happened to.

### Supervision

`phase` is where `SupervisedSession::run` is; `lifecycle` what is published;
`generation` the `GenerationCell`. `attempt`, `unattended` are `run`'s
counters, `marked` and `page` are `Attendance`, `warned` the model's idle
warning, `received` and `lived` what is measured of a connection (`lived` has
three lengths: shorter than `STABLE_CONNECTION`, shorter than `LONG_LIVED`,
longer). `Send` is separate from `Stamp` because a page reads the generation
and sends later. `queued` are the lines the actor has admitted; `Write` writes
one. `Finish` is the end, which closes the receiver. `sentOn`, `askedOf`,
`counted`, `absent` and `waits` are history.

`MaxGeneration` bounds the logins (later ones fail), `Rungs` the ladder, whose
last rung repeats in the code as here. What is queued is a set: its order is
`RoundTrips`' concern.

### AgentDoor

| State | Code |
|---|---|
| `level`, `waiting`, `requests`, `asked`, `takeover` | the fields of `agent::Inner`, under its lock; a request remembered holds the answer it gets if asked again |
| `late` | the waiting requests past `APPROVAL_LIFETIME`, which the next handler that takes the lock lapses |
| `ops` | `operation::Table`: each operation with its `Revocable` (`line`), the session's side of the line (`queue`), its round trip, a takeover's task (`hold`), what its future said (`out`), and its watcher dropping the level (`drop`) |
| `doer` | where each call, and the player, is between two locks |
| `holder`, `generation` | the authority and the connection, as the other modules have them |

A step is what a handler does under one taking of the lock. `Call`, then one of
`Turn`, `Allow`, `Ask`, is `Door::act`; `ReadToken` and `KeepLine`, `StartRun`,
`RecordTakeover` or `AlreadyHeld`, then `Register`, is `perform` and
`operation::begin`; `Settle` and `Fail` are what is remembered afterwards.
`Approve` and `CheckConnection` are `approve_agent`, which then does the act as
a call does. `Preempt`, `Claim`, `LetGo`, `ClearRecord` are `takeover::hold`;
`LookAtLevel`, `DropLevel`, `DropTakesBack` are `drop_level`, under its two
locks. `StopAgent`, `FindTakeover`, `StopTakeover`, `StopOne` are `stop_agent`.
Every handler lapses what is late first, as in the code. One thing is one step
that is two in the code: `take_back` lets the authority go and then tells the
takeover (`agent/takeover.rs:86-93`).

What waits is a set: ids are handed out in order, so the lowest is the oldest.

Abstractions: an act is its request id, of one of four kinds (that a takeover is
not also a line, a run or a stop is an assumption on the constants); the connection is
checked before the lock (`Call::generation`) by never calling for another; a
stop names the first operation; what an operation reports is whether its line
was sent.

### CharacterSaves and FactsKept

Facts come in *parts*: what one report states (`society`, `cman list all all`).
Parts come in groups (`GroupOf`), and a group is what is marked, stamped and
asked for again. A part's value is the number of the version of the game's truth
it was read from; `sure` says that it was read within `MAX_STALE`, which the code
cannot know and a stamp on disk suggests. `marks` and `timer` are `Persistence`,
`jobs` the chain in `Saves`. `Name` is the line that names the character and
loads its file, `Read` a report consumed with the actor's mark, `Due` the
timer's arm, `End` and `Close` the two halves of `shutdown` around the wait for
the chain, `Reconnect` the supervisor's next actor.

When one report marks its group (`Taught`) is the code's in its two kinds. Psms
are marked once all six of its tables are held, whenever they were read
(`psm.rs:293`); a group of one report is the least case of that. Standing and
Currency (`Compared`) are marked by any report that moved a value
(`character.rs:611-616`), whatever is known of the rest.

`LoadStored` may fail (`LoadsFail`): the session goes on knowing nothing.
`MakeSave` is one job on its thread: it reads the stamps that are on disk then,
or none if the file does not parse, puts its own over them, and writes its
facts, or fails. `unread` and `carried` are history: that this session could not
read the file and has not written it yet, and the groups whose stamp a save took
over from a file whose facts its session never had. A crash leaves the file whole
(`store.rs` renames). `Age` stands for thirty days, which nothing marked or
queued outlives. `Event::SyncNeeded` is left out: a stamp that is not fresh is a
group that will be asked for.

`FactsKept` has `known`, `kept`, whether a session is open, whether its last
write was lost, and whether it failed to recall and has kept nothing since
(`blind`), when it may set what is kept back, once. Facts that are only kept
`Together` (a PSM list and the other five) are owed at an orderly end when all of
them are known. The mapping is by value: `known` the live values, `kept` those on
disk. A reconnection, a save asked for and a timer are stutters; `Name` recalls
or fails to; `MakeSave` keeps, at most what is known and, unless blind, at least
what was kept.

### GroupRest

| State | Code |
|---|---|
| `phase`, `todo`, `prepared`, `taking`, `readied` | `Hunt::phase`, `pending`, and `Grouping`'s rest numbers |
| `rest`, `order`, `added`, `dragging`, `parted` | the leader's `Grouping` |
| `deadline`, `gathering` | since when a follower is apart, or the gather lasts, against `lost_wait` |
| `link`, `hindrance`, `inGame`, `member`, `at`, `body` | the connection, and the character as the game has it |
| `knows` | who has the leader in its own roster (`GameState::group`), which is what a report calls grouped |
| `board`, `report` | what `publish` last put there: `Leading`, `Report` |

A turn of a member's driver reads the board, decides, publishes and acts
without a pause for another turn of its own, so it is one step; all it knows of
the others is what they published. `Leads` is the leader's turn by phase and
by the first case of `muster` that applies, `Follows` a follower's. Mishaps are
bounded (`MaxMishaps`; `MaxMishapsApart` in a group that walks home apart); a
connection's way down is in two steps, lost (`LinkLost`) and given up
(`LinkGivenUp`). A walk is one step between two rooms.

The game's group (`member`) and what a follower knows of it (`knows`) part at a
lost connection: `LinkLost` empties the roster before the report goes out, as
`invalidate_for_reconnect` does, and nothing asks the game for it again
(`see_party` keeps the member following by the board it is on), so `LinkBack`
leaves it empty. It fills when the leader adds the follower or when the follower
joins, once it stands with the leader. What the game answers one who joins the
group it is in already is not in the code: it may fill the roster or not.
`settled` is history: who has taken a turn with the leader in its roster, and has
lost neither since.

Left out: the leader lost and its successor, what a hunt does between rests,
rests in the field, fog and waypoints, and who carries the dead.

### HeldLines and Viewing

| State | Code |
|---|---|
| `life`, `generation` | who owns the session (an actor, its supervisor), and the `GenerationCell` |
| `held` | `Held::waiting`, each with its answer and whether its deadline has passed |
| `display`, `answers`, `rung` | `script::Hooks`: the switch, the answers not taken, the permit of its `Notify` |
| `window` | `SessionActor::quiet_window` is `Told` |
| `out` | what the turn in progress has still to publish |
| `cursor`, `saying` | `EventPublisher::cursor`, and the notice that holds the fence |
| `requests`, `final` | `ObservationRequests` |
| `doing` | where a viewer's task is: asking, waiting for its answer, catching up, following, or done |
| `receiver`, `offered` | a viewer's broadcast receiver, and the subscription it was answered and does not follow yet |
| `view` | `Pending`: what was seen, the connection, `quiet`; history: the last event heard and whether all was in order |

A turn of the owner is synchronous: `Arrive` is `publish_line`, `Wake` the
loop's arm for held lines, `Shutdown` what every end of a connection does,
`Stop` the supervisor's end. `ShowHeld` is `show_held`: it takes the answers that
have come, then releases from the oldest. The turn's events are published one by
one (`Publish`) while viewers run, since each takes the fence by itself. A
notice is in two steps, its cursor and its sending, between which it holds the
fence; the owner's own publishing is in one, since a snapshot, the only thing
that could come between, is the owner's too, and a notice waits.

`Ask` to `TakeFinal` is `SessionObserver::subscribe` inside `retrying`. A first
answer is shown as it is; with any other the viewer is `catching` up: each
`CatchUp` is one read of `catch_up`'s loop, since other tasks publish between
them, and `Fence` is `Pending::fence`, which ends it and follows the new
receiver. `Recv`, `Lagged` and `Tick` are the pump's `select!`.

Abstractions. A line is its number and shows as one line or, answered so, as
none: what triggers and `;sorter` make of it is left out, and text the hooks
changed counts as shown. Logging in is one change of lifecycle
(`authenticating` stands for it, syncing and ready); failed connects are left
out; a plain session without a supervisor too. Whether a runner listens is
fixed (`Hearing`). A request that finds the inbox full is tried again once it has
room, which is what the backoff comes to. The interval asks again once something
was heard; the extra refresh during a roundtime is left out, and so are the
player's Lich, the viewer's stop token and an owner that dies without a last
snapshot.

## 3 What the runs check

| Run | Configuration | Instance | Properties | Shows |
|---|---|---|---|---|
| `queue` | `RoundTrips_queue` | two of the player's lines, a behavior's, an instant, a quit; an inbox of three | `OwnReply`, `LedgerIsTheWire`, `WaitsInOnePlace`, `WithdrawnIsNotSent`, `PlayerFirst`, `NothingAfterQuit`, `MeetsFates` | the ledger and the window are exactly the unanswered lines, so each verdict is its own reply's; nobody is forgotten or answered twice, whatever ends the connection, and what a caller is told is true of its line |
| `round_trips_end` | `RoundTrips_live` | a player's and a behavior's command that name their answer, an agent's exit, an unasked game; windows and what is owed may lapse | `OwnReply`, `WindowEnds`, `QueueDrains` | answers owed keep late answers from the next command, until one is given up on; no window wedges the queue, even if the game never prompts |
| `authority` | `AuthorityCell_runs` | a guarded hunt, the character sync under the hunt's token, a takeover, watchdogs and the player's stop, a sender, a quit; an inbox of six | `HoldsWhatItWasTold`, `NeverStranded`, `AuthorityReturns` | lapsed claims, late releases and preemptions leave the cell with whoever was told it holds it, or free, unless a run of the same token ended |
| `connections` | `Supervision_connections` | a typed exit, a behavior's line and a quit over two connections, pages, warnings, cancels | `MeantForThisConnection`, `ClosedIsTheEnd`, `StormsClimb`, `GivesUp`, `KeepsThePlayer`, `LeavesForGood`, `ExitWasAskedOfIt`, `CancelStops`, `InboxIsRead` | what survives an outage, when a session is given up, and that an exit ends the connection it was sent to and no other |
| `agent_lines` | `AgentDoor_lines` | a line and a stop, two calls at once, two levels, one approval, two connections | `DoneOnce`, `RefusedIsNotDone`, `UnsentIsUnsent`, `LinesEnd` | a retry, an approval, a lapse, a stop and a reconnect meet on one line: it is done at most once, and its operation ends and tells the truth |
| `agent_takeovers` | `AgentDoor_takeovers` | two takeovers and a run, a behavior that claims | `TypeOK`, `HeldCanBeTakenBack`, `TakenBackEnds` | what the agent holds has a record to take it back by, and a takeover told to end does, its record cleared |
| `saves` | `CharacterSaves_runs` | two groups of two reports each, one marked once both are known, one by either that moved; two sessions of two connections, three reports; unreadable files, failed writes and crashes | `StampIsTrue`, `EndedIsSaved`, `LearnedIsSaved`, `KeepsFacts` | no save, failure, crash or reconnection loses what an orderly end or a quiet five minutes should have kept, or leaves a stamp on a group read in part that only a group read whole should have |
| `group_rest` | `GroupRest_rest` | a leader and a follower that gets hurt, two rests of two commands, two mishaps | `WalksBackTogether`, `HuntsAgain` | the barrier is this rest's, for every able follower that has not lost its connection since it settled in the group, and no follower's mishap holds the leader at its rest |
| `views` | `Viewing_shows` | a viewer with a ring of two and an inbox of one, a runner with hooks; any two of a line, a quiet command, a notice and a reconnection; the end at any time | `HeardOnceInOrder`, `QuietWithTheWindow`, `ShownInOrder`, `HeldIsLetGo`, `EndIsSeen` | what a viewer is shown is every event, once and in order, or a gap it knows of; a hook delays lines and neither reorders nor keeps them; a viewer is not left silent or without the end |
| `late_answer` | `RoundTrips_late` | a command that names its answer, one that does not | `OwnReply`, violated | section 4 |
| `agent_lowered` | `AgentDoor_lowered` | a line and a level lowered | `NotWrittenBelowTheLevel`, violated | section 4 |
| `group_apart` | `GroupRest_apart` | a leader that walks home apart from its follower, no mishap | `WhoWalkedAloneIsAwaited`, violated | section 4 |

**Bounds.** Each line, quit and run acts once, so the sets bound every sequence.
Three commands and an instant are enough for a prompt to be on the wrong side
of a window and for a window to be abandoned with an instant behind it; the
theorems of section 5 lift that bound. A behavior's line beside two of the
player's is enough to be overtaken and to overtake. An inbox of three is the
smallest in which traffic stops one short of the bound with two messages
queued; the code's is 32. `authority` has an inbox of six, which its runs do not
fill: a full one can strand the authority (section 4). Two connections are
enough for two losses in a row, and for a line, a quit or an exit meant for the
first to meet the second; two rungs are enough to climb one. `MostOwed` is never
reached (five abandoned commands in ten seconds would be needed).
`RoundTrips_queue` uses symmetry between the player's two lines, which have no
role of their own; it checks invariants and action properties only, where
symmetry is sound.

`AgentDoor` remembers two ids (`Kept`; 256 in the code), so that
`agent_takeovers`, with three, forgets one, and lets one request wait (`MAX_WAITING`
is three), so that the limit is met; two calls are enough to overlap, and two
operations for one to clear the other's record. Levels are only those that
matter to the acts of the run. `CharacterSaves` has two versions of the truth:
old and new is all the order of saves can confuse, and one part that moves
(`Moving`) is enough for it; the other part of its group, and a group of two that
stay as they are, let a group be read in part; three reports let two saves
be queued with a reading after them, or both parts of a group be read and one of
the other. `GroupRest` has one follower in its run,
since followers meet only through the leader's quantifiers, and the theorems
are for any set of them; two rests are needed for a report that means the last
one, two mishaps for a loss while another is being waited out. A group that
walks apart is free of mishaps in `group_rest`, which keeps the run's size and
loses none of `WalksBackTogether`: the theorem has no such bound.

`views` has one viewer, since viewers meet only in the inbox, and one viewer's
abandoned request fills an inbox of one against its next. A ring of two is
overrun by one reconnection and a line. Two happenings (`MaxHappenings`) are
enough for two held lines answered out of turn, a window and the reconnection
that cuts it, a notice beside a line; the end, the hooks, the deadlines and the
viewer's own steps are not bounded. The invariants and `ShownInOrder` also hold
with three happenings (2 581 530 states), which takes too long with liveness.

**Deadlock** is not checked: a session is meant to end, and every caller's line
to be used up. That it does not end too soon is the liveness runs' question.

**Fairness.** `RoundTrips`: the loop turns (`Pump`, `ReadEnds`, `Wake`: the read
has a deadline of half a second), a message in the inbox is taken
(`TakeMessage`, strong, since the arm is disabled whenever the loop is
elsewhere; its place in the `biased` select is above the reads), a window's
deadline fires (`ExpireWindow`, strong, below the inbox, which a finite number
of callers leaves empty), and a caller's own deadline ends its wait (`GiveUp`:
`round_trip.rs` and `ACTOR_REPLY_DEADLINE`). Nothing is asked of the game: it
may fall silent for ever. `AuthorityCell`: the inbox is read, and a run ends
(every desk has a stop, a watchdog or an idle limit). `Supervision`: the task
runs; nothing is asked of the network, so a connect may hang for ever, and
`CancelStops` holds because each wait races the token. `AgentDoor`: the watchers and the
takeover's task run, a started call registers what it made (`begin` follows
without an await), and a takeover told to end hears it (`held` selects on its
ending); nothing is asked of the player or the agent, nor of a run.
`CharacterSaves`: the five minutes pass once no mark resets them (`QuietPasses`
is weakly fair and each mark disables its having passed), the timer's arm and the saves run, a
connection that has ended is followed by a close or a reconnection. `GroupRest`:
every member's turns come round, the clocks run, a rest heals and a stun
passes; nothing says that a connection comes back or that a member rejoins. `Viewing`: the
owner's loop turns (`Publish`, the arm for held lines, `Finish`, which follows
the close without an await), deadlines pass, a notice begun is sent, and the
viewer's task runs; nothing is asked of the game, of the runner, or of the owner
as to answering a request.

## 4 Disagreements

Three runs end in a violation, each of a sentence in the source; the findings in
`PROJECT.json` quote them.

* `late_answer`: a window closed by its deadline owes its *answer* but not its
  *prompt* (`queue.rs:385`, `actor.rs:512`). A plain command sent next is
  confirmed by the earlier line's late words and closed by its prompt.
* `agent_lowered`: an act is allowed under the agent's lock and its line kept
  after it (`agent/door.rs:247`, `operation.rs:473`). A level lowered in between
  finds no line to take back, and the line is written at a level that does not
  allow it.
* `group_apart`: a leader with `independent_return` disbands its group before
  the walk home; the disbanded are then read as having *left*
  (`group/muster.rs:195`) and are neither awaited nor gathered at the rest
  (`hunt/party.rs:526`), though they join again as they arrive.

Disagreements seen in the same models that no run is spent on; the hazards say
more:

* nothing is heard while an abandoned window's prompt is ahead
  (`actor/io.rs:674`), not even the abandoned line's own answer, so the next
  command's own answer is spent on it;
* the character sync and the hunt claim under one token
  (`cena/src/learn.rs:22`, `cena/src/perform.rs:50`), and a refused hunt's drop
  guard frees the sync's authority. The run has both, and `HoldsWhatItWasTold`
  counts whom that happened to (`undercut`): without that clause TLC finds it;
* the inbox's last slot is not only a release's: a quit awaits any slot, and two
  senders can both have seen room;
* a takeover stopped while it preempts or claims is granted the authority
  afterwards, for as long as it takes to notice;
* a login that cannot read the file that is there goes on, and its first save
  overwrites the facts of the groups it never learned, though
  `actor/ending.rs:363-366` says that they are kept; if the file parses again by
  then, their stamps are carried over, and stay fresh over nothing. `saves` has
  it, and its properties except exactly this (`unread`, `carried`);
* a report that moved one value of Standing or Currency marks the whole group
  (`character.rs:611-616`), so a sync cut after the first of its commands, or a
  line that comes by itself, leaves the group stamped fresh with the rest never
  read, and the next login does not ask for it: what `snapshot.rs:121-126` and
  `cena-behavior/src/sync.rs:88-90` would not have a caller do. `StampIsTrue`
  asks of these groups only that something of them is sure. Psms are marked as
  those comments ask (`psm.rs:293`), though some of the six may be as old as the
  file;
* PSM lists of which not all six are known are marked by nothing, so an orderly
  end does not save them, though `actor/ending.rs` (`shutdown`) calls a crash the
  only way to lose facts. The group stays unstamped, so they are asked for again:
  `EndedIsSaved` and `LearnedIsSaved` are of parts that are marked (`Ripe`);
* a follower back from a lost connection reports that it is not grouped until the
  game tells it of the group again (`hunt/party.rs:150`, `hunt/drive/fold.rs:185`,
  `drive/party.rs:133`), though the game still groups it; `muster` reads it as
  having left, and the leader rests, and walks back, without it.
  `group/report.rs:57` says that the caller sends `group` and holds. `GroupRest`
  has it: with `member[f] = "Grouped"` in the place of `f \in settled`, TLC
  finds a leader that sets out without a follower that reconnected, and joined
  on the walk, before the rest was called;
* the turn that enters a rest publishes the last rest's order, so with
  `quiet_followers` a follower may prepare before its leader;
* a main-stream line still held for the hooks when a quiet command is written
  (`actor/io.rs:540`) is released inside that command's window, where every
  viewer leaves it out (`pending.rs:77`, `cena-gui/src/story.rs:120`), though
  `actor/hooked.rs:11` says "Nothing is lost for a hook"; and the report's own
  lines, released after the window, are shown, which `actor/event.rs:157` says a
  frontend leaves out. `HeldLines` has both: `Quiet` does not wait for `held`.

## 5 What is proved

Everything in the eight modules named `..._proofs` is checked by
TLAPS to the last leaf, for every value of the constants. The only assumptions
are the named `ConstantsAssumption` of each module, which TLC evaluates in
every run, and those a theorem states.

| Theorem | Statement |
|---|---|
| `TypeCorrect` | `Spec => [](TypeOK /\ SpeaksInOrder)` |
| `ExitIsLast` | `Spec => NothingAfterQuit` |
| `WithdrawnStaysUnsent` | `Spec => WithdrawnIsNotSent` |
| `PlayerGoesFirst` | `Spec => PlayerFirst` |
| `LedgerCorrect` | `Plain /\ Spec => [](LedgerIsTheWire /\ OwedBehindAWindow)` |
| `RepliesAreOwn` | `Plain /\ Spec => []OwnReply` |
| `AnswersAreOwn` | `AllAsk /\ Spec /\ [][~ForgetsOwed]_vars => []OwnReply` |
| `WaitsOnce` | `Spec => []WaitsInOnePlace` |
| `QuitsAreTold` | `Spec => ToldOfTheQuit` |
| `ImplementsCallFates` | `Spec => MeetsFates` |
| `AuthorityCell_proofs!TypeCorrect` | `Spec => []TypeOK` |
| `ToldIsHeld` | `Spec => []HoldsWhatItWasTold` |
| `OnlyAFullInboxStrands` | `Spec /\ [][~LosesRelease]_vars => []NeverStranded` |
| `Supervision_proofs!TypeCorrect` | `Spec => []TypeOK` |
| `NeverReplayed` | `Spec => []MeantForThisConnection` |
| `ExitIsAsked` | `Spec => ExitWasAskedOfIt` |
| `ClosedAtTheEnd` | `Spec => []ClosedIsTheEnd` |
| `LeftForGood` | `Spec => []LeavesForGood` |
| `NoLoginStorm` | `Spec => []StormsClimb` |
| `AbsentIsGivenUp` | `Spec => []GivesUp` |
| `PresentIsKept` | `Spec => []KeepsThePlayer` |
| `AgentDoor_proofs!TypeCorrect` | `Spec => []TypeOK` |
| `AtMostOnce` | `Spec => []DoneOnce` |
| `RefusedStays` | `Spec => []RefusedIsNotDone` |
| `SaidUnsent` | `Spec => []UnsentIsUnsent` |
| `AlwaysTakenBack` | `Spec => []HeldCanBeTakenBack` |
| `CharacterSaves_proofs!TypeCorrect` | `Spec => []TypeOK` |
| `StampsAreTrue` | `Spec => []StampIsTrue` |
| `EndedIsAllSaved` | `Spec => []EndedIsSaved` |
| `DiskOnlyGrows` | `Spec => DiskNeverOlder` |
| `NothingForgotten` | `Spec => NeverForgets` |
| `ImplementsFactsKept` | `Spec => KeepsFacts` |
| `GroupRest_proofs!TypeCorrect` | `Spec => []TypeOK` |
| `WalkBackTogether` | `Spec => WalksBackTogether` |
| `Viewing_proofs!TypeCorrect` | `Spec => []TypeOK` |
| `LinesShownInOrder` | `Spec => ShownInOrder` |
| `HeardInOrder` | `Spec => []HeardOnceInOrder` |
| `QuietOnlyInside` | `Spec => []QuietWithTheWindow` |

**Types.** `TypeOK` alone is not inductive: the end of a reply takes a line off
`wire`, which is only sure to hold one because whose reply is arriving is the
oldest unanswered line. `SpeaksInOrder` says so.

**Priority.** `PlayerFirst` needs that the manual queue holds no line of a
behavior (`ManualIsThePlayers`); the step that writes then either takes the
head of the manual queue or finds it empty.

**The ledger.** `Plain` is a connection on which no command names its answer,
the game prompts once per line and no owed prompt is given up on. `LedgerInv`
joins four facts, none of them inductive alone: the ledger is the wire; owed
prompts sit behind a window only while there is one; the window's matcher took
nothing but its own line's frame (`OwnFrame`); and every verdict given so far
was its own. A prompt shifts the wire and the ledger together. If nothing is
owed ahead and a window is open, the wire's head is the window's line
(`FirstIsTheWindow`), so a frame taken then is its own; if something is owed
ahead, it is not (`FirstOwed`), and the prompt is spent there. `ApartStep`
treats every step that leaves wire, ledger and window alone, `EndStep` the ends
of the connection. Without `Plain` the statements are false, and the code's
comments say so of two of the three: an owed prompt presumed lost may still
come, and a game that prompts unasked is not counted.

**Answers owed.** The instance of `round_trips_end` is the other kind of
connection (`AllAsk`): every command names what answers it, and nothing is sent
at once but an exit, which is a quit. Windows may lapse, callers give up, replies
hold no answer and the game speaks and prompts unasked. What keeps a late answer
from the next command there is a count, not the ledger of prompts, which unasked
prompts throw out. `AnswersInv`: while nothing has been given up on, an answer is
owed for every line on the wire but the window's and the one whose answer has
been heard (`OwedForTheRest`); the window's line is the last on the wire
(`WindowIsLast`); and a window that has its answer is alone on the wire, in the
middle of its own reply, with no prompt owed ahead (`AnsweredNow`). So a line
heard while nothing is owed is the window's own, and the prompt that closes an
answered window is the one of that reply. The bound has slack, since a reply
with no answer, or a line whose window lapsed after its reply, leaves an answer
owed for nothing; it is only ever on the safe side. Two things break it. A line
that is on the wire and owes no answer (a command that names none, an instant)
is the run `late_answer` and the reason for `AllAsk`. An answer dropped because
`MOST_OWED` are owed already is `ForgetsOwed`: `AnswersAreOwn` is about every
behavior in which that does not happen, on a connection of any length.

**Where a call waits.** `WaitsInOnePlace` counts places of calls that wait.
`PlaceInv` says more: of `InOnePlace`, that no call at all, waiting or gone, is
in two places or twice in one; of `Unanswered`, that what is in a place was not
answered yet, and what waits is in a place; of `Leaving`, that quits wait for an
end only once the exit is written, and none is left after it. `Unanswered` is
needed both ways: a call that is submitted is new to the inbox because it is
idle, and what is popped and told is in no place afterwards because it was in
one. `ToldOfTheQuit` then asks which steps empty `leavers`: only those that end
the connection, and of these `Unsent` is said only by a write that fails, which
after the exit is written there is none of. Nothing is asked of the game, so
both hold of games that prompt unasked and of answers given up on.

**What a caller is told.** `MeetsFates` is the refinement of `CallFates`. A call's
fate there is what its caller knows, with two things it does not: its round trip
is out while its line is in the window, and a quit leaves once it is among the
`leavers`. `wire` is the same in both. Most steps teach nobody anything; they
and those that turn calls away are one lemma (`TurnsAway`), the steps that
change one call's fate another (`OneLearns`), the ends of the connection a third
(`EndFates`). `PlaceInv` is what the map needs: a line taken from the inbox or a
queue is neither in the window nor a leaver, so telling it that it was not sent
says so of a line that was not; a line that is written was waiting, since its
caller has neither gone nor been answered; and while no exit is written nobody
leaves, so that a failed write's `Unsent` reaches no quit whose exit went out.
The end of a reply takes a line off `wire` by `SpeaksInOrder`. The theorem has
no hypothesis; `ToldOfTheQuit` and half of `WithdrawnIsNotSent` follow from it.

**The authority.** `HoldsWhatItWasTold` is strengthened by `HolderHolds` (the
cell names the token of the run it was granted to) and `ReleasesComeLast` (a
run with a release in the inbox is over), so a release that is read frees its own
run's grant or that of a run under the same token, which is then `undercut`, and
is of a run that is over. Nothing is assumed of tokens or of the inbox's size: a
full inbox never takes the authority from its holder. It may strand it, and that
is the only way: `OnlyAFullInboxStrands` says so of every behavior in which no
run lets go while the inbox has no slot for its release (`LosesRelease`). That
hypothesis is of the run of events and not of the sizes, because no size is
enough: the code's inbox has 32 slots and its senders are not bounded.

**A session's life.** One invariant gives every safety property of the run, with
five parts. `Types` needs that a connection is only up within `MaxGeneration`,
and that a count of losses below its bound is what is counted further. `Places`:
a call not sent is nowhere (`NowhereYet`), so its stamp and `askedOf` are fixed
when it is queued; what is queued was stamped for this connection and goes with
it; what asks a running connection to leave was sent to it, since a connection
begins with an empty inbox. `Endings` is inductive as it stands. `Counts`:
`marked` is true exactly when a typed line was sent since the last loss was
counted, so the code's verdict, from `marked`, and the history's, from what was
sent, agree, and the two counts with them; `GivesUp` and `KeepsThePlayer` follow.
`Ladder`: a rung is at least the number of waits, and a connection that has
lived has none behind it, which is what makes resetting the ladder for it safe.
The generations are bounded by a constant of any size.

**The agent's door.** One invariant of four parts. `Decided` follows the number
an act was asked under: it is refused, waits, is in the player's hand or has
become an operation, and is only one of these; so an approval, a denial and a
lapse that meet on it cannot both let it through and refuse it. `Once` follows a
request id, as long as it is remembered: it waits once, is in one hand (a call's
or the player's) or is one operation, and while it is any of these it *is*
remembered (`ForgottenNot`), which is what answers a retry instead of doing it
again. An id evicted by later ones is outside it, and `DoneOnce` says so. `Held`
ties a takeover to its record: only the recorded operation holds the authority
for the agent or will, because the record is made under the lock before the
authority is asked for, and cleared after it is let go. `Shape` is `TypeOK` with
what an operation's own fields say of one another: one that ended as unsent has
its line taken back. No bound on calls, requests or operations is used but
that they are numbers.

**Saves.** The invariant joins four parts. `Ordered`: the file, the saves asked
for, oldest first, and the session are a chain, each covering the one before
it, part by part, in value and in how sure it is; so a save made in its turn never
sets the file back, and `MakeSave` keeps at most what is known. The file is
outside the chain while `unread`: the first save of that session puts it back in.
`Sure`: what is stamped, marked or carried by a save is vouched for (`Vouched`):
some part of the group is sure and, unless any part marks the group, every part
is known; vouching survives learning more (`VouchedGrows`), which is why a group
marked before and saved after stays true. A stamp taken over from the file is
vouched for because what is written covers what was there, which is what fails
after an unreadable file, and is `carried`. `Marked`: what is ripe and not marked
is in the last save asked for, or, if none is left and the last did not fail, in
the file; with `Shapes`, which says that an ending session has no marks, this
gives `EndedIsSaved`. `Ordered` is why reading the store once per session
matters: a second load would put the session behind its own queued saves. The
refinement follows step by step from the same invariant: `Recall` and
`FailToRecall` need that a session that has not been named knows nothing. No
theorem assumes that files can be read or written.

**The rest.** Only `SetsOut` ends a rest, and it needs `ReadyToHunt` of every
follower waited for. `AbleIsWaitedFor` shows that an able follower that has
settled in the group is one of them: what a follower reports of its connection
is its connection's or newer than any report (`ReportsLag`), so a report that
says `Closed` is never an able follower's; and from the turn it settled in until
it loses its place or its connection, every report it publishes says that it is
grouped, the roster being what the report is made from. What is then read as prepared for this
rest is what the follower has prepared for: `ReportsLag` again, since a report
is never ahead of the follower, and a follower never ahead of the leader
(`TypeOK`).

**What is shown.** `ShownInOrder` is of one turn of the owner. What waits, waits
in the order it came (`HeldInOrder`), so what is released, a prefix of it, is
older than what stays and than the line that came; the lines shown are the
released ones whose answer is not to hide them, in their order: the rank of a
line in the turn's output is a count, which grows with the line.

**What a viewer hears.** `Frame` is what every proof about viewers uses: a task
that follows has a receiver, a viewer waits for at most one request, the notice
being said has the newest cursor, an end leaves nothing to publish. On it stands
`Story`, per viewer: a receiver holds the last events *sent*, in a row (`Rows`;
a notice that has its cursor but is not sent yet makes "sent" one less than
`cursor`); the viewer is just before the first of them, unless it knows of a gap
(`Place`); an offer starts where its snapshot was taken, and not before what the
viewer has seen (`Offer`); and the end is still before whoever does not know of
it, while nobody is past the final snapshot (`Last`), which is what makes a final
snapshot taken outside the fence safe to follow. `HeardOnceInOrder` is a
conjunct of it.

**Silence.** `QuietWithTheWindow` speaks of a viewer that has read everything; the
invariant `Silences` must say of each of the others *why* it is or will be
silent. `Excused` are the connections in which silence is right or about to be
said to be over. A mark not excused is followed, in the same receiver, by an
event that ends it (`Marked`), and a silent viewer that has not lost events has
one before it. An offer is the hard case, for its events come after a snapshot
that does not tell whether a window is open: `Fenced` says that what the viewer
reads up to the snapshot's cursor ends every silence that begins there, or that
the offer's own events do. So a snapshot never leaves a viewer silent, and a
viewer that has caught up with a running connection and is silent is inside a
window.

The types of all modules, `OwedBehindAWindow`, `ToldOfTheQuit`, `DiskNeverOlder`
and `NeverForgets` are proved, and no run is spent on them but for `AgentDoor`'s
type; the third is also part of `MeetsFates`, the last two of `KeepsFacts`.

Each inductive invariant was checked by TLC on the instances above before it
was proved.

**Only model-checked.** Every safety property of the passing runs has a theorem.
`OwnReply` is proved of connections of either kind (`Plain`, `AllAsk`); of those
that mix commands that name their answer with lines that do not, it is false
(`late_answer`). Liveness (`WindowEnds`, `QueueDrains`,
`AuthorityReturns`, `CancelStops`, `InboxIsRead`, `LinesEnd`, `TakenBackEnds`,
`LearnedIsSaved`, `HuntsAgain`, `HeldIsLetGo`, `EndIsSeen`) stays with TLC: the prover does not reason about
`ENABLED`, so not about fairness, and neither about what a recursive definition
computes by induction over its argument. No module here declares a `RECURSIVE`
operator.

## 6 What is not modelled

`components` in `PROJECT.json` gives the reason for each part. Parsing, the game
model, the map, front ends, stores' formats, SQLite writers, TLS and the login
protocol are content or I/O: they are most of the repository's lines, and what
could be said of them is not about order, failure or concurrency. Behaviors
other than a group's rest are clients of the session core: what the modules
here say is what they may rely on.

Within the modelled parts: in `RoundTrips`, observation requests and
script hooks in the actor's loop, which touch neither queue nor ledger (`Viewing`
has them); the game's dialogue with the model; names shown for a behavior; the lengths of
deadlines and delays. In `AgentDoor`: an agent's reads, the table's limit on
ended operations, progress and revisions. In `GroupRest`: the handover. In
`Viewing`: what section 2 lists.

## 7 The plan

Order: what decides where a player's line goes, before what shows it.

1. **Done.** `RoundTrips`, `AuthorityCell`, `Supervision`; `AgentDoor`;
   `CharacterSaves` with `FactsKept` and the refinement; `GroupRest`; `HeldLines`
   and `Viewing`; their runs, and the proofs of section 5.
2. **Done.** The proof of every safety property of the passing runs.
3. **Attribution.** `CallFates` with whose reply decided a round trip, which
   `RoundTrips` implements on connections of either kind; and with the exit, after
   which nothing goes out.
4. **The handover** in `GroupRest`: a leader lost, its successor, and the
   leader come back to follow.
5. **Quiet windows and hooks together**: a run for what section 4 says of them.
6. A desk's next run in `AuthorityCell` (a token claimed again while a
   preemption watches it), commands that ask different questions and a lower
   `MostOwed` in `RoundTrips`.

--------------------------- MODULE CharacterSaves ---------------------------
(***************************************************************************)
(* What a session learns about its character, and the file it is kept in   *)
(* (cena-session: actor/ending.rs, actor/saves.rs, dirty_groups.rs,        *)
(* character_store.rs; cena-model: state/character.rs and under it         *)
(* snapshot.rs, psm.rs).  Facts come in parts, each from a report of its    *)
(* own; parts come in groups, and a group is what is marked, stamped on     *)
(* disk with when it was last taught, and asked for again at a login if     *)
(* its stamp is old.  Five minutes after the last mark the whole live       *)
(* character is saved off the actor's task, with the marked groups stamped  *)
(* and the other stamps taken from the file as it stands.                  *)
(*                                                                         *)
(* A value is the number of a version of the game's truth, 0 for unknown.  *)
(* `sure` beside a value says it was read from the game within MAX_STALE.  *)
(* The event that tells what a login found stale is left out: a stamp that *)
(* is not fresh is a group that will be asked for.                         *)
(***************************************************************************)
EXTENDS Integers, Sequences, FiniteSets

CONSTANTS
    Groups,         \* snapshot::Group
    Parts,          \* what one report states: `cman list`, `society`, ...
    GroupOf,        \* the group a part is of
    Compared,       \* the groups marked when a value of theirs moved (Standing,
                    \* Currency); the others, once every part of them is known
    WritesFail,     \* whether a write of the file may fail
    LoadsFail,      \* whether the login's reading of an existing file may fail
    Moving,         \* bound: the parts whose truth moves
    MaxTruth,       \* bound: versions of the game's truth
    MaxReadings,    \* bound: reports read in one session
    MaxSessions,    \* bound: sessions of this character
    MaxConnections  \* bound: connections in one session

ASSUME ConstantsAssumption ==
    /\ GroupOf \in [Parts -> Groups] /\ Compared \subseteq Groups
    /\ {WritesFail, LoadsFail} \subseteq BOOLEAN /\ Moving \subseteq Parts
    /\ {MaxTruth, MaxReadings, MaxSessions, MaxConnections} \subseteq Nat \ {0}

VARIABLES
    truth,      \* the game's own facts
    disk,       \* the file: its facts, unknown where there is none
    stamps,     \* the file: updated_at of each group; "none" of all, no file
    phase,      \* "none", "burst", "playing", "ending", "closed", "crashed"
    connection, \* which connection of the session
    named,      \* GameState: the game has named the character
    loaded,     \* Persistence::loaded
    live,       \* GameState: the character as this session knows it
    marks,      \* Persistence::groups
    timer,      \* Persistence::deadline: "off", "armed", "due"
    jobs,       \* Saves: the saves asked for and not made, oldest first
    readings,   \* how many reports this session has read
    sessions,   \* how many sessions there have been
    failed,     \* history: the last save of this session failed
    unread,     \* history: this session could not read the file there is, and
                \* has not written it yet
    carried     \* history: the groups whose stamp a save carried over without
                \* the facts it was of, which its session never read

file == <<disk, stamps>>
session == <<phase, connection, named, loaded, live, marks, timer, jobs, readings>>
history == <<sessions, failed, unread, carried>>
vars == <<truth, file, session, history>>

Unknown == [p \in Parts |-> [value |-> 0, sure |-> FALSE]]
NoStamps == [g \in Groups |-> "none"]
PartsOf(g) == {p \in Parts : GroupOf[p] = g}
Known(facts, g) == \A p \in PartsOf(g) : facts[p].value # 0
Up == phase \in {"burst", "playing"}

Init ==
    /\ truth = [p \in Parts |-> 1]
    /\ disk = Unknown /\ stamps = NoStamps
    /\ phase = "none" /\ connection = 0
    /\ named = FALSE /\ loaded = FALSE
    /\ live = Unknown
    /\ marks = {} /\ timer = "off" /\ jobs = <<>>
    /\ readings = 0 /\ sessions = 0
    /\ failed = FALSE /\ unread = FALSE /\ carried = {}

-----------------------------------------------------------------------------
(* A session starts, knowing nothing. *)
Start ==
    /\ phase \in {"none", "closed", "crashed"}
    /\ sessions < MaxSessions
    /\ sessions' = sessions + 1
    /\ phase' = "burst" /\ connection' = 1
    /\ named' = FALSE /\ loaded' = FALSE
    /\ live' = Unknown
    /\ marks' = {} /\ timer' = "off" /\ readings' = 0
    /\ failed' = FALSE /\ unread' = FALSE
    /\ UNCHANGED <<truth, file, jobs, carried>>

(* load_character, at the frame that names the character: once per session. *)
(* A file that cannot be read is a session that goes on knowing nothing.    *)
LoadStored ==
    IF loaded THEN UNCHANGED <<loaded, live, unread>>
    ELSE /\ loaded' = TRUE
         /\ \/ live' = disk /\ UNCHANGED unread
            \/ LoadsFail /\ stamps # NoStamps /\ UNCHANGED live /\ unread' = TRUE
Name ==
    /\ phase = "burst"
    /\ phase' = "playing" /\ named' = TRUE
    /\ LoadStored
    /\ UNCHANGED <<truth, file, connection, marks, timer, jobs, readings,
                   sessions, failed, carried>>

(* The character trains, earns, joins: the game's facts move. *)
Change(p) ==
    /\ truth[p] < MaxTruth
    /\ truth' = [truth EXCEPT ![p] = @ + 1]
    /\ UNCHANGED <<file, session, history>>

(* consume_chunk, and the actor's marks after it: a report is read, and its *)
(* part is known.  A group that is compared is marked when the value moved, *)
(* whatever is known of its other parts; any other once every part of it is *)
(* known, whenever that was read; every mark pushes the save out.           *)
TimerAsItWas == timer
TimerOnceMarked == "armed"
TaughtByAnyPart(p) == GroupOf[p] \in Compared => live[p].value # truth[p]
Taught(p) ==
    IF GroupOf[p] \in Compared THEN live[p].value # truth[p]
    ELSE \A q \in PartsOf(GroupOf[p]) : q = p \/ live[q].value # 0
Read(p) ==
    /\ phase = "playing" /\ readings < MaxReadings
    /\ readings' = readings + 1
    /\ live' = [live EXCEPT ![p] = [value |-> truth[p], sure |-> TRUE]]
    /\ IF Taught(p)
       THEN marks' = marks \cup {GroupOf[p]} /\ timer' = TimerOnceMarked
       ELSE UNCHANGED <<marks, timer>>
    /\ UNCHANGED <<truth, file, phase, connection, named, loaded, jobs, history>>

(* save_character: with a name to write under, the marks are taken, the     *)
(* character as it is now, into a job of its own.                           *)
Job == [groups |-> marks, facts |-> live]
SaveCharacter ==
    /\ timer' = "off"
    /\ IF marks = {} \/ ~named THEN UNCHANGED <<marks, jobs>>
       ELSE marks' = {} /\ jobs' = Append(jobs, Job)

(* Five minutes pass without a mark. *)
QuietPasses ==
    /\ Up /\ timer = "armed"
    /\ timer' = "due"
    /\ UNCHANGED <<truth, file, phase, connection, named, loaded, live, marks,
                   jobs, readings, history>>

(* The actor's timer arm. *)
Due ==
    /\ Up /\ timer = "due"
    /\ SaveCharacter
    /\ UNCHANGED <<truth, file, phase, connection, named, loaded, live, readings,
                   history>>

-----------------------------------------------------------------------------
(* A save, off the actor's task: the stamps as the file has them, the       *)
(* marked groups' over them, and the whole character as it was.  Where the  *)
(* file cannot be read back, only the marked groups are stamped.            *)
Stamped(job, stored) ==
    [g \in Groups |-> IF g \in job.groups THEN "fresh" ELSE stored[g]]
CarriedOver(job, stored) ==
    {g \in Groups \ job.groups : stored[g] = "fresh" /\ (unread \/ g \in carried)}

(* Which of the saves asked for is made next. *)
MayBeMade(i) == i = 1

WithoutJob(i) == SubSeq(jobs, 1, i - 1) \o SubSeq(jobs, i + 1, Len(jobs))
MakeSave(i) ==
    /\ i \in DOMAIN jobs /\ MayBeMade(i)
    /\ jobs' = WithoutJob(i)
    /\ \/ /\ disk' = jobs[i].facts
          /\ \E stored \in {stamps, NoStamps} :
               /\ stamps' = Stamped(jobs[i], stored)
               /\ carried' = CarriedOver(jobs[i], stored)
          /\ failed' = FALSE /\ unread' = FALSE
       \/ WritesFail /\ failed' = TRUE /\ UNCHANGED <<file, unread, carried>>
    /\ UNCHANGED <<truth, phase, connection, named, loaded, live, marks, timer,
                   readings, sessions>>

-----------------------------------------------------------------------------
(* shutdown: what is marked is saved, whatever the timer says ... *)
End ==
    /\ Up
    /\ phase' = "ending"
    /\ SaveCharacter
    /\ UNCHANGED <<truth, file, connection, named, loaded, live, readings, history>>

(* ... and the saves are waited for before anyone is told. *)
CloseAtOnce == TRUE
MayClose == jobs = <<>>

Close ==
    /\ phase = "ending" /\ MayClose
    /\ phase' = "closed"
    /\ UNCHANGED <<truth, file, connection, named, loaded, live, marks, timer,
                   jobs, readings, history>>

(* A new connection of the same session: a new actor, with the state        *)
(* carried.  The store was read when the game named the character.          *)
LoadedByThisActor == FALSE
LoadedOnceReconnected == named
Reconnect ==
    /\ phase = "ending" /\ MayClose
    /\ connection < MaxConnections
    /\ connection' = connection + 1
    /\ phase' = "burst"
    /\ loaded' = LoadedOnceReconnected
    /\ marks' = {} /\ timer' = "off"
    /\ UNCHANGED <<truth, file, named, live, jobs, readings, history>>

(* The process dies: the file is written whole or not at all (store.rs).    *)
Crash ==
    /\ Up \/ phase = "ending"
    /\ phase' = "crashed"
    /\ jobs' = <<>> /\ marks' = {} /\ timer' = "off"
    /\ UNCHANGED <<truth, file, connection, named, loaded, live, readings, history>>

(* MAX_STALE, thirty days, passes: no stamp is fresh and no value is sure.  *)
(* Nothing marked waits that long to be saved.                              *)
Unsure(facts) == [p \in Parts |-> [facts[p] EXCEPT !.sure = FALSE]]
Age ==
    /\ phase \in {"none", "closed", "crashed", "playing"}
    /\ marks = {} /\ jobs = <<>>
    /\ disk' = Unsure(disk) /\ live' = Unsure(live)
    /\ stamps' = [g \in Groups |-> IF stamps[g] = "fresh" THEN "old" ELSE stamps[g]]
    /\ carried' = {}
    /\ UNCHANGED <<truth, phase, connection, named, loaded, marks, timer, jobs,
                   readings, sessions, failed, unread>>

-----------------------------------------------------------------------------
Next == \/ Start \/ Name \/ QuietPasses \/ Due
        \/ \E p \in Moving : Change(p)
        \/ \E p \in Parts : Read(p)
        \/ \E i \in DOMAIN jobs : MakeSave(i)
        \/ End \/ Close \/ Reconnect \/ Crash \/ Age

Spec == Init /\ [][Next]_vars

(* The timer's arm and the saves run; nobody promises anything else.  The   *)
(* timer is fair only once the reports stop: every mark pushes it out.      *)
Saving == \E i \in DOMAIN jobs : MakeSave(i)
FairSpec == /\ Spec
            /\ WF_vars(QuietPasses) /\ WF_vars(Due) /\ WF_vars(Saving)
            /\ WF_vars(Close \/ Reconnect)

-----------------------------------------------------------------------------
TypeOK ==
    /\ truth \in [Parts -> 1 .. MaxTruth]
    /\ disk \in [Parts -> [value : 0 .. MaxTruth, sure : BOOLEAN]]
    /\ stamps \in [Groups -> {"none", "old", "fresh"}]
    /\ phase \in {"none", "burst", "playing", "ending", "closed", "crashed"}
    /\ live \in [Parts -> [value : 0 .. MaxTruth, sure : BOOLEAN]]
    /\ marks \subseteq Groups /\ carried \subseteq Groups
    /\ timer \in {"off", "armed", "due"}
    /\ \A i \in DOMAIN jobs : jobs[i].groups # {}

(* What a fresh stamp may be taken for: something of the group was read     *)
(* from the game within MAX_STALE, and, unless the group is one marked by   *)
(* any part that moved, nothing of it is unknown.  It does not say that the *)
(* whole group was read within MAX_STALE.                                   *)
Vouched(facts, g) ==
    /\ \E p \in PartsOf(g) : facts[p].sure
    /\ g \notin Compared => Known(facts, g)

(* A group the file stamps fresh is what the stamp says: one that lied      *)
(* would skip the sync that repairs it, and "leave five of the six PSM      *)
(* tables empty and still stamp the group fresh" (snapshot.rs) for as long  *)
(* as the stamp lasts.  Except a stamp that was carried over by a session   *)
(* that could not read the facts it was of.                                 *)
StampIsTrue ==
    \A g \in Groups \ carried : stamps[g] = "fresh" => Vouched(disk, g)

(* What is on disk never goes back to an older value, whatever the order    *)
(* the saves are made in and whichever fail (actor/saves.rs), but at the    *)
(* first save of a session that could not read what was there.              *)
DiskNeverOlder ==
    [][unread \/ \A p \in Parts : disk'[p].value >= disk[p].value]_vars

(* What a session has learned is not put back to what the file had: the     *)
(* store is read once per session, not once per connection (supervisor.rs). *)
NeverForgets ==
    [][phase \notin {"none", "closed", "crashed"} =>
        \A p \in Parts : live'[p].value >= live[p].value]_vars

(* A part that is saved by its own teaching: of a group marked by any part, *)
(* or of one whose every part is known.  One of several PSM tables is not.  *)
Ripe(p) == GroupOf[p] \in Compared \/ Known(live, GroupOf[p])

(* A session that ended, its last save not failed, left on disk all it      *)
(* knew of its ripe groups: "the only way to lose facts is a crash"         *)
(* (ending.rs, shutdown).                                                   *)
EndedIsSaved ==
    phase = "closed" /\ ~failed =>
        \A p \in Parts : Ripe(p) => disk[p].value >= live[p].value

(* What was learned reaches the disk once the reports stop, without waiting *)
(* for the session to end, unless the write failed or the process died.     *)
Unsaved == \E p \in Parts : Ripe(p) /\ live[p].value > disk[p].value
LearnedIsSaved ==
    (phase = "playing" /\ Unsaved) ~> (~Unsaved \/ failed \/ phase = "crashed")

-----------------------------------------------------------------------------
(* The session, its actor and its queue of saves, seen as FactsKept. *)
OpenAs ==
    CASE phase \in {"burst", "playing", "ending"} -> "open"
      [] OTHER -> phase

Kept == INSTANCE FactsKept WITH
    Facts <- Parts,
    Together <- {PartsOf(g) : g \in Groups \ Compared},
    known <- [p \in Parts |-> live[p].value],
    kept <- [p \in Parts |-> disk[p].value],
    open <- OpenAs,
    lost <- failed,
    blind <- unread

(* The whole machine keeps facts as FactsKept promises: no save, however    *)
(* late, in whatever order with a reconnection or a crash, puts more in the *)
(* file than the session knew or sets it back, but the first one of a       *)
(* session that could not read it, and no reconnection sets the session     *)
(* back (actor/ending.rs, actor/saves.rs, supervisor.rs).                   *)
KeepsFacts == Kept!Spec
=============================================================================

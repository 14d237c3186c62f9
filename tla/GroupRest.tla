----------------------------- MODULE GroupRest -----------------------------
(* A hunting group's rest: the leader walks home, its followers rest with it,
   and nobody walks back before everybody has prepared for THIS rest
   (cena-behavior, hunt/party.rs, hunt/rest.rs, group/muster.rs).

   Every member runs a hunt of its own on its own connection; the only thing
   that crosses from one to another is the group's board. A turn of a hunt
   reads the board, decides, publishes, and then acts, without waiting in
   between until it acts, so a turn is one step here; everything a member
   reads of another is as old as that other's last turn. What goes wrong on
   the way is the environment's: connections drop and come back or are given
   up, characters are stunned, knocked down or killed, or leave the group,
   and clocks run out.

   The leader itself is never lost here. Rooms are the hunting ground and the
   resting room; a rest's selling, herbs and commands are its Commands; a
   reason to rest is a tired body, or a hurt one (Why::Wounded); looting,
   fighting, fog, waypoints and a rest in the field are left out. *)
EXTENDS Integers, FiniteSets

CONSTANTS
    Leader, Followers,
    QuietFollowers,        \* the leader's quiet_followers
    Commands,              \* what a member does at a rest, and before a hunt
    Tiring, Needs,         \* who may need a rest, and what for
    MaxRests,              \* bound: rests
    MaxMishaps,            \* bound: what goes wrong, in a group that walks
    MaxMishapsApart        \* together, and in one that walks home apart

Members == Followers \cup {Leader}

ASSUME ConstantsAssumption ==
    /\ Leader \notin Followers /\ IsFiniteSet(Followers)
    /\ QuietFollowers \in BOOLEAN
    /\ Tiring \subseteq Members /\ Needs \subseteq {"Tired", "Hurt"}
    /\ Commands \in Nat /\ MaxRests \in Nat /\ MaxMishaps \in Nat
    /\ MaxMishapsApart \in 0..MaxMishaps

VARIABLES
    phase,      \* each member's own phase
    at,         \* the room each character stands in
    body,       \* each character's state, as its rest thresholds read it
    todo,       \* pending: how many commands a member has still to send
    prepared,   \* the rest whose own prep a member has finished; 0 for none
    rest,       \* lead: the number of the rest under way, or of the last
    order,      \* lead: who preps first at this rest
    deadline,   \* lead: lost_wait of each follower seen apart
    gathering,  \* lead: lost_wait of the gather
    added,      \* lead: the link-dead it has added to its group
    dragging,   \* lead: whom it drags home
    parted,     \* lead: the rest whose walk home it disbanded for
    taking,     \* follow: the rest it is taking, and whether it has begun
    readied,    \* follow: the rest after which its prepare commands were put
    link,       \* each follower's connection
    hindrance,  \* what keeps each follower's character
    inGame,     \* whether the character stands in the game
    member,     \* its place in the leader's game group, as the game has it
    knows,      \* who has the leader in its own roster (state.group)
    board,      \* what the leader last published
    report,     \* what each follower last published
    mishaps,    \* how many mishaps there have been
    settled     \* who has taken a turn in the group, and not lost its place
                \* or its connection since; no step reads it

lead == <<rest, order, added, dragging, parted>>
wire == <<link, hindrance, inGame>>
place == <<member, knows>>
vars == <<phase, at, body, todo, prepared, lead, deadline, gathering, taking,
          readied, wire, place, board, report, mishaps, settled>>

Phases == {"Hunting", "ToRest", "Resting", "Returning", "Preparing", "Over"}
Rooms == {"Field", "Home"}
Orders == {"None", "LeaderFirst", "Together"}
Waits == {"No", "Running", "Over"}
Bodies == {"Well", "Tired", "Hurt"}
Rests == 0..MaxRests
Leadings == [rest : Rests, prepared : Rests, phase : Phases, at : Rooms,
             order : Orders, alone : BOOLEAN, up : BOOLEAN]
Reports == [link : {"Ready", "Down", "Closed"}, at : Rooms, wants : Bodies,
            unready : BOOLEAN, hindrance : {"None", "Stuck", "Down", "Dead"},
            grouped : BOOLEAN, prepared : Rests]

-----------------------------------------------------------------------------
(* What is published *)

(* Hunt::report: a reason to rest only while it hunts; unready while its prep
   for the rest it knows of is not done, or its body still rests; grouped as
   its own roster has it, whatever the game does. *)
ReportOf(f, itsPhase, itsPrepared) ==
    [link |-> "Ready", at |-> at[f],
     wants |-> IF itsPhase = "Hunting" THEN body[f] ELSE "Well",
     unready |-> /\ itsPhase # "Hunting"
                 /\ itsPrepared # board.rest \/ body[f] # "Well",
     hindrance |-> hindrance[f], grouped |-> f \in knows,
     prepared |-> itsPrepared]

PublishReport(f) ==
    report' = [report EXCEPT ![f] = ReportOf(f, phase'[f], prepared'[f])]

(* Hunt::leading, after the leader's turn and before it walks. *)
PublishLeading ==
    board' = [rest |-> rest', prepared |-> prepared'[Leader],
              phase |-> phase'[Leader], at |-> at[Leader], order |-> order',
              alone |-> board.alone, up |-> TRUE]

-----------------------------------------------------------------------------
(* What the leader reads of a follower *)

(* group::standing and given_up: a connection given up, by whether the
   leader's room still lists the character. *)
Here(f) == inGame[f] /\ at[f] = at[Leader]
GivenUp(f) ==
    CASE ~Here(f) -> "Gone"
      [] Here(f) /\ hindrance[f] = "Dead" -> "Dead"
      [] Here(f) /\ hindrance[f] \in {"Stuck", "Down"} -> "Drag"
      [] Here(f) /\ hindrance[f] = "None" /\ member[f] = "Grouped" -> "TakeHome"
      [] OTHER -> "Add"

(* muster: why a follower is not with the leader, connection first. *)
Muster(f) ==
    LET r == report[f]
        overdue == deadline[f] = "Over"
    IN  CASE r.link = "Closed" \/ (r.link = "Down" /\ overdue) -> GivenUp(f)
          [] r.link = "Down" /\ ~overdue -> "Lost"
          [] r.link = "Ready" /\ r.hindrance = "Dead" -> "Dead"
          [] r.link = "Ready" /\ r.hindrance # "Dead" /\ ~r.grouped -> "Left"
          [] OTHER ->
               IF r.at = at[Leader]
               THEN CASE r.hindrance = "None" -> "None"
                      [] r.hindrance # "None" /\ overdue -> "Overdue"
                      [] OTHER -> "Hold"
               ELSE IF r.hindrance = "Stuck" \/ overdue THEN "Fetch" ELSE "Await"

(* Muster::waited_for, and a follower with nothing wrong; a variant leaves out
   only who is gone or left, as it was before the review of 2026-09-29. *)
WaitedForUnlessGone(f) == Muster(f) \notin {"Gone", "Left"}
WaitedFor(f) ==
    Muster(f) \in {"None", "Hold", "Await", "Fetch", "Lost"}

(* leaders_view: when each follower was first seen apart, kept while it is. *)
Look ==
    deadline' = [f \in Followers |->
        CASE Muster(f) = "None" -> "No"
          [] Muster(f) # "None" /\ deadline[f] = "No" -> "Running"
          [] OTHER -> deadline[f]]

Some(what) == \E f \in Followers : Muster(f) = what
Connected == {f \in Followers : report[f].link = "Ready"}

(* prep_order: asked at the rest, of what the members report then. *)
PrepOrder ==
    IF QuietFollowers /\ ~\E f \in Connected : report[f].wants = "Hurt"
    THEN "LeaderFirst" ELSE "Together"

-----------------------------------------------------------------------------
(* Where a walk goes *)

(* The game carries the group along the leader's moves, but not a member who
   cannot move, unless it is dragged. *)
Carried(f) ==
    /\ Here(f)
    /\ \/ member[f] = "Grouped" /\ hindrance[f] = "None"
       \/ dragging = f
LeaderWalks(room) ==
    at' = [m \in Members |->
             IF m = Leader \/ (m \in Followers /\ Carried(m)) THEN room ELSE at[m]]

(* step_toward, at its goal: the next phase, with its commands, the first of
   them sent. *)
Begin(m, next) ==
    /\ phase' = [phase EXCEPT ![m] = next]
    /\ todo' = [todo EXCEPT ![m] = IF Commands = 0 THEN 0 ELSE Commands - 1]
SendNext(m) ==
    /\ todo[m] > 0
    /\ todo' = [todo EXCEPT ![m] = @ - 1]

-----------------------------------------------------------------------------
(* The leader's turns *)

LeaderTurn ==
    /\ Look
    /\ PublishLeading
    /\ settled' = settled \cap knows'
    /\ UNCHANGED <<body, taking, readied, wire, report, mishaps>>

Hunting == phase[Leader] = "Hunting"

(* start_rest: a reason to rest, taken up: the number goes up, and it walks. *)
StartRest ==
    /\ rest < MaxRests
    /\ rest' = rest + 1
    /\ UNCHANGED <<order, added, dragging, parted, prepared, gathering, place>>
    /\ IF at[Leader] = "Home"
       THEN Begin(Leader, "Resting") /\ UNCHANGED at
       ELSE /\ phase' = [phase EXCEPT ![Leader] = "ToRest"]
            /\ LeaderWalks("Home")
            /\ UNCHANGED todo

(* member_dead: every hunt ends; that somebody carries the dead member out
   first is left out. *)
EndsForTheDead ==
    /\ Hunting /\ Some("Dead")
    /\ Look
    /\ phase' = [phase EXCEPT ![Leader] = "Over"]
    /\ board' = [board EXCEPT !.up = FALSE]
    /\ UNCHANGED <<at, body, todo, prepared, lead, gathering, taking, readied,
                   wire, place, report, mishaps, settled>>

ToAdd == {f \in Followers : Muster(f) = "Add" /\ f \notin added}
AddsTheLinkDead ==
    /\ Hunting /\ ~Some("Dead")
    /\ \E f \in ToAdd :
         /\ added' = added \cup {f}
         /\ member' = [member EXCEPT ![f] = "Grouped"]
         /\ knows' = IF link[f] = "Ready" THEN knows \cup {f} ELSE knows
    /\ UNCHANGED <<phase, at, todo, prepared, rest, order, dragging, parted,
                   gathering>>
    /\ LeaderTurn

(* The rest of muster, once nobody is dead and nobody is to be added. The code
   looks at the first it finds in each case, in whatever order: one already
   added may hide another. *)
AddedAlready == \E f \in added : Muster(f) = "Add"
Musters == Hunting /\ ~Some("Dead") /\ (ToAdd = {} \/ AddedAlready)

DragsOne == \E f \in Followers : Muster(f) = "Drag" /\ dragging = f
Drags ==
    /\ Musters
    /\ \E f \in Followers :
         /\ Muster(f) = "Drag"
         /\ dragging' = f
    /\ ~DragsOne
    /\ UNCHANGED <<phase, at, todo, prepared, rest, order, added, parted,
                   gathering, place>>
    /\ LeaderTurn

TakesHome ==
    /\ Musters
    /\ \/ DragsOne
       \/ ~Some("Drag") /\ Some("TakeHome")
    /\ StartRest
    /\ LeaderTurn

NobodyToTakeHome == Musters /\ ~Some("Drag") /\ ~Some("TakeHome")

Fetches ==
    /\ NobodyToTakeHome
    /\ \E f \in Followers : Muster(f) = "Fetch" /\ LeaderWalks(report[f].at)
    /\ UNCHANGED <<phase, todo, prepared, lead, gathering, place>>
    /\ LeaderTurn

Stuck(f) == report[f].hindrance = "Stuck"
RestsForAStraggler ==
    /\ NobodyToTakeHome /\ ~Some("Fetch")
    /\ \E f \in Followers : Muster(f) = "Overdue" /\ ~Stuck(f)
    /\ StartRest
    /\ LeaderTurn

(* Nobody is overdue, or the first who is cannot move. *)
NobodyToRestFor ==
    /\ NobodyToTakeHome /\ ~Some("Fetch")
    /\ Some("Overdue") => \E f \in Followers : Muster(f) = "Overdue" /\ Stuck(f)
Holding ==
    \E f \in Followers : Muster(f) \in {"Hold", "Await", "Lost", "Overdue"}

(* should_rest: the members' reasons merged; a hurt one waits for whoever
   cannot move here. *)
Reasons ==
    ({body[Leader]} \cup {report[f].wants : f \in Connected}) \ {"Well"}
Stunned ==
    /\ "Hurt" \in Reasons
    /\ \E f \in Connected : Stuck(f) /\ report[f].at = at[Leader]
RestIsCalled == NobodyToRestFor /\ Reasons # {} /\ ~Stunned /\ ~Holding

(* disband: home apart, once for a rest. *)
ToDisband ==
    /\ board.alone /\ parted # rest + 1
    /\ \E f \in Followers : member[f] = "Grouped"
Disbands ==
    /\ RestIsCalled /\ ToDisband /\ rest < MaxRests
    /\ parted' = rest + 1
    /\ member' = [f \in Followers |->
                    IF member[f] = "Grouped" THEN "Disbanded" ELSE member[f]]
    /\ knows' = {}
    /\ UNCHANGED <<phase, at, todo, prepared, rest, order, added, dragging,
                   gathering>>
    /\ LeaderTurn

RestsForItsReasons ==
    /\ RestIsCalled /\ ~ToDisband
    /\ StartRest
    /\ LeaderTurn

HuntsOn ==
    /\ NobodyToRestFor /\ (Reasons = {} \/ Stunned \/ Holding)
    /\ gathering' = "No"
    /\ UNCHANGED <<phase, at, todo, prepared, lead, place>>
    /\ LeaderTurn

(* Phase::ToRest: the walk home, and the rest as it arrives. *)
WalksHome ==
    /\ phase[Leader] = "ToRest"
    /\ IF at[Leader] = "Home"
       THEN Begin(Leader, "Resting") /\ UNCHANGED at
       ELSE LeaderWalks("Home") /\ UNCHANGED <<phase, todo>>
    /\ UNCHANGED <<prepared, lead, gathering, place>>
    /\ LeaderTurn

(* lead at a rest: the order as the reports stand, and its own prep done once
   it has nothing more to send. *)
AtTheRest ==
    /\ phase[Leader] = "Resting"
    /\ order' = PrepOrder
    /\ prepared' = IF todo[Leader] = 0 THEN [prepared EXCEPT ![Leader] = rest]
                   ELSE prepared
    /\ UNCHANGED <<rest, added, dragging, parted, place>>

Preps ==
    /\ AtTheRest
    /\ SendNext(Leader)
    /\ UNCHANGED <<phase, at, gathering>>
    /\ LeaderTurn

(* hold_for_group: every follower waited for has prepared for this rest, and
   is ready; then they are gathered, within lost_wait. A variant takes any
   rest for this one. *)
PreparedForSomeRest(f) == report[f].prepared # 0
PreparedFor(f) == report[f].prepared = rest
ReadyToHunt(f) ==
    report[f].link = "Ready" /\ PreparedFor(f) /\ ~report[f].unready
GroupIsReady == \A f \in Followers : WaitedFor(f) => ReadyToHunt(f)
Gathered(counted) ==
    \/ gathering = "Over"
    \/ \A f \in counted : report[f].at = at[Leader] /\ report[f].grouped
Rested == todo[Leader] = 0 /\ body[Leader] = "Well"
Counted == {f \in Followers : WaitedFor(f)}

WaitsAtTheRest ==
    /\ AtTheRest
    /\ todo[Leader] = 0
    /\ ~(Rested /\ GroupIsReady /\ Gathered(Counted))
    /\ gathering' = IF Rested /\ GroupIsReady /\ gathering = "No" THEN "Running"
                    ELSE gathering
    /\ UNCHANGED <<phase, at, todo>>
    /\ LeaderTurn

SetsOut ==
    /\ AtTheRest
    /\ Rested /\ GroupIsReady /\ Gathered(Counted)
    /\ gathering' = "No"
    /\ phase' = [phase EXCEPT ![Leader] = "Returning"]
    /\ LeaderWalks("Field")
    /\ UNCHANGED todo
    /\ LeaderTurn

(* Phase::Returning and Phase::Preparing. *)
WalksBack ==
    /\ phase[Leader] = "Returning"
    /\ IF at[Leader] = "Field"
       THEN Begin(Leader, "Preparing") /\ UNCHANGED at
       ELSE LeaderWalks("Field") /\ UNCHANGED <<phase, todo>>
    /\ UNCHANGED <<prepared, lead, gathering, place>>
    /\ LeaderTurn

(* gather_to_hunt counts who is connected, not gone and not left. *)
ToGather == {f \in Connected : Muster(f) \notin {"Gone", "Left"}}
GetsReady ==
    /\ phase[Leader] = "Preparing"
    /\ \/ SendNext(Leader) /\ UNCHANGED <<phase, gathering>>
       \/ /\ todo[Leader] = 0 /\ ~Gathered(ToGather)
          /\ gathering' = IF gathering = "No" THEN "Running" ELSE gathering
          /\ UNCHANGED <<phase, todo>>
       \/ /\ todo[Leader] = 0 /\ Gathered(ToGather)
          /\ gathering' = "No"
          /\ phase' = [phase EXCEPT ![Leader] = "Hunting"]
          /\ UNCHANGED todo
    /\ UNCHANGED <<at, prepared, lead, place>>
    /\ LeaderTurn

Leads ==
    \/ EndsForTheDead \/ AddsTheLinkDead \/ Drags \/ TakesHome \/ Fetches
    \/ RestsForAStraggler \/ Disbands \/ RestsForItsReasons \/ HuntsOn
    \/ WalksHome \/ Preps \/ WaitsAtTheRest \/ SetsOut \/ WalksBack \/ GetsReady

-----------------------------------------------------------------------------
(* A follower's turns *)

CanTurn(f) == link[f] = "Ready" /\ phase[f] # "Over"
Turns(f) == CanTurn(f) /\ hindrance[f] # "Dead" /\ board.up
FollowerTurn(f) ==
    /\ PublishReport(f)
    /\ settled' = IF f \in knows THEN settled \cup {f} ELSE settled
    /\ UNCHANGED <<body, lead, deadline, gathering, wire, board, mishaps>>

(* see_party: the leader's hunt is over, or this character is dead, whose
   report stays up. *)
StopsFollowing(f) ==
    /\ CanTurn(f)
    /\ ~board.up \/ hindrance[f] = "Dead"
    /\ phase' = [phase EXCEPT ![f] = "Over"]
    /\ UNCHANGED <<at, todo, prepared, taking, readied, place>>
    /\ FollowerTurn(f)

(* alone.rs: whether the leader's walk now is one its members take apart, and
   where it goes; otherwise a follower catches the leader up. *)
Apart == board.alone /\ board.phase = "ToRest"
Goal == IF Apart THEN "Home" ELSE board.at
CatchesUp(f) ==
    /\ Turns(f)
    /\ at[f] # Goal
    /\ at' = IF hindrance[f] = "Stuck" THEN at ELSE [at EXCEPT ![f] = Goal]
    /\ phase' = IF Apart THEN [phase EXCEPT ![f] = "ToRest"] ELSE phase
    /\ UNCHANGED <<todo, prepared, taking, readied, place>>
    /\ FollowerTurn(f)

(* follow, with the leader: it joins, every JOIN_AGAIN seconds until its own
   roster holds the leader, when the leader is still there to be joined. What
   the game answers one who is in the group already, and whether that answer
   is one the roster is read from, the code does not say: either. *)
WithTheLeader(f) == Turns(f) /\ at[f] = Goal
Joins(f) ==
    /\ WithTheLeader(f)
    /\ at[f] = board.at /\ f \notin knows
    /\ \/ /\ at[Leader] = at[f]
          /\ member' = [member EXCEPT ![f] = "Grouped"]
          /\ knows' = knows \cup {f}
       \/ /\ at[Leader] # at[f] \/ member[f] = "Grouped"
          /\ UNCHANGED place
    /\ phase' = IF Apart THEN [phase EXCEPT ![f] = "ToRest"] ELSE phase
    /\ UNCHANGED <<at, todo, prepared, taking, readied>>
    /\ FollowerTurn(f)

HuntsAlong(f) ==
    /\ WithTheLeader(f) /\ board.phase = "Hunting"
    /\ phase' = [phase EXCEPT ![f] = "Hunting"]
    /\ todo' = [todo EXCEPT ![f] = IF @ > 0 THEN @ - 1 ELSE 0]
    /\ UNCHANGED <<at, prepared, taking, readied, place>>
    /\ FollowerTurn(f)

GoesHome(f) ==
    /\ WithTheLeader(f) /\ board.phase = "ToRest"
    /\ phase' = [phase EXCEPT ![f] = "ToRest"]
    /\ UNCHANGED <<at, todo, prepared, taking, readied, place>>
    /\ FollowerTurn(f)

(* take_rest: a rest it has not taken yet starts afresh; its own prep when
   the order allows, a step a turn; then prepared for the leader's number. *)
MayPrep == board.order = "LeaderFirst" => board.prepared = board.rest
Begun(f) == taking[f] = [rest |-> board.rest, begun |-> TRUE]
StillToDo(f) == IF Begun(f) THEN todo[f] ELSE Commands

TakesRest(f) ==
    /\ WithTheLeader(f) /\ board.phase = "Resting"
    /\ phase' = IF taking[f].rest # board.rest
                THEN [phase EXCEPT ![f] = "Resting"] ELSE phase
    /\ IF MayPrep
       THEN /\ taking' = [taking EXCEPT ![f] = [rest |-> board.rest, begun |-> TRUE]]
            /\ todo' = [todo EXCEPT ![f] = IF StillToDo(f) = 0 THEN 0
                                           ELSE StillToDo(f) - 1]
            /\ prepared' = IF StillToDo(f) = 0
                           THEN [prepared EXCEPT ![f] = board.rest] ELSE prepared
       ELSE /\ taking' = IF taking[f].rest = board.rest THEN taking
                         ELSE [taking EXCEPT ![f] = [rest |-> board.rest,
                                                     begun |-> FALSE]]
            /\ UNCHANGED <<todo, prepared>>
    /\ UNCHANGED <<at, readied, place>>
    /\ FollowerTurn(f)

Readies(f) ==
    /\ WithTheLeader(f) /\ board.phase \in {"Returning", "Preparing"}
    /\ LET left == IF readied[f] = board.rest THEN todo[f] ELSE Commands
       IN  todo' = [todo EXCEPT ![f] = IF left = 0 THEN 0 ELSE left - 1]
    /\ readied' = [readied EXCEPT ![f] = board.rest]
    /\ phase' = IF readied[f] = board.rest THEN phase
                ELSE [phase EXCEPT ![f] = "Returning"]
    /\ UNCHANGED <<at, prepared, taking, place>>
    /\ FollowerTurn(f)

Follows(f) ==
    \/ StopsFollowing(f) \/ CatchesUp(f) \/ Joins(f) \/ HuntsAlong(f)
    \/ GoesHome(f) \/ TakesRest(f) \/ Readies(f)

-----------------------------------------------------------------------------
(* Bodies, clocks and mishaps *)

hunts == <<phase, todo, prepared, lead, taking, readied, board>>

Tires(m) ==
    /\ m \in Tiring /\ phase[m] = "Hunting" /\ body[m] = "Well"
    /\ rest < MaxRests
    /\ \E b \in Needs : body' = [body EXCEPT ![m] = b]
    /\ UNCHANGED <<hunts, at, deadline, gathering, wire, place, report, mishaps,
                   settled>>
Recovers(m) ==
    /\ phase[m] = "Resting" /\ body[m] # "Well"
    /\ body' = [body EXCEPT ![m] = "Well"]
    /\ UNCHANGED <<hunts, at, deadline, gathering, wire, place, report, mishaps,
                   settled>>

LostWaitEnds(f) ==
    /\ deadline[f] = "Running"
    /\ deadline' = [deadline EXCEPT ![f] = "Over"]
    /\ UNCHANGED <<hunts, at, body, gathering, wire, place, report, mishaps,
                   settled>>
GatherEnds ==
    /\ gathering = "Running"
    /\ gathering' = "Over"
    /\ UNCHANGED <<hunts, at, body, deadline, wire, place, report, mishaps,
                   settled>>

Mishap ==
    /\ mishaps < IF board.alone THEN MaxMishapsApart ELSE MaxMishaps
    /\ mishaps' = mishaps + 1

(* link_lost: the hunt forgets what a drop makes stale, its roster with it,
   says at once that it is down, and waits. *)
LinkLost(f) ==
    /\ Mishap /\ CanTurn(f) /\ hindrance[f] # "Dead"
    /\ link' = [link EXCEPT ![f] = "Down"]
    /\ knows' = knows \ {f}
    /\ report' = [report EXCEPT ![f] = [@ EXCEPT !.link = "Down", !.grouped = FALSE]]
    /\ UNCHANGED <<hunts, at, body, deadline, gathering, hindrance, inGame, member>>
(* leave_party: Hydra gave the session up, and the report stays up, Closed. *)
LinkGivenUp(f) ==
    /\ link[f] = "Down"
    /\ link' = [link EXCEPT ![f] = "Closed"]
    /\ phase' = [phase EXCEPT ![f] = "Over"]
    /\ report' = [report EXCEPT ![f].link = "Closed"]
    /\ UNCHANGED <<todo, prepared, lead, taking, readied, board, at, body,
                   deadline, gathering, hindrance, inGame, place, mishaps>>
(* Ready again, and still its leader's follower by the board it is on
   (see_party); nothing asks the game `group`, so its roster stays empty. *)
LinkBack(f) ==
    /\ link[f] = "Down"
    /\ link' = [link EXCEPT ![f] = "Ready"]
    /\ inGame' = [inGame EXCEPT ![f] = TRUE]
    /\ UNCHANGED <<hunts, at, body, deadline, gathering, hindrance, place,
                   report, mishaps>>
(* Out of the group, and a session that is up hears so. *)
Parts(f) ==
    /\ member' = [member EXCEPT ![f] = "Out"]
    /\ knows' = knows \ {f}
(* The game drops a character whose connection is gone. *)
DropsOut(f) ==
    /\ Mishap /\ link[f] # "Ready" /\ inGame[f]
    /\ inGame' = [inGame EXCEPT ![f] = FALSE]
    /\ Parts(f)
    /\ UNCHANGED <<hunts, at, body, deadline, gathering, link, hindrance, report>>
Hindered(f) ==
    /\ Mishap /\ inGame[f] /\ hindrance[f] = "None" /\ at[f] = "Field"
    /\ \E h \in {"Stuck", "Down"} : hindrance' = [hindrance EXCEPT ![f] = h]
    /\ UNCHANGED <<hunts, at, body, deadline, gathering, link, inGame, place,
                   report>>
Freed(f) ==
    /\ hindrance[f] \in {"Stuck", "Down"}
    /\ hindrance' = [hindrance EXCEPT ![f] = "None"]
    /\ UNCHANGED <<hunts, at, body, deadline, gathering, link, inGame, place,
                   report, mishaps, settled>>
Dies(f) ==
    /\ Mishap /\ inGame[f] /\ hindrance[f] # "Dead"
    /\ hindrance' = [hindrance EXCEPT ![f] = "Dead"]
    /\ Parts(f)
    /\ UNCHANGED <<hunts, at, body, deadline, gathering, link, inGame, report>>
Leaves(f) ==
    /\ Mishap /\ link[f] = "Ready" /\ member[f] = "Grouped"
    /\ Parts(f)
    /\ UNCHANGED <<hunts, at, body, deadline, gathering, wire, report>>

Mishaps(f) ==
    /\ \/ LinkLost(f) \/ LinkGivenUp(f) \/ LinkBack(f) \/ DropsOut(f)
       \/ Hindered(f) \/ Dies(f) \/ Leaves(f)
    /\ settled' = settled \cap knows'

-----------------------------------------------------------------------------
Init ==
    /\ phase = [m \in Members |-> "Hunting"]
    /\ at = [m \in Members |-> "Field"]
    /\ body = [m \in Members |-> "Well"]
    /\ todo = [m \in Members |-> 0]
    /\ prepared = [m \in Members |-> 0]
    /\ rest = 0 /\ order = "None"
    /\ deadline = [f \in Followers |-> "No"] /\ gathering = "No"
    /\ added = {} /\ dragging = Leader /\ parted = 0
    /\ taking = [f \in Followers |-> [rest |-> 0, begun |-> FALSE]]
    /\ readied = [f \in Followers |-> 0]
    /\ link = [f \in Followers |-> "Ready"]
    /\ hindrance = [f \in Followers |-> "None"]
    /\ inGame = [f \in Followers |-> TRUE]
    /\ member = [f \in Followers |-> "Grouped"]
    /\ knows = Followers /\ settled = Followers
    /\ \E alone \in BOOLEAN :
         board = [rest |-> 0, prepared |-> 0, phase |-> "Hunting",
                  at |-> "Field", order |-> "None", alone |-> alone, up |-> TRUE]
    /\ report = [f \in Followers |->
                   [link |-> "Ready", at |-> "Field", wants |-> "Well",
                    unready |-> FALSE, hindrance |-> "None", grouped |-> TRUE,
                    prepared |-> 0]]
    /\ mishaps = 0

Next ==
    \/ Leads
    \/ \E f \in Followers : Follows(f)
    \/ \E m \in Tiring : Tires(m) \/ Recovers(m)
    \/ \E f \in Followers : LostWaitEnds(f) \/ Freed(f) \/ Mishaps(f)
    \/ GatherEnds

Spec == Init /\ [][Next]_vars

(* The members' turns come round (the drivers' loops), clocks run, a rest
   heals, and a stun passes. Nothing says a connection comes back. *)
Fairness ==
    /\ WF_vars(Leads) /\ WF_vars(GatherEnds)
    /\ \A m \in Tiring : WF_vars(Recovers(m))
    /\ \A f \in Followers :
         /\ WF_vars(Follows(f))
         /\ WF_vars(LostWaitEnds(f)) /\ WF_vars(Freed(f))
FairSpec == Spec /\ Fairness
-----------------------------------------------------------------------------
(* Properties *)

(* What holds of every state: types, and no number ahead of the leader's. *)
TypeOK ==
    /\ phase \in [Members -> Phases] /\ at \in [Members -> Rooms]
    /\ body \in [Members -> Bodies] /\ todo \in [Members -> 0..Commands]
    /\ prepared \in [Members -> Rests] /\ rest \in Rests /\ order \in Orders
    /\ deadline \in [Followers -> Waits] /\ gathering \in Waits
    /\ added \subseteq Followers /\ dragging \in Members /\ parted \in Rests
    /\ taking \in [Followers -> [rest : Rests, begun : BOOLEAN]]
    /\ readied \in [Followers -> Rests]
    /\ link \in [Followers -> {"Ready", "Down", "Closed"}]
    /\ hindrance \in [Followers -> {"None", "Stuck", "Down", "Dead"}]
    /\ inGame \in [Followers -> BOOLEAN]
    /\ member \in [Followers -> {"Grouped", "Disbanded", "Out"}]
    /\ settled \subseteq knows /\ knows \subseteq Followers
    /\ board \in Leadings /\ report \in [Followers -> Reports]
    /\ mishaps \in 0..MaxMishaps
    /\ board.rest <= rest
    /\ \A f \in Followers : prepared[f] <= board.rest

(* Nobody walks back before everybody has prepared for this rest: as the
   leader sets out, a follower that is able, not given up, and settled in its
   group (it has taken a turn there and has not left, nor lost its connection,
   since) has finished its own prep for the rest under way, not for the last
   one (hold_for_group, "the barrier by number"). Not one that lost its
   connection at any time since it joined: its roster is empty until the game
   tells it of the group again, so it reports that it has left, and the leader
   walks without it. *)
SettingOut == phase[Leader] = "Resting" /\ phase'[Leader] = "Returning"
Able(f) == link[f] = "Ready" /\ hindrance[f] = "None" /\ deadline[f] # "Over"
WalksBackTogether ==
    [][SettingOut => \A f \in Followers :
         Able(f) /\ f \in settled => prepared[f] = rest]_vars

(* The same of a follower the leader disbanded to walk home on its own: "They
   join again at the far end: the gather at the rest" (plan/39, Stage 5). *)
WhoWalkedAloneIsAwaited ==
    [][SettingOut => \A f \in Followers :
         Able(f) /\ member[f] = "Disbanded" => prepared[f] = rest]_vars

(* A rest ends: whoever drops, dies, falls behind or leaves, the leader hunts
   again or its hunt is over ("preparing for the rest for good" was the
   review of 2026-09-29). *)
HuntsAgain == (phase[Leader] = "Resting") ~> (phase[Leader] \in {"Hunting", "Over"})
=============================================================================

-------------------------- MODULE GroupRest_proofs --------------------------
(* Proofs about GroupRest, for any leader, any followers and any bounds: its
   types, and that a leader never sets out from a rest before every able
   follower in its group has prepared for that rest. *)
EXTENDS GroupRest, TLAPS

(* What a follower's report claims is still so, or is behind what is so: the
   number of the last rest it prepared for only grows, a connection given up
   does not come back, nobody rises from the dead, and who is settled in the
   group says it is there. *)
ReportsLag ==
    \A f \in Followers :
        /\ report[f].prepared <= prepared[f]
        /\ report[f].link = "Closed" => link[f] = "Closed"
        /\ report[f].hindrance = "Dead" => hindrance[f] = "Dead"
        /\ f \in settled => report[f].grouped

USE DEF place

IInv == TypeOK /\ ReportsLag

LEMMA Bounds == /\ MaxRests \in Nat /\ Commands \in Nat /\ MaxMishaps \in Nat
                /\ MaxMishapsApart \in 0 .. MaxMishaps
                /\ Leader \notin Followers /\ Members = Followers \cup {Leader}
  BY ConstantsAssumption DEF ConstantsAssumption, Members

LEMMA InitIInv == ASSUME Init PROVE IInv
  <1>1. board \in Leadings
    BY Bounds DEF Init, Leadings, Rests, Phases, Rooms, Orders
  <1>2. report \in [Followers -> Reports]
    BY Bounds DEF Init, Reports, Rests, Rooms, Bodies
  <1>3. TypeOK
    <2>1. 0 \in Rests /\ 0 \in 0 .. Commands /\ 0 \in 0 .. MaxMishaps
      BY Bounds DEF Rests
    <2>2. /\ phase \in [Members -> Phases] /\ at \in [Members -> Rooms]
          /\ body \in [Members -> Bodies] /\ todo \in [Members -> 0 .. Commands]
          /\ prepared \in [Members -> Rests]
      BY <2>1 DEF Init, Phases, Rooms, Bodies
    <2>3. /\ deadline \in [Followers -> Waits] /\ gathering \in Waits /\ order \in Orders
          /\ taking \in [Followers -> [rest : Rests, begun : BOOLEAN]]
          /\ readied \in [Followers -> Rests]
          /\ link \in [Followers -> {"Ready", "Down", "Closed"}]
          /\ hindrance \in [Followers -> {"None", "Stuck", "Down", "Dead"}]
          /\ inGame \in [Followers -> BOOLEAN]
          /\ member \in [Followers -> {"Grouped", "Disbanded", "Out"}]
      BY <2>1 DEF Init, Waits, Orders
    <2>4. /\ rest \in Rests /\ added \subseteq Followers /\ dragging \in Members
          /\ parted \in Rests /\ mishaps \in 0 .. MaxMishaps
          /\ settled \subseteq knows /\ knows \subseteq Followers
      BY <2>1, Bounds DEF Init
    <2>5. board.rest <= rest /\ \A f \in Followers : prepared[f] <= board.rest
      BY Bounds DEF Init
    <2> QED
      BY <1>1, <1>2, <2>2, <2>3, <2>4, <2>5 DEF TypeOK
  <1>4. ReportsLag
    BY Bounds DEF Init, ReportsLag
  <1> QED
    BY <1>3, <1>4 DEF IInv

(* A turn of the leader: what it publishes is what it has become, and no
   follower changes by it but where it stands and its place in the group. *)
LeaderFits ==
    /\ phase' \in [Members -> Phases] /\ at' \in [Members -> Rooms]
    /\ todo' \in [Members -> 0 .. Commands] /\ prepared' \in [Members -> Rests]
    /\ rest' \in Rests /\ rest <= rest' /\ order' \in Orders /\ gathering' \in Waits
    /\ added' \subseteq Followers /\ dragging' \in Members /\ parted' \in Rests
    /\ member' \in [Followers -> {"Grouped", "Disbanded", "Out"}]
    /\ knows' \subseteq Followers
    /\ \A f \in Followers : prepared'[f] = prepared[f]

LEMMA LeaderTurnKeeps == ASSUME IInv, LeaderTurn, LeaderFits PROVE IInv'
  <1>. USE DEF LeaderFits
  <1>1. /\ UNCHANGED <<body, taking, readied, link, hindrance, inGame, report, mishaps>>
        /\ settled' \subseteq knows' /\ settled' \subseteq settled
    BY DEF LeaderTurn, wire
  <1>2. deadline' \in [Followers -> Waits]
    BY DEF LeaderTurn, Look, IInv, TypeOK, Waits
  <1>3. board' = [rest |-> rest', prepared |-> prepared'[Leader],
                  phase |-> phase'[Leader], at |-> at[Leader], order |-> order',
                  alone |-> board.alone, up |-> TRUE]
    BY DEF LeaderTurn, PublishLeading
  <1>4. board' \in Leadings
    <2>1. Leader \in Members
      BY Bounds
    <2>2. board.alone \in BOOLEAN /\ at[Leader] \in Rooms
      BY <2>1 DEF IInv, TypeOK, Leadings
    <2> QED
      BY <1>3, <2>1, <2>2 DEF Leadings
  <1>5. board'.rest = rest' /\ board.rest <= rest /\ board.rest \in Int /\ rest \in Int /\ rest' \in Int
    BY <1>3, Bounds DEF IInv, TypeOK, Leadings, Rests
  <1>6. \A f \in Followers : prepared[f] <= board.rest /\ prepared[f] \in Int
    BY Bounds DEF IInv, TypeOK, Rests
  <1>7. board'.rest <= rest' /\ \A f \in Followers : prepared'[f] <= board'.rest
    BY <1>5, <1>6
  <1>8. TypeOK'
    <2>1. TypeOK
      BY DEF IInv
    <2> QED
      BY <1>1, <1>2, <1>4, <1>7, <2>1 DEF TypeOK
  <1>9. ReportsLag'
    BY <1>1 DEF IInv, ReportsLag
  <1> QED
    BY <1>8, <1>9 DEF IInv

(* A turn of a follower: its report is of now. *)
FollowerFits ==
    /\ phase' \in [Members -> Phases] /\ at' \in [Members -> Rooms]
    /\ todo' \in [Members -> 0 .. Commands] /\ prepared' \in [Members -> Rests]
    /\ taking' \in [Followers -> [rest : Rests, begun : BOOLEAN]]
    /\ readied' \in [Followers -> Rests]
    /\ member' \in [Followers -> {"Grouped", "Disbanded", "Out"}]
    /\ knows \subseteq knows' /\ knows' \subseteq Followers
    /\ \A g \in Followers : prepared[g] <= prepared'[g] /\ prepared'[g] <= board.rest

LEMMA FollowerTurnKeeps ==
    ASSUME IInv, NEW f \in Followers, FollowerTurn(f), FollowerFits
    PROVE  IInv'
  <1>. USE DEF FollowerFits
  <1>1. UNCHANGED <<body, rest, order, added, dragging, parted, deadline, gathering,
                   link, hindrance, inGame, board, mishaps>>
    BY DEF FollowerTurn, lead, wire
  <1>2. /\ report' = [report EXCEPT ![f] = ReportOf(f, phase'[f], prepared'[f])]
        /\ settled' = IF f \in knows THEN settled \cup {f} ELSE settled
    BY DEF FollowerTurn, PublishReport
  <1>3. f \in Members
    BY Bounds
  <1>4. ReportOf(f, phase'[f], prepared'[f]) \in Reports
    BY <1>3 DEF ReportOf, Reports, IInv, TypeOK, Bodies
  <1>5. report' \in [Followers -> Reports]
    BY <1>2, <1>4 DEF IInv, TypeOK
  <1>6. TypeOK'
    <2>1. TypeOK
      BY DEF IInv
    <2> QED
      BY <1>1, <1>2, <1>5, <2>1 DEF TypeOK
  <1>7. ReportsLag'
    <2>1. /\ report'[f].prepared = prepared'[f] /\ report'[f].link = "Ready"
          /\ report'[f].hindrance = hindrance[f]
          /\ f \in knows => report'[f].grouped
      BY <1>2 DEF ReportOf, IInv, TypeOK
    <2>2. \A g \in Followers : g # f => report'[g] = report[g]
      BY <1>2 DEF IInv, TypeOK
    <2>3. \A g \in Followers : /\ prepared'[g] \in Int /\ prepared[g] \in Int
                              /\ report[g].prepared \in Int
      BY Bounds DEF IInv, TypeOK, Reports, Rests
    <2>4. \A g \in Followers : report'[g].prepared <= prepared'[g]
      BY <2>1, <2>2, <2>3 DEF IInv, ReportsLag
    <2>5. ASSUME NEW g \in Followers, g \in settled' PROVE report'[g].grouped
      <3>1. settled \subseteq knows
        BY DEF IInv, TypeOK
      <3>2. CASE g = f
        BY <1>2, <2>1, <2>5, <3>1, <3>2
      <3>3. CASE g # f
        BY <1>2, <2>2, <2>5, <3>3 DEF IInv, ReportsLag
      <3> QED
        BY <3>2, <3>3
    <2> QED
      BY <1>1, <2>1, <2>2, <2>4, <2>5 DEF IInv, ReportsLag
  <1> QED
    BY <1>6, <1>7 DEF IInv

-----------------------------------------------------------------------------
(* The leader's turns fit. *)
LEMMA LeaderWalksFits ==
    ASSUME IInv, NEW room \in Rooms, LeaderWalks(room)
    PROVE  at' \in [Members -> Rooms]
  BY DEF LeaderWalks, IInv, TypeOK

LEMMA BeginFits ==
    ASSUME IInv, NEW m \in Members, NEW next \in Phases, Begin(m, next)
    PROVE  phase' \in [Members -> Phases] /\ todo' \in [Members -> 0 .. Commands]
  BY Bounds DEF Begin, IInv, TypeOK

LEMMA SendFits ==
    ASSUME IInv, NEW m \in Members, SendNext(m)
    PROVE  todo' \in [Members -> 0 .. Commands]
  BY Bounds DEF SendNext, IInv, TypeOK

LEMMA StayedFits ==
    ASSUME IInv
    PROVE  /\ phase \in [Members -> Phases] /\ at \in [Members -> Rooms]
           /\ todo \in [Members -> 0 .. Commands] /\ prepared \in [Members -> Rests]
           /\ rest \in Rests /\ rest \in Int /\ rest >= 0 /\ rest <= MaxRests
           /\ order \in Orders /\ gathering \in Waits
           /\ added \subseteq Followers /\ dragging \in Members /\ parted \in Rests
           /\ taking \in [Followers -> [rest : Rests, begun : BOOLEAN]]
           /\ readied \in [Followers -> Rests]
           /\ member \in [Followers -> {"Grouped", "Disbanded", "Out"}]
           /\ knows \subseteq Followers /\ settled \subseteq knows
           /\ Leader \in Members /\ Followers \subseteq Members
           /\ {"Field", "Home"} = Rooms
           /\ {"Hunting", "ToRest", "Resting", "Returning", "Preparing", "Over"} = Phases
  BY Bounds DEF IInv, TypeOK, Rests, Rooms, Phases

LEMMA StartRestFits == ASSUME IInv, StartRest PROVE LeaderFits
  <1>1. /\ rest' = rest + 1 /\ rest < MaxRests
        /\ UNCHANGED <<order, added, dragging, parted, prepared, gathering, place>>
    BY DEF StartRest
  <1>2. rest' \in Rests /\ rest <= rest'
    BY <1>1, StayedFits, Bounds DEF Rests
  <1>3. /\ phase' \in [Members -> Phases] /\ at' \in [Members -> Rooms]
        /\ todo' \in [Members -> 0 .. Commands]
    <2>1. CASE at[Leader] = "Home"
      <3>1. Begin(Leader, "Resting") /\ at' = at
        BY <2>1 DEF StartRest
      <3> QED
        BY <3>1, StayedFits, BeginFits
    <2>2. CASE at[Leader] # "Home"
      <3>1. /\ phase' = [phase EXCEPT ![Leader] = "ToRest"]
            /\ LeaderWalks("Home") /\ todo' = todo
        BY <2>2 DEF StartRest
      <3> QED
        BY <3>1, StayedFits, LeaderWalksFits
    <2> QED
      BY <2>1, <2>2
  <1> QED
    BY <1>1, <1>2, <1>3, StayedFits DEF LeaderFits

LEMMA AtTheRestFits ==
    ASSUME IInv, AtTheRest
    PROVE  /\ prepared' \in [Members -> Rests] /\ order' \in Orders
           /\ \A f \in Followers : prepared'[f] = prepared[f]
           /\ UNCHANGED <<rest, added, dragging, parted, place>>
  <1>1. order' \in Orders
    BY DEF AtTheRest, PrepOrder, Orders
  <1>2. prepared' = prepared \/ prepared' = [prepared EXCEPT ![Leader] = rest]
    BY DEF AtTheRest
  <1>3. prepared' \in [Members -> Rests] /\ \A f \in Followers : prepared'[f] = prepared[f]
    BY <1>2, StayedFits, Bounds
  <1> QED
    BY <1>1, <1>3 DEF AtTheRest

LEMMA LeadsKeeps == ASSUME IInv, Leads PROVE IInv'
  <1>1. CASE EndsForTheDead
    <2>1. phase' \in [Members -> Phases]
      BY <1>1, StayedFits DEF EndsForTheDead
    <2>2. deadline' \in [Followers -> Waits]
      BY <1>1 DEF EndsForTheDead, Look, IInv, TypeOK, Waits
    <2>3. board' \in Leadings /\ board'.rest = board.rest
      BY <1>1 DEF EndsForTheDead, IInv, TypeOK, Leadings
    <2>4. TypeOK'
      <3>1. TypeOK
        BY DEF IInv
      <3> QED
        BY <1>1, <2>1, <2>2, <2>3, <3>1 DEF EndsForTheDead, TypeOK, lead, wire
    <2> QED
      BY <1>1, <2>4 DEF EndsForTheDead, IInv, ReportsLag, wire
  <1>2. CASE AddsTheLinkDead
    <2>1. LeaderFits
      BY <1>2, StayedFits DEF AddsTheLinkDead, LeaderFits, ToAdd
    <2> QED
      BY <1>2, <2>1, LeaderTurnKeeps DEF AddsTheLinkDead
  <1>3. CASE Drags
    <2>1. LeaderFits
      BY <1>3, StayedFits DEF Drags, LeaderFits
    <2> QED
      BY <1>3, <2>1, LeaderTurnKeeps DEF Drags
  <1>4. CASE TakesHome
    BY <1>4, StartRestFits, LeaderTurnKeeps DEF TakesHome
  <1>5. CASE Fetches
    <2>1. PICK f \in Followers : LeaderWalks(report[f].at)
      BY <1>5 DEF Fetches
    <2>2. report[f].at \in Rooms
      BY DEF IInv, TypeOK, Reports
    <2>3. at' \in [Members -> Rooms]
      BY <2>1, <2>2, LeaderWalksFits
    <2>4. LeaderFits
      BY <1>5, <2>3, StayedFits DEF Fetches, LeaderFits, lead
    <2> QED
      BY <1>5, <2>4, LeaderTurnKeeps DEF Fetches
  <1>6. CASE RestsForAStraggler
    BY <1>6, StartRestFits, LeaderTurnKeeps DEF RestsForAStraggler
  <1>7. CASE Disbands
    <2>1. parted' \in Rests
      BY <1>7, StayedFits, Bounds DEF Disbands, Rests
    <2>2. member' \in [Followers -> {"Grouped", "Disbanded", "Out"}]
      BY <1>7, StayedFits DEF Disbands
    <2>3. LeaderFits
      BY <1>7, <2>1, <2>2, StayedFits DEF Disbands, LeaderFits
    <2> QED
      BY <1>7, <2>3, LeaderTurnKeeps DEF Disbands
  <1>8. CASE RestsForItsReasons
    BY <1>8, StartRestFits, LeaderTurnKeeps DEF RestsForItsReasons
  <1>9. CASE HuntsOn
    <2>1. LeaderFits
      BY <1>9, StayedFits DEF HuntsOn, LeaderFits, lead, Waits
    <2> QED
      BY <1>9, <2>1, LeaderTurnKeeps DEF HuntsOn
  <1>10. CASE WalksHome
    <2>1. CASE at[Leader] = "Home"
      <3>1. Begin(Leader, "Resting") /\ at' = at
        BY <1>10, <2>1 DEF WalksHome
      <3>2. phase' \in [Members -> Phases] /\ todo' \in [Members -> 0 .. Commands]
        BY <3>1, BeginFits, StayedFits
      <3>3. LeaderFits
        BY <1>10, <3>1, <3>2, StayedFits DEF WalksHome, LeaderFits, lead
      <3> QED
        BY <1>10, <3>3, LeaderTurnKeeps DEF WalksHome
    <2>2. CASE at[Leader] # "Home"
      <3>1. LeaderWalks("Home") /\ UNCHANGED <<phase, todo>>
        BY <1>10, <2>2 DEF WalksHome
      <3>2. at' \in [Members -> Rooms]
        BY <3>1, LeaderWalksFits, StayedFits
      <3>3. LeaderFits
        BY <1>10, <3>1, <3>2, StayedFits DEF WalksHome, LeaderFits, lead
      <3> QED
        BY <1>10, <3>3, LeaderTurnKeeps DEF WalksHome
    <2> QED
      BY <2>1, <2>2
  <1>11. CASE Preps
    <2>1. LeaderFits
      <3>1. todo' \in [Members -> 0 .. Commands]
        BY <1>11, SendFits, StayedFits DEF Preps
      <3> QED
        BY <1>11, <3>1, AtTheRestFits, StayedFits DEF Preps, LeaderFits
    <2> QED
      BY <1>11, <2>1, LeaderTurnKeeps DEF Preps
  <1>12. CASE WaitsAtTheRest
    <2>1. gathering' \in Waits
      BY <1>12, StayedFits DEF WaitsAtTheRest, Waits
    <2>2. LeaderFits
      BY <1>12, <2>1, AtTheRestFits, StayedFits DEF WaitsAtTheRest, LeaderFits
    <2> QED
      BY <1>12, <2>2, LeaderTurnKeeps DEF WaitsAtTheRest
  <1>13. CASE SetsOut
    <2>1. at' \in [Members -> Rooms]
      BY <1>13, LeaderWalksFits, StayedFits DEF SetsOut
    <2>2. gathering' \in Waits /\ phase' \in [Members -> Phases]
      BY <1>13, StayedFits DEF SetsOut, Waits
    <2>3. LeaderFits
      BY <1>13, <2>1, <2>2, AtTheRestFits, StayedFits DEF SetsOut, LeaderFits
    <2> QED
      BY <1>13, <2>3, LeaderTurnKeeps DEF SetsOut
  <1>14. CASE WalksBack
    <2>1. CASE at[Leader] = "Field"
      <3>1. Begin(Leader, "Preparing") /\ at' = at
        BY <1>14, <2>1 DEF WalksBack
      <3>2. phase' \in [Members -> Phases] /\ todo' \in [Members -> 0 .. Commands]
        BY <3>1, BeginFits, StayedFits
      <3>3. LeaderFits
        BY <1>14, <3>1, <3>2, StayedFits DEF WalksBack, LeaderFits, lead
      <3> QED
        BY <1>14, <3>3, LeaderTurnKeeps DEF WalksBack
    <2>2. CASE at[Leader] # "Field"
      <3>1. LeaderWalks("Field") /\ UNCHANGED <<phase, todo>>
        BY <1>14, <2>2 DEF WalksBack
      <3>2. at' \in [Members -> Rooms]
        BY <3>1, LeaderWalksFits, StayedFits
      <3>3. LeaderFits
        BY <1>14, <3>1, <3>2, StayedFits DEF WalksBack, LeaderFits, lead
      <3> QED
        BY <1>14, <3>3, LeaderTurnKeeps DEF WalksBack
    <2> QED
      BY <2>1, <2>2
  <1>15. CASE GetsReady
    <2>1. todo' \in [Members -> 0 .. Commands]
      BY <1>15, SendFits, StayedFits DEF GetsReady
    <2>2. gathering' \in Waits /\ phase' \in [Members -> Phases]
      BY <1>15, StayedFits DEF GetsReady, Waits
    <2>3. LeaderFits
      BY <1>15, <2>1, <2>2, StayedFits DEF GetsReady, LeaderFits, lead
    <2> QED
      BY <1>15, <2>3, LeaderTurnKeeps DEF GetsReady
  <1> QED
    BY <1>1, <1>2, <1>3, <1>4, <1>5, <1>6, <1>7, <1>8, <1>9, <1>10, <1>11, <1>12,
       <1>13, <1>14, <1>15 DEF Leads

-----------------------------------------------------------------------------
(* A follower's turns fit: the only number a rest writes down is the one on
   the board. *)
LEMMA BoardFits ==
    ASSUME IInv
    PROVE  /\ board.rest \in Rests /\ board.at \in Rooms
           /\ \A g \in Followers : /\ prepared[g] \in Int /\ prepared[g] <= prepared[g]
                                 /\ prepared[g] <= board.rest
           /\ board.rest <= board.rest
  BY Bounds DEF IInv, TypeOK, Leadings, Rests

LEMMA TakesRestFits == ASSUME IInv, NEW f \in Followers, TakesRest(f) PROVE FollowerFits
  <1>1. phase' \in [Members -> Phases] /\ UNCHANGED <<at, readied, place>>
    BY StayedFits DEF TakesRest
  <1>2. taking' \in [Followers -> [rest : Rests, begun : BOOLEAN]]
    <2>1. \/ taking' = taking
          \/ \E b \in BOOLEAN : taking' = [taking EXCEPT ![f] = [rest |-> board.rest, begun |-> b]]
      BY DEF TakesRest
    <2> QED
      BY <2>1, StayedFits, BoardFits
  <1>3. todo' \in [Members -> 0 .. Commands]
    <2>1. f \in Members /\ StillToDo(f) \in 0 .. Commands
      BY StayedFits, Bounds DEF StillToDo
    <2>2. todo' = todo \/ todo' = [todo EXCEPT ![f] = IF StillToDo(f) = 0 THEN 0 ELSE StillToDo(f) - 1]
      BY DEF TakesRest
    <2> QED
      BY <2>1, <2>2, StayedFits, Bounds
  <1>4. prepared' = prepared \/ prepared' = [prepared EXCEPT ![f] = board.rest]
    BY DEF TakesRest
  <1>5. /\ prepared' \in [Members -> Rests]
        /\ \A g \in Followers : prepared[g] <= prepared'[g] /\ prepared'[g] <= board.rest
    BY <1>4, StayedFits, BoardFits
  <1> QED
    BY <1>1, <1>2, <1>3, <1>5, StayedFits DEF FollowerFits

LEMMA FollowsKeeps == ASSUME IInv, NEW f \in Followers, Follows(f) PROVE IInv'
  <1>0. f \in Members
    BY StayedFits
  <1>1. CASE StopsFollowing(f)
    <2>1. FollowerFits
      BY <1>0, <1>1, StayedFits, BoardFits DEF StopsFollowing, FollowerFits
    <2> QED
      BY <1>1, <2>1, FollowerTurnKeeps DEF StopsFollowing
  <1>2. CASE CatchesUp(f)
    <2>1. Goal \in Rooms
      BY BoardFits, StayedFits DEF Goal
    <2>2. at' \in [Members -> Rooms] /\ phase' \in [Members -> Phases]
      BY <1>0, <1>2, <2>1, StayedFits DEF CatchesUp
    <2>3. FollowerFits
      BY <1>2, <2>2, StayedFits, BoardFits DEF CatchesUp, FollowerFits
    <2> QED
      BY <1>2, <2>3, FollowerTurnKeeps DEF CatchesUp
  <1>3. CASE Joins(f)
    <2>1. /\ phase' \in [Members -> Phases]
          /\ member' \in [Followers -> {"Grouped", "Disbanded", "Out"}]
      BY <1>0, <1>3, StayedFits DEF Joins
    <2>2. FollowerFits
      BY <1>3, <2>1, StayedFits, BoardFits DEF Joins, FollowerFits
    <2> QED
      BY <1>3, <2>2, FollowerTurnKeeps DEF Joins
  <1>4. CASE HuntsAlong(f)
    <2>1. phase' \in [Members -> Phases] /\ todo' \in [Members -> 0 .. Commands]
      BY <1>0, <1>4, StayedFits, Bounds DEF HuntsAlong
    <2>2. FollowerFits
      BY <1>4, <2>1, StayedFits, BoardFits DEF HuntsAlong, FollowerFits
    <2> QED
      BY <1>4, <2>2, FollowerTurnKeeps DEF HuntsAlong
  <1>5. CASE GoesHome(f)
    <2>1. FollowerFits
      BY <1>0, <1>5, StayedFits, BoardFits DEF GoesHome, FollowerFits
    <2> QED
      BY <1>5, <2>1, FollowerTurnKeeps DEF GoesHome
  <1>6. CASE TakesRest(f)
    BY <1>6, TakesRestFits, FollowerTurnKeeps DEF TakesRest
  <1>7. CASE Readies(f)
    <2> DEFINE left == IF readied[f] = board.rest THEN todo[f] ELSE Commands
    <2>1. todo' = [todo EXCEPT ![f] = IF left = 0 THEN 0 ELSE left - 1]
      BY <1>7 DEF Readies
    <2>2. left \in 0 .. Commands
      BY <1>0, StayedFits, Bounds
    <2> HIDE DEF left
    <2>3. todo' \in [Members -> 0 .. Commands]
      BY <1>0, <2>1, <2>2, StayedFits, Bounds
    <2>4. phase' \in [Members -> Phases] /\ readied' \in [Followers -> Rests]
      BY <1>0, <1>7, StayedFits, BoardFits DEF Readies
    <2>5. FollowerFits
      BY <1>7, <2>3, <2>4, StayedFits, BoardFits DEF Readies, FollowerFits
    <2> QED
      BY <1>7, <2>5, FollowerTurnKeeps DEF Readies
  <1> QED
    BY <1>1, <1>2, <1>3, <1>4, <1>5, <1>6, <1>7 DEF Follows

-----------------------------------------------------------------------------
(* What goes wrong, and what heals, leaves every number and every claim. *)
WorldFits ==
    /\ UNCHANGED <<phase, todo, prepared, lead, taking, readied, board>>
    /\ at' = at /\ body' \in [Members -> Bodies]
    /\ deadline' \in [Followers -> Waits] /\ gathering' \in Waits
    /\ link' \in [Followers -> {"Ready", "Down", "Closed"}]
    /\ hindrance' \in [Followers -> {"None", "Stuck", "Down", "Dead"}]
    /\ inGame' \in [Followers -> BOOLEAN]
    /\ member' \in [Followers -> {"Grouped", "Disbanded", "Out"}]
    /\ knows' \subseteq Followers
    /\ settled' \subseteq knows' /\ settled' \subseteq settled
    /\ mishaps' \in 0 .. MaxMishaps

LEMMA UnhurtFits ==
    ASSUME IInv
    PROVE  /\ body \in [Members -> Bodies] /\ deadline \in [Followers -> Waits]
           /\ gathering \in Waits
           /\ link \in [Followers -> {"Ready", "Down", "Closed"}]
           /\ hindrance \in [Followers -> {"None", "Stuck", "Down", "Dead"}]
           /\ inGame \in [Followers -> BOOLEAN]
           /\ member \in [Followers -> {"Grouped", "Disbanded", "Out"}]
           /\ knows \subseteq Followers /\ settled \subseteq knows
           /\ mishaps \in 0 .. MaxMishaps
           /\ report \in [Followers -> Reports]
  BY DEF IInv, TypeOK

LEMMA MishapFits == ASSUME IInv, Mishap PROVE mishaps' \in 0 .. MaxMishaps
  BY Bounds DEF Mishap, IInv, TypeOK

LEMMA WorldTypes ==
    ASSUME IInv, WorldFits, report' \in [Followers -> Reports]
    PROVE  TypeOK'
  <1>1. TypeOK
    BY DEF IInv
  <1> QED
    BY <1>1 DEF WorldFits, TypeOK, lead

LEMMA WorldKeeps ==
    ASSUME IInv, WorldFits, report' = report,
           \A f \in Followers :
             /\ link[f] = "Closed" => link'[f] = "Closed"
             /\ hindrance[f] = "Dead" => hindrance'[f] = "Dead"
    PROVE  IInv'
  <1>1. TypeOK'
    BY WorldTypes, UnhurtFits
  <1>2. prepared' = prepared
    BY DEF WorldFits
  <1>3. ASSUME NEW f \in Followers
        PROVE  /\ report[f].prepared <= prepared[f]
               /\ report[f].link = "Closed" => link'[f] = "Closed"
               /\ report[f].hindrance = "Dead" => hindrance'[f] = "Dead"
               /\ f \in settled' => report[f].grouped
    BY DEF IInv, ReportsLag, WorldFits
  <1>4. ReportsLag'
    BY <1>2, <1>3 DEF ReportsLag
  <1> QED
    BY <1>1, <1>4 DEF IInv

LEMMA TiresKeeps == ASSUME IInv, NEW m \in Tiring, Tires(m) \/ Recovers(m) PROVE IInv'
  <1>1. \E b \in Bodies : body' = [body EXCEPT ![m] = b]
    <2>1. Needs \subseteq Bodies /\ "Well" \in Bodies
      BY ConstantsAssumption DEF ConstantsAssumption, Bodies
    <2> QED
      BY <2>1 DEF Tires, Recovers
  <1>2. WorldFits
    BY <1>1, UnhurtFits DEF Tires, Recovers, WorldFits, hunts, wire
  <1> QED
    BY <1>2, WorldKeeps DEF Tires, Recovers, wire

LEMMA ClocksKeep ==
    ASSUME IInv, GatherEnds \/ \E f \in Followers : LostWaitEnds(f)
    PROVE  IInv'
  <1>1. deadline' \in [Followers -> Waits] /\ gathering' \in Waits
    BY UnhurtFits DEF GatherEnds, LostWaitEnds, Waits
  <1>2. WorldFits
    BY <1>1, UnhurtFits DEF GatherEnds, LostWaitEnds, WorldFits, hunts, wire
  <1> QED
    BY <1>2, WorldKeeps DEF GatherEnds, LostWaitEnds, wire

LEMMA FreedKeeps == ASSUME IInv, NEW f \in Followers, Freed(f) PROVE IInv'
  <1>1. /\ hindrance' \in [Followers -> {"None", "Stuck", "Down", "Dead"}]
        /\ \A g \in Followers : hindrance[g] = "Dead" => hindrance'[g] = "Dead"
    BY UnhurtFits DEF Freed
  <1>2. WorldFits
    BY <1>1, UnhurtFits DEF Freed, WorldFits, hunts
  <1> QED
    BY <1>1, <1>2, WorldKeeps DEF Freed

(* A connection lost, or given up: the report says so as it happens. *)
LEMMA LinkLostKeeps ==
    ASSUME IInv, NEW f \in Followers, LinkLost(f), settled' = settled \cap knows'
    PROVE  IInv'
  <1>1. /\ link' = [link EXCEPT ![f] = "Down"] /\ link[f] = "Ready"
        /\ knows' = knows \ {f}
        /\ report' = [report EXCEPT ![f] = [@ EXCEPT !.link = "Down", !.grouped = FALSE]]
        /\ UNCHANGED <<prepared, hindrance>>
    BY DEF LinkLost, CanTurn, hunts
  <1>2. report' \in [Followers -> Reports]
    <2>1. report[f] \in Reports
      BY UnhurtFits
    <2>2. [report[f] EXCEPT !.link = "Down", !.grouped = FALSE] \in Reports
      BY <2>1 DEF Reports
    <2> QED
      BY <1>1, <2>2, UnhurtFits
  <1>3. WorldFits
    BY <1>1, MishapFits, UnhurtFits DEF LinkLost, WorldFits, hunts
  <1>4. \A g \in Followers :
            /\ report'[g].prepared = report[g].prepared
            /\ report'[g].hindrance = report[g].hindrance
            /\ report'[g].link = IF g = f THEN "Down" ELSE report[g].link
            /\ report'[g].grouped = IF g = f THEN FALSE ELSE report[g].grouped
            /\ link'[g] = IF g = f THEN "Down" ELSE link[g]
    BY <1>1, UnhurtFits DEF Reports
  <1>5. \A g \in Followers : g \in settled' => g # f /\ g \in settled
    BY <1>1
  <1>6. ReportsLag'
    BY <1>1, <1>4, <1>5 DEF IInv, ReportsLag
  <1> QED
    BY <1>2, <1>3, <1>6, WorldTypes DEF IInv

LEMMA LinkGivenUpKeeps ==
    ASSUME IInv, NEW f \in Followers, LinkGivenUp(f), settled' = settled \cap knows'
    PROVE  IInv'
  <1>1. /\ link' = [link EXCEPT ![f] = "Closed"]
        /\ report' = [report EXCEPT ![f].link = "Closed"]
        /\ phase' = [phase EXCEPT ![f] = "Over"]
        /\ UNCHANGED <<todo, prepared, rest, order, added, dragging, parted, taking,
                      readied, board, at, body, deadline, gathering, hindrance,
                      inGame, place, mishaps, settled>>
    <2>1. settled \cap knows = settled
      BY UnhurtFits
    <2> QED
      BY <2>1 DEF LinkGivenUp, lead
  <1>2. report' \in [Followers -> Reports] /\ phase' \in [Members -> Phases]
    <2>1. report' \in [Followers -> Reports]
      BY <1>1, UnhurtFits DEF Reports
    <2> QED
      BY <1>1, <2>1, StayedFits
  <1>3. link' \in [Followers -> {"Ready", "Down", "Closed"}]
    BY <1>1, UnhurtFits
  <1>4. TypeOK'
    <2>1. TypeOK
      BY DEF IInv
    <2> QED
      BY <1>1, <1>2, <1>3, <2>1 DEF TypeOK
  <1>5. \A g \in Followers :
            /\ report'[g].prepared = report[g].prepared
            /\ report'[g].hindrance = report[g].hindrance
            /\ report'[g].link = IF g = f THEN "Closed" ELSE report[g].link
            /\ report'[g].grouped = report[g].grouped
            /\ link'[g] = IF g = f THEN "Closed" ELSE link[g]
    BY <1>1, UnhurtFits DEF Reports
  <1>6. ReportsLag'
    BY <1>1, <1>5 DEF IInv, ReportsLag
  <1> QED
    BY <1>4, <1>6 DEF IInv

LEMMA MishapsKeep == ASSUME IInv, NEW f \in Followers, Mishaps(f) PROVE IInv'
  <1>0. settled' = settled \cap knows'
    BY DEF Mishaps
  <1>1. CASE LinkBack(f)
    <2>1. /\ link' \in [Followers -> {"Ready", "Down", "Closed"}]
          /\ inGame' \in [Followers -> BOOLEAN]
          /\ \A g \in Followers : link[g] = "Closed" => link'[g] = "Closed"
      BY <1>1, UnhurtFits DEF LinkBack
    <2>2. WorldFits
      BY <1>0, <1>1, <2>1, UnhurtFits DEF LinkBack, WorldFits, hunts
    <2> QED
      BY <1>1, <2>1, <2>2, WorldKeeps DEF LinkBack
  <1>2. CASE DropsOut(f)
    <2>1. WorldFits
      BY <1>0, <1>2, MishapFits, UnhurtFits DEF DropsOut, Parts, WorldFits, hunts
    <2> QED
      BY <1>2, <2>1, WorldKeeps DEF DropsOut
  <1>3. CASE Hindered(f)
    <2>1. WorldFits
      BY <1>0, <1>3, MishapFits, UnhurtFits DEF Hindered, WorldFits, hunts
    <2>2. \A g \in Followers : hindrance[g] = "Dead" => hindrance'[g] = "Dead"
      BY <1>3, UnhurtFits DEF Hindered
    <2> QED
      BY <1>3, <2>1, <2>2, WorldKeeps DEF Hindered
  <1>4. CASE Dies(f)
    <2>1. WorldFits
      BY <1>0, <1>4, MishapFits, UnhurtFits DEF Dies, Parts, WorldFits, hunts
    <2>2. \A g \in Followers : hindrance[g] = "Dead" => hindrance'[g] = "Dead"
      BY <1>4, UnhurtFits DEF Dies
    <2> QED
      BY <1>4, <2>1, <2>2, WorldKeeps DEF Dies
  <1>5. CASE Leaves(f)
    <2>1. WorldFits
      BY <1>0, <1>5, MishapFits, UnhurtFits DEF Leaves, Parts, WorldFits, hunts, wire
    <2> QED
      BY <1>5, <2>1, WorldKeeps DEF Leaves, wire
  <1> QED
    BY <1>0, <1>1, <1>2, <1>3, <1>4, <1>5, LinkLostKeeps, LinkGivenUpKeeps DEF Mishaps

LEMMA StepKeeps == ASSUME IInv, [Next]_vars PROVE IInv'
  <1>1. ASSUME NEW f \in Followers, Follows(f) PROVE IInv'
    BY <1>1, FollowsKeeps
  <1>2. ASSUME NEW m \in Tiring, Tires(m) \/ Recovers(m) PROVE IInv'
    BY <1>2, TiresKeeps
  <1>3. ASSUME NEW f \in Followers, LostWaitEnds(f) \/ Freed(f) \/ Mishaps(f) PROVE IInv'
    BY <1>3, ClocksKeep, FreedKeeps, MishapsKeep
  <1>4. CASE UNCHANGED vars
    <2>1. TypeOK'
      BY <1>4 DEF IInv, TypeOK, vars, lead, wire
    <2> QED
      BY <1>4, <2>1 DEF IInv, ReportsLag, vars, wire
  <1> QED
    BY <1>1, <1>2, <1>3, <1>4, LeadsKeeps, ClocksKeep DEF Next

LEMMA Invariant == Spec => []IInv
  BY InitIInv, StepKeeps, PTL DEF Spec

-----------------------------------------------------------------------------
(* Every variable is what it is declared to be, and no follower counts itself
   prepared for a rest the leader has not called. *)
THEOREM TypeCorrect == Spec => []TypeOK
  <1>1. IInv => TypeOK
    BY DEF IInv
  <1> QED
    BY <1>1, Invariant, PTL

(* Only SetsOut ends a rest on the leader's side. *)
LEMMA OnlySetsOut == ASSUME IInv, Next, SettingOut PROVE SetsOut
  <1>1. ASSUME NEW m \in Members, m # Leader, NEW p,
               phase' = [phase EXCEPT ![m] = p]
        PROVE  phase'[Leader] = phase[Leader]
    BY <1>1, StayedFits
  <1>2. phase' # phase /\ phase[Leader] = "Resting" /\ phase'[Leader] = "Returning"
    BY DEF SettingOut
  <1>3. ASSUME NEW f \in Followers, Follows(f) PROVE phase'[Leader] = phase[Leader]
    <2>1. phase' = phase \/ \E p \in Phases : phase' = [phase EXCEPT ![f] = p]
      BY <1>3, StayedFits DEF Follows, StopsFollowing, CatchesUp, Joins, HuntsAlong, GoesHome,
                  TakesRest, Readies
    <2> QED
      BY <1>1, <2>1, Bounds, StayedFits
  <1>4. ASSUME NEW f \in Followers, Mishaps(f) PROVE phase'[Leader] = phase[Leader]
    <2>1. phase' = phase \/ phase' = [phase EXCEPT ![f] = "Over"]
      BY <1>4 DEF Mishaps, LinkLost, LinkGivenUp, LinkBack, DropsOut, Hindered, Dies,
                  Leaves, hunts
    <2> QED
      BY <1>1, <2>1, Bounds, StayedFits
  <1>5. ASSUME \/ GatherEnds \/ \E m \in Tiring : Tires(m) \/ Recovers(m)
               \/ \E f \in Followers : LostWaitEnds(f) \/ Freed(f)
        PROVE  phase' = phase
    BY <1>5 DEF GatherEnds, Tires, Recovers, LostWaitEnds, Freed, hunts
  <1>6. Leads
    BY <1>2, <1>3, <1>4, <1>5 DEF Next
  <1>7. ~Hunting
    BY <1>2 DEF Hunting
  <1> QED
    BY <1>2, <1>6, <1>7 DEF Leads, EndsForTheDead, AddsTheLinkDead, Drags, Musters, TakesHome,
       NobodyToTakeHome, Fetches, RestsForAStraggler, Disbands, RestsForItsReasons,
       RestIsCalled, NobodyToRestFor, HuntsOn, WalksHome, Preps, WaitsAtTheRest,
       WalksBack, GetsReady

(* A follower that is able and settled in its group is one the leader waits
   for, whatever its last report says of the rest. *)
LEMMA AbleIsWaitedFor ==
    ASSUME IInv, NEW f \in Followers, Able(f), f \in settled
    PROVE  WaitedFor(f)
  <1>1. /\ report[f].link # "Closed" /\ report[f].hindrance # "Dead"
        /\ deadline[f] # "Over" /\ report[f].grouped
    BY DEF Able, IInv, ReportsLag
  <1>2. report[f].link \in {"Ready", "Down"} /\ report[f].hindrance \in {"None", "Stuck", "Down"}
    BY <1>1, UnhurtFits DEF Reports
  <1>3. CASE report[f].link = "Down"
    <2>1. Muster(f) = "Lost"
      BY <1>1, <1>3 DEF Muster
    <2> QED
      BY <2>1 DEF WaitedFor
  <1>4. CASE report[f].link = "Ready"
    <2>1. Muster(f) = IF report[f].at = at[Leader]
                      THEN CASE report[f].hindrance = "None" -> "None"
                             [] report[f].hindrance # "None" /\ deadline[f] = "Over" -> "Overdue"
                             [] OTHER -> "Hold"
                      ELSE IF report[f].hindrance = "Stuck" \/ deadline[f] = "Over"
                           THEN "Fetch" ELSE "Await"
      BY <1>1, <1>4 DEF Muster
    <2>2. Muster(f) \in {"None", "Hold", "Fetch", "Await"}
      BY <1>1, <2>1
    <2> QED
      BY <2>2 DEF WaitedFor
  <1> QED
    BY <1>2, <1>3, <1>4

(* Nobody walks back before everybody settled in the group has prepared for
   this rest, whatever has happened to the others (hold_for_group). *)
THEOREM WalkBackTogether == Spec => WalksBackTogether
  <1> DEFINE A == SettingOut => \A f \in Followers :
                     Able(f) /\ f \in settled => prepared[f] = rest
  <1>1. ASSUME IInv, Next, SettingOut, NEW f \in Followers, Able(f), f \in settled
        PROVE  prepared[f] = rest
    <2>1. SetsOut
      BY <1>1, OnlySetsOut
    <2>2. ReadyToHunt(f)
      BY <1>1, <2>1, AbleIsWaitedFor DEF SetsOut, GroupIsReady
    <2>3. report[f].prepared = rest
      BY <2>2 DEF ReadyToHunt, PreparedFor
    <2>4. /\ report[f].prepared <= prepared[f] /\ prepared[f] <= board.rest
          /\ board.rest <= rest
      BY <1>1 DEF IInv, TypeOK, ReportsLag
    <2>5. prepared[f] \in Int /\ board.rest \in Int /\ rest \in Int
      BY <1>1, StayedFits, BoardFits, Bounds DEF Rests
    <2> QED
      BY <2>3, <2>4, <2>5
  <1>2. ASSUME IInv, [Next]_vars PROVE [A]_vars
    BY <1>1, <1>2
  <1> QED
    BY <1>2, Invariant, PTL DEF Spec, WalksBackTogether

=============================================================================

------------------------- MODULE Supervision_proofs -------------------------
(***************************************************************************)
(* What Supervision promises, for every set of lines and quits, every      *)
(* ladder and every number of connections.                                 *)
(***************************************************************************)
EXTENDS Supervision, SequenceTheorems, TLAPS

(* A login succeeds only within the bound.                                 *)
Bounded == phase \in {"live", "ended"} => generation <= MaxGeneration

(* A call not sent yet is nowhere.                                         *)
Unsent == {"idle", "stamped"}
NowhereYet ==
    /\ \A c \in Calls : call[c] \in Unsent => c \notin Elements(inbox)
    /\ \A l \in Lines : call[l] \in Unsent => l \notin queued /\ sentOn[l] = 0

(* The actor queues only lines meant for its connection, and they go with  *)
(* it.                                                                     *)
QueuedIsMeant ==
    /\ \A l \in queued : stamp[l] = generation
    /\ queued # {} => phase = "live"

(* What asks a running connection's actor to leave was sent to it.         *)
AskedOfThis ==
    phase = "live" =>
        \A c \in (Quits \cup Exits) \cap Elements(inbox) : askedOf[c] = generation

Ended == because = IF phase = "stopped" THEN because ELSE "running"

(* `marked` is that somebody typed since the last loss was counted.        *)
MarkedIsSent ==
    /\ counted \subseteq SentTyped
    /\ marked <=> counted # SentTyped

(* The supervisor's count of losses is the history's, and below its bound. *)
CountsAbsence == phase # "stopped" => absent = unattended /\ unattended < MaxUnattended

(* The ladder is as high as the waits; a connection that stays up is on    *)
(* none of its rungs.                                                      *)
Ladder ==
    /\ phase # "stopped" => attempt >= waits
    /\ phase \in {"live", "ended"} /\ lived # "brief" => waits = 0

Types == TypeOK /\ Bounded
Places == NowhereYet /\ QueuedIsMeant /\ MeantForThisConnection /\ AskedOfThis
Endings == ClosedIsTheEnd /\ LeavesForGood /\ Ended
Counts == MarkedIsSent /\ CountsAbsence /\ KeepsThePlayer

IInv == Types /\ Places /\ Endings /\ Counts /\ Ladder

-----------------------------------------------------------------------------
(* What is in the inbox.                                                   *)

LEMMA Appended ==
    ASSUME NEW S, NEW s \in Seq(S), NEW e \in S
    PROVE  /\ Append(s, e) \in Seq(S)
           /\ Elements(Append(s, e)) = Elements(s) \cup {e}
  <1>1. /\ Append(s, e) \in Seq(S) /\ Len(Append(s, e)) = Len(s) + 1
        /\ \A i \in 1..Len(s) : Append(s, e)[i] = s[i]
        /\ Append(s, e)[Len(s) + 1] = e
    BY AppendProperties
  <1>2. /\ Len(s) \in Nat /\ DOMAIN s = 1..Len(s)
        /\ DOMAIN Append(s, e) = 1..(Len(s) + 1)
    BY <1>1, LenProperties
  <1>3. 1..(Len(s) + 1) = (1..Len(s)) \cup {Len(s) + 1}
    BY <1>2
  <1> QED
    BY <1>1, <1>2, <1>3 DEF Elements

LEMMA Taken ==
    ASSUME NEW S, NEW s \in Seq(S), s # <<>>
    PROVE  /\ Head(s) \in S /\ Head(s) \in Elements(s)
           /\ Tail(s) \in Seq(S) /\ Elements(Tail(s)) \subseteq Elements(s)
  <1>1. /\ Len(s) \in Nat \ {0} /\ DOMAIN s = 1..Len(s)
    BY LenProperties, EmptySeq
  <1>2. /\ Tail(s) \in Seq(S) /\ Len(Tail(s)) = Len(s) - 1
        /\ Head(s) = s[1]
        /\ \A i \in 1..Len(Tail(s)) : Tail(s)[i] = s[i + 1]
    BY HeadTailProperties
  <1>3. DOMAIN Tail(s) = 1..(Len(s) - 1)
    BY <1>2, LenProperties
  <1>4. s[1] \in S /\ 1 \in DOMAIN s
    BY <1>1, ElementOfSeq
  <1>5. \A i \in DOMAIN Tail(s) : i + 1 \in DOMAIN s /\ Tail(s)[i] = s[i + 1]
    BY <1>1, <1>2, <1>3
  <1> QED
    BY <1>2, <1>4, <1>5 DEF Elements

LEMMA Emptied == <<>> \in Seq(Calls) /\ Elements(<<>>) = {}
  BY EmptySeq DEF Elements

-----------------------------------------------------------------------------
(* Each step keeps the types.                                              *)

LEMMA TypeStep ==
    ASSUME ConstantsAssumption, IInv, [Next]_vars
    PROVE  Types'
  <1> USE DEF IInv, Types, TypeOK, Bounded, Generations, Calls, Known, Reasons,
              Lifecycles, loop, actor, bounds, callers, history
  <1>1. ASSUME NEW l \in Lines, Stamp(l) PROVE Types'
    BY <1>1 DEF Stamp, Answer
  <1>2. ASSUME NEW l \in Lines, Send(l) PROVE Types'
    <2>1. inbox' \in Seq(Calls)
      <3>1. l \in Calls
        BY <1>2
      <3>2. Append(inbox, l) \in Seq(Calls)
        BY <3>1, Appended
      <3> QED
        BY <1>2, <3>2 DEF Send
    <2>2. call' \in [Calls -> Known]
      BY <1>2 DEF Send, Answer
    <2>3. askedOf' \in [Quits \cup Exits -> {0} \cup Generations]
      BY <1>2 DEF Send, Remember
    <2>4. marked' \in BOOLEAN
      BY <1>2 DEF Send, Mark
    <2> QED
      BY <1>2, <2>1, <2>2, <2>3, <2>4 DEF Send
  <1>3. ASSUME NEW l \in Lines, Write(l) PROVE Types'
    BY <1>3 DEF Write, Answer
  <1>4. ASSUME NEW q \in Quits, AskToQuit(q) PROVE Types'
    <2>1. inbox' \in Seq(Calls)
      BY <1>4, Appended DEF AskToQuit
    <2>2. call' \in [Calls -> Known]
      BY <1>4 DEF AskToQuit, Answer
    <2>3. askedOf' \in [Quits \cup Exits -> {0} \cup Generations]
      BY <1>4 DEF AskToQuit, Remember
    <2> QED
      BY <1>4, <2>1, <2>2, <2>3 DEF AskToQuit
  <1>5. CASE Cancel
    BY <1>5 DEF Cancel
  <1>6. CASE TurnPage
    BY <1>6 DEF TurnPage
  <1>7. CASE RefuseOne
    BY <1>7, Taken DEF RefuseOne, WhileDisconnected
  <1>8. CASE Connected
    BY <1>8, Emptied DEF Connected, SweepInbox, WhileDisconnected
  <1>9. CASE ConnectFails
    <2>1. CASE StepOffTheLadder /\ Climb(attempt) /\ UNCHANGED <<generation, inbox, actor, call>>
      BY <1>9, <2>1 DEF ConnectFails, StepOffTheLadder, Climb, Higher, ConstantsAssumption
    <2>2. CASE Finish("Fatal", "Unsent") /\ UNCHANGED <<attempt, waits>>
      BY <1>9, <2>2, Emptied DEF ConnectFails, Finish, Close
    <2> QED
      BY <1>9, <2>1, <2>2 DEF ConnectFails
  <1>10. CASE WaitIsOver
    BY <1>10 DEF WaitIsOver
  <1>11. CASE StopWaiting
    BY <1>11, Emptied DEF StopWaiting, Finish, Close
  <1>12. CASE Receive
    BY <1>12 DEF Receive
  <1>13. CASE Age
    BY <1>13 DEF Age
  <1>14. CASE TakeQuit
    BY <1>14, Taken DEF TakeQuit, WriteExit
  <1>15. CASE TakeLine
    <2>1. inbox' \in Seq(Calls) /\ Head(inbox) \in Lines
      BY <1>15, Taken DEF TakeLine
    <2>2. call' \in [Calls -> Known] /\ queued' \subseteq Lines
      BY <1>15, <2>1 DEF TakeLine, WriteExit, Answer
    <2> QED
      BY <1>15, <2>1, <2>2 DEF TakeLine, WriteExit
  <1>16. CASE Lost
    BY <1>16, Emptied DEF Lost, Leaving, Finish, Close
  <1>17. CASE Stop
    BY <1>17, Emptied DEF Stop, Finish, Close
  <1>18. CASE QuitFails
    BY <1>18, Emptied DEF QuitFails, Stale, Finish, Close
  <1>19. CASE AfterConnection
    <2>1. CASE cancelled
      BY <1>19, <2>1, Emptied DEF AfterConnection, Finish, Close
    <2>2. CASE ~cancelled
      <3>1. counted' \subseteq Typed /\ absent' \in 0..MaxUnattended
        BY <1>19, <2>2 DEF AfterConnection, CountAbsence, SentTyped, ConstantsAssumption
      <3>2. unattended < MaxUnattended
        BY <1>19 DEF AfterConnection, Counts, CountsAbsence
      <3>6. unattended' \in 0..MaxUnattended /\ marked' \in BOOLEAN
        <4>1. unattended' \in {0, unattended + 1} /\ marked' = FALSE
          BY <1>19, <2>2 DEF AfterConnection
        <4>2. unattended \in Nat /\ MaxUnattended \in Nat
          BY DEF ConstantsAssumption
        <4>3. unattended' = 0 \/ unattended' = unattended + 1
          BY <4>1
        <4>4. unattended' \in 0..MaxUnattended
          BY <3>2, <4>2, <4>3
        <4>5. marked' \in BOOLEAN
          BY <4>1, Zenon
        <4> QED
          BY <4>4, <4>5
      <3>3. /\ attempt \in 0..Rungs /\ waits \in 0..Rungs /\ Rungs \in Nat \ {0}
            /\ generation \in 1..MaxGeneration /\ MaxGeneration \in Nat
        BY <1>19 DEF AfterConnection, ConstantsAssumption
      <3>4. CASE Reconnect
        <4>1. attempt' \in 0..Rungs
          BY <3>3, <3>4 DEF Reconnect, Climb, Higher
        <4>2. waits' \in 0..Rungs
          BY <3>3, <3>4 DEF Reconnect, Climb, Higher
        <4>3. generation' \in Generations
          BY <3>3, <3>4 DEF Reconnect
        <4>5. /\ phase' = "wait" /\ lifecycle' = "Reconnecting" /\ warned' = FALSE
              /\ UNCHANGED <<because, cancelled, inbox, actor, call>>
          BY <3>4 DEF Reconnect, StepOffTheLadder
        <4>6. UNCHANGED <<page, stamp, sentOn, askedOf>>
          BY <1>19 DEF AfterConnection
        <4> QED
          BY <3>1, <3>6, <4>1, <4>2, <4>3, <4>5, <4>6
      <3>5. CASE /\ Finish("Unattended", "Unsent")
                 /\ attempt' = IF Worked THEN 0 ELSE attempt
                 /\ UNCHANGED <<warned, waits>>
        <4>1. attempt' \in 0..Rungs
          BY <3>3, <3>5
        <4>3. UNCHANGED <<page, stamp, sentOn, askedOf>>
          BY <1>19 DEF AfterConnection
        <4> QED
          BY <3>1, <3>5, <3>6, <4>1, <4>3, Emptied DEF Finish, Close
      <3> QED
        BY <1>19, <2>2, <3>4, <3>5 DEF AfterConnection
    <2> QED
      BY <2>1, <2>2
  <1>20. CASE UNCHANGED vars
    BY <1>20 DEF vars
  <1> QED
    BY <1>1, <1>2, <1>3, <1>4, <1>5, <1>6, <1>7, <1>8, <1>9, <1>10, <1>11,
       <1>12, <1>13, <1>14, <1>15, <1>16, <1>17, <1>18, <1>19, <1>20 DEF Next,
       Take

-----------------------------------------------------------------------------
(* Each step keeps what is said of the end.                                *)

LEMMA EndingsStep ==
    ASSUME IInv, [Next]_vars
    PROVE  Endings'
  <1> USE DEF IInv, Endings, ClosedIsTheEnd, LeavesForGood, Ended, loop, actor,
              bounds, callers, history
  <1>1. ASSUME NEW l \in Lines, Stamp(l) PROVE Endings'
    BY <1>1 DEF Stamp, Answer
  <1>2. ASSUME NEW l \in Lines, Send(l) PROVE Endings'
    BY <1>2 DEF Send, Answer, Mark, Remember
  <1>3. ASSUME NEW l \in Lines, Write(l) PROVE Endings'
    BY <1>3 DEF Write, Answer
  <1>4. ASSUME NEW q \in Quits, AskToQuit(q) PROVE Endings'
    BY <1>4 DEF AskToQuit, Answer, Remember
  <1>5. CASE Cancel
    BY <1>5 DEF Cancel
  <1>6. CASE TurnPage
    BY <1>6 DEF TurnPage
  <1>7. CASE RefuseOne
    BY <1>7 DEF RefuseOne, WhileDisconnected
  <1>8. CASE Connected
    BY <1>8 DEF Connected, SweepInbox, WhileDisconnected
  <1>9. CASE ConnectFails
    BY <1>9 DEF ConnectFails, StepOffTheLadder, Climb, Higher, Finish, Close
  <1>10. CASE WaitIsOver
    BY <1>10 DEF WaitIsOver
  <1>11. CASE StopWaiting
    BY <1>11 DEF StopWaiting, Finish, Close
  <1>12. CASE Receive
    BY <1>12 DEF Receive
  <1>13. CASE Age
    BY <1>13 DEF Age
  <1>14. CASE TakeQuit
    BY <1>14 DEF TakeQuit, WriteExit
  <1>15. CASE TakeLine
    BY <1>15 DEF TakeLine, WriteExit, Answer, Stale
  <1>16. CASE Lost
    BY <1>16 DEF Lost, Leaving, Finish, Close
  <1>17. CASE Stop
    BY <1>17 DEF Stop, Finish, Close
  <1>18. CASE QuitFails
    BY <1>18 DEF QuitFails, Stale, Finish, Close
  <1>19. CASE AfterConnection
    BY <1>19 DEF AfterConnection, CountAbsence, Attended, Worked, Allowed,
       Watched, LongLived, Reconnect, StepOffTheLadder, Climb, Higher, Finish,
       Close
  <1>20. CASE UNCHANGED vars
    BY <1>20 DEF vars
  <1> QED
    BY <1>1, <1>2, <1>3, <1>4, <1>5, <1>6, <1>7, <1>8, <1>9, <1>10, <1>11,
       <1>12, <1>13, <1>14, <1>15, <1>16, <1>17, <1>18, <1>19, <1>20 DEF Next,
       Take

-----------------------------------------------------------------------------
(* Each step keeps the ladder above the waits.                             *)

LEMMA LadderStep ==
    ASSUME ConstantsAssumption, IInv, [Next]_vars
    PROVE  Ladder'
  <1>0. /\ attempt \in 0..Rungs /\ waits \in 0..Rungs /\ Rungs \in Nat \ {0}
        /\ lived \in {"brief", "stable", "long"}
    BY DEF IInv, Types, TypeOK, ConstantsAssumption
  <1> USE <1>0 DEF IInv, Ladder, loop, actor, bounds, callers, history
  <1>1. ASSUME NEW l \in Lines, Stamp(l) PROVE Ladder'
    BY <1>1 DEF Stamp, Answer
  <1>2. ASSUME NEW l \in Lines, Send(l) PROVE Ladder'
    BY <1>2 DEF Send, Answer, Mark, Remember
  <1>3. ASSUME NEW l \in Lines, Write(l) PROVE Ladder'
    BY <1>3 DEF Write, Answer
  <1>4. ASSUME NEW q \in Quits, AskToQuit(q) PROVE Ladder'
    BY <1>4 DEF AskToQuit, Answer, Remember
  <1>5. CASE Cancel
    BY <1>5 DEF Cancel
  <1>6. CASE TurnPage
    BY <1>6 DEF TurnPage
  <1>7. CASE RefuseOne
    BY <1>7 DEF RefuseOne, WhileDisconnected
  <1>8. CASE Connected
    BY <1>8 DEF Connected, SweepInbox, WhileDisconnected
  <1>9. CASE ConnectFails
    BY <1>9 DEF ConnectFails, StepOffTheLadder, Climb, Higher, Finish, Close
  <1>10. CASE WaitIsOver
    BY <1>10 DEF WaitIsOver
  <1>11. CASE StopWaiting
    BY <1>11 DEF StopWaiting, Finish, Close
  <1>12. CASE Receive
    BY <1>12 DEF Receive
  <1>13. CASE Age
    BY <1>13 DEF Age
  <1>14. CASE TakeQuit
    BY <1>14 DEF TakeQuit, WriteExit
  <1>15. CASE TakeLine
    BY <1>15 DEF TakeLine, WriteExit, Answer, Stale
  <1>16. CASE Lost
    BY <1>16 DEF Lost, Leaving, Finish, Close
  <1>17. CASE Stop
    BY <1>17 DEF Stop, Finish, Close
  <1>18. CASE QuitFails
    BY <1>18 DEF QuitFails, Stale, Finish, Close
  <1>19. CASE AfterConnection
    BY <1>19 DEF AfterConnection, CountAbsence, Attended, Worked, Allowed,
       Watched, LongLived, Reconnect, StepOffTheLadder, Climb, Higher, Finish,
       Close
  <1>20. CASE UNCHANGED vars
    BY <1>20 DEF vars
  <1> QED
    BY <1>1, <1>2, <1>3, <1>4, <1>5, <1>6, <1>7, <1>8, <1>9, <1>10, <1>11,
       <1>12, <1>13, <1>14, <1>15, <1>16, <1>17, <1>18, <1>19, <1>20 DEF Next,
       Take

-----------------------------------------------------------------------------
(* Each step keeps every call in its place.                                *)

LEMMA PlacesStep ==
    ASSUME ConstantsAssumption, IInv, [Next]_vars
    PROVE  Places'
  <1>0. /\ inbox \in Seq(Calls) /\ queued \subseteq Lines
        /\ call \in [Calls -> Known] /\ stamp \in [Lines -> {0} \cup Generations]
        /\ sentOn \in [Lines -> {0} \cup Generations]
        /\ askedOf \in [Quits \cup Exits -> {0} \cup Generations]
        /\ Lines \subseteq Calls /\ Quits \subseteq Calls /\ Exits \subseteq Lines
        /\ Quits \cap Lines = {} /\ 0 \notin Generations
    BY DEF IInv, Types, TypeOK, ConstantsAssumption, Calls, Generations
  <1> USE <1>0 DEF IInv, Places, NowhereYet, QueuedIsMeant, MeantForThisConnection,
                   AskedOfThis, Unsent, loop, actor, bounds, callers, history
  <1>1. ASSUME NEW l \in Lines, Stamp(l) PROVE Places'
    BY <1>1 DEF Stamp, Answer
  <1>2. ASSUME NEW l \in Lines, Send(l) PROVE Places'
    <2>1. CASE inbox' = inbox /\ call'[l] \notin {"idle", "stamped"}
      BY <1>2, <2>1 DEF Send, Answer, Remember
    <2>2. CASE inbox' = Append(inbox, l) /\ call' = Answer(l, "waiting") /\ phase # "stopped"
      <3>1. /\ Elements(inbox)' = Elements(inbox) \cup {l}
            /\ call[l] = "stamped" /\ l \notin Elements(inbox)
        BY <1>2, <2>2, Appended DEF Send
      <3>2. \A c \in Calls : call'[c] = IF c = l THEN "waiting" ELSE call[c]
        BY <2>2 DEF Answer
      <3>3. UNCHANGED <<loop, actor, stamp, sentOn>>
        BY <1>2 DEF Send
      <3>4. \A c \in Quits \cup Exits :
                askedOf'[c] = IF c = l /\ phase = "live" THEN generation
                              ELSE IF c = l THEN 0 ELSE askedOf[c]
        BY <1>2 DEF Send, Remember
      <3> QED
        BY <3>1, <3>2, <3>3, <3>4
    <2>3. (inbox' = inbox /\ call'[l] \in {"Disconnected", "Dead"})
          \/ (inbox' = Append(inbox, l) /\ call' = Answer(l, "waiting") /\ phase # "stopped")
      BY <1>2 DEF Send, Answer
    <2> QED
      BY <2>1, <2>2, <2>3
  <1>3. ASSUME NEW l \in Lines, Write(l) PROVE Places'
    BY <1>3 DEF Write, Answer
  <1>4. ASSUME NEW q \in Quits, AskToQuit(q) PROVE Places'
    <2>1. CASE inbox' = inbox /\ call' = Answer(q, "Unsent")
      BY <1>4, <2>1 DEF AskToQuit, Answer, Remember
    <2>2. CASE inbox' = Append(inbox, q) /\ call' = Answer(q, "waiting")
      <3>1. /\ Elements(inbox)' = Elements(inbox) \cup {q}
            /\ call[q] = "idle" /\ q \notin Elements(inbox)
        BY <1>4, <2>2, Appended DEF AskToQuit
      <3>2. \A c \in Calls : call'[c] = IF c = q THEN "waiting" ELSE call[c]
        BY <2>2 DEF Answer
      <3>3. UNCHANGED <<loop, actor, stamp, sentOn>>
        BY <1>4 DEF AskToQuit
      <3>4. \A c \in Quits \cup Exits :
                askedOf'[c] = IF c = q /\ phase = "live" THEN generation
                              ELSE IF c = q THEN 0 ELSE askedOf[c]
        BY <1>4 DEF AskToQuit, Remember
      <3> QED
        BY <3>1, <3>2, <3>3, <3>4
    <2> QED
      BY <1>4, <2>1, <2>2 DEF AskToQuit
  <1>5. CASE Cancel
    BY <1>5 DEF Cancel
  <1>6. CASE TurnPage
    BY <1>6 DEF TurnPage
  <1>7. CASE RefuseOne
    BY <1>7, Taken DEF RefuseOne, WhileDisconnected
  <1>8. CASE Connected
    BY <1>8, Emptied DEF Connected, SweepInbox, WhileDisconnected
  <1>9. CASE ConnectFails
    BY <1>9, Emptied DEF ConnectFails, StepOffTheLadder, Climb, Higher,
       Finish, Close
  <1>10. CASE WaitIsOver
    BY <1>10 DEF WaitIsOver
  <1>11. CASE StopWaiting
    BY <1>11, Emptied DEF StopWaiting, Finish, Close
  <1>12. CASE Receive
    BY <1>12 DEF Receive
  <1>13. CASE Age
    BY <1>13 DEF Age
  <1>14. CASE TakeQuit
    BY <1>14, Taken DEF TakeQuit, WriteExit
  <1>15. CASE TakeLine
    BY <1>15, Taken DEF TakeLine, WriteExit, Answer, Stale
  <1>16. CASE Lost
    BY <1>16, Emptied DEF Lost, Leaving, Finish, Close
  <1>17. CASE Stop
    BY <1>17, Emptied DEF Stop, Finish, Close
  <1>18. CASE QuitFails
    BY <1>18, Emptied DEF QuitFails, Stale, Finish, Close
  <1>19. CASE AfterConnection
    BY <1>19, Emptied DEF AfterConnection, CountAbsence, Attended, Worked,
       Allowed, Watched, LongLived, Reconnect, StepOffTheLadder, Climb,
       Higher, Finish, Close
  <1>20. CASE UNCHANGED vars
    BY <1>20 DEF vars
  <1> QED
    BY <1>1, <1>2, <1>3, <1>4, <1>5, <1>6, <1>7, <1>8, <1>9, <1>10, <1>11,
       <1>12, <1>13, <1>14, <1>15, <1>16, <1>17, <1>18, <1>19, <1>20 DEF Next,
       Take

-----------------------------------------------------------------------------
(* Each step keeps the counts of losses.                                   *)

LEMMA CountsStep ==
    ASSUME ConstantsAssumption, IInv, [Next]_vars
    PROVE  Counts'
  <1>0. /\ call \in [Calls -> Known] /\ Typed \subseteq Calls /\ MaxUnattended \in Nat \ {0}
        /\ absent \in 0..MaxUnattended /\ unattended \in 0..MaxUnattended
        /\ Quits \cap Typed = {} /\ inbox \in Seq(Calls)
    BY DEF IInv, Types, TypeOK, ConstantsAssumption, Calls
  <1> USE <1>0 DEF IInv, Counts, MarkedIsSent, SentTyped, CountsAbsence, KeepsThePlayer,
                   Endings, Ended, loop, actor, bounds, callers, history
  <1>1. ASSUME NEW l \in Lines, Stamp(l) PROVE Counts'
    BY <1>1 DEF Stamp, Answer
  <1>2. ASSUME NEW l \in Lines, Send(l) PROVE Counts'
    BY <1>2 DEF Send, Answer, Mark, Remember
  <1>3. ASSUME NEW l \in Lines, Write(l) PROVE Counts'
    <2>1. \A t \in Typed : call'[t] \in Unsent <=> call[t] \in Unsent
      BY <1>3 DEF Write, Answer, Places, NowhereYet, Unsent
    <2>2. because' = because /\ UNCHANGED <<absent, unattended, marked, counted>>
      BY <1>3 DEF Write, Answer
    <2>3. phase # "stopped"
      BY <1>3 DEF Write, Answer
    <2> QED
      BY <2>1, <2>2, <2>3 DEF Unsent
  <1>4. ASSUME NEW q \in Quits, AskToQuit(q) PROVE Counts'
    BY <1>4 DEF AskToQuit, Answer, Remember
  <1>5. CASE Cancel
    BY <1>5 DEF Cancel
  <1>6. CASE TurnPage
    BY <1>6 DEF TurnPage
  <1>7. CASE RefuseOne
    <2>1. \A t \in Typed : call'[t] \in Unsent <=> call[t] \in Unsent
      BY <1>7, Taken DEF RefuseOne, WhileDisconnected, Places, NowhereYet, Unsent
    <2>2. because' = because /\ UNCHANGED <<absent, unattended, marked, counted>>
      BY <1>7 DEF RefuseOne, WhileDisconnected
    <2>3. phase # "stopped"
      BY <1>7 DEF RefuseOne, WhileDisconnected
    <2> QED
      BY <2>1, <2>2, <2>3 DEF Unsent
  <1>8. CASE Connected
    <2>1. \A t \in Typed : call'[t] \in Unsent <=> call[t] \in Unsent
      BY <1>8 DEF Connected, SweepInbox, WhileDisconnected, Places, NowhereYet, Unsent
    <2>2. because' = because /\ UNCHANGED <<absent, unattended, marked, counted>>
      BY <1>8 DEF Connected, SweepInbox, WhileDisconnected
    <2>3. phase # "stopped"
      BY <1>8 DEF Connected, SweepInbox, WhileDisconnected
    <2> QED
      BY <2>1, <2>2, <2>3 DEF Unsent
  <1>9. CASE ConnectFails
    BY <1>9 DEF ConnectFails, StepOffTheLadder, Climb, Higher, Finish, Close
  <1>10. CASE WaitIsOver
    BY <1>10 DEF WaitIsOver
  <1>11. CASE StopWaiting
    BY <1>11 DEF StopWaiting, Finish, Close
  <1>12. CASE Receive
    BY <1>12 DEF Receive
  <1>13. CASE Age
    BY <1>13 DEF Age
  <1>14. CASE TakeQuit
    BY <1>14, Taken DEF TakeQuit, WriteExit
  <1>15. CASE TakeLine
    <2>1. \A t \in Typed : call'[t] \in Unsent <=> call[t] \in Unsent
      BY <1>15, Taken DEF TakeLine, WriteExit, Answer, Places, NowhereYet, Unsent
    <2>2. because' = because /\ UNCHANGED <<absent, unattended, marked, counted>>
      BY <1>15 DEF TakeLine, WriteExit, Answer, Stale
    <2>3. phase # "stopped"
      BY <1>15 DEF TakeLine, WriteExit, Answer, Stale
    <2> QED
      BY <2>1, <2>2, <2>3 DEF Unsent
  <1>16. CASE Lost
    <2>1. \A t \in Typed : call'[t] \in Unsent <=> call[t] \in Unsent
      BY <1>16, Emptied DEF Lost, Finish, Close, Places, NowhereYet, Unsent
    <2>2. because' \in {because, "Cancelled"} /\ UNCHANGED <<absent, unattended, marked, counted>>
      BY <1>16 DEF Lost, Leaving, Finish, Close
    <2>3. phase # "stopped"
      BY <1>16 DEF Lost, Leaving, Finish, Close
    <2> QED
      BY <2>1, <2>2, <2>3 DEF Unsent
  <1>17. CASE Stop
    BY <1>17 DEF Stop, Finish, Close
  <1>18. CASE QuitFails
    BY <1>18 DEF QuitFails, Stale, Finish, Close
  <1>19. CASE AfterConnection
    BY <1>19 DEF AfterConnection, CountAbsence, Attended, Worked, Allowed,
       Watched, LongLived, Reconnect, StepOffTheLadder, Climb, Higher, Finish,
       Close
  <1>20. CASE UNCHANGED vars
    BY <1>20 DEF vars
  <1> QED
    BY <1>1, <1>2, <1>3, <1>4, <1>5, <1>6, <1>7, <1>8, <1>9, <1>10, <1>11,
       <1>12, <1>13, <1>14, <1>15, <1>16, <1>17, <1>18, <1>19, <1>20 DEF Next,
       Take

-----------------------------------------------------------------------------
(* What asks a connection to leave was sent while it was up.               *)

LEMMA ExitStep ==
    ASSUME ConstantsAssumption, IInv, [Next]_vars, ~quitting, quitting'
    PROVE  askedOf[Head(inbox)] = generation
  <1>0. inbox \in Seq(Calls)
    BY DEF IInv, Types, TypeOK
  <1> USE DEF loop, actor, bounds, callers, history
  <1>1. ASSUME NEW l \in Lines, Stamp(l) PROVE askedOf[Head(inbox)] = generation
    BY <1>1 DEF Stamp, Answer
  <1>2. ASSUME NEW l \in Lines, Send(l) PROVE askedOf[Head(inbox)] = generation
    BY <1>2 DEF Send, Answer, Mark, Remember
  <1>3. ASSUME NEW l \in Lines, Write(l) PROVE askedOf[Head(inbox)] = generation
    BY <1>3 DEF Write, Answer
  <1>4. ASSUME NEW q \in Quits, AskToQuit(q) PROVE askedOf[Head(inbox)] = generation
    BY <1>4 DEF AskToQuit, Answer, Remember
  <1>5. CASE Cancel
    BY <1>5 DEF Cancel
  <1>6. CASE TurnPage
    BY <1>6 DEF TurnPage
  <1>7. CASE RefuseOne
    BY <1>7 DEF RefuseOne, WhileDisconnected
  <1>8. CASE Connected
    BY <1>8 DEF Connected, SweepInbox, WhileDisconnected
  <1>9. CASE ConnectFails
    BY <1>9 DEF ConnectFails, StepOffTheLadder, Climb, Higher, Finish, Close
  <1>10. CASE WaitIsOver
    BY <1>10 DEF WaitIsOver
  <1>11. CASE StopWaiting
    BY <1>11 DEF StopWaiting, Finish, Close
  <1>12. CASE Receive
    BY <1>12 DEF Receive
  <1>13. CASE Age
    BY <1>13 DEF Age
  <1>14. CASE TakeQuit
    <2>1. Head(inbox) \in Quits \cap Elements(inbox) /\ phase = "live"
      BY <1>0, <1>14, Taken DEF TakeQuit
    <2> QED
      BY <2>1 DEF IInv, Places, AskedOfThis
  <1>15. CASE TakeLine
    <2>1. Head(inbox) \in Exits
      BY <1>15 DEF TakeLine
    <2>2. Head(inbox) \in Exits \cap Elements(inbox) /\ phase = "live"
      BY <1>0, <1>15, <2>1, Taken DEF TakeLine
    <2> QED
      BY <2>2 DEF IInv, Places, AskedOfThis
  <1>16. CASE Lost
    BY <1>16 DEF Lost, Leaving, Finish, Close
  <1>17. CASE Stop
    BY <1>17 DEF Stop, Finish, Close
  <1>18. CASE QuitFails
    BY <1>18 DEF QuitFails, Stale, Finish, Close
  <1>19. CASE AfterConnection
    BY <1>19 DEF AfterConnection, CountAbsence, Attended, Worked, Allowed,
       Watched, LongLived, Reconnect, StepOffTheLadder, Climb, Higher, Finish,
       Close
  <1>20. CASE UNCHANGED vars
    BY <1>20 DEF vars
  <1> QED
    BY <1>1, <1>2, <1>3, <1>4, <1>5, <1>6, <1>7, <1>8, <1>9, <1>10, <1>11,
       <1>12, <1>13, <1>14, <1>15, <1>16, <1>17, <1>18, <1>19, <1>20 DEF Next,
       Take

-----------------------------------------------------------------------------
LEMMA InitIInv ==
    ASSUME ConstantsAssumption, Init
    PROVE  IInv
  <1>1. Types
    <2>1. inbox \in Seq(Calls)
      BY Emptied DEF Init
    <2>2. /\ stamp \in [Lines -> {0} \cup Generations] /\ call \in [Calls -> Known]
          /\ sentOn \in [Lines -> {0} \cup Generations]
          /\ askedOf \in [Quits \cup Exits -> {0} \cup Generations]
      BY DEF Init, Known
    <2>3. /\ generation \in Generations /\ attempt \in 0..Rungs /\ waits \in 0..Rungs
          /\ unattended \in 0..MaxUnattended /\ absent \in 0..MaxUnattended
      BY DEF Init, Generations, ConstantsAssumption
    <2>4. {cancelled, quitting, marked, page, warned, received} \subseteq BOOLEAN
      BY DEF Init
    <2> QED
      BY <2>1, <2>2, <2>3, <2>4
         DEF Init, Types, TypeOK, Bounded, Reasons, Lifecycles
  <1>2. Places
    BY Emptied DEF Init, Places, NowhereYet, QueuedIsMeant, MeantForThisConnection,
       AskedOfThis
  <1>3. Endings
    BY DEF Init, Endings, ClosedIsTheEnd, LeavesForGood, Ended
  <1>4. Counts
    BY DEF Init, Counts, MarkedIsSent, SentTyped, CountsAbsence, KeepsThePlayer,
       ConstantsAssumption, Calls
  <1>5. Ladder
    BY DEF Init, Ladder
  <1> QED
    BY <1>1, <1>2, <1>3, <1>4, <1>5 DEF IInv

LEMMA Inductive ==
    ASSUME ConstantsAssumption, IInv, [Next]_vars
    PROVE  IInv'
  BY TypeStep, PlacesStep, EndingsStep, CountsStep, LadderStep DEF IInv

(* The invariant of a session's life.                                      *)
THEOREM Invariant == Spec => []IInv
  <1>1. Init => IInv
    BY ConstantsAssumption, InitIInv
  <1>2. IInv /\ [Next]_vars => IInv'
    BY ConstantsAssumption, Inductive
  <1> QED
    BY <1>1, <1>2, PTL DEF Spec

(* Every reachable state is well typed.                                    *)
THEOREM TypeCorrect == Spec => []TypeOK
  <1>1. IInv => TypeOK
    BY DEF IInv, Types
  <1> QED
    BY <1>1, Invariant, PTL

(* No line is written on a connection it was not meant for (lifecycle.rs). *)
THEOREM NeverReplayed == Spec => []MeantForThisConnection
  <1>1. IInv => MeantForThisConnection
    BY DEF IInv, Places
  <1> QED
    BY <1>1, Invariant, PTL

(* A quit or a typed exit logs out only the connection it was sent to      *)
(* (supervisor/core.rs).                                                   *)
THEOREM ExitIsAsked == Spec => ExitWasAskedOfIt
  <1>1. IInv /\ [Next]_vars
           => [~quitting /\ quitting' => askedOf[Head(inbox)] = generation]_vars
    BY ConstantsAssumption, ExitStep
  <1> QED
    BY <1>1, Invariant, PTL DEF ExitWasAskedOfIt, Spec

(* Closed is published exactly at the end (actor/ending.rs).               *)
THEOREM ClosedAtTheEnd == Spec => []ClosedIsTheEnd
  <1>1. IInv => ClosedIsTheEnd
    BY DEF IInv, Endings
  <1> QED
    BY <1>1, Invariant, PTL

(* Nothing logs in after an exit (actor.rs, the read arm).                 *)
THEOREM LeftForGood == Spec => []LeavesForGood
  <1>1. IInv => LeavesForGood
    BY DEF IInv, Endings
  <1> QED
    BY <1>1, Invariant, PTL

(* The ladder climbs however the logins fail (supervisor/retry.rs).        *)
THEOREM NoLoginStorm == Spec => []StormsClimb
  <1>1. IInv => StormsClimb
    BY DEF IInv, Ladder, StormsClimb
  <1> QED
    BY <1>1, Invariant, PTL

(* An absent player's session is given up (supervisor.rs,                  *)
(* after_connection).                                                      *)
THEOREM AbsentIsGivenUp == Spec => []GivesUp
  <1>1. IInv => GivesUp
    BY DEF IInv, Counts, CountsAbsence, GivesUp
  <1> QED
    BY <1>1, Invariant, PTL

(* A present player's is not (command/attendance.rs).                      *)
THEOREM PresentIsKept == Spec => []KeepsThePlayer
  <1>1. IInv => KeepsThePlayer
    BY DEF IInv, Counts
  <1> QED
    BY <1>1, Invariant, PTL
=============================================================================

----------------------- MODULE RoundTripsPlaces_proofs -----------------------
(***************************************************************************)
(* Where the calls of RoundTrips wait: each in one place, and a quit until *)
(* the end answers it, for every set of lines and every bound.             *)
(***************************************************************************)
EXTENDS RoundTrips_proofs, FiniteSetTheorems

Standing(l) == call[l] \in {"waiting", "gone"}

Somewhere(l) ==
    l \in Elements(inbox) \cup Elements(manual) \cup Elements(held) \cup {flight} \cup leavers

Once(s) == \A i, j \in DOMAIN s : s[i] = s[j] => i = j

(* A call is in one place, once.                                           *)
InOnePlace ==
    /\ Once(inbox) /\ Once(manual) /\ Once(held)
    /\ \A l \in Elements(inbox) :
           l \notin Elements(manual) \cup Elements(held) \cup {flight} \cup leavers
    /\ \A l \in Elements(manual) : l \notin Elements(held) \cup {flight}
    /\ flight \notin Elements(held)

(* What is in a place is a call nobody has answered, and who waits is in   *)
(* one.                                                                    *)
Unanswered ==
    \A l \in Calls : /\ Somewhere(l) => Standing(l)
                     /\ call[l] = "waiting" => Somewhere(l)

(* Quits wait for an end only once the exit command is written.            *)
Leaving ==
    /\ leavers # {} => quitting
    /\ Ended => leavers = {}

PlaceInv == InOnePlace /\ Unanswered /\ Leaving

-----------------------------------------------------------------------------
(* Queues that hold nothing twice.                                         *)

LEMMA OnceWithout ==
    ASSUME NEW S, NEW s \in Seq(S), s # <<>>, Once(s)
    PROVE  /\ Once(Tail(s)) /\ Tail(s) \in Seq(S)
           /\ Head(s) \in S /\ Head(s) \in Elements(s)
           /\ Elements(Tail(s)) = Elements(s) \ {Head(s)}
  <1> DEFINE t == Tail(s)
  <1>1. /\ Len(s) \in Nat /\ Len(s) >= 1 /\ DOMAIN s = 1..Len(s)
        /\ Head(s) = s[1] /\ Head(s) \in S
    BY EmptySeq, LenProperties, HeadTailProperties
  <1>2. /\ t \in Seq(S) /\ Len(t) = Len(s) - 1 /\ DOMAIN t = 1..(Len(s) - 1)
        /\ \A i \in 1..(Len(s) - 1) : t[i] = s[i + 1]
    BY <1>1, HeadTailProperties, LenProperties
  <1> HIDE DEF t
  <1>3. \A i \in 1..(Len(s) - 1) : i + 1 \in 1..Len(s) /\ i + 1 # 1
    BY <1>1
  <1>4. \A j \in 1..Len(s) : j # 1 => j - 1 \in 1..(Len(s) - 1) /\ (j - 1) + 1 = j
    BY <1>1
  <1>5. Once(t)
    <2> SUFFICES ASSUME NEW i \in 1..(Len(s) - 1), NEW j \in 1..(Len(s) - 1), t[i] = t[j]
                 PROVE  i = j
      BY <1>2 DEF Once
    <2>1. i + 1 = j + 1
      <3>1. i + 1 \in DOMAIN s /\ j + 1 \in DOMAIN s
        BY <1>1, <1>3
      <3>2. s[i + 1] = s[j + 1]
        BY <1>2
      <3> QED
        BY <3>1, <3>2, Zenon DEF Once
    <2> QED
      BY <1>1, <2>1
  <1>6. \A e : e \in Elements(t) <=> e \in Elements(s) /\ e # s[1]
    <2>1. ASSUME NEW i \in 1..(Len(s) - 1)
          PROVE  t[i] \in Elements(s) /\ t[i] # s[1]
      <3>1. t[i] = s[i + 1] /\ i + 1 \in 1..Len(s) /\ i + 1 # 1 /\ 1 \in 1..Len(s)
        BY <1>1, <1>2, <1>3
      <3> QED
        BY <1>1, <3>1 DEF Once, Elements
    <2>2. ASSUME NEW j \in 1..Len(s), s[j] # s[1]
          PROVE  s[j] \in Elements(t)
      <3>1. j - 1 \in 1..(Len(s) - 1) /\ (j - 1) + 1 = j
        BY <1>4, <2>2
      <3>2. t[j - 1] = s[j]
        BY <1>2, <3>1
      <3> QED
        BY <1>2, <3>1, <3>2 DEF Elements
    <2> QED
      BY <1>1, <1>2, <2>1, <2>2 DEF Elements
  <1>7. Head(s) \in Elements(s)
    BY <1>1 DEF Elements
  <1> QED
    BY <1>1, <1>2, <1>5, <1>6, <1>7 DEF t

LEMMA OnceWith ==
    ASSUME NEW S, NEW s \in Seq(S), NEW e \in S, Once(s), e \notin Elements(s)
    PROVE  /\ Once(Append(s, e))
           /\ Elements(Append(s, e)) = Elements(s) \cup {e}
  <1> DEFINE t == Append(s, e)
  <1>1. Len(s) \in Nat /\ DOMAIN s = 1..Len(s)
    BY LenProperties
  <1>2. /\ t \in Seq(S) /\ Len(t) = Len(s) + 1 /\ DOMAIN t = 1..(Len(s) + 1)
        /\ \A i \in 1..Len(s) : t[i] = s[i]
        /\ t[Len(s) + 1] = e
    BY AppendProperties, LenProperties
  <1> HIDE DEF t
  <1>3. \A i \in 1..(Len(s) + 1) : i # Len(s) + 1 => i \in 1..Len(s)
    BY <1>1
  <1>4. \A i \in 1..Len(s) : i \in 1..(Len(s) + 1)
    BY <1>1
  <1>5. Len(s) + 1 \in 1..(Len(s) + 1)
    BY <1>1
  <1>6. Once(t)
    BY <1>1, <1>2, <1>3 DEF Once, Elements
  <1>7. Elements(t) = Elements(s) \cup {e}
    BY <1>1, <1>2, <1>3, <1>4, <1>5 DEF Elements
  <1> QED
    BY <1>6, <1>7 DEF t

LEMMA NoneInEmpty == Once(<<>>) /\ Elements(<<>>) = {}
  BY DEF Once, Elements

-----------------------------------------------------------------------------
(* Steps of a call.                                                        *)

PlacesSame ==
    UNCHANGED <<inbox, manual, held, flight, leavers>>

(* A step that moves no call.                                              *)
LEMMA Stays ==
    ASSUME PlaceInv, PlacesSame, UNCHANGED call, quitting => quitting', Ended' => Ended
    PROVE  PlaceInv'
  BY DEF PlaceInv, PlacesSame, InOnePlace, Unanswered, Leaving, Somewhere, Standing, Elements, Once

(* One call leaves where it was and is told, or has gone; the others stay  *)
(* as they were.                                                           *)
Departs(l) ==
    /\ \A k \in Calls : k # l => call'[k] = call[k] /\ (Somewhere(k)' <=> Somewhere(k))
    /\ call'[l] # "waiting" /\ ~Somewhere(l)'

LEMMA DepartsStep ==
    ASSUME Unanswered, NEW l \in Calls, Departs(l)
    PROVE  Unanswered'
  BY DEF Unanswered, Departs, Standing

LEMMA ToldOne ==
    ASSUME TypeOK, NEW l \in Calls, NEW v \in Verdicts, call' = Told({l}, v)
    PROVE  /\ \A k \in Calls : k # l => call'[k] = call[k]
           /\ call'[l] # "waiting"
  <1>1. v # "waiting"
    BY DEF Verdicts
  <1> QED
    BY <1>1 DEF Told

LEMMA NobodyIsNoCall ==
    ASSUME ConstantsAssumption
    PROVE  /\ Nobody \notin Calls
           /\ Commands \subseteq Calls /\ Lines \subseteq Calls /\ Quits \subseteq Calls
           /\ Commands \cap Quits = {} /\ Lines \cap Quits = {}
  BY DEF ConstantsAssumption, Calls, Lines

(* Where the places can be looked for.                                     *)
LEMMA PlaceTypes ==
    ASSUME TypeOK
    PROVE  /\ Elements(inbox) \subseteq Calls
           /\ Elements(manual) \subseteq Commands /\ Elements(held) \subseteq Commands
           /\ flight \in Commands \cup {Nobody} /\ leavers \subseteq Quits
  <1>1. ASSUME NEW S, NEW s \in Seq(S) PROVE Elements(s) \subseteq S
    BY ElementOfSeq, LenProperties DEF Elements
  <1> QED
    BY <1>1 DEF TypeOK

(* The pump takes a call from its queue, and it is nowhere else.           *)
LEMMA PopPlaces ==
    ASSUME TypeOK, ConstantsAssumption, PlaceInv, Queued, Pop
    PROVE  /\ Once(manual') /\ Once(held')
           /\ Elements(manual') = Elements(manual) \ {Next1}
           /\ Elements(held') = Elements(held) \ {Next1}
           /\ Next1 \in Elements(manual) \cup Elements(held)
           /\ Next1 \notin Elements(inbox) \cup leavers \cup {flight}
           /\ Next1 \in Commands
  <1>1. CASE ManualIsNext
    <2>1. manual # <<>> /\ manual' = Tail(manual) /\ held' = held /\ Next1 = Head(manual)
      BY <1>1 DEF ManualIsNext, Pop, Next1
    <2>2. manual \in Seq(Commands) /\ Once(manual)
      BY DEF TypeOK, PlaceInv, InOnePlace
    <2>3. /\ Once(manual') /\ Next1 \in Elements(manual)
          /\ Elements(manual') = Elements(manual) \ {Next1}
      BY <2>1, <2>2, OnceWithout
    <2> QED
      BY <2>1, <2>3, PlaceTypes, NobodyIsNoCall DEF PlaceInv, InOnePlace
  <1>2. CASE ~ManualIsNext
    <2>1. held # <<>> /\ held' = Tail(held) /\ manual' = manual /\ Next1 = Head(held)
      BY <1>2 DEF ManualIsNext, Pop, Next1, Queued
    <2>2. held \in Seq(Commands) /\ Once(held)
      BY DEF TypeOK, PlaceInv, InOnePlace
    <2>3. /\ Once(held') /\ Next1 \in Elements(held)
          /\ Elements(held') = Elements(held) \ {Next1}
      BY <2>1, <2>2, OnceWithout
    <2> QED
      BY <2>1, <2>3, PlaceTypes, NobodyIsNoCall DEF PlaceInv, InOnePlace
  <1> QED
    BY <1>1, <1>2

(* The actor takes a call from the inbox, and it is nowhere else.          *)
LEMMA TakePlaces ==
    ASSUME TypeOK, PlaceInv, inbox # <<>>, inbox' = Tail(inbox)
    PROVE  /\ Once(inbox') /\ inbox' \in Seq(Calls)
           /\ Elements(inbox') = Elements(inbox) \ {Head(inbox)}
           /\ Head(inbox) \in Elements(inbox) /\ Head(inbox) \in Calls
           /\ Head(inbox) \notin Elements(manual) \cup Elements(held) \cup {flight} \cup leavers
  <1>1. inbox \in Seq(Calls) /\ Once(inbox)
    BY DEF TypeOK, PlaceInv, InOnePlace
  <1>2. /\ Once(inbox') /\ inbox' \in Seq(Calls) /\ Head(inbox) \in Elements(inbox)
        /\ Elements(inbox') = Elements(inbox) \ {Head(inbox)} /\ Head(inbox) \in Calls
    BY <1>1, OnceWithout
  <1> QED
    BY <1>2 DEF PlaceInv, InOnePlace

(* The end of the connection answers all it finds but the inbox.           *)
LEMMA EndPlaces ==
    ASSUME TypeOK, ConstantsAssumption, PlaceInv,
           NEW end \in {"lost", "closed"}, NEW farewell \in Verdicts,
           NEW also, NEW verdict \in Verdicts,
           EndConnection(end, farewell, also, verdict),
           Once(inbox'), Elements(inbox') = Elements(inbox) \ also
    PROVE  PlaceInv'
  <1>1. /\ manual' = <<>> /\ held' = <<>> /\ flight' = Nobody /\ leavers' = {}
        /\ UNCHANGED quitting /\ Ended'
    BY DEF EndConnection, Ended
  <1>2. /\ Once(manual') /\ Once(held')
        /\ Elements(manual') = {} /\ Elements(held') = {}
    BY <1>1, NoneInEmpty
  <1>3. InOnePlace'
    <2>1. flight' \notin Elements(inbox')
      BY <1>1, PlaceTypes, NobodyIsNoCall
    <2> QED
      BY <1>1, <1>2, <2>1 DEF InOnePlace
  <1>4. ASSUME NEW l \in Calls
        PROVE  Somewhere(l)' <=> l \in Elements(inbox) /\ l \notin also
    BY <1>1, <1>2, NobodyIsNoCall DEF Somewhere
  <1>5. ASSUME NEW l \in Calls
        PROVE  /\ Somewhere(l)' => Standing(l)'
               /\ call'[l] = "waiting" => Somewhere(l)'
    <2> DEFINE outcome == IF end = "lost" THEN "Disconnected" ELSE "Dead"
    <2>1. call'[l] = IF call[l] # "waiting" THEN call[l]
                     ELSE IF l \in also THEN verdict
                     ELSE IF l \in Waiters THEN outcome
                     ELSE IF l \in leavers THEN farewell
                     ELSE call[l]
      BY DEF EndConnection
    <2>2. verdict # "waiting" /\ outcome # "waiting" /\ farewell # "waiting"
      BY DEF Verdicts
    <2>3. l \in Waiters <=> l \in Elements(manual) \cup Elements(held) \cup {flight}
      BY NobodyIsNoCall DEF Waiters
    <2>4. ASSUME Somewhere(l)' PROVE Standing(l)'
      <3>1. l \in Elements(inbox) /\ l \notin also
        BY <1>4, <2>4
      <3>2. l \notin Waiters /\ l \notin leavers /\ Standing(l)
        BY <2>3, <3>1 DEF PlaceInv, InOnePlace, Unanswered, Somewhere
      <3> QED
        BY <2>1, <3>1, <3>2 DEF Standing
    <2>5. ASSUME call'[l] = "waiting" PROVE Somewhere(l)'
      <3>1. call[l] = "waiting" /\ l \notin also /\ l \notin Waiters /\ l \notin leavers
        BY <2>1, <2>2, <2>5
      <3>2. l \in Elements(inbox)
        BY <2>3, <3>1 DEF PlaceInv, Unanswered, Somewhere
      <3> QED
        BY <1>4, <3>1, <3>2
    <2> QED
      BY <2>4, <2>5
  <1> QED
    BY <1>1, <1>3, <1>5 DEF PlaceInv, Unanswered, Leaving

-----------------------------------------------------------------------------
(* The callers.                                                            *)

(* A call that is sent was nowhere, and is in the inbox.                   *)
LEMMA SentPlaces ==
    ASSUME TypeOK, ConstantsAssumption, PlaceInv, NEW l \in Calls, call[l] = "idle",
           inbox' = Append(inbox, l), call' = [call EXCEPT ![l] = "waiting"],
           UNCHANGED <<manual, held, flight, leavers, quitting, phase>>
    PROVE  PlaceInv'
  <1>1. ~Somewhere(l)
    BY DEF PlaceInv, Unanswered, Standing
  <1>2. inbox \in Seq(Calls) /\ Once(inbox) /\ l \notin Elements(inbox)
    BY <1>1 DEF TypeOK, PlaceInv, InOnePlace, Somewhere
  <1>3. Once(inbox') /\ Elements(inbox') = Elements(inbox) \cup {l}
    BY <1>2, OnceWith
  <1>4. /\ Elements(manual') = Elements(manual) /\ Elements(held') = Elements(held)
        /\ Once(manual') /\ Once(held')
    BY DEF PlaceInv, InOnePlace
  <1>5. InOnePlace'
    BY <1>1, <1>3, <1>4 DEF PlaceInv, InOnePlace, Somewhere
  <1>6. \A k \in Calls : Somewhere(k)' <=> Somewhere(k) \/ k = l
    BY <1>3, <1>4 DEF Somewhere
  <1>7. \A k \in Calls : call'[k] = IF k = l THEN "waiting" ELSE call[k]
    BY DEF TypeOK
  <1>8. Unanswered'
    BY <1>6, <1>7 DEF PlaceInv, Unanswered, Standing
  <1> QED
    BY <1>5, <1>8 DEF PlaceInv, Leaving, Ended

LEMMA CallersPlaces ==
    ASSUME TypeOK, ConstantsAssumption, PlaceInv, Callers
    PROVE  PlaceInv'
  <1> USE DEF queues, window, exits
  <1>1. ASSUME NEW l \in Lines, Submit(l) PROVE PlaceInv'
    <2>1. l \in Calls /\ call[l] = "idle"
      BY <1>1, NobodyIsNoCall DEF Submit
    <2>2. CASE HasRoomForTraffic
      BY <1>1, <2>1, <2>2, SentPlaces DEF Submit
    <2>3. CASE ~HasRoomForTraffic
      <3>1. /\ UNCHANGED <<inbox, manual, held, flight, leavers, quitting, phase>>
            /\ call' = [call EXCEPT ![l] = "Refused"]
        BY <1>1, <2>3 DEF Submit
      <3>2. \A k \in Calls : Somewhere(k)' <=> Somewhere(k)
        BY <3>1 DEF Somewhere, Elements
      <3>3. \A k \in Calls : call'[k] = IF k = l THEN "Refused" ELSE call[k]
        BY <3>1 DEF TypeOK
      <3>4. ~Somewhere(l)
        BY <2>1 DEF PlaceInv, Unanswered, Standing
      <3>5. Unanswered'
        BY <2>1, <3>2, <3>3, <3>4 DEF PlaceInv, Unanswered, Standing
      <3>6. InOnePlace' /\ Leaving'
        BY <3>1 DEF PlaceInv, InOnePlace, Leaving, Ended, Elements, Once
      <3> QED
        BY <3>5, <3>6 DEF PlaceInv
    <2> QED
      BY <2>2, <2>3
  <1>2. ASSUME NEW q \in Quits, AskToQuit(q) PROVE PlaceInv'
    BY <1>2, SentPlaces, NobodyIsNoCall DEF AskToQuit
  <1>3. ASSUME NEW l \in Calls, GiveUp(l) PROVE PlaceInv'
    <2>1. /\ UNCHANGED <<inbox, manual, held, flight, leavers, quitting, phase>>
          /\ call' = [call EXCEPT ![l] = "gone"] /\ call[l] = "waiting"
      BY <1>3 DEF GiveUp
    <2>2. \A k \in Calls : Somewhere(k)' <=> Somewhere(k)
      BY <2>1 DEF Somewhere, Elements
    <2>3. \A k \in Calls : call'[k] = IF k = l THEN "gone" ELSE call[k]
      BY <2>1 DEF TypeOK
    <2>4. Unanswered'
      BY <2>2, <2>3 DEF PlaceInv, Unanswered, Standing
    <2>5. InOnePlace' /\ Leaving'
      BY <2>1 DEF PlaceInv, InOnePlace, Leaving, Ended, Elements, Once
    <2> QED
      BY <2>4, <2>5 DEF PlaceInv
  <1>4. ASSUME PassAuthority PROVE PlaceInv'
    BY <1>4, Stays DEF PassAuthority, PlacesSame, Ended
  <1> QED
    BY <1>1, <1>2, <1>3, <1>4 DEF Callers

-----------------------------------------------------------------------------
(* The pump.                                                               *)

(* The window's line leaves it answered, or with nobody to answer.         *)
LEMMA WindowCloses ==
    ASSUME TypeOK, ConstantsAssumption, PlaceInv, WindowIsOpen,
           flight' = Nobody, UNCHANGED <<inbox, manual, held, leavers>>,
           quitting => quitting', Ended' => Ended,
           \A k \in Calls : k # flight => call'[k] = call[k],
           call'[flight] # "waiting"
    PROVE  PlaceInv'
  <1>1. flight \in Calls
    BY NobodyIsNoCall DEF TypeOK, WindowIsOpen
  <1>2. /\ Elements(inbox') = Elements(inbox) /\ Elements(manual') = Elements(manual)
        /\ Elements(held') = Elements(held)
    OBVIOUS
  <1>3. PICK f \in Calls : f = flight
    BY <1>1
  <1>4. Unanswered'
    <2>1. ~Somewhere(f)'
      <3>1. f \in Commands
        BY <1>3 DEF TypeOK, WindowIsOpen
      <3>2. f # Nobody /\ f \notin leavers
        BY <3>1, NobodyIsNoCall, PlaceTypes
      <3> QED
        BY <1>2, <1>3, <3>2 DEF Somewhere, PlaceInv, InOnePlace
    <2>2. ASSUME NEW k \in Calls, k # f PROVE Somewhere(k)' <=> Somewhere(k)
      BY <1>2, <1>3, <2>2, NobodyIsNoCall DEF Somewhere
    <2>3. Departs(f)
      BY <1>3, <2>1, <2>2 DEF Departs
    <2> QED
      BY <2>3, DepartsStep DEF PlaceInv
  <1>5. InOnePlace'
    <2>1. Nobody \notin Elements(inbox) \cup Elements(held) \cup Elements(manual)
      BY PlaceTypes, NobodyIsNoCall
    <2>2. Once(inbox') /\ Once(manual') /\ Once(held')
      BY DEF PlaceInv, InOnePlace
    <2> QED
      BY <1>2, <2>1, <2>2 DEF PlaceInv, InOnePlace
  <1> QED
    BY <1>4, <1>5 DEF PlaceInv, Leaving

(* A queued line leaves its queue unsent, told or with nobody to tell.     *)
LEMMA QueuedLeaves ==
    ASSUME TypeOK, ConstantsAssumption, PlaceInv, Queued, Pop,
           UNCHANGED <<inbox, flight, leavers, quitting, phase>>,
           \A k \in Calls : k # Next1 => call'[k] = call[k],
           call'[Next1] # "waiting"
    PROVE  PlaceInv'
  <1>1. Elements(inbox') = Elements(inbox) /\ Once(inbox')
    BY DEF PlaceInv, InOnePlace
  <1>2. PICK l \in Calls : l = Next1
    BY PopPlaces, NobodyIsNoCall
  <1>3. Departs(l)
    BY <1>1, <1>2, PopPlaces DEF Departs, Somewhere
  <1>4. Unanswered'
    BY <1>3, DepartsStep DEF PlaceInv
  <1>5. InOnePlace'
    BY <1>1, PopPlaces DEF PlaceInv, InOnePlace
  <1> QED
    BY <1>4, <1>5 DEF PlaceInv, Leaving, Ended

(* A queued line moves into the window.                                    *)
LEMMA QueuedIsWritten ==
    ASSUME TypeOK, ConstantsAssumption, PlaceInv, Queued, Pop, ~WindowIsOpen,
           flight' = Next1, UNCHANGED <<call, inbox, leavers, quitting, phase>>
    PROVE  PlaceInv'
  <1>1. Elements(inbox') = Elements(inbox) /\ Once(inbox')
    BY DEF PlaceInv, InOnePlace
  <1>2. \A k \in Calls : Somewhere(k)' <=> Somewhere(k)
    BY <1>1, PopPlaces, NobodyIsNoCall DEF Somewhere, WindowIsOpen
  <1>3. Unanswered'
    BY <1>2 DEF PlaceInv, Unanswered, Standing
  <1>4. InOnePlace'
    BY <1>1, PopPlaces DEF PlaceInv, InOnePlace
  <1> QED
    BY <1>3, <1>4 DEF PlaceInv, Leaving, Ended

LEMMA AfterQuitPlaces ==
    ASSUME TypeOK, ConstantsAssumption, PlaceInv, PumpAfterQuit
    PROVE  PlaceInv'
  <1>0. /\ UNCHANGED <<inbox, quitting, leavers>> /\ ~Ended /\ ~Ended'
    BY DEF PumpAfterQuit, exits, Ended
  <1>1. CASE WindowIsOpen /\ ~Gone(flight)
    BY <1>0, <1>1, Stays DEF PumpAfterQuit, queues, window, PlacesSame
  <1>2. CASE ~(WindowIsOpen /\ ~Gone(flight))
    <2>1. /\ manual' = <<>> /\ held' = <<>> /\ flight' = Nobody
          /\ \A l \in Calls :
                 call'[l] = IF call[l] = "waiting" /\ l \in Elements(manual) \cup Elements(held)
                            THEN IF Revoked(l) THEN "Refused" ELSE "Disconnected"
                            ELSE call[l]
      BY <1>2 DEF PumpAfterQuit, CloseFlight
    <2>2. /\ Once(manual') /\ Once(held') /\ Once(inbox')
          /\ Elements(manual') = {} /\ Elements(held') = {} /\ Elements(inbox') = Elements(inbox)
      BY <1>0, <2>1, NoneInEmpty DEF PlaceInv, InOnePlace
    <2>3. InOnePlace'
      <3>1. Nobody \notin Elements(inbox')
        BY <2>2, PlaceTypes, NobodyIsNoCall
      <3> QED
        BY <1>0, <2>1, <2>2, <3>1 DEF PlaceInv, InOnePlace
    <2>4. ASSUME NEW l \in Calls
          PROVE  /\ Somewhere(l)' => Standing(l)'
                 /\ call'[l] = "waiting" => Somewhere(l)'
      <3>1. Somewhere(l)' <=> l \in Elements(inbox) \cup leavers
        BY <1>0, <2>1, <2>2, NobodyIsNoCall DEF Somewhere
      <3>2. l \in leavers => l \notin Elements(manual) \cup Elements(held)
        BY PlaceTypes, NobodyIsNoCall
      <3>3. Somewhere(l)' => call'[l] = call[l] /\ Standing(l)
        BY <2>1, <3>1, <3>2 DEF PlaceInv, InOnePlace, Unanswered, Somewhere
      <3>4. WindowIsOpen => call[flight] # "waiting"
        BY <1>2 DEF Gone
      <3>5. call'[l] = "waiting" =>
                call[l] = "waiting" /\ l \notin Elements(manual) \cup Elements(held)
        BY <2>1
      <3>6. call'[l] = "waiting" => Somewhere(l)'
        BY <3>1, <3>4, <3>5, NobodyIsNoCall
        DEF PlaceInv, Unanswered, Somewhere, WindowIsOpen
      <3> QED
        BY <3>3, <3>6 DEF Standing
    <2> QED
      BY <1>0, <2>3, <2>4 DEF PlaceInv, Unanswered, Leaving
  <1> QED
    BY <1>1, <1>2

LEMMA PumpPlaces ==
    ASSUME TypeOK, ConstantsAssumption, PlaceInv, Pump
    PROVE  PlaceInv'
  <1> USE DEF queues, window, exits
  <1>1. CASE Abandon
    BY <1>1, WindowCloses DEF Abandon, MayAbandon, Gone, CloseFlight, Ended
  <1>2. CASE SkipWithdrawn
    BY <1>2, QueuedLeaves DEF SkipWithdrawn, Pumping, Wanted, Gone
  <1>3. CASE TurnAway
    <2>1. PICK v \in {"Refused", "Interrupted"} : call' = Told({Next1}, v)
      BY <1>3 DEF TurnAway
    <2>2. Queued /\ Pop /\ UNCHANGED <<inbox, flight, leavers, quitting, phase>>
      BY <1>3 DEF TurnAway, Pumping
    <2>3. Next1 \in Calls /\ v \in Verdicts
      BY <2>2, PopPlaces, NobodyIsNoCall DEF Verdicts
    <2> QED
      BY <2>1, <2>2, <2>3, ToldOne, QueuedLeaves
  <1>4. CASE Write
    <2>1. Queued /\ ~WindowIsOpen /\ inbox' = inbox /\ Next1 \in Commands
      BY <1>4, NextIsACommand DEF Write, Pumping
    <2>2. CASE WriteFails(Next1)
      <3>1. Next1 \in Elements(manual) \cup Elements(held)
        BY <2>1, HeadTailProperties, EmptySeq, LenProperties
        DEF Next1, ManualIsNext, Queued, Elements, TypeOK
      <3>2. Once(inbox') /\ Elements(inbox') = Elements(inbox) \ {Next1}
        BY <2>1, <3>1 DEF PlaceInv, InOnePlace
      <3> QED
        BY <2>2, <3>2, EndPlaces DEF WriteFails, Verdicts
    <2>3. CASE ~WriteFails(Next1)
      BY <1>4, <2>1, <2>3, QueuedIsWritten DEF Write
    <2> QED
      BY <2>2, <2>3
  <1>5. CASE PumpEnds
    BY <1>5, Stays DEF PumpEnds, PlacesSame, Ended
  <1>6. CASE PumpAfterQuit
    BY <1>6, AfterQuitPlaces
  <1> QED
    BY <1>1, <1>2, <1>3, <1>4, <1>5, <1>6 DEF Pump

-----------------------------------------------------------------------------
(* The inbox's messages.                                                   *)

Taking(l) == inbox # <<>> /\ l = Head(inbox) /\ inbox' = Tail(inbox)

(* A message leaves the inbox and its caller is told, or has gone.         *)
LEMMA TakenLeaves ==
    ASSUME TypeOK, ConstantsAssumption, PlaceInv, NEW l \in Calls, Taking(l),
           UNCHANGED <<manual, held, flight, leavers>>,
           quitting => quitting', Ended' => Ended,
           \A k \in Calls : k # l => call'[k] = call[k],
           call'[l] # "waiting"
    PROVE  PlaceInv'
  <1>1. /\ Once(inbox') /\ Elements(inbox') = Elements(inbox) \ {l} /\ l \in Elements(inbox)
        /\ l \notin Elements(manual) \cup Elements(held) \cup {flight} \cup leavers
    BY TakePlaces DEF Taking
  <1>2. /\ Elements(manual') = Elements(manual) /\ Elements(held') = Elements(held)
        /\ Once(manual') /\ Once(held')
    BY DEF PlaceInv, InOnePlace
  <1>3. Departs(l)
    BY <1>1, <1>2 DEF Departs, Somewhere
  <1>4. Unanswered'
    BY <1>3, DepartsStep DEF PlaceInv
  <1>5. InOnePlace'
    BY <1>1, <1>2 DEF PlaceInv, InOnePlace
  <1> QED
    BY <1>4, <1>5 DEF PlaceInv, Leaving

LEMMA AnswerOnlyPlaces ==
    ASSUME TypeOK, ConstantsAssumption, PlaceInv, NEW l \in Calls, Taking(l),
           NEW v \in Verdicts, AnswerOnly(l, v)
    PROVE  PlaceInv'
  <1>1. /\ UNCHANGED <<manual, held, flight, leavers, quitting>> /\ ~Ended'
        /\ call' = Told({l}, v)
    BY DEF AnswerOnly, queues, window, exits, Ended
  <1> QED
    BY <1>1, ToldOne, TakenLeaves

LEMMA IgnorePlaces ==
    ASSUME TypeOK, ConstantsAssumption, PlaceInv, NEW l \in Calls, Taking(l), ~Wanted(l), Ignore
    PROVE  PlaceInv'
  BY TakenLeaves DEF Ignore, queues, window, exits, Ended, Wanted, Gone

LEMMA JoinOrWriteQuitPlaces ==
    ASSUME TypeOK, ConstantsAssumption, PlaceInv, NEW l \in Calls, Taking(l),
           NEW v \in Verdicts, NEW f \in Verdicts, JoinOrWriteQuit(l, v, f)
    PROVE  PlaceInv'
  <1>1. /\ Once(inbox') /\ Elements(inbox') = Elements(inbox) \ {l} /\ l \in Elements(inbox)
        /\ l \notin Elements(manual) \cup Elements(held) \cup {flight} \cup leavers
    BY TakePlaces DEF Taking
  <1>2. CASE ~quitting /\ EndConnection("closed", "Unsent", {l}, f)
    BY <1>1, <1>2, EndPlaces DEF Verdicts
  <1>3. CASE ~(~quitting /\ EndConnection("closed", "Unsent", {l}, f))
    <2>1. /\ quitting' = TRUE /\ ~Ended' /\ UNCHANGED <<manual, held, flight>>
          /\ IF l \in Quits THEN leavers' = leavers \cup {l} /\ UNCHANGED call
             ELSE call' = Told({l}, v) /\ UNCHANGED leavers
      BY <1>3 DEF JoinOrWriteQuit, queues, window, Ended
    <2>2. CASE l \notin Quits
      BY <2>1, <2>2, ToldOne, TakenLeaves
    <2>3. CASE l \in Quits
      <3>1. /\ Elements(manual') = Elements(manual) /\ Elements(held') = Elements(held)
            /\ Once(manual') /\ Once(held')
        BY <2>1 DEF PlaceInv, InOnePlace
      <3>2. \A k \in Calls : Somewhere(k)' <=> Somewhere(k)
        BY <1>1, <2>1, <2>3, <3>1 DEF Somewhere
      <3>3. Unanswered'
        BY <2>1, <2>3, <3>2 DEF PlaceInv, Unanswered, Standing
      <3>4. InOnePlace'
        BY <1>1, <2>1, <2>3, <3>1 DEF PlaceInv, InOnePlace
      <3> QED
        BY <2>1, <3>3, <3>4 DEF PlaceInv, Leaving
    <2> QED
      BY <2>2, <2>3
  <1> QED
    BY <1>2, <1>3

LEMMA AdmitPlaces ==
    ASSUME TypeOK, ConstantsAssumption, PlaceInv, NEW c \in Commands, Taking(c), Admit(c)
    PROVE  PlaceInv'
  <1>0. c \in Calls
    BY NobodyIsNoCall
  <1>1. /\ Once(inbox') /\ Elements(inbox') = Elements(inbox) \ {c} /\ c \in Elements(inbox)
        /\ c \notin Elements(manual) \cup Elements(held) \cup {flight} \cup leavers
    BY TakePlaces DEF Taking
  <1>2. CASE AnswerOnly(c, "Disconnected") \/ AnswerOnly(c, "Refused")
    BY <1>0, <1>2, AnswerOnlyPlaces DEF Verdicts
  <1>3. CASE ~(AnswerOnly(c, "Disconnected") \/ AnswerOnly(c, "Refused"))
    <2>1. /\ UNCHANGED <<call, flight, leavers, quitting>> /\ ~Ended'
          /\ \/ held' = Append(held, c) /\ UNCHANGED manual
             \/ manual' = Append(manual, c) /\ UNCHANGED held
      BY <1>3 DEF Admit, window, exits, Ended
    <2>2. /\ Once(Append(held, c)) /\ Elements(Append(held, c)) = Elements(held) \cup {c}
          /\ Once(Append(manual, c)) /\ Elements(Append(manual, c)) = Elements(manual) \cup {c}
      BY <1>1, OnceWith DEF TypeOK, PlaceInv, InOnePlace
    <2>3. /\ Once(manual') /\ Once(held')
          /\ \/ Elements(held') = Elements(held) \cup {c} /\ Elements(manual') = Elements(manual)
             \/ Elements(manual') = Elements(manual) \cup {c} /\ Elements(held') = Elements(held)
      BY <2>1, <2>2 DEF PlaceInv, InOnePlace
    <2>4. \A k \in Calls : Somewhere(k)' <=> Somewhere(k)
      BY <1>1, <2>1, <2>3 DEF Somewhere
    <2>5. Unanswered'
      BY <2>1, <2>4 DEF PlaceInv, Unanswered, Standing
    <2>6. InOnePlace'
      BY <1>1, <2>1, <2>3 DEF PlaceInv, InOnePlace
    <2> QED
      BY <2>1, <2>5, <2>6 DEF PlaceInv, Leaving
  <1> QED
    BY <1>2, <1>3

LEMMA WriteInstantPlaces ==
    ASSUME TypeOK, ConstantsAssumption, PlaceInv, NEW i \in Instants, Taking(i), WriteInstant(i)
    PROVE  PlaceInv'
  <1>0. i \in Calls
    BY DEF Calls, Lines
  <1>1. Once(inbox') /\ Elements(inbox') = Elements(inbox) \ {i}
    BY <1>0, TakePlaces DEF Taking
  <1>2. CASE WriteFails(i)
    BY <1>1, <1>2, EndPlaces DEF WriteFails, Verdicts
  <1>3. CASE ~WriteFails(i)
    <2>1. /\ UNCHANGED <<manual, held, flight, leavers, quitting>> /\ ~Ended'
          /\ call' = Told({i}, "Sent") /\ "Sent" \in Verdicts
      BY <1>3 DEF WriteInstant, queues, window, exits, Ended, Verdicts
    <2> QED
      BY <1>0, <2>1, ToldOne, TakenLeaves
  <1> QED
    BY <1>2, <1>3

LEMMA TakeMessagePlaces ==
    ASSUME TypeOK, ConstantsAssumption, PlaceInv, TakeMessage
    PROVE  PlaceInv'
  <1>1. PICK l \in Calls : Taking(l)
    <2>1. inbox # <<>> /\ inbox' = Tail(inbox)
      BY DEF TakeMessage, TakeCommand, TakeInstant, TakeQuit
    <2> QED
      BY <2>1, TakePlaces DEF Taking
  <1>2. l = Head(inbox)
    BY <1>1 DEF Taking
  <1>3. /\ {"Handled", "Refused", "Interrupted", "Disconnected", "Dead", "Unsent"} \subseteq Verdicts
    BY DEF Verdicts
  <1>4. CASE TakeCommand
    <2>1. \/ Ignore /\ ~Wanted(l)
          \/ AnswerOnly(l, "Handled") \/ AnswerOnly(l, "Refused") \/ AnswerOnly(l, "Interrupted")
          \/ JoinOrWriteQuit(l, "Disconnected", "Dead")
          \/ l \in Commands /\ Admit(l)
      BY <1>2, <1>4 DEF TakeCommand, MistargetedTag
    <2> QED
      BY <1>1, <1>3, <2>1, IgnorePlaces, AnswerOnlyPlaces, JoinOrWriteQuitPlaces, AdmitPlaces
  <1>5. CASE TakeInstant
    <2>1. \/ Ignore /\ ~Wanted(l)
          \/ AnswerOnly(l, "Refused") \/ AnswerOnly(l, "Dead")
          \/ JoinOrWriteQuit(l, "Dead", "Dead")
          \/ l \in Instants /\ WriteInstant(l)
      BY <1>2, <1>5 DEF TakeInstant, MistargetedTag
    <2> QED
      BY <1>1, <1>3, <2>1, IgnorePlaces, AnswerOnlyPlaces, JoinOrWriteQuitPlaces,
         WriteInstantPlaces
  <1>6. CASE TakeQuit
    <2>1. JoinOrWriteQuit(l, "Unsent", "Unsent")
      BY <1>2, <1>6 DEF TakeQuit
    <2> QED
      BY <1>1, <1>3, <2>1, JoinOrWriteQuitPlaces
  <1> QED
    BY <1>4, <1>5, <1>6 DEF TakeMessage

LEMMA SweepPlaces ==
    ASSUME TypeOK, ConstantsAssumption, PlaceInv, Sweep
    PROVE  PlaceInv'
  <1>1. PICK l \in Calls : Taking(l)
    <2>1. inbox # <<>> /\ inbox' = Tail(inbox)
      BY DEF Sweep
    <2> QED
      BY <2>1, TakePlaces DEF Taking
  <1> DEFINE v == IF l \in Quits THEN "Unsent"
                  ELSE IF phase = "closed" THEN "Dead"
                  ELSE IF l \in Commands THEN "Disconnected"
                  ELSE "Interrupted"
  <1>2. call' = Told({l}, v) /\ v \in Verdicts
    BY <1>1 DEF Sweep, Taking, Verdicts
  <1>3. UNCHANGED <<manual, held, flight, leavers, quitting, phase>>
    BY DEF Sweep, queues, window, exits
  <1> QED
    BY <1>1, <1>2, <1>3, ToldOne, TakenLeaves DEF Ended

-----------------------------------------------------------------------------
(* The window's ends, and the rest of the loop.                            *)

LEMMA ResolvePlaces ==
    ASSUME TypeOK, ConstantsAssumption, PlaceInv, WindowIsOpen,
           NEW at \in Lines \cup {Nobody, Game}, Resolve(at),
           UNCHANGED <<inbox, queues, exits>>, ~Ended'
    PROVE  PlaceInv'
  <1>1. PICK v \in Verdicts : call' = Told({flight}, v)
    BY DEF Resolve, Verdicts
  <1>2. flight \in Calls
    BY NobodyIsNoCall DEF TypeOK, WindowIsOpen
  <1>3. /\ \A k \in Calls : k # flight => call'[k] = call[k]
        /\ call'[flight] # "waiting"
    BY <1>1, <1>2, ToldOne
  <1> QED
    BY <1>3, WindowCloses DEF Resolve, CloseFlight, queues, exits

LEMMA SpeechPlaces ==
    ASSUME TypeOK, ConstantsAssumption, PlaceInv, NEW o \in Lines \cup {Game}, Says(o)
    PROVE  PlaceInv'
  <1>1. CASE Text(o)
    BY <1>1, Stays DEF Text, PlacesSame, queues, exits, Ended
  <1>2. CASE PromptSpent(o) \/ PromptUnclaimed(o)
    <2>1. EndOfReply(o) /\ UNCHANGED <<call, window>>
      BY <1>2 DEF PromptSpent, PromptUnclaimed
    <2>2. PlacesSame /\ UNCHANGED <<call, quitting>> /\ ~Ended'
      BY <2>1 DEF EndOfReply, PlacesSame, queues, window, exits, Ended
    <2> QED
      BY <2>2, Stays
  <1>3. CASE PromptForWindow(o)
    <2>1. WindowIsOpen /\ UNCHANGED <<inbox, queues, exits>> /\ ~Ended'
      BY <1>3 DEF PromptForWindow, EndOfReply, Ended
    <2>2. CASE Resolve(o)
      BY <2>1, <2>2, ResolvePlaces
    <2>3. CASE UNCHANGED <<call, window>>
      BY <2>1, <2>3, Stays DEF PlacesSame, queues, window, exits
    <2> QED
      BY <1>3, <2>2, <2>3 DEF PromptForWindow
  <1> QED
    BY <1>1, <1>2, <1>3 DEF Says

LEMMA PlaceStep ==
    ASSUME TypeOK, ConstantsAssumption, PlaceInv, [Next]_vars
    PROVE  PlaceInv'
  <1> USE DEF queues, window, exits
  <1>1. CASE UNCHANGED vars
    BY <1>1, Stays DEF vars, PlacesSame, Ended
  <1>2. CASE Wake \/ LapseAnswer \/ LapsePrompt \/ ReadEnds
    BY <1>2, Stays DEF Wake, LapseAnswer, LapsePrompt, ReadEnds, PlacesSame, Ended
  <1>3. CASE ExpireWindow
    BY <1>3, ResolvePlaces DEF ExpireWindow, Ended, WindowIsOpen, ConstantsAssumption, Calls, Lines
  <1>4. CASE PeerEnds \/ Cancel
    <2>1. Once(inbox') /\ Elements(inbox') = Elements(inbox) \ {}
      BY <1>4 DEF PeerEnds, Cancel, PlaceInv, InOnePlace
    <2> QED
      BY <1>4, <2>1, EndPlaces DEF PeerEnds, Cancel, Verdicts
  <1>5. CASE Speech
    BY <1>5, SpeechPlaces DEF Speech, Says
  <1> QED
    BY <1>1, <1>2, <1>3, <1>4, <1>5, CallersPlaces, PumpPlaces, TakeMessagePlaces, SweepPlaces
    DEF Next

-----------------------------------------------------------------------------
(* The theorems.                                                           *)

LEMMA PlacesHold == Spec => []PlaceInv
  <1>1. Init => PlaceInv
    BY NoneInEmpty, NobodyIsNoCall, ConstantsAssumption
    DEF Init, PlaceInv, InOnePlace, Unanswered, Leaving, Somewhere, Ended
  <1>2. TypeOK /\ PlaceInv /\ [Next]_vars => PlaceInv'
    BY PlaceStep, ConstantsAssumption
  <1> QED
    BY <1>1, <1>2, TypeCorrect, PTL DEF Spec

(* What is in a queue once is at one index of it.                          *)
LEMMA OneIndex ==
    ASSUME NEW s, Once(s), NEW l
    PROVE  LET at == {i \in DOMAIN s : s[i] = l}
           IN IF l \in Elements(s) THEN Cardinality(at) = 1 ELSE at = {}
  <1> DEFINE at == {i \in DOMAIN s : s[i] = l}
  <1>1. CASE l \in Elements(s)
    <2>1. PICK i \in DOMAIN s : s[i] = l
      BY <1>1 DEF Elements
    <2>2. at = {i}
      BY <2>1 DEF Once
    <2> QED
      BY <1>1, <2>2, FS_Singleton
  <1>2. CASE l \notin Elements(s)
    BY <1>2 DEF Elements
  <1> QED
    BY <1>1, <1>2

LEMMA InOneOfThem ==
    ASSUME TypeOK, ConstantsAssumption, PlaceInv
    PROVE  WaitsInOnePlace
  <1> SUFFICES ASSUME NEW l \in Calls, call[l] = "waiting"
               PROVE  \E k \in 1..5 : /\ Cardinality(Places(l)[k]) = 1
                                      /\ \A j \in (1..5) \ {k} : Places(l)[j] = {}
    BY DEF WaitsInOnePlace
  <1> DEFINE p == Places(l)
  <1>1. Cardinality({1}) = 1
    BY FS_Singleton
  <1>2. /\ IF l \in Elements(inbox) THEN Cardinality(p[1]) = 1 ELSE p[1] = {}
        /\ IF l \in Elements(manual) THEN Cardinality(p[2]) = 1 ELSE p[2] = {}
        /\ IF l \in Elements(held) THEN Cardinality(p[3]) = 1 ELSE p[3] = {}
    BY OneIndex DEF Places, PlaceInv, InOnePlace
  <1>3. /\ IF l = flight THEN Cardinality(p[4]) = 1 ELSE p[4] = {}
        /\ IF l \in leavers THEN Cardinality(p[5]) = 1 ELSE p[5] = {}
    BY <1>1 DEF Places
  <1>4. l \in Elements(inbox) \cup Elements(manual) \cup Elements(held) \cup {flight} \cup leavers
    BY DEF PlaceInv, Unanswered, Somewhere
  <1>5. /\ l \in leavers => l # flight /\ l \notin Elements(manual) \cup Elements(held)
    BY PlaceTypes, NobodyIsNoCall
  <1> HIDE DEF p
  <1>6. 1..5 = {1, 2, 3, 4, 5}
    OBVIOUS
  <1>7. \E k \in 1..5 : Cardinality(p[k]) = 1 /\ \A j \in (1..5) \ {k} : p[j] = {}
    <2>1. CASE l \in Elements(inbox)
      BY <1>2, <1>3, <1>6, <2>1 DEF PlaceInv, InOnePlace
    <2>2. CASE l \in Elements(manual)
      BY <1>2, <1>3, <1>5, <1>6, <2>2 DEF PlaceInv, InOnePlace
    <2>3. CASE l \in Elements(held)
      BY <1>2, <1>3, <1>5, <1>6, <2>3 DEF PlaceInv, InOnePlace
    <2>4. CASE l = flight
      BY <1>2, <1>3, <1>5, <1>6, <2>4 DEF PlaceInv, InOnePlace
    <2>5. CASE l \in leavers
      BY <1>2, <1>3, <1>5, <1>6, <2>5 DEF PlaceInv, InOnePlace
    <2> QED
      BY <1>4, <2>1, <2>2, <2>3, <2>4, <2>5
  <1> QED
    BY <1>7 DEF p

(* No caller is forgotten and none is answered twice, in every run of      *)
(* every connection, however it ends: a call that waits is in one place,   *)
(* from which one step answers it.                                         *)
THEOREM WaitsOnce == Spec => []WaitsInOnePlace
  <1>1. TypeOK /\ PlaceInv => WaitsInOnePlace
    BY InOneOfThem, ConstantsAssumption
  <1> QED
    BY <1>1, TypeCorrect, PlacesHold, PTL

LEMMA QuitStep ==
    ASSUME TypeOK, ConstantsAssumption, PlaceInv, [Next]_vars, NEW q \in leavers, q \notin leavers'
    PROVE  call'[q] \in {"gone", "Acknowledged", "TimedOut"}
  <1>1. q \in Calls /\ quitting /\ Standing(q) /\ q \notin Waiters
    BY PlaceTypes, NobodyIsNoCall
    DEF PlaceInv, Leaving, Unanswered, Somewhere, Waiters
  <1> USE DEF exits, queues, window
  <1>2. CASE PeerEnds \/ Cancel
    BY <1>1, <1>2 DEF PeerEnds, Cancel, EndConnection, Standing
  <1>3. ~UNCHANGED leavers
    OBVIOUS
  <1>4. ~Callers
    BY <1>3 DEF Callers, Submit, AskToQuit, GiveUp, PassAuthority
  <1>5. ~Pump
    BY <1>1, <1>3
    DEF Pump, Abandon, SkipWithdrawn, TurnAway, Write, Pumping, PumpEnds, PumpAfterQuit
  <1>6. ~TakeMessage
    BY <1>1, <1>3
    DEF TakeMessage, TakeCommand, TakeInstant, TakeQuit, Ignore, MistargetedTag, AnswerOnly,
        JoinOrWriteQuit, Admit, InstantMayGo, WriteInstant
  <1>7. ~Speech
    BY <1>3
    DEF Speech, Text, PromptSpent, PromptUnclaimed, PromptForWindow, EndOfReply
  <1>8. ~(Wake \/ ExpireWindow \/ LapseAnswer \/ LapsePrompt \/ ReadEnds \/ Sweep \/ UNCHANGED vars)
    BY <1>3 DEF Wake, ExpireWindow, LapseAnswer, LapsePrompt, ReadEnds, Sweep, vars
  <1> QED
    BY <1>2, <1>4, <1>5, <1>6, <1>7, <1>8 DEF Next

(* A quit whose exit command went out is told what ended the connection,   *)
(* never that it was not sent, whatever else the connection was doing.     *)
THEOREM QuitsAreTold == Spec => ToldOfTheQuit
  <1>1. TypeOK /\ PlaceInv /\ [Next]_vars =>
            [\A q \in leavers : q \notin leavers' =>
                 call'[q] \in {"gone", "Acknowledged", "TimedOut"}]_vars
    BY QuitStep, ConstantsAssumption
  <1> QED
    BY <1>1, TypeCorrect, PlacesHold, PTL DEF Spec, ToldOfTheQuit
-----------------------------------------------------------------------------
(* What callers are told is true of their lines: CallFates is implemented. *)

(* Who is told of a call in `CallFates` and here.                          *)
LEMMA FateKinds ==
    ASSUME ConstantsAssumption
    PROVE  /\ Fates!Calls = Calls
           /\ \A c \in Commands : Fates!WithoutSending(c) =
                  {"Refused", "Interrupted", "Handled", "Disconnected", "Dead"}
           /\ \A i \in Instants : Fates!WithoutSending(i) = {"Refused", "Interrupted", "Dead"}
           /\ \A q \in Quits : Fates!WithoutSending(q) = {"Unsent"}
  <1>1. Fates!Calls = Calls
    BY DEF Fates!Calls, Calls, Lines
  <1>2. /\ \A c \in Commands : c \notin Quits /\ c \notin Instants
        /\ \A i \in Instants : i \notin Quits
    BY DEF ConstantsAssumption, Lines
  <1> QED
    BY <1>1, <1>2 DEF Fates!WithoutSending

LEMMA FateKnown ==
    ASSUME TypeOK', NEW l \in Calls
    PROVE  Fate(l)' \in Fates!Known
  <1>1. call'[l] \in {"idle", "waiting", "gone"} \cup Verdicts
    BY DEF TypeOK
  <1> QED
    BY <1>1 DEF Fate, Verdicts, Fates!Known, Fates!Unsettled

SameFates == \A l \in Calls : Fate(l)' = Fate(l)

(* One call's fate changes.                                                *)
Alone(l, v) ==
    /\ Fate(l)' = v
    /\ \A k \in Calls : k # l => Fate(k)' = Fate(k)

LEMMA OneFate ==
    ASSUME NEW l \in Calls, NEW v, Alone(l, v)
    PROVE  [k \in Calls |-> Fate(k)]' = [[k \in Calls |-> Fate(k)] EXCEPT ![l] = v]
  BY DEF Alone

(* Steps at which callers learn nothing, or that their lines were not sent. *)
LEMMA TurnsAway ==
    ASSUME TypeOK', ConstantsAssumption, UNCHANGED wire,
           \A l \in Calls : \/ Fate(l)' = Fate(l)
                            \/ /\ Fate(l) = "waiting"
                               /\ Fate(l)' \in Fates!WithoutSending(l)
    PROVE  Fates!Next
  <1> DEFINE f == [k \in Calls |-> Fate(k)]
  <1>1. f' = [k \in Calls |-> Fate(k)']
    OBVIOUS
  <1>2. \A l \in Calls : Fate(l)' \in Fates!Known
    BY FateKnown
  <1>3. f' \in [Calls -> Fates!Known]
    BY <1>1, <1>2
  <1>4. Fates!ToldUnsent(f, f')
    BY <1>1, FateKinds DEF Fates!ToldUnsent
  <1>5. Fates!TurnAway
    BY <1>3, <1>4, FateKinds DEF Fates!TurnAway
  <1> QED
    BY <1>5 DEF Fates!Next

LEMMA SameIsNext ==
    ASSUME TypeOK', ConstantsAssumption, UNCHANGED wire, SameFates
    PROVE  Fates!Next
  BY TurnsAway DEF SameFates

LEMMA SameFatesFrom ==
    ASSUME UNCHANGED <<call, flight, leavers>>
    PROVE  SameFates
  BY DEF SameFates, Fate

LEMMA HearsOnly ==
    ASSUME TypeOK', ConstantsAssumption, SameFates,
           UNCHANGED wire \/ (wire # <<>> /\ wire' = Tail(wire))
    PROVE  Fates!Next
  <1> DEFINE f == [k \in Calls |-> Fate(k)]
  <1>1. f' = f
    BY DEF SameFates
  <1>2. wire # <<>> /\ wire' = Tail(wire) => Fates!Next
    BY <1>1 DEF Fates!Next, Fates!Hear
  <1> QED
    BY <1>2, SameIsNext

(* The fates of those told in one step, `call' = Told({l}, v)`.            *)
LEMMA ToldFates ==
    ASSUME TypeOK, NEW l \in Calls, NEW v \in Verdicts, call' = Told({l}, v),
           UNCHANGED <<flight, leavers>>, l # flight, l \notin leavers
    PROVE  \A k \in Calls : \/ Fate(k)' = Fate(k)
                            \/ k = l /\ Fate(k) = "waiting" /\ Fate(k)' = v
  <1>1. v # "waiting"
    BY DEF Verdicts
  <1> QED
    BY <1>1 DEF Told, Fate

LEMMA EndFates ==
    ASSUME TypeOK', ConstantsAssumption, TypeOK, PlaceInv,
           NEW end \in {"lost", "closed"}, NEW farewell, NEW also, NEW verdict \in Verdicts,
           EndConnection(end, farewell, also, verdict),
           leavers # {} => farewell \in {"Acknowledged", "TimedOut"},
           \A l \in also : l \notin leavers /\ l # flight,
           \A l \in also : l \in Calls => verdict \in Fates!WithoutSending(l)
    PROVE  Fates!Next
  <1> DEFINE f == [k \in Calls |-> Fate(k)]
             outcome == IF end = "lost" THEN "Disconnected" ELSE "Dead"
  <1>1. f' = [k \in Calls |-> Fate(k)']
    OBVIOUS
  <1>2. \A l \in Calls : Fate(l)' \in Fates!Known
    BY FateKnown
  <1>3. f' \in [Calls -> Fates!Known]
    BY <1>1, <1>2
  <1>4. outcome \in {"Disconnected", "Dead"}
    OBVIOUS
  <1>5. PICK bye \in {"Acknowledged", "TimedOut"} : leavers # {} => bye = farewell
    OBVIOUS
  <1>6. ASSUME NEW l \in Calls
        PROVE  Fate(l)' \in IF Fate(l) = "sent" THEN {outcome}
                            ELSE IF Fate(l) = "leaving" THEN {bye}
                            ELSE IF Fate(l) = "waiting"
                                 THEN {"waiting"} \cup Fates!WithoutSending(l)
                            ELSE {Fate(l)}
    <2>1. /\ call'[l] = IF call[l] # "waiting" THEN call[l]
                        ELSE IF l \in also THEN verdict
                        ELSE IF l \in Waiters THEN outcome
                        ELSE IF l \in leavers THEN farewell
                        ELSE call[l]
          /\ flight' = Nobody /\ leavers' = {}
      BY DEF EndConnection
    <2>2. l # Nobody
      BY NobodyIsNoCall
    <2>3. Fate(l)' = call'[l]
      BY <2>1, <2>2 DEF Fate
    <2>4. CASE call[l] # "waiting"
      <3>1. Fate(l) = call[l] /\ Fate(l)' = Fate(l)
        BY <2>1, <2>3, <2>4 DEF Fate
      <3>2. Fate(l) # "sent" /\ Fate(l) # "leaving" /\ Fate(l) # "waiting"
        <4>1. call[l] \in {"idle", "gone"} \cup Verdicts
          BY <2>4 DEF TypeOK
        <4> QED
          BY <3>1, <4>1, <2>4 DEF Verdicts
      <3> QED
        BY <3>1, <3>2
    <2>5. CASE call[l] = "waiting" /\ l \in also
      <3>1. Fate(l) = "waiting" /\ Fate(l)' = verdict
        BY <2>1, <2>3, <2>5 DEF Fate
      <3> QED
        BY <2>5, <3>1
    <2>6. CASE call[l] = "waiting" /\ l \notin also /\ l \in Waiters
      <3>1. Fate(l)' = outcome
        BY <2>1, <2>3, <2>6
      <3>2. l \in Commands /\ l \notin leavers
        BY <2>2, <2>6, PlaceTypes, NobodyIsNoCall DEF Waiters
      <3>3. Fate(l) = "sent" \/ Fate(l) = "waiting"
        BY <2>6, <3>2 DEF Fate
      <3>4. outcome \in Fates!WithoutSending(l)
        BY <1>4, <3>2, FateKinds
      <3> QED
        BY <3>1, <3>3, <3>4
    <2>7. CASE call[l] = "waiting" /\ l \notin also /\ l \notin Waiters
      <3>1. l # flight
        BY <2>2, <2>7 DEF Waiters
      <3>2. CASE l \in leavers
        BY <1>5, <2>1, <2>3, <2>7, <3>1, <3>2 DEF Fate
      <3>3. CASE l \notin leavers
        BY <2>1, <2>3, <2>7, <3>1, <3>3 DEF Fate
      <3> QED
        BY <3>2, <3>3
    <2> QED
      BY <2>4, <2>5, <2>6, <2>7
  <1>7. Fates!ToldOfTheEnd(f, f', outcome, bye)
    BY <1>1, <1>6, FateKinds DEF Fates!ToldOfTheEnd
  <1>8. UNCHANGED wire
    BY DEF EndConnection, game
  <1>9. Fates!End
    BY <1>3, <1>4, <1>7, <1>8, FateKinds DEF Fates!End
  <1> QED
    BY <1>9 DEF Fates!Next

(* Steps at which one caller learns something.                             *)
LEMMA OneLearns ==
    ASSUME ConstantsAssumption, NEW l \in Calls, NEW v, Alone(l, v)
    PROVE  /\ UNCHANGED wire /\ Fate(l) = "idle" /\ v = "waiting" => Fates!Next
           /\ UNCHANGED wire /\ Fate(l) = "idle" /\ v = "Refused" /\ l \notin Quits => Fates!Next
           /\ UNCHANGED wire /\ Fate(l) \in Fates!Unsettled /\ v = "gone" => Fates!Next
           /\ UNCHANGED wire /\ Fate(l) = "waiting" /\ v = "leaving" /\ l \in Quits => Fates!Next
           /\ /\ wire' = Append(wire, l) /\ Fate(l) = "waiting" /\ v = "Sent"
              /\ l \in Instants
              => Fates!Next
           /\ /\ wire' = Append(wire, l) /\ Fate(l) = "waiting" /\ v = "sent"
              /\ l \in Commands /\ \A k \in Commands : Fate(k) # "sent"
              => Fates!Next
           /\ /\ UNCHANGED wire \/ (wire # <<>> /\ wire' = Tail(wire))
              /\ Fate(l) = "sent" /\ v \in {"Confirmed", "Answered", "Timeout"}
              /\ l \in Commands
              => Fates!Next
  <1> DEFINE f == [k \in Calls |-> Fate(k)]
  <1>1. f' = [f EXCEPT ![l] = v] /\ f[l] = Fate(l)
    BY OneFate
  <1>2. \A k \in Commands : k \in Calls /\ f[k] = Fate(k)
    BY NobodyIsNoCall
  <1>3. UNCHANGED wire /\ Fate(l) = "idle" /\ v = "waiting" => Fates!Make(l)
    BY <1>1 DEF Fates!Make
  <1>4. UNCHANGED wire /\ Fate(l) = "idle" /\ v = "Refused" /\ l \notin Quits
            => Fates!RefuseAtOnce(l)
    BY <1>1 DEF Fates!RefuseAtOnce
  <1>5. UNCHANGED wire /\ Fate(l) \in Fates!Unsettled /\ v = "gone" => Fates!Withdraw(l)
    BY <1>1 DEF Fates!Withdraw
  <1>6. UNCHANGED wire /\ Fate(l) = "waiting" /\ v = "leaving" => Fates!Leave(l)
    BY <1>1 DEF Fates!Leave
  <1>7. wire' = Append(wire, l) /\ Fate(l) = "waiting" /\ v = "Sent" => Fates!SendInstant(l)
    BY <1>1 DEF Fates!SendInstant
  <1>8. /\ wire' = Append(wire, l) /\ Fate(l) = "waiting" /\ v = "sent"
        /\ \A k \in Commands : Fate(k) # "sent"
        => Fates!SendCommand(l)
    BY <1>1, <1>2 DEF Fates!SendCommand
  <1>9. /\ UNCHANGED wire \/ (wire # <<>> /\ wire' = Tail(wire))
        /\ Fate(l) = "sent" /\ v \in {"Confirmed", "Answered", "Timeout"}
        => Fates!Decide(l)
    BY <1>1 DEF Fates!Decide, Fates!Hear
  <1> QED
    BY <1>3, <1>4, <1>5, <1>6, <1>7, <1>8, <1>9, FateKinds DEF Fates!Next

LEMMA CallersFates ==
    ASSUME TypeOK, TypeOK', ConstantsAssumption, PlaceInv, Callers
    PROVE  Fates!Next
  <1> USE DEF window, exits, game
  <1>1. ASSUME NEW l \in Calls, call[l] = "idle", NEW v \in {"waiting", "Refused"},
               call' = [call EXCEPT ![l] = v], UNCHANGED <<flight, leavers>>
        PROVE  Fate(l) = "idle" /\ Alone(l, v)
    <2>1. l # flight /\ l \notin leavers
      BY <1>1 DEF PlaceInv, Unanswered, Somewhere, Standing
    <2>2. \A k \in Calls : call'[k] = IF k = l THEN v ELSE call[k]
      BY <1>1 DEF TypeOK
    <2> QED
      BY <1>1, <2>1, <2>2 DEF Fate, Alone
  <1>2. ASSUME NEW l \in Lines, Submit(l) PROVE Fates!Next
    <2>1. /\ call[l] = "idle" /\ UNCHANGED <<flight, leavers, wire>>
          /\ \E v \in {"waiting", "Refused"} : call' = [call EXCEPT ![l] = v]
          /\ l \in Calls /\ l \notin Quits
      BY <1>2, NobodyIsNoCall DEF Submit
    <2> QED
      BY <1>1, <2>1, OneLearns
  <1>3. ASSUME NEW q \in Quits, AskToQuit(q) PROVE Fates!Next
    <2>1. /\ call[q] = "idle" /\ UNCHANGED <<flight, leavers, wire>>
          /\ call' = [call EXCEPT ![q] = "waiting"]
          /\ q \in Calls
      BY <1>3, NobodyIsNoCall DEF AskToQuit
    <2> QED
      BY <1>1, <2>1, OneLearns
  <1>4. ASSUME NEW l \in Calls, GiveUp(l) PROVE Fates!Next
    <2>1. /\ call[l] = "waiting" /\ UNCHANGED <<flight, leavers, wire>>
          /\ \A k \in Calls : call'[k] = IF k = l THEN "gone" ELSE call[k]
      BY <1>4 DEF GiveUp, TypeOK
    <2>2. Fate(l) \in Fates!Unsettled /\ Alone(l, "gone")
      BY <2>1 DEF Fate, Alone, Fates!Unsettled
    <2> QED
      BY <2>1, <2>2, OneLearns
  <1>5. ASSUME PassAuthority PROVE Fates!Next
    BY <1>5, SameFatesFrom, SameIsNext DEF PassAuthority
  <1> QED
    BY <1>2, <1>3, <1>4, <1>5 DEF Callers

LEMMA PumpFates ==
    ASSUME TypeOK, TypeOK', ConstantsAssumption, PlaceInv, Pump
    PROVE  Fates!Next
  <1> USE DEF queues, window, exits, game
  <1>1. CASE Abandon
    <2>1. call' = call /\ leavers' = leavers /\ flight' = Nobody /\ call[flight] = "gone"
      BY <1>1 DEF Abandon, MayAbandon, Gone, CloseFlight
    <2>2. SameFates
      BY <2>1, NobodyIsNoCall DEF SameFates, Fate
    <2> QED
      BY <1>1, <2>2, SameIsNext DEF Abandon
  <1>2. CASE SkipWithdrawn
    BY <1>2, SameFatesFrom, SameIsNext DEF SkipWithdrawn
  <1>3. CASE TurnAway
    <2>1. PICK v \in {"Refused", "Interrupted"} : call' = Told({Next1}, v)
      BY <1>3 DEF TurnAway
    <2>2. Queued /\ Pop /\ UNCHANGED <<flight, leavers, wire>>
      BY <1>3 DEF TurnAway, Pumping
    <2>3. /\ Next1 \in Calls /\ v \in Verdicts /\ Next1 # flight /\ Next1 \notin leavers
          /\ v \in Fates!WithoutSending(Next1)
      BY <2>2, PopPlaces, NobodyIsNoCall, FateKinds DEF Verdicts
    <2>4. PICK l \in Calls : l = Next1
      BY <2>3
    <2> QED
      BY <2>1, <2>2, <2>3, <2>4, ToldFates, TurnsAway
  <1>4. CASE Write
    <2>1. /\ Queued /\ ~WindowIsOpen /\ Next1 \in Commands
          /\ call[Next1] # "gone" /\ ~quitting
      BY <1>4, NextIsACommand DEF Write, Pumping, Wanted, Gone
    <2>2. PICK l \in Commands : l = Next1
      BY <2>1
    <2>3. l \in Elements(manual) \cup Elements(held)
      BY <2>1, <2>2, HeadTailProperties, EmptySeq, LenProperties
      DEF Next1, ManualIsNext, Queued, Elements, TypeOK
    <2>4. l \in Calls /\ l \notin leavers /\ l # flight
      BY <2>3, PlaceTypes, NobodyIsNoCall DEF PlaceInv, InOnePlace
    <2>5. leavers = {}
      BY <2>1 DEF PlaceInv, Leaving
    <2>6. CASE WriteFails(Next1)
      <3>1. PICK end \in {"lost", "closed"} : EndConnection(end, "Unsent", {l}, "Dead")
        BY <2>2, <2>6 DEF WriteFails
      <3>2. "Dead" \in Verdicts /\ "Dead" \in Fates!WithoutSending(l)
        BY FateKinds DEF Verdicts
      <3> QED
        BY <2>4, <2>5, <3>1, <3>2, EndFates
    <2>7. CASE ~WriteFails(Next1)
      <3>1. /\ call' = call /\ leavers' = leavers /\ flight' = l
            /\ wire' = Append(wire, l)
        BY <1>4, <2>2, <2>7 DEF Write
      <3>2. call[l] = "waiting"
        BY <2>1, <2>2, <2>3, <2>4 DEF PlaceInv, Unanswered, Somewhere, Standing
      <3>3. Fate(l) = "waiting" /\ Alone(l, "sent")
        <4>1. \A k \in Calls : k # flight
          BY <2>1, NobodyIsNoCall DEF WindowIsOpen
        <4> QED
          BY <2>4, <3>1, <3>2, <4>1 DEF Fate, Alone
      <3>4. ASSUME NEW k \in Commands PROVE Fate(k) # "sent"
        <4>1. k # flight /\ k \in Calls
          BY <2>1, NobodyIsNoCall DEF WindowIsOpen
        <4>2. call[k] # "sent"
          BY <4>1 DEF TypeOK, Verdicts
        <4> QED
          BY <4>1, <4>2 DEF Fate
      <3> QED
        BY <2>4, <3>1, <3>3, <3>4, OneLearns
    <2> QED
      BY <2>6, <2>7
  <1>5. CASE PumpEnds
    BY <1>5, SameFatesFrom, SameIsNext DEF PumpEnds
  <1>6. CASE PumpAfterQuit
    <2>1. CASE WindowIsOpen /\ ~Gone(flight)
      BY <1>6, <2>1, SameFatesFrom, SameIsNext DEF PumpAfterQuit
    <2>2. CASE ~(WindowIsOpen /\ ~Gone(flight))
      <3>1. /\ flight' = Nobody /\ leavers' = leavers /\ wire' = wire
            /\ \A l \in Calls :
                   call'[l] = IF call[l] = "waiting" /\ l \in Elements(manual) \cup Elements(held)
                              THEN IF Revoked(l) THEN "Refused" ELSE "Disconnected"
                              ELSE call[l]
        BY <1>6, <2>2 DEF PumpAfterQuit, CloseFlight
      <3>2. ASSUME NEW l \in Calls
            PROVE  \/ Fate(l)' = Fate(l)
                   \/ /\ Fate(l) = "waiting"
                      /\ Fate(l)' \in Fates!WithoutSending(l)
        <4>1. l # Nobody /\ (l = flight => call[l] # "waiting")
          BY <2>2, NobodyIsNoCall DEF WindowIsOpen, Gone
        <4>2. CASE call[l] = "waiting" /\ l \in Elements(manual) \cup Elements(held)
          <5>1. l \in Commands /\ l \notin leavers /\ l # flight
            BY <4>1, <4>2, PlaceTypes, NobodyIsNoCall
          <5>2. Fate(l) = "waiting" /\ Fate(l)' \in {"Refused", "Disconnected"}
            BY <3>1, <4>2, <5>1 DEF Fate
          <5> QED
            BY <5>1, <5>2, FateKinds
        <4>3. CASE ~(call[l] = "waiting" /\ l \in Elements(manual) \cup Elements(held))
          BY <3>1, <4>1, <4>3 DEF Fate
        <4> QED
          BY <4>2, <4>3
      <3> QED
        BY <3>1, <3>2, TurnsAway
    <2> QED
      BY <2>1, <2>2
  <1> QED
    BY <1>1, <1>2, <1>3, <1>4, <1>5, <1>6 DEF Pump

LEMMA AnswerOnlyFates ==
    ASSUME TypeOK, TypeOK', ConstantsAssumption, PlaceInv, NEW l \in Calls, Taking(l),
           NEW v \in Verdicts, v \in Fates!WithoutSending(l), AnswerOnly(l, v)
    PROVE  Fates!Next
  <1>1. l # flight /\ l \notin leavers
    BY TakePlaces DEF Taking
  <1>2. call' = Told({l}, v) /\ UNCHANGED <<flight, leavers, wire>>
    BY DEF AnswerOnly, window, exits, game
  <1> QED
    BY <1>1, <1>2, ToldFates, TurnsAway

LEMMA JoinOrWriteQuitFates ==
    ASSUME TypeOK, TypeOK', ConstantsAssumption, PlaceInv, NEW l \in Calls, Taking(l),
           NEW v \in Verdicts, NEW f \in Verdicts, JoinOrWriteQuit(l, v, f),
           v \in Fates!WithoutSending(l), f \in Fates!WithoutSending(l)
    PROVE  Fates!Next
  <1>1. l # flight /\ l \notin leavers /\ Standing(l)
    BY TakePlaces DEF Taking, PlaceInv, Unanswered, Somewhere
  <1>2. CASE ~quitting /\ EndConnection("closed", "Unsent", {l}, f)
    <2>1. leavers = {}
      BY <1>2 DEF PlaceInv, Leaving
    <2> QED
      BY <1>1, <1>2, <2>1, EndFates
  <1>3. CASE ~(~quitting /\ EndConnection("closed", "Unsent", {l}, f))
    <2>1. /\ UNCHANGED <<flight, wire>>
          /\ IF l \in Quits THEN leavers' = leavers \cup {l} /\ UNCHANGED call
             ELSE call' = Told({l}, v) /\ UNCHANGED leavers
      BY <1>3 DEF JoinOrWriteQuit, window, game
    <2>2. CASE l \notin Quits
      BY <1>1, <2>1, <2>2, ToldFates, TurnsAway
    <2>3. CASE l \in Quits /\ call[l] = "gone"
      <3>1. SameFates
        BY <2>1, <2>3 DEF SameFates, Fate
      <3> QED
        BY <2>1, <3>1, SameIsNext
    <2>4. CASE l \in Quits /\ call[l] = "waiting"
      <3>1. Fate(l) = "waiting" /\ Alone(l, "leaving")
        BY <1>1, <2>1, <2>4 DEF Fate, Alone
      <3> QED
        BY <2>1, <2>4, <3>1, OneLearns
    <2> QED
      BY <1>1, <2>2, <2>3, <2>4 DEF Standing
  <1> QED
    BY <1>2, <1>3

LEMMA WriteInstantFates ==
    ASSUME TypeOK, TypeOK', ConstantsAssumption, PlaceInv, NEW i \in Instants, Taking(i),
           Wanted(i), ~quitting, WriteInstant(i)
    PROVE  Fates!Next
  <1>1. i \in Calls
    BY DEF Calls, Lines
  <1>2. i # flight /\ i \notin leavers /\ call[i] = "waiting"
    BY <1>1, TakePlaces DEF Taking, PlaceInv, Unanswered, Somewhere, Standing, Wanted, Gone
  <1>3. CASE WriteFails(i)
    <2>1. PICK end \in {"lost", "closed"} : EndConnection(end, "Unsent", {i}, "Dead")
      BY <1>3 DEF WriteFails
    <2>2. "Dead" \in Verdicts /\ "Dead" \in Fates!WithoutSending(i) /\ leavers = {}
      BY FateKinds DEF Verdicts, PlaceInv, Leaving
    <2> QED
      BY <1>2, <2>1, <2>2, EndFates
  <1>4. CASE ~WriteFails(i)
    <2>1. /\ call' = Told({i}, "Sent") /\ UNCHANGED <<flight, leavers>>
          /\ wire' = Append(wire, i)
      BY <1>4 DEF WriteInstant, window, exits
    <2>2. Fate(i) = "waiting" /\ Alone(i, "Sent")
      BY <1>1, <1>2, <2>1 DEF Told, Fate, Alone
    <2> QED
      BY <1>1, <2>1, <2>2, OneLearns
  <1> QED
    BY <1>3, <1>4

LEMMA TakeMessageFates ==
    ASSUME TypeOK, TypeOK', ConstantsAssumption, PlaceInv, TakeMessage
    PROVE  Fates!Next
  <1>1. PICK l \in Calls : Taking(l)
    <2>1. inbox # <<>> /\ inbox' = Tail(inbox)
      BY DEF TakeMessage, TakeCommand, TakeInstant, TakeQuit
    <2> QED
      BY <2>1, TakePlaces DEF Taking
  <1>2. l = Head(inbox)
    BY <1>1 DEF Taking
  <1>3. {"Handled", "Refused", "Interrupted", "Disconnected", "Dead", "Unsent"} \subseteq Verdicts
    BY DEF Verdicts
  <1>4. ASSUME Ignore PROVE Fates!Next
    BY <1>4, SameFatesFrom, SameIsNext DEF Ignore, window, exits, game
  <1>5. CASE TakeCommand
    <2>1. l \in Commands
      BY <1>2, <1>5 DEF TakeCommand
    <2>2. {"Handled", "Refused", "Interrupted", "Disconnected", "Dead"}
              \subseteq Fates!WithoutSending(l)
      BY <2>1, FateKinds
    <2>3. \/ Ignore
          \/ \E v \in {"Handled", "Refused", "Interrupted", "Disconnected"} : AnswerOnly(l, v)
          \/ JoinOrWriteQuit(l, "Disconnected", "Dead")
          \/ UNCHANGED <<call, flight, leavers, wire>>
      BY <1>2, <1>5 DEF TakeCommand, MistargetedTag, Admit, window, exits, game
    <2>4. ASSUME UNCHANGED <<call, flight, leavers, wire>> PROVE Fates!Next
      BY <2>4, SameFatesFrom, SameIsNext
    <2> QED
      BY <1>1, <1>3, <1>4, <2>2, <2>3, <2>4, AnswerOnlyFates, JoinOrWriteQuitFates
  <1>6. CASE TakeInstant
    <2>1. l \in Instants
      BY <1>2, <1>6 DEF TakeInstant
    <2>2. {"Refused", "Dead"} \subseteq Fates!WithoutSending(l)
      BY <2>1, FateKinds
    <2>3. \/ Ignore
          \/ AnswerOnly(l, "Refused") \/ AnswerOnly(l, "Dead")
          \/ JoinOrWriteQuit(l, "Dead", "Dead")
          \/ Wanted(l) /\ ~quitting /\ WriteInstant(l)
      BY <1>2, <1>6 DEF TakeInstant, MistargetedTag, InstantMayGo
    <2> QED
      BY <1>1, <1>3, <1>4, <2>1, <2>2, <2>3, AnswerOnlyFates, JoinOrWriteQuitFates,
         WriteInstantFates
  <1>7. CASE TakeQuit
    <2>1. JoinOrWriteQuit(l, "Unsent", "Unsent") /\ l \in Quits
      BY <1>2, <1>7 DEF TakeQuit
    <2>2. "Unsent" \in Fates!WithoutSending(l)
      BY <2>1, FateKinds
    <2> QED
      BY <1>1, <1>3, <2>1, <2>2, JoinOrWriteQuitFates
  <1> QED
    BY <1>5, <1>6, <1>7 DEF TakeMessage

LEMMA SweepFates ==
    ASSUME TypeOK, TypeOK', ConstantsAssumption, PlaceInv, Sweep
    PROVE  Fates!Next
  <1>1. PICK l \in Calls : Taking(l)
    <2>1. inbox # <<>> /\ inbox' = Tail(inbox)
      BY DEF Sweep
    <2> QED
      BY <2>1, TakePlaces DEF Taking
  <1> DEFINE v == IF l \in Quits THEN "Unsent"
                  ELSE IF phase = "closed" THEN "Dead"
                  ELSE IF l \in Commands THEN "Disconnected"
                  ELSE "Interrupted"
  <1>2. /\ call' = Told({l}, v) /\ v \in Verdicts
        /\ UNCHANGED <<flight, leavers, wire>>
    BY <1>1 DEF Sweep, Taking, Verdicts, window, exits, game
  <1>3. l # flight /\ l \notin leavers
    BY <1>1, TakePlaces DEF Taking
  <1>4. v \in Fates!WithoutSending(l)
    <2>1. l \in Commands \/ l \in Instants \/ l \in Quits
      BY DEF Calls, Lines
    <2>2. l \in Instants => l \notin Commands /\ l \notin Quits
      BY DEF ConstantsAssumption, Lines
    <2>3. l \in Commands => l \notin Quits
      BY NobodyIsNoCall
    <2> QED
      BY <2>1, <2>2, <2>3, FateKinds
  <1> HIDE DEF v
  <1> QED
    BY <1>2, <1>3, <1>4, ToldFates, TurnsAway

(* The window's line is decided, or its caller has gone.                   *)
LEMMA ResolveFates ==
    ASSUME TypeOK, TypeOK', ConstantsAssumption, PlaceInv, WindowIsOpen,
           NEW at, Resolve(at), UNCHANGED leavers,
           UNCHANGED wire \/ (wire # <<>> /\ wire' = Tail(wire))
    PROVE  Fates!Next
  <1>1. PICK f \in Commands : f = flight
    BY DEF TypeOK, WindowIsOpen
  <1>2. PICK v \in {"Confirmed", "Answered", "Timeout"} : call' = Told({f}, v)
    BY <1>1 DEF Resolve
  <1>3. f \in Calls /\ f \notin leavers /\ f # Nobody /\ flight' = Nobody
    BY <1>1, PlaceTypes, NobodyIsNoCall DEF Resolve, CloseFlight
  <1>4. /\ \A k \in Calls : k # f => Fate(k)' = Fate(k)
        /\ IF call[f] = "waiting" THEN Fate(f) = "sent" /\ Fate(f)' = v
           ELSE Fate(f)' = Fate(f)
    BY <1>1, <1>2, <1>3, NobodyIsNoCall DEF Told, Fate
  <1>5. CASE call[f] = "waiting"
    BY <1>3, <1>4, <1>5, OneLearns DEF Alone
  <1>6. CASE call[f] # "waiting"
    <2>1. SameFates
      BY <1>3, <1>4, <1>6 DEF SameFates
    <2> QED
      BY <2>1, HearsOnly
  <1> QED
    BY <1>5, <1>6

LEMMA SpeechFates ==
    ASSUME TypeOK, TypeOK', ConstantsAssumption, PlaceInv, SpeaksInOrder, Speech
    PROVE  Fates!Next
  <1> USE DEF queues, window, exits
  <1>1. PICK o \in Lines \cup {Game} :
            Text(o) \/ PromptSpent(o) \/ PromptUnclaimed(o) \/ PromptForWindow(o)
    BY DEF Speech
  <1>2. CASE Text(o)
    BY <1>2, SameFatesFrom, SameIsNext DEF Text
  <1>3. ASSUME EndOfReply(o)
        PROVE  UNCHANGED wire \/ (wire # <<>> /\ wire' = Tail(wire))
    BY <1>3, ConstantsAssumption DEF EndOfReply, Speaks, SpeaksInOrder, TypeOK
  <1>4. CASE PromptSpent(o) \/ PromptUnclaimed(o)
    BY <1>3, <1>4, SameFatesFrom, HearsOnly DEF PromptSpent, PromptUnclaimed, EndOfReply
  <1>5. CASE PromptForWindow(o)
    <2>1. EndOfReply(o) /\ WindowIsOpen /\ UNCHANGED leavers
      BY <1>5 DEF PromptForWindow, EndOfReply
    <2>2. CASE Resolve(o)
      BY <1>3, <2>1, <2>2, ResolveFates
    <2>3. CASE UNCHANGED <<call, window>>
      BY <1>3, <2>1, <2>3, SameFatesFrom, HearsOnly
    <2> QED
      BY <1>5, <2>2, <2>3 DEF PromptForWindow
  <1> QED
    BY <1>1, <1>2, <1>4, <1>5

LEMMA FatesStep ==
    ASSUME TypeOK, TypeOK', ConstantsAssumption, PlaceInv, SpeaksInOrder, [Next]_vars
    PROVE  Fates!Next
  <1> USE DEF queues, window, exits, game
  <1>1. CASE UNCHANGED vars
    BY <1>1, SameFatesFrom, SameIsNext DEF vars
  <1>2. CASE Wake \/ LapseAnswer \/ LapsePrompt \/ ReadEnds
    BY <1>2, SameFatesFrom, SameIsNext DEF Wake, LapseAnswer, LapsePrompt, ReadEnds
  <1>3. CASE ExpireWindow
    <2>1. WindowIsOpen
      BY <1>3 DEF ExpireWindow, WindowIsOpen, ConstantsAssumption, Calls, Lines
    <2> QED
      BY <1>3, <2>1, ResolveFates DEF ExpireWindow
  <1>4. CASE PeerEnds \/ Cancel
    <2>1. PICK end \in {"lost", "closed"}, farewell \in {"Acknowledged", "TimedOut"} :
              EndConnection(end, farewell, {}, "Dead")
      BY <1>4 DEF PeerEnds, Cancel
    <2>2. "Dead" \in Verdicts
      BY DEF Verdicts
    <2> QED
      BY <2>1, <2>2, EndFates
  <1> QED
    BY <1>1, <1>2, <1>3, <1>4, CallersFates, PumpFates, TakeMessageFates, SweepFates,
       SpeechFates
    DEF Next

(* What a caller is told is true of its line, on every connection: the     *)
(* inbox, the queue, the window, the ledger, the quit and the end of the   *)
(* connection implement CallFates.                                         *)
THEOREM ImplementsCallFates == Spec => MeetsFates
  <1>1. Init => Fates!Init
    <2> SUFFICES ASSUME Init
                 PROVE  Fates!Init
      OBVIOUS
    <2>1. \A l \in Calls : Fate(l) = "idle"
      BY DEF Init, Fate
    <2>2. [l \in Calls |-> Fate(l)] = [l \in Calls |-> "idle"]
      BY <2>1
    <2> QED
      BY <2>2, FateKinds, ConstantsAssumption DEF Init, Fates!Init
  <1>2. TypeOK /\ TypeOK' /\ PlaceInv /\ SpeaksInOrder /\ [Next]_vars
            => [Fates!Next]_(Fates!vars)
    BY FatesStep, ConstantsAssumption
  <1> QED
    BY <1>1, <1>2, TypeCorrect, PlacesHold, PTL DEF Spec, MeetsFates, Fates!Spec
=============================================================================

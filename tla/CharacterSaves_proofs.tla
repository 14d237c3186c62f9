----------------------- MODULE CharacterSaves_proofs -----------------------
(***************************************************************************)
(* Proofs about CharacterSaves, for any groups of any parts and any bounds, *)
(* whichever writes and whichever readings of the file fail.               *)
(***************************************************************************)
EXTENDS CharacterSaves, SequenceTheorems, TLAPS

FactsSet == [Parts -> [value : 0 .. MaxTruth, sure : BOOLEAN]]
JobSet == [groups : SUBSET Groups, facts : FactsSet]
Open == phase \in {"burst", "playing", "ending"}

(* `new` knows, of each part, at least what `old` does. *)
Covers(new, old) ==
    \A p \in Parts : old[p].value <= new[p].value /\ (old[p].sure => new[p].sure)

Shapes ==
    /\ TypeOK
    /\ jobs \in Seq(JobSet)
    /\ named \in BOOLEAN /\ loaded = named /\ failed \in BOOLEAN /\ unread \in BOOLEAN
    /\ ~named => /\ marks = {} /\ jobs = <<>> /\ (Open => ~unread)
                 /\ \A p \in Parts : live[p].value = 0
    /\ phase = "playing" => named
    /\ ~Open => jobs = <<>>
    /\ phase \in {"ending", "closed"} => marks = {}

(* The file, unless the session could not read it, the saves asked for,     *)
(* oldest first, and the session: each knows at least what the one before   *)
(* it does, and none more than the game.                                    *)
Ordered ==
    /\ \A p \in Parts : disk[p].value <= truth[p] /\ live[p].value <= truth[p]
    /\ Open /\ named /\ ~unread => Covers(live, disk)
    /\ \A i \in DOMAIN jobs :
        /\ ~unread => Covers(jobs[i].facts, disk)
        /\ Covers(live, jobs[i].facts)
        /\ \A j \in i .. Len(jobs) : Covers(jobs[j].facts, jobs[i].facts)

(* What is stamped, or about to be, may be taken for what the stamp says.   *)
Sure ==
    /\ StampIsTrue
    /\ \A i \in DOMAIN jobs : \A g \in jobs[i].groups : Vouched(jobs[i].facts, g)
    /\ \A g \in marks : Vouched(live, g)

(* What is ripe and not marked is in the last save asked for, or in the     *)
(* file.                                                                    *)
Marked ==
    phase \notin {"none", "crashed"} =>
        \A p \in Parts : GroupOf[p] \notin marks /\ Ripe(p) =>
            /\ jobs # <<>> => live[p].value <= jobs[Len(jobs)].facts[p].value
            /\ jobs = <<>> /\ ~failed => live[p].value <= disk[p].value

IInv == Shapes /\ Ordered /\ Sure /\ Marked

LEMMA GroupsOfParts == GroupOf \in [Parts -> Groups]
  BY ConstantsAssumption DEF ConstantsAssumption

(* A group vouched for stays so as more is known. *)
LEMMA VouchedGrows ==
    ASSUME NEW new \in FactsSet, NEW old \in FactsSet, NEW g \in Groups,
           Covers(new, old), Vouched(old, g)
    PROVE  Vouched(new, g)
  <1>1. \E p \in PartsOf(g) : new[p].sure
    BY DEF Covers, Vouched, PartsOf
  <1>2. ASSUME Known(old, g) PROVE Known(new, g)
    <2>1. ASSUME NEW p \in PartsOf(g) PROVE new[p].value # 0
      <3>1. p \in Parts /\ old[p].value # 0 /\ old[p].value \in Nat /\ new[p].value \in Nat
        BY <1>2, <2>1, ConstantsAssumption
           DEF PartsOf, Known, FactsSet, ConstantsAssumption
      <3> QED
        BY <3>1 DEF Covers
    <2> QED
      BY <2>1 DEF Known
  <1> QED
    BY <1>1, <1>2 DEF Vouched

LEMMA InitIInv == ASSUME Init PROVE IInv
  <1>. USE ConstantsAssumption DEF ConstantsAssumption, Init, Unknown, NoStamps, Open
  <1>1. /\ jobs = <<>> /\ DOMAIN jobs = {}
        /\ jobs \in Seq(JobSet)
    OBVIOUS
  <1>2. Shapes
    <2>1. TypeOK
      BY <1>1 DEF TypeOK
    <2> QED
      BY <1>1, <2>1 DEF Shapes
  <1>3. Ordered
    BY <1>1 DEF Ordered, Covers
  <1>4. Sure
    BY <1>1 DEF Sure, StampIsTrue
  <1>5. Marked
    BY <1>1 DEF Marked
  <1> QED
    BY <1>2, <1>3, <1>4, <1>5 DEF IInv

(* The queue without its oldest save. *)
LEMMA WithoutFirst ==
    ASSUME jobs \in Seq(JobSet), 1 \in DOMAIN jobs
    PROVE  /\ WithoutJob(1) \in Seq(JobSet)
           /\ Len(WithoutJob(1)) = Len(jobs) - 1
           /\ \A i \in 1 .. Len(jobs) - 1 : WithoutJob(1)[i] = jobs[i + 1]
  <1>1. Len(jobs) \in Nat /\ Len(jobs) >= 1 /\ DOMAIN jobs = 1 .. Len(jobs)
    BY LenProperties
  <1>2. SubSeq(jobs, 1, 0) = <<>>
    BY <1>1, SubSeqProperties
  <1> DEFINE rest == SubSeq(jobs, 2, Len(jobs))
  <1>3. /\ rest \in Seq(JobSet) /\ Len(rest) = Len(jobs) - 1
        /\ \A i \in 1 .. Len(jobs) - 1 : rest[i] = jobs[i + 1]
    BY <1>1, SubSeqProperties
  <1>4. <<>> \o rest = rest
    BY <1>3, ConcatEmptySeq
  <1> QED
    BY <1>2, <1>3, <1>4 DEF WithoutJob

(* What an actor asks for at the end of the queue. *)
LEMMA JobIsAJob == ASSUME IInv PROVE Job \in JobSet
  BY DEF IInv, Shapes, TypeOK, Job, JobSet, FactsSet

LEMMA OneMore ==
    ASSUME jobs \in Seq(JobSet), Job \in JobSet, jobs' = Append(jobs, Job)
    PROVE  /\ jobs' \in Seq(JobSet) /\ Len(jobs') = Len(jobs) + 1
           /\ DOMAIN jobs' = 1 .. Len(jobs) + 1
           /\ \A i \in 1 .. Len(jobs) : jobs'[i] = jobs[i]
           /\ jobs'[Len(jobs) + 1] = Job
           /\ Len(jobs) \in Nat /\ DOMAIN jobs = 1 .. Len(jobs) /\ jobs' # <<>>
  OBVIOUS

LEMMA CoversItself ==
    ASSUME IInv PROVE Covers(live, live)
  BY ConstantsAssumption DEF IInv, Shapes, TypeOK, Covers, ConstantsAssumption

(* A step that leaves the facts alone, wherever they are. *)
LEMMA FactsStay ==
    ASSUME IInv, UNCHANGED <<truth, file, live, marks, jobs, named, loaded, failed,
                             unread, carried>>,
           TypeOK', Open' => Open, phase' = "playing" => named,
           phase' \in {"ending", "closed"} => marks = {}, ~Open' => jobs = <<>>,
           phase' \notin {"none", "crashed"} => phase \notin {"none", "crashed"}
    PROVE  IInv'
  <1>. USE DEF IInv, file
  <1>1. Shapes'
    BY DEF Shapes
  <1>2. Ordered'
    BY DEF Ordered, Covers
  <1>3. Sure'
    BY DEF Sure, StampIsTrue, Vouched, Known, PartsOf
  <1>4. Marked'
    BY DEF Marked, Ripe, Known, PartsOf
  <1> QED
    BY <1>1, <1>2, <1>3, <1>4

(* The save an actor asks for, at its timer or at its end, knows at least   *)
(* what every save before it does, and exactly what the session does.       *)
LEMMA SaveKeeps ==
    ASSUME IInv, Up, SaveCharacter,
           UNCHANGED <<truth, file, connection, named, loaded, live, readings, history>>,
           phase' \in {phase, "ending"}
    PROVE  IInv'
  <1>. USE DEF IInv, file, history
  <1>1. Open /\ Open' /\ phase' \in {"burst", "playing", "ending"}
    BY DEF Up, Open
  <1>2. CASE marks = {} \/ ~named
    <2>1. marks = {} /\ marks' = {} /\ jobs' = jobs /\ timer' = "off"
      BY <1>2 DEF SaveCharacter, Shapes
    <2>2. TypeOK'
      BY <2>1, <1>1 DEF Shapes, TypeOK
    <2>3. phase' = "playing" => named
      BY DEF Shapes, Up
    <2> QED
      BY <1>1, <2>1, <2>2, <2>3, FactsStay DEF Open, Up
  <1>3. CASE marks # {} /\ named
    <2>1. marks' = {} /\ jobs' = Append(jobs, Job) /\ timer' = "off"
      BY <1>3 DEF SaveCharacter
    <2>2. jobs \in Seq(JobSet)
      BY DEF Shapes
    <2>3. /\ jobs' \in Seq(JobSet) /\ Len(jobs') = Len(jobs) + 1
          /\ DOMAIN jobs' = 1 .. Len(jobs) + 1
          /\ \A i \in 1 .. Len(jobs) : jobs'[i] = jobs[i]
          /\ jobs'[Len(jobs) + 1] = Job
          /\ Len(jobs) \in Nat /\ DOMAIN jobs = 1 .. Len(jobs) /\ jobs' # <<>>
      BY <2>1, <2>2, JobIsAJob, OneMore
    <2>4. Job.groups = marks /\ Job.facts = live
      BY DEF Job
    <2>5. TypeOK'
      <3>1. ASSUME NEW i \in DOMAIN jobs' PROVE jobs'[i].groups # {}
        <4>1. CASE i = Len(jobs) + 1
          BY <4>1, <1>3, <2>3, <2>4
        <4>2. CASE i \in 1 .. Len(jobs)
          BY <4>2, <2>3 DEF Shapes, TypeOK
        <4> QED
          BY <4>1, <4>2, <2>3
      <3>2. \A i \in DOMAIN jobs' : jobs'[i].groups # {}
        BY <3>1
      <3> HIDE DEF IInv
      <3>3. TypeOK /\ UNCHANGED <<truth, disk, stamps, live, carried>>
        BY DEF IInv, Shapes
      <3> QED
        BY <1>1, <2>1, <3>2, <3>3 DEF TypeOK
    <2>6. Shapes'
      BY <1>1, <1>3, <2>1, <2>3, <2>5 DEF Shapes
    <2>7. Ordered'
      <3>1. Covers(live, live) /\ (~unread => Covers(live, disk))
        BY CoversItself, <1>1, <1>3 DEF Ordered
      <3>2. ASSUME NEW i \in DOMAIN jobs'
            PROVE  /\ ~unread => Covers(jobs'[i].facts, disk)
                   /\ Covers(live, jobs'[i].facts)
                   /\ \A j \in i .. Len(jobs') : Covers(jobs'[j].facts, jobs'[i].facts)
        <4>1. CASE i = Len(jobs) + 1
          <5>1. jobs'[i].facts = live
            BY <4>1, <2>3, <2>4
          <5>2. \A j \in i .. Len(jobs') : j = i
            BY <4>1, <2>3
          <5> QED
            BY <3>1, <5>1, <5>2
        <4>2. CASE i \in 1 .. Len(jobs)
          <5>1. /\ ~unread => Covers(jobs[i].facts, disk)
                /\ Covers(live, jobs[i].facts)
                /\ \A j \in i .. Len(jobs) : Covers(jobs[j].facts, jobs[i].facts)
            BY <4>2, <2>3 DEF Ordered
          <5>2. ASSUME NEW j \in i .. Len(jobs')
                PROVE  Covers(jobs'[j].facts, jobs[i].facts)
            <6>1. CASE j = Len(jobs) + 1
              BY <5>1, <6>1, <2>3, <2>4
            <6>2. CASE j \in i .. Len(jobs)
              BY <5>1, <6>2, <2>3, <4>2
            <6> QED
              BY <6>1, <6>2, <2>3, <4>2
          <5> QED
            BY <5>1, <5>2, <4>2, <2>3
        <4> QED
          BY <4>1, <4>2, <2>3
      <3>3. UNCHANGED <<truth, disk, live, unread, named>>
        OBVIOUS
      <3>4. \A p \in Parts : disk[p].value <= truth[p] /\ live[p].value <= truth[p]
        BY DEF Ordered
      <3> HIDE DEF IInv
      <3> QED
        BY <3>1, <3>2, <3>3, <3>4 DEF Ordered, Covers
    <2>8. Sure'
      <3>1. ASSUME NEW i \in DOMAIN jobs', NEW g \in jobs'[i].groups
            PROVE  Vouched(jobs'[i].facts, g)
        <4>1. CASE i = Len(jobs) + 1
          BY <3>1, <4>1, <2>3, <2>4 DEF Sure
        <4>2. CASE i \in 1 .. Len(jobs)
          BY <3>1, <4>2, <2>3 DEF Sure
        <4> QED
          BY <4>1, <4>2, <2>3
      <3>2. StampIsTrue'
        BY DEF Sure, StampIsTrue, Vouched, Known, PartsOf
      <3> HIDE DEF IInv
      <3> QED
        BY <2>1, <3>1, <3>2 DEF Sure, Vouched, Known, PartsOf
    <2>9. Marked'
      <3>1. \A p \in Parts : live[p].value <= live[p].value
        BY CoversItself DEF Covers
      <3>2. jobs'[Len(jobs')].facts = live
        BY <2>3, <2>4
      <3> QED
        BY <3>1, <3>2, <2>3 DEF Marked
    <2> QED
      BY <2>6, <2>7, <2>8, <2>9
  <1> QED
    BY <1>2, <1>3

LEMMA Bound == MaxTruth \in Nat \ {0}
  BY ConstantsAssumption DEF ConstantsAssumption

LEMMA EmptyDomain == DOMAIN <<>> = {}
  OBVIOUS

(* A session starts with no save asked for, and forgets. *)
LEMMA StartKeeps == ASSUME IInv, Start PROVE IInv'
  <1>. USE DEF IInv, Start, Unknown, file
  <1>1. jobs = <<>> /\ jobs' = <<>> /\ DOMAIN jobs' = {}
    BY EmptyDomain DEF Shapes, Open
  <1>2. TypeOK'
    <2>1. live' \in [Parts -> [value : 0 .. MaxTruth, sure : BOOLEAN]]
      BY Bound
    <2> QED
      BY <1>1, <2>1 DEF Shapes, TypeOK
  <1>3. Shapes'
    BY <1>1, <1>2 DEF Shapes, Open
  <1>4. Ordered'
    <2>1. \A p \in Parts : live'[p].value = 0 /\ truth'[p] >= 0
      BY DEF Shapes, TypeOK
    <2> QED
      BY <1>1, <2>1 DEF Ordered
  <1>5. Sure'
    BY <1>1 DEF Sure, StampIsTrue, Vouched, Known, PartsOf
  <1>6. Marked'
    <2>1. \A p \in Parts : live'[p].value = 0 /\ disk'[p].value >= 0
      BY DEF Shapes, TypeOK
    <2> QED
      BY <1>1, <2>1 DEF Marked
  <1> QED
    BY <1>3, <1>4, <1>5, <1>6

(* The naming reads the store only where nothing is known yet; where it     *)
(* cannot, the session goes on knowing nothing.                             *)
LEMMA NameKeeps == ASSUME IInv, Name PROVE IInv'
  <1>. USE DEF IInv, Name, file
  <1>1. CASE loaded
    <2>1. named /\ UNCHANGED <<loaded, live, unread, named>>
      BY <1>1 DEF LoadStored, Shapes
    <2>2. TypeOK'
      BY <2>1 DEF Shapes, TypeOK
    <2> QED
      BY <2>1, <2>2, FactsStay DEF Open
  <1>2. CASE ~loaded
    <2>1. /\ loaded' = TRUE /\ ~named /\ ~unread /\ marks = {} /\ marks' = {}
          /\ jobs = <<>> /\ jobs' = <<>> /\ DOMAIN jobs' = {}
          /\ \A p \in Parts : live[p].value = 0
      BY <1>2, EmptyDomain DEF LoadStored, Shapes, Open
    <2>2. (live' = disk /\ unread' = FALSE) \/ (live' = live /\ unread' = TRUE)
      BY <1>2, <2>1 DEF LoadStored
    <2>3. TypeOK'
      BY <2>1, <2>2 DEF Shapes, TypeOK
    <2>4. Shapes'
      BY <2>1, <2>2, <2>3 DEF Shapes, Open
    <2>5. \A p \in Parts : live'[p].value \in Nat /\ disk[p].value \in Nat /\ truth[p] \in Nat
      BY <2>3, Bound DEF Shapes, TypeOK
    <2>6. Ordered'
      BY <2>1, <2>2, <2>5 DEF Ordered, Covers
    <2>7. Sure'
      BY <2>1 DEF Sure, StampIsTrue, Vouched, Known, PartsOf
    <2>8. Marked'
      BY <2>1, <2>2, <2>5 DEF Marked
    <2> QED
      BY <2>4, <2>6, <2>7, <2>8
  <1> QED
    BY <1>1, <1>2

(* The game moves on its own. *)
LEMMA ChangeKeeps == ASSUME IInv, NEW p \in Parts, Change(p) PROVE IInv'
  <1>. USE DEF IInv, Change, session, history, file
  <1>1. truth' \in [Parts -> 1 .. MaxTruth]
    BY ConstantsAssumption DEF Shapes, TypeOK, ConstantsAssumption
  <1>2. Shapes'
    BY <1>1 DEF Shapes, TypeOK, Open
  <1>3. \A q \in Parts : truth[q] <= truth'[q] /\ truth[q] \in Int /\ truth'[q] \in Int
    BY <1>1 DEF Shapes, TypeOK
  <1>4. \A q \in Parts : disk[q].value \in Int /\ live[q].value \in Int
    BY DEF Shapes, TypeOK
  <1>5. Ordered'
    BY <1>3, <1>4 DEF Ordered, Covers, Open
  <1>6. Sure'
    BY DEF Sure, StampIsTrue, Vouched, Known, PartsOf
  <1>7. Marked'
    BY DEF Marked, Ripe, Known, PartsOf
  <1> QED
    BY <1>2, <1>5, <1>6, <1>7

LEMMA QuietKeeps == ASSUME IInv, QuietPasses PROVE IInv'
  <1>1. TypeOK'
    BY DEF IInv, QuietPasses, Shapes, TypeOK, file, history
  <1> QED
    BY <1>1, FactsStay DEF IInv, Shapes, QuietPasses, file, history, Open

(* A reading only raises what is known: the saves asked for stay behind it, *)
(* what makes a group ripe marks it, and what is marked can be vouched for. *)
LEMMA ReadKeeps == ASSUME IInv, NEW q \in Parts, Read(q) PROVE IInv'
  <1>. USE DEF IInv, Read, file, history
  <1>1. named /\ Open /\ Open' /\ phase' = "playing"
    BY DEF Shapes, Open
  <1>2. live' \in FactsSet /\ live \in FactsSet
    BY Bound DEF Shapes, TypeOK, FactsSet
  <1>3. marks' \subseteq Groups /\ timer' \in {"off", "armed", "due"}
    <2>1. GroupOf[q] \in Groups
      BY GroupsOfParts
    <2>2. marks \subseteq Groups /\ timer \in {"off", "armed", "due"}
      BY DEF Shapes, TypeOK
    <2>3. \/ marks' = marks \cup {GroupOf[q]} /\ timer' = "armed"
          \/ marks' = marks /\ timer' = timer
      BY DEF TimerOnceMarked
    <2> HIDE DEF IInv, Read
    <2> QED
      BY <2>1, <2>2, <2>3
  <1>4. TypeOK'
    BY <1>1, <1>2, <1>3 DEF Shapes, TypeOK, FactsSet
  <1>5. Shapes'
    BY <1>1, <1>4 DEF Shapes
  <1>6. /\ live'[q].value = truth[q] /\ live'[q].sure /\ truth[q] # 0
        /\ \A p \in Parts : p # q => live'[p] = live[p]
    BY DEF Shapes, TypeOK
  <1>7. \A p \in Parts : live[p].value \in Int /\ truth[p] \in Int /\ disk[p].value \in Int
    BY DEF Shapes, TypeOK
  <1>8. \A p \in Parts : live[p].value <= live'[p].value /\ (live[p].sure => live'[p].sure)
    BY <1>6, <1>7 DEF Ordered
  <1>9. ASSUME NEW old, Covers(live, old), \A p \in Parts : old[p].value \in Int
        PROVE  Covers(live', old)
    <2>1. \A p \in Parts : live'[p].value \in Int
      BY <1>2 DEF FactsSet
    <2> QED
      BY <1>7, <1>8, <1>9, <2>1 DEF Covers
  <1>10. Ordered'
    <2>1. \A p \in Parts : live'[p].value <= truth'[p] /\ disk'[p].value <= truth'[p]
      BY <1>6, <1>7 DEF Ordered
    <2>2. ~unread => Covers(live', disk)
      BY <1>1, <1>7, <1>9 DEF Ordered
    <2>3. ASSUME NEW i \in DOMAIN jobs PROVE Covers(live', jobs[i].facts)
      <3>1. jobs[i] \in JobSet
        BY DEF Shapes
      <3>2. \A p \in Parts : jobs[i].facts[p].value \in Int
        BY <3>1 DEF JobSet, FactsSet
      <3> QED
        BY <1>9, <3>2 DEF Ordered
    <2>4. Ordered /\ UNCHANGED <<jobs, disk, unread>>
      OBVIOUS
    <2> HIDE DEF IInv, Read
    <2> QED
      BY <2>1, <2>2, <2>3, <2>4 DEF Ordered, Covers
  <1>11. Sure'
    <2>1. ASSUME NEW g \in marks' PROVE Vouched(live', g)
      <3>1. CASE g \in marks
        BY <3>1, <1>2, <1>8, VouchedGrows DEF Sure, Shapes, TypeOK, Covers
      <3>2. CASE g \notin marks
        <4>1. g = GroupOf[q] /\ Taught(q)
          BY <2>1, <3>2
        <4>2. q \in PartsOf(g)
          BY <4>1 DEF PartsOf
        <4>3. g \notin Compared => Known(live', g)
          BY <4>1, <1>6 DEF Taught, Known, PartsOf
        <4> QED
          BY <4>2, <4>3, <1>6 DEF Vouched
      <3> QED
        BY <3>1, <3>2
    <2>2. UNCHANGED <<jobs, disk, stamps, carried>> /\ Sure
      OBVIOUS
    <2> HIDE DEF IInv, Read
    <2> QED
      BY <2>1, <2>2 DEF Sure, StampIsTrue, Vouched, Known, PartsOf
  <1>12. Marked'
    <2>1. ASSUME NEW p \in Parts, GroupOf[p] \notin marks', Ripe(p)'
          PROVE  live'[p].value = live[p].value /\ Ripe(p) /\ GroupOf[p] \notin marks
      <3>1. GroupOf[p] \notin marks
        BY <2>1
      <3>2. CASE GroupOf[p] # GroupOf[q]
        BY <2>1, <3>1, <3>2, <1>6 DEF Ripe, Known, PartsOf
      <3>3. CASE GroupOf[p] = GroupOf[q]
        <4>1. ~Taught(q)
          BY <2>1, <3>3
        <4>2. CASE GroupOf[q] \in Compared
          BY <4>1, <4>2, <3>1, <3>3, <1>6 DEF Taught, Ripe
        <4>3. CASE GroupOf[q] \notin Compared
          <5>1. PICK r \in PartsOf(GroupOf[q]) : r # q /\ live[r].value = 0
            BY <4>1, <4>3 DEF Taught
          <5>2. ~Known(live', GroupOf[q])
            BY <5>1, <1>6 DEF Known, PartsOf
          <5> QED
            BY <5>2, <4>3, <3>3, <2>1 DEF Ripe, Known, PartsOf
        <4> QED
          BY <4>2, <4>3
      <3> QED
        BY <3>2, <3>3
    <2> QED
      BY <2>1, <1>1 DEF Marked
  <1> QED
    BY <1>5, <1>10, <1>11, <1>12

(* A save made: the file moves up to the oldest save asked for, which every *)
(* later one, and the session, covers.                                      *)
LEMMA MakeSaveKeeps == ASSUME IInv, NEW i \in DOMAIN jobs, MakeSave(i) PROVE IInv'
  <1>. USE DEF IInv
  <1>1. i = 1 /\ 1 \in DOMAIN jobs /\ jobs \in Seq(JobSet) /\ jobs # <<>>
    BY DEF MakeSave, MayBeMade, Shapes
  <1>2. /\ jobs' = WithoutJob(1)
        /\ UNCHANGED <<truth, phase, connection, named, loaded, live, marks, timer,
                       readings, sessions>>
    BY <1>1 DEF MakeSave
  <1>3. /\ jobs' \in Seq(JobSet) /\ Len(jobs') = Len(jobs) - 1
        /\ \A k \in 1 .. Len(jobs) - 1 : jobs'[k] = jobs[k + 1]
    BY <1>1, <1>2, WithoutFirst
  <1>4. Len(jobs) \in Nat /\ DOMAIN jobs = 1 .. Len(jobs) /\ DOMAIN jobs' = 1 .. Len(jobs) - 1
    BY <1>1, <1>3
  <1>5. Open /\ Open' /\ named
    BY <1>1, <1>2 DEF Shapes, Open
  <1>6. jobs[1] \in JobSet /\ jobs[1].facts \in FactsSet
    <2>1. jobs[1] \in JobSet
      BY <1>1
    <2> QED
      BY <2>1 DEF JobSet
  <1>7. \A k \in DOMAIN jobs' : jobs'[k] = jobs[k + 1] /\ k + 1 \in DOMAIN jobs /\ k \in Nat
    BY <1>3, <1>4
  <1>8. \A k \in DOMAIN jobs' : jobs'[k].groups # {}
    BY <1>7 DEF Shapes, TypeOK
  <1>9. ASSUME NEW k \in DOMAIN jobs'
        PROVE  /\ ~unread => Covers(jobs'[k].facts, disk)
               /\ Covers(jobs'[k].facts, jobs[1].facts)
               /\ Covers(live, jobs'[k].facts)
               /\ \A j \in k .. Len(jobs') : Covers(jobs'[j].facts, jobs'[k].facts)
    <2>1. /\ ~unread => Covers(jobs[k + 1].facts, disk)
          /\ Covers(live, jobs[k + 1].facts)
          /\ \A j \in k + 1 .. Len(jobs) : Covers(jobs[j].facts, jobs[k + 1].facts)
      BY <1>7 DEF Ordered
    <2>2. Covers(jobs[k + 1].facts, jobs[1].facts)
      BY <1>1, <1>4, <1>7 DEF Ordered
    <2>3. ASSUME NEW j \in k .. Len(jobs')
          PROVE  jobs'[j] = jobs[j + 1] /\ j + 1 \in k + 1 .. Len(jobs)
      BY <1>3, <1>4, <1>7
    <2> QED
      BY <1>7, <2>1, <2>2, <2>3
  <1>10. ASSUME NEW k \in DOMAIN jobs', NEW g \in jobs'[k].groups
         PROVE  Vouched(jobs'[k].facts, g)
    BY <1>7, <1>10 DEF Sure
  <1>11. ASSUME jobs' # <<>> PROVE jobs'[Len(jobs')] = jobs[Len(jobs)]
    <2>1. Len(jobs') \in 1 .. Len(jobs) - 1
      BY <1>11, <1>3, <1>4, EmptySeq
    <2> QED
      BY <2>1, <1>3, <1>4
  <1>12. phase \notin {"none", "crashed"}
    BY <1>5 DEF Open
  <1>13. CASE failed' # TRUE
    <2>1. PICK stored \in {stamps, NoStamps} :
             /\ stamps' = Stamped(jobs[1], stored)
             /\ carried' = CarriedOver(jobs[1], stored)
      BY <1>1, <1>13 DEF MakeSave
    <2>2. disk' = jobs[1].facts /\ failed' = FALSE /\ unread' = FALSE
      BY <1>1, <1>13 DEF MakeSave
    <2>3. /\ stamps' \in [Groups -> {"none", "old", "fresh"}]
          /\ \A g \in Groups : stored[g] \in {"none", stamps[g]}
      BY <2>1 DEF Stamped, NoStamps, Shapes, TypeOK
    <2>4. \A p \in Parts : /\ disk'[p].value \in Int /\ disk[p].value \in Int
                          /\ live[p].value \in Int /\ truth[p] \in Int
      BY <1>6, <2>2 DEF Shapes, TypeOK, FactsSet
    <2>5. TypeOK'
      BY <1>2, <1>6, <1>8, <2>1, <2>2, <2>3 DEF Shapes, TypeOK, FactsSet, CarriedOver
    <2>6. Shapes'
      BY <1>2, <1>3, <1>5, <2>2, <2>5 DEF Shapes
    <2>7. Covers(live, jobs[1].facts)
      BY <1>1 DEF Ordered
    <2>8. Ordered'
      <3>1. \A p \in Parts : disk'[p].value <= truth[p] /\ live[p].value <= truth[p]
        BY <2>2, <2>4, <2>7 DEF Ordered, Covers
      <3>2. Covers(live, disk') /\ \A k \in DOMAIN jobs' : Covers(jobs'[k].facts, disk')
        BY <2>2, <2>7, <1>9
      <3> HIDE DEF IInv
      <3>3. live' = live /\ truth' = truth
        BY <1>2
      <3> QED
        BY <3>1, <3>2, <3>3, <1>9 DEF Ordered, Covers
    <2>9. StampIsTrue'
      <3>1. ASSUME NEW g \in Groups \ carried', stamps'[g] = "fresh" PROVE Vouched(disk', g)
        <4>1. CASE g \in jobs[1].groups
          BY <4>1, <1>1, <2>2 DEF Sure
        <4>2. CASE g \notin jobs[1].groups
          <5>1. stored[g] = "fresh" /\ stamps[g] = "fresh"
            BY <3>1, <4>2, <2>1, <2>3 DEF Stamped
          <5>2. ~unread /\ g \notin carried
            BY <3>1, <4>2, <5>1, <2>1 DEF CarriedOver
          <5>3. Vouched(disk, g)
            BY <5>1, <5>2 DEF Sure, StampIsTrue
          <5>4. Covers(jobs[1].facts, disk) /\ disk \in FactsSet
            BY <5>2, <1>1 DEF Ordered, Shapes, TypeOK, FactsSet
          <5> QED
            BY <5>3, <5>4, <1>6, <2>2, VouchedGrows
        <4> QED
          BY <4>1, <4>2
      <3> HIDE DEF IInv
      <3> QED
        BY <3>1 DEF StampIsTrue, Vouched, Known, PartsOf
    <2>10. Sure'
      <3>1. \A g \in marks : Vouched(live, g)
        BY DEF Sure
      <3> HIDE DEF IInv
      <3> QED
        BY <2>9, <3>1, <1>2, <1>10 DEF Sure, Vouched, Known, PartsOf
    <2>11. Marked'
      <3>1. ASSUME NEW p \in Parts, GroupOf[p] \notin marks, Ripe(p)
            PROVE  /\ jobs' # <<>> => live[p].value <= jobs'[Len(jobs')].facts[p].value
                   /\ jobs' = <<>> => live[p].value <= disk'[p].value
        <4>1. live[p].value <= jobs[Len(jobs)].facts[p].value
          BY <3>1, <1>1, <1>12 DEF Marked
        <4>2. jobs' = <<>> => Len(jobs) = 1
          BY <1>3, <1>4
        <4> QED
          BY <4>1, <4>2, <1>11, <2>2
      <3> HIDE DEF IInv
      <3> QED
        BY <3>1, <1>2 DEF Marked, Ripe, Known, PartsOf
    <2> QED
      BY <2>6, <2>8, <2>10, <2>11
  <1>14. CASE failed' = TRUE
    <2>1. UNCHANGED <<disk, stamps, unread, carried>>
      BY <1>1, <1>14 DEF MakeSave, file
    <2>2. TypeOK'
      BY <1>2, <1>8, <2>1 DEF Shapes, TypeOK
    <2>3. Shapes'
      BY <1>2, <1>3, <1>5, <1>14, <2>1, <2>2 DEF Shapes
    <2>4. Ordered'
      <3>1. /\ ~unread => Covers(live, disk)
            /\ \A p \in Parts : disk[p].value <= truth[p] /\ live[p].value <= truth[p]
        BY <1>5 DEF Ordered
      <3> HIDE DEF IInv
      <3> QED
        BY <3>1, <1>2, <1>9, <2>1 DEF Ordered, Covers
    <2>5. Sure'
      <3>1. StampIsTrue /\ \A g \in marks : Vouched(live, g)
        BY DEF Sure
      <3> HIDE DEF IInv
      <3> QED
        BY <3>1, <1>2, <1>10, <2>1 DEF Sure, StampIsTrue, Vouched, Known, PartsOf
    <2>6. Marked'
      <3>1. ASSUME NEW p \in Parts, GroupOf[p] \notin marks, Ripe(p), jobs' # <<>>
            PROVE  live[p].value <= jobs'[Len(jobs')].facts[p].value
        BY <3>1, <1>1, <1>11, <1>12 DEF Marked
      <3> HIDE DEF IInv
      <3> QED
        BY <3>1, <1>2, <1>14 DEF Marked, Ripe, Known, PartsOf
    <2> QED
      BY <2>3, <2>4, <2>5, <2>6
  <1> QED
    BY <1>13, <1>14

LEMMA CloseKeeps == ASSUME IInv, Close PROVE IInv'
  <1>1. TypeOK' /\ UNCHANGED <<unread, failed, carried>>
    BY DEF IInv, Close, Shapes, TypeOK, file, history
  <1> QED
    BY <1>1, FactsStay DEF IInv, Shapes, Close, MayClose, file, history, Open

(* A new connection of the session: what was marked was saved at the end of *)
(* the last one, and a named session does not read the store again.         *)
LEMMA ReconnectKeeps == ASSUME IInv, Reconnect PROVE IInv'
  <1>1. TypeOK' /\ UNCHANGED <<unread, failed, carried>>
    BY DEF IInv, Reconnect, Shapes, TypeOK, file, history
  <1>2. marks' = marks /\ loaded' = loaded
    BY DEF IInv, Reconnect, Shapes, LoadedOnceReconnected
  <1> QED
    BY <1>1, <1>2, FactsStay DEF IInv, Shapes, Reconnect, file, history, Open

LEMMA CrashKeeps == ASSUME IInv, Crash PROVE IInv'
  <1>. USE DEF IInv, Crash, file, history
  <1>1. jobs' = <<>> /\ DOMAIN jobs' = {} /\ jobs' \in Seq(JobSet)
    BY EmptyDomain
  <1>2. TypeOK'
    BY <1>1 DEF Shapes, TypeOK
  <1>3. Shapes'
    BY <1>1, <1>2 DEF Shapes, Open
  <1>4. Ordered'
    BY <1>1 DEF Ordered, Open
  <1>5. Sure'
    BY <1>1 DEF Sure, StampIsTrue, Vouched, Known, PartsOf
  <1>6. Marked'
    BY DEF Marked
  <1> QED
    BY <1>3, <1>4, <1>5, <1>6

LEMMA AgeLeavesValues ==
    ASSUME IInv, Age
    PROVE  /\ \A p \in Parts : /\ live'[p].value = live[p].value /\ ~live'[p].sure
                              /\ disk'[p].value = disk[p].value /\ ~disk'[p].sure
           /\ \A g \in Groups : stamps'[g] # "fresh"
  BY DEF IInv, Shapes, TypeOK, Age, Unsure

LEMMA AgeKeeps == ASSUME IInv, Age PROVE IInv'
  <1>. USE DEF IInv, Age
  <1>1. jobs = <<>> /\ jobs' = <<>> /\ DOMAIN jobs' = {} /\ marks' = {} /\ marks = {}
    BY EmptyDomain
  <1>2. live' \in FactsSet /\ disk' \in FactsSet
    BY DEF Shapes, TypeOK, Unsure, FactsSet
  <1>3. stamps' \in [Groups -> {"none", "old", "fresh"}]
    BY DEF Shapes, TypeOK
  <1>4. TypeOK'
    BY <1>1, <1>2, <1>3 DEF Shapes, TypeOK, FactsSet
  <1>5. \A p \in Parts : live[p].value = 0 => live'[p].value = 0
    BY AgeLeavesValues
  <1>6. Shapes'
    BY <1>1, <1>4, <1>5 DEF Shapes, Open
  <1>7. Ordered /\ Marked /\ UNCHANGED <<truth, phase, named, failed, unread, marks>>
    BY <1>1
  <1>8. /\ \A p \in Parts : /\ live'[p].value = live[p].value /\ ~live'[p].sure
                           /\ disk'[p].value = disk[p].value /\ ~disk'[p].sure
        /\ \A g \in Groups : stamps'[g] # "fresh"
    BY AgeLeavesValues
  <1> HIDE DEF IInv, Age
  <1>9. Ordered'
    BY <1>1, <1>7, <1>8 DEF Ordered, Covers, Open
  <1>10. Sure'
    BY <1>1, <1>8 DEF Sure, StampIsTrue
  <1>11. Marked'
    BY <1>1, <1>7, <1>8 DEF Marked, Ripe, Known, PartsOf
  <1> QED
    BY <1>6, <1>9, <1>10, <1>11 DEF IInv

LEMMA StepKeeps == ASSUME IInv, [Next]_vars PROVE IInv'
  <1>1. CASE Start
    BY <1>1, StartKeeps
  <1>2. CASE Name
    BY <1>2, NameKeeps
  <1>3. CASE QuietPasses
    BY <1>3, QuietKeeps
  <1>4. CASE Due
    BY <1>4, SaveKeeps DEF Due
  <1>5. ASSUME NEW p \in Moving, Change(p) PROVE IInv'
    BY <1>5, ChangeKeeps, ConstantsAssumption DEF ConstantsAssumption
  <1>6. ASSUME NEW p \in Parts, Read(p) PROVE IInv'
    BY <1>6, ReadKeeps
  <1>7. ASSUME NEW i \in DOMAIN jobs, MakeSave(i) PROVE IInv'
    BY <1>7, MakeSaveKeeps
  <1>8. CASE End
    BY <1>8, SaveKeeps DEF End
  <1>9. CASE Close
    BY <1>9, CloseKeeps
  <1>10. CASE Reconnect
    BY <1>10, ReconnectKeeps
  <1>11. CASE Crash
    BY <1>11, CrashKeeps
  <1>12. CASE Age
    BY <1>12, AgeKeeps
  <1>13. CASE UNCHANGED vars
    <2>1. UNCHANGED <<truth, file, phase, named, loaded, live, marks, timer, jobs,
                      failed, unread, carried>>
      BY <1>13 DEF vars, session, history
    <2>2. TypeOK'
      BY <2>1 DEF IInv, Shapes, TypeOK, file
    <2> QED
      BY <2>1, <2>2, FactsStay DEF IInv, Shapes, Open
  <1> QED
    BY <1>1, <1>2, <1>3, <1>4, <1>5, <1>6, <1>7, <1>8, <1>9, <1>10, <1>11, <1>12,
       <1>13 DEF Next

LEMMA Invariant == Spec => []IInv
  BY InitIInv, StepKeeps, PTL DEF Spec

-----------------------------------------------------------------------------
(* Every variable is what it is declared to be. *)
THEOREM TypeCorrect == Spec => []TypeOK
  <1>1. IInv => TypeOK
    BY DEF IInv, Shapes
  <1> QED
    BY <1>1, Invariant, PTL

(* A fresh stamp on disk: something of its group was read within MAX_STALE, *)
(* and nothing of it is unknown unless any part marks it; but for a stamp   *)
(* carried over by a session that could not read the file.                  *)
THEOREM StampsAreTrue == Spec => []StampIsTrue
  <1>1. IInv => StampIsTrue
    BY DEF IInv, Sure
  <1> QED
    BY <1>1, Invariant, PTL

(* A session that ended, its last save not lost, left on disk all it knew   *)
(* of the parts that its readings mark.                                     *)
THEOREM EndedIsAllSaved == Spec => []EndedIsSaved
  <1>1. IInv => EndedIsSaved
    BY GroupsOfParts DEF IInv, Shapes, Open, Marked, EndedIsSaved
  <1> QED
    BY <1>1, Invariant, PTL

-----------------------------------------------------------------------------
(* One step, seen by its values: what the file holds and what is known of   *)
(* each part.                                                               *)
LEMMA ValuesAreNumbers ==
    ASSUME IInv, NEW p \in Parts
    PROVE  disk[p].value \in Int /\ live[p].value \in Int /\ truth[p] \in Int
  BY DEF IInv, Shapes, TypeOK

LEMMA SavesOlderFirst ==
    ASSUME IInv, NEW i \in DOMAIN jobs, MakeSave(i), failed' # TRUE
    PROVE  /\ Open /\ Open' /\ UNCHANGED <<live, phase>> /\ failed' = FALSE
           /\ unread' = FALSE
           /\ \A p \in Parts : disk'[p].value <= live[p].value
           /\ unread \/ \A p \in Parts : disk[p].value <= disk'[p].value
  <1>1. i = 1 /\ jobs # <<>> /\ UNCHANGED <<live, phase>>
    BY EmptyDomain DEF MakeSave, MayBeMade
  <1>2. Open /\ Open'
    BY <1>1 DEF IInv, Shapes, Open
  <1>3. disk' = jobs[1].facts /\ failed' = FALSE /\ unread' = FALSE
    BY <1>1 DEF MakeSave
  <1>4. (unread \/ Covers(jobs[1].facts, disk)) /\ Covers(live, jobs[1].facts)
    BY <1>1 DEF IInv, Ordered
  <1> QED
    BY <1>1, <1>2, <1>3, <1>4 DEF Covers

(* What is on disk never goes back to an older value, but at the first save *)
(* of a session that could not read it.                                     *)
THEOREM DiskOnlyGrows == Spec => DiskNeverOlder
  <1>1. ASSUME IInv, [Next]_vars
        PROVE  unread \/ \A p \in Parts : disk'[p].value >= disk[p].value
    <2>1. ASSUME NEW i \in DOMAIN jobs, MakeSave(i)
          PROVE  unread \/ \A p \in Parts : disk'[p].value >= disk[p].value
      <3>1. CASE failed' # TRUE
        <4>1. unread \/ \A p \in Parts : disk[p].value <= disk'[p].value
          BY <1>1, <2>1, <3>1, SavesOlderFirst
        <4>2. IInv'
          BY <1>1, StepKeeps
        <4>3. \A p \in Parts : disk'[p].value \in Int
          BY <4>2 DEF IInv, Shapes, TypeOK
        <4> QED
          BY <4>1, <4>3, <1>1, ValuesAreNumbers
      <3>2. CASE failed' = TRUE
        <4>1. disk' = disk
          BY <2>1, <3>2 DEF MakeSave, file
        <4> QED
          BY <4>1, <1>1, ValuesAreNumbers
      <3> QED
        BY <3>1, <3>2
    <2>2. CASE Age
      BY <1>1, <2>2, AgeLeavesValues, ValuesAreNumbers
    <2>3. CASE UNCHANGED disk
      BY <1>1, <2>3, ValuesAreNumbers
    <2>4. UNCHANGED disk \/ Age \/ \E i \in DOMAIN jobs : MakeSave(i)
      BY <1>1 DEF Next, Start, Name, QuietPasses, Due, Change, Read, End, Close,
                  Reconnect, Crash, vars, file
    <2> QED
      BY <2>1, <2>2, <2>3, <2>4
  <1>2. ASSUME IInv, [Next]_vars
        PROVE  [unread \/ \A p \in Parts : disk'[p].value >= disk[p].value]_vars
    BY <1>1, <1>2
  <1> QED
    BY <1>2, Invariant, PTL DEF Spec, DiskNeverOlder

(* What a session has learned is not put back to what the file had. *)
THEOREM NothingForgotten == Spec => NeverForgets
  <1> DEFINE Kept0 == phase \notin {"none", "closed", "crashed"} =>
                         \A p \in Parts : live'[p].value >= live[p].value
  <1>1. ASSUME IInv, [Next]_vars PROVE Kept0
    <2>1. CASE UNCHANGED live
      BY <1>1, <2>1, ValuesAreNumbers
    <2>2. CASE Start
      BY <2>2 DEF Start
    <2>3. CASE Name
      <3>1. CASE live' = live
        BY <3>1, <2>1
      <3>2. CASE live' # live
        <4>1. ~loaded /\ live' = disk
          BY <2>3, <3>2 DEF Name, LoadStored
        <4>2. \A p \in Parts : live'[p].value = disk[p].value /\ live[p].value = 0
          BY <1>1, <4>1 DEF IInv, Shapes
        <4>3. \A p \in Parts : disk[p].value >= 0
          BY <1>1 DEF IInv, Shapes, TypeOK
        <4> QED
          BY <4>2, <4>3
      <3> QED
        BY <3>1, <3>2
    <2>4. ASSUME NEW q \in Parts, Read(q)
          PROVE  \A p \in Parts : live'[p].value >= live[p].value
      <3>1. \A p \in Parts : live'[p].value = IF p = q THEN truth[q] ELSE live[p].value
        BY <1>1, <2>4 DEF Read, IInv, Shapes, TypeOK
      <3> QED
        BY <1>1, <3>1, ValuesAreNumbers DEF IInv, Ordered
    <2>5. CASE Age
      BY <1>1, <2>5, AgeLeavesValues, ValuesAreNumbers
    <2>6. UNCHANGED live \/ Start \/ Name \/ Age \/ \E p \in Parts : Read(p)
      BY <1>1 DEF Next, QuietPasses, Due, Change, MakeSave, End, Close, Reconnect,
                  Crash, vars, session
    <2> QED
      BY <2>1, <2>2, <2>3, <2>4, <2>5, <2>6
  <1>2. ASSUME IInv, [Next]_vars PROVE [Kept0]_vars
    BY <1>1, <1>2
  <1> QED
    BY <1>2, Invariant, PTL DEF Spec, NeverForgets

-----------------------------------------------------------------------------
(* The refinement: every step of the machine is a step of FactsKept or      *)
(* none of its business.                                                    *)
LiveValues == [p \in Parts |-> live[p].value]
DiskValues == [p \in Parts |-> disk[p].value]

LEMMA InitRefines == ASSUME Init PROVE Kept!Init
  <1>1. phase = "none" /\ ~failed /\ ~unread
    BY DEF Init
  <1>2. OpenAs = "none"
    BY <1>1 DEF OpenAs
  <1>3. LiveValues = [p \in Parts |-> 0] /\ DiskValues = [p \in Parts |-> 0]
    BY DEF Init, LiveValues, DiskValues, Unknown
  <1> QED
    BY <1>1, <1>2, <1>3 DEF Kept!Init, Kept!Nothing, LiveValues, DiskValues

LEMMA PhasesAsOpen ==
    ASSUME IInv
    PROVE  /\ Open <=> OpenAs = "open"
           /\ ~Open => OpenAs = phase
  BY DEF IInv, Shapes, TypeOK, Open, OpenAs

LEMMA StartRefines == ASSUME IInv, Start PROVE Kept!Begin
  <1>1. /\ OpenAs # "open" /\ OpenAs' = "open"
        /\ failed' = FALSE /\ unread' = FALSE
    BY DEF Start, OpenAs
  <1>2. LiveValues' = [p \in Parts |-> 0]
    BY DEF Start, Unknown, LiveValues
  <1>3. DiskValues' = DiskValues
    BY DEF Start, DiskValues, file
  <1> QED
    BY <1>1, <1>2, <1>3 DEF Kept!Begin, Kept!Nothing, LiveValues, DiskValues

LEMMA NameRefines ==
    ASSUME IInv, Name
    PROVE  Kept!Recall \/ Kept!FailToRecall \/ UNCHANGED Kept!vars
  <1>1. OpenAs = "open" /\ OpenAs' = "open" /\ failed' = failed /\ DiskValues' = DiskValues
    BY DEF Name, OpenAs, DiskValues, file
  <1>2. CASE loaded
    <2>1. LiveValues' = LiveValues /\ unread' = unread
      BY <1>2 DEF Name, LoadStored, LiveValues
    <2> QED
      BY <1>1, <2>1 DEF Kept!vars, LiveValues, DiskValues
  <1>3. CASE ~loaded
    <2>1. /\ (live' = disk /\ unread' = unread) \/ (live' = live /\ unread' = TRUE)
          /\ \A p \in Parts : live[p].value = 0
      BY <1>3 DEF Name, LoadStored, IInv, Shapes
    <2>2. LiveValues = [p \in Parts |-> 0]
      BY <2>1 DEF LiveValues
    <2>3. CASE live' = disk /\ unread' = unread
      <3>1. LiveValues' = DiskValues
        BY <2>3 DEF LiveValues, DiskValues
      <3> QED
        BY <1>1, <2>2, <2>3, <3>1 DEF Kept!Recall, Kept!Nothing, LiveValues, DiskValues
    <2>4. CASE live' = live /\ unread' = TRUE
      <3>1. LiveValues' = LiveValues
        BY <2>4 DEF LiveValues
      <3> QED
        BY <1>1, <2>2, <2>4, <3>1
           DEF Kept!FailToRecall, Kept!Nothing, LiveValues, DiskValues
    <2> QED
      BY <2>1, <2>3, <2>4
  <1> QED
    BY <1>2, <1>3

LEMMA ReadRefines == ASSUME IInv, NEW q \in Parts, Read(q) PROVE Kept!Learn
  <1>1. /\ OpenAs = "open" /\ OpenAs' = "open" /\ DiskValues' = DiskValues
        /\ failed' = failed /\ unread' = unread
    BY DEF Read, OpenAs, DiskValues, file, history
  <1>2. \A p \in Parts : live'[p].value = IF p = q THEN truth[q] ELSE live[p].value
    BY DEF Read, IInv, Shapes, TypeOK
  <1>3. \A p \in Parts : live[p].value <= live'[p].value
    BY <1>2, ValuesAreNumbers DEF IInv, Ordered
  <1>4. /\ LiveValues' = [p \in Parts |-> LiveValues'[p]]
        /\ \A p \in Parts : LiveValues[p] <= LiveValues'[p]
    BY <1>3 DEF LiveValues
  <1> QED
    BY <1>1, <1>4 DEF Kept!Learn, Kept!AtMost, LiveValues, DiskValues

LEMMA MakeSaveRefines ==
    ASSUME IInv, NEW i \in DOMAIN jobs, MakeSave(i)
    PROVE  Kept!Keep \/ Kept!LoseWrite
  <1>1. Open /\ live' = live /\ phase' = phase
    <2>1. jobs # <<>>
      BY EmptyDomain
    <2>2. Open
      BY <2>1 DEF IInv, Shapes
    <2> QED
      BY <2>2 DEF MakeSave
  <1>2. OpenAs = "open" /\ OpenAs' = "open" /\ LiveValues' = LiveValues
    BY <1>1 DEF Open, OpenAs, LiveValues
  <1>3. CASE failed' # TRUE
    <2>1. /\ \A p \in Parts : disk'[p].value <= live[p].value
          /\ unread \/ \A p \in Parts : disk[p].value <= disk'[p].value
          /\ failed' = FALSE /\ unread' = FALSE
      BY <1>3, SavesOlderFirst
    <2>2. /\ DiskValues' = [p \in Parts |-> DiskValues'[p]]
          /\ \A p \in Parts : DiskValues'[p] <= LiveValues[p]
          /\ unread \/ \A p \in Parts : DiskValues[p] <= DiskValues'[p]
      BY <2>1 DEF DiskValues, LiveValues
    <2> QED
      BY <1>2, <2>1, <2>2 DEF Kept!Keep, Kept!AtMost, LiveValues, DiskValues
  <1>4. CASE failed' = TRUE
    <2>1. disk' = disk /\ unread' = unread
      BY <1>4 DEF MakeSave, file
    <2>2. DiskValues' = DiskValues
      BY <2>1 DEF DiskValues
    <2> QED
      BY <1>2, <1>4, <2>1, <2>2 DEF Kept!LoseWrite, LiveValues, DiskValues
  <1> QED
    BY <1>3, <1>4

(* What FactsKept must not lose is what is ripe. *)
LEMMA DueIsRipe ==
    ASSUME NEW p \in Parts, Kept!Due(p) PROVE Ripe(p)
  <1>1. CASE GroupOf[p] \in Compared
    BY <1>1 DEF Ripe
  <1>2. CASE GroupOf[p] \notin Compared
    <2>1. /\ PartsOf(GroupOf[p]) \in {PartsOf(g) : g \in Groups \ Compared}
          /\ p \in PartsOf(GroupOf[p])
      BY <1>2, GroupsOfParts DEF PartsOf
    <2>2. \A e \in PartsOf(GroupOf[p]) : LiveValues[e] # 0
      BY <2>1 DEF Kept!Due, LiveValues
    <2> QED
      BY <2>2 DEF Ripe, Known, PartsOf, LiveValues
  <1> QED
    BY <1>1, <1>2

LEMMA CloseRefines == ASSUME IInv, Close PROVE Kept!Finish
  <1>1. /\ OpenAs = "open" /\ OpenAs' = "closed"
        /\ failed' = failed /\ failed \in BOOLEAN /\ unread' = unread
    BY DEF Close, OpenAs, IInv, Shapes, history
  <1>2. LiveValues' = LiveValues /\ DiskValues' = DiskValues
    BY DEF Close, LiveValues, DiskValues, file
  <1>3. failed \/ \A p \in Parts : Ripe(p) => live[p].value <= disk[p].value
    BY GroupsOfParts DEF Close, MayClose, IInv, Shapes, Marked
  <1>4. failed \/ \A p \in Parts : Kept!Due(p) => LiveValues[p] <= DiskValues[p]
    BY <1>3, DueIsRipe DEF LiveValues, DiskValues
  <1> QED
    BY <1>1, <1>2, <1>4 DEF Kept!Finish, LiveValues, DiskValues

LEMMA CrashRefines == ASSUME IInv, Crash PROVE Kept!Crash
  <1>1. OpenAs = "open" /\ OpenAs' = "crashed" /\ failed' = failed /\ unread' = unread
    BY DEF Crash, OpenAs, Up, history
  <1>2. LiveValues' = LiveValues /\ DiskValues' = DiskValues
    BY DEF Crash, LiveValues, DiskValues, file
  <1> QED
    BY <1>1, <1>2 DEF Kept!Crash, LiveValues, DiskValues

(* What the abstract machine does not see. *)
LEMMA OthersStutter ==
    ASSUME IInv,
           QuietPasses \/ Due \/ (\E p \in Moving : Change(p)) \/ End \/ Reconnect
             \/ Age \/ UNCHANGED vars
    PROVE  UNCHANGED Kept!vars
  <1>1. failed' = failed /\ unread' = unread
    BY DEF QuietPasses, Due, Change, End, Reconnect, Age, vars, history
  <1>2. OpenAs' = OpenAs
    <2>1. phase' = phase \/ (Up /\ phase' = "ending") \/ (phase = "ending" /\ phase' = "burst")
      BY DEF QuietPasses, Due, Change, End, Reconnect, Age, vars, session
    <2> QED
      BY <2>1 DEF OpenAs, Up
  <1>3. \A p \in Parts : live'[p].value = live[p].value /\ disk'[p].value = disk[p].value
    <2>1. Age \/ UNCHANGED <<live, disk>>
      BY DEF QuietPasses, Due, Change, End, Reconnect, vars, session, file
    <2> QED
      BY <2>1, AgeLeavesValues
  <1>4. LiveValues' = LiveValues /\ DiskValues' = DiskValues
    BY <1>3 DEF LiveValues, DiskValues
  <1> QED
    BY <1>1, <1>2, <1>4 DEF Kept!vars, LiveValues, DiskValues

(* The session, its actor and its queue of saves implement FactsKept. *)
THEOREM ImplementsFactsKept == Spec => KeepsFacts
  <1>1. ASSUME IInv, [Next]_vars PROVE [Kept!Next]_(Kept!vars)
    <2>1. ASSUME NEW p \in Parts, Read(p) PROVE Kept!Learn
      BY <1>1, <2>1, ReadRefines
    <2>2. ASSUME NEW i \in DOMAIN jobs, MakeSave(i) PROVE Kept!Keep \/ Kept!LoseWrite
      BY <1>1, <2>2, MakeSaveRefines
    <2> QED
      BY <1>1, <2>1, <2>2, StartRefines, NameRefines, CloseRefines, CrashRefines,
         OthersStutter DEF Next, Kept!Next
  <1> QED
    BY <1>1, InitRefines, Invariant, PTL DEF Spec, KeepsFacts, Kept!Spec

=============================================================================

-------------------------- MODULE AgentDoor_proofs --------------------------
(***************************************************************************)
(* What AgentDoor promises, for every set of request ids, of calls and of  *)
(* levels, and every bound.                                                *)
(***************************************************************************)
EXTENDS AgentDoor, SequenceTheorems, TLAPS

(* An operation.  One that says its line was not sent has it taken back;   *)
(* one not registered holds nothing.                                       *)
Operations ==
    {op \in [request : Requests, id : Nat, generation : Nat,
             life : {"made", "running", "ended"},
             line : {"none", "waiting", "written", "taken"},
             held : BOOLEAN,
             queue : {"no", "in", "popped", "out"},
             trip : {"no", "open", "over"},
             hold : {"no", "starting", "claiming", "holding", "over"},
             ending : BOOLEAN,
             out : {"none", "good", "bad", "heard", "unsent"},
             drop : {"no", "look", "set", "take back"},
             holds : Nat] :
        /\ op.out = "unsent" => op.line = "taken"
        /\ op.life = "made" => op.hold = "no"}

(* The same operation, further on.                                         *)
SameWho(op, new) == /\ new.request = op.request
                    /\ new.id = op.id
                    /\ new.generation = op.generation
SameHold(op, new) == /\ new.hold = op.hold
                     /\ op.life = "made" => new.life = "made"

OpsKept ==
    /\ ops' \in Seq(Operations) /\ Len(ops') = Len(ops) /\ DOMAIN ops' = DOMAIN ops
    /\ \A p \in DOMAIN ops : SameWho(ops[p], ops'[p])
HoldsKept == \A p \in DOMAIN ops : SameHold(ops[p], ops'[p])

-----------------------------------------------------------------------------
(* Changing one operation, or each.                                        *)

LEMMA OneChanged ==
    ASSUME NEW held \in Seq(Operations), NEW o, NEW new,
           o \in DOMAIN held => new \in Operations
    PROVE  LET n == [held EXCEPT ![o] = new] IN
           /\ n \in Seq(Operations) /\ Len(n) = Len(held) /\ DOMAIN n = DOMAIN held
           /\ \A p \in DOMAIN held : n[p] = IF p = o THEN new ELSE held[p]
  <1>1. CASE o \in DOMAIN held
    BY <1>1, ExceptSeq
  <1>2. CASE o \notin DOMAIN held
    <2>1. held \in [1 .. Len(held) -> Operations] /\ DOMAIN held = 1 .. Len(held)
      BY LenProperties, ElementOfSeq, SeqDef
    <2>2. [held EXCEPT ![o] = new] = held
      BY <1>2, <2>1
    <2> QED
      BY <1>2, <2>2
  <1> QED
    BY <1>1, <1>2

LEMMA TakenBackSound ==
    ASSUME NEW op \in Operations
    PROVE  /\ TakenBack(op) \in Operations
           /\ SameWho(op, TakenBack(op)) /\ SameHold(op, TakenBack(op))
  <1>1. CASE op.line = "waiting"
    BY <1>1 DEF TakenBack, Operations, SameWho, SameHold
  <1>2. CASE op.line # "waiting"
    BY <1>2 DEF TakenBack, SameWho, SameHold
  <1> QED
    BY <1>1, <1>2

LEMMA AllTakenBack ==
    ASSUME NEW held \in Seq(Operations), NEW l
    PROVE  LET n == LinesOnceSet(l, held) IN
           /\ n \in Seq(Operations) /\ Len(n) = Len(held) /\ DOMAIN n = DOMAIN held
           /\ \A p \in DOMAIN held : SameWho(held[p], n[p]) /\ SameHold(held[p], n[p])
  <1> DEFINE n == LinesOnceSet(l, held)
  <1>0. /\ Len(held) \in Nat /\ DOMAIN held = 1 .. Len(held)
        /\ \A p \in DOMAIN held : held[p] \in Operations
    BY LenProperties, ElementOfSeq
  <1>1. CASE l < level
    <2>1. n = [p \in 1 .. Len(held) |-> TakenBack(held[p])]
      BY <1>0, <1>1 DEF LinesOnceSet
    <2>2. n \in [1 .. Len(held) -> Operations]
      BY <1>0, <2>1, TakenBackSound
    <2>3. n \in Seq(Operations)
      BY <1>0, <2>2, SeqDef
    <2>4. Len(n) = Len(held)
      BY <1>0, <2>2, <2>3, LenProperties
    <2>5. \A p \in DOMAIN held : SameWho(held[p], n[p]) /\ SameHold(held[p], n[p])
      BY <1>0, <2>1, TakenBackSound
    <2> QED
      BY <1>0, <2>1, <2>3, <2>4, <2>5
  <1>2. CASE ~(l < level)
    BY <1>2 DEF LinesOnceSet, SameWho, SameHold
  <1> QED
    BY <1>1, <1>2

LEMMA FieldsSound ==
    ASSUME NEW op \in Operations
    PROVE  /\ \A q \in {"no", "in", "popped", "out"} : [op EXCEPT !.queue = q] \in Operations
           /\ \A t \in {"no", "open", "over"} : [op EXCEPT !.trip = t] \in Operations
           /\ \A b \in BOOLEAN : [op EXCEPT !.ending = b] \in Operations
           /\ \A d \in {"no", "look", "set", "take back"} :
                 /\ [op EXCEPT !.drop = d] \in Operations
                 /\ \A n \in Nat : [op EXCEPT !.drop = d, !.holds = n] \in Operations
                 /\ op.life = "running" => [op EXCEPT !.life = "ended", !.drop = d] \in Operations
           /\ \A how \in {"good", "bad"} : [op EXCEPT !.out = how] \in Operations
           /\ op.line = "waiting" =>
                 [op EXCEPT !.queue = "out", !.line = "written"] \in Operations
  <1>1. \A q \in {"no", "in", "popped", "out"} : [op EXCEPT !.queue = q] \in Operations
    BY DEF Operations
  <1>2. \A t \in {"no", "open", "over"} : [op EXCEPT !.trip = t] \in Operations
    BY DEF Operations
  <1>3. \A b \in BOOLEAN : [op EXCEPT !.ending = b] \in Operations
    BY DEF Operations
  <1>0. op.out = "unsent" => op.line = "taken"
    BY DEF Operations
  <1>4. ASSUME NEW d \in {"no", "look", "set", "take back"}
        PROVE  /\ [op EXCEPT !.drop = d] \in Operations
               /\ \A n \in Nat : [op EXCEPT !.drop = d, !.holds = n] \in Operations
               /\ op.life = "running" => [op EXCEPT !.life = "ended", !.drop = d] \in Operations
    <2>1. [op EXCEPT !.drop = d] \in Operations
      BY ZenonT(120) DEF Operations
    <2>2. ASSUME NEW n \in Nat
          PROVE  [op EXCEPT !.drop = d, !.holds = n] \in Operations
      <3>1. ASSUME NEW old \in Operations PROVE [old EXCEPT !.holds = n] \in Operations
        BY DEF Operations
      <3>2. [op EXCEPT !.drop = d, !.holds = n] = [[op EXCEPT !.drop = d] EXCEPT !.holds = n]
        OBVIOUS
      <3> QED
        BY <2>1, <3>1, <3>2
    <2>3. op.life = "running" => [op EXCEPT !.life = "ended", !.drop = d] \in Operations
      <3> DEFINE new == [op EXCEPT !.life = "ended", !.drop = d]
      <3>1. /\ new.out = op.out /\ new.line = op.line
            /\ new.life = "ended" /\ new.hold = op.hold
        BY DEF Operations
      <3> QED
        BY <3>1 DEF Operations
    <2> QED
      BY <2>1, <2>2, <2>3
  <1>5. ASSUME NEW how \in {"good", "bad"}
        PROVE  [op EXCEPT !.out = how] \in Operations
    BY ZenonT(60) DEF Operations
  <1>6. op.line = "waiting" =>
            [op EXCEPT !.queue = "out", !.line = "written"] \in Operations
    BY DEF Operations
  <1> QED
    BY <1>1, <1>2, <1>3, <1>4, <1>5, <1>6
LEMMA SaysHeard ==
    ASSUME NEW op \in Operations
    PROVE  [op EXCEPT !.out = "heard"] \in Operations
  BY ZenonT(60) DEF Operations

LEMMA SaysUnsent ==
    ASSUME NEW op \in Operations, op.line = "taken"
    PROVE  [op EXCEPT !.out = "unsent"] \in Operations
  BY ZenonT(60) DEF Operations

LEMMA Resolves ==
    ASSUME NEW op \in Operations, NEW says \in {"heard", "unsent"},
           says = "unsent" => op.line = "taken"
    PROVE  [op EXCEPT !.trip = "over", !.out = says] \in Operations
  <1> DEFINE over == [op EXCEPT !.trip = "over"]
  <1>1. over \in Operations
    BY FieldsSound
  <1>2. over.line = op.line
    BY DEF Operations
  <1>3. [over EXCEPT !.out = says] \in Operations
    <2> HIDE DEF over
    <2> QED
      BY <1>1, <1>2, SaysHeard, SaysUnsent
  <1> QED
    BY <1>3

LEMMA OneKept ==
    ASSUME ops \in Seq(Operations), NEW o \in DOMAIN ops, NEW new \in Operations,
           ops' = [ops EXCEPT ![o] = new], SameWho(ops[o], new)
    PROVE  /\ OpsKept
           /\ \A p \in DOMAIN ops : ops'[p] = IF p = o THEN new ELSE ops[p]
           /\ SameHold(ops[o], new) => HoldsKept
  BY OneChanged DEF OpsKept, HoldsKept, SameWho, SameHold

LEMMA NoneChanged ==
    ASSUME ops \in Seq(Operations), UNCHANGED ops
    PROVE  OpsKept /\ HoldsKept
  BY DEF OpsKept, HoldsKept, SameWho, SameHold

LEMMA Known ==
    ASSUME ops \in Seq(Operations)
    PROVE  /\ DOMAIN ops = 1 .. Len(ops) /\ Len(ops) \in Nat
           /\ \A o \in DOMAIN ops : ops[o] \in Operations
  BY LenProperties, ElementOfSeq

(* What the session's task and the watchers do to an operation.            *)
LEMMA TaskOps ==
    ASSUME ops \in Seq(Operations), NEW o \in DOMAIN ops,
           \/ Pop(o) \/ Refuse(o) \/ Write(o) \/ TripEnds(o)
           \/ LineResolves(o) \/ End(o) \/ LookAtLevel(o)
           \/ \E how \in {"good", "bad"} : RunEnds(o, how)
    PROVE  OpsKept /\ HoldsKept
  <1>0. ops[o] \in Operations
    BY Known
  <1>a. ASSUME NEW new \in Operations, ops' = [ops EXCEPT ![o] = new],
               SameWho(ops[o], new), SameHold(ops[o], new)
        PROVE  OpsKept /\ HoldsKept
    BY <1>a, OneKept
  <1>1. CASE Pop(o)
    <2>1. PICK q \in {"popped", "out"} :
              ops' = [ops EXCEPT ![o] = [ops[o] EXCEPT !.queue = q]]
      BY <1>1 DEF Pop, Set
    <2> DEFINE new == [ops[o] EXCEPT !.queue = q]
    <2>2. new \in Operations
      BY <1>0, FieldsSound
    <2>3. SameWho(ops[o], new) /\ SameHold(ops[o], new)
      BY <1>0 DEF Operations, SameWho, SameHold
    <2> QED
      BY <2>1, <2>2, <2>3, <1>a
  <1>2. CASE Refuse(o)
    <2>1. ops' = [ops EXCEPT ![o] = [ops[o] EXCEPT !.queue = "out"]]
      BY <1>2 DEF Refuse, Set
    <2> DEFINE new == [ops[o] EXCEPT !.queue = "out"]
    <2>2. new \in Operations
      BY <1>0, FieldsSound
    <2>3. SameWho(ops[o], new) /\ SameHold(ops[o], new)
      BY <1>0 DEF Operations, SameWho, SameHold
    <2> QED
      BY <2>1, <2>2, <2>3, <1>a
  <1>3. CASE Write(o)
    <2> DEFINE written == [ops[o] EXCEPT !.queue = "out", !.line = "written"]
               dropped == [ops[o] EXCEPT !.queue = "out"]
    <2>1. CASE MayWrite(o) /\ ops[o].line = "waiting"
      <3>1. ops' = [ops EXCEPT ![o] = written]
        BY <1>3, <2>1 DEF Write
      <3>2. written \in Operations
        BY <1>0, <2>1, FieldsSound
      <3>3. SameWho(ops[o], written) /\ SameHold(ops[o], written)
        BY <1>0 DEF Operations, SameWho, SameHold
      <3> QED
        BY <3>1, <3>2, <3>3, <1>a
    <2>2. CASE ~(MayWrite(o) /\ ops[o].line = "waiting")
      <3>1. ops' = [ops EXCEPT ![o] = dropped]
        BY <1>3, <2>2 DEF Write, Set
      <3>2. dropped \in Operations
        BY <1>0, FieldsSound
      <3>3. SameWho(ops[o], dropped) /\ SameHold(ops[o], dropped)
        BY <1>0 DEF Operations, SameWho, SameHold
      <3> QED
        BY <3>1, <3>2, <3>3, <1>a
    <2> QED
      BY <2>1, <2>2
  <1>4. CASE TripEnds(o)
    <2>1. ops' = [ops EXCEPT ![o] = [ops[o] EXCEPT !.trip = "over"]]
      BY <1>4 DEF TripEnds, Set
    <2> DEFINE new == [ops[o] EXCEPT !.trip = "over"]
    <2>2. new \in Operations
      BY <1>0, FieldsSound
    <2>3. SameWho(ops[o], new) /\ SameHold(ops[o], new)
      BY <1>0 DEF Operations, SameWho, SameHold
    <2> QED
      BY <2>1, <2>2, <2>3, <1>a
  <1>5. CASE LineResolves(o)
    <2> DEFINE says == IF ops[o].line = "written" THEN "heard" ELSE "unsent"
               new == [TakenBack(ops[o]) EXCEPT !.trip = "over", !.out = says]
    <2>1. ops' = [ops EXCEPT ![o] = new]
      BY <1>5 DEF LineResolves
    <2>2. /\ TakenBack(ops[o]) \in Operations
          /\ SameWho(ops[o], TakenBack(ops[o])) /\ SameHold(ops[o], TakenBack(ops[o]))
      BY <1>0, TakenBackSound
    <2>3. says = "unsent" => TakenBack(ops[o]).line = "taken"
      <3>1. ops[o].line \in {"waiting", "written", "taken"}
        BY <1>0, <1>5 DEF LineResolves, Operations
      <3> QED
        BY <1>0, <3>1 DEF TakenBack, Operations
    <2>4. new \in Operations
      BY <2>2, <2>3, Resolves
    <2>5. SameWho(ops[o], new) /\ SameHold(ops[o], new)
      BY <2>2 DEF Operations, SameWho, SameHold
    <2> QED
      BY <2>1, <2>4, <2>5, <1>a
  <1>6. CASE End(o)
    <2>1. PICK d \in {"look", "no"} :
              ops' = [ops EXCEPT ![o] = [ops[o] EXCEPT !.life = "ended", !.drop = d]]
      BY <1>6 DEF End
    <2> DEFINE new == [ops[o] EXCEPT !.life = "ended", !.drop = d]
    <2>2. new \in Operations
      BY <1>0, FieldsSound, <1>6 DEF End, Running
    <2>3. SameWho(ops[o], new) /\ SameHold(ops[o], new)
      BY <1>0, <1>6 DEF Operations, SameWho, SameHold, End, Running
    <2> QED
      BY <2>1, <2>2, <2>3, <1>a
  <1>7. CASE LookAtLevel(o)
    <2>1. PICK d \in {"no", "set"} :
              ops' = [ops EXCEPT ![o] = [ops[o] EXCEPT !.drop = d]]
      BY <1>7 DEF LookAtLevel, Set
    <2> DEFINE new == [ops[o] EXCEPT !.drop = d]
    <2>2. new \in Operations
      BY <1>0, FieldsSound
    <2>3. SameWho(ops[o], new) /\ SameHold(ops[o], new)
      BY <1>0 DEF Operations, SameWho, SameHold
    <2> QED
      BY <2>1, <2>2, <2>3, <1>a
  <1>8. CASE \E how \in {"good", "bad"} : RunEnds(o, how)
    <2>1. PICK how \in {"good", "bad"} :
              ops' = [ops EXCEPT ![o] = [ops[o] EXCEPT !.out = how]]
      BY <1>8 DEF RunEnds, Set
    <2> DEFINE new == [ops[o] EXCEPT !.out = how]
    <2>2. new \in Operations
      BY <1>0, FieldsSound
    <2>3. SameWho(ops[o], new) /\ SameHold(ops[o], new)
      BY <1>0 DEF Operations, SameWho, SameHold
    <2> QED
      BY <2>1, <2>2, <2>3, <1>a
  <1> QED
    BY <1>1, <1>2, <1>3, <1>4, <1>5, <1>6, <1>7, <1>8

LEMMA HoldSound ==
    ASSUME NEW op \in Operations, op.hold # "no"
    PROVE  /\ \A h \in {"no", "starting", "claiming", "holding", "over"} :
                 [op EXCEPT !.hold = h] \in Operations
           /\ \A how \in {"good", "bad"} :
                 [op EXCEPT !.hold = "over", !.out = how] \in Operations
  <1>1. ASSUME NEW h \in {"no", "starting", "claiming", "holding", "over"}
        PROVE  [op EXCEPT !.hold = h] \in Operations
    BY DEF Operations
  <1>2. ASSUME NEW how \in {"good", "bad"}
        PROVE  [op EXCEPT !.hold = "over", !.out = how] \in Operations
    <2> DEFINE over == [op EXCEPT !.hold = "over"]
    <2>1. over \in Operations
      BY <1>1
    <2>2. [over EXCEPT !.out = how] \in Operations
      <3> HIDE DEF over
      <3> QED
        BY <2>1, FieldsSound
    <2> QED
      BY <2>2
  <1> QED
    BY <1>1, <1>2

(* A stop, a takeover taken back, a level set.                             *)
LEMMA StoppedOps ==
    ASSUME ops \in Seq(Operations), NEW o \in DOMAIN ops, ops' = Stopped(o)
    PROVE  OpsKept /\ HoldsKept
  <1>0. ops[o] \in Operations
    BY Known
  <1>1. CASE ops[o].line = "none"
    <2> DEFINE new == [ops[o] EXCEPT !.ending = TRUE]
    <2>1. ops' = [ops EXCEPT ![o] = new]
      BY <1>1 DEF Stopped, Set
    <2>2. new \in Operations
      BY <1>0, FieldsSound
    <2>3. SameWho(ops[o], new) /\ SameHold(ops[o], new)
      BY <1>0 DEF Operations, SameWho, SameHold
    <2> QED
      BY <2>1, <2>2, <2>3, OneKept
  <1>2. CASE ops[o].line # "none"
    <2>1. ops' = [ops EXCEPT ![o] = TakenBack(ops[o])]
      BY <1>2 DEF Stopped
    <2> QED
      BY <1>0, <2>1, TakenBackSound, OneKept
  <1> QED
    BY <1>1, <1>2

LEMMA TakeBackOps ==
    ASSUME ops \in Seq(Operations), NEW held \in Seq(Operations),
           Len(held) = Len(ops), DOMAIN held = DOMAIN ops,
           \A p \in DOMAIN ops : SameWho(ops[p], held[p]) /\ SameHold(ops[p], held[p]),
           NEW o, TakeBack(o, held)
    PROVE  /\ OpsKept /\ HoldsKept
           /\ holder' \in {holder, "none"} /\ holder' # "agent"
  <1> DEFINE new == [held[o] EXCEPT !.ending = TRUE]
  <1>1. ops' = [held EXCEPT ![o] = new]
    BY DEF TakeBack
  <1>2. o \in DOMAIN held =>
            new \in Operations /\ SameWho(held[o], new) /\ SameHold(held[o], new)
    <2>1. SUFFICES ASSUME o \in DOMAIN held
                   PROVE  new \in Operations /\ SameWho(held[o], new) /\ SameHold(held[o], new)
      OBVIOUS
    <2>2. held[o] \in Operations
      BY <2>1, LenProperties, ElementOfSeq
    <2>3. new \in Operations
      BY <2>2, FieldsSound
    <2>4. SameWho(held[o], new) /\ SameHold(held[o], new)
      BY <2>2 DEF Operations, SameWho, SameHold
    <2> QED
      BY <2>3, <2>4
  <1> HIDE DEF new
  <1>3. /\ ops' \in Seq(Operations) /\ Len(ops') = Len(held) /\ DOMAIN ops' = DOMAIN held
        /\ \A p \in DOMAIN held : ops'[p] = IF p = o THEN new ELSE held[p]
    BY <1>1, <1>2, OneChanged
  <1>4. \A p \in DOMAIN held : SameWho(held[p], ops'[p]) /\ SameHold(held[p], ops'[p])
    BY <1>2, <1>3 DEF SameWho, SameHold
  <1>5. OpsKept /\ HoldsKept
    BY <1>3, <1>4 DEF OpsKept, HoldsKept, SameWho, SameHold
  <1> QED
    BY <1>5 DEF TakeBack

LEMMA SetLevelOps ==
    ASSUME ops \in Seq(Operations), NEW held \in Seq(Operations),
           Len(held) = Len(ops), DOMAIN held = DOMAIN ops,
           \A p \in DOMAIN ops : SameWho(ops[p], held[p]) /\ SameHold(ops[p], held[p]),
           NEW l, SetLevel(l, held)
    PROVE  OpsKept /\ HoldsKept
  <1>1. ops' = LinesOnceSet(l, held)
    BY DEF SetLevel
  <1>2. /\ ops' \in Seq(Operations) /\ Len(ops') = Len(held) /\ DOMAIN ops' = DOMAIN held
        /\ \A p \in DOMAIN held : SameWho(held[p], ops'[p]) /\ SameHold(held[p], ops'[p])
    BY <1>1, AllTakenBack
  <1> QED
    BY <1>2 DEF OpsKept, HoldsKept, SameWho, SameHold

(* drop_level.                                                             *)
LEMMA DropOps ==
    ASSUME ops \in Seq(Operations), NEW o \in DOMAIN ops, takeover \in Nat,
           DropLevel(o) \/ DropTakesBack(o)
    PROVE  OpsKept /\ HoldsKept
  <1>0. ops[o] \in Operations
    BY Known
  <1> DEFINE over == [ops[o] EXCEPT !.drop = "no"]
             back == [ops[o] EXCEPT !.drop = "take back", !.holds = takeover]
             ended == [ops EXCEPT ![o] = over]
             ahead == [ops EXCEPT ![o] = back]
  <1>1. over \in Operations /\ back \in Operations
    BY <1>0, FieldsSound
  <1>2. /\ SameWho(ops[o], over) /\ SameHold(ops[o], over)
        /\ SameWho(ops[o], back) /\ SameHold(ops[o], back)
    BY <1>0 DEF Operations, SameWho, SameHold
  <1> HIDE DEF over, back
  <1>3. /\ ended \in Seq(Operations) /\ Len(ended) = Len(ops) /\ DOMAIN ended = DOMAIN ops
        /\ \A p \in DOMAIN ops : ended[p] = IF p = o THEN over ELSE ops[p]
    BY <1>1, OneChanged
  <1>4. /\ ahead \in Seq(Operations) /\ Len(ahead) = Len(ops) /\ DOMAIN ahead = DOMAIN ops
        /\ \A p \in DOMAIN ops : ahead[p] = IF p = o THEN back ELSE ops[p]
    BY <1>1, OneChanged
  <1>5. \A p \in DOMAIN ops : /\ SameWho(ops[p], ended[p]) /\ SameHold(ops[p], ended[p])
                              /\ SameWho(ops[p], ahead[p]) /\ SameHold(ops[p], ahead[p])
    BY <1>2, <1>3, <1>4 DEF SameWho, SameHold
  <1>6. /\ ended = Set(o, "drop", "no")
        /\ ahead = [ops EXCEPT ![o].drop = "take back", ![o].holds = takeover]
    BY DEF Set, over, back
  <1> HIDE DEF ended, ahead
  <1>7. CASE DropLevel(o)
    <2>1. \/ ops' = ended
          \/ SetLevel(Observe, ended)
          \/ SetLevel(Observe, ahead)
      BY <1>6, <1>7 DEF DropLevel
    <2>2. CASE ops' = ended
      BY <2>2, <1>3, <1>5 DEF OpsKept, HoldsKept
    <2>3. CASE SetLevel(Observe, ended)
      BY <2>3, <1>3, <1>5, SetLevelOps
    <2>4. CASE SetLevel(Observe, ahead)
      BY <2>4, <1>4, <1>5, SetLevelOps
    <2> QED
      BY <2>1, <2>2, <2>3, <2>4
  <1>8. CASE DropTakesBack(o)
    <2>1. TakeBack(ops[o].holds, ended)
      BY <1>6, <1>8 DEF DropTakesBack
    <2> QED
      BY <2>1, <1>3, <1>5, TakeBackOps
  <1> QED
    BY <1>7, <1>8

(* How far a takeover has come.                                            *)
LEMMA HoldOps ==
    ASSUME ops \in Seq(Operations), NEW o \in DOMAIN ops,
           Preempt(o) \/ Claim(o) \/ ClearRecord(o)
             \/ \E how \in {"good", "bad"} : LetGo(o, how)
    PROVE  /\ OpsKept
           /\ \A p \in DOMAIN ops : p # o => ops'[p] = ops[p]
           /\ ops'[o].life = ops[o].life
           /\ ops[o].hold # "no"
  <1>0. ops[o] \in Operations
    BY Known
  <1>1. \A h \in {"no", "starting", "claiming", "holding", "over"} :
           ops[o].hold # "no" => [ops[o] EXCEPT !.hold = h] \in Operations
    BY <1>0, HoldSound
  <1>2. \A how \in {"good", "bad"} :
           ops[o].hold # "no" => [ops[o] EXCEPT !.hold = "over", !.out = how] \in Operations
    BY <1>0, HoldSound
  <1>3. PICK new \in Operations :
           /\ ops' = [ops EXCEPT ![o] = new]
           /\ SameWho(ops[o], new) /\ new.life = ops[o].life
           /\ ops[o].hold # "no"
    <2>1. CASE Preempt(o)
      <3> DEFINE new == [ops[o] EXCEPT !.hold = "claiming"]
      <3>1. ops' = [ops EXCEPT ![o] = new] /\ ops[o].hold # "no"
        BY <2>1 DEF Preempt, Set
      <3>2. SameWho(ops[o], new) /\ new.life = ops[o].life
        BY <1>0 DEF Operations, SameWho
      <3> QED
        BY <3>1, <3>2, <1>1
    <2>2. CASE Claim(o) /\ holder = "none"
      <3> DEFINE new == [ops[o] EXCEPT !.hold = "holding"]
      <3>1. ops' = [ops EXCEPT ![o] = new] /\ ops[o].hold # "no"
        BY <2>2 DEF Claim, Set
      <3>2. SameWho(ops[o], new) /\ new.life = ops[o].life
        BY <1>0 DEF Operations, SameWho
      <3> QED
        BY <3>1, <3>2, <1>1
    <2>3. CASE Claim(o) /\ holder # "none"
      <3> DEFINE new == [ops[o] EXCEPT !.hold = "over", !.out = "good"]
      <3>1. ops' = [ops EXCEPT ![o] = new] /\ ops[o].hold # "no"
        BY <2>3 DEF Claim
      <3>2. SameWho(ops[o], new) /\ new.life = ops[o].life
        BY <1>0 DEF Operations, SameWho
      <3> QED
        BY <3>1, <3>2, <1>2
    <2>4. CASE ClearRecord(o)
      <3> DEFINE new == [ops[o] EXCEPT !.hold = "no"]
      <3>1. ops' = [ops EXCEPT ![o] = new] /\ ops[o].hold # "no"
        BY <2>4 DEF ClearRecord, Set
      <3>2. SameWho(ops[o], new) /\ new.life = ops[o].life
        BY <1>0 DEF Operations, SameWho
      <3> QED
        BY <3>1, <3>2, <1>1
    <2>5. CASE \E how \in {"good", "bad"} : LetGo(o, how)
      <3>1. PICK how \in {"good", "bad"} :
               /\ ops' = [ops EXCEPT ![o] = [ops[o] EXCEPT !.hold = "over", !.out = how]]
               /\ ops[o].hold # "no"
        BY <2>5 DEF LetGo
      <3> DEFINE new == [ops[o] EXCEPT !.hold = "over", !.out = how]
      <3>2. SameWho(ops[o], new) /\ new.life = ops[o].life
        BY <1>0 DEF Operations, SameWho
      <3> QED
        BY <3>1, <3>2, <1>2
    <2> QED
      BY <2>1, <2>2, <2>3, <2>4, <2>5
  <1> QED
    BY <1>3, OneKept

LEMMA HoldsRunning ==
    ASSUME NEW op \in Operations, op.life = "running", NEW h \in {"no", "starting"}
    PROVE  [op EXCEPT !.hold = h] \in Operations
  BY DEF Operations

LEMMA RegisterSound ==
    ASSUME NEW op \in Operations, NEW q \in {"no", "in"}, NEW t \in {"no", "open"},
           NEW h \in {"no", "starting"}
    PROVE  [op EXCEPT !.life = "running", !.queue = q, !.trip = t, !.hold = h] \in Operations
  <1> DEFINE runs == [op EXCEPT !.life = "running"]
             queued == [runs EXCEPT !.queue = q]
             open == [queued EXCEPT !.trip = t]
  <1>1. runs \in Operations /\ runs.life = "running"
    BY DEF Operations
  <1>2. queued \in Operations /\ queued.life = "running"
    <2> HIDE DEF runs
    <2>1. queued \in Operations
      BY <1>1, FieldsSound
    <2> QED
      BY <1>1, <2>1 DEF Operations
  <1>3. open \in Operations /\ open.life = "running"
    <2> HIDE DEF queued
    <2>1. open \in Operations
      BY <1>2, FieldsSound
    <2> QED
      BY <1>2, <2>1 DEF Operations
  <1>4. [open EXCEPT !.hold = h] \in Operations
    <2> HIDE DEF open
    <2> QED
      BY <1>3, HoldsRunning
  <1> QED
    BY <1>4

LEMMA RegisterOps ==
    ASSUME ops \in Seq(Operations), NEW d, doer[d].op \in DOMAIN ops, Register(d)
    PROVE  /\ OpsKept
           /\ \A p \in DOMAIN ops : p # doer[d].op => ops'[p] = ops[p]
           /\ ops'[doer[d].op].hold = IF IsTakeover(doer[d].op) THEN "starting" ELSE "no"
  <1> DEFINE o == doer[d].op
             q == IF ops[o].line = "none" THEN "no" ELSE "in"
             t == IF ops[o].line = "none" THEN "no" ELSE "open"
             h == IF IsTakeover(o) THEN "starting" ELSE "no"
             new == [ops[o] EXCEPT !.life = "running", !.queue = q, !.trip = t, !.hold = h]
  <1>0. ops[o] \in Operations
    BY Known
  <1>1. ops' = [ops EXCEPT ![o] = new]
    BY DEF Register
  <1>2. new \in Operations
    BY <1>0, RegisterSound
  <1>3. SameWho(ops[o], new) /\ new.hold = h
    BY <1>0 DEF Operations, SameWho
  <1> HIDE DEF new
  <1> QED
    BY <1>1, <1>2, <1>3, OneKept

LEMMA StartOps ==
    ASSUME ops \in Seq(Operations), NEW d, doer[d].request \in Requests,
           doer[d].id \in Nat, doer[d].generation \in Nat, Start(d)
    PROVE  /\ ops' \in Seq(Operations) /\ Len(ops') = Len(ops) + 1
           /\ DOMAIN ops' = 1 .. Len(ops) + 1
           /\ \A p \in DOMAIN ops : ops'[p] = ops[p]
           /\ SameWho(doer[d], ops'[Len(ops) + 1])
           /\ ops'[Len(ops) + 1].life = "made" /\ ops'[Len(ops) + 1].hold = "no"
  <1> DEFINE new == Operation(doer[d].request, d)
  <1>1. new \in Operations
    BY DEF Operation, Operations
  <1>2. SameWho(doer[d], new) /\ new.life = "made" /\ new.hold = "no"
    BY DEF Operation, SameWho
  <1>3. ops' = Append(ops, new)
    BY DEF Start
  <1> HIDE DEF new
  <1>4. /\ ops' \in Seq(Operations) /\ Len(ops') = Len(ops) + 1
        /\ \A p \in 1 .. Len(ops) : ops'[p] = ops[p]
        /\ ops'[Len(ops) + 1] = new
    BY <1>1, <1>3, AppendProperties
  <1> QED
    BY <1>2, <1>4, LenProperties

-----------------------------------------------------------------------------
(* The requests remembered.                                                *)

Admissions == [request : Requests,
               answer : [is : {"in flight", "asked", "not approved", "done"}, n : Nat]]

(* Everything remembered before, but what was pushed out, is after.        *)
StillRemembered ==
    \A r \in Requests \ evicted' :
        (\E i \in DOMAIN requests : requests[i].request = r) =>
            \E i \in DOMAIN requests' : requests'[i].request = r

LEMMA KnownRequests ==
    ASSUME NEW list \in Seq(Admissions)
    PROVE  /\ DOMAIN list = 1 .. Len(list) /\ Len(list) \in Nat
           /\ \A i \in DOMAIN list : list[i] \in Admissions
  BY LenProperties, ElementOfSeq

LEMMA NotApprovedKeeps ==
    ASSUME NEW list \in Seq(Admissions), NEW ids
    PROVE  LET n == NotApproved(list, ids) IN
           /\ n \in Seq(Admissions) /\ Len(n) = Len(list) /\ DOMAIN n = DOMAIN list
           /\ \A i \in DOMAIN list : n[i].request = list[i].request
  <1> DEFINE n == NotApproved(list, ids)
  <1>0. /\ DOMAIN list = 1 .. Len(list) /\ Len(list) \in Nat
        /\ \A i \in DOMAIN list : list[i] \in Admissions
    BY KnownRequests
  <1>1. ASSUME NEW i \in DOMAIN list
        PROVE  n[i] \in Admissions /\ n[i].request = list[i].request
    <2>1. [list[i] EXCEPT !.answer.is = "not approved"] \in Admissions
      BY <1>0 DEF Admissions
    <2>2. [list[i] EXCEPT !.answer.is = "not approved"].request = list[i].request
      BY <1>0 DEF Admissions
    <2> QED
      BY <1>0, <2>1, <2>2 DEF NotApproved
  <1>2. n \in [1 .. Len(list) -> Admissions]
    BY <1>0, <1>1 DEF NotApproved
  <1>3. n \in Seq(Admissions)
    BY <1>0, <1>2, SeqDef
  <1>4. Len(n) = Len(list)
    BY <1>0, <1>2, <1>3, LenProperties
  <1> QED
    BY <1>0, <1>1, <1>2, <1>3, <1>4

LEMMA RememberKeeps ==
    ASSUME requests \in Seq(Admissions), Len(requests) <= Kept, evicted \subseteq Requests,
           NEW r \in Requests,
           NEW new \in Admissions, new.request = r,
           NEW longer, longer = Append(Lapsed, new),
           IF Len(longer) > Kept
           THEN requests' = Tail(longer) /\ evicted' = evicted \cup {longer[1].request}
           ELSE requests' = longer /\ UNCHANGED evicted
    PROVE  /\ requests' \in Seq(Admissions) /\ Len(requests') <= Kept
           /\ evicted \subseteq evicted' /\ evicted' \subseteq Requests
           /\ StillRemembered
           /\ r \notin evicted' => \E i \in DOMAIN requests' : requests'[i].request = r
  <1>1. /\ Lapsed \in Seq(Admissions) /\ Len(Lapsed) = Len(requests)
        /\ DOMAIN Lapsed = DOMAIN requests
        /\ \A i \in DOMAIN requests : Lapsed[i].request = requests[i].request
    BY NotApprovedKeeps DEF Lapsed
  <1>3. /\ longer \in Seq(Admissions) /\ Len(longer) = Len(requests) + 1
        /\ \A i \in 1 .. Len(requests) : longer[i] = Lapsed[i]
        /\ longer[Len(requests) + 1] = new
    BY <1>1, AppendProperties
  <1>4. DOMAIN requests = 1 .. Len(requests) /\ Len(requests) \in Nat
    BY KnownRequests
  <1>5. DOMAIN longer = 1 .. Len(requests) + 1
    BY <1>3, LenProperties
  <1>6. \A i \in DOMAIN requests : longer[i].request = requests[i].request
    BY <1>1, <1>3, <1>4
  <1>7. CASE Len(longer) > Kept
    <2>1. requests' = Tail(longer) /\ evicted' = evicted \cup {longer[1].request}
      BY <1>7
    <2>2. longer # <<>>
      BY <1>3, <1>4, EmptySeq
    <2>3. /\ requests' \in Seq(Admissions) /\ Len(requests') = Len(requests)
          /\ \A i \in 1 .. Len(requests) : requests'[i] = longer[i + 1]
      BY <1>3, <1>4, <2>1, <2>2, HeadTailProperties
    <2>4. DOMAIN requests' = 1 .. Len(requests)
      BY <2>3, LenProperties
    <2>5. longer[1] \in Admissions
      BY <1>3, <1>4, ElementOfSeq
    <2>6. ASSUME NEW q \in Requests \ evicted', NEW j \in DOMAIN longer, longer[j].request = q
          PROVE  \E i \in DOMAIN requests' : requests'[i].request = q
      <3>1. j # 1 /\ j - 1 \in 1 .. Len(requests)
        BY <1>4, <1>5, <2>1, <2>6
      <3>2. requests'[j - 1] = longer[j]
        BY <1>4, <2>3, <3>1
      <3> QED
        BY <2>4, <2>6, <3>1, <3>2
    <2>7. StillRemembered
      BY <1>4, <1>5, <1>6, <2>6 DEF StillRemembered
    <2>8. r \notin evicted' => \E i \in DOMAIN requests' : requests'[i].request = r
      BY <1>3, <1>4, <1>5, <2>6
    <2> QED
      BY <2>1, <2>3, <2>5, <2>7, <2>8 DEF Admissions
  <1>8. CASE ~(Len(longer) > Kept)
    <2>1. requests' = longer /\ evicted' = evicted
      BY <1>8
    <2>2. Len(requests') <= Kept
      BY <1>3, <1>4, <1>8, <2>1, ConstantsAssumption DEF ConstantsAssumption
    <2>3. StillRemembered
      BY <1>4, <1>5, <1>6, <2>1 DEF StillRemembered
    <2>4. \E i \in DOMAIN requests' : requests'[i].request = r
      BY <1>3, <1>4, <1>5, <2>1
    <2> QED
      BY <1>3, <2>1, <2>2, <2>3, <2>4
  <1> QED
    BY <1>7, <1>8

LEMMA ForgottenKeeps ==
    ASSUME requests \in Seq(Admissions), NEW r
    PROVE  /\ Forgotten(r) \in Seq(Admissions) /\ Len(Forgotten(r)) <= Len(requests)
           /\ \A q \in Requests : q # r /\ Remembered(q) =>
                 \E i \in DOMAIN Forgotten(r) : Forgotten(r)[i].request = q
  <1>0. /\ DOMAIN requests = 1 .. Len(requests) /\ Len(requests) \in Nat
        /\ \A i \in DOMAIN requests : requests[i] \in Admissions
    BY KnownRequests
  <1>1. CASE ~Remembered(r)
    BY <1>0, <1>1 DEF Forgotten, Remembered
  <1>2. CASE Remembered(r)
    <2> DEFINE i == CHOOSE j \in DOMAIN requests : requests[j].request = r
               before == SubSeq(requests, 1, i - 1)
               after == SubSeq(requests, i + 1, Len(requests))
    <2>1. i \in 1 .. Len(requests) /\ requests[i].request = r
      BY <1>0, <1>2 DEF Remembered
    <2>2. Forgotten(r) = before \o after
      BY <1>2 DEF Forgotten
    <2> HIDE DEF i
    <2>3. /\ before \in Seq(Admissions) /\ Len(before) = i - 1
          /\ \A j \in 1 .. i - 1 : before[j] = requests[j]
      <3>1. \A j \in 1 .. i - 1 : requests[j] \in Admissions
        BY <1>0, <2>1
      <3> QED
        BY <1>0, <2>1, <3>1, SubSeqProperties
    <2>4. /\ after \in Seq(Admissions) /\ Len(after) = Len(requests) - i
          /\ \A j \in 1 .. Len(requests) - i : after[j] = requests[i + j]
      <3>1. \A j \in i + 1 .. Len(requests) : requests[j] \in Admissions
        BY <1>0, <2>1
      <3>2. /\ after \in Seq(Admissions)
            /\ Len(after) = IF i + 1 <= Len(requests) THEN Len(requests) - (i + 1) + 1 ELSE 0
            /\ \A j \in 1 .. Len(requests) - (i + 1) + 1 : after[j] = requests[i + 1 + j - 1]
        BY <1>0, <2>1, <3>1, SubSeqProperties
      <3>3. /\ i \in Nat /\ Len(requests) \in Nat /\ i <= Len(requests)
            /\ Len(requests) - (i + 1) + 1 = Len(requests) - i
        BY <1>0, <2>1
      <3> HIDE DEF before, after
      <3>4. Len(after) = Len(requests) - i
        BY <3>2, <3>3
      <3>5. ASSUME NEW j \in 1 .. Len(requests) - i
            PROVE  after[j] = requests[i + j]
        <4>1. after[j] = requests[i + 1 + j - 1]
          BY <3>2, <3>3, <3>5
        <4>2. i + 1 + j - 1 = i + j
          BY <3>3
        <4> QED
          BY <4>1, <4>2
      <3> QED
        BY <3>2, <3>4, <3>5
    <2> HIDE DEF before, after
    <2>5. /\ before \o after \in Seq(Admissions)
          /\ Len(before \o after) = Len(requests) - 1
          /\ \A j \in 1 .. Len(requests) - 1 : (before \o after)[j] =
                IF j <= i - 1 THEN before[j] ELSE after[j - (i - 1)]
      <3>1. /\ before \o after \in Seq(Admissions)
            /\ Len(before \o after) = Len(before) + Len(after)
            /\ \A j \in 1 .. Len(before) + Len(after) : (before \o after)[j] =
                  IF j <= Len(before) THEN before[j] ELSE after[j - Len(before)]
        BY <2>3, <2>4, ConcatProperties
      <3>2. Len(before) = i - 1 /\ Len(before) + Len(after) = Len(requests) - 1
        BY <1>0, <2>1, <2>3, <2>4
      <3> QED
        BY <3>1, <3>2
    <2>6. DOMAIN (before \o after) = 1 .. Len(requests) - 1
      BY <2>5, LenProperties
    <2>7. ASSUME NEW j \in DOMAIN requests, requests[j].request # r
          PROVE  \E k \in DOMAIN (before \o after) : (before \o after)[k] = requests[j]
      <3>1. CASE j <= i - 1
        <4>1. j \in 1 .. Len(requests) - 1
          BY <1>0, <2>1, <3>1
        <4>2. (before \o after)[j] = requests[j]
          BY <1>0, <2>1, <2>3, <2>5, <3>1, <4>1
        <4> QED
          BY <2>6, <4>1, <4>2
      <3>2. CASE j > i
        <4>1. j - 1 \in 1 .. Len(requests) - 1 /\ ~(j - 1 <= i - 1)
          BY <1>0, <2>1, <3>2
        <4>2. (before \o after)[j - 1] = after[j - 1 - (i - 1)]
          BY <2>5, <4>1
        <4>3. j - 1 - (i - 1) = j - i /\ j - i \in 1 .. Len(requests) - i /\ i + (j - i) = j
          BY <1>0, <2>1, <3>2
        <4>4. (before \o after)[j - 1] = requests[j]
          BY <2>4, <4>2, <4>3
        <4> QED
          BY <2>6, <4>1, <4>4
      <3>3. j # i
        BY <2>1, <2>7
      <3> QED
        BY <1>0, <2>1, <3>1, <3>2, <3>3
    <2>8. \A q \in Requests : q # r /\ Remembered(q) =>
              \E k \in DOMAIN (before \o after) : (before \o after)[k].request = q
      BY <2>7 DEF Remembered
    <2>9. Len(before \o after) <= Len(requests)
      BY <1>0, <2>5
    <2> QED
      BY <2>2, <2>5, <2>8, <2>9
  <1> QED
    BY <1>1, <1>2

-----------------------------------------------------------------------------
(* The inductive invariant.                                                *)

Hands == [at : {"idle", "admitted", "taken", "do", "made", "done", "failed",
                "lowered", "stopping", "found", "stop"},
          request : Requests \cup {Player}, id : Nat, generation : Nat,
          token : {"unread", "none", "agent"}, op : Nat, running : SUBSET Nat]

DoorShape ==
    /\ level \in Off .. Takeover
    /\ waiting \subseteq [id : 1 .. asked, request : Requests, generation : 1 .. generation]
    /\ late \subseteq Ids(waiting)
    /\ requests \in Seq(Admissions) /\ Len(requests) <= Kept
    /\ asked \in 0 .. MaxAsks /\ refused \subseteq 1 .. asked
    /\ evicted \subseteq Requests

OpsShape ==
    /\ generation \in 1 .. MaxGeneration
    /\ holder \in {"none", "behavior", "agent"}
    /\ ops \in Seq(Operations) /\ Len(ops) <= MaxOperations
    /\ takeover \in 0 .. Len(ops)
    /\ \A o \in DOMAIN ops : ops[o].generation \in 1 .. generation /\ ops[o].id \in 0 .. asked

(* What a caller carries is a request, for a connection there was; a call  *)
(* has no id of the player's, and what the player approves has one.        *)
Carries(d, h, ids, connections) ==
    /\ h \in Hands /\ h.id \in 0 .. ids
    /\ h.at \in {"admitted", "taken", "do"} =>
          h.request \in Requests /\ h.generation \in 1 .. connections
    /\ d # Player => h.id = 0
    /\ d = Player /\ h.at \in {"taken", "do"} => h.id # 0
DoerShape == /\ doer \in [Doers -> Hands]
             /\ \A d \in Doers : Carries(d, doer[d], asked, generation)

Shape == DoorShape /\ OpsShape /\ DoerShape

(* Only the operation recorded holds or will, and the agent holds the      *)
(* authority only through it.                                              *)
HeldByTheRecord ==
    /\ \A o \in DOMAIN ops : ops[o].hold # "no" => takeover = o
    /\ holder = "agent" => takeover # 0 /\ ops[takeover].hold = "holding"
MadeIsRecorded ==
    \A d \in Doers : doer[d].at = "made" =>
        /\ doer[d].op \in DOMAIN ops /\ ops[doer[d].op].life = "made"
        /\ IsTakeover(doer[d].op) => takeover = doer[d].op
        /\ \A e \in Doers : doer[e].at = "made" /\ doer[e].op = doer[d].op => d = e
Held == HeldByTheRecord /\ MadeIsRecorded

(* A request is in someone's hand: the player took it up, or a call may do *)
(* it, or must forget it.                                                  *)
InHand(d) == doer[d].at \in IF d = Player THEN {"taken", "do"} ELSE {"do", "failed"}

(* An id asked under is refused, waits, is in the player's hand or is an   *)
(* operation's: one of them.                                               *)
Decided ==
    /\ \A w \in waiting : w.id \notin refused
    /\ \A o \in DOMAIN ops : ops[o].id # 0 =>
          /\ ops[o].id \notin refused \cup Ids(waiting)
          /\ \A p \in DOMAIN ops : ops[p].id = ops[o].id => p = o
          /\ InHand(Player) => ops[o].id # doer[Player].id
    /\ InHand(Player) => doer[Player].id \notin refused \cup Ids(waiting)

(* A request still remembered is asked once, in one hand or one operation. *)
(* It is remembered as long as it is any of these.                         *)
ForgottenNot(r) ==
    (\/ \E o \in DOMAIN ops : ops[o].request = r
     \/ \E w \in waiting : w.request = r
     \/ \E d \in Doers : InHand(d) /\ doer[d].request = r) => Remembered(r)
Once ==
    \A r \in Requests \ evicted :
        /\ ForgottenNot(r)
        /\ \A o \in DOMAIN ops : ops[o].request = r =>
              /\ \A p \in DOMAIN ops : ops[p].request = r => o = p
              /\ \A w \in waiting : w.request # r
              /\ \A d \in Doers : InHand(d) => doer[d].request # r
        /\ \A w \in waiting : w.request = r =>
              /\ \A v \in waiting : v.request = r => v = w
              /\ \A d \in Doers : InHand(d) => doer[d].request # r
        /\ \A d, e \in Doers :
              InHand(d) /\ doer[d].request = r /\ InHand(e) /\ doer[e].request = r => d = e

IInv == Shape /\ Held /\ Decided /\ Once

-----------------------------------------------------------------------------
(* Steps that take nothing up.                                             *)

NoneMade == \A d \in Doers : doer'[d].at = "made" =>
                doer[d].at = "made" /\ doer'[d].op = doer[d].op
NoneTakenUp == \A d \in Doers : InHand(d)' =>
                /\ InHand(d)
                /\ doer'[d].request = doer[d].request /\ doer'[d].id = doer[d].id

HolderKept == takeover' = takeover /\ (holder' = "agent" => holder = "agent")

(* Requests only leave the player's list, and those that are refused do.   *)
NoneAsked ==
    /\ waiting' \subseteq waiting
    /\ refused' \subseteq refused \cup Ids(waiting)
    /\ \A w \in waiting' : w.id \notin refused' \ refused
NoneForgotten == evicted \subseteq evicted' /\ StillRemembered

LEMMA HeldKept ==
    ASSUME ops \in Seq(Operations), takeover \in 0 .. Len(ops),
           Held, OpsKept, HoldsKept, HolderKept, NoneMade
    PROVE  Held'
  <1>0. /\ DOMAIN ops = 1 .. Len(ops) /\ Len(ops) \in Nat /\ DOMAIN ops' = DOMAIN ops
        /\ \A p \in DOMAIN ops : SameWho(ops[p], ops'[p]) /\ SameHold(ops[p], ops'[p])
    BY Known DEF OpsKept, HoldsKept
  <1>1. HeldByTheRecord'
    <2>1. \A o \in DOMAIN ops' : ops'[o].hold # "no" => takeover' = o
      BY <1>0 DEF Held, HeldByTheRecord, HolderKept, SameHold
    <2>2. holder' = "agent" => takeover' # 0 /\ ops'[takeover'].hold = "holding"
      BY <1>0 DEF Held, HeldByTheRecord, HolderKept, SameHold
    <2> QED
      BY <2>1, <2>2 DEF HeldByTheRecord
  <1>2. MadeIsRecorded'
    <2>1. ASSUME NEW d \in Doers, doer'[d].at = "made"
          PROVE  /\ doer'[d].op \in DOMAIN ops' /\ ops'[doer'[d].op].life = "made"
                 /\ ops'[doer'[d].op].request \in Takeovers => takeover' = doer'[d].op
                 /\ \A e \in Doers : doer'[e].at = "made" /\ doer'[e].op = doer'[d].op => d = e
      <3>1. doer[d].at = "made" /\ doer'[d].op = doer[d].op
        BY <2>1 DEF NoneMade
      <3>2. /\ doer[d].op \in DOMAIN ops /\ ops[doer[d].op].life = "made"
            /\ ops[doer[d].op].request \in Takeovers => takeover = doer[d].op
            /\ \A e \in Doers : doer[e].at = "made" /\ doer[e].op = doer[d].op => d = e
        BY <3>1 DEF Held, MadeIsRecorded, IsTakeover
      <3>3. \A e \in Doers : doer'[e].at = "made" /\ doer'[e].op = doer'[d].op => d = e
        BY <3>1, <3>2 DEF NoneMade
      <3> QED
        BY <1>0, <3>1, <3>2, <3>3 DEF HolderKept, SameWho, SameHold
    <2> QED
      BY <2>1 DEF MadeIsRecorded, IsTakeover
  <1> QED
    BY <1>1, <1>2 DEF Held

LEMMA DecidedKept ==
    ASSUME Decided, OpsKept, NoneTakenUp, NoneAsked
    PROVE  Decided'
  <1>0. /\ DOMAIN ops' = DOMAIN ops
        /\ \A p \in DOMAIN ops : ops'[p].id = ops[p].id
    BY DEF OpsKept, SameWho
  <1>1. InHand(Player)' => InHand(Player) /\ doer'[Player].id = doer[Player].id
    BY DEF NoneTakenUp, Doers
  <1>2. Ids(waiting') \subseteq Ids(waiting)
    BY DEF NoneAsked, Ids
  <1>3. \A w \in waiting' : w.id \notin refused'
    BY DEF NoneAsked, Decided
  <1>4. ASSUME NEW o \in DOMAIN ops', ops'[o].id # 0
        PROVE  /\ ops'[o].id \notin refused' \cup Ids(waiting')
               /\ \A p \in DOMAIN ops' : ops'[p].id = ops'[o].id => p = o
               /\ InHand(Player)' => ops'[o].id # doer'[Player].id
    BY <1>0, <1>1, <1>2, <1>4 DEF NoneAsked, Decided
  <1>5. InHand(Player)' => doer'[Player].id \notin refused' \cup Ids(waiting')
    BY <1>1, <1>2 DEF NoneAsked, Decided
  <1>6. Ids(waiting)' = Ids(waiting')
    BY DEF Ids
  <1> QED
    BY <1>3, <1>4, <1>5, <1>6 DEF Decided

LEMMA OnceKept ==
    ASSUME Once, OpsKept, NoneTakenUp, waiting' \subseteq waiting, NoneForgotten
    PROVE  Once'
  <1>0. /\ DOMAIN ops' = DOMAIN ops
        /\ \A p \in DOMAIN ops : ops'[p].request = ops[p].request
    BY DEF OpsKept, SameWho
  <1>1. \A d \in Doers : InHand(d)' => InHand(d) /\ doer'[d].request = doer[d].request
    BY DEF NoneTakenUp
  <1>2. ASSUME NEW r \in Requests \ evicted'
        PROVE  /\ ForgottenNot(r)'
               /\ \A o \in DOMAIN ops' : ops'[o].request = r =>
                     /\ \A p \in DOMAIN ops' : ops'[p].request = r => o = p
                     /\ \A w \in waiting' : w.request # r
                     /\ \A d \in Doers : InHand(d)' => doer'[d].request # r
               /\ \A w \in waiting' : w.request = r =>
                     /\ \A v \in waiting' : v.request = r => v = w
                     /\ \A d \in Doers : InHand(d)' => doer'[d].request # r
               /\ \A d, e \in Doers :
                     InHand(d)' /\ doer'[d].request = r
                       /\ InHand(e)' /\ doer'[e].request = r => d = e
    <2>0. r \in Requests \ evicted
      BY DEF NoneForgotten
    <2>1. ForgottenNot(r)'
      <3>1. ForgottenNot(r)
        BY <2>0 DEF Once
      <3>2. Remembered(r) => Remembered(r)'
        BY DEF NoneForgotten, StillRemembered, Remembered
      <3> QED
        BY <1>0, <1>1, <3>1, <3>2 DEF ForgottenNot
    <2>2. \A o \in DOMAIN ops' : ops'[o].request = r =>
                     /\ \A p \in DOMAIN ops' : ops'[p].request = r => o = p
                     /\ \A w \in waiting' : w.request # r
                     /\ \A d \in Doers : InHand(d)' => doer'[d].request # r
      BY <1>0, <1>1, <2>0 DEF Once
    <2>3. \A w \in waiting' : w.request = r =>
                     /\ \A v \in waiting' : v.request = r => v = w
                     /\ \A d \in Doers : InHand(d)' => doer'[d].request # r
      BY <1>1, <2>0 DEF Once
    <2>4. \A d, e \in Doers :
                     InHand(d)' /\ doer'[d].request = r
                       /\ InHand(e)' /\ doer'[e].request = r => d = e
      BY <1>1, <2>0 DEF Once
    <2> QED
      BY <2>1, <2>2, <2>3, <2>4
  <1> QED
    BY <1>2 DEF Once

-----------------------------------------------------------------------------
(* The callers.                                                            *)

LEMMA IdleCarriesNothing ==
    ASSUME NEW d, NEW ids \in Nat, NEW connections
    PROVE  Carries(d, Idle, ids, connections) /\ Idle.at = "idle"
  BY DEF Carries, Idle, Hands

Growing == asked \in Nat /\ asked' \in Nat /\ asked <= asked'
             /\ generation \in Nat /\ generation' \in Nat /\ generation <= generation'

LEMMA StepCarries ==
    ASSUME NEW d \in Doers, NEW h \in Hands, NEW ids, NEW connections,
           Carries(d, h, ids, connections),
           NEW to \in {"taken", "do", "made", "done", "failed", "stop"},
           to \in {"taken", "do"} => h.at \in {"admitted", "taken", "do"},
           d = Player /\ to \in {"taken", "do"} => h.at \in {"taken", "do"}
    PROVE  /\ Carries(d, [h EXCEPT !.at = to], ids, connections)
           /\ [h EXCEPT !.at = to].at = to
           /\ [h EXCEPT !.at = to].request = h.request
           /\ [h EXCEPT !.at = to].id = h.id
           /\ [h EXCEPT !.at = to].op = h.op
  <1> DEFINE new == [h EXCEPT !.at = to]
  <1>2. /\ new \in Hands /\ new.at = to /\ new.request = h.request /\ new.id = h.id
        /\ new.op = h.op /\ new.generation = h.generation
    BY DEF Hands
  <1> HIDE DEF new
  <1>3. Carries(d, new, ids, connections)
    BY <1>2 DEF Carries
  <1> QED
    BY <1>2, <1>3 DEF new

LEMMA DoersGrow ==
    ASSUME DoerShape, Growing, NEW d \in Doers
    PROVE  doer[d] \in Hands /\ Carries(d, doer[d], asked', generation')
  <1>1. Carries(d, doer[d], asked, generation) /\ doer[d] \in Hands
    BY DEF DoerShape
  <1>2. 0 .. asked \subseteq 0 .. asked' /\ 1 .. generation \subseteq 1 .. generation'
    BY DEF Growing
  <1> QED
    BY <1>1, <1>2 DEF Carries

LEMMA DoersStay ==
    ASSUME DoerShape, Growing, UNCHANGED doer
    PROVE  DoerShape' /\ NoneMade /\ NoneTakenUp
  <1>1. DoerShape'
    BY DoersGrow DEF DoerShape
  <1> QED
    BY <1>1 DEF NoneMade, NoneTakenUp, InHand

(* One caller moves on.                                                    *)
LEMMA DoerMoves ==
    ASSUME DoerShape, Growing, NEW d \in Doers, NEW new,
           doer' = [doer EXCEPT ![d] = new], Carries(d, new, asked', generation')
    PROVE  /\ DoerShape'
           /\ \A e \in Doers : doer'[e] = IF e = d THEN new ELSE doer[e]
           /\ new.at # "made" => NoneMade
           /\ (new.at \in (IF d = Player THEN {"taken", "do"} ELSE {"do", "failed"}) =>
                 InHand(d) /\ new.request = doer[d].request /\ new.id = doer[d].id)
                => NoneTakenUp
  <1>1. /\ doer' \in [Doers -> Hands]
        /\ \A e \in Doers : doer'[e] = IF e = d THEN new ELSE doer[e]
    BY DEF DoerShape, Carries
  <1>2. DoerShape'
    <2>1. ASSUME NEW e \in Doers
          PROVE  Carries(e, doer'[e], asked', generation')
      BY <1>1, DoersGrow
    <2> QED
      BY <1>1, <2>1 DEF DoerShape
  <1>3. new.at # "made" => NoneMade
    BY <1>1 DEF NoneMade
  <1>4. ASSUME new.at \in (IF d = Player THEN {"taken", "do"} ELSE {"do", "failed"}) =>
                  InHand(d) /\ new.request = doer[d].request /\ new.id = doer[d].id
        PROVE  NoneTakenUp
    BY <1>1, <1>4 DEF NoneTakenUp, InHand
  <1> QED
    BY <1>1, <1>2, <1>3, <1>4

LEMMA DoerDone ==
    ASSUME DoerShape, Growing, NEW d \in Doers, Done(d)
    PROVE  DoerShape' /\ NoneMade /\ NoneTakenUp
  <1>1. doer' = [doer EXCEPT ![d] = Idle]
    BY DEF Done
  <1>2. Carries(d, Idle, asked', generation') /\ Idle.at = "idle"
    BY IdleCarriesNothing DEF Growing
  <1> HIDE DEF Idle
  <1> QED
    BY <1>1, <1>2, DoerMoves

(* A caller goes on with what it has in hand, or comes to an end.          *)
LEMMA DoerSteps ==
    ASSUME DoerShape, Growing, NEW d \in Doers,
           NEW to \in {"taken", "do", "done", "failed", "stop"}, Step(d, to),
           doer[d].at \in {"taken", "do"}
             \/ (doer[d].at = "admitted" /\ d # Player)
             \/ to \in {"done", "stop"},
           to \in (IF d = Player THEN {"taken", "do"} ELSE {"do", "failed"}) => InHand(d)
    PROVE  DoerShape' /\ NoneMade /\ NoneTakenUp
  <1>1. doer[d] \in Hands /\ Carries(d, doer[d], asked', generation')
    BY DoersGrow
  <1> DEFINE new == [doer[d] EXCEPT !.at = to]
  <1>2. /\ Carries(d, new, asked', generation')
        /\ new.at = to /\ new.request = doer[d].request /\ new.id = doer[d].id
    <2>1. to \in {"taken", "do"} => doer[d].at \in {"admitted", "taken", "do"}
      OBVIOUS
    <2>2. d = Player /\ to \in {"taken", "do"} => doer[d].at \in {"taken", "do"}
      OBVIOUS
    <2>3. /\ new \in Hands /\ new.at = to /\ new.request = doer[d].request
          /\ new.id = doer[d].id /\ new.generation = doer[d].generation
      BY <1>1 DEF Hands
    <2> HIDE DEF new
    <2> QED
      BY <1>1, <2>1, <2>2, <2>3 DEF Carries
  <1>3. doer' = [doer EXCEPT ![d] = new]
    BY DEF Step
  <1> HIDE DEF new
  <1> QED
    BY <1>2, <1>3, DoerMoves

-----------------------------------------------------------------------------
(* The door.                                                               *)

LEMMA DoorStays ==
    ASSUME Shape, Growing, UNCHANGED door
    PROVE  DoorShape' /\ NoneAsked /\ NoneForgotten
  <1>1. 1 .. generation \subseteq 1 .. generation'
    BY DEF Growing
  <1>2. DoorShape'
    BY <1>1 DEF Shape, DoorShape, door, Ids
  <1> QED
    BY <1>2 DEF NoneAsked, NoneForgotten, StillRemembered, door

LEMMA LapsedKeeps ==
    ASSUME requests \in Seq(Admissions), requests' = Lapsed
    PROVE  requests' \in Seq(Admissions) /\ Len(requests') = Len(requests) /\ StillRemembered
  BY NotApprovedKeeps DEF Lapsed, StillRemembered

LEMMA LapseSettles ==
    ASSUME DoorShape, Lapse, waiting' \subseteq Live
    PROVE  /\ NoneAsked /\ late' \subseteq Ids(waiting)'
           /\ waiting' \subseteq waiting /\ refused' \subseteq 1 .. asked
  <1>1. \A w \in waiting' : w \in waiting /\ w.id \notin late
    BY DEF Live
  <1>2. late \subseteq Ids(waiting) /\ Ids(waiting) \subseteq 1 .. asked
    BY DEF DoorShape, Ids
  <1> QED
    BY <1>1, <1>2 DEF NoneAsked, Lapse, DoorShape

LEMMA OnlyLapses ==
    ASSUME Shape, OnlyLapse, UNCHANGED generation
    PROVE  DoorShape' /\ NoneAsked /\ NoneForgotten /\ asked' = asked
  <1>1. /\ requests' \in Seq(Admissions) /\ Len(requests') = Len(requests)
        /\ StillRemembered
    BY LapsedKeeps DEF OnlyLapse, Shape, DoorShape
  <1>2. /\ NoneAsked /\ late' \subseteq Ids(waiting)'
        /\ waiting' \subseteq waiting /\ refused' \subseteq 1 .. asked
    BY LapseSettles DEF OnlyLapse, Shape
  <1>3. DoorShape'
    BY <1>1, <1>2 DEF OnlyLapse, Shape, DoorShape
  <1> QED
    BY <1>1, <1>2, <1>3 DEF OnlyLapse, NoneForgotten

LEMMA LevelSettles ==
    ASSUME Shape, NEW l \in Off .. Takeover, NEW held, SetLevel(l, held), UNCHANGED generation
    PROVE  DoorShape' /\ NoneAsked /\ NoneForgotten /\ asked' = asked
  <1>1. /\ requests' \in Seq(Admissions) /\ Len(requests') = Len(requests)
        /\ StillRemembered
    BY NotApprovedKeeps DEF SetLevel, StillRemembered, Shape, DoorShape
  <1>2. waiting' = {} /\ late' = {} /\ refused' = refused \cup Ids(waiting)
    BY DEF SetLevel, WaitingOnceSet
  <1>3. Ids(waiting) \subseteq 1 .. asked
    BY DEF Shape, DoorShape, Ids
  <1>4. DoorShape'
    BY <1>1, <1>2, <1>3 DEF SetLevel, Shape, DoorShape
  <1> QED
    BY <1>1, <1>2, <1>4 DEF SetLevel, NoneAsked, NoneForgotten

-----------------------------------------------------------------------------
(* The operations.                                                         *)

LEMMA OpsGrow ==
    ASSUME Shape, Growing, OpsKept, takeover' \in 0 .. Len(ops),
           holder' \in {"none", "behavior", "agent"}, generation' \in 1 .. MaxGeneration
    PROVE  OpsShape'
  <1>1. /\ ops' \in Seq(Operations) /\ Len(ops') = Len(ops) /\ DOMAIN ops' = DOMAIN ops
        /\ \A o \in DOMAIN ops : /\ ops'[o].generation = ops[o].generation
                                 /\ ops'[o].id = ops[o].id
    BY DEF OpsKept, SameWho
  <1>2. 0 .. asked \subseteq 0 .. asked' /\ 1 .. generation \subseteq 1 .. generation'
    BY DEF Growing
  <1> QED
    BY <1>1, <1>2 DEF Shape, OpsShape

LEMMA Still ==
    ASSUME Shape, asked' = asked, generation' = generation
    PROVE  Growing
  BY ConstantsAssumption DEF Shape, DoorShape, OpsShape, Growing, ConstantsAssumption

(* A step that takes nothing up keeps the invariant.                       *)
LEMMA Calm ==
    ASSUME IInv, Growing, OpsKept, HoldsKept, HolderKept,
           holder' \in {"none", "behavior", "agent"}, generation' \in 1 .. MaxGeneration,
           DoerShape', NoneMade, NoneTakenUp,
           DoorShape', NoneAsked, NoneForgotten
    PROVE  IInv'
  <1>1. OpsShape'
    BY OpsGrow DEF IInv, Shape, OpsShape, HolderKept
  <1>2. Held'
    BY HeldKept DEF IInv, Shape, OpsShape
  <1>3. Decided'
    BY DecidedKept DEF IInv
  <1>4. Once'
    BY OnceKept DEF IInv, NoneAsked
  <1> QED
    BY <1>1, <1>2, <1>3, <1>4 DEF IInv, Shape

-----------------------------------------------------------------------------
(* The agent's call.                                                       *)

LEMMA CallStep ==
    ASSUME IInv, NEW k \in Calls, NEW r \in Requests, Call(k, r)
    PROVE  IInv'
  <1>0. /\ UNCHANGED <<door, world, ops>> /\ k \in Doers /\ k # Player /\ Growing
        /\ asked' = asked /\ generation' = generation
    BY Still, ConstantsAssumption
    DEF Call, door, world, Doers, IInv, ConstantsAssumption
  <1> DEFINE new == [Idle EXCEPT !.at = "admitted", !.request = r, !.generation = generation]
  <1>1. doer' = [doer EXCEPT ![k] = new]
    BY DEF Call
  <1>2. new.at = "admitted" /\ Carries(k, new, asked', generation')
    <2>1. generation \in Nat /\ generation \in 1 .. generation' /\ asked' \in Nat
      BY <1>0 DEF IInv, Shape, OpsShape, Growing
    <2>2. /\ new.at = "admitted" /\ new.request = r /\ new.id = 0
          /\ new.generation = generation
      BY DEF Idle
    <2>3. new \in Hands
      BY <2>1 DEF Hands, Idle
    <2> HIDE DEF new
    <2> QED
      BY <1>0, <2>1, <2>2, <2>3 DEF Carries
  <1> HIDE DEF new
  <1>3. DoerShape' /\ NoneMade /\ NoneTakenUp
    BY <1>0, <1>1, <1>2, DoerMoves DEF IInv, Shape
  <1>4. DoorShape' /\ NoneAsked /\ NoneForgotten
    BY <1>0, DoorStays DEF IInv
  <1>5. OpsKept /\ HoldsKept
    BY <1>0, NoneChanged DEF IInv, Shape, OpsShape
  <1>6. HolderKept /\ holder' = holder /\ generation' = generation
    BY <1>0 DEF world, HolderKept
  <1> QED
    BY <1>0, <1>3, <1>4, <1>5, <1>6, Calm DEF IInv, Shape, OpsShape

LEMMA TurnStep ==
    ASSUME IInv, NEW k \in Calls, Turn(k)
    PROVE  IInv'
  <1>0. /\ OnlyLapse /\ Done(k) /\ UNCHANGED <<world, ops>> /\ k \in Doers
        /\ UNCHANGED <<generation, holder, takeover>>
    BY DEF Turn, world, Doers
  <1>1. DoorShape' /\ NoneAsked /\ NoneForgotten /\ asked' = asked
    BY <1>0, OnlyLapses DEF IInv
  <1>2. Growing
    BY <1>0, <1>1, Still DEF IInv
  <1>3. DoerShape' /\ NoneMade /\ NoneTakenUp
    BY <1>0, <1>2, DoerDone DEF IInv, Shape
  <1>4. OpsKept /\ HoldsKept
    BY <1>0, NoneChanged DEF IInv, Shape, OpsShape
  <1>5. HolderKept
    BY <1>0 DEF HolderKept
  <1> QED
    BY <1>0, <1>1, <1>2, <1>3, <1>4, <1>5, Calm DEF IInv, Shape, OpsShape

(* A request is fresh only when nobody has it in hand and nothing came of  *)
(* it.                                                                     *)
LEMMA FreshIsNowhere ==
    ASSUME Once, NEW r \in Requests \ evicted, ~Remembered(r)
    PROVE  /\ \A o \in DOMAIN ops : ops[o].request # r
           /\ \A w \in waiting : w.request # r
           /\ \A d \in Doers : InHand(d) => doer[d].request # r
  BY DEF Once, ForgottenNot

LEMMA AllowStep ==
    ASSUME IInv, NEW k \in Calls, Allow(k)
    PROVE  IInv'
  <1>a. PICK r \in Requests : r = doer[k].request
    <2>1. doer[k].at = "admitted" /\ k \in Doers
      BY DEF Allow, Fresh, Deciding, Doers
    <2> QED
      BY <2>1 DEF IInv, Shape, DoerShape, Carries
  <1> DEFINE new == [request |-> r, answer |-> Answer("in flight", 0)]
  <1>0. /\ Fresh(k) /\ Lapse /\ waiting' = Live /\ Step(k, "do")
        /\ UNCHANGED <<level, asked, ops>>
        /\ UNCHANGED <<generation, holder, takeover>>
        /\ k \in Doers /\ k # Player /\ ~Remembered(r) /\ doer[k].at = "admitted"
    BY <1>a, ConstantsAssumption
    DEF Allow, Fresh, Deciding, world, Doers, ConstantsAssumption
  <1>1. Growing
    BY <1>0, Still DEF IInv
  <1>2. Carries(k, doer[k], asked', generation') /\ doer[k] \in Hands /\ DoerShape
    BY <1>0, <1>1, DoersGrow DEF IInv, Shape
  <1>3. /\ new \in Admissions /\ new.request = r
        /\ IF Len(Append(Lapsed, new)) > Kept
           THEN requests' = Tail(Append(Lapsed, new))
                  /\ evicted' = evicted \cup {Append(Lapsed, new)[1].request}
           ELSE requests' = Append(Lapsed, new) /\ UNCHANGED evicted
    BY <1>a DEF Allow, Remember, Admissions, Answer
  <1> HIDE DEF new
  <1>4. /\ requests' \in Seq(Admissions) /\ Len(requests') <= Kept
        /\ evicted \subseteq evicted' /\ evicted' \subseteq Requests
        /\ StillRemembered
        /\ r \notin evicted' => \E i \in DOMAIN requests' : requests'[i].request = r
    BY <1>2, <1>3, RememberKeeps DEF IInv, Shape, DoorShape
  <1>5. /\ NoneAsked /\ late' \subseteq Ids(waiting)'
        /\ waiting' \subseteq waiting /\ refused' \subseteq 1 .. asked
    BY <1>0, LapseSettles DEF IInv, Shape
  <1>6. DoorShape'
    BY <1>0, <1>4, <1>5 DEF IInv, Shape, DoorShape
  <1>7. /\ DoerShape' /\ NoneMade
        /\ \A d \in Doers : d # k => doer'[d] = doer[d]
        /\ doer'[k].at = "do" /\ doer'[k].request = r
    <2> DEFINE next == [doer[k] EXCEPT !.at = "do"]
    <2>1. Carries(k, next, asked', generation') /\ next.at = "do" /\ next.request = r
      <3> DEFINE h == doer[k]
      <3>1. h \in Hands /\ Carries(k, h, asked', generation') /\ h.request = r
        BY <1>a, <1>2
      <3>2. h.at \in {"admitted", "taken", "do"} /\ k # Player /\ k \in Doers
        BY <1>0
      <3> HIDE DEF h
      <3>3. /\ Carries(k, [h EXCEPT !.at = "do"], asked', generation')
            /\ [h EXCEPT !.at = "do"].at = "do" /\ [h EXCEPT !.at = "do"].request = r
        BY <3>1, <3>2, StepCarries, ZenonT(60)
      <3> QED
        BY <3>3 DEF h
    <2>2. doer' = [doer EXCEPT ![k] = next]
      BY <1>0 DEF Step
    <2> HIDE DEF next
    <2>3. /\ DoerShape'
          /\ \A e \in Doers : doer'[e] = IF e = k THEN next ELSE doer[e]
          /\ next.at # "made" => NoneMade
      BY <1>0, <1>1, <2>1, <2>2, <1>2, DoerMoves
    <2> QED
      BY <1>0, <2>1, <2>3
  <1>8. OpsKept /\ HoldsKept /\ ops' = ops
    BY <1>0, NoneChanged DEF IInv, Shape, OpsShape
  <1>9. OpsShape' /\ Held'
    <2>1. HolderKept
      BY <1>0 DEF HolderKept
    <2>2. OpsShape'
      BY <1>0, <1>1, <1>8, OpsGrow DEF IInv, Shape, OpsShape
    <2> QED
      BY <1>7, <1>8, <2>1, <2>2, HeldKept DEF IInv, Shape, OpsShape
  <1>10. Player \in Doers /\ InHand(Player)' = InHand(Player) /\ doer'[Player] = doer[Player]
    BY <1>0, <1>7 DEF InHand, Doers
  <1>11. Decided'
    <2>1. /\ Ids(waiting)' \subseteq Ids(waiting)
          /\ \A w \in waiting' : w.id \notin refused'
      BY <1>5 DEF Ids, NoneAsked, IInv, Decided
    <2> QED
      BY <1>5, <1>8, <1>10, <2>1 DEF Decided, IInv, NoneAsked
  <1>12. Once'
    <2>1. \A d \in Doers : d # k => (InHand(d)' <=> InHand(d)) /\ doer'[d].request = doer[d].request
      BY <1>7 DEF InHand
    <2>2. ASSUME NEW q \in Requests \ evicted', q # r
          PROVE  ForgottenNot(q)'
      <3>1. ForgottenNot(q)
        BY <1>4 DEF IInv, Once
      <3>2. Remembered(q) => Remembered(q)'
        BY <1>4 DEF StillRemembered, Remembered
      <3> QED
        BY <1>5, <1>7, <1>8, <2>1, <2>2, <3>1, <3>2 DEF ForgottenNot
    <2>3. r \notin evicted' => ForgottenNot(r)'
      BY <1>4 DEF ForgottenNot, Remembered
    <2>4. r \notin evicted' =>
             /\ \A o \in DOMAIN ops : ops[o].request # r
             /\ \A w \in waiting : w.request # r
             /\ \A d \in Doers : InHand(d) => doer[d].request # r
      BY <1>0, <1>2, <1>4, FreshIsNowhere DEF IInv
    <2>5. ASSUME NEW q \in Requests \ evicted'
          PROVE  /\ \A o \in DOMAIN ops : ops[o].request = q =>
                       /\ \A p \in DOMAIN ops : ops[p].request = q => o = p
                       /\ \A w \in waiting' : w.request # q
                       /\ \A d \in Doers : InHand(d)' => doer'[d].request # q
                 /\ \A w \in waiting' : w.request = q =>
                       /\ \A v \in waiting' : v.request = q => v = w
                       /\ \A d \in Doers : InHand(d)' => doer'[d].request # q
                 /\ \A d, e \in Doers :
                       InHand(d)' /\ doer'[d].request = q
                         /\ InHand(e)' /\ doer'[e].request = q => d = e
      <3>1. q \in Requests \ evicted
        BY <1>4
      <3>2. CASE q = r
        BY <1>5, <1>7, <2>1, <2>4, <3>2
      <3>3. CASE q # r
        BY <1>5, <1>7, <2>1, <3>1, <3>3 DEF IInv, Once
      <3> QED
        BY <3>2, <3>3
    <2> QED
      BY <1>8, <2>2, <2>3, <2>5 DEF Once
  <1> QED
    BY <1>6, <1>7, <1>9, <1>11, <1>12 DEF IInv, Shape

LEMMA AskStep ==
    ASSUME IInv, NEW k \in Calls, Ask(k)
    PROVE  IInv'
  <1>a. PICK r \in Requests : r = doer[k].request
    <2>1. doer[k].at = "admitted" /\ k \in Doers
      BY DEF Ask, Fresh, Deciding, Doers
    <2> QED
      BY <2>1 DEF IInv, Shape, DoerShape, Carries
  <1>b. PICK id \in 1 .. MaxAsks : id = asked + 1 /\ asked \in Nat
    BY ConstantsAssumption DEF Ask, IInv, Shape, DoorShape, ConstantsAssumption
  <1>c. PICK g \in 1 .. MaxGeneration : g = generation
    BY DEF IInv, Shape, OpsShape
  <1> DEFINE new == [request |-> r, answer |-> Answer("asked", id)]
             ask == [id |-> id, request |-> r, generation |-> g]
  <1>0. /\ Lapse /\ Done(k) /\ waiting' = Live \cup {ask} /\ asked' = id
        /\ UNCHANGED <<level, ops>>
        /\ UNCHANGED <<generation, holder, takeover>>
        /\ k \in Doers /\ k # Player /\ ~Remembered(r)
    BY <1>a, <1>b, <1>c, ConstantsAssumption
    DEF Ask, Fresh, Deciding, world, Doers, ConstantsAssumption
  <1>1. Growing /\ DoerShape /\ DoorShape
    BY <1>0, <1>b, <1>c, ConstantsAssumption
    DEF Growing, IInv, Shape, OpsShape, ConstantsAssumption
  <1>3. /\ new \in Admissions /\ new.request = r
        /\ IF Len(Append(Lapsed, new)) > Kept
           THEN requests' = Tail(Append(Lapsed, new))
                  /\ evicted' = evicted \cup {Append(Lapsed, new)[1].request}
           ELSE requests' = Append(Lapsed, new) /\ UNCHANGED evicted
    BY <1>a, <1>b, <1>0 DEF Ask, Remember, Admissions, Answer
  <1> HIDE DEF new
  <1>4. /\ requests' \in Seq(Admissions) /\ Len(requests') <= Kept
        /\ evicted \subseteq evicted' /\ evicted' \subseteq Requests
        /\ StillRemembered
        /\ r \notin evicted' => \E i \in DOMAIN requests' : requests'[i].request = r
    BY <1>1, <1>3, RememberKeeps DEF DoorShape
  <1>d. ask.id = id /\ ask.request = r /\ ask \in [id : 1 .. id, request : Requests, generation : 1 .. g]
    BY <1>b, <1>c
  <1> HIDE DEF ask
  <1>5. /\ \A w \in Live : w \in waiting /\ w.id \notin late /\ w.id \in 1 .. asked
        /\ late \subseteq 1 .. asked
        /\ Ids(waiting) \subseteq 1 .. asked
    BY <1>1 DEF Live, DoorShape, Ids
  <1>6. DoorShape'
    <2>1. refused' \subseteq 1 .. id /\ late' = {} /\ id \in 0 .. MaxAsks
      BY <1>0, <1>1, <1>5, <1>b DEF Lapse, DoorShape
    <2>2. Live \subseteq [id : 1 .. id, request : Requests, generation : 1 .. generation]
      <3>1. 1 .. asked \subseteq 1 .. id
        BY <1>b
      <3> QED
        BY <1>1, <1>5, <3>1 DEF DoorShape
    <2> QED
      BY <1>0, <1>1, <1>4, <1>c, <1>d, <2>1, <2>2 DEF DoorShape
  <1>7. DoerShape' /\ NoneMade /\ NoneTakenUp
    BY <1>0, <1>1, DoerDone
  <1>8. OpsKept /\ HoldsKept /\ ops' = ops
    BY <1>0, NoneChanged DEF IInv, Shape, OpsShape
  <1>9. OpsShape' /\ Held'
    <2>1. HolderKept
      BY <1>0 DEF HolderKept
    <2>2. OpsShape'
      BY <1>0, <1>1, <1>8, OpsGrow DEF IInv, Shape, OpsShape
    <2> QED
      BY <1>7, <1>8, <2>1, <2>2, HeldKept DEF IInv, Shape, OpsShape
  <1>10. Decided'
    <2>1. Player \in Doers
      BY DEF Doers
    <2>2. InHand(Player)' => InHand(Player) /\ doer'[Player].id = doer[Player].id
      BY <1>7, <2>1 DEF NoneTakenUp
    <2>3. doer[Player].id # id /\ \A o \in DOMAIN ops : ops[o].id # id
      BY <1>1, <1>b, <2>1 DEF DoerShape, Carries, IInv, Shape, OpsShape
    <2>4. id \notin refused'
      BY <1>0, <1>1, <1>5, <1>b DEF Lapse, DoorShape
    <2>5. \A w \in waiting' : w.id \notin refused'
      BY <1>0, <1>5, <1>d, <2>4 DEF Lapse, IInv, Decided
    <2>6. Ids(waiting)' \subseteq Ids(waiting) \cup {id}
      BY <1>0, <1>5, <1>d DEF Ids
    <2>7. refused' \subseteq refused \cup Ids(waiting)
      BY <1>0, <1>1 DEF Lapse, DoorShape
    <2>8. ASSUME NEW o \in DOMAIN ops, ops[o].id # 0
          PROVE  /\ ops[o].id \notin refused' \cup Ids(waiting)'
                 /\ \A p \in DOMAIN ops : ops[p].id = ops[o].id => p = o
                 /\ InHand(Player)' => ops[o].id # doer'[Player].id
      BY <2>2, <2>3, <2>6, <2>7, <2>8 DEF IInv, Decided
    <2>9. InHand(Player)' => doer'[Player].id \notin refused' \cup Ids(waiting)'
      BY <2>2, <2>3, <2>6, <2>7 DEF IInv, Decided
    <2> QED
      BY <1>8, <2>5, <2>8, <2>9 DEF Decided
  <1>11. Once'
    <2>1. \A d \in Doers : InHand(d)' => InHand(d) /\ doer'[d].request = doer[d].request
      BY <1>7 DEF NoneTakenUp
    <2>2. \A w \in waiting' : w \in waiting \/ w = ask
      BY <1>0, <1>5
    <2>3. ASSUME NEW q \in Requests \ evicted', q # r
          PROVE  ForgottenNot(q)'
      <3>1. ForgottenNot(q)
        BY <1>4 DEF IInv, Once
      <3>2. Remembered(q) => Remembered(q)'
        BY <1>4 DEF StillRemembered, Remembered
      <3> QED
        BY <1>8, <1>d, <2>1, <2>2, <2>3, <3>1, <3>2 DEF ForgottenNot
    <2>4. r \notin evicted' => ForgottenNot(r)'
      BY <1>4 DEF ForgottenNot, Remembered
    <2>5. r \notin evicted' =>
             /\ \A o \in DOMAIN ops : ops[o].request # r
             /\ \A w \in waiting : w.request # r
             /\ \A d \in Doers : InHand(d) => doer[d].request # r
      BY <1>0, <1>4, FreshIsNowhere DEF IInv
    <2>6. ASSUME NEW q \in Requests \ evicted'
          PROVE  /\ \A o \in DOMAIN ops : ops[o].request = q =>
                       /\ \A p \in DOMAIN ops : ops[p].request = q => o = p
                       /\ \A w \in waiting' : w.request # q
                       /\ \A d \in Doers : InHand(d)' => doer'[d].request # q
                 /\ \A w \in waiting' : w.request = q =>
                       /\ \A v \in waiting' : v.request = q => v = w
                       /\ \A d \in Doers : InHand(d)' => doer'[d].request # q
                 /\ \A d, e \in Doers :
                       InHand(d)' /\ doer'[d].request = q
                         /\ InHand(e)' /\ doer'[e].request = q => d = e
      <3>1. q \in Requests \ evicted
        BY <1>4
      <3>2. CASE q = r
        BY <1>d, <2>1, <2>2, <2>5, <3>2
      <3>3. CASE q # r
        BY <1>d, <2>1, <2>2, <3>1, <3>3 DEF IInv, Once
      <3> QED
        BY <3>2, <3>3
    <2> QED
      BY <1>8, <2>3, <2>4, <2>6 DEF Once
  <1> QED
    BY <1>6, <1>7, <1>9, <1>10, <1>11 DEF IInv, Shape

-----------------------------------------------------------------------------
(* An act done.                                                            *)

LEMMA StartStep ==
    ASSUME IInv, NEW d \in Doers, doer[d].at = "do", MayStart, Start(d),
           UNCHANGED <<door, generation, holder>>,
           \/ doer[d].request \notin Takeovers /\ takeover' = takeover
           \/ doer[d].request \in Takeovers /\ takeover = 0 /\ takeover' = Len(ops) + 1
    PROVE  IInv'
  <1>a. doer[d] \in Hands /\ doer[d].request \in Requests /\ doer[d].id \in 0 .. asked
          /\ doer[d].generation \in 1 .. generation /\ doer[d].at = "do"
    BY DEF IInv, Shape, DoerShape, Carries
  <1>b. PICK n \in Nat : n = Len(ops) + 1 /\ DOMAIN ops = 1 .. n - 1 /\ n <= MaxOperations
    BY Known, ConstantsAssumption DEF IInv, Shape, OpsShape, MayStart, ConstantsAssumption
  <1>c. asked \in Nat /\ generation \in Nat
    BY ConstantsAssumption DEF IInv, Shape, DoorShape, OpsShape, ConstantsAssumption
  <1>0. asked' = asked /\ generation' = generation /\ holder' = holder
          /\ waiting' = waiting /\ requests' = requests /\ evicted' = evicted
          /\ refused' = refused
    BY DEF door
  <1>1. Growing
    BY <1>0, Still DEF IInv
  <1>2. DoorShape'
    BY <1>1, DoorStays DEF IInv
  <1>3. /\ ops' \in Seq(Operations) /\ Len(ops') = n /\ DOMAIN ops' = 1 .. n
        /\ \A p \in DOMAIN ops : ops'[p] = ops[p]
        /\ ops'[n].request = doer[d].request /\ ops'[n].id = doer[d].id
        /\ ops'[n].generation = doer[d].generation
        /\ ops'[n].life = "made" /\ ops'[n].hold = "no"
    <2>1. doer[d].id \in Nat /\ doer[d].generation \in Nat
      BY <1>a DEF Hands
    <2> QED
      BY <1>a, <1>b, <2>1, StartOps DEF IInv, Shape, OpsShape, SameWho
  <1>4. /\ DoerShape'
        /\ \A e \in Doers : e # d => doer'[e] = doer[e]
        /\ doer'[d].at = "made" /\ doer'[d].op = n
    <2> DEFINE new == [doer[d] EXCEPT !.at = "made", !.op = n]
    <2>1. doer' = [doer EXCEPT ![d] = new]
      BY <1>b DEF Start
    <2>2. /\ new \in Hands /\ new.at = "made" /\ new.op = n /\ new.id = doer[d].id
      BY <1>a DEF Hands
    <2> HIDE DEF new
    <2>3. Carries(d, new, asked', generation')
      <3>1. Carries(d, doer[d], asked, generation)
        BY DEF IInv, Shape, DoerShape
      <3> QED
        BY <1>0, <2>2, <3>1 DEF Carries
    <2>4. /\ DoerShape'
          /\ \A e \in Doers : doer'[e] = IF e = d THEN new ELSE doer[e]
      BY <1>1, <2>1, <2>3, DoerMoves DEF IInv, Shape
    <2> QED
      BY <2>2, <2>4
  <1>5. OpsShape'
    <2>1. /\ generation' \in 1 .. MaxGeneration
          /\ holder' \in {"none", "behavior", "agent"}
          /\ takeover' \in 0 .. n /\ Len(ops') <= MaxOperations
      BY <1>0, <1>b, <1>3 DEF IInv, Shape, OpsShape
    <2>2. ASSUME NEW o \in 1 .. n
          PROVE  ops'[o].generation \in 1 .. generation /\ ops'[o].id \in 0 .. asked
      <3>1. CASE o = n
        BY <1>a, <1>3, <3>1
      <3>2. CASE o # n
        <4>1. o \in DOMAIN ops
          BY <1>b, <3>2
        <4> QED
          BY <1>3, <4>1 DEF IInv, Shape, OpsShape
      <3> QED
        BY <3>1, <3>2
    <2> QED
      BY <1>0, <1>3, <2>1, <2>2 DEF OpsShape
  <1>6. Held'
    <2>1. /\ \A o \in DOMAIN ops : ops[o].hold # "no" => takeover = o
          /\ holder = "agent" => takeover # 0 /\ ops[takeover].hold = "holding"
      BY DEF IInv, Held, HeldByTheRecord
    <2>2. \A o \in 1 .. n : o # n => o \in DOMAIN ops /\ ops'[o] = ops[o] /\ o # 0
      BY <1>b, <1>3
    <2>3. \A o \in 1 .. n : ops'[o].hold # "no" => takeover' = o
      BY <1>3, <2>1, <2>2
    <2>4. holder' = "agent" => takeover' # 0 /\ ops'[takeover'].hold = "holding"
      <3>1. SUFFICES ASSUME holder = "agent" PROVE takeover' # 0 /\ ops'[takeover'].hold = "holding"
        BY <1>0
      <3>2. takeover' = takeover /\ takeover # 0 /\ takeover \in DOMAIN ops
        BY <1>b, <2>1, <3>1 DEF IInv, Shape, OpsShape
      <3> QED
        BY <1>3, <2>1, <3>1, <3>2
    <2>5. HeldByTheRecord'
      BY <1>3, <2>3, <2>4 DEF HeldByTheRecord
    <2>6. ASSUME NEW e \in Doers, doer'[e].at = "made"
          PROVE  /\ doer'[e].op \in 1 .. n /\ ops'[doer'[e].op].life = "made"
                 /\ ops'[doer'[e].op].request \in Takeovers => takeover' = doer'[e].op
                 /\ \A f \in Doers : doer'[f].at = "made" /\ doer'[f].op = doer'[e].op => e = f
      <3>0. \A f \in Doers : f # d /\ doer'[f].at = "made" =>
               /\ doer'[f] = doer[f] /\ doer[f].op \in DOMAIN ops /\ doer[f].op # n
               /\ ops[doer[f].op].life = "made"
               /\ ops[doer[f].op].request \in Takeovers => takeover = doer[f].op
        BY <1>b, <1>4 DEF IInv, Held, MadeIsRecorded, IsTakeover
      <3>1. CASE e = d
        BY <1>b, <1>3, <1>4, <3>0, <3>1
      <3>2. CASE e # d
        <4>1. /\ doer'[e].op \in 1 .. n /\ ops'[doer'[e].op] = ops[doer[e].op]
              /\ ops'[doer'[e].op].life = "made"
          BY <1>b, <1>3, <2>6, <3>0, <3>2
        <4>2. ops'[doer'[e].op].request \in Takeovers => takeover' = doer'[e].op
          BY <1>b, <2>6, <3>0, <3>2, <4>1
        <4>3. \A f \in Doers : doer'[f].at = "made" /\ doer'[f].op = doer'[e].op => e = f
          BY <1>4, <2>6, <3>0, <3>2 DEF IInv, Held, MadeIsRecorded
        <4> QED
          BY <4>1, <4>2, <4>3
      <3> QED
        BY <3>1, <3>2
    <2>7. MadeIsRecorded'
      BY <1>3, <2>6 DEF MadeIsRecorded, IsTakeover
    <2> QED
      BY <2>5, <2>7 DEF Held
  <1>d. InHand(d) /\ ~InHand(d)' /\ \A e \in Doers : e # d => InHand(e)' = InHand(e)
    BY <1>a, <1>4 DEF InHand
  <1>7. Decided'
    <2>0. Ids(waiting)' = Ids(waiting) /\ Player \in Doers
      BY <1>0 DEF Ids, Doers
    <2>1. InHand(Player)' => InHand(Player) /\ doer'[Player] = doer[Player] /\ d # Player
      BY <1>4, <1>d, <2>0
    <2>2. ops'[n].id # 0 => d = Player /\ ops'[n].id = doer[Player].id
      BY <1>3 DEF IInv, Shape, DoerShape, Carries
    <2>3. \A o \in 1 .. n : o # n => o \in DOMAIN ops /\ ops'[o] = ops[o]
      BY <1>b, <1>3
    <2>4. ASSUME NEW o \in 1 .. n, ops'[o].id # 0
          PROVE  /\ ops'[o].id \notin refused \cup Ids(waiting)
                 /\ \A p \in 1 .. n : ops'[p].id = ops'[o].id => p = o
                 /\ InHand(Player)' => ops'[o].id # doer'[Player].id
      <3>1. CASE o = n
        BY <1>d, <2>1, <2>2, <2>3, <2>4, <3>1 DEF IInv, Decided
      <3>2. CASE o # n
        BY <1>d, <2>1, <2>2, <2>3, <2>4, <3>2 DEF IInv, Decided
      <3> QED
        BY <3>1, <3>2
    <2>5. InHand(Player)' => doer'[Player].id \notin refused \cup Ids(waiting)
      BY <2>1 DEF IInv, Decided
    <2>6. \A w \in waiting : w.id \notin refused
      BY DEF IInv, Decided
    <2> QED
      BY <1>0, <1>3, <2>0, <2>4, <2>5, <2>6 DEF Decided
  <1>8. Once'
    <2>1. \A e \in Doers : InHand(e)' => InHand(e) /\ doer'[e] = doer[e] /\ e # d
      BY <1>4, <1>d
    <2>2. \A o \in 1 .. n : o # n => o \in DOMAIN ops /\ ops'[o] = ops[o]
      BY <1>b, <1>3
    <2>3. ASSUME NEW q \in Requests \ evicted
          PROVE  ForgottenNot(q)'
      <3>1. ForgottenNot(q)
        BY DEF IInv, Once
      <3>2. Remembered(q)' <=> Remembered(q)
        BY <1>0 DEF Remembered
      <3>3. (\E o \in 1 .. n : ops'[o].request = q) =>
               \/ \E o \in DOMAIN ops : ops[o].request = q
               \/ InHand(d) /\ doer[d].request = q
        BY <1>3, <1>d, <2>2
      <3> QED
        BY <1>0, <1>3, <2>1, <3>1, <3>2, <3>3 DEF ForgottenNot
    <2>4. ASSUME NEW q \in Requests \ evicted
          PROVE  /\ \A o \in 1 .. n : ops'[o].request = q =>
                       /\ \A p \in 1 .. n : ops'[p].request = q => o = p
                       /\ \A w \in waiting : w.request # q
                       /\ \A e \in Doers : InHand(e)' => doer'[e].request # q
                 /\ \A w \in waiting : w.request = q =>
                       /\ \A v \in waiting : v.request = q => v = w
                       /\ \A e \in Doers : InHand(e)' => doer'[e].request # q
                 /\ \A e, f \in Doers :
                       InHand(e)' /\ doer'[e].request = q
                         /\ InHand(f)' /\ doer'[f].request = q => e = f
      <3>1. /\ \A o \in DOMAIN ops : ops[o].request = q =>
                  /\ \A p \in DOMAIN ops : ops[p].request = q => o = p
                  /\ \A w \in waiting : w.request # q
                  /\ \A e \in Doers : InHand(e) => doer[e].request # q
            /\ \A w \in waiting : w.request = q =>
                  /\ \A v \in waiting : v.request = q => v = w
                  /\ \A e \in Doers : InHand(e) => doer[e].request # q
            /\ \A e, f \in Doers :
                  InHand(e) /\ doer[e].request = q /\ InHand(f) /\ doer[f].request = q => e = f
        BY DEF IInv, Once
      <3>2. CASE doer[d].request = q
        <4>1. /\ \A o \in DOMAIN ops : ops[o].request # q
              /\ \A w \in waiting : w.request # q
              /\ \A e \in Doers : InHand(e)' => doer'[e].request # q
          BY <1>d, <2>1, <3>1, <3>2
        <4> QED
          BY <2>2, <4>1
      <3>3. CASE doer[d].request # q
        <4>1. ops'[n].request # q
          BY <1>3, <3>3
        <4> QED
          BY <2>1, <2>2, <3>1, <4>1
      <3> QED
        BY <3>2, <3>3
    <2> QED
      BY <1>0, <1>3, <2>3, <2>4 DEF Once
  <1> QED
    BY <1>2, <1>4, <1>5, <1>6, <1>7, <1>8 DEF IInv, Shape

LEMMA StartsStep ==
    ASSUME IInv, NEW d \in Doers, KeepLine(d) \/ StartRun(d) \/ RecordTakeover(d)
    PROVE  IInv'
  <1>1. CASE KeepLine(d) \/ StartRun(d)
    <2>1. doer[d].at = "do" /\ MayStart /\ Start(d)
            /\ UNCHANGED <<door, generation, holder>> /\ takeover' = takeover
      BY <1>1 DEF KeepLine, StartRun, Doing, world
    <2>2. doer[d].request \notin Takeovers
      BY <1>1, ConstantsAssumption DEF KeepLine, StartRun, Doing, ConstantsAssumption
    <2> QED
      BY <2>1, <2>2, StartStep
  <1>2. CASE RecordTakeover(d)
    <2>1. doer[d].at = "do" /\ MayStart /\ Start(d) /\ doer[d].request \in Takeovers
            /\ UNCHANGED <<door, generation, holder>>
            /\ takeover = 0 /\ takeover' = Len(ops) + 1
      BY <1>2 DEF RecordTakeover, Doing
    <2> QED
      BY <2>1, StartStep
  <1> QED
    BY <1>1, <1>2

LEMMA RegisterStep ==
    ASSUME IInv, NEW d \in Doers, Register(d)
    PROVE  IInv'
  <1>0. /\ doer[d].at = "made" /\ Step(d, "done")
        /\ UNCHANGED door /\ UNCHANGED <<generation, holder, takeover>>
        /\ asked' = asked
    BY DEF Register, world, door
  <1>1. Growing
    BY <1>0, Still DEF IInv
  <1>2. DoorShape' /\ NoneAsked /\ NoneForgotten
    BY <1>0, <1>1, DoorStays DEF IInv
  <1>3. DoerShape' /\ NoneMade /\ NoneTakenUp
    BY <1>0, <1>1, DoerSteps DEF IInv, Shape
  <1>4. PICK o \in DOMAIN ops : o = doer[d].op
    BY <1>0 DEF IInv, Held, MadeIsRecorded
  <1>5. /\ OpsKept
        /\ \A p \in DOMAIN ops : p # o => ops'[p] = ops[p]
        /\ ops'[o].hold = IF IsTakeover(o) THEN "starting" ELSE "no"
    BY <1>4, RegisterOps DEF IInv, Shape, OpsShape
  <1>6. /\ DOMAIN ops' = DOMAIN ops /\ ops[o] \in Operations /\ o # 0
        /\ \A p \in DOMAIN ops : ops'[p].request = ops[p].request
    BY <1>5, Known DEF OpsKept, SameWho, IInv, Shape, OpsShape
  <1>7. ops[o].life = "made" /\ ops[o].hold = "no" /\ (IsTakeover(o) => takeover = o)
    BY <1>0, <1>4, <1>6 DEF IInv, Held, MadeIsRecorded, Operations
  <1>8. HeldByTheRecord'
    <2>1. \A p \in DOMAIN ops : ops'[p].hold # "no" => takeover' = p
      BY <1>0, <1>5, <1>7 DEF IInv, Held, HeldByTheRecord
    <2>2. holder' = "agent" => takeover' # 0 /\ ops'[takeover'].hold = "holding"
      <3>1. SUFFICES ASSUME holder = "agent"
                     PROVE  takeover # 0 /\ ops'[takeover].hold = "holding"
        BY <1>0
      <3>2. takeover # 0 /\ ops[takeover].hold = "holding" /\ takeover \in DOMAIN ops
        BY <3>1, Known DEF IInv, Held, HeldByTheRecord, Shape, OpsShape
      <3> QED
        BY <1>5, <1>7, <3>2
    <2> QED
      BY <1>6, <2>1, <2>2 DEF HeldByTheRecord
  <1>9. MadeIsRecorded'
    <2>0. doer'[d].at = "done"
      BY <1>0 DEF Step, IInv, Shape, DoerShape, Hands
    <2>1. ASSUME NEW e \in Doers, doer'[e].at = "made"
          PROVE  /\ doer'[e].op \in DOMAIN ops /\ ops'[doer'[e].op].life = "made"
                 /\ ops'[doer'[e].op].request \in Takeovers => takeover = doer'[e].op
                 /\ \A f \in Doers : doer'[f].at = "made" /\ doer'[f].op = doer'[e].op => e = f
      <3>1. e # d /\ doer[e].at = "made" /\ doer'[e].op = doer[e].op
        BY <1>3, <2>0, <2>1 DEF NoneMade
      <3>2. /\ doer[e].op \in DOMAIN ops /\ ops[doer[e].op].life = "made" /\ doer[e].op # o
            /\ ops[doer[e].op].request \in Takeovers => takeover = doer[e].op
            /\ \A f \in Doers : doer[f].at = "made" /\ doer[f].op = doer[e].op => e = f
        BY <1>0, <1>4, <3>1 DEF IInv, Held, MadeIsRecorded, IsTakeover
      <3> QED
        BY <1>3, <1>5, <3>1, <3>2 DEF NoneMade
    <2> QED
      BY <1>0, <1>6, <2>1 DEF MadeIsRecorded, IsTakeover
  <1>10. OpsShape'
    BY <1>0, <1>1, <1>5, OpsGrow DEF IInv, Shape, OpsShape
  <1>11. Decided' /\ Once'
    BY <1>2, <1>3, <1>5, DecidedKept, OnceKept DEF IInv, NoneAsked
  <1> QED
    BY <1>2, <1>3, <1>8, <1>9, <1>10, <1>11 DEF IInv, Shape, Held

(* Steps of a caller with the door and the world as they were.             *)
LEMMA QuietStep ==
    ASSUME IInv, UNCHANGED <<door, world>>, OpsKept, HoldsKept,
           Growing => DoerShape' /\ NoneMade /\ NoneTakenUp
    PROVE  IInv'
  <1>0. UNCHANGED door /\ UNCHANGED <<generation, holder, takeover>> /\ asked' = asked
    BY DEF world, door
  <1>1. Growing
    BY <1>0, Still DEF IInv
  <1>2. DoorShape' /\ NoneAsked /\ NoneForgotten
    BY <1>0, <1>1, DoorStays DEF IInv
  <1> QED
    BY <1>0, <1>1, <1>2, Calm DEF IInv, Shape, OpsShape, HolderKept

LEMMA AlreadyHeldStep ==
    ASSUME IInv, NEW d \in Doers, AlreadyHeld(d)
    PROVE  IInv'
  <1>0. doer[d].at = "do" /\ Step(d, "failed") /\ UNCHANGED <<door, world>> /\ UNCHANGED ops
    BY DEF AlreadyHeld, Doing
  <1>1. OpsKept /\ HoldsKept
    BY <1>0, NoneChanged DEF IInv, Shape, OpsShape
  <1>2. Growing => DoerShape' /\ NoneMade /\ NoneTakenUp
    BY <1>0, DoerSteps DEF IInv, Shape, InHand
  <1> QED
    BY <1>0, <1>1, <1>2, QuietStep

LEMMA ReadTokenStep ==
    ASSUME IInv, NEW d \in Doers, ReadToken(d)
    PROVE  IInv'
  <1> DEFINE new == [doer[d] EXCEPT !.token = IF takeover # 0 THEN "agent" ELSE "none"]
  <1>0. /\ doer[d].at = "do" /\ doer' = [doer EXCEPT ![d] = new]
        /\ UNCHANGED <<door, world>> /\ UNCHANGED ops
    BY DEF ReadToken, Doing
  <1>1. OpsKept /\ HoldsKept
    BY <1>0, NoneChanged DEF IInv, Shape, OpsShape
  <1>2. ASSUME Growing
        PROVE  DoerShape' /\ NoneMade /\ NoneTakenUp
    <2>1. doer[d] \in Hands /\ Carries(d, doer[d], asked', generation')
      BY <1>2, DoersGrow DEF IInv, Shape, DoerShape
    <2>2. /\ new \in Hands /\ new.at = "do" /\ new.request = doer[d].request
          /\ new.id = doer[d].id /\ new.generation = doer[d].generation
      BY <1>0, <2>1 DEF Hands
    <2> HIDE DEF new
    <2>3. Carries(d, new, asked', generation')
      BY <1>0, <2>1, <2>2 DEF Carries
    <2>4. InHand(d)
      BY <1>0 DEF InHand
    <2> QED
      BY <1>0, <1>2, <2>2, <2>3, <2>4, DoerMoves DEF IInv, Shape
  <1> QED
    BY <1>0, <1>1, <1>2, QuietStep

LEMMA SteerStep ==
    ASSUME IInv, NEW d \in Doers, Steer(d)
    PROVE  IInv'
  <1>0. doer[d].at = "do" /\ UNCHANGED <<door, world>>
    BY DEF Steer, Doing
  <1>1. \/ 1 \in DOMAIN ops /\ ops' = Stopped(1) /\ Step(d, "done")
        \/ UNCHANGED ops /\ Step(d, "failed")
    BY DEF Steer, IsOpen
  <1>2. OpsKept /\ HoldsKept
    <2>1. CASE 1 \in DOMAIN ops /\ ops' = Stopped(1)
      BY <2>1, StoppedOps DEF IInv, Shape, OpsShape
    <2>2. CASE UNCHANGED ops
      BY <2>2, NoneChanged DEF IInv, Shape, OpsShape
    <2> QED
      BY <1>1, <2>1, <2>2
  <1>3. Growing => DoerShape' /\ NoneMade /\ NoneTakenUp
    <2>1. CASE Step(d, "done")
      BY <1>0, <2>1, DoerSteps DEF IInv, Shape
    <2>2. CASE Step(d, "failed")
      BY <1>0, <2>2, DoerSteps DEF IInv, Shape, InHand
    <2> QED
      BY <1>1, <2>1, <2>2
  <1> QED
    BY <1>0, <1>2, <1>3, QuietStep

(* What was remembered is settled, each where it was.                      *)
LEMMA SettleStep ==
    ASSUME IInv, NEW d \in Doers, Settle(d)
    PROVE  IInv'
  <1>0. /\ Done(d) /\ UNCHANGED ops /\ UNCHANGED <<generation, holder, takeover>>
        /\ UNCHANGED <<level, waiting, late, asked, refused, evicted>>
        /\ requests \in Seq(Admissions) /\ Len(requests) <= Kept
        /\ doer[d] \in Hands
    BY DEF Settle, world, IInv, Shape, DoorShape, DoerShape
  <1>1. Growing
    BY <1>0, Still DEF IInv
  <1>2. /\ DOMAIN requests = 1 .. Len(requests) /\ Len(requests) \in Nat
        /\ \A i \in DOMAIN requests : requests[i] \in Admissions
    BY <1>0, KnownRequests
  <1> DEFINE answer == Answer("done", doer[d].op)
  <1>3. answer \in [is : {"in flight", "asked", "not approved", "done"}, n : Nat]
    BY <1>0 DEF Answer, Hands
  <1> HIDE DEF answer
  <1>4. requests' = [i \in DOMAIN requests |->
                        IF Entry(d, requests[i])
                        THEN [requests[i] EXCEPT !.answer = answer] ELSE requests[i]]
    BY DEF Settle, answer
  <1>5. ASSUME NEW i \in DOMAIN requests
        PROVE  requests'[i] \in Admissions /\ requests'[i].request = requests[i].request
    <2>1. /\ [requests[i] EXCEPT !.answer = answer] \in Admissions
          /\ [requests[i] EXCEPT !.answer = answer].request = requests[i].request
      BY <1>2, <1>3 DEF Admissions
    <2> QED
      BY <1>2, <1>4, <2>1
  <1>6. requests' \in [1 .. Len(requests) -> Admissions]
    BY <1>2, <1>4, <1>5
  <1>7. /\ requests' \in Seq(Admissions) /\ Len(requests') = Len(requests)
        /\ DOMAIN requests' = DOMAIN requests
    <2>1. requests' \in Seq(Admissions)
      BY <1>2, <1>6, SeqDef
    <2> QED
      BY <1>2, <1>6, <2>1, LenProperties
  <1>8. NoneForgotten /\ NoneAsked
    BY <1>0, <1>5, <1>7 DEF NoneForgotten, StillRemembered, NoneAsked
  <1>9. DoorShape'
    BY <1>0, <1>7 DEF IInv, Shape, DoorShape, Ids
  <1>10. DoerShape' /\ NoneMade /\ NoneTakenUp
    BY <1>0, <1>1, DoerDone DEF IInv, Shape
  <1>11. OpsKept /\ HoldsKept
    BY <1>0, NoneChanged DEF IInv, Shape, OpsShape
  <1> QED
    BY <1>0, <1>1, <1>8, <1>9, <1>10, <1>11, Calm DEF IInv, Shape, OpsShape, HolderKept

(* A call that failed forgets its request, which is in no other hand and   *)
(* was not done; the player's is remembered as not approved.               *)
LEMMA FailStep ==
    ASSUME IInv, NEW d \in Doers, Fail(d)
    PROVE  IInv'
  <1>0. /\ doer[d].at = "failed" /\ Done(d) /\ UNCHANGED ops
        /\ UNCHANGED <<generation, holder, takeover>>
        /\ UNCHANGED <<level, waiting, late, asked, refused, evicted>>
        /\ requests \in Seq(Admissions) /\ Len(requests) <= Kept
        /\ requests' = IF d = Player THEN NotApproved(requests, {doer[d].id})
                       ELSE Forgotten(doer[d].request)
    BY DEF Fail, world, IInv, Shape, DoorShape
  <1>1. Growing
    BY <1>0, Still DEF IInv
  <1>2. DoerShape' /\ NoneMade /\ NoneTakenUp
    BY <1>0, <1>1, DoerDone DEF IInv, Shape
  <1>3. OpsKept /\ HoldsKept
    BY <1>0, NoneChanged DEF IInv, Shape, OpsShape
  <1>4. NoneAsked
    BY <1>0 DEF NoneAsked
  <1>5. CASE d = Player
    <2>1. /\ requests' \in Seq(Admissions) /\ Len(requests') = Len(requests)
          /\ DOMAIN requests' = DOMAIN requests
          /\ \A i \in DOMAIN requests : requests'[i].request = requests[i].request
      BY <1>0, <1>5, NotApprovedKeeps
    <2>2. NoneForgotten
      BY <1>0, <2>1 DEF NoneForgotten, StillRemembered
    <2>3. DoorShape'
      BY <1>0, <2>1 DEF IInv, Shape, DoorShape, Ids
    <2> QED
      BY <1>0, <1>1, <1>2, <1>3, <1>4, <2>2, <2>3, Calm
      DEF IInv, Shape, OpsShape, HolderKept
  <1>6. CASE d # Player
    <2>a. PICK r : r = doer[d].request
      OBVIOUS
    <2>1. /\ requests' \in Seq(Admissions) /\ Len(requests') <= Len(requests)
          /\ \A q \in Requests : q # r /\ Remembered(q) =>
                \E i \in DOMAIN requests' : requests'[i].request = q
      BY <1>0, <1>6, <2>a, ForgottenKeeps
    <2>2. DoorShape'
      <3>1. Len(requests') <= Kept
        <4>1. Len(requests') \in Nat /\ Len(requests) \in Nat /\ Kept \in Nat
          BY <1>0, <2>1, LenProperties, ConstantsAssumption DEF ConstantsAssumption
        <4> QED
          BY <1>0, <2>1, <4>1
      <3> QED
        BY <1>0, <2>1, <3>1 DEF IInv, Shape, DoorShape, Ids
    <2>3. OpsShape' /\ Held' /\ Decided'
      BY <1>0, <1>1, <1>2, <1>3, <1>4, OpsGrow, HeldKept, DecidedKept
      DEF IInv, Shape, OpsShape, HolderKept
    <2>4. \A e \in Doers : InHand(e)' => InHand(e) /\ doer'[e].request = doer[e].request
      BY <1>2 DEF NoneTakenUp
    <2>5. InHand(d) /\ ~InHand(d)'
      BY <1>0, <1>6 DEF InHand, Done, Idle, IInv, Shape, DoerShape
    <2>6. r \in Requests \ evicted =>
             /\ \A o \in DOMAIN ops : ops[o].request # r
             /\ \A w \in waiting : w.request # r
             /\ \A e \in Doers : InHand(e) /\ doer[e].request = r => e = d
      BY <2>a, <2>5 DEF IInv, Once
    <2>7. ASSUME NEW q \in Requests \ evicted
          PROVE  ForgottenNot(q)'
      <3>1. CASE q = r
        BY <1>0, <2>4, <2>5, <2>6, <3>1 DEF ForgottenNot
      <3>2. CASE q # r
        <4>1. ForgottenNot(q) /\ (Remembered(q) => Remembered(q)')
          BY <2>1, <3>2 DEF IInv, Once, Remembered
        <4> QED
          BY <1>0, <2>4, <4>1 DEF ForgottenNot
      <3> QED
        BY <3>1, <3>2
    <2>8. Once'
      BY <1>0, <2>4, <2>7 DEF IInv, Once
    <2> QED
      BY <1>2, <2>2, <2>3, <2>8 DEF IInv, Shape
  <1> QED
    BY <1>5, <1>6

-----------------------------------------------------------------------------
(* The player.                                                             *)

LEMMA ListStep ==
    ASSUME IInv, ListRequests
    PROVE  IInv'
  <1>0. OnlyLapse /\ UNCHANGED ops /\ UNCHANGED doer
          /\ UNCHANGED <<generation, holder, takeover>>
    BY DEF ListRequests, world
  <1>1. DoorShape' /\ NoneAsked /\ NoneForgotten /\ asked' = asked
    BY <1>0, OnlyLapses DEF IInv
  <1>2. Growing
    BY <1>0, <1>1, Still DEF IInv
  <1>3. DoerShape' /\ NoneMade /\ NoneTakenUp
    BY <1>0, <1>2, DoersStay DEF IInv, Shape
  <1>4. OpsKept /\ HoldsKept
    BY <1>0, NoneChanged DEF IInv, Shape, OpsShape
  <1> QED
    BY <1>0, <1>1, <1>2, <1>3, <1>4, Calm DEF IInv, Shape, OpsShape, HolderKept

(* The player takes a request up, or refuses it.                           *)
LEMMA TakeStep ==
    ASSUME IInv, NEW w \in Live, Approve(w) \/ Deny(w)
    PROVE  IInv'
  <1>a. PICK ask \in waiting : ask = w /\ ask.id \notin late
    BY DEF Live
  <1>b. /\ ask.id \in 1 .. asked /\ ask.request \in Requests /\ ask.generation \in 1 .. generation
        /\ late \subseteq Ids(waiting) /\ Ids(waiting) \subseteq 1 .. asked
        /\ ask.id \in Ids(waiting)
    BY DEF IInv, Shape, DoorShape, Ids
  <1>c. PICK to \in {"taken", "failed"} :
           /\ TakeRequest(w, to)
           /\ refused' = IF to = "taken" THEN refused \cup late ELSE refused \cup late \cup {ask.id}
    BY <1>a DEF Approve, Deny
  <1>0. /\ doer[Player].at = "idle"
        /\ waiting' = {v \in Live : v.id # ask.id} /\ requests' = Lapsed /\ late' = {}
        /\ UNCHANGED <<level, asked, evicted>> /\ UNCHANGED ops
        /\ UNCHANGED <<generation, holder, takeover>> /\ Player \in Doers
    BY <1>a, <1>c DEF TakeRequest, PlayerIs, world, Doers
  <1>1. Growing
    BY <1>0, Still DEF IInv
  <1>2. /\ requests' \in Seq(Admissions) /\ Len(requests') = Len(requests)
        /\ StillRemembered
    BY <1>0, LapsedKeeps DEF IInv, Shape, DoorShape
  <1>3. /\ waiting' \subseteq waiting /\ \A v \in waiting' : v.id \notin late /\ v.id # ask.id
        /\ refused' \subseteq 1 .. asked /\ refused' \subseteq refused \cup Ids(waiting)
    BY <1>0, <1>b, <1>c DEF Live, IInv, Shape, DoorShape
  <1>4. DoorShape'
    BY <1>0, <1>2, <1>3 DEF IInv, Shape, DoorShape
  <1>5. NoneAsked /\ NoneForgotten
    BY <1>0, <1>c, <1>2, <1>3 DEF NoneAsked, NoneForgotten
  <1> DEFINE new == [Idle EXCEPT !.at = to, !.request = w.request, !.id = w.id,
                                 !.generation = w.generation]
  <1>6. /\ doer' = [doer EXCEPT ![Player] = new]
        /\ new.at = to /\ new.id = ask.id /\ new.request = ask.request
        /\ Carries(Player, new, asked', generation')
    <2>1. doer' = [doer EXCEPT ![Player] = new]
      BY <1>c DEF TakeRequest
    <2>2. /\ new.at = to /\ new.id = ask.id /\ new.request = ask.request
          /\ new.generation = ask.generation
      BY <1>a DEF Idle
    <2>3. new \in Hands
      <3>1. ask.id \in Nat /\ ask.generation \in Nat
        BY <1>b, <1>1 DEF Growing
      <3> QED
        BY <1>a, <1>b, <3>1 DEF Hands, Idle
    <2> HIDE DEF new
    <2>4. asked' = asked /\ generation' = generation /\ ask.id \in 0 .. asked /\ ask.id # 0
      BY <1>0, <1>b, <1>1 DEF Growing
    <2> QED
      BY <1>b, <2>1, <2>2, <2>3, <2>4 DEF Carries
  <1> HIDE DEF new
  <1>7. /\ DoerShape'
        /\ \A e \in Doers : doer'[e] = IF e = Player THEN new ELSE doer[e]
        /\ new.at # "made" => NoneMade
    BY <1>0, <1>1, <1>6, DoerMoves DEF IInv, Shape
  <1>8. OpsKept /\ HoldsKept
    BY <1>0, NoneChanged DEF IInv, Shape, OpsShape
  <1>9. NoneMade /\ HolderKept
    BY <1>0, <1>6, <1>7 DEF HolderKept
  <1>10. CASE to = "failed"
    <2>1. NoneTakenUp
      BY <1>0, <1>6, <1>7, <1>10 DEF NoneTakenUp, InHand
    <2> QED
      BY <1>0, <1>1, <1>4, <1>5, <1>7, <1>8, <1>9, <2>1, Calm
      DEF IInv, Shape, OpsShape
  <1>11. CASE to = "taken"
    <2>1. OpsShape' /\ Held'
      BY <1>0, <1>1, <1>8, <1>9, OpsGrow, HeldKept DEF IInv, Shape, OpsShape
    <2>2. /\ ~InHand(Player)
          /\ doer'[Player].id = ask.id /\ doer'[Player].request = ask.request
          /\ \A e \in Doers : e # Player =>
                InHand(e)' = InHand(e) /\ doer'[e].request = doer[e].request
      BY <1>0, <1>6, <1>7 DEF InHand
    <2>3. Decided'
      <3>1. refused' = refused \cup late
        BY <1>c, <1>11
      <3>2. ask.id \notin refused' \cup Ids(waiting)'
        BY <1>a, <1>3, <3>1 DEF Ids, IInv, Decided
      <3>3. Ids(waiting)' \subseteq Ids(waiting)
        BY <1>3 DEF Ids
      <3>4. \A v \in waiting' : v.id \notin refused'
        BY <1>3, <3>1 DEF IInv, Decided
      <3>5. ASSUME NEW o \in DOMAIN ops, ops[o].id # 0
            PROVE  /\ ops[o].id \notin refused' \cup Ids(waiting)'
                   /\ \A p \in DOMAIN ops : ops[p].id = ops[o].id => p = o
                   /\ ops[o].id # doer'[Player].id
        BY <1>3, <1>b, <2>2, <3>3, <3>5 DEF IInv, Decided
      <3> QED
        BY <1>0, <2>2, <3>2, <3>4, <3>5 DEF Decided
    <2>4. Once'
      <3>0. evicted' = evicted /\ ops' = ops
        BY <1>0
      <3>1. ask.request \in Requests \ evicted =>
               /\ \A o \in DOMAIN ops : ops[o].request # ask.request
               /\ \A v \in waiting' : v.request # ask.request
               /\ \A e \in Doers : e # Player => (InHand(e)' => doer'[e].request # ask.request)
               /\ Remembered(ask.request)
        BY <1>3, <2>2 DEF IInv, Once, ForgottenNot
      <3>2. ASSUME NEW q \in Requests \ evicted
            PROVE  ForgottenNot(q)'
        <4>1. ForgottenNot(q) /\ (Remembered(q) => Remembered(q)')
          BY <1>0, <1>2 DEF IInv, Once, StillRemembered, Remembered
        <4>2. (\E e \in Doers : InHand(e)' /\ doer'[e].request = q) =>
                 \/ \E e \in Doers : InHand(e) /\ doer[e].request = q
                 \/ \E v \in waiting : v.request = q
          BY <1>a, <2>2
        <4> QED
          BY <1>3, <3>0, <4>1, <4>2 DEF ForgottenNot
      <3>3. ASSUME NEW q \in Requests \ evicted
            PROVE  /\ \A o \in DOMAIN ops : ops[o].request = q =>
                         /\ \A p \in DOMAIN ops : ops[p].request = q => o = p
                         /\ \A v \in waiting' : v.request # q
                         /\ \A e \in Doers : InHand(e)' => doer'[e].request # q
                   /\ \A v \in waiting' : v.request = q =>
                         /\ \A u \in waiting' : u.request = q => u = v
                         /\ \A e \in Doers : InHand(e)' => doer'[e].request # q
                   /\ \A e, f \in Doers :
                         InHand(e)' /\ doer'[e].request = q
                           /\ InHand(f)' /\ doer'[f].request = q => e = f
        <4>1. CASE q = ask.request
          BY <3>1, <4>1
        <4>2. CASE q # ask.request
          <5>1. \A e \in Doers : InHand(e)' /\ doer'[e].request = q =>
                   InHand(e) /\ doer[e].request = q
            BY <2>2, <4>2
          <5> QED
            BY <1>3, <5>1 DEF IInv, Once
        <4> QED
          BY <4>1, <4>2
      <3> QED
        BY <3>0, <3>2, <3>3 DEF Once
    <2> QED
      BY <1>4, <1>7, <2>1, <2>3, <2>4 DEF IInv, Shape
  <1> QED
    BY <1>10, <1>11

LEMMA CheckStep ==
    ASSUME IInv, CheckConnection
    PROVE  IInv'
  <1>0. /\ doer[Player].at = "taken" /\ Player \in Doers
        /\ UNCHANGED <<door, world>> /\ UNCHANGED ops
    BY DEF CheckConnection, PlayerIs, Doers
  <1>1. PICK to \in {"do", "failed"} : Step(Player, to)
    BY DEF CheckConnection
  <1>2. OpsKept /\ HoldsKept
    BY <1>0, NoneChanged DEF IInv, Shape, OpsShape
  <1>3. Growing => DoerShape' /\ NoneMade /\ NoneTakenUp
    <2>1. to \in {"taken", "do", "done", "failed", "stop"} /\ InHand(Player)
      BY <1>0 DEF InHand
    <2> QED
      BY <1>0, <1>1, <2>1, DoerSteps DEF IInv, Shape
  <1> QED
    BY <1>0, <1>2, <1>3, QuietStep

(* The player goes on, with nothing in hand.                               *)
LEMMA PlayerGoesOn ==
    ASSUME DoerShape, Growing, NEW new \in Hands,
           doer' = [doer EXCEPT ![Player] = new],
           new.at \in {"idle", "lowered", "stopping", "found", "stop"}, new.id \in 0 .. asked'
    PROVE  DoerShape' /\ NoneMade /\ NoneTakenUp
  <1>1. Player \in Doers /\ Carries(Player, new, asked', generation')
    BY DEF Doers, Carries
  <1>2. new.at # "made" /\ new.at \notin {"taken", "do"}
    OBVIOUS
  <1> QED
    BY <1>1, <1>2, DoerMoves

LEMMA PlayerSetsStep ==
    ASSUME IInv, NEW l \in Levels, PlayerSetsLevel(l)
    PROVE  IInv'
  <1>0. /\ SetLevel(l, ops) /\ l \in Off .. Takeover
        /\ UNCHANGED <<generation, holder, takeover>>
    BY ConstantsAssumption DEF PlayerSetsLevel, world, ConstantsAssumption
  <1>1. DoorShape' /\ NoneAsked /\ NoneForgotten /\ asked' = asked
    BY <1>0, LevelSettles DEF IInv
  <1>2. Growing
    BY <1>0, <1>1, Still DEF IInv
  <1>3. OpsKept /\ HoldsKept
    <2>1. \A p \in DOMAIN ops : SameWho(ops[p], ops[p]) /\ SameHold(ops[p], ops[p])
      BY DEF SameWho, SameHold
    <2> QED
      BY <1>0, <2>1, SetLevelOps DEF IInv, Shape, OpsShape
  <1>4. DoerShape' /\ NoneMade /\ NoneTakenUp
    <2>1. CASE FoundHeld(l) = 0
      <3>1. Done(Player) /\ Player \in Doers
        BY <2>1 DEF PlayerSetsLevel, Done, Doers
      <3> QED
        BY <1>2, <3>1, DoerDone DEF IInv, Shape
    <2>2. CASE FoundHeld(l) # 0
      <3> DEFINE new == [Idle EXCEPT !.at = "lowered", !.op = FoundHeld(l)]
      <3>1. doer' = [doer EXCEPT ![Player] = new]
        BY <2>2 DEF PlayerSetsLevel
      <3>2. FoundHeld(l) \in Nat
        BY Known DEF FoundHeld, IInv, Shape, OpsShape
      <3>3. new \in Hands /\ new.at = "lowered" /\ new.id = 0
        BY <3>2 DEF Hands, Idle
      <3> HIDE DEF new
      <3>4. 0 \in 0 .. asked'
        BY <1>2 DEF Growing
      <3> QED
        BY <1>2, <3>1, <3>3, <3>4, PlayerGoesOn DEF IInv, Shape
    <2> QED
      BY <2>1, <2>2
  <1> QED
    BY <1>0, <1>1, <1>2, <1>3, <1>4, Calm DEF IInv, Shape, OpsShape, HolderKept

(* A takeover taken back: the authority let go, and the takeover told.     *)
LEMMA TakesBackStep ==
    ASSUME IInv, UNCHANGED <<door, generation, takeover>>,
           OpsKept, HoldsKept, holder' \in {holder, "none"},
           Growing => DoerShape' /\ NoneMade /\ NoneTakenUp
    PROVE  IInv'
  <1>0. UNCHANGED door /\ asked' = asked
    BY DEF door
  <1>1. Growing
    BY <1>0, Still DEF IInv
  <1>2. DoorShape' /\ NoneAsked /\ NoneForgotten
    BY <1>0, <1>1, DoorStays DEF IInv
  <1> QED
    BY <1>0, <1>1, <1>2, Calm DEF IInv, Shape, OpsShape, HolderKept

LEMMA Same ==
    ASSUME IInv
    PROVE  /\ ops \in Seq(Operations)
           /\ \A p \in DOMAIN ops : SameWho(ops[p], ops[p]) /\ SameHold(ops[p], ops[p])
           /\ Player \in Doers /\ doer[Player] \in Hands /\ doer[Player].id \in 0 .. asked
           /\ takeover \in Nat
  BY Known DEF SameWho, SameHold, IInv, Shape, OpsShape, DoerShape, Carries, Doers

LEMMA StopsStep ==
    ASSUME IInv,
           \/ PlayerTakesBack \/ StopAgent \/ FindTakeover \/ StopTakeover \/ StopsDone
           \/ \E o \in DOMAIN ops : StopOne(o)
    PROVE  IInv'
  <1>0. /\ ops \in Seq(Operations) /\ takeover \in Nat
        /\ \A p \in DOMAIN ops : SameWho(ops[p], ops[p]) /\ SameHold(ops[p], ops[p])
        /\ Player \in Doers /\ doer[Player] \in Hands /\ doer[Player].id \in 0 .. asked
        /\ DoerShape
    BY Same DEF IInv, Shape
  <1>a. Growing => \A n \in 0 .. asked : n \in 0 .. asked'
    BY DEF Growing
  <1>1. CASE PlayerTakesBack
    <2>1. TakeBack(doer[Player].op, ops) /\ Done(Player) /\ UNCHANGED <<door, generation, takeover>>
      BY <1>1 DEF PlayerTakesBack
    <2>2. OpsKept /\ HoldsKept /\ holder' \in {holder, "none"}
      BY <1>0, <2>1, TakeBackOps
    <2>3. Growing => DoerShape' /\ NoneMade /\ NoneTakenUp
      BY <1>0, <2>1, DoerDone
    <2> QED
      BY <2>1, <2>2, <2>3, TakesBackStep
  <1>2. CASE StopAgent
    <2> DEFINE new == [Idle EXCEPT !.at = "stopping", !.running = {o \in DOMAIN ops : Running(o)}]
    <2>1. doer' = [doer EXCEPT ![Player] = new] /\ UNCHANGED <<door, world>> /\ UNCHANGED ops
      BY <1>2 DEF StopAgent
    <2>2. OpsKept /\ HoldsKept
      BY <1>0, <2>1, NoneChanged
    <2>3. new \in Hands /\ new.at = "stopping" /\ new.id = 0
      <3>1. {o \in DOMAIN ops : Running(o)} \in SUBSET Nat
        BY <1>0, Known
      <3> QED
        BY <3>1 DEF Hands, Idle
    <2>4. Growing => 0 \in 0 .. asked'
      BY DEF Growing
    <2> HIDE DEF new
    <2>5. Growing => DoerShape' /\ NoneMade /\ NoneTakenUp
      BY <1>0, <2>1, <2>3, <2>4, PlayerGoesOn
    <2> QED
      BY <2>1, <2>2, <2>5, QuietStep
  <1>3. CASE FindTakeover
    <2> DEFINE new == [doer[Player] EXCEPT !.at = IF takeover # 0 THEN "found" ELSE "stop",
                                           !.op = takeover, !.running = @ \ {takeover}]
    <2>1. doer' = [doer EXCEPT ![Player] = new] /\ UNCHANGED <<door, world>> /\ UNCHANGED ops
      BY <1>3 DEF FindTakeover
    <2>2. OpsKept /\ HoldsKept
      BY <1>0, <2>1, NoneChanged
    <2>3. new \in Hands /\ new.at \in {"found", "stop"} /\ new.id = doer[Player].id
      BY <1>0 DEF Hands
    <2> HIDE DEF new
    <2>4. Growing => DoerShape' /\ NoneMade /\ NoneTakenUp
      BY <1>0, <1>a, <2>1, <2>3, PlayerGoesOn
    <2> QED
      BY <2>1, <2>2, <2>4, QuietStep
  <1>6. CASE StopTakeover
    <2>1. /\ TakeBack(doer[Player].op, ops) /\ Step(Player, "stop")
          /\ UNCHANGED <<door, generation, takeover>>
      BY <1>6 DEF StopTakeover
    <2>2. OpsKept /\ HoldsKept /\ holder' \in {holder, "none"}
      BY <1>0, <2>1, TakeBackOps
    <2>3. Growing => DoerShape' /\ NoneMade /\ NoneTakenUp
      BY <1>0, <2>1, DoerSteps
    <2> QED
      BY <2>1, <2>2, <2>3, TakesBackStep
  <1>4. CASE StopsDone
    <2>1. Done(Player) /\ UNCHANGED <<door, world>> /\ UNCHANGED ops
      BY <1>4 DEF StopsDone
    <2>2. OpsKept /\ HoldsKept
      BY <1>0, <2>1, NoneChanged
    <2>3. Growing => DoerShape' /\ NoneMade /\ NoneTakenUp
      BY <1>0, <2>1, DoerDone
    <2> QED
      BY <2>1, <2>2, <2>3, QuietStep
  <1>5. ASSUME NEW o \in DOMAIN ops, StopOne(o)
        PROVE  IInv'
    <2> DEFINE new == [doer[Player] EXCEPT !.running = @ \ {o}]
    <2>1. /\ doer' = [doer EXCEPT ![Player] = new] /\ UNCHANGED <<door, world>>
          /\ doer[Player].at = "stop"
      BY <1>5 DEF StopOne, PlayerIs
    <2>2. OpsKept /\ HoldsKept
      <3>1. ops' = Stopped(o) \/ UNCHANGED ops
        BY <1>5 DEF StopOne
      <3>2. CASE ops' = Stopped(o)
        BY <1>0, <3>2, StoppedOps
      <3>3. CASE UNCHANGED ops
        BY <1>0, <3>3, NoneChanged
      <3> QED
        BY <3>1, <3>2, <3>3
    <2>3. new \in Hands /\ new.at = "stop" /\ new.id = doer[Player].id
      BY <1>0, <2>1 DEF Hands
    <2> HIDE DEF new
    <2>4. Growing => DoerShape' /\ NoneMade /\ NoneTakenUp
      BY <1>0, <1>a, <2>1, <2>3, PlayerGoesOn
    <2> QED
      BY <2>1, <2>2, <2>4, QuietStep
  <1> QED
    BY <1>1, <1>2, <1>3, <1>4, <1>5, <1>6

(* A request's time runs out, a new connection, a behavior of the player's.*)
LEMMA AroundStep ==
    ASSUME IInv, Expire \/ Reconnect \/ BehaviorClaims
    PROVE  IInv'
  <1>0. ops \in Seq(Operations) /\ DoerShape
    BY Same DEF IInv, Shape
  <1>1. CASE Expire
    <2>1. /\ UNCHANGED <<level, waiting, requests, asked, refused, evicted>>
          /\ UNCHANGED <<generation, holder, takeover>> /\ UNCHANGED ops /\ UNCHANGED doer
          /\ late' \subseteq Ids(waiting)
      BY <1>1 DEF Expire, world, Live, Ids, IInv, Shape, DoorShape
    <2>2. Growing
      BY <2>1, Still DEF IInv
    <2>3. DoorShape' /\ NoneAsked /\ NoneForgotten
      BY <2>1 DEF IInv, Shape, DoorShape, Ids, NoneAsked, NoneForgotten, StillRemembered
    <2>4. OpsKept /\ HoldsKept /\ DoerShape' /\ NoneMade /\ NoneTakenUp
      BY <1>0, <2>1, <2>2, NoneChanged, DoersStay
    <2> QED
      BY <2>1, <2>2, <2>3, <2>4, Calm DEF IInv, Shape, OpsShape, HolderKept
  <1>2. CASE Reconnect
    <2>1. /\ UNCHANGED door /\ asked' = asked /\ UNCHANGED <<holder, takeover>>
          /\ UNCHANGED ops /\ UNCHANGED doer
          /\ generation < MaxGeneration /\ generation' = generation + 1
      BY <1>2 DEF Reconnect, door
    <2>2. Growing /\ generation' \in 1 .. MaxGeneration
      BY <2>1, ConstantsAssumption
      DEF Growing, IInv, Shape, DoorShape, OpsShape, ConstantsAssumption
    <2>3. DoorShape' /\ NoneAsked /\ NoneForgotten
      BY <2>1, <2>2, DoorStays DEF IInv
    <2>4. OpsKept /\ HoldsKept /\ DoerShape' /\ NoneMade /\ NoneTakenUp
      BY <1>0, <2>1, <2>2, NoneChanged, DoersStay
    <2> QED
      BY <2>1, <2>2, <2>3, <2>4, Calm DEF IInv, Shape, OpsShape, HolderKept
  <1>3. CASE BehaviorClaims
    <2>1. /\ UNCHANGED door /\ asked' = asked /\ UNCHANGED <<generation, takeover>>
          /\ UNCHANGED ops /\ UNCHANGED doer /\ holder' \in {"none", "behavior"}
      BY <1>3 DEF BehaviorClaims, door
    <2>2. Growing
      BY <2>1, Still DEF IInv
    <2>3. DoorShape' /\ NoneAsked /\ NoneForgotten
      BY <2>1, <2>2, DoorStays DEF IInv
    <2>4. OpsKept /\ HoldsKept /\ DoerShape' /\ NoneMade /\ NoneTakenUp
      BY <1>0, <2>1, <2>2, NoneChanged, DoersStay
    <2> QED
      BY <2>1, <2>2, <2>3, <2>4, Calm DEF IInv, Shape, OpsShape, HolderKept
  <1> QED
    BY <1>1, <1>2, <1>3

-----------------------------------------------------------------------------
(* The operations' tasks.                                                  *)

LEMMA TaskStep ==
    ASSUME IInv, NEW o \in DOMAIN ops,
           \/ Pop(o) \/ Refuse(o) \/ Write(o) \/ TripEnds(o)
           \/ LineResolves(o) \/ End(o) \/ LookAtLevel(o)
           \/ \E how \in {"good", "bad"} : RunEnds(o, how)
    PROVE  IInv'
  <1>1. UNCHANGED <<door, world>> /\ UNCHANGED doer
    BY DEF Pop, Refuse, Write, TripEnds, LineResolves, End, LookAtLevel, RunEnds
  <1>2. OpsKept /\ HoldsKept
    BY Same, TaskOps
  <1>3. Growing => DoerShape' /\ NoneMade /\ NoneTakenUp
    BY <1>1, DoersStay DEF IInv, Shape
  <1> QED
    BY <1>1, <1>2, <1>3, QuietStep

LEMMA DropStep ==
    ASSUME IInv, NEW o \in DOMAIN ops, DropLevel(o) \/ DropTakesBack(o)
    PROVE  IInv'
  <1>0. /\ OpsKept /\ HoldsKept /\ UNCHANGED doer /\ DoerShape
        /\ UNCHANGED <<generation, takeover>>
    BY Same, DropOps DEF DropLevel, DropTakesBack, world, IInv, Shape
  <1>1. CASE DropLevel(o)
    <2>1. UNCHANGED holder
      BY <1>1 DEF DropLevel, world
    <2>2. UNCHANGED door \/ \E held : SetLevel(Observe, held)
      BY <1>1 DEF DropLevel
    <2>3. CASE UNCHANGED door
      <3>1. UNCHANGED <<door, world>>
        BY <1>0, <2>1, <2>3 DEF world
      <3>2. Growing => DoerShape' /\ NoneMade /\ NoneTakenUp
        BY <1>0, DoersStay
      <3> QED
        BY <1>0, <3>1, <3>2, QuietStep
    <2>4. CASE \E held : SetLevel(Observe, held)
      <3>1. Observe \in Off .. Takeover
        BY DEF Observe, Off, Takeover
      <3>2. DoorShape' /\ NoneAsked /\ NoneForgotten /\ asked' = asked
        BY <1>0, <2>4, <3>1, LevelSettles DEF IInv
      <3>3. Growing
        BY <1>0, <3>2, Still DEF IInv
      <3>4. DoerShape' /\ NoneMade /\ NoneTakenUp
        BY <1>0, <3>3, DoersStay
      <3> QED
        BY <1>0, <2>1, <3>2, <3>3, <3>4, Calm DEF IInv, Shape, OpsShape, HolderKept
    <2> QED
      BY <2>2, <2>3, <2>4
  <1>2. CASE DropTakesBack(o)
    <2>1. UNCHANGED <<door, generation, takeover>>
            /\ holder' = IF holder = "agent" THEN "none" ELSE holder
      BY <1>2 DEF DropTakesBack, TakeBack
    <2>2. Growing => DoerShape' /\ NoneMade /\ NoneTakenUp
      BY <1>0, DoersStay
    <2> QED
      BY <1>0, <2>1, <2>2, TakesBackStep
  <1> QED
    BY <1>1, <1>2

(* A takeover preempts, claims, lets go and clears its record.             *)
LEMMA HoldStep ==
    ASSUME IInv, NEW o \in DOMAIN ops,
           Preempt(o) \/ Claim(o) \/ ClearRecord(o)
             \/ \E how \in {"good", "bad"} : LetGo(o, how)
    PROVE  IInv'
  <1>0. /\ UNCHANGED door /\ generation' = generation /\ UNCHANGED doer /\ asked' = asked
        /\ DoerShape
    BY DEF Preempt, Claim, ClearRecord, LetGo, door, IInv, Shape
  <1>1. Growing
    BY <1>0, Still DEF IInv
  <1>2. /\ OpsKept /\ ops'[o].life = ops[o].life
        /\ \A p \in DOMAIN ops : p # o => ops'[p] = ops[p]
        /\ ops[o].hold # "no" /\ ops[o] \in Operations /\ DOMAIN ops' = DOMAIN ops
    BY Same, HoldOps, Known DEF OpsKept
  <1>3. takeover = o /\ o # 0 /\ \A p \in DOMAIN ops : p # o => ops[p].hold = "no"
    BY <1>2, Known DEF IInv, Held, HeldByTheRecord, Shape, OpsShape
  <1>4. /\ ops'[o].hold # "no" => takeover' = o
        /\ holder' = "agent" => takeover' = o /\ ops'[o].hold = "holding"
        /\ takeover' \in {takeover, 0}
        /\ holder' \in {"none", "behavior", "agent"}
    <2>1. CASE Preempt(o)
      BY <1>3, <2>1 DEF Preempt
    <2>2. CASE Claim(o) /\ holder = "none"
      <3>1. ops' = [ops EXCEPT ![o] = [ops[o] EXCEPT !.hold = "holding"]]
        BY <2>2 DEF Claim, Set
      <3>2. ops'[o] = [ops[o] EXCEPT !.hold = "holding"]
        BY <3>1, Same, Known
      <3>3. ops'[o].hold = "holding"
        BY <1>2, <3>2 DEF Operations
      <3> QED
        BY <1>3, <2>2, <3>3 DEF Claim
    <2>3. CASE Claim(o) /\ holder # "none"
      <3>1. ops[o].hold = "claiming" /\ holder' = holder /\ takeover' = takeover
        BY <2>3 DEF Claim
      <3>2. holder # "agent"
        BY <1>3, <3>1 DEF IInv, Held, HeldByTheRecord
      <3> QED
        BY <1>3, <3>1, <3>2 DEF IInv, Shape, OpsShape
    <2>4. CASE ClearRecord(o)
      <3>1. /\ ops[o].hold = "over" /\ holder' = holder /\ takeover' = 0
            /\ ops' = [ops EXCEPT ![o] = [ops[o] EXCEPT !.hold = "no"]]
        BY <1>3, <2>4 DEF ClearRecord, Set
      <3>2. holder # "agent"
        BY <1>3, <3>1 DEF IInv, Held, HeldByTheRecord
      <3>3. ops'[o] = [ops[o] EXCEPT !.hold = "no"]
        BY <3>1, Same, Known
      <3>4. ops'[o].hold = "no"
        BY <1>2, <3>3 DEF Operations
      <3> QED
        BY <3>1, <3>2, <3>4 DEF IInv, Shape, OpsShape
    <2>5. CASE \E how \in {"good", "bad"} : LetGo(o, how)
      <3>1. takeover' = takeover /\ holder' = IF holder = "agent" THEN "none" ELSE holder
        BY <2>5 DEF LetGo
      <3> QED
        BY <1>3, <3>1 DEF IInv, Shape, OpsShape
    <2> QED
      BY <2>1, <2>2, <2>3, <2>4, <2>5
  <1>5. DoorShape' /\ NoneAsked /\ NoneForgotten
    BY <1>0, <1>1, DoorStays DEF IInv
  <1>6. DoerShape' /\ NoneMade /\ NoneTakenUp
    BY <1>0, <1>1, DoersStay
  <1>7. OpsShape'
    <2>1. takeover' \in 0 .. Len(ops)
      BY <1>4, Known, Same DEF IInv, Shape, OpsShape
    <2> QED
      BY <1>0, <1>1, <1>2, <1>4, <2>1, OpsGrow DEF IInv, Shape, OpsShape
  <1>8. HeldByTheRecord'
    BY <1>2, <1>3, <1>4 DEF HeldByTheRecord
  <1>9. MadeIsRecorded'
    <2>1. ASSUME NEW d \in Doers, doer[d].at = "made"
          PROVE  /\ doer[d].op \in DOMAIN ops /\ ops'[doer[d].op].life = "made"
                 /\ ops'[doer[d].op].request \in Takeovers => takeover' = doer[d].op
                 /\ \A e \in Doers : doer[e].at = "made" /\ doer[e].op = doer[d].op => d = e
      <3>1. /\ doer[d].op \in DOMAIN ops /\ ops[doer[d].op].life = "made"
            /\ ops[doer[d].op].request \in Takeovers => takeover = doer[d].op
            /\ \A e \in Doers : doer[e].at = "made" /\ doer[e].op = doer[d].op => d = e
        BY <2>1 DEF IInv, Held, MadeIsRecorded, IsTakeover
      <3>2. ops[doer[d].op] \in Operations
        BY <3>1, Same, Known
      <3>3. doer[d].op # o
        BY <1>2, <3>1, <3>2 DEF Operations
      <3> QED
        BY <1>2, <1>3, <3>1, <3>3
    <2> QED
      BY <1>0, <1>2, <2>1 DEF MadeIsRecorded, IsTakeover
  <1>10. Decided' /\ Once'
    BY <1>2, <1>5, <1>6, DecidedKept, OnceKept DEF IInv, NoneAsked
  <1> QED
    BY <1>5, <1>6, <1>7, <1>8, <1>9, <1>10 DEF IInv, Shape, Held

-----------------------------------------------------------------------------
(* Every step.                                                             *)

LEMMA IInvStep == IInv /\ [Next]_vars => IInv'
  <1> SUFFICES ASSUME IInv, [Next]_vars
               PROVE  IInv'
    OBVIOUS
  <1>1. ASSUME NEW k \in Calls, CallNext(k)
        PROVE  IInv'
    BY <1>1, CallStep, TurnStep, AllowStep, AskStep DEF CallNext
  <1>2. ASSUME NEW d \in Doers, DoerNext(d)
        PROVE  IInv'
    BY <1>2, ReadTokenStep, StartsStep, AlreadyHeldStep, RegisterStep, SteerStep, SettleStep, FailStep
    DEF DoerNext
  <1>3. CASE PlayerNext
    BY <1>3, ListStep, TakeStep, PlayerSetsStep, CheckStep, StopsStep DEF PlayerNext
  <1>4. ASSUME NEW o \in DOMAIN ops, SessionNext(o) \/ TaskNext(o) \/ Ends(o)
        PROVE  IInv'
    <2>1. CASE \/ Pop(o) \/ Refuse(o) \/ Write(o) \/ TripEnds(o)
               \/ LineResolves(o) \/ End(o) \/ LookAtLevel(o)
               \/ \E how \in {"good", "bad"} : RunEnds(o, how)
      BY <2>1, TaskStep
    <2>2. CASE DropLevel(o) \/ DropTakesBack(o)
      BY <2>2, DropStep
    <2>3. CASE Preempt(o) \/ Claim(o) \/ ClearRecord(o)
                 \/ \E how \in {"good", "bad"} : LetGo(o, how)
      BY <2>3, HoldStep
    <2> QED
      BY <1>4, <2>1, <2>2, <2>3 DEF SessionNext, TaskNext, Ends
  <1>5. CASE Expire \/ Reconnect \/ BehaviorClaims
    BY <1>5, AroundStep
  <1>6. CASE UNCHANGED vars
    <2>1. UNCHANGED <<door, world>> /\ UNCHANGED ops /\ UNCHANGED doer
      BY <1>6 DEF vars
    <2>2. OpsKept /\ HoldsKept
      BY <2>1, Same, NoneChanged
    <2>3. Growing => DoerShape' /\ NoneMade /\ NoneTakenUp
      BY <2>1, DoersStay DEF IInv, Shape
    <2> QED
      BY <2>1, <2>2, <2>3, QuietStep
  <1> QED
    BY <1>1, <1>2, <1>3, <1>4, <1>5, <1>6 DEF Next

LEMMA IInvInit == Init => IInv
  <1> SUFFICES ASSUME Init
               PROVE  IInv
    OBVIOUS
  <1>0. /\ <<>> \in Seq(Admissions) /\ <<>> \in Seq(Operations)
        /\ Len(<<>>) = 0 /\ DOMAIN <<>> = {}
    BY EmptySeq
  <1>1. DoorShape
    BY <1>0, ConstantsAssumption DEF Init, DoorShape, Ids, ConstantsAssumption
  <1>2. OpsShape
    BY <1>0, ConstantsAssumption DEF Init, OpsShape, ConstantsAssumption
  <1>3. \A d \in Doers : doer[d] = Idle
    BY DEF Init
  <1>4. DoerShape
    <2>1. \A d \in Doers : Carries(d, Idle, asked, generation)
      BY IdleCarriesNothing DEF Init
    <2>2. Idle \in Hands
      BY DEF Idle, Hands
    <2> QED
      BY <1>3, <2>1, <2>2 DEF Init, DoerShape
  <1>5. \A d \in Doers : doer[d].at = "idle"
    BY <1>3 DEF Idle
  <1>6. Held
    BY <1>0, <1>5 DEF Init, Held, HeldByTheRecord, MadeIsRecorded
  <1>7. \A d \in Doers : ~InHand(d)
    BY <1>5 DEF InHand
  <1>8. Decided
    BY <1>0, <1>7 DEF Init, Decided, Doers
  <1>9. Once
    BY <1>0, <1>7 DEF Init, Once, ForgottenNot
  <1> QED
    BY <1>1, <1>2, <1>4, <1>6, <1>8, <1>9 DEF IInv, Shape

(* The inductive invariant holds of every behavior.                        *)
THEOREM Invariant == Spec => []IInv
  BY IInvInit, IInvStep, PTL DEF Spec

(* Every variable is what it is declared to be: no more request ids are    *)
(* remembered than KEPT_REQUESTS (agent.rs, remember).                     *)
THEOREM TypeCorrect == Spec => []TypeOK
  <1>1. IInv => TypeOK
    <2> SUFFICES ASSUME IInv
                 PROVE  TypeOK
      OBVIOUS
    <2>1. \A o \in DOMAIN ops :
              /\ ops[o].life \in {"made", "running", "ended"}
              /\ ops[o].line \in {"none", "waiting", "written", "taken"}
      BY Same, Known DEF Operations
    <2> QED
      BY <2>1 DEF TypeOK, IInv, Shape, DoorShape, OpsShape
  <1> QED
    BY <1>1, Invariant, PTL

(* A request the agent retries is done at most once while its id is        *)
(* remembered, however its calls, the player's answers and the lapses      *)
(* interleave (door.rs, act).                                              *)
THEOREM AtMostOnce == Spec => []DoneOnce
  <1>1. IInv => DoneOnce
    <2> SUFFICES ASSUME IInv, NEW o \in DOMAIN ops, NEW p \in DOMAIN ops,
                        ops[o].request = ops[p].request, ops[o].request \notin evicted
                 PROVE  o = p
      BY DEF DoneOnce
    <2>1. ops[o].request \in Requests
      BY Same, Known DEF Operations
    <2> QED
      BY <2>1 DEF IInv, Once
  <1> QED
    BY <1>1, Invariant, PTL

(* What the player denied, let lapse or left waiting when the level        *)
(* changed is never done, and what they approved is done once (agent.rs,   *)
(* approve_agent, deny_agent, set_agent_level).                            *)
THEOREM RefusedStays == Spec => []RefusedIsNotDone
  <1>1. IInv => RefusedIsNotDone
    BY DEF IInv, Decided, RefusedIsNotDone
  <1> QED
    BY <1>1, Invariant, PTL

(* An operation that said its line was not sent has it taken back, so that *)
(* the session can no longer write it (operation.rs, send).                *)
THEOREM SaidUnsent == Spec => []UnsentIsUnsent
  <1>1. IInv => UnsentIsUnsent
    BY Same, Known DEF Operations, UnsentIsUnsent
  <1> QED
    BY <1>1, Invariant, PTL

(* Whatever the agent holds has a record by which a lowered level, a stop  *)
(* or a run that ended badly takes it back (takeover.rs, take_over).       *)
THEOREM AlwaysTakenBack == Spec => []HeldCanBeTakenBack
  <1>1. IInv => HeldCanBeTakenBack
    BY DEF IInv, Held, HeldByTheRecord, HeldCanBeTakenBack
  <1> QED
    BY <1>1, Invariant, PTL
=============================================================================

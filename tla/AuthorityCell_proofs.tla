------------------------ MODULE AuthorityCell_proofs ------------------------
(***************************************************************************)
(* What AuthorityCell promises, for every set of runs, every token and     *)
(* every inbox.                                                            *)
(***************************************************************************)
EXTENDS AuthorityCell, SequenceTheorems, TLAPS

(* The run last granted the authority is the one whose token holds it.     *)
HolderHolds == cell # Nobody => holder \in Runs /\ cell = TokenOf[holder]

(* A run that still holds, or may yet, has no release on its way.          *)
ReleasesComeLast ==
    \A i \in DOMAIN inbox :
        inbox[i].kind = "release" => state[inbox[i].from] = "over"

IInv == TypeOK /\ HolderHolds /\ ReleasesComeLast

(* What a run was told stays true.                                         *)
KeepsWhatWasTold == HoldsWhatItWasTold => HoldsWhatItWasTold'

(* A run that holds ends, and the inbox has no room for its release.       *)
LosesRelease == \E r \in Runs : LetGo(r) /\ state[r] = "holding" /\ Full

-----------------------------------------------------------------------------
LEMMA GotoType ==
    ASSUME TypeOK, NEW p \in Parties, NEW s \in States, Goto(p, s)
    PROVE  /\ state' \in [Parties -> States]
           /\ state'[p] = s
           /\ \A q \in Parties \ {p} : state'[q] = state[q]
  BY DEF Goto, TypeOK

(* The inbox with one more message, where there was room for it.           *)
LEMMA PutType ==
    ASSUME TypeOK, ConstantsAssumption, NEW m \in Messages, ~Full, inbox' = Append(inbox, m)
    PROVE  /\ inbox' \in Seq(Messages) /\ Len(inbox') <= InboxBound
           /\ \A i \in DOMAIN inbox' :
                 (i \in DOMAIN inbox /\ inbox'[i] = inbox[i]) \/ inbox'[i] = m
  <1>1. /\ inbox' \in Seq(Messages) /\ Len(inbox') = Len(inbox) + 1
        /\ \A i \in 1..Len(inbox) : inbox'[i] = inbox[i]
        /\ inbox'[Len(inbox) + 1] = m
    BY AppendProperties DEF TypeOK
  <1>2. Len(inbox) \in Nat /\ InboxBound \in Nat /\ Len(inbox) < InboxBound
    BY LenProperties DEF TypeOK, Full, ConstantsAssumption
  <1>3. DOMAIN inbox = 1..Len(inbox) /\ DOMAIN inbox' = 1..(Len(inbox) + 1)
    BY <1>1, LenProperties DEF TypeOK
  <1>4. ASSUME NEW i \in DOMAIN inbox'
        PROVE  (i \in DOMAIN inbox /\ inbox'[i] = inbox[i]) \/ inbox'[i] = m
    <2>1. i \in 1..Len(inbox) \/ i = Len(inbox) + 1
      BY <1>2, <1>3, <1>4
    <2> QED
      BY <1>1, <1>3, <2>1
  <1> QED
    BY <1>1, <1>2, <1>4

(* The inbox without the message that was read.                            *)
LEMMA TakeType ==
    ASSUME TypeOK, ConstantsAssumption, inbox # <<>>, inbox' = Tail(inbox)
    PROVE  /\ inbox' \in Seq(Messages) /\ Len(inbox') <= InboxBound
           /\ \A i \in DOMAIN inbox' : i + 1 \in DOMAIN inbox /\ inbox'[i] = inbox[i + 1]
           /\ 1 \in DOMAIN inbox /\ Head(inbox) = inbox[1] /\ inbox[1] \in Messages
  <1>1. /\ Len(inbox) \in Nat \ {0} /\ DOMAIN inbox = 1..Len(inbox)
        /\ InboxBound \in Nat /\ Len(inbox) <= InboxBound
    BY LenProperties, EmptySeq DEF TypeOK, ConstantsAssumption
  <1>2. /\ inbox' \in Seq(Messages) /\ Len(inbox') = Len(inbox) - 1
        /\ \A i \in 1..Len(inbox') : inbox'[i] = inbox[i + 1]
    BY HeadTailProperties DEF TypeOK
  <1>3. DOMAIN inbox' = 1..(Len(inbox) - 1)
    BY <1>2, LenProperties
  <1>4. inbox[1] \in Messages
    BY <1>1, ElementOfSeq DEF TypeOK
  <1> QED
    BY <1>1, <1>2, <1>3, <1>4

-----------------------------------------------------------------------------
(* A party that moves on, without coming to hold and without being over,   *)
(* disturbs nothing.                                                       *)
LEMMA MoveStep ==
    ASSUME IInv, NEW p \in Parties, NEW s \in States \ {"holding"}, Goto(p, s),
           state[p] # "over", UNCHANGED <<cell, holder, inbox, taken, undercut, stopped>>,
           watching' \in [Runs -> Tokens \cup {Nobody}]
    PROVE  IInv' /\ KeepsWhatWasTold
  <1>1. /\ state' \in [Parties -> States] /\ state'[p] = s
        /\ \A q \in Parties \ {p} : state'[q] = state[q]
    BY GotoType DEF IInv
  <1>2. TypeOK'
    BY <1>1 DEF IInv, TypeOK
  <1>3. HolderHolds'
    BY DEF IInv, HolderHolds
  <1>4. ReleasesComeLast'
    <2> SUFFICES ASSUME NEW i \in DOMAIN inbox, inbox[i].kind = "release"
                 PROVE  state'[inbox[i].from] = "over"
      BY DEF ReleasesComeLast
    <2>1. state[inbox[i].from] = "over"
      BY DEF IInv, ReleasesComeLast
    <2>2. inbox[i] \in Messages
      BY ElementOfSeq, LenProperties DEF IInv, TypeOK
    <2>3. inbox[i].from \in Parties
      BY <2>2 DEF Messages, Parties
    <2> QED
      BY <1>1, <2>1, <2>3
  <1>5. KeepsWhatWasTold
    BY <1>1 DEF KeepsWhatWasTold, HoldsWhatItWasTold, Parties
  <1> QED
    BY <1>2, <1>3, <1>4, <1>5 DEF IInv

(* A party that sends: what it sends is behind what is there.              *)
LEMMA PutStep ==
    ASSUME IInv, ConstantsAssumption, NEW p \in Parties, NEW s \in States \ {"holding"},
           Goto(p, s), state[p] # "over", NEW m \in Messages, ~Full,
           inbox' = Append(inbox, m), m.kind = "release" => m.from = p /\ s = "over",
           UNCHANGED <<cell, holder, taken, undercut, stopped, watching>>
    PROVE  IInv' /\ KeepsWhatWasTold
  <1>1. /\ state' \in [Parties -> States] /\ state'[p] = s
        /\ \A q \in Parties \ {p} : state'[q] = state[q]
    BY GotoType DEF IInv
  <1>2. /\ inbox' \in Seq(Messages) /\ Len(inbox') <= InboxBound
        /\ \A i \in DOMAIN inbox' :
              (i \in DOMAIN inbox /\ inbox'[i] = inbox[i]) \/ inbox'[i] = m
    BY PutType DEF IInv
  <1>3. TypeOK'
    BY <1>1, <1>2 DEF IInv, TypeOK
  <1>4. HolderHolds'
    BY DEF IInv, HolderHolds
  <1>5. ReleasesComeLast'
    <2> SUFFICES ASSUME NEW i \in DOMAIN inbox', inbox'[i].kind = "release"
                 PROVE  state'[inbox'[i].from] = "over"
      BY DEF ReleasesComeLast
    <2>1. CASE inbox'[i] = m
      BY <1>1, <2>1
    <2>2. CASE i \in DOMAIN inbox /\ inbox'[i] = inbox[i]
      <3>1. state[inbox[i].from] = "over"
        BY <2>2 DEF IInv, ReleasesComeLast
      <3>2. inbox[i] \in Messages
        BY <2>2, ElementOfSeq, LenProperties DEF IInv, TypeOK
      <3>3. inbox[i].from \in Parties
        BY <3>2 DEF Messages, Parties
      <3> QED
        BY <1>1, <2>2, <3>1, <3>3
    <2> QED
      BY <1>2, <2>1, <2>2
  <1>6. KeepsWhatWasTold
    BY <1>1 DEF KeepsWhatWasTold, HoldsWhatItWasTold, Parties
  <1> QED
    BY <1>3, <1>4, <1>5, <1>6 DEF IInv

LEMMA CheckStep ==
    ASSUME IInv, NEW p \in Parties, state[p] = "idle", Check(p)
    PROVE  IInv' /\ KeepsWhatWasTold
  BY MoveStep DEF Check, States, IInv, TypeOK

LEMMA TrafficStep ==
    ASSUME IInv, ConstantsAssumption,
           \/ \E s \in Senders : CheckTraffic(s) \/ SendTraffic(s)
           \/ \E q \in Quitters : SendQuit(q)
    PROVE  IInv' /\ KeepsWhatWasTold
  <1>1. ASSUME NEW s \in Senders, CheckTraffic(s) PROVE IInv' /\ KeepsWhatWasTold
    BY <1>1, CheckStep DEF CheckTraffic, Parties
  <1>2. ASSUME NEW s \in Senders, SendTraffic(s) PROVE IInv' /\ KeepsWhatWasTold
    <2>1. [kind |-> "traffic", from |-> s] \in Messages /\ s \in Parties
      BY DEF Messages, Parties
    <2>2. CASE Full
      BY <1>2, <2>1, <2>2, MoveStep DEF SendTraffic, States, IInv, TypeOK
    <2>3. CASE ~Full
      BY <1>2, <2>1, <2>3, PutStep DEF SendTraffic, States
    <2> QED
      BY <2>2, <2>3
  <1>3. ASSUME NEW q \in Quitters, SendQuit(q) PROVE IInv' /\ KeepsWhatWasTold
    <2>1. [kind |-> "traffic", from |-> q] \in Messages /\ q \in Parties
      BY DEF Messages, Parties
    <2> QED
      BY <1>3, <2>1, PutStep DEF SendQuit, States
  <1> QED
    BY <1>1, <1>2, <1>3

LEMMA RunStep ==
    ASSUME IInv, ConstantsAssumption, NEW r \in Runs,
           CheckClaim(r) \/ SendClaim(r) \/ ClaimLapses(r) \/ LetGo(r) \/ EndUnheld(r)
    PROVE  IInv' /\ KeepsWhatWasTold
  <1> r \in Parties
    BY DEF Parties
  <1>1. CASE CheckClaim(r)
    BY <1>1, CheckStep DEF CheckClaim
  <1>2. CASE SendClaim(r)
    <2>1. [kind |-> "claim", from |-> r] \in Messages
      BY DEF Messages
    <2>2. CASE Full
      BY <1>2, <2>2, MoveStep DEF SendClaim, States, IInv, TypeOK
    <2>3. CASE ~Full
      BY <1>2, <2>1, <2>3, PutStep DEF SendClaim, States
    <2> QED
      BY <2>2, <2>3
  <1>3. CASE ClaimLapses(r)
    BY <1>3, MoveStep DEF ClaimLapses, States, IInv, TypeOK
  <1>4. CASE LetGo(r)
    <2>1. [kind |-> "release", from |-> r] \in Messages
      BY DEF Messages
    <2>2. CASE Full
      BY <1>4, <2>2, MoveStep DEF LetGo, DropsRelease, States, IInv, TypeOK
    <2>3. CASE ~Full
      BY <1>4, <2>1, <2>3, PutStep DEF LetGo, DropsRelease, States
    <2> QED
      BY <2>2, <2>3
  <1>5. CASE EndUnheld(r)
    BY <1>5, MoveStep DEF EndUnheld, States, IInv, TypeOK
  <1> QED
    BY <1>1, <1>2, <1>3, <1>4, <1>5

-----------------------------------------------------------------------------
(* Taking the authority from a token counts the run it is taken from.      *)
LEMMA TakeAwayStep ==
    ASSUME IInv, ConstantsAssumption, NEW token \in Tokens, TakeFrom(token), Free(token),
           UNCHANGED <<inbox, undercut>>, stopped' \subseteq Takeovers,
           watching' \in [Runs -> Tokens \cup {Nobody}],
           \/ UNCHANGED state
           \/ \E p \in Parties, s \in States \ {"holding"} : Goto(p, s) /\ state[p] # "over"
    PROVE  IInv' /\ KeepsWhatWasTold
  <1>1. /\ state' \in [Parties -> States]
        /\ \A q \in Parties : /\ state'[q] = "holding" => state[q] = "holding"
                              /\ state[q] = "over" => state'[q] = "over"
    <2>1. CASE UNCHANGED state
      BY <2>1 DEF IInv, TypeOK
    <2>2. ASSUME NEW p \in Parties, NEW s \in States \ {"holding"},
                 Goto(p, s), state[p] # "over"
          PROVE  <1>1!1 /\ <1>1!2
      BY <2>2, GotoType DEF IInv
    <2> QED
      BY <2>1, <2>2
  <1>2. cell = token => cell # Nobody /\ holder \in Runs /\ cell = TokenOf[holder]
    BY DEF IInv, HolderHolds, ConstantsAssumption
  <1>3. TypeOK'
    BY <1>1, <1>2 DEF IInv, TypeOK, TakeFrom, Free
  <1>4. HolderHolds'
    BY DEF IInv, HolderHolds, Free
  <1>5. ReleasesComeLast'
    <2> SUFFICES ASSUME NEW i \in DOMAIN inbox, inbox[i].kind = "release"
                 PROVE  state'[inbox[i].from] = "over"
      BY DEF ReleasesComeLast
    <2>1. state[inbox[i].from] = "over"
      BY DEF IInv, ReleasesComeLast
    <2>2. inbox[i] \in Messages
      BY ElementOfSeq, LenProperties DEF IInv, TypeOK
    <2>3. inbox[i].from \in Parties
      BY <2>2 DEF Messages, Parties
    <2> QED
      BY <1>1, <2>1, <2>3
  <1>6. KeepsWhatWasTold
    <2>0. HoldsWhatItWasTold =>
              \A r \in undercut : \E s \in Runs \ {r} : TokenOf[s] = TokenOf[r] /\ state'[s] = "over"
      BY <1>1 DEF HoldsWhatItWasTold, Parties
    <2> SUFFICES ASSUME HoldsWhatItWasTold,
                        NEW r \in Runs, state'[r] = "holding", r \notin taken' \cup undercut
                 PROVE  cell' = TokenOf[r] /\ holder' = r
      BY <2>0 DEF KeepsWhatWasTold, HoldsWhatItWasTold
    <2>1. state[r] = "holding"
      BY <1>1 DEF Parties
    <2>2. r \notin taken \cup undercut
      BY DEF TakeFrom
    <2>3. cell = TokenOf[r] /\ holder = r
      BY <2>1, <2>2 DEF HoldsWhatItWasTold
    <2>4. cell # token
      BY <2>3 DEF TakeFrom
    <2> QED
      BY <2>3, <2>4 DEF Free
  <1> QED
    BY <1>3, <1>4, <1>5, <1>6 DEF IInv

LEMMA PreemptStep ==
    ASSUME IInv, ConstantsAssumption, NEW t \in Takeovers,
           BeginPreempt(t) \/ Yielded(t) \/ Revoke(t) \/ StopTakeover(t)
    PROVE  IInv' /\ KeepsWhatWasTold
  <1>1. t \in Runs /\ t \in Parties
    BY DEF ConstantsAssumption, Parties
  <1>2. TokenOf[t] \in Tokens
    BY <1>1 DEF ConstantsAssumption
  <1>3. CASE BeginPreempt(t)
    BY <1>1, <1>3, MoveStep DEF BeginPreempt, States, IInv, TypeOK
  <1>4. CASE Yielded(t)
    BY <1>1, <1>4, MoveStep DEF Yielded, States, IInv, TypeOK
  <1>5. CASE Revoke(t)
    <2>1. watching[t] \in Tokens
      BY <1>1, <1>5 DEF Revoke, IInv, TypeOK
    <2>2. \E s \in States \ {"holding"} : Goto(t, s) /\ state[t] # "over"
      BY <1>5 DEF Revoke, States
    <2>3. watching' \in [Runs -> Tokens \cup {Nobody}]
      BY <1>5 DEF Revoke, IInv, TypeOK
    <2> QED
      BY <1>1, <1>5, <2>1, <2>2, <2>3, TakeAwayStep DEF Revoke, IInv, TypeOK
  <1>6. CASE StopTakeover(t)
    BY <1>2, <1>6, TakeAwayStep DEF StopTakeover, IInv, TypeOK
  <1> QED
    BY <1>3, <1>4, <1>5, <1>6

LEMMA WedgedStep ==
    ASSUME IInv, ConstantsAssumption, NEW r \in Runs, Wedged(r)
    PROVE  IInv' /\ KeepsWhatWasTold
  <1>1. cell \in Tokens
    BY DEF Wedged, IInv, TypeOK
  <1> QED
    BY <1>1, TakeAwayStep DEF Wedged, IInv, TypeOK

(* What the session reads of its inbox: a claim is granted only when       *)
(* nobody holds, a release frees only the run that sent it.                *)
LEMMA ReadStep ==
    ASSUME IInv, ConstantsAssumption, Read
    PROVE  IInv' /\ KeepsWhatWasTold
  <1> DEFINE m == Head(inbox)
  <1>1. /\ inbox' \in Seq(Messages) /\ Len(inbox') <= InboxBound
        /\ \A i \in DOMAIN inbox' : i + 1 \in DOMAIN inbox /\ inbox'[i] = inbox[i + 1]
        /\ 1 \in DOMAIN inbox /\ m = inbox[1] /\ m \in Messages
    BY TakeType DEF Read, IInv
  <1>2. UNCHANGED <<watching, taken, stopped>>
    BY DEF Read
  <1>3. ASSUME \A q \in Parties : state[q] = "over" => state'[q] = "over"
        PROVE  ReleasesComeLast'
    <2> SUFFICES ASSUME NEW i \in DOMAIN inbox', inbox'[i].kind = "release"
                 PROVE  state'[inbox'[i].from] = "over"
      BY DEF ReleasesComeLast
    <2>1. i + 1 \in DOMAIN inbox /\ inbox'[i] = inbox[i + 1]
      BY <1>1
    <2>2. state[inbox[i + 1].from] = "over"
      BY <2>1 DEF IInv, ReleasesComeLast
    <2>3. inbox[i + 1] \in Messages
      BY <2>1, ElementOfSeq, LenProperties DEF IInv, TypeOK
    <2>4. inbox[i + 1].from \in Parties
      BY <2>3 DEF Messages, Parties
    <2> QED
      BY <1>3, <2>1, <2>2, <2>4
  <1>4. CASE UNCHANGED <<cell, holder, state, undercut>>
    <2>1. TypeOK' /\ HolderHolds' /\ KeepsWhatWasTold
      BY <1>1, <1>2, <1>4 DEF IInv, TypeOK, HolderHolds, KeepsWhatWasTold, HoldsWhatItWasTold
    <2> QED
      BY <1>3, <1>4, <2>1 DEF IInv
  <1>5. CASE m.kind = "claim" /\ Answer(m.from) /\ UNCHANGED undercut
    <2>1. m.from \in Runs /\ m.from \in Parties /\ TokenOf[m.from] \in Tokens
      BY <1>1, <1>5 DEF Messages, Parties, ConstantsAssumption
    <2>2. CASE cell # Nobody /\ state[m.from] = "asking"
      <3>1. Goto(m.from, "refused") /\ UNCHANGED <<cell, holder>>
        BY <1>5, <2>2 DEF Answer, Goto
      <3>2. /\ state' \in [Parties -> States] /\ state'[m.from] = "refused"
            /\ \A q \in Parties \ {m.from} : state'[q] = state[q]
        BY <2>1, <3>1, GotoType DEF IInv, States
      <3>3. TypeOK' /\ HolderHolds'
        BY <1>1, <1>2, <1>5, <3>1, <3>2 DEF IInv, TypeOK, HolderHolds
      <3>4. KeepsWhatWasTold
        BY <1>2, <1>5, <2>1, <2>2, <3>1, <3>2 DEF KeepsWhatWasTold, HoldsWhatItWasTold, Parties
      <3> QED
        BY <1>3, <2>1, <2>2, <3>2, <3>3, <3>4 DEF IInv
    <2>3. CASE cell = Nobody /\ state[m.from] = "asking"
      <3>1. Goto(m.from, "holding") /\ cell' = TokenOf[m.from] /\ holder' = m.from
        BY <1>5, <2>3 DEF Answer
      <3>2. /\ state' \in [Parties -> States] /\ state'[m.from] = "holding"
            /\ \A q \in Parties \ {m.from} : state'[q] = state[q]
        BY <2>1, <3>1, GotoType DEF IInv, States
      <3>3. TypeOK' /\ HolderHolds'
        BY <1>1, <1>2, <1>5, <2>1, <3>1, <3>2 DEF IInv, TypeOK, HolderHolds
      <3>4. HoldsWhatItWasTold => \A r \in Runs : state[r] = "holding" => r \in taken \cup undercut
        BY <2>3 DEF HoldsWhatItWasTold, ConstantsAssumption
      <3>5. KeepsWhatWasTold
        BY <1>2, <1>5, <2>1, <2>3, <3>1, <3>2, <3>4 DEF KeepsWhatWasTold, HoldsWhatItWasTold, Parties
      <3> QED
        BY <1>3, <2>1, <2>3, <3>2, <3>3, <3>5 DEF IInv
    <2>4. CASE state[m.from] # "asking"
      BY <1>4, <1>5, <2>4 DEF Answer
    <2> QED
      BY <2>2, <2>3, <2>4
  <1>6. CASE m.kind = "release" /\ LetGoOf(m.from)
    <2>1. m.from \in Runs /\ state[m.from] = "over"
      BY <1>1, <1>6 DEF Messages, IInv, ReleasesComeLast
    <2>2. TypeOK' /\ HolderHolds'
      BY <1>1, <1>2, <1>6, <2>1 DEF IInv, TypeOK, HolderHolds, Free, LetGoOf, ConstantsAssumption
    <2>3. KeepsWhatWasTold
      <3> SUFFICES ASSUME HoldsWhatItWasTold
                   PROVE  HoldsWhatItWasTold'
        BY DEF KeepsWhatWasTold
      <3>1. ASSUME NEW r \in Runs, state[r] = "holding", r \notin taken \cup undercut'
            PROVE  cell' = TokenOf[r] /\ holder' = r
        <4>1. r \notin undercut /\ cell = TokenOf[r] /\ holder = r
          BY <1>6, <3>1 DEF HoldsWhatItWasTold, LetGoOf
        <4>2. r # m.from
          BY <2>1, <3>1
        <4>3. cell # TokenOf[m.from]
          BY <1>6, <3>1, <4>1, <4>2 DEF LetGoOf
        <4> QED
          BY <1>6, <4>1, <4>3 DEF Free, LetGoOf
      <3>2. ASSUME NEW r \in undercut'
            PROVE  \E s \in Runs \ {r} : TokenOf[s] = TokenOf[r] /\ state[s] = "over"
        <4>1. CASE r \in undercut
          BY <4>1 DEF HoldsWhatItWasTold
        <4>2. CASE r \notin undercut
          <5>1. cell = TokenOf[m.from] /\ r = holder /\ r # m.from
            BY <1>6, <3>2, <4>2 DEF LetGoOf
          <5>2. cell = TokenOf[holder]
            BY <2>1, <5>1 DEF IInv, HolderHolds, ConstantsAssumption
          <5> QED
            BY <2>1, <5>1, <5>2
        <4> QED
          BY <4>1, <4>2
      <3> QED
        BY <1>2, <1>6, <3>1, <3>2 DEF HoldsWhatItWasTold, LetGoOf
    <2> QED
      BY <1>3, <1>6, <2>2, <2>3 DEF IInv, LetGoOf
  <1> QED
    BY <1>4, <1>5, <1>6 DEF Read

LEMMA IInvStep ==
    ASSUME IInv, ConstantsAssumption, [Next]_vars
    PROVE  IInv' /\ KeepsWhatWasTold
  <1>1. CASE UNCHANGED vars
    BY <1>1
    DEF vars, IInv, TypeOK, HolderHolds, ReleasesComeLast, KeepsWhatWasTold, HoldsWhatItWasTold
  <1> QED
    BY <1>1, TrafficStep, RunStep, WedgedStep, PreemptStep, ReadStep DEF Next

LEMMA InitIInv == ConstantsAssumption /\ Init => IInv /\ HoldsWhatItWasTold /\ NeverStranded
  <1> SUFFICES ASSUME ConstantsAssumption, Init
               PROVE  IInv /\ HoldsWhatItWasTold /\ NeverStranded
    OBVIOUS
  <1>1. /\ <<>> \in Seq(Messages) /\ Len(<<>>) = 0 /\ DOMAIN <<>> = {}
        /\ InboxBound \in Nat \ {0}
    BY DEF ConstantsAssumption
  <1> QED
    BY <1>1
    DEF Init, IInv, TypeOK, HolderHolds, ReleasesComeLast, HoldsWhatItWasTold,
        NeverStranded, States, Parties

LEMMA IInvHolds == Spec => []IInv
  <1>1. Init => IInv
    BY ConstantsAssumption, InitIInv
  <1>2. IInv /\ [Next]_vars => IInv'
    BY ConstantsAssumption, IInvStep
  <1> QED
    BY <1>1, <1>2, PTL DEF Spec

-----------------------------------------------------------------------------
(* Stranding.                                                              *)

(* The run the authority was granted to still holds it, or a release of    *)
(* its token is at place i of the inbox.                                   *)
Releasing(i) == inbox[i].kind = "release" /\ TokenOf[inbox[i].from] = cell

(* A step that leaves the authority, or takes it away, and lets no run go  *)
(* but may put one more message in the inbox.                              *)
LEMMA NobodyLetsGo ==
    ASSUME IInv, ConstantsAssumption, NeverStranded,
           UNCHANGED <<cell, holder>> \/ cell' = Nobody,
           UNCHANGED inbox \/ \E m \in Messages : ~Full /\ inbox' = Append(inbox, m),
           \A r \in Runs : state[r] = "holding" => state'[r] = "holding"
    PROVE  NeverStranded'
  <1> SUFFICES ASSUME cell' # Nobody, UNCHANGED <<cell, holder>>
               PROVE  \/ holder \in Runs /\ state'[holder] = "holding"
                      \/ \E i \in DOMAIN inbox' :
                            inbox'[i].kind = "release" /\ TokenOf[inbox'[i].from] = cell
    BY DEF NeverStranded
  <1>1. CASE holder \in Runs /\ state[holder] = "holding"
    BY <1>1
  <1>2. ASSUME NEW i \in DOMAIN inbox, Releasing(i)
        PROVE  i \in DOMAIN inbox' /\ inbox'[i] = inbox[i]
    <2>1. CASE UNCHANGED inbox
      BY <1>2, <2>1
    <2>2. ASSUME NEW m \in Messages, ~Full, inbox' = Append(inbox, m)
          PROVE  i \in DOMAIN inbox' /\ inbox'[i] = inbox[i]
      <3> DEFINE longer == Append(inbox, m)
      <3>1. inbox \in Seq(Messages) /\ DOMAIN inbox = 1..Len(inbox) /\ Len(inbox) \in Nat
        BY LenProperties DEF IInv, TypeOK
      <3>2. /\ longer \in Seq(Messages) /\ Len(longer) = Len(inbox) + 1
            /\ \A j \in 1..Len(inbox) : longer[j] = inbox[j]
        BY <3>1, AppendProperties
      <3>3. inbox' = longer
        BY <2>2
      <3> HIDE DEF longer
      <3>4. DOMAIN longer = 1..Len(longer)
        BY <3>2, LenProperties
      <3>5. i \in 1..Len(inbox) /\ i \in 1..Len(longer)
        BY <1>2, <3>1, <3>2
      <3> QED
        BY <3>2, <3>3, <3>4, <3>5
    <2> QED
      BY <2>1, <2>2
  <1> QED
    BY <1>1, <1>2 DEF NeverStranded, Releasing

LEMMA GotoHolds ==
    ASSUME IInv, NEW p \in Parties, NEW s \in States, Goto(p, s),
           state[p] # "holding" \/ p \notin Runs
    PROVE  \A r \in Runs : state[r] = "holding" => state'[r] = "holding"
  <1>1. \A q \in Parties \ {p} : state'[q] = state[q]
    BY GotoType DEF IInv
  <1> QED
    BY <1>1 DEF Parties

(* A run that lets go puts its release behind everything there.            *)
LEMMA LetGoReleases ==
    ASSUME IInv, ConstantsAssumption, NeverStranded, NEW r \in Runs, LetGo(r), ~LosesRelease
    PROVE  NeverStranded'
  <1> r \in Parties
    BY DEF Parties
  <1>1. CASE state[r] # "holding"
    <2>1. \A q \in Runs : state[q] = "holding" => state'[q] = "holding"
      BY <1>1, GotoHolds DEF LetGo, States
    <2>2. UNCHANGED inbox \/ \E m \in Messages : ~Full /\ inbox' = Append(inbox, m)
      BY DEF LetGo, DropsRelease, Messages
    <2> QED
      BY <2>1, <2>2, NobodyLetsGo DEF LetGo
  <1>2. CASE state[r] = "holding"
    <2> DEFINE m == [kind |-> "release", from |-> r]
    <2>1. ~Full /\ inbox' = Append(inbox, m) /\ UNCHANGED <<cell, holder>> /\ m \in Messages
      BY <1>2 DEF LetGo, DropsRelease, LosesRelease, Messages
    <2>2. CASE cell # Nobody /\ holder = r
      <3>1. cell = TokenOf[r]
        BY <2>2 DEF IInv, HolderHolds
      <3>2. /\ inbox' \in Seq(Messages) /\ Len(inbox') = Len(inbox) + 1
            /\ inbox'[Len(inbox) + 1] = m /\ Len(inbox) \in Nat
        BY <2>1, AppendProperties, LenProperties DEF IInv, TypeOK
      <3>3. Len(inbox) + 1 \in DOMAIN inbox'
        BY <3>2, LenProperties
      <3> QED
        BY <2>1, <3>1, <3>2, <3>3 DEF NeverStranded
    <2>3. CASE cell = Nobody
      BY <2>1, <2>3 DEF NeverStranded
    <2>4. CASE cell # Nobody /\ holder # r
      <3>1. \A q \in Parties \ {r} : state'[q] = state[q]
        BY GotoType DEF LetGo, IInv, States
      <3>2. CASE holder \in Runs /\ state[holder] = "holding"
        BY <2>1, <2>4, <3>1, <3>2 DEF NeverStranded, Parties
      <3>3. ASSUME NEW i \in DOMAIN inbox, Releasing(i)
            PROVE  i \in DOMAIN inbox' /\ inbox'[i] = inbox[i]
        <4>1. DOMAIN inbox = 1..Len(inbox) /\ Len(inbox) \in Nat /\ inbox \in Seq(Messages)
          BY LenProperties DEF IInv, TypeOK
        <4>2. /\ inbox' \in Seq(Messages) /\ Len(inbox') = Len(inbox) + 1
              /\ \A j \in 1..Len(inbox) : inbox'[j] = inbox[j]
          BY <2>1, <4>1, AppendProperties
        <4>3. DOMAIN inbox' = 1..(Len(inbox) + 1)
          BY <4>2, LenProperties
        <4> QED
          BY <3>3, <4>1, <4>2, <4>3
      <3> QED
        BY <2>1, <2>4, <3>2, <3>3 DEF NeverStranded, Releasing
    <2> QED
      BY <2>2, <2>3, <2>4
  <1> QED
    BY <1>1, <1>2

(* What is read frees the authority, grants it, or was not the release     *)
(* waited for.                                                             *)
LEMMA ReadReleases ==
    ASSUME IInv, ConstantsAssumption, NeverStranded, Read
    PROVE  NeverStranded'
  <1> DEFINE m == Head(inbox)
  <1>1. /\ inbox \in Seq(Messages) /\ DOMAIN inbox = 1..Len(inbox) /\ Len(inbox) \in Nat
        /\ inbox' \in Seq(Messages) /\ Len(inbox') = Len(inbox) - 1
        /\ \A i \in 1..Len(inbox') : inbox'[i] = inbox[i + 1]
        /\ DOMAIN inbox' = 1..Len(inbox') /\ m = inbox[1]
        /\ m \in Messages
    BY LenProperties, HeadTailProperties, TakeType DEF Read, IInv, TypeOK
  <1>2. ASSUME UNCHANGED <<cell, holder>>,
               \A r \in Runs : state[r] = "holding" => state'[r] = "holding",
               m.kind = "release" => TokenOf[m.from] # cell
        PROVE  NeverStranded'
    <2>1. ASSUME NEW i \in DOMAIN inbox, Releasing(i)
          PROVE  i - 1 \in DOMAIN inbox' /\ inbox'[i - 1] = inbox[i]
      <3>1. i # 1
        BY <1>1, <1>2, <2>1 DEF Releasing
      <3>2. i - 1 \in 1..Len(inbox') /\ (i - 1) + 1 = i
        BY <1>1, <2>1, <3>1
      <3> QED
        BY <1>1, <3>2
    <2> QED
      BY <1>2, <2>1 DEF NeverStranded, Releasing
  <1>3. CASE m.kind = "traffic" /\ UNCHANGED <<cell, holder, state>>
    BY <1>2, <1>3
  <1>4. CASE m.kind = "claim" /\ Answer(m.from)
    <2>1. m.from \in Runs /\ m.from \in Parties
      BY <1>1, <1>4 DEF Messages, Parties
    <2>2. CASE cell # Nobody
      <3>1. UNCHANGED <<cell, holder>>
        BY <1>4, <2>2 DEF Answer
      <3>2. \A r \in Runs : state[r] = "holding" => state'[r] = "holding"
        BY <1>4, <2>1, <2>2 DEF Answer, IInv, TypeOK, Parties
      <3> QED
        BY <1>2, <1>4, <3>1, <3>2
    <2>3. CASE cell = Nobody /\ state[m.from] = "asking"
      <3>1. holder' = m.from /\ state'[m.from] = "holding"
        BY <1>4, <2>1, <2>3, GotoType DEF Answer, IInv, States
      <3> QED
        BY <2>1, <3>1 DEF NeverStranded
    <2>4. CASE cell = Nobody /\ state[m.from] # "asking"
      BY <1>4, <2>4 DEF Answer, NeverStranded
    <2> QED
      BY <2>2, <2>3, <2>4
  <1>5. CASE m.kind = "release" /\ Free(TokenOf[m.from]) /\ UNCHANGED state
    <2>1. CASE cell = TokenOf[m.from]
      BY <1>5, <2>1 DEF Free, NeverStranded
    <2>2. CASE cell # TokenOf[m.from]
      BY <1>2, <1>5, <2>2 DEF Free
    <2> QED
      BY <2>1, <2>2
  <1> QED
    BY <1>3, <1>4, <1>5 DEF Read, LetGoOf

LEMMA StrandingStep ==
    ASSUME IInv, ConstantsAssumption, NeverStranded, [Next]_vars, [~LosesRelease]_vars
    PROVE  NeverStranded'
  <1>1. CASE UNCHANGED vars
    BY <1>1 DEF vars, NeverStranded
  <1>2. ASSUME NEW s \in Senders, CheckTraffic(s) \/ SendTraffic(s) PROVE NeverStranded'
    <2>1. s \in Parties /\ s \notin Runs /\ [kind |-> "traffic", from |-> s] \in Messages
      BY DEF Parties, Messages, ConstantsAssumption
    <2>2. \A r \in Runs : state[r] = "holding" => state'[r] = "holding"
      BY <1>2, <2>1, GotoHolds DEF CheckTraffic, Check, SendTraffic, States
    <2>3. UNCHANGED inbox \/ \E m \in Messages : ~Full /\ inbox' = Append(inbox, m)
      BY <1>2, <2>1 DEF CheckTraffic, Check, SendTraffic
    <2>4. UNCHANGED <<cell, holder>>
      BY <1>2 DEF CheckTraffic, Check, SendTraffic
    <2> QED
      BY <2>2, <2>3, <2>4, NobodyLetsGo
  <1>3. ASSUME NEW q \in Quitters, SendQuit(q) PROVE NeverStranded'
    <2>1. q \in Parties /\ q \notin Runs /\ [kind |-> "traffic", from |-> q] \in Messages
      BY DEF Parties, Messages, ConstantsAssumption
    <2>2. \A r \in Runs : state[r] = "holding" => state'[r] = "holding"
      BY <1>3, <2>1, GotoHolds DEF SendQuit, States
    <2> QED
      BY <1>3, <2>1, <2>2, NobodyLetsGo DEF SendQuit
  <1>4. ASSUME NEW r \in Runs, CheckClaim(r) \/ SendClaim(r) \/ ClaimLapses(r) \/ EndUnheld(r)
        PROVE  NeverStranded'
    <2>1. r \in Parties /\ [kind |-> "claim", from |-> r] \in Messages
      BY DEF Parties, Messages
    <2>2. \A q \in Runs : state[q] = "holding" => state'[q] = "holding"
      BY <1>4, <2>1, GotoHolds DEF CheckClaim, Check, SendClaim, ClaimLapses, EndUnheld, States
    <2>3. UNCHANGED inbox \/ \E m \in Messages : ~Full /\ inbox' = Append(inbox, m)
      BY <1>4, <2>1 DEF CheckClaim, Check, SendClaim, ClaimLapses, EndUnheld
    <2>4. UNCHANGED <<cell, holder>>
      BY <1>4 DEF CheckClaim, Check, SendClaim, ClaimLapses, EndUnheld
    <2> QED
      BY <2>2, <2>3, <2>4, NobodyLetsGo
  <1>5. ASSUME NEW r \in Runs, LetGo(r) PROVE NeverStranded'
    BY <1>1, <1>5, LetGoReleases
  <1>6. ASSUME NEW r \in Runs, Wedged(r) PROVE NeverStranded'
    BY <1>6, NobodyLetsGo DEF Wedged, Free
  <1>7. ASSUME NEW t \in Takeovers, BeginPreempt(t) \/ Yielded(t) \/ Revoke(t) \/ StopTakeover(t)
        PROVE  NeverStranded'
    <2>1. t \in Parties
      BY DEF Parties, ConstantsAssumption
    <2>2. \A r \in Runs : state[r] = "holding" => state'[r] = "holding"
      BY <1>7, <2>1, GotoHolds DEF BeginPreempt, Yielded, Revoke, StopTakeover, States
    <2>3. UNCHANGED inbox /\ (UNCHANGED <<cell, holder>> \/ cell' = Nobody)
      BY <1>7 DEF BeginPreempt, Yielded, Revoke, StopTakeover, Free
    <2> QED
      BY <2>2, <2>3, NobodyLetsGo
  <1>8. CASE Read
    BY <1>8, ReadReleases
  <1> QED
    BY <1>1, <1>2, <1>3, <1>4, <1>5, <1>6, <1>7, <1>8 DEF Next

-----------------------------------------------------------------------------
(* Every variable is what it is declared to be, whichever tokens the runs  *)
(* share.                                                                  *)
THEOREM TypeCorrect == Spec => []TypeOK
  <1>1. IInv => TypeOK
    BY DEF IInv
  <1> QED
    BY <1>1, IInvHolds, PTL

(* A run that was told it holds the authority holds it until it lets go,   *)
(* is preempted, or another run that claims under its own token lets go,   *)
(* however the inbox, the claims and the preemptions interleave and        *)
(* whichever tokens the runs share.                                        *)
THEOREM ToldIsHeld == Spec => []HoldsWhatItWasTold
  <1>1. Init => HoldsWhatItWasTold
    BY ConstantsAssumption, InitIInv
  <1>2. IInv /\ HoldsWhatItWasTold /\ [Next]_vars => HoldsWhatItWasTold'
    BY ConstantsAssumption, IInvStep DEF KeepsWhatWasTold
  <1> QED
    BY <1>1, <1>2, IInvHolds, PTL DEF Spec

(* The authority is stranded by nothing but a release that met a full      *)
(* inbox: no lapsed claim, shared token, preemption or order of messages   *)
(* does it.                                                                *)
THEOREM OnlyAFullInboxStrands == Spec /\ [][~LosesRelease]_vars => []NeverStranded
  <1>1. Init => NeverStranded
    BY ConstantsAssumption, InitIInv
  <1>2. IInv /\ NeverStranded /\ [Next]_vars /\ [~LosesRelease]_vars => NeverStranded'
    BY ConstantsAssumption, StrandingStep
  <1> QED
    BY <1>1, <1>2, IInvHolds, PTL DEF Spec
=============================================================================

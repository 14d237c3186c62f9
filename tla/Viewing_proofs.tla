--------------------------- MODULE Viewing_proofs ---------------------------
(***************************************************************************)
(* What Viewing promises, for any viewers, any bounds and any run of lines, *)
(* hooks, notices, lags and lost connections.                              *)
(***************************************************************************)
EXTENDS Viewing, SequenceTheorems, FiniteSetTheorems, WellFoundedInduction, TLAPS

Waiting == [line : Nat, answer : {"Awaited", "Hidden", "Text"}, due : BOOLEAN]
Turned == [kind : {"heard", "line", "quiet", "loud", "reconnecting",
                  "authenticating", "closed"}, line : Nat]
Views == [seen : Nat, generation : Nat, quiet : BOOLEAN,
          dirty : BOOLEAN, last : Nat, sound : BOOLEAN]

-----------------------------------------------------------------------------
(* Least numbers and ranks.                                                *)

LEMMA LeastOf ==
    ASSUME NEW T, T \subseteq Nat, T # {}
    PROVE  \E i \in T : \A j \in T : i <= j
  <1>1. PICK x \in T : \A y \in T : ~ (<<y, x>> \in OpToRel(<, Nat))
    BY NatLessThanWellFounded, WFMin
  <1>2. \A y \in T : ~(y < x)
    BY <1>1 DEF OpToRel
  <1> QED
    BY <1>2

LEMMA RankGrows ==
    ASSUME NEW n \in Nat, NEW K \in SUBSET (1..n)
    PROVE  /\ IsFiniteSet(K) /\ Cardinality(K) \in Nat
           /\ \A i \in Nat : Rank(i, K) \in 0..Cardinality(K)
           /\ \A i \in K : Rank(i, K) >= 1
           /\ \A i, j \in K : i < j => Rank(i, K) < Rank(j, K)
  <1> DEFINE upto(i) == {j \in K : j <= i}
  <1>1. IsFiniteSet(K) /\ Cardinality(K) \in Nat
    <2>1. IsFiniteSet(1..n)
      BY FS_Interval
    <2> QED
      BY <2>1, FS_Subset, FS_CardinalityType
  <1>2. \A S \in SUBSET K : /\ IsFiniteSet(S) /\ Cardinality(S) \in Nat
                            /\ Cardinality(S) <= Cardinality(K)
    BY <1>1, FS_Subset, FS_CardinalityType
  <1>3. \A i : upto(i) \in SUBSET K
    OBVIOUS
  <1>4. \A i \in K : i \in Nat
    OBVIOUS
  <1>5. ASSUME NEW i \in K
        PROVE  Cardinality(upto(i)) >= 1
    <2>1. i \in upto(i)
      BY <1>4
    <2>2. Cardinality(upto(i)) # 0
      BY <1>2, <1>3, <2>1, FS_EmptySet
    <2> QED
      BY <1>2, <1>3, <2>2
  <1>6. ASSUME NEW i \in K, NEW j \in K, i < j
        PROVE  Cardinality(upto(i)) < Cardinality(upto(j))
    <2>1. upto(i) \in SUBSET upto(j) /\ j \in upto(j) /\ j \notin upto(i)
      <3>1. \A x \in K : x <= i => x <= j
        BY <1>4, <1>6
      <3>2. j <= j /\ ~(j <= i)
        BY <1>4, <1>6
      <3> QED
        BY <3>1, <3>2
    <2>2. /\ Cardinality(upto(i)) <= Cardinality(upto(j))
          /\ Cardinality(upto(j)) = Cardinality(upto(i)) => upto(j) = upto(i)
      <3>1. IsFiniteSet(upto(j))
        BY <1>2, <1>3
      <3> HIDE DEF upto
      <3> QED
        BY <2>1, <3>1, FS_Subset
    <2> QED
      BY <1>2, <1>3, <2>1, <2>2
  <1> QED
    BY <1>1, <1>2, <1>3, <1>5, <1>6 DEF Rank

LEMMA RankHits ==
    ASSUME NEW n \in Nat, NEW K \in SUBSET (1..n), NEW k \in 1..Cardinality(K)
    PROVE  \E i \in K : Rank(i, K) = k
  <1> DEFINE upto(i) == {j \in K : j <= i}
             T == {i \in 0..n : Rank(i, K) >= k}
  <1>1. /\ IsFiniteSet(K) /\ Cardinality(K) \in Nat /\ k \in Nat
        /\ \A i \in Nat : Rank(i, K) \in 0..Cardinality(K)
    BY RankGrows
  <1>2. \A i : Rank(i, K) = Cardinality(upto(i))
    BY DEF Rank
  <1>3. n \in T
    <2>1. upto(n) = K
      <3>1. \A j \in K : j <= n
        OBVIOUS
      <3> QED
        BY <3>1
    <2> QED
      BY <1>1, <1>2, <2>1
  <1>4. PICK i \in T : \A j \in T : i <= j
    <2>1. T \subseteq Nat /\ T # {}
      BY <1>3
    <2> QED
      BY <2>1, LeastOf
  <1>5. i \in 0..n /\ Rank(i, K) >= k
    BY <1>4
  <1>6. i # 0
    <2>1. \A j \in K : ~(j <= 0)
      OBVIOUS
    <2>2. upto(0) = {}
      BY <2>1
    <2>3. Rank(0, K) = 0
      BY <1>2, <2>2, FS_EmptySet
    <2> QED
      BY <1>1, <1>5, <2>3
  <1>7. i - 1 \in Nat /\ i \in Nat /\ Rank(i - 1, K) < k
    <2>1. i - 1 \in 0..n /\ ~(i <= i - 1)
      BY <1>5, <1>6
    <2>2. i - 1 \notin T
      BY <1>4, <2>1
    <2> QED
      BY <1>1, <2>1, <2>2
  <1>8. \A j \in K : j <= i <=> j <= i - 1 \/ j = i
    BY <1>7
  <1>9. i \in K
    <2> SUFFICES ASSUME i \notin K
                 PROVE  FALSE
      OBVIOUS
    <2>1. upto(i) = upto(i - 1)
      BY <1>8
    <2>2. Rank(i, K) = Rank(i - 1, K)
      <3> HIDE DEF upto
      <3> QED
        BY <1>2, <2>1
    <2> QED
      BY <1>1, <1>5, <1>7, <2>2
  <1>10. Rank(i, K) = Rank(i - 1, K) + 1
    <2>1. upto(i) = upto(i - 1) \cup {i} /\ i \notin upto(i - 1)
      <3>1. i <= i /\ ~(i <= i - 1)
        BY <1>7
      <3> QED
        BY <1>8, <1>9, <3>1
    <2>2. IsFiniteSet(upto(i - 1))
      BY <1>1, FS_Subset
    <2> HIDE DEF upto
    <2> QED
      BY <1>2, <2>1, <2>2, FS_AddElement
  <1> HIDE DEF T
  <1>11. Rank(i, K) = k
    BY <1>1, <1>5, <1>7, <1>10
  <1> QED
    BY <1>9, <1>11

-----------------------------------------------------------------------------
(* Sequences.                                                              *)

LEMMA AList ==
    ASSUME NEW S, NEW n \in Nat, NEW s \in [1..n -> S]
    PROVE  s \in Seq(S) /\ Len(s) = n
  <1>1. s \in Seq(S)
    BY SeqDef
  <1>2. DOMAIN s = 1..n /\ DOMAIN s = 1..Len(s) /\ Len(s) \in Nat
    BY <1>1, LenProperties
  <1> QED
    BY <1>1, <1>2

LEMMA WithoutHead ==
    ASSUME NEW S, NEW s \in Seq(S), s # <<>>
    PROVE  /\ Len(s) \in Nat \ {0} /\ Head(s) = s[1] /\ Head(s) \in S
           /\ Tail(s) \in Seq(S) /\ Len(Tail(s)) = Len(s) - 1
           /\ \A i \in 1..(Len(s) - 1) : Tail(s)[i] = s[i + 1]
  BY EmptySeq, LenProperties, HeadTailProperties

LEMMA AListOf1 ==
    ASSUME NEW S, NEW e \in S
    PROVE  <<e>> \in Seq(S) /\ Len(<<e>>) = 1 /\ <<e>>[1] = e
  OBVIOUS

-----------------------------------------------------------------------------
(* Showing what is held.                                                   *)

LEMMA AnswersTaken ==
    ASSUME HeldTypeOK
    PROVE  /\ WithAnswers \in Seq(Waiting) /\ Len(WithAnswers) = Len(held)
           /\ Len(held) \in Nat /\ held \in Seq(Waiting)
           /\ \A i \in 1..Len(held) :
                /\ held[i].line \in Nat
                /\ WithAnswers[i] \in Waiting
                /\ WithAnswers[i].line = held[i].line
                /\ WithAnswers[i].due = held[i].due
                /\ WithAnswers[i].answer = "Hidden" =>
                       \/ held[i].answer = "Hidden"
                       \/ [line |-> held[i].line, answer |-> "Hidden"] \in answers
  <1>1. /\ held \in Seq(Waiting) /\ Len(held) \in Nat /\ DOMAIN held = 1..Len(held)
        /\ answers \subseteq [line : Nat, answer : {"Hidden", "Text"}]
    BY LenProperties DEF HeldTypeOK, Waiting
  <1> DEFINE w == WithAnswers
  <1>2. ASSUME NEW i \in 1..Len(held)
        PROVE  /\ held[i].line \in Nat
               /\ w[i] \in Waiting
               /\ w[i].line = held[i].line
               /\ w[i].due = held[i].due
               /\ w[i].answer = "Hidden" =>
                      \/ held[i].answer = "Hidden"
                      \/ [line |-> held[i].line, answer |-> "Hidden"] \in answers
    <2>1. held[i] \in Waiting
      BY <1>1, ElementOfSeq
    <2>2. CASE \E a \in answers : a.line = held[i].line
      <3> DEFINE a == CHOOSE x \in answers : x.line = held[i].line
      <3>1. a \in answers /\ a.line = held[i].line
        BY <2>2
      <3>2. w[i] = [held[i] EXCEPT !.answer = a.answer]
        BY <1>1, <2>2 DEF WithAnswers
      <3> HIDE DEF a, w
      <3>3. a \in [line : Nat, answer : {"Hidden", "Text"}]
        BY <1>1, <3>1
      <3>4. a = [line |-> a.line, answer |-> a.answer]
        BY <3>3
      <3> QED
        BY <2>1, <3>1, <3>2, <3>3, <3>4 DEF Waiting
    <2>3. CASE ~ \E a \in answers : a.line = held[i].line
      <3>1. w[i] = held[i]
        BY <1>1, <2>3 DEF WithAnswers
      <3> HIDE DEF w
      <3> QED
        BY <2>1, <3>1 DEF Waiting
    <2> QED
      BY <2>2, <2>3
  <1>3. w \in [1..Len(held) -> Waiting]
    <2>1. DOMAIN w = 1..Len(held) /\ w = [i \in 1..Len(held) |-> w[i]]
      BY <1>1 DEF WithAnswers
    <2> HIDE DEF w
    <2> QED
      BY <1>2, <2>1
  <1> HIDE DEF w
  <1>4. w \in Seq(Waiting) /\ Len(w) = Len(held)
    BY <1>1, <1>3, AList
  <1> QED
    BY <1>1, <1>2, <1>4 DEF w

LEMMA WhereStaying ==
    ASSUME HeldTypeOK, NEW all \in BOOLEAN
    PROVE  /\ FirstStaying(all) \in 1..(Len(held) + 1)
           /\ all => FirstStaying(all) = Len(held) + 1
           /\ Shown(all) \in SUBSET (1..Len(held))
           /\ \A i \in Shown(all) : i < FirstStaying(all)
  <1>1. Len(held) \in Nat /\ DOMAIN held = 1..Len(held)
    BY LenProperties DEF HeldTypeOK
  <1>2. Staying(all) \subseteq 1..Len(held) /\ (all => Staying(all) = {})
    BY <1>1 DEF Staying
  <1>3. FirstStaying(all) \in 1..(Len(held) + 1)
    <2>1. CASE Staying(all) = {}
      BY <1>1, <2>1 DEF FirstStaying
    <2>2. CASE Staying(all) # {}
      <3>1. \E i \in Staying(all) : \A j \in Staying(all) : i <= j
        <4>1. Staying(all) \subseteq Nat
          BY <1>1, <1>2
        <4> QED
          BY <2>2, <4>1, LeastOf
      <3>2. FirstStaying(all) \in Staying(all)
        BY <2>2, <3>1 DEF FirstStaying
      <3> QED
        BY <1>1, <1>2, <3>2
    <2> QED
      BY <2>1, <2>2
  <1>4. all => FirstStaying(all) = Len(held) + 1
    BY <1>2 DEF FirstStaying
  <1>5. /\ Shown(all) \in SUBSET (1..Len(held))
        /\ \A i \in Shown(all) : i < FirstStaying(all)
    <2>1. \A i \in 1..(FirstStaying(all) - 1) : i \in 1..Len(held) /\ i < FirstStaying(all)
      BY <1>1, <1>3
    <2> QED
      BY <2>1 DEF Shown
  <1> QED
    BY <1>3, <1>4, <1>5

LEMMA WhatStays ==
    ASSUME HeldTypeOK, NEW all \in BOOLEAN
    PROVE  /\ StillHeld(all) \in Seq(Waiting)
           /\ Len(StillHeld(all)) = Len(held) + 1 - FirstStaying(all)
           /\ \A i \in 1..Len(StillHeld(all)) :
                /\ i + FirstStaying(all) - 1 \in 1..Len(held)
                /\ StillHeld(all)[i].line = held[i + FirstStaying(all) - 1].line
  <1> DEFINE f == FirstStaying(all)
             n == Len(held)
             w == WithAnswers
             s == SubSeq(w, f, n)
  <1>1. n \in Nat /\ f \in 1..(n + 1)
    BY AnswersTaken, WhereStaying
  <1>2. \A i \in f..n : w[i] \in Waiting
    BY <1>1, AnswersTaken
  <1>3. /\ s \in Seq(Waiting) /\ Len(s) = IF f <= n THEN n - f + 1 ELSE 0
        /\ \A i \in 1..(n - f + 1) : s[i] = w[f + i - 1]
    <2> HIDE DEF f, n, w
    <2> QED
      BY <1>1, <1>2, SubSeqProperties
  <1>4. StillHeld(all) = s
    BY DEF StillHeld
  <1>5. \A i \in 1..n : w[i].line = held[i].line
    BY AnswersTaken
  <1> HIDE DEF f, n, w, s
  <1>6. Len(s) = n + 1 - f
    BY <1>1, <1>3
  <1>7. ASSUME NEW i \in 1..Len(s)
        PROVE  i + f - 1 \in 1..n /\ s[i].line = held[i + f - 1].line
    <2>1. i \in 1..(n - f + 1) /\ f + i - 1 \in 1..n /\ f + i - 1 = i + f - 1
      BY <1>1, <1>6
    <2> QED
      BY <1>3, <1>5, <2>1
  <1> QED
    BY <1>3, <1>4, <1>6, <1>7 DEF f, n

(* What is shown is each line that stopped waiting, but the hidden ones,    *)
(* oldest first.                                                           *)
LEMMA WhatShows ==
    ASSUME HeldTypeOK, NEW all \in BOOLEAN
    PROVE  /\ Released(all) \in Seq(Turned)
           /\ Len(Released(all)) = Cardinality(Shown(all))
           /\ Cardinality(Shown(all)) \in Nat
           /\ \A k \in 1..Len(Released(all)) : \E i \in Shown(all) :
                  Rank(i, Shown(all)) = k /\ Released(all)[k] = Line(held[i].line)
           /\ \A i \in Shown(all) : \E k \in 1..Len(Released(all)) :
                  Released(all)[k] = Line(held[i].line)
  <1> DEFINE K == Shown(all)
             N == Cardinality(K)
             at(k) == CHOOSE i \in K : Rank(i, K) = k
             r == [k \in 1..N |-> Line(held[at(k)].line)]
  <1>1. Released(all) = r
    BY DEF Released
  <1>2. K \in SUBSET (1..Len(held)) /\ Len(held) \in Nat
    BY WhereStaying, AnswersTaken
  <1>3. /\ N \in Nat
        /\ \A i \in K : Rank(i, K) \in 1..N
        /\ \A i, j \in K : i < j => Rank(i, K) < Rank(j, K)
    <2> HIDE DEF K
    <2>1. /\ Cardinality(K) \in Nat
          /\ \A i \in Nat : Rank(i, K) \in 0..Cardinality(K)
          /\ \A i \in K : Rank(i, K) >= 1
          /\ \A i, j \in K : i < j => Rank(i, K) < Rank(j, K)
      BY <1>2, RankGrows
    <2>2. \A i \in K : i \in Nat
      BY <1>2
    <2> QED
      BY <2>1, <2>2
  <1>4. \A k \in 1..N : \E i \in K : Rank(i, K) = k
    BY <1>2, RankHits
  <1>5. \A k \in 1..N : at(k) \in K /\ Rank(at(k), K) = k
    BY <1>4
  <1>6. \A i \in K : held[i].line \in Nat
    BY <1>2, AnswersTaken
  <1>7. \A k \in 1..N : r[k] = Line(held[at(k)].line)
    OBVIOUS
  <1> HIDE DEF at
  <1>8. \A k \in 1..N : Line(held[at(k)].line) \in Turned
    BY <1>5, <1>6 DEF Line, Turned
  <1>9. r \in [1..N -> Turned]
    BY <1>8
  <1> HIDE DEF r
  <1>10. r \in Seq(Turned) /\ Len(r) = N
    BY <1>3, <1>9, AList
  <1>11. ASSUME NEW i \in K
         PROVE  \E k \in 1..N : r[k] = Line(held[i].line)
    <2>1. Rank(i, K) \in 1..N
      BY <1>3
    <2>2. at(Rank(i, K)) = i
      <3>1. at(Rank(i, K)) \in K /\ Rank(at(Rank(i, K)), K) = Rank(i, K)
        BY <1>5, <2>1
      <3> DEFINE j == at(Rank(i, K))
      <3>2. j \in Nat /\ i \in Nat /\ Rank(i, K) \in Nat
        BY <1>2, <2>1, <3>1
      <3> HIDE DEF j
      <3>3. ~(i < j) /\ ~(j < i)
        BY <1>3, <3>1, <3>2 DEF j
      <3>4. i = j
        BY <3>2, <3>3
      <3> QED
        BY <3>4 DEF j
    <2> QED
      BY <1>7, <2>1, <2>2
  <1> QED
    BY <1>1, <1>3, <1>5, <1>7, <1>10, <1>11

-----------------------------------------------------------------------------
(* A turn of the owner: types.                                             *)

LEMMA Merged ==
    ASSUME NEW S, NEW a \in Seq(S), NEW b \in Seq(S), NEW c \in Seq(S)
    PROVE  LET s == a \o b \o c
           IN  /\ s \in Seq(S) /\ Len(s) = Len(a) + Len(b) + Len(c)
               /\ Len(a) \in Nat /\ Len(b) \in Nat /\ Len(c) \in Nat
               /\ DOMAIN s = 1..Len(s)
               /\ \A k \in 1..Len(a) : s[k] = a[k]
               /\ \A k \in 1..Len(b) : s[Len(a) + k] = b[k]
               /\ \A k \in 1..Len(c) : s[Len(a) + Len(b) + k] = c[k]
  <1> DEFINE ab == a \o b
             s == ab \o c
  <1>1. Len(a) \in Nat /\ Len(b) \in Nat /\ Len(c) \in Nat
    BY LenProperties
  <1>2. /\ ab \in Seq(S) /\ Len(ab) = Len(a) + Len(b)
        /\ \A k \in 1..(Len(a) + Len(b)) :
             ab[k] = IF k <= Len(a) THEN a[k] ELSE b[k - Len(a)]
    BY ConcatProperties
  <1> HIDE DEF ab
  <1>3. /\ s \in Seq(S) /\ Len(s) = Len(ab) + Len(c)
        /\ \A k \in 1..(Len(ab) + Len(c)) :
             s[k] = IF k <= Len(ab) THEN ab[k] ELSE c[k - Len(ab)]
        /\ DOMAIN s = 1..Len(s)
    <2>1. /\ s \in Seq(S) /\ Len(s) = Len(ab) + Len(c)
          /\ \A k \in 1..(Len(ab) + Len(c)) :
               s[k] = IF k <= Len(ab) THEN ab[k] ELSE c[k - Len(ab)]
      <3>1. ab \in Seq(S)
        BY <1>2
      <3> QED
        BY <3>1, ConcatProperties
    <2> HIDE DEF s
    <2> QED
      BY <2>1, LenProperties
  <1> HIDE DEF s
  <1>4. \A k \in 1..Len(a) : s[k] = a[k]
    BY <1>1, <1>2, <1>3
  <1>5. \A k \in 1..Len(b) : s[Len(a) + k] = b[k]
    <2> TAKE k \in 1..Len(b)
    <2>1. /\ Len(a) + k \in 1..(Len(a) + Len(b)) /\ ~(Len(a) + k <= Len(a))
          /\ (Len(a) + k) - Len(a) = k /\ Len(a) + k \in 1..(Len(ab) + Len(c))
          /\ Len(a) + k <= Len(ab)
      BY <1>1, <1>2
    <2> QED
      BY <1>2, <1>3, <2>1
  <1>6. \A k \in 1..Len(c) : s[Len(a) + Len(b) + k] = c[k]
    <2> TAKE k \in 1..Len(c)
    <2> DEFINE at == Len(a) + Len(b) + k
    <2>1. at \in 1..(Len(ab) + Len(c)) /\ ~(at <= Len(ab)) /\ at - Len(ab) = k
      BY <1>1, <1>2
    <2> HIDE DEF at
    <2>2. s[at] = c[k]
      BY <1>3, <2>1
    <2> QED
      BY <2>2 DEF at
  <1> QED
    BY <1>1, <1>2, <1>3, <1>4, <1>5, <1>6 DEF ab, s

LEMMA ShowsTyped ==
    ASSUME HeldTypeOK, NEW all \in BOOLEAN,
           NEW first \in Seq(Turned), NEW then \in Seq(Turned),
           ShowHeld(all, first, then)
    PROVE  held' \in Seq(Waiting) /\ answers' = {} /\ out' \in Seq(Turned)
  <1> DEFINE a == all \/ ~display
  <1>1. a \in BOOLEAN
    BY DEF HeldTypeOK
  <1> HIDE DEF a
  <1>2. StillHeld(a) \in Seq(Waiting) /\ Released(a) \in Seq(Turned)
    BY <1>1, WhatStays, WhatShows
  <1>3. held' = StillHeld(a) /\ answers' = {} /\ out' = first \o Released(a) \o then
    BY DEF ShowHeld, a
  <1>4. first \o Released(a) \o then \in Seq(Turned)
    BY <1>2, Merged
  <1> QED
    BY <1>2, <1>3, <1>4

LEMMA TurnedItems ==
    /\ \A n \in Nat : Heard(n) \in Turned /\ Line(n) \in Turned
    /\ \A on \in BOOLEAN : Quiet(on) \in Turned
    /\ \A state \in {"reconnecting", "authenticating", "closed"} : StateChanged(state) \in Turned
  BY DEF Heard, Line, Quiet, StateChanged, Turned

LEMMA TurnsTyped ==
    ASSUME HeldTypeOK, OwnerTurns
    PROVE  HeldTypeOK'
  <1> USE DEF HeldTypeOK
  <1>1. held \in Seq(Waiting) /\ out \in Seq(Turned) /\ <<>> \in Seq(Turned)
    BY EmptySeq DEF Waiting, Turned
  <1>2. held' \in Seq(Waiting) /\ out' \in Seq(Turned)
    <2>1. CASE Arrive
      <3> DEFINE first == IF Hearing THEN <<Heard(arrived + 1)>> ELSE <<>>
                 last == <<Line(arrived + 1)>>
      <3>1. first \in Seq(Turned) /\ last \in Seq(Turned) /\ Line(arrived + 1) \in Turned
        BY <1>1, TurnedItems, AListOf1
      <3>2. \/ held' = Append(held, [line |-> arrived + 1, answer |-> "Awaited", due |-> FALSE])
               /\ out' = first
            \/ ShowHeld(TRUE, first, last)
            \/ out' = Append(first, Line(arrived + 1)) /\ held' = held
        BY <2>1 DEF Arrive
      <3>3. [line |-> arrived + 1, answer |-> "Awaited", due |-> FALSE] \in Waiting
        BY DEF Waiting
      <3> HIDE DEF first, last
      <3>4. Append(first, Line(arrived + 1)) \in Seq(Turned)
        BY <3>1, AppendProperties
      <3>5. Append(held, [line |-> arrived + 1, answer |-> "Awaited", due |-> FALSE]) \in Seq(Waiting)
        BY <1>1, <3>3, AppendProperties
      <3>6. ShowHeld(TRUE, first, last) => held' \in Seq(Waiting) /\ out' \in Seq(Turned)
        BY <3>1, ShowsTyped
      <3> QED
        BY <1>1, <3>1, <3>2, <3>4, <3>5, <3>6
    <2>2. CASE Wake
      <3>1. ShowHeld(FALSE, <<>>, <<>>)
        BY <2>2 DEF Wake
      <3> QED
        BY <1>1, <3>1, ShowsTyped
    <2>3. CASE OpenQuietWindow \/ EndQuietWindow \/ Reconnect \/ Connect \/ Stop
      <3>1. held' = held
        BY <2>3 DEF OpenQuietWindow, EndQuietWindow, Reconnect, Connect, Stop, lines
      <3>2. \E e \in Turned : out' = <<e>>
        BY <2>3, TurnedItems DEF OpenQuietWindow, EndQuietWindow, Reconnect, Connect, Stop
      <3> QED
        BY <1>1, <3>1, <3>2, AListOf1
    <2>4. CASE Lose \/ Cancel
      <3>1. \E then \in Seq(Turned) : ShowHeld(TRUE, <<>>, then)
        <4>1. <<StateChanged("closed")>> \in Seq(Turned)
          BY TurnedItems, AListOf1
        <4> QED
          BY <1>1, <2>4, <4>1 DEF Lose, Cancel, Shutdown
      <3> QED
        BY <1>1, <3>1, ShowsTyped
    <2> QED
      BY <2>1, <2>2, <2>3, <2>4 DEF OwnerTurns
  <1>3. /\ answers' = {} \/ answers' = answers
        /\ life' \in {"up", "lost", "down", "closing", "over"} /\ generation' \in Nat
        /\ arrived' \in Nat /\ display' \in BOOLEAN /\ rung' \in BOOLEAN
        /\ window' \in BOOLEAN /\ quiets' \in Nat
    <2>1. CASE Arrive
      BY <2>1 DEF Arrive, ShowHeld, connection, quiet
    <2>2. CASE Wake
      BY <2>2 DEF Wake, ShowHeld, connection, quiet
    <2>3. CASE OpenQuietWindow \/ EndQuietWindow
      <3>1. UNCHANGED <<life, generation, arrived, answers, display, rung>>
        BY <2>3 DEF OpenQuietWindow, EndQuietWindow, connection, lines, hooks
      <3>2. window' \in BOOLEAN
        BY <2>3 DEF OpenQuietWindow, EndQuietWindow
      <3>3. quiets' \in Nat
        <4>1. quiets' \in {quiets, quiets + 1}
          BY <2>3 DEF OpenQuietWindow, EndQuietWindow
        <4> QED
          BY <4>1
      <3> QED
        BY <3>1, <3>2, <3>3
    <2>4. CASE Lose \/ Cancel
      BY <2>4 DEF Lose, Cancel, Shutdown, ShowHeld
    <2>5. CASE Reconnect \/ Connect \/ Stop
      BY <2>5 DEF Reconnect, Connect, Stop, quiet, lines, hooks
    <2> QED
      BY <2>1, <2>2, <2>3, <2>4, <2>5 DEF OwnerTurns
  <1> QED
    BY <1>2, <1>3 DEF Waiting, Turned

-----------------------------------------------------------------------------
(* A turn of the owner: what it shows, and in which order.                 *)

(* What waits, waits in the order it came.                                 *)
HeldInOrder ==
    /\ \A i, j \in DOMAIN held : i < j => held[i].line < held[j].line
    /\ \A i \in DOMAIN held : held[i].line \in 1..arrived

LEMMA NothingShown ==
    ASSUME arrived \in Nat, arrived' \in Nat,
           LinesIn(held') = LinesIn(held) \cup (arrived + 1)..arrived',
           \A i \in DOMAIN out' : out'[i].kind # "line"
    PROVE  TurnShowsInOrder
  BY DEF TurnShowsInOrder

(* What goes is the oldest of what is held, and the line that came.        *)
LEMMA WhatGoes ==
    ASSUME HeldTypeOK, HeldInOrder, NEW all \in BOOLEAN, held' = StillHeld(all),
           \/ arrived' = arrived
           \/ arrived' = arrived + 1 /\ all
    PROVE  /\ LinesIn(held') = {held[j].line : j \in FirstStaying(all)..Len(held)}
           /\ (LinesIn(held) \cup (arrived + 1)..arrived') \ LinesIn(held')
              = {held[i].line : i \in 1..(FirstStaying(all) - 1)} \cup (arrived + 1)..arrived'
           /\ HeldInOrder'
  <1> DEFINE f == FirstStaying(all)
             n == Len(held)
             s == StillHeld(all)
  <1>1. /\ n \in Nat /\ f \in 1..(n + 1) /\ (all => f = n + 1)
        /\ DOMAIN held = 1..n /\ arrived \in Nat
        /\ \A i \in 1..n : held[i].line \in Nat
    BY AnswersTaken, WhereStaying, LenProperties DEF HeldTypeOK, Waiting
  <1>2. /\ s \in Seq(Waiting) /\ Len(s) = n + 1 - f
        /\ \A i \in 1..Len(s) : /\ i + f - 1 \in 1..n
                                /\ s[i].line = held[i + f - 1].line
    BY WhatStays
  <1>3. DOMAIN s = 1..Len(s)
    BY <1>2, LenProperties
  <1> HIDE DEF f, n, s
  <1>4. held' = s
    BY DEF s
  <1>5. /\ \A i, j \in 1..n : i < j => held[i].line < held[j].line
        /\ \A i \in 1..n : held[i].line \in 1..arrived
    BY <1>1 DEF HeldInOrder
  <1>6. LinesIn(s) = {held[j].line : j \in f..n}
    <2>1. ASSUME NEW i \in 1..Len(s)
          PROVE  s[i].line = held[i + f - 1].line /\ i + f - 1 \in f..n
      BY <1>1, <1>2
    <2>2. ASSUME NEW j \in f..n
          PROVE  j - f + 1 \in 1..Len(s) /\ s[j - f + 1].line = held[j].line
      <3>1. n \in Nat /\ f \in Nat /\ f >= 1 /\ Len(s) = n + 1 - f
        BY <1>1, <1>2
      <3>2. j - f + 1 \in 1..Len(s) /\ (j - f + 1) + f - 1 = j
        BY <3>1
      <3> QED
        BY <1>2, <3>2
    <2>3. LinesIn(s) = {s[i].line : i \in 1..Len(s)}
      BY <1>3 DEF LinesIn
    <2>4. \A x \in LinesIn(s) : x \in {held[j].line : j \in f..n}
      BY <2>1, <2>3
    <2>5. \A j \in f..n : held[j].line \in LinesIn(s)
      BY <2>2, <2>3
    <2> QED
      BY <2>4, <2>5
  <1>7. LinesIn(held) = {held[i].line : i \in 1..(f - 1)} \cup {held[j].line : j \in f..n}
    <2>1. \A i \in 1..n : i \in 1..(f - 1) \/ i \in f..n
      BY <1>1
    <2>2. \A i : i \in 1..(f - 1) \/ i \in f..n => i \in 1..n
      BY <1>1
    <2> QED
      BY <1>1, <2>1, <2>2 DEF LinesIn
  <1>8. \A i \in 1..(f - 1), j \in f..n : held[i].line # held[j].line
    <2> TAKE i \in 1..(f - 1), j \in f..n
    <2>1. i \in 1..n /\ j \in 1..n /\ i < j
      BY <1>1
    <2>2. held[i].line < held[j].line /\ held[i].line \in Nat /\ held[j].line \in Nat
      BY <1>1, <1>5, <2>1
    <2> QED
      BY <2>2
  <1>9. \A m \in (arrived + 1)..arrived' : m \notin {held[j].line : j \in f..n}
    <2>1. \A j \in f..n : j \in 1..n
      BY <1>1
    <2> QED
      BY <1>1, <1>5, <2>1
  <1>10. HeldInOrder'
    <2>1. ASSUME NEW i \in 1..Len(s), NEW j \in 1..Len(s), i < j
          PROVE  s[i].line < s[j].line
      <3>1. i + f - 1 < j + f - 1 /\ i + f - 1 \in 1..n /\ j + f - 1 \in 1..n
        BY <1>1, <1>2, <2>1
      <3> QED
        BY <1>2, <1>5, <3>1
    <2>2. ASSUME NEW i \in 1..Len(s)
          PROVE  s[i].line \in 1..arrived'
      <3>1. s[i].line \in 1..arrived
        BY <1>2, <1>5
      <3>2. arrived' = arrived \/ arrived' = arrived + 1
        OBVIOUS
      <3> QED
        BY <1>1, <3>1, <3>2
    <2> QED
      BY <1>3, <1>4, <2>1, <2>2 DEF HeldInOrder
  <1> DEFINE before == {held[i].line : i \in 1..(f - 1)}
             after == {held[j].line : j \in f..n}
  <1>11. (LinesIn(held) \cup (arrived + 1)..arrived') \ LinesIn(held')
            = before \cup (arrived + 1)..arrived'
    <2>1. \A x \in before : x \notin after
      BY <1>8
    <2>2. LinesIn(held) = before \cup after /\ LinesIn(held') = after
      BY <1>4, <1>6, <1>7
    <2>3. \A m \in (arrived + 1)..arrived' : m \notin after
      BY <1>9
    <2> HIDE DEF before, after
    <2> QED
      BY <2>1, <2>2, <2>3
  <1> QED
    BY <1>4, <1>6, <1>10, <1>11 DEF f, n, s

LEMMA ShowsInOrder ==
    ASSUME HeldTypeOK, HeldInOrder, NEW all \in BOOLEAN,
           NEW first \in Seq(Turned), NEW then \in Seq(Turned),
           ShowHeld(all, first, then),
           \A k \in 1..Len(first) : first[k].kind # "line",
           \/ arrived' = arrived /\ \A k \in 1..Len(then) : then[k].kind # "line"
           \/ arrived' = arrived + 1 /\ all /\ then = <<Line(arrived + 1)>>
    PROVE  TurnShowsInOrder /\ HeldInOrder'
  <1> DEFINE a == all \/ ~display
             f == FirstStaying(a)
             K == Shown(a)
             r == Released(a)
             p == Len(first)
             q == Len(r)
             t == Len(then)
             came == (arrived + 1)..arrived'
             before == {held[i].line : i \in 1..(f - 1)}
             after == {held[j].line : j \in f..Len(held)}
             gone == (LinesIn(held) \cup came) \ LinesIn(held')
             shows == {k \in DOMAIN out' : out'[k].kind = "line"}
             shown == {out'[k].line : k \in shows}
             hidden == {n \in gone : \/ [line |-> n, answer |-> "Hidden"] \in answers
                                     \/ \E i \in DOMAIN held : held[i].line = n
                                                             /\ held[i].answer = "Hidden"}
  <1>1. a \in BOOLEAN /\ (all => a)
    BY DEF HeldTypeOK
  <1>2. held' = StillHeld(a) /\ out' = first \o r \o then
    BY DEF ShowHeld
  <1>3. /\ LinesIn(held') = after /\ gone = before \cup came /\ HeldInOrder'
    BY <1>1, <1>2, WhatGoes
  <1>4. /\ Len(held) \in Nat /\ f \in 1..(Len(held) + 1) /\ (a => f = Len(held) + 1)
        /\ K \in SUBSET (1..Len(held)) /\ DOMAIN held = 1..Len(held) /\ arrived \in Nat
        /\ \A i \in K : i < f
        /\ K = {i \in 1..(f - 1) : WithAnswers[i].answer # "Hidden"}
    <2>1. Len(held) \in Nat /\ DOMAIN held = 1..Len(held) /\ arrived \in Nat
      BY LenProperties DEF HeldTypeOK
    <2>2. K = {i \in 1..(f - 1) : WithAnswers[i].answer # "Hidden"}
      BY DEF Shown
    <2> QED
      BY <1>1, <2>1, <2>2, WhereStaying
  <1>5. /\ r \in Seq(Turned) /\ q \in Nat
        /\ \A k \in 1..q : \E i \in K : Rank(i, K) = k /\ r[k] = Line(held[i].line)
        /\ \A i \in K : \E k \in 1..q : r[k] = Line(held[i].line)
    BY <1>1, WhatShows
  <1>6. \A i, j \in K : i < j => Rank(i, K) < Rank(j, K)
    BY <1>4, RankGrows
  <1>7. \A i \in Nat : Rank(i, K) \in Nat
    <2>1. \A i \in Nat : Rank(i, K) \in 0..Cardinality(K)
      BY <1>4, RankGrows
    <2> QED
      BY <2>1, SMTT(30)
  <1>8. /\ p \in Nat /\ q \in Nat /\ t \in Nat /\ DOMAIN out' = 1..(p + q + t)
        /\ \A k \in 1..p : out'[k] = first[k]
        /\ \A k \in 1..q : out'[p + k] = r[k]
        /\ \A k \in 1..t : out'[p + q + k] = then[k]
    <2> DEFINE o == first \o r \o then
    <2>1. /\ p \in Nat /\ q \in Nat /\ t \in Nat /\ DOMAIN o = 1..Len(o)
          /\ Len(o) = p + q + t
          /\ \A k \in 1..p : o[k] = first[k]
          /\ \A k \in 1..q : o[p + k] = r[k]
          /\ \A k \in 1..t : o[p + q + k] = then[k]
      <3>1. r \in Seq(Turned)
        BY <1>5
      <3> HIDE DEF r
      <3> QED
        BY <3>1, Merged, SMTT(30)
    <2>2. out' = o
      BY <1>2
    <2> HIDE DEF o, r
    <2> QED
      BY <2>1, <2>2
  <1>9. /\ \A i, j \in 1..Len(held) : i < j => held[i].line < held[j].line
        /\ \A i \in 1..Len(held) : held[i].line \in 1..arrived /\ held[i].line \in Nat
    <2>1. \A i \in 1..Len(held) : held[i].line \in Nat
      BY AnswersTaken
    <2> QED
      BY <1>4, <2>1 DEF HeldInOrder
  <1>10. \A n \in Nat : Line(n).kind = "line" /\ Line(n).line = n
    BY DEF Line
  <1> HIDE DEF K, f, r, a
  <1>11. \A i \in K : i \in Nat /\ i \in 1..Len(held) /\ i \in 1..(f - 1)
    BY <1>4
  (* What each place of the turn holds. *)
  <1>12. \A k \in 1..(p + q + t) :
            \/ k <= p /\ k \in 1..p
            \/ p < k /\ k <= p + q /\ k - p \in 1..q /\ p + (k - p) = k
            \/ p + q < k /\ k - p - q \in 1..t /\ p + q + (k - p - q) = k
    BY <1>8
  <1>13. ASSUME NEW k \in shows
         PROVE  \/ /\ p < k /\ k <= p + q
                   /\ \E i \in K : Rank(i, K) = k - p /\ out'[k].line = held[i].line
                \/ /\ p + q < k /\ k = p + q + 1
                   /\ arrived' = arrived + 1 /\ all /\ out'[k].line = arrived + 1
    <2>1. k \in 1..(p + q + t) /\ out'[k].kind = "line"
      BY <1>8
    <2>2. CASE k <= p /\ k \in 1..p
      BY <1>8, <2>1, <2>2
    <2>3. CASE p < k /\ k <= p + q /\ k - p \in 1..q /\ p + (k - p) = k
      <3>1. out'[k] = r[k - p]
        BY <1>8, <2>3
      <3>2. PICK i \in K : Rank(i, K) = k - p /\ r[k - p] = Line(held[i].line)
        BY <1>5, <2>3
      <3>3. out'[k].line = held[i].line
        BY <1>9, <1>10, <1>11, <3>1, <3>2
      <3> QED
        BY <2>3, <3>2, <3>3
    <2>4. CASE p + q < k /\ k - p - q \in 1..t /\ p + q + (k - p - q) = k
      <3>1. out'[k] = then[k - p - q]
        <4> DEFINE b == k - p - q
        <4>1. b \in 1..t /\ p + q + b = k
          BY <2>4
        <4> HIDE DEF b
        <4>2. out'[p + q + b] = then[b]
          BY <1>8, <4>1
        <4> QED
          BY <4>1, <4>2 DEF b
      <3>2. arrived' = arrived + 1 /\ all /\ then = <<Line(arrived + 1)>>
        BY <2>1, <2>4, <3>1
      <3>3. t = 1 /\ k - p - q = 1 /\ then[1] = Line(arrived + 1)
        BY <2>4, <3>2
      <3>4. out'[k].line = arrived + 1
        <4>1. out'[k] = Line(arrived + 1) /\ arrived + 1 \in Nat
          BY <1>4, <3>1, <3>3
        <4> QED
          BY <1>10, <4>1
      <3>5. k = p + q + 1
        <4> HIDE DEF p, q
        <4> QED
          BY <2>4, <3>3, Zenon
      <3> QED
        BY <2>4, <3>2, <3>4, <3>5
    <2> QED
      BY <1>12, <2>1, <2>2, <2>3, <2>4
  <1>14. \A i, j \in shows : i < j => out'[i].line < out'[j].line
    <2> SUFFICES ASSUME NEW k \in shows, NEW m \in shows, k < m
                 PROVE  out'[k].line < out'[m].line
      OBVIOUS
    <2>1. k \in Nat /\ m \in Nat
      BY <1>8
    <2>2. CASE p < m /\ m <= p + q
      <3>1. p < k /\ k <= p + q /\ ~(p + q < k)
        BY <1>8, <1>13, <2>1, <2>2, SMTT(30)
      <3>2. PICK i \in K : Rank(i, K) = k - p /\ out'[k].line = held[i].line
        BY <1>13, <3>1
      <3>3. ~(p + q < m)
        BY <1>8, <2>1, <2>2
      <3>4. PICK j \in K : Rank(j, K) = m - p /\ out'[m].line = held[j].line
        BY <1>13, <3>3
      <3>5. Rank(i, K) < Rank(j, K)
        BY <1>8, <2>1, <3>2, <3>4
      <3>6. ~(j < i) /\ i # j
        <4>1. Rank(i, K) \in Nat /\ Rank(j, K) \in Nat
          BY <1>7, <1>11
        <4>2. j < i => Rank(j, K) < Rank(i, K)
          BY <1>6
        <4>3. i = j => Rank(i, K) = Rank(j, K)
          OBVIOUS
        <4> QED
          BY <3>5, <4>1, <4>2, <4>3
      <3>7. i < j
        BY <1>11, <3>6
      <3> QED
        BY <1>9, <1>11, <3>2, <3>4, <3>7
    <2>3. CASE ~(p < m /\ m <= p + q)
      <3>1. m = p + q + 1 /\ out'[m].line = arrived + 1
        BY <1>13, <2>3
      <3>2. ~(k = p + q + 1)
        BY <1>8, <2>1, <3>1
      <3>3. PICK i \in K : out'[k].line = held[i].line
        BY <1>13, <3>2
      <3> QED
        BY <1>4, <1>9, <1>11, <3>1, <3>3
    <2> QED
      BY <2>2, <2>3
  <1>15. \A n \in gone, m \in LinesIn(held') : n < m
    <2> SUFFICES ASSUME NEW n \in gone, NEW m \in after
                 PROVE  n < m
      BY <1>3
    <2>1. PICK j \in f..Len(held) : m = held[j].line
      OBVIOUS
    <2>2. CASE n \in before
      <3>1. PICK i \in 1..(f - 1) : n = held[i].line
        BY <2>2
      <3>2. i < j /\ i \in 1..Len(held) /\ j \in 1..Len(held)
        BY <1>4
      <3> QED
        BY <1>9, <2>1, <3>1, <3>2
    <2>3. CASE n \in came
      <3>1. arrived' = arrived + 1
        BY <1>4, <2>3
      <3>2. f = Len(held) + 1
        BY <1>1, <1>4, <3>1
      <3> QED
        BY <1>4, <3>2
    <2> QED
      BY <1>3, <2>2, <2>3
  <1>16. shown \subseteq gone
    <2> SUFFICES ASSUME NEW k \in shows
                 PROVE  out'[k].line \in before \cup came
      BY <1>3
    <2>1. CASE \E i \in K : out'[k].line = held[i].line
      BY <1>11, <2>1
    <2>2. CASE arrived' = arrived + 1 /\ out'[k].line = arrived + 1
      BY <1>4, <2>2
    <2> QED
      BY <1>13, <2>1, <2>2
  <1>17. gone \ shown \subseteq hidden
    <2> SUFFICES ASSUME NEW n \in gone, n \notin shown
                 PROVE  n \in hidden
      OBVIOUS
    <2>1. CASE n \in before
      <3>1. PICK i \in 1..(f - 1) : n = held[i].line
        BY <2>1
      <3>2. i \in 1..Len(held)
        BY <1>4
      <3>3. i \notin K
        <4> SUFFICES ASSUME i \in K
                     PROVE  FALSE
          OBVIOUS
        <4>1. PICK k \in 1..q : r[k] = Line(held[i].line)
          BY <1>5
        <4>2. out'[p + k] = Line(held[i].line) /\ p + k \in 1..(p + q + t)
          BY <1>8, <4>1
        <4>3. p + k \in shows /\ out'[p + k].line = n
          BY <1>8, <1>9, <1>10, <3>1, <3>2, <4>2
        <4> QED
          BY <4>3
      <3>4. WithAnswers[i].answer = "Hidden"
        BY <1>4, <3>3
      <3>5. \/ held[i].answer = "Hidden"
            \/ [line |-> held[i].line, answer |-> "Hidden"] \in answers
        BY <3>2, <3>4, AnswersTaken
      <3> QED
        BY <1>4, <3>1, <3>2, <3>5
    <2>2. CASE n \in came
      <3>1. arrived' = arrived + 1 /\ n = arrived + 1
        BY <1>4, <2>2
      <3>2. then = <<Line(arrived + 1)>>
        BY <1>4, <3>1
      <3>3. t = 1 /\ 1 \in 1..t /\ then[1] = Line(n)
        BY <3>1, <3>2
      <3>4. out'[p + q + 1] = Line(n) /\ p + q + 1 \in 1..(p + q + t)
        BY <1>8, <3>3
      <3>5. p + q + 1 \in shows /\ out'[p + q + 1].line = n
        BY <1>4, <1>8, <1>10, <3>1, <3>4
      <3> QED
        BY <3>5
    <2> QED
      BY <1>3, <2>1, <2>2
  <1> QED
    BY <1>3, <1>14, <1>15, <1>16, <1>17 DEF TurnShowsInOrder

-----------------------------------------------------------------------------
(* Types.                                                                  *)

(* What a receiver holds after an event was sent.                          *)
LEMMA WhatIsReceived ==
    ASSUME NEW rx \in Receivers, NEW event \in Event
    PROVE  LET r == Received(rx, event)
               n == Len(rx.events)
           IN  /\ r \in Receivers /\ n \in Nat /\ rx.events \in Seq(Event)
               /\ r.events # <<>>
               /\ rx.lagged => r.lagged
               /\ \/ /\ r.lagged = rx.lagged /\ r.events = Append(rx.events, event)
                     /\ Len(r.events) = n + 1 /\ r.events[n + 1] = event
                     /\ \A i \in 1..n : r.events[i] = rx.events[i]
                  \/ /\ r.lagged /\ n >= 1
                     /\ Len(r.events) = n /\ r.events[n] = event
                     /\ \A i \in 1..(n - 1) : r.events[i] = rx.events[i + 1]
  <1> DEFINE r == Received(rx, event)
             n == Len(rx.events)
             t == Tail(rx.events)
  <1>1. /\ rx.events \in Seq(Event) /\ n \in Nat /\ rx.lagged \in BOOLEAN
        /\ rx = [events |-> rx.events, lagged |-> rx.lagged]
    BY LenProperties DEF Receivers
  <1>2. rx # Nothing /\ Ring \in Nat /\ Ring >= 1
    BY ViewingConstantsAssumption
  <1>3. CASE n < Ring
    <2>1. r = [events |-> Append(rx.events, event), lagged |-> rx.lagged]
      BY <1>1, <1>2, <1>3 DEF Received
    <2>2. /\ Append(rx.events, event) \in Seq(Event) /\ Append(rx.events, event) # <<>>
          /\ Len(Append(rx.events, event)) = n + 1 /\ Append(rx.events, event)[n + 1] = event
          /\ \A i \in 1..n : Append(rx.events, event)[i] = rx.events[i]
      BY <1>1, AppendProperties
    <2> QED
      BY <1>1, <2>1, <2>2 DEF Receivers
  <1>4. CASE ~(n < Ring)
    <2>1. n >= 1 /\ rx.events # <<>>
      BY <1>1, <1>2, <1>4, EmptySeq
    <2>2. r = [events |-> Append(t, event), lagged |-> TRUE]
      BY <1>2, <1>4 DEF Received
    <2>3. /\ t \in Seq(Event) /\ Len(t) = n - 1
          /\ \A i \in 1..(n - 1) : t[i] = rx.events[i + 1]
      BY <1>1, <2>1, WithoutHead
    <2> HIDE DEF t
    <2>4. /\ Append(t, event) \in Seq(Event) /\ Append(t, event) # <<>>
          /\ Len(Append(t, event)) = Len(t) + 1 /\ Append(t, event)[Len(t) + 1] = event
          /\ \A i \in 1..Len(t) : Append(t, event)[i] = t[i]
      BY <2>3, AppendProperties
    <2>5. Len(t) + 1 = n
      BY <1>1, <2>3
    <2>6. \A i \in 1..(n - 1) : Append(t, event)[i] = rx.events[i + 1]
      BY <2>3, <2>4
    <2> QED
      <3>1. /\ r \in Receivers /\ r.events = Append(t, event) /\ r.lagged
        BY <2>2, <2>4 DEF Receivers
      <3> HIDE DEF r
      <3>2. /\ r.events # <<>> /\ Len(r.events) = n /\ r.events[n] = event
            /\ \A i \in 1..(n - 1) : r.events[i] = rx.events[i + 1]
        BY <2>4, <2>5, <2>6, <3>1
      <3> QED
        BY <1>1, <2>1, <3>1, <3>2 DEF r
  <1> QED
    BY <1>3, <1>4

LEMMA NoReceiver == \A event : Received(Nothing, event) = Nothing
  BY DEF Received

LEMMA KindsOfEvents ==
    ASSUME TypeOK, NEW number \in Nat,
           NEW kind \in {"heard", "line", "quiet", "loud", "notice",
                         "reconnecting", "authenticating", "closed"}
    PROVE  [cursor |-> number, generation |-> generation, kind |-> kind] \in Event
  BY DEF TypeOK, HeldTypeOK, Event

(* One event goes to every receiver, followed or offered.                  *)
LEMMA WhatIsSent ==
    ASSUME TypeOK, NEW number \in Nat,
           NEW kind \in {"heard", "line", "quiet", "loud", "notice",
                         "reconnecting", "authenticating", "closed"},
           SentToAll(number, kind)
    PROVE  LET event == [cursor |-> number, generation |-> generation, kind |-> kind]
           IN  /\ event \in Event
               /\ receiver' \in [Viewers -> Receivers \cup {Nothing}]
               /\ offered' \in [Viewers -> Subscriptions \cup {Nothing}]
               /\ \A v \in Viewers :
                    /\ receiver[v] = Nothing <=> receiver'[v] = Nothing
                    /\ receiver[v] # Nothing =>
                         /\ receiver[v] \in Receivers
                         /\ receiver'[v] = Received(receiver[v], event)
                    /\ offered[v] = Nothing <=> offered'[v] = Nothing
                    /\ offered[v] # Nothing =>
                         /\ offered[v] \in Subscriptions /\ offered[v].rx \in Receivers
                         /\ offered'[v].snapshot = offered[v].snapshot
                         /\ offered'[v].rx = Received(offered[v].rx, event)
  <1> DEFINE event == [cursor |-> number, generation |-> generation, kind |-> kind]
  <1>1. event \in Event
    BY KindsOfEvents
  <1>2. /\ receiver' = [v \in Viewers |-> Received(receiver[v], event)]
        /\ offered' = [v \in Viewers |->
                IF offered[v] = Nothing THEN Nothing
                ELSE [offered[v] EXCEPT !.rx = Received(@, event)]]
    BY DEF SentToAll
  <1> HIDE DEF event
  <1>3. /\ receiver \in [Viewers -> Receivers \cup {Nothing}]
        /\ offered \in [Viewers -> Subscriptions \cup {Nothing}]
    BY DEF TypeOK
  <1>4. Nothing \notin Receivers /\ Nothing \notin Subscriptions
    BY ViewingConstantsAssumption
  <1>5. ASSUME NEW v \in Viewers
        PROVE  /\ receiver'[v] \in Receivers \cup {Nothing}
               /\ receiver[v] = Nothing <=> receiver'[v] = Nothing
               /\ receiver[v] # Nothing =>
                    /\ receiver[v] \in Receivers
                    /\ receiver'[v] = Received(receiver[v], event)
    <2>1. receiver'[v] = Received(receiver[v], event)
      BY <1>2
    <2>2. CASE receiver[v] = Nothing
      BY <2>1, <2>2, NoReceiver
    <2>3. CASE receiver[v] \in Receivers
      <3>1. Received(receiver[v], event) \in Receivers
        BY <1>1, <2>3, WhatIsReceived
      <3> QED
        BY <1>4, <2>1, <2>3, <3>1
    <2> QED
      BY <1>3, <2>2, <2>3
  <1>6. ASSUME NEW v \in Viewers
        PROVE  /\ offered'[v] \in Subscriptions \cup {Nothing}
               /\ offered[v] = Nothing <=> offered'[v] = Nothing
               /\ offered[v] # Nothing =>
                    /\ offered[v] \in Subscriptions /\ offered[v].rx \in Receivers
                    /\ offered'[v].snapshot = offered[v].snapshot
                    /\ offered'[v].rx = Received(offered[v].rx, event)
    <2>1. CASE offered[v] = Nothing
      BY <1>2, <2>1
    <2>2. CASE offered[v] # Nothing
      <3>1. /\ offered[v] \in Subscriptions /\ offered[v].rx \in Receivers
            /\ offered[v].snapshot \in Snapshots
            /\ offered[v] = [snapshot |-> offered[v].snapshot, rx |-> offered[v].rx]
        BY <1>3, <2>2 DEF Subscriptions
      <3>2. offered'[v] = [offered[v] EXCEPT !.rx = Received(offered[v].rx, event)]
        BY <1>2, <2>2
      <3>3. Received(offered[v].rx, event) \in Receivers
        BY <1>1, <3>1, WhatIsReceived
      <3>4. offered'[v] = [snapshot |-> offered[v].snapshot, rx |-> Received(offered[v].rx, event)]
        BY <3>1, <3>2
      <3>5. offered'[v] \in Subscriptions
        BY <3>1, <3>3, <3>4 DEF Subscriptions
      <3> QED
        BY <1>4, <2>2, <3>1, <3>4, <3>5
    <2> QED
      BY <2>1, <2>2
  <1>7. /\ receiver' \in [Viewers -> Receivers \cup {Nothing}]
        /\ offered' \in [Viewers -> Subscriptions \cup {Nothing}]
    <2>1. /\ receiver' = [v \in Viewers |-> receiver'[v]]
          /\ offered' = [v \in Viewers |-> offered'[v]]
      BY <1>2
    <2> QED
      BY <1>5, <1>6, <2>1
  <1> QED
    BY <1>1, <1>5, <1>6, <1>7 DEF event

LEMMA TypesUnfolded ==
    ASSUME TypeOK
    PROVE  /\ out \in Seq(Turned)
           /\ view \in [Viewers -> Views]
           /\ \A v \in Viewers :
                /\ receiver[v] # Nothing =>
                     /\ receiver[v] \in Receivers /\ receiver[v].events \in Seq(Event)
                     /\ Len(receiver[v].events) \in Nat
                     /\ DOMAIN receiver[v].events = 1..Len(receiver[v].events)
                     /\ receiver[v].lagged \in BOOLEAN
                /\ offered[v] # Nothing =>
                     /\ offered[v] \in Subscriptions
                     /\ offered[v] = [snapshot |-> offered[v].snapshot, rx |-> offered[v].rx]
                     /\ offered[v].snapshot \in Snapshots
                     /\ offered[v].rx \in Receivers /\ offered[v].rx.events \in Seq(Event)
                     /\ Len(offered[v].rx.events) \in Nat
                     /\ DOMAIN offered[v].rx.events = 1..Len(offered[v].rx.events)
                     /\ offered[v].rx.lagged \in BOOLEAN
  <1>1. out \in Seq(Turned) /\ view \in [Viewers -> Views]
    BY DEF TypeOK, HeldTypeOK, Turned, Views
  <1>2. ASSUME NEW rx \in Receivers
        PROVE  /\ rx.events \in Seq(Event) /\ Len(rx.events) \in Nat
               /\ DOMAIN rx.events = 1..Len(rx.events) /\ rx.lagged \in BOOLEAN
    <2>1. rx.events \in Seq(Event) /\ rx.lagged \in BOOLEAN
      BY DEF Receivers
    <2> QED
      BY <2>1, LenProperties
  <1>3. ASSUME NEW v \in Viewers, offered[v] # Nothing
        PROVE  /\ offered[v] \in Subscriptions
               /\ offered[v] = [snapshot |-> offered[v].snapshot, rx |-> offered[v].rx]
               /\ offered[v].snapshot \in Snapshots
               /\ offered[v].rx \in Receivers
    BY <1>3 DEF TypeOK, Subscriptions
  <1>4. \A v \in Viewers : receiver[v] # Nothing => receiver[v] \in Receivers
    BY DEF TypeOK
  <1> QED
    BY <1>1, <1>2, <1>3, <1>4

LEMMA ObservedTyped ==
    ASSUME NEW seeing \in Views, NEW event \in Event
    PROVE  Observed(seeing, event) \in Views
  <1>1. event.cursor \in Nat /\ event.generation \in Nat
    BY DEF Event
  <1>2. seeing.quiet \in BOOLEAN /\ seeing.sound \in BOOLEAN
    BY DEF Views
  <1>3. CASE event.cursor <= seeing.seen
    BY <1>3 DEF Observed
  <1>4. CASE ~(event.cursor <= seeing.seen)
    <2> DEFINE q == IF event.kind \in {"quiet", "loud"} THEN event.kind = "quiet"
                    ELSE seeing.quiet /\ event.generation = seeing.generation
               s == seeing.sound /\ (seeing.last = 0 \/ event.cursor = seeing.last + 1)
    <2>1. q \in BOOLEAN /\ s \in BOOLEAN
      BY <1>2, Zenon
    <2>2. Observed(seeing, event) =
            [seen |-> event.cursor, generation |-> event.generation, quiet |-> q,
             dirty |-> TRUE, last |-> event.cursor, sound |-> s]
      BY <1>4 DEF Observed
    <2> HIDE DEF q, s
    <2> QED
      BY <1>1, <2>1, <2>2 DEF Views
  <1> QED
    BY <1>3, <1>4

LEMMA TailTyped ==
    ASSUME NEW rx \in Receivers, rx.events # <<>>
    PROVE  /\ Head(rx.events) \in Event
           /\ [rx EXCEPT !.events = Tail(rx.events)] \in Receivers
           /\ [rx EXCEPT !.events = Tail(rx.events)]
              = [events |-> Tail(rx.events), lagged |-> rx.lagged]
  <1>1. rx.events \in Seq(Event) /\ rx = [events |-> rx.events, lagged |-> rx.lagged]
        /\ rx.lagged \in BOOLEAN
    BY DEF Receivers
  <1>2. Head(rx.events) \in Event /\ Tail(rx.events) \in Seq(Event)
    BY <1>1, WithoutHead
  <1> QED
    <2> DEFINE t == Tail(rx.events)
    <2>1. Head(rx.events) \in Event /\ t \in Seq(Event)
      BY <1>2
    <2> HIDE DEF t
    <2>2. [rx EXCEPT !.events = t] = [events |-> t, lagged |-> rx.lagged]
      BY <1>1
    <2>3. [events |-> t, lagged |-> rx.lagged] \in Receivers
      BY <1>1, <2>1 DEF Receivers
    <2> QED
      BY <2>1, <2>2, <2>3 DEF t

LEMMA SnapshotTyped ==
    ASSUME TypeOK
    PROVE  Snapshot \in Snapshots /\ Empty \in Receivers /\ Snapshot # Nothing
  <1>1. Snapshot \in Snapshots
    BY DEF TypeOK, HeldTypeOK, Snapshot, Snapshots
  <1>2. Empty \in Receivers
    BY EmptySeq DEF Empty, Receivers
  <1> QED
    BY <1>1, <1>2, ViewingConstantsAssumption

(* What a viewer that follows a snapshot's receiver, or takes a snapshot,   *)
(* is typed like.                                                          *)
LEMMA WatchingTyped ==
    ASSUME TypeOK, NEW v \in Viewers
    PROVE  /\ \A w \in Views : [view EXCEPT ![v] = w] \in [Viewers -> Views]
           /\ \A rx \in Receivers :
                [receiver EXCEPT ![v] = rx] \in [Viewers -> Receivers \cup {Nothing}]
           /\ \A o \in Subscriptions \cup {Nothing} :
                [offered EXCEPT ![v] = o] \in [Viewers -> Subscriptions \cup {Nothing}]
           /\ \A d \in {"asking", "waiting", "catching", "following", "done"} :
                [doing EXCEPT ![v] = d]
                  \in [Viewers -> {"asking", "waiting", "catching", "following", "done"}]
  BY DEF TypeOK, Views

LEMMA FreshTyped == \A s \in Snapshots : Fresh(s) \in Views
  BY DEF Fresh, Views, Snapshots

(* A task that follows a stream has one.                                   *)
Follows ==
    \A v \in Viewers :
        /\ doing[v] = "catching" => offered[v] # Nothing
        /\ doing[v] \in {"catching", "following", "done"} => receiver[v] # Nothing

(* What a viewer makes of the next event it reads.                         *)
LEMMA WhatIsRead ==
    ASSUME TypeOK, Follows, NEW v \in Viewers, CatchUp(v) \/ Recv(v)
    PROVE  LET rx == receiver[v]
               n == Len(rx.events)
               r == receiver'[v]
           IN  /\ rx \in Receivers /\ rx.events # <<>> /\ ~rx.lagged /\ n \in Nat \ {0}
               /\ Head(rx.events) = rx.events[1] /\ rx.events[1] \in Event
               /\ view' = [view EXCEPT ![v] = Observed(view[v], rx.events[1])]
               /\ \A u \in Viewers \ {v} : receiver'[u] = receiver[u]
               /\ receiver' = [receiver EXCEPT ![v] = r]
               /\ r \in Receivers /\ r # Nothing /\ ~r.lagged /\ r.events = Tail(rx.events)
               /\ r.events \in Seq(Event) /\ Len(r.events) = n - 1
               /\ \A i \in 1..(n - 1) : r.events[i] = rx.events[i + 1]
  <1> DEFINE rx == receiver[v]
             t == Tail(rx.events)
             r == [rx EXCEPT !.events = t]
  <1>1. receiver \in [Viewers -> Receivers \cup {Nothing}] /\ view \in [Viewers -> Views]
    BY TypesUnfolded DEF TypeOK
  <1>2. rx # Nothing /\ rx.events # <<>> /\ ~rx.lagged
    BY DEF Follows, CatchUp, HasMore, Recv
  <1>3. rx \in Receivers /\ rx.events \in Seq(Event)
    BY <1>2, TypesUnfolded
  <1>4. /\ Len(rx.events) \in Nat \ {0} /\ Head(rx.events) = rx.events[1]
        /\ Head(rx.events) \in Event
        /\ t \in Seq(Event) /\ Len(t) = Len(rx.events) - 1
        /\ \A i \in 1..(Len(rx.events) - 1) : t[i] = rx.events[i + 1]
    BY <1>2, <1>3, WithoutHead
  <1>5. r \in Receivers /\ r = [events |-> t, lagged |-> rx.lagged]
    BY <1>2, <1>3, TailTyped
  <1>6. view' = [view EXCEPT ![v] = Observed(view[v], Head(rx.events))]
    BY <1>1 DEF CatchUp, Recv
  <1>7. receiver' = [receiver EXCEPT ![v] = r]
    BY <1>1 DEF CatchUp, Recv
  <1> HIDE DEF t, r
  <1>8. /\ receiver'[v] = r /\ receiver' = [receiver EXCEPT ![v] = receiver'[v]]
        /\ \A u \in Viewers \ {v} : receiver'[u] = receiver[u]
    BY <1>1, <1>7
  <1>9. r.events = t /\ ~r.lagged /\ r # Nothing
    BY <1>2, <1>5, ViewingConstantsAssumption
  <1> QED
    BY <1>2, <1>3, <1>4, <1>5, <1>6, <1>8, <1>9 DEF t

LEMMA TypeStep == TypeOK /\ Follows /\ [Next]_vars => TypeOK'
  <1> SUFFICES ASSUME TypeOK, Follows, [Next]_vars
               PROVE  TypeOK'
    OBVIOUS
  <1> DEFINE Doings == {"asking", "waiting", "catching", "following", "done"}
             Asks == [by : Viewers, waits : BOOLEAN]
  <1>1. /\ HeldTypeOK
        /\ cursor \in Nat /\ saying \in Nat \cup {Nothing} /\ notices \in Nat
        /\ requests \in Seq(Asks)
        /\ final \in Snapshots \cup {Nothing}
        /\ doing \in [Viewers -> Doings]
        /\ receiver \in [Viewers -> Receivers \cup {Nothing}]
        /\ offered \in [Viewers -> Subscriptions \cup {Nothing}]
        /\ view \in [Viewers -> Views]
    BY DEF TypeOK, Views
  <1>2. SUFFICES /\ HeldTypeOK'
                 /\ cursor' \in Nat /\ saying' \in Nat \cup {Nothing} /\ notices' \in Nat
                 /\ requests' \in Seq(Asks)
                 /\ final' \in Snapshots \cup {Nothing}
                 /\ doing' \in [Viewers -> Doings]
                 /\ receiver' \in [Viewers -> Receivers \cup {Nothing}]
                 /\ offered' \in [Viewers -> Subscriptions \cup {Nothing}]
                 /\ view' \in [Viewers -> Views]
    BY DEF TypeOK, Views
  <1> HIDE DEF Doings, Asks
  <1>3. UNCHANGED heldVars => HeldTypeOK'
    <2> SUFFICES ASSUME UNCHANGED heldVars
                 PROVE  HeldTypeOK'
      OBVIOUS
    <2>1. UNCHANGED <<life, generation, window, quiets, arrived, held>>
      BY DEF heldVars, connection, quiet, lines
    <2>2. UNCHANGED <<display, answers, rung, out>>
      BY DEF heldVars, hooks
    <2> QED
      BY <1>1, <2>1, <2>2 DEF HeldTypeOK
  <1>4. CASE OwnerStep
    <2>1. HeldTypeOK'
      BY <1>1, <1>4, TurnsTyped DEF OwnerStep
    <2> QED
      BY <1>1, <1>4, <2>1 DEF OwnerStep, publishing, observing, watching
  <1>5. CASE RunnerStep
    <2>1. ASSUME NEW on \in BOOLEAN, HookLines(on)
          PROVE  HeldTypeOK'
      BY <1>1, <2>1 DEF HookLines, HeldTypeOK, connection, quiet, lines
    <2>2. ASSUME NEW n \in 1..arrived, NEW a \in {"Hidden", "Text"}, Answer(n, a)
          PROVE  HeldTypeOK'
      <3>1. [line |-> n, answer |-> a] \in [line : Nat, answer : {"Hidden", "Text"}]
        BY <1>1 DEF HeldTypeOK
      <3> QED
        BY <1>1, <2>2, <3>1 DEF Answer, HeldTypeOK, connection, quiet, lines
    <2> QED
      BY <1>1, <1>5, <2>1, <2>2 DEF RunnerStep, publishing, observing, watching
  <1>6. CASE ClockStep
    <2>1. PICK i \in DOMAIN held : held' = [held EXCEPT ![i].due = TRUE]
      BY <1>6 DEF ClockStep, DeadlinePasses
    <2>2. held \in Seq(Waiting) /\ i \in 1..Len(held)
      BY <1>1, LenProperties DEF HeldTypeOK, Waiting
    <2>3. held[i] \in Waiting
      BY <2>2, ElementOfSeq
    <2>4. [held[i] EXCEPT !.due = TRUE] \in Waiting
      BY <2>3 DEF Waiting
    <2>5. held' \in Seq(Waiting)
      BY <2>1, <2>2, <2>4, ExceptSeq
    <2>6. HeldTypeOK'
      BY <1>1, <1>6, <2>5
         DEF ClockStep, DeadlinePasses, HeldTypeOK, Waiting, connection, quiet, hooks
    <2> QED
      BY <1>1, <1>6, <2>6 DEF ClockStep, publishing, observing, watching
  <1>7. CASE Publish
    <2>1. /\ out \in Seq(Turned) /\ out # <<>>
      BY <1>7, TypesUnfolded DEF Publish
    <2>2. Head(out) \in Turned /\ Tail(out) \in Seq(Turned)
      BY <2>1, WithoutHead
    <2>3. HeldTypeOK'
      BY <1>1, <1>7, <2>2 DEF Publish, HeldTypeOK, Turned, connection, quiet, lines, hooks
    <2>4. /\ receiver' \in [Viewers -> Receivers \cup {Nothing}]
          /\ offered' \in [Viewers -> Subscriptions \cup {Nothing}]
      <3>1. cursor' \in Nat /\ SentToAll(cursor', Head(out).kind)
        BY <1>1, <1>7 DEF Publish
      <3>2. Head(out).kind \in {"heard", "line", "quiet", "loud", "notice",
                                "reconnecting", "authenticating", "closed"}
        BY <2>2 DEF Turned
      <3> QED
        BY <3>1, <3>2, WhatIsSent
    <2> QED
      BY <1>1, <1>7, <2>3, <2>4 DEF Publish, observing
  <1>8. CASE Say
    BY <1>1, <1>3, <1>8 DEF Say, observing, watching
  <1>9. CASE Said
    <2>1. /\ receiver' \in [Viewers -> Receivers \cup {Nothing}]
          /\ offered' \in [Viewers -> Subscriptions \cup {Nothing}]
      <3>1. saying \in Nat /\ SentToAll(saying, "notice")
        BY <1>1, <1>9 DEF Said
      <3> QED
        BY <3>1, WhatIsSent
    <2> QED
      BY <1>1, <1>3, <1>9, <2>1 DEF Said, observing
  <1>10. CASE AnswerRequest
    <2>1. requests # <<>>
      BY <1>10 DEF AnswerRequest
    <2>2. Head(requests).by \in Viewers /\ Tail(requests) \in Seq(Asks)
      <3>1. Head(requests) \in Asks /\ Tail(requests) \in Seq(Asks)
        BY <1>1, <2>1, WithoutHead
      <3> QED
        BY <3>1 DEF Asks
    <2>3. [snapshot |-> Snapshot, rx |-> Empty] \in Subscriptions
      BY SnapshotTyped DEF Subscriptions
    <2>4. offered' \in [Viewers -> Subscriptions \cup {Nothing}]
      BY <1>1, <1>10, <2>2, <2>3, WatchingTyped DEF AnswerRequest
    <2> QED
      BY <1>1, <1>3, <1>10, <2>2, <2>4 DEF AnswerRequest, publishing
  <1>11. CASE Finish
    <2>1. HeldTypeOK'
      BY <1>1, <1>11 DEF Finish, HeldTypeOK, quiet, lines, hooks
    <2> QED
      BY <1>1, <1>11, <2>1, SnapshotTyped, EmptySeq DEF Finish, publishing, watching
  <1>12. ASSUME NEW v \in Viewers, Viewer(v)
         PROVE  /\ HeldTypeOK'
                /\ cursor' \in Nat /\ saying' \in Nat \cup {Nothing} /\ notices' \in Nat
                /\ requests' \in Seq(Asks)
                /\ final' \in Snapshots \cup {Nothing}
                /\ doing' \in [Viewers -> Doings]
                /\ receiver' \in [Viewers -> Receivers \cup {Nothing}]
                /\ offered' \in [Viewers -> Subscriptions \cup {Nothing}]
                /\ view' \in [Viewers -> Views]
    <2>1. UNCHANGED <<heldVars, publishing, final>>
      BY <1>12 DEF Viewer, Ask, TimedOut, TakeAnswer, TakeFinal, CatchUp, Fence, Recv, Lagged,
                   Tick, observing
    <2>2. HeldTypeOK' /\ UNCHANGED <<cursor, saying, notices, final>>
      BY <1>3, <2>1 DEF publishing
    <2>3. /\ \A w \in Views : [view EXCEPT ![v] = w] \in [Viewers -> Views]
          /\ \A rx \in Receivers :
               [receiver EXCEPT ![v] = rx] \in [Viewers -> Receivers \cup {Nothing}]
          /\ \A o \in Subscriptions \cup {Nothing} :
               [offered EXCEPT ![v] = o] \in [Viewers -> Subscriptions \cup {Nothing}]
          /\ \A d \in Doings : [doing EXCEPT ![v] = d] \in [Viewers -> Doings]
      BY WatchingTyped DEF Doings
    <2>4. \A over \in BOOLEAN : (IF over THEN "done" ELSE "following") \in Doings
      BY DEF Doings
    <2>5. {"asking", "waiting", "catching", "following"} \subseteq Doings
      BY DEF Doings
    <2>6. \A s \in Snapshots : s.over \in BOOLEAN /\ s.cursor \in Nat /\ s.generation \in Nat
      BY DEF Snapshots
    <2>7. view[v] \in Views /\ doing[v] \in Doings
      BY <1>1
    <2>8. CASE Ask(v)
      <3>1. [by |-> v, waits |-> TRUE] \in Asks
        BY DEF Asks
      <3>2. requests' \in Seq(Asks)
        BY <1>1, <2>8, <3>1, AppendProperties DEF Ask
      <3> QED
        BY <1>1, <2>2, <2>3, <2>5, <2>8, <3>2 DEF Ask
    <2>9. CASE TimedOut(v)
      <3>1. requests' = [i \in 1..Len(requests) |->
                [requests[i] EXCEPT !.waits = requests[i].waits /\ requests[i].by # v]]
        BY <1>1, <2>9, LenProperties DEF TimedOut
      <3>2. \A i \in 1..Len(requests) : requests[i] \in Asks
        BY <1>1, ElementOfSeq
      <3>3. \A r \in Asks : \A b \in BOOLEAN : [r EXCEPT !.waits = b] \in Asks
        BY DEF Asks
      <3>4. \A i \in 1..Len(requests) : (requests[i].waits /\ requests[i].by # v) \in BOOLEAN
        OBVIOUS
      <3>5. requests' \in [1..Len(requests) -> Asks]
        BY <3>1, <3>2, <3>3, <3>4
      <3>6. requests' \in Seq(Asks)
        BY <1>1, <3>5, AList, LenProperties
      <3> QED
        BY <1>1, <2>2, <2>3, <2>5, <2>9, <3>6 DEF TimedOut
    <2>10. ASSUME NEW s \in Snapshots, NEW rx \in Receivers, Follow(v, s, rx)
           PROVE  /\ doing' \in [Viewers -> Doings]
                  /\ receiver' \in [Viewers -> Receivers \cup {Nothing}]
                  /\ offered' \in [Viewers -> Subscriptions \cup {Nothing}]
      BY <2>3, <2>4, <2>6, <2>10 DEF Follow
    <2>11. ASSUME NEW s \in Snapshots, NEW rx \in Receivers, Take(v, s, rx)
           PROVE  /\ doing' \in [Viewers -> Doings]
                  /\ receiver' \in [Viewers -> Receivers \cup {Nothing}]
                  /\ offered' \in [Viewers -> Subscriptions \cup {Nothing}]
                  /\ view' \in [Viewers -> Views]
      <3>1. CASE receiver[v] = Nothing
        <4>1. view' = [view EXCEPT ![v] = Fresh(s)] /\ Follow(v, s, rx)
          BY <2>11, <3>1 DEF Take
        <4> QED
          BY <2>3, <2>10, <4>1, FreshTyped
      <3>2. CASE receiver[v] # Nothing
        <4>1. [snapshot |-> s, rx |-> rx] \in Subscriptions
          BY DEF Subscriptions
        <4> QED
          BY <1>1, <2>3, <2>5, <2>11, <3>2, <4>1 DEF Take
      <3> QED
        BY <3>1, <3>2
    <2>12. CASE TakeAnswer(v)
      <3>1. offered[v].snapshot \in Snapshots /\ offered[v].rx \in Receivers
        BY <2>12, TypesUnfolded DEF TakeAnswer
      <3> QED
        BY <1>1, <2>2, <2>11, <2>12, <3>1 DEF TakeAnswer, observing
    <2>13. CASE TakeFinal(v)
      <3>1. final \in Snapshots /\ Empty \in Receivers
        BY <1>1, <2>13, SnapshotTyped DEF TakeFinal
      <3> QED
        BY <1>1, <2>2, <2>11, <2>13, <3>1 DEF TakeFinal, observing
    <2>14. CASE CatchUp(v) \/ Recv(v)
      <3>1. /\ receiver' = [receiver EXCEPT ![v] = receiver'[v]] /\ receiver'[v] \in Receivers
            /\ view' = [view EXCEPT ![v] = Observed(view[v], receiver[v].events[1])]
            /\ receiver[v].events[1] \in Event
        BY <2>14, WhatIsRead
      <3>2. receiver' \in [Viewers -> Receivers \cup {Nothing}]
        BY <2>3, <3>1
      <3>3. view' \in [Viewers -> Views]
        BY <2>3, <2>7, <3>1, ObservedTyped
      <3>4. \E d \in Doings : doing' = doing \/ doing' = [doing EXCEPT ![v] = d]
        BY <2>5, <2>7, <2>14 DEF CatchUp, Recv
      <3>5. UNCHANGED <<requests, offered>>
        BY <2>14 DEF CatchUp, Recv, observing
      <3> QED
        BY <1>1, <2>2, <2>3, <3>2, <3>3, <3>4, <3>5
    <2>15. CASE Fence(v)
      <3> DEFINE w == IF Behind(v) THEN Missing(view[v]) ELSE view[v]
      <3>1. offered[v].snapshot \in Snapshots /\ offered[v].rx \in Receivers
        BY <2>15, TypesUnfolded DEF Fence, Follows
      <3>2. w \in Views
        BY <2>7 DEF Missing, Views
      <3>3. [w EXCEPT !.seen = offered[v].snapshot.cursor,
                      !.generation = offered[v].snapshot.generation,
                      !.dirty = FALSE] \in Views
        <4> HIDE DEF w
        <4> QED
          BY <2>6, <3>1, <3>2 DEF Views
      <3>4. view' \in [Viewers -> Views]
        BY <1>1, <2>3, <2>15, <3>3 DEF Fence
      <3> QED
        BY <1>1, <2>2, <2>10, <2>15, <3>1, <3>4 DEF Fence, observing
    <2>16. CASE Lagged(v)
      <3>1. receiver[v] \in Receivers
        BY <2>16, TypesUnfolded DEF Lagged, Follows
      <3>2. [receiver[v] EXCEPT !.lagged = FALSE] \in Receivers
        BY <3>1 DEF Receivers
      <3>3. Missing(view[v]) \in Views
        BY <2>7 DEF Missing, Views
      <3>4. /\ receiver' = [receiver EXCEPT ![v] = [receiver[v] EXCEPT !.lagged = FALSE]]
            /\ view' = [view EXCEPT ![v] = Missing(view[v])]
            /\ doing' = [doing EXCEPT ![v] = "asking"]
            /\ UNCHANGED <<requests, offered>>
        BY <1>1, <2>16 DEF Lagged, observing
      <3> QED
        BY <1>1, <2>2, <2>3, <2>5, <3>2, <3>3, <3>4
    <2>17. CASE Tick(v)
      BY <1>1, <2>2, <2>3, <2>5, <2>17 DEF Tick, observing
    <2> QED
      BY <1>12, <2>8, <2>9, <2>12, <2>13, <2>14, <2>15, <2>16, <2>17 DEF Viewer
  <1>13. CASE UNCHANGED vars
    BY <1>1, <1>3, <1>13 DEF vars, publishing, observing, watching
  <1> QED
    BY <1>4, <1>5, <1>6, <1>7, <1>8, <1>9, <1>10, <1>11, <1>12, <1>13 DEF Next

LEMMA FollowsKept == TypeOK /\ Follows /\ [Next]_vars => Follows'
  <1> SUFFICES ASSUME TypeOK, Follows, [Next]_vars
               PROVE  Follows'
    OBVIOUS
  <1>1. /\ doing \in [Viewers -> {"asking", "waiting", "catching", "following", "done"}]
        /\ receiver \in [Viewers -> Receivers \cup {Nothing}]
        /\ offered \in [Viewers -> Subscriptions \cup {Nothing}]
    BY DEF TypeOK
  <1>2. Nothing \notin Receivers /\ Nothing \notin Subscriptions
    BY ViewingConstantsAssumption
  <1>3. UNCHANGED <<doing, receiver, offered>> => Follows'
    BY DEF Follows
  <1>4. CASE OwnerStep \/ RunnerStep \/ ClockStep \/ Say \/ Finish \/ UNCHANGED vars
    BY <1>3, <1>4 DEF OwnerStep, RunnerStep, ClockStep, Say, Finish, vars, watching
  <1>5. ASSUME UNCHANGED doing,
               \A v \in Viewers : /\ receiver[v] = Nothing <=> receiver'[v] = Nothing
                                  /\ offered[v] = Nothing <=> offered'[v] = Nothing
        PROVE  Follows'
    BY <1>5 DEF Follows
  <1>6. CASE Publish
    <2>1. cursor' \in Nat /\ SentToAll(cursor', Head(out).kind) /\ UNCHANGED doing
      BY <1>6 DEF Publish, TypeOK
    <2>2. Head(out) \in Turned
      BY <1>6, TypesUnfolded, WithoutHead DEF Publish
    <2>3. Head(out).kind \in {"heard", "line", "quiet", "loud", "notice",
                              "reconnecting", "authenticating", "closed"}
      BY <2>2 DEF Turned
    <2> QED
      BY <1>5, <2>1, <2>3, WhatIsSent
  <1>7. CASE Said
    <2>1. saying \in Nat /\ SentToAll(saying, "notice") /\ UNCHANGED doing
      BY <1>7 DEF Said, TypeOK
    <2> QED
      BY <1>5, <2>1, WhatIsSent
  <1>8. CASE AnswerRequest
    <2>1. \A v \in Viewers : offered'[v] = offered[v] \/ offered'[v] = [snapshot |-> Snapshot, rx |-> Empty]
      BY <1>1, <1>8 DEF AnswerRequest
    <2>2. [snapshot |-> Snapshot, rx |-> Empty] \in Subscriptions
      BY SnapshotTyped DEF Subscriptions
    <2>3. UNCHANGED <<doing, receiver>>
      BY <1>8 DEF AnswerRequest
    <2> QED
      BY <1>2, <2>1, <2>2, <2>3 DEF Follows
  <1>9. ASSUME NEW v \in Viewers, Viewer(v)
        PROVE  Follows'
    <2>1. ASSUME NEW s \in Snapshots, NEW rx \in Receivers, Follow(v, s, rx)
          PROVE  Follows'
      BY <1>1, <1>2, <2>1 DEF Follow, Follows
    <2>2. ASSUME NEW s \in Snapshots, NEW rx \in Receivers, Take(v, s, rx)
          PROVE  Follows'
      <3>1. CASE receiver[v] = Nothing
        BY <2>1, <2>2, <3>1 DEF Take
      <3>2. CASE receiver[v] # Nothing
        <4>1. [snapshot |-> s, rx |-> rx] # Nothing
          BY <1>2 DEF Subscriptions
        <4> QED
          BY <1>1, <2>2, <3>2, <4>1 DEF Take, Follows
      <3> QED
        BY <3>1, <3>2
    <2>3. CASE Ask(v) \/ TimedOut(v)
      BY <1>1, <2>3 DEF Ask, TimedOut, Follows
    <2>4. CASE TakeAnswer(v)
      BY <2>2, <2>4, TypesUnfolded DEF TakeAnswer
    <2>5. CASE TakeFinal(v)
      BY <2>2, <2>5, SnapshotTyped DEF TakeFinal, TypeOK
    <2>6. CASE CatchUp(v) \/ Recv(v)
      <3>1. /\ \A u \in Viewers : receiver'[u] = Nothing <=> receiver[u] = Nothing
            /\ receiver[v] # Nothing
        <4>1. /\ \A u \in Viewers \ {v} : receiver'[u] = receiver[u]
              /\ receiver[v] \in Receivers /\ receiver'[v] \in Receivers
          BY <2>6, WhatIsRead
        <4> QED
          BY <1>2, <4>1
      <3>2. offered' = offered /\ \/ doing' = doing
                                  \/ doing' = [doing EXCEPT ![v] = "following"]
                                  \/ doing' = [doing EXCEPT ![v] = "asking"]
        BY <2>6 DEF CatchUp, Recv
      <3> QED
        BY <1>1, <3>1, <3>2 DEF Follows
    <2>7. CASE Fence(v)
      BY <2>1, <2>7, TypesUnfolded DEF Fence, Follows
    <2>8. CASE Lagged(v)
      <3>1. receiver[v] \in Receivers
        BY <2>8, TypesUnfolded DEF Lagged, Follows
      <3>2. [receiver[v] EXCEPT !.lagged = FALSE] \in Receivers
        BY <3>1 DEF Receivers
      <3> QED
        BY <1>1, <1>2, <2>8, <3>2 DEF Lagged, Follows
    <2>9. CASE Tick(v)
      BY <1>1, <2>9 DEF Tick, Follows
    <2> QED
      BY <1>9, <2>3, <2>4, <2>5, <2>6, <2>7, <2>8, <2>9 DEF Viewer
  <1> QED
    BY <1>4, <1>6, <1>7, <1>8, <1>9 DEF Next

LEMMA InitTyped == Init => TypeOK /\ Follows /\ HeldInOrder
  <1> SUFFICES ASSUME Init
               PROVE  TypeOK /\ Follows /\ HeldInOrder
    OBVIOUS
  <1>1. <<>> \in Seq(Waiting) /\ <<>> \in Seq(Turned) /\ <<>> \in Seq([by : Viewers, waits : BOOLEAN])
    BY EmptySeq
  <1>2. HeldTypeOK
    BY <1>1 DEF Init, HeldInit, HeldTypeOK, Waiting, Turned
  <1>3. [v \in Viewers |-> Fresh([cursor |-> 0, generation |-> 0])] \in [Viewers -> Views]
    BY DEF Fresh, Views
  <1>4. TypeOK
    BY <1>1, <1>2, <1>3 DEF Init, TypeOK, Views
  <1>5. Follows
    BY DEF Init, Follows
  <1>6. HeldInOrder
    BY DEF Init, HeldInit, HeldInOrder
  <1> QED
    BY <1>4, <1>5, <1>6

(* Lines wait in the order they came, and are shown in it.                 *)
LEMMA ShowingStep ==
    TypeOK /\ HeldInOrder /\ [Next]_vars
        => HeldInOrder' /\ (out = <<>> /\ Next => TurnShowsInOrder)
  <1> SUFFICES ASSUME TypeOK, HeldInOrder, [Next]_vars
               PROVE  HeldInOrder' /\ (out = <<>> /\ Next => TurnShowsInOrder)
    OBVIOUS
  <1>1. HeldTypeOK /\ arrived \in Nat /\ <<>> \in Seq(Turned) /\ display \in BOOLEAN
        /\ held \in Seq(Waiting) /\ DOMAIN held = 1..Len(held) /\ Len(held) \in Nat
    BY EmptySeq, LenProperties DEF TypeOK, HeldTypeOK, Waiting
  <1>2. (arrived + 1)..arrived = {}
    BY <1>1
  <1>3. UNCHANGED <<held, arrived>> => HeldInOrder'
    BY DEF HeldInOrder
  (* A turn that releases nothing. *)
  <1>4. ASSUME UNCHANGED <<held, arrived>>, \A i \in DOMAIN out' : out'[i].kind # "line"
        PROVE  HeldInOrder' /\ TurnShowsInOrder
    <2>1. LinesIn(held') = LinesIn(held) \cup (arrived + 1)..arrived'
      BY <1>2, <1>4
    <2> QED
      BY <1>1, <1>3, <1>4, <2>1, NothingShown
  <1>5. ASSUME UNCHANGED <<held, arrived>>, out' = out \/ out # <<>>
        PROVE  HeldInOrder' /\ (out = <<>> => TurnShowsInOrder)
    <2>1. ASSUME out = <<>>
          PROVE  \A i \in DOMAIN out' : out'[i].kind # "line"
      BY <1>5, <2>1
    <2> QED
      BY <1>3, <1>4, <1>5, <2>1
  <1>6. CASE Arrive
    <2> DEFINE first == IF Hearing THEN <<Heard(arrived + 1)>> ELSE <<>>
               last == <<Line(arrived + 1)>>
               new == [line |-> arrived + 1, answer |-> "Awaited", due |-> FALSE]
    <2>1. first \in Seq(Turned) /\ last \in Seq(Turned) /\ Line(arrived + 1) \in Turned
      BY <1>1, TurnedItems, AListOf1
    <2>2. \A k \in 1..Len(first) : first[k].kind # "line"
      BY DEF Heard
    <2>3. DOMAIN first = 1..Len(first) /\ Len(first) \in Nat
      BY <2>1, LenProperties
    <2>4. /\ arrived' = arrived + 1
          /\ \/ held' = Append(held, new) /\ out' = first
             \/ ShowHeld(TRUE, first, last)
             \/ out' = Append(first, Line(arrived + 1)) /\ held' = held /\ held = <<>>
      BY <1>6 DEF Arrive
    <2>5. CASE held' = Append(held, new) /\ out' = first
      <3>1. new \in Waiting
        BY <1>1 DEF Waiting
      <3>2. /\ Append(held, new) \in Seq(Waiting) /\ Len(Append(held, new)) = Len(held) + 1
            /\ \A i \in 1..Len(held) : Append(held, new)[i] = held[i]
            /\ Append(held, new)[Len(held) + 1] = new
        BY <1>1, <3>1, AppendProperties
      <3>3. DOMAIN held' = 1..(Len(held) + 1)
        BY <2>5, <3>2, LenProperties
      <3>4. /\ \A i \in 1..Len(held) : held'[i].line = held[i].line
            /\ held'[Len(held) + 1].line = arrived + 1
        BY <2>5, <3>2
      <3>5. \A i \in 1..(Len(held) + 1) : i \in 1..Len(held) \/ i = Len(held) + 1
        BY <1>1
      <3>6. \A i \in 1..Len(held) : i \in 1..(Len(held) + 1) /\ held[i].line \in 1..arrived
        BY <1>1 DEF HeldInOrder
      <3>7. LinesIn(held') = LinesIn(held) \cup {arrived + 1}
        <4>1. \A x \in LinesIn(held') : x \in LinesIn(held) \/ x = arrived + 1
          BY <1>1, <3>3, <3>4, <3>5 DEF LinesIn
        <4>2. arrived + 1 \in LinesIn(held')
          <5>1. Len(held) + 1 \in DOMAIN held'
            BY <1>1, <3>3
          <5> QED
            BY <3>4, <5>1 DEF LinesIn
        <4>3. \A x \in LinesIn(held) : x \in LinesIn(held')
          BY <1>1, <3>3, <3>4, <3>6 DEF LinesIn
        <4> QED
          BY <4>1, <4>2, <4>3
      <3>8. (arrived + 1)..arrived' = {arrived + 1}
        BY <1>1, <2>4
      <3>9. TurnShowsInOrder
        <4>1. LinesIn(held') = LinesIn(held) \cup (arrived + 1)..arrived'
          BY <3>7, <3>8
        <4>2. \A k \in DOMAIN out' : out'[k].kind # "line"
          <5> HIDE DEF first
          <5> QED
            BY <2>2, <2>3, <2>5
        <4>3. arrived' \in Nat
          BY <1>1, <2>4
        <4> QED
          BY <1>1, <4>1, <4>2, <4>3, NothingShown
      <3>10. HeldInOrder'
        <4>1. ASSUME NEW i \in DOMAIN held', NEW j \in DOMAIN held', i < j
              PROVE  held'[i].line < held'[j].line
          <5>1. i \in 1..Len(held) /\ held'[i].line = held[i].line
                /\ held[i].line \in 1..arrived
            BY <1>1, <3>3, <3>4, <3>5, <3>6, <4>1
          <5>2. CASE j \in 1..Len(held)
            BY <1>1, <3>4, <4>1, <5>1, <5>2 DEF HeldInOrder
          <5>3. CASE j = Len(held) + 1
            BY <1>1, <3>4, <5>1, <5>3
          <5> QED
            BY <3>3, <3>5, <5>2, <5>3
        <4>2. \A i \in DOMAIN held' : held'[i].line \in 1..arrived'
          BY <1>1, <2>4, <3>3, <3>4, <3>5, <3>6
        <4> QED
          BY <4>1, <4>2 DEF HeldInOrder
      <3> QED
        BY <3>9, <3>10
    <2>6. CASE ShowHeld(TRUE, first, last)
      <3> HIDE DEF first
      <3> QED
        BY <1>1, <2>1, <2>2, <2>4, <2>6, ShowsInOrder
    <2>7. CASE out' = Append(first, Line(arrived + 1)) /\ held' = held /\ held = <<>>
      <3> HIDE DEF first
      <3>1. /\ DOMAIN out' = 1..(Len(first) + 1)
            /\ \A k \in 1..Len(first) : out'[k] = first[k]
            /\ out'[Len(first) + 1] = Line(arrived + 1)
        BY <2>1, <2>7, AppendProperties, LenProperties
      <3>2. Line(arrived + 1).kind = "line" /\ Line(arrived + 1).line = arrived + 1
        BY DEF Line
      <3>3. {k \in DOMAIN out' : out'[k].kind = "line"} = {Len(first) + 1}
        <4>1. \A k \in 1..(Len(first) + 1) : k \in 1..Len(first) \/ k = Len(first) + 1
          BY <2>3
        <4>2. Len(first) + 1 \in 1..(Len(first) + 1)
          BY <2>3
        <4> QED
          BY <2>2, <3>1, <3>2, <4>1, <4>2
      <3>4. /\ LinesIn(held) = {} /\ LinesIn(held') = {}
            /\ (arrived + 1)..arrived' = {arrived + 1}
        BY <1>1, <2>4, <2>7 DEF LinesIn
      <3>5. TurnShowsInOrder
        BY <2>3, <3>1, <3>2, <3>3, <3>4 DEF TurnShowsInOrder
      <3>6. HeldInOrder'
        BY <2>7 DEF HeldInOrder
      <3> QED
        BY <3>5, <3>6
    <2> QED
      BY <2>4, <2>5, <2>6, <2>7
  <1>7. CASE Wake \/ Lose \/ Cancel
    <2>1. \A k \in 1..Len(<<>>) : <<>>[k].kind # "line"
      BY <1>1, EmptySeq
    <2>2. ASSUME NEW all \in BOOLEAN, ShowHeld(all, <<>>, <<>>), arrived' = arrived
          PROVE  TurnShowsInOrder /\ HeldInOrder'
      BY <1>1, <2>1, <2>2, ShowsInOrder
    <2>3. CASE Wake
      BY <2>2, <2>3 DEF Wake
    <2>4. CASE Lose
      BY <1>1, <2>2, <2>4 DEF Lose, Shutdown
    <2>5. CASE Cancel
      <3> DEFINE then == <<StateChanged("closed")>>
      <3>1. then \in Seq(Turned) /\ \A k \in 1..Len(then) : then[k].kind # "line"
        BY TurnedItems, AListOf1 DEF StateChanged
      <3>2. ShowHeld(TRUE, <<>>, then) /\ arrived' = arrived
        BY <2>5 DEF Cancel, Shutdown
      <3> HIDE DEF then
      <3> QED
        BY <1>1, <2>1, <3>1, <3>2, ShowsInOrder
    <2> QED
      BY <1>7, <2>3, <2>4, <2>5
  <1>9. CASE OpenQuietWindow \/ EndQuietWindow \/ Reconnect \/ Connect \/ Stop
    <2>1. UNCHANGED <<held, arrived>>
      BY <1>9 DEF OpenQuietWindow, EndQuietWindow, Reconnect, Connect, Stop, lines
    <2>2. \E e : out' = <<e>> /\ e.kind # "line"
      BY <1>9 DEF OpenQuietWindow, EndQuietWindow, Reconnect, Connect, Stop, Quiet, StateChanged
    <2> QED
      BY <1>4, <2>1, <2>2
  <1>10. CASE OwnerStep
    BY <1>6, <1>7, <1>9, <1>10 DEF OwnerStep, OwnerTurns
  <1>11. CASE ClockStep
    <2>1. PICK i \in DOMAIN held : held' = [held EXCEPT ![i].due = TRUE]
      BY <1>11 DEF ClockStep, DeadlinePasses
    <2>2. UNCHANGED <<arrived, out>>
      BY <1>11 DEF ClockStep, DeadlinePasses
    <2>3. held[i] \in Waiting
      BY <1>1, ElementOfSeq
    <2>4. /\ DOMAIN held' = DOMAIN held
          /\ \A j \in DOMAIN held : held'[j].line = held[j].line
      BY <1>1, <2>1, <2>3 DEF Waiting
    <2>5. LinesIn(held') = LinesIn(held)
      BY <2>4 DEF LinesIn
    <2>6. HeldInOrder'
      BY <2>2, <2>4 DEF HeldInOrder
    <2>7. ASSUME out = <<>>
          PROVE  TurnShowsInOrder
      <3>1. \A k \in DOMAIN out' : out'[k].kind # "line"
        BY <2>2, <2>7
      <3>2. LinesIn(held') = LinesIn(held) \cup (arrived + 1)..arrived'
        BY <1>2, <2>2, <2>5
      <3> QED
        BY <1>1, <2>2, <3>1, <3>2, NothingShown
    <2> QED
      BY <2>6, <2>7
  <1>12. CASE \/ RunnerStep \/ Publish \/ Say \/ Said \/ AnswerRequest \/ Finish
              \/ \E v \in Viewers : Viewer(v)
    <2>1. UNCHANGED <<held, arrived>> /\ (out' = out \/ out # <<>>)
      <3>1. CASE RunnerStep
        BY <3>1 DEF RunnerStep, HookLines, Answer, lines
      <3>2. CASE Publish
        BY <3>2 DEF Publish, lines
      <3>3. CASE Finish
        BY <3>3 DEF Finish, lines
      <3>4. CASE Say \/ Said \/ AnswerRequest
        BY <3>4 DEF Say, Said, AnswerRequest, heldVars, lines
      <3>5. ASSUME NEW v \in Viewers, Viewer(v)
            PROVE  UNCHANGED heldVars
        BY <3>5 DEF Viewer, Ask, TimedOut, TakeAnswer, TakeFinal, CatchUp, Fence, Recv, Lagged, Tick
      <3> QED
        BY <1>12, <3>1, <3>2, <3>3, <3>4, <3>5 DEF heldVars, lines
    <2> QED
      BY <1>5, <2>1
  <1>13. CASE UNCHANGED vars
    <2>1. UNCHANGED <<held, arrived, out>>
      BY <1>13 DEF vars, heldVars, lines
    <2> QED
      BY <1>5, <2>1
  <1> QED
    BY <1>10, <1>11, <1>12, <1>13 DEF Next

LEMMA TypesHold == Spec => [](TypeOK /\ Follows /\ HeldInOrder)
  <1>1. TypeOK /\ Follows /\ HeldInOrder /\ [Next]_vars => (TypeOK /\ Follows /\ HeldInOrder)'
    BY TypeStep, FollowsKept, ShowingStep
  <1> QED
    BY <1>1, InitTyped, PTL DEF Spec

(* Every reachable state of an owner, its viewers and its runner is well    *)
(* typed.                                                                  *)
THEOREM TypeCorrect == Spec => []TypeOK
  BY TypesHold, PTL

(* Whatever answers come, in whatever order, and whatever deadlines pass,  *)
(* hooks go and connections are lost: a turn shows what stopped waiting, in *)
(* order, before all that still waits, and leaves out only what was hidden. *)
THEOREM LinesShownInOrder == Spec => ShownInOrder
  <1>1. TypeOK /\ HeldInOrder /\ [Next]_vars => [out = <<>> => TurnShowsInOrder]_vars
    BY ShowingStep
  <1> QED
    BY <1>1, TypesHold, PTL DEF Spec, ShownInOrder

-----------------------------------------------------------------------------
(* Requests, notices and the end.                                          *)

(* A request that waits is its viewer's only one, and not yet answered; an  *)
(* answer is for who waits for it.                                         *)
Asked ==
    /\ \A v \in Viewers : Pending(v) => doing[v] = "waiting" /\ offered[v] = Nothing
    /\ \A i, j \in DOMAIN requests :
         requests[i].waits /\ requests[j].waits /\ requests[i].by = requests[j].by => i = j
    /\ \A v \in Viewers : offered[v] # Nothing => doing[v] \in {"waiting", "catching"}

(* The notice being said has the newest cursor.                            *)
NoticeIsNewest == saying # Nothing => saying = cursor /\ cursor >= 1

(* The final snapshot is of an end whose last event was that it closed.    *)
Ending ==
    /\ final # Nothing => life = "over" /\ final.over
    /\ life = "over" => final # Nothing /\ out = <<>>
    /\ life = "closing" /\ out # <<>> => out[Len(out)].kind = "closed"

LEMMA PublishedKind ==
    ASSUME TypeOK, Publish
    PROVE  /\ out \in Seq(Turned) /\ out # <<>> /\ Len(out) \in Nat \ {0}
           /\ Head(out) = out[1] /\ Head(out) \in Turned
           /\ Tail(out) \in Seq(Turned) /\ Len(Tail(out)) = Len(out) - 1
           /\ \A i \in 1..(Len(out) - 1) : Tail(out)[i] = out[i + 1]
           /\ Head(out).kind \in {"heard", "line", "quiet", "loud", "notice",
                                  "reconnecting", "authenticating", "closed"}
           /\ cursor' \in Nat /\ SentToAll(cursor', Head(out).kind)
  <1>1. out \in Seq(Turned) /\ out # <<>>
    BY TypesUnfolded DEF Publish
  <1>2. /\ Len(out) \in Nat \ {0} /\ Head(out) = out[1] /\ Head(out) \in Turned
        /\ Tail(out) \in Seq(Turned) /\ Len(Tail(out)) = Len(out) - 1
        /\ \A i \in 1..(Len(out) - 1) : Tail(out)[i] = out[i + 1]
    BY <1>1, WithoutHead
  <1>3. Head(out).kind \in {"heard", "line", "quiet", "loud", "notice",
                            "reconnecting", "authenticating", "closed"}
    BY <1>2 DEF Turned
  <1>4. cursor' \in Nat /\ SentToAll(cursor', Head(out).kind)
    BY DEF Publish, TypeOK
  <1> QED
    BY <1>1, <1>2, <1>3, <1>4

LEMMA AskedKept == TypeOK /\ Follows /\ Asked /\ [Next]_vars => Asked'
  <1> SUFFICES ASSUME TypeOK, Follows, Asked, [Next]_vars
               PROVE  Asked'
    OBVIOUS
  <1> DEFINE Asks == [by : Viewers, waits : BOOLEAN]
  <1>1. /\ doing \in [Viewers -> {"asking", "waiting", "catching", "following", "done"}]
        /\ offered \in [Viewers -> Subscriptions \cup {Nothing}]
        /\ requests \in Seq(Asks) /\ Len(requests) \in Nat /\ DOMAIN requests = 1..Len(requests)
    BY LenProperties DEF TypeOK
  <1> HIDE DEF Asks
  (* The requests are as they were, and nobody who waits is touched. *)
  <1>2. ASSUME UNCHANGED requests,
               \A v \in Viewers :
                  /\ Pending(v) => doing'[v] = doing[v] /\ (offered[v] = Nothing => offered'[v] = Nothing)
                  /\ offered'[v] # Nothing => doing'[v] \in {"waiting", "catching"}
        PROVE  Asked'
    <2>1. \A v \in Viewers : Pending(v)' <=> Pending(v)
      BY <1>2 DEF Pending
    <2> QED
      BY <1>2, <2>1 DEF Asked
  <1>3. UNCHANGED <<requests, doing>> /\ (\A v \in Viewers : offered[v] = Nothing <=> offered'[v] = Nothing)
           => Asked'
    <2> SUFFICES ASSUME UNCHANGED <<requests, doing>>,
                        \A v \in Viewers : offered[v] = Nothing <=> offered'[v] = Nothing
                 PROVE  Asked'
      OBVIOUS
    <2> QED
      BY <1>2 DEF Asked
  <1>4. CASE OwnerStep \/ RunnerStep \/ ClockStep \/ Say \/ UNCHANGED vars
    BY <1>3, <1>4 DEF OwnerStep, RunnerStep, ClockStep, Say, vars, observing, watching
  <1>5. CASE Publish
    <2>1. UNCHANGED <<requests, doing>>
      BY <1>5 DEF Publish, observing
    <2> QED
      BY <1>3, <1>5, <2>1, PublishedKind, WhatIsSent
  <1>6. CASE Said
    <2>1. saying \in Nat /\ SentToAll(saying, "notice") /\ UNCHANGED <<requests, doing>>
      BY <1>6 DEF Said, TypeOK, observing
    <2> QED
      BY <1>3, <2>1, WhatIsSent
  <1>7. CASE AnswerRequest
    <2> DEFINE t == Tail(requests)
    <2>1. /\ requests # <<>> /\ requests' = t /\ UNCHANGED doing
          /\ \/ offered' = offered
             \/ Head(requests).waits
                /\ offered' = [offered EXCEPT ![Head(requests).by] = [snapshot |-> Snapshot, rx |-> Empty]]
      BY <1>7 DEF AnswerRequest
    <2>2. /\ Len(requests) >= 1 /\ Head(requests) = requests[1]
          /\ t \in Seq(Asks) /\ Len(t) = Len(requests) - 1
          /\ \A i \in 1..(Len(requests) - 1) : t[i] = requests[i + 1]
      BY <1>1, <2>1, WithoutHead
    <2> HIDE DEF t
    <2>3. DOMAIN t = 1..(Len(requests) - 1)
      BY <2>2, LenProperties
    <2>4. \A i \in DOMAIN requests' : /\ i + 1 \in DOMAIN requests /\ i + 1 # 1
                                      /\ requests'[i] = requests[i + 1]
      BY <1>1, <2>1, <2>2, <2>3
    <2>5. 1 \in DOMAIN requests
      BY <1>1, <2>2
    <2>6. \A v \in Viewers : Pending(v)' => Pending(v)
      BY <2>4 DEF Pending
    <2>7. \A v \in Viewers : offered'[v] # offered[v] => requests[1].waits /\ requests[1].by = v
      BY <1>1, <2>1, <2>2
    <2>8. ASSUME NEW v \in Viewers, Pending(v)'
          PROVE  doing'[v] = "waiting" /\ offered'[v] = Nothing
      <3>1. PICK i \in DOMAIN requests' : requests'[i].by = v /\ requests'[i].waits
        BY <2>8 DEF Pending
      <3>2. requests[i + 1].by = v /\ requests[i + 1].waits /\ i + 1 # 1 /\ i + 1 \in DOMAIN requests
        BY <2>4, <3>1
      <3>3. offered'[v] = offered[v]
        BY <2>5, <2>7, <3>2 DEF Asked
      <3> QED
        BY <2>1, <2>6, <2>8, <3>3 DEF Asked
    <2>9. \A i, j \in DOMAIN requests' :
             requests'[i].waits /\ requests'[j].waits /\ requests'[i].by = requests'[j].by => i = j
      <3> SUFFICES ASSUME NEW i \in DOMAIN requests', NEW j \in DOMAIN requests',
                          requests'[i].waits, requests'[j].waits,
                          requests'[i].by = requests'[j].by
                   PROVE  i = j
        OBVIOUS
      <3>1. i + 1 = j + 1
        BY <2>4 DEF Asked
      <3>2. i \in Nat /\ j \in Nat
        BY <2>1, <2>3
      <3> QED
        BY <3>1, <3>2
    <2>10. ASSUME NEW v \in Viewers, offered'[v] # Nothing
           PROVE  doing'[v] \in {"waiting", "catching"}
      <3>1. CASE offered'[v] = offered[v]
        BY <2>1, <2>10, <3>1 DEF Asked
      <3>2. CASE offered'[v] # offered[v]
        <4>1. Pending(v)
          BY <2>5, <2>7, <3>2 DEF Pending
        <4> QED
          BY <2>1, <4>1 DEF Asked
      <3> QED
        BY <3>1, <3>2
    <2> QED
      BY <2>8, <2>9, <2>10 DEF Asked
  <1>8. CASE Finish
    <2>1. requests' = <<>> /\ UNCHANGED <<doing, offered>>
      BY <1>8 DEF Finish, watching
    <2>2. DOMAIN requests' = {}
      BY <2>1
    <2>3. \A v \in Viewers : ~Pending(v)'
      BY <2>2 DEF Pending
    <2> QED
      BY <2>1, <2>2, <2>3 DEF Asked
  <1>9. ASSUME NEW v \in Viewers, Viewer(v)
        PROVE  Asked'
    (* All others are as they were. *)
    <2>1. ASSUME UNCHANGED requests, ~Pending(v),
                 \A u \in Viewers \ {v} : doing'[u] = doing[u] /\ offered'[u] = offered[u],
                 offered'[v] # Nothing => doing'[v] \in {"waiting", "catching"}
          PROVE  Asked'
      BY <1>2, <2>1 DEF Asked
    <2>2. doing[v] # "waiting" => ~Pending(v) /\ (doing[v] # "catching" => offered[v] = Nothing)
      BY DEF Asked
    <2>3. ASSUME NEW s, NEW rx, Follow(v, s, rx), UNCHANGED requests, ~Pending(v)
          PROVE  Asked'
      BY <1>1, <2>1, <2>3 DEF Follow
    <2>4. ASSUME NEW s, NEW rx, Take(v, s, rx), UNCHANGED requests, ~Pending(v)
          PROVE  Asked'
      BY <1>1, <2>1, <2>3, <2>4 DEF Take
    <2>5. CASE Ask(v)
      <3> DEFINE new == [by |-> v, waits |-> TRUE]
      <3>1. /\ doing[v] = "asking" /\ requests' = Append(requests, new)
            /\ doing' = [doing EXCEPT ![v] = "waiting"] /\ UNCHANGED offered
        BY <2>5 DEF Ask
      <3>2. new \in Asks /\ new.by = v
        BY DEF Asks
      <3> HIDE DEF new
      <3>3. /\ requests' \in Seq(Asks) /\ Len(requests') = Len(requests) + 1
            /\ \A i \in 1..Len(requests) : requests'[i] = requests[i]
            /\ requests'[Len(requests) + 1] = new
        BY <1>1, <3>1, <3>2, AppendProperties
      <3>4. DOMAIN requests' = 1..(Len(requests) + 1)
        BY <3>3, LenProperties
      <3>5. \A i \in DOMAIN requests' :
               \/ i \in DOMAIN requests /\ requests'[i] = requests[i]
               \/ i = Len(requests) + 1 /\ requests'[i].by = v
        BY <1>1, <3>2, <3>3, <3>4
      <3>6. ~Pending(v) /\ offered[v] = Nothing
        BY <2>2, <3>1
      <3>7. \A u \in Viewers : Pending(u)' => u = v \/ Pending(u)
        BY <3>5 DEF Pending
      <3>8. \A i \in DOMAIN requests : requests[i].waits => requests[i].by # v
        BY <3>6 DEF Pending
      <3> QED
        BY <1>1, <3>1, <3>5, <3>6, <3>7, <3>8 DEF Asked
    <2>6. CASE TimedOut(v)
      <3>1. /\ requests' = [i \in DOMAIN requests |->
                    [requests[i] EXCEPT !.waits = requests[i].waits /\ requests[i].by # v]]
            /\ doing' = [doing EXCEPT ![v] = "asking"] /\ UNCHANGED offered
            /\ doing[v] = "waiting" /\ Pending(v)
        BY <2>6 DEF TimedOut
      <3>2. \A i \in DOMAIN requests : requests[i] \in Asks
        BY <1>1, ElementOfSeq
      <3>3. /\ DOMAIN requests' = DOMAIN requests
            /\ \A i \in DOMAIN requests :
                 /\ requests'[i].by = requests[i].by
                 /\ requests'[i].waits <=> requests[i].waits /\ requests[i].by # v
        BY <3>1, <3>2 DEF Asks
      <3>4. \A u \in Viewers : Pending(u)' => u # v /\ Pending(u)
        BY <3>3 DEF Pending
      <3>5. offered[v] = Nothing
        BY <3>1 DEF Asked
      <3> QED
        <4>1. \A u \in Viewers : doing'[u] = IF u = v THEN "asking" ELSE doing[u]
          BY <1>1, <3>1
        <4>2. \A u \in Viewers : Pending(u)' => doing'[u] = "waiting" /\ offered'[u] = Nothing
          BY <3>1, <3>4, <4>1 DEF Asked
        <4>3. \A i, j \in DOMAIN requests' :
                 requests'[i].waits /\ requests'[j].waits /\ requests'[i].by = requests'[j].by => i = j
          BY <3>3 DEF Asked
        <4>4. \A u \in Viewers : offered'[u] # Nothing => doing'[u] \in {"waiting", "catching"}
          BY <3>1, <3>5, <4>1 DEF Asked
        <4> QED
          BY <4>2, <4>3, <4>4 DEF Asked
    <2>7. CASE TakeAnswer(v)
      <3>1. Take(v, offered[v].snapshot, offered[v].rx) /\ UNCHANGED requests /\ offered[v] # Nothing
        BY <2>7 DEF TakeAnswer, observing
      <3> QED
        BY <2>4, <3>1 DEF Asked
    <2>8. CASE TakeFinal(v)
      <3>1. Take(v, final, Empty) /\ UNCHANGED requests /\ (doing[v] # "asking" => ~Pending(v))
        BY <2>8 DEF TakeFinal, observing
      <3> QED
        BY <2>2, <2>4, <3>1
    <2>9. CASE CatchUp(v)
      <3>1. UNCHANGED <<requests, doing, offered>>
        BY <2>9 DEF CatchUp, observing
      <3> QED
        BY <1>3, <3>1
    <2>10. CASE Fence(v)
      <3>1. Follow(v, offered[v].snapshot, offered[v].rx) /\ UNCHANGED requests /\ doing[v] = "catching"
        BY <2>10 DEF Fence, observing
      <3> QED
        BY <2>2, <2>3, <3>1
    <2>11. CASE Recv(v) \/ Lagged(v) \/ Tick(v)
      <3>1. /\ UNCHANGED <<requests, offered>> /\ doing[v] = "following"
            /\ \A u \in Viewers \ {v} : doing'[u] = doing[u]
        BY <1>1, <2>11 DEF Recv, Lagged, Tick, observing
      <3> QED
        BY <2>1, <2>2, <3>1
    <2> QED
      BY <1>9, <2>5, <2>6, <2>7, <2>8, <2>9, <2>10, <2>11 DEF Viewer
  <1> QED
    BY <1>4, <1>5, <1>6, <1>7, <1>8, <1>9 DEF Next

(* Where an owner's turn can take the session.                             *)
LEMMA TurnsEnd ==
    ASSUME HeldTypeOK, OwnerTurns
    PROVE  /\ out = <<>> /\ life \in {"up", "lost", "down"}
           /\ life' \in {"up", "lost", "down", "closing"}
           /\ life' = "closing" => out' # <<>> /\ out'[Len(out')].kind = "closed"
  <1> DEFINE closed == StateChanged("closed")
  <1>1. closed \in Turned /\ closed.kind = "closed"
    BY TurnedItems DEF StateChanged
  <1>2. <<>> \in Seq(Turned) /\ <<closed>> \in Seq(Turned)
        /\ Len(<<closed>>) = 1 /\ <<closed>>[1] = closed
    BY <1>1, EmptySeq, AListOf1
  <1>3. out = <<>> /\ life \in {"up", "lost", "down"}
    BY DEF OwnerTurns, Arrive, Wake, OpenQuietWindow, EndQuietWindow, Lose, Cancel, Shutdown,
           Reconnect, Connect, Stop, Turn
  <1> HIDE DEF closed
  <1>4. CASE Cancel
    <2>1. life' = "closing" /\ ShowHeld(TRUE, <<>>, <<closed>>)
      BY <1>4 DEF Cancel, Shutdown, closed
    <2> DEFINE a == TRUE \/ ~display
               r == Released(a)
               o == <<>> \o r \o <<closed>>
    <2>2. r \in Seq(Turned)
      BY WhatShows
    <2>3. out' = o
      BY <2>1 DEF ShowHeld
    <2> HIDE DEF r
    <2>4. /\ o \in Seq(Turned) /\ Len(o) = Len(<<>>) + Len(r) + Len(<<closed>>)
          /\ Len(r) \in Nat /\ Len(<<>>) = 0
          /\ \A k \in 1..Len(<<closed>>) : o[Len(<<>>) + Len(r) + k] = <<closed>>[k]
      BY <1>2, <2>2, Merged, EmptySeq
    <2> HIDE DEF o
    <2>5. Len(o) = Len(r) + 1 /\ o[Len(r) + 1] = closed
      <3>1. o[0 + Len(r) + 1] = closed
        BY <1>2, <2>4
      <3>2. 0 + Len(r) + 1 = Len(r) + 1
        BY <2>4
      <3> QED
        BY <1>2, <2>4, <3>1, <3>2
    <2>6. o # <<>>
      BY <2>4, <2>5, EmptySeq
    <2> QED
      BY <1>1, <1>3, <2>1, <2>3, <2>5, <2>6
  <1>5. CASE Stop
    BY <1>1, <1>2, <1>3, <1>5 DEF Stop, closed
  <1>6. CASE Arrive \/ Wake \/ OpenQuietWindow \/ EndQuietWindow \/ Lose \/ Reconnect \/ Connect
    <2>1. life' \in {"up", "lost", "down"}
      <3>1. CASE Arrive \/ Wake \/ OpenQuietWindow \/ EndQuietWindow
        <4>1. life' = life
          BY <3>1 DEF Arrive, Wake, OpenQuietWindow, EndQuietWindow, connection
        <4> QED
          BY <1>3, <4>1
      <3> QED
        BY <1>6, <3>1 DEF Lose, Reconnect, Connect
    <2> QED
      BY <1>3, <2>1
  <1> QED
    BY <1>4, <1>5, <1>6 DEF OwnerTurns

LEMMA EndingKept == TypeOK /\ Ending /\ [Next]_vars => Ending'
  <1> SUFFICES ASSUME TypeOK, Ending, [Next]_vars
               PROVE  Ending'
    OBVIOUS
  <1>1. CASE OwnerStep
    <2>1. UNCHANGED final /\ OwnerTurns /\ HeldTypeOK
      BY <1>1 DEF OwnerStep, observing, TypeOK
    <2> QED
      BY <2>1, TurnsEnd DEF Ending
  <1>2. CASE Publish
    <2>1. UNCHANGED <<life, final>> /\ out' = Tail(out)
      BY <1>2 DEF Publish, connection, observing
    <2>2. life # "over"
      BY <1>2, PublishedKind DEF Ending
    <2>3. ASSUME life = "closing", out' # <<>>
          PROVE  out'[Len(out')].kind = "closed"
      <3> DEFINE t == Tail(out)
      <3>1. /\ Len(t) = Len(out) - 1 /\ Len(out) \in Nat \ {0} /\ t \in Seq(Turned)
            /\ \A i \in 1..(Len(out) - 1) : t[i] = out[i + 1]
            /\ out[Len(out)].kind = "closed"
        BY <1>2, <2>3, PublishedKind DEF Ending
      <3>2. t # <<>>
        BY <2>1, <2>3
      <3> HIDE DEF t
      <3>3. Len(t) \in Nat \ {0}
        BY <3>1, <3>2, EmptySeq
      <3>4. Len(t) \in 1..(Len(out) - 1) /\ Len(t) + 1 = Len(out)
        BY <3>1, <3>3
      <3>5. t[Len(t)] = out[Len(out)]
        BY <3>1, <3>4
      <3> QED
        BY <2>1, <3>1, <3>5 DEF t
    <2> QED
      BY <2>1, <2>2, <2>3 DEF Ending
  <1>3. CASE Finish
    BY <1>3, SnapshotTyped DEF Finish, Turn, Snapshot, Ending
  <1>4. CASE \/ RunnerStep \/ ClockStep \/ Say \/ Said \/ AnswerRequest
             \/ (\E v \in Viewers : Viewer(v)) \/ UNCHANGED vars
    <2>1. UNCHANGED <<life, out, final>>
      <3>1. CASE RunnerStep
        BY <3>1 DEF RunnerStep, HookLines, Answer, connection, observing
      <3>2. CASE ClockStep
        BY <3>2 DEF ClockStep, DeadlinePasses, connection, observing
      <3>3. CASE Say \/ Said \/ AnswerRequest \/ UNCHANGED vars
        BY <3>3 DEF Say, Said, AnswerRequest, vars, heldVars, connection, observing
      <3>4. ASSUME NEW v \in Viewers, Viewer(v)
            PROVE  UNCHANGED <<heldVars, final>>
        BY <3>4 DEF Viewer, Ask, TimedOut, TakeAnswer, TakeFinal, CatchUp, Fence, Recv, Lagged,
                    Tick, observing
      <3> QED
        BY <1>4, <3>1, <3>2, <3>3, <3>4 DEF heldVars, connection
    <2> QED
      BY <2>1 DEF Ending
  <1> QED
    BY <1>1, <1>2, <1>3, <1>4 DEF Next

LEMMA NoticeKept == TypeOK /\ NoticeIsNewest /\ [Next]_vars => NoticeIsNewest'
  <1> SUFFICES ASSUME TypeOK, NoticeIsNewest, [Next]_vars
               PROVE  NoticeIsNewest'
    OBVIOUS
  <1>1. cursor \in Nat
    BY DEF TypeOK
  <1>2. CASE Publish \/ Say \/ Said
    BY <1>1, <1>2 DEF Publish, Say, Said, FenceIsFree, NoticeIsNewest
  <1>3. CASE \/ OwnerStep \/ RunnerStep \/ ClockStep \/ AnswerRequest \/ Finish
             \/ (\E v \in Viewers : Viewer(v)) \/ UNCHANGED vars
    <2>1. UNCHANGED publishing
      BY <1>3 DEF OwnerStep, RunnerStep, ClockStep, AnswerRequest, Finish, vars, Viewer, Ask,
                  TimedOut, TakeAnswer, TakeFinal, CatchUp, Fence, Recv, Lagged, Tick
    <2> QED
      BY <2>1 DEF publishing, NoticeIsNewest
  <1> QED
    BY <1>2, <1>3 DEF Next

Frame == TypeOK /\ Follows /\ Asked /\ Ending /\ NoticeIsNewest

LEMMA FrameHolds == Spec => []Frame
  <1>1. Init => Frame
    <2> SUFFICES ASSUME Init
                 PROVE  Asked /\ Ending /\ NoticeIsNewest
      BY InitTyped DEF Frame
    <2>1. DOMAIN requests = {}
      BY DEF Init
    <2> QED
      BY <2>1 DEF Init, HeldInit, Asked, Pending, Ending, NoticeIsNewest
  <1>2. Frame /\ [Next]_vars => Frame'
    BY TypeStep, FollowsKept, AskedKept, EndingKept, NoticeKept DEF Frame
  <1> QED
    BY <1>1, <1>2, PTL DEF Spec

-----------------------------------------------------------------------------
(* A viewer's story.  Every receiver holds the last events that were sent,  *)
(* in a row; a viewer is at the event before the first of its receiver's,   *)
(* or at a gap; and an offer goes on where its snapshot was taken.          *)

Sent == IF saying = Nothing THEN cursor ELSE cursor - 1

InRow(rx, sent) ==
    /\ \A i \in 1..Len(rx.events) : rx.events[i].cursor = sent - Len(rx.events) + i
    /\ rx.lagged => rx.events # <<>>

Heeds(v) == receiver[v] # Nothing /\ doing[v] # "done"
Going(v) == offered[v] # Nothing /\ ~offered[v].snapshot.over

Rows(v) ==
    /\ receiver[v] # Nothing => InRow(receiver[v], Sent)
    /\ offered[v] # Nothing => InRow(offered[v].rx, Sent)

(* A receiver that starts after `seen`, and all there is if none was lost.  *)
StartsAt(rx, sent, seen) ==
    /\ seen <= sent - Len(rx.events)
    /\ ~rx.lagged => Len(rx.events) = sent - seen

Place(v) ==
    /\ view[v].sound /\ view[v].last \in {0, view[v].seen}
    /\ Heeds(v) =>
         /\ view[v].seen <= Sent - Len(receiver[v].events)
         /\ view[v].last # 0 => StartsAt(receiver[v], Sent, view[v].seen)

Offer(v) ==
    offered[v] # Nothing =>
        /\ IF offered[v].snapshot.over THEN final # Nothing /\ offered[v].snapshot = final
           ELSE StartsAt(offered[v].rx, Sent, offered[v].snapshot.cursor)
        /\ receiver[v] # Nothing => view[v].seen <= offered[v].snapshot.cursor

(* That the session closed is still to be read, or was lost, by who does    *)
(* not know of the end; nobody is past the final snapshot.                 *)
ClosedIn(rx, last) ==
    \/ rx.lagged
    \/ \E i \in 1..Len(rx.events) : /\ rx.events[i].kind = "closed"
                                    /\ last # Nothing => rx.events[i].cursor <= last.cursor

ClosedSaid == life = "over" \/ (life = "closing" /\ out = <<>>)

Last(v) ==
    /\ ClosedSaid => /\ doing[v] = "following" => ClosedIn(receiver[v], final)
                     /\ Going(v) => ClosedIn(offered[v].rx, final)
    /\ final # Nothing => /\ Heeds(v) => view[v].seen <= final.cursor
                          /\ Going(v) => offered[v].snapshot.cursor <= final.cursor

StoryOf(v) == Rows(v) /\ Place(v) /\ Offer(v) /\ Last(v)
Story == \A v \in Viewers : StoryOf(v)

LEMMA SentIsNumber ==
    ASSUME Frame
    PROVE  Sent \in Nat /\ Sent <= cursor /\ cursor \in Nat
           /\ (FenceIsFree => Sent = cursor)
           /\ (saying # Nothing => saying = Sent + 1)
  BY DEF Frame, TypeOK, NoticeIsNewest, Sent, FenceIsFree

LEMMA RowGrows ==
    ASSUME NEW rx \in Receivers, NEW event \in Event, NEW sent \in Nat,
           event.cursor = sent + 1, InRow(rx, sent)
    PROVE  LET r == Received(rx, event)
           IN  /\ InRow(r, sent + 1)
               /\ \A seen \in Nat : seen <= sent - Len(rx.events) => seen <= sent + 1 - Len(r.events)
               /\ \A seen \in Nat : StartsAt(rx, sent, seen) => StartsAt(r, sent + 1, seen)
               /\ \A last : ClosedIn(rx, last) => ClosedIn(r, last)
               /\ \A last : /\ event.kind = "closed"
                            /\ last # Nothing => event.cursor <= last.cursor
                            => ClosedIn(r, last)
  <1> DEFINE r == Received(rx, event)
             n == Len(rx.events)
  <1>1. /\ r \in Receivers /\ n \in Nat /\ r.events # <<>> /\ (rx.lagged => r.lagged)
        /\ \/ /\ r.lagged = rx.lagged /\ r.events = Append(rx.events, event)
              /\ Len(r.events) = n + 1 /\ r.events[n + 1] = event
              /\ \A i \in 1..n : r.events[i] = rx.events[i]
           \/ /\ r.lagged /\ n >= 1
              /\ Len(r.events) = n /\ r.events[n] = event
              /\ \A i \in 1..(n - 1) : r.events[i] = rx.events[i + 1]
    BY WhatIsReceived
  <1>2. \A i \in 1..n : rx.events[i].cursor = sent - n + i
    BY DEF InRow
  <1> HIDE DEF r, n
  <1>3. CASE /\ r.lagged = rx.lagged
             /\ Len(r.events) = n + 1 /\ r.events[n + 1] = event
             /\ \A i \in 1..n : r.events[i] = rx.events[i]
    <2>1. \A i \in 1..(n + 1) : i \in 1..n \/ i = n + 1
      BY <1>1
    <2>2. \A i \in 1..(n + 1) : r.events[i].cursor = sent + 1 - (n + 1) + i
      <3> TAKE i \in 1..(n + 1)
      <3>1. CASE i \in 1..n
        <4>1. r.events[i].cursor = sent - n + i
          BY <1>2, <1>3, <3>1
        <4> QED
          BY <1>1, <4>1
      <3>2. CASE i = n + 1
        <4>1. r.events[i].cursor = sent + 1
          BY <1>3, <3>2
        <4> QED
          BY <1>1, <3>2, <4>1
      <3> QED
        BY <2>1, <3>1, <3>2
    <2>3. InRow(r, sent + 1)
      BY <1>1, <1>3, <2>2 DEF InRow
    <2>4. \A seen \in Nat : /\ seen <= sent - n => seen <= sent + 1 - (n + 1)
                            /\ n = sent - seen => n + 1 = sent + 1 - seen
      BY <1>1
    <2>5. \A i \in 1..n : i \in 1..(n + 1) /\ n + 1 \in 1..(n + 1)
      BY <1>1
    <2>6. \A last : ClosedIn(rx, last) => ClosedIn(r, last)
      BY <1>3, <2>5 DEF ClosedIn, n
    <2>7. n + 1 \in 1..Len(r.events)
      BY <1>1, <1>3
    <2>8. \A seen \in Nat : /\ seen <= sent - n => seen <= sent + 1 - Len(r.events)
                            /\ StartsAt(rx, sent, seen) => StartsAt(r, sent + 1, seen)
      <3> TAKE seen \in Nat
      <3>1. /\ seen <= sent - n => seen <= sent + 1 - (n + 1)
            /\ n = sent - seen => n + 1 = sent + 1 - seen
        BY <2>4
      <3>2. StartsAt(rx, sent, seen) <=> seen <= sent - n /\ (~rx.lagged => n = sent - seen)
        BY DEF StartsAt, n
      <3>3. StartsAt(r, sent + 1, seen)
               <=> seen <= sent + 1 - (n + 1) /\ (~r.lagged => n + 1 = sent + 1 - seen)
        BY <1>3 DEF StartsAt
      <3>4. r.lagged <=> rx.lagged
        BY <1>3
      <3> HIDE DEF n
      <3> QED
        BY <1>3, <3>1, <3>2, <3>3, <3>4, Zenon
    <2>9. \A last : event.kind = "closed" /\ (last # Nothing => event.cursor <= last.cursor)
                      => ClosedIn(r, last)
      BY <1>3, <2>7 DEF ClosedIn
    <2> QED
      BY <2>3, <2>6, <2>8, <2>9 DEF r, n
  <1>4. CASE /\ r.lagged /\ n >= 1
             /\ Len(r.events) = n /\ r.events[n] = event
             /\ \A i \in 1..(n - 1) : r.events[i] = rx.events[i + 1]
    <2>1. \A i \in 1..n : (i \in 1..(n - 1) /\ i + 1 \in 1..n) \/ i = n
      BY <1>1
    <2>2. \A i \in 1..n : r.events[i].cursor = sent + 1 - n + i
      <3> TAKE i \in 1..n
      <3>1. CASE i \in 1..(n - 1) /\ i + 1 \in 1..n
        <4>1. r.events[i].cursor = sent - n + (i + 1)
          BY <1>2, <1>4, <3>1
        <4> QED
          BY <1>1, <4>1
      <3>2. CASE i = n
        <4>1. r.events[i].cursor = sent + 1
          BY <1>4, <3>2
        <4> QED
          BY <1>1, <3>2, <4>1
      <3> QED
        BY <2>1, <3>1, <3>2
    <2>3. InRow(r, sent + 1)
      BY <1>1, <1>4, <2>2 DEF InRow
    <2>4. \A seen \in Nat : seen <= sent - n => seen <= sent + 1 - n
      BY <1>1
    <2> QED
      BY <1>4, <2>3, <2>4 DEF StartsAt, ClosedIn, r, n
  <1> QED
    BY <1>1, <1>3, <1>4

(* An event goes to everybody.                                             *)
LEMMA SendingKeepsStory ==
    ASSUME Frame, Story, NEW number \in Nat,
           NEW kind \in {"heard", "line", "quiet", "loud", "notice",
                         "reconnecting", "authenticating", "closed"},
           SentToAll(number, kind),
           number = Sent + 1, Sent' = Sent + 1, UNCHANGED <<doing, view, final>>,
           ClosedSaid' => ClosedSaid \/ (kind = "closed" /\ final = Nothing)
    PROVE  Story'
  <1> DEFINE event == [cursor |-> number, generation |-> generation, kind |-> kind]
  <1>1. TypeOK /\ Sent \in Nat
    BY SentIsNumber DEF Frame
  <1>2. event.cursor = Sent + 1 /\ event.kind = kind
    OBVIOUS
  <1>3. /\ event \in Event
        /\ \A v \in Viewers :
             /\ receiver[v] = Nothing <=> receiver'[v] = Nothing
             /\ receiver[v] # Nothing =>
                  /\ receiver[v] \in Receivers
                  /\ receiver'[v] = Received(receiver[v], event)
             /\ offered[v] = Nothing <=> offered'[v] = Nothing
             /\ offered[v] # Nothing =>
                  /\ offered[v] \in Subscriptions /\ offered[v].rx \in Receivers
                  /\ offered'[v].snapshot = offered[v].snapshot
                  /\ offered'[v].rx = Received(offered[v].rx, event)
    BY <1>1, WhatIsSent
  <1> HIDE DEF event
  <1> SUFFICES ASSUME NEW v \in Viewers
               PROVE  StoryOf(v)'
    BY DEF Story
  <1>4. StoryOf(v)
    BY DEF Story
  <1>5. view[v].seen \in Nat /\ (offered[v] # Nothing => offered[v].snapshot.cursor \in Nat)
    <2>1. view[v] \in Views
      BY <1>1, TypesUnfolded
    <2>2. offered[v] # Nothing => offered[v].snapshot \in Snapshots
      BY <1>1, TypesUnfolded
    <2> QED
      BY <2>1, <2>2 DEF Views, Snapshots
  <1>6. ASSUME receiver[v] # Nothing
        PROVE  /\ InRow(receiver'[v], Sent + 1)
               /\ view[v].seen <= Sent - Len(receiver[v].events)
                    => view[v].seen <= Sent + 1 - Len(receiver'[v].events)
               /\ StartsAt(receiver[v], Sent, view[v].seen)
                    => StartsAt(receiver'[v], Sent + 1, view[v].seen)
               /\ ClosedIn(receiver[v], final) => ClosedIn(receiver'[v], final)
               /\ kind = "closed" /\ final = Nothing => ClosedIn(receiver'[v], final)
    <2>1. InRow(receiver[v], Sent)
      BY <1>4, <1>6 DEF StoryOf, Rows
    <2> DEFINE rx == receiver[v]
               r == receiver'[v]
    <2>2. r = Received(rx, event) /\ rx \in Receivers
      BY <1>3, <1>6
    <2> HIDE DEF rx, r
    <2>3. /\ InRow(r, Sent + 1)
          /\ \A seen \in Nat : seen <= Sent - Len(rx.events) => seen <= Sent + 1 - Len(r.events)
          /\ \A seen \in Nat : StartsAt(rx, Sent, seen) => StartsAt(r, Sent + 1, seen)
          /\ \A last : ClosedIn(rx, last) => ClosedIn(r, last)
          /\ \A last : /\ event.kind = "closed"
                       /\ last # Nothing => event.cursor <= last.cursor
                       => ClosedIn(r, last)
      <3>1. InRow(rx, Sent)
        BY <2>1 DEF rx
      <3> QED
        BY <1>1, <1>2, <1>3, <2>2, <3>1, RowGrows
    <2> QED
      BY <1>2, <1>5, <1>6, <2>3 DEF rx, r
  <1>7. ASSUME offered[v] # Nothing
        PROVE  /\ InRow(offered'[v].rx, Sent + 1)
               /\ StartsAt(offered[v].rx, Sent, offered[v].snapshot.cursor)
                    => StartsAt(offered'[v].rx, Sent + 1, offered[v].snapshot.cursor)
               /\ ClosedIn(offered[v].rx, final) => ClosedIn(offered'[v].rx, final)
               /\ kind = "closed" /\ final = Nothing => ClosedIn(offered'[v].rx, final)
    <2>1. InRow(offered[v].rx, Sent)
      BY <1>4, <1>7 DEF StoryOf, Rows
    <2> DEFINE rx == offered[v].rx
               r == offered'[v].rx
    <2>2. r = Received(rx, event) /\ rx \in Receivers
      BY <1>3, <1>7
    <2> HIDE DEF rx, r
    <2>3. /\ InRow(r, Sent + 1)
          /\ \A seen \in Nat : seen <= Sent - Len(rx.events) => seen <= Sent + 1 - Len(r.events)
          /\ \A seen \in Nat : StartsAt(rx, Sent, seen) => StartsAt(r, Sent + 1, seen)
          /\ \A last : ClosedIn(rx, last) => ClosedIn(r, last)
          /\ \A last : /\ event.kind = "closed"
                       /\ last # Nothing => event.cursor <= last.cursor
                       => ClosedIn(r, last)
      <3>1. InRow(rx, Sent)
        BY <2>1 DEF rx
      <3> QED
        BY <1>1, <1>2, <1>3, <2>2, <3>1, RowGrows
    <2> QED
      BY <1>2, <1>5, <1>7, <2>3 DEF rx, r
  <1>8. Rows(v)'
    BY <1>3, <1>6, <1>7 DEF Rows
  <1>9. Place(v)'
    <2>1. view'[v] = view[v] /\ Sent' = Sent + 1 /\ (Heeds(v)' => Heeds(v) /\ receiver[v] # Nothing)
      BY <1>3 DEF Heeds
    <2>2. Place(v)
      BY <1>4 DEF StoryOf
    <2>3. ASSUME Heeds(v)'
          PROVE  /\ view'[v].seen <= Sent' - Len(receiver'[v].events)
                 /\ view'[v].last # 0 => StartsAt(receiver'[v], Sent', view'[v].seen)
      <3>1. /\ view[v].seen <= Sent - Len(receiver[v].events)
            /\ view[v].last # 0 => StartsAt(receiver[v], Sent, view[v].seen)
        BY <2>1, <2>2, <2>3 DEF Place
      <3>2. /\ view[v].seen <= Sent + 1 - Len(receiver'[v].events)
            /\ view[v].last # 0 => StartsAt(receiver'[v], Sent + 1, view[v].seen)
        BY <1>6, <2>1, <2>3, <3>1
      <3>3. view'[v] = view[v]
        BY <2>1
      <3>4. Sent' = Sent + 1
        BY <2>1
      <3>5. view'[v].seen <= Sent' - Len(receiver'[v].events)
        <4>1. receiver'[v] \in Receivers
          BY <1>3, <2>1, <2>3, WhatIsReceived
        <4>2. Len(receiver'[v].events) \in Nat
          BY <4>1, LenProperties DEF Receivers
        <4> QED
          <5>1. view[v].seen <= Sent + 1 - Len(receiver'[v].events)
            BY <3>2
          <5>2. view'[v].seen <= Sent + 1 - Len(receiver'[v].events)
            BY <3>3, <5>1
          <5>3. Sent' - Len(receiver'[v].events) = Sent + 1 - Len(receiver'[v].events)
            BY <1>1, <3>4, <4>2
          <5> QED
            BY <5>2, <5>3
      <3> QED
        BY <3>2, <3>3, <3>4, <3>5, Zenon
    <2> QED
      BY <2>1, <2>2, <2>3 DEF Place
  <1>10. Offer(v)'
    BY <1>3, <1>4, <1>7 DEF StoryOf, Offer
  <1>11. Last(v)'
    <2>1. doing[v] = "following" => receiver[v] # Nothing
      BY DEF Frame, Follows
    <2>2. (Heeds(v)' => Heeds(v)) /\ (Going(v)' => Going(v) /\ offered[v] # Nothing)
      BY <1>3 DEF Heeds, Going
    <2> QED
      BY <1>3, <1>4, <1>6, <1>7, <2>1, <2>2 DEF StoryOf, Last
  <1> QED
    BY <1>8, <1>9, <1>10, <1>11 DEF StoryOf

(* A step that leaves receivers, offers and views alone.                   *)
LEMMA StoryStands ==
    ASSUME Story, UNCHANGED <<receiver, offered, view, final>>, Sent' = Sent,
           \A v \in Viewers : /\ doing'[v] = "done" <=> doing[v] = "done"
                              /\ doing'[v] = "following" => doing[v] = "following",
           ClosedSaid' => ClosedSaid
    PROVE  Story'
  <1> SUFFICES ASSUME NEW v \in Viewers
               PROVE  StoryOf(v)'
    BY DEF Story
  <1>1. StoryOf(v)
    BY DEF Story
  <1>2. (Heeds(v)' <=> Heeds(v)) /\ (Going(v)' <=> Going(v))
    BY DEF Heeds, Going
  <1>3. Rows(v)'
    BY <1>1 DEF StoryOf, Rows
  <1>4. Place(v)'
    BY <1>1, <1>2 DEF StoryOf, Place
  <1>5. Offer(v)'
    BY <1>1 DEF StoryOf, Offer
  <1>6. Last(v)'
    BY <1>1, <1>2 DEF StoryOf, Last
  <1> QED
    BY <1>3, <1>4, <1>5, <1>6 DEF StoryOf

(* A step of one viewer.                                                   *)
LEMMA OneStory ==
    ASSUME Story, NEW v \in Viewers, UNCHANGED <<heldVars, publishing, final>>,
           \A u \in Viewers \ {v} : /\ doing'[u] = doing[u] /\ receiver'[u] = receiver[u]
                                    /\ offered'[u] = offered[u] /\ view'[u] = view[u],
           StoryOf(v)'
    PROVE  Story'
  <1> SUFFICES ASSUME NEW u \in Viewers \ {v}
               PROVE  StoryOf(u)'
    BY DEF Story
  <1>1. UNCHANGED <<life, out, cursor, saying>>
    BY DEF heldVars, connection, publishing
  <1>2. Sent' = Sent /\ (ClosedSaid' <=> ClosedSaid)
    BY <1>1 DEF Sent, ClosedSaid
  <1>3. StoryOf(u)
    BY DEF Story
  <1>4. (Heeds(u)' <=> Heeds(u)) /\ (Going(u)' <=> Going(u))
    BY DEF Heeds, Going
  <1>5. Rows(u)'
    BY <1>2, <1>3 DEF StoryOf, Rows
  <1>6. Place(u)'
    BY <1>2, <1>3, <1>4 DEF StoryOf, Place
  <1>7. Offer(u)'
    BY <1>2, <1>3 DEF StoryOf, Offer
  <1>8. Last(u)'
    BY <1>2, <1>3, <1>4 DEF StoryOf, Last
  <1> QED
    BY <1>5, <1>6, <1>7, <1>8 DEF StoryOf

LEMMA ViewNumbers ==
    ASSUME TypeOK, NEW v \in Viewers
    PROVE  /\ view[v] \in Views /\ view[v].seen \in Nat /\ view[v].last \in Nat
           /\ offered[v] # Nothing =>
                /\ offered[v].snapshot.cursor \in Nat /\ offered[v].snapshot.generation \in Nat
                /\ offered[v].snapshot.over \in BOOLEAN
                /\ offered[v].rx # Nothing
           /\ final # Nothing => final.cursor \in Nat
  <1>1. view[v] \in Views
    BY TypesUnfolded
  <1>2. offered[v] # Nothing => offered[v].snapshot \in Snapshots /\ offered[v].rx \in Receivers
    BY TypesUnfolded
  <1>3. final # Nothing => final \in Snapshots
    BY DEF TypeOK
  <1>4. offered[v] # Nothing => offered[v].rx # Nothing
    BY <1>2, ViewingConstantsAssumption
  <1> QED
    BY <1>1, <1>2, <1>3, <1>4 DEF Views, Snapshots

(* A viewer goes on from a snapshot.                                       *)
LEMMA FollowingKeepsStory ==
    ASSUME Frame, Story, NEW v \in Viewers, UNCHANGED <<heldVars, publishing, final>>,
           NEW s \in Snapshots, NEW rx \in Receivers, NEW w \in Views,
           Follow(v, s, rx), view' = [view EXCEPT ![v] = w],
           InRow(rx, Sent),
           ~s.over => /\ StartsAt(rx, Sent, s.cursor)
                      /\ ClosedSaid => ClosedIn(rx, final)
                      /\ final # Nothing => s.cursor <= final.cursor,
           w.seen = s.cursor, w.sound, w.last \in {0, s.cursor}
    PROVE  Story'
  <1>1. TypeOK
    BY DEF Frame
  <1>2. /\ doing \in [Viewers -> {"asking", "waiting", "catching", "following", "done"}]
        /\ receiver \in [Viewers -> Receivers \cup {Nothing}]
        /\ offered \in [Viewers -> Subscriptions \cup {Nothing}]
        /\ view \in [Viewers -> Views]
    BY <1>1, TypesUnfolded DEF TypeOK
  <1>3. /\ receiver'[v] = rx /\ offered'[v] = Nothing /\ view'[v] = w
        /\ doing'[v] = IF s.over THEN "done" ELSE "following"
        /\ \A u \in Viewers \ {v} : /\ doing'[u] = doing[u] /\ receiver'[u] = receiver[u]
                                    /\ offered'[u] = offered[u] /\ view'[u] = view[u]
    BY <1>2 DEF Follow
  <1>4. UNCHANGED <<life, out, cursor, saying>>
    BY DEF heldVars, connection, publishing
  <1>5. Sent' = Sent /\ (ClosedSaid' <=> ClosedSaid) /\ final' = final
    BY <1>4 DEF Sent, ClosedSaid
  <1>6. Heeds(v)' => ~s.over
    BY <1>3 DEF Heeds
  <1>7. ~Going(v)'
    BY <1>3 DEF Going
  <1>8. Rows(v)'
    BY <1>3, <1>5 DEF Rows
  <1>9. Place(v)'
    <2>1. ~s.over => s.cursor <= Sent - Len(rx.events)
      BY DEF StartsAt
    <2> QED
      BY <1>3, <1>5, <1>6, <2>1 DEF Place
  <1>10. Offer(v)'
    BY <1>3 DEF Offer
  <1>11. Last(v)'
    BY <1>3, <1>5, <1>6, <1>7 DEF Last
  <1>12. StoryOf(v)'
    BY <1>8, <1>9, <1>10, <1>11 DEF StoryOf
  <1> QED
    BY <1>3, <1>12, OneStory

(* A viewer is offered what to go on from, and reads first what it holds.   *)
LEMMA OfferingKeepsStory ==
    ASSUME Frame, Story, NEW v \in Viewers, final' = final, Sent' = Sent,
           NEW s \in Snapshots, NEW rx \in Receivers,
           offered' = [offered EXCEPT ![v] = [snapshot |-> s, rx |-> rx]],
           UNCHANGED <<receiver, view>>,
           \A u \in Viewers : /\ doing'[u] = "done" <=> doing[u] = "done"
                              /\ doing'[u] = "following" => doing[u] = "following",
           ClosedSaid' => ClosedSaid,
           InRow(rx, Sent),
           IF s.over THEN final # Nothing /\ s = final
           ELSE StartsAt(rx, Sent, s.cursor) /\ ~ClosedSaid /\ final = Nothing,
           receiver[v] # Nothing => view[v].seen <= s.cursor
    PROVE  Story'
  <1>1. offered \in [Viewers -> Subscriptions \cup {Nothing}]
    BY DEF Frame, TypeOK
  <1>2. /\ offered'[v].snapshot = s /\ offered'[v].rx = rx
        /\ \A u \in Viewers \ {v} : offered'[u] = offered[u]
    BY <1>1
  <1> SUFFICES ASSUME NEW u \in Viewers
               PROVE  StoryOf(u)'
    BY DEF Story
  <1>3. StoryOf(u)
    BY DEF Story
  <1>4. Heeds(u)' <=> Heeds(u)
    BY DEF Heeds
  <1>5. Place(u)'
    BY <1>3, <1>4 DEF StoryOf, Place
  <1>6. CASE u = v
    <2>1. Rows(v)'
      BY <1>2, <1>3, <1>6 DEF StoryOf, Rows
    <2>2. Offer(v)'
      BY <1>2, <1>3, <1>6 DEF Offer
    <2>3. Last(v)'
      <3>1. Going(v)' => ~s.over
        BY <1>2 DEF Going
      <3> QED
        BY <1>3, <1>4, <1>6, <3>1 DEF StoryOf, Last
    <2> QED
      BY <1>5, <1>6, <2>1, <2>2, <2>3 DEF StoryOf
  <1>7. CASE u # v
    <2>1. offered'[u] = offered[u]
      BY <1>2, <1>7
    <2>2. Going(u)' <=> Going(u)
      BY <2>1 DEF Going
    <2>3. Rows(u)'
      BY <1>3, <2>1 DEF StoryOf, Rows
    <2>4. Offer(u)'
      BY <1>3, <2>1 DEF StoryOf, Offer
    <2>5. Last(u)'
      BY <1>3, <1>4, <2>2, <2>1 DEF StoryOf, Last
    <2> QED
      BY <1>5, <2>3, <2>4, <2>5 DEF StoryOf
  <1> QED
    BY <1>6, <1>7

(* The next event a viewer reads is the next there is, unless there was a   *)
(* gap.                                                                    *)
LEMMA ReadsNext ==
    ASSUME Frame, Story, NEW v \in Viewers, CatchUp(v) \/ Recv(v)
    PROVE  LET rx == receiver[v]
               n == Len(rx.events)
               e == rx.events[1]
           IN  /\ n \in Nat \ {0} /\ e.cursor \in Nat /\ e.cursor = Sent - n + 1
               /\ view[v].seen < e.cursor
               /\ \A i \in 1..n : rx.events[i].cursor = Sent - n + i
               /\ view'[v].seen = e.cursor /\ view'[v].last = e.cursor
               /\ view'[v].generation = e.generation
               /\ view'[v].quiet = IF e.kind \in {"quiet", "loud"} THEN e.kind = "quiet"
                                   ELSE view[v].quiet /\ e.generation = view[v].generation
               /\ view'[v].sound
               /\ \A u \in Viewers \ {v} : view'[u] = view[u]
  <1> DEFINE rx == receiver[v]
             n == Len(rx.events)
             e == rx.events[1]
  <1>1. TypeOK /\ Follows /\ Sent \in Nat
    BY SentIsNumber DEF Frame
  <1>2. /\ rx \in Receivers /\ rx # Nothing /\ ~rx.lagged /\ n \in Nat \ {0} /\ e \in Event
        /\ view' = [view EXCEPT ![v] = Observed(view[v], e)]
    <2>1. rx # Nothing
      BY <1>1 DEF Follows, CatchUp, Recv
    <2> QED
      BY <1>1, <2>1, WhatIsRead
  <1>3. StoryOf(v) /\ Heeds(v)
    BY <1>2 DEF Story, Heeds, CatchUp, Recv
  <1>4. view \in [Viewers -> Views] /\ view[v].seen \in Nat /\ view[v].last \in Nat
    BY <1>1, TypesUnfolded, ViewNumbers
  <1>5. \A i \in 1..n : rx.events[i].cursor = Sent - n + i
    BY <1>2, <1>3 DEF StoryOf, Rows, InRow
  <1>6. e.cursor \in Nat /\ e.cursor = Sent - n + 1
    <2>1. 1 \in 1..n /\ e.cursor \in Nat
      BY <1>2 DEF Event
    <2> QED
      BY <1>5, <2>1
  <1>7. /\ view[v].sound /\ view[v].last \in {0, view[v].seen}
        /\ view[v].seen <= Sent - n
        /\ view[v].last # 0 => n = Sent - view[v].seen
    BY <1>2, <1>3 DEF StoryOf, Place, StartsAt
  <1> HIDE DEF rx, n, e
  <1>8. view[v].seen < e.cursor /\ ~(e.cursor <= view[v].seen)
    BY <1>1, <1>2, <1>4, <1>6, <1>7
  <1>9. view[v].last = 0 \/ e.cursor = view[v].last + 1
    BY <1>1, <1>2, <1>4, <1>6, <1>7
  <1>10. view'[v] = Observed(view[v], e) /\ \A u \in Viewers \ {v} : view'[u] = view[u]
    BY <1>2, <1>4
  <1>11. /\ view'[v].seen = e.cursor /\ view'[v].last = e.cursor
         /\ view'[v].generation = e.generation
         /\ view'[v].quiet = IF e.kind \in {"quiet", "loud"} THEN e.kind = "quiet"
                             ELSE view[v].quiet /\ e.generation = view[v].generation
         /\ view'[v].sound = (view[v].sound /\ (view[v].last = 0 \/ e.cursor = view[v].last + 1))
    BY <1>8, <1>10 DEF Observed
  <1>12. view'[v].sound
    BY <1>7, <1>9, <1>11
  <1> QED
    BY <1>2, <1>5, <1>6, <1>8, <1>10, <1>11, <1>12 DEF rx, n, e

LEMMA ReadingKeepsStory ==
    ASSUME Frame, Story, NEW v \in Viewers, CatchUp(v) \/ Recv(v)
    PROVE  Story'
  <1> DEFINE rx == receiver[v]
             r == receiver'[v]
             n == Len(rx.events)
             e == rx.events[1]
  <1>1. TypeOK /\ Follows /\ Asked /\ Ending /\ Sent \in Nat
    BY SentIsNumber DEF Frame
  <1>2. /\ rx # Nothing /\ ~rx.lagged /\ e = Head(rx.events)
        /\ r # Nothing /\ ~r.lagged /\ Len(r.events) = n - 1
        /\ \A i \in 1..(n - 1) : r.events[i] = rx.events[i + 1]
        /\ \A u \in Viewers \ {v} : receiver'[u] = receiver[u]
    <2>1. rx # Nothing
      BY <1>1 DEF Follows, CatchUp, Recv
    <2> QED
      BY <1>1, <2>1, WhatIsRead
  <1>3. /\ n \in Nat \ {0} /\ e.cursor \in Nat /\ e.cursor = Sent - n + 1
        /\ \A i \in 1..n : rx.events[i].cursor = Sent - n + i
        /\ view'[v].seen = e.cursor /\ view'[v].last = e.cursor
        /\ view'[v].sound
        /\ \A u \in Viewers \ {v} : view'[u] = view[u]
    BY ReadsNext
  <1>4. StoryOf(v) /\ Heeds(v)
    BY <1>2 DEF Story, Heeds, CatchUp, Recv
  <1>5. /\ UNCHANGED <<heldVars, publishing, final, offered>>
        /\ \A u \in Viewers \ {v} : doing'[u] = doing[u]
    BY <1>1 DEF CatchUp, Recv, observing, TypeOK
  <1>6. UNCHANGED <<life, out, cursor, saying>>
    BY <1>5 DEF heldVars, connection, publishing
  <1>7. Sent' = Sent /\ (ClosedSaid' <=> ClosedSaid) /\ final' = final /\ offered' = offered
    BY <1>5, <1>6 DEF Sent, ClosedSaid
  <1> HIDE DEF rx, r, n, e
  <1>8. Rows(v)'
    <2>1. ASSUME NEW i \in 1..(n - 1)
          PROVE  r.events[i].cursor = Sent - (n - 1) + i
      <3>1. i + 1 \in 1..n
        BY <1>3
      <3>2. r.events[i].cursor = Sent - n + (i + 1)
        BY <1>2, <1>3, <3>1
      <3> QED
        BY <1>1, <1>3, <3>2
    <2>2. InRow(r, Sent)
      BY <1>2, <2>1 DEF InRow
    <2> QED
      BY <1>4, <1>7, <2>2 DEF StoryOf, Rows, r
  <1>9. Place(v)'
    <2>1. e.cursor <= Sent - (n - 1) /\ n - 1 = Sent - e.cursor
      BY <1>1, <1>3
    <2>2. StartsAt(r, Sent, e.cursor)
      BY <1>2, <2>1 DEF StartsAt
    <2> QED
      BY <1>2, <1>3, <1>7, <2>1, <2>2 DEF Place, r
  <1>10. CASE CatchUp(v)
    <2>1. /\ offered[v] # Nothing /\ doing[v] = "catching" /\ doing' = doing
          /\ e.cursor <= offered[v].snapshot.cursor
      BY <1>1, <1>2, <1>10 DEF CatchUp, HasMore, Follows, rx
    <2>2. Offer(v)'
      BY <1>3, <1>4, <1>7, <2>1 DEF StoryOf, Offer
    <2>3. final # Nothing => e.cursor <= final.cursor
      <3>1. final # Nothing => offered[v].snapshot.cursor <= final.cursor
        <4>1. CASE offered[v].snapshot.over
          <5>1. offered[v].snapshot.cursor = final.cursor
            BY <1>4, <2>1, <4>1 DEF StoryOf, Offer
          <5> QED
            BY <1>1, <2>1, <5>1, ViewNumbers
        <4>2. CASE ~offered[v].snapshot.over
          BY <1>4, <2>1, <4>2 DEF StoryOf, Last, Going
        <4> QED
          BY <4>1, <4>2
      <3> QED
        BY <1>1, <1>3, <2>1, <3>1, ViewNumbers
    <2>4. Last(v)'
      <3>1. Going(v)' <=> Going(v)
        BY <1>7 DEF Going
      <3> QED
        BY <1>3, <1>4, <1>7, <2>1, <2>3, <3>1 DEF StoryOf, Last
    <2>5. StoryOf(v)'
      BY <1>8, <1>9, <2>2, <2>4 DEF StoryOf
    <2> QED
      BY <1>2, <1>3, <1>5, <2>5, OneStory
  <1>11. CASE Recv(v)
    <2>1. /\ offered[v] = Nothing /\ doing[v] = "following"
          /\ doing'[v] = "following" => e.kind # "closed"
      BY <1>1, <1>2, <1>11 DEF Recv, Asked, TypeOK, rx
    <2>2. Offer(v)'
      BY <1>7, <2>1 DEF Offer
    <2>3. ASSUME ClosedSaid
          PROVE  \E i \in 1..n : /\ rx.events[i].kind = "closed"
                                 /\ final # Nothing => rx.events[i].cursor <= final.cursor
      BY <1>2, <1>4, <2>1, <2>3 DEF StoryOf, Last, ClosedIn, rx, n
    <2>4. final # Nothing => e.cursor <= final.cursor
      <3> SUFFICES ASSUME final # Nothing
                   PROVE  e.cursor <= final.cursor
        OBVIOUS
      <3>1. ClosedSaid
        BY <1>1 DEF Ending, ClosedSaid
      <3>2. PICK i \in 1..n : rx.events[i].cursor <= final.cursor
        BY <2>3, <3>1
      <3>3. rx.events[i].cursor = Sent - n + i /\ final.cursor \in Nat
        BY <1>1, <1>3, ViewNumbers
      <3> QED
        BY <1>1, <1>3, <3>2, <3>3
    <2>5. ASSUME ClosedSaid, doing'[v] = "following"
          PROVE  ClosedIn(r, final)
      <3>1. PICK i \in 1..n : /\ rx.events[i].kind = "closed"
                              /\ final # Nothing => rx.events[i].cursor <= final.cursor
        BY <2>3, <2>5
      <3>2. i # 1
        BY <2>1, <2>5, <3>1 DEF e
      <3>3. i - 1 \in 1..(n - 1) /\ (i - 1) + 1 = i
        BY <1>3, <3>2
      <3>4. r.events[i - 1] = rx.events[i] /\ i - 1 \in 1..Len(r.events)
        BY <1>2, <3>3
      <3> QED
        BY <3>1, <3>4 DEF ClosedIn
    <2>6. Last(v)'
      <3>1. ~Going(v)'
        BY <1>7, <2>1 DEF Going
      <3> QED
        BY <1>3, <1>7, <2>4, <2>5, <3>1 DEF Last, r
    <2>7. StoryOf(v)'
      BY <1>8, <1>9, <2>2, <2>6 DEF StoryOf
    <2> QED
      BY <1>2, <1>3, <1>5, <2>7, OneStory
  <1> QED
    BY <1>10, <1>11

LEMMA LagKeepsStory ==
    ASSUME Frame, Story, NEW v \in Viewers, Lagged(v)
    PROVE  Story'
  <1>1. TypeOK /\ Follows /\ Asked
    BY DEF Frame
  <1>2. receiver[v] \in Receivers /\ receiver[v] # Nothing
    BY <1>1, TypesUnfolded DEF Lagged, Follows
  <1>3. /\ receiver' = [receiver EXCEPT ![v] = [receiver[v] EXCEPT !.lagged = FALSE]]
        /\ view' = [view EXCEPT ![v] = Missing(view[v])]
        /\ doing' = [doing EXCEPT ![v] = "asking"]
        /\ doing[v] = "following" /\ receiver[v].lagged
        /\ UNCHANGED <<heldVars, publishing, final, offered>>
    BY <1>1 DEF Lagged, observing, TypeOK
  <1>4. /\ doing \in [Viewers -> {"asking", "waiting", "catching", "following", "done"}]
        /\ receiver \in [Viewers -> Receivers \cup {Nothing}]
        /\ view \in [Viewers -> Views]
    BY <1>1, TypesUnfolded DEF TypeOK
  <1>5. /\ receiver'[v].events = receiver[v].events /\ ~receiver'[v].lagged
        /\ view'[v].seen = view[v].seen /\ view'[v].last = 0 /\ view'[v].sound = view[v].sound
        /\ doing'[v] = "asking"
        /\ \A u \in Viewers \ {v} : /\ doing'[u] = doing[u] /\ receiver'[u] = receiver[u]
                                    /\ view'[u] = view[u]
    BY <1>2, <1>3, <1>4 DEF Missing, Receivers, Views
  <1>6. offered[v] = Nothing /\ offered'[v] = Nothing
    BY <1>1, <1>3 DEF Asked
  <1>7. UNCHANGED <<life, out, cursor, saying>>
    BY <1>3 DEF heldVars, connection, publishing
  <1>8. Sent' = Sent /\ final' = final
    BY <1>3, <1>7 DEF Sent
  <1>9. StoryOf(v) /\ Heeds(v)
    BY <1>2, <1>3 DEF Story, Heeds
  <1>10. Rows(v)'
    BY <1>2, <1>5, <1>6, <1>8, <1>9 DEF StoryOf, Rows, InRow
  <1>11. Place(v)'
    BY <1>5, <1>8, <1>9 DEF StoryOf, Place
  <1>12. Offer(v)'
    BY <1>6 DEF Offer
  <1>13. Last(v)'
    BY <1>5, <1>6, <1>8, <1>9 DEF StoryOf, Last, Going
  <1>14. StoryOf(v)'
    BY <1>10, <1>11, <1>12, <1>13 DEF StoryOf
  <1> QED
    BY <1>3, <1>5, <1>14, OneStory


LEMMA ViewerKeepsStory ==
    ASSUME Frame, Story, NEW v \in Viewers, Viewer(v)
    PROVE  Story'
  <1>1. TypeOK /\ Follows /\ Asked /\ Ending
    BY DEF Frame
  <1>2. Sent \in Nat /\ Sent <= cursor /\ cursor \in Nat
    BY SentIsNumber
  <1>3. StoryOf(v)
    BY DEF Story
  <1>4. CASE Ask(v) \/ TimedOut(v) \/ Tick(v)
    <2>1. /\ UNCHANGED <<receiver, offered, view, final, cursor, saying, life, out>>
          /\ \/ doing' = [doing EXCEPT ![v] = "asking"]
             \/ doing' = [doing EXCEPT ![v] = "waiting"]
          /\ doing[v] # "done"
      BY <1>4 DEF Ask, TimedOut, Tick, heldVars, connection, publishing, observing
    <2>2. \A u \in Viewers : /\ doing'[u] = "done" <=> doing[u] = "done"
                             /\ doing'[u] = "following" => doing[u] = "following"
      BY <1>1, <2>1 DEF TypeOK
    <2>3. Sent' = Sent /\ (ClosedSaid' => ClosedSaid)
      BY <2>1 DEF Sent, ClosedSaid
    <2> QED
      BY <2>1, <2>2, <2>3, StoryStands
  <1>5. CASE TakeAnswer(v)
    <2> DEFINE s == offered[v].snapshot
               rx == offered[v].rx
    <2>1. /\ doing[v] = "waiting" /\ offered[v] # Nothing /\ Take(v, s, rx)
          /\ UNCHANGED <<heldVars, publishing, final>>
      BY <1>5 DEF TakeAnswer, observing
    <2>2. s \in Snapshots /\ rx \in Receivers /\ offered[v] = [snapshot |-> s, rx |-> rx]
      BY <1>1, <2>1, TypesUnfolded
    <2>3. CASE receiver[v] = Nothing
      <3> DEFINE w == Fresh(s)
      <3>1. w \in Views /\ w.seen = s.cursor /\ w.sound /\ w.last \in {0, s.cursor}
        BY <2>2, FreshTyped DEF Fresh
      <3>2. Follow(v, s, rx) /\ view' = [view EXCEPT ![v] = w]
        BY <2>1, <2>3 DEF Take
      <3>3. /\ InRow(rx, Sent)
            /\ ~s.over => /\ StartsAt(rx, Sent, s.cursor)
                          /\ ClosedSaid => ClosedIn(rx, final)
                          /\ final # Nothing => s.cursor <= final.cursor
        BY <1>3, <2>1 DEF StoryOf, Rows, Offer, Last, Going
      <3> HIDE DEF w, s, rx
      <3> QED
        BY <2>1, <2>2, <3>1, <3>2, <3>3, FollowingKeepsStory
    <2>4. CASE receiver[v] # Nothing
      <3>1. /\ doing' = [doing EXCEPT ![v] = "catching"]
            /\ offered' = [offered EXCEPT ![v] = offered[v]]
            /\ UNCHANGED <<receiver, view>>
        BY <2>1, <2>2, <2>4 DEF Take
      <3>2. offered' = offered
        BY <1>1, <3>1 DEF TypeOK
      <3>3. \A u \in Viewers : /\ doing'[u] = "done" <=> doing[u] = "done"
                               /\ doing'[u] = "following" => doing[u] = "following"
        BY <1>1, <2>1, <3>1 DEF TypeOK
      <3>4. Sent' = Sent /\ (ClosedSaid' => ClosedSaid)
        BY <2>1 DEF Sent, ClosedSaid, heldVars, connection, publishing
      <3> QED
        BY <2>1, <3>1, <3>2, <3>3, <3>4, StoryStands
    <2> QED
      BY <2>3, <2>4
  <1>6. CASE TakeFinal(v)
    <2>1. /\ final # Nothing /\ doing[v] \in {"asking", "waiting"} /\ Take(v, final, Empty)
          /\ UNCHANGED <<heldVars, publishing, final>>
      BY <1>6 DEF TakeFinal, observing
    <2>2. final \in Snapshots /\ Empty \in Receivers /\ final.over
      BY <1>1, <2>1, SnapshotTyped DEF TypeOK, Ending
    <2>3. InRow(Empty, Sent)
      BY DEF InRow, Empty
    <2>4. CASE receiver[v] = Nothing
      <3> DEFINE w == Fresh(final)
      <3>1. w \in Views /\ w.seen = final.cursor /\ w.sound /\ w.last \in {0, final.cursor}
        BY <2>2, FreshTyped DEF Fresh
      <3>2. Follow(v, final, Empty) /\ view' = [view EXCEPT ![v] = w]
        BY <2>1, <2>4 DEF Take
      <3> HIDE DEF w
      <3> QED
        BY <2>1, <2>2, <2>3, <3>1, <3>2, FollowingKeepsStory
    <2>5. CASE receiver[v] # Nothing
      <3>1. /\ doing' = [doing EXCEPT ![v] = "catching"]
            /\ offered' = [offered EXCEPT ![v] = [snapshot |-> final, rx |-> Empty]]
            /\ UNCHANGED <<receiver, view>>
        BY <2>1, <2>5 DEF Take
      <3>2. \A u \in Viewers : /\ doing'[u] = "done" <=> doing[u] = "done"
                               /\ doing'[u] = "following" => doing[u] = "following"
        BY <1>1, <2>1, <3>1 DEF TypeOK
      <3>3. Sent' = Sent /\ (ClosedSaid' => ClosedSaid)
        BY <2>1 DEF Sent, ClosedSaid, heldVars, connection, publishing
      <3>4. view[v].seen <= final.cursor
        BY <1>3, <2>1, <2>5 DEF StoryOf, Last, Heeds
      <3> QED
        BY <2>1, <2>2, <2>3, <3>1, <3>2, <3>3, <3>4, OfferingKeepsStory
    <2> QED
      BY <2>4, <2>5
  <1>7. CASE CatchUp(v) \/ Recv(v)
    BY <1>7, ReadingKeepsStory
  <1>8. CASE Fence(v)
    <2> DEFINE s == offered[v].snapshot
               rx == offered[v].rx
               from == IF Behind(v) THEN Missing(view[v]) ELSE view[v]
               w == [from EXCEPT !.seen = s.cursor, !.generation = s.generation, !.dirty = FALSE]
    <2>1. /\ doing[v] = "catching" /\ offered[v] # Nothing /\ receiver[v] # Nothing
          /\ Follow(v, s, rx) /\ UNCHANGED <<heldVars, publishing, final>>
      BY <1>1, <1>8 DEF Fence, observing, Follows
    <2>2. /\ s \in Snapshots /\ rx \in Receivers /\ view \in [Viewers -> Views]
          /\ view[v] \in Views /\ view[v].seen \in Nat /\ view[v].last \in Nat
          /\ s.cursor \in Nat /\ s.generation \in Nat
      BY <1>1, <2>1, TypesUnfolded, ViewNumbers
    <2>3. view' = [view EXCEPT ![v] = w]
      BY <1>8, <2>2 DEF Fence
    <2>4. from \in Views /\ from.sound = view[v].sound
          /\ from.last = IF Behind(v) THEN 0 ELSE view[v].last
      BY <2>2 DEF Missing, Views
    <2>5. view[v].sound /\ view[v].last \in {0, view[v].seen} /\ view[v].seen <= s.cursor
      BY <1>3, <2>1 DEF StoryOf, Place, Offer
    <2>6. ~Behind(v) => view[v].seen = s.cursor
      BY <2>2, <2>5 DEF Behind
    <2>7. /\ InRow(rx, Sent)
          /\ ~s.over => /\ StartsAt(rx, Sent, s.cursor)
                        /\ ClosedSaid => ClosedIn(rx, final)
                        /\ final # Nothing => s.cursor <= final.cursor
      BY <1>3, <2>1 DEF StoryOf, Rows, Offer, Last, Going
    <2> HIDE DEF from, s, rx
    <2>8. w \in Views /\ w.seen = s.cursor /\ w.sound = from.sound /\ w.last = from.last
      BY <2>2, <2>4 DEF Views
    <2>9. w.sound /\ w.last \in {0, s.cursor}
      BY <2>4, <2>5, <2>6, <2>8
    <2> HIDE DEF w
    <2> QED
      BY <2>1, <2>2, <2>3, <2>7, <2>8, <2>9, FollowingKeepsStory
  <1>9. CASE Lagged(v)
    BY <1>9, LagKeepsStory
  <1> QED
    BY <1>4, <1>5, <1>6, <1>7, <1>8, <1>9 DEF Viewer

LEMMA StoryKept == Frame /\ Story /\ [Next]_vars => Story'
  <1> SUFFICES ASSUME Frame, Story, [Next]_vars
               PROVE  Story'
    OBVIOUS
  <1>1. TypeOK /\ Follows /\ Asked /\ Ending /\ NoticeIsNewest
    BY DEF Frame
  <1>2. /\ Sent \in Nat /\ Sent <= cursor /\ cursor \in Nat
        /\ (FenceIsFree => Sent = cursor) /\ (saying # Nothing => saying = Sent + 1)
    BY SentIsNumber
  (* A step that only the owner, the runner or the clock can see. *)
  <1>3. ASSUME UNCHANGED <<receiver, offered, view, final, doing, cursor, saying>>,
               ClosedSaid' => ClosedSaid
        PROVE  Story'
    <2>1. Sent' = Sent
      BY <1>3 DEF Sent
    <2> QED
      BY <1>3, <2>1, StoryStands
  <1>4. CASE OwnerStep
    <2>1. OwnerTurns /\ HeldTypeOK /\ UNCHANGED <<receiver, offered, view, final, doing, cursor, saying>>
      BY <1>1, <1>4 DEF OwnerStep, TypeOK, publishing, observing, watching
    <2>2. ~ClosedSaid'
      BY <2>1, TurnsEnd DEF ClosedSaid
    <2> QED
      BY <1>3, <2>1, <2>2
  <1>5. CASE RunnerStep \/ ClockStep \/ UNCHANGED vars
    <2>1. UNCHANGED <<receiver, offered, view, final, doing, cursor, saying>>
      BY <1>5 DEF RunnerStep, ClockStep, publishing, observing, watching, vars
    <2>2. UNCHANGED <<life, out>>
      BY <1>5 DEF RunnerStep, HookLines, Answer, ClockStep, DeadlinePasses, connection, vars, heldVars
    <2> QED
      BY <1>3, <2>1, <2>2 DEF ClosedSaid
  <1>6. CASE Say
    <2>1. /\ UNCHANGED <<receiver, offered, view, final, doing, life, out>>
          /\ saying = Nothing /\ cursor' = cursor + 1 /\ saying' = cursor + 1
      BY <1>6 DEF Say, FenceIsFree, heldVars, connection, observing, watching
    <2>2. saying' # Nothing
      BY <1>2, <2>1, ViewingConstantsAssumption
    <2>3. Sent' = Sent
      BY <1>2, <2>1, <2>2 DEF Sent
    <2>4. ClosedSaid' => ClosedSaid
      BY <2>1 DEF ClosedSaid
    <2> QED
      BY <2>1, <2>3, <2>4, StoryStands
  <1>7. CASE Publish
    <2> DEFINE kind == Head(out).kind
               t == Tail(out)
    <2>1. /\ saying = Nothing /\ cursor' = cursor + 1 /\ UNCHANGED <<life, saying, doing, view, final>>
          /\ out' = t
      BY <1>7 DEF Publish, FenceIsFree, connection, observing
    <2>2. /\ kind \in {"heard", "line", "quiet", "loud", "notice",
                       "reconnecting", "authenticating", "closed"}
          /\ SentToAll(cursor', kind)
          /\ out # <<>> /\ Len(out) \in Nat \ {0} /\ Head(out) = out[1]
          /\ t \in Seq(Turned) /\ Len(t) = Len(out) - 1
      BY <1>1, <1>7, PublishedKind
    <2>3. cursor' = Sent + 1 /\ Sent' = Sent + 1
      BY <1>2, <2>1 DEF Sent
    <2>4. ASSUME ClosedSaid'
          PROVE  kind = "closed" /\ final = Nothing
      <3>1. life = "closing" /\ t = <<>>
        BY <1>1, <2>1, <2>2, <2>4 DEF Ending, ClosedSaid
      <3>2. Len(out) = 1
        <4> HIDE DEF t
        <4>1. Len(t) = 0
          BY <3>1, EmptySeq
        <4> QED
          BY <2>2, <4>1
      <3> QED
        BY <1>1, <2>2, <3>1, <3>2 DEF Ending
    <2> HIDE DEF kind
    <2> QED
      BY <1>2, <2>1, <2>2, <2>3, <2>4, SendingKeepsStory
  <1>8. CASE Said
    <2>1. /\ saying # Nothing /\ saying' = Nothing /\ SentToAll(saying, "notice")
          /\ UNCHANGED <<life, out, cursor, doing, view, final>>
      BY <1>8 DEF Said, heldVars, connection, observing
    <2>2. saying = Sent + 1 /\ Sent' = Sent + 1 /\ saying \in Nat
      BY <1>2, <2>1 DEF Sent
    <2>3. ClosedSaid' => ClosedSaid
      BY <2>1 DEF ClosedSaid
    <2> QED
      BY <2>1, <2>2, <2>3, SendingKeepsStory
  <1>9. CASE AnswerRequest
    <2>1. /\ UNCHANGED <<receiver, view, final, doing, cursor, saying, life, out>>
          /\ out = <<>> /\ life \in {"up", "down"} /\ requests # <<>>
          /\ \/ UNCHANGED offered
             \/ /\ Head(requests).waits /\ FenceIsFree
                /\ offered' = [offered EXCEPT ![Head(requests).by] = [snapshot |-> Snapshot, rx |-> Empty]]
      BY <1>9 DEF AnswerRequest, Turn, heldVars, connection, publishing
    <2>2. Sent' = Sent /\ (ClosedSaid' => ClosedSaid)
      BY <2>1 DEF Sent, ClosedSaid
    <2>3. CASE UNCHANGED offered
      BY <2>1, <2>2, <2>3, StoryStands
    <2>4. CASE offered' # offered
      <3> DEFINE v == Head(requests).by
                 s == Snapshot
      <3>1. /\ requests \in Seq([by : Viewers, waits : BOOLEAN])
            /\ Head(requests) = requests[1] /\ 1 \in DOMAIN requests
            /\ Head(requests) \in [by : Viewers, waits : BOOLEAN]
        <4>1. requests \in Seq([by : Viewers, waits : BOOLEAN])
          BY <1>1 DEF TypeOK
        <4>2. /\ Head(requests) = requests[1] /\ Len(requests) \in Nat \ {0}
              /\ Head(requests) \in [by : Viewers, waits : BOOLEAN]
          BY <2>1, <4>1, WithoutHead
        <4>3. DOMAIN requests = 1..Len(requests)
          BY <4>1, LenProperties
        <4> QED
          BY <4>1, <4>2, <4>3
      <3>2. v \in Viewers /\ requests[1].waits /\ requests[1].by = v /\ FenceIsFree
            /\ offered' = [offered EXCEPT ![v] = [snapshot |-> s, rx |-> Empty]]
        BY <2>1, <2>4, <3>1
      <3>3. s \in Snapshots /\ s.cursor = cursor /\ ~s.over /\ Empty \in Receivers
        BY <1>1, <2>1, SnapshotTyped DEF Snapshot
      <3> HIDE DEF v, s
      <3>4. doing[v] = "waiting"
        BY <1>1, <3>1, <3>2 DEF Asked, Pending
      <3>5. ASSUME receiver[v] # Nothing
            PROVE  view[v].seen <= s.cursor
        <4>1. Place(v) /\ Heeds(v)
          BY <3>2, <3>4, <3>5 DEF Story, StoryOf, Heeds
        <4>2. view[v].seen <= Sent - Len(receiver[v].events)
          BY <4>1 DEF Place
        <4>3. view[v].seen \in Nat /\ Len(receiver[v].events) \in Nat
          BY <1>1, <3>2, <3>5, TypesUnfolded, ViewNumbers
        <4> QED
          BY <1>2, <3>2, <3>3, <4>2, <4>3
      <3>6. InRow(Empty, Sent)
        BY DEF InRow, Empty
      <3>7. StartsAt(Empty, Sent, s.cursor)
        <4>1. Sent = s.cursor /\ Len(Empty.events) = 0 /\ Sent \in Nat
          BY <1>2, <3>2, <3>3 DEF Empty
        <4> QED
          BY <4>1 DEF StartsAt
      <3>8. ~ClosedSaid /\ final = Nothing
        BY <1>1, <2>1 DEF ClosedSaid, Ending
      <3> QED
        BY <2>1, <2>2, <3>2, <3>3, <3>5, <3>6, <3>7, <3>8, OfferingKeepsStory
    <2> QED
      BY <2>3, <2>4
  <1>10. CASE Finish
    <2>1. /\ UNCHANGED <<receiver, offered, view, doing, cursor, saying, out>>
          /\ out = <<>> /\ life = "closing" /\ life' = "over"
          /\ final' = Snapshot
      BY <1>10 DEF Finish, Turn, publishing, watching
    <2>2. final = Nothing /\ final'.cursor = cursor /\ ClosedSaid /\ final' # Nothing
      BY <1>1, <2>1, SnapshotTyped DEF Ending, ClosedSaid, Snapshot
    <2>3. Sent' = Sent
      BY <2>1 DEF Sent
    <2> SUFFICES ASSUME NEW v \in Viewers
                 PROVE  StoryOf(v)'
      BY DEF Story
    <2>4. StoryOf(v)
      BY DEF Story
    <2>5. (Heeds(v)' <=> Heeds(v)) /\ (Going(v)' <=> Going(v))
      BY <2>1 DEF Heeds, Going
    <2>6. Rows(v)' /\ Place(v)' /\ Offer(v)'
      BY <2>1, <2>2, <2>3, <2>4, <2>5 DEF StoryOf, Rows, Place, Offer
    <2>7. ASSUME NEW rx \in Receivers, InRow(rx, Sent), ClosedIn(rx, final)
          PROVE  ClosedIn(rx, final')
      <3> SUFFICES ASSUME NEW i \in 1..Len(rx.events), rx.events[i].kind = "closed"
                   PROVE  rx.events[i].cursor <= cursor
        BY <2>2, <2>7 DEF ClosedIn
      <3>1. rx.events[i].cursor = Sent - Len(rx.events) + i /\ Len(rx.events) \in Nat
        BY <2>7, LenProperties DEF InRow, Receivers
      <3> QED
        BY <1>2, <3>1
    <2>8. /\ receiver[v] # Nothing => receiver[v] \in Receivers /\ Len(receiver[v].events) \in Nat
          /\ offered[v] # Nothing => offered[v].rx \in Receivers /\ Len(offered[v].rx.events) \in Nat
          /\ view[v].seen \in Nat /\ (offered[v] # Nothing => offered[v].snapshot.cursor \in Nat)
      BY <1>1, TypesUnfolded, ViewNumbers
    <2>9. Heeds(v) => view[v].seen <= cursor
      <3>1. Heeds(v) => receiver[v] # Nothing /\ view[v].seen <= Sent - Len(receiver[v].events)
        BY <2>4 DEF StoryOf, Place, Heeds
      <3> QED
        BY <1>2, <2>8, <3>1
    <2>10. Going(v) => offered[v].snapshot.cursor <= cursor
      <3>1. Going(v) => /\ offered[v] # Nothing
                        /\ offered[v].snapshot.cursor <= Sent - Len(offered[v].rx.events)
        BY <2>4 DEF StoryOf, Offer, Going, StartsAt
      <3> QED
        BY <1>2, <2>8, <3>1
    <2>11. doing[v] = "following" => receiver[v] # Nothing
      BY <1>1 DEF Follows
    <2>12. /\ doing[v] = "following" => ClosedIn(receiver[v], final')
           /\ Going(v) => ClosedIn(offered[v].rx, final')
      BY <2>2, <2>4, <2>7, <2>8, <2>11 DEF StoryOf, Rows, Last, Going
    <2>13. Last(v)'
      BY <2>1, <2>2, <2>5, <2>9, <2>10, <2>12 DEF Last
    <2> QED
      BY <2>6, <2>13 DEF StoryOf
  <1> QED
    BY <1>4, <1>5, <1>6, <1>7, <1>8, <1>9, <1>10, ViewerKeepsStory DEF Next

LEMMA StoryHolds == Spec => [](Frame /\ Story)
  <1>1. Init => Story
    <2> SUFFICES ASSUME Init, NEW v \in Viewers
                 PROVE  StoryOf(v)
      BY DEF Story
    <2>1. /\ receiver[v] = Nothing /\ offered[v] = Nothing /\ final = Nothing /\ life = "up"
          /\ view[v].sound /\ view[v].last = 0 /\ doing[v] = "asking"
      BY DEF Init, HeldInit, Fresh
    <2> QED
      BY <2>1 DEF StoryOf, Rows, Place, Offer, Last, Heeds, Going
  <1> QED
    BY <1>1, FrameHolds, StoryKept, PTL DEF Spec

(* However snapshots, lags, reconnections and an end fall between its       *)
(* reads, a viewer hears each event once and in order, or knows of the gap. *)
THEOREM HeardInOrder == Spec => []HeardOnceInOrder
  <1>1. Story => HeardOnceInOrder
    BY DEF Story, StoryOf, Place, HeardOnceInOrder
  <1> QED
    BY <1>1, StoryHolds, PTL

-----------------------------------------------------------------------------
(* Silence.  A viewer that shows no main-stream text has a reason to: the   *)
(* window is open, or the connection is gone, or an event that ends the     *)
(* silence is before it, or is about to be published.                      *)

(* What ends a silence that began in connection g.                         *)
Ends(event, g) == event.kind = "loud" \/ event.generation # g

(* The connections in which silence is right, or which the owner's turn is  *)
(* about to say is over.                                                   *)
Excused ==
    {g \in Nat : \/ window
                 \/ life \in {"lost", "closing", "over"}
                 \/ \E j \in 1..Len(out) : out[j].kind = "loud"
                 \/ generation # g /\ out # <<>>}

MarkIsInside == (\E j \in 1..Len(out) : out[j].kind = "quiet") => window

Later(events, i, g) == \E j \in 1..Len(events) : j > i /\ Ends(events[j], g)
LaterUpTo(events, i, g, upto) ==
    \E j \in 1..Len(events) : j > i /\ events[j].cursor <= upto /\ Ends(events[j], g)

Settled(ex, g, i, events) == g \in ex \/ Later(events, i, g)

(* Every mark that opens a window is followed by what ends it, or its       *)
(* window is open.                                                         *)
Marked(ex, events) ==
    \A i \in 1..Len(events) :
        events[i].kind = "quiet" => Settled(ex, events[i].generation, i, events)

MarkedUpTo(events, upto) ==
    \A i \in 1..Len(events) :
        events[i].kind = "quiet" /\ events[i].cursor <= upto
            => LaterUpTo(events, i, events[i].generation, upto)

Young(events, gen) == \A i \in 1..Len(events) : events[i].generation <= gen

(* What an offer leaves a viewer with once it has caught up.                *)
Fenced(ex, seeing, rx, offer) ==
    LET upto == offer.snapshot.cursor
    IN  \/ offer.rx.lagged
        \/ Settled(ex, offer.snapshot.generation, 0, offer.rx.events)
        \/ /\ MarkedUpTo(rx.events, upto)
           /\ seeing.quiet => \/ rx.lagged /\ seeing.seen < upto
                              \/ LaterUpTo(rx.events, 0, seeing.generation, upto)

Ages(gen, seeing, rx, offer) ==
    /\ seeing.generation <= gen
    /\ rx # Nothing => Young(rx.events, gen)
    /\ offer # Nothing => offer.snapshot.generation <= gen /\ Young(offer.rx.events, gen)

Silence(ex, seeing, rx, offer) ==
    /\ rx # Nothing => /\ Marked(ex, rx.events)
                       /\ seeing.quiet /\ ~rx.lagged
                            => Settled(ex, seeing.generation, 0, rx.events)
    /\ offer # Nothing => Marked(ex, offer.rx.events)
    /\ offer # Nothing /\ rx # Nothing => Fenced(ex, seeing, rx, offer)

SilenceOf(v) ==
    /\ Ages(generation, view[v], receiver[v], offered[v])
    /\ Silence(Excused, view[v], receiver[v], offered[v])

Silences ==
    /\ MarkIsInside
    /\ final # Nothing => final.generation <= generation
    /\ \A v \in Viewers : SilenceOf(v)

LEMMA EventNumbers ==
    ASSUME NEW s \in Seq(Event)
    PROVE  /\ Len(s) \in Nat
           /\ \A i \in 1..Len(s) : s[i].cursor \in Nat /\ s[i].generation \in Nat
  <1>1. Len(s) \in Nat /\ \A i \in 1..Len(s) : s[i] \in Event
    BY LenProperties, ElementOfSeq
  <1> QED
    BY <1>1 DEF Event

LEMMA RxNumbers ==
    ASSUME NEW rx \in Receivers
    PROVE  /\ rx.events \in Seq(Event) /\ Len(rx.events) \in Nat
           /\ \A i \in 1..Len(rx.events) : /\ rx.events[i].cursor \in Nat
                                           /\ rx.events[i].generation \in Nat
  <1>1. rx.events \in Seq(Event)
    BY DEF Receivers
  <1> QED
    BY <1>1, EventNumbers

(* More excuses, and a later connection.                                   *)
LEMMA MoreExcuses ==
    ASSUME NEW ex, NEW more, NEW gen \in Nat, NEW newer \in Nat, gen <= newer,
           \A g \in Nat : g <= gen /\ g \in ex => g \in more,
           NEW seeing \in Views, NEW rx \in Receivers \cup {Nothing},
           NEW offer \in Subscriptions \cup {Nothing},
           Ages(gen, seeing, rx, offer), Silence(ex, seeing, rx, offer)
    PROVE  Ages(newer, seeing, rx, offer) /\ Silence(more, seeing, rx, offer)
  <1>1. seeing.generation \in Nat
    BY DEF Views
  <1>2. offer # Nothing => /\ offer.snapshot.generation \in Nat /\ offer.rx \in Receivers
    BY DEF Subscriptions, Snapshots
  <1>3. ASSUME NEW s \in Seq(Event), Young(s, gen)
        PROVE  Young(s, newer) /\ (Marked(ex, s) => Marked(more, s))
    <2>1. \A i \in 1..Len(s) : s[i].generation \in Nat /\ s[i].generation <= gen
      BY <1>3, EventNumbers DEF Young
    <2>2. Young(s, newer)
      BY <2>1 DEF Young
    <2> QED
      BY <2>1, <2>2 DEF Marked, Settled
  <1>4. ASSUME NEW g \in Nat, NEW s, g <= gen, Settled(ex, g, 0, s)
        PROVE  Settled(more, g, 0, s)
    BY <1>4 DEF Settled
  <1>5. rx # Nothing => rx.events \in Seq(Event)
    BY RxNumbers
  <1>6. offer # Nothing => offer.rx.events \in Seq(Event)
    BY <1>2, RxNumbers
  <1>7. Ages(newer, seeing, rx, offer)
    BY <1>1, <1>2, <1>3, <1>5, <1>6 DEF Ages
  <1>8. rx # Nothing => /\ Marked(more, rx.events)
                        /\ seeing.quiet /\ ~rx.lagged
                             => Settled(more, seeing.generation, 0, rx.events)
    BY <1>1, <1>3, <1>4, <1>5 DEF Ages, Silence
  <1>9. offer # Nothing => Marked(more, offer.rx.events)
    BY <1>3, <1>6 DEF Ages, Silence
  <1>10. offer # Nothing /\ rx # Nothing => Fenced(more, seeing, rx, offer)
    BY <1>2, <1>4 DEF Ages, Silence, Fenced
  <1> QED
    BY <1>7, <1>8, <1>9, <1>10 DEF Silence

(* What is later in a sequence, when it grows.                             *)
LEMMA LaterKept ==
    ASSUME NEW s, NEW t, NEW n \in Nat, Len(s) = n, Len(t) = n + 1,
           \A i \in 1..n : t[i] = s[i]
    PROVE  /\ \A i \in Nat : \A g : Later(s, i, g) => Later(t, i, g)
           /\ \A i \in 0..n : \A g : Ends(t[n + 1], g) => Later(t, i, g)
           /\ \A i \in Nat : \A g, upto : LaterUpTo(s, i, g, upto) => LaterUpTo(t, i, g, upto)
  <1>1. \A i \in 1..n : i \in 1..(n + 1)
    OBVIOUS
  <1>2. \A i \in 0..n : n + 1 \in 1..(n + 1) /\ n + 1 > i
    OBVIOUS
  <1> QED
    BY <1>1, <1>2 DEF Later, LaterUpTo

(* What is later in a sequence whose head is gone.                         *)
LEMMA LaterShifted ==
    ASSUME NEW s, NEW t, NEW n \in Nat \ {0}, Len(s) = n, Len(t) \in {n - 1, n},
           \A i \in 1..(n - 1) : t[i] = s[i + 1]
    PROVE  /\ \A i \in Nat : \A g : Later(s, i + 1, g) => Later(t, i, g)
           /\ \A i \in Nat : \A g, upto : LaterUpTo(s, i + 1, g, upto) => LaterUpTo(t, i, g, upto)
           /\ \A g : Later(s, 0, g) => Ends(s[1], g) \/ Later(t, 0, g)
           /\ \A g, upto : LaterUpTo(s, 0, g, upto)
                => (Ends(s[1], g) /\ s[1].cursor <= upto) \/ LaterUpTo(t, 0, g, upto)
  <1>1. ASSUME NEW i \in Nat, NEW j \in 1..n, j > i + 1
        PROVE  j - 1 \in 1..Len(t) /\ j - 1 > i /\ t[j - 1] = s[j]
    <2>1. j - 1 \in 1..(n - 1) /\ j - 1 > i /\ (j - 1) + 1 = j
      BY <1>1
    <2>2. j - 1 \in 1..Len(t)
      BY <2>1
    <2>3. t[j - 1] = s[j]
      BY <2>1
    <2> QED
      BY <2>1, <2>2, <2>3
  <1>2. ASSUME NEW j \in 1..n, j # 1
        PROVE  j - 1 \in 1..Len(t) /\ j - 1 > 0 /\ t[j - 1] = s[j]
    <2>1. j > 0 + 1
      BY <1>2
    <2> QED
      BY <1>1, <2>1
  <1>3. ASSUME NEW i \in Nat, NEW g, Later(s, i + 1, g)
        PROVE  Later(t, i, g)
    <2>1. PICK j \in 1..n : j > i + 1 /\ Ends(s[j], g)
      BY <1>3 DEF Later
    <2> QED
      BY <1>1, <2>1 DEF Later
  <1>4. ASSUME NEW i \in Nat, NEW g, NEW upto, LaterUpTo(s, i + 1, g, upto)
        PROVE  LaterUpTo(t, i, g, upto)
    <2>1. PICK j \in 1..n : j > i + 1 /\ s[j].cursor <= upto /\ Ends(s[j], g)
      BY <1>4 DEF LaterUpTo
    <2>2. j - 1 \in 1..Len(t) /\ j - 1 > i /\ t[j - 1].cursor <= upto /\ Ends(t[j - 1], g)
      BY <1>1, <2>1
    <2> QED
      BY <2>2 DEF LaterUpTo
  <1>5. ASSUME NEW g, Later(s, 0, g)
        PROVE  Ends(s[1], g) \/ Later(t, 0, g)
    <2>1. PICK j \in 1..n : Ends(s[j], g)
      BY <1>5 DEF Later
    <2> QED
      BY <1>2, <2>1 DEF Later
  <1>6. ASSUME NEW g, NEW upto, LaterUpTo(s, 0, g, upto)
        PROVE  (Ends(s[1], g) /\ s[1].cursor <= upto) \/ LaterUpTo(t, 0, g, upto)
    <2>1. PICK j \in 1..n : s[j].cursor <= upto /\ Ends(s[j], g)
      BY <1>6 DEF LaterUpTo
    <2>2. j # 1 => j - 1 \in 1..Len(t) /\ j - 1 > 0 /\ t[j - 1].cursor <= upto /\ Ends(t[j - 1], g)
      BY <1>2, <2>1
    <2> QED
      BY <2>1, <2>2 DEF LaterUpTo
  <1> QED
    BY <1>3, <1>4, <1>5, <1>6

(* What one more event makes of the marks a receiver holds.                *)
LEMMA MarkedSent ==
    ASSUME NEW ex, NEW more, NEW event \in Event, NEW rx \in Receivers,
           \A g \in Nat : g <= event.generation /\ g \in ex => g \in more \/ Ends(event, g),
           event.kind = "quiet" => event.generation \in more,
           Young(rx.events, event.generation), Marked(ex, rx.events)
    PROVE  LET r == Received(rx, event)
           IN  /\ Young(r.events, event.generation) /\ Marked(more, r.events)
               /\ \A g \in Nat : g <= event.generation /\ Settled(ex, g, 0, rx.events)
                                   => r.lagged \/ Settled(more, g, 0, r.events)
  <1> DEFINE r == Received(rx, event)
             s == rx.events
             t == r.events
             n == Len(s)
             gen == event.generation
  <1>1. /\ n \in Nat /\ gen \in Nat
        /\ \/ /\ Len(t) = n + 1 /\ t[n + 1] = event /\ \A i \in 1..n : t[i] = s[i]
           \/ /\ r.lagged /\ n >= 1 /\ Len(t) = n /\ t[n] = event
              /\ \A i \in 1..(n - 1) : t[i] = s[i + 1]
    <2>1. event.cursor \in Nat /\ event.generation \in Nat
      BY DEF Event
    <2>2. /\ r \in Receivers /\ n \in Nat /\ r.events # <<>> /\ (rx.lagged => r.lagged)
          /\ \/ /\ r.lagged = rx.lagged /\ r.events = Append(rx.events, event)
                /\ Len(r.events) = n + 1 /\ r.events[n + 1] = event
                /\ \A i \in 1..n : r.events[i] = rx.events[i]
             \/ /\ r.lagged /\ n >= 1
                /\ Len(r.events) = n /\ r.events[n] = event
                /\ \A i \in 1..(n - 1) : r.events[i] = rx.events[i + 1]
      BY WhatIsReceived
    <2> HIDE DEF n, r
    <2> QED
      BY <2>1, <2>2
  <1>2. \A i \in 1..n : s[i].generation \in Nat /\ s[i].generation <= gen
    BY RxNumbers DEF Young
  <1>3. \A i \in 1..n : s[i].kind = "quiet" => Settled(ex, s[i].generation, i, s)
    BY DEF Marked
  <1>4. ASSUME NEW i \in Nat, NEW j \in Nat, NEW g \in Nat, g <= gen, Settled(ex, g, i, s),
               Later(s, i, g) => Later(t, j, g),
               Ends(event, g) => Later(t, j, g)
        PROVE  Settled(more, g, j, t)
    BY <1>4 DEF Settled
  <1> HIDE DEF r, s, t, n, gen
  <1>5. CASE Len(t) = n + 1 /\ t[n + 1] = event /\ \A i \in 1..n : t[i] = s[i]
    <2>1. /\ \A i \in Nat : \A g : Later(s, i, g) => Later(t, i, g)
          /\ \A i \in 0..n : \A g : Ends(event, g) => Later(t, i, g)
      <3>1. Len(s) = n
        BY DEF n
      <3> QED
        BY <1>1, <1>5, <3>1, LaterKept
    <2>2. \A i \in 1..(n + 1) : i \in 1..n \/ i = n + 1
      BY <1>1
    <2>3. ASSUME NEW i \in 0..n, NEW g \in Nat, g <= gen, Settled(ex, g, i, s)
          PROVE  Settled(more, g, i, t)
      <3>1. i \in Nat
        BY <1>1
      <3> QED
        BY <1>4, <2>1, <2>3, <3>1
    <2>4. Young(t, gen)
      <3>1. gen <= gen
        BY <1>1
      <3> QED
        BY <1>2, <1>5, <2>2, <3>1 DEF Young, gen
    <2>5. Marked(more, t)
      <3> SUFFICES ASSUME NEW i \in 1..(n + 1), t[i].kind = "quiet"
                   PROVE  Settled(more, t[i].generation, i, t)
        BY <1>5 DEF Marked
      <3>1. CASE i \in 1..n
        <4>1. t[i] = s[i] /\ i \in 0..n
          BY <1>5, <3>1
        <4> QED
          BY <1>2, <1>3, <2>3, <3>1, <4>1
      <3>2. CASE i = n + 1
        BY <1>5, <3>2 DEF Settled, gen
      <3> QED
        BY <2>2, <3>1, <3>2
    <2>6. 0 \in 0..n
      BY <1>1
    <2> QED
      BY <2>3, <2>4, <2>5, <2>6 DEF r, s, t, gen
  <1>6. CASE /\ r.lagged /\ n >= 1 /\ Len(t) = n /\ t[n] = event
             /\ \A i \in 1..(n - 1) : t[i] = s[i + 1]
    <2>1. \A i \in Nat : \A g : Later(s, i + 1, g) => Later(t, i, g)
      <3>1. Len(s) = n /\ n \in Nat \ {0} /\ Len(t) \in {n - 1, n}
        BY <1>1, <1>6 DEF n
      <3> QED
        BY <1>6, <3>1, LaterShifted
    <2>2. \A i \in 1..n : (i \in 1..(n - 1) /\ i + 1 \in 1..n /\ i \in Nat) \/ i = n
      BY <1>1
    <2>3. \A i \in 1..(n - 1) : \A g : Ends(event, g) => Later(t, i, g)
      <3>1. \A i \in 1..(n - 1) : n \in 1..n /\ n > i
        BY <1>1
      <3> QED
        BY <1>6, <3>1 DEF Later
    <2>4. Young(t, gen)
      <3>1. gen <= gen
        BY <1>1
      <3> QED
        BY <1>2, <1>6, <2>2, <3>1 DEF Young, gen
    <2>5. Marked(more, t)
      <3> SUFFICES ASSUME NEW i \in 1..n, t[i].kind = "quiet"
                   PROVE  Settled(more, t[i].generation, i, t)
        BY <1>6 DEF Marked
      <3>1. CASE i \in 1..(n - 1) /\ i + 1 \in 1..n /\ i \in Nat
        <4>1. t[i] = s[i + 1] /\ i + 1 \in Nat
          BY <1>6, <3>1
        <4> QED
          BY <1>2, <1>3, <1>4, <2>1, <2>3, <3>1, <4>1
      <3>2. CASE i = n
        BY <1>6, <3>2 DEF Settled, gen
      <3> QED
        BY <2>2, <3>1, <3>2
    <2> QED
      BY <1>6, <2>4, <2>5 DEF r, t, gen
  <1> QED
    BY <1>1, <1>5, <1>6

(* The same, of the marks up to a snapshot: the event comes after it.       *)
LEMMA MarkedUpToSent ==
    ASSUME NEW event \in Event, NEW rx \in Receivers, NEW upto \in Nat,
           upto < event.cursor, MarkedUpTo(rx.events, upto)
    PROVE  LET r == Received(rx, event)
           IN  /\ MarkedUpTo(r.events, upto)
               /\ \A g : LaterUpTo(rx.events, 0, g, upto)
                    => \/ LaterUpTo(r.events, 0, g, upto)
                       \/ /\ r.lagged /\ Len(rx.events) >= 1
                          /\ rx.events[1].cursor <= upto
  <1> DEFINE r == Received(rx, event)
             s == rx.events
             t == r.events
             n == Len(s)
  <1>1. /\ n \in Nat /\ event.cursor \in Nat /\ ~(event.cursor <= upto)
        /\ \/ /\ Len(t) = n + 1 /\ t[n + 1] = event /\ \A i \in 1..n : t[i] = s[i]
           \/ /\ r.lagged /\ n >= 1 /\ Len(t) = n /\ t[n] = event
              /\ \A i \in 1..(n - 1) : t[i] = s[i + 1]
    <2>1. event.cursor \in Nat
      BY DEF Event
    <2>2. ~(event.cursor <= upto)
      BY <2>1
    <2>3. /\ r \in Receivers /\ n \in Nat /\ r.events # <<>> /\ (rx.lagged => r.lagged)
          /\ \/ /\ r.lagged = rx.lagged /\ r.events = Append(rx.events, event)
                /\ Len(r.events) = n + 1 /\ r.events[n + 1] = event
                /\ \A i \in 1..n : r.events[i] = rx.events[i]
             \/ /\ r.lagged /\ n >= 1
                /\ Len(r.events) = n /\ r.events[n] = event
                /\ \A i \in 1..(n - 1) : r.events[i] = rx.events[i + 1]
      BY WhatIsReceived
    <2> HIDE DEF r, n
    <2> QED
      BY <2>1, <2>2, <2>3
  <1>2. \A i \in 1..n : s[i].kind = "quiet" /\ s[i].cursor <= upto
                          => LaterUpTo(s, i, s[i].generation, upto)
    BY DEF MarkedUpTo
  <1> HIDE DEF r, s, t, n
  <1>3. CASE Len(t) = n + 1 /\ t[n + 1] = event /\ \A i \in 1..n : t[i] = s[i]
    <2>1. \A i \in Nat : \A g : LaterUpTo(s, i, g, upto) => LaterUpTo(t, i, g, upto)
      <3>1. Len(s) = n
        BY DEF n
      <3> QED
        BY <1>1, <1>3, <3>1, LaterKept
    <2>2. \A i \in 1..(n + 1) : (i \in 1..n /\ i \in Nat) \/ i = n + 1
      BY <1>1
    <2>3. MarkedUpTo(t, upto)
      <3> SUFFICES ASSUME NEW i \in 1..(n + 1), t[i].kind = "quiet", t[i].cursor <= upto
                   PROVE  LaterUpTo(t, i, t[i].generation, upto)
        BY <1>3 DEF MarkedUpTo
      <3>1. i # n + 1
        BY <1>1, <1>3
      <3>2. i \in 1..n /\ i \in Nat /\ t[i] = s[i]
        BY <1>3, <2>2, <3>1
      <3> QED
        BY <1>2, <2>1, <3>2
    <2> QED
      BY <2>1, <2>3 DEF r, s, t
  <1>4. CASE /\ r.lagged /\ n >= 1 /\ Len(t) = n /\ t[n] = event
             /\ \A i \in 1..(n - 1) : t[i] = s[i + 1]
    <2>1. /\ \A i \in Nat : \A g : LaterUpTo(s, i + 1, g, upto) => LaterUpTo(t, i, g, upto)
          /\ \A g : LaterUpTo(s, 0, g, upto) => s[1].cursor <= upto \/ LaterUpTo(t, 0, g, upto)
      <3>1. Len(s) = n /\ n \in Nat \ {0} /\ Len(t) \in {n - 1, n}
        BY <1>1, <1>4 DEF n
      <3>2. /\ \A i \in Nat : \A g, w : LaterUpTo(s, i + 1, g, w) => LaterUpTo(t, i, g, w)
            /\ \A g, w : LaterUpTo(s, 0, g, w)
                => (Ends(s[1], g) /\ s[1].cursor <= w) \/ LaterUpTo(t, 0, g, w)
        BY <1>4, <3>1, LaterShifted
      <3> QED
        BY <3>2
    <2>2. \A i \in 1..n : (i \in 1..(n - 1) /\ i + 1 \in 1..n /\ i \in Nat) \/ i = n
      BY <1>1
    <2>3. MarkedUpTo(t, upto)
      <3> SUFFICES ASSUME NEW i \in 1..n, t[i].kind = "quiet", t[i].cursor <= upto
                   PROVE  LaterUpTo(t, i, t[i].generation, upto)
        BY <1>4 DEF MarkedUpTo
      <3>1. i # n
        BY <1>1, <1>4
      <3>2. i \in 1..(n - 1) /\ i + 1 \in 1..n /\ i \in Nat /\ t[i] = s[i + 1]
        BY <1>4, <2>2, <3>1
      <3> QED
        BY <1>2, <2>1, <3>2
    <2> QED
      BY <1>4, <2>1, <2>3 DEF r, s, t, n
  <1> QED
    BY <1>1, <1>3, <1>4

LEMMA SilenceSent ==
    ASSUME NEW ex, NEW more, NEW event \in Event,
           \A g \in Nat : g <= event.generation /\ g \in ex => g \in more \/ Ends(event, g),
           event.kind = "quiet" => event.generation \in more,
           NEW seeing \in Views, NEW rx \in Receivers \cup {Nothing},
           NEW offer \in Subscriptions \cup {Nothing},
           Ages(event.generation, seeing, rx, offer), Silence(ex, seeing, rx, offer),
           NEW offer2 \in Subscriptions \cup {Nothing},
           offer2 # Nothing <=> offer # Nothing,
           offer # Nothing => /\ offer2.snapshot = offer.snapshot
                              /\ offer2.rx = Received(offer.rx, event)
                              /\ \/ offer.snapshot.cursor < event.cursor
                                 \/ offer.snapshot.generation \in more,
           offer # Nothing /\ rx # Nothing /\ Len(rx.events) >= 1
                => seeing.seen < rx.events[1].cursor
    PROVE  /\ Ages(event.generation, seeing, Received(rx, event), offer2)
           /\ Silence(more, seeing, Received(rx, event), offer2)
  <1> DEFINE r == Received(rx, event)
             gen == event.generation
  <1>1. seeing.generation \in Nat /\ seeing.generation <= gen
    BY DEF Views, Ages
  <1>2. offer # Nothing => /\ offer.snapshot.generation \in Nat /\ offer.snapshot.cursor \in Nat
                           /\ offer.rx \in Receivers
                           /\ offer.snapshot.generation <= gen
    BY DEF Subscriptions, Snapshots, Ages
  <1>3. r # Nothing <=> rx # Nothing
    BY NoReceiver, WhatIsReceived, ViewingConstantsAssumption
  <1>4. rx # Nothing => /\ rx \in Receivers /\ Young(rx.events, gen) /\ Marked(ex, rx.events)
                        /\ (seeing.quiet /\ ~rx.lagged => Settled(ex, seeing.generation, 0, rx.events))
    BY DEF Ages, Silence
  <1>5. rx # Nothing => /\ Young(r.events, gen) /\ Marked(more, r.events)
                        /\ \A g \in Nat : g <= gen /\ Settled(ex, g, 0, rx.events)
                                           => r.lagged \/ Settled(more, g, 0, r.events)
    BY <1>4, MarkedSent
  <1>6. rx # Nothing => (rx.lagged => r.lagged)
    BY <1>4, WhatIsReceived
  <1> DEFINE o == offer2.rx
  <1>7. offer # Nothing => Young(offer.rx.events, gen) /\ Marked(ex, offer.rx.events)
    BY DEF Ages, Silence
  <1>8. offer # Nothing => /\ Young(o.events, gen) /\ Marked(more, o.events)
                           /\ \A g \in Nat : g <= gen /\ Settled(ex, g, 0, offer.rx.events)
                                              => o.lagged \/ Settled(more, g, 0, o.events)
    BY <1>2, <1>7, MarkedSent
  <1>9. offer # Nothing => (offer.rx.lagged => o.lagged)
    BY <1>2, WhatIsReceived
  <1> HIDE DEF o, gen
  <1>10. Ages(gen, seeing, r, offer2)
    <2> HIDE DEF r
    <2> QED
      BY <1>1, <1>2, <1>3, <1>5, <1>8 DEF Ages, o
  <1>11. ASSUME offer # Nothing, rx # Nothing
         PROVE  Fenced(more, seeing, r, offer2)
    <2> DEFINE upto == offer.snapshot.cursor
    <2>1. Fenced(ex, seeing, rx, offer)
      BY <1>11 DEF Silence
    <2>2. CASE offer.rx.lagged \/ Settled(ex, offer.snapshot.generation, 0, offer.rx.events)
      <3>1. o.lagged \/ Settled(more, offer.snapshot.generation, 0, o.events)
        BY <1>2, <1>8, <1>9, <1>11, <2>2
      <3> QED
        BY <1>11, <3>1 DEF Fenced, o
    <2>3. CASE offer.snapshot.generation \in more
      BY <1>11, <2>3 DEF Fenced, Settled
    <2>4. CASE /\ MarkedUpTo(rx.events, upto) /\ upto < event.cursor
               /\ seeing.quiet => \/ rx.lagged /\ seeing.seen < upto
                                  \/ LaterUpTo(rx.events, 0, seeing.generation, upto)
      <3>1. upto \in Nat /\ rx \in Receivers /\ offer2.snapshot.cursor = upto
            /\ seeing.seen \in Nat
        BY <1>2, <1>4, <1>11 DEF Views
      <3> HIDE DEF upto
      <3>2. /\ MarkedUpTo(r.events, upto)
            /\ \A g : LaterUpTo(rx.events, 0, g, upto)
                    => \/ LaterUpTo(r.events, 0, g, upto)
                       \/ /\ r.lagged /\ Len(rx.events) >= 1
                          /\ rx.events[1].cursor <= upto
        BY <2>4, <3>1, MarkedUpToSent
      <3>3. Len(rx.events) >= 1 /\ rx.events[1].cursor <= upto => seeing.seen < upto
        <4>1. Len(rx.events) \in Nat /\ (Len(rx.events) >= 1 => rx.events[1].cursor \in Nat)
          BY <3>1, RxNumbers
        <4> QED
          BY <1>11, <3>1, <4>1
      <3>4. seeing.quiet => \/ r.lagged /\ seeing.seen < upto
                            \/ LaterUpTo(r.events, 0, seeing.generation, upto)
        BY <1>6, <1>11, <2>4, <3>2, <3>3
      <3> HIDE DEF r
      <3> QED
        BY <3>1, <3>2, <3>4 DEF Fenced
    <2> QED
      BY <1>11, <2>1, <2>2, <2>3, <2>4 DEF Fenced
  <1>12. Silence(more, seeing, r, offer2)
    <2> HIDE DEF r
    <2>1. rx # Nothing /\ seeing.quiet /\ ~r.lagged => Settled(more, seeing.generation, 0, r.events)
      BY <1>1, <1>4, <1>5, <1>6
    <2> QED
      BY <1>3, <1>5, <1>8, <1>11, <2>1 DEF Silence, o
  <1> QED
    BY <1>10, <1>12 DEF gen

(* What reading the next event makes of a viewer's silence.                *)
LEMMA SilenceRead ==
    ASSUME NEW ex, NEW gen \in Nat,
           NEW rx \in Receivers, ~rx.lagged, NEW n \in Nat \ {0}, Len(rx.events) = n,
           NEW r \in Receivers, ~r.lagged, Len(r.events) = n - 1,
           \A i \in 1..(n - 1) : r.events[i] = rx.events[i + 1],
           NEW seeing, NEW w,
           w.generation = rx.events[1].generation,
           w.quiet => IF rx.events[1].kind = "quiet" THEN TRUE
                      ELSE /\ rx.events[1].kind # "loud"
                           /\ seeing.quiet /\ rx.events[1].generation = seeing.generation,
           NEW offer,
           offer # Nothing => rx.events[1].cursor <= offer.snapshot.cursor,
           Ages(gen, seeing, rx, offer), Silence(ex, seeing, rx, offer)
    PROVE  Ages(gen, w, r, offer) /\ Silence(ex, w, r, offer)
  <1> DEFINE s == rx.events
             t == r.events
             e == s[1]
  <1>1. rx # Nothing /\ r # Nothing
    BY ViewingConstantsAssumption
  <1>2. /\ \A i \in Nat : \A g : Later(s, i + 1, g) => Later(t, i, g)
        /\ \A i \in Nat : \A g, upto : LaterUpTo(s, i + 1, g, upto) => LaterUpTo(t, i, g, upto)
        /\ \A g : Later(s, 0, g) => Ends(e, g) \/ Later(t, 0, g)
        /\ \A g, upto : LaterUpTo(s, 0, g, upto)
                => (Ends(e, g) /\ e.cursor <= upto) \/ LaterUpTo(t, 0, g, upto)
    BY LaterShifted
  <1>3. /\ 1 \in 1..n /\ 1 = 0 + 1 /\ 0 \in Nat
        /\ \A i \in 1..(n - 1) : i \in Nat /\ i + 1 \in 1..n
    OBVIOUS
  <1>4. Later(s, 1, e.generation) => Later(t, 0, e.generation)
    BY <1>2, <1>3
  <1>5. \A upto : LaterUpTo(s, 1, e.generation, upto) => LaterUpTo(t, 0, e.generation, upto)
    BY <1>2, <1>3
  <1>6. Young(s, gen) /\ Marked(ex, s)
    BY <1>1 DEF Ages, Silence
  <1>7. Young(t, gen) /\ e.generation <= gen
    BY <1>3, <1>6 DEF Young
  <1>8. Marked(ex, t)
    <2> SUFFICES ASSUME NEW i \in 1..(n - 1), t[i].kind = "quiet"
                 PROVE  Settled(ex, t[i].generation, i, t)
      BY DEF Marked
    <2>1. t[i] = s[i + 1] /\ i + 1 \in 1..n /\ i \in Nat
      BY <1>3
    <2>2. Settled(ex, s[i + 1].generation, i + 1, s)
      BY <1>6, <2>1 DEF Marked
    <2> QED
      BY <1>2, <2>1, <2>2 DEF Settled
  <1>9. ASSUME w.quiet
        PROVE  Settled(ex, w.generation, 0, t)
    <2>1. CASE e.kind = "quiet"
      <3>1. Settled(ex, e.generation, 1, s)
        BY <1>3, <1>6, <2>1 DEF Marked
      <3> QED
        BY <1>4, <3>1 DEF Settled
    <2>2. CASE e.kind # "quiet"
      <3>1. e.kind # "loud" /\ seeing.quiet /\ e.generation = seeing.generation
        BY <1>9, <2>2
      <3>2. Settled(ex, seeing.generation, 0, s)
        BY <1>1, <3>1 DEF Silence
      <3>3. ~Ends(e, seeing.generation)
        BY <3>1 DEF Ends
      <3> QED
        BY <1>2, <3>1, <3>2, <3>3 DEF Settled
    <2> QED
      BY <2>1, <2>2
  <1>10. ASSUME offer # Nothing
         PROVE  Fenced(ex, w, r, offer)
    <2> DEFINE upto == offer.snapshot.cursor
    <2>1. Fenced(ex, seeing, rx, offer)
      BY <1>1, <1>10 DEF Silence
    <2>2. CASE offer.rx.lagged \/ Settled(ex, offer.snapshot.generation, 0, offer.rx.events)
      BY <2>2 DEF Fenced
    <2>3. CASE /\ MarkedUpTo(s, upto)
               /\ seeing.quiet => \/ rx.lagged /\ seeing.seen < upto
                                  \/ LaterUpTo(s, 0, seeing.generation, upto)
      <3>1. MarkedUpTo(t, upto)
        <4> SUFFICES ASSUME NEW i \in 1..(n - 1), t[i].kind = "quiet", t[i].cursor <= upto
                     PROVE  LaterUpTo(t, i, t[i].generation, upto)
          BY DEF MarkedUpTo
        <4>1. t[i] = s[i + 1] /\ i + 1 \in 1..n /\ i \in Nat
          BY <1>3
        <4>2. LaterUpTo(s, i + 1, s[i + 1].generation, upto)
          BY <2>3, <4>1 DEF MarkedUpTo
        <4> QED
          BY <1>2, <4>1, <4>2
      <3>2. ASSUME w.quiet
            PROVE  LaterUpTo(t, 0, w.generation, upto)
        <4>1. CASE e.kind = "quiet"
          <5>1. LaterUpTo(s, 1, e.generation, upto)
            BY <1>3, <1>10, <2>3, <4>1 DEF MarkedUpTo
          <5> QED
            BY <1>5, <5>1
        <4>2. CASE e.kind # "quiet"
          <5>1. e.kind # "loud" /\ seeing.quiet /\ e.generation = seeing.generation
            BY <3>2, <4>2
          <5>2. LaterUpTo(s, 0, seeing.generation, upto)
            BY <2>3, <5>1
          <5>3. ~Ends(e, seeing.generation)
            BY <5>1 DEF Ends
          <5> QED
            BY <1>2, <5>1, <5>2, <5>3
        <4> QED
          BY <4>1, <4>2
      <3> QED
        BY <3>1, <3>2 DEF Fenced
    <2> QED
      BY <2>1, <2>2, <2>3 DEF Fenced
  <1>11. Ages(gen, w, r, offer)
    BY <1>7 DEF Ages
  <1>12. Silence(ex, w, r, offer)
    BY <1>8, <1>9, <1>10 DEF Silence
  <1> QED
    BY <1>11, <1>12

(* A turn marks a quiet command only with its window open.                 *)
Unmarked == {t \in Turned : t.kind # "quiet"}

LEMMA ShowsNoMark ==
    ASSUME HeldTypeOK, NEW all \in BOOLEAN,
           NEW first \in Seq(Unmarked), NEW then \in Seq(Unmarked),
           ShowHeld(all, first, then)
    PROVE  out' \in Seq(Unmarked)
  <1> DEFINE a == all \/ ~display
             r == Released(a)
  <1>1. a \in BOOLEAN
    BY DEF HeldTypeOK
  <1>2. out' = first \o r \o then
    BY DEF ShowHeld
  <1> HIDE DEF a
  <1>3. /\ r \in Seq(Turned) /\ \A k \in 1..Len(r) : \E i \in Shown(a) : r[k] = Line(held[i].line)
    BY <1>1, WhatShows
  <1> HIDE DEF r
  <1>4. \A k \in 1..Len(r) : r[k] \in Unmarked
    <2> TAKE k \in 1..Len(r)
    <2>1. r[k] \in Turned
      BY <1>3, ElementOfSeq
    <2>2. PICK i \in Shown(a) : r[k] = Line(held[i].line)
      BY <1>3
    <2>3. r[k].kind = "line"
      BY <2>2 DEF Line
    <2> QED
      BY <2>1, <2>3 DEF Unmarked
  <1>5. Len(r) \in Nat /\ r \in [1..Len(r) -> Turned]
    BY <1>3, LenProperties
  <1>6. r \in [1..Len(r) -> Unmarked]
    BY <1>4, <1>5
  <1>7. r \in Seq(Unmarked)
    BY <1>5, <1>6, SeqDef
  <1> QED
    BY <1>2, <1>7, Merged

LEMMA TurnsMark ==
    ASSUME HeldTypeOK, OwnerTurns
    PROVE  MarkIsInside'
  <1>1. ASSUME NEW s \in Seq(Unmarked), out' = s
        PROVE  MarkIsInside'
    <2>1. \A j \in 1..Len(s) : s[j].kind # "quiet"
      BY ElementOfSeq DEF Unmarked
    <2> QED
      BY <1>1, <2>1 DEF MarkIsInside
  <1>2. /\ \A n \in Nat : Heard(n) \in Unmarked /\ Line(n) \in Unmarked
        /\ Quiet(FALSE) \in Unmarked
        /\ \A state \in {"reconnecting", "authenticating", "closed"} : StateChanged(state) \in Unmarked
    BY TurnedItems DEF Unmarked, Heard, Line, Quiet, StateChanged
  <1>3. <<>> \in Seq(Unmarked) /\ arrived + 1 \in Nat
    BY EmptySeq DEF HeldTypeOK
  <1>4. \A e \in Unmarked : <<e>> \in Seq(Unmarked)
    BY AListOf1
  <1>5. CASE Arrive
    <2> DEFINE first == IF Hearing THEN <<Heard(arrived + 1)>> ELSE <<>>
               last == <<Line(arrived + 1)>>
    <2>1. first \in Seq(Unmarked) /\ last \in Seq(Unmarked) /\ Line(arrived + 1) \in Unmarked
      BY <1>2, <1>3, <1>4
    <2>2. \/ out' = first
          \/ ShowHeld(TRUE, first, last)
          \/ out' = Append(first, Line(arrived + 1))
      BY <1>5 DEF Arrive
    <2> HIDE DEF first, last
    <2>3. Append(first, Line(arrived + 1)) \in Seq(Unmarked)
      BY <2>1, AppendProperties
    <2>4. ShowHeld(TRUE, first, last) => out' \in Seq(Unmarked)
      BY <2>1, ShowsNoMark
    <2> QED
      BY <1>1, <2>1, <2>2, <2>3, <2>4
  <1>6. CASE Wake
    <2>1. ShowHeld(FALSE, <<>>, <<>>)
      BY <1>6 DEF Wake
    <2> QED
      BY <1>1, <1>3, <2>1, ShowsNoMark
  <1>7. CASE OpenQuietWindow
    BY <1>7 DEF OpenQuietWindow, MarkIsInside
  <1>8. CASE EndQuietWindow
    BY <1>1, <1>2, <1>4, <1>8 DEF EndQuietWindow
  <1>9. CASE Lose
    <2>1. ShowHeld(TRUE, <<>>, <<>>)
      BY <1>9 DEF Lose, Shutdown
    <2> QED
      BY <1>1, <1>3, <2>1, ShowsNoMark
  <1>10. CASE Cancel
    <2> DEFINE then == <<StateChanged("closed")>>
    <2>1. ShowHeld(TRUE, <<>>, then) /\ then \in Seq(Unmarked)
      BY <1>2, <1>4, <1>10 DEF Cancel, Shutdown
    <2> HIDE DEF then
    <2> QED
      BY <1>1, <1>3, <2>1, ShowsNoMark
  <1>11. CASE Reconnect \/ Connect \/ Stop
    BY <1>1, <1>2, <1>4, <1>11 DEF Reconnect, Connect, Stop
  <1> QED
    BY <1>5, <1>6, <1>7, <1>8, <1>9, <1>10, <1>11 DEF OwnerTurns

(* A turn ends a window only as it says so, or as the connection goes.     *)
LEMMA TurnsExcuse ==
    ASSUME HeldTypeOK, OwnerTurns
    PROVE  /\ generation \in Nat /\ generation' \in Nat /\ generation <= generation'
           /\ \A g \in Nat : g <= generation /\ g \in Excused => g \in Excused'
  <1>1. generation \in Nat /\ HeldTypeOK'
    BY TurnsTyped DEF HeldTypeOK
  <1>2. out = <<>>
    BY TurnsEnd
  <1>3. \A g \in Nat : g \in Excused <=> window \/ life \in {"lost", "closing", "over"}
    <2>1. Len(out) = 0
      BY <1>2, EmptySeq
    <2>2. 1..Len(out) = {}
      BY <2>1
    <2> QED
      BY <1>2, <2>2 DEF Excused
  <1>4. \A g \in Nat : window' \/ life' \in {"lost", "closing", "over"} => g \in Excused'
    BY DEF Excused
  <1>5. CASE Arrive \/ Wake
    <2>1. UNCHANGED <<life, generation, window>>
      BY <1>5 DEF Arrive, Wake, connection, quiet
    <2> QED
      BY <1>1, <1>3, <1>4, <2>1
  <1>6. CASE OpenQuietWindow
    <2>1. UNCHANGED generation /\ window'
      BY <1>6 DEF OpenQuietWindow, connection
    <2> QED
      BY <1>1, <1>4, <2>1
  <1>7. CASE EndQuietWindow
    <2>1. UNCHANGED generation /\ out' = <<Quiet(FALSE)>>
      BY <1>7 DEF EndQuietWindow, connection
    <2>2. Len(out') = 1 /\ out'[1].kind = "loud"
      BY <2>1 DEF Quiet
    <2>3. 1 \in 1..Len(out')
      BY <2>2
    <2>4. \E j \in 1..Len(out') : out'[j].kind = "loud"
      BY <2>2, <2>3
    <2>5. \A g \in Nat : g \in Excused'
      BY <2>4 DEF Excused
    <2> QED
      BY <1>1, <2>1, <2>5
  <1>8. CASE Lose \/ Cancel
    <2>1. UNCHANGED generation /\ life' \in {"lost", "closing"}
      BY <1>8 DEF Lose, Cancel, Shutdown
    <2> QED
      BY <1>1, <1>4, <2>1
  <1>9. CASE Reconnect
    <2>1. generation' = generation + 1 /\ out' = <<StateChanged("reconnecting")>>
      BY <1>9 DEF Reconnect
    <2>2. out' # <<>>
      BY <2>1
    <2>3. \A g \in Nat : g <= generation => generation' # g
      BY <1>1, <2>1
    <2> QED
      BY <1>1, <2>1, <2>2, <2>3 DEF Excused
  <1>10. CASE Connect
    <2>1. UNCHANGED <<generation, window>> /\ life = "down"
      BY <1>10 DEF Connect, Turn, quiet
    <2> QED
      BY <1>1, <1>3, <1>4, <2>1
  <1>11. CASE Stop
    <2>1. UNCHANGED generation /\ life' = "closing"
      BY <1>11 DEF Stop
    <2> QED
      BY <1>1, <1>4, <2>1
  <1> QED
    BY <1>5, <1>6, <1>7, <1>8, <1>9, <1>10, <1>11 DEF OwnerTurns

(* A step that leaves receivers, offers and views alone.                   *)
LEMMA SilencesStand ==
    ASSUME TypeOK, Silences, UNCHANGED <<receiver, offered, view>>,
           generation' \in Nat, generation <= generation', MarkIsInside',
           final' # Nothing => final'.generation <= generation',
           \A g \in Nat : g <= generation /\ g \in Excused => g \in Excused'
    PROVE  Silences'
  <1> SUFFICES ASSUME NEW v \in Viewers
               PROVE  SilenceOf(v)'
    BY DEF Silences
  <1> DEFINE seeing == view[v]
             rx == receiver[v]
             offer == offered[v]
             gen == generation
             newer == generation'
             ex == Excused
             more == Excused'
  <1>1. /\ seeing \in Views /\ rx \in Receivers \cup {Nothing}
        /\ offer \in Subscriptions \cup {Nothing} /\ gen \in Nat
    BY TypesUnfolded DEF TypeOK, HeldTypeOK
  <1>2. Ages(gen, seeing, rx, offer) /\ Silence(ex, seeing, rx, offer)
    BY DEF Silences, SilenceOf
  <1>3. newer \in Nat /\ gen <= newer /\ \A g \in Nat : g <= gen /\ g \in ex => g \in more
    OBVIOUS
  <1>4. view'[v] = seeing /\ receiver'[v] = rx /\ offered'[v] = offer
    OBVIOUS
  <1> HIDE DEF seeing, rx, offer, gen, newer, ex, more
  <1>5. Ages(newer, seeing, rx, offer) /\ Silence(more, seeing, rx, offer)
    BY <1>1, <1>2, <1>3, MoreExcuses
  <1>6. Ages(newer, view'[v], receiver'[v], offered'[v]) /\ Silence(more, view'[v], receiver'[v], offered'[v])
    BY <1>4, <1>5
  <1> QED
    BY <1>6 DEF SilenceOf, newer, more

(* A step of one viewer.                                                   *)
LEMMA OneSilence ==
    ASSUME Silences, NEW v \in Viewers, UNCHANGED <<heldVars, final>>,
           \A u \in Viewers \ {v} : /\ receiver'[u] = receiver[u]
                                    /\ offered'[u] = offered[u] /\ view'[u] = view[u],
           Ages(generation, view'[v], receiver'[v], offered'[v]),
           Silence(Excused, view'[v], receiver'[v], offered'[v])
    PROVE  Silences'
  <1>1. UNCHANGED <<life, generation, window, out>>
    BY DEF heldVars, connection, quiet
  <1>2. Excused' = Excused /\ (MarkIsInside' <=> MarkIsInside)
    BY <1>1 DEF Excused, MarkIsInside
  <1>3. SilenceOf(v)'
    BY <1>1, <1>2 DEF SilenceOf
  <1>4. ASSUME NEW u \in Viewers \ {v}
        PROVE  SilenceOf(u)'
    <2>1. SilenceOf(u)
      BY DEF Silences
    <2>2. receiver'[u] = receiver[u] /\ offered'[u] = offered[u] /\ view'[u] = view[u]
      OBVIOUS
    <2> QED
      BY <1>1, <1>2, <2>1, <2>2 DEF SilenceOf
  <1> QED
    BY <1>1, <1>2, <1>3, <1>4 DEF Silences

LEMMA SendingKeepsSilence ==
    ASSUME Frame, Story, Silences, NEW number \in Nat,
           NEW kind \in {"heard", "line", "quiet", "loud", "notice",
                         "reconnecting", "authenticating", "closed"},
           SentToAll(number, kind), number = Sent + 1,
           UNCHANGED <<life, generation, window, view, final>>,
           MarkIsInside', kind = "quiet" => window,
           \A g \in Nat : g \in Excused => g \in Excused' \/ kind = "loud" \/ generation # g
    PROVE  Silences'
  <1> DEFINE event == [cursor |-> number, generation |-> generation, kind |-> kind]
  <1>1. TypeOK /\ Asked /\ Ending /\ Sent \in Nat /\ generation \in Nat
    BY SentIsNumber DEF Frame, TypeOK, HeldTypeOK
  <1>2. /\ event.cursor = Sent + 1 /\ event.generation = generation /\ event.kind = kind
    OBVIOUS
  <1>3. /\ event \in Event
        /\ \A v \in Viewers :
             /\ receiver[v] = Nothing <=> receiver'[v] = Nothing
             /\ receiver[v] # Nothing =>
                  /\ receiver[v] \in Receivers
                  /\ receiver'[v] = Received(receiver[v], event)
             /\ offered[v] = Nothing <=> offered'[v] = Nothing
             /\ offered[v] # Nothing =>
                  /\ offered[v] \in Subscriptions /\ offered[v].rx \in Receivers
                  /\ offered'[v].snapshot = offered[v].snapshot
                  /\ offered'[v].rx = Received(offered[v].rx, event)
        /\ offered' \in [Viewers -> Subscriptions \cup {Nothing}]
    BY <1>1, WhatIsSent, ZenonT(60)
  <1> HIDE DEF event
  <1> DEFINE more == Excused'
             ex == Excused
  <1>4. /\ \A g \in Nat : g <= event.generation /\ g \in ex => g \in more \/ Ends(event, g)
        /\ event.kind = "quiet" => event.generation \in more
        /\ life = "over" => \A g \in Nat : g \in more
    <2>1. window => generation \in Excused'
      BY <1>1 DEF Excused
    <2>2. life = "over" => \A g \in Nat : g \in Excused'
      BY DEF Excused
    <2> QED
      BY <1>2, <2>1, <2>2 DEF Ends
  <1> HIDE DEF more, ex
  <1> SUFFICES ASSUME NEW v \in Viewers
               PROVE  SilenceOf(v)'
    BY DEF Silences
  <1> DEFINE seeing == view[v]
             rx == receiver[v]
             offer == offered[v]
             offer2 == offered'[v]
  <1>5. /\ seeing \in Views /\ rx \in Receivers \cup {Nothing}
        /\ offer \in Subscriptions \cup {Nothing} /\ offer2 \in Subscriptions \cup {Nothing}
    BY <1>1, <1>3, TypesUnfolded DEF TypeOK
  <1>6. Ages(event.generation, seeing, rx, offer) /\ Silence(ex, seeing, rx, offer)
    BY <1>2 DEF Silences, SilenceOf, ex
  <1>7. StoryOf(v)
    BY DEF Story
  <1>8. offer # Nothing => offer.snapshot.cursor < event.cursor
                           \/ offer.snapshot.generation \in more
    <2> SUFFICES ASSUME offer # Nothing
                 PROVE  offer.snapshot.cursor < event.cursor \/ offer.snapshot.generation \in more
      OBVIOUS
    <2>1. /\ offer.snapshot.cursor \in Nat /\ offer.snapshot.generation \in Nat
          /\ Len(offer.rx.events) \in Nat
      BY <1>1, TypesUnfolded, ViewNumbers
    <2>2. CASE offer.snapshot.over
      <3>1. final # Nothing
        BY <1>7, <2>2 DEF StoryOf, Offer
      <3> QED
        BY <1>1, <1>4, <2>1, <3>1 DEF Ending
    <2>3. CASE ~offer.snapshot.over
      <3>1. offer.snapshot.cursor <= Sent - Len(offer.rx.events)
        BY <1>7, <2>3 DEF StoryOf, Offer, StartsAt
      <3> QED
        BY <1>1, <1>2, <2>1, <3>1
    <2> QED
      BY <2>2, <2>3
  <1>9. offer # Nothing /\ rx # Nothing /\ Len(rx.events) >= 1 => seeing.seen < rx.events[1].cursor
    <2> SUFFICES ASSUME offer # Nothing, rx # Nothing, Len(rx.events) >= 1
                 PROVE  seeing.seen < rx.events[1].cursor
      OBVIOUS
    <2>1. seeing.seen \in Nat /\ Len(rx.events) \in Nat
      BY <1>1, TypesUnfolded, ViewNumbers
    <2>2. Heeds(v)
      BY <1>1 DEF Asked, Heeds
    <2>3. seeing.seen <= Sent - Len(rx.events)
      BY <1>7, <2>2 DEF StoryOf, Place
    <2>4. 1 \in 1..Len(rx.events)
      BY <2>1
    <2>5. rx.events[1].cursor = Sent - Len(rx.events) + 1
      BY <1>7, <2>4 DEF StoryOf, Rows, InRow
    <2> QED
      BY <1>1, <2>1, <2>3, <2>5
  <1>10. receiver'[v] = Received(rx, event)
    BY <1>3, NoReceiver
  <1>11. /\ offer2 # Nothing <=> offer # Nothing
         /\ offer # Nothing => /\ offer2.snapshot = offer.snapshot
                               /\ offer2.rx = Received(offer.rx, event)
    BY <1>3
  <1> HIDE DEF seeing, rx, offer, offer2
  <1>12. /\ Ages(event.generation, seeing, Received(rx, event), offer2)
         /\ Silence(more, seeing, Received(rx, event), offer2)
    BY <1>3, <1>4, <1>5, <1>6, <1>8, <1>9, <1>11, SilenceSent
  <1>13. /\ Ages(event.generation, seeing, receiver'[v], offer2)
         /\ Silence(more, seeing, receiver'[v], offer2)
    BY <1>10, <1>12
  <1>14. view'[v] = seeing /\ generation' = event.generation
    BY <1>2 DEF seeing
  <1>15. /\ Ages(generation', view'[v], receiver'[v], offered'[v])
         /\ Silence(Excused', view'[v], receiver'[v], offered'[v])
    BY <1>13, <1>14 DEF offer2, more
  <1> QED
    BY <1>15 DEF SilenceOf

LEMMA PublishKeepsSilence ==
    ASSUME Frame, Story, Silences, Publish
    PROVE  Silences'
  <1>1. TypeOK
    BY DEF Frame
  <1> DEFINE kind == Head(out).kind
             t == Tail(out)
  <1>2. /\ saying = Nothing /\ cursor' = cursor + 1 /\ out' = t
        /\ UNCHANGED <<life, generation, window, view, final>>
    BY DEF Publish, FenceIsFree, connection, quiet, observing
  <1>3. /\ out # <<>> /\ Len(out) \in Nat \ {0} /\ Head(out) = out[1]
        /\ Len(t) = Len(out) - 1
        /\ \A i \in 1..(Len(out) - 1) : t[i] = out[i + 1]
        /\ kind \in {"heard", "line", "quiet", "loud", "notice",
                     "reconnecting", "authenticating", "closed"}
        /\ cursor' \in Nat /\ SentToAll(cursor', kind)
    BY <1>1, PublishedKind
  <1>4. cursor' = Sent + 1
    BY <1>2 DEF Sent
  <1>5. kind = out[1].kind /\ 1 \in 1..Len(out)
    BY <1>3
  <1> HIDE DEF kind, t
  <1>6. MarkIsInside /\ (kind = "quiet" => window)
    BY <1>5 DEF Silences, MarkIsInside
  <1>7. \A j \in 1..Len(t) : j + 1 \in 1..Len(out) /\ t[j] = out[j + 1]
    BY <1>3
  <1>8. MarkIsInside'
    BY <1>2, <1>6, <1>7 DEF MarkIsInside
  <1>9. \A j \in 1..Len(out) : j = 1 \/ (j - 1 \in 1..Len(t) /\ t[j - 1] = out[j])
    <2> TAKE j \in 1..Len(out)
    <2>1. j # 1 => j - 1 \in 1..(Len(out) - 1) /\ (j - 1) + 1 = j
      BY <1>3
    <2> QED
      BY <1>3, <2>1
  <1>10. ASSUME NEW g \in Nat, g \in Excused
         PROVE  g \in Excused' \/ kind = "loud" \/ generation # g
    <2>1. CASE window \/ life \in {"lost", "closing", "over"}
      BY <1>2, <2>1 DEF Excused
    <2>2. CASE \E j \in 1..Len(out) : out[j].kind = "loud"
      <3>1. PICK j \in 1..Len(out) : out[j].kind = "loud"
        BY <2>2
      <3>2. CASE j = 1
        BY <1>5, <3>1, <3>2
      <3>3. CASE j # 1
        <4>1. \E k \in 1..Len(t) : t[k].kind = "loud"
          BY <1>9, <3>1, <3>3
        <4> QED
          BY <1>2, <4>1 DEF Excused
      <3> QED
        BY <3>2, <3>3
    <2> QED
      BY <1>10, <2>1, <2>2 DEF Excused
  <1> QED
    BY <1>2, <1>3, <1>4, <1>6, <1>8, <1>10, SendingKeepsSilence

LEMMA SaidKeepsSilence ==
    ASSUME Frame, Story, Silences, Said
    PROVE  Silences'
  <1>1. /\ saying # Nothing /\ SentToAll(saying, "notice")
        /\ UNCHANGED <<life, generation, window, out, view, final>>
    BY DEF Said, heldVars, connection, quiet, observing
  <1>2. saying = Sent + 1 /\ saying \in Nat
    BY <1>1, SentIsNumber
  <1>3. Excused' = Excused /\ MarkIsInside'
    BY <1>1 DEF Excused, Silences, MarkIsInside
  <1> QED
    BY <1>1, <1>2, <1>3, SendingKeepsSilence

LEMMA ViewerKeepsSilence ==
    ASSUME Frame, Story, Silences, NEW v \in Viewers, Viewer(v)
    PROVE  Silences'
  <1>1. TypeOK /\ Follows /\ Asked /\ Ending /\ generation \in Nat
    BY DEF Frame, TypeOK, HeldTypeOK
  <1>2. /\ doing \in [Viewers -> {"asking", "waiting", "catching", "following", "done"}]
        /\ receiver \in [Viewers -> Receivers \cup {Nothing}]
        /\ offered \in [Viewers -> Subscriptions \cup {Nothing}]
        /\ view \in [Viewers -> Views] /\ view[v] \in Views
    BY <1>1, TypesUnfolded DEF TypeOK
  <1>3. /\ Ages(generation, view[v], receiver[v], offered[v])
        /\ Silence(Excused, view[v], receiver[v], offered[v])
    BY DEF Silences, SilenceOf
  <1>4. UNCHANGED <<heldVars, receiver, offered, view, final>> => Silences'
    <2> SUFFICES ASSUME UNCHANGED <<heldVars, receiver, offered, view, final>>
                 PROVE  Silences'
      OBVIOUS
    <2>1. UNCHANGED <<life, generation, window, out>>
      BY DEF heldVars, connection, quiet
    <2>2. Excused' = Excused /\ MarkIsInside'
      BY <2>1 DEF Excused, Silences, MarkIsInside
    <2> QED
      BY <1>1, <2>1, <2>2, SilencesStand DEF Silences
  (* It goes on from a snapshot: its old receiver and offer are forgotten. *)
  <1>5. ASSUME NEW s \in Snapshots, NEW rx \in Receivers, NEW w \in Views,
               Follow(v, s, rx), view' = [view EXCEPT ![v] = w], UNCHANGED <<heldVars, final>>,
               w.generation = s.generation, s.generation <= generation,
               Young(rx.events, generation), Marked(Excused, rx.events),
               w.quiet /\ ~rx.lagged => Settled(Excused, w.generation, 0, rx.events)
        PROVE  Silences'
    <2>1. /\ receiver'[v] = rx /\ offered'[v] = Nothing /\ view'[v] = w
          /\ \A u \in Viewers \ {v} : /\ receiver'[u] = receiver[u]
                                      /\ offered'[u] = offered[u] /\ view'[u] = view[u]
      BY <1>2, <1>5 DEF Follow
    <2>2. Ages(generation, w, rx, Nothing) /\ Silence(Excused, w, rx, Nothing)
      BY <1>5 DEF Ages, Silence
    <2>3. /\ Ages(generation, view'[v], receiver'[v], offered'[v])
          /\ Silence(Excused, view'[v], receiver'[v], offered'[v])
      BY <2>1, <2>2
    <2> QED
      BY <1>5, <2>1, <2>3, OneSilence
  <1>6. CASE Ask(v) \/ TimedOut(v) \/ Tick(v)
    BY <1>4, <1>6 DEF Ask, TimedOut, Tick, observing
  <1>7. CASE TakeAnswer(v)
    <2> DEFINE s == offered[v].snapshot
               rx == offered[v].rx
    <2>1. /\ offered[v] # Nothing /\ Take(v, s, rx) /\ UNCHANGED <<heldVars, final>>
      BY <1>7 DEF TakeAnswer, observing
    <2>2. s \in Snapshots /\ rx \in Receivers /\ offered[v] = [snapshot |-> s, rx |-> rx]
      BY <1>1, <2>1, TypesUnfolded
    <2>3. CASE receiver[v] = Nothing
      <3> DEFINE w == Fresh(s)
      <3>1. w \in Views /\ w.generation = s.generation /\ ~w.quiet
        BY <2>2, FreshTyped DEF Fresh
      <3>2. Follow(v, s, rx) /\ view' = [view EXCEPT ![v] = w]
        BY <2>1, <2>3 DEF Take
      <3>3. s.generation <= generation /\ Young(rx.events, generation) /\ Marked(Excused, rx.events)
        BY <1>3, <2>1 DEF Ages, Silence
      <3> HIDE DEF w, s, rx
      <3> QED
        BY <1>5, <2>1, <2>2, <3>1, <3>2, <3>3
    <2>4. CASE receiver[v] # Nothing
      <3>1. offered' = [offered EXCEPT ![v] = offered[v]] /\ UNCHANGED <<receiver, view>>
        BY <2>1, <2>2, <2>4 DEF Take
      <3>2. offered' = offered
        BY <1>2, <3>1
      <3> QED
        BY <1>4, <2>1, <3>1, <3>2
    <2> QED
      BY <2>3, <2>4
  <1>8. CASE TakeFinal(v)
    <2>1. /\ final # Nothing /\ Take(v, final, Empty) /\ UNCHANGED <<heldVars, final>>
      BY <1>8 DEF TakeFinal, observing
    <2>2. /\ final \in Snapshots /\ Empty \in Receivers /\ life = "over"
          /\ final.generation \in Nat /\ final.generation <= generation
      BY <1>1, <2>1, SnapshotTyped DEF TypeOK, Ending, Snapshots, Silences
    <2>3. Young(Empty.events, generation) /\ Marked(Excused, Empty.events)
      BY DEF Young, Marked, Empty
    <2>4. CASE receiver[v] = Nothing
      <3> DEFINE w == Fresh(final)
      <3>1. w \in Views /\ w.generation = final.generation /\ ~w.quiet
        BY <2>2, FreshTyped DEF Fresh
      <3>2. Follow(v, final, Empty) /\ view' = [view EXCEPT ![v] = w]
        BY <2>1, <2>4 DEF Take
      <3> HIDE DEF w
      <3> QED
        BY <1>5, <2>1, <2>2, <2>3, <3>1, <3>2
    <2>5. CASE receiver[v] # Nothing
      <3> DEFINE o == [snapshot |-> final, rx |-> Empty]
      <3>1. /\ offered' = [offered EXCEPT ![v] = o] /\ UNCHANGED <<receiver, view>>
        BY <2>1, <2>5 DEF Take
      <3>2. /\ offered'[v] = o /\ receiver'[v] = receiver[v] /\ view'[v] = view[v]
            /\ \A u \in Viewers \ {v} : /\ receiver'[u] = receiver[u]
                                        /\ offered'[u] = offered[u] /\ view'[u] = view[u]
        BY <1>2, <3>1
      <3>3. o.snapshot = final /\ o.rx = Empty
        OBVIOUS
      <3> HIDE DEF o
      <3>4. Ages(generation, view[v], receiver[v], o)
        BY <1>3, <2>2, <2>3, <3>3 DEF Ages
      <3>5. final.generation \in Excused
        BY <2>2 DEF Excused
      <3>6. Silence(Excused, view[v], receiver[v], o)
        BY <1>3, <2>3, <3>3, <3>5 DEF Silence, Fenced, Settled
      <3>7. /\ Ages(generation, view'[v], receiver'[v], offered'[v])
            /\ Silence(Excused, view'[v], receiver'[v], offered'[v])
        BY <3>2, <3>4, <3>6
      <3> QED
        BY <2>1, <3>2, <3>7, OneSilence
    <2> QED
      BY <2>4, <2>5
  <1>9. CASE CatchUp(v) \/ Recv(v)
    <2> DEFINE rx == receiver[v]
               r == receiver'[v]
               n == Len(rx.events)
               w == view'[v]
               seeing == view[v]
               offer == offered[v]
               e == rx.events[1]
    <2>1. rx # Nothing
      BY <1>1, <1>9 DEF Follows, CatchUp, Recv
    <2>2. /\ rx \in Receivers /\ ~rx.lagged /\ n \in Nat \ {0}
          /\ r \in Receivers /\ ~r.lagged /\ Len(r.events) = n - 1
          /\ \A i \in 1..(n - 1) : r.events[i] = rx.events[i + 1]
          /\ \A u \in Viewers \ {v} : receiver'[u] = receiver[u]
          /\ Head(rx.events) = e
      BY <1>1, <1>9, <2>1, WhatIsRead
    <2>3. /\ w.generation = e.generation
          /\ w.quiet = IF e.kind \in {"quiet", "loud"} THEN e.kind = "quiet"
                       ELSE seeing.quiet /\ e.generation = seeing.generation
          /\ \A u \in Viewers \ {v} : view'[u] = view[u]
      BY <1>9, ReadsNext
    <2>4. UNCHANGED <<heldVars, final, offered>>
      BY <1>9 DEF CatchUp, Recv, observing
    <2>5. offer # Nothing => e.cursor <= offer.snapshot.cursor
      BY <1>1, <1>9, <2>2 DEF CatchUp, HasMore, Recv, Asked
    <2>6. w.quiet => IF e.kind = "quiet" THEN TRUE
                     ELSE /\ e.kind # "loud"
                          /\ seeing.quiet /\ e.generation = seeing.generation
      BY <2>3
    <2>7. Ages(generation, seeing, rx, offer) /\ Silence(Excused, seeing, rx, offer)
      BY <1>3
    <2> HIDE DEF w, seeing, offer, r, rx, n
    <2>8. Len(rx.events) = n
      BY DEF n
    <2>9. Ages(generation, w, r, offer) /\ Silence(Excused, w, r, offer)
      BY <1>1, <2>2, <2>3, <2>5, <2>6, <2>7, <2>8, SilenceRead
    <2>10. /\ Ages(generation, view'[v], receiver'[v], offered'[v])
           /\ Silence(Excused, view'[v], receiver'[v], offered'[v])
      BY <2>4, <2>9 DEF w, r, offer
    <2> QED
      BY <2>2, <2>3, <2>4, <2>10, OneSilence
  <1>10. CASE Fence(v)
    <2> DEFINE s == offered[v].snapshot
               rx == offered[v].rx
               old == receiver[v]
               from == IF Behind(v) THEN Missing(view[v]) ELSE view[v]
               w == [from EXCEPT !.seen = s.cursor, !.generation = s.generation, !.dirty = FALSE]
    <2>1. /\ doing[v] = "catching" /\ offered[v] # Nothing /\ old # Nothing
          /\ Follow(v, s, rx) /\ UNCHANGED <<heldVars, final>>
      BY <1>1, <1>10 DEF Fence, observing, Follows
    <2>2. /\ s \in Snapshots /\ rx \in Receivers /\ old \in Receivers
          /\ view[v].seen \in Nat /\ s.cursor \in Nat /\ s.generation \in Nat
      BY <1>1, <2>1, TypesUnfolded, ViewNumbers
    <2>3. view' = [view EXCEPT ![v] = w]
      BY <1>2, <1>10 DEF Fence
    <2>4. from \in Views /\ from.quiet = (~Behind(v) /\ view[v].quiet)
      BY <1>2 DEF Missing, Views
    <2>5. s.generation <= generation /\ Young(rx.events, generation) /\ Marked(Excused, rx.events)
          /\ Fenced(Excused, view[v], old, offered[v])
      BY <1>3, <2>1 DEF Ages, Silence
    <2>6. ASSUME ~Behind(v), view[v].quiet
          PROVE  rx.lagged \/ Settled(Excused, s.generation, 0, rx.events)
      <3>1. ~(view[v].seen < s.cursor)
        BY <2>6 DEF Behind
      <3>2. \A j \in 1..Len(old.events) : ~(old.events[j].cursor <= s.cursor)
        <4> TAKE j \in 1..Len(old.events)
        <4>1. StoryOf(v) /\ Heeds(v)
          BY <2>1 DEF Story, Heeds
        <4>2. /\ view[v].seen <= Sent - Len(old.events)
              /\ old.events[j].cursor = Sent - Len(old.events) + j
          BY <2>1, <4>1 DEF StoryOf, Place, Rows, InRow
        <4>3. Sent \in Nat /\ Len(old.events) \in Nat
          BY <2>2, SentIsNumber, RxNumbers
        <4> DEFINE n == Len(old.events)
                   c == old.events[j].cursor
                   seen == view[v].seen
                   upto == s.cursor
        <4>4. /\ n \in Nat /\ seen \in Nat /\ upto \in Nat /\ j \in 1..n /\ Sent \in Nat
              /\ c = Sent - n + j /\ seen <= Sent - n /\ ~(seen < upto)
          BY <2>2, <3>1, <4>2, <4>3
        <4> HIDE DEF n, c, seen, upto
        <4>5. ~(c <= upto)
          BY <4>4
        <4> QED
          BY <4>5 DEF c, upto
      <3>3. ~LaterUpTo(old.events, 0, view[v].generation, s.cursor)
        BY <3>2 DEF LaterUpTo
      <3> QED
        BY <2>5, <2>6, <3>1, <3>3 DEF Fenced
    <2> HIDE DEF from, s, rx, old
    <2>7. w \in Views /\ w.generation = s.generation /\ w.quiet = from.quiet
      BY <2>2, <2>4 DEF Views
    <2> HIDE DEF w
    <2>8. w.quiet /\ ~rx.lagged => Settled(Excused, w.generation, 0, rx.events)
      BY <2>4, <2>6, <2>7
    <2> QED
      BY <1>5, <2>1, <2>2, <2>3, <2>5, <2>7, <2>8
  <1>11. CASE Lagged(v)
    <2>1. /\ receiver' = [receiver EXCEPT ![v] = [receiver[v] EXCEPT !.lagged = FALSE]]
          /\ view' = [view EXCEPT ![v] = Missing(view[v])]
          /\ doing[v] = "following" /\ receiver[v] # Nothing /\ receiver[v] \in Receivers
          /\ UNCHANGED <<heldVars, final, offered>>
      BY <1>1, <1>2, <1>11 DEF Lagged, observing, Follows
    <2>2. /\ receiver'[v].events = receiver[v].events /\ receiver'[v] # Nothing
          /\ view'[v].generation = view[v].generation /\ ~view'[v].quiet
          /\ \A u \in Viewers \ {v} : receiver'[u] = receiver[u] /\ view'[u] = view[u]
      <3> DEFINE r == [receiver[v] EXCEPT !.lagged = FALSE]
      <3>1. r \in Receivers /\ r.events = receiver[v].events
        BY <2>1 DEF Receivers
      <3> HIDE DEF r
      <3>2. receiver'[v] = r /\ r # Nothing
        BY <1>2, <2>1, <3>1, ViewingConstantsAssumption DEF r
      <3>3. view'[v] = Missing(view[v])
        BY <1>2, <2>1
      <3>4. Missing(view[v]).generation = view[v].generation /\ ~Missing(view[v]).quiet
        BY <1>2 DEF Missing, Views
      <3> QED
        BY <1>2, <2>1, <3>1, <3>2, <3>3, <3>4
    <2>3. offered[v] = Nothing /\ offered'[v] = Nothing
      BY <1>1, <2>1 DEF Asked
    <2>4. Ages(generation, view'[v], receiver'[v], offered'[v])
      BY <1>3, <2>1, <2>2, <2>3 DEF Ages
    <2>5. Silence(Excused, view'[v], receiver'[v], offered'[v])
      BY <1>3, <2>1, <2>2, <2>3 DEF Silence
    <2> QED
      BY <2>1, <2>2, <2>4, <2>5, OneSilence
  <1> QED
    BY <1>6, <1>7, <1>8, <1>9, <1>10, <1>11 DEF Viewer

LEMMA SilencesKept == Frame /\ Story /\ Silences /\ [Next]_vars => Silences'
  <1> SUFFICES ASSUME Frame, Story, Silences, [Next]_vars
               PROVE  Silences'
    OBVIOUS
  <1>1. TypeOK /\ HeldTypeOK /\ Asked /\ Ending /\ generation \in Nat
    BY DEF Frame, TypeOK, HeldTypeOK
  <1>2. ASSUME UNCHANGED <<life, generation, window, out, receiver, offered, view, final>>
        PROVE  Silences'
    <2>1. Excused' = Excused /\ MarkIsInside'
      BY <1>2 DEF Excused, Silences, MarkIsInside
    <2> QED
      BY <1>1, <1>2, <2>1, SilencesStand DEF Silences
  <1>3. CASE OwnerStep
    <2>1. OwnerTurns /\ UNCHANGED <<receiver, offered, view, final>>
      BY <1>3 DEF OwnerStep, observing, watching
    <2>2. /\ generation' \in Nat /\ generation <= generation' /\ MarkIsInside'
          /\ \A g \in Nat : g <= generation /\ g \in Excused => g \in Excused'
      BY <1>1, <2>1, TurnsExcuse, TurnsMark
    <2>3. final' # Nothing => final'.generation <= generation'
      <3>1. final # Nothing => final.generation \in Nat /\ final.generation <= generation
        BY <1>1 DEF TypeOK, Snapshots, Silences
      <3> QED
        BY <1>1, <2>1, <2>2, <3>1
    <2> QED
      BY <1>1, <2>1, <2>2, <2>3, SilencesStand
  <1>4. CASE RunnerStep \/ ClockStep \/ Say \/ UNCHANGED vars
    <2>1. UNCHANGED <<life, generation, window, out, receiver, offered, view, final>>
      BY <1>4 DEF RunnerStep, HookLines, Answer, ClockStep, DeadlinePasses, Say, vars,
                  heldVars, connection, quiet, observing, watching
    <2> QED
      BY <1>2, <2>1
  <1>5. CASE Publish
    BY <1>5, PublishKeepsSilence
  <1>6. CASE Said
    BY <1>6, SaidKeepsSilence
  <1>7. CASE AnswerRequest
    <2>1. /\ UNCHANGED <<life, generation, window, out, receiver, view, final>>
          /\ out = <<>> /\ life \in {"up", "down"} /\ requests # <<>>
          /\ \/ UNCHANGED offered
             \/ /\ Head(requests).waits /\ FenceIsFree
                /\ offered' = [offered EXCEPT ![Head(requests).by] = [snapshot |-> Snapshot, rx |-> Empty]]
      BY <1>7 DEF AnswerRequest, Turn, heldVars, connection, quiet
    <2>2. CASE UNCHANGED offered
      BY <1>2, <2>1, <2>2
    <2>3. CASE offered' # offered
      <3> DEFINE v == Head(requests).by
                 s == Snapshot
                 o == [snapshot |-> s, rx |-> Empty]
                 rx == receiver[v]
                 n == Len(rx.events)
      <3>1. /\ Head(requests) = requests[1] /\ 1 \in DOMAIN requests
            /\ Head(requests) \in [by : Viewers, waits : BOOLEAN]
        <4>1. requests \in Seq([by : Viewers, waits : BOOLEAN])
          BY <1>1 DEF TypeOK
        <4>2. /\ Head(requests) = requests[1] /\ Len(requests) \in Nat \ {0}
              /\ Head(requests) \in [by : Viewers, waits : BOOLEAN]
          BY <2>1, <4>1, WithoutHead
        <4>3. DOMAIN requests = 1..Len(requests)
          BY <4>1, LenProperties
        <4> QED
          BY <4>1, <4>2, <4>3
      <3>2. v \in Viewers /\ requests[1].waits /\ requests[1].by = v /\ FenceIsFree
            /\ offered' = [offered EXCEPT ![v] = o]
        BY <2>1, <2>3, <3>1
      <3>3. s.cursor = cursor /\ s.generation = generation /\ o.snapshot = s /\ o.rx = Empty
        BY DEF Snapshot
      <3> HIDE DEF v, s, o
      <3>4. doing[v] = "waiting" /\ StoryOf(v)
        BY <1>1, <3>1, <3>2 DEF Asked, Pending, Story
      <3>5. cursor = Sent /\ Sent \in Nat
        BY <3>2, SentIsNumber
      <3>6. /\ Ages(generation, view[v], rx, offered[v])
            /\ Silence(Excused, view[v], rx, offered[v])
        BY <3>2 DEF Silences, SilenceOf
      <3>7. ASSUME ~window
            PROVE  Excused = {}
        <4>1. Len(out) = 0
          BY <2>1, EmptySeq
        <4>2. 1..Len(out) = {}
          BY <4>1
        <4> QED
          BY <2>1, <3>7, <4>2 DEF Excused
      <3>8. rx # Nothing => /\ n \in Nat /\ view[v].seen <= Sent - n /\ view[v].seen \in Nat
                            /\ rx.lagged => n >= 1
                            /\ \A i \in 1..n : /\ rx.events[i].cursor = Sent - n + i
        <4> SUFFICES ASSUME rx # Nothing
                     PROVE  /\ n \in Nat /\ view[v].seen <= Sent - n /\ view[v].seen \in Nat
                            /\ rx.lagged => n >= 1
                            /\ \A i \in 1..n : /\ rx.events[i].cursor = Sent - n + i
          OBVIOUS
        <4>1. Heeds(v)
          BY <3>4 DEF Heeds
        <4>2. InRow(rx, Sent) /\ view[v].seen <= Sent - n
          BY <3>4, <4>1 DEF StoryOf, Rows, Place
        <4>3. n \in Nat /\ rx.events \in Seq(Event) /\ view[v].seen \in Nat
          BY <1>1, <3>2, TypesUnfolded, ViewNumbers
        <4>4. rx.lagged => n >= 1
          BY <4>2, <4>3, EmptySeq DEF InRow
        <4> QED
          BY <4>2, <4>3, <4>4 DEF InRow
      <3> HIDE DEF rx, n
      <3>9. ASSUME rx # Nothing
            PROVE  Fenced(Excused, view[v], rx, o)
        <4>1. CASE window
          <5>1. generation \in Excused
            BY <1>1, <4>1 DEF Excused
          <5> QED
            BY <3>3, <5>1 DEF Fenced, Settled
        <4>2. CASE ~window
          <5>1. \A i \in 1..n : rx.events[i].cursor <= Sent
            <6> TAKE i \in 1..n
            <6> QED
              BY <3>5, <3>8, <3>9
          <5>2. \A i, g : Later(rx.events, i, g) => LaterUpTo(rx.events, i, g, Sent)
            BY <5>1 DEF Later, LaterUpTo, n
          <5>3. MarkedUpTo(rx.events, Sent)
            BY <3>6, <3>7, <3>9, <4>2, <5>2 DEF Silence, Marked, MarkedUpTo, Settled
          <5>4. view[v].quiet /\ ~rx.lagged => LaterUpTo(rx.events, 0, view[v].generation, Sent)
            BY <3>6, <3>7, <3>9, <4>2, <5>2 DEF Silence, Settled
          <5>5. rx.lagged => view[v].seen < Sent
            BY <3>5, <3>8, <3>9
          <5> QED
            BY <3>3, <3>5, <5>3, <5>4, <5>5 DEF Fenced
        <4> QED
          BY <4>1, <4>2
      <3>10. Young(Empty.events, generation) /\ Marked(Excused, Empty.events) /\ generation <= generation
        BY <1>1 DEF Young, Marked, Empty
      <3>11. Ages(generation, view[v], rx, o) /\ Silence(Excused, view[v], rx, o)
        BY <3>3, <3>6, <3>9, <3>10 DEF Ages, Silence
      <3>12. offered \in [Viewers -> Subscriptions \cup {Nothing}]
        BY <1>1 DEF TypeOK
      <3>13. offered'[v] = o /\ \A u \in Viewers \ {v} : offered'[u] = offered[u]
        BY <3>2, <3>12
      <3>14. /\ Ages(generation, view'[v], receiver'[v], offered'[v])
             /\ Silence(Excused, view'[v], receiver'[v], offered'[v])
        BY <2>1, <3>11, <3>13 DEF rx
      <3>15. UNCHANGED heldVars
        BY <1>7 DEF AnswerRequest
      <3> QED
        BY <2>1, <3>2, <3>13, <3>14, <3>15, OneSilence
    <2> QED
      BY <2>2, <2>3
  <1>8. CASE Finish
    <2>1. /\ UNCHANGED <<generation, out, receiver, offered, view>>
          /\ life' = "over" /\ out = <<>> /\ final' = Snapshot
      BY <1>8 DEF Finish, Turn, watching
    <2>2. MarkIsInside'
      <3>1. Len(out') = 0
        BY <2>1, EmptySeq
      <3>2. 1..Len(out') = {}
        BY <3>1
      <3> QED
        BY <3>2 DEF MarkIsInside
    <2>3. final'.generation = generation /\ generation <= generation
      BY <1>1, <2>1 DEF Snapshot
    <2>4. \A g \in Nat : g \in Excused'
      BY <2>1 DEF Excused
    <2> QED
      BY <1>1, <2>1, <2>2, <2>3, <2>4, SilencesStand
  <1> QED
    BY <1>3, <1>4, <1>5, <1>6, <1>7, <1>8, ViewerKeepsSilence DEF Next

LEMMA SilencesHold == Spec => []Silences
  <1>1. Init => Silences
    <2> SUFFICES ASSUME Init
                 PROVE  Silences
      OBVIOUS
    <2>1. /\ out = <<>> /\ final = Nothing /\ generation = 0
          /\ \A v \in Viewers : /\ receiver[v] = Nothing /\ offered[v] = Nothing
                                /\ view[v].generation = 0
      BY DEF Init, HeldInit, Fresh
    <2>2. Len(out) = 0
      BY <2>1, EmptySeq
    <2>3. MarkIsInside
      <3>1. 1..Len(out) = {}
        BY <2>2
      <3> QED
        BY <3>1 DEF MarkIsInside
    <2>4. ASSUME NEW v \in Viewers
          PROVE  SilenceOf(v)
      BY <2>1 DEF SilenceOf, Ages, Silence
    <2> QED
      BY <2>1, <2>3, <2>4 DEF Silences
  <1> QED
    BY <1>1, StoryHolds, SilencesKept, PTL DEF Spec

(* However events are lost, read late or overtaken by snapshots, a viewer   *)
(* that has read all there is leaves text out only inside a quiet command's *)
(* window.                                                                 *)
THEOREM QuietOnlyInside == Spec => []QuietWithTheWindow
  <1>1. Frame /\ Silences => QuietWithTheWindow
    <2> SUFFICES ASSUME Frame, Silences, NEW v \in Viewers,
                        view[v].quiet, CaughtUp(v), Turn({"up"})
                 PROVE  window
      BY DEF QuietWithTheWindow
    <2>1. /\ receiver[v] # Nothing /\ receiver[v].events = <<>> /\ ~receiver[v].lagged
          /\ out = <<>> /\ life = "up"
      BY DEF CaughtUp, Turn
    <2>2. Settled(Excused, view[v].generation, 0, receiver[v].events)
      BY <2>1 DEF Silences, SilenceOf, Silence
    <2>3. Len(<<>>) = 0 /\ 1..0 = {}
      BY EmptySeq
    <2>4. ~Later(receiver[v].events, 0, view[v].generation)
      BY <2>1, <2>3 DEF Later
    <2>5. view[v].generation \in Excused
      BY <2>2, <2>4 DEF Settled
    <2> QED
      BY <2>1, <2>3, <2>5 DEF Excused
  <1> QED
    BY <1>1, StoryHolds, SilencesHold, PTL
=============================================================================

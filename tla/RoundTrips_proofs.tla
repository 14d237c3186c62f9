-------------------------- MODULE RoundTrips_proofs --------------------------
(***************************************************************************)
(* What RoundTrips promises, for every set of lines and every bound.       *)
(***************************************************************************)
EXTENDS RoundTrips, SequenceTheorems, TLAPS

CallStates == {"idle", "waiting", "gone"} \cup Verdicts

-----------------------------------------------------------------------------
(* Types.                                                                  *)

(* A caller is told a verdict, or nothing.                                 *)
LEMMA ToldType ==
    ASSUME TypeOK, NEW S, NEW v \in Verdicts
    PROVE  Told(S, v) \in [Calls -> CallStates]
  BY DEF Told, TypeOK, CallStates

(* An answer is owed by a command that asked for one.                      *)
LEMMA OweUnansweredType ==
    ASSUME TypeOK, OweUnanswered, ConstantsAssumption
    PROVE  owedAnswers' \in Seq(Asking)
  <1>1. CASE flight \in Asking /\ answer = Nobody
    <2> DEFINE kept == IF Len(owedAnswers) = MostOwed THEN Tail(owedAnswers)
                       ELSE owedAnswers
    <2>1. owedAnswers \in Seq(Asking)
      BY DEF TypeOK
    <2>2. Len(owedAnswers) = MostOwed => owedAnswers # <<>>
      BY EmptySeq DEF ConstantsAssumption
    <2>3. kept \in Seq(Asking)
      BY <2>1, <2>2, HeadTailProperties
    <2>4. Append(kept, flight) \in Seq(Asking)
      BY <1>1, <2>3
    <2> QED
      BY <1>1, <2>4 DEF OweUnanswered, Owe
  <1>2. CASE ~(flight \in Asking /\ answer = Nobody)
    BY <1>2 DEF OweUnanswered, TypeOK
  <1> QED
    BY <1>1, <1>2

(* The end of a connection leaves a state of the right types.              *)
LEMMA EndConnectionType ==
    ASSUME TypeOK, inbox' \in Seq(Calls),
           NEW end \in {"lost", "closed"}, NEW farewell \in Verdicts,
           NEW also, NEW verdict \in Verdicts,
           EndConnection(end, farewell, also, verdict)
    PROVE  TypeOK'
  <1> DEFINE outcome == IF end = "lost" THEN "Disconnected" ELSE "Dead"
  <1>1. outcome \in Verdicts
    BY DEF Verdicts
  <1>2. call' \in [Calls -> CallStates]
    BY <1>1 DEF EndConnection, TypeOK, CallStates
  <1>3. /\ <<>> \in Seq(Commands) /\ <<>> \in Seq(Asking)
    OBVIOUS
  <1> QED
    BY <1>2, <1>3 DEF EndConnection, TypeOK, CallStates, Phases, ledger, game

LEMMA WriteFailsType ==
    ASSUME TypeOK, inbox' \in Seq(Calls), NEW l, WriteFails(l)
    PROVE  TypeOK'
  BY EndConnectionType DEF WriteFails, Verdicts

LEMMA JoinOrWriteQuitType ==
    ASSUME TypeOK, inbox' \in Seq(Calls), NEW l \in Calls,
           NEW v \in Verdicts, NEW f \in Verdicts, JoinOrWriteQuit(l, v, f)
    PROVE  TypeOK'
  <1>1. CASE ~quitting /\ EndConnection("closed", "Unsent", {l}, f)
    BY <1>1, EndConnectionType DEF Verdicts
  <1>2. CASE ~(~quitting /\ EndConnection("closed", "Unsent", {l}, f))
    <2>1. call' \in [Calls -> CallStates]
      BY <1>2, ToldType DEF JoinOrWriteQuit, TypeOK, CallStates
    <2>2. leavers' \subseteq Quits
      BY <1>2 DEF JoinOrWriteQuit, TypeOK
    <2> QED
      BY <1>2, <2>1, <2>2
      DEF JoinOrWriteQuit, TypeOK, CallStates, Phases, queues, window, ledger, game
  <1> QED
    BY <1>1, <1>2

LEMMA AnswerOnlyType ==
    ASSUME TypeOK, inbox' \in Seq(Calls), NEW l, NEW v \in Verdicts,
           AnswerOnly(l, v)
    PROVE  TypeOK'
  BY ToldType
  DEF AnswerOnly, TypeOK, CallStates, Phases, queues, window, ledger, exits, game

(* The command the pump takes is one of the queued.                        *)
LEMMA NextIsACommand ==
    ASSUME TypeOK, Queued
    PROVE  Next1 \in Commands
  BY HeadTailProperties DEF TypeOK, Queued, Next1, ManualIsNext

LEMMA PopType ==
    ASSUME TypeOK, Queued, Pop
    PROVE  manual' \in Seq(Commands) /\ held' \in Seq(Commands)
  BY HeadTailProperties DEF TypeOK, Queued, Pop, ManualIsNext

LEMMA CallersType ==
    ASSUME TypeOK, Callers
    PROVE  TypeOK'
  <1> USE DEF TypeOK, CallStates, queues, window, ledger, exits, game
  <1>1. ASSUME NEW l \in Lines, Submit(l) PROVE TypeOK'
    <2>1. l \in Calls
      BY DEF Calls
    <2>2. inbox' \in Seq(Calls)
      <3>1. Append(inbox, l) \in Seq(Calls)
        BY <2>1, AppendProperties
      <3>2. inbox' = Append(inbox, l) \/ inbox' = inbox
        BY <1>1 DEF Submit
      <3> QED
        BY <3>1, <3>2
    <2>3. call' \in [Calls -> CallStates]
      BY <1>1, <2>1 DEF Submit, Verdicts
    <2> QED
      BY <1>1, <2>2, <2>3 DEF Submit
  <1>2. ASSUME NEW q \in Quits, AskToQuit(q) PROVE TypeOK'
    BY <1>2 DEF AskToQuit, Calls
  <1>3. ASSUME NEW l \in Calls, GiveUp(l) PROVE TypeOK'
    BY <1>3 DEF GiveUp
  <1>4. ASSUME PassAuthority PROVE TypeOK'
    BY <1>4 DEF PassAuthority
  <1> QED
    BY <1>1, <1>2, <1>3, <1>4 DEF Callers

LEMMA PumpType ==
    ASSUME TypeOK, Pump, ConstantsAssumption
    PROVE  TypeOK'
  <1> USE DEF CallStates, queues, window, ledger, exits, game
  <1>1. CASE Abandon
    <2>1. owedAnswers' \in Seq(Asking)
      BY <1>1, OweUnansweredType DEF Abandon
    <2>2. flight \in Lines
      BY <1>1 DEF Abandon, WindowIsOpen, TypeOK, Lines
    <2>3. before' \in Seq(Lines) /\ after' \in Seq(Lines)
      BY <1>1, <2>2 DEF Abandon, OweAbandoned, TypeOK
    <2> QED
      BY <1>1, <2>1, <2>3 DEF Abandon, CloseFlight, TypeOK
  <1>2. CASE SkipWithdrawn
    BY <1>2, PopType DEF SkipWithdrawn, Pumping, TypeOK
  <1>3. CASE TurnAway
    <2>1. call' \in [Calls -> CallStates]
      <3>1. PICK v \in {"Refused", "Interrupted"} : call' = Told({Next1}, v)
        BY <1>3 DEF TurnAway
      <3> QED
        BY <3>1, ToldType DEF Verdicts
    <2>2. manual' \in Seq(Commands) /\ held' \in Seq(Commands)
      BY <1>3, PopType DEF TurnAway, Pumping
    <2> QED
      BY <1>3, <2>1, <2>2 DEF TurnAway, TypeOK
  <1>4. CASE Write
    <2>1. CASE WriteFails(Next1)
      BY <1>4, <2>1, WriteFailsType DEF Write, TypeOK
    <2>2. CASE ~WriteFails(Next1)
      <3>1. Next1 \in Commands
        BY <1>4, NextIsACommand DEF Write, Pumping
      <3>2. Pop
        BY <1>4, <2>2 DEF Write
      <3>3. manual' \in Seq(Commands) /\ held' \in Seq(Commands)
        BY <1>4, <3>2, PopType DEF Write, Pumping
      <3>4. wire' = Append(wire, Next1) /\ Next1 \in Lines
        BY <1>4, <2>2, <3>1 DEF Write, Lines
      <3>5. wire' \in Seq(Lines)
        BY <3>4, AppendProperties DEF TypeOK
      <3> QED
        BY <1>4, <2>2, <3>1, <3>3, <3>5 DEF Write, TypeOK, Calls, Lines
    <2> QED
      BY <2>1, <2>2
  <1>5. CASE PumpEnds
    BY <1>5 DEF PumpEnds, TypeOK, Phases
  <1>6. CASE PumpAfterQuit
    <2>1. owedAnswers' \in Seq(Asking)
      BY <1>6, OweUnansweredType DEF PumpAfterQuit, TypeOK
    <2>2. call' \in [Calls -> CallStates]
      BY <1>6 DEF PumpAfterQuit, TypeOK, Verdicts
    <2>3. <<>> \in Seq(Commands) /\ manual \in Seq(Commands) /\ held \in Seq(Commands)
      BY DEF TypeOK
    <2>4. \/ manual' = <<>> /\ held' = <<>>
          \/ manual' = manual /\ held' = held
      BY <1>6 DEF PumpAfterQuit
    <2>5. manual' \in Seq(Commands) /\ held' \in Seq(Commands)
      BY <2>3, <2>4
    <2> QED
      BY <1>6, <2>1, <2>2, <2>5 DEF PumpAfterQuit, CloseFlight, TypeOK, Phases
  <1> QED
    BY <1>1, <1>2, <1>3, <1>4, <1>5, <1>6 DEF Pump

LEMMA TakeMessageType ==
    ASSUME TypeOK, TakeMessage
    PROVE  TypeOK'
  <1>1. inbox' \in Seq(Calls)
    BY HeadTailProperties DEF TakeMessage, TakeCommand, TakeInstant, TakeQuit, TypeOK
  <1>2. Ignore => TypeOK'
    BY <1>1 DEF Ignore, TypeOK, Phases, queues, window, ledger, exits, game
  <1>3. CASE TakeCommand
    <2> DEFINE c == Head(inbox)
    <2>1. c \in Calls /\ c \in Commands
      BY <1>3 DEF TakeCommand, Calls, Lines
    <2>2. Admit(c) => TypeOK'
      <3>1. SUFFICES ASSUME Admit(c),
                            ~ AnswerOnly(c, "Disconnected"), ~ AnswerOnly(c, "Refused")
                     PROVE  TypeOK'
        BY <1>1, <2>1, AnswerOnlyType DEF Verdicts
      <3>2. /\ manual' = manual \/ manual' = Append(manual, c)
            /\ held' = held \/ held' = Append(held, c)
        BY <3>1 DEF Admit
      <3>3. Append(manual, c) \in Seq(Commands) /\ Append(held, c) \in Seq(Commands)
        BY <2>1, AppendProperties DEF TypeOK
      <3>4. manual' \in Seq(Commands) /\ held' \in Seq(Commands)
        BY <3>2, <3>3 DEF TypeOK
      <3> QED
        BY <1>1, <3>1, <3>4 DEF Admit, TypeOK, Phases, window, ledger, exits, game
    <2> QED
      BY <1>1, <1>2, <1>3, <2>1, <2>2, AnswerOnlyType, JoinOrWriteQuitType
      DEF TakeCommand, MistargetedTag, Verdicts
  <1>4. CASE TakeInstant
    <2> DEFINE i == Head(inbox)
    <2>1. i \in Calls /\ i \in Lines
      BY <1>4 DEF TakeInstant, Calls, Lines
    <2>2. WriteInstant(i) => TypeOK'
      <3>1. SUFFICES ASSUME WriteInstant(i), ~ WriteFails(i)
                     PROVE  TypeOK'
        BY <1>1, WriteFailsType
      <3>2. call' \in [Calls -> CallStates]
        BY <3>1, ToldType DEF WriteInstant, Verdicts
      <3>3. /\ before' = before \/ before' = Append(before, i)
            /\ after' = after \/ after' = Append(after, i)
        BY <3>1 DEF WriteInstant, OweInstant
      <3>4. wire' = Append(wire, i)
        BY <3>1 DEF WriteInstant
      <3>5. /\ Append(before, i) \in Seq(Lines) /\ Append(after, i) \in Seq(Lines)
            /\ Append(wire, i) \in Seq(Lines)
        BY <2>1, AppendProperties DEF TypeOK
      <3>6. before' \in Seq(Lines) /\ after' \in Seq(Lines) /\ wire' \in Seq(Lines)
        BY <3>3, <3>4, <3>5 DEF TypeOK
      <3> QED
        BY <1>1, <2>1, <3>1, <3>2, <3>6
        DEF WriteInstant, TypeOK, CallStates, Phases, queues, window, exits
    <2> QED
      BY <1>1, <1>2, <1>4, <2>1, <2>2, AnswerOnlyType, JoinOrWriteQuitType
      DEF TakeInstant, MistargetedTag, Verdicts
  <1>5. CASE TakeQuit
    <2>1. Head(inbox) \in Calls
      BY <1>5 DEF TakeQuit, Calls
    <2> QED
      BY <1>1, <1>5, <2>1, JoinOrWriteQuitType DEF TakeQuit, Verdicts
  <1> QED
    BY <1>3, <1>4, <1>5 DEF TakeMessage

(* A window resolves to a verdict of its command.                          *)
LEMMA ResolveType ==
    ASSUME TypeOK, WindowIsOpen, ConstantsAssumption,
           NEW at \in Lines \cup {Nobody, Game}, Resolve(at)
    PROVE  /\ call' \in [Calls -> CallStates]
           /\ credit' \in [Commands -> SUBSET (Lines \cup {Game})]
           /\ owedAnswers' \in Seq(Asking)
           /\ flight' = Nobody /\ matched' = Nobody /\ answer' = Nobody
           /\ UNCHANGED gaveUp
  <1> DEFINE by == IF flight \in Asking THEN answer ELSE matched
             verdict == IF by = Nobody THEN "Timeout"
                        ELSE IF flight \in Asking THEN "Answered" ELSE "Confirmed"
  <1>1. verdict \in Verdicts
    BY DEF Verdicts
  <1>2. call' = Told({flight}, verdict)
    BY DEF Resolve
  <1>3. call' \in [Calls -> CallStates]
    BY <1>1, <1>2, ToldType
  <1>4. {by, at} \ {Nobody} \subseteq Lines \cup {Game}
    BY DEF TypeOK
  <1>5. credit' = [credit EXCEPT ![flight] = {by, at} \ {Nobody}]
    BY DEF Resolve
  <1>6. flight \in Commands
    BY DEF TypeOK, WindowIsOpen
  <1>7. credit' \in [Commands -> SUBSET (Lines \cup {Game})]
    BY <1>4, <1>5, <1>6 DEF TypeOK
  <1>8. owedAnswers' \in Seq(Asking)
    BY OweUnansweredType DEF Resolve
  <1> QED
    BY <1>3, <1>7, <1>8 DEF Resolve, CloseFlight

LEMMA TextType ==
    ASSUME TypeOK, NEW o \in Lines \cup {Game}, Text(o)
    PROVE  TypeOK'
  <1>1. PICK matches \in BOOLEAN, answering \in BOOLEAN :
            Offer(o, matches) /\ Hear(o, answering) /\ told' = (told \/ answering)
    BY DEF Text
  <1>2. matched' \in Lines \cup {Nobody, Game} /\ answer' \in Lines \cup {Nobody, Game}
    BY <1>1 DEF Offer, Hear, TypeOK
  <1>3. \/ owedAnswers' = owedAnswers
        \/ owedAnswers # <<>> /\ owedAnswers' = Tail(owedAnswers)
    BY <1>1 DEF Hear
  <1>4. owedAnswers' \in Seq(Asking)
    BY <1>3, HeadTailProperties DEF TypeOK
  <1> QED
    BY <1>1, <1>2, <1>4 DEF Text, TypeOK, Phases, queues, ledger, exits

(* The line whose reply is being received is the first on the wire: the    *)
(* game answers in order, and a line leaves the wire with its prompt.      *)
SpeaksInOrder == speaker \in Lines => wire # <<>> /\ speaker = Head(wire)

(* The end of a reply takes the line it answers off the wire.              *)
LEMMA EndOfReplyType ==
    ASSUME TypeOK, SpeaksInOrder, ConstantsAssumption,
           NEW o \in Lines \cup {Game}, EndOfReply(o)
    PROVE  /\ wire' \in Seq(Lines) /\ speaker' = Nobody /\ told' \in BOOLEAN
           /\ ready' \in BOOLEAN /\ phase' \in Phases
           /\ o # Game => wire # <<>> /\ o = Head(wire) /\ wire' = Tail(wire)
           /\ o = Game => wire' = wire /\ (speaker = Game \/ Unasked)
  <1>1. Nobody # Game /\ Game \notin Lines
    BY DEF ConstantsAssumption, Calls
  <1>2. ASSUME o # Game PROVE wire # <<>> /\ o = Head(wire) /\ wire' = Tail(wire)
    <2>1. wire' = Tail(wire) /\ Speaks(o) /\ o \in Lines
      BY <1>2 DEF EndOfReply
    <2>2. wire # <<>> /\ o = Head(wire)
      BY <1>2, <2>1 DEF Speaks, SpeaksInOrder
    <2> QED
      BY <2>1, <2>2
  <1>3. ASSUME o = Game PROVE wire' = wire /\ (speaker = Game \/ Unasked)
    <2>1. wire' = wire /\ Speaks(o)
      BY <1>3 DEF EndOfReply
    <2>2. CASE speaker # Nobody
      BY <1>3, <2>1, <2>2 DEF Speaks
    <2>3. CASE speaker = Nobody
      <3>1. wire # <<>> => Head(wire) \in Lines
        BY HeadTailProperties DEF TypeOK
      <3> QED
        BY <1>1, <1>3, <2>1, <2>3, <3>1 DEF Speaks
    <2> QED
      BY <2>1, <2>2, <2>3
  <1>4. wire' \in Seq(Lines)
    <2>1. wire # <<>> => Tail(wire) \in Seq(Lines)
      BY HeadTailProperties DEF TypeOK
    <2> QED
      BY <1>2, <1>3, <2>1 DEF TypeOK
  <1>5. speaker' = Nobody /\ told' \in BOOLEAN /\ ready' \in BOOLEAN /\ phase' \in Phases
    BY DEF EndOfReply, TypeOK, Phases
  <1> QED
    BY <1>2, <1>3, <1>4, <1>5

LEMMA SpeechType ==
    ASSUME TypeOK, SpeaksInOrder, ConstantsAssumption, Speech
    PROVE  TypeOK'
  <1>1. PICK o \in Lines \cup {Game} :
            Text(o) \/ PromptSpent(o) \/ PromptUnclaimed(o) \/ PromptForWindow(o)
    BY DEF Speech
  <1>2. CASE Text(o)
    BY <1>2, TextType
  <1>3. CASE PromptSpent(o)
    <2>1. before' \in Seq(Lines)
      BY <1>3, HeadTailProperties DEF PromptSpent, TypeOK
    <2>2. EndOfReply(o)
      BY <1>3 DEF PromptSpent
    <2> QED
      BY <1>3, <2>1, <2>2, EndOfReplyType
      DEF PromptSpent, EndOfReply, TypeOK, queues, window, exits
  <1>4. CASE PromptUnclaimed(o)
    <2>1. EndOfReply(o)
      BY <1>4 DEF PromptUnclaimed
    <2> QED
      BY <1>4, <2>1, EndOfReplyType
      DEF PromptUnclaimed, EndOfReply, TypeOK, queues, window, ledger, exits
  <1>5. CASE PromptForWindow(o)
    <2>1. EndOfReply(o) /\ WindowIsOpen
      BY <1>5 DEF PromptForWindow
    <2>2. before' \in Seq(Lines) /\ after' \in Seq(Lines)
      BY <1>5, EmptySeq DEF PromptForWindow, TypeOK
    <2>3. /\ call' \in [Calls -> CallStates]
          /\ credit' \in [Commands -> SUBSET (Lines \cup {Game})]
          /\ owedAnswers' \in Seq(Asking)
          /\ flight' \in Commands \cup {Nobody}
          /\ matched' \in Lines \cup {Nobody, Game}
          /\ answer' \in Lines \cup {Nobody, Game}
          /\ UNCHANGED gaveUp
      <3>1. CASE Resolve(o)
        BY <2>1, <3>1, ResolveType
      <3>2. CASE UNCHANGED <<call, credit, gaveUp, window, owedAnswers>>
        BY <3>2 DEF window, TypeOK, CallStates
      <3> QED
        BY <1>5, <3>1, <3>2 DEF PromptForWindow
    <2>4. UNCHANGED <<inbox, queues, holding, exits>>
      BY <2>1 DEF EndOfReply
    <2> QED
      BY <2>1, <2>2, <2>3, <2>4, EndOfReplyType DEF TypeOK, CallStates, queues, exits
  <1> QED
    BY <1>1, <1>2, <1>3, <1>4, <1>5

LEMMA ExpireWindowType ==
    ASSUME TypeOK, ConstantsAssumption, ExpireWindow
    PROVE  TypeOK'
  <1>1. WindowIsOpen /\ Resolve(Nobody)
    BY DEF ExpireWindow, WindowIsOpen, ConstantsAssumption, Calls, Lines
  <1> QED
    BY <1>1, ResolveType
    DEF ExpireWindow, TypeOK, CallStates, Phases, queues, ledger, exits, game

LEMMA SweepType ==
    ASSUME TypeOK, Sweep
    PROVE  TypeOK'
  <1> DEFINE v == IF Head(inbox) \in Quits THEN "Unsent"
                  ELSE IF phase = "closed" THEN "Dead"
                  ELSE IF Head(inbox) \in Commands THEN "Disconnected"
                  ELSE "Interrupted"
  <1>1. v \in Verdicts
    BY DEF Verdicts
  <1>2. call' = Told({Head(inbox)}, v)
    BY DEF Sweep
  <1>3. call' \in [Calls -> CallStates]
    BY <1>1, <1>2, ToldType
  <1>4. inbox' \in Seq(Calls)
    BY HeadTailProperties DEF Sweep, TypeOK
  <1> QED
    BY <1>3, <1>4 DEF Sweep, TypeOK, CallStates, queues, window, ledger, exits, game

LEMMA LoopType ==
    ASSUME TypeOK, Wake \/ LapseAnswer \/ LapsePrompt \/ ReadEnds \/ PeerEnds \/ Cancel
    PROVE  TypeOK'
  <1> USE DEF queues, window, ledger, exits, game
  <1>1. CASE Wake \/ ReadEnds
    BY <1>1 DEF Wake, ReadEnds, TypeOK, Phases
  <1>2. CASE LapseAnswer
    BY <1>2, HeadTailProperties DEF LapseAnswer, TypeOK
  <1>3. CASE LapsePrompt
    BY <1>3, HeadTailProperties DEF LapsePrompt, TypeOK
  <1>4. CASE PeerEnds \/ Cancel
    BY <1>4, EndConnectionType DEF PeerEnds, Cancel, Verdicts, TypeOK
  <1> QED
    BY <1>1, <1>2, <1>3, <1>4

LEMMA TypeStep ==
    ASSUME TypeOK, SpeaksInOrder, ConstantsAssumption, [Next]_vars
    PROVE  TypeOK'
  <1>1. CASE UNCHANGED vars
    BY <1>1 DEF vars, TypeOK, queues, window, ledger, exits, game
  <1>2. CASE Next
    BY <1>2, CallersType, PumpType, TakeMessageType, SpeechType, ExpireWindowType,
       SweepType, LoopType
    DEF Next
  <1> QED
    BY <1>1, <1>2

(* What may write a line: the pump, of its next command, or an instant     *)
(* action.  Neither does for a caller that is gone or after the exit.      *)
Writes(l) ==
    /\ wire' = Append(wire, l)
    /\ ~quitting /\ ~Gone(l)
    /\ l \in Commands => Queued /\ l = Next1
    /\ UNCHANGED speaker

Says(o) == Text(o) \/ PromptSpent(o) \/ PromptUnclaimed(o) \/ PromptForWindow(o)

(* A line is put on the wire behind those that are there, or the wire is   *)
(* left alone, or the game speaks.                                         *)
LEMMA WireStep ==
    ASSUME TypeOK, ConstantsAssumption, [Next]_vars
    PROVE  \/ UNCHANGED <<wire, speaker>>
           \/ \E l \in Lines : Writes(l)
           \/ \E o \in Lines \cup {Game} : Says(o)
  <1> USE DEF queues, window, ledger, exits, game
  <1>1. CASE UNCHANGED vars
    BY <1>1 DEF vars
  <1>2. CASE Callers
    BY <1>2 DEF Callers, Submit, AskToQuit, GiveUp, PassAuthority
  <1>3. CASE Pump
    <2>1. CASE Write
      <3>1. Next1 \in Lines
        BY <2>1, NextIsACommand DEF Write, Pumping, Lines
      <3>2. CASE WriteFails(Next1)
        BY <3>2 DEF WriteFails, EndConnection
      <3>3. CASE ~WriteFails(Next1)
        BY <2>1, <3>1, <3>3 DEF Write, Writes, Pumping, Wanted
      <3> QED
        BY <3>2, <3>3
    <2>2. CASE ~Write
      BY <1>3, <2>2
      DEF Pump, Abandon, SkipWithdrawn, TurnAway, PumpEnds, PumpAfterQuit
    <2> QED
      BY <2>1, <2>2
  <1>4. CASE TakeMessage
    <2>1. CASE TakeInstant
      <3> DEFINE i == Head(inbox)
      <3>1. i \in Lines /\ i \notin Commands
        BY <2>1 DEF TakeInstant, Lines, ConstantsAssumption
      <3>2. CASE WriteInstant(i) /\ InstantMayGo(i) /\ Wanted(i)
        <4>1. CASE WriteFails(i)
          BY <4>1 DEF WriteFails, EndConnection
        <4>2. CASE ~WriteFails(i)
          BY <3>1, <3>2, <4>2 DEF WriteInstant, InstantMayGo, Wanted, Writes
        <4> QED
          BY <4>1, <4>2
      <3>3. CASE ~(WriteInstant(i) /\ InstantMayGo(i) /\ Wanted(i))
        BY <2>1, <3>3
        DEF TakeInstant, Ignore, MistargetedTag, AnswerOnly, JoinOrWriteQuit, EndConnection
      <3> QED
        BY <3>2, <3>3
    <2>2. CASE TakeCommand
      BY <2>2
      DEF TakeCommand, Ignore, MistargetedTag, AnswerOnly, JoinOrWriteQuit,
          EndConnection, Admit
    <2>3. CASE TakeQuit
      BY <2>3 DEF TakeQuit, JoinOrWriteQuit, EndConnection
    <2> QED
      BY <1>4, <2>1, <2>2, <2>3 DEF TakeMessage
  <1>5. CASE Speech
    BY <1>5 DEF Speech, Says
  <1>6. CASE Wake \/ ExpireWindow \/ LapseAnswer \/ LapsePrompt \/ ReadEnds \/ Sweep
    BY <1>6 DEF Wake, ExpireWindow, LapseAnswer, LapsePrompt, ReadEnds, Sweep
  <1>7. CASE PeerEnds \/ Cancel
    BY <1>7 DEF PeerEnds, Cancel, EndConnection
  <1> QED
    BY <1>1, <1>2, <1>3, <1>4, <1>5, <1>6, <1>7 DEF Next

(* What is added to a wire stays behind its first line.                    *)
LEMMA AppendKeepsHead ==
    ASSUME NEW S, NEW s \in Seq(S), NEW e \in S
    PROVE  /\ Append(s, e) # <<>>
           /\ s # <<>> => Head(Append(s, e)) = Head(s)
  <1>1. /\ Append(s, e) \in Seq(S) /\ Len(Append(s, e)) = Len(s) + 1
        /\ \A i \in 1..Len(s) : Append(s, e)[i] = s[i]
        /\ Append(s, e) # <<>>
    BY AppendProperties
  <1>2. ASSUME s # <<>> PROVE Append(s, e)[1] = s[1]
    BY <1>1, <1>2, EmptySeq
  <1> QED
    BY <1>1, <1>2

LEMMA SpeaksInOrderStep ==
    ASSUME TypeOK, SpeaksInOrder, ConstantsAssumption, [Next]_vars
    PROVE  SpeaksInOrder'
  <1>1. Nobody \notin Lines /\ Game \notin Lines
    BY DEF ConstantsAssumption, Calls
  <1>2. CASE UNCHANGED <<wire, speaker>>
    BY <1>2 DEF SpeaksInOrder
  <1>3. ASSUME NEW l \in Lines, Writes(l)
        PROVE  SpeaksInOrder'
    BY <1>3, AppendKeepsHead DEF SpeaksInOrder, TypeOK, Writes
  <1>4. ASSUME NEW o \in Lines \cup {Game}, Text(o)
        PROVE  SpeaksInOrder'
    <2>1. speaker' = o /\ wire' = wire /\ Speaks(o)
      BY <1>4 DEF Text
    <2> QED
      BY <1>1, <2>1 DEF Speaks, SpeaksInOrder
  <1>5. ASSUME NEW o \in Lines \cup {Game},
               PromptSpent(o) \/ PromptUnclaimed(o) \/ PromptForWindow(o)
        PROVE  SpeaksInOrder'
    <2>1. speaker' = Nobody
      BY <1>5 DEF PromptSpent, PromptUnclaimed, PromptForWindow, EndOfReply
    <2> QED
      BY <1>1, <2>1 DEF SpeaksInOrder
  <1> QED
    BY WireStep, <1>2, <1>3, <1>4, <1>5 DEF Says

(* Every reachable state has the types the code gives it, and replies are  *)
(* received in the order their lines were written.                         *)
THEOREM TypeCorrect == Spec => [](TypeOK /\ SpeaksInOrder)
  <1>1. Init => TypeOK /\ SpeaksInOrder
    <2>1. /\ <<>> \in Seq(Calls) /\ <<>> \in Seq(Commands)
          /\ <<>> \in Seq(Asking) /\ <<>> \in Seq(Lines)
      OBVIOUS
    <2> QED
      BY <2>1, ConstantsAssumption
      DEF Init, TypeOK, SpeaksInOrder, ConstantsAssumption, Calls, Phases
  <1>2. TypeOK /\ SpeaksInOrder /\ [Next]_vars => (TypeOK /\ SpeaksInOrder)'
    BY ConstantsAssumption, TypeStep, SpeaksInOrderStep
  <1> QED
    BY <1>1, <1>2, PTL DEF Spec

-----------------------------------------------------------------------------
(* What is written.                                                        *)

LEMMA ElementsOfAppend ==
    ASSUME NEW S, NEW s \in Seq(S), NEW e \in S
    PROVE  Elements(Append(s, e)) = Elements(s) \cup {e}
  <1>1. /\ DOMAIN s = 1..Len(s) /\ Len(s) \in Nat
        /\ DOMAIN Append(s, e) = 1..(Len(s) + 1)
    BY AppendProperties, LenProperties
  <1>2. /\ \A i \in 1..Len(s) : Append(s, e)[i] = s[i]
        /\ Append(s, e)[Len(s) + 1] = e
    BY AppendProperties
  <1>3. 1..(Len(s) + 1) = 1..Len(s) \cup {Len(s) + 1}
    BY <1>1
  <1> QED
    BY <1>1, <1>2, <1>3 DEF Elements

LEMMA ElementsOfTail ==
    ASSUME NEW S, NEW s \in Seq(S), s # <<>>
    PROVE  Elements(Tail(s)) \subseteq Elements(s)
  <1>1. /\ DOMAIN s = 1..Len(s) /\ Len(s) \in Nat \ {0}
        /\ DOMAIN Tail(s) = 1..(Len(s) - 1)
        /\ \A i \in 1..(Len(s) - 1) : Tail(s)[i] = s[i + 1]
    BY HeadTailProperties, LenProperties, EmptySeq
  <1>2. ASSUME NEW i \in 1..(Len(s) - 1) PROVE i + 1 \in 1..Len(s)
    BY <1>1, <1>2
  <1> QED
    BY <1>1, <1>2 DEF Elements

(* A prompt takes at most the first line off the wire.                     *)
LEMMA SpeechAndTheWire ==
    ASSUME TypeOK, SpeaksInOrder, ConstantsAssumption, NEW o \in Lines \cup {Game}, Says(o)
    PROVE  \/ wire' = wire
           \/ wire # <<>> /\ wire' = Tail(wire)
  <1>1. CASE Text(o)
    BY <1>1 DEF Text
  <1>2. CASE PromptSpent(o) \/ PromptUnclaimed(o) \/ PromptForWindow(o)
    <2>1. EndOfReply(o)
      BY <1>2 DEF PromptSpent, PromptUnclaimed, PromptForWindow
    <2> QED
      BY <2>1, EndOfReplyType
  <1> QED
    BY <1>1, <1>2 DEF Says

(* The exit command is the last line a connection writes, whatever is      *)
(* queued, typed or sent at once behind it.                                *)
THEOREM ExitIsLast == Spec => NothingAfterQuit
  <1>1. TypeOK /\ SpeaksInOrder /\ [Next]_vars
            => [quitting => Len(wire') <= Len(wire)]_vars
    <2> SUFFICES ASSUME TypeOK, SpeaksInOrder, [Next]_vars, quitting
                 PROVE  Len(wire') <= Len(wire)
      OBVIOUS
    <2>1. Len(wire) \in Nat
      BY LenProperties DEF TypeOK
    <2>2. wire' = wire \/ (wire # <<>> /\ wire' = Tail(wire))
      BY ConstantsAssumption, WireStep, SpeechAndTheWire DEF Writes
    <2>3. wire # <<>> => Len(Tail(wire)) = Len(wire) - 1
      BY HeadTailProperties DEF TypeOK
    <2> QED
      BY <2>1, <2>2, <2>3
  <1> QED
    BY <1>1, TypeCorrect, PTL DEF Spec, NothingAfterQuit

(* A line nobody waits for any more is never written.                      *)
THEOREM WithdrawnStaysUnsent == Spec => WithdrawnIsNotSent
  <1> DEFINE Kept == \A l \in Lines : Gone(l) /\ l \notin Elements(wire)
                         => l \notin Elements(wire')
  <1>1. TypeOK /\ SpeaksInOrder /\ [Next]_vars => [Kept]_vars
    <2> SUFFICES ASSUME TypeOK, SpeaksInOrder, [Next]_vars,
                        NEW l \in Lines, Gone(l), l \notin Elements(wire)
                 PROVE  l \notin Elements(wire')
      OBVIOUS
    <2>1. CASE \E k \in Lines : Writes(k)
      BY <2>1, ElementsOfAppend DEF TypeOK, Writes
    <2>2. CASE wire' = wire \/ (wire # <<>> /\ wire' = Tail(wire))
      BY <2>2, ElementsOfTail DEF TypeOK
    <2> QED
      BY <2>1, <2>2, ConstantsAssumption, WireStep, SpeechAndTheWire
  <1> QED
    BY <1>1, TypeCorrect, PTL DEF Spec, WithdrawnIsNotSent

(* The first queue holds the player's lines alone.                         *)
ManualIsThePlayers == manual \in Seq(Commands \ Held)

LEMMA ManualIsThePlayersStep ==
    ASSUME TypeOK, ManualIsThePlayers, [Next]_vars
    PROVE  ManualIsThePlayers'
  <1> USE DEF ManualIsThePlayers, queues, window, ledger, exits, game
  <1>1. CASE manual' = manual \/ manual' = <<>>
    <2>1. <<>> \in Seq(Commands \ Held)
      OBVIOUS
    <2> QED
      BY <1>1, <2>1
  <1>2. CASE \E c \in Commands \ Held : manual' = Append(manual, c)
    BY <1>2, AppendProperties
  <1>3. CASE manual # <<>> /\ manual' = Tail(manual)
    BY <1>3, HeadTailProperties
  <1>4. CASE Pump
    BY <1>1, <1>3, <1>4
    DEF Pump, Abandon, SkipWithdrawn, TurnAway, Write, WriteFails, EndConnection,
        PumpEnds, PumpAfterQuit, Pop, ManualIsNext
  <1>5. CASE TakeMessage
    <2>1. CASE TakeCommand
      <3>1. Head(inbox) \in Commands
        BY <2>1 DEF TakeCommand
      <3> QED
        BY <1>1, <1>2, <2>1, <3>1
        DEF TakeCommand, Ignore, MistargetedTag, AnswerOnly, JoinOrWriteQuit,
            EndConnection, Admit
    <2>2. CASE TakeInstant
      BY <1>1, <2>2
      DEF TakeInstant, Ignore, MistargetedTag, AnswerOnly, JoinOrWriteQuit,
          EndConnection, WriteInstant, WriteFails
    <2>3. CASE TakeQuit
      BY <1>1, <2>3 DEF TakeQuit, JoinOrWriteQuit, EndConnection
    <2> QED
      BY <1>5, <2>1, <2>2, <2>3 DEF TakeMessage
  <1>6. CASE Speech
    BY <1>1, <1>6
    DEF Speech, Text, PromptSpent, PromptUnclaimed, PromptForWindow, EndOfReply
  <1>7. CASE Callers
    BY <1>1, <1>7 DEF Callers, Submit, AskToQuit, GiveUp, PassAuthority
  <1>8. CASE Wake \/ ExpireWindow \/ LapseAnswer \/ LapsePrompt \/ ReadEnds
              \/ Sweep \/ PeerEnds \/ Cancel
    BY <1>1, <1>8
    DEF Wake, ExpireWindow, LapseAnswer, LapsePrompt, ReadEnds, Sweep, PeerEnds,
        Cancel, EndConnection
  <1>9. CASE UNCHANGED vars
    BY <1>1, <1>9 DEF vars
  <1> QED
    BY <1>4, <1>5, <1>6, <1>7, <1>8, <1>9 DEF Next

(* No line of a behavior is written while a line the player still waits    *)
(* for is queued.                                                          *)
THEOREM PlayerGoesFirst == Spec => PlayerFirst
  <1> DEFINE Inv == TypeOK /\ SpeaksInOrder /\ ManualIsThePlayers
             First == \A c \in Held \cap Commands :
                          c \notin Elements(wire) /\ c \in Elements(wire')
                              => \A m \in Elements(manual) : Gone(m)
  <1>1. Init => ManualIsThePlayers
    BY EmptySeq DEF Init, ManualIsThePlayers
  <1>2. TypeOK /\ ManualIsThePlayers /\ [Next]_vars => ManualIsThePlayers'
    BY ManualIsThePlayersStep
  <1>3. Inv /\ [Next]_vars => [First]_vars
    <2> SUFFICES ASSUME Inv, [Next]_vars, NEW c \in Held \cap Commands,
                        c \notin Elements(wire), c \in Elements(wire')
                 PROVE  Elements(manual) = {}
      OBVIOUS
    <2>1. ~(wire' = wire \/ (wire # <<>> /\ wire' = Tail(wire)))
      BY ElementsOfTail DEF TypeOK
    <2>2. PICK l \in Lines : Writes(l)
      BY <2>1, ConstantsAssumption, WireStep, SpeechAndTheWire
    <2>3. c = l
      BY <2>2, ElementsOfAppend DEF Writes, TypeOK
    <2>4. Queued /\ c = Next1
      BY <2>2, <2>3 DEF Writes
    <2>5. manual = <<>>
      <3>1. manual # <<>> => Head(manual) \in Commands \ Held
        BY HeadTailProperties DEF ManualIsThePlayers
      <3> QED
        BY <2>4, <3>1 DEF Next1, ManualIsNext
    <2>6. DOMAIN manual = {}
      BY <2>5
    <2> QED
      BY <2>6 DEF Elements
  <1> QED
    BY <1>1, <1>2, <1>3, TypeCorrect, PTL DEF Spec, PlayerFirst

-----------------------------------------------------------------------------
(* Sequences that are joined.                                              *)

LEMMA NothingBetween ==
    ASSUME NEW S, NEW b \in Seq(S)
    PROVE  b \o <<>> \o <<>> = b
  BY ConcatEmptySeq

(* The first of what is owed ahead of the window is the first on the wire. *)
LEMMA FirstOwed ==
    ASSUME NEW S, NEW b \in Seq(S), NEW w \in Seq(S), NEW a \in Seq(S), b # <<>>
    PROVE  Tail(b \o w \o a) = Tail(b) \o w \o a
  <1>1. \A t \in Seq(S) : Tail(b \o t) = Tail(b) \o t
    <2> TAKE t \in Seq(S)
    <2>1. /\ Tail(b) \in Seq(S) /\ Len(Tail(b)) = Len(b) - 1 /\ Len(b) \in Nat \ {0}
          /\ \A i \in 1..Len(Tail(b)) : Tail(b)[i] = b[i + 1]
      BY HeadTailProperties, EmptySeq
    <2>2. /\ b \o t \in Seq(S) /\ Len(b \o t) = Len(b) + Len(t) /\ Len(t) \in Nat
          /\ \A i \in 1..(Len(b) + Len(t)) :
                 (b \o t)[i] = IF i <= Len(b) THEN b[i] ELSE t[i - Len(b)]
      BY ConcatProperties, LenProperties
    <2>3. b \o t # <<>>
      BY <2>1, <2>2
    <2>4. /\ Tail(b \o t) \in Seq(S) /\ Len(Tail(b \o t)) = Len(b) + Len(t) - 1
          /\ \A i \in 1..Len(Tail(b \o t)) : Tail(b \o t)[i] = (b \o t)[i + 1]
      BY <2>2, <2>3, HeadTailProperties
    <2>5. /\ Tail(b) \o t \in Seq(S) /\ Len(Tail(b) \o t) = Len(b) - 1 + Len(t)
          /\ \A i \in 1..(Len(b) - 1 + Len(t)) :
                 (Tail(b) \o t)[i] = IF i <= Len(b) - 1 THEN Tail(b)[i] ELSE t[i - (Len(b) - 1)]
      BY <2>1, ConcatProperties
    <2>6. ASSUME NEW i \in 1..(Len(b) - 1 + Len(t))
          PROVE  Tail(b \o t)[i] = (Tail(b) \o t)[i]
      <3>1. /\ i \in Nat \ {0} /\ i <= Len(b) - 1 + Len(t)
            /\ i + 1 \in 1..(Len(b) + Len(t))
        BY <2>1, <2>2
      <3>2. Tail(b \o t)[i] = IF i + 1 <= Len(b) THEN b[i + 1] ELSE t[i + 1 - Len(b)]
        BY <2>2, <2>4, <3>1
      <3>3. CASE i + 1 <= Len(b)
        <4>1. i \in 1..Len(Tail(b)) /\ i <= Len(b) - 1
          BY <2>1, <3>1, <3>3
        <4> QED
          BY <2>1, <2>5, <3>2, <3>3, <4>1
      <3>4. CASE ~(i + 1 <= Len(b))
        <4>1. ~(i <= Len(b) - 1) /\ i + 1 - Len(b) = i - (Len(b) - 1)
          BY <2>1, <3>1, <3>4
        <4> QED
          BY <2>5, <3>2, <3>4, <4>1
      <3> QED
        BY <3>3, <3>4
    <2>7. Len(Tail(b \o t)) = Len(Tail(b) \o t)
      BY <2>1, <2>2, <2>4, <2>5
    <2> QED
      BY <2>1, <2>2, <2>4, <2>5, <2>6, <2>7, SeqEqual
  <1>2. w \o a \in Seq(S)
    BY ConcatProperties
  <1>3. (b \o w) \o a = b \o (w \o a)
    BY ConcatAssociative
  <1>4. Tail(b) \in Seq(S)
    BY HeadTailProperties
  <1>5. (Tail(b) \o w) \o a = Tail(b) \o (w \o a)
    BY <1>4, ConcatAssociative
  <1> QED
    BY <1>1, <1>2, <1>3, <1>5

(* To append to the last of two sequences is to append to both.            *)
LEMMA AppendBehind ==
    ASSUME NEW S, NEW s \in Seq(S), NEW t \in Seq(S), NEW e \in S
    PROVE  s \o Append(t, e) = Append(s \o t, e)
  <1>1. <<e>> \in Seq(S) /\ s \o t \in Seq(S)
    BY ConcatProperties
  <1>2. Append(t, e) = t \o <<e>> /\ Append(s \o t, e) = (s \o t) \o <<e>>
    BY <1>1, AppendIsConcat
  <1>3. (s \o t) \o <<e>> = s \o (t \o <<e>>)
    BY <1>1, ConcatAssociative
  <1> QED
    BY <1>2, <1>3

(* With nothing owed ahead of it, the window's line is first on the wire.  *)
LEMMA FirstIsTheWindow ==
    ASSUME NEW S, NEW f \in S, NEW a \in Seq(S)
    PROVE  /\ Head(<<>> \o <<f>> \o a) = f
           /\ Tail(<<>> \o <<f>> \o a) = a
  <1>1. <<f>> \in Seq(S) /\ Len(<<f>>) = 1 /\ <<f>>[1] = f /\ <<f>> # <<>>
    OBVIOUS
  <1>2. <<>> \o <<f>> = <<f>>
    BY <1>1, ConcatEmptySeq
  <1>3. /\ <<f>> \o a \in Seq(S) /\ Len(<<f>> \o a) = 1 + Len(a) /\ Len(a) \in Nat
        /\ \A i \in 1..(1 + Len(a)) :
               (<<f>> \o a)[i] = IF i <= 1 THEN <<f>>[i] ELSE a[i - 1]
    BY <1>1, ConcatProperties, LenProperties
  <1>4. Head(<<f>> \o a) = f
    BY <1>1, <1>3
  <1>5. Tail(<<f>> \o a) = a
    <2>1. <<f>> \o a # <<>>
      BY <1>3
    <2>2. /\ Tail(<<f>> \o a) \in Seq(S) /\ Len(Tail(<<f>> \o a)) = Len(a)
          /\ \A i \in 1..Len(a) : Tail(<<f>> \o a)[i] = (<<f>> \o a)[i + 1]
      BY <1>3, <2>1, HeadTailProperties
    <2>3. ASSUME NEW i \in 1..Len(a) PROVE (<<f>> \o a)[i + 1] = a[i]
      BY <1>3
    <2> QED
      BY <2>2, <2>3, SeqEqual
  <1> QED
    BY <1>2, <1>4, <1>5

-----------------------------------------------------------------------------
(* The ledger, the wire and whose reply ends a round trip.                 *)

(* No command names what answers it, the game speaks only when asked, and  *)
(* what is owed does not lapse.                                            *)
Plain == Asking = {} /\ ~Unasked /\ ~OwedLapses

(* The window's matcher took nothing but its own line's frame.             *)
OwnFrame == matched \in {Nobody, flight} /\ speaker # Game

(* Every verdict was decided by the command's own reply: OwnReply, with no *)
(* exception for replies given up on, since none is.                       *)
OwnCredit == \A c \in Commands : credit[c] \subseteq {c}

LedgerInv == LedgerIsTheWire /\ OwedBehindAWindow /\ OwnFrame /\ OwnCredit

(* The lines owed, in order, with the open window's among them.            *)
Between == IF WindowIsOpen THEN <<flight>> ELSE <<>>

LEMMA BetweenType ==
    ASSUME TypeOK
    PROVE  Between \in Seq(Lines)
  <1>1. CASE WindowIsOpen
    <2>1. flight \in Lines
      BY <1>1 DEF TypeOK, WindowIsOpen, Lines
    <2>2. <<flight>> \in Seq(Lines)
      BY <2>1
    <2> QED
      BY <1>1, <2>2 DEF Between
  <1>2. CASE ~WindowIsOpen
    <2>1. <<>> \in Seq(Lines)
      OBVIOUS
    <2> QED
      BY <1>2, <2>1 DEF Between
  <1> QED
    BY <1>1, <1>2

(* A step that leaves the window, the ledger and the wire alone.           *)
Apart ==
    /\ UNCHANGED <<wire, speaker, before, after, flight, matched, credit>>
    /\ quitting => quitting'
    /\ Ended => Ended'

LEMMA ApartStep ==
    ASSUME TypeOK, LedgerInv, Apart
    PROVE  LedgerInv'
  <1>1. WindowIsOpen' <=> WindowIsOpen
    BY DEF Apart, WindowIsOpen
  <1>2. LedgerIsTheWire'
    BY <1>1 DEF Apart, LedgerInv, LedgerIsTheWire
  <1>3. OwedBehindAWindow'
    BY <1>1 DEF Apart, LedgerInv, OwedBehindAWindow
  <1> QED
    BY <1>2, <1>3 DEF Apart, LedgerInv, OwnFrame, OwnCredit

(* The end of the connection closes the books.                             *)
LEMMA EndStep ==
    ASSUME LedgerInv, NEW end \in {"lost", "closed"}, NEW farewell, NEW also, NEW verdict,
           EndConnection(end, farewell, also, verdict)
    PROVE  LedgerInv'
  <1>1. Ended' /\ matched' = Nobody /\ UNCHANGED <<speaker, credit>>
    BY DEF EndConnection, Ended, game
  <1> QED
    BY <1>1
    DEF LedgerInv, LedgerIsTheWire, OwedBehindAWindow, OwnFrame, OwnCredit

LEMMA JoinOrWriteQuitStep ==
    ASSUME TypeOK, LedgerInv, phase = "select", NEW l, NEW v, NEW f,
           JoinOrWriteQuit(l, v, f)
    PROVE  LedgerInv'
  <1>1. CASE EndConnection("closed", "Unsent", {l}, f)
    BY <1>1, EndStep
  <1>2. CASE ~EndConnection("closed", "Unsent", {l}, f)
    <2>1. Apart
      BY <1>2 DEF JoinOrWriteQuit, Apart, Ended, window, ledger, game
    <2> QED
      BY <2>1, ApartStep
  <1> QED
    BY <1>1, <1>2

LEMMA CallersLedger ==
    ASSUME TypeOK, LedgerInv, Callers
    PROVE  LedgerInv'
  <1>1. Apart
    BY DEF Callers, Submit, AskToQuit, GiveUp, PassAuthority, Apart, Ended,
           window, ledger, exits, game
  <1> QED
    BY <1>1, ApartStep

(* Dropping a window moves its prompt to those owed ahead of the next.     *)
LEMMA AbandonLedger ==
    ASSUME TypeOK, ConstantsAssumption, LedgerInv, Abandon
    PROVE  LedgerInv'
  <1>1. /\ before' = before \o <<flight>> \o after /\ after' = <<>>
        /\ ~WindowIsOpen' /\ flight' = Nobody /\ matched' = Nobody
        /\ UNCHANGED <<wire, speaker, credit, quitting, phase>>
    BY DEF Abandon, OweAbandoned, CloseFlight, WindowIsOpen, exits, game
  <1>2. WindowIsOpen /\ ~Ended /\ flight \in Lines
    BY DEF Abandon, Ended, TypeOK, WindowIsOpen, Lines
  <1>3. wire = before \o <<flight>> \o after
    BY <1>2 DEF LedgerInv, LedgerIsTheWire
  <1>4. <<flight>> \in Seq(Lines) /\ before \o <<flight>> \in Seq(Lines)
        /\ before \o <<flight>> \o after \in Seq(Lines)
    BY <1>2, ConcatProperties DEF TypeOK
  <1>5. wire' = before' \o <<>> \o after'
    BY <1>1, <1>3, <1>4, NothingBetween
  <1>6. LedgerIsTheWire' /\ OwedBehindAWindow'
    BY <1>1, <1>5 DEF LedgerIsTheWire, OwedBehindAWindow
  <1> QED
    BY <1>1, <1>6 DEF LedgerInv, OwnFrame, OwnCredit

(* A written command's window opens behind everything that is owed.        *)
LEMMA WriteLedger ==
    ASSUME TypeOK, ConstantsAssumption, LedgerInv, Write
    PROVE  LedgerInv'
  <1>1. CASE WriteFails(Next1)
    BY <1>1, EndStep DEF WriteFails
  <1>2. CASE ~WriteFails(Next1)
    <2>1. /\ flight' = Next1 /\ matched' = Nobody /\ wire' = Append(wire, Next1)
          /\ UNCHANGED <<before, after, credit, speaker, phase, quitting>>
      BY <1>2 DEF Write, ledger, exits
    <2>2. ~Ended /\ ~quitting /\ ~WindowIsOpen /\ Next1 \in Commands /\ Next1 \in Lines
      BY NextIsACommand DEF Write, Pumping, Ended, Lines
    <2>3. WindowIsOpen'
      BY <2>1, <2>2 DEF WindowIsOpen, ConstantsAssumption, Calls
    <2>4. after = <<>>
      BY <2>2 DEF LedgerInv, OwedBehindAWindow
    <2>5. wire = before
      BY <2>2, <2>4, NothingBetween DEF LedgerInv, LedgerIsTheWire, TypeOK
    <2>6. <<Next1>> \in Seq(Lines) /\ before \o <<Next1>> \in Seq(Lines)
      BY <2>2, ConcatProperties DEF TypeOK
    <2>7. wire' = before \o <<Next1>>
      BY <2>1, <2>2, <2>5, AppendIsConcat DEF TypeOK
    <2>8. wire' = before' \o <<flight'>> \o after'
      BY <2>1, <2>4, <2>6, <2>7, ConcatEmptySeq
    <2>9. LedgerIsTheWire' /\ OwedBehindAWindow'
      BY <2>3, <2>8 DEF LedgerIsTheWire, OwedBehindAWindow
    <2> QED
      BY <2>1, <2>9 DEF LedgerInv, OwnFrame, OwnCredit
  <1> QED
    BY <1>1, <1>2

LEMMA PumpLedger ==
    ASSUME TypeOK, ConstantsAssumption, LedgerInv, Pump
    PROVE  LedgerInv'
  <1>1. CASE SkipWithdrawn \/ TurnAway \/ PumpEnds
    <2>1. Apart
      BY <1>1 DEF SkipWithdrawn, TurnAway, PumpEnds, Pumping, Apart, Ended,
                  window, ledger, exits, game
    <2> QED
      BY <2>1, ApartStep
  <1>2. CASE PumpAfterQuit
    <2>1. quitting' /\ UNCHANGED <<wire, speaker, before, after, credit>>
          /\ phase = "pump" /\ phase' = "select" /\ quitting
      BY <1>2 DEF PumpAfterQuit, ledger, exits, game
    <2>2. \/ UNCHANGED <<flight, matched>>
          \/ flight' = Nobody /\ matched' = Nobody
      BY <1>2 DEF PumpAfterQuit, CloseFlight, window
    <2>3. LedgerIsTheWire'
      BY <2>1, <2>2 DEF LedgerInv, LedgerIsTheWire, WindowIsOpen, Ended
    <2> QED
      BY <2>1, <2>2, <2>3
      DEF LedgerInv, OwedBehindAWindow, OwnFrame, OwnCredit
  <1> QED
    BY <1>1, <1>2, AbandonLedger, WriteLedger DEF Pump

(* An instant action is owed behind the open window, or ahead of the next. *)
LEMMA WriteInstantLedger ==
    ASSUME TypeOK, LedgerInv, phase = "select", ~quitting,
           NEW i \in Instants, WriteInstant(i)
    PROVE  LedgerInv'
  <1>1. CASE WriteFails(i)
    BY <1>1, EndStep DEF WriteFails
  <1>2. CASE ~WriteFails(i)
    <2>1. /\ wire' = Append(wire, i) /\ OweInstant(i)
          /\ UNCHANGED <<flight, matched, credit, speaker, quitting>>
          /\ ~Ended
      BY <1>2 DEF WriteInstant, window, exits, Ended
    <2>2. i \in Lines /\ (WindowIsOpen' <=> WindowIsOpen)
      BY <2>1 DEF Lines, WindowIsOpen
    <2>3. wire = before \o Between \o after
      BY <2>1 DEF LedgerInv, LedgerIsTheWire, Between
    <2>4. CASE WindowIsOpen
      <3>1. before' = before /\ after' = Append(after, i)
        BY <2>1, <2>4 DEF OweInstant
      <3>2. wire' = before \o Between \o Append(after, i)
        <4>1. before \in Seq(Lines) /\ after \in Seq(Lines) /\ Between \in Seq(Lines)
          BY BetweenType DEF TypeOK
        <4>2. before \o Between \in Seq(Lines)
          BY <4>1, ConcatProperties
        <4>3. (before \o Between) \o Append(after, i) = Append((before \o Between) \o after, i)
          BY <2>2, <4>1, <4>2, AppendBehind
        <4> QED
          BY <2>1, <2>3, <4>3
      <3>3. LedgerIsTheWire' /\ OwedBehindAWindow'
        BY <2>1, <2>2, <2>4, <3>1, <3>2 DEF LedgerIsTheWire, OwedBehindAWindow, Between
      <3> QED
        BY <2>1, <3>3 DEF LedgerInv, OwnFrame, OwnCredit
    <2>5. CASE ~WindowIsOpen
      <3>1. before' = Append(before, i) /\ after' = after /\ after = <<>>
        BY <2>1, <2>5 DEF OweInstant, LedgerInv, OwedBehindAWindow
      <3>2. wire = before
        BY <2>3, <2>5, <3>1, NothingBetween DEF Between, TypeOK
      <3>3. Append(before, i) \in Seq(Lines)
        BY <2>2, AppendProperties DEF TypeOK
      <3>4. wire' = before' \o <<>> \o after'
        BY <2>1, <3>1, <3>2, <3>3, NothingBetween
      <3>5. LedgerIsTheWire' /\ OwedBehindAWindow'
        BY <2>2, <2>5, <3>1, <3>4 DEF LedgerIsTheWire, OwedBehindAWindow
      <3> QED
        BY <2>1, <3>5 DEF LedgerInv, OwnFrame, OwnCredit
    <2> QED
      BY <2>4, <2>5
  <1> QED
    BY <1>1, <1>2

LEMMA TakeMessageLedger ==
    ASSUME TypeOK, LedgerInv, TakeMessage
    PROVE  LedgerInv'
  <1>1. phase = "select"
    BY DEF TakeMessage, TakeCommand, TakeInstant, TakeQuit
  <1>2. ASSUME NEW l, NEW v, AnswerOnly(l, v) PROVE LedgerInv'
    <2>1. Apart
      BY <1>1, <1>2 DEF AnswerOnly, Apart, Ended, window, ledger, exits, game
    <2> QED
      BY <2>1, ApartStep
  <1>3. ASSUME Ignore PROVE LedgerInv'
    <2>1. Apart
      BY <1>1, <1>3 DEF Ignore, Apart, Ended, window, ledger, exits, game
    <2> QED
      BY <2>1, ApartStep
  <1>4. ASSUME NEW c, Admit(c) PROVE LedgerInv'
    <2>1. Apart
      BY <1>1, <1>4 DEF Admit, AnswerOnly, Apart, Ended, window, ledger, exits, game
    <2> QED
      BY <2>1, ApartStep
  <1>5. CASE TakeCommand
    BY <1>1, <1>2, <1>3, <1>4, <1>5, JoinOrWriteQuitStep DEF TakeCommand, MistargetedTag
  <1>6. CASE TakeInstant
    <2>1. Head(inbox) \in Instants
      BY <1>6 DEF TakeInstant
    <2> QED
      BY <1>1, <1>2, <1>3, <1>6, <2>1, JoinOrWriteQuitStep, WriteInstantLedger
      DEF TakeInstant, MistargetedTag, InstantMayGo
  <1>7. CASE TakeQuit
    BY <1>1, <1>7, JoinOrWriteQuitStep DEF TakeQuit
  <1> QED
    BY <1>5, <1>6, <1>7 DEF TakeMessage

(* A line of a reply is offered to the window only when the reply is the   *)
(* window's own.                                                           *)
LEMMA TextLedger ==
    ASSUME TypeOK, SpeaksInOrder, ConstantsAssumption, Plain, LedgerInv,
           NEW o \in Lines \cup {Game}, Text(o)
    PROVE  LedgerInv'
  <1>1. /\ UNCHANGED <<wire, before, after, flight, credit, quitting>>
        /\ speaker' = o /\ ~Ended /\ ~Ended' /\ Speaks(o)
    BY DEF Text, Speaks, Ended, ledger, exits
  <1>2. Nobody \notin Lines /\ Game \notin Lines /\ Nobody # Game
    BY DEF ConstantsAssumption, Calls
  <1>3. wire # <<>> /\ o = Head(wire) /\ o \in Lines
    <2>1. wire # <<>> => Head(wire) \in Lines
      BY HeadTailProperties DEF TypeOK
    <2>2. speaker # Game
      BY DEF LedgerInv, OwnFrame
    <2> QED
      BY <1>1, <1>2, <2>1, <2>2 DEF Speaks, SpeaksInOrder, Plain, TypeOK
  <1>4. matched' \in {matched, o} /\ (matched' # matched => WindowIsOpen /\ before = <<>>)
    BY DEF Text, Offer, WindowIsAnsweredNext
  <1>5. WindowIsOpen /\ before = <<>> => o = flight
    <2> SUFFICES ASSUME WindowIsOpen, before = <<>>
                 PROVE  o = flight
      OBVIOUS
    <2>1. wire = <<>> \o <<flight>> \o after
      BY <1>1 DEF LedgerInv, LedgerIsTheWire
    <2>2. flight \in Lines /\ after \in Seq(Lines)
      BY DEF TypeOK, WindowIsOpen, Lines
    <2> QED
      BY <1>3, <2>1, <2>2, FirstIsTheWindow
  <1>6. matched' \in {Nobody, flight'} /\ speaker' # Game
    BY <1>1, <1>2, <1>3, <1>4, <1>5 DEF LedgerInv, OwnFrame
  <1>7. WindowIsOpen' <=> WindowIsOpen
    BY <1>1 DEF WindowIsOpen
  <1>8. LedgerIsTheWire' /\ OwedBehindAWindow'
    BY <1>1, <1>7 DEF LedgerInv, LedgerIsTheWire, OwedBehindAWindow
  <1> QED
    BY <1>1, <1>6, <1>8 DEF LedgerInv, OwnFrame, OwnCredit

(* The end of a reply under Plain: its line was the first on the wire.     *)
LEMMA EndOfReplyLedger ==
    ASSUME TypeOK, SpeaksInOrder, ConstantsAssumption, Plain, LedgerInv,
           NEW o \in Lines \cup {Game}, EndOfReply(o)
    PROVE  /\ wire # <<>> /\ o = Head(wire) /\ o \in Lines /\ wire' = Tail(wire)
           /\ speaker' # Game /\ ~Ended /\ ~Ended' /\ quitting' = quitting
  <1>1. Nobody # Game
    BY DEF ConstantsAssumption
  <1>2. o # Game
    BY EndOfReplyType DEF Plain, LedgerInv, OwnFrame
  <1>3. speaker' # Game /\ ~Ended /\ ~Ended' /\ quitting' = quitting
    BY <1>1 DEF EndOfReply, Speaks, Ended, exits
  <1> QED
    BY <1>2, <1>3, EndOfReplyType

(* A prompt owed ahead of the window's is its line's.                      *)
LEMMA PromptSpentLedger ==
    ASSUME TypeOK, SpeaksInOrder, ConstantsAssumption, Plain, LedgerInv,
           NEW o \in Lines \cup {Game}, PromptSpent(o)
    PROVE  LedgerInv'
  <1>1. /\ wire' = Tail(wire) /\ speaker' # Game /\ ~Ended /\ ~Ended'
        /\ quitting' = quitting
    BY EndOfReplyLedger DEF PromptSpent
  <1>2. /\ before # <<>> /\ before' = Tail(before)
        /\ UNCHANGED <<after, flight, matched, credit>>
    BY DEF PromptSpent, window
  <1>3. (WindowIsOpen' <=> WindowIsOpen) /\ Between' = Between
    BY <1>2 DEF WindowIsOpen, Between
  <1>4. WindowIsOpen \/ ~quitting => wire' = before' \o Between \o after'
    <2> SUFFICES ASSUME WindowIsOpen \/ ~quitting
                 PROVE  wire' = before' \o Between \o after'
      OBVIOUS
    <2>1. wire = before \o Between \o after
      BY <1>1 DEF LedgerInv, LedgerIsTheWire, Between
    <2>2. before \in Seq(Lines) /\ after \in Seq(Lines) /\ Between \in Seq(Lines)
      BY BetweenType DEF TypeOK
    <2>3. Tail(before \o Between \o after) = Tail(before) \o Between \o after
      BY <1>2, <2>2, FirstOwed
    <2> QED
      BY <1>1, <1>2, <2>1, <2>3
  <1>5. LedgerIsTheWire' /\ OwedBehindAWindow'
    BY <1>1, <1>2, <1>3, <1>4 DEF LedgerInv, LedgerIsTheWire, OwedBehindAWindow, Between
  <1> QED
    BY <1>1, <1>2, <1>5 DEF LedgerInv, OwnFrame, OwnCredit

(* With nothing owed and no window there is nothing to answer, unless the  *)
(* books were closed by the exit.                                          *)
LEMMA PromptUnclaimedLedger ==
    ASSUME TypeOK, SpeaksInOrder, ConstantsAssumption, Plain, LedgerInv,
           NEW o \in Lines \cup {Game}, PromptUnclaimed(o)
    PROVE  LedgerInv'
  <1>1. /\ wire # <<>> /\ speaker' # Game /\ ~Ended /\ quitting' = quitting
    BY EndOfReplyLedger DEF PromptUnclaimed
  <1>2. /\ before = <<>> /\ ~WindowIsOpen
        /\ UNCHANGED <<before, after, flight, matched, credit>>
    BY DEF PromptUnclaimed, window, ledger
  <1>3. quitting
    <2> SUFFICES ASSUME ~quitting
                 PROVE  FALSE
      OBVIOUS
    <2>1. after = <<>>
      BY <1>1, <1>2 DEF LedgerInv, OwedBehindAWindow
    <2>2. wire = <<>> \o <<>> \o <<>>
      BY <1>1, <1>2, <2>1 DEF LedgerInv, LedgerIsTheWire
    <2>3. <<>> \in Seq(Lines)
      OBVIOUS
    <2> QED
      BY <1>1, <2>2, <2>3, NothingBetween
  <1>4. LedgerIsTheWire' /\ OwedBehindAWindow'
    BY <1>1, <1>2, <1>3 DEF LedgerIsTheWire, OwedBehindAWindow, WindowIsOpen
  <1> QED
    BY <1>1, <1>2, <1>4 DEF LedgerInv, OwnFrame, OwnCredit

(* The window's own prompt closes it, and what was owed behind it is owed  *)
(* ahead of the next.                                                      *)
LEMMA PromptForWindowLedger ==
    ASSUME TypeOK, SpeaksInOrder, ConstantsAssumption, Plain, LedgerInv,
           NEW o \in Lines \cup {Game}, PromptForWindow(o)
    PROVE  LedgerInv'
  <1>1. /\ wire # <<>> /\ o = Head(wire) /\ wire' = Tail(wire)
        /\ speaker' # Game /\ ~Ended /\ ~Ended' /\ quitting' = quitting
    BY EndOfReplyLedger DEF PromptForWindow
  <1>2. /\ before = <<>> /\ WindowIsOpen /\ before' = after /\ after' = <<>>
        /\ Resolve(o)
    BY DEF PromptForWindow, Plain
  <1>3. flight \in Lines /\ flight \in Commands /\ after \in Seq(Lines)
    BY <1>2 DEF TypeOK, WindowIsOpen, Lines
  <1>4. wire = <<>> \o <<flight>> \o after
    BY <1>1, <1>2 DEF LedgerInv, LedgerIsTheWire
  <1>5. o = flight /\ wire' = after
    BY <1>1, <1>3, <1>4, FirstIsTheWindow
  <1>6. /\ flight' = Nobody /\ matched' = Nobody
        /\ credit' = [credit EXCEPT ![flight] = {matched, flight} \ {Nobody}]
    BY <1>2, <1>5 DEF Resolve, CloseFlight, Plain
  <1>7. OwnCredit'
    <2>1. {matched, flight} \ {Nobody} \subseteq {flight}
      BY DEF LedgerInv, OwnFrame
    <2>2. ASSUME NEW c \in Commands PROVE credit'[c] \subseteq {c}
      <3>1. CASE c = flight
        <4>1. credit'[c] = {matched, flight} \ {Nobody}
          BY <1>3, <1>6, <3>1 DEF TypeOK
        <4> QED
          BY <2>1, <3>1, <4>1
      <3>2. CASE c # flight
        <4>1. credit'[c] = credit[c]
          BY <1>6, <3>2 DEF TypeOK
        <4> QED
          BY <4>1 DEF LedgerInv, OwnCredit
      <3> QED
        BY <3>1, <3>2
    <2> QED
      BY <2>2 DEF OwnCredit
  <1>8. wire' = before' \o <<>> \o after'
    BY <1>2, <1>3, <1>5, NothingBetween
  <1>9. LedgerIsTheWire' /\ OwedBehindAWindow'
    BY <1>2, <1>6, <1>8 DEF LedgerIsTheWire, OwedBehindAWindow, WindowIsOpen
  <1> QED
    BY <1>1, <1>6, <1>7, <1>9 DEF LedgerInv, OwnFrame

LEMMA LoopLedger ==
    ASSUME TypeOK, Plain, LedgerInv,
           \/ Wake \/ ExpireWindow \/ LapseAnswer \/ LapsePrompt \/ ReadEnds
           \/ PeerEnds \/ Cancel \/ Sweep
    PROVE  LedgerInv'
  <1>1. ~ExpireWindow /\ ~LapseAnswer /\ ~LapsePrompt
    BY DEF Plain, ExpireWindow, LapseAnswer, LapsePrompt
  <1>2. CASE Wake \/ ReadEnds \/ Sweep
    <2>1. Apart
      BY <1>2 DEF Wake, ReadEnds, Sweep, Apart, Ended, window, ledger, exits, game
    <2> QED
      BY <2>1, ApartStep
  <1>3. CASE PeerEnds \/ Cancel
    BY <1>3, EndStep DEF PeerEnds, Cancel
  <1> QED
    BY <1>1, <1>2, <1>3

LEMMA LedgerStep ==
    ASSUME TypeOK, SpeaksInOrder, ConstantsAssumption, Plain, LedgerInv, [Next]_vars
    PROVE  LedgerInv'
  <1>1. CASE UNCHANGED vars
    <2>1. Apart
      BY <1>1 DEF vars, Apart, Ended, window, ledger, exits, game
    <2> QED
      BY <2>1, ApartStep
  <1>2. CASE Speech
    BY <1>2, TextLedger, PromptSpentLedger, PromptUnclaimedLedger, PromptForWindowLedger
    DEF Speech
  <1> QED
    BY <1>1, <1>2, CallersLedger, PumpLedger, TakeMessageLedger, LoopLedger DEF Next

LEMMA LedgerInit ==
    ASSUME ConstantsAssumption, Init
    PROVE  LedgerInv
  <1>1. <<>> \in Seq(Lines)
    OBVIOUS
  <1>2. <<>> \o <<>> \o <<>> = <<>>
    BY <1>1, NothingBetween
  <1> QED
    BY <1>2
    DEF Init, LedgerInv, LedgerIsTheWire, OwedBehindAWindow, OwnFrame, OwnCredit,
        WindowIsOpen, ConstantsAssumption

LEMMA LedgerHolds == Plain /\ Spec => []LedgerInv
  <1>1. Init => LedgerInv
    BY ConstantsAssumption, LedgerInit
  <1>2. TypeOK /\ SpeaksInOrder /\ (Plain /\ LedgerInv) /\ [Next]_vars
            => (Plain /\ LedgerInv)'
    BY ConstantsAssumption, LedgerStep DEF Plain
  <1> QED
    BY <1>1, <1>2, TypeCorrect, PTL DEF Spec

(* What is owed ahead of the window, the window's own line and what is     *)
(* owed behind it are the lines the game has yet to answer.                *)
THEOREM LedgerCorrect == Plain /\ Spec => [](LedgerIsTheWire /\ OwedBehindAWindow)
  <1>1. LedgerInv => LedgerIsTheWire /\ OwedBehindAWindow
    BY DEF LedgerInv
  <1> QED
    BY <1>1, LedgerHolds, PTL

(* Every round trip is decided by the reply to its own line, however many  *)
(* commands are abandoned and instant actions sent around it.              *)
THEOREM RepliesAreOwn == Plain /\ Spec => []OwnReply
  <1>1. LedgerInv => OwnReply
    BY DEF LedgerInv, OwnCredit, OwnReply
  <1> QED
    BY <1>1, LedgerHolds, PTL

-----------------------------------------------------------------------------
(* Answers owed keep late answers from the next command.                   *)

(* Every line that goes out names what answers it.                         *)
AllAsk == Commands = Asking /\ Instants \subseteq Exits

(* A window closes unanswered and MOST_OWED answers are owed already: the  *)
(* oldest is forgotten.                                                    *)
ForgetsOwed ==
    /\ WindowIsOpen /\ answer = Nobody /\ flight' = Nobody /\ ~Ended'
    /\ Len(owedAnswers) = MostOwed

One(b) == IF b THEN 1 ELSE 0

(* An answer is owed for every line on the wire but the window's and the   *)
(* one whose answer has come.                                              *)
OwedForTheRest == Len(wire) <= Len(owedAnswers) + One(told) + One(WindowIsOpen)

WindowIsLast == WindowIsOpen /\ wire # <<>> => wire[Len(wire)] = flight

(* A window that has its answer is the only line on the wire, in the middle *)
(* of its reply.                                                           *)
AnsweredNow ==
    answer # Nobody =>
        /\ WindowIsOpen /\ answer = flight
        /\ Len(wire) = 1 /\ speaker = flight /\ told
        /\ before = <<>>

ToldByALine == told => speaker \in Lines

AnswersInv ==
    /\ ToldByALine
    /\ ~gaveUp => /\ OwnCredit
                  /\ ~Ended => OwedForTheRest /\ WindowIsLast /\ AnsweredNow

LEMMA Lengths ==
    ASSUME TypeOK
    PROVE  /\ Len(wire) \in Nat /\ Len(owedAnswers) \in Nat
           /\ \A b : One(b) \in {0, 1}
           /\ One(TRUE) = 1 /\ One(FALSE) = 0
           /\ wire # <<>> => /\ Len(wire) >= 1 /\ Head(wire) = wire[1]
                             /\ Tail(wire) \in Seq(Lines)
                             /\ Len(Tail(wire)) = Len(wire) - 1
                             /\ \A i \in 1..(Len(wire) - 1) : Tail(wire)[i] = wire[i + 1]
  <1>1. wire \in Seq(Lines) /\ owedAnswers \in Seq(Asking)
    BY DEF TypeOK
  <1>2. Len(wire) \in Nat /\ Len(owedAnswers) \in Nat
    BY <1>1, LenProperties
  <1>3. wire # <<>> => /\ Len(wire) >= 1 /\ Head(wire) = wire[1]
                       /\ Tail(wire) \in Seq(Lines)
                       /\ Len(Tail(wire)) = Len(wire) - 1
                       /\ \A i \in 1..(Len(wire) - 1) : Tail(wire)[i] = wire[i + 1]
    BY <1>1, <1>2, EmptySeq, HeadTailProperties
  <1> QED
    BY <1>2, <1>3 DEF One

(* A step that leaves the wire, the window and what is owed alone.         *)
AnswersApart ==
    /\ UNCHANGED <<credit, flight, answer, owedAnswers, wire, speaker, told>>
    /\ before' = before \/ answer = Nobody
    /\ gaveUp => gaveUp'
    /\ Ended => Ended'

LEMMA AnswersApartStep ==
    ASSUME AnswersInv, AnswersApart
    PROVE  AnswersInv'
  BY DEF AnswersInv, AnswersApart, ToldByALine, OwnCredit, OwedForTheRest, WindowIsLast,
         AnsweredNow, WindowIsOpen

LEMMA AnswersEnd ==
    ASSUME AnswersInv, NEW end \in {"lost", "closed"}, NEW farewell, NEW also, NEW verdict,
           EndConnection(end, farewell, also, verdict)
    PROVE  AnswersInv'
  <1>1. Ended' /\ UNCHANGED <<told, speaker, credit, gaveUp>>
    BY DEF EndConnection, Ended, game
  <1> QED
    BY <1>1 DEF AnswersInv, ToldByALine, OwnCredit

(* A window that closes unanswered adds its command to those owed.         *)
LEMMA OwedGrows ==
    ASSUME TypeOK, ConstantsAssumption, AllAsk, OweUnanswered, CloseFlight, ~Ended',
           ~ForgetsOwed
    PROVE  /\ ~WindowIsOpen' /\ answer' = Nobody /\ flight' = Nobody
           /\ Len(owedAnswers') \in Nat
           /\ answer # Nobody => Len(owedAnswers') = Len(owedAnswers)
           /\ answer = Nobody => Len(owedAnswers') = Len(owedAnswers) + One(WindowIsOpen)
  <1>1. ~WindowIsOpen' /\ answer' = Nobody /\ flight' = Nobody
    BY DEF CloseFlight, WindowIsOpen
  <1>2. Len(owedAnswers) \in Nat /\ One(FALSE) = 0 /\ One(TRUE) = 1
    BY Lengths
  <1>3. CASE WindowIsOpen /\ answer = Nobody
    <2>1. flight \in Asking
      BY <1>3 DEF TypeOK, WindowIsOpen, AllAsk
    <2>2. owedAnswers' = Append(owedAnswers, flight)
      BY <1>1, <1>3, <2>1 DEF OweUnanswered, Owe, ForgetsOwed
    <2>3. Len(owedAnswers') = Len(owedAnswers) + 1
      BY <2>1, <2>2, AppendProperties DEF TypeOK
    <2>4. One(WindowIsOpen) = 1
      BY <1>3 DEF One
    <2>5. Len(owedAnswers') = Len(owedAnswers) + One(WindowIsOpen)
      BY <2>3, <2>4
    <2>6. Len(owedAnswers') \in Nat
      BY <1>2, <2>3
    <2> QED
      BY <1>1, <1>3, <2>5, <2>6
  <1>4. CASE ~(WindowIsOpen /\ answer = Nobody)
    <2>1. owedAnswers' = owedAnswers
      BY <1>4 DEF OweUnanswered, WindowIsOpen, ConstantsAssumption, Calls, Lines
    <2>2. answer = Nobody => One(WindowIsOpen) = 0
      BY <1>4 DEF One
    <2> QED
      BY <1>1, <1>2, <2>1, <2>2
  <1> QED
    BY <1>3, <1>4

(* A window closes between two prompts.                                    *)
LEMMA CloseAnswers ==
    ASSUME TypeOK, ConstantsAssumption, AllAsk, AnswersInv, ~ForgetsOwed,
           OweUnanswered, CloseFlight, ~Ended, ~Ended',
           UNCHANGED <<wire, speaker, told>>, gaveUp' = gaveUp,
           ~gaveUp => OwnCredit'
    PROVE  AnswersInv'
  <1> SUFFICES ASSUME ~gaveUp
               PROVE  OwedForTheRest' /\ WindowIsLast' /\ AnsweredNow'
    BY DEF AnswersInv, ToldByALine
  <1>1. /\ ~WindowIsOpen' /\ answer' = Nobody /\ Len(owedAnswers') \in Nat
        /\ answer # Nobody => Len(owedAnswers') = Len(owedAnswers)
        /\ answer = Nobody => Len(owedAnswers') = Len(owedAnswers) + One(WindowIsOpen)
    BY OwedGrows
  <1>2. /\ Len(wire) \in Nat /\ Len(owedAnswers) \in Nat
        /\ One(told) \in {0, 1} /\ One(WindowIsOpen) \in {0, 1}
    BY Lengths
  <1>3. One(told') = One(told) /\ One(WindowIsOpen') = 0
    BY <1>1 DEF One
  <1>4. answer # Nobody => Len(wire) = 1 /\ One(told) = 1
    BY DEF AnswersInv, AnsweredNow, One
  <1>5. Len(wire) <= Len(owedAnswers) + One(told) + One(WindowIsOpen)
    BY DEF AnswersInv, OwedForTheRest
  <1>6. Len(wire) <= Len(owedAnswers') + One(told)
    <2>1. CASE answer # Nobody
      <3>1. Len(wire) = 1 /\ One(told) = 1 /\ Len(owedAnswers') \in Nat
        BY <1>1, <1>4, <2>1
      <3> QED
        BY <3>1
    <2>2. CASE answer = Nobody
      <3>1. Len(owedAnswers') = Len(owedAnswers) + One(WindowIsOpen)
        BY <1>1, <2>2
      <3>2. \A q, t, o \in Nat : q + t + o = q + o + t
        OBVIOUS
      <3>3. One(told) \in Nat /\ One(WindowIsOpen) \in Nat
        BY <1>2
      <3> QED
        BY <1>2, <1>5, <3>1, <3>2, <3>3
    <2> QED
      BY <2>1, <2>2
  <1>7. Len(wire') <= Len(owedAnswers') + One(told') + One(WindowIsOpen')
    BY <1>1, <1>2, <1>3, <1>6
  <1> QED
    BY <1>1, <1>7 DEF OwedForTheRest, WindowIsLast, AnsweredNow

(* A verdict by a command's own answer and prompt.                         *)
LEMMA OwnVerdict ==
    ASSUME TypeOK, AllAsk, WindowIsOpen, OwnCredit, answer \in {Nobody, flight},
           NEW at \in {Nobody, flight}, Resolve(at)
    PROVE  OwnCredit'
  <1>1. flight \in Commands /\ flight \in Asking
    BY DEF TypeOK, WindowIsOpen, AllAsk
  <1>2. credit' = [credit EXCEPT ![flight] = {answer, at} \ {Nobody}]
    BY <1>1 DEF Resolve
  <1>3. {answer, at} \ {Nobody} \subseteq {flight}
    OBVIOUS
  <1>4. ASSUME NEW c \in Commands PROVE credit'[c] \subseteq {c}
    <2>1. CASE c = flight
      <3>1. credit'[c] = {answer, at} \ {Nobody}
        BY <1>1, <1>2, <2>1 DEF TypeOK
      <3> QED
        BY <1>3, <2>1, <3>1
    <2>2. CASE c # flight
      <3>1. credit'[c] = credit[c]
        BY <1>2, <2>2 DEF TypeOK
      <3> QED
        BY <3>1 DEF OwnCredit
    <2> QED
      BY <2>1, <2>2
  <1> QED
    BY <1>4 DEF OwnCredit

LEMMA CallersAnswers ==
    ASSUME AnswersInv, Callers
    PROVE  AnswersInv'
  <1>1. AnswersApart
    BY DEF Callers, Submit, AskToQuit, GiveUp, PassAuthority, AnswersApart, Ended,
           window, ledger, game
  <1> QED
    BY <1>1, AnswersApartStep

(* A command is written with no window open, and so is the last line.      *)
LEMMA WriteAnswers ==
    ASSUME TypeOK, ConstantsAssumption, AnswersInv, Write
    PROVE  AnswersInv'
  <1>1. CASE WriteFails(Next1)
    BY <1>1, AnswersEnd DEF WriteFails
  <1>2. CASE ~WriteFails(Next1)
    <2>1. /\ flight' = Next1 /\ answer' = Nobody /\ wire' = Append(wire, Next1)
          /\ UNCHANGED <<owedAnswers, credit, gaveUp, speaker, told, phase>>
      BY <1>2 DEF Write
    <2>2. ~Ended /\ ~WindowIsOpen /\ Next1 \in Commands /\ Next1 \in Lines
      BY NextIsACommand DEF Write, Pumping, Ended, Lines
    <2>3. WindowIsOpen'
      BY <2>1, <2>2 DEF WindowIsOpen, ConstantsAssumption, Calls, Lines
    <2>4. /\ Len(wire) \in Nat /\ Len(owedAnswers) \in Nat /\ One(told) \in {0, 1}
      BY Lengths
    <2>5. Len(wire') = Len(wire) + 1 /\ wire'[Len(wire) + 1] = Next1
      BY <2>1, <2>2, AppendProperties DEF TypeOK
    <2>6. One(WindowIsOpen) = 0 /\ One(WindowIsOpen') = 1 /\ One(told') = One(told)
      BY <2>1, <2>2, <2>3 DEF One
    <2>7. WindowIsLast' /\ AnsweredNow'
      BY <2>1, <2>5 DEF WindowIsLast, AnsweredNow
    <2>8. OwedForTheRest => OwedForTheRest'
      BY <2>1, <2>4, <2>5, <2>6 DEF OwedForTheRest
    <2> QED
      BY <2>1, <2>2, <2>7, <2>8 DEF AnswersInv, ToldByALine, OwnCredit
  <1> QED
    BY <1>1, <1>2

LEMMA PumpAnswers ==
    ASSUME TypeOK, ConstantsAssumption, AllAsk, AnswersInv, ~ForgetsOwed, Pump
    PROVE  AnswersInv'
  <1>1. CASE SkipWithdrawn \/ TurnAway \/ PumpEnds
    <2>1. AnswersApart
      BY <1>1 DEF SkipWithdrawn, TurnAway, PumpEnds, Pumping, AnswersApart, Ended,
                  window, ledger, game
    <2> QED
      BY <2>1, AnswersApartStep
  <1>2. CASE Abandon
    <2>1. /\ OweUnanswered /\ CloseFlight /\ ~Ended /\ ~Ended'
          /\ UNCHANGED <<wire, speaker, told, credit, gaveUp>>
      BY <1>2 DEF Abandon, Ended, game
    <2> QED
      BY <2>1, CloseAnswers DEF AnswersInv, OwnCredit
  <1>3. CASE PumpAfterQuit
    <2>1. /\ ~Ended /\ ~Ended' /\ UNCHANGED <<wire, speaker, told, credit, gaveUp, before>>
      BY <1>3 DEF PumpAfterQuit, Ended, game, ledger
    <2>2. CASE UNCHANGED <<window, owedAnswers>>
      <3>1. AnswersApart
        BY <2>1, <2>2 DEF AnswersApart, window
      <3> QED
        BY <3>1, AnswersApartStep
    <2>3. CASE OweUnanswered /\ CloseFlight
      BY <2>1, <2>3, CloseAnswers DEF AnswersInv, OwnCredit
    <2> QED
      BY <1>3, <2>2, <2>3 DEF PumpAfterQuit
  <1> QED
    BY <1>1, <1>2, <1>3, WriteAnswers DEF Pump

LEMMA TakeMessageAnswers ==
    ASSUME TypeOK, AllAsk, AnswersInv, TakeMessage
    PROVE  AnswersInv'
  <1>1. phase = "select"
    BY DEF TakeMessage, TakeCommand, TakeInstant, TakeQuit
  <1>2. ASSUME NEW l, NEW v, AnswerOnly(l, v) PROVE AnswersInv'
    <2>1. AnswersApart
      BY <1>1, <1>2 DEF AnswerOnly, AnswersApart, Ended, window, ledger, game
    <2> QED
      BY <2>1, AnswersApartStep
  <1>3. ASSUME Ignore PROVE AnswersInv'
    <2>1. AnswersApart
      BY <1>1, <1>3 DEF Ignore, AnswersApart, Ended, window, ledger, game
    <2> QED
      BY <2>1, AnswersApartStep
  <1>4. ASSUME NEW c, Admit(c) PROVE AnswersInv'
    <2>1. AnswersApart
      BY <1>1, <1>4 DEF Admit, AnswerOnly, AnswersApart, Ended, window, ledger, game
    <2> QED
      BY <2>1, AnswersApartStep
  <1>5. ASSUME NEW l, NEW v, NEW f, JoinOrWriteQuit(l, v, f) PROVE AnswersInv'
    <2>1. CASE EndConnection("closed", "Unsent", {l}, f)
      BY <2>1, AnswersEnd
    <2>2. CASE ~EndConnection("closed", "Unsent", {l}, f)
      <3>1. AnswersApart
        BY <1>1, <1>5, <2>2 DEF JoinOrWriteQuit, AnswersApart, Ended, window, ledger, game
      <3> QED
        BY <3>1, AnswersApartStep
    <2> QED
      BY <2>1, <2>2
  <1>6. CASE TakeCommand
    BY <1>2, <1>3, <1>4, <1>5, <1>6 DEF TakeCommand, MistargetedTag
  <1>7. CASE TakeInstant
    <2>1. Head(inbox) \in Exits
      BY <1>7 DEF TakeInstant, AllAsk
    <2> QED
      BY <1>2, <1>3, <1>5, <1>7, <2>1 DEF TakeInstant, MistargetedTag
  <1>8. CASE TakeQuit
    BY <1>5, <1>8 DEF TakeQuit
  <1> QED
    BY <1>6, <1>7, <1>8 DEF TakeMessage

(* What is heard first answers what is owed; with nothing owed, the wire   *)
(* holds the window's line alone.                                          *)
LEMMA TextAnswers ==
    ASSUME TypeOK, SpeaksInOrder, ConstantsAssumption, AnswersInv,
           NEW o \in Lines \cup {Game}, Text(o)
    PROVE  AnswersInv'
  <1>1. PICK answering \in BOOLEAN :
            /\ answering => o # Game /\ ~told
            /\ Hear(o, answering) /\ told' = (told \/ answering)
    BY DEF Text
  <1>2. /\ UNCHANGED <<credit, gaveUp, flight, before, wire>> /\ speaker' = o
        /\ Speaks(o) /\ ~Ended /\ ~Ended'
    BY DEF Text, Speaks, Ended, ledger
  <1>3. Nobody \notin Lines /\ Game \notin Lines /\ Nobody # Game
    BY DEF ConstantsAssumption, Calls
  <1>4. o # Game => wire # <<>> /\ o = Head(wire) /\ o \in Lines
    BY <1>2, <1>3 DEF Speaks, SpeaksInOrder
  <1>5. speaker # Nobody => o = speaker
    BY <1>2 DEF Speaks
  <1>6. ToldByALine'
    BY <1>1, <1>2, <1>3, <1>4, <1>5 DEF AnswersInv, ToldByALine
  <1> SUFFICES ASSUME ~gaveUp
               PROVE  OwedForTheRest' /\ WindowIsLast' /\ AnsweredNow'
    BY <1>2, <1>6 DEF AnswersInv, OwnCredit
  <1>7. OwedForTheRest /\ WindowIsLast /\ AnsweredNow
    BY <1>2 DEF AnswersInv
  <1>8. WindowIsLast' /\ (WindowIsOpen' <=> WindowIsOpen) /\ One(WindowIsOpen') = One(WindowIsOpen)
    BY <1>2, <1>7 DEF WindowIsLast, WindowIsOpen, One
  <1>9. /\ Len(wire) \in Nat /\ Len(owedAnswers) \in Nat
        /\ One(told) \in {0, 1} /\ One(WindowIsOpen) \in {0, 1}
        /\ wire # <<>> => Len(wire) >= 1 /\ Head(wire) = wire[1]
    BY Lengths
  <1>10. CASE ~answering
    <2>1. UNCHANGED <<answer, owedAnswers, told>>
      BY <1>1, <1>10 DEF Hear, TypeOK
    <2>2. answer # Nobody => speaker' = speaker
      BY <1>2, <1>3, <1>5, <1>7 DEF AnsweredNow, WindowIsOpen
    <2>3. OwedForTheRest' /\ AnsweredNow'
      BY <1>2, <1>7, <1>8, <2>1, <2>2 DEF OwedForTheRest, AnsweredNow, WindowIsOpen
    <2> QED
      BY <1>8, <2>3
  <1>11. CASE answering
    <2>1. told' /\ ~told /\ answer = Nobody /\ wire # <<>> /\ o = Head(wire)
      BY <1>1, <1>4, <1>7, <1>11 DEF AnsweredNow
    <2>2. One(told) = 0 /\ One(told') = 1
      BY <2>1 DEF One
    <2>3. CASE answer' = Nobody
      <3>1. Len(owedAnswers') \in Nat /\ Len(owedAnswers) <= Len(owedAnswers') + 1
        <4>1. CASE owedAnswers' = owedAnswers
          BY <1>9, <4>1
        <4>2. CASE owedAnswers # <<>> /\ owedAnswers' = Tail(owedAnswers)
          <5>1. owedAnswers \in Seq(Asking) /\ Len(owedAnswers) >= 1
            BY <1>9, <4>2, EmptySeq DEF TypeOK
          <5>2. Len(owedAnswers') = Len(owedAnswers) - 1
            BY <4>2, <5>1, HeadTailProperties
          <5> QED
            BY <1>9, <5>1, <5>2
        <4> QED
          BY <1>1, <4>1, <4>2 DEF Hear
      <3>2. Len(wire) <= Len(owedAnswers) + 0 + One(WindowIsOpen)
        BY <1>7, <2>2 DEF OwedForTheRest
      <3>3. Len(wire) <= Len(owedAnswers') + 1 + One(WindowIsOpen)
        BY <1>9, <3>1, <3>2
      <3>4. OwedForTheRest'
        BY <1>2, <1>8, <2>2, <3>3 DEF OwedForTheRest
      <3> QED
        BY <1>8, <2>3, <3>4 DEF AnsweredNow
    <2>4. CASE answer' # Nobody
      <3>1. /\ answer' = o /\ owedAnswers = <<>> /\ owedAnswers' = owedAnswers
            /\ flight \in Asking /\ ~(WindowIsOpen /\ ~WindowIsAnsweredNext)
        BY <1>1, <2>1, <2>4 DEF Hear
      <3>2. WindowIsOpen /\ before = <<>>
        BY <1>3, <3>1 DEF WindowIsOpen, WindowIsAnsweredNext, ConstantsAssumption, Lines
      <3>3. One(WindowIsOpen) = 1 /\ Len(owedAnswers) = 0
        BY <3>1, <3>2 DEF One
      <3>4. Len(wire) = 1
        <4>1. Len(wire) <= Len(owedAnswers) + One(told) + One(WindowIsOpen)
          BY <1>7 DEF OwedForTheRest
        <4>2. Len(wire) <= 0 + 0 + 1
          BY <2>2, <3>3, <4>1
        <4>3. Len(wire) \in Nat /\ Len(wire) >= 1
          BY <1>9, <2>1
        <4>4. \A n \in Nat : n >= 1 /\ n <= 0 + 0 + 1 => n = 1
          OBVIOUS
        <4> QED
          BY <4>2, <4>3, <4>4, Zenon
      <3>5. o = flight
        BY <1>7, <1>9, <2>1, <3>2, <3>4 DEF WindowIsLast
      <3>6. AnsweredNow'
        BY <1>2, <1>8, <2>1, <3>1, <3>2, <3>4, <3>5 DEF AnsweredNow
      <3>7. OwedForTheRest'
        BY <1>2, <1>8, <2>2, <3>1, <3>3, <3>4 DEF OwedForTheRest
      <3> QED
        BY <1>8, <3>6, <3>7
    <2> QED
      BY <2>3, <2>4
  <1> QED
    BY <1>10, <1>11

(* The end of a reply takes its line off the wire, and its telling with it. *)
LEMMA EndOfReplyAnswers ==
    ASSUME TypeOK, SpeaksInOrder, ConstantsAssumption, ToldByALine, OwedForTheRest,
           WindowIsLast, NEW o \in Lines \cup {Game}, EndOfReply(o)
    PROVE  /\ Len(wire') \in Nat /\ One(told') = 0 /\ ToldByALine' /\ ~Ended /\ ~Ended'
           /\ Len(wire') <= Len(owedAnswers) + One(WindowIsOpen)
           /\ Len(wire) = 1 /\ told => Len(wire') = 0
           /\ WindowIsOpen /\ wire' # <<>> => wire'[Len(wire')] = flight
           /\ speaker # Nobody => o = speaker
  <1>1. /\ told' = FALSE /\ speaker' = Nobody /\ ~Ended /\ ~Ended' /\ Speaks(o)
        /\ o = Game => wire' = wire
        /\ o # Game => wire # <<>> /\ wire' = Tail(wire)
    BY EndOfReplyType DEF EndOfReply, Speaks, Ended
  <1>2. Nobody \notin Lines /\ Game \notin Lines /\ Nobody # Game
    BY DEF ConstantsAssumption, Calls
  <1>3. speaker # Nobody => o = speaker
    BY <1>1 DEF Speaks
  <1>4. told => o # Game
    BY <1>2, <1>3 DEF ToldByALine
  <1>5. /\ Len(wire) \in Nat /\ Len(owedAnswers) \in Nat
        /\ One(told) \in {0, 1} /\ One(WindowIsOpen) \in {0, 1}
        /\ One(FALSE) = 0
    BY Lengths
  <1>6. ~told => One(told) = 0
    BY DEF One
  <1>7. Len(wire) <= Len(owedAnswers) + One(told) + One(WindowIsOpen)
    BY DEF OwedForTheRest
  <1>8. CASE o = Game
    <2>1. ~told /\ wire' = wire /\ One(told) = 0
      BY <1>1, <1>4, <1>6, <1>8
    <2>2. Len(wire') <= Len(owedAnswers) + 0 + One(WindowIsOpen)
      BY <1>7, <2>1
    <2>3. Len(wire') \in Nat /\ Len(wire') <= Len(owedAnswers) + One(WindowIsOpen)
      BY <1>5, <2>1, <2>2
    <2>4. One(told') = 0 /\ ToldByALine'
      BY <1>1, <1>5 DEF ToldByALine
    <2>5. WindowIsOpen /\ wire' # <<>> => wire'[Len(wire')] = flight
      BY <2>1 DEF WindowIsLast
    <2> QED
      BY <1>1, <1>3, <2>1, <2>3, <2>4, <2>5
  <1>9. CASE o # Game
    <2>1. /\ Len(wire) >= 1 /\ Len(wire') = Len(wire) - 1
          /\ \A i \in 1..(Len(wire) - 1) : wire'[i] = wire[i + 1]
      BY <1>1, <1>9, Lengths
    <2>2. wire' # <<>> => Len(wire') >= 1
      BY <1>1, <1>5, <1>9, <2>1, Lengths, EmptySeq
    <2>3. wire' # <<>> => wire'[Len(wire')] = wire[Len(wire)]
      <3> SUFFICES ASSUME wire' # <<>>
                   PROVE  wire'[Len(wire')] = wire[Len(wire)]
        OBVIOUS
      <3>1. Len(wire) - 1 \in 1..(Len(wire) - 1) /\ (Len(wire) - 1) + 1 = Len(wire)
        BY <1>5, <2>1, <2>2
      <3> QED
        BY <2>1, <3>1
    <2>4. Len(wire') \in Nat /\ Len(wire') <= Len(owedAnswers) + One(WindowIsOpen)
      BY <1>5, <1>7, <2>1
    <2>5. Len(wire) = 1 => Len(wire') = 0
      BY <2>1
    <2> QED
      BY <1>1, <1>3, <1>5, <1>9, <2>3, <2>4, <2>5 DEF WindowIsLast, ToldByALine
  <1> QED
    BY <1>8, <1>9

(* A prompt that decides no window.                                        *)
LEMMA PromptPasses ==
    ASSUME TypeOK, SpeaksInOrder, ConstantsAssumption, AnswersInv,
           NEW o \in Lines \cup {Game}, EndOfReply(o),
           UNCHANGED <<credit, gaveUp, flight, answer, owedAnswers>>,
           ~gaveUp => answer = Nobody
    PROVE  AnswersInv'
  <1>1. told' = FALSE
    BY DEF EndOfReply
  <1> SUFFICES ASSUME ~gaveUp
               PROVE  OwedForTheRest' /\ WindowIsLast' /\ AnsweredNow'
    BY <1>1 DEF AnswersInv, OwnCredit, ToldByALine
  <1>2. ~Ended
    BY DEF EndOfReply, Speaks, Ended
  <1>3. /\ Len(wire') \in Nat /\ One(told') = 0
        /\ Len(wire') <= Len(owedAnswers) + One(WindowIsOpen)
        /\ WindowIsOpen /\ wire' # <<>> => wire'[Len(wire')] = flight
    BY <1>2, EndOfReplyAnswers DEF AnswersInv
  <1>4. (WindowIsOpen' <=> WindowIsOpen) /\ One(WindowIsOpen') = One(WindowIsOpen)
    BY DEF WindowIsOpen, One
  <1>5. Len(owedAnswers) \in Nat /\ One(WindowIsOpen) \in {0, 1}
    BY Lengths
  <1> QED
    BY <1>3, <1>4, <1>5 DEF OwedForTheRest, WindowIsLast, AnsweredNow

(* A prompt that closes the window ends the window's own reply.            *)
LEMMA PromptCloses ==
    ASSUME TypeOK, SpeaksInOrder, ConstantsAssumption, AllAsk, AnswersInv, ~ForgetsOwed,
           NEW o \in Lines \cup {Game}, EndOfReply(o), WindowIsOpen, answer # Nobody,
           Resolve(o)
    PROVE  AnswersInv'
  <1>1. told' = FALSE /\ gaveUp' = gaveUp /\ OweUnanswered /\ CloseFlight
    BY DEF EndOfReply, Resolve
  <1> SUFFICES ASSUME ~gaveUp
               PROVE  OwnCredit' /\ OwedForTheRest' /\ WindowIsLast' /\ AnsweredNow'
    BY <1>1 DEF AnswersInv, ToldByALine
  <1>2. ~Ended /\ ~Ended'
    BY DEF EndOfReply, Speaks, Ended
  <1>3. /\ OwnCredit /\ OwedForTheRest /\ WindowIsLast /\ ToldByALine
        /\ answer = flight /\ Len(wire) = 1 /\ speaker = flight /\ told
    BY <1>2 DEF AnswersInv, AnsweredNow
  <1>4. Len(wire') = 0 /\ One(told') = 0 /\ o = flight
    BY <1>3, EndOfReplyAnswers DEF WindowIsOpen
  <1>5. OwnCredit'
    BY <1>3, <1>4, OwnVerdict
  <1>6. ~WindowIsOpen' /\ answer' = Nobody /\ Len(owedAnswers') \in Nat
    BY <1>1, <1>2, OwedGrows
  <1>7. One(WindowIsOpen') = 0
    BY <1>6 DEF One
  <1> QED
    BY <1>4, <1>5, <1>6, <1>7 DEF OwedForTheRest, WindowIsLast, AnsweredNow

LEMMA SpeechAnswers ==
    ASSUME TypeOK, SpeaksInOrder, ConstantsAssumption, AllAsk, AnswersInv, ~ForgetsOwed,
           Speech
    PROVE  AnswersInv'
  <1>1. PICK o \in Lines \cup {Game} : Says(o)
    BY DEF Speech, Says
  <1>2. CASE PromptSpent(o) \/ PromptUnclaimed(o)
    <2>1. /\ EndOfReply(o) /\ (before # <<>> \/ ~WindowIsOpen)
          /\ UNCHANGED <<credit, gaveUp, flight, answer, owedAnswers>>
      BY <1>2 DEF PromptSpent, PromptUnclaimed, window
    <2>2. ~Ended
      BY <2>1 DEF EndOfReply, Speaks, Ended
    <2>3. ~gaveUp => answer = Nobody
      BY <2>1, <2>2 DEF AnswersInv, AnsweredNow
    <2> QED
      BY <2>1, <2>3, PromptPasses
  <1>3. CASE PromptForWindow(o)
    <2>1. EndOfReply(o) /\ WindowIsOpen /\ flight \in Asking
      BY <1>3 DEF PromptForWindow, WindowIsOpen, AllAsk, TypeOK
    <2>2. CASE answer = Nobody
      <3>1. UNCHANGED <<credit, gaveUp, flight, answer, owedAnswers>>
        BY <1>3, <2>1, <2>2 DEF PromptForWindow, window
      <3> QED
        BY <2>1, <2>2, <3>1, PromptPasses
    <2>3. CASE answer # Nobody
      <3>1. Resolve(o)
        BY <1>3, <2>3 DEF PromptForWindow
      <3> QED
        BY <2>1, <2>3, <3>1, PromptCloses
    <2> QED
      BY <2>2, <2>3
  <1> QED
    BY <1>1, <1>2, <1>3, TextAnswers DEF Says

LEMMA LoopAnswers ==
    ASSUME TypeOK, ConstantsAssumption, AllAsk, AnswersInv, ~ForgetsOwed,
           \/ Wake \/ ExpireWindow \/ LapseAnswer \/ LapsePrompt \/ ReadEnds
           \/ PeerEnds \/ Cancel \/ Sweep
    PROVE  AnswersInv'
  <1>1. CASE Wake \/ ReadEnds \/ Sweep
    <2>1. AnswersApart
      BY <1>1 DEF Wake, ReadEnds, Sweep, AnswersApart, Ended, window, ledger, game
    <2> QED
      BY <2>1, AnswersApartStep
  <1>2. CASE LapseAnswer \/ LapsePrompt
    <2>1. gaveUp' /\ UNCHANGED <<told, speaker>>
      BY <1>2 DEF LapseAnswer, LapsePrompt, game
    <2> QED
      BY <2>1 DEF AnswersInv, ToldByALine
  <1>3. CASE PeerEnds \/ Cancel
    BY <1>3, AnswersEnd DEF PeerEnds, Cancel
  <1>4. CASE ExpireWindow
    <2>1. /\ WindowIsOpen /\ Resolve(Nobody) /\ ~Ended /\ ~Ended'
          /\ UNCHANGED <<wire, speaker, told>>
      BY <1>4 DEF ExpireWindow, WindowIsOpen, ConstantsAssumption, Calls, Lines, Ended, game
    <2>2. OweUnanswered /\ CloseFlight /\ gaveUp' = gaveUp
      BY <2>1 DEF Resolve
    <2>3. ~gaveUp => OwnCredit'
      BY <2>1, OwnVerdict DEF AnswersInv, AnsweredNow
    <2> QED
      BY <2>1, <2>2, <2>3, CloseAnswers
  <1> QED
    BY <1>1, <1>2, <1>3, <1>4

LEMMA AnswersStep ==
    ASSUME TypeOK, SpeaksInOrder, ConstantsAssumption, AllAsk, AnswersInv,
           [Next]_vars, [~ForgetsOwed]_vars
    PROVE  AnswersInv'
  <1>1. CASE UNCHANGED vars
    <2>1. AnswersApart
      BY <1>1 DEF vars, AnswersApart, Ended, window, ledger, game
    <2> QED
      BY <2>1, AnswersApartStep
  <1>2. CASE ~ForgetsOwed /\ Next
    BY <1>2, CallersAnswers, PumpAnswers, TakeMessageAnswers, SpeechAnswers, LoopAnswers
    DEF Next
  <1> QED
    BY <1>1, <1>2

(* Where every command names its answer and no instant action goes out,    *)
(* every round trip is decided by its own reply, whatever windows run out  *)
(* of time, whatever the game says and prompts unasked or leaves           *)
(* unanswered: as long as no owed answer is forgotten for want of room or  *)
(* given up on.                                                            *)
THEOREM AnswersAreOwn == AllAsk /\ Spec /\ [][~ForgetsOwed]_vars => []OwnReply
  <1>1. Init => AnswersInv
    <2> SUFFICES ASSUME Init
                 PROVE  AnswersInv
      OBVIOUS
    <2>1. Len(wire) = 0 /\ Len(owedAnswers) = 0 /\ ~WindowIsOpen /\ ~told
      BY DEF Init, WindowIsOpen
    <2> QED
      BY <2>1 DEF Init, AnswersInv, ToldByALine, OwnCredit, OwedForTheRest, WindowIsLast,
                  AnsweredNow, One
  <1>2. TypeOK /\ SpeaksInOrder /\ (AllAsk /\ AnswersInv) /\ [Next]_vars /\ [~ForgetsOwed]_vars
            => (AllAsk /\ AnswersInv)'
    BY ConstantsAssumption, AnswersStep DEF AllAsk
  <1>3. AnswersInv => OwnReply
    BY DEF AnswersInv, OwnCredit, OwnReply
  <1> QED
    BY <1>1, <1>2, <1>3, TypeCorrect, PTL DEF Spec
=============================================================================

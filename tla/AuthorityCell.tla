---------------------------- MODULE AuthorityCell ----------------------------
(***************************************************************************)
(* The command authority of a session: one cell, shared by every           *)
(* connection's queue, the supervisor and every handle (cena-session:      *)
(* command/authority.rs, command/handle.rs, actor/io.rs, supervisor/       *)
(* core.rs), and the runs that claim it (cena-behavior's desks, the        *)
(* character sync, the agent's takeover).                                  *)
(*                                                                         *)
(* A claim and a release are messages in the session's bounded inbox, read *)
(* in order by the actor or, between connections, by the supervisor.  A    *)
(* preemption and the player's stop of a takeover write the cell directly. *)
(* The cell names a token; which run holds it is recorded here beside it.  *)
(***************************************************************************)
EXTENDS Naturals, Sequences, FiniteSets

CONSTANTS
    Runs,        \* runs of behaviors, each claiming once
    Tokens,      \* authority tokens
    TokenOf,     \* the token each run claims under
    Takeovers,   \* runs that preempt whoever holds before they claim
    Guarded,     \* runs whose ending releases even if their claim was refused
    Senders,     \* callers of ordinary traffic (`send_at`, `submit_and_await`)
    Quitters,    \* callers of `quit`, which waits for a slot of the inbox
    InboxBound,  \* COMMAND_CHANNEL_BOUND
    Nobody       \* no token, no run

ASSUME ConstantsAssumption ==
    /\ TokenOf \in [Runs -> Tokens]
    /\ Takeovers \subseteq Runs
    /\ Guarded \subseteq Runs
    /\ Nobody \notin Runs \cup Tokens
    /\ Runs \cap (Senders \cup Quitters) = {}
    /\ Senders \cap Quitters = {}
    /\ InboxBound \in Nat \ {0}

Parties == Runs \cup Senders \cup Quitters

Messages == [kind : {"claim", "release"}, from : Runs]
                \cup [kind : {"traffic"}, from : Senders \cup Quitters]

VARIABLES
    cell,      \* the Authority: the token that holds it, or Nobody
    holder,    \* the run the cell was last granted to, or Nobody (history)
    inbox,     \* messages the session has not read yet
    state,     \* where each run, sender and quitter is
    watching,  \* the token each preemption waits to see let go
    taken,     \* runs whose authority was preempted or taken back
    undercut,  \* runs whose authority another run's release let go (history)
    stopped    \* takeovers the player has stopped

vars == <<cell, holder, inbox, state, watching, taken, undercut, stopped>>

States == {"idle", "preempting", "checked", "asking", "holding", "refused", "over"}

TypeOK ==
    /\ cell \in Tokens \cup {Nobody}
    /\ holder \in Runs \cup {Nobody}
    /\ inbox \in Seq(Messages)
    /\ Len(inbox) <= InboxBound
    /\ state \in [Parties -> States]
    /\ watching \in [Runs -> Tokens \cup {Nobody}]
    /\ taken \subseteq Runs /\ undercut \subseteq Runs
    /\ stopped \subseteq Takeovers

Init ==
    /\ cell = Nobody /\ holder = Nobody
    /\ inbox = <<>>
    /\ state = [p \in Parties |-> "idle"]
    /\ watching = [r \in Runs |-> Nobody]
    /\ taken = {} /\ undercut = {} /\ stopped = {}

Goto(p, s) == state' = [state EXCEPT ![p] = s]

-----------------------------------------------------------------------------
(* The inbox's producers.  Ordinary traffic looks for room first, keeping  *)
(* one slot back, and then sends: two steps, and the handle is shared by   *)
(* tasks on several threads.                                               *)

HasRoomForTraffic == InboxBound - Len(inbox) > 1

Full == Len(inbox) = InboxBound

Check(p) ==
    /\ IF HasRoomForTraffic THEN Goto(p, "checked") ELSE Goto(p, "refused")
    /\ UNCHANGED <<cell, holder, inbox, watching, taken, undercut, stopped>>

CheckTraffic(s) == state[s] = "idle" /\ Check(s)

SendTraffic(s) ==
    /\ state[s] = "checked"
    /\ IF Full THEN UNCHANGED inbox
       ELSE inbox' = Append(inbox, [kind |-> "traffic", from |-> s])
    /\ Goto(s, "over")
    /\ UNCHANGED <<cell, holder, watching, taken, undercut, stopped>>

(* `quit_inner` awaits a slot, whichever slot it is.                       *)
SendQuit(q) ==
    /\ state[q] = "idle"
    /\ ~Full
    /\ inbox' = Append(inbox, [kind |-> "traffic", from |-> q])
    /\ Goto(q, "over")
    /\ UNCHANGED <<cell, holder, watching, taken, undercut, stopped>>

-----------------------------------------------------------------------------
(* A run: claim, hold, release.                                            *)

CheckClaim(r) ==
    /\ state[r] = "idle" /\ r \notin Takeovers
    /\ Check(r)

SendClaim(r) ==
    /\ state[r] = "checked"
    /\ IF Full
       THEN Goto(r, "refused") /\ UNCHANGED inbox
       ELSE Goto(r, "asking") /\ inbox' = Append(inbox, [kind |-> "claim", from |-> r])
    /\ UNCHANGED <<cell, holder, watching, taken, undercut, stopped>>

(* ACTOR_REPLY_DEADLINE passes unanswered: read as refused.                *)
ClaimLapses(r) ==
    /\ state[r] = "asking"
    /\ Goto(r, "refused")
    /\ UNCHANGED <<cell, holder, inbox, watching, taken, undercut, stopped>>

DropsReleaseLikeTraffic == ~HasRoomForTraffic   \* a variant that keeps no slot for it

(* The run ends, for any reason, and lets go: a full inbox drops the       *)
(* release.  A run that never held says nothing, unless a guard lets go    *)
(* for it however it ended.                                                *)
DropsRelease == Full

LetGo(r) ==
    /\ \/ state[r] = "holding"
       \/ state[r] = "refused" /\ r \in Guarded
    /\ Goto(r, "over")
    /\ IF DropsRelease THEN UNCHANGED inbox
       ELSE inbox' = Append(inbox, [kind |-> "release", from |-> r])
    /\ UNCHANGED <<cell, holder, watching, taken, undercut, stopped>>

EndUnheld(r) ==
    /\ state[r] = "refused" /\ r \notin Guarded
    /\ Goto(r, "over")
    /\ UNCHANGED <<cell, holder, inbox, watching, taken, undercut, stopped>>

-----------------------------------------------------------------------------
(* The session reads one message: `handle_inbox`, or                       *)
(* `refuse_while_disconnected` between connections, which do the same.     *)

FreeAnyone(token) ==   \* a variant that frees whoever holds
    cell' = Nobody /\ holder' = Nobody

Free(token) ==
    IF cell = token THEN cell' = Nobody /\ holder' = Nobody
    ELSE UNCHANGED <<cell, holder>>

(* A variant that keeps a grant nobody hears.                              *)
AnswerWithoutRollback(r) ==
    IF cell # Nobody
    THEN UNCHANGED <<state, cell, holder>>
    ELSE /\ cell' = TokenOf[r] /\ holder' = r
         /\ state' = IF state[r] = "asking" THEN [state EXCEPT ![r] = "holding"] ELSE state

(* A grant nobody hears is rolled back.                                    *)
Answer(r) ==
    IF cell # Nobody
    THEN /\ state' = IF state[r] = "asking" THEN [state EXCEPT ![r] = "refused"] ELSE state
         /\ UNCHANGED <<cell, holder>>
    ELSE IF state[r] = "asking"
    THEN /\ cell' = TokenOf[r] /\ holder' = r
         /\ Goto(r, "holding")
    ELSE UNCHANGED <<cell, holder, state>>

(* The cell knows no runs, only tokens: a release frees whichever run holds *)
(* under the token it names.                                               *)
LetGoOf(r) ==
    /\ Free(TokenOf[r])
    /\ undercut' = IF cell = TokenOf[r] THEN undercut \cup ({holder} \ {r}) ELSE undercut
    /\ UNCHANGED state

Read ==
    /\ inbox # <<>>
    /\ inbox' = Tail(inbox)
    /\ LET m == Head(inbox)
       IN \/ m.kind = "traffic" /\ UNCHANGED <<cell, holder, state, undercut>>
          \/ m.kind = "claim" /\ Answer(m.from) /\ UNCHANGED undercut
          \/ m.kind = "release" /\ LetGoOf(m.from)
    /\ UNCHANGED <<watching, taken, stopped>>

-----------------------------------------------------------------------------
(* Preemption (`SessionHandle::preempt`), as a takeover or a watchdog does *)
(* it: read who holds, give it PREEMPT_GRACE to let go, then revoke.       *)

TakeFrom(token) == taken' = IF cell = token THEN taken \cup {holder} ELSE taken

BeginPreempt(t) ==
    /\ state[t] = "idle" /\ t \in Takeovers
    /\ watching' = [watching EXCEPT ![t] = cell]
    /\ Goto(t, "preempting")
    /\ UNCHANGED <<cell, holder, inbox, taken, undercut, stopped>>

(* Nothing held, or it has let go: on to the claim.                        *)
Yielded(t) ==
    /\ state[t] = "preempting"
    /\ watching[t] = Nobody \/ cell # watching[t]
    /\ watching' = [watching EXCEPT ![t] = Nobody]
    /\ IF HasRoomForTraffic THEN Goto(t, "checked") ELSE Goto(t, "refused")
    /\ UNCHANGED <<cell, holder, inbox, taken, undercut, stopped>>

Revoke(t) ==
    /\ state[t] = "preempting"
    /\ watching[t] # Nobody
    /\ TakeFrom(watching[t])
    /\ Free(watching[t])
    /\ watching' = [watching EXCEPT ![t] = Nobody]
    /\ IF HasRoomForTraffic THEN Goto(t, "checked") ELSE Goto(t, "refused")
    /\ UNCHANGED <<inbox, undercut, stopped>>

(* The watchdog beside run r, whose heartbeat has stopped, preempts        *)
(* whoever holds: r, unless r had already lost the authority.              *)
Wedged(r) ==
    /\ state[r] = "holding" /\ r \notin Takeovers
    /\ cell # Nobody
    /\ TakeFrom(cell)
    /\ Free(cell)
    /\ UNCHANGED <<inbox, state, watching, undercut, stopped>>

(* The player stops a takeover, or lowers the level below it: the          *)
(* authority is taken back at once (`Holding::take_back`).                 *)
StopTakeover(t) ==
    /\ t \in Takeovers \ stopped
    /\ state[t] \in {"preempting", "checked", "asking", "holding"}
    /\ stopped' = stopped \cup {t}
    /\ TakeFrom(TokenOf[t])
    /\ Free(TokenOf[t])
    /\ UNCHANGED <<inbox, state, watching, undercut>>

-----------------------------------------------------------------------------
Next ==
    \/ \E s \in Senders : CheckTraffic(s) \/ SendTraffic(s)
    \/ \E q \in Quitters : SendQuit(q)
    \/ \E r \in Runs :
          \/ CheckClaim(r) \/ SendClaim(r) \/ ClaimLapses(r)
          \/ LetGo(r) \/ EndUnheld(r) \/ Wedged(r)
    \/ \E t \in Takeovers : BeginPreempt(t) \/ Yielded(t) \/ Revoke(t) \/ StopTakeover(t)
    \/ Read

Spec == Init /\ [][Next]_vars

(* The session reads its inbox; every run comes to an end.                 *)
FairSpec ==
    /\ Spec
    /\ WF_vars(Read)
    /\ \A r \in Runs : WF_vars(LetGo(r))

-----------------------------------------------------------------------------
(* What the authority promises.                                            *)

(* A run that was told it holds the authority holds it, until it lets go   *)
(* or is preempted, or another run's release lets it go: and only a run    *)
(* that claims under the same token can do that.  No release of another    *)
(* token, lapsed claim or message read late takes it away                  *)
(* (command/authority.rs `release`, `claim`).                              *)
HoldsWhatItWasTold ==
    /\ \A r \in Runs :
           state[r] = "holding" /\ r \notin taken \cup undercut => cell = TokenOf[r] /\ holder = r
    /\ \A r \in undercut : \E s \in Runs \ {r} : TokenOf[s] = TokenOf[r] /\ state[s] = "over"

(* The authority is never stranded: the run that holds it is still there   *)
(* to let it go, or its release is on its way (handle.rs `release`: a lost *)
(* one "leaves the token holding authority for the rest of the session").  *)
NeverStranded ==
    cell # Nobody =>
        \/ holder \in Runs /\ state[holder] = "holding"
        \/ \E i \in DOMAIN inbox :
               inbox[i].kind = "release" /\ TokenOf[inbox[i].from] = cell

(* Whoever holds the authority, it comes free again.                       *)
AuthorityReturns == \A r \in Runs : holder = r ~> holder # r
=============================================================================

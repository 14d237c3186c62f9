------------------------------ MODULE FactsKept ------------------------------
(***************************************************************************)
(* What keeping a character's facts promises, with no actor, no timer, no  *)
(* queue of saves and no connection: a session begins knowing nothing, may *)
(* recall once what was kept, only ever learns, and what is kept only ever *)
(* moves up to what is known.  A session that could not recall may set     *)
(* what is kept back, once, to what it knows.  A session that ends in      *)
(* order has kept all it knew, but for facts that are only kept together   *)
(* and are not all known, unless its last write was lost.                  *)
(***************************************************************************)
EXTENDS Integers

CONSTANTS Facts, Together

VARIABLES
    known,  \* what the session knows of each fact: a version, 0 for nothing
    kept,   \* what is kept of each fact between sessions
    open,   \* whether a session is running: "none", "open", "closed", "crashed"
    lost,   \* whether the session's last write was lost
    blind   \* whether the session failed to recall, and has kept nothing yet

vars == <<known, kept, open, lost, blind>>

Nothing == [f \in Facts |-> 0]
AtMost(a, b) == \A f \in Facts : a[f] <= b[f]

(* What must not be lost: a fact kept on its own, or with all it goes with. *)
Due(f) == \A T \in Together : f \in T => \A e \in T : known[e] # 0

Init == known = Nothing /\ kept = Nothing /\ open = "none" /\ ~lost /\ ~blind

Begin ==
    /\ open # "open" /\ open' = "open"
    /\ known' = Nothing /\ lost' = FALSE /\ blind' = FALSE
    /\ UNCHANGED kept

Recall ==
    /\ open = "open" /\ known = Nothing
    /\ known' = kept
    /\ UNCHANGED <<kept, open, lost, blind>>

FailToRecall ==
    /\ open = "open" /\ known = Nothing
    /\ blind' = TRUE
    /\ UNCHANGED <<known, kept, open, lost>>

(* known' is a new value of each fact, none of them older. *)
Learn ==
    /\ open = "open"
    /\ known' = [f \in Facts |-> known'[f]] /\ AtMost(known, known')
    /\ UNCHANGED <<kept, open, lost, blind>>

Keep ==
    /\ open = "open"
    /\ kept' = [f \in Facts |-> kept'[f]]
    /\ blind \/ AtMost(kept, kept')
    /\ AtMost(kept', known)
    /\ lost' = FALSE /\ blind' = FALSE
    /\ UNCHANGED <<known, open>>

LoseWrite ==
    /\ open = "open" /\ lost' = TRUE
    /\ UNCHANGED <<known, kept, open, blind>>

Finish ==
    /\ open = "open" /\ open' = "closed"
    /\ lost \/ \A f \in Facts : Due(f) => known[f] <= kept[f]
    /\ UNCHANGED <<known, kept, lost, blind>>

Crash == open = "open" /\ open' = "crashed" /\ UNCHANGED <<known, kept, lost, blind>>

Next == \/ Begin \/ Recall \/ FailToRecall \/ Learn \/ Keep \/ LoseWrite
        \/ Finish \/ Crash

Spec == Init /\ [][Next]_vars
=============================================================================

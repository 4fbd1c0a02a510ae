---------------------------- MODULE AtomicStore ----------------------------
(***************************************************************************)
(* What the Catacomb store promises its callers, without directories,      *)
(* files or recovery: a map from component names to generations that is    *)
(* replaced a whole batch at a time.                                       *)
(*                                                                         *)
(* A batch becomes visible in one step.  Until it is hardened a power loss *)
(* may take it back, but only as a whole.                                  *)
(***************************************************************************)
EXTENDS Integers

CONSTANTS
    Names,      \* the component names of one Apple user
    Gens        \* the generations a batch may carry

VARIABLES
    value,      \* the generation each component has now
    safe        \* the values a power loss may leave behind

vars == <<value, safe>>

Init ==
    /\ value = [n \in Names |-> 0]
    /\ safe = {value}

(* The whole batch is replaced at once, by a generation newer than any. *)
Commit ==
    \E B \in (SUBSET Names) \ {{}}, g \in Gens :
        /\ \A n \in Names : value[n] < g
        /\ value' = [n \in Names |-> IF n \in B THEN g ELSE value[n]]
        /\ safe' = safe \cup {value'}

Harden ==
    /\ safe' = {value}
    /\ UNCHANGED value

PowerLoss ==
    /\ value' \in safe
    /\ safe' = {value'}

Next == Commit \/ Harden \/ PowerLoss

Spec == Init /\ [][Next]_vars
=============================================================================

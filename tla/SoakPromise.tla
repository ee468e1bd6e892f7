----------------------------- MODULE SoakPromise -----------------------------
(***************************************************************************)
(* What a burn-in promises about wrong answers, with no process, queue or  *)
(* message in it: only answers the hardware really got wrong are counted,  *)
(* what was counted stays counted, the count is closed once, and it is     *)
(* closed eventually if nothing stands in the way for ever.                *)
(***************************************************************************)
CONSTANT Error

VARIABLES
    found,      \* wrong answers the hardware gave
    counted,    \* wrong answers in the tally
    state,      \* "running", "reported", or "abandoned" (no result is built)
    stuck       \* something stands in the way

vars == <<found, counted, state, stuck>>

Init == found = {} /\ counted = {} /\ state = "running" /\ stuck = FALSE

Find == \E e \in SUBSET Error : found' = found \cup e /\ UNCHANGED <<counted, state>>

Count ==
    /\ state = "running"
    /\ \E e \in SUBSET found : counted' = counted \cup e
    /\ UNCHANGED <<found, state>>

Close ==
    /\ state = "running"
    /\ state' \in {"reported", "abandoned"}
    /\ UNCHANGED <<found, counted>>

\* Whether something stands in the way is for the world to say, at any time.
Next ==
    /\ Find \/ Count \/ Close \/ UNCHANGED <<found, counted, state>>
    /\ stuck' \in BOOLEAN

Spec == Init /\ [][Next]_vars

FairSpec == Spec /\ WF_vars(~stuck /\ Close /\ stuck' \in BOOLEAN)
=============================================================================

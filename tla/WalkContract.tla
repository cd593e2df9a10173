---------------------------- MODULE WalkContract ----------------------------
(***************************************************************************)
(* What Walker::walk promises, whichever way it walks: its iterator gives  *)
(* out items that the tree justifies and nothing else, and comes to its    *)
(* end only when nothing is missing.  The order is left open.              *)
(***************************************************************************)
EXTENDS WalkTree

VARIABLES
    delivered,  \* the items that next() has returned
    stream      \* "open", "ended" after None, "dropped" by its owner

contractVars == <<delivered, stream>>

Init == delivered = {} /\ stream = "open"

Deliver ==
    /\ stream = "open"
    /\ \E m \in Yieldable \ delivered : delivered' = delivered \cup {m}
    /\ UNCHANGED stream

End ==
    /\ stream = "open"
    /\ CoversTree(delivered)
    /\ stream' = "ended"
    /\ UNCHANGED delivered

Drop ==
    /\ stream = "open"
    /\ stream' = "dropped"
    /\ UNCHANGED delivered

Next == Deliver \/ End \/ Drop

\* A stream that is neither dropped nor ended goes on.
Spec == Init /\ [][Next]_contractVars /\ WF_contractVars(Deliver \/ End)
=============================================================================

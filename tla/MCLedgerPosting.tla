--------------------------- MODULE MCLedgerPosting ---------------------------
(* Postings that share rows in both directions and keys: one debits a row     *)
(* twice, the legs of one do not balance, and one is a PaySafe transition.    *)
EXTENDS LedgerPosting, TLC

CONSTANTS pay, again, append, append2, transition

MCEntity == 1..3
Leg(e, by) == [on |-> e, by |-> by]
MCLegs ==
    pay        :> <<Leg(2, -2), Leg(1, 2)>> @@
    again      :> <<Leg(2, -1), Leg(3, 1), Leg(2, -1), Leg(1, 1)>> @@
    append     :> <<Leg(1, -2), Leg(2, 2)>> @@
    append2    :> <<Leg(1, -1), Leg(2, 2)>> @@
    transition :> <<Leg(2, -1), Leg(1, 1)>>
MCKey == pay :> "r1" @@ again :> "r1" @@ append :> "a1" @@ append2 :> "a1" @@ transition :> "e1"
MCHeader == [p \in Posting |-> IF p = again THEN {1, 2} ELSE {}]
MCKind ==
    [p \in Posting |->
        CASE p \in {append, append2} -> "append" [] p = transition -> "transition" [] OTHER -> "post"]
MCOpening == 1 :> 2 @@ 2 :> 2 @@ 3 :> 0
=============================================================================

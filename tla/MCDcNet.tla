------------------------------ MODULE MCDcNet ------------------------------
(* An instance of DcNet for TLC.                                           *)
EXTENDS DcNet, TLC

\* A peer of two messages, which the replay has to solve for, two of one.
MixedNumbers == <<2, 1, 1>>

\* Each pair has its own padding: no two of them can be taken for each other.
InitOwnPaddings ==
    /\ padding = (<<1, 2>> :> 1 @@ <<1, 3>> :> 3 @@ <<2, 3>> :> 4)
    /\ Init

SpecOwnPaddings == InitOwnPaddings /\ [][Next]_vars
=============================================================================

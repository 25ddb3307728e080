------------------------- MODULE MCSplitTxSession -------------------------
(* Instances of SplitTxSession for TLC.                                    *)
EXTENDS SplitTxSession, TLC

CONSTANTS p1, p2, p3

\* Two slots for one participant: a shuffle can part them.
Slots == (p1 :> 2) @@ (p2 :> 1) @@ (p3 :> 1)

\* service.go:136-138: "When all inputs of all participants are received, full
\* transaction is built."  What goes to the publisher is signed for every slot.
FullTransaction == progress = "publish" => signed = DOMAIN merged
=============================================================================

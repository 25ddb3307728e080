------------------------ MODULE JoinSessionClaims --------------------------
(***************************************************************************)
(* What a comment in the code says a join session does, for the run that   *)
(* looks for a disagreement.                                               *)
(***************************************************************************)
EXTENDS JoinSession

\* The data a state waits for.
Awaited == [KeyExchange |-> "pk", DcExponential |-> "exp", DcXor |-> "xor",
            TxInput |-> "txin", TxSign |-> "sig", RevealSecret |-> "vk"]

\* joinsession.go:227 "After that time, client still not send data, server will
\* consider the client is malicious and remove from the join session."
SilentAreRemoved ==
    [][\A p \in Peer :
         /\ run.at = "expired" /\ run'.at # "expired"
         /\ session.state \in DOMAIN Awaited
         /\ p \in Missing(Awaited[session.state])
         => p \notin session'.peers]_vars
=============================================================================

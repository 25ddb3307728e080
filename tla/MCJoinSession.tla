--------------------------- MODULE MCJoinSession ---------------------------
(* Model values, client misuses and symmetries for the runs of JoinSession. *)
EXTENDS JoinSessionClaims, TLC

CONSTANTS a, b, c

NoMisuse == {}

\* Payloads that are rejected by restarting the session without their sender,
\* from a client that has not sent a good one of the kind before.
Rejected == {<<k, "unparsable">> : k \in Kind \ {"pk", "sig", "pub"}} \cup {<<"sig", "unsigned">>}

\* Second vectors that only the replay of the protocol shows to be wrong, a
\* complaint without cause, answers given twice, and data refused when they come.
Blamed == {<<"xor", "wrong">>, <<"xor", "short">>, <<"xor", "again">>, <<"nf", "again">>,
           <<"vk", "again">>, <<"exp", "short">>, <<"exp", "again">>, <<"txin", "price">>,
           <<"sig", "unsigned">>, <<"sig", "altered">>}

\* Everything the model has.
Anything ==
    {<<k, v>> : k \in Kind, v \in Payload} \cup {<<"conn", "leave">>}
    \cup {<<k, "again">> : k \in Kind \ {"txin"}}

\* Peers are interchangeable within the faulty and within the others.
Symmetry == Permutations(Peer \ Faulty) \cup Permutations(Faulty)
=============================================================================

-------------------------- MODULE MCTicketJoiner --------------------------
(* Instances of TicketJoiner for TLC, and what its comments say of it.     *)
EXTENDS TicketJoiner

\* Clients that come in the order of their numbers, two at a time, each pair when
\* the one before is in its session: some of the behaviours, enough of them to
\* see what becomes of two sessions that end and of who comes after them.
InPairs ==
    \A p, q \in Participant :
        (worker[p] = "none" /\ worker'[p] # "none" /\ q < p)
            => IF (q + 1) \div 2 < (p + 1) \div 2 THEN worker[q] = "gone" ELSE worker[q] # "none"

PairsSpec == Init /\ [][Next /\ InPairs]_vars /\ Fairness

\* jointicker.go:104: "Run listens for all incoming participants join
\* request."  A request that is sent is taken, while the server is up.
Listens == \A p \in Participant : worker[p] = "sending" ~> (worker[p] # "sending" \/ main # "serving")

\* jointicker.go:177-178: "If there is still one join session running, it will
\* waits for join session finishes before terminate."
WaitsForSessions == [][main = "waiting" /\ main' = "closing" => joinSessions = {}]_vars
=============================================================================

------------------------------ MODULE Matching -----------------------------
(***************************************************************************)
(* What either queue of the server promises to its clients: of those that  *)
(* wait, all are put into one session together when there are enough of    *)
(* them; nobody is put into two, and nobody stops waiting but by a match   *)
(* or after going away.  DiceMix and TicketJoiner implement this.          *)
(***************************************************************************)
EXTENDS Naturals, FiniteSets

CONSTANTS
    Client,
    MinParticipants,
    MayShrink   \* TRUE: the group may lose members after it was counted

VARIABLES
    waiting,    \* clients in the queue
    gone,       \* clients that have gone away
    sessions    \* the groups that were matched

vars == <<waiting, gone, sessions>>

Init == waiting = {} /\ gone = {} /\ sessions = {}

Arrive(p) ==
    /\ p \notin waiting \cup UNION sessions
    /\ waiting' = waiting \cup {p}
    /\ UNCHANGED <<gone, sessions>>

GoAway(p) ==
    /\ gone' = gone \cup {p}
    /\ UNCHANGED <<waiting, sessions>>

Withdraw(p) ==
    /\ p \in waiting \cap gone
    /\ waiting' = waiting \ {p}
    /\ UNCHANGED <<gone, sessions>>

Match ==
    /\ Cardinality(waiting) >= MinParticipants \/ (MayShrink /\ gone # {})
    /\ sessions' = sessions \cup {waiting}
    /\ waiting' = {}
    /\ UNCHANGED gone

Next == Match \/ \E p \in Client : Arrive(p) \/ GoAway(p) \/ Withdraw(p)

Spec == Init /\ [][Next]_vars
=============================================================================

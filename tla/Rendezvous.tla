----------------------------- MODULE Rendezvous ----------------------------
(***************************************************************************)
(* What a session of the simple mode promises to its members: they go      *)
(* through its rounds one after the other, and nobody is let through a     *)
(* round before every member has entered it.  Members may be lost at any   *)
(* time, and the rest need not wait for them.  SplitTxSession implements   *)
(* this.                                                                   *)
(***************************************************************************)
EXTENDS Naturals, Sequences

CONSTANTS
    Participant,
    Rounds      \* the names of the rounds, in order

VARIABLES
    members,
    entered,    \* per round, who has sent what it asks for
    passed      \* per round, who was given its outcome

vars == <<members, entered, passed>>

Nobody == [r \in {Rounds[i] : i \in DOMAIN Rounds} |-> {}]

Init == members = Participant /\ entered = Nobody /\ passed = Nobody

Enter(i, p) ==
    /\ p \in members
    /\ i > 1 => p \in passed[Rounds[i - 1]]
    /\ p \notin entered[Rounds[i]]
    /\ entered' = [entered EXCEPT ![Rounds[i]] = @ \cup {p}]
    /\ UNCHANGED <<members, passed>>

Pass(i, p) ==
    /\ p \in members \ passed[Rounds[i]]
    /\ members \subseteq entered[Rounds[i]]
    /\ passed' = [passed EXCEPT ![Rounds[i]] = @ \cup {p}]
    /\ UNCHANGED <<members, entered>>

Lose(S) ==
    /\ members' = members \ S
    /\ UNCHANGED <<entered, passed>>

Next ==
    \/ \E i \in DOMAIN Rounds, p \in Participant : Enter(i, p) \/ Pass(i, p)
    \/ \E S \in SUBSET Participant : Lose(S)

Spec == Init /\ [][Next]_vars
=============================================================================

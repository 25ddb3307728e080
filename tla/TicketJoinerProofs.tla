------------------------- MODULE TicketJoinerProofs ------------------------
(***************************************************************************)
(* Proofs about TicketJoiner, for every set of clients: types, that Run    *)
(* never waits for a call that has gone, and that the queue implements     *)
(* Matching.                                                               *)
(***************************************************************************)
EXTENDS TicketJoiner, TLAPS

-----------------------------------------------------------------------------
(* The inductive invariant.                                                *)

Last == made[Len(made)]
Gone == {p \in Participant : handler[p] \in {"leaving", "hung"}}

\* A client that waits or is in a session has been taken from the channel, and
\* made its call before.
Called ==
    \A p \in Participant :
        /\ p \in waiting \/ (\E s \in DOMAIN made : p \in made[s]) =>
                worker[p] \in {"waiting", "finishing", "gone"}
        /\ handler[p] = "none" => worker[p] = "none"

\* While Run answers, those it has to answer and those in the session are the
\* ones in the queue, and there were enough of them, if nobody has left.
Answering ==
    /\ run.at \in {"answer", "register"} => made # <<>>
    /\ run.at = "answer" => run.to \cup Last = waiting
    /\ run.at \in {"lock", "answer"} => Enough(Cardinality(waiting)) \/ Gone # {}

\* Nobody in the queue is in a session that is complete.
Apart == \A s \in DOMAIN made : Complete(s) => made[s] \cap waiting = {}

IInv == TypeOK /\ AnswersAreAwaited /\ Called /\ Answering /\ Apart

\* The states of Run's goroutine.
LEMMA RunStates ==
    /\ [at |-> "select"] \in RunState /\ [at |-> "lock"] \in RunState
    /\ [at |-> "register"] \in RunState
    /\ \A S \in SUBSET Participant : [at |-> "answer", to |-> S] \in RunState
  BY DEF RunState

\* What it still has to answer, and who is not answered any more.
LEMMA RunShape ==
    ASSUME NEW r \in RunState, r.at = "answer", NEW p
    PROVE  /\ r.to \subseteq Participant
           /\ [r EXCEPT !.to = @ \ {p}] = [at |-> "answer", to |-> r.to \ {p}]
  BY DEF RunState

-----------------------------------------------------------------------------
(* Each action keeps it.                                                   *)

\* A request is put into the map; its worker waits.
LEMMA EnqueueKeeps == ASSUME IInv, NEW p \in Participant, Enqueue(p) PROVE IInv'
  <1> USE DEF IInv, Enqueue
  <1>1. TypeOK'
    BY DEF TypeOK
  <1>2. AnswersAreAwaited' /\ Called'
    BY DEF AnswersAreAwaited, Called, TypeOK
  <1>3. Answering'
    BY DEF Answering
  <1>4. Apart'
    BY DEF Apart, Complete, Called
  <1> QED
    BY <1>1, <1>2, <1>3, <1>4

\* The clients were counted, and none has been answered.
LEMMA TickKeeps == ASSUME IInv, Tick PROVE IInv'
  <1> USE DEF IInv, Tick
  <1>1. TypeOK'
    BY RunStates DEF TypeOK
  <1>2. AnswersAreAwaited' /\ Called'
    BY DEF AnswersAreAwaited, Called
  <1>3. Answering' /\ Apart'
    BY DEF Answering, Apart, Complete, Gone
  <1> QED
    BY <1>1, <1>2, <1>3

\* A session that holds nobody yet: those there were stay what they are.
LEMMA NewSession ==
    ASSUME IInv, TakeWaiting
    PROVE  /\ Len(made') = Len(made) + 1 /\ DOMAIN made' = DOMAIN made \cup {Len(made')}
           /\ made' \in Seq(SUBSET Participant) /\ made' # <<>>
           /\ Len(made') \notin DOMAIN made /\ Len(made') \in Nat
           /\ made'[Len(made')] = {}
           /\ \A s \in DOMAIN made : made'[s] = made[s] /\ s < Len(made')
           /\ \A s \in DOMAIN made' : Complete(s)' <=> s \in DOMAIN made
           /\ \A s \in DOMAIN made : Complete(s)
  <1>1. made' = Append(made, {}) /\ made \in Seq(SUBSET Participant)
    BY DEF IInv, TypeOK, TakeWaiting
  <1>2. /\ Len(made') = Len(made) + 1 /\ DOMAIN made' = DOMAIN made \cup {Len(made')}
        /\ made' \in Seq(SUBSET Participant) /\ made' # <<>>
        /\ Len(made') \notin DOMAIN made /\ Len(made') \in Nat
        /\ made'[Len(made')] = {}
        /\ \A s \in DOMAIN made : made'[s] = made[s] /\ s < Len(made')
    BY <1>1
  <1> QED
    BY <1>1, <1>2 DEF Complete, TakeWaiting

\* All that wait are to be answered, in a session with nobody yet.
LEMMA TakeKeeps == ASSUME IInv, TakeWaiting PROVE IInv'
  <1> USE DEF IInv, TakeWaiting, Batch
  <1>1. TypeOK'
    BY RunStates, NewSession DEF TypeOK
  <1>2. AnswersAreAwaited' /\ Called'
    BY NewSession DEF AnswersAreAwaited, Called
  <1>3. Answering'
    BY NewSession DEF Answering, Last, Gone
  <1>4. Apart'
    BY NewSession DEF Apart
  <1> QED
    BY <1>1, <1>2, <1>3, <1>4

\* One more in the last session, none in another.
LEMMA Added ==
    ASSUME IInv, NEW p \in Participant, AnswerTo(p)
    PROVE  /\ made \in Seq(SUBSET Participant) /\ made # <<>> /\ Len(made) \in DOMAIN made
           /\ made' \in Seq(SUBSET Participant) /\ DOMAIN made' = DOMAIN made
           /\ Len(made') = Len(made) /\ made' # <<>>
           /\ made'[Len(made)] = made[Len(made)] \cup {p}
           /\ \A s \in DOMAIN made : s # Len(made) => made'[s] = made[s]
           /\ run' = [at |-> "answer", to |-> run.to \ {p}] /\ run.to \subseteq Participant
           /\ p \in run.to /\ run.at = "answer"
           /\ \A s : Complete(s)' <=> Complete(s)
           /\ \A s \in DOMAIN made : Complete(s) => s # Len(made)
  <1>1. /\ made \in Seq(SUBSET Participant) /\ made # <<>>
        /\ run \in RunState /\ run.at = "answer" /\ p \in run.to
        /\ made' = [made EXCEPT ![Len(made)] = @ \cup {p}]
    BY DEF IInv, TypeOK, Answering, AnswerTo
  <1>2. Len(made) \in DOMAIN made
    BY <1>1
  <1>3. /\ made' \in Seq(SUBSET Participant) /\ DOMAIN made' = DOMAIN made
        /\ Len(made') = Len(made) /\ made' # <<>>
        /\ made'[Len(made)] = made[Len(made)] \cup {p}
        /\ \A s \in DOMAIN made : s # Len(made) => made'[s] = made[s]
    BY <1>1, <1>2
  <1>4. run' = [at |-> "answer", to |-> run.to \ {p}] /\ run.to \subseteq Participant
    BY <1>1, RunShape DEF AnswerTo
  <1> QED
    BY <1>1, <1>2, <1>3, <1>4 DEF Complete

\* A client is put into the session and answered.
LEMMA AnswerKeeps == ASSUME IInv, NEW p \in Participant, AnswerTo(p) PROVE IInv'
  <1> USE DEF IInv, AnswerTo
  <1>1. TypeOK'
    <2>1. run' \in RunState
      <3> DEFINE left == run.to \ {p}
      <3>1. left \in SUBSET Participant /\ run' = [at |-> "answer", to |-> left]
        BY Added
      <3> HIDE DEF left
      <3> QED
        BY <3>1, RunStates
    <2> QED
      BY <2>1, Added DEF TypeOK
  <1>2. AnswersAreAwaited'
    BY Added DEF AnswersAreAwaited, TypeOK
  <1>3. Called'
    BY Added DEF Called, TypeOK
  <1>4. Answering'
    BY Added DEF Answering, Last, Gone
  <1>5. Apart'
    BY Added DEF Apart
  <1> QED
    BY <1>1, <1>2, <1>3, <1>4, <1>5

\* When nobody is left to answer, the session has all that waited.
LEMMA AllAnswered ==
    ASSUME IInv, Answered
    PROVE  waiting = Last /\ made # <<>> /\ Len(made) \in DOMAIN made
  <1>1. made \in Seq(SUBSET Participant) /\ made # <<>> /\ run.to = {} /\ run.at = "answer"
    BY DEF IInv, TypeOK, Answering, Answered
  <1> QED
    BY <1>1 DEF IInv, Answering

\* The map is emptied of those that were answered.
LEMMA AnsweredKeeps == ASSUME IInv, Answered PROVE IInv'
  <1> USE DEF IInv, Answered, Emptied
  <1>1. TypeOK'
    BY RunStates DEF TypeOK
  <1>2. AnswersAreAwaited' /\ Called'
    BY DEF AnswersAreAwaited, Called
  <1>3. Answering' /\ Apart'
    BY DEF Answering, Apart
  <1> QED
    BY <1>1, <1>2, <1>3

\* A session that is complete is registered.
LEMMA RegisterKeeps == ASSUME IInv, Register PROVE IInv'
  <1> USE DEF IInv, Register
  <1>1. Len(made) \in DOMAIN made
    BY DEF TypeOK, Answering
  <1>2. TypeOK'
    BY <1>1, RunStates DEF TypeOK
  <1>3. AnswersAreAwaited' /\ Called'
    BY DEF AnswersAreAwaited, Called
  <1>4. Answering' /\ Apart'
    BY DEF Answering, Apart, Complete
  <1> QED
    BY <1>2, <1>3, <1>4

\* A new call is in no session.
LEMMA FindKeeps == ASSUME IInv, NEW p \in Participant, FindMatches(p) PROVE IInv'
  <1> USE DEF IInv, FindMatches
  <1>1. TypeOK'
    BY DEF TypeOK
  <1>2. AnswersAreAwaited'
    <2>1. p \notin waiting /\ worker[p] = "none"
      BY DEF Called
    <2> QED
      BY <2>1 DEF AnswersAreAwaited, TypeOK
  <1>3. Called'
    BY DEF Called, TypeOK
  <1>4. Answering' /\ Apart'
    BY DEF Answering, Apart, Complete, Gone, Last, TypeOK
  <1> QED
    BY <1>1, <1>2, <1>3, <1>4

\* A worker has told its handler.
LEMMA FinishKeeps == ASSUME IInv, NEW p \in Participant, Finish(p) PROVE IInv'
  <1> USE DEF IInv, Finish
  <1>1. TypeOK'
    BY DEF TypeOK
  <1>2. AnswersAreAwaited'
    BY DEF AnswersAreAwaited, TypeOK
  <1>3. Called'
    BY DEF Called, TypeOK
  <1>4. Answering' /\ Apart'
    BY DEF Answering, Apart, Complete, Gone, Last, TypeOK
  <1> QED
    BY <1>1, <1>2, <1>3, <1>4

\* What only handlers do.
LEMMA HandlerKeeps ==
    ASSUME IInv, NEW p \in Participant, Cancel(p) \/ GetJoinSession(p) \/ Miss(p)
    PROVE  IInv'
  <1> USE DEF IInv, Cancel, GetJoinSession, Miss
  <1>1. TypeOK'
    BY DEF TypeOK
  <1>2. AnswersAreAwaited' /\ Called'
    BY DEF AnswersAreAwaited, Called, TypeOK
  <1>3. Answering' /\ Apart'
    BY DEF Answering, Apart, Complete, Gone, Last, TypeOK
  <1> QED
    BY <1>1, <1>2, <1>3

\* A request is withdrawn while nobody is being answered.
LEMMA RemoveKeeps == ASSUME IInv, NEW p \in Participant, RemoveWaitingID(p) PROVE IInv'
  <1> USE DEF IInv, RemoveWaitingID
  <1>1. TypeOK'
    BY DEF TypeOK
  <1>2. AnswersAreAwaited' /\ Called'
    BY DEF AnswersAreAwaited, Called, TypeOK
  <1>3. p \in Gone'
    BY DEF Gone, TypeOK
  <1>4. Answering' /\ Apart'
    BY <1>3 DEF Answering, Apart, Complete
  <1> QED
    BY <1>1, <1>2, <1>4

\* A session is taken from the registered ones.
LEMMA SessionKeeps == ASSUME IInv, NEW s \in joinSessions, RemoveSession(s) PROVE IInv'
  <1> USE DEF IInv, RemoveSession
  <1>1. TypeOK'
    BY DEF TypeOK, RoomInDone
  <1>2. AnswersAreAwaited' /\ Called'
    BY DEF AnswersAreAwaited, Called
  <1>3. Answering' /\ Apart'
    BY DEF Answering, Apart, Complete, Gone, Last
  <1> QED
    BY <1>1, <1>2, <1>3

\* The shutdown, and a session that writes done late.
LEMMA OthersKeep ==
    ASSUME IInv, WriteDone \/ Stop \/ StopWaited \/ Exit \/ UNCHANGED vars
    PROVE  IInv'
  <1> USE DEF IInv, WriteDone, Stop, StopWaited, Exit, vars
  <1>1. TypeOK'
    BY DEF TypeOK, RoomInDone
  <1>2. AnswersAreAwaited' /\ Called'
    BY DEF AnswersAreAwaited, Called
  <1>3. Answering' /\ Apart'
    BY DEF Answering, Apart, Complete, Gone, Last
  <1> QED
    BY <1>1, <1>2, <1>3

\* The invariant behind the theorems: who is in the queue, who is answered, and
\* who is in a session, from the moment they are counted.
THEOREM Invariant == Spec => []IInv
  <1>1. Init => IInv
    <2>1. Init => TypeOK
      BY RunStates, <<>> \in Seq(SUBSET Participant) DEF Init, TypeOK
    <2>2. Init => AnswersAreAwaited /\ Called /\ Answering /\ Apart
      BY DEF Init, AnswersAreAwaited, Called, Answering, Apart
    <2> QED
      BY <2>1, <2>2 DEF IInv
  <1>2. IInv /\ [Next]_vars => IInv'
    BY EnqueueKeeps, TickKeeps, TakeKeeps, AnswerKeeps, AnsweredKeeps, RegisterKeeps, FindKeeps,
       FinishKeeps, HandlerKeeps, RemoveKeeps, SessionKeeps, OthersKeep
       DEF Next, RunStep
  <1> QED
    BY <1>1, <1>2, PTL DEF Spec

\* Every variable keeps its type; in particular the channel done never holds more
\* than one message, and only sessions that were made are registered.
THEOREM Typed == Spec => []TypeOK
  BY Invariant, PTL DEF IInv

\* Run, which holds the queue's lock while it answers, never waits for a call
\* that was cancelled or answered before.
THEOREM AnswersAreAwaitedHolds == Spec => []AnswersAreAwaited
  BY Invariant, PTL DEF IInv

-----------------------------------------------------------------------------
(* The queue implements Matching.                                          *)

CompleteOnes == {made[s] : s \in {t \in DOMAIN made : Complete(t)}}

\* A step that the queue, seen as Matching, does not see.
Same == waiting' = waiting /\ Gone' = Gone /\ CompleteOnes' = CompleteOnes

\* Sessions stay complete when neither they nor Run's part in them change.
LEMMA SameOnes ==
    ASSUME made' = made, (run'.at = "answer") <=> (run.at = "answer")
    PROVE  CompleteOnes' = CompleteOnes
  BY DEF CompleteOnes, Complete

\* At first nobody waits in either.
LEMMA InitMatches == Init => Queue!Init
  BY DEF Init, Queue!Init

\* Every step of the ticker is a step of Matching, or none.
LEMMA StepMatches == IInv /\ [Next]_vars => [Queue!Next]_Queue!vars
  <1> SUFFICES ASSUME IInv, [Next]_vars PROVE Queue!Next \/ Same
    BY DEF Queue!vars, Gone, CompleteOnes, Same
  <1>1. ASSUME NEW p \in Participant, Enqueue(p) PROVE Queue!Arrive(p)
    <2>1. p \notin waiting \cup UNION CompleteOnes
      BY <1>1 DEF IInv, Enqueue, Called, CompleteOnes
    <2>2. Gone' = Gone /\ CompleteOnes' = CompleteOnes
      BY <1>1, SameOnes DEF Enqueue, Gone
    <2> QED
      BY <1>1, <2>1, <2>2 DEF Enqueue, Queue!Arrive, Gone, CompleteOnes
  <1>2. CASE Tick \/ Register
    BY <1>2, SameOnes DEF Tick, Register, Same, Gone
  <1>3. CASE TakeWaiting
    <2>1. CompleteOnes' = CompleteOnes
      BY <1>3, NewSession DEF CompleteOnes
    <2> QED
      BY <1>3, <2>1 DEF TakeWaiting, Same, Gone
  <1>4. ASSUME NEW p \in Participant, AnswerTo(p) PROVE Same
    <2>1. CompleteOnes' = CompleteOnes
      BY <1>4, Added DEF CompleteOnes
    <2> QED
      BY <1>4, <2>1 DEF AnswerTo, Same, Gone
  <1>5. CASE Answered
    <2>1. /\ waiting = Last /\ Len(made) \in DOMAIN made /\ made' = made
          /\ made \in Seq(SUBSET Participant) /\ run.at = "answer" /\ run'.at # "answer"
      BY <1>5, AllAnswered DEF Answered, IInv, TypeOK
    <2>2. \A s \in DOMAIN made : Complete(s)' /\ (Complete(s) <=> s # Len(made))
      BY <2>1 DEF Complete
    <2>3. CompleteOnes' = CompleteOnes \cup {waiting}
      BY <2>1, <2>2 DEF CompleteOnes, Last
    <2>4. Cardinality(waiting) >= MinParticipants \/ Gone # {}
      BY <2>1 DEF IInv, Answering, Enough
    <2>5. Gone' = Gone /\ waiting' = {}
      BY <1>5 DEF Answered, Emptied, Gone
    <2>6. Queue!Match
      BY <2>3, <2>4, <2>5 DEF Queue!Match, Gone, CompleteOnes, Cardinality, Queue!Cardinality
    <2> QED
      BY <2>6 DEF Queue!Next
  <1>6. ASSUME NEW p \in Participant,
               FindMatches(p) \/ Finish(p) \/ GetJoinSession(p) \/ Miss(p)
        PROVE  Same
    <2>1. Gone' = Gone
      BY <1>6 DEF FindMatches, Finish, GetJoinSession, Miss, Gone, IInv, TypeOK
    <2> QED
      BY <1>6, <2>1, SameOnes DEF FindMatches, Finish, GetJoinSession, Miss, Same
  <1>7. ASSUME NEW p \in Participant, Cancel(p) PROVE Queue!GoAway(p)
    <2>1. Gone' = Gone \cup {p} /\ CompleteOnes' = CompleteOnes
      BY <1>7, SameOnes DEF Cancel, Gone, IInv, TypeOK
    <2> QED
      BY <1>7, <2>1 DEF Cancel, Queue!GoAway, Gone, CompleteOnes
  <1>8. ASSUME NEW p \in Participant, RemoveWaitingID(p) PROVE Queue!Next \/ Same
    <2>1. /\ p \in Gone /\ waiting' = waiting \ {p} /\ CompleteOnes' = CompleteOnes
          /\ Gone' = Gone
      BY <1>8, SameOnes DEF RemoveWaitingID, Gone, IInv, TypeOK
    <2>2. CASE p \in waiting
      BY <2>1, <2>2 DEF Queue!Next, Queue!Withdraw, Gone, CompleteOnes
    <2> QED
      BY <2>1, <2>2 DEF Same
  <1>9. ASSUME NEW s \in joinSessions, RemoveSession(s) PROVE Same
    BY <1>9, SameOnes DEF RemoveSession, Same, Gone
  <1>10. CASE WriteDone \/ Stop \/ StopWaited \/ Exit \/ UNCHANGED vars
    BY <1>10, SameOnes DEF WriteDone, Stop, StopWaited, Exit, vars, Same, Gone
  <1> QED
    BY <1>1, <1>2, <1>3, <1>4, <1>5, <1>6, <1>7, <1>8, <1>9, <1>10
       DEF Next, RunStep, Queue!Next

\* The queue of the simple mode matches its clients as Matching says: no client
\* that waits is put into two sessions, forgotten, or counted but not taken.
THEOREM MatchesHolds == Spec => Matches
  BY InitMatches, StepMatches, Invariant, PTL DEF Spec, Matches, Queue!Spec
=============================================================================

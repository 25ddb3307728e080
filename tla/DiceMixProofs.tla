--------------------------- MODULE DiceMixProofs ---------------------------
(***************************************************************************)
(* Proofs about DiceMix, for every set of peers and every way they come    *)
(* and go: types, the timer's flag, whom a session is started with.        *)
(***************************************************************************)
EXTENDS DiceMix, TLAPS

-----------------------------------------------------------------------------
(* The inductive invariant.                                                *)

\* A peer that is in the queue or in a session was received, and its connection
\* was made; the connection of one whose reader has left the loop is lost.
Received ==
    \A p \in Peer :
        /\ p \in queue \/ HasSession(p) => reader[p] # "none"
        /\ reader[p] # "none" => conn[p] # "none"
        /\ reader[p] \in {"leaving", "unmatched", "removing", "closing", "gone"} =>
                conn[p] \in {"left", "closed"}

\* While peers are handed over the timer rests, and those in the new session are
\* among the ones that were counted.
Joined ==
    run.at = "join" =>
        /\ ~armed
        /\ made # <<>>
        /\ Last \subseteq queue
        /\ Enough
        /\ run.sending \in Last \cup {NoPeer}

\* Nobody in the queue is in a session that has been started.
Apart == \A s \in DOMAIN made : Started(s) => made[s] \cap queue = {}

\* A peer whose reader is done with the queue is not in it, or on its way out,
\* and a session that is to be left is there.
Settled ==
    \A p \in Peer :
        /\ reader[p] \in {"closing", "gone"} => p \notin queue \/ HasSession(p)
        /\ reader[p] = "leaving" \/ writer[p] = "failed" => HasSession(p)

IInv == TypeOK /\ TimerRuns /\ Received /\ Joined /\ Apart /\ Settled

-----------------------------------------------------------------------------
(* Each action keeps it.                                                   *)

\* The states of Run's goroutine.
LEMMA RunStates ==
    Select \in RunState /\ \A p \in Peer \cup {NoPeer} : Joining(p) \in RunState
  BY DEF RunState, Select, Joining

\* A peer that is added is in no session and not removed.
LEMMA AddKeeps == ASSUME IInv, NEW p \in Peer, AddNewPeer(p) PROVE IInv'
  <1> USE DEF IInv, AddNewPeer
  <1>1. TypeOK'
    BY DEF TypeOK, RunState, Select
  <1>2. TimerRuns' /\ Joined'
    BY DEF TimerRuns, Joined, Select
  <1>3. Received'
    BY DEF Received, TypeOK, HasSession
  <1>4. Apart'
    BY DEF Apart, Received, Started, HasSession, Select
  <1>5. Settled'
    BY DEF Settled, TypeOK, HasSession
  <1> QED
    BY <1>1, <1>2, <1>3, <1>4, <1>5

\* The timer is started only if there is none.
LEMMA CheckKeeps == ASSUME IInv, CheckQueue PROVE IInv'
  <1> USE DEF IInv, CheckQueue
  <1>1. TypeOK'
    BY RunStates DEF TypeOK
  <1>2. TimerRuns' /\ Joined'
    BY DEF TimerRuns, Joined, Select
  <1>3. Received' /\ Settled'
    BY DEF Received, Settled, HasSession
  <1>4. Apart'
    BY DEF Apart, Started, Select
  <1> QED
    BY <1>1, <1>2, <1>3, <1>4

\* A session that holds nobody yet: those there were stay what they are.
LEMMA NewSession ==
    ASSUME IInv, TimerFires, Enough
    PROVE  /\ made' = Append(made, {})
           /\ Len(made') = Len(made) + 1 /\ DOMAIN made' = DOMAIN made \cup {Len(made')}
           /\ made'[Len(made')] = {}
           /\ \A s \in DOMAIN made : made'[s] = made[s]
           /\ \A p : HasSession(p)' <=> HasSession(p)
  <1>1. made' = Append(made, {}) /\ made \in Seq(SUBSET Peer)
    BY DEF IInv, TypeOK, TimerFires
  <1>2. /\ Len(made') = Len(made) + 1 /\ DOMAIN made' = DOMAIN made \cup {Len(made')}
        /\ made'[Len(made')] = {}
        /\ \A s \in DOMAIN made : made'[s] = made[s]
    BY <1>1
  <1> QED
    BY <1>1, <1>2 DEF HasSession

\* The timer is given up, or a session with nobody in it is begun.
LEMMA TimerKeeps == ASSUME IInv, TimerFires PROVE IInv'
  <1>1. CASE ~Enough
    BY <1>1 DEF IInv, TimerFires, TypeOK, TimerRuns, Received, Settled, Joined, Apart, Started,
                HasSession, Last, Enough, Select
  <1>2. CASE Enough
    <2> USE <1>2 DEF TimerFires
    <2>1. made' \in Seq(SUBSET Peer)
      BY NewSession DEF IInv, TypeOK
    <2>2. removed' \subseteq UNION {made'[s] : s \in DOMAIN made'}
      BY NewSession DEF IInv, TypeOK
    <2>3. TypeOK'
      BY <2>1, <2>2, RunStates DEF IInv, TypeOK
    <2>4. TimerRuns'
      BY DEF IInv, TypeOK, TimerRuns, Joining
    <2>5. Received' /\ Settled'
      BY NewSession DEF IInv, Received, Settled
    <2>6. Last' = {} /\ made' # <<>>
      BY NewSession, <2>1 DEF Last
    <2>7. Joined'
      BY <2>6 DEF IInv, Joined, Joining, Enough
    <2>8. Apart'
      <3> SUFFICES ASSUME NEW s \in DOMAIN made', Started(s)' PROVE made'[s] \cap queue' = {}
        BY DEF Apart
      <3>1. s \in DOMAIN made /\ made'[s] = made[s] /\ Started(s)
        BY NewSession DEF Started, Joining, Select
      <3> QED
        BY <3>1 DEF IInv, Apart
    <2> QED
      BY <2>3, <2>4, <2>5, <2>7, <2>8 DEF IInv
  <1> QED
    BY <1>1, <1>2

\* A peer is put into the session being made, out of no other.
LEMMA PutKeeps == ASSUME IInv, NEW p \in Peer, Put(p) PROVE IInv'
  <1>1. /\ run.at = "join" /\ p \in queue /\ made \in Seq(SUBSET Peer) /\ made # <<>>
        /\ made' = [made EXCEPT ![Len(made)] = @ \cup {p}]
    BY DEF Put, Joining, IInv, Joined, TypeOK
  <1>2. Len(made) \in DOMAIN made
    BY <1>1
  <1>3. /\ made' \in Seq(SUBSET Peer) /\ DOMAIN made' = DOMAIN made /\ Len(made') = Len(made)
        /\ made'[Len(made)] = made[Len(made)] \cup {p}
        /\ \A s \in DOMAIN made : s # Len(made) => made'[s] = made[s]
    BY <1>1, <1>2
  <1>4. Last' = Last \cup {p} /\ made' # <<>>
    BY <1>1, <1>3 DEF Last
  <1>5. \A q : HasSession(q)' <=> HasSession(q) \/ q = p
    BY <1>2, <1>3 DEF HasSession
  <1>6. removed' \subseteq UNION {made'[s] : s \in DOMAIN made'}
    BY <1>3 DEF Put, IInv, TypeOK
  <1>7. TypeOK'
    BY <1>3, <1>6 DEF Put, IInv, TypeOK, RunState, Joining
  <1>8. TimerRuns' /\ Joined'
    BY <1>1, <1>4 DEF Put, IInv, TimerRuns, Joined, Joining, Enough
  <1>9. Received' /\ Settled'
    BY <1>1, <1>5 DEF Put, IInv, Received, Settled
  <1>10. Apart'
    BY <1>1, <1>3 DEF Put, IInv, Apart, Started, Joining
  <1> QED
    BY <1>7, <1>8, <1>9, <1>10 DEF IInv

\* The writer of the peer put last has taken its message.
LEMMA RespondKeeps == ASSUME IInv, NEW p \in Peer, Respond(p) PROVE IInv'
  <1> USE DEF IInv, Respond, Joining
  <1>1. TypeOK'
    BY DEF TypeOK, RunState, WriteOutcomes
  <1>2. TimerRuns' /\ Joined'
    BY DEF TimerRuns, Joined, Last, Enough
  <1>3. Received' /\ Apart'
    BY DEF Received, Apart, Started, HasSession
  <1>4. HasSession(p)
    BY ConstantsOK DEF Joined, HasSession, Last, TypeOK
  <1>5. Settled'
    BY <1>4 DEF Settled, HasSession, TypeOK
  <1> QED
    BY <1>1, <1>2, <1>3, <1>5

\* The queue at the end is all that was put into the session.
LEMMA AllAreIn == ASSUME IInv, StartSession PROVE queue = Last /\ made # <<>>
  BY DEF IInv, StartSession, Joining, Joined, AllPut

\* The session is started with all that were in the queue.
LEMMA StartKeeps == ASSUME IInv, StartSession PROVE IInv'
  <1> USE DEF IInv, StartSession
  <1>1. TypeOK'
    BY RunStates DEF TypeOK, ResetWillStart
  <1>2. TimerRuns' /\ Joined'
    BY DEF TimerRuns, Joined, Select, Joining, ResetWillStart
  <1>3. Received' /\ Apart'
    BY DEF Received, Apart, HasSession
  <1>4. Settled'
    BY DEF Settled, HasSession
  <1> QED
    BY <1>1, <1>2, <1>3, <1>4

\* A connection that comes or goes changes nothing in the queue.
LEMMA ConnectKeeps == ASSUME IInv, NEW p \in Peer, Connect(p) \/ Leave(p) PROVE IInv'
  <1> USE DEF IInv, Connect, Leave
  <1>1. TypeOK'
    BY DEF TypeOK
  <1>2. TimerRuns' /\ Joined'
    BY DEF TimerRuns, Joined, Last, Enough
  <1>3. Received'
    BY DEF Received, HasSession, TypeOK
  <1>4. Apart' /\ Settled'
    BY DEF Apart, Settled, Started, HasSession
  <1> QED
    BY <1>1, <1>2, <1>3, <1>4

\* A reader looks at the pointers of its peer.
LEMMA ReadErrorKeeps == ASSUME IInv, NEW p \in Peer, ReadError(p) \/ LookAtQueue(p) PROVE IInv'
  <1> USE DEF IInv, ReadError, LookAtQueue
  <1>1. TypeOK'
    BY DEF TypeOK
  <1>2. TimerRuns' /\ Joined'
    BY DEF TimerRuns, Joined, Last, Enough
  <1>3. Received'
    BY DEF Received, HasSession, TypeOK
  <1>4. Apart' /\ Settled'
    BY DEF Apart, Settled, Started, HasSession, TypeOK
  <1> QED
    BY <1>1, <1>2, <1>3, <1>4

\* A peer is deleted while nobody is being handed over.
LEMMA RemovePeerKeeps == ASSUME IInv, NEW p \in Peer, RemovePeer(p) PROVE IInv'
  <1> USE DEF IInv, RemovePeer, Deleted, LockFree
  <1>1. TypeOK'
    BY DEF TypeOK
  <1>2. TimerRuns' /\ Joined'
    BY DEF TimerRuns, Joined
  <1>3. Received'
    BY DEF Received, HasSession, TypeOK
  <1>4. Apart' /\ Settled'
    BY DEF Apart, Settled, Started, HasSession, TypeOK
  <1> QED
    BY <1>1, <1>2, <1>3, <1>4

\* A reader or writer takes its peer out of its session.
LEMMA LeavesKeeps == ASSUME IInv, NEW p \in Peer, ReaderLeaves(p) \/ WriterLeaves(p) PROVE IInv'
  <1> USE DEF IInv, ReaderLeaves, WriterLeaves, TakeOut
  <1>1. HasSession(p)
    BY DEF Settled
  <1>2. TypeOK'
    BY <1>1 DEF TypeOK, HasSession
  <1>3. TimerRuns' /\ Joined'
    BY DEF TimerRuns, Joined, Last, Enough
  <1>4. Received'
    BY DEF Received, HasSession, TypeOK
  <1>5. Apart' /\ Settled'
    BY <1>1 DEF Apart, Settled, Started, HasSession, TypeOK
  <1> QED
    BY <1>2, <1>3, <1>4, <1>5

\* A reader ends, and its writer with it, or the process.
LEMMA CloseKeeps == ASSUME IInv, NEW p \in Peer, CloseReader(p) PROVE IInv'
  <1> USE DEF IInv, CloseReader
  <1>1. TypeOK'
    BY DEF TypeOK
  <1>2. TimerRuns' /\ Joined'
    BY DEF TimerRuns, Joined, Last, Enough
  <1>3. Received'
    BY DEF Received, HasSession, TypeOK
  <1>4. Apart' /\ Settled'
    BY DEF Apart, Settled, Started, HasSession, TypeOK
  <1> QED
    BY <1>1, <1>2, <1>3, <1>4

\* A step that changes nothing.
LEMMA StutterKeeps == ASSUME IInv, UNCHANGED vars PROVE IInv'
  BY DEF vars, IInv, TypeOK, TimerRuns, Received, Joined, Apart, Settled, Started, HasSession,
         Last, Enough

\* The invariant behind the theorems: peers that are handed over were counted,
\* and the reader of a peer knows of its session as long as that matters.
THEOREM Invariant == Spec => []IInv
  <1>1. Init => IInv
    <2>1. Init => TypeOK
      BY RunStates, <<>> \in Seq(SUBSET Peer) DEF Init, TypeOK
    <2>2. Init => TimerRuns /\ Received /\ Joined /\ Apart /\ Settled
      BY DEF Init, TimerRuns, Received, Joined, Apart, Settled, HasSession, Select
    <2> QED
      BY <2>1, <2>2 DEF IInv
  <1>2. IInv /\ [Next]_vars => IInv'
    BY AddKeeps, CheckKeeps, TimerKeeps, PutKeeps, RespondKeeps, StartKeeps, ConnectKeeps,
       ReadErrorKeeps, RemovePeerKeeps, LeavesKeeps, CloseKeeps, StutterKeeps
       DEF Next, RunStep, ReaderStep
  <1> QED
    BY <1>1, <1>2, PTL DEF Spec

\* Every variable keeps its type, and only members of a session are taken out.
THEOREM Typed == Spec => []TypeOK
  BY Invariant, PTL DEF IInv

\* The flag WillStart is set just as long as a timer is on its way or peers are
\* being handed over: never so that no timer would be started again.
THEOREM TimerRunsHolds == Spec => []TimerRuns
  BY Invariant, PTL DEF IInv

-----------------------------------------------------------------------------
(* What a step does.                                                       *)

\* A peer whose reader has dealt with its loss is never put into a session.
THEOREM GoneAreNotPutHolds == Spec => GoneAreNotPut
  <1> DEFINE Fresh == \A s \in DOMAIN made' : \A p \in made'[s] :
                reader[p] \in {"closing", "gone"} => s \in DOMAIN made /\ p \in made[s]
  <1>1. IInv /\ [Next]_vars => Fresh
    <2> SUFFICES ASSUME IInv, [Next]_vars PROVE Fresh
      OBVIOUS
    <2>1. CASE UNCHANGED made
      BY <2>1
    <2>2. CASE TimerFires /\ Enough
      BY <2>2, NewSession
    <2>3. ASSUME NEW p \in Peer, Put(p) PROVE Fresh
      <3>1. /\ run.at = "join" /\ p \in queue \ Last /\ made \in Seq(SUBSET Peer)
            /\ made' = [made EXCEPT ![Len(made)] = @ \cup {p}]
        BY <2>3 DEF Put, Joining, IInv, TypeOK
      <3>2. ~HasSession(p)
        BY <3>1 DEF IInv, Apart, Started, HasSession, Last
      <3>3. reader[p] \notin {"closing", "gone"}
        BY <3>1, <3>2 DEF IInv, Settled
      <3> QED
        BY <3>1, <3>3
    <2> QED
      BY <2>1, <2>2, <2>3
         DEF Next, RunStep, ReaderStep, AddNewPeer, CheckQueue, TimerFires, Respond, StartSession,
             Connect, Leave, ReadError, LookAtQueue, RemovePeer, ReaderLeaves, WriterLeaves,
             CloseReader, vars
  <1> QED
    BY <1>1, Invariant, PTL DEF Spec, GoneAreNotPut

-----------------------------------------------------------------------------
(* The queue implements Matching.                                          *)

Lost == {p \in Peer : conn[p] \in {"left", "closed"}}
StartedOnes == {made[s] : s \in {t \in DOMAIN made : Started(t)}}

\* While the sessions stay, and the run goes on or not, so do the started ones.
LEMMA SameOnes ==
    ASSUME made' = made, (run'.at = "join") <=> (run.at = "join")
    PROVE  StartedOnes' = StartedOnes
  BY DEF StartedOnes, Started

\* A step that the queue, seen as Matching, does not see.
Same == queue' = queue /\ Lost' = Lost /\ StartedOnes' = StartedOnes

\* At first nobody waits in either.
LEMMA InitMatches == Init => Queue!Init
  BY DEF Init, Queue!Init

\* Every step of the queue is a step of Matching, or none.
LEMMA StepMatches == IInv /\ [Next]_vars => [Queue!Next]_Queue!vars
  <1> SUFFICES ASSUME IInv, [Next]_vars
               PROVE  Queue!Next \/ Same
    BY DEF Queue!vars, Lost, StartedOnes, Same
  <1>1. ASSUME NEW p \in Peer, AddNewPeer(p) PROVE Queue!Arrive(p)
    <2>1. p \notin queue \cup UNION StartedOnes
      BY <1>1 DEF IInv, AddNewPeer, Received, HasSession, StartedOnes
    <2>2. Lost' = Lost /\ StartedOnes' = StartedOnes
      BY <1>1 DEF AddNewPeer, Select, Lost, StartedOnes, Started
    <2> QED
      BY <1>1, <2>1, <2>2 DEF AddNewPeer, Queue!Arrive, Lost, StartedOnes
  <1>2. CASE CheckQueue
    BY <1>2, SameOnes DEF CheckQueue, Select, Lost, Same
  <1>3. CASE TimerFires
    <2>1. CASE ~Enough
      BY <1>3, <2>1, SameOnes DEF TimerFires, Lost, Same
    <2>2. CASE Enough
      <3>1. StartedOnes' = StartedOnes
        <4>1. \A s : Started(s)' <=> Started(s)
          BY <1>3, <2>2, NewSession DEF TimerFires, Select, Joining, Started, IInv, TypeOK
        <4> QED
          BY <1>3, <2>2, <4>1, NewSession DEF StartedOnes, Started
      <3> QED
        BY <1>3, <2>2, <3>1 DEF TimerFires, Lost, Same
    <2> QED
      BY <2>1, <2>2
  <1>4. ASSUME NEW p \in Peer, Put(p) PROVE Same
    <2>1. /\ run.at = "join" /\ run'.at = "join" /\ made \in Seq(SUBSET Peer)
          /\ made' = [made EXCEPT ![Len(made)] = @ \cup {p}]
      BY <1>4 DEF Put, Joining, IInv, TypeOK
    <2>2. Len(made') = Len(made) /\ DOMAIN made' = DOMAIN made
      BY <2>1
    <2>3. \A s : Started(s)' <=> Started(s)
      BY <2>1, <2>2 DEF Started
    <2>4. \A s \in DOMAIN made : Started(s) => made'[s] = made[s]
      BY <2>1 DEF Started
    <2> QED
      BY <1>4, <2>2, <2>3, <2>4 DEF Put, Lost, StartedOnes, Same
  <1>5. ASSUME NEW p \in Peer, Respond(p) PROVE Same
    BY <1>5, SameOnes DEF Respond, Joining, Lost, Same
  <1>6. CASE StartSession
    <2>1. queue = Last /\ made # <<>> /\ made' = made /\ made \in Seq(SUBSET Peer)
          /\ run.at = "join" /\ run'.at # "join"
      BY <1>6, AllAreIn DEF StartSession, Joining, Select, IInv, TypeOK
    <2>2. Len(made) \in DOMAIN made /\ queue = made[Len(made)]
      BY <2>1 DEF Last
    <2>3. \A s \in DOMAIN made : Started(s)' /\ (Started(s) <=> s # Len(made))
      BY <2>1 DEF Started
    <2>4. StartedOnes' = StartedOnes \cup {queue}
      BY <2>1, <2>2, <2>3 DEF StartedOnes
    <2>5. Cardinality(queue) >= MinParticipants
      BY <2>1 DEF IInv, Joined, Enough
    <2>6. Lost' = Lost /\ queue' = {}
      BY <1>6 DEF StartSession, Lost
    <2>7. Queue!Match
      BY <2>4, <2>5, <2>6 DEF Queue!Match, Lost, StartedOnes, Cardinality, Queue!Cardinality
    <2> QED
      BY <2>7 DEF Queue!Next
  <1>7. ASSUME NEW p \in Peer, Connect(p) PROVE Same
    BY <1>7, SameOnes DEF Connect, Lost, Same, IInv, TypeOK
  <1>8. ASSUME NEW p \in Peer, Leave(p) \/ ReaderLeaves(p) \/ WriterLeaves(p) \/ CloseReader(p)
        PROVE  Queue!GoAway(p)
    <2>1. queue' = queue /\ StartedOnes' = StartedOnes
      BY <1>8, SameOnes DEF Leave, ReaderLeaves, WriterLeaves, CloseReader, TakeOut
    <2>2. conn' = [conn EXCEPT ![p] = "left"] \/ conn' = [conn EXCEPT ![p] = "closed"]
      BY <1>8 DEF Leave, ReaderLeaves, WriterLeaves, CloseReader, TakeOut
    <2>3. Lost' = Lost \cup {p}
      BY <2>2 DEF Lost, IInv, TypeOK
    <2> QED
      BY <2>1, <2>3 DEF Queue!GoAway, Lost, StartedOnes
  <1>9. ASSUME NEW p \in Peer, ReadError(p) \/ LookAtQueue(p)
        PROVE  Same
    BY <1>9, SameOnes DEF ReadError, LookAtQueue, Lost, Same
  <1>10. ASSUME NEW p \in Peer, RemovePeer(p)
         PROVE  Queue!Next \/ Same
    <2>1. p \in Lost
      BY <1>10 DEF RemovePeer, IInv, Received, Lost
    <2>2. queue' = queue \ {p} /\ Lost' = Lost /\ StartedOnes' = StartedOnes
      BY <1>10, SameOnes DEF RemovePeer, Deleted, Lost
    <2>3. CASE p \in queue
      BY <2>1, <2>2, <2>3 DEF Queue!Next, Queue!Withdraw, Lost, StartedOnes
    <2> QED
      BY <2>2, <2>3 DEF Same
  <1>11. CASE UNCHANGED vars
    BY <1>11, SameOnes DEF vars, Lost, Same
  <1> QED
    BY <1>1, <1>2, <1>3, <1>4, <1>5, <1>6, <1>7, <1>8, <1>9, <1>10, <1>11
       DEF Next, RunStep, ReaderStep, Queue!Next

\* The queue of the blind mode matches its peers as Matching says: no peer is put
\* into two sessions, forgotten, or counted but not taken.
THEOREM MatchesHolds == Spec => Matches
  BY InitMatches, StepMatches, Invariant, PTL DEF Spec, Matches, Queue!Spec
=============================================================================

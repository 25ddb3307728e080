------------------------------- MODULE DiceMix -----------------------------
(***************************************************************************)
(* The queue of the blind mode (coinjoin/coinjoin.go): the goroutine       *)
(* DiceMix.Run, which collects peers and makes a session of all that are   *)
(* there when its timer fires, and of each peer the goroutines             *)
(* ReadMessages and WriteMessages until that session is started.  From     *)
(* then on the peer belongs to JoinSession.                                *)
(*                                                                         *)
(* Run holds the queue's lock while it hands the peers over, and sends     *)
(* each its first message over the peer's unbuffered writeChan.  A reader  *)
(* whose connection fails looks, without a lock, first whether the peer    *)
(* has a session and then whether it has a queue; either may change in     *)
(* between.  In the end it closes the connection and stops the writer by a *)
(* message on the channel Close, which a writer that ends closes.          *)
(***************************************************************************)
EXTENDS Naturals, Sequences, FiniteSets

CONSTANTS
    Peer,               \* the peers, each of which connects once
    NoPeer,             \* not a peer
    Leaver,             \* peers whose clients may go away
    MinParticipants     \* Config.MinParticipants

ASSUME ConstantsOK ==
    /\ IsFiniteSet(Peer)
    /\ NoPeer \notin Peer
    /\ Leaver \subseteq Peer
    /\ MinParticipants \in Nat

VARIABLES
    queue,      \* joinQueue.Peers
    willStart,  \* diceMix.WillStart
    armed,      \* diceMix.TimerChan will deliver
    run,        \* control state of DiceMix.Run
    made,       \* the sessions, as the sets of the peers put into them
    removed,    \* peers that removePeer took out of their session again
    conn,       \* websocket: "none", "open", "left" (by the client), "closed"
    reader,     \* control state of each peer's ReadMessages
    writer,     \* control state of each peer's WriteMessages
    crashed     \* the process died of a panic or a fatal runtime error

vars == <<queue, willStart, armed, run, made, removed, conn, reader, writer, crashed>>

Select == [at |-> "select"]
Joining(p) == [at |-> "join", sending |-> p]

Init ==
    /\ queue = {}
    /\ willStart = FALSE
    /\ armed = FALSE
    /\ run = Select
    /\ made = <<>>
    /\ removed = {}
    /\ conn = [p \in Peer |-> "none"]
    /\ reader = [p \in Peer |-> "none"]
    /\ writer = [p \in Peer |-> "none"]
    /\ crashed = FALSE

\* Mutant: RemovePeer does not lock.
NoLock == TRUE

\* Nobody holds joinQueue.mu, but for a moment.
LockFree == run.at # "join"

Last == IF made = <<>> THEN {} ELSE made[Len(made)]

\* Mutant: the pointer to the session is not tested.
Assumed(p) == TRUE

\* peer.JoinSession # nil; at the same moment peer.JoinQueue becomes nil.
HasSession(p) == \E s \in DOMAIN made : p \in made[s]

\* The peer's session has been started: it is JoinSession that has the peer.
Started(s) == s \in DOMAIN made /\ (s < Len(made) \/ run.at # "join")
HandedOver(p) == \E s \in DOMAIN made : Started(s) /\ p \in made[s]

-----------------------------------------------------------------------------
(* The goroutine DiceMix.Run.                                              *)

\* A peer is received: into the map, and its goroutines are started.
AddNewPeer(p) ==
    /\ ~crashed
    /\ run = Select
    /\ conn[p] # "none" /\ reader[p] = "none"
    /\ queue' = queue \cup {p}
    /\ reader' = [reader EXCEPT ![p] = "read"]
    /\ writer' = [writer EXCEPT ![p] = "ready"]
    /\ run' = [at |-> "check"]
    /\ UNCHANGED <<willStart, armed, made, removed, conn, crashed>>

\* The map is counted, without the lock by now, and the timer started.
CheckQueue ==
    /\ ~crashed
    /\ run.at = "check"
    /\ run' = Select
    /\ IF Cardinality(queue) >= 2 /\ ~willStart
         THEN willStart' = TRUE /\ armed' = TRUE
         ELSE UNCHANGED <<willStart, armed>>
    /\ UNCHANGED <<queue, made, removed, conn, reader, writer, crashed>>

Enough == Cardinality(queue) >= MinParticipants

\* The lock is taken; it is kept if there is to be a session.
TimerFires ==
    /\ ~crashed
    /\ run = Select
    /\ armed
    /\ armed' = FALSE
    /\ \/ /\ ~Enough
          /\ willStart' = FALSE
          /\ UNCHANGED <<run, made>>
       \/ /\ Enough
          /\ run' = Joining(NoPeer)
          /\ made' = Append(made, {})
          /\ UNCHANGED willStart
    /\ UNCHANGED <<queue, removed, conn, reader, writer, crashed>>

\* The next turn of the loop over the map: the peer's pointers are set.
Put(p) ==
    /\ ~crashed
    /\ run = Joining(NoPeer)
    /\ p \in queue \ Last
    /\ made' = [made EXCEPT ![Len(made)] = @ \cup {p}]
    /\ run' = Joining(p)
    /\ UNCHANGED <<queue, willStart, armed, removed, conn, reader, writer, crashed>>

\* A write on a connection closed here fails, on one the client left it may.
WriteOutcomes(p) == CASE conn[p] = "open" -> {"ready"}
                      [] conn[p] = "left" -> {"ready", "failed"}
                      [] OTHER -> {"failed"}

\* The peer's writer takes the message S_JOIN_RESPONSE and writes it.
Respond(p) ==
    /\ ~crashed
    /\ run = Joining(p)
    /\ writer[p] = "ready"
    /\ \E o \in WriteOutcomes(p) : writer' = [writer EXCEPT ![p] = o]
    /\ run' = Joining(NoPeer)
    /\ UNCHANGED <<queue, willStart, armed, made, removed, conn, reader, crashed>>

AllPut == queue \subseteq Last

\* Mutant: WillStart is not reset.
KeptWillStart == willStart

ResetWillStart == FALSE

\* A new map, the flag, unlock, and the session's goroutine.
StartSession ==
    /\ ~crashed
    /\ run = Joining(NoPeer)
    /\ AllPut
    /\ queue' = {}
    /\ willStart' = ResetWillStart
    /\ run' = Select
    /\ UNCHANGED <<armed, made, removed, conn, reader, writer, crashed>>

RunStep ==
    \/ \E p \in Peer : AddNewPeer(p) \/ Put(p) \/ Respond(p)
    \/ CheckQueue \/ StartSession

-----------------------------------------------------------------------------
(* The goroutines of a peer, and its client.                               *)

\* The handler of /ws has upgraded the connection and offers the peer to Run.
Connect(p) ==
    /\ ~crashed
    /\ conn[p] = "none"
    /\ conn' = [conn EXCEPT ![p] = "open"]
    /\ UNCHANGED <<queue, willStart, armed, run, made, removed, reader, writer, crashed>>

Leave(p) ==
    /\ ~crashed
    /\ p \in Leaver
    /\ conn[p] = "open" /\ ~HandedOver(p)
    /\ conn' = [conn EXCEPT ![p] = "left"]
    /\ UNCHANGED <<queue, willStart, armed, run, made, removed, reader, writer, crashed>>

\* ReadMessage fails, and the pointer to the session is looked at.
ReadError(p) ==
    /\ ~crashed
    /\ reader[p] = "read" /\ conn[p] # "open" /\ ~HandedOver(p)
    /\ reader' = [reader EXCEPT ![p] = IF HasSession(p) THEN "leaving" ELSE "unmatched"]
    /\ UNCHANGED <<queue, willStart, armed, run, made, removed, conn, writer, crashed>>

\* Then that to the queue, on which RemovePeer is called.
LookAtQueue(p) ==
    /\ ~crashed
    /\ reader[p] = "unmatched"
    /\ reader' = [reader EXCEPT ![p] =
                    IF \E s \in DOMAIN made : p \in made[s] THEN "closing" ELSE "removing"]
    /\ UNCHANGED <<queue, willStart, armed, run, made, removed, conn, writer, crashed>>

\* Mutant: the lock, the log, but no delete.
NotDeleted(p) == queue

Deleted(p) == queue \ {p}

\* JoinQueue.RemovePeer.
RemovePeer(p) ==
    /\ ~crashed
    /\ reader[p] = "removing"
    /\ LockFree
    /\ queue' = Deleted(p)
    /\ reader' = [reader EXCEPT ![p] = "closing"]
    /\ UNCHANGED <<willStart, armed, run, made, removed, conn, writer, crashed>>

\* JoinSession.removePeer under the session's lock, which Run, who fills the
\* same map, does not take: two writers of a map may be a fatal error.
TakeOut(p) ==
    /\ removed' = removed \cup {p}
    /\ conn' = [conn EXCEPT ![p] = "closed"]
    /\ crashed' \in BOOLEAN

ReaderLeaves(p) ==
    /\ ~crashed
    /\ reader[p] = "leaving" /\ ~HandedOver(p)
    /\ TakeOut(p)
    /\ reader' = [reader EXCEPT ![p] = "closing"]
    /\ UNCHANGED <<queue, willStart, armed, run, made, writer>>

WriterLeaves(p) ==
    /\ ~crashed
    /\ writer[p] = "failed" /\ ~HandedOver(p)
    /\ TakeOut(p)
    /\ writer' = [writer EXCEPT ![p] = "gone"]
    /\ UNCHANGED <<queue, willStart, armed, run, made, reader>>

\* The deferred function of the reader: a send on Close, taken by a writer that
\* waits; on the channel closed by one that has ended it panics.
CloseReader(p) ==
    /\ ~crashed
    /\ reader[p] = "closing"
    /\ conn' = [conn EXCEPT ![p] = "closed"]
    /\ \/ /\ writer[p] = "ready"
          /\ writer' = [writer EXCEPT ![p] = "gone"]
          /\ reader' = [reader EXCEPT ![p] = "gone"]
          /\ UNCHANGED crashed
       \/ /\ writer[p] = "gone"
          /\ crashed' = TRUE
          /\ UNCHANGED <<reader, writer>>
    /\ UNCHANGED <<queue, willStart, armed, run, made, removed>>

ReaderStep(p) ==
    ReadError(p) \/ LookAtQueue(p) \/ RemovePeer(p) \/ ReaderLeaves(p) \/ CloseReader(p)

-----------------------------------------------------------------------------
(* Specification.                                                          *)

Next ==
    \/ RunStep \/ TimerFires
    \/ \E p \in Peer : ReaderStep(p) \/ WriterLeaves(p) \/ Connect(p) \/ Leave(p)

Spec == Init /\ [][Next]_vars

\* Goroutines run, and a select takes a timer that has fired in the end.
Fairness ==
    /\ WF_vars(RunStep) /\ WF_vars(TimerFires)
    /\ \A p \in Peer : WF_vars(ReaderStep(p)) /\ WF_vars(WriterLeaves(p))

FairSpec == Spec /\ Fairness

-----------------------------------------------------------------------------
(* Properties.                                                             *)

RunState == [at : {"select", "check"}] \cup [at : {"join"}, sending : Peer \cup {NoPeer}]

\* Every variable keeps its type; whoever was taken out of a session was in one.
TypeOK ==
    /\ queue \subseteq Peer
    /\ willStart \in BOOLEAN
    /\ armed \in BOOLEAN
    /\ run \in RunState
    /\ made \in Seq(SUBSET Peer)
    /\ removed \subseteq UNION {made[s] : s \in DOMAIN made}
    /\ conn \in [Peer -> {"none", "open", "left", "closed"}]
    /\ reader \in [Peer -> {"none", "read", "leaving", "unmatched", "removing", "closing", "gone"}]
    /\ writer \in [Peer -> {"none", "ready", "failed", "gone"}]
    /\ crashed \in BOOLEAN

\* WillStart keeps a second timer from being started: it is set just as long as
\* there is one, or else no timer would ever be started again.
TimerRuns == willStart <=> armed \/ run.at = "join"

Queue == INSTANCE Matching WITH
    Client <- Peer,
    MayShrink <- FALSE,
    waiting <- queue,
    gone <- {p \in Peer : conn[p] \in {"left", "closed"}},
    sessions <- {made[s] : s \in {t \in DOMAIN made : Started(t)}}

\* The queue matches its peers: with peers that come, go and are counted
\* meanwhile, a session is started with all that are in it and at least
\* MinParticipants of them, each gets into one only, and only those who are
\* lost are dropped.
Matches == Queue!Spec

\* A peer whose reader has dealt with its loss is not put into a session: it
\* has nobody to read its messages, nor to write to it.
GoneAreNotPut ==
    [][\A s \in DOMAIN made' : \A p \in made'[s] :
         reader[p] \in {"closing", "gone"} => s \in DOMAIN made /\ p \in made[s]]_vars

\* Enough peers, and at least two, in the queue get into a session, and that is
\* started, unless a client goes away.
Starts ==
    \A p \in Peer :
        p \in queue /\ Cardinality(queue) >= MinParticipants /\ Cardinality(queue) >= 2
            ~> HandedOver(p) \/ \E q \in Peer : conn[q] \in {"left", "closed"}
=============================================================================

---------------------------- MODULE TicketJoiner ---------------------------
(***************************************************************************)
(* The queue and the ticker of the simple mode (matcher/jointicker.go),    *)
(* the RPC call FindMatches by which clients come to them (service.go) and *)
(* the shutdown that waits for the sessions (dcrtxmatcher.go).             *)
(*                                                                         *)
(* The goroutine Run takes requests into waitingPars and, at a tick, makes *)
(* a session of all that wait.  A call of FindMatches has a worker, which  *)
(* sends the request, waits for the response and writes done, and a        *)
(* handler, which waits for done or for the end of its context.  In the    *)
(* second case it removes its request from the queue and then blocks for   *)
(* ever on writing done itself.                                            *)
(*                                                                         *)
(* What a session does is in SplitTxSession; here it is registered, found  *)
(* by its members' next call, and removes itself when the last result of   *)
(* its remaining members comes in.  It gets that far with two members only *)
(* (the step after the first is announced to more than one), and for       *)
(* certain only if all of them find it and none is missed by its timer:    *)
(* the timer removes members, but does not look whether the others have    *)
(* all answered already.                                                   *)
(*                                                                         *)
(* Run holds the lock of the queue from TakeWaiting to Answered; other     *)
(* holders of either lock release it at once, but for a session that       *)
(* cannot write the ticker's done.                                         *)
(***************************************************************************)
EXTENDS Naturals, Sequences, FiniteSets

CONSTANTS
    Participant,        \* the clients, each of which calls FindMatches once
    Leaver,             \* those that may go away during the call or in the session
    MinParticipants,    \* Config.MinParticipants
    CompleteJoin        \* config.CompleteJoin: wait for sessions at shutdown

ASSUME ConstantsOK ==
    /\ IsFiniteSet(Participant)
    /\ Leaver \subseteq Participant
    /\ MinParticipants \in Nat \ {0}
    /\ CompleteJoin \in BOOLEAN

VARIABLES
    waiting,        \* keys of joinQueue.waitingPars
    run,            \* control state of the goroutine JoinTicker.Run
    made,           \* the sessions made so far, as the sets of their members
    joinSessions,   \* indices in made of the registered ones
    done,           \* messages in joinTicker.done, of capacity 1
    holder,         \* session that keeps the ticker's lock to write done, or 0
    worker,         \* the goroutine of each call
    handler,        \* the handler of each call, and its client's next call
    main            \* control state of the function run of the main program

vars == <<waiting, run, made, joinSessions, done, holder, worker, handler, main>>

Init ==
    /\ waiting = {}
    /\ run = [at |-> "select"]
    /\ made = <<>>
    /\ joinSessions = {}
    /\ done = 0
    /\ holder = 0
    /\ worker = [p \in Participant |-> "none"]
    /\ handler = [p \in Participant |-> "none"]
    /\ main = "serving"

Up == main # "stopped"
LockFree == holder = 0

-----------------------------------------------------------------------------
(* JoinTicker.Run.                                                         *)

\* A request is taken from the channel and put into the map.
Enqueue(p) ==
    /\ Up
    /\ run.at = "select"
    /\ worker[p] = "sending"
    /\ worker' = [worker EXCEPT ![p] = "waiting"]
    /\ waiting' = waiting \cup {p}
    /\ UNCHANGED <<run, made, joinSessions, done, holder, handler, main>>

\* Mutant: one more is asked for than needed.
MoreThanMin(n) == n > MinParticipants

Enough(n) == n >= MinParticipants

\* The map is counted without its lock.
Tick ==
    /\ Up
    /\ run.at = "select"
    /\ Enough(Cardinality(waiting))
    /\ run' = [at |-> "lock"]
    /\ UNCHANGED <<waiting, made, joinSessions, done, holder, worker, handler, main>>

\* Mutant: the session takes as many as it needs, the map is emptied all the same.
FirstMin == CHOOSE S \in SUBSET waiting : Cardinality(S) <= MinParticipants
                 /\ \A T \in SUBSET waiting : Cardinality(T) <= MinParticipants =>
                        Cardinality(T) <= Cardinality(S)

\* Those that get into the session.
Batch == waiting

\* The lock is taken, the loop over the map starts.
TakeWaiting ==
    /\ Up
    /\ run.at = "lock"
    /\ run' = [at |-> "answer", to |-> Batch]
    /\ made' = Append(made, {})
    /\ UNCHANGED <<waiting, joinSessions, done, holder, worker, handler, main>>

\* One turn of the loop: a member, and the response to its worker.
AnswerTo(p) ==
    /\ Up
    /\ run.at = "answer"
    /\ p \in run.to
    /\ worker[p] = "waiting"
    /\ made' = [made EXCEPT ![Len(made)] = @ \cup {p}]
    /\ worker' = [worker EXCEPT ![p] = "finishing"]
    /\ run' = [run EXCEPT !.to = @ \ {p}]
    /\ UNCHANGED <<waiting, joinSessions, done, holder, handler, main>>

\* Mutant: the map is not replaced.
Kept == waiting

\* The new map of waiting participants.
Emptied == {}

Answered ==
    /\ Up
    /\ run.at = "answer"
    /\ run.to = {}
    /\ waiting' = Emptied
    /\ run' = [at |-> "register"]
    /\ UNCHANGED <<made, joinSessions, done, holder, worker, handler, main>>

\* The session can be found from now on, and its goroutine is started.
Register ==
    /\ Up
    /\ run.at = "register"
    /\ LockFree
    /\ joinSessions' = joinSessions \cup {Len(made)}
    /\ run' = [at |-> "select"]
    /\ UNCHANGED <<waiting, made, done, holder, worker, handler, main>>

RunStep ==
    \/ \E p \in Participant : Enqueue(p) \/ AnswerTo(p)
    \/ TakeWaiting \/ Answered \/ Register

-----------------------------------------------------------------------------
(* FindMatches, and the lookup of the call that follows it.                *)

FindMatches(p) ==
    /\ Up
    /\ handler[p] = "none"
    /\ handler' = [handler EXCEPT ![p] = "open"]
    /\ worker' = [worker EXCEPT ![p] = "sending"]
    /\ UNCHANGED <<waiting, run, made, joinSessions, done, holder, main>>

\* The worker has its response and the handler still listens.
Finish(p) ==
    /\ Up
    /\ worker[p] = "finishing" /\ handler[p] = "open"
    /\ worker' = [worker EXCEPT ![p] = "gone"]
    /\ handler' = [handler EXCEPT ![p] = "returned"]
    /\ UNCHANGED <<waiting, run, made, joinSessions, done, holder, main>>

\* The context ends, whatever the worker is doing.
Cancel(p) ==
    /\ Up
    /\ p \in Leaver
    /\ handler[p] = "open"
    /\ handler' = [handler EXCEPT ![p] = "leaving"]
    /\ UNCHANGED <<waiting, run, made, joinSessions, done, holder, worker, main>>

\* RemoveWaitingID, under the lock; then nobody reads the handler's done.
RemoveWaitingID(p) ==
    /\ Up
    /\ handler[p] = "leaving"
    /\ run.at # "answer"
    /\ waiting' = waiting \ {p}
    /\ handler' = [handler EXCEPT ![p] = "hung"]
    /\ UNCHANGED <<run, made, joinSessions, done, holder, worker, main>>

Found(p) == \E s \in joinSessions : p \in made[s]

\* GetJoinSession, for the client's next call.
GetJoinSession(p) ==
    /\ Up
    /\ handler[p] = "returned"
    /\ LockFree
    /\ handler' = [handler EXCEPT ![p] = IF Found(p) THEN "found" ELSE "refused"]
    /\ UNCHANGED <<waiting, run, made, joinSessions, done, holder, worker, main>>

-----------------------------------------------------------------------------
(* The end of a session, and of the server.                                *)

\* The timer of the session finds that a member has sent nothing.
Miss(p) ==
    /\ Up
    /\ p \in Leaver
    /\ handler[p] = "found" /\ Found(p)
    /\ handler' = [handler EXCEPT ![p] = "missed"]
    /\ UNCHANGED <<waiting, run, made, joinSessions, done, holder, worker, main>>

\* Two members have sent their transactions, and one is left to send the last result.
MayEnd(s) ==
    /\ \E p \in made[s] : handler[p] = "found"
    /\ Cardinality({p \in made[s] : handler[p] \in {"found", "missed"}}) > 1

\* All members take part in it.
WillEnd(s) == Cardinality(made[s]) > 1 /\ \A p \in made[s] : handler[p] = "found"

\* Mutant: the channel has no end.
Unbounded == TRUE

\* The buffered channel takes a message.
RoomInDone == done = 0

\* Mutant: the emptiness is tested before the session is deleted.
WasEmpty(s) == joinSessions = {}

IsLast(s) == joinSessions \ {s} = {}

\* RemoveSession, called by the session's goroutine.
RemoveSession(s) ==
    /\ Up
    /\ s \in joinSessions
    /\ MayEnd(s)
    /\ LockFree
    /\ joinSessions' = joinSessions \ {s}
    /\ IF ~IsLast(s) THEN UNCHANGED <<done, holder>>
       ELSE IF RoomInDone THEN done' = done + 1 /\ UNCHANGED holder
       ELSE holder' = s /\ UNCHANGED done
    /\ UNCHANGED <<waiting, run, made, worker, handler, main>>

\* The channel was read; the session that waited for it writes and unlocks.
WriteDone ==
    /\ Up
    /\ ~LockFree
    /\ RoomInDone
    /\ done' = done + 1
    /\ holder' = 0
    /\ UNCHANGED <<waiting, run, made, joinSessions, worker, handler, main>>

\* The deferred call of Stop; sessions are counted without the lock.
Stop ==
    /\ main = "serving"
    /\ main' = IF CompleteJoin /\ joinSessions # {} THEN "waiting" ELSE "closing"
    /\ UNCHANGED <<waiting, run, made, joinSessions, done, holder, worker, handler>>

StopWaited ==
    /\ main = "waiting"
    /\ done > 0
    /\ done' = done - 1
    /\ main' = "closing"
    /\ UNCHANGED <<waiting, run, made, joinSessions, holder, worker, handler>>

\* The RPC server is stopped, and the process ends with what still runs in it.
Exit ==
    /\ main = "closing"
    /\ main' = "stopped"
    /\ UNCHANGED <<waiting, run, made, joinSessions, done, holder, worker, handler>>

-----------------------------------------------------------------------------
(* Specification.                                                          *)

Next ==
    \/ RunStep \/ Tick
    \/ \E p \in Participant : \/ FindMatches(p) \/ Finish(p) \/ Cancel(p)
                              \/ RemoveWaitingID(p) \/ GetJoinSession(p)
                              \/ Miss(p)
    \/ (\E s \in joinSessions : RemoveSession(s)) \/ WriteDone
    \/ Stop \/ StopWaited \/ Exit

Spec == Init /\ [][Next]_vars

\* Goroutines run, the select takes a tick in the end, clients that were
\* matched make their next call, and a session is over one day if all members
\* take part in it; any other session may be over, but need not.
Fairness ==
    /\ WF_vars(RunStep) /\ WF_vars(Tick) /\ WF_vars(WriteDone) /\ WF_vars(StopWaited)
    /\ \A p \in Participant :
         WF_vars(Finish(p)) /\ WF_vars(RemoveWaitingID(p)) /\ WF_vars(GetJoinSession(p))
    /\ WF_vars(\E s \in joinSessions : WillEnd(s) /\ RemoveSession(s))

FairSpec == Spec /\ Fairness

-----------------------------------------------------------------------------
(* Properties.                                                             *)

RunState ==
    [at : {"select", "lock", "register"}] \cup [at : {"answer"}, to : SUBSET Participant]

\* Every variable keeps its type; done, whose channel has capacity 1, among them.
TypeOK ==
    /\ waiting \subseteq Participant
    /\ run \in RunState
    /\ made \in Seq(SUBSET Participant)
    /\ joinSessions \subseteq DOMAIN made
    /\ done \in {0, 1}
    /\ holder \in {0} \cup DOMAIN made
    /\ worker \in [Participant -> {"none", "sending", "waiting", "finishing", "gone"}]
    /\ handler \in [Participant -> {"none", "open", "returned", "leaving", "hung",
                                    "found", "refused", "missed"}]
    /\ main \in {"serving", "waiting", "closing", "stopped"}

\* Whoever is in the queue has a worker that waits for the one response: Run,
\* which answers with the queue locked, never waits for a call that has gone.
AnswersAreAwaited ==
    \A p \in IF run.at = "answer" THEN run.to ELSE waiting : worker[p] = "waiting"

\* A session is complete when the queue has been emptied.
Complete(s) == s \in DOMAIN made /\ (s < Len(made) \/ run.at # "answer")

Queue == INSTANCE Matching WITH
    Client <- Participant,
    MayShrink <- TRUE,
    gone <- {p \in Participant : handler[p] \in {"leaving", "hung"}},
    sessions <- {made[s] : s \in {t \in DOMAIN made : Complete(t)}}

\* The queue matches its clients: all that wait get into one session, each into
\* one only, and only those who go away are dropped; there are enough of them,
\* although they are counted long before they are taken, if nobody has left.
Matches == Queue!Spec

\* With enough of them in the queue a client gets into a session, and that is
\* registered, unless one of them leaves, the server stops or a session
\* cannot write done.
Served ==
    \A p \in Participant :
        (p \in waiting /\ Cardinality(waiting) >= MinParticipants)
            ~> \/ run.at = "select" /\ \E s \in DOMAIN made : p \in made[s]
               \/ \E q \in Participant : handler[q] \in {"leaving", "hung"}
               \/ holder # 0
               \/ ~Up

\* A session that may never be over: of one member or none, or with a member
\* that has gone away, called before the session could be found, or was missed.
Stuck(s) ==
    \/ Cardinality(made[s]) < 2
    \/ \E p \in made[s] : handler[p] \in {"leaving", "hung", "refused", "missed"}

\* A shutdown that waits for the sessions comes to its end, unless one of those
\* that can be found is stuck: sessions that end one after the other, while
\* others are registered, do not keep the message from it.
Stops == main = "waiting" ~> (main = "closing" \/ \E s \in joinSessions : Stuck(s))
=============================================================================

---------------------------- MODULE JoinSession ----------------------------
(***************************************************************************)
(* One DiceMix join session (coinjoin/joinsession.go) together with the    *)
(* reader and writer goroutines of its peers (coinjoin/coinjoin.go).       *)
(*                                                                         *)
(* The goroutine JoinSession.run and, for each peer, the goroutines        *)
(* ReadMessages and WriteMessages share the JoinSession struct under the   *)
(* mutex mu.  A reader hands a message to run over an unbuffered channel   *)
(* (one action, Receive); run, and whoever restarts the session or elects  *)
(* a publisher, hands messages to a writer over the unbuffered writeChan   *)
(* of a peer, one step per peer, while holding mu.  Code between a Lock    *)
(* and the first such blocking point, or the Unlock, is one action.        *)
(*                                                                         *)
(* Peer ids are regenerated at every restart (pushMaliciousInfo), for all  *)
(* members at once: the id of p in its n-th life is the pair p, n, and     *)
(* session.epoch is n.  Of a payload only what a handler tells apart is    *)
(* kept: "good" or the name of the check it fails.                         *)
(***************************************************************************)
EXTENDS Naturals, FiniteSets

CONSTANTS
    Peer,           \* peers the session is created with
    NoPeer,         \* not a peer: Publisher before one is elected
    Faulty,         \* peers whose clients may misbehave or leave
    Misuse,         \* <<kind, payload>> pairs such clients may send;
                    \* <<kind, "again">> is a second valid message of a round,
                    \* <<"conn", "leave">> closing the connection
    MaxFaults,      \* bound on the number of misuses in a behaviour
    NumMsg,         \* pkscripts each peer mixes (PeerInfo.NumMsg)
    Timeouts,       \* TRUE: the round timer may expire
    ServerPublish   \* Config.ServerPublish

\* Rounds of data a peer submits, in order, then the other client messages.
Rounds == {"pk", "exp", "xor", "txin", "sig"}
Stored == Rounds \cup {"vk"}
Kind == Stored \cup {"pub", "nf"}

BadPayload == [pk |-> {"unparsable", "invalid"},
               exp |-> {"unparsable", "short", "zero", "wrong"},
               xor |-> {"unparsable", "short", "wrong"},
               txin |-> {"unparsable", "price", "undecodable", "signed", "outless", "overspend"},
               sig |-> {"unparsable", "undecodable", "shorter", "unsigned", "altered"},
               vk |-> {"unparsable", "wrong"},
               pub |-> {"unparsable"},
               nf |-> {"unparsable"}]

Payload == {"good"} \cup UNION {BadPayload[k] : k \in Kind}

\* A second TxInputs message would rebuild the joint transaction inside the
\* first peer's own slice (joinsession.go:647-662); that aliasing is left out.
ASSUME ConstantsOK ==
    /\ IsFiniteSet(Peer)
    /\ NoPeer \notin Peer
    /\ Faulty \subseteq Peer
    /\ MaxFaults \in Nat
    /\ NumMsg \in Nat \ {0}
    /\ Timeouts \in BOOLEAN
    /\ ServerPublish \in BOOLEAN
    /\ <<"txin", "again">> \notin Misuse

\* Mutants of DropStates: further states that merely drop a peer.
DropStatesAndSign == {"KeyExchange", "TxSign"}
DropStatesAndPublish == {"KeyExchange", "TxPublish"}

\* States in which a silent or lost peer is just removed, and those in which
\* its loss restarts the session.
DropStates == {"KeyExchange"}
MixStates == {"DcExponential", "DcXor", "TxInput", "TxSign"}

State == {"KeyExchange", "DcExponential", "DcXor", "TxInput", "TxSign",
          "TxPublish", "Completed", "RevealSecret"}

Message == [kind : Kind, peer : Peer, epoch : Nat, val : Payload]

\* Lock holders.
Free == <<"free", NoPeer>>
ByRun == <<"run", NoPeer>>
ByReader(p) == <<"reader", p>>
ByWriter(p) == <<"writer", p>>

VARIABLES
    session,    \* the JoinSession struct and the PeerInfo data of its peers
    mu,         \* holder of JoinSession.mu
    run,        \* control state of the goroutine run
    errm,       \* run's local errm # nil: set by a handler, never cleared
    missed,     \* run's local missedPeers is not empty: likewise
    reader,     \* control state of each peer's ReadMessages
    writer,     \* control state of each peer's WriteMessages
    conn,       \* websocket: "open", "left" (by the client) or "closed" (here)
    faults,     \* misuses so far
    crashed     \* the process died of a panic or a fatal runtime error

vars == <<session, mu, run, errm, missed, reader, writer, conn, faults, crashed>>

NoData == [k \in Stored |-> "none"]

\* NewJoinSession, with the peers DiceMix.Run puts in it.
NewJoinSession ==
    [peers |-> Peer, state |-> "KeyExchange", epoch |-> 0,
     data |-> [p \in Peer |-> NoData],  \* Pk, DcExpVector, ..., SignedTx, Vk
     infos |-> 0,                       \* len(PeersMsgInfo)
     publisher |-> NoPeer, finding |-> FALSE,
     inputs |-> {},                     \* owners of the joint transaction's inputs,
                                        \* NoPeer for those of nobody here
     sigs |-> {},                       \* owners of the signatures in JoinedTx
     asked |-> FALSE,                   \* S_REVEAL_SECRET sent in this epoch
     replayed |-> FALSE,                \* TotalMsg # 0
     armed |-> TRUE]                    \* roundTimeout can still expire

Init ==
    /\ session = NewJoinSession
    /\ mu = Free
    /\ run = [at |-> "top"]
    /\ errm = FALSE
    /\ missed = FALSE
    /\ reader = [p \in Peer |-> [at |-> "read"]]
    /\ writer = [p \in Peer |-> [at |-> "ready"]]
    /\ conn = [p \in Peer |-> "open"]
    /\ faults = 0
    /\ crashed = FALSE

-----------------------------------------------------------------------------
(* Operators on the session.                                               *)

Missing(k) == {p \in session.peers : session.data[p][k] = "none"}

\* Lookup of the message's peer id in Peers.
Member(m) == m.peer \in session.peers /\ m.epoch = session.epoch

\* Mutant: the keys of the removed peers are struck off as well.
WithoutKeys(P) == [session EXCEPT !.peers = @ \ P, !.infos = @ - Cardinality(P)]

\* removePeer for each peer of P: also closes its connection.
Without(P) == [session EXCEPT !.peers = @ \ P]
Close(P) == conn' = [p \in Peer |-> IF p \in P THEN "closed" ELSE conn[p]]

WithData(m) == [session EXCEPT !.data[m.peer][m.kind] = m.val]

\* Mutant: one submission ends the round.
AnyHas(s, k) == \E p \in s.peers : s.data[p][k] # "none"

All(s, k) == \A p \in s.peers : s.data[p][k] # "none"

\* Mutant: the accused are looked up after the ids were regenerated.
AccusedTooLate(who, epoch) == IF epoch = session.epoch + 1 THEN who \cap session.peers ELSE {}

\* Mutants: the remaining peers keep their ids; PeersMsgInfo is not emptied.
RestartedSameIds(out) ==
    [Without(out) EXCEPT !.data = [p \in Peer |-> NoData], !.sigs = {}, !.inputs = {},
                         !.infos = 0, !.state = "KeyExchange", !.replayed = FALSE,
                         !.asked = FALSE]
RestartedKeepingInfos(out) ==
    [Without(out) EXCEPT !.epoch = @ + 1, !.data = [p \in Peer |-> NoData],
                         !.sigs = {}, !.inputs = {}, !.state = "KeyExchange",
                         !.replayed = FALSE, !.asked = FALSE]

\* pushMaliciousInfo up to its sends: the accused that still have the id they
\* were accused under are removed, the others get new ids and start over.
Accused(who, epoch) == IF epoch = session.epoch THEN who \cap session.peers ELSE {}
Restarted(out) ==
    [Without(out) EXCEPT !.epoch = @ + 1, !.data = [p \in Peer |-> NoData],
                         !.sigs = {}, !.inputs = {}, !.infos = 0,
                         !.state = "KeyExchange", !.replayed = FALSE,
                         !.asked = FALSE]

\* Nothing runs after a crash.
RunAt(pc) == ~crashed /\ run.at = pc
ReaderAt(p, pc) == ~crashed /\ reader[p].at = pc
WriterAt(p, pc) == ~crashed /\ writer[p].at = pc

\* Unlock of a mutex nobody holds is a fatal error; a held one is released
\* whoever holds it.
Unlock ==
    IF mu = Free THEN crashed' = TRUE /\ UNCHANGED mu
                 ELSE mu' = Free /\ UNCHANGED crashed

\* A write on a connection closed here fails, on one the client left it may.
WriteOutcomes(p) == CASE conn[p] = "open" -> {"ready"}
                      [] conn[p] = "left" -> {"ready", "failed"}
                      [] OTHER -> {"failed"}

\* peer.writeChan <- msg: the writer of q takes the message and writes it.
Send(q) ==
    /\ writer[q].at = "ready"
    /\ \E o \in WriteOutcomes(q) : writer' = [writer EXCEPT ![q] = [at |-> o]]

-----------------------------------------------------------------------------
(* The goroutine run.                                                      *)

Top == [at |-> "top"]
Exit == [at |-> "exit"]

\* Unlock and go on to `then'.
Resume(s, then) == session' = s /\ run' = then /\ UNCHANGED mu

\* Keep mu and send one message to each peer of `to'; then set the state and,
\* if arm, a new round timer, unlock, and go on to `then'.
Broadcast(s, to, state, arm, then) ==
    /\ session' = s
    /\ mu' = ByRun
    /\ run' = [at |-> "send", to |-> to, state |-> state, arm |-> arm, then |-> then]

\* Unlock, then pushMaliciousInfo(who), then `then'.  The ids of who are those
\* under which s was left; if late, they are read after the unlock and may be
\* newer ones.
Push(s, who, late, then) ==
    /\ session' = s
    /\ run' = [at |-> "push", who |-> who, epoch |-> s.epoch, late |-> late, then |-> then]
    /\ UNCHANGED mu

Accuse(s, who, then) == Push(s, who, FALSE, then)

\* Mutant: pushMaliciousInfo is called with mu held.
AccuseLocked(s, p, then) ==
    /\ session' = s
    /\ run' = [at |-> "push", who |-> {p}, epoch |-> s.epoch, late |-> TRUE, then |-> then]
    /\ mu' = ByRun

AccuseLate(s, p, then) == Push(s, {p}, TRUE, then)

\* Top of LOOP: reads len(Peers) without the lock.
Loop ==
    /\ RunAt("top")
    /\ run' = [at |-> IF session.peers = {} THEN "done" ELSE "select"]
    /\ UNCHANGED <<session, mu, errm, missed, reader, writer, conn, faults, crashed>>

\* The rendezvous of p's reader with the select of run.
Receive(p) ==
    /\ RunAt("select")
    /\ ReaderAt(p, "send")
    /\ run' = [at |-> "handle", msg |-> reader[p].msg]
    /\ reader' = [reader EXCEPT ![p] = [at |-> "read"]]
    /\ UNCHANGED <<session, mu, errm, missed, writer, conn, faults, crashed>>

\* run has taken a message of kind k and gets the lock.
Handling(k) == RunAt("handle") /\ run.msg.kind = k /\ mu = Free

\* Mutant: the last key is not waited for.
KeysNearlyIn(s) == Cardinality(s.peers) <= s.infos + 1

\* As many keys have come in as there are members.
KeysIn(s) == Cardinality(s.peers) = s.infos

KeyExchange ==
    /\ Handling("pk")
    /\ LET m == run.msg
           s == [WithData(m) EXCEPT !.infos = @ + 1]
       IN \/ ~Member(m) /\ Resume(session, Top) /\ UNCHANGED conn
          \/ Member(m) /\ m.val = "invalid" /\ Resume(Without({m.peer}), Top) /\ Close({m.peer})
          \/ /\ Member(m) /\ m.val # "invalid"
             /\ IF KeysIn(s)
                  THEN Broadcast(s, s.peers, "DcExponential", TRUE, Top)
                  ELSE Resume(s, Top)
             /\ UNCHANGED conn
    /\ UNCHANGED <<errm, missed, reader, writer, faults, crashed>>

\* The keys sent to all are the members' keys, one of each: only then do the
\* paddings of the members cancel.  (A key counted twice or late, or a member
\* removed after its key was counted, leaves infos and members unequal.)
PaddingsCancel(s) == KeysIn(s) /\ All(s, "pk")

\* flint finds the roots when the paddings cancel, every member's vector is
\* honest and there are at least two messages; if not, it may fail or find
\* false roots.
Solvable(s) ==
    {b \in BOOLEAN : PaddingsCancel(s) /\ (\A p \in s.peers : s.data[p].exp # "wrong") => b}

DcExpVector ==
    /\ Handling("exp")
    /\ LET m == run.msg
           s == WithData(m)
       IN \/ ~Member(m) /\ Resume(session, Top) /\ UNCHANGED errm
          \/ Member(m) /\ m.val = "short" /\ Accuse(session, {m.peer}, Exit) /\ UNCHANGED errm
          \/ /\ Member(m) /\ m.val # "short" /\ (m.val = "zero" \/ errm)
             /\ errm' = TRUE
             /\ AccuseLate(session, m.peer, Top)
          \/ /\ Member(m) /\ m.val \notin {"short", "zero"} /\ ~errm
             /\ IF ~All(s, "exp") THEN Resume(s, Top)
                ELSE \E solved \in Solvable(s) :
                       IF solved THEN Broadcast(s, s.peers, "DcXor", TRUE, Top)
                       ELSE Broadcast([s EXCEPT !.asked = TRUE], s.peers, s.state, FALSE, Top)
             /\ UNCHANGED errm
    /\ UNCHANGED <<missed, reader, writer, conn, faults, crashed>>

\* The length is checked before the membership.
DcXorVector ==
    /\ Handling("xor")
    /\ LET m == run.msg
           s == WithData(m)
       IN \/ /\ m.val = "short"
             /\ run' = [at |-> "push", who |-> {m.peer}, epoch |-> m.epoch, late |-> FALSE,
                        then |-> Exit]
             /\ UNCHANGED <<session, mu>>
          \/ m.val # "short" /\ ~Member(m) /\ Resume(session, Top)
          \/ /\ m.val # "short" /\ Member(m)
             /\ IF All(s, "xor")
                  THEN Broadcast([s EXCEPT !.state = "TxInput", !.armed = TRUE],
                                 s.peers, "TxInput", FALSE, Top)
                  ELSE Resume(s, Top)
    /\ UNCHANGED <<errm, missed, reader, writer, conn, faults, crashed>>

\* An undecodable transaction leaves LOOP, and one that spends more than its
\* inputs leaves the select (the `break' of line 624), with mu held.  Inputs
\* from a signed one on do not count, so signing may make it spend too much.
\* The first output is looked at whether there is one or not.
TxInputs ==
    /\ Handling("txin")
    /\ LET m == run.msg
           s == WithData(m)
       IN \/ ~Member(m) /\ Resume(session, Top) /\ UNCHANGED <<errm, crashed>>
          \/ /\ Member(m) /\ m.val = "price"
             /\ AccuseLate(session, m.peer, Exit) /\ UNCHANGED <<errm, crashed>>
          \/ /\ Member(m) /\ m.val = "undecodable"
             /\ errm' = TRUE
             /\ mu' = ByRun /\ run' = Exit /\ UNCHANGED <<session, crashed>>
          \/ /\ Member(m) /\ m.val = "outless"
             /\ crashed' = TRUE /\ UNCHANGED <<session, mu, run, errm>>
          \/ /\ Member(m) /\ m.val \in {"overspend", "signed"}
             /\ errm' = (errm \/ m.val = "signed")
             /\ session' = s /\ mu' = ByRun /\ run' = Top /\ UNCHANGED crashed
          \/ /\ Member(m) /\ m.val \in {"good", "signed"}
             /\ errm' = (errm \/ m.val = "signed")
             /\ IF All(s, "txin")
                  THEN Broadcast([s EXCEPT !.inputs = s.peers], s.peers, "TxSign", TRUE, Top)
                  ELSE Resume(s, Top)
             /\ UNCHANGED crashed
    /\ UNCHANGED <<missed, reader, writer, conn, faults>>

\* JoinedTx is the whole transaction of the first to sign, in which only its
\* own inputs were looked at: if it altered the rest, any inputs of others may
\* be left out, and inputs of nobody here be in.  Of a later signer only its
\* own inputs are taken: they are put where they belong.
JoinedInputs(m) ==
    IF session.sigs # {} THEN {session.inputs \cup {m.peer}}
    ELSE IF m.val = "good" THEN {session.inputs}
    ELSE {X \in SUBSET (session.inputs \cup {NoPeer}) : m.peer \in X}

Joined(m, inputs) == [WithData(m) EXCEPT !.sigs = @ \cup {m.peer}, !.inputs = inputs]

\* A transaction that has no input where one of the sender's should be, or no
\* room for it after the first signer's alterations, makes the code panic.
SignPanics(m) ==
    \/ m.val = "shorter"
    \/ session.sigs # {} /\ m.peer \notin session.inputs

SignedTx ==
    /\ Handling("sig")
    /\ LET m == run.msg
           duplicate == session.data[m.peer].sig # "none"
       IN \/ ~Member(m) /\ Resume(session, Top) /\ UNCHANGED <<errm, crashed>>
          \/ /\ Member(m) /\ m.val = "undecodable"
             /\ errm' = TRUE
             /\ mu' = ByRun /\ run' = Exit /\ UNCHANGED <<session, crashed>>
          \/ /\ Member(m) /\ m.val # "undecodable" /\ duplicate
             /\ Resume(session, Top) /\ UNCHANGED <<errm, crashed>>
          \/ /\ Member(m) /\ m.val = "unsigned" /\ ~duplicate
             /\ AccuseLate(WithData(m), m.peer, Top) /\ UNCHANGED <<errm, crashed>>
          \/ /\ Member(m) /\ m.val \in {"good", "altered", "shorter"} /\ ~duplicate /\ SignPanics(m)
             /\ crashed' = TRUE /\ UNCHANGED <<session, mu, run, errm>>
          \/ /\ Member(m) /\ m.val \in {"good", "altered"} /\ ~duplicate
             /\ \E s \in {Joined(m, inputs) : inputs \in JoinedInputs(m)} :
                  \/ ~All(s, "sig") /\ Resume(s, Top)
                  \/ All(s, "sig") /\ ServerPublish /\ Broadcast(s, s.peers, "Completed", FALSE, Exit)
                  \/ /\ All(s, "sig")     \* client publishes: not configured, or three failures
                     /\ \E q \in s.peers :
                          Broadcast([s EXCEPT !.publisher = q], {q}, "TxPublish", TRUE, Top)
             /\ UNCHANGED <<errm, crashed>>
    /\ UNCHANGED <<missed, reader, writer, conn, faults>>

\* Forwards the result to all: neither the sender nor the state is checked.
PublishResult ==
    /\ Handling("pub")
    /\ Broadcast(session, session.peers, "Completed", FALSE, Exit)
    /\ UNCHANGED <<errm, missed, reader, writer, conn, faults, crashed>>

\* Mutant: a vector not sent yet counts as a wrong one.
WrongOrLateXor(s) ==
    {p \in s.peers : s.state \in {"TxInput", "RevealSecret"} /\ s.data[p].xor # "good"}

\* Replay of the protocol with the revealed keys: whose key does not belong to
\* its public key, whose vector is not the one its messages and paddings make.
WrongKey(s) == {p \in s.peers : s.data[p].vk = "wrong"}
WrongExp(s) == {p \in s.peers : s.data[p].exp = "wrong"}
WrongXor(s) ==
    {p \in s.peers : s.state \in {"TxInput", "RevealSecret"} /\ s.data[p].xor = "wrong"}

\* Others the replay may blame, whatever they sent.  If the paddings do not
\* cancel, anybody.  If not, whoever's second vector is in, when a key or a
\* first vector is wrong: its sender's hashes are then others, or left out, and
\* the slots of all may shift (see DcNet).
Misjudged(s) ==
    {p \in s.peers :
        \/ ~PaddingsCancel(s)
        \/ /\ s.state \in {"TxInput", "RevealSecret"} /\ s.data[p].xor # "none"
           /\ WrongKey(s) \cup WrongExp(s) # {}}

\* The sets of peers that may be found malicious.
Malicious(s) ==
    {WrongKey(s) \cup WrongExp(s) \cup (WrongXor(s) \ Misjudged(s)) \cup M : M \in SUBSET Misjudged(s)}

\* The replay indexes vectors by TotalMsg, which accumulates over replays, and
\* uses every member's key and vector: it may panic when they are not as expected.
ReplayPanics(s) == s.replayed \/ ~PaddingsCancel(s) \/ ~All(s, "exp")

RevealSecret ==
    /\ Handling("vk")
    /\ LET m == run.msg
           s == [WithData(m) EXCEPT !.finding = FALSE]
           replayed == [s EXCEPT !.replayed = TRUE]
       IN \/ ~Member(m) /\ Resume(session, Top) /\ UNCHANGED <<errm, crashed>>
          \/ Member(m) /\ ~All(s, "vk") /\ Resume(s, Top) /\ UNCHANGED <<errm, crashed>>
          \/ /\ Member(m) /\ All(s, "vk")
             /\ \E who \in Malicious(s) :
                  IF who = {} THEN Resume(replayed, Top) ELSE Accuse(replayed, who, Top)
             /\ UNCHANGED <<errm, crashed>>
          \/ /\ Member(m) /\ All(s, "vk") /\ WrongKey(s) # {}     \* a key no secret can be made with
             /\ errm' = TRUE
             /\ session' = WithData(m) /\ mu' = ByRun /\ run' = Exit /\ UNCHANGED crashed
          \/ /\ Member(m) /\ All(s, "vk") /\ ReplayPanics(s)
             /\ crashed' = TRUE /\ UNCHANGED <<session, run, mu, errm>>
    /\ UNCHANGED <<missed, reader, writer, conn, faults>>

MsgNotFound ==
    /\ Handling("nf")
    /\ LET m == run.msg
       IN IF Member(m)
            THEN Broadcast([session EXCEPT !.asked = TRUE], session.peers, "RevealSecret", TRUE, Top)
            ELSE Resume(session, Top)
    /\ UNCHANGED <<errm, missed, reader, writer, conn, faults, crashed>>

\* The round timer expires while run waits in its select.
Timeout ==
    /\ Timeouts
    /\ RunAt("select")
    /\ session.armed
    /\ session' = [session EXCEPT !.armed = FALSE]
    /\ run' = [at |-> "expired"]
    /\ UNCHANGED <<mu, errm, missed, reader, writer, conn, faults, crashed>>

\* The members found silent; in DcXor the vector of the round before is tested.
Silent == CASE session.state = "KeyExchange" -> Missing("pk")
            [] session.state \in {"DcExponential", "DcXor"} -> Missing("exp")
            [] session.state = "TxInput" -> Missing("txin")
            [] session.state = "TxSign" -> Missing("sig")
            [] session.state = "RevealSecret" -> Missing("vk")
            [] OTHER -> {}

\* In KeyExchange silent members are dropped.  In TxPublish run goes over the
\* members, see EvictPublisher.  Otherwise, if anyone is or ever was missed, it
\* calls pushMaliciousInfo, which locks mu, while it holds mu.
Expired ==
    /\ RunAt("expired")
    /\ mu = Free
    /\ \/ /\ session.state \in DropStates
          /\ missed' = (missed \/ Silent # {})
          /\ Resume(Without(Silent), Top)
          /\ Close(Silent)
       \/ /\ session.state = "TxPublish"
          /\ mu' = ByRun
          /\ run' = [at |-> "range", rest |-> session.peers]
          /\ UNCHANGED <<session, missed, conn>>
       \/ /\ session.state \notin DropStates \cup {"TxPublish"}
          /\ missed' = (missed \/ Silent # {})
          /\ IF missed' THEN mu' = ByRun /\ run' = [at |-> "dead"] /\ UNCHANGED session
                        ELSE Resume(session, Top)
          /\ UNCHANGED conn
    /\ UNCHANGED <<errm, reader, writer, faults, crashed>>

\* The loop over the members reaches the publisher: it is removed and a random
\* other member elected, which the rest of the loop may still reach in turn.
EvictPublisher ==
    /\ RunAt("range")
    /\ session.publisher \in run.rest \cap session.peers
    /\ LET p == session.publisher
           s == Without({p})
       IN /\ Close({p})
          /\ IF s.peers = {}
               THEN session' = s /\ mu' = Free /\ run' = [at |-> "done"]
               ELSE \E q \in s.peers, later \in SUBSET (run.rest \ {p}) :
                      Broadcast([s EXCEPT !.publisher = q], {q}, "TxPublish", TRUE,
                                [at |-> "range", rest |-> later])
    /\ UNCHANGED <<errm, missed, reader, writer, faults, crashed>>

RangeDone ==
    /\ RunAt("range")
    /\ session.publisher \notin run.rest \cap session.peers
    /\ IF missed THEN run' = [at |-> "dead"] /\ UNCHANGED mu
                 ELSE run' = Top /\ mu' = Free
    /\ UNCHANGED <<session, errm, missed, reader, writer, conn, faults, crashed>>

\* One send of a broadcast, to a member not reached yet (the order of a range
\* over a map is random).
RunSend(q) ==
    /\ RunAt("send")
    /\ q \in run.to
    /\ Send(q)
    /\ run' = [run EXCEPT !.to = @ \ {q}]
    /\ UNCHANGED <<session, mu, errm, missed, reader, conn, faults, crashed>>

RunSent ==
    /\ RunAt("send")
    /\ run.to = {}
    /\ session' = [session EXCEPT !.state = run.state, !.armed = @ \/ run.arm]
    /\ mu' = IF run.then.at = "range" THEN mu ELSE Free
    /\ run' = run.then
    /\ UNCHANGED <<errm, missed, reader, writer, conn, faults, crashed>>

\* pushMaliciousInfo called by run; ends at once if nobody remains.
RunPush ==
    /\ RunAt("push")
    /\ mu = Free
    /\ \E epoch \in {run.epoch} \cup (IF run.late THEN {session.epoch} ELSE {}) :
         LET out == Accused(run.who, epoch)
         IN /\ Close(out)
            /\ IF session.peers \subseteq out
                 THEN Resume(Without(out), run.then)
                 ELSE Broadcast(Restarted(out), session.peers \ out, "KeyExchange", FALSE, run.then)
    /\ UNCHANGED <<errm, missed, reader, writer, faults, crashed>>

\* After LOOP: with an error, unlock mu (held by run or not) and terminate.
RunExit ==
    /\ RunAt("exit")
    /\ run' = [at |-> "done"]
    /\ IF errm THEN Unlock /\ Close(session.peers) ELSE UNCHANGED <<mu, crashed, conn>>
    /\ UNCHANGED <<session, errm, missed, reader, writer, faults>>

RunStep ==
    \/ Loop \/ (\E p \in Peer : Receive(p))
    \/ KeyExchange \/ DcExpVector \/ DcXorVector \/ TxInputs \/ SignedTx
    \/ PublishResult \/ RevealSecret \/ MsgNotFound
    \/ Expired \/ EvictPublisher \/ RangeDone
    \/ (\E q \in Peer : RunSend(q)) \/ RunSent \/ RunPush \/ RunExit

-----------------------------------------------------------------------------
(* The goroutine ReadMessages of a peer, and the client at its other end.  *)

Rework(p, r) == reader' = [reader EXCEPT ![p] = r]

\* The check of the session state that admits a message of kind k from p.
Expected(p, k) ==
    CASE k = "pk" -> session.state = "KeyExchange"
      [] k = "exp" -> session.state = "DcExponential"
      [] k = "xor" -> session.state = "DcXor"
      [] k = "txin" -> session.state = "TxInput"
      [] k = "sig" -> session.state = "TxSign"
      [] k = "pub" -> session.state = "TxPublish" /\ session.publisher = p
      [] k = "vk" -> session.state \in {"DcExponential", "DcXor", "TxInput", "RevealSecret"}
      [] k = "nf" -> session.state \in {"DcXor", "TxInput"}

\* A wrong vector, or paddings that do not cancel, may show as a message of
\* one's own that is missing.
Spoiled == \E p \in session.peers : \/ ~PaddingsCancel(session)
                                    \/ session.data[p].exp = "wrong"
                                    \/ session.state = "TxInput" /\ session.data[p].xor = "wrong"

\* A well-behaved client sends each message once per life of the session:
\* its key when asked for it, "not found" only if its message is missing.
Due(p, k) ==
    /\ run.at = "handle" => run.msg.peer # p
    /\ k \in Stored => session.data[p][k] = "none"
    /\ k = "vk" => session.asked
    /\ k = "nf" => Spoiled /\ ~session.asked

ClientSends(p, k, v) ==
    \/ v = "good" /\ Due(p, k) /\ UNCHANGED faults
    \/ /\ p \in Faulty
       /\ faults < MaxFaults
       /\ faults' = faults + 1
       /\ \/ v \in BadPayload[k] /\ <<k, v>> \in Misuse
          \/ v = "good" /\ <<k, "again">> \in Misuse /\ ~Due(p, k)

\* With fewer than two messages in the mix an honest vector is "short".
Sized(k, v) ==
    IF k \in {"exp", "xor"} /\ v = "good" /\ session.infos * NumMsg < 2 THEN "short" ELSE v

\* The reader admits a message under mu, notes the peer's id in it and unlocks;
\* then it blocks on the session's channel, or deals with an unparsable message.
\* While a malicious peer is sought, "not found" is skipped with mu held.
Accept(p, k, v) ==
    /\ ReaderAt(p, "read")
    /\ conn[p] = "open"
    /\ mu = Free
    /\ Expected(p, k)
    /\ ClientSends(p, k, v)
    /\ IF k = "nf" /\ session.finding
         THEN mu' = ByReader(p) /\ UNCHANGED <<reader, session>>
         ELSE /\ UNCHANGED mu
              /\ Rework(p, IF v # "unparsable"
                             THEN [at |-> "send", msg |-> [kind |-> k, peer |-> p,
                                       epoch |-> session.epoch, val |-> Sized(k, v)]]
                           ELSE IF k = "pk" THEN [at |-> "drop"]
                           ELSE [at |-> "push", epoch |-> session.epoch])
              /\ session' = [session EXCEPT !.finding = @ \/ (k = "nf" /\ v # "unparsable")]
    /\ UNCHANGED <<run, errm, missed, writer, conn, crashed>>

\* An unparsable key: removePeer without the lock.  Writing the map while run
\* ranges over it may be a fatal error; otherwise the loop skips the entry.
Drop(p) ==
    /\ ReaderAt(p, "drop")
    /\ Rework(p, [at |-> "read"])
    /\ session' = Without({p})
    /\ Close({p} \cap session.peers)
    /\ run' = IF run.at = "send" THEN [run EXCEPT !.to = @ \ {p}] ELSE run
    /\ crashed' \in IF mu = Free THEN {FALSE} ELSE BOOLEAN
    /\ UNCHANGED <<mu, errm, missed, writer, faults>>

\* Keep mu, send to `to', then go on to `then' (arming the timer if `arm').
ReaderSends(p, to, arm, then) ==
    /\ mu' = ByReader(p)
    /\ Rework(p, [at |-> "bcast", to |-> to, arm |-> arm, then |-> then])

\* pushMaliciousInfo called by a reader, after it unlocked mu; the peer's id is
\* read in between, so it is the one of then or a newer one.
ReaderPush(p) ==
    /\ ReaderAt(p, "push")
    /\ mu = Free
    /\ \E epoch \in {reader[p].epoch, session.epoch} :
         LET out == Accused({p}, epoch)
         IN /\ Close(out)
            /\ IF session.peers \subseteq out
                 THEN session' = Without(out) /\ Rework(p, [at |-> "read"]) /\ UNCHANGED mu
                 ELSE session' = Restarted(out) /\ ReaderSends(p, session.peers \ out, FALSE, "read")
    /\ UNCHANGED <<run, errm, missed, writer, faults, crashed>>

ReaderSend(p, q) ==
    /\ ReaderAt(p, "bcast")
    /\ q \in reader[p].to
    /\ Send(q)
    /\ Rework(p, [reader[p] EXCEPT !.to = @ \ {q}])
    /\ UNCHANGED <<session, mu, run, errm, missed, conn, faults, crashed>>

ReaderSent(p) ==
    /\ ReaderAt(p, "bcast")
    /\ reader[p].to = {}
    /\ session' = [session EXCEPT !.armed = @ \/ reader[p].arm]
    /\ Unlock
    /\ Rework(p, [at |-> reader[p].then])
    /\ UNCHANGED <<run, errm, missed, writer, conn, faults>>

\* The read fails: by the state of the session, the peer is removed, or (if it
\* is a member) pushMaliciousInfo is called with mu held, or, if it was to
\* publish, another member is elected.
ReaderError(p) ==
    /\ ReaderAt(p, "read")
    /\ conn[p] # "open"
    /\ mu = Free
    /\ LET member == p \in session.peers
           s == Without({p})
           elect == session.state = "TxPublish" /\ member /\ session.publisher = p
       IN \/ /\ session.state \in DropStates \/ (elect /\ s.peers = {})
             /\ session' = s /\ Rework(p, [at |-> "closing"]) /\ Close({p}) /\ UNCHANGED mu
          \/ /\ session.state \in MixStates /\ member
             /\ mu' = ByReader(p) /\ Rework(p, [at |-> "dead"]) /\ UNCHANGED <<session, conn>>
          \/ /\ elect
             /\ \E q \in s.peers :
                  session' = [s EXCEPT !.publisher = q] /\ ReaderSends(p, {q}, TRUE, "closing")
             /\ Close({p})
          \/ /\ session.state \notin DropStates /\ ~elect
             /\ session.state \in MixStates => ~member
             /\ Rework(p, [at |-> "closing"]) /\ Close({p}) /\ UNCHANGED <<session, mu>>
    /\ UNCHANGED <<run, errm, missed, writer, faults, crashed>>

\* Deferred: Close <- struct{}{}, taken by the writer, which exits.  If the
\* writer has exited already its channel is closed, and the send panics.
ReaderClose(p) ==
    /\ ReaderAt(p, "closing")
    /\ \/ /\ writer[p].at = "ready"
          /\ Rework(p, [at |-> "gone"])
          /\ writer' = [writer EXCEPT ![p] = [at |-> "gone"]]
          /\ UNCHANGED crashed
       \/ /\ writer[p].at = "gone"
          /\ crashed' = TRUE
          /\ UNCHANGED <<reader, writer>>
    /\ UNCHANGED <<session, mu, run, errm, missed, conn, faults>>

ReaderStep(p) ==
    \/ Drop(p) \/ ReaderPush(p) \/ (\E q \in Peer : ReaderSend(p, q)) \/ ReaderSent(p)
    \/ ReaderError(p) \/ ReaderClose(p)

\* The client closes its connection, or loses it.
Leave(p) ==
    /\ ~crashed
    /\ p \in Faulty /\ <<"conn", "leave">> \in Misuse
    /\ faults < MaxFaults
    /\ conn[p] = "open"
    /\ faults' = faults + 1
    /\ conn' = [conn EXCEPT ![p] = "left"]
    /\ UNCHANGED <<session, mu, run, errm, missed, reader, writer, crashed>>

-----------------------------------------------------------------------------
(* The goroutine WriteMessages of a peer, after a failed write.            *)

Retool(p, w) == writer' = [writer EXCEPT ![p] = w]

\* As ReaderError, but membership is not looked up, and with nobody left to
\* elect, the random choice panics.
WriterError(p) ==
    /\ WriterAt(p, "failed")
    /\ mu = Free
    /\ LET s == Without({p})
           elect == session.state = "TxPublish" /\ session.publisher = p
       IN \/ /\ session.state \in DropStates
             /\ session' = s /\ Retool(p, [at |-> "gone"]) /\ Close({p}) /\ UNCHANGED <<mu, crashed>>
          \/ /\ session.state \in MixStates
             /\ mu' = ByWriter(p) /\ Retool(p, [at |-> "dead"])
             /\ UNCHANGED <<session, conn, crashed>>
          \/ /\ elect /\ s.peers = {}
             /\ crashed' = TRUE /\ UNCHANGED <<session, mu, writer, conn>>
          \/ /\ elect
             /\ \E q \in s.peers : /\ session' = [s EXCEPT !.publisher = q]
                                   /\ Retool(p, [at |-> "elect", to |-> {q}])
             /\ mu' = ByWriter(p) /\ Close({p}) /\ UNCHANGED crashed
          \/ /\ session.state \notin MixStates \cup DropStates /\ ~elect
             /\ Retool(p, [at |-> "gone"]) /\ Close({p}) /\ UNCHANGED <<session, mu, crashed>>
    /\ UNCHANGED <<run, errm, missed, reader, faults>>

\* The elected publisher gets the transaction; then a new timer, and exit.
WriterElects(p, q) ==
    /\ WriterAt(p, "elect")
    /\ q \in writer[p].to
    /\ writer[q].at = "ready"
    /\ \E o \in WriteOutcomes(q) :
         writer' = [writer EXCEPT ![q] = [at |-> o], ![p] = [at |-> "gone"]]
    /\ session' = [session EXCEPT !.armed = TRUE]
    /\ Unlock
    /\ UNCHANGED <<run, errm, missed, reader, conn, faults>>

WriterStep(p) == WriterError(p) \/ (\E q \in Peer : WriterElects(p, q))

-----------------------------------------------------------------------------
(* Specification.                                                          *)

ClientStep(p) == \E k \in Kind, v \in Payload : Accept(p, k, v)

Next ==
    \/ RunStep \/ Timeout
    \/ \E p \in Peer : ReaderStep(p) \/ WriterStep(p) \/ ClientStep(p) \/ Leave(p)

Spec == Init /\ [][Next]_vars

\* Goroutines run, and a client that stays answers when it is its turn (what a
\* faulty one does comes on top).  In no behaviour of the runs that use it does
\* a waiter for mu need more than weak fairness.
Fairness ==
    /\ WF_vars(RunStep)
    /\ \A p \in Peer : /\ WF_vars(ReaderStep(p))
                       /\ WF_vars(WriterStep(p))
                       /\ \A k \in Kind : WF_vars(Accept(p, k, "good"))

FairSpec == Spec /\ Fairness

-----------------------------------------------------------------------------
(* Properties.                                                             *)

RunState ==
    {Top, Exit} \cup [at : {"select", "done", "expired", "dead"}]
    \cup [at : {"handle"}, msg : Message]
    \cup [at : {"push"}, who : SUBSET Peer, epoch : Nat, late : BOOLEAN, then : {Top, Exit}]
    \cup [at : {"range"}, rest : SUBSET Peer]
    \cup [at : {"send"}, to : SUBSET Peer, state : State, arm : BOOLEAN,
          then : {Top, Exit} \cup [at : {"range"}, rest : SUBSET Peer]]

ReaderState ==
    [at : {"read", "drop", "closing", "gone", "dead"}]
    \cup [at : {"send"}, msg : Message]
    \cup [at : {"push"}, epoch : Nat]
    \cup [at : {"bcast"}, to : SUBSET Peer, arm : BOOLEAN, then : {"read", "closing"}]

WriterState ==
    [at : {"ready", "failed", "gone", "dead"}] \cup [at : {"elect"}, to : SUBSET Peer]

SessionState ==
    [peers : SUBSET Peer, state : State, epoch : Nat,
     data : [Peer -> [Stored -> Payload \cup {"none"}]],
     infos : Nat, publisher : Peer \cup {NoPeer}, finding : BOOLEAN,
     inputs : SUBSET (Peer \cup {NoPeer}), sigs : SUBSET Peer, asked : BOOLEAN,
     replayed : BOOLEAN, armed : BOOLEAN]

\* Every variable keeps its type.
TypeOK ==
    /\ session \in SessionState
    /\ mu \in {Free, ByRun} \cup {ByReader(p) : p \in Peer} \cup {ByWriter(p) : p \in Peer}
    /\ run \in RunState
    /\ errm \in BOOLEAN
    /\ missed \in BOOLEAN
    /\ reader \in [Peer -> ReaderState]
    /\ writer \in [Peer -> WriterState]
    /\ conn \in [Peer -> {"open", "left", "closed"}]
    /\ faults \in Nat
    /\ crashed \in BOOLEAN

\* What every member has submitted before the session enters a state.
Needs == [KeyExchange |-> {}, DcExponential |-> {}, DcXor |-> {"exp"},
          TxInput |-> {"exp", "xor"}, TxSign |-> {"exp", "xor", "txin"},
          TxPublish |-> {"exp", "xor", "txin", "sig"}, RevealSecret |-> {"exp"},
          Completed |-> {}]

\* The data of a round is complete, and of this life of the session, when the
\* session goes beyond it: no message that was under way across a restart, a
\* removal or a second copy makes a round end early.  Completed is excluded:
\* PublishResult sets it without looking (see CompletedIsSigned).
RoundData == \A k \in Needs[session.state] : Missing(k) = {}

\* Inputs that are nobody's get in only with a signer's altered transaction.
Added == IF \E p \in Peer : session.data[p].sig = "altered" THEN {NoPeer} ELSE {}

\* Every input of the transaction handed out for publication has the signature
\* of its owner, whoever was removed since the inputs were collected; only one
\* that a signer itself has added (lines 745-746 take over the whole of the
\* first signed transaction) may have none.
PublishedIsSigned ==
    session.state = "TxPublish" =>
        session.inputs # {} /\ session.inputs \subseteq session.sigs \cup Added

\* Every input of the transaction whose publication completes the session has
\* the signature of its owner.
CompletedIsSigned ==
    session.state = "Completed" => session.inputs # {} /\ session.inputs \subseteq session.sigs

\* While a result is awaited, the member it is awaited from is still there.
PublisherPresent ==
    session.state = "TxPublish" /\ mu = Free /\ session.peers # {} =>
        session.publisher \in session.peers

\* Whoever holds mu gets on: it is not waiting for mu itself, nor for a writer
\* that has exited or is itself waiting for mu.
LockHolderRuns ==
    \/ crashed
    \/ mu = Free
    \/ mu = ByRun /\ run.at \in {"exit", "range"}
    \/ mu = ByRun /\ run.at = "send" /\ \A q \in run.to : writer[q].at = "ready"
    \/ \E p \in Peer : /\ mu = ByReader(p) /\ reader[p].at = "bcast"
                       /\ \A q \in reader[p].to : writer[q].at = "ready"
    \/ \E p \in Peer : /\ mu = ByWriter(p) /\ writer[p].at = "elect"
                       /\ \A q \in writer[p].to : writer[q].at = "ready"

\* A peer whose client does as it is asked is never removed.
HonestStay == Peer \ Faulty \subseteq session.peers

\* Nobody mixes with a peer whose public key the others have not been sent.
KeysComplete ==
    session.state \in MixStates => Missing("pk") = {} /\ session.infos = Cardinality(session.peers)

Rank == [KeyExchange |-> 1, DcExponential |-> 2, DcXor |-> 3, TxInput |-> 4,
         TxSign |-> 5, TxPublish |-> 6, Completed |-> 7, RevealSecret |-> 8]

\* Within one life the session goes through its states one by one; only a
\* restart goes back.  (Server-side publication skips TxPublish.)
RoundsInOrder ==
    [][session'.epoch = session.epoch /\ session'.state # session.state =>
         \/ Rank[session'.state] = Rank[session.state] + 1
         \/ session.state = "TxSign" /\ session'.state = "Completed"]_vars

\* A restart happens only to get rid of somebody.
RestartRemoves ==
    [][session'.epoch # session.epoch => session'.peers # session.peers]_vars

\* The session publishes its transaction and its goroutine ends.
Finishes == <>(session.state = "Completed" /\ run.at = "done")
=============================================================================

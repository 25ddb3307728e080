------------------------- MODULE JoinSessionProofs -------------------------
(***************************************************************************)
(* Proofs about JoinSession, for every set of peers, every misuse and any  *)
(* number of faults: each variable keeps its type, no round of the mix is  *)
(* ever entered without the data of the rounds it builds on, and what is   *)
(* handed out for publication is signed by the owners of all its inputs    *)
(* but those that a signer has added to it.                                *)
(***************************************************************************)
EXTENDS JoinSession, TLAPS

MuState == {Free, ByRun} \cup {ByReader(p) : p \in Peer} \cup {ByWriter(p) : p \in Peer}
ThenState == {Top, Exit} \cup [at : {"range"}, rest : SUBSET Peer]

\* pushMaliciousInfo is called, with ids read under the lock or after it.
Accuses(s, who, then) == \E late \in BOOLEAN : Push(s, who, late, then)

\* A handler dies of a panic.
Panics == crashed' = TRUE /\ UNCHANGED <<session, mu, run, errm>>

-----------------------------------------------------------------------------
(* Types of the parts of a control state.                                  *)

\* The fields of run's control state, by its program counter.
LEMMA RunShape ==
    ASSUME NEW r \in RunState
    PROVE  /\ r.at = "handle" => r.msg \in Message
           /\ r.at = "push" => /\ r.who \subseteq Peer /\ r.epoch \in Nat
                               /\ r.late \in BOOLEAN /\ r.then \in {Top, Exit}
           /\ r.at = "range" => r.rest \subseteq Peer
           /\ r.at = "send" =>
                /\ r = [at |-> "send", to |-> r.to, state |-> r.state, arm |-> r.arm, then |-> r.then]
                /\ r.to \subseteq Peer /\ r.state \in State
                /\ r.arm \in BOOLEAN /\ r.then \in ThenState
  BY DEF RunState, ThenState, Top, Exit

\* The fields of a reader's control state, by its program counter.
LEMMA ReaderShape ==
    ASSUME NEW r \in ReaderState
    PROVE  /\ r.at = "send" => r.msg \in Message
           /\ r.at = "push" => r.epoch \in Nat
           /\ r.at = "bcast" =>
                /\ r = [at |-> "bcast", to |-> r.to, arm |-> r.arm, then |-> r.then]
                /\ r.to \subseteq Peer /\ r.arm \in BOOLEAN /\ r.then \in {"read", "closing"}
  BY DEF ReaderState

\* A broadcast from which one addressee is struck off is still one.
LEMMA RunStruckOff ==
    ASSUME NEW r \in RunState, r.at = "send", NEW q
    PROVE  [r EXCEPT !.to = @ \ {q}] \in RunState
  <1> DEFINE left == r.to \ {q}
  <1>1. left \in SUBSET Peer
    BY RunShape
  <1> HIDE DEF left
  <1>2. [r EXCEPT !.to = left] \in RunState
    BY <1>1 DEF RunState, Top, Exit
  <1> QED
    BY <1>2 DEF left

\* The same of a broadcast by a reader.
LEMMA ReaderStruckOff ==
    ASSUME NEW r \in ReaderState, r.at = "bcast", NEW q
    PROVE  [r EXCEPT !.to = @ \ {q}] \in ReaderState
  <1> DEFINE left == r.to \ {q}
  <1>1. left \in SUBSET Peer
    BY ReaderShape
  <1> HIDE DEF left
  <1>2. [r EXCEPT !.to = left] \in ReaderState
    BY <1>1 DEF ReaderState
  <1> QED
    BY <1>2 DEF left

\* A message's parts; what it stores is never the mark of missing data.
LEMMA MessageShape ==
    ASSUME NEW m \in Message
    PROVE  /\ m.kind \in Kind /\ m.peer \in Peer /\ m.epoch \in Nat
           /\ m.val \in Payload /\ m.val # "none"
  BY DEF Message, Payload, BadPayload, Kind, Stored, Rounds

-----------------------------------------------------------------------------
(* Types of the session's updates.                                         *)

\* removePeer leaves a session.
LEMMA WithoutType ==
    ASSUME session \in SessionState, NEW P
    PROVE  Without(P) \in SessionState
  BY DEF Without, SessionState

\* Storing a message from a peer leaves a session.
LEMMA WithDataType ==
    ASSUME session \in SessionState, NEW m \in Message, m.kind \in Stored
    PROVE  WithData(m) \in SessionState
  <1>1. m.peer \in Peer /\ m.val \in Payload
    BY MessageShape
  <1>2. [session.data EXCEPT ![m.peer][m.kind] = m.val]
           \in [Peer -> [Stored -> Payload \cup {"none"}]]
    BY <1>1 DEF SessionState
  <1> QED
    BY <1>2 DEF WithData, SessionState

\* A restart (pushMaliciousInfo) leaves a session.
LEMMA RestartedType ==
    ASSUME session \in SessionState, NEW P
    PROVE  Restarted(P) \in SessionState
  <1> DEFINE new == [p \in Peer |-> NoData]
             s1 == [Without(P) EXCEPT !.epoch = @ + 1]
             s2 == [s1 EXCEPT !.data = new]
             s3 == [s2 EXCEPT !.sigs = {}, !.inputs = {}, !.infos = 0]
             s4 == [s3 EXCEPT !.state = "KeyExchange", !.replayed = FALSE, !.asked = FALSE]
  <1>1. new \in [Peer -> [Stored -> Payload \cup {"none"}]]
    BY DEF NoData
  <1>2. Restarted(P) = s4
    BY DEF Restarted
  <1> HIDE DEF new
  <1>3. s1 \in SessionState
    BY WithoutType DEF SessionState
  <1> HIDE DEF s1
  <1>4. s2 \in SessionState
    BY <1>1, <1>3 DEF SessionState
  <1> HIDE DEF s2
  <1>5. s3 \in SessionState
    BY <1>4 DEF SessionState
  <1> HIDE DEF s3
  <1>6. s4 \in SessionState
    BY <1>5 DEF SessionState, State
  <1> QED
    BY <1>2, <1>6

\* What removePeer changes: who is a member.
LEMMA WithoutFields ==
    ASSUME session \in SessionState, NEW P
    PROVE  LET s == Without(P)
           IN /\ s.peers = session.peers \ P /\ s.state = session.state
              /\ s.epoch = session.epoch /\ s.data = session.data /\ s.infos = session.infos
              /\ s.inputs = session.inputs /\ s.sigs = session.sigs
              /\ s.publisher = session.publisher /\ s.finding = session.finding
              /\ s.asked = session.asked
  BY DEF Without, SessionState

\* What a handler that stores its message changes: one entry of the data.
LEMMA WithDataFields ==
    ASSUME session \in SessionState, NEW m \in Message, m.kind \in Stored
    PROVE  LET s == WithData(m)
           IN /\ s.peers = session.peers /\ s.state = session.state /\ s.epoch = session.epoch
              /\ s.infos = session.infos /\ s.inputs = session.inputs /\ s.sigs = session.sigs
              /\ s.publisher = session.publisher /\ s.finding = session.finding
              /\ s.asked = session.asked
              /\ \A p \in Peer, k \in Stored :
                   s.data[p][k] = IF p = m.peer /\ k = m.kind THEN m.val ELSE session.data[p][k]
  <1>1. m.peer \in Peer
    BY MessageShape
  <1> DEFINE d == [session.data EXCEPT ![m.peer][m.kind] = m.val]
  <1>2. \A p \in Peer, k \in Stored :
           d[p][k] = IF p = m.peer /\ k = m.kind THEN m.val ELSE session.data[p][k]
    BY <1>1 DEF SessionState
  <1>3. WithData(m) = [session EXCEPT !.data = d]
    BY DEF WithData
  <1> HIDE DEF d
  <1> QED
    BY <1>2, <1>3 DEF SessionState

\* What a restart changes: new ids, nothing submitted, back to the key exchange.
LEMMA RestartedFields ==
    ASSUME session \in SessionState, NEW P
    PROVE  LET s == Restarted(P)
           IN /\ s.peers = session.peers \ P /\ s.state = "KeyExchange"
              /\ s.epoch = session.epoch + 1 /\ s.infos = 0
              /\ s.inputs = {} /\ s.sigs = {} /\ s.publisher = session.publisher
              /\ s.finding = session.finding /\ s.asked = FALSE
              /\ s.data = [p \in Peer |-> NoData]
  <1> DEFINE d == [p \in Peer |-> NoData]
             s1 == [Without(P) EXCEPT !.epoch = @ + 1, !.data = d]
             s2 == [s1 EXCEPT !.sigs = {}, !.inputs = {}, !.infos = 0]
             s3 == [s2 EXCEPT !.state = "KeyExchange", !.replayed = FALSE, !.asked = FALSE]
  <1>1. d = [p \in Peer |-> NoData]
    OBVIOUS
  <1>2. Restarted(P) = s3
    BY DEF Restarted
  <1> HIDE DEF d
  <1>3. Without(P) \in SessionState
    BY WithoutType
  <1>4. /\ s1.peers = session.peers \ P /\ s1.epoch = session.epoch + 1 /\ s1.data = d
        /\ s1.publisher = session.publisher /\ s1.finding = session.finding
        /\ DOMAIN s1 = DOMAIN Without(P)
    BY <1>3, WithoutFields DEF SessionState
  <1>5. \A x \in {"sigs", "inputs", "infos", "state", "replayed", "asked"} : x \in DOMAIN Without(P)
    BY <1>3 DEF SessionState
  <1> HIDE DEF s1
  <1>6. /\ s2.peers = session.peers \ P /\ s2.epoch = session.epoch + 1 /\ s2.data = d
        /\ s2.publisher = session.publisher /\ s2.finding = session.finding
        /\ s2.sigs = {} /\ s2.inputs = {} /\ s2.infos = 0
        /\ DOMAIN s2 = DOMAIN s1
    BY <1>4, <1>5
  <1> HIDE DEF s2
  <1>7. /\ s3.peers = session.peers \ P /\ s3.epoch = session.epoch + 1 /\ s3.data = d
        /\ s3.publisher = session.publisher /\ s3.finding = session.finding
        /\ s3.sigs = {} /\ s3.inputs = {} /\ s3.infos = 0
        /\ s3.state = "KeyExchange" /\ s3.asked = FALSE
    BY <1>4, <1>5, <1>6
  <1> QED
    BY <1>1, <1>2, <1>7

\* Only peers are pushed out.
LEMMA AccusedType ==
    ASSUME NEW who, who \subseteq Peer, NEW epoch
    PROVE  Accused(who, epoch) \subseteq Peer
  BY DEF Accused

\* Closing connections leaves each open, left or closed.
LEMMA CloseType ==
    ASSUME conn \in [Peer -> {"open", "left", "closed"}], NEW P, Close(P)
    PROVE  conn' \in [Peer -> {"open", "left", "closed"}]
  BY DEF Close

\* Types of what the ways to leave a handler assign.
LEMMA ResumeType ==
    ASSUME NEW s \in SessionState, NEW then \in {Top, Exit}, mu \in MuState, Resume(s, then)
    PROVE  session' \in SessionState /\ run' \in RunState /\ mu' \in MuState
  BY DEF Resume, RunState

\* A broadcast begins with mu held by run.
LEMMA BroadcastType ==
    ASSUME NEW s \in SessionState, NEW to, to \subseteq Peer, NEW state \in State,
           NEW arm \in BOOLEAN, NEW then \in ThenState, Broadcast(s, to, state, arm, then)
    PROVE  session' \in SessionState /\ run' \in RunState /\ mu' \in MuState
  BY DEF Broadcast, RunState, ThenState, MuState

\* pushMaliciousInfo is called with a set of peers and an id of this life.
LEMMA AccuseType ==
    ASSUME NEW s \in SessionState, NEW who, who \subseteq Peer, NEW then \in {Top, Exit},
           mu \in MuState, Accuses(s, who, then)
    PROVE  session' \in SessionState /\ run' \in RunState /\ mu' \in MuState
  BY DEF Accuses, Push, RunState, SessionState

\* Both ways to call it are such calls.
LEMMA Accusing ==
    /\ \A s, who, then : Accuse(s, who, then) => Accuses(s, who, then)
    /\ \A s, p, then : AccuseLate(s, p, then) => Accuses(s, {p}, then)
  BY DEF Accuse, AccuseLate, Accuses

\* A write ends with the writer ready for more, or failed.
LEMMA WriteOutcomesType ==
    ASSUME NEW q, NEW o \in WriteOutcomes(q)
    PROVE  [at |-> o] \in WriterState
  <1>1. WriteOutcomes(q) \subseteq {"ready", "failed"}
    <2>1. CASE conn[q] = "open" \/ conn[q] = "left"
      BY <2>1 DEF WriteOutcomes
    <2>2. CASE ~(conn[q] = "open" \/ conn[q] = "left")
      BY <2>2 DEF WriteOutcomes
    <2> QED
      BY <2>1, <2>2
  <1> QED
    BY <1>1 DEF WriterState

\* A message taken by a writer leaves every writer in one of its states.
LEMMA SendType ==
    ASSUME writer \in [Peer -> WriterState], NEW q, Send(q)
    PROVE  writer' \in [Peer -> WriterState]
  BY WriteOutcomesType DEF Send

\* A writer that takes a message was not electing anybody, and does not start to.
LEMMA SendKeepsElections ==
    ASSUME writer \in [Peer -> WriterState], NEW q, Send(q)
    PROVE  \A p \in Peer : writer'[p].at = "elect" => writer[p].at = "elect"
  <1>1. \A o \in WriteOutcomes(q) : o # "elect"
    <2>1. CASE conn[q] = "open" \/ conn[q] = "left"
      BY <2>1 DEF WriteOutcomes
    <2>2. CASE ~(conn[q] = "open" \/ conn[q] = "left")
      BY <2>2 DEF WriteOutcomes
    <2> QED
      BY <2>1, <2>2
  <1> QED
    BY <1>1 DEF Send

\* A reader that goes on is in one of its states.
LEMMA ReworkType ==
    ASSUME reader \in [Peer -> ReaderState], NEW p \in Peer, NEW r \in ReaderState, Rework(p, r)
    PROVE  reader' \in [Peer -> ReaderState]
  BY DEF Rework

\* A broadcast by a reader begins with mu held by it.
LEMMA ReaderSendsType ==
    ASSUME reader \in [Peer -> ReaderState], NEW p \in Peer, NEW to, to \subseteq Peer,
           NEW arm \in BOOLEAN, NEW then \in {"read", "closing"}, ReaderSends(p, to, arm, then)
    PROVE  reader' \in [Peer -> ReaderState] /\ mu' \in MuState
  <1>1. [at |-> "bcast", to |-> to, arm |-> arm, then |-> then] \in ReaderState
    BY DEF ReaderState
  <1> QED
    BY <1>1, ReworkType DEF ReaderSends, MuState

\* An unlock leaves mu free, or the process dead.
LEMMA UnlockType ==
    ASSUME mu \in MuState, crashed \in BOOLEAN, Unlock
    PROVE  mu' \in MuState /\ crashed' \in BOOLEAN
  BY DEF Unlock, MuState

-----------------------------------------------------------------------------
(* pushMaliciousInfo.                                                       *)

\* Called by run, or by the reader of p, it removes out.
RunPushed(out) ==
    /\ run.at = "push" /\ mu = Free /\ Close(out)
    /\ out = Accused(run.who, run.epoch) \/ (run.late /\ out = Accused(run.who, session.epoch))
    /\ \/ session.peers \subseteq out /\ Resume(Without(out), run.then)
       \/ /\ ~(session.peers \subseteq out)
          /\ Broadcast(Restarted(out), session.peers \ out, "KeyExchange", FALSE, run.then)
    /\ UNCHANGED <<errm, missed, reader, writer, faults, crashed>>
ReaderPushed(p, out) ==
    /\ reader[p].at = "push" /\ mu = Free /\ Close(out)
    /\ out = Accused({p}, reader[p].epoch) \/ out = Accused({p}, session.epoch)
    /\ \/ /\ session.peers \subseteq out
          /\ session' = Without(out) /\ Rework(p, [at |-> "read"]) /\ UNCHANGED mu
       \/ /\ ~(session.peers \subseteq out)
          /\ session' = Restarted(out) /\ ReaderSends(p, session.peers \ out, FALSE, "read")
    /\ UNCHANGED <<run, errm, missed, writer, faults, crashed>>

\* Which of them it is depends on when the ids were read.
LEMMA Pushing ==
    /\ RunPush => \E out : RunPushed(out)
    /\ \A p : ReaderPush(p) => \E out : ReaderPushed(p, out)
  <1>1. ASSUME RunPush
        PROVE  \E out : RunPushed(out)
    <2>1. PICK epoch : /\ epoch = run.epoch \/ (run.late /\ epoch = session.epoch)
                       /\ RunPushed(Accused(run.who, epoch))
      BY <1>1 DEF RunPush, RunPushed, RunAt
    <2> QED
      BY <2>1
  <1>2. ASSUME NEW p, ReaderPush(p)
        PROVE  \E out : ReaderPushed(p, out)
    <2>1. PICK epoch : ReaderPushed(p, Accused({p}, epoch))
      BY <1>2 DEF ReaderPush, ReaderPushed, ReaderAt
    <2> QED
      BY <2>1
  <1> QED
    BY <1>1, <1>2

\* Only those accused are removed.
LEMMA PushedOut ==
    /\ \A out : RunPushed(out) => out \subseteq run.who \cap session.peers
    /\ \A p, out : ReaderPushed(p, out) => out \subseteq {p} \cap session.peers
  BY DEF RunPushed, ReaderPushed, Accused

-----------------------------------------------------------------------------
(* Type correctness, goroutine by goroutine.                               *)

\* A joint transaction taken over keeps the session's type.
LEMMA JoinedType ==
    ASSUME TypeOK, NEW m, m.peer \in Peer, WithData(m) \in SessionState,
           NEW X \in JoinedInputs(m)
    PROVE  Joined(m, X) \in SessionState /\ Joined(m, X).peers \subseteq Peer
  <1>1. X \subseteq Peer \cup {NoPeer}
    BY DEF JoinedInputs, TypeOK, SessionState
  <1> QED
    BY <1>1 DEF Joined, SessionState

\* The message handlers of run keep the types.
LEMMA HandlersTyped ==
    ASSUME TypeOK,
           \/ KeyExchange \/ DcExpVector \/ DcXorVector \/ TxInputs \/ SignedTx
           \/ PublishResult \/ RevealSecret \/ MsgNotFound
    PROVE  TypeOK'
  <1> DEFINE m == run.msg
             s == WithData(m)
  <1>0. run.at = "handle"
    BY DEF KeyExchange, DcExpVector, DcXorVector, TxInputs, SignedTx, PublishResult,
           RevealSecret, MsgNotFound, Handling, RunAt
  <1>1. m \in Message /\ m.peer \in Peer /\ m.epoch \in Nat
    BY <1>0, RunShape, MessageShape DEF TypeOK
  <1>2. m.kind \in Stored => s \in SessionState
    BY <1>1, WithDataType DEF TypeOK
  <1>3. session \in SessionState /\ mu \in MuState
    BY DEF TypeOK, MuState
  <1>4. session.peers \subseteq Peer /\ session.state \in State
    BY <1>3 DEF SessionState
  <1>5. m.kind \in Stored => s.peers \subseteq Peer /\ s.state \in State
    BY <1>2 DEF SessionState
  <1>6. State = State \cup {"DcExponential", "DcXor", "TxInput", "TxSign", "TxPublish",
                            "Completed", "RevealSecret"}
    BY DEF State
  <1>7. Top \in ThenState /\ Exit \in ThenState
    BY DEF ThenState
  <1>8. \A x \in {"pk", "exp", "xor", "txin", "sig", "vk"} : x \in Stored
    BY DEF Stored, Rounds
  <1>9. SUFFICES session' \in SessionState /\ run' \in RunState /\ mu' \in MuState
                 /\ errm' \in BOOLEAN /\ conn' \in [Peer -> {"open", "left", "closed"}]
                 /\ crashed' \in BOOLEAN /\ UNCHANGED <<missed, reader, writer, faults>>
    BY DEF TypeOK, MuState
  <1> HIDE DEF m, s
  <1>10. CASE KeyExchange
    <2> DEFINE t == [s EXCEPT !.infos = @ + 1]
    <2>1. m.kind \in Stored
      BY <1>8, <1>10 DEF KeyExchange, Handling, m
    <2>2. t \in SessionState /\ t.peers \subseteq Peer
      BY <1>2, <2>1 DEF SessionState
    <2>3. \/ Resume(session, Top) /\ UNCHANGED conn
          \/ Resume(Without({m.peer}), Top) /\ Close({m.peer})
          \/ Broadcast(t, t.peers, "DcExponential", TRUE, Top) /\ UNCHANGED conn
          \/ Resume(t, Top) /\ UNCHANGED conn
      BY <1>10 DEF KeyExchange, m, s
    <2> HIDE DEF t
    <2>4. session' \in SessionState /\ run' \in RunState /\ mu' \in MuState
      BY <1>3, <1>6, <1>7, <2>2, <2>3, ResumeType, BroadcastType, WithoutType
    <2>5. conn' \in [Peer -> {"open", "left", "closed"}]
      BY <2>3, CloseType DEF TypeOK
    <2> QED
      BY <1>10, <2>4, <2>5 DEF KeyExchange, TypeOK
  <1>11. CASE DcExpVector
    <2> DEFINE t == [s EXCEPT !.asked = TRUE]
    <2>1. m.kind \in Stored
      BY <1>8, <1>11 DEF DcExpVector, Handling, m
    <2>2. t \in SessionState
      BY <1>2, <2>1 DEF SessionState
    <2>3. \/ Resume(session, Top) \/ Resume(s, Top)
          \/ Accuses(session, {m.peer}, Exit) \/ Accuses(session, {m.peer}, Top)
          \/ Broadcast(s, s.peers, "DcXor", TRUE, Top)
          \/ Broadcast(t, s.peers, s.state, FALSE, Top)
      BY <1>11, Accusing DEF DcExpVector, m, s
    <2> HIDE DEF t
    <2>4. session' \in SessionState /\ run' \in RunState /\ mu' \in MuState
      <3>1. CASE Resume(session, Top) \/ Resume(s, Top)
        BY <1>2, <1>3, <2>1, <3>1, ResumeType
      <3>2. CASE Accuses(session, {m.peer}, Exit) \/ Accuses(session, {m.peer}, Top)
        BY <1>1, <1>3, <3>2, AccuseType
      <3>3. CASE Broadcast(s, s.peers, "DcXor", TRUE, Top)
        BY <1>2, <1>5, <1>6, <1>7, <2>1, <3>3, BroadcastType
      <3>4. CASE Broadcast(t, s.peers, s.state, FALSE, Top)
        BY <1>5, <1>7, <2>1, <2>2, <3>4, BroadcastType
      <3> QED
        BY <2>3, <3>1, <3>2, <3>3, <3>4
    <2> QED
      BY <1>11, <2>4 DEF DcExpVector, TypeOK
  <1>12. CASE DcXorVector
    <2> DEFINE t == [s EXCEPT !.state = "TxInput", !.armed = TRUE]
    <2>1. m.kind \in Stored
      BY <1>8, <1>12 DEF DcXorVector, Handling, m
    <2>2. t \in SessionState
      BY <1>2, <1>6, <2>1 DEF SessionState
    <2>3. \/ /\ run' = [at |-> "push", who |-> {m.peer}, epoch |-> m.epoch, late |-> FALSE, then |-> Exit]
             /\ UNCHANGED <<session, mu>>
          \/ Resume(session, Top) \/ Resume(s, Top)
          \/ Broadcast(t, s.peers, "TxInput", FALSE, Top)
      BY <1>12 DEF DcXorVector, m, s
    <2>4. [at |-> "push", who |-> {m.peer}, epoch |-> m.epoch, late |-> FALSE, then |-> Exit] \in RunState
      BY <1>1 DEF RunState
    <2> HIDE DEF t
    <2>5. session' \in SessionState /\ run' \in RunState /\ mu' \in MuState
      BY <1>2, <1>3, <1>5, <1>6, <1>7, <2>1, <2>2, <2>3, <2>4, ResumeType, BroadcastType
    <2> QED
      BY <1>12, <2>5 DEF DcXorVector, TypeOK
  <1>13. CASE TxInputs
    <2> DEFINE t == [s EXCEPT !.inputs = s.peers]
    <2>1. m.kind \in Stored
      BY <1>8, <1>13 DEF TxInputs, Handling, m
    <2>2. t \in SessionState
      BY <1>2, <1>5, <2>1 DEF SessionState
    <2>3. \/ Resume(session, Top) \/ Resume(s, Top)
          \/ Accuses(session, {m.peer}, Exit)
          \/ mu' = ByRun /\ run' = Exit /\ UNCHANGED session
          \/ mu' = ByRun /\ run' = Top /\ session' = s
          \/ Broadcast(t, s.peers, "TxSign", TRUE, Top)
          \/ Panics
      BY <1>13, Accusing DEF TxInputs, Panics, m, s
    <2>4. Top \in RunState /\ Exit \in RunState /\ ByRun \in MuState
      BY DEF RunState, MuState
    <2> HIDE DEF t
    <2>5. session' \in SessionState /\ run' \in RunState /\ mu' \in MuState
      <3>1. CASE Resume(session, Top) \/ Resume(s, Top)
        BY <1>2, <1>3, <2>1, <3>1, ResumeType
      <3>2. CASE Accuses(session, {m.peer}, Exit)
        BY <1>1, <1>3, <3>2, AccuseType
      <3>3. CASE Broadcast(t, s.peers, "TxSign", TRUE, Top)
        BY <1>5, <1>6, <1>7, <2>1, <2>2, <3>3, BroadcastType
      <3> QED
        BY <1>2, <1>3, <2>1, <2>3, <2>4, <3>1, <3>2, <3>3 DEF Panics, TypeOK
    <2>6. errm' \in BOOLEAN /\ crashed' \in BOOLEAN
      BY <1>13 DEF TxInputs, TypeOK
    <2> QED
      BY <1>13, <2>5, <2>6 DEF TxInputs, TypeOK
  <1>14. CASE SignedTx
    <2> DEFINE elected(t, q) == [t EXCEPT !.publisher = q]
    <2>1. m.kind \in Stored
      BY <1>8, <1>14 DEF SignedTx, Handling, m
    <2>2. \A X \in JoinedInputs(m) : Joined(m, X) \in SessionState /\ Joined(m, X).peers \subseteq Peer
      BY <1>1, <1>2, <2>1, JoinedType DEF s
    <2>3. \A t \in SessionState : \A q \in t.peers : elected(t, q) \in SessionState
      BY DEF SessionState
    <2> HIDE DEF elected
    <2>4. \/ Resume(session, Top) \/ Accuses(s, {m.peer}, Top)
          \/ mu' = ByRun /\ run' = Exit /\ UNCHANGED session
          \/ \E X \in JoinedInputs(m) :
               \/ Resume(Joined(m, X), Top)
               \/ Broadcast(Joined(m, X), Joined(m, X).peers, "Completed", FALSE, Exit)
               \/ \E q \in Joined(m, X).peers :
                    Broadcast(elected(Joined(m, X), q), {q}, "TxPublish", TRUE, Top)
          \/ Panics
      BY <1>14, Accusing DEF SignedTx, Panics, elected, m, s
    <2>5. Exit \in RunState /\ ByRun \in MuState
      BY DEF RunState, MuState
    <2>6. session' \in SessionState /\ run' \in RunState /\ mu' \in MuState
      <3>1. CASE Resume(session, Top)
        BY <1>3, <3>1, ResumeType
      <3>2. CASE Accuses(s, {m.peer}, Top)
        BY <1>1, <1>2, <1>3, <2>1, <3>2, AccuseType
      <3>3. ASSUME NEW X \in JoinedInputs(m), Resume(Joined(m, X), Top)
            PROVE  session' \in SessionState /\ run' \in RunState /\ mu' \in MuState
        BY <1>3, <2>2, <3>3, ResumeType
      <3>4. ASSUME NEW X \in JoinedInputs(m),
                   Broadcast(Joined(m, X), Joined(m, X).peers, "Completed", FALSE, Exit)
            PROVE  session' \in SessionState /\ run' \in RunState /\ mu' \in MuState
        BY <1>6, <1>7, <2>2, <3>4, BroadcastType
      <3>5. ASSUME NEW X \in JoinedInputs(m), NEW q \in Joined(m, X).peers,
                   Broadcast(elected(Joined(m, X), q), {q}, "TxPublish", TRUE, Top)
            PROVE  session' \in SessionState /\ run' \in RunState /\ mu' \in MuState
        BY <1>6, <1>7, <2>2, <2>3, <3>5, BroadcastType
      <3> QED
        BY <1>3, <2>4, <2>5, <3>1, <3>2, <3>3, <3>4, <3>5 DEF Panics, TypeOK
    <2>7. errm' \in BOOLEAN /\ crashed' \in BOOLEAN
      BY <1>14 DEF SignedTx, TypeOK
    <2> QED
      BY <1>14, <2>6, <2>7 DEF SignedTx, TypeOK
  <1>15. CASE PublishResult
    BY <1>3, <1>4, <1>6, <1>7, <1>15, BroadcastType DEF PublishResult, TypeOK
  <1>16. CASE RevealSecret
    <2> DEFINE t == [s EXCEPT !.finding = FALSE]
               u == [t EXCEPT !.replayed = TRUE]
    <2>1. m.kind \in Stored
      BY <1>8, <1>16 DEF RevealSecret, Handling, m
    <2>2. t \in SessionState /\ u \in SessionState
      BY <1>2, <2>1 DEF SessionState
    <2>3. \A who \in Malicious(t) : who \subseteq Peer
      BY <2>2 DEF Malicious, WrongKey, WrongExp, WrongXor, Misjudged, SessionState
    <2>4. \/ Resume(session, Top) \/ Resume(t, Top) \/ Resume(u, Top)
          \/ \E who \in Malicious(t) : Accuses(u, who, Top)
          \/ session' = s /\ mu' = ByRun /\ run' = Exit
          \/ Panics
      BY <1>16, Accusing DEF RevealSecret, Panics, m, s
    <2>7. Exit \in RunState /\ ByRun \in MuState
      BY DEF RunState, MuState
    <2> HIDE DEF t, u
    <2>5. session' \in SessionState /\ run' \in RunState /\ mu' \in MuState
      <3>1. CASE Resume(session, Top) \/ Resume(t, Top) \/ Resume(u, Top)
        BY <1>3, <2>2, <3>1, ResumeType
      <3>2. CASE \E who \in Malicious(t) : Accuses(u, who, Top)
        <4>1. PICK who \in Malicious(t) : Accuses(u, who, Top)
          BY <3>2
        <4> QED
          BY <1>3, <2>2, <2>3, <4>1, AccuseType
      <3> QED
        BY <1>2, <1>3, <2>1, <2>4, <2>7, <3>1, <3>2 DEF Panics, TypeOK
    <2>6. crashed' \in BOOLEAN /\ errm' \in BOOLEAN
      BY <1>16 DEF RevealSecret, TypeOK
    <2> QED
      BY <1>16, <2>5, <2>6 DEF RevealSecret, TypeOK
  <1>17. CASE MsgNotFound
    <2> DEFINE t == [session EXCEPT !.asked = TRUE]
    <2>1. t \in SessionState
      BY <1>3 DEF SessionState
    <2>2. CASE Member(m)
      <3>1. Broadcast(t, session.peers, "RevealSecret", TRUE, Top)
        BY <1>17, <2>2 DEF MsgNotFound, m
      <3> QED
        BY <1>4, <1>6, <1>7, <1>17, <2>1, <3>1, BroadcastType DEF MsgNotFound, TypeOK
    <2>3. CASE ~Member(m)
      BY <1>3, <1>17, <2>3, ResumeType DEF MsgNotFound, TypeOK, m
    <2> QED
      BY <2>2, <2>3
  <1> QED
    BY <1>10, <1>11, <1>12, <1>13, <1>14, <1>15, <1>16, <1>17

\* So do the other steps of run.
LEMMA RunTyped ==
    ASSUME TypeOK, RunStep \/ Timeout
    PROVE  TypeOK'
  <1>1. session \in SessionState /\ mu \in MuState /\ run \in RunState
    BY DEF TypeOK, MuState
  <1>2. session.peers \subseteq Peer /\ session.state \in State /\ session.armed \in BOOLEAN
    BY <1>1 DEF SessionState
  <1>3. Top \in ThenState /\ Exit \in ThenState /\ Top \in RunState /\ ByRun \in MuState /\ Free \in MuState
    BY DEF ThenState, RunState, MuState
  <1>4. \A x \in {"select", "done", "expired", "dead"} : [at |-> x] \in RunState
    BY DEF RunState
  <1>5. "TxPublish" \in State /\ "KeyExchange" \in State
    BY DEF State
  <1>6. CASE Loop
    BY <1>4, <1>6 DEF Loop, TypeOK
  <1>7. CASE \E p \in Peer : Receive(p)
    <2>1. PICK p \in Peer : Receive(p)
      BY <1>7
    <2>2. reader[p] \in ReaderState /\ reader[p].at = "send"
      BY <2>1 DEF Receive, ReaderAt, TypeOK
    <2>3. [at |-> "handle", msg |-> reader[p].msg] \in RunState
      BY <2>2, ReaderShape DEF RunState
    <2>4. [at |-> "read"] \in ReaderState
      BY DEF ReaderState
    <2> QED
      BY <2>1, <2>3, <2>4 DEF Receive, TypeOK
  <1>8. CASE Timeout
    BY <1>1, <1>4, <1>8 DEF Timeout, TypeOK, SessionState
  <1>9. CASE Expired
    <2>1. \/ session' = Without(Silent) /\ run' = Top /\ mu' = mu /\ Close(Silent)
          \/ mu' = ByRun /\ run' = [at |-> "range", rest |-> session.peers] /\ UNCHANGED <<session, conn>>
          \/ mu' = ByRun /\ run' = [at |-> "dead"] /\ UNCHANGED <<session, conn>>
          \/ session' = session /\ run' = Top /\ mu' = mu /\ UNCHANGED conn
      BY <1>9 DEF Expired, Resume
    <2>2. [at |-> "range", rest |-> session.peers] \in RunState
      BY <1>2 DEF RunState
    <2>3. session' \in SessionState /\ run' \in RunState /\ mu' \in MuState
      BY <1>1, <1>3, <1>4, <2>1, <2>2, WithoutType
    <2>4. conn' \in [Peer -> {"open", "left", "closed"}]
      BY <2>1, CloseType DEF TypeOK
    <2>5. missed' \in BOOLEAN
      BY <1>9 DEF Expired, TypeOK
    <2> QED
      BY <1>9, <2>3, <2>4, <2>5 DEF Expired, TypeOK, MuState
  <1>10. CASE EvictPublisher
    <2> DEFINE s == Without({session.publisher})
               elected(q) == [s EXCEPT !.publisher = q]
    <2>1. run.rest \subseteq Peer
      BY <1>1, <1>10, RunShape DEF EvictPublisher, RunAt
    <2>2. s \in SessionState /\ s.peers \subseteq Peer
      BY <1>1, WithoutType DEF SessionState
    <2>3. \A q \in s.peers : elected(q) \in SessionState
      BY <2>2 DEF SessionState
    <2>4. \A later \in SUBSET Peer : [at |-> "range", rest |-> later] \in ThenState
      BY DEF ThenState
    <2>5. \/ session' = s /\ mu' = Free /\ run' = [at |-> "done"]
          \/ \E q \in s.peers, later \in SUBSET Peer :
               Broadcast(elected(q), {q}, "TxPublish", TRUE, [at |-> "range", rest |-> later])
      BY <1>10, <2>1 DEF EvictPublisher
    <2> HIDE DEF s, elected
    <2>6. session' \in SessionState /\ run' \in RunState /\ mu' \in MuState
      <3>1. CASE session' = s /\ mu' = Free /\ run' = [at |-> "done"]
        BY <1>3, <1>4, <2>2, <3>1
      <3>2. CASE \E q \in s.peers, later \in SUBSET Peer :
                   Broadcast(elected(q), {q}, "TxPublish", TRUE, [at |-> "range", rest |-> later])
        <4>1. PICK q \in s.peers, later \in SUBSET Peer :
                Broadcast(elected(q), {q}, "TxPublish", TRUE, [at |-> "range", rest |-> later])
          BY <3>2
        <4> QED
          BY <1>5, <2>2, <2>3, <2>4, <4>1, BroadcastType
      <3> QED
        BY <2>5, <3>1, <3>2
    <2>7. conn' \in [Peer -> {"open", "left", "closed"}]
      BY <1>10, CloseType DEF EvictPublisher, TypeOK
    <2> QED
      BY <1>10, <2>6, <2>7 DEF EvictPublisher, TypeOK, MuState
  <1>11. CASE RangeDone
    BY <1>3, <1>4, <1>11 DEF RangeDone, TypeOK, MuState
  <1>12. CASE \E q \in Peer : RunSend(q)
    <2>1. PICK q \in Peer : RunSend(q)
      BY <1>12
    <2>2. run' \in RunState
      BY <1>1, <2>1, RunStruckOff DEF RunSend, RunAt
    <2> QED
      BY <2>1, <2>2, SendType DEF RunSend, TypeOK
  <1>13. CASE RunSent
    <2>1. /\ run.state \in State /\ run.arm \in BOOLEAN /\ run.then \in ThenState
      BY <1>1, <1>13, RunShape DEF RunSent, RunAt
    <2>2. [session EXCEPT !.state = run.state, !.armed = @ \/ run.arm] \in SessionState
      <3> DEFINE armed == session.armed \/ run.arm
      <3>1. armed \in BOOLEAN
        BY <1>2, <2>1
      <3> HIDE DEF armed
      <3>2. [session EXCEPT !.state = run.state, !.armed = armed] \in SessionState
        BY <1>1, <2>1, <3>1 DEF SessionState
      <3> QED
        BY <3>2 DEF armed
    <2>3. run.then \in RunState
      BY <2>1 DEF ThenState, RunState
    <2> QED
      BY <1>3, <1>13, <2>2, <2>3 DEF RunSent, TypeOK, MuState
  <1>14. CASE RunPush
    <2>1. PICK out : RunPushed(out)
      BY <1>14, Pushing
    <2>2. run.then \in {Top, Exit}
      BY <1>1, <2>1, RunShape DEF RunPushed
    <2>3. session.peers \ out \subseteq Peer /\ run.then \in ThenState
      BY <1>2, <2>2 DEF ThenState
    <2>4. Without(out) \in SessionState /\ Restarted(out) \in SessionState
      BY <1>1, WithoutType, RestartedType
    <2>5. conn' \in [Peer -> {"open", "left", "closed"}]
      BY <2>1, CloseType DEF RunPushed, TypeOK
    <2>6. session' \in SessionState /\ run' \in RunState /\ mu' \in MuState
      BY <1>1, <1>5, <2>2, <2>1, <2>3, <2>4, ResumeType, BroadcastType DEF RunPushed
    <2> QED
      BY <2>1, <2>5, <2>6 DEF RunPushed, TypeOK, MuState
  <1>15. CASE RunExit
    <2>1. mu' \in MuState /\ crashed' \in BOOLEAN
      BY <1>1, <1>15, UnlockType DEF RunExit, TypeOK
    <2>2. conn' \in [Peer -> {"open", "left", "closed"}]
      BY <1>15, CloseType DEF RunExit, TypeOK
    <2> QED
      BY <1>4, <1>15, <2>1, <2>2 DEF RunExit, TypeOK, MuState
  <1> QED
    BY <1>6, <1>7, <1>8, <1>9, <1>10, <1>11, <1>12, <1>13, <1>14, <1>15, HandlersTyped DEF RunStep

\* So do the readers and the clients they read from.
LEMMA ReaderTyped ==
    ASSUME TypeOK, NEW p \in Peer, ReaderStep(p) \/ ClientStep(p)
    PROVE  TypeOK'
  <1>1. /\ session \in SessionState /\ mu \in MuState /\ run \in RunState
        /\ reader[p] \in ReaderState /\ reader \in [Peer -> ReaderState]
    BY DEF TypeOK, MuState
  <1>2. session.peers \subseteq Peer /\ session.epoch \in Nat /\ session.armed \in BOOLEAN
    BY <1>1 DEF SessionState
  <1>3. \A x \in {"read", "drop", "closing", "gone", "dead"} : [at |-> x] \in ReaderState
    BY DEF ReaderState
  <1>4. Free \in MuState /\ ByReader(p) \in MuState
    BY DEF MuState
  <1>5. CASE Drop(p)
    <2>1. run' \in RunState
      <3>1. CASE run.at = "send"
        BY <1>1, <1>5, <3>1, RunStruckOff DEF Drop
      <3>2. CASE run.at # "send"
        BY <1>1, <1>5, <3>2 DEF Drop
      <3> QED
        BY <3>1, <3>2
    <2>2. session' \in SessionState
      BY <1>1, <1>5, WithoutType DEF Drop
    <2>3. conn' \in [Peer -> {"open", "left", "closed"}]
      BY <1>5, CloseType DEF Drop, TypeOK
    <2>4. crashed' \in BOOLEAN
      BY <1>5 DEF Drop
    <2>5. reader' \in [Peer -> ReaderState]
      BY <1>1, <1>3, <1>5, ReworkType DEF Drop
    <2> QED
      BY <1>5, <2>1, <2>2, <2>3, <2>4, <2>5 DEF Drop, TypeOK
  <1>6. CASE ReaderPush(p)
    <2>0. PICK out : ReaderPushed(p, out)
      BY <1>6, Pushing
    <2>1. \/ session' = Without(out) /\ Rework(p, [at |-> "read"]) /\ UNCHANGED mu
          \/ session' = Restarted(out) /\ ReaderSends(p, session.peers \ out, FALSE, "read")
      BY <2>0 DEF ReaderPushed
    <2>2. session.peers \ out \subseteq Peer
      BY <1>2
    <2>3. conn' \in [Peer -> {"open", "left", "closed"}]
      BY <2>0, CloseType DEF ReaderPushed, TypeOK
    <2>4. Without(out) \in SessionState /\ Restarted(out) \in SessionState
      BY <1>1, WithoutType, RestartedType
    <2>5. session' \in SessionState
      BY <2>1, <2>4
    <2>6. reader' \in [Peer -> ReaderState] /\ mu' \in MuState
      BY <1>1, <1>3, <2>1, <2>2, ReworkType, ReaderSendsType
    <2> QED
      BY <2>0, <2>3, <2>5, <2>6 DEF ReaderPushed, TypeOK, MuState
  <1>7. CASE \E q \in Peer : ReaderSend(p, q)
    <2>1. PICK q \in Peer : ReaderSend(p, q)
      BY <1>7
    <2>2. [reader[p] EXCEPT !.to = @ \ {q}] \in ReaderState
      BY <1>1, <2>1, ReaderStruckOff DEF ReaderSend, ReaderAt
    <2>3. reader' \in [Peer -> ReaderState]
      BY <1>1, <2>1, <2>2, ReworkType DEF ReaderSend
    <2>4. writer' \in [Peer -> WriterState]
      BY <2>1, SendType DEF ReaderSend, TypeOK
    <2> QED
      BY <2>1, <2>3, <2>4 DEF ReaderSend, TypeOK
  <1>8. CASE ReaderSent(p)
    <2> DEFINE armed == session.armed \/ reader[p].arm
    <2>1. reader[p].arm \in BOOLEAN /\ reader[p].then \in {"read", "closing"}
      BY <1>1, <1>8, ReaderShape DEF ReaderSent, ReaderAt
    <2>2. armed \in BOOLEAN
      BY <1>2, <2>1
    <2>3. session' = [session EXCEPT !.armed = armed]
      BY <1>8 DEF ReaderSent
    <2> HIDE DEF armed
    <2>4. session' \in SessionState
      BY <1>1, <2>2, <2>3 DEF SessionState
    <2>5. [at |-> reader[p].then] \in ReaderState
      BY <1>3, <2>1
    <2>6. reader' \in [Peer -> ReaderState]
      BY <1>1, <1>8, <2>5, ReworkType DEF ReaderSent
    <2>7. mu' \in MuState /\ crashed' \in BOOLEAN
      BY <1>1, <1>8, UnlockType DEF ReaderSent, TypeOK
    <2> QED
      BY <1>8, <2>4, <2>6, <2>7 DEF ReaderSent, TypeOK, MuState
  <1>9. CASE ReaderError(p)
    <2> DEFINE s == Without({p})
               elected(q) == [s EXCEPT !.publisher = q]
    <2>1. \/ session' = s /\ Rework(p, [at |-> "closing"]) /\ Close({p}) /\ UNCHANGED mu
          \/ mu' = ByReader(p) /\ Rework(p, [at |-> "dead"]) /\ UNCHANGED <<session, conn>>
          \/ /\ \E q \in s.peers : session' = elected(q) /\ ReaderSends(p, {q}, TRUE, "closing")
             /\ Close({p})
          \/ Rework(p, [at |-> "closing"]) /\ Close({p}) /\ UNCHANGED <<session, mu>>
      BY <1>9 DEF ReaderError
    <2>2. s \in SessionState /\ s.peers \subseteq Peer
      BY <1>1, WithoutType DEF SessionState
    <2>3. \A q \in s.peers : elected(q) \in SessionState
      BY <2>2 DEF SessionState
    <2> HIDE DEF s, elected
    <2>4. session' \in SessionState
      BY <1>1, <2>1, <2>2, <2>3
    <2>5. reader' \in [Peer -> ReaderState] /\ mu' \in MuState
      BY <1>1, <1>3, <1>4, <2>1, <2>2, ReworkType, ReaderSendsType
    <2>6. conn' \in [Peer -> {"open", "left", "closed"}]
      BY <2>1, CloseType DEF TypeOK
    <2> QED
      BY <1>9, <2>4, <2>5, <2>6 DEF ReaderError, TypeOK, MuState
  <1>10. CASE ReaderClose(p)
    <2>1. reader' \in [Peer -> ReaderState]
      BY <1>1, <1>3, <1>10, ReworkType DEF ReaderClose
    <2>2. writer' \in [Peer -> WriterState]
      BY <1>10 DEF ReaderClose, TypeOK, WriterState
    <2> QED
      BY <1>10, <2>1, <2>2 DEF ReaderClose, TypeOK
  <1>11. CASE ClientStep(p)
    <2>1. PICK k \in Kind, v \in Payload : Accept(p, k, v)
      BY <1>11 DEF ClientStep
    <2>2. Sized(k, v) \in Payload
      BY DEF Sized, Payload, BadPayload, Kind, Stored, Rounds
    <2>3. [kind |-> k, peer |-> p, epoch |-> session.epoch, val |-> Sized(k, v)] \in Message
      BY <1>2, <2>2 DEF Message
    <2>4. /\ [at |-> "send", msg |-> [kind |-> k, peer |-> p, epoch |-> session.epoch,
                                      val |-> Sized(k, v)]] \in ReaderState
          /\ [at |-> "push", epoch |-> session.epoch] \in ReaderState
      BY <1>2, <2>3 DEF ReaderState
    <2>5. reader' \in [Peer -> ReaderState]
      BY <1>1, <1>3, <2>1, <2>4, ReworkType DEF Accept
    <2>6. session' \in SessionState
      <3> DEFINE sought == session.finding \/ (k = "nf" /\ v # "unparsable")
      <3>1. sought \in BOOLEAN
        BY <1>1 DEF SessionState
      <3>2. session' = session \/ session' = [session EXCEPT !.finding = sought]
        BY <2>1 DEF Accept
      <3> HIDE DEF sought
      <3> QED
        BY <1>1, <3>1, <3>2 DEF SessionState
    <2>7. mu' \in MuState
      BY <1>1, <1>4, <2>1 DEF Accept
    <2>8. faults' \in Nat
      BY <2>1 DEF Accept, ClientSends, TypeOK
    <2> QED
      BY <2>1, <2>5, <2>6, <2>7, <2>8 DEF Accept, TypeOK, MuState
  <1> QED
    BY <1>5, <1>6, <1>7, <1>8, <1>9, <1>10, <1>11 DEF ReaderStep

\* So do the writers, and a connection that is lost.
LEMMA WriterTyped ==
    ASSUME TypeOK, NEW p \in Peer, WriterStep(p) \/ Leave(p)
    PROVE  TypeOK'
  <1>1. session \in SessionState /\ mu \in MuState /\ writer \in [Peer -> WriterState]
    BY DEF TypeOK, MuState
  <1>2. \A x \in {"ready", "failed", "gone", "dead"} : [at |-> x] \in WriterState
    BY DEF WriterState
  <1>3. CASE WriterError(p)
    <2> DEFINE s == Without({p})
               elected(q) == [s EXCEPT !.publisher = q]
    <2>1. /\ \/ session' = s \/ UNCHANGED session \/ \E q \in s.peers : session' = elected(q)
          /\ Close({p}) \/ UNCHANGED conn
          /\ mu' \in {mu, ByWriter(p)}
          /\ crashed' \in {crashed, TRUE}
          /\ \/ UNCHANGED writer \/ Retool(p, [at |-> "gone"]) \/ Retool(p, [at |-> "dead"])
             \/ \E q \in s.peers : Retool(p, [at |-> "elect", to |-> {q}])
      BY <1>3 DEF WriterError
    <2>2. s \in SessionState /\ s.peers \subseteq Peer
      BY <1>1, WithoutType DEF SessionState
    <2>3. \A q \in s.peers : elected(q) \in SessionState
      BY <2>2 DEF SessionState
    <2> HIDE DEF s, elected
    <2>4. session' \in SessionState
      BY <1>1, <2>1, <2>2, <2>3
    <2>5. \A q \in s.peers : [at |-> "elect", to |-> {q}] \in WriterState
      BY <2>2 DEF WriterState
    <2>6. writer' \in [Peer -> WriterState]
      BY <1>1, <1>2, <2>1, <2>5 DEF Retool
    <2>7. conn' \in [Peer -> {"open", "left", "closed"}]
      BY <2>1, CloseType DEF TypeOK
    <2>8. mu' \in MuState /\ crashed' \in BOOLEAN
      BY <1>1, <2>1 DEF MuState, TypeOK
    <2> QED
      BY <1>3, <2>4, <2>6, <2>7, <2>8 DEF WriterError, TypeOK, MuState
  <1>4. CASE \E q \in Peer : WriterElects(p, q)
    <2>1. PICK q \in Peer : WriterElects(p, q)
      BY <1>4
    <2>2. writer' \in [Peer -> WriterState]
      BY <1>1, <1>2, <2>1, WriteOutcomesType DEF WriterElects
    <2>3. session' \in SessionState
      BY <1>1, <2>1 DEF WriterElects, SessionState
    <2>4. mu' \in MuState /\ crashed' \in BOOLEAN
      BY <1>1, <2>1, UnlockType DEF WriterElects, TypeOK
    <2> QED
      BY <2>1, <2>2, <2>3, <2>4 DEF WriterElects, TypeOK, MuState
  <1>5. CASE Leave(p)
    BY <1>5 DEF Leave, TypeOK
  <1> QED
    BY <1>3, <1>4, <1>5 DEF WriterStep

\* The variables of a join session keep their types: no payload, id or member
\* that a handler, a restart or an election stores is outside its range.
THEOREM Typed == Spec => []TypeOK
  <1>1. Init => TypeOK
    <2> SUFFICES ASSUME Init PROVE TypeOK
      OBVIOUS
    <2>1. [p \in Peer |-> NoData] \in [Peer -> [Stored -> Payload \cup {"none"}]]
      BY DEF NoData
    <2>2. session \in SessionState
      BY <2>1 DEF Init, NewJoinSession, SessionState, State
    <2>3. /\ run \in RunState /\ reader \in [Peer -> ReaderState]
          /\ writer \in [Peer -> WriterState]
      BY DEF Init, RunState, Top, ReaderState, WriterState
    <2> QED
      BY <2>2, <2>3 DEF Init, TypeOK
  <1>2. TypeOK /\ [Next]_vars => TypeOK'
    <2>1. CASE UNCHANGED vars
      BY <2>1 DEF vars, TypeOK
    <2> QED
      BY <2>1, RunTyped, ReaderTyped, WriterTyped DEF Next
  <1> QED
    BY <1>1, <1>2, PTL DEF Spec

-----------------------------------------------------------------------------
(***************************************************************************)
(* RoundData is not inductive.  A message is admitted in one state and     *)
(* handled in another, and a broadcast fixes the state it ends in before   *)
(* it starts.  So the invariant also says what a message under way implies *)
(* about the session (Backed), that the data for the state a broadcast     *)
(* ends in is there already, and that nobody restarts the session while    *)
(* run broadcasts, since run holds the lock.                               *)
(***************************************************************************)

\* What every member has submitted when a message of a kind is admitted.
NeedsOf == [pk |-> {}, exp |-> {}, xor |-> {"exp"}, txin |-> {"exp", "xor"},
            sig |-> {"exp", "xor", "txin"}, vk |-> {}, pub |-> {}, nf |-> {"exp"}]

Present(s, K) == \A k \in K : All(s, k)

\* A message from this life of the session finds its needs still met.
Backed(s, m) ==
    /\ m.epoch <= s.epoch
    /\ m.epoch = s.epoch => Present(s, NeedsOf[m.kind])

UnderWay ==
    /\ run.at = "handle" => Backed(session, run.msg)
    /\ \A p \in Peer : reader[p].at = "send" => Backed(session, reader[p].msg)

Ahead == run.at = "send" => Present(session, Needs[run.state])

Evicting ==
    /\ run.at = "range" => session.state = "TxPublish"
    /\ run.at = "send" /\ run.then.at = "range" => run.state = "TxPublish"

\* The lock is held by whoever broadcasts; run may release it for another one
\* when it exits with an error.
Locked ==
    /\ run.at \in {"send", "range"} => mu = ByRun
    /\ run.at # "done" =>
         \A p \in Peer : /\ reader[p].at = "bcast" => mu = ByReader(p)
                         /\ writer[p].at = "elect" => mu = ByWriter(p)

RoundInv == RoundData /\ Ahead /\ UnderWay /\ Evicting /\ Locked

\* A step of the session within one life, and one into the next.
Grows ==
    /\ session'.epoch = session.epoch
    /\ session'.peers \subseteq session.peers
    /\ \A p \in session'.peers, k \in Stored :
         session'.data[p][k] = "none" => session.data[p][k] = "none"
Renewed == session'.epoch = session.epoch + 1 /\ session'.state = "KeyExchange"

\* The invariant of the runs is the presence of the data the state needs.
LEMMA RoundDataIsPresence ==
    /\ RoundData <=> Present(session, Needs[session.state])
    /\ RoundData' <=> Present(session', Needs[session'.state])
  BY DEF RoundData, Present, Missing, All

\* Data that is present stays so within one life.
LEMMA PresentKept ==
    ASSUME Grows, NEW K, K \subseteq Stored, Present(session, K)
    PROVE  Present(session', K)
  BY DEF Grows, Present, All

\* The data a state or a message needs is among the kinds the session stores.
LEMMA NeedsStored ==
    /\ \A k \in Kind : NeedsOf[k] \subseteq Stored
    /\ \A st \in State : Needs[st] \subseteq Stored
  BY DEF NeedsOf, Needs, Kind, Stored, Rounds, State

\* A message's data stays behind it within one life, and is moot in a later one.
LEMMA BackedKept ==
    ASSUME TypeOK, Grows \/ Renewed, NEW m \in Message, Backed(session, m)
    PROVE  Backed(session', m)
  <1>1. session.epoch \in Nat /\ m.epoch \in Nat /\ m.kind \in Kind
    BY MessageShape DEF TypeOK, SessionState
  <1>2. CASE Grows
    BY <1>1, <1>2, PresentKept, NeedsStored DEF Backed, Grows
  <1>3. CASE Renewed
    BY <1>1, <1>3 DEF Backed, Renewed
  <1> QED
    BY <1>2, <1>3

\* Messages under way stay backed when no new one is taken up.
LEMMA UnderWayKept ==
    ASSUME TypeOK, UnderWay, Grows \/ Renewed,
           run'.at = "handle" => run' = run,
           \A p \in Peer : reader'[p].at = "send" => reader'[p] = reader[p]
    PROVE  UnderWay'
  <1>1. run.at = "handle" => run.msg \in Message
    BY RunShape DEF TypeOK
  <1>2. \A p \in Peer : reader[p].at = "send" => reader[p].msg \in Message
    BY ReaderShape DEF TypeOK
  <1> QED
    BY <1>1, <1>2, BackedKept DEF UnderWay

\* A state that lasts keeps the data of its rounds.
LEMMA RoundDataKept ==
    ASSUME TypeOK, RoundData, Grows, session'.state = session.state
    PROVE  RoundData'
  <1>1. session.state \in State /\ Present(session, Needs[session.state])
    BY RoundDataIsPresence DEF TypeOK, SessionState
  <1>2. Present(session', Needs[session'.state])
    BY <1>1, PresentKept, NeedsStored
  <1> QED
    BY <1>2, RoundDataIsPresence

\* A restart needs no data.
LEMMA RoundDataRenewed ==
    ASSUME Renewed
    PROVE  RoundData'
  BY DEF Renewed, RoundData, Needs

\* The session's updates grow it.
LEMMA WithoutGrows ==
    ASSUME TypeOK, NEW P, session' = Without(P)
    PROVE  Grows /\ session'.state = session.state
  BY DEF TypeOK, SessionState, Without, Grows

\* A restart begins a new life in the key exchange.
LEMMA RestartedRenews ==
    ASSUME TypeOK, NEW P, session' = Restarted(P)
    PROVE  Renewed
  <1>1. session \in SessionState
    BY DEF TypeOK
  <1>2. Without(P) \in SessionState /\ Without(P).epoch = session.epoch
    BY <1>1, WithoutType DEF Without, SessionState
  <1> DEFINE w == Without(P)
             w1 == [w EXCEPT !.epoch = @ + 1]
             w2 == [w1 EXCEPT !.data = [p \in Peer |-> NoData], !.sigs = {}, !.inputs = {}, !.infos = 0]
             w3 == [w2 EXCEPT !.state = "KeyExchange"]
             w4 == [w3 EXCEPT !.replayed = FALSE, !.asked = FALSE]
  <1>3. Restarted(P) = w4
    BY DEF Restarted
  <1> HIDE DEF w
  <1>4. w1.epoch = session.epoch + 1 /\ "state" \in DOMAIN w1
    BY <1>2 DEF w, SessionState
  <1> HIDE DEF w1
  <1>5. w2.epoch = session.epoch + 1 /\ "state" \in DOMAIN w2
    BY <1>4
  <1> HIDE DEF w2
  <1>6. w3.epoch = session.epoch + 1 /\ w3.state = "KeyExchange"
    BY <1>5
  <1> HIDE DEF w3
  <1>7. w4.epoch = session.epoch + 1 /\ w4.state = "KeyExchange"
    BY <1>6
  <1> QED
    BY <1>3, <1>7 DEF Renewed

\* Storing a message's payload: no member, id or state changes, and nothing
\* that was stored is lost.
LEMMA WithDataGrows ==
    ASSUME TypeOK, NEW m \in Message, m.kind \in Stored
    PROVE  LET s == WithData(m)
           IN /\ s.epoch = session.epoch /\ s.peers = session.peers /\ s.state = session.state
              /\ \A p \in Peer, k \in Stored : s.data[p][k] = "none" => session.data[p][k] = "none"
  <1>1. m.peer \in Peer /\ m.val # "none"
    BY MessageShape
  <1> DEFINE d == [session.data EXCEPT ![m.peer][m.kind] = m.val]
  <1>2. \A p \in Peer, k \in Stored : d[p][k] = "none" => session.data[p][k] = "none"
    BY <1>1 DEF TypeOK, SessionState
  <1>3. WithData(m) = [session EXCEPT !.data = d]
    BY DEF WithData
  <1> HIDE DEF d
  <1> QED
    BY <1>2, <1>3 DEF TypeOK, SessionState

\* A handler ends well if the data it needs is there: it starts with the lock
\* free, so no other broadcast is under way.
LEMMA HandlerSettles ==
    ASSUME TypeOK, RoundInv, mu = Free, run.at # "done", Grows, RoundData', Ahead',
           run'.at \notin {"handle", "range"} \/ run' = run,
           run'.at = "range" => FALSE,
           run'.at = "send" => mu' = ByRun /\ run'.then.at # "range",
           UNCHANGED <<reader, writer>>
    PROVE  RoundInv'
  <1>1. \A p \in Peer : reader[p].at # "bcast" /\ writer[p].at # "elect"
    BY DEF RoundInv, Locked, Free, ByReader, ByWriter
  <1>2. Locked'
    BY <1>1 DEF Locked
  <1>3. UnderWay'
    BY UnderWayKept DEF RoundInv
  <1> QED
    BY <1>2, <1>3 DEF RoundInv, Evicting

\* What the two usual endings of a handler leave to show.
LEMMA ResumeSettles ==
    ASSUME TypeOK, RoundInv, mu = Free, run.at # "done",
           NEW s, NEW then \in {Top, Exit},
           Resume(s, then) \/ (\E who : Accuses(s, who, then)),
           session' = s => Grows /\ session'.state = session.state,
           UNCHANGED <<reader, writer>>
    PROVE  RoundInv'
  <1>1. Grows /\ session'.state = session.state /\ run'.at \in {"top", "exit", "push"}
    BY DEF Resume, Accuses, Push, Top, Exit
  <1>2. RoundData' /\ Ahead'
    BY <1>1, RoundDataKept DEF RoundInv, Ahead
  <1> QED
    BY <1>1, <1>2, HandlerSettles

\* A broadcast settles a handler if the data of the state it ends in is there.
LEMMA BroadcastSettles ==
    ASSUME TypeOK, RoundInv, mu = Free, run.at # "done",
           NEW s, NEW to, NEW state, NEW arm, NEW then \in {Top, Exit},
           Broadcast(s, to, state, arm, then),
           session' = s => Grows /\ Present(session', Needs[session'.state]) /\ Present(session', Needs[state]),
           UNCHANGED <<reader, writer>>
    PROVE  RoundInv'
  <1>1. Grows /\ Present(session', Needs[session'.state]) /\ Present(session', Needs[state])
    BY DEF Broadcast
  <1>2. run'.at = "send" /\ run'.state = state /\ run'.then = then /\ mu' = ByRun
    BY DEF Broadcast
  <1>3. RoundData' /\ Ahead'
    BY <1>1, <1>2, RoundDataIsPresence DEF Ahead
  <1> QED
    BY <1>1, <1>2, <1>3, HandlerSettles DEF Top, Exit

\* The handlers of run: a round is closed by the message that completes it,
\* which itself was admitted when the rounds before were complete.
LEMMA HandlersKeep ==
    ASSUME TypeOK, RoundInv,
           \/ KeyExchange \/ DcExpVector \/ DcXorVector \/ TxInputs \/ SignedTx
           \/ PublishResult \/ RevealSecret \/ MsgNotFound
    PROVE  RoundInv'
  <1> DEFINE m == run.msg
             s == WithData(m)
             Ext(t) == /\ t.epoch = session.epoch /\ t.peers = session.peers
                       /\ t.state = session.state
                       /\ \A p \in Peer, k \in Stored :
                            t.data[p][k] = "none" => session.data[p][k] = "none"
  <1>1. /\ run.at = "handle" /\ mu = Free
        /\ UNCHANGED <<reader, writer>>
    BY DEF KeyExchange, DcExpVector, DcXorVector, TxInputs, SignedTx, PublishResult,
           RevealSecret, MsgNotFound, Handling, RunAt
  <1>2. m \in Message /\ m.peer \in Peer /\ Backed(session, m)
    BY <1>1, RunShape, MessageShape DEF TypeOK, RoundInv, UnderWay
  <1>3. m.kind \in Stored => Ext(s)
    BY <1>2, WithDataGrows
  <1>4. m.kind \in Stored => s \in SessionState
    BY <1>2, WithDataType DEF TypeOK
  <1>5. session \in SessionState /\ session.peers \subseteq Peer
    BY DEF TypeOK, SessionState
  <1>6. \A x \in {"pk", "exp", "xor", "txin", "sig", "vk"} : x \in Stored
    BY DEF Stored, Rounds
  <1>7. Present(session, Needs[session.state])
    BY RoundDataIsPresence DEF RoundInv
  <1>8. ASSUME NEW t, Ext(t), session' = t
        PROVE  Grows /\ session'.state = session.state
    BY <1>5, <1>8 DEF Grows
  <1>9. ASSUME NEW t, Ext(t), NEW K, K \subseteq Stored, Present(session, K)
        PROVE  Present(t, K)
    BY <1>5, <1>9 DEF Present, All
  <1>10. session.state \in State /\ Needs[session.state] \subseteq Stored
    BY <1>5, NeedsStored DEF SessionState
  <1>11. Member(m) => Present(session, NeedsOf[m.kind])
    BY <1>2 DEF Member, Backed
  <1>12. Ext(session) /\ (\A P : session' = Without(P) => Grows /\ session'.state = session.state)
    BY WithoutGrows
  <1>13. \A t, u : /\ Ext(t) /\ u.epoch = t.epoch /\ u.peers = t.peers /\ u.state = t.state
                   /\ u.data = t.data
                   => Ext(u)
    OBVIOUS
  <1>30. CASE UNCHANGED <<session, mu, run>>
    <2>1. Grows /\ RoundData' /\ Ahead' /\ run'.at = "handle"
      BY <1>1, <1>8, <1>12, <1>30, RoundDataKept DEF RoundInv, Ahead
    <2> QED
      BY <1>1, <1>30, <2>1, HandlerSettles
  <1> HIDE DEF m, s, Ext
  <1>20. CASE KeyExchange
    <2> DEFINE t == [s EXCEPT !.infos = @ + 1]
    <2>1. m.kind \in Stored
      BY <1>6, <1>20 DEF KeyExchange, Handling, m
    <2>2. Ext(t)
      BY <1>3, <1>4, <1>13, <2>1 DEF SessionState
    <2>3. \/ Resume(session, Top)
          \/ Resume(Without({m.peer}), Top)
          \/ Broadcast(t, t.peers, "DcExponential", TRUE, Top)
          \/ Resume(t, Top)
      BY <1>20 DEF KeyExchange, m, s
    <2>4. Present(t, Needs[session.state]) /\ Present(t, Needs["DcExponential"])
      BY <1>7, <1>9, <1>10, <2>2 DEF Needs, Present
    <2> HIDE DEF t
    <2>5. CASE Resume(session, Top) \/ Resume(Without({m.peer}), Top) \/ Resume(t, Top)
      BY <1>1, <1>8, <1>12, <2>2, <2>5, ResumeSettles
    <2>6. CASE Broadcast(t, t.peers, "DcExponential", TRUE, Top)
      BY <1>1, <1>8, <2>2, <2>4, <2>6, BroadcastSettles
    <2> QED
      BY <2>3, <2>5, <2>6
  <1>21. CASE DcExpVector
    <2> DEFINE t == [s EXCEPT !.asked = TRUE]
    <2>1. m.kind \in Stored
      BY <1>6, <1>21 DEF DcExpVector, Handling, m
    <2>2. Ext(s) /\ Ext(t) /\ t.state = s.state
      BY <1>3, <1>4, <1>13, <2>1 DEF SessionState
    <2>3. \/ Resume(session, Top) \/ Resume(s, Top)
          \/ Accuses(session, {m.peer}, Exit) \/ Accuses(session, {m.peer}, Top)
          \/ All(s, "exp") /\ Broadcast(s, s.peers, "DcXor", TRUE, Top)
          \/ Broadcast(t, s.peers, s.state, FALSE, Top)
      BY <1>21, Accusing DEF DcExpVector, m, s
    <2>4. Present(s, Needs[session.state]) /\ Present(t, Needs[session.state])
      BY <1>7, <1>9, <1>10, <2>2
    <2> HIDE DEF t
    <2>5. CASE \/ Resume(session, Top) \/ Resume(s, Top)
               \/ Accuses(session, {m.peer}, Exit) \/ Accuses(session, {m.peer}, Top)
      BY <1>1, <1>8, <1>12, <2>2, <2>5, ResumeSettles
    <2>6. CASE All(s, "exp") /\ Broadcast(s, s.peers, "DcXor", TRUE, Top)
      <3>1. Present(s, Needs["DcXor"])
        BY <2>6 DEF Needs, Present
      <3> QED
        BY <1>1, <1>8, <2>2, <2>4, <2>6, <3>1, BroadcastSettles
    <2>7. CASE Broadcast(t, s.peers, s.state, FALSE, Top)
      <3>1. s.state = session.state
        BY <2>2 DEF Ext
      <3> QED
        BY <1>1, <1>8, <2>2, <2>4, <2>7, <3>1, BroadcastSettles
    <2> QED
      BY <2>3, <2>5, <2>6, <2>7
  <1>22. CASE DcXorVector
    <2> DEFINE t == [s EXCEPT !.state = "TxInput", !.armed = TRUE]
               pushed == [at |-> "push", who |-> {m.peer}, epoch |-> m.epoch, late |-> FALSE, then |-> Exit]
    <2>1. m.kind = "xor" /\ m.kind \in Stored
      BY <1>6, <1>22 DEF DcXorVector, Handling, m
    <2>2. Ext(s)
      BY <1>3, <2>1
    <2>3. \/ run' = pushed /\ UNCHANGED <<session, mu>>
          \/ Resume(session, Top) \/ Resume(s, Top)
          \/ Member(m) /\ All(s, "xor") /\ Broadcast(t, s.peers, "TxInput", FALSE, Top)
      BY <1>22 DEF DcXorVector, m, s
    <2>4. CASE run' = pushed /\ UNCHANGED <<session, mu>>
      <3>1. Grows /\ RoundData' /\ run'.at = "push"
        BY <1>8, <1>12, <2>4, RoundDataKept DEF RoundInv
      <3> QED
        BY <1>1, <3>1, HandlerSettles DEF Ahead
    <2>5. CASE Resume(session, Top) \/ Resume(s, Top)
      BY <1>1, <1>8, <1>12, <2>2, <2>5, ResumeSettles
    <2>6. CASE Member(m) /\ All(s, "xor") /\ Broadcast(t, s.peers, "TxInput", FALSE, Top)
      <3>1. t.state = "TxInput" /\ t.data = s.data /\ t.peers = s.peers /\ t.epoch = s.epoch
        BY <1>4, <2>1 DEF SessionState
      <3>2. Present(session, {"exp"})
        BY <1>11, <2>1, <2>6 DEF NeedsOf
      <3>3. Present(s, {"exp"})
        BY <1>6, <1>9, <2>2, <3>2
      <3>4. Present(t, Needs["TxInput"])
        BY <2>6, <3>1, <3>3 DEF Needs, Present, All
      <3>5. session' = t => Grows
        BY <1>5, <2>2, <3>1 DEF Grows, Ext
      <3> HIDE DEF t
      <3> QED
        BY <1>1, <2>6, <3>1, <3>4, <3>5, BroadcastSettles
    <2> QED
      BY <2>3, <2>4, <2>5, <2>6
  <1>23. CASE TxInputs
    <2> DEFINE t == [s EXCEPT !.inputs = s.peers]
    <2>1. m.kind = "txin" /\ m.kind \in Stored
      BY <1>6, <1>23 DEF TxInputs, Handling, m
    <2>2. Ext(s) /\ Ext(t) /\ t.data = s.data /\ t.peers = s.peers
      BY <1>3, <1>4, <1>13, <2>1 DEF SessionState
    <2>3. \/ Resume(session, Top) \/ Resume(s, Top)
          \/ Accuses(session, {m.peer}, Exit)
          \/ run' = Exit /\ UNCHANGED session
          \/ run' = Top /\ session' = s
          \/ Member(m) /\ All(s, "txin") /\ Broadcast(t, s.peers, "TxSign", TRUE, Top)
          \/ UNCHANGED <<session, mu, run>>
      BY <1>23, Accusing DEF TxInputs, m, s
    <2> HIDE DEF t
    <2>4. CASE Resume(session, Top) \/ Resume(s, Top) \/ Accuses(session, {m.peer}, Exit)
      BY <1>1, <1>8, <1>12, <2>2, <2>4, ResumeSettles
    <2>5. CASE run' = Exit /\ UNCHANGED session
      <3>1. Grows /\ RoundData' /\ run'.at = "exit"
        BY <1>8, <1>12, <2>5, RoundDataKept DEF RoundInv, Exit
      <3> QED
        BY <1>1, <3>1, HandlerSettles DEF Ahead
    <2>7. CASE run' = Top /\ session' = s
      <3>1. Grows /\ RoundData' /\ run'.at = "top"
        BY <1>8, <2>2, <2>7, RoundDataKept DEF RoundInv, Top
      <3> QED
        BY <1>1, <3>1, HandlerSettles DEF Ahead
    <2>6. CASE Member(m) /\ All(s, "txin") /\ Broadcast(t, s.peers, "TxSign", TRUE, Top)
      <3>1. Present(session, {"exp", "xor"})
        BY <1>11, <2>1, <2>6 DEF NeedsOf
      <3>2. Present(t, {"exp", "xor"})
        BY <1>6, <1>9, <2>2, <3>1
      <3>3. Present(t, Needs["TxSign"]) /\ Present(t, Needs[session.state])
        BY <1>7, <1>9, <1>10, <2>2, <2>6, <3>2 DEF Needs, Present, All
      <3> QED
        BY <1>1, <1>8, <2>2, <2>6, <3>3, BroadcastSettles
    <2> QED
      BY <1>30, <2>3, <2>4, <2>5, <2>6, <2>7
  <1>24. CASE SignedTx
    <2>3. PICK X : LET t == Joined(m, X) IN
          \/ Resume(session, Top) \/ Resume(t, Top)
          \/ Accuses(s, {m.peer}, Top)
          \/ run' = Exit /\ UNCHANGED session
          \/ Broadcast(t, t.peers, "Completed", FALSE, Exit)
          \/ /\ Member(m) /\ All(t, "sig")
             /\ \E q \in t.peers : Broadcast([t EXCEPT !.publisher = q], {q}, "TxPublish", TRUE, Top)
          \/ UNCHANGED <<session, mu, run>>
      BY <1>24, Accusing DEF SignedTx, m, s
    <2> DEFINE t == Joined(m, X)
               elected(q) == [t EXCEPT !.publisher = q]
    <2>1. m.kind = "sig" /\ m.kind \in Stored
      BY <1>6, <1>24 DEF SignedTx, Handling, m
    <2>2. /\ Ext(s) /\ Ext(t)
          /\ t.data = s.data /\ t.peers = s.peers
          /\ \A q : Ext(elected(q)) /\ elected(q).data = s.data /\ elected(q).peers = s.peers
      BY <1>3, <1>4, <1>13, <2>1 DEF SessionState, Joined, s
    <2> HIDE DEF t
    <2>4. CASE Resume(session, Top) \/ Resume(t, Top) \/ Accuses(s, {m.peer}, Top)
      BY <1>1, <1>8, <1>12, <2>2, <2>4, ResumeSettles
    <2>5. CASE run' = Exit /\ UNCHANGED session
      <3>1. Grows /\ RoundData' /\ run'.at = "exit"
        BY <1>8, <1>12, <2>5, RoundDataKept DEF RoundInv, Exit
      <3> QED
        BY <1>1, <3>1, HandlerSettles DEF Ahead
    <2>6. CASE Broadcast(t, t.peers, "Completed", FALSE, Exit)
      <3>1. Present(t, Needs["Completed"]) /\ Present(t, Needs[session.state])
        BY <1>7, <1>9, <1>10, <2>2 DEF Needs, Present
      <3> QED
        BY <1>1, <1>8, <2>2, <2>6, <3>1, BroadcastSettles
    <2>7. CASE /\ Member(m) /\ All(t, "sig")
               /\ \E q \in t.peers : Broadcast(elected(q), {q}, "TxPublish", TRUE, Top)
      <3>1. PICK q \in t.peers : Broadcast(elected(q), {q}, "TxPublish", TRUE, Top)
        BY <2>7
      <3>2. Present(session, {"exp", "xor", "txin"})
        BY <1>11, <2>1, <2>7 DEF NeedsOf
      <3>3. Present(elected(q), {"exp", "xor", "txin"}) /\ Present(elected(q), Needs[session.state])
        BY <1>6, <1>7, <1>9, <1>10, <2>2, <3>2
      <3>4. Present(elected(q), Needs["TxPublish"])
        BY <2>2, <2>7, <3>3 DEF Needs, Present, All
      <3> HIDE DEF elected
      <3> QED
        BY <1>1, <1>8, <2>2, <3>1, <3>3, <3>4, BroadcastSettles
    <2> QED
      BY <1>30, <2>3, <2>4, <2>5, <2>6, <2>7 DEF t
  <1>25. CASE PublishResult
    <2>1. Broadcast(session, session.peers, "Completed", FALSE, Exit)
      BY <1>25 DEF PublishResult
    <2>2. Present(session, Needs["Completed"])
      BY DEF Needs, Present
    <2> QED
      BY <1>1, <1>7, <1>8, <1>12, <2>1, <2>2, BroadcastSettles
  <1>26. CASE RevealSecret
    <2> DEFINE t == [s EXCEPT !.finding = FALSE]
               u == [t EXCEPT !.replayed = TRUE]
    <2>1. m.kind \in Stored
      BY <1>6, <1>26 DEF RevealSecret, Handling, m
    <2>2. Ext(t) /\ Ext(u)
      BY <1>3, <1>4, <1>13, <2>1 DEF SessionState
    <2>3. \/ Resume(session, Top) \/ Resume(t, Top) \/ Resume(u, Top)
          \/ \E who : Accuses(u, who, Top)
          \/ session' = s /\ run' = Exit
          \/ UNCHANGED <<session, mu, run>>
      BY <1>26, Accusing DEF RevealSecret, m, s
    <2> HIDE DEF t, u
    <2>4. CASE \/ Resume(session, Top) \/ Resume(t, Top) \/ Resume(u, Top)
               \/ \E who : Accuses(u, who, Top)
      BY <1>1, <1>8, <1>12, <2>2, <2>4, ResumeSettles
    <2>5. CASE session' = s /\ run' = Exit
      <3>1. Grows /\ RoundData' /\ run'.at = "exit"
        BY <1>3, <1>8, <2>1, <2>5, RoundDataKept DEF RoundInv, Exit
      <3> QED
        BY <1>1, <3>1, HandlerSettles DEF Ahead
    <2> QED
      BY <1>30, <2>3, <2>4, <2>5
  <1>27. CASE MsgNotFound
    <2> DEFINE t == [session EXCEPT !.asked = TRUE]
    <2>1. m.kind = "nf"
      BY <1>27 DEF MsgNotFound, Handling, m
    <2>2. Ext(t)
      BY <1>5, <1>12, <1>13 DEF SessionState
    <2>3. \/ Resume(session, Top)
          \/ Member(m) /\ Broadcast(t, session.peers, "RevealSecret", TRUE, Top)
      BY <1>27 DEF MsgNotFound, m
    <2> HIDE DEF t
    <2>4. CASE Resume(session, Top)
      BY <1>1, <1>8, <1>12, <2>4, ResumeSettles
    <2>5. CASE Member(m) /\ Broadcast(t, session.peers, "RevealSecret", TRUE, Top)
      <3>1. Present(session, Needs["RevealSecret"])
        BY <1>11, <2>1, <2>5 DEF NeedsOf, Needs
      <3>2. Present(t, Needs["RevealSecret"]) /\ Present(t, Needs[session.state])
        BY <1>6, <1>7, <1>9, <1>10, <2>2, <3>1 DEF Needs
      <3> QED
        BY <1>1, <1>8, <2>2, <2>5, <3>2, BroadcastSettles
    <2> QED
      BY <2>3, <2>4, <2>5
  <1> QED
    BY <1>20, <1>21, <1>22, <1>23, <1>24, <1>25, <1>26, <1>27

\* The other steps of run.
LEMMA RunKeeps ==
    ASSUME TypeOK, RoundInv, RunStep \/ Timeout
    PROVE  RoundInv'
  <1>1. /\ session \in SessionState /\ run \in RunState /\ session.peers \subseteq Peer
        /\ reader \in [Peer -> ReaderState] /\ writer \in [Peer -> WriterState]
    BY DEF TypeOK, SessionState
  <1>2. session' = session => Grows /\ session'.state = session.state
    BY <1>1 DEF Grows
  <1>3. \A P : session' = Without(P) => Grows /\ session'.state = session.state
    BY WithoutGrows
  <1>4. ASSUME Grows, session'.state = session.state, UNCHANGED <<reader, writer>>,
               run'.at \notin {"handle", "send"}
        PROVE  RoundData' /\ Ahead' /\ UnderWay'
    BY <1>4, RoundDataKept, UnderWayKept DEF RoundInv, Ahead
  <1>5. CASE Loop
    <2>1. run'.at \in {"done", "select"} /\ UNCHANGED <<session, mu, reader, writer>> /\ run.at = "top"
      BY <1>5 DEF Loop, RunAt
    <2>2. Locked' /\ Evicting'
      BY <2>1 DEF RoundInv, Locked, Evicting
    <2> QED
      BY <1>2, <1>4, <2>1, <2>2 DEF RoundInv
  <1>6. CASE \E p \in Peer : Receive(p)
    <2>1. PICK p \in Peer : Receive(p)
      BY <1>6
    <2>2. /\ UNCHANGED <<session, mu, writer>>
          /\ run.at = "select" /\ reader[p].at = "send"
          /\ run' = [at |-> "handle", msg |-> reader[p].msg]
          /\ reader' = [reader EXCEPT ![p] = [at |-> "read"]]
      BY <2>1 DEF Receive, RunAt, ReaderAt
    <2>3. \A q \in Peer : reader'[q].at \in {"bcast", "send"} => reader'[q] = reader[q]
      BY <1>1, <2>2
    <2>4. Locked' /\ Evicting' /\ Ahead'
      BY <2>2, <2>3 DEF RoundInv, Locked, Evicting, Ahead
    <2>5. RoundData' /\ UnderWay'
      BY <1>2, <2>2, <2>3, RoundDataKept DEF RoundInv, UnderWay
    <2> QED
      BY <2>4, <2>5 DEF RoundInv
  <1>7. CASE Timeout
    <2>1. /\ session' = [session EXCEPT !.armed = FALSE] /\ run'.at = "expired"
          /\ run.at = "select" /\ UNCHANGED <<mu, reader, writer>>
      BY <1>7 DEF Timeout, RunAt
    <2>2. Grows /\ session'.state = session.state
      BY <1>1, <2>1 DEF Grows, SessionState
    <2>3. Locked' /\ Evicting'
      BY <2>1 DEF RoundInv, Locked, Evicting
    <2> QED
      BY <1>4, <2>1, <2>2, <2>3 DEF RoundInv
  <1>8. CASE Expired
    <2>1. /\ run.at = "expired" /\ mu = Free /\ UNCHANGED <<reader, writer>>
          /\ \/ session' = Without(Silent) /\ run' = Top
             \/ /\ session.state = "TxPublish" /\ mu' = ByRun /\ session' = session
                /\ run' = [at |-> "range", rest |-> session.peers]
             \/ session' = session /\ run'.at \in {"dead", "top"}
      BY <1>8 DEF Expired, Resume, RunAt, Top
    <2>2. Grows /\ session'.state = session.state
      BY <1>2, <1>3, <2>1
    <2>3. \A p \in Peer : reader[p].at # "bcast" /\ writer[p].at # "elect"
      BY <2>1 DEF RoundInv, Locked, Free, ByReader, ByWriter
    <2>4. Locked'
      BY <2>1, <2>3 DEF Locked, Top
    <2>5. Evicting'
      BY <2>1 DEF Evicting, Top
    <2>6. run'.at \notin {"handle", "send"}
      BY <2>1 DEF Top
    <2> QED
      BY <1>4, <2>1, <2>2, <2>4, <2>5, <2>6 DEF RoundInv
  <1>9. CASE EvictPublisher
    <2> DEFINE s == Without({session.publisher})
               elected(q) == [s EXCEPT !.publisher = q]
    <2>1. /\ run.at = "range" /\ mu = ByRun /\ session.state = "TxPublish"
          /\ UNCHANGED <<reader, writer>>
      BY <1>9 DEF EvictPublisher, RunAt, RoundInv, Locked, Evicting
    <2>2. \/ session' = s /\ run' = [at |-> "done"]
          \/ \E q \in s.peers, later \in SUBSET (run.rest \ {session.publisher}) :
               Broadcast(elected(q), {q}, "TxPublish", TRUE, [at |-> "range", rest |-> later])
      BY <1>9 DEF EvictPublisher
    <2>3. CASE session' = s /\ run' = [at |-> "done"]
      <3>1. Grows /\ session'.state = session.state /\ run'.at = "done"
        BY <1>3, <2>3
      <3>2. Locked' /\ Evicting'
        BY <3>1 DEF Locked, Evicting
      <3> QED
        BY <1>4, <2>1, <3>1, <3>2 DEF RoundInv
    <2>4. CASE \E q \in s.peers, later \in SUBSET (run.rest \ {session.publisher}) :
                 Broadcast(elected(q), {q}, "TxPublish", TRUE, [at |-> "range", rest |-> later])
      <3>1. PICK q \in s.peers, later \in SUBSET (run.rest \ {session.publisher}) :
              Broadcast(elected(q), {q}, "TxPublish", TRUE, [at |-> "range", rest |-> later])
        BY <2>4
      <3>2. /\ session' = elected(q) /\ mu' = ByRun
            /\ run'.at = "send" /\ run'.state = "TxPublish"
        BY <3>1 DEF Broadcast
      <3>3. Grows /\ session'.state = session.state
        BY <1>1, <3>2 DEF Grows, Without, SessionState
      <3>4. RoundData' /\ UnderWay'
        BY <2>1, <3>2, <3>3, RoundDataKept, UnderWayKept DEF RoundInv
      <3>5. Ahead'
        BY <2>1, <3>2, <3>3, <3>4, RoundDataIsPresence DEF Ahead
      <3>6. Locked' /\ Evicting'
        BY <2>1, <3>2 DEF RoundInv, Locked, Evicting, ByRun, ByReader, ByWriter
      <3> QED
        BY <3>4, <3>5, <3>6 DEF RoundInv
    <2> QED
      BY <2>2, <2>3, <2>4
  <1>10. CASE RangeDone
    <2>1. /\ run.at = "range" /\ mu = ByRun /\ UNCHANGED <<session, reader, writer>>
          /\ run'.at \in {"dead", "top"}
      BY <1>10 DEF RangeDone, RunAt, RoundInv, Locked, Top
    <2>2. Locked' /\ Evicting'
      BY <2>1 DEF RoundInv, Locked, Evicting, ByRun, ByReader, ByWriter
    <2> QED
      BY <1>2, <1>4, <2>1, <2>2 DEF RoundInv
  <1>11. CASE \E q \in Peer : RunSend(q)
    <2>1. PICK q \in Peer : RunSend(q)
      BY <1>11
    <2>2. /\ run.at = "send" /\ run' = [run EXCEPT !.to = @ \ {q}]
          /\ UNCHANGED <<session, mu, reader>> /\ Send(q)
      BY <2>1 DEF RunSend, RunAt
    <2>3. run'.at = "send" /\ run'.state = run.state /\ run'.then = run.then
      BY <1>1, <2>2, RunShape
    <2>4. \A p \in Peer : writer'[p].at = "elect" => writer[p].at = "elect"
      BY <1>1, <2>2, SendKeepsElections
    <2>5. Locked' /\ Evicting' /\ Ahead'
      BY <2>2, <2>3, <2>4 DEF RoundInv, Locked, Evicting, Ahead
    <2>6. RoundData' /\ UnderWay'
      BY <1>2, <2>2, <2>3, RoundDataKept, UnderWayKept DEF RoundInv
    <2> QED
      BY <2>5, <2>6 DEF RoundInv
  <1>12. CASE RunSent
    <2>1. /\ run.at = "send" /\ mu = ByRun /\ run' = run.then /\ UNCHANGED <<reader, writer>>
          /\ session' = [session EXCEPT !.state = run.state, !.armed = @ \/ run.arm]
          /\ run.then.at = "range" => mu' = mu
      BY <1>12 DEF RunSent, RunAt, RoundInv, Locked
    <2>2. run.then.at \in {"top", "exit", "range"}
      BY <1>1, <2>1, RunShape DEF ThenState, Top, Exit
    <2>3. /\ session'.state = run.state /\ session'.data = session.data
          /\ session'.peers = session.peers /\ session'.epoch = session.epoch
      BY <1>1, <2>1 DEF SessionState
    <2>4. Grows
      BY <2>3 DEF Grows
    <2>5. Present(session, Needs[run.state])
      BY <2>1 DEF RoundInv, Ahead
    <2>6. RoundData'
      <3>1. Present(session', Needs[session'.state])
        BY <2>3, <2>5 DEF Present, All
      <3> QED
        BY <3>1, RoundDataIsPresence
    <2>7. UnderWay'
      BY <2>1, <2>2, <2>4, UnderWayKept DEF RoundInv
    <2>8. Locked'
      <3>1. \A p \in Peer : reader[p].at # "bcast" /\ writer[p].at # "elect"
        BY <2>1 DEF RoundInv, Locked, ByRun, ByReader, ByWriter
      <3> QED
        BY <2>1, <2>2, <3>1 DEF Locked
    <2>9. Evicting' /\ Ahead'
      BY <2>1, <2>2, <2>3 DEF RoundInv, Evicting, Ahead
    <2> QED
      BY <2>6, <2>7, <2>8, <2>9 DEF RoundInv
  <1>13. CASE RunPush
    <2>0. PICK out : RunPushed(out)
      BY <1>13, Pushing
    <2>1. /\ run.at = "push" /\ mu = Free /\ UNCHANGED <<reader, writer>>
          /\ \/ Resume(Without(out), run.then)
             \/ Broadcast(Restarted(out), session.peers \ out, "KeyExchange", FALSE, run.then)
      BY <2>0 DEF RunPushed
    <2>2. run.then \in {Top, Exit}
      BY <1>1, <2>1, RunShape
    <2>3. CASE Resume(Without(out), run.then)
      BY <1>3, <2>1, <2>2, <2>3, ResumeSettles
    <2>4. CASE Broadcast(Restarted(out), session.peers \ out, "KeyExchange", FALSE, run.then)
      <3>1. /\ Renewed /\ mu' = ByRun /\ run'.at = "send" /\ run'.state = "KeyExchange"
            /\ run'.then.at # "range"
        BY <2>2, <2>4, RestartedRenews DEF Broadcast, Top, Exit
      <3>2. Ahead'
        BY <3>1 DEF Ahead, Needs, Present
      <3>3. RoundData' /\ UnderWay'
        BY <2>1, <3>1, RoundDataRenewed, UnderWayKept DEF RoundInv
      <3>4. \A p \in Peer : reader[p].at # "bcast" /\ writer[p].at # "elect"
        BY <2>1 DEF RoundInv, Locked, Free, ByReader, ByWriter
      <3>5. Locked' /\ Evicting'
        BY <2>1, <3>1, <3>4 DEF Locked, Evicting
      <3> QED
        BY <3>2, <3>3, <3>5 DEF RoundInv
    <2> QED
      BY <2>1, <2>3, <2>4
  <1>14. CASE RunExit
    <2>1. run'.at = "done" /\ UNCHANGED <<session, reader, writer>>
      BY <1>14 DEF RunExit
    <2>2. Locked' /\ Evicting'
      BY <2>1 DEF Locked, Evicting
    <2> QED
      BY <1>2, <1>4, <2>1, <2>2 DEF RoundInv
  <1> QED
    BY <1>5, <1>6, <1>7, <1>8, <1>9, <1>10, <1>11, <1>12, <1>13, <1>14, HandlersKeep DEF RunStep

\* A step that leaves run where it is and the session in its state.
LEMMA OthersKeep ==
    ASSUME TypeOK, RoundInv, Grows, session'.state = session.state, run' = run
    PROVE  RoundData' /\ Ahead' /\ Evicting'
  <1>1. run.at = "send" => run.state \in State
    BY RunShape DEF TypeOK
  <1>2. Ahead'
    BY <1>1, PresentKept, NeedsStored DEF RoundInv, Ahead
  <1> QED
    BY <1>2, RoundDataKept DEF RoundInv, Evicting

\* A restart by another goroutine, which found the lock free.
LEMMA RestartKeeps ==
    ASSUME TypeOK, RoundInv, Renewed, mu = Free, run' = run
    PROVE  RoundData' /\ Ahead' /\ Evicting'
  <1>1. run.at \notin {"send", "range"}
    BY DEF RoundInv, Locked, Free, ByRun
  <1> QED
    BY <1>1, RoundDataRenewed DEF Ahead, Evicting

\* The readers, and the clients they read from.
LEMMA ReaderKeeps ==
    ASSUME TypeOK, RoundInv, NEW p \in Peer, ReaderStep(p) \/ ClientStep(p)
    PROVE  RoundInv'
  <1>1. /\ session \in SessionState /\ run \in RunState /\ session.peers \subseteq Peer
        /\ reader \in [Peer -> ReaderState] /\ writer \in [Peer -> WriterState]
    BY DEF TypeOK, SessionState
  <1>2. session' = session => Grows /\ session'.state = session.state
    BY <1>1 DEF Grows
  <1>3. \A P : session' = Without(P) => Grows /\ session'.state = session.state
    BY WithoutGrows
  <1>4. mu = Free => /\ run.at \notin {"send", "range"}
                     /\ run.at # "done" =>
                          \A q \in Peer : reader[q].at # "bcast" /\ writer[q].at # "elect"
    BY DEF RoundInv, Locked, Free, ByRun, ByReader, ByWriter
  <1>5. ASSUME NEW r, Rework(p, r)
        PROVE  /\ reader'[p] = r
               /\ \A q \in Peer \ {p} : reader'[q] = reader[q]
    BY <1>1, <1>5 DEF Rework
  <1>6. CASE Drop(p)
    <2>1. /\ session' = Without({p}) /\ Rework(p, [at |-> "read"]) /\ UNCHANGED <<mu, writer>>
          /\ run' = IF run.at = "send" THEN [run EXCEPT !.to = @ \ {p}] ELSE run
      BY <1>6 DEF Drop
    <2>2. Grows /\ session'.state = session.state
      BY <1>3, <2>1
    <2>3. /\ run'.at = run.at
          /\ run.at # "send" => run' = run
          /\ run.at = "send" => run'.state = run.state /\ run'.then = run.then
      BY <1>1, <2>1, RunShape
    <2>4. RoundData' /\ UnderWay'
      BY <1>5, <2>1, <2>2, <2>3, RoundDataKept, UnderWayKept DEF RoundInv
    <2>5. Ahead'
      <3>1. CASE run.at = "send"
        <4>1. run.state \in State /\ Present(session, Needs[run.state])
          BY <1>1, <3>1, RunShape DEF RoundInv, Ahead
        <4>2. Present(session', Needs[run.state])
          BY <2>2, <4>1, PresentKept, NeedsStored
        <4> QED
          BY <2>3, <3>1, <4>2 DEF Ahead
      <3>2. CASE run.at # "send"
        BY <2>3, <3>2 DEF Ahead
      <3> QED
        BY <3>1, <3>2
    <2>6. Locked' /\ Evicting'
      BY <1>5, <2>1, <2>2, <2>3 DEF RoundInv, Locked, Evicting
    <2> QED
      BY <2>4, <2>5, <2>6 DEF RoundInv
  <1>7. CASE ReaderPush(p)
    <2>0. PICK out : ReaderPushed(p, out)
      BY <1>7, Pushing
    <2>1. /\ mu = Free /\ UNCHANGED <<run, writer>>
          /\ \/ session' = Without(out) /\ Rework(p, [at |-> "read"]) /\ UNCHANGED mu
             \/ session' = Restarted(out) /\ ReaderSends(p, session.peers \ out, FALSE, "read")
      BY <2>0 DEF ReaderPushed
    <2>2. /\ reader'[p].at \in {"read", "bcast"}
          /\ reader'[p].at = "bcast" => mu' = ByReader(p)
          /\ \A q \in Peer \ {p} : reader'[q] = reader[q]
      BY <1>5, <2>1 DEF ReaderSends
    <2>3. (Grows /\ session'.state = session.state) \/ Renewed
      BY <1>3, <2>1, RestartedRenews
    <2>4. RoundData' /\ Ahead' /\ Evicting'
      BY <2>1, <2>3, OthersKeep, RestartKeeps
    <2>5. UnderWay'
      BY <2>1, <2>2, <2>3, UnderWayKept DEF RoundInv
    <2>6. Locked'
      BY <1>4, <2>1, <2>2 DEF Locked
    <2> QED
      BY <2>4, <2>5, <2>6 DEF RoundInv
  <1>8. CASE \E q \in Peer : ReaderSend(p, q)
    <2>1. PICK q \in Peer : ReaderSend(p, q)
      BY <1>8
    <2>2. /\ reader[p].at = "bcast" /\ Rework(p, [reader[p] EXCEPT !.to = @ \ {q}])
          /\ UNCHANGED <<session, mu, run>> /\ Send(q)
      BY <2>1 DEF ReaderSend, ReaderAt
    <2>3. reader'[p].at = "bcast" /\ \A x \in Peer \ {p} : reader'[x] = reader[x]
      BY <1>1, <1>5, <2>2, ReaderShape
    <2>4. \A x \in Peer : writer'[x].at = "elect" => writer[x].at = "elect"
      BY <1>1, <2>2, SendKeepsElections
    <2>5. RoundData' /\ Ahead' /\ Evicting'
      BY <1>2, <2>2, OthersKeep
    <2>6. UnderWay'
      BY <1>2, <2>2, <2>3, UnderWayKept DEF RoundInv
    <2>7. Locked'
      BY <2>2, <2>3, <2>4 DEF RoundInv, Locked
    <2> QED
      BY <2>5, <2>6, <2>7 DEF RoundInv
  <1>9. CASE ReaderSent(p)
    <2>1. /\ reader[p].at = "bcast" /\ Rework(p, [at |-> reader[p].then])
          /\ session' = [session EXCEPT !.armed = @ \/ reader[p].arm]
          /\ UNCHANGED <<run, writer>>
      BY <1>9 DEF ReaderSent, ReaderAt
    <2>2. reader'[p].at \in {"read", "closing"} /\ \A q \in Peer \ {p} : reader'[q] = reader[q]
      BY <1>1, <1>5, <2>1, ReaderShape
    <2>3. Grows /\ session'.state = session.state
      BY <1>1, <2>1 DEF Grows, SessionState
    <2>4. RoundData' /\ Ahead' /\ Evicting'
      BY <2>1, <2>3, OthersKeep
    <2>5. UnderWay'
      BY <2>1, <2>2, <2>3, UnderWayKept DEF RoundInv
    <2>6. Locked'
      <3>1. CASE run.at = "done"
        BY <2>1, <3>1 DEF Locked
      <3>2. CASE run.at # "done"
        <4>1. mu = ByReader(p)
          BY <2>1, <3>2 DEF RoundInv, Locked
        <4>2. /\ run.at \notin {"send", "range"}
              /\ \A q \in Peer : writer[q].at # "elect" /\ (reader[q].at = "bcast" => q = p)
          BY <3>2, <4>1 DEF RoundInv, Locked, ByRun, ByReader, ByWriter
        <4> QED
          BY <2>1, <2>2, <4>2 DEF Locked
      <3> QED
        BY <3>1, <3>2
    <2> QED
      BY <2>4, <2>5, <2>6 DEF RoundInv
  <1>10. CASE ReaderError(p)
    <2> DEFINE s == Without({p})
               elected(q) == [s EXCEPT !.publisher = q]
    <2>1. /\ mu = Free /\ UNCHANGED <<run, writer>>
          /\ \/ session' = s /\ Rework(p, [at |-> "closing"])
             \/ UNCHANGED session /\ Rework(p, [at |-> "dead"])
             \/ \E q \in s.peers : session' = elected(q) /\ ReaderSends(p, {q}, TRUE, "closing")
             \/ UNCHANGED session /\ Rework(p, [at |-> "closing"])
      BY <1>10 DEF ReaderError
    <2>2. /\ reader'[p].at \in {"closing", "dead", "bcast"}
          /\ reader'[p].at = "bcast" => mu' = ByReader(p)
          /\ \A q \in Peer \ {p} : reader'[q] = reader[q]
      <3> HIDE DEF s, elected
      <3>1. CASE \E x \in {"closing", "dead"} : Rework(p, [at |-> x])
        BY <1>5, <3>1
      <3>2. CASE \E q : ReaderSends(p, {q}, TRUE, "closing")
        BY <1>5, <3>2 DEF ReaderSends
      <3> QED
        BY <2>1, <3>1, <3>2
    <2>3. Grows /\ session'.state = session.state
      <3>1. \A q : session' = elected(q) => Grows /\ session'.state = session.state
        BY <1>1 DEF Grows, Without, SessionState
      <3> HIDE DEF elected
      <3> QED
        BY <1>2, <1>3, <2>1, <3>1
    <2>4. RoundData' /\ Ahead' /\ Evicting'
      BY <2>1, <2>3, OthersKeep
    <2>5. UnderWay'
      BY <2>1, <2>2, <2>3, UnderWayKept DEF RoundInv
    <2>6. Locked'
      BY <1>4, <2>1, <2>2 DEF Locked
    <2> QED
      BY <2>4, <2>5, <2>6 DEF RoundInv
  <1>11. CASE ReaderClose(p)
    <2>1. /\ \/ Rework(p, [at |-> "gone"]) /\ writer' = [writer EXCEPT ![p] = [at |-> "gone"]]
             \/ UNCHANGED <<reader, writer>>
          /\ UNCHANGED <<session, mu, run>>
      BY <1>11 DEF ReaderClose
    <2>2. \A q \in Peer : /\ reader'[q].at \in {"send", "bcast"} => reader'[q] = reader[q]
                          /\ writer'[q].at = "elect" => writer[q].at = "elect"
      BY <1>1, <1>5, <2>1
    <2>3. RoundData' /\ Ahead' /\ Evicting'
      BY <1>2, <2>1, OthersKeep
    <2>4. UnderWay'
      BY <1>2, <2>1, <2>2, UnderWayKept DEF RoundInv
    <2>5. Locked'
      BY <2>1, <2>2 DEF RoundInv, Locked
    <2> QED
      BY <2>3, <2>4, <2>5 DEF RoundInv
  <1>12. CASE ClientStep(p)
    <2>1. PICK k \in Kind, v \in Payload : Accept(p, k, v)
      BY <1>12 DEF ClientStep
    <2> DEFINE m == [kind |-> k, peer |-> p, epoch |-> session.epoch, val |-> Sized(k, v)]
    <2>2. /\ mu = Free /\ Expected(p, k) /\ UNCHANGED <<run, writer>>
          /\ \/ UNCHANGED <<reader, session>>
             \/ /\ \/ Rework(p, [at |-> "send", msg |-> m])
                   \/ Rework(p, [at |-> "drop"])
                   \/ Rework(p, [at |-> "push", epoch |-> session.epoch])
                /\ session' = [session EXCEPT !.finding = @ \/ (k = "nf" /\ v # "unparsable")]
      BY <2>1 DEF Accept
    <2>3. Grows /\ session'.state = session.state
      BY <1>1, <1>2, <2>2 DEF Grows, SessionState
    <2>4. RoundData' /\ Ahead' /\ Evicting'
      BY <2>2, <2>3, OthersKeep
    <2>5. \A q \in Peer \ {p} : reader'[q] = reader[q]
      BY <1>5, <2>2
    <2>6. /\ reader'[p].at = "bcast" => reader'[p] = reader[p]
          /\ reader'[p].at = "send" => reader'[p].msg = m \/ reader'[p] = reader[p]
      BY <1>5, <2>2
    <2>7. Locked'
      BY <1>4, <2>2, <2>5, <2>6 DEF Locked
    <2>8. Backed(session', m)
      <3>1. NeedsOf[k] \subseteq Needs[session.state]
        <4>1. CASE k \in {"pk", "exp", "pub", "vk"}
          BY <4>1 DEF NeedsOf
        <4>2. CASE k = "xor"
          BY <2>2, <4>2 DEF Expected, NeedsOf, Needs
        <4>3. CASE k = "txin"
          BY <2>2, <4>3 DEF Expected, NeedsOf, Needs
        <4>4. CASE k = "sig"
          BY <2>2, <4>4 DEF Expected, NeedsOf, Needs
        <4>5. CASE k = "nf"
          BY <2>2, <4>5 DEF Expected, NeedsOf, Needs
        <4> QED
          BY <4>1, <4>2, <4>3, <4>4, <4>5 DEF Kind, Stored, Rounds
      <3>2. Present(session, Needs[session.state])
        BY RoundDataIsPresence DEF RoundInv
      <3>3. Present(session, NeedsOf[k])
        BY <3>1, <3>2 DEF Present
      <3>4. NeedsOf[k] \subseteq Stored
        BY NeedsStored
      <3>5. Present(session', NeedsOf[k])
        BY <2>3, <3>3, <3>4, PresentKept
      <3>6. m.epoch = session.epoch /\ m.kind = k /\ session.epoch \in Nat
        BY <1>1 DEF SessionState
      <3> QED
        BY <2>3, <3>5, <3>6 DEF Backed, Grows
    <2>9. UnderWay'
      <3>1. run.at = "handle" => run.msg \in Message
        BY <1>1, RunShape
      <3>2. \A q \in Peer : reader[q].at = "send" => reader[q].msg \in Message
        BY <1>1, ReaderShape
      <3> HIDE DEF m
      <3> QED
        BY <2>2, <2>3, <2>5, <2>6, <2>8, <3>1, <3>2, BackedKept DEF RoundInv, UnderWay
    <2> QED
      BY <2>4, <2>7, <2>9 DEF RoundInv
  <1> QED
    BY <1>6, <1>7, <1>8, <1>9, <1>10, <1>11, <1>12 DEF ReaderStep

\* The writers, and a connection that is lost.
LEMMA WriterKeeps ==
    ASSUME TypeOK, RoundInv, NEW p \in Peer, WriterStep(p) \/ Leave(p)
    PROVE  RoundInv'
  <1>1. /\ session \in SessionState /\ session.peers \subseteq Peer
        /\ writer \in [Peer -> WriterState]
    BY DEF TypeOK, SessionState
  <1>2. session' = session => Grows /\ session'.state = session.state
    BY <1>1 DEF Grows
  <1>3. UNCHANGED <<run, reader>>
    BY DEF WriterStep, WriterError, WriterElects, Leave
  <1>4. mu = Free => /\ run.at \notin {"send", "range"}
                     /\ run.at # "done" =>
                          \A q \in Peer : reader[q].at # "bcast" /\ writer[q].at # "elect"
    BY DEF RoundInv, Locked, Free, ByRun, ByReader, ByWriter
  <1>5. ASSUME Grows, session'.state = session.state, Locked'
        PROVE  RoundInv'
    BY <1>3, <1>5, OthersKeep, UnderWayKept DEF RoundInv
  <1>6. CASE WriterError(p)
    <2> DEFINE s == Without({p})
               elected(q) == [s EXCEPT !.publisher = q]
    <2>1. /\ mu = Free
          /\ session' = s \/ UNCHANGED session \/ \E q \in s.peers : session' = elected(q)
          /\ \/ UNCHANGED writer \/ Retool(p, [at |-> "gone"]) \/ Retool(p, [at |-> "dead"])
             \/ mu' = ByWriter(p) /\ \E to : Retool(p, [at |-> "elect", to |-> to])
      BY <1>6 DEF WriterError
    <2>2. Grows /\ session'.state = session.state
      <3>1. \A q : session' = elected(q) => Grows /\ session'.state = session.state
        BY <1>1 DEF Grows, Without, SessionState
      <3>2. session' = s => Grows /\ session'.state = session.state
        BY WithoutGrows
      <3> HIDE DEF s, elected
      <3> QED
        BY <1>2, <2>1, <3>1, <3>2
    <2>3. /\ \A q \in Peer \ {p} : writer'[q] = writer[q]
          /\ writer'[p].at = "elect" => mu' = ByWriter(p) \/ writer'[p] = writer[p]
      BY <1>1, <2>1 DEF Retool
    <2>4. Locked'
      BY <1>3, <1>4, <2>1, <2>3 DEF Locked
    <2> QED
      BY <1>5, <2>2, <2>4
  <1>7. CASE \E q \in Peer : WriterElects(p, q)
    <2>1. PICK q \in Peer : WriterElects(p, q)
      BY <1>7
    <2>2. PICK o \in WriteOutcomes(q) :
            writer' = [writer EXCEPT ![q] = [at |-> o], ![p] = [at |-> "gone"]]
      BY <2>1 DEF WriterElects
    <2>3. writer[p].at = "elect" /\ session' = [session EXCEPT !.armed = TRUE]
      BY <2>1 DEF WriterElects, WriterAt
    <2>4. Grows /\ session'.state = session.state
      BY <1>1, <2>3 DEF Grows, SessionState
    <2>5. o # "elect"
      <3>1. CASE conn[q] = "open" \/ conn[q] = "left"
        BY <3>1 DEF WriteOutcomes
      <3>2. CASE ~(conn[q] = "open" \/ conn[q] = "left")
        BY <3>2 DEF WriteOutcomes
      <3> QED
        BY <3>1, <3>2
    <2>6. \A x \in Peer : writer'[x].at = "elect" => x # p /\ writer[x].at = "elect"
      BY <1>1, <2>2, <2>5
    <2>7. Locked'
      <3>1. CASE run.at = "done"
        BY <1>3, <3>1 DEF Locked
      <3>2. CASE run.at # "done"
        <4>1. mu = ByWriter(p)
          BY <2>3, <3>2 DEF RoundInv, Locked
        <4>2. /\ run.at \notin {"send", "range"}
              /\ \A x \in Peer : reader[x].at # "bcast" /\ (writer[x].at = "elect" => x = p)
          BY <3>2, <4>1 DEF RoundInv, Locked, ByRun, ByReader, ByWriter
        <4> QED
          BY <1>3, <2>6, <4>2 DEF Locked
      <3> QED
        BY <3>1, <3>2
    <2> QED
      BY <1>5, <2>4, <2>7
  <1>8. CASE Leave(p)
    <2>1. UNCHANGED <<session, mu, run, reader, writer>>
      BY <1>8 DEF Leave
    <2>2. Locked'
      BY <2>1 DEF RoundInv, Locked
    <2> QED
      BY <1>2, <1>5, <2>1, <2>2
  <1> QED
    BY <1>6, <1>7, <1>8 DEF WriterStep

\* In every reachable state the data of the current round is there, that of the
\* round a broadcast leads to is there already, and no message under way in the
\* session's channels outruns the data its handler builds on (RoundInv).
THEOREM RoundInvHolds == Spec => []RoundInv
  <1>1. Init => RoundInv
    <2> SUFFICES ASSUME Init PROVE RoundInv
      OBVIOUS
    <2>1. RoundData
      BY DEF Init, NewJoinSession, RoundData, Needs
    <2> QED
      BY <2>1 DEF Init, Top, RoundInv, Ahead, UnderWay, Evicting, Locked
  <1>2. TypeOK /\ RoundInv /\ [Next]_vars => RoundInv'
    <2>1. CASE UNCHANGED vars
      BY <2>1 DEF vars, RoundInv, RoundData, Missing, Ahead, UnderWay, Backed, Present, All,
                  Evicting, Locked
    <2> QED
      BY <2>1, RunKeeps, ReaderKeeps, WriterKeeps DEF Next
  <1> QED
    BY <1>1, <1>2, Typed, PTL DEF Spec

\* No state of the mix is entered, or remained in, without every remaining
\* member's data of the rounds it builds on, all sent in this life of the
\* session: whatever is duplicated, late, lost or removed in between.
THEOREM RoundDataHolds == Spec => []RoundData
  <1>1. RoundInv => RoundData
    BY DEF RoundInv
  <1> QED
    BY <1>1, RoundInvHolds, PTL

-----------------------------------------------------------------------------
(***************************************************************************)
(* The end of a session: the transaction handed out for publication is     *)
(* signed by the owners of all its inputs, and the member it is handed to  *)
(* is there.                                                               *)
(*                                                                         *)
(* The danger is a member that is removed after its inputs went into the   *)
(* transaction and before it signed.  Within one life of the session only  *)
(* a bad public key removes a single member, and a reader takes a peer's   *)
(* messages one by one: as long as a key of p is under way p has submitted *)
(* nothing else (KeyFirst), so it has no inputs either (InputsIn).         *)
(***************************************************************************)

Current(m) == m.epoch = session.epoch

\* A reader hands over messages of its own peer.
OwnMessages == \A p \in Peer : reader[p].at = "send" => reader[p].msg.peer = p

\* The key exchange of a life comes before anything else of that life.
Begun ==
    /\ session.state = "KeyExchange" =>
         session.inputs = {} /\ \A p \in Peer : session.data[p].exp = "none"
    /\ run.at = "send" /\ run.state = "KeyExchange" => session.state = "KeyExchange"
    /\ run.at = "handle" /\ run.msg.kind # "pk" /\ Current(run.msg) =>
         session.state # "KeyExchange"
    /\ \A p \in Peer :
         reader[p].at = "send" /\ reader[p].msg.kind # "pk" /\ Current(reader[p].msg) =>
           session.state # "KeyExchange"

\* p's reader is about to hand over a key, or to remove p for one.
KeyPending(p) ==
    \/ reader[p].at = "drop"
    \/ reader[p].at = "send" /\ reader[p].msg.kind = "pk" /\ Current(reader[p].msg)

KeyFirst ==
    /\ \A p \in Peer : session.data[p].exp # "none" => ~KeyPending(p)
    /\ run.at = "handle" /\ Current(run.msg) =>
         IF run.msg.kind = "pk" THEN session.data[run.msg.peer].exp = "none"
                                ELSE ~KeyPending(run.msg.peer)

\* The owner of an input is a member that mixes, or has signed, unless a signer
\* added the input; and there are inputs as soon as signatures are asked for.
InputsIn ==
    /\ session.peers = {} \/ session.inputs \subseteq session.peers \cup session.sigs \cup Added
    /\ \A p \in session.inputs \cap session.peers : session.data[p].exp # "none"
    /\ session.state \in {"TxSign", "TxPublish"} => session.inputs # {}
    /\ run.at = "send" /\ run.state \in {"TxSign", "TxPublish"} => session.inputs # {}
    /\ run.at = "handle" /\ run.msg.kind = "sig" /\ Current(run.msg) => session.inputs # {}
    /\ \A p \in Peer :
         reader[p].at = "send" /\ reader[p].msg.kind = "sig" /\ Current(reader[p].msg) =>
           session.inputs # {}

\* A member that has answered in the last round has signed, or run is on its
\* way to restart the session without it.
SigsIn ==
    \A p \in session.peers : session.data[p].sig # "none" =>
        p \in session.sigs \/ (run.at = "push" /\ p \in run.who /\ run.epoch = session.epoch)

\* The transaction is handed out, or being handed out.
Publishing ==
    session.state = "TxPublish" \/ (run.at = "send" /\ run.state = "TxPublish") =>
        /\ session.inputs \subseteq session.sigs \cup Added
        /\ session.peers = {} \/ session.publisher \in session.peers

PublishInv == OwnMessages /\ Begun /\ KeyFirst /\ InputsIn /\ SigsIn /\ Publishing

-----------------------------------------------------------------------------
(* Kinds of steps.                                                         *)

\* The session stays as it is in what PublishInv is about, but that run may
\* store a vector of the mix, or enter TxInput.
Kept ==
    /\ session'.peers = session.peers /\ session'.epoch = session.epoch
    /\ session'.inputs = session.inputs /\ session'.sigs = session.sigs
    /\ session'.publisher = session.publisher
    /\ \/ session'.state = session.state
       \/ session'.state = "TxInput" /\ session.state # "KeyExchange"
    /\ \A p \in Peer :
         /\ session'.data[p].sig = session.data[p].sig
         /\ \/ session'.data[p].exp = session.data[p].exp
            \/ /\ session'.data[p].exp # "none" /\ ~KeyPending(p)
               /\ session.state # "KeyExchange" /\ run'.at # "handle"

\* No new message is under way.
Quiet ==
    /\ run'.at = "handle" => run' = run
    /\ \A p \in Peer : reader'[p].at \in {"send", "drop"} => reader'[p] = reader[p]

\* Nor does run begin a broadcast, but to the state it is in or to one that
\* takes no inputs or signatures.
Steady ==
    /\ Quiet
    /\ run'.at = "send" => \/ run.at = "send" /\ run'.state = run.state
                           \/ run'.state \in {"DcExponential", "DcXor", "TxInput", "RevealSecret",
                                              "Completed", session.state}

\* The peers of P are removed, when that does no harm: in the key exchange,
\* because nobody is left, because they do not mix yet, or because another
\* member is to publish.
Leaves(P) ==
    /\ session'.peers = session.peers \ P
    /\ session'.epoch = session.epoch /\ session'.state = session.state
    /\ session'.data = session.data
    /\ session'.inputs = session.inputs /\ session'.sigs = session.sigs
    /\ session'.publisher = session.publisher \/ session'.publisher \in session'.peers
    /\ \/ session.state = "KeyExchange" /\ run'.at # "send"
       \/ session.peers \subseteq P
       \/ \A p \in P \cap session.peers : session.data[p].exp = "none"
       \/ session.state = "TxPublish" /\ session'.publisher \in session'.peers

\* A restart without the peers of P.
Restarts(P) ==
    /\ session'.peers = session.peers \ P
    /\ session'.epoch = session.epoch + 1 /\ session'.state = "KeyExchange"
    /\ session'.inputs = {} /\ session'.sigs = {}
    /\ \A p \in Peer, k \in Stored : session'.data[p][k] = "none"

\* pushMaliciousInfo restarts the session.
LEMMA RestartedRestarts ==
    ASSUME TypeOK, NEW P, session' = Restarted(P)
    PROVE  Restarts(P)
  <1>1. session \in SessionState
    BY DEF TypeOK
  <1>2. /\ session'.peers = session.peers \ P /\ session'.state = "KeyExchange"
        /\ session'.epoch = session.epoch + 1 /\ session'.inputs = {} /\ session'.sigs = {}
        /\ session'.data = [p \in Peer |-> NoData]
    BY <1>1, RestartedFields
  <1>3. \A p \in Peer, k \in Stored : session'.data[p][k] = "none"
    BY <1>2 DEF NoData
  <1> QED
    BY <1>2, <1>3 DEF Restarts

\* The pieces of a session that mixes, as facts.
LEMMA PublishTypes ==
    ASSUME TypeOK
    PROVE  /\ session \in SessionState /\ run \in RunState /\ session.peers \subseteq Peer
           /\ session.inputs \subseteq Peer \cup {NoPeer} /\ session.epoch \in Nat
           /\ session.state \in State /\ session.publisher \in Peer \cup {NoPeer}
           /\ reader \in [Peer -> ReaderState] /\ writer \in [Peer -> WriterState]
           /\ "exp" \in Stored /\ "sig" \in Stored
  BY DEF TypeOK, SessionState, Stored, Rounds

\* Inputs are only added by what a signer sends.
LEMMA AddedStays ==
    ASSUME \A p \in Peer : session'.data[p].sig = session.data[p].sig
    PROVE  Added' = Added
  BY DEF Added

\* Such a step keeps the invariant.
LEMMA KeptSteadily ==
    ASSUME TypeOK, PublishInv, Kept, Steady, run.at = "push" => run' = run
    PROVE  PublishInv'
  <1>1. OwnMessages'
    BY DEF PublishInv, OwnMessages, Steady, Quiet
  <1>2. Begun'
    BY DEF PublishInv, Begun, Kept, Steady, Quiet, Current
  <1>3. KeyFirst'
    <2>1. \A p \in Peer : KeyPending(p)' => KeyPending(p)
      BY DEF KeyPending, Kept, Steady, Quiet, Current
    <2>2. ASSUME NEW p \in Peer, session'.data[p].exp # "none"
          PROVE  ~KeyPending(p)'
      BY <2>1, <2>2 DEF PublishInv, KeyFirst, Kept
    <2>3. ASSUME run'.at = "handle", Current(run.msg)
          PROVE  /\ run' = run /\ run.msg.peer \in Peer
                 /\ session'.data[run.msg.peer].exp = session.data[run.msg.peer].exp
      <3>1. run' = run /\ run.at = "handle"
        BY <2>3 DEF Steady, Quiet
      <3>2. run.msg.peer \in Peer
        BY <3>1, PublishTypes, RunShape, MessageShape
      <3> QED
        BY <2>3, <3>1, <3>2 DEF Kept
    <2>4. run'.at = "handle" => (Current(run.msg)' <=> Current(run.msg)) /\ run' = run
      BY DEF Kept, Steady, Quiet, Current
    <2> HIDE DEF KeyPending
    <2> QED
      BY <2>1, <2>2, <2>3, <2>4 DEF PublishInv, KeyFirst
  <1>7. Added' = Added
    BY AddedStays DEF Kept
  <1>4. InputsIn'
    BY <1>7, PublishTypes DEF PublishInv, InputsIn, Kept, Steady, Quiet, Current
  <1>5. SigsIn'
    BY PublishTypes DEF PublishInv, SigsIn, Kept, Steady, Quiet
  <1>6. Publishing'
    BY <1>7 DEF PublishInv, Publishing, Kept, Steady, Quiet
  <1> QED
    BY <1>1, <1>2, <1>3, <1>4, <1>5, <1>6 DEF PublishInv

\* What is under way does not change in a step that neither adds a message nor
\* ends the life of the session.
LEMMA SteadyUnderWay ==
    ASSUME TypeOK, PublishInv, Quiet, session'.epoch = session.epoch,
           session'.state = session.state,
           run'.at = "send" /\ run'.state = "KeyExchange" => session.state = "KeyExchange",
           \A p \in Peer : session'.data[p].exp = session.data[p].exp
    PROVE  OwnMessages' /\ KeyFirst' /\ (session'.inputs = session.inputs => Begun')
  <1>1. OwnMessages'
    BY DEF PublishInv, OwnMessages, Quiet
  <1>2. session'.inputs = session.inputs => Begun'
    BY DEF PublishInv, Begun, Quiet, Current
  <1>3. KeyFirst'
    <2>1. \A p \in Peer : KeyPending(p)' => KeyPending(p)
      BY DEF KeyPending, Quiet, Current
    <2>2. run'.at = "handle" => run' = run /\ run.msg.peer \in Peer
      BY PublishTypes, RunShape, MessageShape DEF Quiet
    <2>3. run'.at = "handle" => (Current(run.msg)' <=> Current(run.msg))
      BY <2>2 DEF Current
    <2> HIDE DEF KeyPending
    <2> QED
      BY <2>1, <2>2, <2>3 DEF PublishInv, KeyFirst
  <1> QED
    BY <1>1, <1>2, <1>3

\* Removals keep the invariant.
LEMMA LeavesSteadily ==
    ASSUME TypeOK, RoundInv, PublishInv, NEW P, Leaves(P), Steady,
           run.at = "push" => run' = run \/ session.peers \subseteq P
    PROVE  PublishInv'
  <1>1. OwnMessages' /\ Begun' /\ KeyFirst'
    <2>1. /\ run'.at = "send" /\ run'.state = "KeyExchange" => session.state = "KeyExchange"
          /\ \A p \in Peer : session'.data[p].exp = session.data[p].exp
      BY DEF PublishInv, Begun, Leaves, Steady
    <2> QED
      BY <2>1, SteadyUnderWay DEF Leaves, Steady
  <1>2. /\ session.state = "TxPublish" => Present(session, Needs["TxPublish"])
        /\ run.at = "send" /\ run.state = "TxPublish" => Present(session, Needs["TxPublish"])
    BY RoundDataIsPresence DEF RoundInv, Ahead
  <1>3. /\ session.state = "TxPublish" => \A p \in session.peers : session.data[p].exp # "none"
        /\ run.at = "send" /\ run.state = "TxPublish" =>
             \A p \in session.peers : session.data[p].exp # "none"
    BY <1>2 DEF Needs, Present, All
  <1>7. Added' = Added
    BY AddedStays DEF Leaves
  <1>4. InputsIn'
    <2>1. session'.peers = {} \/ session'.inputs \subseteq session'.peers \cup session'.sigs \cup Added'
      <3>1. CASE session.state = "KeyExchange"
        BY <3>1 DEF PublishInv, Begun, Leaves
      <3>2. CASE session.peers \subseteq P
        BY <3>2 DEF Leaves
      <3>3. CASE \A p \in P \cap session.peers : session.data[p].exp = "none"
        BY <1>7, <3>3 DEF PublishInv, InputsIn, Leaves
      <3>4. CASE session.state = "TxPublish"
        BY <1>7, <3>4 DEF PublishInv, Publishing, Leaves
      <3> QED
        BY <3>1, <3>2, <3>3, <3>4 DEF Leaves
    <2>2. \A p \in session'.inputs \cap session'.peers : session'.data[p].exp # "none"
      BY DEF PublishInv, InputsIn, Leaves
    <2>3. session'.state \in {"TxSign", "TxPublish"} => session'.inputs # {}
      BY DEF PublishInv, InputsIn, Leaves
    <2>4. run'.at = "send" /\ run'.state \in {"TxSign", "TxPublish"} => session'.inputs # {}
      BY DEF PublishInv, InputsIn, Leaves, Steady, Quiet
    <2> QED
      BY <2>1, <2>2, <2>3, <2>4 DEF PublishInv, InputsIn, Leaves, Steady, Quiet, Current
  <1>5. SigsIn'
    BY DEF PublishInv, SigsIn, Leaves
  <1>6. Publishing'
    <2> SUFFICES ASSUME session'.state = "TxPublish" \/ (run'.at = "send" /\ run'.state = "TxPublish")
                 PROVE  /\ session'.inputs \subseteq session'.sigs \cup Added'
                        /\ session'.peers = {} \/ session'.publisher \in session'.peers
      BY DEF Publishing
    <2>1. session.state = "TxPublish" \/ (run.at = "send" /\ run.state = "TxPublish" /\ run'.at = "send")
      BY DEF Leaves, Steady, Quiet
    <2>2. /\ session.inputs \subseteq session.sigs \cup Added
          /\ session.peers = {} \/ session.publisher \in session.peers
          /\ \A p \in session.peers : session.data[p].exp # "none"
      BY <1>3, <2>1 DEF PublishInv, Publishing
    <2>3. CASE session.peers \subseteq P
      BY <1>7, <2>2, <2>3 DEF Leaves
    <2>4. CASE \A p \in P \cap session.peers : session.data[p].exp = "none"
      BY <1>7, <2>2, <2>4 DEF Leaves
    <2>5. CASE session'.publisher \in session'.peers
      BY <1>7, <2>2, <2>5 DEF Leaves
    <2> QED
      BY <2>1, <2>3, <2>4, <2>5 DEF Leaves
  <1> QED
    BY <1>1, <1>4, <1>5, <1>6 DEF PublishInv

\* Restarts keep it: nothing under way is of the new life.
LEMMA RestartsAfresh ==
    ASSUME TypeOK, RoundInv, PublishInv, NEW P, Restarts(P),
           run'.at = "handle" => run' = run,
           run'.at = "send" => run'.state = "KeyExchange",
           \A p \in Peer : reader'[p].at \in {"send", "drop"} => reader'[p] = reader[p]
    PROVE  PublishInv'
  <1>1. /\ run.at = "handle" => run.msg.epoch \in Nat /\ run.msg.epoch <= session.epoch
        /\ \A p \in Peer : reader[p].at = "send" =>
             reader[p].msg.epoch \in Nat /\ reader[p].msg.epoch <= session.epoch
    BY PublishTypes, RunShape, ReaderShape, MessageShape DEF RoundInv, UnderWay, Backed
  <1>2. /\ run'.at = "handle" => ~Current(run.msg)'
        /\ \A p \in Peer : reader'[p].at = "send" => ~Current(reader[p].msg)'
    BY <1>1, PublishTypes DEF Restarts, Current
  <1>3. \A p \in Peer : session'.data[p].exp = "none" /\ session'.data[p].sig = "none"
    BY PublishTypes DEF Restarts
  <1>4. OwnMessages'
    BY DEF PublishInv, OwnMessages
  <1>5. Begun'
    BY <1>2, <1>3 DEF Begun, Restarts
  <1>6. KeyFirst'
    BY <1>2, <1>3 DEF KeyFirst
  <1>7. InputsIn'
    BY <1>2 DEF InputsIn, Restarts
  <1>8. SigsIn'
    BY <1>3, PublishTypes DEF SigsIn, Restarts
  <1>9. Publishing'
    BY DEF Publishing, Restarts
  <1> QED
    BY <1>4, <1>5, <1>6, <1>7, <1>8, <1>9 DEF PublishInv

-----------------------------------------------------------------------------
(* The steps.                                                              *)

\* A handler of run ends in one of three ways, all steady.
LEMMA HandlerEnds ==
    ASSUME UNCHANGED reader, NEW s, NEW then \in {Top, Exit}
    PROVE  /\ Resume(s, then) => session' = s /\ Steady
           /\ \A who : Accuses(s, who, then) =>
                /\ session' = s /\ Steady
                /\ run'.at = "push" /\ run'.who = who /\ run'.epoch = s.epoch /\ run'.then = then
           /\ \A to, state, arm : Broadcast(s, to, state, arm, then) =>
                session' = s /\ run'.at = "send" /\ run'.state = state
  BY DEF Resume, Accuses, Push, Broadcast, Steady, Quiet, Top, Exit

\* The handlers of the two vectors and the keys only store what they are given,
\* or remove the sender of a bad key.
LEMMA MixHandlersPublish ==
    ASSUME TypeOK, RoundInv, PublishInv,
           KeyExchange \/ DcExpVector \/ DcXorVector \/ RevealSecret \/ MsgNotFound \/ PublishResult
    PROVE  PublishInv'
  <1> DEFINE m == run.msg
             s == WithData(m)
  <1>1. run.at = "handle" /\ UNCHANGED reader
    BY DEF KeyExchange, DcExpVector, DcXorVector, RevealSecret, MsgNotFound, PublishResult,
           Handling, RunAt
  <1>2. m \in Message /\ m.peer \in Peer /\ m.val # "none" /\ session \in SessionState
    BY <1>1, PublishTypes, RunShape, MessageShape
  <1>3. \A k \in {"pk", "exp", "xor", "vk"} : k \in Stored /\ k # "sig"
    BY DEF Stored, Rounds
  <1>4. m.kind \in Stored =>
           /\ s.peers = session.peers /\ s.state = session.state /\ s.epoch = session.epoch
           /\ s.inputs = session.inputs /\ s.sigs = session.sigs
           /\ s.publisher = session.publisher
           /\ \A p \in Peer, k \in Stored :
                s.data[p][k] = IF p = m.peer /\ k = m.kind THEN m.val ELSE session.data[p][k]
           /\ s \in SessionState
    BY <1>2, WithDataFields, WithDataType
  <1>5. Member(m) => Current(m) /\ m.peer \in session.peers
    BY DEF Member, Current
  <1>6. session' = session => Kept
    BY DEF Kept
  <1> HIDE DEF m, s
  <1>10. CASE KeyExchange
    <2> DEFINE t == [s EXCEPT !.infos = @ + 1]
    <2>1. m.kind = "pk" /\ m.kind \in Stored /\ "exp" \in Stored /\ "sig" \in Stored
      BY <1>3, <1>10, PublishTypes DEF KeyExchange, Handling, m
    <2>2. \/ Resume(session, Top)
          \/ Member(m) /\ Resume(Without({m.peer}), Top)
          \/ Broadcast(t, t.peers, "DcExponential", TRUE, Top)
          \/ Resume(t, Top)
      BY <1>10 DEF KeyExchange, m, s
    <2>3. session' = t => Kept
      BY <1>4, <2>1 DEF Kept, SessionState
    <2> HIDE DEF t
    <2>4. CASE Resume(session, Top) \/ Resume(t, Top)
      BY <1>1, <1>6, <2>3, <2>4, HandlerEnds, KeptSteadily
    <2>5. CASE Member(m) /\ Resume(Without({m.peer}), Top)
      <3>1. session.data[m.peer].exp = "none"
        BY <1>1, <1>5, <2>1, <2>5 DEF PublishInv, KeyFirst, m
      <3>2. session' = Without({m.peer}) /\ Steady
        BY <1>1, <2>5, HandlerEnds
      <3>3. Leaves({m.peer})
        BY <1>2, <3>1, <3>2, WithoutFields DEF Leaves
      <3> QED
        BY <1>1, <3>2, <3>3, LeavesSteadily
    <2>6. CASE Broadcast(t, t.peers, "DcExponential", TRUE, Top)
      <3>1. session' = t /\ Steady
        BY <1>1, <2>6, HandlerEnds DEF Steady, Quiet
      <3> QED
        BY <1>1, <2>3, <3>1, KeptSteadily
    <2> QED
      BY <2>2, <2>4, <2>5, <2>6
  <1>11. CASE DcExpVector
    <2> DEFINE t == [s EXCEPT !.asked = TRUE]
    <2>1. m.kind = "exp" /\ m.kind \in Stored /\ "exp" \in Stored /\ "sig" \in Stored
      BY <1>3, <1>11, PublishTypes DEF DcExpVector, Handling, m
    <2>2. \/ Resume(session, Top)
          \/ Accuses(session, {m.peer}, Exit) \/ Accuses(session, {m.peer}, Top)
          \/ Member(m) /\ Resume(s, Top)
          \/ Member(m) /\ Broadcast(s, s.peers, "DcXor", TRUE, Top)
          \/ Member(m) /\ Broadcast(t, s.peers, s.state, FALSE, Top)
      BY <1>11, Accusing DEF DcExpVector, m, s
    <2>3. Member(m) => ~KeyPending(m.peer) /\ session.state # "KeyExchange"
      BY <1>1, <1>5, <2>1 DEF PublishInv, KeyFirst, Begun, m
    <2>4. Member(m) /\ run'.at # "handle" /\ (session' = s \/ session' = t) => Kept
      BY <1>2, <1>4, <2>1, <2>3 DEF Kept, SessionState
    <2> HIDE DEF t
    <2>5. CASE \/ Resume(session, Top)
               \/ Accuses(session, {m.peer}, Exit) \/ Accuses(session, {m.peer}, Top)
      BY <1>1, <1>6, <2>5, HandlerEnds, KeptSteadily
    <2>6. CASE Member(m) /\ Resume(s, Top)
      <3>1. session' = s /\ Steady /\ run'.at # "handle"
        BY <1>1, <2>6, HandlerEnds DEF Resume, Top
      <3> QED
        BY <1>1, <2>4, <2>6, <3>1, KeptSteadily
    <2>7. CASE \/ Member(m) /\ Broadcast(s, s.peers, "DcXor", TRUE, Top)
               \/ Member(m) /\ Broadcast(t, s.peers, s.state, FALSE, Top)
      <3>1. s.state = session.state
        BY <1>4, <2>1
      <3>2. /\ session' = s \/ session' = t
            /\ run'.at = "send" /\ run'.state \in {"DcXor", session.state}
        BY <2>7, <3>1, HandlerEnds DEF Broadcast
      <3>3. Steady
        BY <1>1, <3>2 DEF Steady, Quiet
      <3> QED
        BY <1>1, <2>4, <2>7, <3>2, <3>3, KeptSteadily
    <2> QED
      BY <2>2, <2>5, <2>6, <2>7
  <1>12. CASE DcXorVector
    <2> DEFINE t == [s EXCEPT !.state = "TxInput", !.armed = TRUE]
               pushed == [at |-> "push", who |-> {m.peer}, epoch |-> m.epoch, late |-> FALSE, then |-> Exit]
    <2>1. m.kind = "xor" /\ m.kind \in Stored /\ "exp" \in Stored /\ "sig" \in Stored
      BY <1>3, <1>12, PublishTypes DEF DcXorVector, Handling, m
    <2>2. \/ run' = pushed /\ UNCHANGED <<session, mu>>
          \/ Resume(session, Top)
          \/ Member(m) /\ Resume(s, Top)
          \/ Member(m) /\ Broadcast(t, s.peers, "TxInput", FALSE, Top)
      BY <1>12 DEF DcXorVector, m, s
    <2>3. Member(m) => session.state # "KeyExchange"
      BY <1>1, <1>5, <2>1 DEF PublishInv, Begun, m
    <2>4. session' = s => Kept
      BY <1>4, <2>1 DEF Kept
    <2>5. Member(m) /\ session' = t => Kept
      BY <1>4, <2>1, <2>3 DEF Kept, SessionState
    <2> HIDE DEF t
    <2>6. CASE run' = pushed /\ UNCHANGED <<session, mu>>
      <3>1. Steady
        BY <1>1, <2>6 DEF Steady, Quiet
      <3> QED
        BY <1>1, <1>6, <2>6, <3>1, KeptSteadily
    <2>7. CASE Resume(session, Top) \/ Resume(s, Top)
      BY <1>1, <1>6, <2>4, <2>7, HandlerEnds, KeptSteadily
    <2>8. CASE Member(m) /\ Broadcast(t, s.peers, "TxInput", FALSE, Top)
      <3>1. session' = t /\ Steady
        BY <1>1, <2>8, HandlerEnds DEF Steady, Quiet
      <3> QED
        BY <1>1, <2>5, <2>8, <3>1, KeptSteadily
    <2> QED
      BY <2>2, <2>6, <2>7, <2>8
  <1>13. CASE RevealSecret
    <2> DEFINE t == [s EXCEPT !.finding = FALSE]
               u == [t EXCEPT !.replayed = TRUE]
    <2>1. m.kind = "vk" /\ m.kind \in Stored /\ "exp" \in Stored /\ "sig" \in Stored
      BY <1>3, <1>13, PublishTypes DEF RevealSecret, Handling, m
    <2>2. \/ Resume(session, Top) \/ Resume(t, Top) \/ Resume(u, Top)
          \/ \E who : Accuses(u, who, Top)
          \/ session' = s /\ run' = Exit
          \/ UNCHANGED <<session, run, mu>>
      BY <1>13, Accusing DEF RevealSecret, m, s
    <2>5. CASE session' = s /\ run' = Exit
      <3>1. Steady
        BY <1>1, <2>5 DEF Steady, Quiet, Exit
      <3>2. Kept
        BY <1>4, <2>1, <2>5 DEF Kept
      <3> QED
        BY <1>1, <3>1, <3>2, KeptSteadily
    <2>3. session' = t \/ session' = u => Kept
      <3> DEFINE same(x) ==
            /\ x.peers = session.peers /\ x.state = session.state /\ x.epoch = session.epoch
            /\ x.inputs = session.inputs /\ x.sigs = session.sigs
            /\ x.publisher = session.publisher /\ x.data = s.data
      <3>1. same(t) /\ t \in SessionState
        BY <1>4, <2>1 DEF SessionState
      <3> HIDE DEF t
      <3>2. same(u)
        BY <3>1 DEF SessionState
      <3>3. \A p \in Peer : /\ s.data[p].exp = session.data[p].exp
                            /\ s.data[p].sig = session.data[p].sig
        BY <1>4, <2>1
      <3> HIDE DEF u
      <3> QED
        BY <3>1, <3>2, <3>3 DEF Kept
    <2> HIDE DEF t, u
    <2>4. CASE UNCHANGED <<session, run, mu>>
      <3>1. Steady
        BY <1>1, <2>4 DEF Steady, Quiet
      <3> QED
        BY <1>6, <2>4, <3>1, KeptSteadily
    <2> QED
      BY <1>1, <1>6, <2>2, <2>3, <2>4, <2>5, HandlerEnds, KeptSteadily
  <1>14. CASE MsgNotFound
    <2> DEFINE t == [session EXCEPT !.asked = TRUE]
    <2>1. \/ Resume(session, Top)
          \/ Broadcast(t, session.peers, "RevealSecret", TRUE, Top)
      BY <1>14 DEF MsgNotFound, m
    <2>2. session' = t => Kept
      BY <1>2 DEF Kept, SessionState
    <2> HIDE DEF t
    <2>3. CASE Broadcast(t, session.peers, "RevealSecret", TRUE, Top)
      <3>1. session' = t /\ Steady
        BY <1>1, <2>3, HandlerEnds DEF Steady, Quiet
      <3> QED
        BY <1>1, <2>2, <3>1, KeptSteadily
    <2> QED
      BY <1>1, <1>6, <2>1, <2>3, HandlerEnds, KeptSteadily
  <1>15. CASE PublishResult
    <2>1. Broadcast(session, session.peers, "Completed", FALSE, Exit)
      BY <1>15 DEF PublishResult
    <2>2. session' = session /\ Steady
      BY <1>1, <2>1, HandlerEnds DEF Steady, Quiet
    <2> QED
      BY <1>1, <1>6, <2>2, KeptSteadily
  <1> QED
    BY <1>10, <1>11, <1>12, <1>13, <1>14, <1>15

\* Inputs are collected from members that mix, and a signature is counted for
\* the peer that sent it: when the last member has signed, every input is.
LEMMA TxHandlersPublish ==
    ASSUME TypeOK, RoundInv, PublishInv, TxInputs \/ SignedTx
    PROVE  PublishInv'
  <1> DEFINE m == run.msg
             s == WithData(m)
  <1>1. run.at = "handle" /\ UNCHANGED reader
    BY DEF TxInputs, SignedTx, Handling, RunAt
  <1>2. /\ m \in Message /\ m.peer \in Peer /\ m.val # "none" /\ session \in SessionState
        /\ session.peers \subseteq Peer
    BY <1>1, PublishTypes, RunShape, MessageShape
  <1>3. "txin" \in Stored /\ "sig" \in Stored /\ "exp" \in Stored
    BY DEF Stored, Rounds
  <1>4. m.kind \in Stored =>
           /\ s.peers = session.peers /\ s.state = session.state /\ s.epoch = session.epoch
           /\ s.inputs = session.inputs /\ s.sigs = session.sigs
           /\ s.publisher = session.publisher
           /\ \A p \in Peer, k \in Stored :
                s.data[p][k] = IF p = m.peer /\ k = m.kind THEN m.val ELSE session.data[p][k]
           /\ s \in SessionState
    BY <1>2, WithDataFields, WithDataType
  <1>5. Member(m) => Current(m) /\ m.peer \in session.peers
    BY DEF Member, Current
  <1>6. session' = session => Kept
    BY DEF Kept
  <1>7. Member(m) => Present(session, NeedsOf[m.kind])
    BY <1>1 DEF Member, RoundInv, UnderWay, Backed, m
  <1>8. CASE UNCHANGED <<session, run>>
    <2>1. Steady
      BY <1>1, <1>8 DEF Steady, Quiet
    <2> QED
      BY <1>1, <1>6, <1>8, <2>1, KeptSteadily
  <1> HIDE DEF m, s
  <1>10. CASE TxInputs
    <2> DEFINE t == [s EXCEPT !.inputs = s.peers]
    <2>1. m.kind = "txin" /\ m.kind \in Stored
      BY <1>3, <1>10 DEF TxInputs, Handling, m
    <2>2. \/ Resume(session, Top) \/ Resume(s, Top)
          \/ Accuses(session, {m.peer}, Exit)
          \/ run' = Exit /\ UNCHANGED session
          \/ run' = Top /\ session' = s
          \/ Member(m) /\ Broadcast(t, s.peers, "TxSign", TRUE, Top)
          \/ UNCHANGED <<session, run>>
      BY <1>10, Accusing DEF TxInputs, m, s
    <2>3. session' = s => Kept
      BY <1>3, <1>4, <2>1 DEF Kept
    <2>4. /\ t.peers = session.peers /\ t.state = session.state /\ t.epoch = session.epoch
          /\ t.inputs = session.peers /\ t.sigs = session.sigs
          /\ t.publisher = session.publisher
          /\ \A p \in Peer : /\ t.data[p].exp = session.data[p].exp
                            /\ t.data[p].sig = session.data[p].sig
      BY <1>3, <1>4, <2>1 DEF SessionState
    <2> HIDE DEF t
    <2>5. CASE Resume(session, Top) \/ Resume(s, Top) \/ Accuses(session, {m.peer}, Exit)
      BY <1>1, <1>6, <2>3, <2>5, HandlerEnds, KeptSteadily
    <2>6. CASE (run' = Exit /\ UNCHANGED session) \/ (run' = Top /\ session' = s)
      <3>1. Steady
        BY <1>1, <2>6 DEF Steady, Quiet, Top, Exit
      <3> QED
        BY <1>1, <1>6, <2>3, <2>6, <3>1, KeptSteadily
    <2>7. CASE Member(m) /\ Broadcast(t, s.peers, "TxSign", TRUE, Top)
      <3>1. session' = t /\ run'.at = "send" /\ run'.state = "TxSign"
        BY <2>7, HandlerEnds, <1>1
      <3>2. m.peer \in session.peers /\ session.state # "KeyExchange"
        BY <1>1, <1>5, <2>1, <2>7 DEF PublishInv, Begun, m
      <3>3. \A p \in session.peers : session.data[p].exp # "none"
        BY <1>7, <2>1, <2>7 DEF NeedsOf, Present, All
      <3>4. Quiet
        BY <1>1, <3>1 DEF Quiet
      <3>5. OwnMessages' /\ KeyFirst'
        BY <2>4, <3>1, <3>4, SteadyUnderWay
      <3>6. Begun'
        BY <1>1, <2>4, <3>1, <3>2 DEF PublishInv, Begun, Current
      <3>7. InputsIn'
        BY <1>1, <1>2, <2>4, <3>1, <3>2, <3>3 DEF InputsIn
      <3>8. SigsIn'
        BY <1>1, <1>2, <2>4, <3>1 DEF PublishInv, SigsIn
      <3>9. Publishing'
        <4> SUFFICES ASSUME session.state = "TxPublish"
                     PROVE  /\ session.peers \subseteq session.sigs
                            /\ session.peers = {} \/ session.publisher \in session.peers
          BY <2>4, <3>1 DEF Publishing
        <4>1. Present(session, Needs["TxPublish"])
          BY RoundDataIsPresence DEF RoundInv
        <4>2. \A p \in session.peers : session.data[p].sig # "none"
          BY <4>1 DEF Needs, Present, All
        <4> QED
          BY <1>1, <4>2 DEF PublishInv, SigsIn, Publishing
      <3> QED
        BY <3>5, <3>6, <3>7, <3>8, <3>9 DEF PublishInv
    <2> QED
      BY <1>8, <2>2, <2>5, <2>6, <2>7
  <1>11. CASE SignedTx
    <2>0. PICK X : LET t == Joined(m, X) IN
          \/ Resume(session, Top)
          \/ run' = Exit /\ UNCHANGED session
          \/ Member(m) /\ session.data[m.peer].sig = "none" /\ Accuses(s, {m.peer}, Top)
          \/ /\ Member(m) /\ session.data[m.peer].sig = "none"
             /\ m.val \in {"good", "altered"} /\ X \in JoinedInputs(m)
             /\ \/ Resume(t, Top)
                \/ Broadcast(t, t.peers, "Completed", FALSE, Exit)
                \/ /\ All(t, "sig")
                   /\ \E q \in t.peers : Broadcast([t EXCEPT !.publisher = q], {q}, "TxPublish", TRUE, Top)
          \/ UNCHANGED <<session, run>>
      BY <1>11, Accusing DEF SignedTx, m, s
    <2> DEFINE t == Joined(m, X)
               joins == /\ Member(m) /\ session.data[m.peer].sig = "none"
                        /\ m.val \in {"good", "altered"} /\ X \in JoinedInputs(m)
               elected(q) == [t EXCEPT !.publisher = q]
    <2>1. m.kind = "sig" /\ m.kind \in Stored
      BY <1>3, <1>11 DEF SignedTx, Handling, m
    <2>2. \/ Resume(session, Top)
          \/ run' = Exit /\ UNCHANGED session
          \/ Member(m) /\ session.data[m.peer].sig = "none" /\ Accuses(s, {m.peer}, Top)
          \/ joins /\ Resume(t, Top)
          \/ joins /\ Broadcast(t, t.peers, "Completed", FALSE, Exit)
          \/ /\ joins /\ All(t, "sig")
             /\ \E q \in t.peers : Broadcast(elected(q), {q}, "TxPublish", TRUE, Top)
          \/ UNCHANGED <<session, run>>
      BY <2>0
    <2>3. /\ t.peers = session.peers /\ t.state = session.state /\ t.epoch = session.epoch
          /\ t.inputs = X /\ t.sigs = session.sigs \cup {m.peer}
          /\ t.publisher = session.publisher /\ t.data = s.data
          /\ joins => t \in SessionState
      <3>1. t = [[s EXCEPT !.sigs = @ \cup {m.peer}] EXCEPT !.inputs = X]
        BY DEF Joined, s
      <3>2. joins => X \subseteq Peer \cup {NoPeer}
        BY <1>2 DEF JoinedInputs, SessionState
      <3> HIDE DEF t, joins
      <3> QED
        BY <1>2, <1>4, <2>1, <3>1, <3>2 DEF SessionState
    <2> HIDE DEF t
    <2>12. ASSUME Member(m), session.data[m.peer].sig = "none",
                  \A p \in Peer : session'.data[p].sig = s.data[p].sig
           PROVE  Added \subseteq Added' /\ (m.val = "altered" => NoPeer \in Added')
      <3>1. \A p \in Peer : session'.data[p].sig = IF p = m.peer THEN m.val ELSE session.data[p].sig
        BY <1>3, <1>4, <2>1, <2>12
      <3> QED
        BY <1>2, <2>12, <3>1 DEF Added
    <2>13. joins => /\ X \subseteq session.inputs \cup {m.peer} \cup (IF m.val = "altered" THEN {NoPeer} ELSE {})
                    /\ session.inputs # {} => X # {}
      BY DEF JoinedInputs
    <2>4. joins => \A q : LET e == elected(q)
                IN /\ e.peers = session.peers /\ e.state = session.state
                   /\ e.epoch = session.epoch /\ e.inputs = X
                   /\ e.sigs = session.sigs \cup {m.peer}
                   /\ e.publisher = q /\ e.data = s.data
      BY <2>3 DEF SessionState
    <2> HIDE DEF elected
    <2>5. CASE Resume(session, Top)
      BY <1>1, <1>6, <2>5, HandlerEnds, KeptSteadily
    <2>6. CASE run' = Exit /\ UNCHANGED session
      <3>1. Steady
        BY <1>1, <2>6 DEF Steady, Quiet, Exit
      <3> QED
        BY <1>1, <1>6, <2>6, <3>1, KeptSteadily
    <2>7. ASSUME Member(m),
                 session'.peers = session.peers, session'.state = session.state,
                 session'.epoch = session.epoch, Added \subseteq Added',
                 session'.inputs \subseteq session.inputs \cup {m.peer} \cup Added',
                 session.inputs # {} => session'.inputs # {},
                 session'.inputs = session.inputs \/ m.peer \in session'.sigs,
                 session'.data = s.data, session.sigs \subseteq session'.sigs,
                 m.peer \in session'.sigs
                   \/ (run'.at = "push" /\ run'.who = {m.peer} /\ run'.epoch = session.epoch),
                 run'.at \in {"top", "push", "send"},
                 run'.at = "send" => run'.state \in {"Completed", "TxPublish"},
                 session'.publisher = session.publisher \/ session'.publisher \in session'.peers,
                 run'.at = "send" /\ run'.state = "TxPublish" =>
                   All(t, "sig") /\ m.peer \in session'.sigs /\ session'.publisher \in session'.peers
          PROVE  PublishInv'
      <3>1. \A p \in Peer : /\ session'.data[p].exp = session.data[p].exp
                           /\ session'.data[p].sig =
                                IF p = m.peer THEN m.val ELSE session.data[p].sig
        BY <1>3, <1>4, <2>1, <2>7
      <3>2. Quiet
        BY <1>1, <2>7 DEF Quiet
      <3>3. OwnMessages' /\ KeyFirst'
        BY <2>7, <3>1, <3>2, SteadyUnderWay
      <3>4. m.peer \in session.peers /\ session.inputs # {} /\ session.state # "KeyExchange"
        BY <1>1, <1>5, <2>1, <2>7 DEF PublishInv, InputsIn, Begun, m
      <3>5. Begun'
        BY <1>1, <2>7, <3>1, <3>4 DEF PublishInv, Begun, Current
      <3>10. session.data[m.peer].exp # "none"
        BY <1>7, <2>1, <2>7, <3>4 DEF NeedsOf, Present, All
      <3>11. session'.peers = {} \/ session'.inputs \subseteq session'.peers \cup session'.sigs \cup Added'
        BY <2>7, <3>4 DEF PublishInv, InputsIn
      <3>12. \A p \in session'.inputs \cap session'.peers : session'.data[p].exp # "none"
        <4>1. NoPeer \notin session.peers /\ Added' \subseteq {NoPeer}
          BY <1>2, ConstantsOK DEF Added
        <4> QED
          BY <1>2, <2>7, <3>1, <3>10, <4>1 DEF PublishInv, InputsIn
      <3>6. InputsIn'
        BY <1>1, <2>7, <3>4, <3>11, <3>12 DEF InputsIn
      <3>7. SigsIn'
        BY <1>1, <1>2, <2>7, <3>1 DEF PublishInv, SigsIn
      <3>8. run'.at = "send" /\ run'.state = "TxPublish" =>
              session.inputs \subseteq session'.sigs \cup Added'
        <4>1. SUFFICES ASSUME All(t, "sig"), m.peer \in session'.sigs
                       PROVE  session.peers \subseteq session'.sigs
          BY <2>7, <3>4 DEF PublishInv, InputsIn
        <4>2. \A p \in session.peers : p = m.peer \/ session.data[p].sig # "none"
          BY <1>2, <1>3, <1>4, <2>1, <2>3, <4>1 DEF All
        <4> QED
          BY <1>1, <2>7, <4>1, <4>2 DEF PublishInv, SigsIn
      <3>13. session.state = "TxPublish" => session.inputs \subseteq session'.sigs \cup Added'
        BY <2>7 DEF PublishInv, Publishing
      <3>9. Publishing'
        BY <1>1, <2>7, <3>8, <3>13 DEF PublishInv, Publishing
      <3> QED
        BY <3>3, <3>5, <3>6, <3>7, <3>9 DEF PublishInv
    <2>8. CASE Member(m) /\ session.data[m.peer].sig = "none" /\ Accuses(s, {m.peer}, Top)
      <3>1. /\ session' = s /\ run'.at = "push" /\ run'.who = {m.peer}
            /\ run'.epoch = session.epoch
        BY <1>4, <2>1, <2>8 DEF Accuses, Push
      <3>2. Added \subseteq Added'
        BY <2>8, <2>12, <3>1
      <3> QED
        BY <1>4, <2>1, <2>7, <2>8, <3>1, <3>2
    <2>9. CASE \/ joins /\ Resume(t, Top)
               \/ joins /\ Broadcast(t, t.peers, "Completed", FALSE, Exit)
      <3>1. /\ session' = t /\ run'.at \in {"top", "send"}
            /\ run'.at = "send" => run'.state = "Completed"
        BY <2>9 DEF Resume, Broadcast, Top
      <3>2. Added \subseteq Added' /\ (m.val = "altered" => NoPeer \in Added')
        BY <2>3, <2>9, <2>12, <3>1
      <3> QED
        BY <2>3, <2>7, <2>9, <2>13, <3>1, <3>2
    <2>10. CASE /\ joins /\ All(t, "sig")
                /\ \E q \in t.peers : Broadcast(elected(q), {q}, "TxPublish", TRUE, Top)
      <3>1. PICK q \in t.peers : Broadcast(elected(q), {q}, "TxPublish", TRUE, Top)
        BY <2>10
      <3>2. session' = elected(q) /\ run'.at = "send" /\ run'.state = "TxPublish"
        BY <3>1 DEF Broadcast
      <3>3. Added \subseteq Added' /\ (m.val = "altered" => NoPeer \in Added')
        BY <2>4, <2>10, <2>12, <3>2
      <3> QED
        BY <2>3, <2>4, <2>7, <2>10, <2>13, <3>2, <3>3
    <2> QED
      BY <1>8, <2>2, <2>5, <2>6, <2>8, <2>9, <2>10
  <1> QED
    BY <1>10, <1>11

\* A step that changes nothing of the session but its timer or its flags.
LEMMA IdleSteadily ==
    ASSUME TypeOK, PublishInv, Steady, run.at = "push" => run' = run,
           session' = session
             \/ (\E b : session' = [session EXCEPT !.armed = b])
             \/ (\E b : session' = [session EXCEPT !.finding = b])
    PROVE  PublishInv'
  <1>1. session \in SessionState
    BY PublishTypes
  <1>2. Kept
    BY <1>1 DEF Kept, SessionState
  <1> QED
    BY <1>2, KeptSteadily

\* The other steps of run: it takes up the message a reader hands over, drops
\* the silent in the key exchange, or hands the transaction to another member.
LEMMA RunStepsPublish ==
    ASSUME TypeOK, RoundInv, PublishInv, RunStep \/ Timeout
    PROVE  PublishInv'
  <1>1. /\ session \in SessionState /\ run \in RunState /\ session.peers \subseteq Peer
        /\ reader \in [Peer -> ReaderState]
    BY PublishTypes
  <1>2. CASE Loop
    <2>1. run.at = "top" /\ run'.at \in {"done", "select"} /\ UNCHANGED <<session, reader>>
      BY <1>2 DEF Loop, RunAt
    <2>2. Steady
      BY <2>1 DEF Steady, Quiet
    <2> QED
      BY <2>1, <2>2, IdleSteadily
  <1>3. CASE \E p \in Peer : Receive(p)
    <2>1. PICK p \in Peer : Receive(p)
      BY <1>3
    <2>2. /\ UNCHANGED session
          /\ run.at = "select" /\ reader[p].at = "send"
          /\ run' = [at |-> "handle", msg |-> reader[p].msg]
          /\ reader' = [reader EXCEPT ![p] = [at |-> "read"]]
      BY <2>1 DEF Receive, RunAt, ReaderAt
    <2>3. /\ reader'[p].at = "read"
          /\ \A q \in Peer \ {p} : reader'[q] = reader[q]
          /\ run'.at = "handle" /\ run'.msg = reader[p].msg /\ reader[p].msg.peer = p
      BY <1>1, <2>2 DEF PublishInv, OwnMessages
    <2>4. OwnMessages'
      BY <2>3 DEF PublishInv, OwnMessages
    <2>5. Begun'
      BY <2>2, <2>3 DEF PublishInv, Begun, Current
    <2>6. KeyFirst'
      <3>1. ~KeyPending(p)' /\ \A q \in Peer : KeyPending(q)' => KeyPending(q)
        BY <2>2, <2>3 DEF KeyPending, Current
      <3>2. Current(reader[p].msg) /\ reader[p].msg.kind = "pk" => KeyPending(p)
        BY <2>2 DEF KeyPending
      <3>3. Current(run.msg)' => Current(reader[p].msg)
        BY <2>2, <2>3 DEF Current
      <3> HIDE DEF KeyPending
      <3> QED
        BY <2>2, <2>3, <3>1, <3>2, <3>3 DEF PublishInv, KeyFirst
    <2>7. InputsIn'
      BY <2>2, <2>3 DEF PublishInv, Added, InputsIn, Current
    <2>8. SigsIn' /\ Publishing'
      BY <2>2, <2>3 DEF PublishInv, Added, SigsIn, Publishing
    <2> QED
      BY <2>4, <2>5, <2>6, <2>7, <2>8 DEF PublishInv
  <1>4. CASE Timeout
    <2>1. /\ session' = [session EXCEPT !.armed = FALSE] /\ run'.at = "expired"
          /\ run.at = "select" /\ UNCHANGED reader
      BY <1>4 DEF Timeout, RunAt
    <2>2. Steady
      BY <2>1 DEF Steady, Quiet
    <2> QED
      BY <2>1, <2>2, IdleSteadily
  <1>5. CASE Expired
    <2>1. /\ run.at = "expired" /\ UNCHANGED reader /\ run'.at \in {"top", "range", "dead"}
          /\ \/ session.state = "KeyExchange" /\ session' = Without(Silent)
             \/ session' = session
      BY <1>5 DEF Expired, Resume, RunAt, DropStates, Top
    <2>2. Steady
      BY <2>1 DEF Steady, Quiet
    <2>3. CASE session.state = "KeyExchange" /\ session' = Without(Silent)
      <3>1. Leaves(Silent)
        BY <1>1, <2>1, <2>3, WithoutFields DEF Leaves
      <3> QED
        BY <2>1, <2>2, <3>1, LeavesSteadily
    <2> QED
      BY <2>1, <2>2, <2>3, IdleSteadily
  <1>6. CASE EvictPublisher
    <2> DEFINE p == session.publisher
               s == Without({p})
               elected(q) == [s EXCEPT !.publisher = q]
    <2>1. run.at = "range" /\ session.state = "TxPublish" /\ UNCHANGED reader
      BY <1>6 DEF EvictPublisher, RunAt, RoundInv, Evicting
    <2>2. \/ s.peers = {} /\ session' = s /\ run'.at = "done"
          \/ \E q \in s.peers : /\ session' = elected(q)
                                /\ run'.at = "send" /\ run'.state = "TxPublish"
      <3>1. \/ s.peers = {} /\ session' = s /\ run' = [at |-> "done"]
            \/ \E q \in s.peers, later \in SUBSET (run.rest \ {p}) :
                  Broadcast(elected(q), {q}, "TxPublish", TRUE, [at |-> "range", rest |-> later])
        BY <1>6, Zenon DEF EvictPublisher
      <3> HIDE DEF s, p, elected
      <3>2. CASE s.peers = {} /\ session' = s /\ run' = [at |-> "done"]
        BY <3>2
      <3>3. ASSUME NEW q \in s.peers, NEW later,
                   Broadcast(elected(q), {q}, "TxPublish", TRUE, [at |-> "range", rest |-> later])
            PROVE  session' = elected(q) /\ run'.at = "send" /\ run'.state = "TxPublish"
        BY <3>3 DEF Broadcast
      <3> QED
        BY <3>1, <3>2, <3>3
    <2>3. /\ s.peers = session.peers \ {p} /\ s.state = session.state
          /\ s.epoch = session.epoch /\ s.data = session.data
          /\ s.inputs = session.inputs /\ s.sigs = session.sigs
          /\ s.publisher = session.publisher /\ s \in SessionState
      BY <1>1, WithoutFields, WithoutType
    <2> HIDE DEF s, p
    <2>4. \A q : LET e == elected(q)
                IN /\ e.peers = session.peers \ {p} /\ e.state = session.state
                   /\ e.epoch = session.epoch /\ e.data = session.data
                   /\ e.inputs = session.inputs /\ e.sigs = session.sigs /\ e.publisher = q
      BY <2>3 DEF SessionState
    <2> HIDE DEF elected
    <2>5. Steady
      BY <2>1, <2>2 DEF Steady, Quiet
    <2>6. Leaves({p})
      BY <2>1, <2>2, <2>3, <2>4 DEF Leaves
    <2> QED
      BY <2>1, <2>5, <2>6, LeavesSteadily
  <1>7. CASE RangeDone
    <2>1. run.at = "range" /\ run'.at \in {"dead", "top"} /\ UNCHANGED <<session, reader>>
      BY <1>7 DEF RangeDone, RunAt, Top
    <2>2. Steady
      BY <2>1 DEF Steady, Quiet
    <2> QED
      BY <2>1, <2>2, IdleSteadily
  <1>8. CASE \E q \in Peer : RunSend(q)
    <2>1. PICK q \in Peer : RunSend(q)
      BY <1>8
    <2>2. run.at = "send" /\ run' = [run EXCEPT !.to = @ \ {q}] /\ UNCHANGED <<session, reader>>
      BY <2>1 DEF RunSend, RunAt
    <2>3. run'.at = "send" /\ run'.state = run.state
      BY <1>1, <2>2, RunShape
    <2>4. Steady
      BY <2>2, <2>3 DEF Steady, Quiet
    <2> QED
      BY <2>2, <2>4, IdleSteadily
  <1>9. CASE RunSent
    <2>1. /\ run.at = "send" /\ run' = run.then /\ UNCHANGED reader
          /\ session' = [session EXCEPT !.state = run.state, !.armed = @ \/ run.arm]
      BY <1>9 DEF RunSent, RunAt
    <2>2. run'.at \in {"top", "exit", "range"}
      BY <1>1, <2>1, RunShape DEF ThenState, Top, Exit
    <2>3. /\ session'.peers = session.peers /\ session'.state = run.state
          /\ session'.epoch = session.epoch /\ session'.data = session.data
          /\ session'.inputs = session.inputs /\ session'.sigs = session.sigs
          /\ session'.publisher = session.publisher
      BY <1>1, <2>1 DEF SessionState
    <2>4. OwnMessages' /\ Begun'
      BY <2>1, <2>2, <2>3 DEF PublishInv, OwnMessages, Begun, Current
    <2>5. KeyFirst'
      <3>1. \A p \in Peer : KeyPending(p)' => KeyPending(p)
        BY <2>1, <2>3 DEF KeyPending, Current
      <3> HIDE DEF KeyPending
      <3> QED
        BY <2>2, <2>3, <3>1 DEF PublishInv, KeyFirst
    <2>6. InputsIn'
      BY <2>1, <2>2, <2>3 DEF PublishInv, Added, InputsIn, Current
    <2>7. SigsIn' /\ Publishing'
      BY <2>1, <2>2, <2>3 DEF PublishInv, Added, SigsIn, Publishing
    <2> QED
      BY <2>4, <2>5, <2>6, <2>7 DEF PublishInv
  <1>10. CASE RunPush
    <2>0. PICK out : RunPushed(out)
      BY <1>10, Pushing
    <2>1. /\ run.at = "push" /\ UNCHANGED reader
          /\ \/ session.peers \subseteq out /\ Resume(Without(out), run.then)
             \/ Broadcast(Restarted(out), session.peers \ out, "KeyExchange", FALSE, run.then)
      BY <2>0 DEF RunPushed
    <2>2. run.then \in {Top, Exit}
      BY <1>1, <2>1, RunShape
    <2>3. CASE session.peers \subseteq out /\ Resume(Without(out), run.then)
      <3>1. session' = Without(out) /\ Steady
        BY <2>1, <2>2, <2>3, HandlerEnds
      <3>2. Leaves(out)
        BY <1>1, <2>3, <3>1, WithoutFields DEF Leaves
      <3> QED
        BY <2>3, <3>1, <3>2, LeavesSteadily
    <2>4. CASE Broadcast(Restarted(out), session.peers \ out, "KeyExchange", FALSE, run.then)
      <3>1. session' = Restarted(out) /\ run'.at = "send" /\ run'.state = "KeyExchange"
        BY <2>4 DEF Broadcast
      <3>2. Restarts(out)
        BY <3>1, RestartedRestarts
      <3> QED
        BY <2>1, <3>1, <3>2, RestartsAfresh
    <2> QED
      BY <2>1, <2>3, <2>4
  <1>11. CASE RunExit
    <2>1. run.at = "exit" /\ run'.at = "done" /\ UNCHANGED <<session, reader>>
      BY <1>11 DEF RunExit, RunAt
    <2>2. Steady
      BY <2>1 DEF Steady, Quiet
    <2> QED
      BY <2>1, <2>2, IdleSteadily
  <1> QED
    BY <1>2, <1>3, <1>4, <1>5, <1>6, <1>7, <1>8, <1>9, <1>10, <1>11,
       MixHandlersPublish, TxHandlersPublish DEF RunStep

\* The readers: an unparsable key removes a peer that does not mix yet, and a
\* lost connection one in the key exchange, or the publisher.
LEMMA ReaderStepsPublish ==
    ASSUME TypeOK, RoundInv, PublishInv, NEW p \in Peer, ReaderStep(p) \/ ClientStep(p)
    PROVE  PublishInv'
  <1>1. /\ session \in SessionState /\ run \in RunState /\ session.peers \subseteq Peer
        /\ reader \in [Peer -> ReaderState] /\ session.state \in State
    BY PublishTypes
  <1>2. mu = Free => run.at # "send"
    BY DEF RoundInv, Locked, Free, ByRun
  <1>3. ASSUME NEW r, Rework(p, r)
        PROVE  reader'[p] = r /\ \A q \in Peer \ {p} : reader'[q] = reader[q]
    BY <1>1, <1>3 DEF Rework
  <1>4. ASSUME run' = run, \A q \in Peer \ {p} : reader'[q] = reader[q],
               reader'[p].at \notin {"send", "drop"} \/ reader' = reader
        PROVE  Steady
    BY <1>4 DEF Steady, Quiet
  <1>5. CASE Drop(p)
    <2>1. /\ reader[p].at = "drop" /\ session' = Without({p}) /\ Rework(p, [at |-> "read"])
          /\ run' = IF run.at = "send" THEN [run EXCEPT !.to = @ \ {p}] ELSE run
      BY <1>5 DEF Drop, ReaderAt
    <2>2. session.data[p].exp = "none"
      BY <2>1 DEF PublishInv, KeyFirst, KeyPending
    <2>3. Leaves({p})
      BY <1>1, <2>1, <2>2, WithoutFields DEF Leaves
    <2>4. /\ run'.at = run.at
          /\ run.at # "send" => run' = run
          /\ run.at = "send" => run'.state = run.state
      BY <1>1, <2>1, RunShape
    <2>5. Steady
      BY <1>3, <2>1, <2>4 DEF Steady, Quiet
    <2> QED
      BY <2>3, <2>4, <2>5, LeavesSteadily
  <1>6. CASE ReaderPush(p)
    <2>0. PICK out : ReaderPushed(p, out)
      BY <1>6, Pushing
    <2>1. /\ mu = Free /\ UNCHANGED run
          /\ \/ /\ session.peers \subseteq out /\ session' = Without(out)
                /\ Rework(p, [at |-> "read"])
             \/ session' = Restarted(out) /\ ReaderSends(p, session.peers \ out, FALSE, "read")
      BY <2>0 DEF ReaderPushed
    <2>2. reader'[p].at \in {"read", "bcast"} /\ \A q \in Peer \ {p} : reader'[q] = reader[q]
      BY <1>3, <2>1 DEF ReaderSends
    <2>3. Steady
      BY <1>4, <2>1, <2>2
    <2>4. CASE session.peers \subseteq out /\ session' = Without(out)
      <3>1. Leaves(out)
        BY <1>1, <2>4, WithoutFields DEF Leaves
      <3> QED
        BY <2>1, <2>3, <3>1, LeavesSteadily
    <2>5. CASE session' = Restarted(out)
      BY <1>2, <2>1, <2>3, <2>5, RestartedRestarts, RestartsAfresh DEF Steady, Quiet
    <2> QED
      BY <2>1, <2>4, <2>5
  <1>7. CASE \E q \in Peer : ReaderSend(p, q)
    <2>1. PICK q \in Peer : ReaderSend(p, q)
      BY <1>7
    <2>2. /\ reader[p].at = "bcast" /\ Rework(p, [reader[p] EXCEPT !.to = @ \ {q}])
          /\ UNCHANGED <<session, run>>
      BY <2>1 DEF ReaderSend, ReaderAt
    <2>3. reader'[p].at = "bcast" /\ \A x \in Peer \ {p} : reader'[x] = reader[x]
      BY <1>1, <1>3, <2>2, ReaderShape
    <2> QED
      BY <1>4, <2>2, <2>3, IdleSteadily
  <1>8. CASE ReaderSent(p)
    <2>1. /\ reader[p].at = "bcast" /\ Rework(p, [at |-> reader[p].then]) /\ UNCHANGED run
          /\ session' = [session EXCEPT !.armed = @ \/ reader[p].arm]
      BY <1>8 DEF ReaderSent, ReaderAt
    <2>2. reader'[p].at \in {"read", "closing"} /\ \A q \in Peer \ {p} : reader'[q] = reader[q]
      BY <1>1, <1>3, <2>1, ReaderShape
    <2> QED
      BY <1>4, <2>1, <2>2, IdleSteadily
  <1>9. CASE ReaderError(p)
    <2> DEFINE s == Without({p})
               elected(q) == [s EXCEPT !.publisher = q]
    <2>1. /\ mu = Free /\ UNCHANGED run
          /\ \/ Rework(p, [at |-> "closing"]) \/ Rework(p, [at |-> "dead"])
             \/ \E q : ReaderSends(p, {q}, TRUE, "closing")
          /\ \/ session' = session
             \/ (session.state = "KeyExchange" \/ s.peers = {}) /\ session' = s
             \/ session.state = "TxPublish" /\ \E q \in s.peers : session' = elected(q)
      BY <1>9 DEF ReaderError, DropStates
    <2>2. /\ s.peers = session.peers \ {p} /\ s.state = session.state
          /\ s.epoch = session.epoch /\ s.data = session.data
          /\ s.inputs = session.inputs /\ s.sigs = session.sigs
          /\ s.publisher = session.publisher /\ s \in SessionState
      BY <1>1, WithoutFields, WithoutType
    <2> HIDE DEF s
    <2>3. \A q : LET e == elected(q)
                IN /\ e.peers = session.peers \ {p} /\ e.state = session.state
                   /\ e.epoch = session.epoch /\ e.data = session.data
                   /\ e.inputs = session.inputs /\ e.sigs = session.sigs /\ e.publisher = q
      BY <2>2 DEF SessionState
    <2> HIDE DEF elected
    <2>4. /\ reader'[p].at \in {"closing", "dead", "bcast"}
          /\ \A q \in Peer \ {p} : reader'[q] = reader[q]
      <3>1. CASE \E x \in {"closing", "dead"} : Rework(p, [at |-> x])
        BY <1>3, <3>1
      <3>2. CASE \E q : ReaderSends(p, {q}, TRUE, "closing")
        BY <1>3, <3>2 DEF ReaderSends
      <3> QED
        BY <2>1, <3>1, <3>2
    <2>5. Steady
      BY <1>4, <2>1, <2>4
    <2>6. session' = session \/ Leaves({p})
      BY <1>2, <2>1, <2>2, <2>3 DEF Leaves
    <2> QED
      BY <2>1, <2>5, <2>6, IdleSteadily, LeavesSteadily
  <1>10. CASE ReaderClose(p)
    <2>1. /\ reader[p].at = "closing" /\ UNCHANGED <<session, run>>
          /\ Rework(p, [at |-> "gone"]) \/ UNCHANGED reader
      BY <1>10 DEF ReaderClose, ReaderAt
    <2> QED
      BY <1>3, <1>4, <2>1, IdleSteadily
  <1>11. CASE ClientStep(p)
    <2>1. PICK k \in Kind, v \in Payload : Accept(p, k, v)
      BY <1>11 DEF ClientStep
    <2> DEFINE m == [kind |-> k, peer |-> p, epoch |-> session.epoch, val |-> Sized(k, v)]
               flagged == [session EXCEPT !.finding = @ \/ (k = "nf" /\ v # "unparsable")]
    <2>2. /\ reader[p].at = "read" /\ Expected(p, k) /\ UNCHANGED run
          /\ \/ UNCHANGED <<reader, session>>
             \/ Rework(p, [at |-> "send", msg |-> m]) /\ session' = flagged
             \/ k = "pk" /\ Rework(p, [at |-> "drop"]) /\ session' = flagged
             \/ Rework(p, [at |-> "push", epoch |-> session.epoch]) /\ session' = flagged
      BY <2>1 DEF Accept, ReaderAt
    <2>3. CASE UNCHANGED <<reader, session>>
      BY <1>4, <2>2, <2>3, IdleSteadily
    <2>4. CASE session' = flagged /\ Rework(p, [at |-> "push", epoch |-> session.epoch])
      <3>1. Steady
        BY <1>3, <1>4, <2>2, <2>4
      <3> QED
        BY <2>2, <2>4, <3>1, IdleSteadily
    <2>5. CASE /\ session' = flagged
               /\ \/ Rework(p, [at |-> "send", msg |-> m])
                  \/ k = "pk" /\ Rework(p, [at |-> "drop"])
      <3>1. /\ session'.peers = session.peers /\ session'.state = session.state
            /\ session'.epoch = session.epoch /\ session'.data = session.data
            /\ session'.inputs = session.inputs /\ session'.sigs = session.sigs
            /\ session'.publisher = session.publisher
        BY <1>1, <2>5 DEF SessionState
      <3>2. /\ m.kind = k /\ m.peer = p
            /\ reader'[p].at = "send" => reader'[p].msg = m
            /\ reader'[p].at \in {"send", "drop"}
            /\ reader'[p].at = "drop" => k = "pk"
            /\ \A q \in Peer \ {p} : reader'[q] = reader[q]
        BY <1>3, <2>5
      <3>3. /\ k = "pk" => session.state = "KeyExchange"
            /\ k = "sig" => session.state = "TxSign"
        BY <2>2 DEF Expected
      <3>4. k # "pk" => session.state # "KeyExchange"
        <4>1. k \in {"pk", "exp", "xor", "txin", "sig", "pub", "vk", "nf"}
          BY DEF Kind, Stored, Rounds
        <4> QED
          BY <2>2, <4>1 DEF Expected
      <3> HIDE DEF m
      <3>5. OwnMessages'
        BY <3>2 DEF PublishInv, OwnMessages
      <3>6. Begun'
        BY <2>2, <3>1, <3>2, <3>4 DEF PublishInv, Begun, Current
      <3>7. KeyFirst'
        <4>1. \A q \in Peer : KeyPending(q)' => KeyPending(q) \/ (q = p /\ k = "pk")
          BY <3>1, <3>2 DEF KeyPending, Current
        <4>2. k = "pk" => /\ \A q \in Peer : session.data[q].exp = "none"
                          /\ run.at = "handle" /\ Current(run.msg) => run.msg.kind = "pk"
          BY <3>3 DEF PublishInv, Begun
        <4>3. Current(run.msg)' <=> Current(run.msg)
          BY <2>2, <3>1 DEF Current
        <4>4. run.at = "handle" => run.msg.peer \in Peer
          BY <1>1, RunShape, MessageShape
        <4> HIDE DEF KeyPending
        <4>5. \A q \in Peer : session'.data[q].exp # "none" => ~KeyPending(q)'
          BY <3>1, <4>1, <4>2 DEF PublishInv, KeyFirst
        <4>6. run'.at = "handle" /\ Current(run.msg)' =>
                IF run'.msg.kind = "pk" THEN session'.data[run'.msg.peer].exp = "none"
                                        ELSE ~KeyPending(run.msg.peer)'
          BY <2>2, <3>1, <4>1, <4>2, <4>3, <4>4 DEF PublishInv, KeyFirst
        <4> QED
          BY <4>5, <4>6 DEF KeyFirst
      <3>8. InputsIn'
        BY <2>2, <3>1, <3>2, <3>3 DEF PublishInv, Added, InputsIn, Current
      <3>9. SigsIn' /\ Publishing'
        BY <2>2, <3>1 DEF PublishInv, Added, SigsIn, Publishing
      <3> QED
        BY <3>5, <3>6, <3>7, <3>8, <3>9 DEF PublishInv
    <2> QED
      BY <2>2, <2>3, <2>4, <2>5
  <1> QED
    BY <1>5, <1>6, <1>7, <1>8, <1>9, <1>10, <1>11 DEF ReaderStep

\* The writers, and a connection that is lost.
LEMMA WriterStepsPublish ==
    ASSUME TypeOK, RoundInv, PublishInv, NEW p \in Peer, WriterStep(p) \/ Leave(p)
    PROVE  PublishInv'
  <1>1. session \in SessionState /\ session.peers \subseteq Peer
    BY PublishTypes
  <1>2. UNCHANGED <<run, reader>>
    BY DEF WriterStep, WriterError, WriterElects, Leave
  <1>3. Steady
    BY <1>2 DEF Steady, Quiet
  <1>4. CASE WriterError(p)
    <2> DEFINE s == Without({p})
               elected(q) == [s EXCEPT !.publisher = q]
    <2>1. /\ mu = Free
          /\ \/ session' = session
             \/ session.state = "KeyExchange" /\ session' = s
             \/ session.state = "TxPublish" /\ \E q \in s.peers : session' = elected(q)
      BY <1>4 DEF WriterError, DropStates
    <2>2. /\ s.peers = session.peers \ {p} /\ s.state = session.state
          /\ s.epoch = session.epoch /\ s.data = session.data
          /\ s.inputs = session.inputs /\ s.sigs = session.sigs
          /\ s.publisher = session.publisher /\ s \in SessionState
      BY <1>1, WithoutFields, WithoutType
    <2> HIDE DEF s
    <2>3. \A q : LET e == elected(q)
                IN /\ e.peers = session.peers \ {p} /\ e.state = session.state
                   /\ e.epoch = session.epoch /\ e.data = session.data
                   /\ e.inputs = session.inputs /\ e.sigs = session.sigs /\ e.publisher = q
      BY <2>2 DEF SessionState
    <2> HIDE DEF elected
    <2>4. run.at # "send"
      BY <2>1 DEF RoundInv, Locked, Free, ByRun
    <2>5. session' = session \/ Leaves({p})
      BY <1>2, <2>1, <2>2, <2>3, <2>4 DEF Leaves
    <2> QED
      BY <1>2, <1>3, <2>5, IdleSteadily, LeavesSteadily
  <1>5. CASE (\E q \in Peer : WriterElects(p, q)) \/ Leave(p)
    <2>1. session' = session \/ session' = [session EXCEPT !.armed = TRUE]
      BY <1>5 DEF WriterElects, Leave
    <2> QED
      BY <1>2, <1>3, <2>1, IdleSteadily
  <1> QED
    BY <1>4, <1>5 DEF WriterStep

-----------------------------------------------------------------------------
(* The theorems.                                                           *)

\* In every reachable state, for every choice of the constants, the inputs of
\* the joint transaction belong to members that still mix or to peers that
\* have signed, and the messages under way are in step with it (PublishInv).
THEOREM PublishInvHolds == Spec => []PublishInv
  <1>1. Init => PublishInv
    <2> SUFFICES ASSUME Init PROVE PublishInv
      OBVIOUS
    <2>1. /\ session.state = "KeyExchange" /\ session.inputs = {} /\ run.at = "top"
          /\ \A p \in Peer : reader[p].at = "read"
          /\ \A p \in Peer : session.data[p].exp = "none" /\ session.data[p].sig = "none"
          /\ session.peers = Peer
      BY DEF Init, NewJoinSession, NoData, Stored, Rounds, Top
    <2> QED
      BY <2>1 DEF PublishInv, OwnMessages, Begun, KeyFirst, InputsIn, SigsIn, Publishing, KeyPending
  <1>2. TypeOK /\ RoundInv /\ PublishInv /\ [Next]_vars => PublishInv'
    <2> SUFFICES ASSUME TypeOK, RoundInv, PublishInv, [Next]_vars PROVE PublishInv'
      OBVIOUS
    <2>1. CASE UNCHANGED vars
      <3>1. Steady /\ session' = session /\ run' = run
        BY <2>1 DEF vars, Steady, Quiet
      <3> QED
        BY <3>1, IdleSteadily
    <2> QED
      BY <2>1, RunStepsPublish, ReaderStepsPublish, WriterStepsPublish DEF Next
  <1> QED
    BY <1>1, <1>2, Typed, RoundInvHolds, PTL DEF Spec

\* The transaction handed out for publication spends at least one input, and
\* every input of a peer that it spends is signed by its owner, whoever was
\* removed since the inputs were collected and whichever of them a signer has
\* left out (joinsession.go, TxInputs to TxPublish).  An input of nobody here
\* is in it only if a signer has put it there: lines 745-746 take over the
\* whole of the first signed transaction.
THEOREM PublishedIsSignedHolds == Spec => []PublishedIsSigned
  <1>1. PublishInv => PublishedIsSigned
    BY DEF PublishInv, InputsIn, Publishing, PublishedIsSigned
  <1> QED
    BY <1>1, PublishInvHolds, PTL

\* While the result of the publication is awaited, the peer it is awaited from
\* is a member: each of the three places that remove the publisher (the timer,
\* its reader and its writer) elects another one in the same step.
THEOREM PublisherPresentHolds == Spec => []PublisherPresent
  <1>1. PublishInv => PublisherPresent
    BY DEF PublishInv, Publishing, PublisherPresent
  <1> QED
    BY <1>1, PublishInvHolds, PTL
=============================================================================

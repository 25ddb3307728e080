----------------------- MODULE JoinSessionRoundsProofs -----------------------
(***************************************************************************)
(* Proofs about the course of a JoinSession: in which order the rounds     *)
(* follow each other, and what the end of the last one means.  As in       *)
(* JoinSessionPeersProofs, the hypotheses name the misuses with which the  *)
(* properties are false.                                                   *)
(***************************************************************************)
EXTENDS JoinSessionPeersProofs

-----------------------------------------------------------------------------
(***************************************************************************)
(* The order in which a session goes through its rounds, what its end      *)
(* means, and what it is restarted for, when the only misuse is data that  *)
(* is refused by restarting the session without its sender.                *)
(*                                                                         *)
(* The danger is a message or an accusation that is late: admitted in one  *)
(* round and acted upon in another.  So the invariant says that a message  *)
(* under way is one the session still waits for (Timely), and that nobody  *)
(* is accused once all members have signed (Pushes).                       *)
(***************************************************************************)

\* What is refused with a restart, unless it comes after a good signature.
Rejectable ==
    {<<k, "unparsable">> : k \in {"exp", "xor", "txin", "vk", "nf"}} \cup {<<"sig", "unsigned">>}

\* There is no timer, and the honest peers alone make up a mix.
RejectSetting == ~Timeouts /\ Misuse \subseteq Rejectable /\ Cardinality(Honest) * NumMsg >= 2

\* The rounds of the mix that a peer may answer once, and the state they take
\* place in.
Mix == {"pk", "exp", "xor", "txin"}
StateOf == [pk |-> "KeyExchange", exp |-> "DcExponential", xor |-> "DcXor", txin |-> "TxInput"]

\* All have signed.
Ending == {"TxPublish", "Completed"}

\* A message that the session waits for, a second signature, or the result.
Timely(s, m) ==
    /\ m.peer \in s.peers
    /\ \/ m.kind \in Mix /\ s.state = StateOf[m.kind] /\ s.data[m.peer][m.kind] = "none"
       \/ m.kind = "sig" /\ (s.state = "TxSign" \/ s.data[m.peer].sig # "none")
       \/ m.kind = "pub" /\ s.state \in Ending
Apt(s, m) ==
    /\ m.kind \in Rounds \cup {"pub"} /\ m.val # "unparsable"
    /\ m.epoch = s.epoch => Timely(s, m)
    /\ m.kind = "pub" => m.epoch = s.epoch

\* Messages under way are apt, and a member has one of the mix under way at a time.
SentNow(p) == reader[p].at = "send" /\ Current(reader[p].msg)
InTime ==
    /\ \A p \in Peer : reader[p].at = "send" => Apt(session, reader[p].msg)
    /\ run.at = "handle" =>
         /\ Apt(session, run.msg)
         /\ Current(run.msg) /\ run.msg.kind \in Mix => ~SentNow(run.msg.peer)

\* A broadcast ends in the state it began in, or in the next.
InOrder(from, to) == Rank[to] = Rank[from] + 1 \/ (from = "TxSign" /\ to = "Completed")
Turn ==
    /\ session.state # "RevealSecret" /\ ~session.asked
    /\ run.at = "send" =>
         /\ run.state # "RevealSecret"
         /\ run.state = session.state \/ InOrder(session.state, run.state)

\* What the session is about to complete with, or has, is signed by all.
Signed ==
    session.state = "Completed" \/ (run.at = "send" /\ run.state = "Completed") =>
        /\ session.inputs # {} /\ session.inputs \subseteq session.sigs
        /\ All(session, "sig")

\* Signatures are the last that is submitted.
SigLast ==
    session.state \notin {"TxSign"} \cup Ending => \A p \in Peer : session.data[p].sig = "none"

\* A reader accuses a member that has not signed, and run others, that have
\* (in this life of the session or an earlier one), while not all members have.
Pushes ==
    /\ \A q \in Peer : reader[q].at = "push" =>
         /\ q \in session.peers /\ session.data[q].sig = "none"
         /\ ~(run.at = "handle" /\ Current(run.msg) /\ run.msg.kind = "sig" /\ run.msg.peer = q)
    /\ run.at = "push" =>
         /\ session.state \notin Ending /\ run.epoch <= session.epoch
         /\ run.epoch = session.epoch => \A p \in run.who : session.data[p].sig # "none"
         /\ run.epoch # session.epoch => session.state = "KeyExchange"
         /\ \A p \in run.who : reader[p].at # "push"

\* Who is not a member is not listened to.
Closed == \A p \in Peer : conn[p] = "open" => p \in session.peers

OrderInv == InTime /\ Turn /\ Signed /\ SigLast /\ Pushes /\ Closed

\* If only one peer misbehaves, whoever is accused is still there to be removed.
Culprits ==
    /\ run.at = "push" => run.epoch = session.epoch /\ run.who \cap session.peers # {}
    /\ \A q \in Peer : reader[q].at = "push" => reader[q].epoch = session.epoch

\* What the other proofs about a session have shown to hold in this setting.
Known == TypeOK /\ RoundInv /\ PublishInv /\ HonestInv /\ LockInv /\ KeyInv

LEMMA KnownHolds == RejectSetting => (Spec => []Known)
  <1> SUFFICES ASSUME RejectSetting PROVE Spec => []Known
    OBVIOUS
  <1>1. Misuse \subseteq Rejectable /\ ~Timeouts /\ Cardinality(Honest) * NumMsg >= 2
    BY DEF RejectSetting
  <1>4. KeySetting
    BY <1>1 DEF KeySetting, KeyMisuse, Rejectable
  <1>2. HonestSetting
    BY <1>1, <1>4 DEF HonestSetting, Rejectable
  <1>3. LockSetting
    BY <1>1, <1>4 DEF LockSetting, Blocking, Rejectable
  <1>5. Spec => []HonestInv /\ []LockInv /\ []KeyInv
    <2>1. Spec => []HonestInv
      BY <1>2, HonestInvHolds
    <2>2. Spec => []LockInv
      BY <1>3, LockInvHolds
    <2>3. Spec => []KeyInv
      BY <1>4, KeyInvHolds
    <2> QED
      BY <2>1, <2>2, <2>3
  <1>6. Known <=> TypeOK /\ RoundInv /\ PublishInv /\ HonestInv /\ LockInv /\ KeyInv
    BY DEF Known
  <1> QED
    BY <1>5, <1>6, Typed, RoundInvHolds, PublishInvHolds, PTL

\* A message under way that was not found unparsable is good, or an unsigned
\* transaction.
LEMMA PlainSent ==
    ASSUME RejectSetting, NEW m, Sent(m), m.val # "unparsable"
    PROVE  m.val = "good" \/ (m.kind = "sig" /\ m.val = "unsigned")
  BY DEF RejectSetting, Rejectable, Sent

\* Somebody is always a member.
LEMMA SomebodyStays ==
    ASSUME RejectSetting, HonestInv
    PROVE  session.peers # {}
  <1> SUFFICES ASSUME session.peers = {} PROVE FALSE
    OBVIOUS
  <1>1. Honest = {}
    BY DEF HonestInv, HonestThere, Spared
  <1>2. Cardinality(Honest) = 0
    BY <1>1, FS_EmptySet
  <1> QED
    BY <1>2, ConstantsOK DEF RejectSetting

\* No signed transaction is altered, so none has an input of nobody here.
LEMMA NothingAdded ==
    ASSUME RejectSetting, HonestInv
    PROVE  Added = {}
  <1>1. <<"sig", "altered">> \notin Misuse
    BY DEF RejectSetting, Rejectable
  <1>2. "sig" \in Stored
    BY DEF Stored, Rounds
  <1>3. \A p \in Peer : session.data[p].sig # "altered"
    BY <1>1, <1>2 DEF HonestInv, HonestThere, Spared
  <1> QED
    BY <1>3 DEF Added

\* The parts of the session that the order is about stay as they are.
OrderStays ==
    /\ session'.peers = session.peers /\ session'.state = session.state
    /\ session'.epoch = session.epoch /\ session'.data = session.data
    /\ session'.inputs = session.inputs /\ session'.sigs = session.sigs
    /\ session'.asked = session.asked

\* Nobody else is accused, and nobody's connection is opened.
NoNewPush ==
    /\ \A p \in Peer : reader'[p].at = "push" => reader'[p] = reader[p]
    /\ \A p \in Peer : conn'[p] = "open" => conn[p] = "open"

\* Such a step keeps the order, whatever else it does to run and the readers.
LEMMA OrderIdle ==
    ASSUME TypeOK, OrderInv, OrderStays, NoNewPush, Quiet,
           run'.at = "send" => run.at = "send" /\ run'.state = run.state,
           run'.at = "push" => run' = run
    PROVE  OrderInv'
  <1>1. \A m : Apt(session, m) => Apt(session', m)
    BY DEF Apt, Timely, OrderStays
  <1>2. InTime'
    <2>1. \A p \in Peer : SentNow(p)' => SentNow(p)
      BY DEF SentNow, Current, Quiet, OrderStays
    <2>2. \A p \in Peer : reader'[p].at = "send" => Apt(session', reader'[p].msg)
      BY <1>1 DEF OrderInv, InTime, Quiet
    <2>3. ASSUME run'.at = "handle"
          PROVE  /\ Apt(session', run'.msg)
                 /\ Current(run.msg)' /\ run'.msg.kind \in Mix => ~SentNow(run.msg.peer)'
      <3>1. run' = run /\ run.msg.peer \in Peer
        BY <2>3, PublishTypes, RunShape, MessageShape DEF Quiet
      <3>2. Current(run.msg)' => Current(run.msg)
        BY <3>1 DEF Current, OrderStays
      <3> QED
        BY <1>1, <2>1, <2>3, <3>1, <3>2 DEF OrderInv, InTime, SentNow
    <2> QED
      BY <2>2, <2>3 DEF InTime
  <1>3. Turn' /\ Signed' /\ SigLast' /\ Closed'
    BY DEF OrderInv, Turn, Signed, SigLast, Closed, OrderStays, NoNewPush, All, InOrder
  <1>4. Pushes'
    <2>1. \A q \in Peer : reader'[q].at = "push" =>
            /\ q \in session'.peers /\ session'.data[q].sig = "none"
            /\ ~(run'.at = "handle" /\ Current(run.msg)' /\ run'.msg.kind = "sig" /\ run'.msg.peer = q)
      BY DEF OrderInv, Pushes, Current, OrderStays, NoNewPush, Quiet
    <2>2. ASSUME run'.at = "push"
          PROVE  /\ session'.state \notin Ending /\ run'.epoch <= session'.epoch
                 /\ run'.epoch = session'.epoch => \A p \in run'.who : session'.data[p].sig # "none"
                 /\ run'.epoch # session'.epoch => session'.state = "KeyExchange"
                 /\ \A p \in run'.who : reader'[p].at # "push"
      <3>1. run' = run /\ run.who \subseteq Peer
        BY <2>2, PublishTypes, RunShape
      <3> QED
        BY <2>2, <3>1 DEF OrderInv, Pushes, OrderStays, NoNewPush
    <2> QED
      BY <2>1, <2>2 DEF Pushes
  <1> QED
    BY <1>2, <1>3, <1>4 DEF OrderInv

\* A restart while not all have signed outdates all messages under way.
LEMMA OrderRestarts ==
    ASSUME TypeOK, RoundInv, OrderInv, NEW P, session' = Restarted(P), Quiet, NoNewPush,
           session.state \notin Ending,
           \/ run' = run /\ run.at # "send"
           \/ run'.at = "send" /\ run'.state = "KeyExchange",
           \A q \in P : reader'[q].at # "push" /\ conn'[q] # "open"
    PROVE  OrderInv'
  <1>1. /\ session'.peers = session.peers \ P /\ session'.state = "KeyExchange"
        /\ session'.epoch = session.epoch + 1 /\ session'.inputs = {} /\ session'.sigs = {}
        /\ session'.asked = FALSE /\ session'.data = [p \in Peer |-> NoData]
        /\ session.epoch \in Nat
    BY RestartedFields, PublishTypes DEF TypeOK
  <1>2. \A p \in Peer : session'.data[p].sig = "none"
    BY <1>1 DEF NoData, Stored, Rounds
  <1>3. ASSUME NEW m \in Message, Apt(session, m), Backed(session, m)
        PROVE  Apt(session', m) /\ m.epoch # session'.epoch
    <2>1. m.epoch \in Nat /\ m.epoch <= session.epoch
      BY <1>3, MessageShape DEF Backed
    <2>2. m.kind # "pub"
      BY <1>3 DEF Apt, Timely, Mix
    <2> QED
      BY <1>1, <1>3, <2>1, <2>2 DEF Apt
  <1>4. ASSUME NEW p \in Peer, reader'[p].at = "send"
        PROVE  Apt(session', reader'[p].msg)
    <2>1. reader'[p] = reader[p] /\ reader[p].msg \in Message
      BY <1>4, PublishTypes, ReaderShape DEF Quiet
    <2>2. Apt(session, reader[p].msg) /\ Backed(session, reader[p].msg)
      BY <1>4, <2>1 DEF OrderInv, InTime, RoundInv, UnderWay
    <2> QED
      BY <1>3, <2>1, <2>2
  <1>5. ASSUME run'.at = "handle"
        PROVE  Apt(session', run'.msg) /\ run'.msg.epoch # session'.epoch
    <2>1. run' = run /\ run.msg \in Message
      BY <1>5, PublishTypes, RunShape DEF Quiet
    <2>2. Apt(session, run.msg) /\ Backed(session, run.msg)
      BY <1>5, <2>1 DEF OrderInv, InTime, RoundInv, UnderWay
    <2> QED
      BY <1>3, <2>1, <2>2
  <1>6. InTime'
    BY <1>4, <1>5 DEF InTime, Current
  <1>7. Turn' /\ Signed' /\ SigLast' /\ Closed'
    <2>1. Turn'
      BY <1>1 DEF Turn
    <2>2. Signed'
      BY <1>1 DEF Signed
    <2>3. SigLast'
      BY <1>2 DEF SigLast
    <2>4. Closed'
      BY <1>1 DEF OrderInv, Closed, NoNewPush
    <2> QED
      BY <2>1, <2>2, <2>3, <2>4
  <1>8. Pushes'
    <2>1. ASSUME NEW q \in Peer, reader'[q].at = "push"
          PROVE  q \in session'.peers /\ session'.data[q].sig = "none"
      BY <1>1, <1>2, <2>1 DEF OrderInv, Pushes, NoNewPush
    <2>2. ASSUME run'.at = "push"
          PROVE  /\ session'.state = "KeyExchange" /\ session'.state \notin Ending
                 /\ run'.epoch <= session'.epoch /\ run'.epoch # session'.epoch
                 /\ \A p \in run'.who : reader'[p].at # "push"
      <3>1. run' = run /\ run.epoch \in Nat /\ run.epoch <= session.epoch /\ run.who \subseteq Peer
        BY <2>2, PublishTypes, RunShape DEF OrderInv, Pushes
      <3>2. \A p \in run.who : reader'[p].at # "push"
        BY <2>2, <3>1 DEF OrderInv, Pushes, NoNewPush
      <3> QED
        BY <1>1, <3>1, <3>2 DEF Ending
    <2> QED
      BY <1>5, <2>1, <2>2 DEF Pushes, Current
  <1> QED
    BY <1>6, <1>7, <1>8 DEF OrderInv

-----------------------------------------------------------------------------
(* The steps that end a round.                                             *)

\* The states in their order.
LEMMA OrderCases ==
    ASSUME NEW from \in State, NEW to \in State, InOrder(from, to), to # "RevealSecret"
    PROVE  \/ from = "KeyExchange" /\ to = "DcExponential"
           \/ from = "DcExponential" /\ to = "DcXor"
           \/ from = "DcXor" /\ to = "TxInput"
           \/ from = "TxInput" /\ to = "TxSign"
           \/ from = "TxSign" /\ to \in Ending
           \/ from = "TxPublish" /\ to = "Completed"
  <1>1. Rank[from] \in 1..8 /\ Rank[to] \in 1..8
    BY DEF Rank, State
  <1>2. CASE from = "TxSign" /\ to = "Completed"
    BY <1>2 DEF Ending
  <1>3. CASE Rank[to] = Rank[from] + 1
    BY <1>3 DEF Rank, State, Ending
  <1> QED
    BY <1>2, <1>3 DEF InOrder

\* When a round ends, all members have sent what it asked for, so nothing that
\* is under way is for this round any more.
LEMMA OrderSent ==
    ASSUME TypeOK, RoundInv, LockInv, KeyInv, OrderInv, RunSent
    PROVE  OrderInv'
  <1>1. /\ run.at = "send" /\ session' = [session EXCEPT !.state = run.state, !.armed = @ \/ run.arm]
        /\ run' \in {Top, Exit} /\ UNCHANGED <<reader, conn>>
    BY DEF RunSent, RunAt, LockInv, Holding
  <1>2. /\ session'.peers = session.peers /\ session'.state = run.state
        /\ session'.epoch = session.epoch /\ session'.data = session.data
        /\ session'.inputs = session.inputs /\ session'.sigs = session.sigs
        /\ session'.asked = session.asked
        /\ run.state \in State /\ session.state \in State
    BY <1>1, PublishTypes, RunShape DEF SessionState
  <1>3. Quiet /\ NoNewPush /\ run'.at \in {"top", "exit"}
    BY <1>1 DEF Quiet, NoNewPush, Top, Exit
  <1>4. CASE run.state = session.state
    BY <1>2, <1>3, <1>4, OrderIdle DEF OrderStays
  <1>5. CASE run.state # session.state
    <2>1. InOrder(session.state, run.state) /\ run.state # "RevealSecret"
      BY <1>1, <1>5 DEF OrderInv, Turn
    <2>2. /\ session.state = "KeyExchange" => All(session, "pk")
          /\ session.state = "DcExponential" => All(session, "exp")
          /\ session.state = "DcXor" => All(session, "xor")
          /\ session.state = "TxInput" => All(session, "txin")
          /\ session.state = "TxSign" => All(session, "sig")
      <3>1. Present(session, Needs[run.state])
        BY <1>1 DEF RoundInv, Ahead
      <3>2. run.state = "DcExponential" => All(session, "pk")
        BY <1>1 DEF KeyInv, Beyond, Past, AllKeyed, Keyed, All
      <3>3. run.state = "Completed" => All(session, "sig")
        BY <1>1 DEF OrderInv, Signed
      <3> QED
        BY <1>2, <2>1, <3>1, <3>2, <3>3, OrderCases DEF Present, Needs, Ending
    <2>3. ASSUME NEW m, Apt(session, m)
          PROVE  Apt(session', m)
      <3>1. CASE m.epoch = session.epoch
        <4>1. Timely(session, m)
          BY <2>3, <3>1 DEF Apt
        <4>2. ~(m.kind \in Mix)
          BY <2>2, <4>1 DEF Timely, Mix, StateOf, All
        <4>3. m.kind = "sig" => Timely(session', m)
          BY <1>2, <2>2, <4>1, <4>2 DEF Timely, All
        <4>4. m.kind = "pub" => Timely(session', m)
          BY <1>2, <2>1, <4>1, <4>2, OrderCases DEF Timely, Ending
        <4> QED
          BY <1>2, <2>3, <4>1, <4>2, <4>3, <4>4 DEF Apt, Timely
      <3>2. CASE m.epoch # session.epoch
        BY <1>2, <2>3, <3>2 DEF Apt
      <3> QED
        BY <3>1, <3>2
    <2>4. InTime'
      BY <1>1, <1>3, <2>3 DEF OrderInv, InTime
    <2>5. Turn'
      BY <1>2, <1>3, <2>1 DEF OrderInv, Turn
    <2>6. Signed'
      BY <1>1, <1>2, <1>3 DEF OrderInv, Signed, All
    <2>7. SigLast'
      BY <1>2, <2>1, OrderCases DEF OrderInv, SigLast, Ending
    <2>8. Pushes' /\ Closed'
      BY <1>1, <1>2, <1>3 DEF OrderInv, Pushes, Closed
    <2> QED
      BY <2>4, <2>5, <2>6, <2>7, <2>8 DEF OrderInv
  <1> QED
    BY <1>4, <1>5

\* run takes a message from its sender's reader, which has no other.
LEMMA OrderReceives ==
    ASSUME TypeOK, PublishInv, OrderInv, NEW p \in Peer, Receive(p)
    PROVE  OrderInv'
  <1>1. /\ reader[p].at = "send" /\ reader[p].msg.peer = p /\ Apt(session, reader[p].msg)
        /\ run' = [at |-> "handle", msg |-> reader[p].msg]
        /\ reader' = [reader EXCEPT ![p] = [at |-> "read"]]
        /\ UNCHANGED <<session, conn>>
    BY DEF Receive, ReaderAt, PublishInv, OwnMessages, OrderInv, InTime
  <1>2. /\ run'.at = "handle" /\ run'.msg = reader[p].msg /\ reader'[p].at = "read"
        /\ \A q \in Peer \ {p} : reader'[q] = reader[q]
    BY <1>1, PublishTypes
  <1>3. InTime'
    BY <1>1, <1>2 DEF OrderInv, InTime, SentNow
  <1>4. Turn' /\ Signed' /\ SigLast' /\ Closed'
    BY <1>1, <1>2 DEF OrderInv, Turn, Signed, SigLast, Closed
  <1>5. Pushes'
    BY <1>1, <1>2 DEF OrderInv, Pushes
  <1> QED
    BY <1>3, <1>4, <1>5 DEF OrderInv

-----------------------------------------------------------------------------
(* The handlers.                                                           *)

\* The state a broadcast at the end of a round leads to.
After == [pk |-> "DcExponential", exp |-> "DcXor", xor |-> "TxInput", txin |-> "TxSign"]

\* A message of the mix is stored, and the last of its round ends the round.
MixStored(m) ==
    /\ session'.peers = session.peers /\ session'.epoch = session.epoch
    /\ session'.sigs = session.sigs /\ session'.asked = session.asked
    /\ \A p \in Peer, k \in Stored :
         session'.data[p][k] = IF p = m.peer /\ k = m.kind THEN m.val ELSE session.data[p][k]
    /\ \/ session'.state = session.state
       \/ m.kind = "xor" /\ session'.state = "TxInput" /\ All(session', "xor")
    /\ \/ run'.at = "top"
       \/ run'.at = "send" /\ run'.state = After[m.kind]

LEMMA MixHandled ==
    ASSUME TypeOK, PublishInv, KeyInv, LockInv, run.msg.val = "good",
           KeyExchange \/ DcExpVector \/ DcXorVector \/ TxInputs
    PROVE  /\ run.at = "handle" /\ run.msg.kind \in Mix /\ UNCHANGED <<reader, conn>>
           /\ \/ session' = session /\ run' = Top
              \/ Member(run.msg) /\ MixStored(run.msg)
  <1> DEFINE m == run.msg
             s == WithData(m)
             t == [s EXCEPT !.infos = @ + 1]
             x == [s EXCEPT !.state = "TxInput", !.armed = TRUE]
             u == [s EXCEPT !.inputs = s.peers]
  <1>1. run.at = "handle" /\ m.kind \in Mix /\ UNCHANGED reader
    BY DEF KeyExchange, DcExpVector, DcXorVector, TxInputs, Handling, RunAt, Mix
  <1>2. m \in Message /\ m.peer \in Peer /\ m.kind \in Stored /\ session \in SessionState
    BY <1>1, PublishTypes, RunShape, MessageShape DEF Mix, Stored, Rounds
  <1>3. /\ s \in SessionState /\ s.peers = session.peers /\ s.epoch = session.epoch
        /\ s.state = session.state /\ s.sigs = session.sigs /\ s.asked = session.asked
        /\ \A p \in Peer, k \in Stored :
             s.data[p][k] = IF p = m.peer /\ k = m.kind THEN m.val ELSE session.data[p][k]
    BY <1>2, WithDataFields, WithDataType
  <1>4. /\ \A y \in {t, x, u} : /\ y.peers = s.peers /\ y.epoch = s.epoch /\ y.sigs = s.sigs
                               /\ y.asked = s.asked /\ y.data = s.data
        /\ t.state = s.state /\ u.state = s.state /\ x.state = "TxInput"
    BY <1>3 DEF SessionState
  <1>5. ~errm
    BY DEF LockInv, Peaceful
  <1>6. CASE KeyExchange
    <2>1. m.kind = "pk"
      BY <1>6 DEF KeyExchange, Handling
    <2>2. UNCHANGED conn /\ \/ Resume(session, Top)
                            \/ Member(m) /\ \/ Resume(t, Top)
                                            \/ Broadcast(t, t.peers, "DcExponential", TRUE, Top)
      BY <1>6 DEF KeyExchange
    <2> HIDE DEF m, s, t, x, u
    <2>3. CASE Resume(session, Top)
      BY <1>1, <2>2, <2>3 DEF Resume, m
    <2>4. CASE Member(m) /\ session' = t /\ run' = Top
      BY <1>1, <1>3, <1>4, <2>1, <2>2, <2>4 DEF MixStored, Top, m
    <2>5. CASE Member(m) /\ session' = t /\ run'.at = "send" /\ run'.state = "DcExponential"
      BY <1>1, <1>3, <1>4, <2>1, <2>2, <2>5 DEF MixStored, After, m
    <2> QED
      BY <2>2, <2>3, <2>4, <2>5 DEF Resume, Broadcast
  <1>7. CASE DcExpVector
    <2>1. m.kind = "exp" /\ UNCHANGED conn
      BY <1>7 DEF DcExpVector, Handling
    <2>2. Member(m) => Solvable(s) = {TRUE}
      <3> SUFFICES ASSUME Member(m) PROVE Solvable(s) = {TRUE}
        OBVIOUS
      <3>1. \A p \in s.peers : s.data[p].exp # "wrong"
        BY <1>2, <1>3, <2>1, PublishTypes DEF LockInv, Peaceful, Unspoiled
      <3>2. session.state \notin {"Completed", "KeyExchange"} /\ session.peers # {}
        BY <1>1, <2>1 DEF PublishInv, Begun, KeyInv, Beyond, Member, Current
      <3>3. AllKeyed
        BY <1>1, <3>2 DEF KeyInv, Beyond, Going, Past
      <3>4. session.infos = Cardinality(session.peers)
        BY <1>1, <3>2, <3>3 DEF KeyInv, Counted, Going, AllKeyed
      <3>5. s.infos = session.infos
        BY <1>2, WithDataFields
      <3>6. \A q \in s.peers : s.data[q].pk # "none"
        <4>1. "pk" \in Stored /\ session.peers \subseteq Peer
          BY PublishTypes DEF Stored, Rounds
        <4> QED
          BY <1>3, <2>1, <3>3, <4>1 DEF AllKeyed, Keyed
      <3> HIDE DEF s
      <3>7. PaddingsCancel(s)
        BY <1>3, <3>4, <3>5, <3>6 DEF PaddingsCancel, KeysIn, All
      <3> QED
        BY <3>1, <3>7 DEF Solvable
    <2>3. \/ Resume(session, Top)
          \/ Member(m) /\ Resume(s, Top)
          \/ Member(m) /\ Broadcast(s, s.peers, "DcXor", TRUE, Top)
      BY <1>5, <1>7, <2>2 DEF DcExpVector
    <2> HIDE DEF m, s, t, x, u
    <2>4. CASE Resume(session, Top)
      BY <1>1, <2>1, <2>4 DEF Resume, m
    <2>5. CASE Member(m) /\ session' = s /\ run' = Top
      BY <1>1, <1>3, <2>1, <2>5 DEF MixStored, Top, m
    <2>6. CASE Member(m) /\ session' = s /\ run'.at = "send" /\ run'.state = "DcXor"
      BY <1>1, <1>3, <2>1, <2>6 DEF MixStored, After, m
    <2> QED
      BY <2>3, <2>4, <2>5, <2>6 DEF Resume, Broadcast
  <1>8. CASE DcXorVector
    <2>1. m.kind = "xor" /\ UNCHANGED conn
      BY <1>8 DEF DcXorVector, Handling
    <2>2. \/ Resume(session, Top)
          \/ Member(m) /\ Resume(s, Top)
          \/ Member(m) /\ All(s, "xor") /\ Broadcast(x, s.peers, "TxInput", FALSE, Top)
      BY <1>8 DEF DcXorVector
    <2> HIDE DEF m, s, t, x, u
    <2>3. CASE Resume(session, Top)
      BY <1>1, <2>1, <2>3 DEF Resume, m
    <2>4. CASE Member(m) /\ session' = s /\ run' = Top
      BY <1>1, <1>3, <2>1, <2>4 DEF MixStored, Top, m
    <2>5. CASE Member(m) /\ All(s, "xor") /\ session' = x /\ run'.at = "send" /\ run'.state = "TxInput"
      BY <1>1, <1>3, <1>4, <2>1, <2>5 DEF MixStored, After, All, m
    <2> QED
      BY <2>2, <2>3, <2>4, <2>5 DEF Resume, Broadcast
  <1>9. CASE TxInputs
    <2>1. m.kind = "txin" /\ UNCHANGED conn
      BY <1>9 DEF TxInputs, Handling
    <2>2. \/ Resume(session, Top)
          \/ Member(m) /\ Resume(s, Top)
          \/ Member(m) /\ Broadcast(u, s.peers, "TxSign", TRUE, Top)
      BY <1>9 DEF TxInputs
    <2> HIDE DEF m, s, t, x, u
    <2>3. CASE Resume(session, Top)
      BY <1>1, <2>1, <2>3 DEF Resume, m
    <2>4. CASE Member(m) /\ session' = s /\ run' = Top
      BY <1>1, <1>3, <2>1, <2>4 DEF MixStored, Top, m
    <2>5. CASE Member(m) /\ session' = u /\ run'.at = "send" /\ run'.state = "TxSign"
      BY <1>1, <1>3, <1>4, <2>1, <2>5 DEF MixStored, After, m
    <2> QED
      BY <2>2, <2>3, <2>4, <2>5 DEF Resume, Broadcast
  <1> QED
    BY <1>6, <1>7, <1>8, <1>9

\* run keeps the order as it stores a message of the mix.
LEMMA MixKeepsOrder ==
    ASSUME TypeOK, PublishInv, KeyInv, LockInv, OrderInv, run.msg.val = "good",
           KeyExchange \/ DcExpVector \/ DcXorVector \/ TxInputs
    PROVE  OrderInv'
  <1> DEFINE m == run.msg
  <1>1. /\ run.at = "handle" /\ m.kind \in Mix /\ UNCHANGED <<reader, conn>>
        /\ \/ session' = session /\ run' = Top
           \/ Member(m) /\ MixStored(m)
    BY MixHandled
  <1>2. CASE session' = session /\ run' = Top
    BY <1>1, <1>2, OrderIdle DEF OrderStays, NoNewPush, Quiet, Top
  <1>3. CASE Member(m) /\ MixStored(m)
    <2>1. /\ m.peer \in session.peers /\ m.epoch = session.epoch /\ m.val = "good"
          /\ session.state = StateOf[m.kind] /\ session.data[m.peer][m.kind] = "none"
          /\ ~SentNow(m.peer)
      BY <1>1, <1>3 DEF Member, Current, OrderInv, InTime, Apt, Timely, Mix
    <2> HIDE DEF m
    <2>2. /\ session'.peers = session.peers /\ session'.epoch = session.epoch
          /\ session'.sigs = session.sigs /\ session'.asked = session.asked
          /\ \A p \in Peer, k \in Stored :
               session'.data[p][k] = IF p = m.peer /\ k = m.kind THEN m.val ELSE session.data[p][k]
      BY <1>3 DEF MixStored
    <2>3. /\ \/ session'.state = session.state
             \/ session.state = "DcXor" /\ session'.state = "TxInput" /\ All(session', "xor")
          /\ session.state \in {"KeyExchange", "DcExponential", "DcXor", "TxInput"}
      BY <1>1, <1>3, <2>1 DEF MixStored, StateOf, Mix
    <2>4. /\ run'.at \in {"top", "send"}
          /\ run'.at = "send" => run'.state = After[m.kind]
      BY <1>3 DEF MixStored
    <2>5. Mix \subseteq Stored /\ "sig" \in Stored /\ "sig" \notin Mix /\ session.peers \subseteq Peer
      BY PublishTypes DEF Mix, Stored, Rounds
    <2>6. \A p \in Peer : session'.data[p].sig = session.data[p].sig /\ session.data[p].sig = "none"
      BY <1>1, <2>2, <2>3, <2>5 DEF OrderInv, SigLast, Ending
    <2>7. ASSUME NEW q \in Peer, reader[q].at = "send"
          PROVE  Apt(session', reader[q].msg)
      <3> DEFINE n == reader[q].msg
      <3>1. Apt(session, n) /\ n.peer = q
        BY <2>7 DEF OrderInv, InTime, PublishInv, OwnMessages
      <3>2. CASE n.epoch = session.epoch
        <4>1. Timely(session, n) /\ q # m.peer
          BY <2>1, <2>7, <3>1, <3>2 DEF Apt, SentNow, Current
        <4>2. /\ n.kind \in Mix /\ session.state = StateOf[n.kind]
              /\ q \in session.peers /\ session.data[q][n.kind] = "none"
          BY <2>3, <2>6, <3>1, <4>1 DEF Timely, Ending
        <4>3. session'.data[q][n.kind] = "none"
          BY <2>2, <2>5, <4>1, <4>2
        <4>4. session'.state = session.state
          BY <2>2, <2>3, <4>2, <4>3 DEF StateOf, Mix, All
        <4>5. Timely(session', n)
          BY <2>2, <3>1, <4>2, <4>3, <4>4 DEF Timely
        <4> QED
          BY <3>1, <4>2, <4>5 DEF Apt, Mix
      <3>3. CASE n.epoch # session.epoch
        BY <2>2, <3>1, <3>3 DEF Apt
      <3> QED
        BY <3>2, <3>3
    <2>8. InTime'
      BY <1>1, <2>4, <2>7 DEF InTime
    <2>9. Turn'
      <3>1. InOrder(session.state, After[m.kind]) /\ After[m.kind] # "RevealSecret"
        BY <1>1, <2>1 DEF InOrder, After, StateOf, Mix, Rank
      <3>2. m.kind = "xor" => After[m.kind] = "TxInput"
        BY DEF After
      <3>3. session.state = "DcXor" => m.kind = "xor"
        BY <1>1, <2>1 DEF StateOf, Mix
      <3> QED
        BY <2>2, <2>3, <2>4, <3>1, <3>2, <3>3 DEF OrderInv, Turn
    <2>10. Signed'
      BY <1>1, <2>3, <2>4 DEF Signed, After, Mix
    <2>11. SigLast'
      BY <2>6 DEF SigLast
    <2>12. Pushes' /\ Closed'
      BY <1>1, <2>2, <2>4, <2>6 DEF OrderInv, Pushes, Closed
    <2> QED
      BY <2>8, <2>9, <2>10, <2>11, <2>12 DEF OrderInv
  <1> QED
    BY <1>1, <1>2, <1>3

\* run keeps the order as it stores a signature: a signature is late only if
\* its sender has signed, and the transaction is sent out when all have.
LEMMA SignedKeepsOrder ==
    ASSUME RejectSetting, HonestInv, TypeOK, PublishInv, OrderInv, SignedTx,
           run.msg.val = "good" \/ run.msg.val = "unsigned"
    PROVE  OrderInv'
  <1>0. PICK X : LET m == run.msg
                     t == Joined(m, X)
                 IN \/ Resume(session, Top) \/ UNCHANGED <<session, run>>
                    \/ /\ Member(m) /\ session.data[m.peer].sig = "none"
                       /\ \/ Accuses(WithData(m), {m.peer}, Top)
                          \/ /\ X = session.inputs \/ X = session.inputs \cup {m.peer}
                             /\ \/ Resume(t, Top)
                                \/ All(t, "sig") /\ Broadcast(t, t.peers, "Completed", FALSE, Exit)
                                \/ \E q \in t.peers :
                                     Broadcast([t EXCEPT !.publisher = q], {q}, "TxPublish", TRUE, Top)
    BY Accusing DEF SignedTx, JoinedInputs
  <1> DEFINE m == run.msg
             s == WithData(m)
             t == Joined(m, X)
  <1>1. run.at = "handle" /\ m.kind = "sig" /\ UNCHANGED <<reader, conn>>
    BY DEF SignedTx, Handling, RunAt
  <1>2. /\ m \in Message /\ m.peer \in Peer /\ m.kind \in Stored /\ session \in SessionState
        /\ m.val # "none"
    BY <1>1, PublishTypes, RunShape, MessageShape DEF Stored, Rounds
  <1>3. /\ s \in SessionState /\ s.peers = session.peers /\ s.epoch = session.epoch
        /\ s.state = session.state /\ s.sigs = session.sigs /\ s.asked = session.asked
        /\ s.inputs = session.inputs
        /\ \A p \in Peer, k \in Stored :
             s.data[p][k] = IF p = m.peer /\ k = m.kind THEN m.val ELSE session.data[p][k]
    BY <1>2, WithDataFields, WithDataType
  <1>4. t = [s EXCEPT !.sigs = @ \cup {m.peer}, !.inputs = X]
    BY DEF Joined
  <1>5. /\ t.peers = s.peers /\ t.epoch = s.epoch /\ t.state = s.state
        /\ t.asked = s.asked /\ t.inputs = X /\ t.data = s.data
        /\ t.sigs = s.sigs \cup {m.peer}
        /\ \A q : LET y == [t EXCEPT !.publisher = q]
                  IN /\ y.peers = s.peers /\ y.epoch = s.epoch /\ y.state = s.state
                     /\ y.asked = s.asked /\ y.data = s.data
    BY <1>3, <1>4 DEF SessionState
  <1>6. \/ session' = session /\ run' \in {run, Top}
        \/ /\ Member(m) /\ session.data[m.peer].sig = "none"
           /\ \/ /\ session' = s /\ run'.at = "push" /\ run'.who = {m.peer} /\ run'.epoch = s.epoch
              \/ session' = t /\ run' = Top
              \/ /\ X = session.inputs \/ X = session.inputs \cup {m.peer}
                 /\ All(t, "sig") /\ session' = t /\ run'.at = "send" /\ run'.state = "Completed"
              \/ /\ \E q : session' = [t EXCEPT !.publisher = q]
                 /\ run'.at = "send" /\ run'.state = "TxPublish"
    <2>1. \/ Resume(session, Top) \/ UNCHANGED <<session, run>>
          \/ /\ Member(m) /\ session.data[m.peer].sig = "none"
             /\ \/ Accuses(s, {m.peer}, Top)
                \/ /\ X = session.inputs \/ X = session.inputs \cup {m.peer}
                   /\ \/ Resume(t, Top)
                      \/ All(t, "sig") /\ Broadcast(t, t.peers, "Completed", FALSE, Exit)
                      \/ \E q \in t.peers :
                           Broadcast([t EXCEPT !.publisher = q], {q}, "TxPublish", TRUE, Top)
      BY <1>0
    <2> HIDE DEF m, s, t
    <2> QED
      BY <2>1 DEF Resume, Accuses, Push, Broadcast
  <1>7. CASE session' = session /\ run' \in {run, Top}
    BY <1>1, <1>7, OrderIdle DEF OrderStays, NoNewPush, Quiet, Top
  <1>8. CASE /\ Member(m) /\ session.data[m.peer].sig = "none"
             /\ ~(session' = session /\ run' \in {run, Top})
    <2>1. m.peer \in session.peers /\ m.epoch = session.epoch /\ session.state = "TxSign"
      BY <1>1, <1>8 DEF Member, OrderInv, InTime, Apt, Timely, Mix
    <2> HIDE DEF m, s, t
    <2>2. /\ session'.peers = session.peers /\ session'.epoch = session.epoch
          /\ session'.state = session.state /\ session'.asked = session.asked
          /\ \A p \in Peer, k \in Stored :
               session'.data[p][k] = IF p = m.peer /\ k = m.kind THEN m.val ELSE session.data[p][k]
      <3>1. CASE session' = s
        BY <1>3, <3>1
      <3>2. CASE session' = t
        BY <1>3, <1>5, <3>2
      <3>3. ASSUME NEW q, session' = [t EXCEPT !.publisher = q]
            PROVE  /\ session'.peers = s.peers /\ session'.epoch = s.epoch
                   /\ session'.state = s.state /\ session'.asked = s.asked
                   /\ session'.data = s.data
        BY <1>5, <3>3
      <3>4. CASE \E q : session' = [t EXCEPT !.publisher = q]
        BY <1>3, <3>3, <3>4
      <3> QED
        BY <1>6, <1>8, <3>1, <3>2, <3>4
    <2>3. /\ run'.at \in {"top", "push", "send"}
          /\ run'.at = "push" => run'.who = {m.peer} /\ run'.epoch = session.epoch
          /\ run'.at = "send" => run'.state \in Ending
      BY <1>3, <1>6, <1>8 DEF Top, Ending
    <2>4. "sig" \in Stored /\ "sig" \notin Mix /\ session.peers \subseteq Peer
      BY PublishTypes DEF Mix, Stored, Rounds
    <2>5. ASSUME NEW q \in Peer, reader[q].at = "send"
          PROVE  Apt(session', reader[q].msg)
      <3> DEFINE n == reader[q].msg
      <3>1. Apt(session, n)
        BY <2>5 DEF OrderInv, InTime
      <3>2. CASE n.epoch = session.epoch
        <4>1. Timely(session, n)
          BY <3>1, <3>2 DEF Apt
        <4>2. n.kind = "sig"
          BY <2>1, <4>1 DEF Timely, Ending, StateOf, Mix
        <4>3. Timely(session', n)
          BY <2>1, <2>2, <4>1, <4>2 DEF Timely
        <4> QED
          BY <3>1, <4>2, <4>3 DEF Apt
      <3>3. CASE n.epoch # session.epoch
        BY <2>2, <3>1, <3>3 DEF Apt
      <3> QED
        BY <3>2, <3>3
    <2>6. InTime'
      BY <1>1, <2>3, <2>5 DEF InTime
    <2>7. Turn'
      BY <2>1, <2>2, <2>3 DEF OrderInv, Turn, InOrder, Ending, Rank
    <2>8. Signed'
      <3>1. ASSUME run'.at = "send", run'.state = "Completed"
            PROVE  /\ session' = t /\ All(t, "sig")
                   /\ X = session.inputs \/ X = session.inputs \cup {m.peer}
        BY <1>6, <1>8, <3>1 DEF Top
      <3>2. ASSUME session' = t, All(t, "sig"),
                   X = session.inputs \/ X = session.inputs \cup {m.peer}
            PROVE  /\ session'.inputs # {} /\ session'.inputs \subseteq session'.sigs
                   /\ All(session', "sig")
        <4>1. session.inputs # {} /\ session.inputs \subseteq session.peers \cup session.sigs
          BY <2>1, NothingAdded DEF PublishInv, InputsIn
        <4>2. \A p \in session.peers : p = m.peer \/ session.data[p].sig # "none"
          BY <1>3, <1>5, <2>4, <3>2 DEF All
        <4>3. \A p \in session.peers : p = m.peer \/ p \in session.sigs
          BY <1>1, <4>2 DEF PublishInv, SigsIn
        <4> QED
          BY <1>3, <1>5, <3>2, <4>1, <4>3 DEF All
      <3> QED
        BY <2>1, <2>2, <3>1, <3>2 DEF Signed
    <2>9. SigLast'
      BY <2>1, <2>2 DEF SigLast
    <2>10. Pushes'
      <3>1. \A q \in Peer : reader'[q].at = "push" =>
              q \in session'.peers /\ session'.data[q].sig = "none"
        BY <1>1, <2>1, <2>2, <2>4 DEF OrderInv, Pushes, Current, m
      <3>2. run'.at = "push" =>
              /\ session'.state \notin Ending /\ run'.epoch <= session'.epoch
              /\ \A p \in run'.who : session'.data[p].sig # "none"
        BY <1>1, <1>2, <2>1, <2>2, <2>3, <2>4, PublishTypes DEF Ending
      <3>3. reader'[m.peer].at # "push"
        BY <1>1, <1>2, <2>1 DEF OrderInv, Pushes, Current, m
      <3>4. run'.at = "push" => \A p \in run'.who : reader'[p].at # "push"
        BY <2>3, <3>3
      <3>5. run'.at = "handle" => FALSE
        BY <2>3
      <3>6. run'.at = "push" => run'.epoch = session'.epoch
        BY <2>2, <2>3
      <3> QED
        BY <3>1, <3>2, <3>4, <3>5, <3>6 DEF Pushes
    <2>11. Closed'
      BY <1>1, <2>2 DEF OrderInv, Closed
    <2> QED
      BY <2>6, <2>7, <2>8, <2>9, <2>10, <2>11 DEF OrderInv
  <1> QED
    BY <1>6, <1>7, <1>8

\* The result is awaited, and all members have signed.
LEMMA ResultKeepsOrder ==
    ASSUME RejectSetting, HonestInv, TypeOK, RoundInv, PublishInv, OrderInv, PublishResult
    PROVE  OrderInv'
  <1>1. /\ run.at = "handle" /\ run.msg.kind = "pub" /\ session' = session
        /\ run'.at = "send" /\ run'.state = "Completed" /\ UNCHANGED <<reader, conn>>
    BY DEF PublishResult, Handling, RunAt, Broadcast
  <1>2. session.state \in Ending
    BY <1>1 DEF OrderInv, InTime, Apt, Timely, Mix
  <1>3. InTime' /\ SigLast' /\ Pushes' /\ Closed'
    BY <1>1 DEF OrderInv, InTime, SigLast, Pushes, Closed
  <1>4. Turn'
    BY <1>1, <1>2 DEF OrderInv, Turn, InOrder, Ending, Rank
  <1>5. Signed'
    <2>1. CASE session.state = "TxPublish"
      <3>1. session.inputs # {} /\ session.inputs \subseteq session.sigs
        BY <2>1, NothingAdded DEF PublishInv, InputsIn, Publishing
      <3>2. All(session, "sig")
        BY <2>1, RoundDataIsPresence DEF RoundInv, Present, Needs
      <3> QED
        BY <1>1, <3>1, <3>2 DEF Signed
    <2>2. CASE session.state = "Completed"
      BY <1>1, <2>2 DEF OrderInv, Signed
    <2> QED
      BY <1>2, <2>1, <2>2 DEF Ending
  <1> QED
    BY <1>3, <1>4, <1>5 DEF OrderInv

\* All handlers: secrets are not asked for, and nobody misses a message.
LEMMA HandlersKeepOrder ==
    ASSUME RejectSetting, Known, OrderInv,
           \/ KeyExchange \/ DcExpVector \/ DcXorVector \/ TxInputs \/ SignedTx
           \/ PublishResult \/ RevealSecret \/ MsgNotFound
    PROVE  OrderInv'
  <1>1. run.at = "handle"
    BY DEF KeyExchange, DcExpVector, DcXorVector, TxInputs, SignedTx, PublishResult,
           RevealSecret, MsgNotFound, Handling, RunAt
  <1>2. Apt(session, run.msg) /\ Sent(run.msg)
    BY <1>1 DEF Known, HonestInv, Spoken, OrderInv, InTime
  <1>3. run.msg.val = "good" \/ (run.msg.kind = "sig" /\ run.msg.val = "unsigned")
    BY <1>2, PlainSent DEF Apt
  <1>4. ~RevealSecret /\ ~MsgNotFound
    BY <1>2 DEF Apt, Rounds, RevealSecret, MsgNotFound, Handling
  <1>5. CASE KeyExchange \/ DcExpVector \/ DcXorVector \/ TxInputs
    <2>1. run.msg.kind # "sig"
      BY <1>5 DEF KeyExchange, DcExpVector, DcXorVector, TxInputs, Handling
    <2> QED
      BY <1>3, <1>5, <2>1, MixKeepsOrder DEF Known
  <1>6. CASE SignedTx
    BY <1>3, <1>6, SignedKeepsOrder DEF Known
  <1>7. CASE PublishResult
    BY <1>7, ResultKeepsOrder DEF Known
  <1> QED
    BY <1>4, <1>5, <1>6, <1>7

-----------------------------------------------------------------------------
(* The other steps.                                                        *)

\* While somebody is accused, not all members have signed.
LEMMA NotEnding ==
    ASSUME RoundInv, OrderInv, run.at = "push" \/ (\E q \in Peer : reader[q].at = "push")
    PROVE  session.state \notin Ending
  <1>1. CASE run.at = "push"
    BY <1>1 DEF OrderInv, Pushes
  <1>2. ASSUME NEW q \in Peer, reader[q].at = "push" PROVE ~All(session, "sig")
    BY <1>2 DEF OrderInv, Pushes, All
  <1>3. session.state = "TxPublish" => All(session, "sig")
    BY RoundDataIsPresence DEF RoundInv, Present, Needs
  <1>4. session.state = "Completed" => All(session, "sig")
    BY DEF OrderInv, Signed
  <1> QED
    BY <1>1, <1>2, <1>3, <1>4 DEF Ending

\* run restarts the session without a member that no reader is about to accuse
\* as well.
LEMMA RunPushKeepsOrder ==
    ASSUME RejectSetting, Known, HonestInv', OrderInv, RunPush
    PROVE  OrderInv'
  <1>0. PICK out : RunPushed(out)
    BY Pushing
  <1>1. /\ run.at = "push" /\ mu = Free /\ Close(out) /\ UNCHANGED <<reader, writer>>
        /\ \/ session.peers \subseteq out /\ session' = Without(out)
           \/ /\ session' = Restarted(out) /\ run'.at = "send" /\ run'.state = "KeyExchange"
    BY <1>0 DEF RunPushed, Resume, Broadcast
  <1>2. out \subseteq run.who
    BY <1>0, PushedOut
  <1>3. run.who \subseteq Peer
    BY <1>1, PublishTypes, RunShape DEF Known
  <1>4. \A q \in out : q \in Peer /\ reader[q].at # "push"
    BY <1>1, <1>2, <1>3 DEF OrderInv, Pushes
  <1>5. \A q \in out : conn'[q] # "open"
    BY <1>1, <1>4 DEF Close
  <1>6. NoNewPush /\ (run'.at = "send" => Quiet)
    <2>1. \A q \in Peer : conn'[q] = "open" => conn[q] = "open"
      BY <1>1 DEF Close
    <2> QED
      BY <1>1, <2>1 DEF Quiet, NoNewPush
  <1>7. session'.peers # {}
    <2>1. session'.peers = session.peers \ out
      BY <1>1, OutRemoved DEF Known
    <2>2. Honest \subseteq session'.peers
      BY DEF HonestInv, HonestThere, Spared
    <2>3. Honest # {}
      BY FS_EmptySet, ConstantsOK DEF RejectSetting
    <2> QED
      BY <2>2, <2>3
  <1>8. ~(session.peers \subseteq out)
    <2>1. session'.peers = session.peers \ out
      BY <1>1, OutRemoved DEF Known
    <2> QED
      BY <1>7, <2>1
  <1>9. session.state \notin Ending
    BY <1>1, NotEnding DEF Known
  <1> QED
    BY <1>1, <1>4, <1>5, <1>6, <1>8, <1>9, OrderRestarts DEF Known

\* The steps of run keep the order.
LEMMA RunKeepsOrder ==
    ASSUME RejectSetting, Known, HonestInv', OrderInv, RunStep \/ Timeout
    PROVE  OrderInv'
  <1>1. ~Expired /\ ~EvictPublisher /\ ~RangeDone /\ ~Timeout
    BY DEF Expired, EvictPublisher, RangeDone, RunAt, Timeout, RejectSetting, Known, LockInv, Peaceful
  <1>2. CASE Loop
    <2>1. UNCHANGED <<session, reader, conn>> /\ run'.at \in {"done", "select"}
      BY <1>2 DEF Loop
    <2> QED
      BY <2>1, OrderIdle DEF OrderStays, NoNewPush, Quiet, Known
  <1>3. ASSUME NEW p \in Peer, Receive(p) PROVE OrderInv'
    BY <1>3, OrderReceives DEF Known
  <1>4. ASSUME NEW q \in Peer, RunSend(q) PROVE OrderInv'
    <2>1. /\ run.at = "send" /\ run' = [run EXCEPT !.to = @ \ {q}] /\ UNCHANGED <<session, reader, conn>>
      BY <1>4 DEF RunSend, RunAt
    <2>2. run = [at |-> "send", to |-> run.to, state |-> run.state, arm |-> run.arm, then |-> run.then]
      BY <2>1, PublishTypes, RunShape DEF Known
    <2>3. run'.at = "send" /\ run'.state = run.state
      BY <2>1, <2>2
    <2> QED
      BY <2>1, <2>3, OrderIdle DEF OrderStays, NoNewPush, Quiet, Known
  <1>5. CASE RunSent
    BY <1>5, OrderSent DEF Known
  <1>6. CASE RunPush
    BY <1>6, RunPushKeepsOrder
  <1>7. CASE RunExit
    <2>1. run'.at = "done" /\ UNCHANGED <<session, reader, conn>>
      BY <1>7 DEF RunExit, Known, LockInv, Peaceful
    <2> QED
      BY <2>1, OrderIdle DEF OrderStays, NoNewPush, Quiet, Known
  <1> QED
    BY <1>1, <1>2, <1>3, <1>4, <1>5, <1>6, <1>7, HandlersKeepOrder DEF RunStep

\* A reader restarts the session without its own peer.
LEMMA ReaderPushKeepsOrder ==
    ASSUME RejectSetting, Known, HonestInv', OrderInv, NEW p \in Peer, ReaderPush(p)
    PROVE  OrderInv'
  <1>0. PICK out : ReaderPushed(p, out)
    BY Pushing
  <1>1. /\ reader[p].at = "push" /\ mu = Free /\ Close(out) /\ UNCHANGED run
        /\ \/ /\ session.peers \subseteq out /\ session' = Without(out)
           \/ /\ session' = Restarted(out)
              /\ \E to : ReaderSends(p, to, FALSE, "read")
    BY <1>0 DEF ReaderPushed
  <1>2. out \subseteq {p}
    BY <1>0, PushedOut
  <1>3. session'.peers = session.peers \ out
    BY <1>1, OutRemoved DEF Known
  <1>4. session'.peers # {}
    <2>1. Honest \subseteq session'.peers
      BY DEF HonestInv, HonestThere, Spared
    <2>2. Honest # {}
      BY FS_EmptySet, ConstantsOK DEF RejectSetting
    <2> QED
      BY <2>1, <2>2
  <1>5. session' = Restarted(out) /\ \E to : ReaderSends(p, to, FALSE, "read")
    BY <1>1, <1>3, <1>4
  <1>6. reader'[p].at = "bcast" /\ \A q \in Peer \ {p} : reader'[q] = reader[q]
    <2>1. ASSUME NEW to, ReaderSends(p, to, FALSE, "read")
          PROVE  reader'[p].at = "bcast" /\ \A q \in Peer \ {p} : reader'[q] = reader[q]
      BY <2>1, PublishTypes DEF ReaderSends, Rework, Known
    <2> QED
      BY <1>5, <2>1
  <1>7. \A q \in Peer : /\ conn'[q] = "open" => conn[q] = "open"
                        /\ q \in out => conn'[q] # "open"
    BY <1>1 DEF Close
  <1>8. Quiet /\ NoNewPush
    BY <1>1, <1>6, <1>7 DEF Quiet, NoNewPush
  <1>9. session.state \notin Ending
    BY <1>1, NotEnding DEF Known
  <1>10. run.at # "send"
    BY <1>1, NobodySends DEF Known
  <1> QED
    BY <1>1, <1>2, <1>5, <1>6, <1>7, <1>8, <1>9, <1>10, OrderRestarts DEF Known

\* The readers: one that fails is that of a removed peer.
LEMMA ReaderKeepsOrder ==
    ASSUME RejectSetting, Known, HonestInv', OrderInv, NEW p \in Peer, ReaderStep(p)
    PROVE  OrderInv'
  <1>1. ~Drop(p)
    BY DEF Drop, ReaderAt, Known, LockInv, Peaceful
  <1>2. reader \in [Peer -> ReaderState] /\ session \in SessionState
    BY PublishTypes DEF Known
  <1>3. ASSUME OrderStays, run' = run, \A q \in Peer \ {p} : reader'[q] = reader[q],
               reader'[p].at \notin {"send", "push", "drop"},
               \A q \in Peer : conn'[q] = "open" => conn[q] = "open"
        PROVE  OrderInv'
    BY <1>3, OrderIdle DEF Quiet, NoNewPush, Known
  <1>4. ASSUME NEW q \in Peer, ReaderSend(p, q) PROVE OrderInv'
    <2>1. /\ reader[p].at = "bcast" /\ reader' = [reader EXCEPT ![p] = [reader[p] EXCEPT !.to = @ \ {q}]]
          /\ UNCHANGED <<session, run, conn>>
      BY <1>4 DEF ReaderSend, ReaderAt, Rework
    <2>2. reader[p] = [at |-> "bcast", to |-> reader[p].to, arm |-> reader[p].arm, then |-> reader[p].then]
      BY <1>2, <2>1, ReaderShape
    <2>3. reader'[p].at = "bcast" /\ \A r \in Peer \ {p} : reader'[r] = reader[r]
      BY <1>2, <2>1, <2>2
    <2> QED
      BY <1>3, <2>1, <2>3 DEF OrderStays
  <1>5. CASE ReaderSent(p)
    <2>1. /\ reader' = [reader EXCEPT ![p] = [at |-> "read"]] /\ UNCHANGED <<run, conn>>
          /\ session' = [session EXCEPT !.armed = @ \/ reader[p].arm]
      BY <1>5 DEF ReaderSent, ReaderAt, Rework, Known, LockInv, Holding
    <2>2. reader'[p].at = "read" /\ \A r \in Peer \ {p} : reader'[r] = reader[r]
      BY <1>2, <2>1
    <2>3. OrderStays
      BY <1>2, <2>1 DEF OrderStays, SessionState
    <2> QED
      BY <1>3, <2>1, <2>2, <2>3
  <1>6. CASE ReaderError(p)
    <2>1. p \notin session.peers
      BY <1>6 DEF ReaderError, Known, LockInv, Attended
    <2>2. /\ session' = session \/ session' = Without({p})
          /\ Rework(p, [at |-> "closing"]) /\ Close({p}) /\ UNCHANGED run
      BY <1>6, <2>1 DEF ReaderError
    <2>3. OrderStays
      <3>1. CASE session' = session
        BY <3>1 DEF OrderStays
      <3>2. CASE session' = Without({p})
        <4>1. /\ session'.peers = session.peers \ {p} /\ session'.state = session.state
              /\ session'.epoch = session.epoch /\ session'.data = session.data
              /\ session'.inputs = session.inputs /\ session'.sigs = session.sigs
              /\ session'.asked = session.asked
          BY <1>2, <3>2, WithoutFields
        <4> QED
          BY <2>1, <4>1 DEF OrderStays
      <3> QED
        BY <2>2, <3>1, <3>2
    <2>4. reader'[p].at = "closing" /\ \A r \in Peer \ {p} : reader'[r] = reader[r]
      BY <1>2, <2>2 DEF Rework
    <2>5. \A q \in Peer : conn'[q] = "open" => conn[q] = "open"
      BY <2>2 DEF Close
    <2> QED
      BY <1>3, <2>2, <2>3, <2>4, <2>5
  <1>7. CASE ReaderClose(p)
    <2>1. /\ UNCHANGED <<session, run, conn>> /\ reader[p].at = "closing"
          /\ Rework(p, [at |-> "gone"]) \/ UNCHANGED reader
      BY <1>7 DEF ReaderClose, ReaderAt
    <2>2. reader'[p].at \in {"closing", "gone"} /\ \A r \in Peer \ {p} : reader'[r] = reader[r]
      BY <1>2, <2>1 DEF Rework
    <2> QED
      BY <1>3, <2>1, <2>2 DEF OrderStays
  <1> QED
    BY <1>1, <1>4, <1>5, <1>6, <1>7, ReaderPushKeepsOrder DEF ReaderStep

\* What a client can send: an unparsable message of a round before the last, or
\* one it is asked for, or an unsigned transaction.
LEMMA ClientSays ==
    ASSUME RejectSetting, Known, OrderInv, NEW p \in Peer, NEW k \in Kind, NEW v \in Payload,
           Accept(p, k, v)
    PROVE  /\ reader[p].at = "read" /\ p \in session.peers /\ OrderStays /\ UNCHANGED <<run, conn>>
           /\ Expected(p, k)
           /\ \/ v = "unparsable" /\ k \in {"exp", "xor", "txin", "vk", "nf"}
                 /\ Rework(p, [at |-> "push", epoch |-> session.epoch])
              \/ /\ k \in Rounds \cup {"pub"}
                 /\ (v = "good" /\ Due(p, k)) \/ (k = "sig" /\ v = "unsigned")
                 /\ Rework(p, [at |-> "send", msg |-> [kind |-> k, peer |-> p,
                                   epoch |-> session.epoch, val |-> Sized(k, v)]])
  <1>1. /\ reader[p].at = "read" /\ conn[p] = "open" /\ Expected(p, k) /\ ClientSends(p, k, v)
        /\ UNCHANGED <<run, conn>>
    BY DEF Accept, ReaderAt
  <1>2. p \in session.peers
    BY <1>1 DEF OrderInv, Closed
  <1>3. ~session.finding /\ (k = "nf" => ~Spoiled)
    <2>1. ~session.finding /\ session.peers \subseteq Peer
      BY PublishTypes DEF Known, LockInv, Peaceful, Unspoiled
    <2>2. ASSUME k = "nf" PROVE ~Spoiled
      <3>1. session.state \in {"DcXor", "TxInput"} /\ session.peers # {}
        BY <1>1, <1>2, <2>2 DEF Expected
      <3>2. AllKeyed /\ session.infos = Cardinality(Keyed)
        BY <3>1 DEF Known, KeyInv, Beyond, Counted, Going, Past, MixStates
      <3>3. PaddingsCancel(session)
        BY <3>2 DEF PaddingsCancel, KeysIn, All, AllKeyed, Keyed
      <3> QED
        BY <2>1, <3>3 DEF Known, LockInv, Peaceful, Unspoiled, Spoiled
    <2> QED
      BY <2>1, <2>2
  <1>4. ~session.asked
    BY DEF OrderInv, Turn
  <1>5. (v = "good" /\ Due(p, k)) \/ <<k, v>> \in Misuse
    <2>1. <<k, "again">> \notin Misuse
      BY DEF RejectSetting, Rejectable
    <2> QED
      BY <1>1, <2>1 DEF ClientSends
  <1>6. <<k, v>> \in Misuse =>
          \/ v = "unparsable" /\ k \in {"exp", "xor", "txin", "vk", "nf"}
          \/ k = "sig" /\ v = "unsigned"
    BY DEF RejectSetting, Rejectable
  <1>7. v = "good" /\ Due(p, k) => k \in Rounds \cup {"pub"}
    BY <1>3, <1>4 DEF Due, Kind, Stored, Rounds
  <1>8. session' = [session EXCEPT !.finding = @ \/ (k = "nf" /\ v # "unparsable")]
    BY <1>3 DEF Accept
  <1>9. OrderStays
    BY <1>8, PublishTypes DEF OrderStays, SessionState, Known
  <1>10. v = "unparsable" /\ k # "pk" => Rework(p, [at |-> "push", epoch |-> session.epoch])
    BY <1>3 DEF Accept
  <1>11. v # "unparsable" =>
           Rework(p, [at |-> "send", msg |-> [kind |-> k, peer |-> p,
                          epoch |-> session.epoch, val |-> Sized(k, v)]])
    BY <1>3 DEF Accept
  <1>12. "sig" \in Rounds
    BY DEF Rounds
  <1> QED
    BY <1>1, <1>2, <1>5, <1>6, <1>7, <1>9, <1>10, <1>11, <1>12

\* What is sent is what the session waits for, and who is accused has not signed.
LEMMA ClientKeepsOrder ==
    ASSUME RejectSetting, Known, OrderInv, NEW p \in Peer, ClientStep(p)
    PROVE  OrderInv'
  <1>1. PICK k \in Kind, v \in Payload : Accept(p, k, v)
    BY DEF ClientStep
  <1>2. /\ reader[p].at = "read" /\ p \in session.peers /\ OrderStays /\ UNCHANGED <<run, conn>>
        /\ Expected(p, k)
    BY <1>1, ClientSays
  <1>3. \A m : Apt(session, m) => Apt(session', m)
    BY <1>2 DEF Apt, Timely, OrderStays
  <1>4. Turn' /\ Signed' /\ SigLast' /\ Closed'
    BY <1>2 DEF OrderInv, Turn, Signed, SigLast, Closed, OrderStays, All, InOrder
  <1>5. run.at = "handle" => Apt(session, run.msg) /\ run.msg.peer \in Peer
    BY PublishTypes, RunShape, MessageShape DEF OrderInv, InTime, Known
  <1>6. reader \in [Peer -> ReaderState]
    BY PublishTypes DEF Known
  <1>7. CASE /\ v = "unparsable" /\ k \in {"exp", "xor", "txin", "vk", "nf"}
             /\ Rework(p, [at |-> "push", epoch |-> session.epoch])
    <2>1. reader'[p].at = "push" /\ \A q \in Peer \ {p} : reader'[q] = reader[q]
      BY <1>6, <1>7 DEF Rework
    <2>2. session.state \in {"DcExponential", "DcXor", "TxInput"}
      BY <1>2, <1>7 DEF Expected, OrderInv, Turn
    <2>3. session.data[p].sig = "none"
      BY <2>2 DEF OrderInv, SigLast, Ending
    <2>4. run.at = "handle" /\ Current(run.msg) /\ run.msg.kind = "sig" => run.msg.peer # p
      BY <1>5, <2>2, <2>3 DEF Apt, Timely, Current, Mix
    <2>9. run.at = "push" => p \notin run.who
      BY <2>2, <2>3 DEF OrderInv, Pushes
    <2>5. Pushes'
      <3>1. \A q \in Peer : reader'[q].at = "push" =>
              /\ q \in session'.peers /\ session'.data[q].sig = "none"
              /\ ~(run'.at = "handle" /\ Current(run.msg)' /\ run'.msg.kind = "sig" /\ run'.msg.peer = q)
        BY <1>2, <2>1, <2>3, <2>4 DEF OrderInv, Pushes, OrderStays, Current
      <3>2. run'.at = "push" => run.who \subseteq Peer
        BY <1>2, PublishTypes, RunShape DEF Known
      <3>3. run'.at = "push" => \A q \in run'.who : reader'[q].at # "push"
        BY <1>2, <2>1, <2>9, <3>2 DEF OrderInv, Pushes
      <3> QED
        BY <1>2, <3>1, <3>3 DEF OrderInv, Pushes, OrderStays
    <2>6. \A q \in Peer : SentNow(q)' => SentNow(q)
      BY <1>2, <2>1 DEF SentNow, Current, OrderStays
    <2>7. InTime'
      <3>1. \A q \in Peer : reader'[q].at = "send" => Apt(session', reader'[q].msg)
        BY <1>3, <2>1 DEF OrderInv, InTime
      <3>2. ASSUME run'.at = "handle"
            PROVE  /\ Apt(session', run'.msg)
                   /\ Current(run.msg)' /\ run'.msg.kind \in Mix => ~SentNow(run.msg.peer)'
        <4>1. Current(run.msg)' => Current(run.msg)
          BY <1>2 DEF Current, OrderStays
        <4>2. SentNow(run.msg.peer)' => SentNow(run.msg.peer)
          BY <1>2, <1>5, <2>6, <3>2 DEF SentNow
        <4> QED
          BY <1>2, <1>3, <1>5, <3>2, <4>1, <4>2 DEF OrderInv, InTime
      <3> QED
        BY <3>1, <3>2 DEF InTime
    <2> QED
      BY <1>4, <2>5, <2>7 DEF OrderInv
  <1>8. CASE /\ k \in Rounds \cup {"pub"}
             /\ (v = "good" /\ Due(p, k)) \/ (k = "sig" /\ v = "unsigned")
             /\ Rework(p, [at |-> "send", msg |-> [kind |-> k, peer |-> p,
                               epoch |-> session.epoch, val |-> Sized(k, v)]])
    <2> DEFINE m == [kind |-> k, peer |-> p, epoch |-> session.epoch, val |-> Sized(k, v)]
    <2>1. /\ reader'[p].at = "send" /\ reader'[p].msg = m
          /\ \A q \in Peer \ {p} : reader'[q] = reader[q]
      BY <1>6, <1>8 DEF Rework
    <2>2. Timely(session, m)
      <3>1. CASE k \in Mix
        <4>1. v = "good" /\ Due(p, k) /\ k \in Stored
          BY <1>8, <3>1 DEF Mix, Stored, Rounds
        <4>2. session.data[p][k] = "none"
          BY <4>1 DEF Due
        <4>3. session.state = StateOf[k]
          <5>1. k = "pk" => session.state = "KeyExchange"
            BY <1>2 DEF Expected
          <5>2. k = "exp" => session.state = "DcExponential"
            BY <1>2 DEF Expected
          <5>3. k = "xor" => session.state = "DcXor"
            BY <1>2 DEF Expected
          <5>4. k = "txin" => session.state = "TxInput"
            BY <1>2 DEF Expected
          <5> QED
            BY <3>1, <5>1, <5>2, <5>3, <5>4 DEF Mix, StateOf
        <4> QED
          BY <1>2, <3>1, <4>2, <4>3 DEF Timely
      <3>2. CASE k = "sig"
        BY <1>2, <3>2 DEF Timely, Expected
      <3>3. CASE k = "pub"
        BY <1>2, <3>3 DEF Timely, Expected, Ending
      <3> QED
        BY <1>8, <3>1, <3>2, <3>3 DEF Mix, Rounds
    <2>3. Apt(session, m)
      <3>1. m.val # "unparsable"
        BY <1>8 DEF Sized
      <3> QED
        BY <1>8, <2>2, <3>1 DEF Apt
    <2>4. run.at = "handle" /\ Current(run.msg) /\ run.msg.kind \in Mix => run.msg.peer # p
      <3>1. CASE v = "good" /\ Due(p, k)
        BY <3>1 DEF Due
      <3>2. CASE k = "sig"
        <4>1. session.state = "TxSign"
          BY <1>2, <3>2 DEF Expected
        <4> QED
          BY <1>5, <4>1 DEF Apt, Timely, Current, Mix, StateOf
      <3> QED
        BY <1>8, <3>1, <3>2
    <2> HIDE DEF m
    <2>5. \A q \in Peer \ {p} : SentNow(q)' => SentNow(q)
      BY <1>2, <2>1 DEF SentNow, Current, OrderStays
    <2>6. InTime'
      <3>1. \A q \in Peer : reader'[q].at = "send" => Apt(session', reader'[q].msg)
        BY <1>3, <2>1, <2>3 DEF OrderInv, InTime
      <3>2. ASSUME run'.at = "handle"
            PROVE  /\ Apt(session', run'.msg)
                   /\ Current(run.msg)' /\ run'.msg.kind \in Mix => ~SentNow(run.msg.peer)'
        <4>1. Current(run.msg)' => Current(run.msg)
          BY <1>2 DEF Current, OrderStays
        <4>2. run.msg.peer # p => (SentNow(run.msg.peer)' => SentNow(run.msg.peer))
          BY <1>2, <1>5, <2>5, <3>2 DEF SentNow
        <4> QED
          BY <1>2, <1>3, <1>5, <2>4, <3>2, <4>1, <4>2 DEF OrderInv, InTime
      <3> QED
        BY <3>1, <3>2 DEF InTime
    <2>7. Pushes'
      <3>1. \A q \in Peer : reader'[q].at = "push" =>
              /\ q \in session'.peers /\ session'.data[q].sig = "none"
              /\ ~(run'.at = "handle" /\ Current(run.msg)' /\ run'.msg.kind = "sig" /\ run'.msg.peer = q)
        BY <1>2, <2>1 DEF OrderInv, Pushes, OrderStays, Current
      <3>2. run'.at = "push" => run.who \subseteq Peer
        BY <1>2, PublishTypes, RunShape DEF Known
      <3>3. run'.at = "push" => \A q \in run'.who : reader'[q].at # "push"
        BY <1>2, <2>1, <3>2 DEF OrderInv, Pushes
      <3> QED
        BY <1>2, <3>1, <3>3 DEF OrderInv, Pushes, OrderStays
    <2> QED
      BY <1>4, <2>6, <2>7 DEF OrderInv
  <1> QED
    BY <1>1, <1>7, <1>8, ClientSays

-----------------------------------------------------------------------------
(* The theorems.                                                           *)

\* Every step keeps the order.
LEMMA StepKeepsOrder ==
    ASSUME RejectSetting, Known, HonestInv', OrderInv, [Next]_vars
    PROVE  OrderInv'
  <1>1. CASE UNCHANGED vars
    BY <1>1, OrderIdle DEF vars, OrderStays, NoNewPush, Quiet, Known
  <1>2. ASSUME NEW p \in Peer PROVE ~WriterStep(p) /\ ~Leave(p)
    BY DEF WriterStep, WriterError, WriterElects, WriterAt, Leave, RejectSetting, Rejectable,
           Known, LockInv, Peaceful
  <1> QED
    BY <1>1, <1>2, RunKeepsOrder, ReaderKeepsOrder, ClientKeepsOrder DEF Next

\* If all that is misused is refused with a restart, each message under way is
\* one the session waits for, and nobody is accused once all have signed.
THEOREM OrderInvHolds == RejectSetting => (Spec => []OrderInv)
  <1> SUFFICES ASSUME RejectSetting PROVE Spec => []OrderInv
    OBVIOUS
  <1>1. Init => OrderInv
    <2> SUFFICES ASSUME Init PROVE OrderInv
      OBVIOUS
    <2>1. /\ run.at = "top" /\ session.peers = Peer /\ session.state = "KeyExchange"
          /\ ~session.asked /\ session.data = [p \in Peer |-> NoData]
          /\ \A p \in Peer : reader[p].at = "read"
      BY DEF Init, NewJoinSession, Top
    <2>2. \A p \in Peer : session.data[p].sig = "none"
      BY <2>1 DEF NoData, Stored, Rounds
    <2> QED
      BY <2>1, <2>2 DEF OrderInv, InTime, Turn, Signed, SigLast, Pushes, Closed
  <1>2. Known /\ Known' /\ OrderInv /\ [Next]_vars => OrderInv'
    BY StepKeepsOrder DEF Known
  <1>3. Spec => []Known
    BY KnownHolds
  <1> QED
    BY <1>1, <1>2, <1>3, PTL DEF Spec

\* The transaction with whose publication the session completes spends at least
\* one input, and each that it spends is signed by its owner: the result of a
\* publication never completes another life of the session (PublishResult,
\* joinsession.go, which looks at neither the sender nor the state).
THEOREM CompletedIsSignedHolds == RejectSetting => (Spec => []CompletedIsSigned)
  <1> SUFFICES ASSUME RejectSetting PROVE Spec => []CompletedIsSigned
    OBVIOUS
  <1>1. OrderInv => CompletedIsSigned
    BY DEF OrderInv, Signed, CompletedIsSigned
  <1>2. Spec => []OrderInv
    BY OrderInvHolds
  <1> QED
    BY <1>1, <1>2, PTL

-----------------------------------------------------------------------------
(***************************************************************************)
(* What the steps do to the state of the session, and to its life.         *)
(***************************************************************************)

\* A step within one life, with the same members; who is accused is one.
Onward ==
    /\ session'.epoch = session.epoch /\ session'.peers = session.peers
    /\ session'.state = session.state \/ InOrder(session.state, session'.state)
    /\ run'.at = "push" => \/ run' = run
                           \/ run'.epoch = session.epoch /\ run'.who \cap session.peers # {}
    /\ \A p \in Peer : reader'[p].at = "push" =>
         reader'[p] = reader[p] \/ reader'[p].epoch = session.epoch

\* A restart by run, and one by a reader.
RunRestarts ==
    /\ run.at = "push" /\ run'.at = "send" /\ reader' = reader
    /\ \E epoch \in {run.epoch, session.epoch} : session' = Restarted(Accused(run.who, epoch))
ReaderRestarts(p) ==
    /\ reader[p].at = "push"
    /\ \E epoch \in {reader[p].epoch, session.epoch} : session' = Restarted(Accused({p}, epoch))
    /\ reader'[p].at # "push" /\ \A q \in Peer \ {p} : reader'[q] = reader[q]
    /\ run' = run

\* Handlers go on, also where they accuse: the accused is the sender.
LEMMA HandlersOnward ==
    ASSUME RejectSetting, Known, OrderInv,
           \/ KeyExchange \/ DcExpVector \/ DcXorVector \/ TxInputs \/ SignedTx
           \/ PublishResult \/ RevealSecret \/ MsgNotFound
    PROVE  Onward
  <1>1. run.at = "handle"
    BY DEF KeyExchange, DcExpVector, DcXorVector, TxInputs, SignedTx, PublishResult,
           RevealSecret, MsgNotFound, Handling, RunAt
  <1>2. Apt(session, run.msg) /\ Sent(run.msg)
    BY <1>1 DEF Known, HonestInv, Spoken, OrderInv, InTime
  <1>3. run.msg.val = "good" \/ (run.msg.kind = "sig" /\ run.msg.val = "unsigned")
    BY <1>2, PlainSent DEF Apt
  <1>4. ~RevealSecret /\ ~MsgNotFound
    BY <1>2 DEF Apt, Rounds, RevealSecret, MsgNotFound, Handling
  <1>5. CASE KeyExchange \/ DcExpVector \/ DcXorVector \/ TxInputs
    <2>1. run.msg.kind # "sig"
      BY <1>5 DEF KeyExchange, DcExpVector, DcXorVector, TxInputs, Handling
    <2>2. /\ run.msg.kind \in Mix /\ UNCHANGED reader
          /\ \/ session' = session /\ run' = Top
             \/ Member(run.msg) /\ MixStored(run.msg)
      BY <1>3, <1>5, <2>1, MixHandled DEF Known
    <2>3. CASE session' = session /\ run' = Top
      BY <2>2, <2>3 DEF Onward, Top
    <2>4. CASE Member(run.msg) /\ MixStored(run.msg)
      <3>1. session.state = StateOf[run.msg.kind]
        BY <1>2, <2>2, <2>4 DEF Member, Apt, Timely, Mix
      <3>2. session'.state = session.state \/ (session.state = "DcXor" /\ session'.state = "TxInput")
        BY <2>4, <3>1 DEF MixStored, StateOf
      <3>3. run'.at # "push"
        BY <2>4 DEF MixStored
      <3> QED
        BY <2>2, <2>4, <3>2, <3>3 DEF MixStored, Onward, InOrder, Rank
    <2> QED
      BY <2>2, <2>3, <2>4
  <1>6. CASE SignedTx
    <2> DEFINE m == run.msg
               s == WithData(m)
    <2>1. m \in Message /\ m.kind = "sig" /\ m.kind \in Stored /\ session \in SessionState
      BY <1>1, <1>6, PublishTypes, RunShape DEF SignedTx, Handling, Known, Stored, Rounds
    <2>2. s \in SessionState /\ s.peers = session.peers /\ s.epoch = session.epoch /\ s.state = session.state
      BY <2>1, WithDataFields, WithDataType
    <2> HIDE DEF s
    <2> DEFINE joined(X) == Joined(m, X)
               elected(X, q) == [joined(X) EXCEPT !.publisher = q]
    <2>5. \A X : joined(X) = [s EXCEPT !.sigs = @ \cup {m.peer}, !.inputs = X]
      BY DEF Joined, s
    <2> HIDE DEF joined
    <2>6. \A X : LET y == joined(X)
                IN /\ y.peers = s.peers /\ y.epoch = s.epoch /\ y.state = s.state
                   /\ \A q : LET e == [y EXCEPT !.publisher = q]
                             IN e.peers = s.peers /\ e.epoch = s.epoch /\ e.state = s.state
      <3> SUFFICES ASSUME NEW X
                   PROVE  LET y == joined(X)
                          IN /\ y.peers = s.peers /\ y.epoch = s.epoch /\ y.state = s.state
                             /\ \A q : LET e == [y EXCEPT !.publisher = q]
                                       IN e.peers = s.peers /\ e.epoch = s.epoch /\ e.state = s.state
        OBVIOUS
      <3> DEFINE y == joined(X)
      <3>1. y = [s EXCEPT !.sigs = @ \cup {m.peer}, !.inputs = X]
        BY <2>5
      <3> HIDE DEF y, m
      <3> QED
        BY <2>2, <3>1 DEF SessionState, y
    <2>7. \A X, q : LET y == elected(X, q)
                   IN y.peers = s.peers /\ y.epoch = s.epoch /\ y.state = s.state
      BY <2>6
    <2>8. \/ Resume(session, Top) \/ UNCHANGED session \/ Accuses(s, {m.peer}, Top)
          \/ \E X : \/ Resume(joined(X), Top)
                    \/ Broadcast(joined(X), joined(X).peers, "Completed", FALSE, Exit)
                    \/ \E q : Broadcast(elected(X, q), {q}, "TxPublish", TRUE, Top)
      BY <1>6, Accusing DEF SignedTx, joined, s
    <2> HIDE DEF elected
    <2>3. /\ session'.peers = session.peers /\ session'.epoch = session.epoch
          /\ session'.state = session.state /\ UNCHANGED reader
      <3>1. UNCHANGED reader
        BY <1>6 DEF SignedTx
      <3>2. session' = session \/ session' = s \/ \E X : session' = joined(X) \/ \E q : session' = elected(X, q)
        BY <2>8 DEF Resume, Accuses, Push, Broadcast
      <3> QED
        BY <2>2, <2>6, <2>7, <3>1, <3>2
    <2>4. run'.at = "push" => Member(m) /\ run'.who = {m.peer} /\ run'.epoch = s.epoch
      <3>1. \/ Member(m) /\ Accuses(s, {m.peer}, Top)
            \/ \E y : Resume(y, Top)
            \/ \E y, to, state, arm, then : Broadcast(y, to, state, arm, then)
            \/ UNCHANGED run
        BY <1>3, <1>6, Accusing DEF SignedTx, s
      <3> QED
        BY <1>1, <3>1 DEF Accuses, Push, Resume, Broadcast, Top
    <2> QED
      BY <2>2, <2>3, <2>4 DEF Onward, Member
  <1>7. CASE PublishResult
    BY <1>7 DEF PublishResult, Broadcast, Onward
  <1> QED
    BY <1>4, <1>5, <1>6, <1>7

\* pushMaliciousInfo never removes everybody.
LEMMA SomeRemain ==
    ASSUME RejectSetting, HonestInv', TypeOK, NEW P, session' = Without(P)
    PROVE  ~(session.peers \subseteq P)
  <1>1. session'.peers = session.peers \ P
    BY OutRemoved
  <1>2. Honest \subseteq session'.peers
    BY DEF HonestInv, HonestThere, Spared
  <1>3. Honest # {}
    BY FS_EmptySet, ConstantsOK DEF RejectSetting
  <1> QED
    BY <1>1, <1>2, <1>3

\* A step that leaves the state, or ends a broadcast, goes on.
LEMMA RunOnward ==
    ASSUME RejectSetting, Known, HonestInv', OrderInv, RunStep \/ Timeout
    PROVE  Onward \/ RunRestarts
  <1>1. ~Expired /\ ~EvictPublisher /\ ~RangeDone /\ ~Timeout
    BY DEF Expired, EvictPublisher, RangeDone, RunAt, Timeout, RejectSetting, Known, LockInv, Peaceful
  <1>2. reader \in [Peer -> ReaderState] /\ session \in SessionState /\ session.epoch \in Nat
    BY PublishTypes DEF Known
  <1>3. CASE Loop \/ RunExit
    BY <1>3 DEF Loop, RunExit, Onward
  <1>4. ASSUME NEW p \in Peer, Receive(p) PROVE Onward
    <2>1. \A q \in Peer : reader'[q] = reader[q] \/ reader'[q].at = "read"
      BY <1>2, <1>4 DEF Receive
    <2> QED
      BY <1>4, <2>1 DEF Receive, Onward
  <1>5. ASSUME NEW q \in Peer, RunSend(q) PROVE Onward
    <2>1. /\ run.at = "send" /\ run' = [run EXCEPT !.to = @ \ {q}] /\ UNCHANGED <<session, reader>>
      BY <1>5 DEF RunSend, RunAt
    <2>2. run = [at |-> "send", to |-> run.to, state |-> run.state, arm |-> run.arm, then |-> run.then]
      BY <2>1, PublishTypes, RunShape DEF Known
    <2>3. run'.at = "send"
      BY <2>1, <2>2
    <2> QED
      BY <2>1, <2>3 DEF Onward
  <1>6. CASE RunSent
    <2>1. /\ run.at = "send" /\ session' = [session EXCEPT !.state = run.state, !.armed = @ \/ run.arm]
          /\ run' \in {Top, Exit} /\ UNCHANGED reader
      BY <1>6 DEF RunSent, RunAt, Known, LockInv, Holding
    <2>2. run.state = session.state \/ InOrder(session.state, run.state)
      BY <2>1 DEF OrderInv, Turn
    <2> QED
      BY <1>2, <2>1, <2>2 DEF Onward, Top, Exit, SessionState
  <1>7. CASE RunPush
    <2>0. PICK out : RunPushed(out)
      BY <1>7, Pushing
    <2>1. /\ run.at = "push" /\ UNCHANGED reader
          /\ \E epoch \in {run.epoch, session.epoch} : out = Accused(run.who, epoch)
          /\ \/ session.peers \subseteq out /\ session' = Without(out)
             \/ session' = Restarted(out) /\ run'.at = "send"
      BY <2>0 DEF RunPushed, Resume, Broadcast
    <2> QED
      BY <2>1, SomeRemain DEF RunRestarts, Known
  <1> QED
    BY <1>1, <1>3, <1>4, <1>5, <1>6, <1>7, HandlersOnward DEF RunStep

\* A reader goes on, or restarts the session.
LEMMA ReaderOnward ==
    ASSUME RejectSetting, Known, HonestInv', OrderInv, NEW p \in Peer, ReaderStep(p)
    PROVE  Onward \/ ReaderRestarts(p)
  <1>1. ~Drop(p)
    BY DEF Drop, ReaderAt, Known, LockInv, Peaceful
  <1>2. reader \in [Peer -> ReaderState] /\ session \in SessionState
    BY PublishTypes DEF Known
  <1>3. ASSUME session'.peers = session.peers, session'.epoch = session.epoch,
               session'.state = session.state, run' = run,
               NEW r, r.at # "push", Rework(p, r)
        PROVE  Onward
    BY <1>2, <1>3 DEF Onward, Rework
  <1>4. ASSUME NEW q \in Peer, ReaderSend(p, q) PROVE Onward
    <2>1. /\ reader[p].at = "bcast" /\ Rework(p, [reader[p] EXCEPT !.to = @ \ {q}])
          /\ UNCHANGED <<session, run>>
      BY <1>4 DEF ReaderSend, ReaderAt
    <2>2. reader[p] = [at |-> "bcast", to |-> reader[p].to, arm |-> reader[p].arm, then |-> reader[p].then]
      BY <1>2, <2>1, ReaderShape
    <2>3. [reader[p] EXCEPT !.to = @ \ {q}].at = "bcast"
      BY <2>2
    <2> QED
      BY <1>3, <2>1, <2>3
  <1>5. CASE ReaderSent(p)
    <2>1. /\ Rework(p, [at |-> "read"]) /\ UNCHANGED run
          /\ session' = [session EXCEPT !.armed = @ \/ reader[p].arm]
      BY <1>5 DEF ReaderSent, ReaderAt, Known, LockInv, Holding
    <2>2. /\ session'.peers = session.peers /\ session'.epoch = session.epoch
          /\ session'.state = session.state
      BY <1>2, <2>1 DEF SessionState
    <2> QED
      BY <1>3, <2>1, <2>2
  <1>6. CASE ReaderError(p)
    <2>1. p \notin session.peers
      BY <1>6 DEF ReaderError, Known, LockInv, Attended
    <2>2. /\ session' = session \/ session' = Without({p})
          /\ Rework(p, [at |-> "closing"]) /\ UNCHANGED run
      BY <1>6, <2>1 DEF ReaderError
    <2>3. /\ session'.peers = session.peers \ {p} \/ session'.peers = session.peers
          /\ session'.epoch = session.epoch /\ session'.state = session.state
      BY <1>2, <2>2, WithoutFields
    <2> QED
      BY <1>3, <2>1, <2>2, <2>3
  <1>7. CASE ReaderClose(p)
    BY <1>2, <1>7 DEF ReaderClose, ReaderAt, Rework, Onward
  <1>8. CASE ReaderPush(p)
    <2>0. PICK out : ReaderPushed(p, out)
      BY <1>8, Pushing
    <2>1. /\ reader[p].at = "push" /\ UNCHANGED run
          /\ \E epoch \in {reader[p].epoch, session.epoch} : out = Accused({p}, epoch)
          /\ \/ session.peers \subseteq out /\ session' = Without(out)
             \/ session' = Restarted(out) /\ \E to : ReaderSends(p, to, FALSE, "read")
      BY <2>0 DEF ReaderPushed
    <2>2. ASSUME NEW to, ReaderSends(p, to, FALSE, "read")
          PROVE  reader'[p].at # "push" /\ \A q \in Peer \ {p} : reader'[q] = reader[q]
      BY <1>2, <2>2 DEF ReaderSends, Rework
    <2> QED
      BY <2>1, <2>2, SomeRemain DEF ReaderRestarts, Known
  <1> QED
    BY <1>1, <1>4, <1>5, <1>6, <1>7, <1>8 DEF ReaderStep

\* All steps: the session goes on, or somebody restarts it.
LEMMA StepKinds ==
    ASSUME RejectSetting, Known, HonestInv', OrderInv, [Next]_vars
    PROVE  Onward \/ RunRestarts \/ \E p \in Peer : ReaderRestarts(p)
  <1>1. CASE UNCHANGED vars
    BY <1>1 DEF vars, Onward
  <1>2. ASSUME NEW p \in Peer PROVE ~WriterStep(p) /\ ~Leave(p)
    BY DEF WriterStep, WriterError, WriterElects, WriterAt, Leave, RejectSetting, Rejectable,
           Known, LockInv, Peaceful
  <1>3. ASSUME NEW p \in Peer, ClientStep(p) PROVE Onward
    <2>1. PICK k \in Kind, v \in Payload : Accept(p, k, v)
      BY <1>3 DEF ClientStep
    <2>2. /\ OrderStays /\ UNCHANGED run
          /\ \/ Rework(p, [at |-> "push", epoch |-> session.epoch])
             \/ \E m : Rework(p, [at |-> "send", msg |-> m])
      BY <2>1, ClientSays
    <2>3. reader \in [Peer -> ReaderState]
      BY PublishTypes DEF Known
    <2> QED
      BY <2>2, <2>3 DEF OrderStays, Onward, Rework
  <1> QED
    BY <1>1, <1>2, <1>3, RunOnward, ReaderOnward DEF Next

\* A restart goes back to the next life's key exchange.
LEMMA RestartCounts ==
    ASSUME TypeOK, NEW P, session' = Restarted(P)
    PROVE  session'.epoch # session.epoch /\ session'.peers = session.peers \ P
  <1>1. session'.epoch = session.epoch + 1 /\ session.epoch \in Nat
    BY RestartedFields, PublishTypes
  <1> QED
    BY <1>1, OutRemoved

\* Within one life the session goes through its states one by one (the session
\* state set by the handlers and checked by the readers): no late message, and
\* no copy of one, takes it back or past a round.
THEOREM RoundsInOrderHolds == RejectSetting => (Spec => RoundsInOrder)
  <1> SUFFICES ASSUME RejectSetting PROVE Spec => RoundsInOrder
    OBVIOUS
  <1>1. Known /\ Known' /\ OrderInv /\ [Next]_vars =>
          [session'.epoch = session.epoch /\ session'.state # session.state =>
             \/ Rank[session'.state] = Rank[session.state] + 1
             \/ session.state = "TxSign" /\ session'.state = "Completed"]_vars
    <2> SUFFICES ASSUME Known, HonestInv', OrderInv, [Next]_vars,
                        session'.epoch = session.epoch, session'.state # session.state
                 PROVE  InOrder(session.state, session'.state)
      BY DEF InOrder, Known
    <2>1. ~RunRestarts /\ \A p \in Peer : ~ReaderRestarts(p)
      BY RestartCounts DEF RunRestarts, ReaderRestarts, Known
    <2>2. Onward
      BY <2>1, StepKinds
    <2> QED
      BY <2>2 DEF Onward
  <1>2. Spec => []Known /\ []OrderInv
    BY KnownHolds, OrderInvHolds
  <1> QED
    BY <1>1, <1>2, PTL DEF Spec, RoundsInOrder

\* One peer at most misbehaves.
Single == \A p, q \in Faulty : p = q

\* The accused are faulty, and there is but one: run and its reader do not both
\* accuse it, and there is no second reader.
LEMMA OneCulprit ==
    ASSUME RejectSetting, Single, Known, OrderInv, Culprits
    PROVE  /\ run.at = "push" => \A q \in Peer : reader[q].at # "push"
           /\ \A p, q \in Peer : reader[p].at = "push" /\ reader[q].at = "push" => p = q
  <1>1. \A q \in Peer : reader[q].at = "push" => q \in Faulty
    BY DEF Known, HonestInv, HonestThere, Honest
  <1>2. ASSUME run.at = "push", NEW q \in Peer, reader[q].at = "push" PROVE FALSE
    <2>1. PICK r \in run.who \cap session.peers : TRUE
      BY <1>2 DEF Culprits
    <2>2. r \in Faulty
      BY <1>2, <2>1, PublishTypes DEF Known, HonestInv, Mild, Honest
    <2>3. r = q
      BY <1>1, <1>2, <2>2 DEF Single
    <2> QED
      BY <1>2, <2>1, <2>3 DEF OrderInv, Pushes, Culprits
  <1> QED
    BY <1>1, <1>2 DEF Single

\* A restart happens only to get rid of somebody (pushMaliciousInfo), if one
\* peer at most misbehaves; two of them, found out at once, restart the session
\* twice, the second time for nothing.
THEOREM RestartRemovesHolds == RejectSetting /\ Single => (Spec => RestartRemoves)
  <1> SUFFICES ASSUME RejectSetting, Single PROVE Spec => RestartRemoves
    OBVIOUS
  <1>1. Init => Culprits
    BY DEF Init, Top, Culprits
  <1>2. ASSUME Known, HonestInv', OrderInv, Culprits, RunRestarts
        PROVE  Culprits' /\ session'.peers # session.peers
    <2>1. /\ \A q \in Peer : reader'[q].at # "push"
          /\ run'.at # "push"
      BY <1>2, OneCulprit DEF RunRestarts
    <2>2. run.epoch = session.epoch /\ Accused(run.who, run.epoch) \cap session.peers # {}
      BY <1>2 DEF RunRestarts, Culprits, Accused
    <2>3. session'.peers = session.peers \ Accused(run.who, run.epoch)
      BY <1>2, <2>2, RestartCounts DEF RunRestarts, Known
    <2> QED
      BY <2>1, <2>2, <2>3 DEF Culprits
  <1>3. ASSUME Known, HonestInv', OrderInv, Culprits, NEW p \in Peer, ReaderRestarts(p)
        PROVE  Culprits' /\ session'.peers # session.peers
    <2>1. \A q \in Peer : reader'[q].at # "push"
      BY <1>3, OneCulprit DEF ReaderRestarts
    <2>2. run'.at # "push"
      BY <1>3, OneCulprit DEF ReaderRestarts
    <2>3. reader[p].epoch = session.epoch /\ p \in Accused({p}, reader[p].epoch) \cap session.peers
      BY <1>3 DEF ReaderRestarts, Culprits, Accused, OrderInv, Pushes
    <2>4. session'.peers = session.peers \ Accused({p}, reader[p].epoch)
      BY <1>3, <2>3, RestartCounts DEF ReaderRestarts, Known
    <2> QED
      BY <2>1, <2>2, <2>3, <2>4 DEF Culprits
  <1>4. ASSUME Culprits, Onward
        PROVE  Culprits' /\ session'.epoch = session.epoch
    BY <1>4 DEF Onward, Culprits
  <1>5. Known /\ Known' /\ OrderInv /\ Culprits /\ [Next]_vars => Culprits'
    BY <1>2, <1>3, <1>4, StepKinds DEF Known
  <1>6. Known /\ Known' /\ OrderInv /\ Culprits /\ [Next]_vars =>
          [session'.epoch # session.epoch => session'.peers # session.peers]_vars
    BY <1>2, <1>3, <1>4, StepKinds DEF Known
  <1>7. Spec => []Known /\ []OrderInv
    BY KnownHolds, OrderInvHolds
  <1> QED
    BY <1>1, <1>5, <1>6, <1>7, PTL DEF Spec, RestartRemoves
=============================================================================

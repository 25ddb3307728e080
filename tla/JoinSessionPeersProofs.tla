----------------------- MODULE JoinSessionPeersProofs -----------------------
(***************************************************************************)
(* Proofs about what the misuse of some peers does to the others in a      *)
(* JoinSession: with whose keys they mix, whether they stay members, and   *)
(* whether somebody keeps the lock from them.  They need hypotheses: with  *)
(* a round timer or one of a few misuses the properties are false, and     *)
(* each hypothesis names what it excludes.                                 *)
(***************************************************************************)
EXTENDS JoinSessionProofs, FiniteSetTheorems

Honest == Peer \ Faulty

-----------------------------------------------------------------------------
(***************************************************************************)
(* Nobody mixes with a peer whose key the others have not been sent.  The  *)
(* mix starts when as many keys have been counted as there are members.    *)
(* That these are the members' keys needs that no peer is counted twice,   *)
(* and that no member leaves without a restart of the session.             *)
(***************************************************************************)

\* What removes a single member, or has its key counted twice.
KeyMisuse ==
    {<<"pk", "unparsable">>, <<"pk", "invalid">>, <<"pk", "again">>, <<"conn", "leave">>}

KeySetting == ~Timeouts /\ Misuse \cap KeyMisuse = {}

\* The members whose keys have come in.
Keyed == {p \in session.peers : session.data[p].pk # "none"}
AllKeyed == Keyed = session.peers

\* While run is not done, the goroutines of the members are all there, they
\* alone are written to, and run goes on as it does without timer or error.
Staying ==
    /\ run.at \notin {"expired", "range", "dead"}
    /\ \A p \in Peer : reader[p].at # "drop"
    /\ run.at # "done" =>
         /\ run.at = "send" => run.to \subseteq session.peers /\ run.then \in {Top, Exit}
         /\ \A p \in Peer :
              /\ writer[p].at \in {"ready", "gone"}
              /\ reader[p].at = "bcast" =>
                   reader[p].to \subseteq session.peers /\ reader[p].then = "read"
              /\ p \in session.peers => /\ conn[p] = "open" /\ writer[p].at = "ready"
                                       /\ reader[p].at \notin {"closing", "gone"}

\* A key that is under way has not been counted, and is under way once.
KeySent(p) == reader[p].at = "send" /\ reader[p].msg.kind = "pk" /\ Current(reader[p].msg)
KeyOnce ==
    /\ \A p \in Peer : /\ reader[p].at = "send" /\ reader[p].msg.kind = "pk" => reader[p].msg.val = "good"
                       /\ KeySent(p) => session.data[p].pk = "none"
    /\ run.at = "handle" /\ run.msg.kind = "pk" =>
         /\ run.msg.val = "good"
         /\ Current(run.msg) =>
              session.data[run.msg.peer].pk = "none" /\ ~KeySent(run.msg.peer)

\* A session that still goes on, or would if run were not done.
Going == run.at # "done" \/ session.state \in MixStates

Counted == Going /\ session.peers # {} => session.infos = Cardinality(Keyed)

\* The keys of all have come in when the session is past the key exchange.
Past(state) == state \notin {"KeyExchange", "Completed"}
Beyond ==
    /\ Going /\ Past(session.state) => AllKeyed
    /\ run.at = "send" /\ Past(run.state) => AllKeyed
    /\ session.state = "Completed" => run.at \in {"exit", "done"}
    /\ run.at = "send" /\ run.state = "Completed" => run.then = Exit

KeyInv == Staying /\ KeyOnce /\ Counted /\ Beyond

\* What the handlers but KeyExchange do: they store the message of a member at
\* most, keep the members, and send only to them.  Whoever begins a round is
\* a member, but PublishResult asks nobody.
LEMMA HandlerOutcome ==
    ASSUME TypeOK,
           \/ DcExpVector \/ DcXorVector \/ TxInputs \/ SignedTx
           \/ PublishResult \/ RevealSecret \/ MsgNotFound
    PROVE  LET m == run.msg
           IN /\ run.at = "handle" /\ m.kind # "pk" /\ mu = Free
              /\ UNCHANGED <<reader, writer, conn>>
              /\ session'.peers = session.peers /\ session'.epoch = session.epoch
              /\ session'.infos = session.infos
              /\ \A p \in Peer, k \in Stored :
                   \/ session'.data[p][k] = session.data[p][k]
                   \/ Member(m) /\ p = m.peer /\ k = m.kind /\ session'.data[p][k] = m.val
              /\ session'.state = session.state \/ (Member(m) /\ session'.state = "TxInput")
              /\ \/ UNCHANGED run
                 \/ run'.at \in {"top", "exit", "push"}
                 \/ /\ run'.at = "send" /\ run'.to \subseteq session.peers /\ run'.then \in {Top, Exit}
                    /\ run'.state # "KeyExchange" \/ run'.state = session.state
                    /\ run'.state = "Completed" => run'.then = Exit \/ run'.state = session.state
                    /\ run'.state = "Completed" \/ Member(m)
  <1> DEFINE m == run.msg
             s == WithData(m)
             Stores(x) == /\ x.peers = session.peers /\ x.epoch = session.epoch
                          /\ x.infos = session.infos
                          /\ \A p \in Peer, k \in Stored :
                               \/ x.data[p][k] = session.data[p][k]
                               \/ Member(m) /\ p = m.peer /\ k = m.kind /\ x.data[p][k] = m.val
             Ends == \/ UNCHANGED run
                     \/ run'.at \in {"top", "exit", "push"}
                     \/ /\ run'.at = "send" /\ run'.to \subseteq session.peers /\ run'.then \in {Top, Exit}
                        /\ run'.state # "KeyExchange" \/ run'.state = session.state
                        /\ run'.state = "Completed" => run'.then = Exit \/ run'.state = session.state
                        /\ run'.state = "Completed" \/ Member(m)
  <1>1. /\ run.at = "handle" /\ m.kind # "pk" /\ mu = Free /\ UNCHANGED <<reader, writer, conn>>
    BY DEF DcExpVector, DcXorVector, TxInputs, SignedTx, PublishResult,
           RevealSecret, MsgNotFound, Handling, RunAt
  <1>2. m \in Message /\ session \in SessionState /\ m.peer \in Peer
    BY <1>1, PublishTypes, RunShape, MessageShape
  <1>3. \A x \in {"exp", "xor", "txin", "sig", "vk"} : x \in Stored
    BY DEF Stored, Rounds
  <1>4. Stores(session)
    OBVIOUS
  <1>5. m.kind \in Stored => /\ s \in SessionState /\ s.peers = session.peers
                             /\ s.state = session.state
                             /\ (Member(m) => Stores(s))
    <2> SUFFICES ASSUME m.kind \in Stored
                 PROVE  /\ s \in SessionState /\ s.peers = session.peers
                        /\ s.state = session.state /\ (Member(m) => Stores(s))
      OBVIOUS
    <2>1. /\ s \in SessionState /\ s.peers = session.peers /\ s.epoch = session.epoch
          /\ s.infos = session.infos /\ s.state = session.state
          /\ \A p \in Peer, k \in Stored :
               s.data[p][k] = IF p = m.peer /\ k = m.kind THEN m.val ELSE session.data[p][k]
      BY <1>2, WithDataFields, WithDataType
    <2> HIDE DEF s, m
    <2> QED
      BY <2>1
  <1>6. ASSUME NEW x, NEW y, Stores(y), x.peers = y.peers, x.epoch = y.epoch,
               x.infos = y.infos, x.data = y.data
        PROVE  Stores(x)
    BY <1>6
  <1>7. ASSUME NEW x, NEW then \in {Top, Exit}, Resume(x, then) \/ (\E who : Accuses(x, who, then))
        PROVE  session' = x /\ Ends
    BY <1>7 DEF Resume, Accuses, Push, Top, Exit
  <1>8. ASSUME NEW x, NEW to, to \subseteq session.peers, NEW state, NEW arm, NEW then \in {Top, Exit},
               Broadcast(x, to, state, arm, then),
               state # "KeyExchange" \/ state = session.state,
               state = "Completed" => then = Exit \/ state = session.state,
               state = "Completed" \/ Member(m)
        PROVE  session' = x /\ Ends
    BY <1>8 DEF Broadcast
  <1>9. SUFFICES ASSUME TRUE
                 PROVE  /\ Stores(session') /\ Ends
                        /\ session'.state = session.state \/ (Member(m) /\ session'.state = "TxInput")
    BY <1>1 DEF m, Stores, Ends
  <1>10. Exit \in {Top, Exit} /\ Top \in {Top, Exit}
    OBVIOUS
  <1> HIDE DEF m, s, Stores, Ends
  <1>11. CASE DcExpVector
    <2> DEFINE t == [s EXCEPT !.asked = TRUE]
    <2>1. m.kind \in Stored
      BY <1>3, <1>11 DEF DcExpVector, Handling, m
    <2>2. \/ Resume(session, Top)
          \/ Accuses(session, {m.peer}, Exit) \/ Accuses(session, {m.peer}, Top)
          \/ /\ Member(m)
             /\ \/ Resume(s, Top)
                \/ Broadcast(s, s.peers, "DcXor", TRUE, Top)
                \/ Broadcast(t, s.peers, s.state, FALSE, Top)
      BY <1>11, Accusing DEF DcExpVector, m, s
    <2>3. /\ t.peers = s.peers /\ t.epoch = s.epoch /\ t.infos = s.infos /\ t.data = s.data
          /\ t.state = s.state
      BY <1>5, <2>1 DEF SessionState
    <2> HIDE DEF t
    <2>4. Member(m) => Stores(t) /\ Stores(s)
      BY <1>5, <1>6, <2>1, <2>3
    <2> QED
      BY <1>4, <1>5, <1>7, <1>8, <1>10, <2>1, <2>2, <2>3, <2>4
  <1>12. CASE DcXorVector
    <2> DEFINE t == [s EXCEPT !.state = "TxInput", !.armed = TRUE]
    <2>1. m.kind \in Stored
      BY <1>3, <1>12 DEF DcXorVector, Handling, m
    <2>2. \/ /\ run' = [at |-> "push", who |-> {m.peer}, epoch |-> m.epoch, late |-> FALSE,
                        then |-> Exit]
             /\ UNCHANGED session
          \/ Resume(session, Top)
          \/ Member(m) /\ Resume(s, Top)
          \/ Member(m) /\ Broadcast(t, s.peers, "TxInput", FALSE, Top)
      BY <1>12 DEF DcXorVector, m, s
    <2>3. /\ t.peers = s.peers /\ t.epoch = s.epoch /\ t.infos = s.infos /\ t.data = s.data
          /\ t.state = "TxInput"
      BY <1>5, <2>1 DEF SessionState
    <2> HIDE DEF t
    <2>4. Member(m) => Stores(t) /\ Stores(s)
      BY <1>5, <1>6, <2>1, <2>3
    <2>5. CASE /\ run' = [at |-> "push", who |-> {m.peer}, epoch |-> m.epoch, late |-> FALSE,
                        then |-> Exit]
               /\ UNCHANGED session
      BY <1>4, <2>5 DEF Ends
    <2> QED
      BY <1>4, <1>5, <1>7, <1>8, <1>10, <2>1, <2>2, <2>3, <2>4, <2>5
  <1>13. CASE TxInputs
    <2> DEFINE t == [s EXCEPT !.inputs = s.peers]
    <2>1. m.kind \in Stored
      BY <1>3, <1>13 DEF TxInputs, Handling, m
    <2>2. \/ Resume(session, Top) \/ Accuses(session, {m.peer}, Exit)
          \/ run' = Exit /\ UNCHANGED session
          \/ /\ Member(m)
             /\ \/ session' = s /\ run' = Top
                \/ Resume(s, Top)
                \/ Broadcast(t, s.peers, "TxSign", TRUE, Top)
          \/ UNCHANGED <<session, run>>
      BY <1>13, Accusing DEF TxInputs, m, s
    <2>3. /\ t.peers = s.peers /\ t.epoch = s.epoch /\ t.infos = s.infos /\ t.data = s.data
          /\ t.state = s.state
      BY <1>5, <2>1 DEF SessionState
    <2> HIDE DEF t
    <2>4. Member(m) => Stores(t) /\ Stores(s)
      BY <1>5, <1>6, <2>1, <2>3
    <2>5. CASE run' = Exit /\ UNCHANGED session
      BY <1>4, <2>5 DEF Ends, Exit
    <2>6. CASE Member(m) /\ session' = s /\ run' = Top
      BY <1>5, <2>1, <2>6, <2>4 DEF Ends, Top
    <2>7. CASE UNCHANGED <<session, run>>
      BY <1>4, <2>7 DEF Ends
    <2> QED
      BY <1>4, <1>5, <1>7, <1>8, <1>10, <2>1, <2>2, <2>3, <2>4, <2>5, <2>6, <2>7
  <1>14. CASE SignedTx
    <2>0. PICK X : LET t == Joined(m, X) IN
          \/ Resume(session, Top) \/ (run' = Exit /\ UNCHANGED session)
          \/ /\ Member(m)
             /\ \/ Accuses(s, {m.peer}, Top) \/ Resume(t, Top)
                \/ Broadcast(t, t.peers, "Completed", FALSE, Exit)
                \/ \E q \in t.peers : Broadcast([t EXCEPT !.publisher = q], {q}, "TxPublish", TRUE, Top)
          \/ UNCHANGED <<session, run>>
      BY <1>14, Accusing DEF SignedTx, m, s
    <2> DEFINE t == Joined(m, X)
               elected(q) == [t EXCEPT !.publisher = q]
    <2>1. m.kind \in Stored
      BY <1>3, <1>14 DEF SignedTx, Handling, m
    <2>3. t = [s EXCEPT !.sigs = @ \cup {m.peer}, !.inputs = X]
      BY DEF Joined, s
    <2>4. /\ t.peers = s.peers /\ t.epoch = s.epoch /\ t.infos = s.infos /\ t.data = s.data
          /\ t.state = s.state
          /\ \A q : LET e == elected(q)
                    IN /\ e.peers = s.peers /\ e.epoch = s.epoch /\ e.infos = s.infos
                       /\ e.data = s.data /\ e.state = s.state
      BY <1>5, <2>1, <2>3 DEF SessionState
    <2> HIDE DEF t
    <2>5. \/ Resume(session, Top) \/ (run' = Exit /\ UNCHANGED session)
          \/ /\ Member(m)
             /\ \/ Accuses(s, {m.peer}, Top) \/ Resume(t, Top)
                \/ Broadcast(t, t.peers, "Completed", FALSE, Exit)
                \/ \E q \in t.peers : Broadcast(elected(q), {q}, "TxPublish", TRUE, Top)
          \/ UNCHANGED <<session, run>>
      BY <2>0 DEF t
    <2> HIDE DEF elected
    <2>6. Member(m) => Stores(s) /\ Stores(t) /\ \A q : Stores(elected(q))
      BY <1>5, <1>6, <2>1, <2>4
    <2>7. CASE run' = Exit /\ UNCHANGED session
      BY <1>4, <2>7 DEF Ends, Exit
    <2>8. CASE Member(m) /\ \E q \in t.peers : Broadcast(elected(q), {q}, "TxPublish", TRUE, Top)
      <3>1. PICK q \in t.peers : Broadcast(elected(q), {q}, "TxPublish", TRUE, Top)
        BY <2>8
      <3>2. {q} \subseteq session.peers
        BY <1>5, <2>1, <2>4
      <3>3. session' = elected(q) /\ Ends
        BY <1>8, <1>10, <2>8, <3>1, <3>2
      <3> QED
        BY <1>5, <2>1, <2>4, <2>6, <2>8, <3>3
    <2>9. CASE Member(m) /\ Broadcast(t, t.peers, "Completed", FALSE, Exit)
      BY <1>5, <1>8, <1>10, <2>1, <2>4, <2>6, <2>9
    <2>10. CASE UNCHANGED <<session, run>>
      BY <1>4, <2>10 DEF Ends
    <2>11. CASE Resume(session, Top)
      BY <1>4, <1>7, <1>10, <2>11
    <2>12. CASE Member(m) /\ (Accuses(s, {m.peer}, Top) \/ Resume(t, Top))
      <3>1. s.state = session.state /\ t.state = session.state
        BY <1>5, <2>1, <2>4
      <3> QED
        BY <1>7, <1>10, <2>6, <2>12, <3>1
    <2> QED
      BY <2>5, <2>7, <2>8, <2>9, <2>10, <2>11, <2>12
  <1>15. CASE PublishResult
    <2>1. Broadcast(session, session.peers, "Completed", FALSE, Exit)
      BY <1>15 DEF PublishResult
    <2> QED
      BY <1>4, <1>8, <1>10, <2>1
  <1>16. CASE RevealSecret
    <2> DEFINE t == [s EXCEPT !.finding = FALSE]
               u == [t EXCEPT !.replayed = TRUE]
    <2>1. m.kind \in Stored
      BY <1>3, <1>16 DEF RevealSecret, Handling, m
    <2>2. \/ Resume(session, Top) \/ UNCHANGED <<session, run>>
          \/ Member(m) /\ session' = s /\ run' = Exit
          \/ Member(m) /\ (Resume(t, Top) \/ Resume(u, Top) \/ \E who : Accuses(u, who, Top))
      BY <1>16, Accusing DEF RevealSecret, m, s
    <2>3. /\ t.peers = s.peers /\ t.epoch = s.epoch /\ t.infos = s.infos /\ t.data = s.data
          /\ t.state = s.state
          /\ u.peers = s.peers /\ u.epoch = s.epoch /\ u.infos = s.infos /\ u.data = s.data
          /\ u.state = s.state
      BY <1>5, <2>1 DEF SessionState
    <2> HIDE DEF t, u
    <2>4. Member(m) => Stores(t) /\ Stores(u)
      BY <1>5, <1>6, <2>1, <2>3
    <2>5. CASE UNCHANGED <<session, run>>
      BY <1>4, <2>5 DEF Ends
    <2>6. CASE Member(m) /\ session' = s /\ run' = Exit
      BY <1>5, <2>1, <2>6 DEF Ends, Exit
    <2> QED
      BY <1>4, <1>5, <1>7, <1>10, <2>1, <2>2, <2>3, <2>4, <2>5, <2>6
  <1>17. CASE MsgNotFound
    <2> DEFINE t == [session EXCEPT !.asked = TRUE]
    <2>1. \/ Resume(session, Top)
          \/ Member(m) /\ Broadcast(t, session.peers, "RevealSecret", TRUE, Top)
      BY <1>17 DEF MsgNotFound, m
    <2>2. /\ t.peers = session.peers /\ t.epoch = session.epoch /\ t.infos = session.infos
          /\ t.data = session.data /\ t.state = session.state
      BY <1>2 DEF SessionState
    <2> HIDE DEF t
    <2>3. Stores(t)
      BY <1>4, <1>6, <2>2
    <2> QED
      BY <1>4, <1>7, <1>8, <1>10, <2>1, <2>2, <2>3
  <1> QED
    BY <1>11, <1>12, <1>13, <1>14, <1>15, <1>16, <1>17

\* The holders of mu are told apart.
LEMMA Holders ==
    /\ Free # ByRun
    /\ \A p : Free # ByReader(p) /\ Free # ByWriter(p) /\ ByRun # ByReader(p) /\ ByRun # ByWriter(p)
    /\ \A p, q : ByReader(p) # ByWriter(q) /\ (ByReader(p) = ByReader(q) => p = q)
  BY DEF Free, ByRun, ByReader, ByWriter

\* The keys that have come in are of members, of whom there are finitely many.
LEMMA KeyedFinite ==
    ASSUME TypeOK
    PROVE  /\ IsFiniteSet(session.peers) /\ IsFiniteSet(Keyed)
           /\ Cardinality(Keyed) \in Nat /\ session.infos \in Nat
           /\ Keyed \subseteq session.peers /\ session.peers \subseteq Peer
  <1>1. session.peers \subseteq Peer /\ Keyed \subseteq session.peers /\ session.infos \in Nat
    BY PublishTypes DEF Keyed, SessionState
  <1>2. IsFiniteSet(session.peers)
    BY <1>1, ConstantsOK, FS_Subset
  <1> QED
    BY <1>1, <1>2, FS_Subset, FS_CardinalityType

\* The keys and the members stay as they are.
KeysStay ==
    /\ session'.peers = session.peers /\ session'.epoch = session.epoch
    /\ session'.infos = session.infos
    /\ \A p \in Peer : session'.data[p].pk = session.data[p].pk

LEMMA KeyedStays ==
    ASSUME TypeOK, KeysStay
    PROVE  Keyed' = Keyed /\ (AllKeyed' <=> AllKeyed)
  <1>1. Keyed' = Keyed
    BY PublishTypes DEF Keyed, KeysStay
  <1> QED
    BY <1>1 DEF AllKeyed, KeysStay

\* What is under way when no new message is.
LEMMA KeyOnceQuiet ==
    ASSUME TypeOK, KeyOnce, Quiet, session'.epoch = session.epoch,
           \A p \in Peer : session'.data[p].pk = session.data[p].pk
    PROVE  KeyOnce'
  <1>1. run.at = "handle" => run.msg.peer \in Peer
    BY PublishTypes, RunShape, MessageShape
  <1> QED
    BY <1>1 DEF KeyOnce, Quiet, KeySent, Current

\* A step that leaves keys, members and state, and begins no broadcast.
LEMMA KeysIdle ==
    ASSUME TypeOK, KeyInv, KeysStay, session'.state = session.state, Quiet,
           \/ UNCHANGED run
           \/ /\ run.at = "send" /\ run'.at = "send"
              /\ run'.state = run.state /\ run'.then = run.then
    PROVE  KeyOnce' /\ Counted' /\ Beyond'
  <1>1. KeyOnce'
    BY KeyOnceQuiet DEF KeyInv, KeysStay
  <1>2. Counted'
    BY KeyedStays DEF KeyInv, Counted, Going, KeysStay
  <1>3. Beyond'
    BY KeyedStays DEF KeyInv, Beyond, Going, Past
  <1> QED
    BY <1>1, <1>2, <1>3

\* A restart counts from nothing, and outdates the keys under way.
LEMMA KeysRestarted ==
    ASSUME TypeOK, RoundInv, KeyInv, NEW P, session' = Restarted(P), Quiet,
           \/ run' = run /\ run.at # "send"
           \/ run'.at = "send" /\ run'.state = "KeyExchange"
    PROVE  KeyOnce' /\ Counted' /\ Beyond'
  <1>1. /\ session \in SessionState /\ session.epoch \in Nat
    BY PublishTypes
  <1>2. /\ session'.state = "KeyExchange" /\ session'.infos = 0
        /\ session'.epoch = session.epoch + 1 /\ session'.data = [p \in Peer |-> NoData]
        /\ session'.peers = session.peers \ P
    BY <1>1, RestartedFields
  <1>3. "pk" \in Stored
    BY DEF Stored, Rounds
  <1>4. /\ run.at = "handle" => run.msg.epoch \in Nat /\ run.msg.epoch <= session.epoch
        /\ \A p \in Peer : reader[p].at = "send" =>
             reader[p].msg.epoch \in Nat /\ reader[p].msg.epoch <= session.epoch
    BY PublishTypes, RunShape, ReaderShape, MessageShape DEF RoundInv, UnderWay, Backed
  <1>5. KeyOnce'
    <2>1. /\ run'.at = "handle" => ~Current(run.msg)'
          /\ \A p \in Peer : reader'[p].at = "send" => ~Current(reader[p].msg)'
      BY <1>1, <1>2, <1>4 DEF Current, Quiet
    <2>2. \A p \in Peer : ~KeySent(p)'
      BY <2>1 DEF KeySent
    <2> QED
      BY <2>1, <2>2 DEF KeyInv, KeyOnce, Quiet
  <1>6. Keyed' = {}
    BY <1>2, <1>3, PublishTypes DEF Keyed, NoData
  <1>7. Counted'
    BY <1>2, <1>6, FS_EmptySet DEF Counted
  <1>8. Beyond'
    BY <1>2 DEF Beyond, Past
  <1> QED
    BY <1>5, <1>7, <1>8

\* Nobody is left.
LEMMA KeysEmptied ==
    ASSUME TypeOK, KeyInv, NEW P, session' = Without(P), session.peers \subseteq P, Quiet,
           \/ run' = run /\ run.at # "send"
           \/ run.at = "push" /\ run'.at \in {"top", "exit"}
    PROVE  KeyOnce' /\ Counted' /\ Beyond'
  <1>1. session \in SessionState
    BY PublishTypes
  <1>2. /\ session'.peers = {} /\ session'.epoch = session.epoch /\ session'.data = session.data
        /\ session'.state = session.state
    BY <1>1, WithoutFields
  <1>3. KeyOnce'
    BY <1>2, KeyOnceQuiet DEF KeyInv
  <1>4. Counted'
    BY <1>2 DEF Counted
  <1>5. AllKeyed'
    BY <1>2 DEF AllKeyed, Keyed
  <1>6. Beyond'
    BY <1>2, <1>5 DEF KeyInv, Beyond
  <1> QED
    BY <1>3, <1>4, <1>6

\* run is done, and the session was in no round of the mix.
LEMMA KeysLost ==
    ASSUME TypeOK, KeyInv, session'.epoch = session.epoch, session'.data = session.data,
           session'.state = session.state, session.state \notin MixStates, Quiet,
           run' = run, run.at = "done"
    PROVE  KeyOnce' /\ Counted' /\ Beyond'
  <1>1. KeyOnce'
    BY KeyOnceQuiet DEF KeyInv
  <1>2. ~Going'
    BY DEF Going
  <1> QED
    BY <1>1, <1>2 DEF KeyInv, Counted, Beyond

\* The handlers: what another message than a key brings about, all keys are in.
LEMMA HandlersKeepKeys ==
    ASSUME TypeOK, PublishInv, KeyInv,
           \/ DcExpVector \/ DcXorVector \/ TxInputs \/ SignedTx
           \/ PublishResult \/ RevealSecret \/ MsgNotFound
    PROVE  KeyInv'
  <1> DEFINE m == run.msg
  <1>1. /\ run.at = "handle" /\ m.kind # "pk" /\ UNCHANGED <<reader, writer, conn>>
        /\ session'.peers = session.peers /\ session'.epoch = session.epoch
        /\ session'.infos = session.infos
        /\ session'.state = session.state \/ (Member(m) /\ session'.state = "TxInput")
        /\ \/ UNCHANGED run
           \/ run'.at \in {"top", "exit", "push"}
           \/ /\ run'.at = "send" /\ run'.to \subseteq session.peers /\ run'.then \in {Top, Exit}
              /\ run'.state = "Completed" => run'.then = Exit \/ run'.state = session.state
              /\ run'.state = "Completed" \/ Member(m)
    BY HandlerOutcome
  <1>2. \A p \in Peer, k \in Stored :
          session'.data[p][k] = session.data[p][k] \/ k = m.kind
    BY HandlerOutcome
  <1>3. "pk" \in Stored
    BY DEF Stored, Rounds
  <1>4. KeysStay
    BY <1>1, <1>2, <1>3 DEF KeysStay
  <1>5. session.state # "Completed"
    BY <1>1 DEF KeyInv, Beyond
  <1>6. Member(m) => AllKeyed
    BY <1>1, <1>5 DEF PublishInv, Begun, KeyInv, Beyond, Going, Past, Member, Current
  <1>7. Quiet
    BY <1>1 DEF Quiet
  <1>8. KeyOnce'
    BY <1>4, <1>7, KeyOnceQuiet DEF KeyInv, KeysStay
  <1>9. run.at # "done"
    BY <1>1
  <1> HIDE DEF m
  <1>10. Counted'
    BY <1>4, <1>9, KeyedStays DEF KeyInv, Counted, Going, KeysStay
  <1>11. Beyond'
    BY <1>1, <1>4, <1>5, <1>6, <1>9, KeyedStays DEF KeyInv, Beyond, Going, Past
  <1>12. Staying'
    BY <1>1 DEF KeyInv, Staying
  <1> QED
    BY <1>8, <1>10, <1>11, <1>12 DEF KeyInv

\* The key exchange: each key is counted as it comes in, and the mix begins
\* when the keys counted are as many as the members, so that all are in.
LEMMA KeyExchangeKeepsKeys ==
    ASSUME TypeOK, KeyInv, KeyExchange
    PROVE  KeyInv'
  <1> DEFINE m == run.msg
             s == WithData(m)
             t == [s EXCEPT !.infos = @ + 1]
  <1>1. /\ run.at = "handle" /\ m.kind = "pk" /\ UNCHANGED <<reader, writer>>
    BY DEF KeyExchange, Handling, RunAt
  <1>2. /\ m \in Message /\ m.peer \in Peer /\ session \in SessionState
        /\ session.infos \in Nat /\ m.val # "none"
    BY <1>1, PublishTypes, RunShape, MessageShape DEF SessionState
  <1>3. "pk" \in Stored
    BY DEF Stored, Rounds
  <1>4. m.val = "good"
    BY <1>1 DEF KeyInv, KeyOnce
  <1>5. /\ s \in SessionState /\ s.peers = session.peers /\ s.epoch = session.epoch
        /\ s.infos = session.infos /\ s.state = session.state
        /\ \A p \in Peer : s.data[p].pk = IF p = m.peer THEN m.val ELSE session.data[p].pk
    BY <1>1, <1>2, <1>3, WithDataFields, WithDataType
  <1>6. UNCHANGED conn /\ \/ Resume(session, Top)
                          \/ Member(m) /\ Resume(t, Top) /\ ~KeysIn(t)
                          \/ Member(m) /\ KeysIn(t) /\ Broadcast(t, t.peers, "DcExponential", TRUE, Top)
    BY <1>4 DEF KeyExchange
  <1>7. /\ t.peers = session.peers /\ t.epoch = session.epoch /\ t.state = session.state
        /\ t.infos = session.infos + 1
        /\ \A p \in Peer : t.data[p].pk = IF p = m.peer THEN m.val ELSE session.data[p].pk
    BY <1>5 DEF SessionState
  <1>8. CASE Resume(session, Top)
    <2>1. UNCHANGED session /\ run'.at = "top"
      BY <1>8 DEF Resume, Top
    <2>2. KeysStay /\ Quiet
      BY <1>1, <2>1 DEF KeysStay, Quiet
    <2>3. KeyOnce'
      BY <2>2, KeyOnceQuiet DEF KeyInv, KeysStay
    <2>4. Counted' /\ Beyond'
      BY <1>1, <2>1, <2>2, KeyedStays DEF KeyInv, Counted, Beyond, Going, Past
    <2>5. Staying'
      BY <1>1, <1>6, <2>1 DEF KeyInv, Staying
    <2> QED
      BY <2>3, <2>4, <2>5 DEF KeyInv
  <1>9. CASE /\ Member(m)
             /\ \/ Resume(t, Top)
                \/ KeysIn(t) /\ Broadcast(t, t.peers, "DcExponential", TRUE, Top)
    <2> HIDE DEF t, s
    <2>1. /\ session' = t
          /\ \/ run'.at = "top"
             \/ /\ KeysIn(t) /\ run'.at = "send" /\ run'.to = session.peers /\ run'.then = Top
                /\ run'.state = "DcExponential"
      BY <1>7, <1>9 DEF Resume, Broadcast, Top
    <2>2. /\ m.peer \in session.peers /\ Current(m)
      BY <1>9 DEF Member, Current
    <2>3. session.data[m.peer].pk = "none" /\ ~KeySent(m.peer)
      BY <1>1, <2>2 DEF KeyInv, KeyOnce
    <2>4. session.state # "Completed"
      BY <1>1 DEF KeyInv, Beyond
    <2>5. session.state = "KeyExchange"
      BY <1>1, <2>2, <2>3, <2>4 DEF KeyInv, Beyond, Going, Past, AllKeyed, Keyed
    <2>6. Keyed' = Keyed \cup {m.peer} /\ m.peer \notin Keyed
      BY <1>2, <1>4, <1>7, <2>1, <2>2, <2>3, PublishTypes DEF Keyed
    <2>7. session.infos = Cardinality(Keyed)
      BY <1>1, <2>2 DEF KeyInv, Counted, Going
    <2>8. Cardinality(Keyed)' = session'.infos
      <3>1. Cardinality(Keyed \cup {m.peer}) = Cardinality(Keyed) + 1
        BY <2>6, KeyedFinite, FS_AddElement
      <3> QED
        BY <1>7, <2>1, <2>6, <2>7, <3>1
    <2>9. KeysIn(t) => AllKeyed'
      <3>1. Keyed' \subseteq session.peers /\ session'.peers = session.peers
        BY <1>7, <2>1, <2>2, <2>6, KeyedFinite
      <3> QED
        BY <1>7, <2>1, <2>8, <3>1, KeyedFinite, FS_Subset DEF KeysIn, AllKeyed
    <2>10. KeyOnce'
      BY <1>1, <1>7, <2>1, <2>3 DEF KeyInv, KeyOnce, KeySent, Current
    <2>11. Counted'
      BY <2>8 DEF Counted
    <2>12. Beyond'
      BY <1>7, <2>1, <2>5, <2>9 DEF Beyond, Past
    <2>13. Staying'
      BY <1>1, <1>6, <1>7, <2>1 DEF KeyInv, Staying
    <2> QED
      BY <2>10, <2>11, <2>12, <2>13 DEF KeyInv
  <1> QED
    BY <1>6, <1>8, <1>9

\* pushMaliciousInfo removes whom it is told to.
LEMMA OutRemoved ==
    ASSUME TypeOK, NEW P, session' = Without(P) \/ session' = Restarted(P)
    PROVE  session'.peers = session.peers \ P
  <1>1. session \in SessionState
    BY PublishTypes
  <1>2. CASE session' = Without(P)
    BY <1>1, <1>2, WithoutFields
  <1>3. CASE session' = Restarted(P)
    BY <1>1, <1>3, RestartedFields
  <1> QED
    BY <1>2, <1>3

\* The other steps of run.
LEMMA RunKeepsKeys ==
    ASSUME KeySetting, TypeOK, RoundInv, PublishInv, KeyInv, RunStep \/ Timeout
    PROVE  KeyInv'
  <1>1. /\ session \in SessionState /\ run \in RunState /\ writer \in [Peer -> WriterState]
        /\ reader \in [Peer -> ReaderState] /\ session.peers \subseteq Peer
    BY PublishTypes
  <1>2. run.at \notin {"expired", "range", "dead"}
    BY DEF KeyInv, Staying
  <1>3. CASE Timeout
    BY <1>3 DEF Timeout, KeySetting
  <1>4. CASE Loop
    <2>1. /\ UNCHANGED <<session, reader, writer, conn>> /\ run.at = "top"
          /\ run'.at = "select" \/ (run'.at = "done" /\ session.peers = {})
      BY <1>4 DEF Loop, RunAt
    <2>2. Quiet /\ KeysStay
      BY <2>1 DEF Quiet, KeysStay
    <2>3. KeyOnce'
      BY <2>1, <2>2, KeyOnceQuiet DEF KeyInv
    <2>4. Counted' /\ Beyond'
      BY <2>1, <2>2, KeyedStays DEF KeyInv, Counted, Beyond, Going, Past
    <2>5. Staying'
      BY <2>1 DEF KeyInv, Staying
    <2> QED
      BY <2>3, <2>4, <2>5 DEF KeyInv
  <1>5. CASE \E p \in Peer : Receive(p)
    <2>1. PICK p \in Peer : Receive(p)
      BY <1>5
    <2>2. /\ UNCHANGED <<session, writer, conn>>
          /\ run.at = "select" /\ run'.at = "handle" /\ run'.msg = reader[p].msg
          /\ reader[p].at = "send" /\ reader'[p].at = "read"
          /\ \A q \in Peer \ {p} : reader'[q] = reader[q]
      BY <1>1, <2>1 DEF Receive, RunAt, ReaderAt
    <2>3. reader[p].msg.peer = p
      BY <2>2 DEF PublishInv, OwnMessages
    <2>4. KeyOnce'
      BY <2>2, <2>3 DEF KeyInv, KeyOnce, KeySent, Current
    <2>5. KeysStay
      BY <2>2 DEF KeysStay
    <2>6. Counted' /\ Beyond'
      BY <2>2, <2>5, KeyedStays DEF KeyInv, Counted, Beyond, Going, Past
    <2>7. Staying'
      BY <2>2 DEF KeyInv, Staying
    <2> QED
      BY <2>4, <2>6, <2>7 DEF KeyInv
  <1>6. CASE \E q \in Peer : RunSend(q)
    <2>1. PICK q \in Peer : RunSend(q)
      BY <1>6
    <2>2. /\ UNCHANGED <<session, reader, conn>>
          /\ run.at = "send" /\ q \in run.to /\ Send(q)
          /\ run' = [run EXCEPT !.to = @ \ {q}]
      BY <2>1 DEF RunSend, RunAt
    <2>3. /\ run'.at = "send" /\ run'.then = run.then /\ run'.state = run.state
          /\ run'.to \subseteq run.to
      BY <1>1, <2>2, RunShape
    <2>4. conn[q] = "open" /\ writer[q].at = "ready"
      BY <2>2 DEF KeyInv, Staying
    <2>5. \A p \in Peer : writer'[p].at = writer[p].at
      BY <1>1, <2>2, <2>4 DEF Send, WriteOutcomes
    <2>6. Quiet /\ KeysStay
      BY <2>2, <2>3 DEF Quiet, KeysStay
    <2>7. KeyOnce' /\ Counted' /\ Beyond'
      BY <2>2, <2>3, <2>6, KeysIdle
    <2>8. Staying'
      BY <2>2, <2>3, <2>5 DEF KeyInv, Staying
    <2> QED
      BY <2>7, <2>8 DEF KeyInv
  <1>7. CASE RunSent
    <2>1. /\ UNCHANGED <<reader, writer, conn>>
          /\ run.at = "send" /\ run' = run.then
          /\ session' = [session EXCEPT !.state = run.state, !.armed = @ \/ run.arm]
      BY <1>7 DEF RunSent, RunAt
    <2>2. run'.at \in {"top", "exit"} /\ (run'.at = "exit" <=> run.then = Exit)
      BY <2>1 DEF KeyInv, Staying, Top, Exit
    <2>3. KeysStay /\ session'.state = run.state
      BY <1>1, <2>1 DEF SessionState, KeysStay
    <2>4. Quiet
      BY <2>1, <2>2 DEF Quiet
    <2>5. KeyOnce'
      BY <2>3, <2>4, KeyOnceQuiet DEF KeyInv, KeysStay
    <2>6. Counted'
      BY <2>1, <2>3, KeyedStays DEF KeyInv, Counted, Going, KeysStay
    <2>7. Beyond'
      BY <2>1, <2>2, <2>3, KeyedStays DEF KeyInv, Beyond
    <2>8. Staying'
      BY <2>1, <2>2, <2>3 DEF KeyInv, Staying, KeysStay
    <2> QED
      BY <2>5, <2>6, <2>7, <2>8 DEF KeyInv
  <1>8. CASE RunPush
    <2>0. PICK out : RunPushed(out)
      BY <1>8, Pushing
    <2>1. /\ mu = Free /\ UNCHANGED <<reader, writer>> /\ Close(out) /\ run.at = "push"
          /\ \/ session.peers \subseteq out /\ Resume(Without(out), run.then)
             \/ Broadcast(Restarted(out), session.peers \ out, "KeyExchange", FALSE, run.then)
      BY <2>0 DEF RunPushed
    <2>2. run.then \in {Top, Exit}
      BY <1>1, <2>1, RunShape
    <2>3. \/ /\ session' = Without(out) /\ session.peers \subseteq out
             /\ run'.at \in {"top", "exit"}
          \/ /\ session' = Restarted(out) /\ run'.at = "send" /\ run'.state = "KeyExchange"
             /\ run'.to = session.peers \ out /\ run'.then \in {Top, Exit}
      BY <2>1, <2>2 DEF Resume, Broadcast, Top, Exit
    <2>4. Quiet
      BY <2>1, <2>3 DEF Quiet
    <2>5. session'.peers = session.peers \ out
      BY <2>3, OutRemoved
    <2>6. KeyOnce' /\ Counted' /\ Beyond'
      BY <2>1, <2>3, <2>4, KeysEmptied, KeysRestarted
    <2>7. \A p \in Peer : p \in session'.peers => conn'[p] = conn[p]
      BY <2>1, <2>5 DEF Close
    <2>8. \A p \in Peer : reader[p].at # "bcast"
      BY <2>1, Holders DEF RoundInv, Locked
    <2>9. Staying'
      BY <2>1, <2>3, <2>5, <2>7, <2>8 DEF KeyInv, Staying
    <2> QED
      BY <2>6, <2>9 DEF KeyInv
  <1>9. CASE RunExit
    <2>1. /\ UNCHANGED <<session, reader, writer>> /\ run.at = "exit" /\ run'.at = "done"
      BY <1>9 DEF RunExit, RunAt
    <2>2. Quiet /\ KeysStay
      BY <2>1 DEF Quiet, KeysStay
    <2>3. KeyOnce'
      BY <2>1, <2>2, KeyOnceQuiet DEF KeyInv
    <2>4. Counted' /\ Beyond'
      BY <2>1, <2>2, KeyedStays DEF KeyInv, Counted, Beyond, Going, Past
    <2>5. Staying'
      BY <2>1 DEF KeyInv, Staying
    <2> QED
      BY <2>3, <2>4, <2>5 DEF KeyInv
  <1>10. CASE Expired \/ EvictPublisher \/ RangeDone
    BY <1>2, <1>10 DEF Expired, EvictPublisher, RangeDone, RunAt
  <1> QED
    BY <1>3, <1>4, <1>5, <1>6, <1>7, <1>8, <1>9, <1>10, HandlersKeepKeys, KeyExchangeKeepsKeys
       DEF RunStep

\* A reader that goes on without a key to hand over leaves the members staying.
LEMMA ReaderStays ==
    ASSUME TypeOK, KeyInv, NEW p \in Peer, session'.peers \subseteq session.peers,
           session'.peers = session.peers \/ mu = Free, Locked,
           run' = run, \A q \in Peer \ {p} : reader'[q] = reader[q], reader'[p].at # "drop",
           \A q \in session'.peers : conn'[q] = conn[q],
           run.at # "done" =>
             /\ \A q \in Peer : writer'[q].at = writer[q].at
                                \/ (q = p /\ q \notin session.peers /\ writer'[q].at = "gone")
             /\ reader'[p].at = "bcast" =>
                  reader'[p].to \subseteq session'.peers /\ reader'[p].then = "read"
             /\ p \in session.peers => reader'[p].at \notin {"closing", "gone"}
    PROVE  Staying'
  <1>1. mu = Free /\ run.at # "done" => /\ run.at # "send"
                                        /\ \A q \in Peer : reader[q].at # "bcast"
    BY Holders DEF Locked
  <1>2. session.peers \subseteq Peer
    BY PublishTypes
  <1> QED
    BY <1>1, <1>2 DEF KeyInv, Staying

\* The readers: until run is done none finds a member's connection closed.
LEMMA ReaderKeepsKeys ==
    ASSUME TypeOK, RoundInv, KeyInv, NEW p \in Peer, ReaderStep(p)
    PROVE  KeyInv'
  <1>1. /\ session \in SessionState /\ writer \in [Peer -> WriterState]
        /\ reader \in [Peer -> ReaderState] /\ session.peers \subseteq Peer
    BY PublishTypes
  <1>2. Locked
    BY DEF RoundInv
  <1>3. CASE Drop(p)
    BY <1>3 DEF Drop, ReaderAt, KeyInv, Staying
  <1>4. CASE ReaderPush(p)
    <2>0. PICK out : ReaderPushed(p, out)
      BY <1>4, Pushing
    <2>1. /\ mu = Free /\ UNCHANGED <<run, writer>> /\ Close(out)
          /\ \/ /\ session.peers \subseteq out
                /\ session' = Without(out) /\ Rework(p, [at |-> "read"])
             \/ session' = Restarted(out) /\ ReaderSends(p, session.peers \ out, FALSE, "read")
      BY <2>0 DEF ReaderPushed
    <2>2. session'.peers = session.peers \ out
      BY <2>1, OutRemoved
    <2>3. /\ \A q \in Peer \ {p} : reader'[q] = reader[q]
          /\ \/ reader'[p].at = "read"
             \/ /\ reader'[p].at = "bcast" /\ reader'[p].then = "read"
                /\ reader'[p].to = session'.peers
      BY <1>1, <2>1, <2>2 DEF Rework, ReaderSends
    <2>4. \A q \in session'.peers : conn'[q] = conn[q]
      BY <1>1, <2>1, <2>2 DEF Close
    <2>5. Quiet /\ run.at # "send"
      BY <1>2, <2>1, <2>3, Holders DEF Quiet, Locked
    <2>6. KeyOnce' /\ Counted' /\ Beyond'
      BY <2>1, <2>5, KeysEmptied, KeysRestarted
    <2>7. Staying'
      BY <1>2, <2>1, <2>2, <2>3, <2>4, ReaderStays
    <2> QED
      BY <2>6, <2>7 DEF KeyInv
  <1>5. CASE \E q \in Peer : ReaderSend(p, q)
    <2>1. PICK q \in Peer : ReaderSend(p, q)
      BY <1>5
    <2>2. /\ UNCHANGED <<session, run, conn>>
          /\ reader[p].at = "bcast" /\ q \in reader[p].to
          /\ Rework(p, [reader[p] EXCEPT !.to = @ \ {q}]) /\ Send(q)
      BY <2>1 DEF ReaderSend, ReaderAt
    <2>3. /\ reader'[p].at = "bcast" /\ reader'[p].then = reader[p].then
          /\ reader'[p].to \subseteq reader[p].to /\ \A x \in Peer \ {p} : reader'[x] = reader[x]
      BY <1>1, <2>2, ReaderShape DEF Rework
    <2>4. run.at # "done" => \A x \in Peer : writer'[x].at = writer[x].at
      <3>1. run.at # "done" => conn[q] = "open" /\ writer[q].at = "ready"
        BY <1>1, <2>2 DEF KeyInv, Staying
      <3> QED
        BY <1>1, <2>2, <3>1 DEF Send, WriteOutcomes
    <2>5. Quiet /\ KeysStay
      BY <2>2, <2>3 DEF Quiet, KeysStay
    <2>6. KeyOnce' /\ Counted' /\ Beyond'
      BY <2>2, <2>5, KeysIdle
    <2>7. run.at # "done" => reader'[p].to \subseteq session'.peers /\ reader'[p].then = "read"
      BY <2>2, <2>3 DEF KeyInv, Staying
    <2>8. Staying'
      BY <1>2, <2>2, <2>3, <2>4, <2>7, ReaderStays
    <2> QED
      BY <2>6, <2>8 DEF KeyInv
  <1>6. CASE ReaderSent(p)
    <2>1. /\ UNCHANGED <<run, writer, conn>> /\ reader[p].at = "bcast"
          /\ session' = [session EXCEPT !.armed = @ \/ reader[p].arm]
          /\ Rework(p, [at |-> reader[p].then])
      BY <1>6 DEF ReaderSent, ReaderAt
    <2>2. /\ reader'[p].at = reader[p].then /\ reader[p].then \in {"read", "closing"}
          /\ \A q \in Peer \ {p} : reader'[q] = reader[q]
          /\ run.at # "done" => reader[p].then = "read"
      BY <1>1, <2>1, ReaderShape DEF Rework, KeyInv, Staying
    <2>3. KeysStay /\ session'.state = session.state
      BY <1>1, <2>1 DEF SessionState, KeysStay
    <2>4. Quiet
      BY <2>1, <2>2 DEF Quiet
    <2>5. KeyOnce' /\ Counted' /\ Beyond'
      BY <2>1, <2>3, <2>4, KeysIdle
    <2>6. Staying'
      BY <1>2, <2>1, <2>2, <2>3, ReaderStays DEF KeysStay
    <2> QED
      BY <2>5, <2>6 DEF KeyInv
  <1>7. CASE ReaderError(p)
    <2> DEFINE s == Without({p})
               elected(q) == [s EXCEPT !.publisher = q]
    <2>1. /\ mu = Free /\ UNCHANGED <<run, writer>> /\ conn[p] # "open"
          /\ \/ Rework(p, [at |-> "closing"]) \/ Rework(p, [at |-> "dead"])
             \/ \E q : ReaderSends(p, {q}, TRUE, "closing")
          /\ \/ session' = session \/ session' = s
             \/ \E q \in s.peers : session' = elected(q)
          /\ \/ session' = session \/ session.state \in DropStates
             \/ session.state = "TxPublish"
          /\ conn' = conn \/ Close({p})
          /\ p \notin session.peers =>
               session' \in {session, s} /\ Rework(p, [at |-> "closing"])
      BY <1>7 DEF ReaderError
    <2>2. p \in session.peers => run.at = "done"
      BY <2>1 DEF KeyInv, Staying
    <2>3. /\ s.peers = session.peers \ {p} /\ s.state = session.state
          /\ s.epoch = session.epoch /\ s.data = session.data /\ s.infos = session.infos
          /\ s \in SessionState
      BY <1>1, WithoutFields, WithoutType
    <2> HIDE DEF s
    <2>4. \A q : LET e == elected(q)
                IN /\ e.peers = session.peers \ {p} /\ e.state = session.state
                   /\ e.epoch = session.epoch /\ e.data = session.data
      BY <2>3 DEF SessionState
    <2> HIDE DEF elected
    <2>5. /\ reader'[p].at \in {"closing", "dead", "bcast"}
          /\ p \notin session.peers => reader'[p].at = "closing"
          /\ \A q \in Peer \ {p} : reader'[q] = reader[q]
      <3>1. CASE \E x \in {"closing", "dead"} : Rework(p, [at |-> x])
        BY <1>1, <2>1, <3>1 DEF Rework
      <3>2. CASE \E q : ReaderSends(p, {q}, TRUE, "closing")
        BY <1>1, <2>1, <3>2 DEF ReaderSends, Rework
      <3> QED
        BY <2>1, <3>1, <3>2
    <2>6. Quiet
      BY <2>1, <2>5 DEF Quiet
    <2>7. /\ session'.state = session.state /\ session'.epoch = session.epoch
          /\ session'.data = session.data
          /\ session'.peers \in {session.peers, session.peers \ {p}}
      BY <2>1, <2>3, <2>4
    <2>8. KeyOnce' /\ Counted' /\ Beyond'
      <3>1. CASE session' = session
        <4>1. KeysStay
          BY <3>1 DEF KeysStay
        <4> QED
          BY <2>1, <2>6, <3>1, <4>1, KeysIdle
      <3>2. CASE session' = s /\ p \notin session.peers
        <4>1. KeysStay
          BY <2>3, <3>2 DEF KeysStay
        <4> QED
          BY <2>1, <2>6, <2>7, <4>1, KeysIdle
      <3>3. CASE p \in session.peers /\ (session.state \in DropStates \/ session.state = "TxPublish")
        <4>1. session.state \notin MixStates
          BY <3>3 DEF MixStates, DropStates
        <4> QED
          BY <2>1, <2>2, <2>6, <2>7, <3>3, <4>1, KeysLost
      <3> QED
        BY <2>1, <3>1, <3>2, <3>3
    <2>9. /\ session'.peers \subseteq session.peers
          /\ \A q \in session'.peers : q # p => conn'[q] = conn[q]
      BY <1>1, <2>1, <2>7 DEF Close
    <2>10. Staying'
      BY <2>1, <2>2, <2>5, <2>9, PublishTypes, Holders DEF KeyInv, Staying, RoundInv, Locked
    <2> QED
      BY <2>8, <2>10 DEF KeyInv
  <1>8. CASE ReaderClose(p)
    <2>1. /\ UNCHANGED <<session, run, conn>> /\ reader[p].at = "closing"
          /\ \/ Rework(p, [at |-> "gone"]) /\ writer' = [writer EXCEPT ![p] = [at |-> "gone"]]
             \/ UNCHANGED <<reader, writer>>
      BY <1>8 DEF ReaderClose, ReaderAt
    <2>2. /\ reader'[p].at \in {"closing", "gone"} /\ writer'[p].at \in {writer[p].at, "gone"}
          /\ \A q \in Peer \ {p} : reader'[q] = reader[q] /\ writer'[q] = writer[q]
      BY <1>1, <2>1 DEF Rework
    <2>3. Quiet /\ KeysStay
      BY <2>1, <2>2 DEF Quiet, KeysStay
    <2>4. KeyOnce' /\ Counted' /\ Beyond'
      BY <2>1, <2>3, KeysIdle
    <2>5. run.at # "done" => p \notin session.peers
      BY <2>1 DEF KeyInv, Staying
    <2>6. Staying'
      BY <1>2, <2>1, <2>2, <2>5, ReaderStays
    <2> QED
      BY <2>4, <2>6 DEF KeyInv
  <1> QED
    BY <1>3, <1>4, <1>5, <1>6, <1>7, <1>8 DEF ReaderStep

\* The clients: a key is sent once, when none has been counted or is handled.
LEMMA ClientKeepsKeys ==
    ASSUME KeySetting, TypeOK, RoundInv, KeyInv, NEW p \in Peer, ClientStep(p)
    PROVE  KeyInv'
  <1>1. /\ session \in SessionState /\ reader \in [Peer -> ReaderState]
    BY PublishTypes
  <1>2. PICK k \in Kind, v \in Payload : Accept(p, k, v)
    BY DEF ClientStep
  <1> DEFINE m == [kind |-> k, peer |-> p, epoch |-> session.epoch, val |-> Sized(k, v)]
  <1>3. k = "pk" => v = "good" /\ Due(p, k)
    <2>1. SUFFICES ASSUME k = "pk" PROVE v = "good" /\ Due(p, k)
      OBVIOUS
    <2>2. \/ v = "good" /\ Due(p, k)
          \/ v \in BadPayload["pk"] /\ <<k, v>> \in Misuse
          \/ <<k, "again">> \in Misuse
      BY <1>2, <2>1 DEF Accept, ClientSends
    <2>3. BadPayload["pk"] = {"unparsable", "invalid"}
      BY DEF BadPayload
    <2> QED
      BY <2>1, <2>2, <2>3 DEF KeySetting, KeyMisuse
  <1>4. k = "pk" => Sized(k, v) = "good"
    BY <1>3 DEF Sized
  <1>5. /\ UNCHANGED <<run, writer, conn>> /\ reader[p].at = "read"
        /\ \/ UNCHANGED <<reader, session>>
           \/ /\ session' = [session EXCEPT !.finding = @ \/ (k = "nf" /\ v # "unparsable")]
              /\ \/ Rework(p, [at |-> "send", msg |-> m])
                 \/ Rework(p, [at |-> "push", epoch |-> session.epoch])
    BY <1>2, <1>3 DEF Accept, ReaderAt
  <1>6. KeysStay /\ session'.state = session.state
    BY <1>1, <1>5 DEF KeysStay, SessionState
  <1>7. /\ \A q \in Peer \ {p} : reader'[q] = reader[q]
        /\ \/ reader'[p] = reader[p] \/ reader'[p].at = "push"
           \/ reader'[p].at = "send" /\ reader'[p].msg = m
    BY <1>1, <1>5 DEF Rework
  <1>8. m.kind = k /\ (k = "pk" => m.val = "good")
    BY <1>4
  <1>9. k = "pk" => /\ session.data[p].pk = "none"
                    /\ ~(run.at = "handle" /\ run.msg.peer = p)
    <2>1. "pk" \in Stored
      BY DEF Stored, Rounds
    <2> QED
      BY <1>3, <2>1 DEF Due
  <1> HIDE DEF m
  <1>10. KeyOnce'
    <2>1. \A q \in Peer : q # p => KeySent(q)' = KeySent(q)
      BY <1>6, <1>7 DEF KeySent, Current, KeysStay
    <2>2. KeySent(p)' => k = "pk"
      BY <1>5, <1>7, <1>8 DEF KeySent
    <2>3. run.at = "handle" => run.msg.peer \in Peer
      BY PublishTypes, RunShape, MessageShape
    <2>4. ASSUME NEW q \in Peer
          PROVE  /\ reader'[q].at = "send" /\ reader'[q].msg.kind = "pk" => reader'[q].msg.val = "good"
                 /\ KeySent(q)' => session'.data[q].pk = "none"
      BY <1>5, <1>6, <1>7, <1>8, <1>9, <2>1, <2>2 DEF KeyInv, KeyOnce, KeysStay
    <2>5. run'.at = "handle" /\ run'.msg.kind = "pk" =>
            /\ run'.msg.val = "good"
            /\ Current(run.msg)' => session'.data[run'.msg.peer].pk = "none" /\ ~KeySent(run.msg.peer)'
      BY <1>5, <1>6, <1>9, <2>1, <2>2, <2>3 DEF KeyInv, KeyOnce, KeysStay, Current
    <2> QED
      BY <2>4, <2>5 DEF KeyOnce
  <1>11. Counted' /\ Beyond'
    BY <1>5, <1>6, KeyedStays DEF KeyInv, Counted, Beyond, Going, Past, KeysStay
  <1>12. Staying'
    BY <1>5, <1>6, <1>7 DEF KeyInv, Staying, KeysStay
  <1> QED
    BY <1>10, <1>11, <1>12 DEF KeyInv

\* The writers: until run is done none fails.  No client leaves.
LEMMA WriterKeepsKeys ==
    ASSUME KeySetting, TypeOK, RoundInv, KeyInv, NEW p \in Peer, WriterStep(p) \/ Leave(p)
    PROVE  KeyInv'
  <1>1. session \in SessionState
    BY PublishTypes
  <1>2. WriterStep(p)
    BY DEF Leave, KeySetting, KeyMisuse
  <1>3. UNCHANGED <<run, reader>> /\ run.at = "done"
    BY <1>2 DEF WriterStep, WriterError, WriterElects, WriterAt, KeyInv, Staying
  <1>4. Quiet
    BY <1>3 DEF Quiet
  <1>5. Staying'
    BY <1>3 DEF KeyInv, Staying
  <1>6. CASE WriterError(p)
    <2> DEFINE s == Without({p})
               elected(q) == [s EXCEPT !.publisher = q]
    <2>1. /\ \/ session' = session \/ session' = s
             \/ \E q \in s.peers : session' = elected(q)
          /\ \/ session' = session \/ session.state \in DropStates
             \/ session.state = "TxPublish"
      BY <1>6 DEF WriterError
    <2>2. /\ s.state = session.state /\ s.epoch = session.epoch /\ s.data = session.data
          /\ s \in SessionState
      BY <1>1, WithoutFields, WithoutType
    <2> HIDE DEF s
    <2>3. \A q : LET e == elected(q)
                IN e.state = session.state /\ e.epoch = session.epoch /\ e.data = session.data
      BY <2>2 DEF SessionState
    <2> HIDE DEF elected
    <2>4. /\ session'.state = session.state /\ session'.epoch = session.epoch
          /\ session'.data = session.data
      BY <2>1, <2>2, <2>3
    <2>5. CASE session' = session
      BY <1>3, <1>4, <1>5, <2>5, KeysIdle DEF KeysStay, KeyInv
    <2>6. CASE session.state \in DropStates \/ session.state = "TxPublish"
      <3>1. session.state \notin MixStates
        BY <2>6 DEF MixStates, DropStates
      <3> QED
        BY <1>3, <1>4, <1>5, <2>4, <3>1, KeysLost DEF KeyInv
    <2> QED
      BY <2>1, <2>5, <2>6
  <1>7. CASE \E q \in Peer : WriterElects(p, q)
    <2>1. session' = [session EXCEPT !.armed = TRUE]
      BY <1>7 DEF WriterElects
    <2>2. KeysStay /\ session'.state = session.state
      BY <1>1, <2>1 DEF KeysStay, SessionState
    <2> QED
      BY <1>3, <1>4, <1>5, <2>2, KeysIdle DEF KeyInv
  <1> QED
    BY <1>2, <1>6, <1>7 DEF WriterStep

\* The keys counted are those of the members, none is counted twice, and when
\* the session is past the key exchange all are in (KeyInv).
THEOREM KeyInvHolds == KeySetting => (Spec => []KeyInv)
  <1> SUFFICES ASSUME KeySetting PROVE Spec => []KeyInv
    OBVIOUS
  <1>1. Init => KeyInv
    <2> SUFFICES ASSUME Init PROVE KeyInv
      OBVIOUS
    <2>1. /\ run.at = "top" /\ session.peers = Peer /\ session.state = "KeyExchange"
          /\ session.infos = 0 /\ session.data = [p \in Peer |-> NoData]
          /\ \A p \in Peer : reader[p].at = "read" /\ writer[p].at = "ready" /\ conn[p] = "open"
      BY DEF Init, NewJoinSession, Top
    <2>2. "pk" \in Stored
      BY DEF Stored, Rounds
    <2>3. Keyed = {}
      BY <2>1, <2>2 DEF Keyed, NoData
    <2> QED
      BY <2>1, <2>3, FS_EmptySet DEF KeyInv, Staying, KeyOnce, KeySent, Counted, Beyond, Past
  <1>2. TypeOK /\ RoundInv /\ PublishInv /\ KeyInv /\ [Next]_vars => KeyInv'
    <2> SUFFICES ASSUME TypeOK, RoundInv, PublishInv, KeyInv, [Next]_vars PROVE KeyInv'
      OBVIOUS
    <2>1. CASE UNCHANGED vars
      <3>1. UNCHANGED <<session, run, reader, writer, conn>>
        BY <2>1 DEF vars
      <3>2. KeysStay /\ Quiet
        BY <3>1 DEF KeysStay, Quiet
      <3>3. Staying'
        BY <3>1 DEF KeyInv, Staying
      <3> QED
        BY <3>1, <3>2, <3>3, KeysIdle DEF KeyInv
    <2> QED
      BY <2>1, RunKeepsKeys, ReaderKeepsKeys, ClientKeepsKeys, WriterKeepsKeys DEF Next
  <1> QED
    BY <1>1, <1>2, Typed, RoundInvHolds, PublishInvHolds, PTL DEF Spec

\* Nobody mixes with a peer whose public key the others have not been sent
\* (PeersMsgInfo, sent with S_KEY_EXCHANGE): in each round of the mix the keys
\* counted are those of the members, until pushMaliciousInfo removes them all.
THEOREM KeysCompleteHolds == KeySetting => (Spec => [](session.peers # {} => KeysComplete))
  <1> SUFFICES ASSUME KeySetting PROVE Spec => [](session.peers # {} => KeysComplete)
    OBVIOUS
  <1>1. TypeOK /\ KeyInv => (session.peers # {} => KeysComplete)
    <2> SUFFICES ASSUME TypeOK, KeyInv, session.peers # {}, session.state \in MixStates
                 PROVE  Missing("pk") = {} /\ session.infos = Cardinality(session.peers)
      BY DEF KeysComplete
    <2>1. AllKeyed /\ session.infos = Cardinality(Keyed)
      BY DEF KeyInv, Beyond, Counted, Going, Past, MixStates
    <2> QED
      BY <2>1 DEF AllKeyed, Keyed, Missing
  <1>2. Spec => []KeyInv
    BY KeyInvHolds
  <1> QED
    BY <1>1, <1>2, Typed, PTL

-----------------------------------------------------------------------------
(***************************************************************************)
(* A peer whose client does as it is asked is never removed.  Its own data *)
(* must pass every check (it is "short" in a mix of fewer than two         *)
(* messages), its connection and its writer must stay as they are, and no  *)
(* misuse of another may set errm, after which every vector is refused.    *)
(* And the replay must be able to tell who is at fault: it may blame       *)
(* anybody if the paddings do not cancel, and whoever's second vector is   *)
(* in if a key or a first vector is wrong (Misjudged), so that these cases *)
(* are excluded.                                                           *)
(***************************************************************************)

\* The paddings cancel, and no timer removes an honest peer for another's delay
\* (KeySetting); no payload sets errm; no first vector and no revealed key is
\* wrong; and the honest peers alone make up a mix.
HonestSetting ==
    /\ KeySetting
    /\ <<"exp", "zero">> \notin Misuse /\ <<"exp", "wrong">> \notin Misuse
    /\ <<"vk", "wrong">> \notin Misuse
    /\ <<"txin", "undecodable">> \notin Misuse /\ <<"txin", "signed">> \notin Misuse
    /\ <<"sig", "undecodable">> \notin Misuse
    /\ Cardinality(Honest) * NumMsg >= 2

\* A session in which the honest peers are members with good data, and all
\* other data is among the misuses.
Spared(s) ==
    /\ Honest \subseteq s.peers
    /\ \A p \in Honest, k \in Stored : s.data[p][k] \in {"none", "good"}
    /\ \A p \in Peer, k \in Stored :
         s.data[p][k] \in {"none", "good"} \/ <<k, s.data[p][k]>> \in Misuse

HonestThere ==
    /\ Spared(session)
    /\ \A p \in Honest : /\ conn[p] = "open" /\ writer[p].at = "ready"
                        /\ reader[p].at \in {"read", "send"}

\* What a client may have sent.
Sent(m) ==
    /\ m.val = "good" \/ <<m.kind, m.val>> \in Misuse
    /\ m.peer \in Honest => m.val = "good"

Spoken ==
    /\ \A p \in Peer : reader[p].at = "send" => Sent(reader[p].msg)
    /\ run.at = "handle" => Sent(run.msg)

\* run accuses no honest peer, and has no reason to close all connections.
Mild ==
    /\ ~errm
    /\ run.at \notin {"expired", "range"}
    /\ run.at = "push" => run.who \cap Honest = {}
    /\ run.at = "send" => run.then \in {Top, Exit}

\* There are enough messages to mix, when vectors are asked for or handled.
Enough == session.infos * NumMsg >= 2

Mixed ==
    /\ session.state \in {"DcExponential", "DcXor"} => Enough
    /\ run.at = "send" /\ run.state \in {"DcExponential", "DcXor"} => Enough
    /\ run.at = "handle" /\ run.msg.kind = "exp" /\ Current(run.msg) => Enough
    /\ \A p \in Peer :
         reader[p].at = "send" /\ reader[p].msg.kind = "exp" /\ Current(reader[p].msg) => Enough

HonestInv == HonestThere /\ Spoken /\ Mild /\ Mixed

\* A product of natural numbers that is at least two, without multiplication.
LEMMA AtLeastTwo ==
    ASSUME NEW i \in Nat, NEW n \in Nat
    PROVE  i * n >= 2 <=> (i >= 2 /\ n >= 1) \/ (i >= 1 /\ n >= 2)
  <1>1. CASE i = 0
    BY <1>1
  <1>2. CASE i = 1
    BY <1>2
  <1>3. CASE n = 0
    BY <1>3
  <1>4. CASE n = 1
    BY <1>4
  <1>5. CASE i >= 2 /\ n >= 2
    <2>1. PICK a \in Nat, b \in Nat : i = a + 2 /\ n = b + 2
      <3>1. i - 2 \in Nat /\ n - 2 \in Nat /\ i = (i - 2) + 2 /\ n = (n - 2) + 2
        BY <1>5
      <3> QED
        BY <3>1
    <2>2. a * b \in Nat /\ i * n = a * b + 2 * a + 2 * b + 4
      BY <2>1
    <2> QED
      BY <1>5, <2>1, <2>2
  <1> QED
    BY <1>1, <1>2, <1>3, <1>4, <1>5

\* When all keys are in, the honest members' keys are.
LEMMA KeysEnough ==
    ASSUME HonestSetting, NEW s, s.infos \in Nat, KeysIn(s),
           Honest \subseteq s.peers, s.peers \subseteq Peer
    PROVE  s.infos * NumMsg >= 2
  <1>1. IsFiniteSet(s.peers)
    BY ConstantsOK, FS_Subset
  <1>2. Cardinality(Honest) <= Cardinality(s.peers) /\ Cardinality(Honest) \in Nat
    BY <1>1, FS_Subset, FS_CardinalityType
  <1>3. NumMsg \in Nat
    BY ConstantsOK
  <1> QED
    BY <1>2, <1>3, AtLeastTwo DEF HonestSetting, KeysIn

\* Mixed survives a step that takes no message up and loses no key.
LEMMA MixedKept ==
    ASSUME TypeOK, Mixed, Quiet, session'.epoch = session.epoch,
           session'.infos \in Nat, session'.infos >= session.infos,
           session'.state = session.state \/ session'.state \notin {"DcExponential", "DcXor"},
           run'.at = "send" => \/ run'.state \notin {"DcExponential", "DcXor"}
                               \/ run'.state = session.state
                               \/ run.at = "send" /\ run'.state = run.state
                               \/ Enough \/ Enough'
    PROVE  Mixed'
  <1>1. session.infos \in Nat /\ NumMsg \in Nat
    BY ConstantsOK DEF TypeOK, SessionState
  <1>2. Enough => Enough'
    BY <1>1, AtLeastTwo DEF Enough
  <1> HIDE DEF Enough
  <1> QED
    BY <1>2 DEF Mixed, Quiet, Current

\* A restart needs no vectors, and outdates the messages under way.
LEMMA MixedRestarted ==
    ASSUME TypeOK, RoundInv, NEW P, Restarts(P), Quiet,
           run'.at = "send" => run'.state = "KeyExchange"
    PROVE  Mixed'
  <1>1. /\ run.at = "handle" => run.msg.epoch \in Nat /\ run.msg.epoch <= session.epoch
        /\ \A p \in Peer : reader[p].at = "send" =>
             reader[p].msg.epoch \in Nat /\ reader[p].msg.epoch <= session.epoch
    BY PublishTypes, RunShape, ReaderShape, MessageShape DEF RoundInv, UnderWay, Backed
  <1>2. /\ run'.at = "handle" => ~Current(run.msg)'
        /\ \A p \in Peer : reader'[p].at = "send" => ~Current(reader[p].msg)'
    BY <1>1, PublishTypes DEF Restarts, Current, Quiet
  <1> QED
    BY <1>2 DEF Mixed, Restarts

\* Whoever is removed or restarted without, the others keep what they have.
LEMMA SparedKept ==
    ASSUME TypeOK, Spared(session), NEW P, P \cap Honest = {}
    PROVE  Spared(Without(P)) /\ (session' = Restarted(P) => Spared(session'))
  <1>1. session \in SessionState
    BY DEF TypeOK
  <1>2. Spared(Without(P))
    BY <1>1, WithoutFields DEF Spared
  <1>4. session' = Restarted(P) => Spared(session')
    BY RestartedRestarts DEF Spared, Restarts, Honest
  <1> QED
    BY <1>2, <1>4

\* An honest peer's connection stays open when others' are closed.
LEMMA CloseSpares ==
    ASSUME HonestThere, NEW P, P \cap Honest = {}, Close(P)
    PROVE  \A p \in Honest : conn'[p] = "open"
  BY DEF HonestThere, Close, Honest

\* Writing to an honest peer's open connection succeeds.
LEMMA WritesSpare ==
    ASSUME TypeOK, HonestThere, NEW q, NEW o \in WriteOutcomes(q)
    PROVE  q \in Honest => o = "ready"
  BY DEF HonestThere, WriteOutcomes

\* What a handler leaves to show once it leaves the peers as they are.
LEMMA HandlerSpares ==
    ASSUME HonestInv, UNCHANGED <<reader, writer>>, run.at = "handle",
           ~errm', Spared(session'),
           conn' = conn \/ (\E P : P \cap Honest = {} /\ Close(P)),
           \/ run' = run
           \/ run'.at \in {"top", "exit"}
           \/ run'.at = "push" /\ run'.who \cap Honest = {}
           \/ run'.at = "send" /\ run'.then \in {Top, Exit},
           Mixed'
    PROVE  HonestInv'
  <1>1. HonestThere'
    BY CloseSpares DEF HonestInv, HonestThere, Spared
  <1>2. Spoken' /\ Mild'
    BY DEF HonestInv, Spoken, Mild, Sent
  <1> QED
    BY <1>1, <1>2 DEF HonestInv

\* The same for the usual endings: the session keeps its state and its keys.
LEMMA HandlerEndsSparing ==
    ASSUME TypeOK, HonestInv, UNCHANGED <<reader, writer>>, run.at = "handle",
           ~errm', conn' = conn, NEW s, NEW then \in {Top, Exit},
           Spared(s), s.epoch = session.epoch, s.state = session.state, s.infos = session.infos,
           \/ Resume(s, then)
           \/ \E who : who \cap Honest = {} /\ Accuses(s, who, then)
           \/ \E to, state, arm :
                /\ Broadcast(s, to, state, arm, then)
                /\ state \notin {"DcExponential", "DcXor"} \/ state = session.state \/ Enough
    PROVE  HonestInv'
  <1>1. session' = s
    BY DEF Resume, Accuses, Push, Broadcast
  <1>2. \/ run'.at \in {"top", "exit"}
        \/ run'.at = "push" /\ run'.who \cap Honest = {}
        \/ /\ run'.at = "send" /\ run'.then \in {Top, Exit}
           /\ run'.state \notin {"DcExponential", "DcXor"} \/ run'.state = session.state \/ Enough
    BY DEF Resume, Accuses, Push, Broadcast, Top, Exit
  <1>3. session.infos \in Nat
    BY DEF TypeOK, SessionState
  <1>4. Mixed'
    BY <1>1, <1>2, <1>3, MixedKept DEF HonestInv, Quiet
  <1> QED
    BY <1>1, <1>2, <1>4, HandlerSpares

\* The handlers accuse, remove and refuse only senders of bad messages.
LEMMA HandlersSpare ==
    ASSUME HonestSetting, TypeOK, RoundInv, PublishInv, KeyInv, HonestInv,
           \/ KeyExchange \/ DcExpVector \/ DcXorVector \/ TxInputs \/ SignedTx
           \/ PublishResult \/ RevealSecret \/ MsgNotFound
    PROVE  HonestInv'
  <1> DEFINE m == run.msg
             s == WithData(m)
             Like(x) == /\ Spared(x) /\ x.epoch = session.epoch
                        /\ x.state = session.state /\ x.infos = session.infos
  <1>1. run.at = "handle" /\ UNCHANGED <<reader, writer>>
    BY DEF KeyExchange, DcExpVector, DcXorVector, TxInputs, SignedTx, PublishResult,
           RevealSecret, MsgNotFound, Handling, RunAt
  <1>2. /\ m \in Message /\ m.peer \in Peer /\ session \in SessionState
        /\ session.peers \subseteq Peer /\ session.infos \in Nat
    BY <1>1, PublishTypes, RunShape, MessageShape DEF SessionState
  <1>3. Sent(m) /\ ~errm
    BY <1>1 DEF HonestInv, Spoken, Mild
  <1>4. m.val # "good" => {m.peer} \cap Honest = {}
    BY <1>3 DEF Sent
  <1>5. \A x \in {"pk", "exp", "xor", "txin", "sig", "vk"} : x \in Stored
    BY DEF Stored, Rounds
  <1>6. Like(session)
    BY DEF HonestInv, HonestThere
  <1>7. m.kind \in Stored => /\ s \in SessionState /\ s.peers = session.peers /\ Like(s)
    <2>1. SUFFICES ASSUME m.kind \in Stored
                   PROVE  s \in SessionState /\ s.peers = session.peers /\ Like(s)
      OBVIOUS
    <2>2. /\ s \in SessionState /\ s.peers = session.peers
          /\ s.epoch = session.epoch /\ s.state = session.state /\ s.infos = session.infos
          /\ \A p \in Peer, k \in Stored :
               s.data[p][k] = IF p = m.peer /\ k = m.kind THEN m.val ELSE session.data[p][k]
      BY <1>2, <2>1, WithDataFields, WithDataType
    <2>4. m.val = "good" \/ <<m.kind, m.val>> \in Misuse
      BY <1>3 DEF Sent
    <2> HIDE DEF s, m
    <2>5. \A p \in Peer, k \in Stored :
            s.data[p][k] \in {"none", "good"} \/ <<k, s.data[p][k]>> \in Misuse
      BY <1>6, <2>2, <2>4 DEF Spared
    <2>3. Spared(s)
      BY <1>3, <1>6, <2>2, <2>5 DEF Spared, Sent, Honest
    <2> QED
      BY <2>2, <2>3
  <1>8. Member(m) /\ m.kind = "exp" => Enough
    BY <1>1 DEF HonestInv, Mixed, Member, Current
  <1>9. ASSUME NEW x, Like(x), ~errm', conn' = conn,
               \/ Resume(x, Top)
               \/ \E who : /\ who \cap Honest = {}
                           /\ Accuses(x, who, Top) \/ Accuses(x, who, Exit)
        PROVE  HonestInv'
    BY <1>1, <1>9, HandlerEndsSparing
  <1>9a. ASSUME NEW x, NEW to, NEW state, NEW arm, NEW then \in {Top, Exit},
                Like(x), ~errm', conn' = conn, Broadcast(x, to, state, arm, then),
                state \notin {"DcExponential", "DcXor"} \/ state = session.state \/ Enough
         PROVE  HonestInv'
    BY <1>1, <1>9a, HandlerEndsSparing
  <1>19. ASSUME UNCHANGED <<session, run>>, ~errm', conn' = conn
         PROVE  HonestInv'
    <2>1. Mixed'
      BY <1>1, <1>2, <1>19, MixedKept DEF HonestInv, Quiet
    <2>2. Spared(session')
      BY <1>6, <1>19
    <2> QED
      BY <1>1, <1>19, <2>1, <2>2, HandlerSpares
  <1>10. ASSUME NEW x, NEW y, Like(y), x.epoch = y.epoch, x.state = y.state, x.infos = y.infos,
                x.peers = y.peers, x.data = y.data
         PROVE  Like(x)
    BY <1>10 DEF Spared
  <1> HIDE DEF m, s, Like, Enough
  <1>11. CASE KeyExchange
    <2> DEFINE t == [s EXCEPT !.infos = @ + 1]
    <2>1. m.kind \in Stored /\ UNCHANGED errm
      BY <1>5, <1>11 DEF KeyExchange, Handling, m
    <2>2. \/ Resume(session, Top) /\ UNCHANGED conn
          \/ m.val = "invalid" /\ Resume(Without({m.peer}), Top) /\ Close({m.peer})
          \/ KeysIn(t) /\ Broadcast(t, t.peers, "DcExponential", TRUE, Top) /\ UNCHANGED conn
          \/ Resume(t, Top) /\ UNCHANGED conn
      BY <1>11 DEF KeyExchange, m, s
    <2>3. /\ t.peers = session.peers /\ t.epoch = session.epoch /\ t.state = session.state
          /\ t.infos = session.infos + 1 /\ t.data = s.data
      BY <1>7, <2>1 DEF SessionState, Like
    <2>4. Spared(t)
      BY <1>7, <2>1, <2>3 DEF Spared, Like
    <2> HIDE DEF t
    <2>5. CASE Resume(session, Top) /\ UNCHANGED conn
      BY <1>3, <1>6, <1>9, <2>1, <2>5
    <2>6. CASE m.val = "invalid" /\ Resume(Without({m.peer}), Top) /\ Close({m.peer})
      <3>1. {m.peer} \cap Honest = {}
        BY <1>4, <2>6
      <3>2. Spared(Without({m.peer}))
        BY <1>6, <3>1, SparedKept DEF Like
      <3>3. session' = Without({m.peer}) /\ run'.at = "top"
        BY <2>6 DEF Resume, Top
      <3>4. /\ session'.epoch = session.epoch /\ session'.state = session.state
            /\ session'.infos = session.infos
        BY <1>2, <3>3, WithoutFields
      <3>5. Mixed'
        BY <1>1, <1>2, <3>3, <3>4, MixedKept DEF HonestInv, Quiet
      <3>6. Spared(session')
        BY <3>2, <3>3
      <3> QED
        BY <1>1, <1>3, <2>1, <2>6, <3>1, <3>3, <3>5, <3>6, HandlerSpares
    <2>7. CASE /\ UNCHANGED conn
               /\ \/ KeysIn(t) /\ Broadcast(t, t.peers, "DcExponential", TRUE, Top)
                  \/ Resume(t, Top)
      <3>1. /\ session' = t
            /\ run'.at = "top" \/ (KeysIn(t) /\ run'.at = "send" /\ run'.then = Top)
        BY <2>7 DEF Resume, Broadcast, Top
      <3>2. KeysIn(t) => t.infos * NumMsg >= 2
        BY <1>2, <2>3, <2>4, KeysEnough DEF Spared
      <3>3. KeysIn(t) => Enough'
        BY <3>1, <3>2 DEF Enough
      <3>4. session'.infos \in Nat /\ session'.infos >= session.infos
        BY <1>2, <2>3, <3>1
      <3>5. Mixed'
        BY <1>1, <2>3, <3>1, <3>3, <3>4, MixedKept DEF HonestInv, Quiet
      <3>6. Spared(session')
        BY <2>4, <3>1
      <3> QED
        BY <1>1, <1>3, <2>1, <2>7, <3>1, <3>5, <3>6, HandlerSpares
    <2> QED
      BY <2>2, <2>5, <2>6, <2>7
  <1>12. CASE DcExpVector
    <2> DEFINE t == [s EXCEPT !.asked = TRUE]
    <2>1. m.kind = "exp" /\ m.kind \in Stored /\ UNCHANGED conn
      BY <1>5, <1>12 DEF DcExpVector, Handling, m
    <2>2. m.val # "zero"
      BY <1>3, <2>1 DEF Sent, HonestSetting
    <2>3. /\ UNCHANGED errm
          /\ \/ Resume(session, Top)
             \/ m.val = "short" /\ Accuses(session, {m.peer}, Exit)
             \/ Resume(s, Top)
             \/ Member(m) /\ Broadcast(s, s.peers, "DcXor", TRUE, Top)
             \/ Broadcast(t, s.peers, s.state, FALSE, Top)
      BY <1>3, <1>12, <2>2, Accusing DEF DcExpVector, m, s
    <2>4. Like(s) /\ s.state = session.state
      BY <1>7, <2>1 DEF Like
    <2>5. Like(t)
      BY <1>7, <1>10, <2>1 DEF SessionState
    <2> HIDE DEF t
    <2>6. CASE m.val = "short" /\ Accuses(session, {m.peer}, Exit)
      <3>1. {m.peer} \cap Honest = {}
        BY <1>4, <2>6
      <3> QED
        BY <1>3, <1>6, <1>9, <2>1, <2>3, <2>6, <3>1
    <2>7. CASE Resume(session, Top) \/ Resume(s, Top)
      BY <1>3, <1>6, <1>9, <2>1, <2>3, <2>4, <2>7
    <2>8. CASE \/ Member(m) /\ Broadcast(s, s.peers, "DcXor", TRUE, Top)
               \/ Broadcast(t, s.peers, s.state, FALSE, Top)
      BY <1>3, <1>8, <1>9a, <2>1, <2>3, <2>4, <2>5, <2>8
    <2> QED
      BY <2>3, <2>6, <2>7, <2>8
  <1>13. CASE DcXorVector
    <2> DEFINE t == [s EXCEPT !.state = "TxInput", !.armed = TRUE]
    <2>1. m.kind \in Stored /\ ~errm' /\ conn' = conn
      BY <1>3, <1>5, <1>13 DEF DcXorVector, Handling, m
    <2>2. \/ /\ m.val = "short" /\ UNCHANGED session
             /\ run' = [at |-> "push", who |-> {m.peer}, epoch |-> m.epoch, late |-> FALSE,
                        then |-> Exit]
          \/ Resume(session, Top) \/ Resume(s, Top)
          \/ Broadcast(t, s.peers, "TxInput", FALSE, Top)
      BY <1>13 DEF DcXorVector, m, s
    <2>3. /\ t.epoch = session.epoch /\ t.state = "TxInput" /\ t.infos = session.infos
          /\ t.peers = session.peers /\ t.data = s.data
      BY <1>7, <2>1 DEF SessionState, Like
    <2>4. Spared(t)
      BY <1>7, <2>1, <2>3 DEF Spared, Like
    <2> HIDE DEF t
    <2>5. CASE /\ m.val = "short" /\ UNCHANGED session
               /\ run' = [at |-> "push", who |-> {m.peer}, epoch |-> m.epoch, late |-> FALSE,
                        then |-> Exit]
      <3>1. run'.at = "push" /\ run'.who \cap Honest = {} /\ session' = session
        BY <1>4, <2>5
      <3>2. Mixed'
        BY <1>1, <1>2, <3>1, MixedKept DEF HonestInv, Quiet
      <3>3. Spared(session')
        BY <1>6, <3>1 DEF Like
      <3> QED
        BY <1>1, <2>1, <3>1, <3>2, <3>3, HandlerSpares
    <2>6. CASE Resume(session, Top) \/ Resume(s, Top)
      BY <1>6, <1>7, <1>9, <2>1, <2>6
    <2>7. CASE Broadcast(t, s.peers, "TxInput", FALSE, Top)
      <3>1. /\ session' = t /\ run'.at = "send" /\ run'.state = "TxInput"
            /\ run'.then = Top
        BY <2>7 DEF Broadcast
      <3>2. Mixed'
        BY <1>1, <1>2, <2>3, <3>1, MixedKept DEF HonestInv, Quiet
      <3>3. Spared(session')
        BY <2>4, <3>1
      <3> QED
        BY <1>1, <2>1, <3>1, <3>2, <3>3, HandlerSpares
    <2> QED
      BY <2>2, <2>5, <2>6, <2>7
  <1>14. CASE TxInputs
    <2> DEFINE t == [s EXCEPT !.inputs = s.peers]
    <2>1. m.kind = "txin" /\ m.kind \in Stored /\ UNCHANGED conn
      BY <1>5, <1>14 DEF TxInputs, Handling, m
    <2>2. m.val \notin {"undecodable", "signed"}
      BY <1>3, <2>1 DEF Sent, HonestSetting
    <2>8. \/ Resume(session, Top) \/ Resume(s, Top)
          \/ m.val = "price" /\ Accuses(session, {m.peer}, Exit)
          \/ run' = Top /\ session' = s
          \/ Broadcast(t, s.peers, "TxSign", TRUE, Top)
          \/ UNCHANGED <<session, run>>
      BY <1>14, <2>2, Accusing DEF TxInputs, m, s
    <2>3. ~errm'
      BY <1>3, <1>14, <2>2 DEF TxInputs, m
    <2>4. Like(s) /\ Like(t)
      BY <1>7, <1>10, <2>1 DEF SessionState
    <2> HIDE DEF t
    <2>5. CASE m.val = "price" /\ Accuses(session, {m.peer}, Exit)
      <3>1. {m.peer} \cap Honest = {}
        BY <1>4, <2>5
      <3> QED
        BY <1>6, <1>9, <2>1, <2>3, <2>5, <3>1
    <2>6. CASE run' = Top /\ session' = s
      <3>1. run'.at = "top"
        BY <2>6 DEF Top
      <3>2. Mixed'
        BY <1>1, <1>2, <2>4, <2>6, <3>1, MixedKept DEF HonestInv, Quiet, Like
      <3>3. Spared(session')
        BY <2>4, <2>6 DEF Like
      <3> QED
        BY <1>1, <2>1, <2>3, <3>1, <3>2, <3>3, HandlerSpares
    <2>7. CASE Broadcast(t, s.peers, "TxSign", TRUE, Top)
      BY <1>9a, <2>1, <2>3, <2>4, <2>7
    <2>9. CASE UNCHANGED <<session, run>>
      BY <1>19, <2>1, <2>3, <2>9
    <2> QED
      BY <1>6, <1>9, <2>1, <2>3, <2>4, <2>5, <2>6, <2>7, <2>8, <2>9
  <1>15. CASE SignedTx
    <2>1. m.kind = "sig" /\ m.kind \in Stored /\ UNCHANGED conn
      BY <1>5, <1>15 DEF SignedTx, Handling, m
    <2>2. m.val # "undecodable"
      BY <1>3, <2>1 DEF Sent, HonestSetting
    <2>3. ~errm'
      BY <1>3, <1>15, <2>2 DEF SignedTx, m
    <2>0. PICK X : LET t == Joined(m, X) IN
          \/ Resume(session, Top)
          \/ m.val = "unsigned" /\ Accuses(s, {m.peer}, Top)
          \/ /\ X \in JoinedInputs(m)
             /\ \/ Resume(t, Top)
                \/ Broadcast(t, t.peers, "Completed", FALSE, Exit)
                \/ \E q : Broadcast([t EXCEPT !.publisher = q], {q}, "TxPublish", TRUE, Top)
          \/ UNCHANGED <<session, run>>
      BY <1>15, <2>2, Accusing DEF SignedTx, m, s
    <2> DEFINE t == Joined(m, X)
               elected(q) == [t EXCEPT !.publisher = q]
    <2>4. t = [s EXCEPT !.sigs = @ \cup {m.peer}, !.inputs = X]
      BY DEF Joined, s
    <2>5. Like(s) /\ Like(t)
      BY <1>7, <1>10, <2>1, <2>4 DEF SessionState
    <2>10. \A q : LET e == elected(q)
                 IN /\ e.epoch = t.epoch /\ e.state = t.state /\ e.infos = t.infos
                    /\ e.peers = t.peers /\ e.data = t.data
      BY <1>7, <2>1, <2>4 DEF SessionState
    <2>9. \/ Resume(session, Top)
          \/ m.val = "unsigned" /\ Accuses(s, {m.peer}, Top)
          \/ Resume(t, Top)
          \/ Broadcast(t, t.peers, "Completed", FALSE, Exit)
          \/ \E q : Broadcast(elected(q), {q}, "TxPublish", TRUE, Top)
          \/ UNCHANGED <<session, run>>
      BY <2>0
    <2> HIDE DEF t
    <2> HIDE DEF elected
    <2>6. \A q : Like(elected(q))
      BY <1>10, <2>5, <2>10
    <2>7. CASE m.val = "unsigned" /\ Accuses(s, {m.peer}, Top)
      <3>1. {m.peer} \cap Honest = {}
        BY <1>4, <2>7
      <3> QED
        BY <1>9, <2>1, <2>3, <2>5, <2>7, <3>1
    <2>8. CASE \E q : Broadcast(elected(q), {q}, "TxPublish", TRUE, Top)
      BY <1>9a, <2>1, <2>3, <2>6, <2>8
    <2>11. CASE UNCHANGED <<session, run>>
      BY <1>19, <2>1, <2>3, <2>11
    <2> QED
      BY <1>6, <1>9, <1>9a, <2>1, <2>3, <2>5, <2>7, <2>8, <2>9, <2>11
  <1>16. CASE PublishResult
    <2>1. Broadcast(session, session.peers, "Completed", FALSE, Exit) /\ ~errm' /\ conn' = conn
      BY <1>3, <1>16 DEF PublishResult
    <2> QED
      BY <1>6, <1>9a, <2>1
  <1>17. CASE RevealSecret
    <2> DEFINE t == [s EXCEPT !.finding = FALSE]
               u == [t EXCEPT !.replayed = TRUE]
    <2>1. m.kind \in Stored /\ conn' = conn
      BY <1>5, <1>17 DEF RevealSecret, Handling, m
    <2>3. Like(t) /\ t \in SessionState
      BY <1>7, <1>10, <2>1 DEF SessionState
    <2>7. /\ t.peers = session.peers /\ t.state = session.state /\ t.infos = session.infos
          /\ m.kind = "vk" /\ \A p \in Peer : t.data[p].pk = session.data[p].pk
      <3>1. "pk" \in Stored /\ "vk" \in Stored /\ m.kind = "vk"
        BY <1>17 DEF RevealSecret, Handling, m, Stored, Rounds
      <3>2. \A p \in Peer : s.data[p].pk = session.data[p].pk
        BY <1>2, <3>1, WithDataFields DEF s
      <3> QED
        BY <1>7, <2>1, <3>1, <3>2 DEF SessionState, Like
    <2>8. WrongKey(t) = {} /\ WrongExp(t) = {}
      <3>1. <<"vk", "wrong">> \notin Misuse /\ <<"exp", "wrong">> \notin Misuse
        BY DEF HonestSetting
      <3>2. \A p \in Peer : t.data[p].vk # "wrong" /\ t.data[p].exp # "wrong"
        BY <1>5, <2>3, <3>1 DEF Like, Spared
      <3>3. t.peers \subseteq Peer
        BY <2>3 DEF SessionState
      <3> QED
        BY <3>2, <3>3 DEF WrongKey, WrongExp
    <2>9. Member(m) => PaddingsCancel(t)
      <3> SUFFICES ASSUME Member(m) PROVE PaddingsCancel(t)
        OBVIOUS
      <3>1. session.state # "Completed"
        BY <1>1 DEF KeyInv, Beyond
      <3>2. session.state # "KeyExchange" /\ session.peers # {}
        BY <1>1, <2>7 DEF PublishInv, Begun, Member, Current, m
      <3>3. AllKeyed
        BY <1>1, <3>1, <3>2 DEF KeyInv, Beyond, Going, Past
      <3>4. session.infos = Cardinality(session.peers)
        BY <1>1, <3>2, <3>3 DEF KeyInv, Counted, Going, AllKeyed
      <3>5. \A q \in session.peers : session.data[q].pk # "none"
        BY <3>3 DEF AllKeyed, Keyed
      <3> QED
        BY <1>2, <2>7, <3>4, <3>5 DEF PaddingsCancel, KeysIn, All
    <2>10. Member(m) => \A who \in Malicious(t) : who \cap Honest = {}
      <3> SUFFICES ASSUME Member(m) PROVE \A who \in Malicious(t) : who \cap Honest = {}
        OBVIOUS
      <3>1. Misjudged(t) = {}
        BY <2>8, <2>9 DEF Misjudged
      <3>2. WrongXor(t) \cap Honest = {}
        BY <1>5, <2>3 DEF WrongXor, Like, Spared
      <3> QED
        BY <2>8, <3>1, <3>2 DEF Malicious
    <2>5. ~errm'
      BY <1>3, <1>17, <2>8 DEF RevealSecret, m, s
    <2>2. \/ Resume(session, Top) \/ Resume(t, Top) \/ Resume(u, Top)
          \/ Member(m) /\ \E who \in Malicious(t) : Accuses(u, who, Top)
          \/ UNCHANGED <<session, run, mu>>
          \/ WrongKey(t) # {}
      BY <1>17, Accusing DEF RevealSecret, m, s
    <2> HIDE DEF t
    <2>4. Like(u)
      BY <1>10, <2>3 DEF SessionState
    <2> HIDE DEF u
    <2>6. CASE UNCHANGED <<session, run, mu>>
      BY <1>19, <2>1, <2>5, <2>6
    <2>11. CASE Member(m) /\ \E who \in Malicious(t) : Accuses(u, who, Top)
      BY <1>9, <2>1, <2>4, <2>5, <2>10, <2>11
    <2> QED
      BY <1>6, <1>9, <2>1, <2>2, <2>3, <2>4, <2>5, <2>6, <2>8, <2>11
  <1>18. CASE MsgNotFound
    <2> DEFINE t == [session EXCEPT !.asked = TRUE]
    <2>1. /\ ~errm' /\ conn' = conn
          /\ \/ Resume(session, Top)
             \/ Broadcast(t, session.peers, "RevealSecret", TRUE, Top)
      BY <1>3, <1>18 DEF MsgNotFound, m
    <2>2. Like(t)
      BY <1>2, <1>6, <1>10 DEF SessionState
    <2> HIDE DEF t
    <2> QED
      BY <1>6, <1>9, <1>9a, <2>1, <2>2
  <1> QED
    BY <1>11, <1>12, <1>13, <1>14, <1>15, <1>16, <1>17, <1>18

\* What any step leaves to show that takes up no message.
LEMMA StepSpares ==
    ASSUME HonestInv, Spared(session'), Quiet, ~errm', Mixed',
           \A p \in Honest : /\ conn'[p] = "open" /\ writer'[p].at = "ready"
                             /\ reader'[p].at \in {"read", "send"},
           \/ run' = run
           \/ run'.at \in {"top", "exit", "select", "done"}
           \/ run'.at = "send" /\ run'.then \in {Top, Exit}
    PROVE  HonestInv'
  <1>1. HonestThere'
    BY DEF HonestThere
  <1>2. Spoken' /\ Mild'
    BY DEF HonestInv, Spoken, Mild, Sent, Quiet
  <1> QED
    BY <1>1, <1>2 DEF HonestInv

\* A step that changes nothing of the session but its timer or its flags.
LEMMA IdleSpares ==
    ASSUME TypeOK, HonestInv,
           \/ session' = session
           \/ \E b : session' = [session EXCEPT !.armed = b]
           \/ \E b : session' = [session EXCEPT !.finding = b]
    PROVE  /\ Spared(session')
           /\ session'.epoch = session.epoch /\ session'.state = session.state
           /\ session'.infos = session.infos /\ session'.infos \in Nat
           /\ Quiet /\ run'.at # "send" => Mixed'
           /\ Quiet /\ run' = run => Mixed'
  <1>1. /\ session'.peers = session.peers /\ session'.data = session.data
        /\ session'.epoch = session.epoch /\ session'.state = session.state
        /\ session'.infos = session.infos /\ session'.infos \in Nat
    BY DEF TypeOK, SessionState
  <1>2. Spared(session')
    BY <1>1 DEF HonestInv, HonestThere, Spared
  <1> QED
    BY <1>1, <1>2, MixedKept DEF HonestInv

\* The steps of run: it closes connections, or restarts the session, only to
\* be rid of those it accuses.
LEMMA RunSpares ==
    ASSUME HonestSetting, TypeOK, RoundInv, PublishInv, KeyInv, HonestInv, RunStep \/ Timeout
    PROVE  HonestInv'
  <1>1. /\ session \in SessionState /\ run \in RunState /\ session.infos \in Nat
        /\ reader \in [Peer -> ReaderState] /\ writer \in [Peer -> WriterState]
    BY DEF TypeOK, SessionState
  <1>2. /\ ~errm /\ Spared(session)
        /\ \A p \in Honest : /\ conn[p] = "open" /\ writer[p].at = "ready"
                             /\ reader[p].at \in {"read", "send"} /\ p \in Peer
    BY DEF HonestInv, Mild, HonestThere, Honest
  <1>3. CASE Loop
    <2>1. run'.at \in {"done", "select"} /\ UNCHANGED <<session, errm, reader, writer, conn>>
      BY <1>3 DEF Loop
    <2>2. Quiet
      BY <2>1 DEF Quiet
    <2> QED
      BY <1>2, <2>1, <2>2, IdleSpares, StepSpares
  <1>4. CASE \E p \in Peer : Receive(p)
    <2>1. PICK p \in Peer : Receive(p)
      BY <1>4
    <2>2. /\ UNCHANGED <<session, errm, writer, conn>>
          /\ reader[p].at = "send"
          /\ run' = [at |-> "handle", msg |-> reader[p].msg]
          /\ reader' = [reader EXCEPT ![p] = [at |-> "read"]]
      BY <2>1 DEF Receive, RunAt, ReaderAt
    <2>3. /\ reader'[p].at = "read" /\ \A q \in Peer \ {p} : reader'[q] = reader[q]
          /\ run'.at = "handle" /\ run'.msg = reader[p].msg
      BY <1>1, <2>2
    <2>4. HonestThere' /\ Mild'
      BY <1>2, <2>2, <2>3 DEF HonestThere, Mild
    <2>5. Spoken'
      BY <2>2, <2>3 DEF HonestInv, Spoken, Sent
    <2>6. Enough' <=> Enough
      BY <2>2 DEF Enough
    <2>7. Mixed'
      BY <2>2, <2>3, <2>6 DEF HonestInv, Mixed, Current
    <2> QED
      BY <2>4, <2>5, <2>7 DEF HonestInv
  <1>5. CASE Timeout \/ Expired \/ EvictPublisher \/ RangeDone
    BY <1>5 DEF HonestSetting, KeySetting, HonestInv, Mild, Timeout, Expired, EvictPublisher,
                RangeDone, RunAt
  <1>6. CASE \E q \in Peer : RunSend(q)
    <2>1. PICK q \in Peer : RunSend(q)
      BY <1>6
    <2>2. /\ run.at = "send" /\ run' = [run EXCEPT !.to = @ \ {q}] /\ Send(q)
          /\ UNCHANGED <<session, errm, reader, conn>>
      BY <2>1 DEF RunSend, RunAt
    <2>3. run'.at = "send" /\ run'.state = run.state /\ run'.then = run.then
      BY <1>1, <2>2, RunShape
    <2>4. \A p \in Honest : writer'[p].at = "ready"
      BY <1>1, <1>2, <2>2, WritesSpare DEF Send, HonestInv
    <2>5. Quiet /\ run.then \in {Top, Exit}
      BY <2>2, <2>3 DEF Quiet, HonestInv, Mild
    <2>6. Mixed'
      BY <1>1, <2>2, <2>3, <2>5, MixedKept DEF HonestInv
    <2> QED
      BY <1>2, <2>2, <2>3, <2>4, <2>5, <2>6, StepSpares
  <1>7. CASE RunSent
    <2>1. /\ run.at = "send" /\ run' = run.then /\ UNCHANGED <<errm, reader, writer, conn>>
          /\ session' = [session EXCEPT !.state = run.state, !.armed = @ \/ run.arm]
      BY <1>7 DEF RunSent, RunAt
    <2>2. run'.at \in {"top", "exit"}
      BY <2>1 DEF HonestInv, Mild, Top, Exit
    <2>3. /\ session'.peers = session.peers /\ session'.data = session.data
          /\ session'.epoch = session.epoch /\ session'.state = run.state
          /\ session'.infos = session.infos
      BY <1>1, <2>1 DEF SessionState
    <2>4. Spared(session') /\ Quiet
      BY <1>2, <2>1, <2>2, <2>3 DEF Spared, Quiet
    <2>5. Enough' <=> Enough
      BY <2>3 DEF Enough
    <2>6. Mixed'
      BY <2>1, <2>2, <2>3, <2>5 DEF HonestInv, Mixed, Current
    <2> QED
      BY <1>2, <2>1, <2>2, <2>4, <2>6, StepSpares
  <1>8. CASE RunPush
    <2>0. PICK out : RunPushed(out)
      BY <1>8, Pushing
    <2>1. /\ run.at = "push" /\ UNCHANGED <<errm, reader, writer>> /\ Close(out)
          /\ \/ Resume(Without(out), run.then)
             \/ Broadcast(Restarted(out), session.peers \ out, "KeyExchange", FALSE, run.then)
      BY <2>0 DEF RunPushed
    <2>2. run.then \in {Top, Exit} /\ out \cap Honest = {}
      BY <1>1, <2>0, <2>1, RunShape, PushedOut DEF HonestInv, Mild
    <2>3. \A p \in Honest : conn'[p] = "open"
      BY <2>1, <2>2, CloseSpares DEF HonestInv
    <2>4. CASE Resume(Without(out), run.then)
      <3>1. session' = Without(out) /\ run'.at \in {"top", "exit"}
        BY <2>2, <2>4 DEF Resume, Top, Exit
      <3>2. /\ session'.epoch = session.epoch /\ session'.state = session.state
            /\ session'.infos = session.infos
        BY <1>1, <3>1, WithoutFields
      <3>3. Quiet /\ Spared(session')
        BY <1>2, <2>1, <2>2, <3>1, SparedKept DEF Quiet
      <3>4. Mixed'
        BY <1>1, <3>1, <3>2, <3>3, MixedKept DEF HonestInv
      <3> QED
        BY <1>2, <2>1, <2>3, <3>1, <3>3, <3>4, StepSpares
    <2>5. CASE Broadcast(Restarted(out), session.peers \ out, "KeyExchange", FALSE, run.then)
      <3>1. /\ session' = Restarted(out) /\ run'.at = "send" /\ run'.state = "KeyExchange"
            /\ run'.then = run.then
        BY <2>5 DEF Broadcast
      <3>2. Quiet /\ Spared(session')
        BY <1>2, <2>1, <2>2, <3>1, SparedKept DEF Quiet
      <3>3. Mixed'
        BY <3>1, <3>2, RestartedRestarts, MixedRestarted
      <3> QED
        BY <1>2, <2>1, <2>2, <2>3, <3>1, <3>2, <3>3, StepSpares
    <2> QED
      BY <2>1, <2>4, <2>5
  <1>9. CASE RunExit
    <2>1. run'.at = "done" /\ UNCHANGED <<session, errm, reader, writer, conn>>
      BY <1>2, <1>9 DEF RunExit
    <2>2. Quiet
      BY <2>1 DEF Quiet
    <2> QED
      BY <1>2, <2>1, <2>2, IdleSpares, StepSpares
  <1> QED
    BY <1>3, <1>4, <1>5, <1>6, <1>7, <1>8, <1>9, HandlersSpare DEF RunStep

\* The readers: an honest peer's waits for a message or hands one over; the
\* others remove their own peer, and nobody else.
LEMMA ReaderSpares ==
    ASSUME HonestSetting, TypeOK, RoundInv, HonestInv, NEW p \in Peer, ReaderStep(p)
    PROVE  HonestInv'
  <1>1. /\ session \in SessionState /\ run \in RunState /\ session.infos \in Nat
        /\ reader \in [Peer -> ReaderState] /\ writer \in [Peer -> WriterState]
    BY DEF TypeOK, SessionState
  <1>2. /\ ~errm /\ Spared(session)
        /\ \A q \in Honest : /\ conn[q] = "open" /\ writer[q].at = "ready"
                             /\ reader[q].at \in {"read", "send"} /\ q \in Peer
    BY DEF HonestInv, Mild, HonestThere, Honest
  <1>3. p \notin Honest
    BY <1>2 DEF ReaderStep, Drop, ReaderPush, ReaderSend, ReaderSent, ReaderError, ReaderClose,
                ReaderAt
  <1>4. ASSUME NEW r, Rework(p, r)
        PROVE  reader'[p] = r /\ \A q \in Peer \ {p} : reader'[q] = reader[q]
    BY <1>1, <1>4 DEF Rework
  <1>5. UNCHANGED errm /\ (conn' = conn \/ \E P : P \subseteq {p} /\ Close(P))
    BY DEF ReaderStep, Drop, ReaderPush, ReaderSend, ReaderSent, ReaderError, ReaderClose, Accused
  <1>6. \A q \in Honest : conn'[q] = "open"
    BY <1>2, <1>3, <1>5, CloseSpares DEF HonestInv
  <1>7. ASSUME NEW P, P \subseteq {p}, session' = Without(P)
        PROVE  /\ Spared(session') /\ session'.epoch = session.epoch
               /\ session'.state = session.state /\ session'.infos = session.infos
    BY <1>1, <1>2, <1>3, <1>7, SparedKept, WithoutFields
  <1>8. \A q \in Honest : writer'[q].at = "ready"
    <2>1. CASE \E q \in Peer : ReaderSend(p, q)
      BY <1>1, <1>2, <2>1, WritesSpare DEF ReaderSend, Send, HonestInv
    <2>2. CASE ReaderClose(p)
      BY <1>1, <1>2, <1>3, <2>2 DEF ReaderClose
    <2>3. CASE Drop(p) \/ ReaderPush(p) \/ ReaderSent(p) \/ ReaderError(p)
      BY <1>2, <2>3 DEF Drop, ReaderPush, ReaderSent, ReaderError
    <2> QED
      BY <2>1, <2>2, <2>3 DEF ReaderStep
  <1>9. ASSUME Spared(session'), Mixed', Quiet,
               \A q \in Peer \ {p} : reader'[q] = reader[q],
               run' = run \/ (run'.at = "send" /\ run'.then \in {Top, Exit})
        PROVE  HonestInv'
    BY <1>2, <1>3, <1>5, <1>6, <1>8, <1>9, StepSpares
  <1>10. CASE Drop(p)
    <2>1. /\ session' = Without({p}) /\ Rework(p, [at |-> "read"])
          /\ run' = IF run.at = "send" THEN [run EXCEPT !.to = @ \ {p}] ELSE run
      BY <1>10 DEF Drop
    <2>2. /\ run.at # "send" => run' = run
          /\ run.at = "send" => run'.at = "send" /\ run'.state = run.state /\ run'.then = run.then
      BY <1>1, <2>1, RunShape
    <2>3. reader'[p].at = "read" /\ \A q \in Peer \ {p} : reader'[q] = reader[q]
      BY <1>4, <2>1
    <2>4. Quiet /\ (run' = run \/ (run'.at = "send" /\ run'.then \in {Top, Exit}))
      BY <2>2, <2>3 DEF Quiet, HonestInv, Mild
    <2>5. Mixed'
      BY <1>1, <1>7, <2>1, <2>2, <2>4, MixedKept DEF HonestInv
    <2> QED
      BY <1>7, <1>9, <2>1, <2>3, <2>4, <2>5
  <1>11. CASE ReaderPush(p)
    <2>0. PICK out : ReaderPushed(p, out)
      BY <1>11, Pushing
    <2>1. /\ mu = Free /\ UNCHANGED run /\ out \subseteq {p}
          /\ \/ session' = Without(out) /\ Rework(p, [at |-> "read"])
             \/ session' = Restarted(out) /\ ReaderSends(p, session.peers \ out, FALSE, "read")
      BY <2>0, PushedOut DEF ReaderPushed
    <2>2. reader'[p].at \in {"read", "bcast"} /\ \A q \in Peer \ {p} : reader'[q] = reader[q]
      BY <1>4, <2>1 DEF ReaderSends
    <2>3. Quiet /\ run.at # "send"
      BY <2>1, <2>2 DEF Quiet, RoundInv, Locked, Free, ByRun
    <2>4. CASE session' = Without(out)
      <3>1. Mixed'
        BY <1>1, <1>7, <2>1, <2>3, <2>4, MixedKept DEF HonestInv
      <3> QED
        BY <1>7, <1>9, <2>1, <2>2, <2>3, <2>4, <3>1
    <2>5. CASE session' = Restarted(out)
      <3>1. Mixed'
        BY <2>1, <2>3, <2>5, RestartedRestarts, MixedRestarted
      <3>2. Spared(session')
        BY <1>2, <1>3, <2>1, <2>5, SparedKept
      <3> QED
        BY <1>9, <2>1, <2>2, <2>3, <3>1, <3>2
    <2> QED
      BY <2>1, <2>4, <2>5
  <1>12. CASE \E q \in Peer : ReaderSend(p, q)
    <2>1. PICK q \in Peer : ReaderSend(p, q)
      BY <1>12
    <2>2. /\ reader[p].at = "bcast" /\ Rework(p, [reader[p] EXCEPT !.to = @ \ {q}])
          /\ UNCHANGED <<session, run>>
      BY <2>1 DEF ReaderSend, ReaderAt
    <2>3. reader'[p].at = "bcast" /\ \A x \in Peer \ {p} : reader'[x] = reader[x]
      BY <1>1, <1>4, <2>2, ReaderShape
    <2>4. Quiet
      BY <2>2, <2>3 DEF Quiet
    <2> QED
      BY <1>9, <2>2, <2>3, <2>4, IdleSpares
  <1>13. CASE ReaderSent(p)
    <2>1. /\ reader[p].at = "bcast" /\ Rework(p, [at |-> reader[p].then]) /\ UNCHANGED run
          /\ session' = [session EXCEPT !.armed = @ \/ reader[p].arm]
      BY <1>13 DEF ReaderSent, ReaderAt
    <2>2. reader'[p].at \in {"read", "closing"} /\ \A q \in Peer \ {p} : reader'[q] = reader[q]
      BY <1>1, <1>4, <2>1, ReaderShape
    <2>3. Quiet
      BY <2>1, <2>2 DEF Quiet
    <2> QED
      BY <1>9, <2>1, <2>2, <2>3, IdleSpares
  <1>14. CASE ReaderError(p)
    <2> DEFINE s == Without({p})
               elected(q) == [s EXCEPT !.publisher = q]
    <2>1. /\ mu = Free /\ UNCHANGED run
          /\ \/ Rework(p, [at |-> "closing"]) \/ Rework(p, [at |-> "dead"])
             \/ \E q : ReaderSends(p, {q}, TRUE, "closing")
          /\ \/ session' = session \/ session' = s
             \/ \E q \in s.peers : session' = elected(q)
      BY <1>14 DEF ReaderError
    <2>2. /\ s.peers = session.peers \ {p} /\ s.state = session.state
          /\ s.epoch = session.epoch /\ s.data = session.data /\ s.infos = session.infos
          /\ s \in SessionState
      BY <1>1, WithoutFields, WithoutType
    <2> HIDE DEF s
    <2>3. \A q : LET e == elected(q)
                IN /\ e.peers = session.peers \ {p} /\ e.state = session.state
                   /\ e.epoch = session.epoch /\ e.data = session.data /\ e.infos = session.infos
      BY <2>2 DEF SessionState
    <2> HIDE DEF elected
    <2>4. /\ reader'[p].at \in {"closing", "dead", "bcast"}
          /\ \A q \in Peer \ {p} : reader'[q] = reader[q]
      <3>1. CASE \E x \in {"closing", "dead"} : Rework(p, [at |-> x])
        BY <1>4, <3>1
      <3>2. CASE \E q : ReaderSends(p, {q}, TRUE, "closing")
        BY <1>4, <3>2 DEF ReaderSends
      <3> QED
        BY <2>1, <3>1, <3>2
    <2>5. Quiet
      BY <2>1, <2>4 DEF Quiet
    <2>6. /\ session'.state = session.state /\ session'.epoch = session.epoch
          /\ session'.infos = session.infos /\ session'.data = session.data
          /\ session.peers \ {p} \subseteq session'.peers
      BY <2>1, <2>2, <2>3
    <2>7. Mixed'
      BY <1>1, <2>1, <2>5, <2>6, MixedKept DEF HonestInv
    <2>8. Spared(session')
      BY <1>2, <1>3, <2>6 DEF Spared
    <2> QED
      BY <1>9, <2>1, <2>4, <2>5, <2>7, <2>8
  <1>15. CASE ReaderClose(p)
    <2>1. /\ reader[p].at = "closing" /\ UNCHANGED <<session, run>>
          /\ Rework(p, [at |-> "gone"]) \/ UNCHANGED reader
      BY <1>15 DEF ReaderClose, ReaderAt
    <2>2. Quiet /\ \A q \in Peer \ {p} : reader'[q] = reader[q]
      BY <1>4, <2>1 DEF Quiet
    <2> QED
      BY <1>9, <2>1, <2>2, IdleSpares
  <1> QED
    BY <1>10, <1>11, <1>12, <1>13, <1>14, <1>15 DEF ReaderStep

\* The clients: whoever sends a vector is asked for it in a mix of enough
\* messages, so it has the announced length unless it is misuse.
LEMMA ClientSpares ==
    ASSUME HonestSetting, TypeOK, RoundInv, HonestInv, NEW p \in Peer, ClientStep(p)
    PROVE  HonestInv'
  <1>1. /\ session \in SessionState /\ reader \in [Peer -> ReaderState] /\ session.infos \in Nat
    BY DEF TypeOK, SessionState
  <1>2. /\ ~errm /\ Spared(session)
        /\ \A q \in Honest : /\ conn[q] = "open" /\ writer[q].at = "ready"
                             /\ reader[q].at \in {"read", "send"} /\ q \in Peer
    BY DEF HonestInv, Mild, HonestThere, Honest
  <1>3. PICK k \in Kind, v \in Payload : Accept(p, k, v)
    BY DEF ClientStep
  <1> DEFINE m == [kind |-> k, peer |-> p, epoch |-> session.epoch, val |-> Sized(k, v)]
             flagged == [session EXCEPT !.finding = @ \/ (k = "nf" /\ v # "unparsable")]
  <1>4. /\ reader[p].at = "read" /\ Expected(p, k) /\ UNCHANGED <<run, errm, writer, conn>>
        /\ v = "good" \/ (p \in Faulty /\ <<k, v>> \in Misuse)
        /\ \/ UNCHANGED <<reader, session>>
           \/ /\ session' = flagged
              /\ \/ Rework(p, [at |-> "send", msg |-> m])
                 \/ v = "unparsable" /\ Rework(p, [at |-> "drop"])
                 \/ v = "unparsable" /\ Rework(p, [at |-> "push", epoch |-> session.epoch])
    BY <1>3 DEF Accept, ReaderAt, ClientSends
  <1>5. /\ k \in {"exp", "xor"} => Enough
        /\ Sized(k, v) = v
    <2>1. k \in {"exp", "xor"} => Enough
      BY <1>4 DEF Expected, HonestInv, Mixed
    <2>2. Enough => ~(session.infos * NumMsg < 2)
      <3>1. session.infos * NumMsg \in Nat
        BY <1>1, ConstantsOK
      <3> QED
        BY <3>1 DEF Enough
    <2> QED
      BY <2>1, <2>2 DEF Sized
  <1>6. Sent(m) /\ m.kind = k
    BY <1>4, <1>5 DEF Sent, Honest
  <1>7. session' = session \/ \E b : session' = [session EXCEPT !.finding = b]
    BY <1>4
  <1>8. CASE UNCHANGED <<reader, session>>
    <2>1. Quiet
      BY <1>4, <1>8 DEF Quiet
    <2> QED
      BY <1>2, <1>4, <1>8, <2>1, IdleSpares, StepSpares
  <1>9. CASE session' = flagged /\ v = "unparsable" /\ (Rework(p, [at |-> "drop"])
                                 \/ Rework(p, [at |-> "push", epoch |-> session.epoch]))
    <2>1. /\ reader'[p].at \in {"drop", "push"} /\ \A q \in Peer \ {p} : reader'[q] = reader[q]
      BY <1>1, <1>9 DEF Rework
    <2>2. p \notin Honest
      BY <1>4, <1>9 DEF Honest
    <2>3. HonestThere'
      BY <1>2, <1>4, <1>7, <2>1, <2>2, IdleSpares DEF HonestThere
    <2>4. Spoken' /\ Mild'
      BY <1>4, <2>1 DEF HonestInv, Spoken, Mild, Sent
    <2>5. Enough' <=> Enough
      BY <1>7, IdleSpares DEF Enough
    <2>6. Mixed'
      BY <1>4, <1>7, <2>1, <2>5, IdleSpares DEF HonestInv, Mixed, Current
    <2> QED
      BY <2>3, <2>4, <2>6 DEF HonestInv
  <1>10. CASE session' = flagged /\ Rework(p, [at |-> "send", msg |-> m])
    <2>1. /\ reader'[p].at = "send" /\ reader'[p].msg = m
          /\ \A q \in Peer \ {p} : reader'[q] = reader[q]
      BY <1>1, <1>10 DEF Rework
    <2> HIDE DEF m
    <2>2. HonestThere'
      BY <1>2, <1>4, <1>7, <2>1, IdleSpares DEF HonestThere
    <2>3. Spoken' /\ Mild'
      BY <1>4, <1>6, <2>1 DEF HonestInv, Spoken, Mild, Sent
    <2>4. Enough' <=> Enough
      BY <1>7, IdleSpares DEF Enough
    <2>5. Mixed'
      BY <1>4, <1>5, <1>6, <1>7, <2>1, <2>4, IdleSpares DEF HonestInv, Mixed, Current
    <2> QED
      BY <2>2, <2>3, <2>5 DEF HonestInv
  <1> QED
    BY <1>4, <1>8, <1>9, <1>10

\* The writers, and a connection that is lost: it is not an honest peer's.
LEMMA WriterSpares ==
    ASSUME HonestSetting, TypeOK, RoundInv, HonestInv, NEW p \in Peer, WriterStep(p) \/ Leave(p)
    PROVE  HonestInv'
  <1>1. /\ session \in SessionState /\ session.infos \in Nat /\ writer \in [Peer -> WriterState]
    BY DEF TypeOK, SessionState
  <1>2. /\ ~errm /\ Spared(session)
        /\ \A q \in Honest : /\ conn[q] = "open" /\ writer[q].at = "ready"
                             /\ reader[q].at \in {"read", "send"} /\ q \in Peer
    BY DEF HonestInv, Mild, HonestThere, Honest
  <1>3. UNCHANGED <<run, reader, errm>> /\ p \notin Honest
    BY <1>2 DEF WriterStep, WriterError, WriterElects, Leave, WriterAt, Honest
  <1>4. Quiet
    BY <1>3 DEF Quiet
  <1>5. CASE WriterError(p)
    <2> DEFINE s == Without({p})
               elected(q) == [s EXCEPT !.publisher = q]
    <2>1. /\ conn' = conn \/ Close({p})
          /\ UNCHANGED writer \/ \E w : Retool(p, w)
          /\ \/ session' = session \/ session' = s
             \/ \E q \in s.peers : session' = elected(q)
      BY <1>5 DEF WriterError
    <2>2. /\ s.peers = session.peers \ {p} /\ s.state = session.state
          /\ s.epoch = session.epoch /\ s.data = session.data /\ s.infos = session.infos
          /\ s \in SessionState
      BY <1>1, WithoutFields, WithoutType
    <2> HIDE DEF s
    <2>3. \A q : LET e == elected(q)
                IN /\ e.peers = session.peers \ {p} /\ e.state = session.state
                   /\ e.epoch = session.epoch /\ e.data = session.data /\ e.infos = session.infos
      BY <2>2 DEF SessionState
    <2> HIDE DEF elected
    <2>4. /\ session'.state = session.state /\ session'.epoch = session.epoch
          /\ session'.infos = session.infos /\ session'.data = session.data
          /\ session.peers \ {p} \subseteq session'.peers
      BY <2>1, <2>2, <2>3
    <2>5. Mixed'
      BY <1>1, <1>3, <1>4, <2>4, MixedKept DEF HonestInv
    <2>6. Spared(session')
      BY <1>2, <1>3, <2>4 DEF Spared
    <2>7. \A q \in Honest : writer'[q].at = "ready"
      BY <1>1, <1>2, <1>3, <2>1 DEF Retool
    <2>8. \A q \in Honest : conn'[q] = "open"
      BY <1>2, <1>3, <2>1, CloseSpares DEF HonestInv
    <2> QED
      BY <1>2, <1>3, <1>4, <2>5, <2>6, <2>7, <2>8, StepSpares
  <1>6. CASE \E q \in Peer : WriterElects(p, q)
    <2>1. PICK q \in Peer : WriterElects(p, q)
      BY <1>6
    <2>2. PICK o \in WriteOutcomes(q) :
            writer' = [writer EXCEPT ![q] = [at |-> o], ![p] = [at |-> "gone"]]
      BY <2>1 DEF WriterElects
    <2>3. session' = [session EXCEPT !.armed = TRUE] /\ conn' = conn
      BY <2>1 DEF WriterElects
    <2>4. \A x \in Honest : writer'[x].at = "ready"
      BY <1>1, <1>2, <1>3, <2>2, WritesSpare DEF HonestInv
    <2> QED
      BY <1>2, <1>3, <1>4, <2>3, <2>4, IdleSpares, StepSpares
  <1>7. CASE Leave(p)
    <2>1. UNCHANGED <<session, writer>> /\ \A q \in Honest : conn'[q] = conn[q]
      BY <1>2, <1>3, <1>7 DEF Leave, TypeOK
    <2> QED
      BY <1>2, <1>3, <1>4, <2>1, IdleSpares, StepSpares
  <1> QED
    BY <1>5, <1>6, <1>7 DEF WriterStep

\* In this setting a peer that does as it is asked stays a member with its
\* connection open, and nothing it sent is found at fault: whatever others send
\* of second vectors, of transactions, results and complaints, unparsable or
\* again.  (In others, a wrong revealed key for instance, that is false.)
THEOREM HonestInvHolds == HonestSetting => (Spec => []HonestInv)
  <1> SUFFICES ASSUME HonestSetting PROVE Spec => []HonestInv
    OBVIOUS
  <1>1. Init => HonestInv
    <2> SUFFICES ASSUME Init PROVE HonestInv
      OBVIOUS
    <2>1. /\ session.state = "KeyExchange" /\ session.peers = Peer /\ run.at = "top" /\ ~errm
          /\ \A p \in Peer : /\ reader[p].at = "read" /\ writer[p].at = "ready" /\ conn[p] = "open"
                             /\ \A k \in Stored : session.data[p][k] = "none"
      BY DEF Init, NewJoinSession, NoData, Top
    <2> QED
      BY <2>1 DEF HonestInv, HonestThere, Spared, Spoken, Mild, Mixed, Honest
  <1>2. TypeOK /\ RoundInv /\ PublishInv /\ KeyInv /\ HonestInv /\ [Next]_vars => HonestInv'
    <2> SUFFICES ASSUME TypeOK, RoundInv, PublishInv, KeyInv, HonestInv, [Next]_vars
                 PROVE  HonestInv'
      OBVIOUS
    <2>1. CASE UNCHANGED vars
      <3>1. /\ Quiet /\ UNCHANGED <<session, run, errm, conn, reader, writer>>
        BY <2>1 DEF vars, Quiet
      <3>2. Mixed' /\ Spared(session')
        BY <3>1, IdleSpares
      <3> QED
        BY <3>1, <3>2, StepSpares DEF HonestInv, HonestThere, Mild
    <2> QED
      BY <2>1, RunSpares, ReaderSpares, ClientSpares, WriterSpares DEF Next
  <1>3. Spec => []KeyInv
    BY KeyInvHolds DEF HonestSetting
  <1> QED
    BY <1>1, <1>2, <1>3, Typed, RoundInvHolds, PublishInvHolds, PTL DEF Spec

\* A peer whose client does as it is asked is not removed from the session in
\* this setting: neither for its own messages, nor by the replay of the
\* protocol (joinsession.go:846-1232) for another's wrong second vector or
\* complaint, nor when the session restarts (removePeer, pushMaliciousInfo).
THEOREM HonestStayHolds == HonestSetting => (Spec => []HonestStay)
  <1>1. HonestInv => HonestStay
    BY DEF HonestInv, HonestThere, Spared, Honest, HonestStay
  <1> QED
    BY <1>1, HonestInvHolds, PTL

-----------------------------------------------------------------------------
(***************************************************************************)
(* Whoever holds mu gets on.  A goroutine that gives up with mu held does  *)
(* so for an error: a failed read or write of a member, errm, a broken     *)
(* select, or a "not found" while a malicious peer is sought (which an     *)
(* honest one sends if the paddings do not cancel).  The misuses of        *)
(* KeySetting and those below lead there; the others do not, and nobody    *)
(* waits for a writer that is gone, as only members are written to and a   *)
(* member's writer is ready.                                               *)
(***************************************************************************)

\* What leaves mu locked: the connection of a member breaks, is closed without
\* the lock, or by errm; a select is left; a peer misses its message; a key is
\* refused in the replay.
Blocking ==
    {<<"conn", "leave">>, <<"pk", "unparsable">>, <<"exp", "zero">>, <<"exp", "wrong">>,
     <<"xor", "wrong">>, <<"txin", "undecodable">>, <<"txin", "signed">>,
     <<"txin", "overspend">>, <<"sig", "undecodable">>, <<"vk", "wrong">>, <<"nf", "again">>}

LockSetting == KeySetting /\ Misuse \cap Blocking = {}

\* A message whose handler leaves mu as it found it, and nothing to be sought.
Harmless(m) == m.kind # "nf" /\ <<m.kind, m.val>> \notin Blocking

\* No malicious peer is sought, and no stored vector or key gives reason to.
Unspoiled(s) ==
    /\ ~s.finding
    /\ \A p \in Peer : s.data[p].exp # "wrong" /\ s.data[p].xor # "wrong" /\ s.data[p].vk # "wrong"

\* No goroutine has given up, or is about to.
Peaceful ==
    /\ ~errm /\ Unspoiled(session)
    /\ run.at \notin {"expired", "range", "dead"}
    /\ run.at = "handle" => Harmless(run.msg)
    /\ \A p \in Peer : /\ reader[p].at \notin {"dead", "drop"}
                       /\ reader[p].at = "send" => Harmless(reader[p].msg)
                       /\ writer[p].at \in {"ready", "gone"}
                       /\ conn[p] # "left"

\* The goroutines of a member are all there.
Attended ==
    \A p \in session.peers :
        conn[p] = "open" /\ writer[p].at = "ready" /\ reader[p].at \notin {"closing", "gone"}

\* mu is held through a broadcast to members, and only then.
Holding ==
    /\ mu = ByRun => run.at = "send"
    /\ run.at = "send" =>
         mu = ByRun /\ run.to \subseteq session.peers /\ run.then \in {Top, Exit}
    /\ \A p \in Peer :
         /\ mu # ByWriter(p)
         /\ mu = ByReader(p) => reader[p].at = "bcast"
         /\ reader[p].at = "bcast" =>
              mu = ByReader(p) /\ reader[p].to \subseteq session.peers /\ reader[p].then = "read"

LockInv == Peaceful /\ Attended /\ Holding

\* While nobody holds mu, nobody broadcasts.
LEMMA NobodySends ==
    ASSUME LockInv, mu = Free
    PROVE  run.at # "send" /\ \A p \in Peer : reader[p].at # "bcast"
  BY Holders DEF LockInv, Holding

\* Removals and restarts leave nothing to be sought.
LEMMA UnspoiledKept ==
    ASSUME TypeOK, Unspoiled(session), NEW P, session' = Without(P) \/ session' = Restarted(P)
    PROVE  session'.peers = session.peers \ P /\ Unspoiled(session')
  <1>1. session \in SessionState
    BY DEF TypeOK
  <1>2. \A k \in {"exp", "xor", "vk"} : k \in Stored
    BY DEF Stored, Rounds
  <1>3. CASE session' = Without(P)
    BY <1>1, <1>3, WithoutFields DEF Unspoiled
  <1>4. CASE session' = Restarted(P)
    <2>1. /\ session'.finding = session.finding /\ session'.data = [p \in Peer |-> NoData]
          /\ session'.peers = session.peers \ P
      BY <1>1, <1>4, RestartedFields
    <2> QED
      BY <1>2, <2>1 DEF Unspoiled, NoData
  <1> QED
    BY <1>3, <1>4

\* A step of run that takes mu for a broadcast, or leaves it alone.
LEMMA RunHolds ==
    ASSUME TypeOK, LockInv, mu = Free, UNCHANGED <<reader, writer>>, ~errm', Unspoiled(session'),
           NEW P, session'.peers = session.peers \ P, conn' = conn \/ Close(P),
           \/ UNCHANGED <<run, mu>>
           \/ run'.at \in {"top", "exit", "push"} /\ UNCHANGED mu
           \/ /\ mu' = ByRun /\ run'.at = "send"
              /\ run'.to \subseteq session'.peers /\ run'.then \in {Top, Exit}
    PROVE  LockInv'
  <1>1. session.peers \subseteq Peer
    BY PublishTypes
  <1>2. \A p \in Peer : conn'[p] # "left" /\ (p \in session'.peers => conn'[p] = conn[p])
    BY DEF LockInv, Peaceful, Close
  <1>3. Peaceful' /\ Attended'
    BY <1>1, <1>2 DEF LockInv, Peaceful, Attended, Harmless
  <1>4. Holding'
    BY NobodySends, Holders DEF Holding
  <1> QED
    BY <1>3, <1>4 DEF LockInv

\* The same for the endings of the handlers.
LEMMA EndingHolds ==
    ASSUME TypeOK, LockInv, mu = Free, UNCHANGED <<reader, writer, conn>>, ~errm',
           NEW s, Unspoiled(s), s.peers = session.peers, NEW then \in {Top, Exit},
           \/ Resume(s, then) \/ (\E who : Accuses(s, who, then))
           \/ \E to, state, arm : to \subseteq s.peers /\ Broadcast(s, to, state, arm, then)
    PROVE  LockInv'
  <1>1. session' = s /\ session'.peers = session.peers \ {}
    BY DEF Resume, Accuses, Push, Broadcast
  <1>2. \/ run'.at \in {"top", "exit", "push"} /\ UNCHANGED mu
        \/ /\ mu' = ByRun /\ run'.at = "send"
           /\ run'.to \subseteq session'.peers /\ run'.then \in {Top, Exit}
    BY DEF Resume, Accuses, Push, Broadcast, Top, Exit
  <1> QED
    BY <1>1, <1>2, RunHolds

\* The handlers: none is left with mu held, or accuses with it.
LEMMA HandlersHold ==
    ASSUME LockSetting, TypeOK, LockInv,
           \/ KeyExchange \/ DcExpVector \/ DcXorVector \/ TxInputs \/ SignedTx
           \/ PublishResult \/ RevealSecret \/ MsgNotFound
    PROVE  LockInv'
  <1> DEFINE m == run.msg
             s == WithData(m)
             Like(x) == Unspoiled(x) /\ x.peers = session.peers
             Sends(x, then) == \E to, state, arm : to \subseteq x.peers /\ Broadcast(x, to, state, arm, then)
             Ends(x) == \E then \in {Top, Exit} :
                          Resume(x, then) \/ (\E who : Accuses(x, who, then)) \/ Sends(x, then)
  <1>1. run.at = "handle" /\ mu = Free /\ UNCHANGED <<reader, writer>>
    BY DEF KeyExchange, DcExpVector, DcXorVector, TxInputs, SignedTx, PublishResult,
           RevealSecret, MsgNotFound, Handling, RunAt
  <1>2. m \in Message /\ session \in SessionState /\ m.peer \in Peer
    BY <1>1, PublishTypes, RunShape, MessageShape
  <1>3. Harmless(m) /\ ~errm /\ Unspoiled(session)
    BY <1>1 DEF LockInv, Peaceful
  <1>4. \A x \in {"pk", "exp", "xor", "txin", "sig", "vk"} : x \in Stored
    BY DEF Stored, Rounds
  <1>5. Like(session)
    BY <1>3
  <1>6. m.kind \in Stored => s \in SessionState /\ Like(s)
    <2> SUFFICES ASSUME m.kind \in Stored PROVE s \in SessionState /\ Like(s)
      OBVIOUS
    <2>1. /\ s \in SessionState /\ s.peers = session.peers /\ s.finding = session.finding
          /\ \A p \in Peer, k \in Stored :
               s.data[p][k] = IF p = m.peer /\ k = m.kind THEN m.val ELSE session.data[p][k]
      BY <1>2, WithDataFields, WithDataType
    <2>2. m.kind \in {"exp", "xor", "vk"} => m.val # "wrong"
      BY <1>3 DEF Harmless, Blocking
    <2> HIDE DEF s, m
    <2>3. \A p \in Peer :
            s.data[p].exp # "wrong" /\ s.data[p].xor # "wrong" /\ s.data[p].vk # "wrong"
      BY <1>3, <1>4, <2>1, <2>2 DEF Unspoiled
    <2> QED
      BY <1>3, <2>1, <2>3 DEF Unspoiled
  <1>7. ASSUME NEW x, Like(x), ~errm', UNCHANGED conn, Ends(x)
        PROVE  LockInv'
    BY <1>1, <1>7, EndingHolds
  <1>8. \A x, y : Like(y) /\ x.finding = y.finding /\ x.peers = y.peers /\ x.data = y.data => Like(x)
    BY DEF Unspoiled
  <1>9. \A x, then, state, arm : Broadcast(x, x.peers, state, arm, then) => Sends(x, then)
    OBVIOUS
  <1>10. \A x : \A then \in {Top, Exit} :
           /\ Resume(x, then) => Ends(x)
           /\ \A who : Accuses(x, who, then) => Ends(x)
           /\ Sends(x, then) => Ends(x)
    OBVIOUS
  <1>11. Exit \in {Top, Exit} /\ Top \in {Top, Exit}
    OBVIOUS
  <1>20. UNCHANGED <<session, run, mu, conn>> /\ ~errm' => LockInv'
    <2> SUFFICES ASSUME UNCHANGED <<session, run, mu, conn>>, ~errm' PROVE LockInv'
      OBVIOUS
    <2>1. session'.peers = session.peers \ {} /\ Unspoiled(session')
      BY <1>3
    <2> QED
      BY <1>1, <2>1, RunHolds
  <1> HIDE DEF m, s, Like, Ends, Sends
  <1>12. CASE KeyExchange
    <2> DEFINE t == [s EXCEPT !.infos = @ + 1]
    <2>1. m.kind \in Stored /\ UNCHANGED errm
      BY <1>4, <1>12 DEF KeyExchange, Handling, m
    <2>2. \/ Resume(session, Top) /\ UNCHANGED conn
          \/ Resume(Without({m.peer}), Top) /\ Close({m.peer})
          \/ Broadcast(t, t.peers, "DcExponential", TRUE, Top) /\ UNCHANGED conn
          \/ Resume(t, Top) /\ UNCHANGED conn
      BY <1>12 DEF KeyExchange, m, s
    <2>3. t.finding = s.finding /\ t.peers = s.peers /\ t.data = s.data
      BY <1>6, <2>1 DEF SessionState
    <2> HIDE DEF t
    <2>4. Like(t)
      BY <1>6, <1>8, <2>1, <2>3
    <2>5. CASE Resume(Without({m.peer}), Top) /\ Close({m.peer})
      <3>1. session' = Without({m.peer}) /\ run'.at = "top" /\ UNCHANGED mu
        BY <2>5 DEF Resume, Top
      <3>2. session'.peers = session.peers \ {m.peer} /\ Unspoiled(session')
        BY <1>3, <3>1, UnspoiledKept
      <3> QED
        BY <1>1, <1>3, <2>1, <2>5, <3>1, <3>2, RunHolds
    <2> QED
      BY <1>3, <1>5, <1>7, <1>9, <1>10, <1>11, <2>1, <2>2, <2>4, <2>5
  <1>13. CASE DcExpVector
    <2> DEFINE t == [s EXCEPT !.asked = TRUE]
    <2>1. m.kind = "exp" /\ m.kind \in Stored /\ UNCHANGED conn
      BY <1>4, <1>13 DEF DcExpVector, Handling, m
    <2>2. m.val # "zero"
      BY <1>3, <2>1 DEF Harmless, Blocking
    <2>3. /\ UNCHANGED errm
          /\ \/ Resume(session, Top)
             \/ Accuses(session, {m.peer}, Exit)
             \/ Resume(s, Top)
             \/ Broadcast(s, s.peers, "DcXor", TRUE, Top)
             \/ Broadcast(t, s.peers, s.state, FALSE, Top)
      BY <1>3, <1>13, <2>2, Accusing DEF DcExpVector, m, s
    <2>4. t.finding = s.finding /\ t.peers = s.peers /\ t.data = s.data
      BY <1>6, <2>1 DEF SessionState
    <2> HIDE DEF t
    <2>5. Like(t) /\ Like(s)
      BY <1>6, <1>8, <2>1, <2>4
    <2> QED
      BY <1>3, <1>5, <1>7, <1>9, <1>10, <1>11, <2>1, <2>3, <2>4, <2>5
  <1>14. CASE DcXorVector
    <2> DEFINE t == [s EXCEPT !.state = "TxInput", !.armed = TRUE]
    <2>1. m.kind \in Stored /\ UNCHANGED <<conn, errm>>
      BY <1>4, <1>14 DEF DcXorVector, Handling, m
    <2>2. \/ /\ run' = [at |-> "push", who |-> {m.peer}, epoch |-> m.epoch, late |-> FALSE,
                        then |-> Exit]
             /\ UNCHANGED <<session, mu>>
          \/ Resume(session, Top) \/ Resume(s, Top)
          \/ Broadcast(t, s.peers, "TxInput", FALSE, Top)
      BY <1>14 DEF DcXorVector, m, s
    <2>3. t.finding = s.finding /\ t.peers = s.peers /\ t.data = s.data
      BY <1>6, <2>1 DEF SessionState
    <2> HIDE DEF t
    <2>4. Like(t) /\ Like(s)
      BY <1>6, <1>8, <2>1, <2>3
    <2>5. CASE /\ run' = [at |-> "push", who |-> {m.peer}, epoch |-> m.epoch, late |-> FALSE,
                        then |-> Exit]
               /\ UNCHANGED <<session, mu>>
      <3>1. session'.peers = session.peers \ {} /\ run'.at = "push" /\ Unspoiled(session')
        BY <1>3, <2>5
      <3> QED
        BY <1>1, <1>3, <2>1, <2>5, <3>1, RunHolds
    <2> QED
      BY <1>3, <1>5, <1>7, <1>9, <1>10, <1>11, <2>1, <2>2, <2>3, <2>4, <2>5
  <1>15. CASE TxInputs
    <2> DEFINE t == [s EXCEPT !.inputs = s.peers]
    <2>1. m.kind = "txin" /\ m.kind \in Stored /\ UNCHANGED conn
      BY <1>4, <1>15 DEF TxInputs, Handling, m
    <2>2. m.val \notin {"undecodable", "signed", "overspend"}
      BY <1>3, <2>1 DEF Harmless, Blocking
    <2>3. \/ Resume(session, Top) \/ Accuses(session, {m.peer}, Exit) \/ Resume(s, Top)
          \/ Broadcast(t, s.peers, "TxSign", TRUE, Top)
          \/ UNCHANGED <<session, run, mu>>
      BY <1>15, <2>2, Accusing DEF TxInputs, m, s
    <2>6. ~errm'
      BY <1>3, <1>15, <2>2 DEF TxInputs, m
    <2>4. t.finding = s.finding /\ t.peers = s.peers /\ t.data = s.data
      BY <1>6, <2>1 DEF SessionState
    <2> HIDE DEF t
    <2>5. Like(t) /\ Like(s)
      BY <1>6, <1>8, <2>1, <2>4
    <2> QED
      BY <1>5, <1>7, <1>9, <1>10, <1>11, <1>20, <2>1, <2>3, <2>4, <2>5, <2>6
  <1>16. CASE SignedTx
    <2>1. m.kind = "sig" /\ m.kind \in Stored /\ UNCHANGED conn
      BY <1>4, <1>16 DEF SignedTx, Handling, m
    <2>2. m.val # "undecodable"
      BY <1>3, <2>1 DEF Harmless, Blocking
    <2>0. PICK X : LET t == Joined(m, X) IN
          \/ Resume(session, Top) \/ Accuses(s, {m.peer}, Top) \/ Resume(t, Top)
          \/ Broadcast(t, t.peers, "Completed", FALSE, Exit)
          \/ \E q \in t.peers : Broadcast([t EXCEPT !.publisher = q], {q}, "TxPublish", TRUE, Top)
          \/ UNCHANGED <<session, run, mu>>
      BY <1>16, <2>2, Accusing DEF SignedTx, m, s
    <2>3. UNCHANGED errm
      BY <1>16, <2>2 DEF SignedTx, m
    <2> DEFINE t == Joined(m, X)
               elected(q) == [t EXCEPT !.publisher = q]
    <2>4. t = [s EXCEPT !.sigs = @ \cup {m.peer}, !.inputs = X]
      BY DEF Joined, s
    <2>5. /\ t.finding = s.finding /\ t.peers = s.peers /\ t.data = s.data
          /\ \A q : LET e == elected(q)
                    IN e.finding = s.finding /\ e.peers = s.peers /\ e.data = s.data
      BY <1>6, <2>1, <2>4 DEF SessionState
    <2>6. /\ UNCHANGED errm
          /\ \/ Resume(session, Top) \/ Accuses(s, {m.peer}, Top) \/ Resume(t, Top)
             \/ Broadcast(t, t.peers, "Completed", FALSE, Exit)
             \/ \E q \in t.peers : Broadcast(elected(q), {q}, "TxPublish", TRUE, Top)
             \/ UNCHANGED <<session, run, mu>>
      BY <2>0, <2>3
    <2> HIDE DEF t
    <2> HIDE DEF elected
    <2>7. Like(t) /\ Like(s) /\ \A q : Like(elected(q))
      BY <1>6, <1>8, <2>1, <2>5
    <2>8. CASE \E q \in t.peers : Broadcast(elected(q), {q}, "TxPublish", TRUE, Top)
      <3>1. PICK q \in t.peers : Broadcast(elected(q), {q}, "TxPublish", TRUE, Top)
        BY <2>8
      <3>2. Sends(elected(q), Top)
        BY <2>5, <3>1 DEF Sends
      <3> QED
        BY <1>3, <1>7, <1>10, <2>1, <2>6, <2>7, <3>2
    <2>9. CASE \/ Resume(session, Top) \/ Accuses(s, {m.peer}, Top) \/ Resume(t, Top)
               \/ Broadcast(t, t.peers, "Completed", FALSE, Exit)
      BY <1>3, <1>5, <1>7, <1>9, <1>10, <1>11, <2>1, <2>6, <2>7, <2>9
    <2>10. CASE UNCHANGED <<session, run, mu>>
      BY <1>3, <1>20, <2>1, <2>3, <2>10
    <2> QED
      BY <2>6, <2>8, <2>9, <2>10
  <1>17. CASE PublishResult
    <2>1. Broadcast(session, session.peers, "Completed", FALSE, Exit) /\ UNCHANGED <<errm, conn>>
      BY <1>17 DEF PublishResult
    <2> QED
      BY <1>3, <1>5, <1>7, <1>9, <1>10, <1>11, <2>1
  <1>18. CASE RevealSecret
    <2> DEFINE t == [s EXCEPT !.finding = FALSE]
               u == [t EXCEPT !.replayed = TRUE]
    <2>1. m.kind \in Stored /\ UNCHANGED conn
      BY <1>4, <1>18 DEF RevealSecret, Handling, m
    <2>6. WrongKey(t) = {}
      BY <1>6, <2>1 DEF WrongKey, Like, Unspoiled, SessionState
    <2>7. UNCHANGED errm
      BY <1>18, <2>6 DEF RevealSecret, m, s
    <2>2. \/ Resume(session, Top) \/ Resume(t, Top) \/ Resume(u, Top)
          \/ \E who : Accuses(u, who, Top)
          \/ UNCHANGED <<session, run, mu>>
      BY <1>18, <2>6, Accusing DEF RevealSecret, m, s
    <2>3. /\ t.finding = s.finding /\ t.peers = s.peers /\ t.data = s.data
          /\ u.finding = s.finding /\ u.peers = s.peers /\ u.data = s.data
      <3>1. s.finding = FALSE
        BY <1>6, <2>1 DEF SessionState, Like, Unspoiled
      <3> QED
        BY <1>6, <2>1, <3>1 DEF SessionState
    <2> HIDE DEF t, u
    <2>4. Like(t) /\ Like(u)
      BY <1>6, <1>8, <2>1, <2>3
    <2>5. CASE UNCHANGED <<session, run, mu>>
      BY <1>3, <1>20, <2>1, <2>5, <2>7
    <2> QED
      BY <1>3, <1>5, <1>7, <1>10, <1>11, <2>1, <2>2, <2>4, <2>5, <2>7
  <1>19. CASE MsgNotFound
    BY <1>3, <1>19 DEF MsgNotFound, Handling, Harmless, m
  <1> QED
    BY <1>12, <1>13, <1>14, <1>15, <1>16, <1>17, <1>18, <1>19

\* Writing to a member succeeds.
LEMMA WritesToMembers ==
    ASSUME LockInv, TypeOK, NEW q \in session.peers, NEW o \in WriteOutcomes(q)
    PROVE  o = "ready" /\ writer[q].at = "ready"
  BY DEF LockInv, Attended, WriteOutcomes

\* The other steps of run.
LEMMA RunStepsHold ==
    ASSUME LockSetting, TypeOK, LockInv, RunStep \/ Timeout
    PROVE  LockInv'
  <1>1. /\ session \in SessionState /\ run \in RunState /\ writer \in [Peer -> WriterState]
        /\ reader \in [Peer -> ReaderState] /\ session.peers \subseteq Peer
    BY PublishTypes
  <1>2. ~errm /\ Unspoiled(session) /\ run.at \notin {"expired", "range", "dead"}
    BY DEF LockInv, Peaceful
  <1>3. CASE Timeout
    BY <1>3 DEF Timeout, LockSetting, KeySetting
  <1>4. CASE Loop
    <2>1. /\ UNCHANGED <<session, mu, errm, reader, writer, conn>>
          /\ run.at = "top" /\ run'.at \in {"done", "select"}
      BY <1>4 DEF Loop, RunAt
    <2>2. Peaceful' /\ Attended'
      BY <2>1 DEF LockInv, Peaceful, Attended
    <2>3. Holding'
      BY <2>1 DEF LockInv, Holding
    <2> QED
      BY <2>2, <2>3 DEF LockInv
  <1>5. CASE \E p \in Peer : Receive(p)
    <2>1. PICK p \in Peer : Receive(p)
      BY <1>5
    <2>2. /\ UNCHANGED <<session, mu, errm, writer, conn>>
          /\ run.at = "select" /\ run' = [at |-> "handle", msg |-> reader[p].msg]
          /\ reader[p].at = "send" /\ reader'[p].at = "read"
          /\ \A q \in Peer \ {p} : reader'[q] = reader[q]
      BY <1>1, <2>1 DEF Receive, RunAt, ReaderAt
    <2>3. Harmless(run.msg)'
      BY <2>2 DEF LockInv, Peaceful, Harmless
    <2>4. Peaceful' /\ Attended'
      BY <1>1, <2>2, <2>3 DEF LockInv, Peaceful, Attended, Harmless
    <2>5. Holding'
      BY <2>2 DEF LockInv, Holding
    <2> QED
      BY <2>4, <2>5 DEF LockInv
  <1>6. CASE \E q \in Peer : RunSend(q)
    <2>1. PICK q \in Peer : RunSend(q)
      BY <1>6
    <2>2. /\ UNCHANGED <<session, mu, errm, reader, conn>>
          /\ run.at = "send" /\ q \in run.to
          /\ run' = [run EXCEPT !.to = @ \ {q}] /\ Send(q)
      BY <2>1 DEF RunSend, RunAt
    <2>3. run'.at = "send" /\ run'.then = run.then /\ run'.to \subseteq run.to
      BY <1>1, <2>2, RunShape
    <2>4. q \in session.peers
      BY <2>2 DEF LockInv, Holding
    <2>5. \A p \in Peer : writer'[p].at = writer[p].at
      BY <1>1, <2>2, <2>4, WritesToMembers DEF Send
    <2>6. Peaceful' /\ Attended'
      BY <1>1, <2>2, <2>3, <2>5 DEF LockInv, Peaceful, Attended
    <2>7. Holding'
      BY <2>2, <2>3 DEF LockInv, Holding
    <2> QED
      BY <2>6, <2>7 DEF LockInv
  <1>7. CASE RunSent
    <2>1. /\ UNCHANGED <<errm, reader, writer, conn>>
          /\ run.at = "send" /\ run' = run.then
          /\ mu' = IF run.then.at = "range" THEN mu ELSE Free
          /\ session' = [session EXCEPT !.state = run.state, !.armed = @ \/ run.arm]
      BY <1>7 DEF RunSent, RunAt
    <2>2. mu = ByRun /\ mu' = Free /\ run'.at \in {"top", "exit"}
      BY <2>1 DEF LockInv, Holding, Top, Exit
    <2>3. /\ session'.peers = session.peers /\ session'.finding = session.finding
          /\ session'.data = session.data
      BY <1>1, <2>1 DEF SessionState
    <2>4. Peaceful' /\ Attended'
      BY <1>1, <1>2, <2>1, <2>2, <2>3 DEF LockInv, Peaceful, Attended, Unspoiled
    <2>5. Holding'
      BY <2>1, <2>2, Holders DEF LockInv, Holding
    <2> QED
      BY <2>4, <2>5 DEF LockInv
  <1>8. CASE RunPush
    <2>0. PICK out : RunPushed(out)
      BY <1>8, Pushing
    <2>1. /\ mu = Free /\ UNCHANGED <<errm, reader, writer>> /\ Close(out) /\ run.at = "push"
          /\ \/ Resume(Without(out), run.then)
             \/ Broadcast(Restarted(out), session.peers \ out, "KeyExchange", FALSE, run.then)
      BY <2>0 DEF RunPushed
    <2>2. run.then \in {Top, Exit}
      BY <1>1, <2>1, RunShape
    <2>3. \/ session' = Without(out) /\ run'.at \in {"top", "exit"} /\ UNCHANGED mu
          \/ /\ session' = Restarted(out) /\ mu' = ByRun /\ run'.at = "send"
             /\ run'.to = session.peers \ out /\ run'.then \in {Top, Exit}
      BY <2>1, <2>2 DEF Resume, Broadcast, Top, Exit
    <2>4. session'.peers = session.peers \ out /\ Unspoiled(session')
      BY <1>2, <2>3, UnspoiledKept
    <2> QED
      BY <1>2, <2>1, <2>3, <2>4, RunHolds
  <1>9. CASE RunExit
    <2>1. /\ UNCHANGED <<session, mu, errm, reader, writer, conn>>
          /\ run.at = "exit" /\ run'.at = "done"
      BY <1>2, <1>9 DEF RunExit, RunAt
    <2>2. Peaceful' /\ Attended'
      BY <2>1 DEF LockInv, Peaceful, Attended
    <2>3. Holding'
      BY <2>1 DEF LockInv, Holding
    <2> QED
      BY <2>2, <2>3 DEF LockInv
  <1>10. CASE Expired \/ EvictPublisher \/ RangeDone
    BY <1>2, <1>10 DEF Expired, EvictPublisher, RangeDone, RunAt
  <1> QED
    BY <1>3, <1>4, <1>5, <1>6, <1>7, <1>8, <1>9, <1>10, HandlersHold DEF RunStep

\* The readers: only one whose peer has been removed finds its connection closed.
LEMMA ReaderStepsHold ==
    ASSUME LockSetting, TypeOK, LockInv, NEW p \in Peer, ReaderStep(p)
    PROVE  LockInv'
  <1>1. /\ session \in SessionState /\ writer \in [Peer -> WriterState]
        /\ reader \in [Peer -> ReaderState] /\ session.peers \subseteq Peer
    BY PublishTypes
  <1>2. ~errm /\ Unspoiled(session) /\ run.at \notin {"expired", "range", "dead"}
    BY DEF LockInv, Peaceful
  <1>3. CASE Drop(p)
    BY <1>3 DEF Drop, ReaderAt, LockInv, Peaceful
  <1>4. CASE ReaderPush(p)
    <2>0. PICK out : ReaderPushed(p, out)
      BY <1>4, Pushing
    <2>1. /\ mu = Free /\ UNCHANGED <<run, errm, writer>> /\ Close(out)
          /\ \/ /\ session' = Without(out) /\ Rework(p, [at |-> "read"]) /\ UNCHANGED mu
             \/ session' = Restarted(out) /\ ReaderSends(p, session.peers \ out, FALSE, "read")
      BY <2>0 DEF ReaderPushed
    <2>2. session'.peers = session.peers \ out /\ Unspoiled(session')
      BY <1>2, <2>1, UnspoiledKept
    <2>3. /\ \A q \in Peer \ {p} : reader'[q] = reader[q]
          /\ \/ reader'[p].at = "read" /\ UNCHANGED mu
             \/ /\ mu' = ByReader(p) /\ reader'[p].at = "bcast" /\ reader'[p].then = "read"
                /\ reader'[p].to = session'.peers
      BY <1>1, <2>1, <2>2 DEF Rework, ReaderSends
    <2>4. \A q \in Peer : conn'[q] # "left" /\ (q \in session'.peers => conn'[q] = conn[q])
      BY <2>1, <2>2 DEF LockInv, Peaceful, Close
    <2>5. Peaceful' /\ Attended'
      <3>1. Peaceful'
        BY <1>1, <1>2, <2>1, <2>2, <2>3, <2>4 DEF LockInv, Peaceful, Harmless
      <3>2. Attended'
        BY <1>1, <1>2, <2>1, <2>2, <2>3, <2>4 DEF LockInv, Attended
      <3> QED
        BY <3>1, <3>2
    <2>6. Holding'
      BY <1>1, <2>1, <2>3, NobodySends, Holders DEF Holding
    <2> QED
      BY <2>5, <2>6 DEF LockInv
  <1>5. CASE \E q \in Peer : ReaderSend(p, q)
    <2>1. PICK q \in Peer : ReaderSend(p, q)
      BY <1>5
    <2>2. /\ UNCHANGED <<session, mu, run, errm, conn>>
          /\ reader[p].at = "bcast" /\ q \in reader[p].to
          /\ Rework(p, [reader[p] EXCEPT !.to = @ \ {q}]) /\ Send(q)
      BY <2>1 DEF ReaderSend, ReaderAt
    <2>3. /\ reader'[p].at = "bcast" /\ reader'[p].then = reader[p].then
          /\ reader'[p].to \subseteq reader[p].to /\ \A x \in Peer \ {p} : reader'[x] = reader[x]
      BY <1>1, <2>2, ReaderShape DEF Rework
    <2>4. q \in session.peers
      BY <2>2 DEF LockInv, Holding
    <2>5. \A x \in Peer : writer'[x].at = writer[x].at
      BY <1>1, <2>2, <2>4, WritesToMembers DEF Send
    <2>6. Peaceful' /\ Attended'
      <3>1. Peaceful'
        BY <1>1, <2>2, <2>3, <2>5 DEF LockInv, Peaceful, Harmless
      <3>2. Attended'
        BY <1>1, <2>2, <2>3, <2>5 DEF LockInv, Attended
      <3> QED
        BY <3>1, <3>2
    <2>7. Holding'
      BY <2>2, <2>3 DEF LockInv, Holding
    <2> QED
      BY <2>6, <2>7 DEF LockInv
  <1>6. CASE ReaderSent(p)
    <2>1. /\ UNCHANGED <<run, errm, writer, conn>> /\ reader[p].at = "bcast" /\ Unlock
          /\ session' = [session EXCEPT !.armed = @ \/ reader[p].arm]
          /\ Rework(p, [at |-> reader[p].then])
      BY <1>6 DEF ReaderSent, ReaderAt
    <2>2. mu = ByReader(p) /\ reader[p].then = "read"
      BY <2>1 DEF LockInv, Holding
    <2>3. /\ mu' = Free /\ reader'[p].at = "read"
          /\ \A q \in Peer \ {p} : reader'[q] = reader[q]
      BY <1>1, <2>1, <2>2, Holders DEF Unlock, Rework
    <2>4. /\ session'.peers = session.peers /\ session'.finding = session.finding
          /\ session'.data = session.data
      BY <1>1, <2>1 DEF SessionState
    <2>5. Peaceful' /\ Attended'
      <3>1. Peaceful'
        BY <1>1, <1>2, <2>1, <2>3, <2>4 DEF LockInv, Peaceful, Unspoiled, Harmless
      <3>2. Attended'
        BY <1>1, <1>2, <2>1, <2>3, <2>4 DEF LockInv, Attended
      <3> QED
        BY <3>1, <3>2
    <2>6. Holding'
      BY <2>1, <2>2, <2>3, Holders DEF LockInv, Holding
    <2> QED
      BY <2>5, <2>6 DEF LockInv
  <1>7. CASE ReaderError(p)
    <2>1. p \notin session.peers
      BY <1>7 DEF ReaderError, LockInv, Attended
    <2>2. /\ mu = Free /\ UNCHANGED <<run, errm, writer, mu>> /\ Close({p})
          /\ Rework(p, [at |-> "closing"]) /\ session' \in {session, Without({p})}
      BY <2>1, <1>7 DEF ReaderError
    <2>3. session'.peers = session.peers /\ Unspoiled(session')
      BY <1>2, <2>1, <2>2, UnspoiledKept
    <2>4. reader'[p].at = "closing" /\ \A q \in Peer \ {p} : reader'[q] = reader[q]
      BY <1>1, <2>2 DEF Rework
    <2>5. \A q \in Peer : conn'[q] # "left" /\ (q \in session.peers => conn'[q] = conn[q])
      BY <2>1, <2>2 DEF LockInv, Peaceful, Close
    <2>6. Peaceful' /\ Attended'
      BY <1>1, <1>2, <2>1, <2>2, <2>3, <2>4, <2>5 DEF LockInv, Peaceful, Attended, Harmless
    <2>7. Holding'
      BY <2>2, <2>4, NobodySends, Holders DEF LockInv, Holding
    <2> QED
      BY <2>6, <2>7 DEF LockInv
  <1>8. CASE ReaderClose(p)
    <2>1. /\ UNCHANGED <<session, mu, run, errm, conn>> /\ reader[p].at = "closing"
          /\ \/ Rework(p, [at |-> "gone"]) /\ writer' = [writer EXCEPT ![p] = [at |-> "gone"]]
             \/ UNCHANGED <<reader, writer>>
      BY <1>8 DEF ReaderClose, ReaderAt
    <2>2. p \notin session.peers
      BY <2>1 DEF LockInv, Attended
    <2>3. /\ reader'[p].at \in {"closing", "gone"} /\ writer'[p].at \in {writer[p].at, "gone"}
          /\ \A q \in Peer \ {p} : reader'[q] = reader[q] /\ writer'[q] = writer[q]
      BY <1>1, <2>1 DEF Rework
    <2>4. Peaceful' /\ Attended'
      <3>1. Peaceful'
        BY <1>1, <2>1, <2>2, <2>3 DEF LockInv, Peaceful, Harmless
      <3>2. Attended'
        BY <1>1, <2>1, <2>2, <2>3 DEF LockInv, Attended
      <3> QED
        BY <3>1, <3>2
    <2>5. Holding'
      BY <2>1, <2>3 DEF LockInv, Holding
    <2> QED
      BY <2>4, <2>5 DEF LockInv
  <1> QED
    BY <1>3, <1>4, <1>5, <1>6, <1>7, <1>8 DEF ReaderStep

\* The clients: what is sent is harmless, and no message is found missing.
LEMMA ClientHolds ==
    ASSUME LockSetting, TypeOK, KeyInv, LockInv, NEW p \in Peer, ClientStep(p)
    PROVE  LockInv'
  <1>1. /\ session \in SessionState /\ reader \in [Peer -> ReaderState]
        /\ session.peers \subseteq Peer
    BY PublishTypes
  <1>2. ~errm /\ Unspoiled(session) /\ ~session.finding
    BY DEF LockInv, Peaceful, Unspoiled
  <1>3. PICK k \in Kind, v \in Payload : Accept(p, k, v)
    BY DEF ClientStep
  <1> DEFINE m == [kind |-> k, peer |-> p, epoch |-> session.epoch, val |-> Sized(k, v)]
  <1>4. k = "nf" => ~Spoiled
    <2> SUFFICES ASSUME k = "nf", session.peers # {} PROVE ~Spoiled
      BY DEF Spoiled
    <2>1. session.state \in {"DcXor", "TxInput"}
      BY <1>3 DEF Accept, Expected
    <2>2. AllKeyed /\ session.infos = Cardinality(Keyed)
      BY <2>1 DEF KeyInv, Beyond, Counted, Going, Past, MixStates
    <2>3. PaddingsCancel(session)
      BY <2>2 DEF PaddingsCancel, KeysIn, All, AllKeyed, Keyed
    <2> QED
      BY <1>1, <1>2, <2>3 DEF Spoiled, Unspoiled
  <1>5. /\ v = "good" \/ (<<k, v>> \in Misuse /\ v \in BadPayload[k])
        /\ k = "nf" => v = "unparsable"
    <2>1. k = "nf" => ~Due(p, k)
      BY <1>4 DEF Due
    <2>2. \/ v = "good" /\ Due(p, k)
          \/ v \in BadPayload[k] /\ <<k, v>> \in Misuse
          \/ v = "good" /\ <<k, "again">> \in Misuse
      BY <1>3 DEF Accept, ClientSends
    <2>3. <<"nf", "again">> \notin Misuse
      BY DEF LockSetting, Blocking
    <2>4. BadPayload["nf"] = {"unparsable"}
      BY DEF BadPayload
    <2> QED
      BY <2>1, <2>2, <2>3, <2>4
  <1>6. k # "nf" /\ v # "unparsable" => Harmless(m)
    <2>1. Sized(k, v) = v \/ Sized(k, v) = "short"
      BY DEF Sized
    <2>2. <<k, v>> \notin Blocking /\ <<k, "short">> \notin Blocking
      BY <1>5 DEF LockSetting, Blocking
    <2> QED
      BY <2>1, <2>2 DEF Harmless
  <1>7. ~(k = "pk" /\ v = "unparsable")
    BY <1>5 DEF LockSetting, Blocking
  <1>8. /\ UNCHANGED <<mu, run, errm, writer, conn>> /\ reader[p].at = "read"
        /\ session' = [session EXCEPT !.finding = @ \/ (k = "nf" /\ v # "unparsable")]
        /\ Rework(p, IF v # "unparsable" THEN [at |-> "send", msg |-> m]
                                         ELSE [at |-> "push", epoch |-> session.epoch])
    BY <1>2, <1>3, <1>7 DEF Accept, ReaderAt
  <1>9. /\ session'.peers = session.peers /\ session'.data = session.data
        /\ ~session'.finding
    BY <1>1, <1>2, <1>5, <1>8 DEF SessionState
  <1> HIDE DEF m
  <1>10. /\ reader'[p].at \in {"send", "push"} /\ (reader'[p].at = "send" => Harmless(reader'[p].msg))
         /\ \A q \in Peer \ {p} : reader'[q] = reader[q]
    BY <1>1, <1>5, <1>6, <1>8 DEF Rework
  <1>11. Peaceful' /\ Attended'
    <2>1. Peaceful'
      BY <1>1, <1>2, <1>8, <1>9, <1>10 DEF LockInv, Peaceful, Unspoiled, Harmless
    <2>2. Attended'
      BY <1>1, <1>2, <1>8, <1>9, <1>10 DEF LockInv, Attended
    <2> QED
      BY <2>1, <2>2
  <1>12. Holding'
    BY <1>8, <1>9, <1>10 DEF LockInv, Holding
  <1> QED
    BY <1>11, <1>12 DEF LockInv

\* In this setting no goroutine gives up,
\* the goroutines of each member are all there, and mu is held for broadcasts.
THEOREM LockInvHolds == LockSetting => (Spec => []LockInv)
  <1> SUFFICES ASSUME LockSetting PROVE Spec => []LockInv
    OBVIOUS
  <1>1. Init => LockInv
    <2> SUFFICES ASSUME Init PROVE LockInv
      OBVIOUS
    <2>1. /\ mu = Free /\ run.at = "top" /\ ~errm /\ ~session.finding /\ session.peers = Peer
          /\ session.data = [p \in Peer |-> NoData]
          /\ \A p \in Peer : reader[p].at = "read" /\ writer[p].at = "ready" /\ conn[p] = "open"
      BY DEF Init, NewJoinSession
    <2>2. \A k \in {"exp", "xor", "vk"} : k \in Stored
      BY DEF Stored, Rounds
    <2>3. Unspoiled(session)
      BY <2>1, <2>2 DEF Unspoiled, NoData
    <2> QED
      BY <2>1, <2>3, Holders DEF LockInv, Peaceful, Attended, Holding
  <1>2. TypeOK /\ KeyInv /\ LockInv /\ [Next]_vars => LockInv'
    <2> SUFFICES ASSUME TypeOK, KeyInv, LockInv, [Next]_vars PROVE LockInv'
      OBVIOUS
    <2>1. CASE UNCHANGED vars
      BY <2>1 DEF vars, LockInv, Peaceful, Attended, Holding, Unspoiled, Harmless
    <2>2. ASSUME NEW p \in Peer PROVE ~WriterStep(p) /\ ~Leave(p)
      BY DEF WriterStep, WriterError, WriterElects, WriterAt, Leave, LockSetting, Blocking,
             LockInv, Peaceful
    <2> QED
      BY <2>1, <2>2, RunStepsHold, ReaderStepsHold, ClientHolds DEF Next
  <1>3. Spec => []KeyInv
    BY KeyInvHolds DEF LockSetting
  <1> QED
    BY <1>1, <1>2, <1>3, Typed, PTL DEF Spec

\* Whoever holds mu gets on (joinsession.go and coinjoin.go, every Lock): it
\* does not wait for mu itself, nor for a writer that has exited or waits for mu.
THEOREM LockHolderRunsHolds == LockSetting => (Spec => []LockHolderRuns)
  <1> SUFFICES ASSUME LockSetting PROVE Spec => []LockHolderRuns
    OBVIOUS
  <1>1. TypeOK /\ LockInv => LockHolderRuns
    <2> SUFFICES ASSUME TypeOK, LockInv, mu # Free PROVE LockHolderRuns
      BY DEF LockHolderRuns
    <2>1. session.peers \subseteq Peer /\ \A q \in session.peers : writer[q].at = "ready"
      BY PublishTypes DEF LockInv, Attended
    <2>2. CASE mu = ByRun
      BY <2>1, <2>2 DEF LockInv, Holding, LockHolderRuns
    <2>3. CASE \E p \in Peer : mu = ByReader(p)
      BY <2>1, <2>3 DEF LockInv, Holding, LockHolderRuns
    <2>4. ~(\E p \in Peer : mu = ByWriter(p))
      BY DEF LockInv, Holding
    <2> QED
      BY <2>2, <2>3, <2>4 DEF TypeOK
  <1>2. Spec => []LockInv
    BY LockInvHolds
  <1> QED
    BY <1>1, <1>2, Typed, PTL

=============================================================================

------------------------ MODULE SplitTxSessionProofs -----------------------
(***************************************************************************)
(* Proofs about SplitTxSession, for every set of participants, of slots    *)
(* and of those that leave: types, the slots of each member wherever they  *)
(* are shuffled, that the session never waits for a call that has gone,    *)
(* that what is published is signed, and that the session implements       *)
(* Rendezvous.                                                             *)
(***************************************************************************)
EXTENDS SplitTxSession, FiniteSetTheorems, TLAPS

-----------------------------------------------------------------------------
(* The inductive invariant.                                                *)

\* A handler that has returned has no worker left, and one that never called
\* none yet.
CallsEnd ==
    \A p \in Participant :
        /\ call[p].worker # "gone" => call[p].handler \in {"open", "hung"}
        /\ call[p].kind = "none" => call[p].worker = "gone"

\* Whoever has sent its part of a step is not about to send it.
SentOnce ==
    \A p \in Participant, k \in Kind :
        p \in sent[k] => call[p].kind \in Later(k)
                         \/ (call[p].kind = k /\ call[p].worker # "sending")

\* A member that no longer waits for the response of a step was answered, and so
\* everybody has sent its part, unless what it sent was an error.
AnsweredTogether ==
    \A k \in Kind, p \in members \ odd :
        p \in sent[k] /\ ~(call[p].kind = k /\ call[p].worker = "waiting") =>
            members \subseteq sent[k]

\* The answers under way are those of the step, and everybody has sent its part.
AnswersInStep ==
    run.at = "answer" =>
        /\ run.kind = progress
        /\ members \subseteq sent[run.kind]
        /\ run.kind = "split" => run.next \in {"split", "sign"}
        /\ run.kind # "split" => run.next = "publish"

\* Without having submitted one has no slots.
NoSlots == \A p \in Participant : p \notin sent["split"] => index[p] = {}

\* Before anybody has left there is an owner of every slot.
Owned == members = Participant => \A i \in DOMAIN merged : merged[i] # NoOne

\* Signatures are given after the first step, each for all slots of its owner if
\* that signs what it was given, and by all members before the last.
Signatures ==
    /\ sent["sign"] # {} => progress # "split"
    /\ \A p \in sent["sign"] \ odd : index[p] \subseteq signed
    /\ progress = "publish" => members \subseteq sent["sign"]

\* At most one publisher is picked; while it still has to be, enough members are
\* left to answer.
OnePublisher ==
    /\ \A p, q \in publisher : p = q
    /\ publisher # {} => progress = "publish" \/ (run.at = "answer" /\ run.kind = "sign")
    /\ members = Participant /\ progress = "publish" => publisher # {}
    /\ members = Participant /\ run.at = "answer" /\ run.kind = "sign" /\ publisher = {} =>
            /\ run.skip < Cardinality(run.to)

IInv ==
    /\ TypeOK /\ CallsEnd /\ SentOnce /\ AnsweredTogether /\ AnswersInStep /\ AnswersAreAwaited
    /\ NoSlots /\ OwnSlots /\ Owned /\ Signatures /\ OnePublisher
-----------------------------------------------------------------------------
(* Calls.                                                                  *)

\* The field worker of one call is set.
LEMMA WorkerSet ==
    ASSUME TypeOK, NEW p \in Participant, NEW w \in {"sending", "waiting", "finishing", "gone"},
           call' = [call EXCEPT ![p].worker = w]
    PROVE  /\ call' \in [Participant -> CallState]
           /\ call'[p].kind = call[p].kind /\ call'[p].handler = call[p].handler
           /\ call'[p].worker = w
           /\ \A q \in Participant : q # p => call'[q] = call[q]
  <1>1. call \in [Participant -> CallState] /\ call[p] \in CallState
    BY DEF TypeOK
  <1>2. call' = [call EXCEPT ![p] = [call[p] EXCEPT !.worker = w]]
    BY <1>1
  <1> DEFINE c == [call[p] EXCEPT !.worker = w]
  <1>3. c \in CallState /\ c.kind = call[p].kind /\ c.handler = call[p].handler /\ c.worker = w
    BY <1>1 DEF CallState
  <1> HIDE DEF c
  <1>4. call' = [call EXCEPT ![p] = c]
    BY <1>2 DEF c
  <1> QED
    BY <1>1, <1>3, <1>4

\* The kinds in their order.
LEMMA Kinds == \A k \in Kind : k \notin Later(k) /\ Later(k) \subseteq Kind
  BY DEF Kind, Later

\* What the invariant says of calls survives when only some that are not awaited
\* go on, none of them to be made again.
LEMMA CallsKeep ==
    ASSUME IInv, UNCHANGED <<sent, run>>, members' \subseteq members, odd \subseteq odd',
           call' \in [Participant -> CallState],
           \A p \in Participant :
              \/ call'[p] = call[p]
              \/ /\ p \in members' => call[p].worker # "waiting"
                 /\ call'[p].kind = call[p].kind
                 /\ call'[p].worker = "gone"
                    \/ (call'[p].worker = call[p].worker /\ call'[p].handler \in {"open", "hung"})
    PROVE  (CallsEnd /\ SentOnce /\ AnsweredTogether /\ AnswersAreAwaited)'
  <1> USE DEF IInv
  <1>1. CallsEnd'
    BY DEF CallsEnd
  <1>2. SentOnce'
    BY Kinds DEF SentOnce
  <1>3. AnsweredTogether'
    BY DEF AnsweredTogether, TypeOK
  <1>4. AnswersAreAwaited'
    BY DEF AnswersAreAwaited, TypeOK
  <1> QED
    BY <1>1, <1>2, <1>3, <1>4

\* A request of kind k is accepted, and is or is not the last of its step.
LEMMA SendKeeps ==
    ASSUME IInv, NEW k \in Kind, NEW p \in members, Taking(p, k), progress = k, Keep(p),
           sent' = [sent EXCEPT ![k] = @ \cup {p}], members' = members, progress' = progress,
           odd \subseteq odd',
           \/ run' = Select
           \/ /\ run'.at = "answer" /\ run'.kind = k /\ run'.to = members
              /\ members \subseteq sent'[k]
    PROVE  /\ call' \in [Participant -> CallState] /\ sent' \in [Kind -> SUBSET Participant]
           /\ (CallsEnd /\ SentOnce /\ AnsweredTogether /\ AnswersAreAwaited)'
           /\ p \notin sent[k]
  <1> USE DEF IInv, Taking, Keep
  <1>1. p \in Participant /\ members \subseteq Participant
    BY DEF TypeOK
  <1>2. /\ call' \in [Participant -> CallState]
        /\ call'[p].kind = k /\ call'[p].handler = call[p].handler
        /\ call'[p].worker = "waiting"
        /\ \A q \in Participant : q # p => call'[q] = call[q]
    BY <1>1, WorkerSet
  <1>3. /\ sent' \in [Kind -> SUBSET Participant] /\ sent'[k] = sent[k] \cup {p}
        /\ \A j \in Kind : j # k => sent'[j] = sent[j]
    BY <1>1 DEF TypeOK
  <1>4. p \notin sent[k]
    BY <1>1, Kinds DEF SentOnce
  <1>5. CallsEnd'
    BY <1>1, <1>2, Kinds DEF CallsEnd
  <1>6. SentOnce'
    BY <1>1, <1>2, <1>3, <1>4 DEF SentOnce
  <1>7. AnsweredTogether'
    BY <1>1, <1>2, <1>3, <1>4 DEF AnsweredTogether
  <1>8. AnswersAreAwaited'
    <2>1. CASE run' = Select
      BY <2>1 DEF AnswersAreAwaited, Select
    <2>2. CASE run'.to = members /\ run'.kind = k /\ members \subseteq sent'[k]
      BY <1>1, <1>2, <1>3, <1>4, <2>2 DEF AnswersAreAwaited, AnsweredTogether
    <2> QED
      BY <2>1, <2>2
  <1> QED
    BY <1>2, <1>3, <1>4, <1>5, <1>6, <1>7, <1>8

-----------------------------------------------------------------------------
(* Slots.                                                                  *)

AppendedTx(p) == merged \o [i \in 1..NumIn[p] |-> p]
AppendedOwn(p) == [index EXCEPT ![p] = NewSlots(Len(merged), p)]

\* What each member owns of a transaction, in which the slots of those that have
\* left may be empty.
OwnsIn(tx, own) ==
    /\ tx \in Seq(Participant \cup {NoOne})
    /\ own \in [Participant -> SUBSET (1 .. Len(tx))]
    /\ \A q \in members : own[q] = {i \in DOMAIN tx : tx[i] = q}
    /\ members = Participant => \A i \in DOMAIN tx : tx[i] # NoOne

\* The slots of a new transaction are behind those that were there.
LEMMA AppendOwns ==
    ASSUME IInv, NEW p \in members, p \notin sent["split"]
    PROVE  /\ OwnsIn(AppendedTx(p), AppendedOwn(p))
           /\ \A q \in Participant : q # p => AppendedOwn(p)[q] = index[q]
           /\ Len(merged) <= Len(AppendedTx(p)) /\ Len(AppendedTx(p)) \in Nat
           /\ Len(merged) \in Nat
  <1> DEFINE n == Len(merged)
             more == [i \in 1..NumIn[p] |-> p]
             tx == merged \o more
             own == AppendedOwn(p)
  <1>1. /\ p \in Participant /\ members \subseteq Participant /\ NumIn[p] \in Nat
        /\ merged \in Seq(Participant \cup {NoOne}) /\ n \in Nat
        /\ index \in [Participant -> SUBSET (1 .. n)]
    BY ConstantsOK DEF IInv, TypeOK
  <1>2. more \in Seq(Participant \cup {NoOne}) /\ Len(more) = NumIn[p]
    BY <1>1
  <1>3. /\ tx \in Seq(Participant \cup {NoOne}) /\ Len(tx) = n + NumIn[p]
        /\ \A i \in 1 .. n : tx[i] = merged[i]
        /\ \A i \in n + 1 .. n + NumIn[p] : tx[i] = p
    BY <1>1, <1>2
  <1>4. DOMAIN tx = 1 .. n + NumIn[p] /\ DOMAIN merged = 1 .. n
    BY <1>1, <1>3
  <1>5. own[p] = n + 1 .. n + NumIn[p] /\ \A q \in Participant : q # p => own[q] = index[q]
    BY <1>1 DEF AppendedOwn, NewSlots
  <1>6. own \in [Participant -> SUBSET (1 .. Len(tx))]
    <2>1. \A q \in Participant : own[q] \subseteq 1 .. n + NumIn[p]
      BY <1>1, <1>5
    <2> QED
      BY <1>1, <1>3, <2>1 DEF AppendedOwn
  <1>7. ASSUME NEW q \in members PROVE own[q] = {i \in DOMAIN tx : tx[i] = q}
    <2>1. index[q] = {i \in 1 .. n : merged[i] = q}
      BY <1>4 DEF IInv, OwnSlots
    <2>2. CASE q = p
      <3>1. index[p] = {}
        BY <1>1 DEF IInv, NoSlots
      <3>2. \A i \in 1 .. n : merged[i] # p
        BY <2>1, <2>2, <3>1
      <3> QED
        BY <1>1, <1>3, <1>4, <1>5, <2>2, <3>2
    <2>3. CASE q # p
      BY <1>1, <1>3, <1>4, <1>5, <2>1, <2>3
    <2> QED
      BY <2>2, <2>3
  <1>8. members = Participant => \A i \in DOMAIN tx : tx[i] # NoOne
    BY <1>1, <1>3, <1>4, ConstantsOK DEF IInv, Owned
  <1> QED
    BY <1>1, <1>3, <1>5, <1>6, <1>7, <1>8 DEF OwnsIn, AppendedTx

\* A shuffle keeps that, wherever it puts the slots.
LEMMA ShuffleOwns ==
    ASSUME NEW tx, NEW own, OwnsIn(tx, own), members \subseteq Participant,
           NEW perm \in Perm(Len(tx))
    PROVE  OwnsIn(Shuffled(tx, own, perm), Moved(own, perm)) /\ Len(Shuffled(tx, own, perm)) = Len(tx)
  <1> DEFINE n == Len(tx)
             stx == Shuffled(tx, own, perm)
             sown == Moved(own, perm)
  <1>1. /\ tx \in Seq(Participant \cup {NoOne}) /\ n \in Nat /\ DOMAIN tx = 1 .. n
        /\ own \in [Participant -> SUBSET (1 .. n)]
        /\ \A i \in 1 .. n : tx[i] \in Participant \cup {NoOne}
    BY DEF OwnsIn
  <1>2. /\ perm \in [1 .. n -> 1 .. n]
        /\ \A i, j \in 1 .. n : perm[i] = perm[j] => i = j
        /\ \A i \in 1 .. n : \E j \in 1 .. n : perm[j] = i
    BY DEF Perm, Bijection, Injection, IsInjective, Surjection
  <1> HIDE DEF n
  <1>3. ASSUME NEW i \in 1 .. n, NEW p \in members, NEW q \in own[p], perm[q] = i
        PROVE  stx[i] = p
    <2>1. q \in 1 .. n /\ tx[q] = p
      BY <1>1 DEF OwnsIn
    <2>2. (CHOOSE r \in DOMAIN tx : perm[r] = i) = q
      BY <1>1, <1>2, <1>3, <2>1
    <2> QED
      BY <1>1, <1>3, <2>1, <2>2 DEF Shuffled
  <1>4. ASSUME NEW i \in 1 .. n, ~\E p \in members : \E q \in own[p] : perm[q] = i
        PROVE  stx[i] = NoOne
    BY <1>1, <1>4 DEF Shuffled
  <1>5. \A i \in 1 .. n : stx[i] \in Participant \cup {NoOne}
    BY <1>3, <1>4
  <1>6. stx \in Seq(Participant \cup {NoOne}) /\ Len(stx) = n /\ DOMAIN stx = 1 .. n
    <2>1. stx = [i \in 1 .. n |-> stx[i]]
      BY <1>1 DEF Shuffled
    <2> QED
      BY <1>1, <1>5, <2>1
  <1>7. sown \in [Participant -> SUBSET (1 .. Len(stx))]
    <2>1. \A p \in Participant : sown[p] \subseteq 1 .. n
      BY <1>1, <1>2 DEF Moved
    <2> QED
      BY <1>6, <2>1 DEF Moved
  <1>8. ASSUME NEW p \in members PROVE sown[p] = {i \in DOMAIN stx : stx[i] = p}
    <2>1. sown[p] = {perm[i] : i \in own[p]} /\ own[p] \subseteq 1 .. n /\ p # NoOne
      BY <1>1, ConstantsOK DEF Moved
    <2>2. ASSUME NEW i \in sown[p] PROVE i \in 1 .. n /\ stx[i] = p
      BY <1>2, <1>3, <2>1
    <2>3. ASSUME NEW i \in 1 .. n, stx[i] = p PROVE i \in sown[p]
      <3>1. PICK m \in members : \E q \in own[m] : perm[q] = i
        BY <1>4, <2>1, <2>3
      <3>2. m = p
        BY <1>3, <2>3, <3>1
      <3> QED
        BY <2>1, <3>1, <3>2
    <2> QED
      BY <1>6, <2>2, <2>3
  <1>9. ASSUME members = Participant, NEW i \in DOMAIN stx PROVE stx[i] # NoOne
    <2>1. PICK q \in 1 .. n : perm[q] = i
      BY <1>2, <1>6
    <2>2. tx[q] \in members /\ q \in own[tx[q]]
      BY <1>1, <1>9 DEF OwnsIn
    <2> QED
      BY <1>3, <1>6, <2>1, <2>2, ConstantsOK
  <1> QED
    BY <1>6, <1>7, <1>8, <1>9 DEF OwnsIn, n

-----------------------------------------------------------------------------
(* Each action keeps the invariant.                                        *)

\* The members are finitely many.
LEMMA Finite ==
    ASSUME TypeOK, NEW S \in SUBSET members
    PROVE  IsFiniteSet(S) /\ Cardinality(S) \in Nat
  <1>1. IsFiniteSet(Participant) /\ S \subseteq Participant
    BY ConstantsOK DEF TypeOK
  <1> QED
    BY <1>1, FS_Subset, FS_CardinalityType

\* A request that is refused leaves all but its worker alone.
LEMMA RefuseKeeps ==
    ASSUME IInv, NEW p \in Participant, NEW k \in Kind, Taking(p, k), Refuse(p),
           UNCHANGED <<members, armed, removed, leaves, crashed>>
    PROVE  IInv'
  <1> USE DEF IInv, Refuse, data, Taking
  <1>1. /\ call' \in [Participant -> CallState]
        /\ call'[p].kind = call[p].kind /\ call'[p].worker = "gone"
        /\ \A q \in Participant : q # p => call'[q] = call[q]
    BY WorkerSet
  <1>2. TypeOK'
    BY <1>1 DEF TypeOK
  <1>3. (CallsEnd /\ SentOnce /\ AnsweredTogether /\ AnswersAreAwaited)'
    BY <1>1, CallsKeep
  <1>4. (AnswersInStep /\ NoSlots /\ OwnSlots /\ Owned)'
    BY DEF AnswersInStep, NoSlots, OwnSlots, Owned
  <1>5. (Signatures /\ OnePublisher)'
    BY DEF Signatures, OnePublisher
  <1> QED
    BY <1>2, <1>3, <1>4, <1>5

\* The answers to the members as they are, while the step's data is complete.
Answers(k, next) ==
    \E n \in Nat :
        run' = [at |-> "answer", kind |-> k, to |-> members, skip |-> n, next |-> next]

\* Such a state of the session's goroutine is one it may be in.
LEMMA AnswersType ==
    ASSUME TypeOK, NEW k \in Kind, NEW next \in Kind, Answers(k, next)
    PROVE  /\ run' \in RunState
           /\ run'.at = "answer" /\ run'.kind = k /\ run'.to = members /\ run'.next = next
  BY DEF TypeOK, Answers, RunState

\* What the part of SubmitSplitTx that accepts a transaction does.
LEMMA SubmitEffect ==
    ASSUME IInv, NEW p \in Participant, SubmitSplitTx(p), progress = "split", p \in members
    PROVE  /\ Taking(p, "split") /\ Keep(p)
           /\ sent' = [sent EXCEPT !["split"] = @ \cup {p}]
           /\ UNCHANGED <<members, progress, signed, odd, short, publisher, published,
                          armed, removed, leaves, crashed>>
           /\ \/ run' = Select
              \/ \E next \in {"split", "sign"} :
                    members \subseteq sent'["split"] /\ Answers("split", next)
           /\ \/ merged' = AppendedTx(p) /\ index' = AppendedOwn(p)
              \/ /\ members \subseteq sent'["split"]
                 /\ \E perm \in Perm(Len(AppendedTx(p))) :
                        /\ merged' = Shuffled(AppendedTx(p), AppendedOwn(p), perm)
                        /\ index' = Moved(AppendedOwn(p), perm)
  <1>1. ~((progress # "split" \/ p \notin members) /\ Refuse(p))
    OBVIOUS
  <1>2. /\ Taking(p, "split") /\ Keep(p)
        /\ sent' = [sent EXCEPT !["split"] = @ \cup {p}]
        /\ UNCHANGED <<members, progress, signed, odd, short, publisher, published,
                       armed, removed, leaves, crashed>>
    BY <1>1 DEF SubmitSplitTx
  <1>3. \/ merged' = AppendedTx(p) /\ index' = AppendedOwn(p) /\ Rest
        \/ /\ AllIn(sent'["split"])
           /\ \E perm \in Perm(Len(AppendedTx(p))) :
                /\ merged' = Shuffled(AppendedTx(p), AppendedOwn(p), perm)
                /\ index' = Moved(AppendedOwn(p), perm)
           /\ AnswerAll("split", 0, "sign")
        \/ /\ AllIn(sent'["split"])
           /\ merged' = AppendedTx(p) /\ index' = AppendedOwn(p)
           /\ AnswerAll("split", 0, "split")
    BY <1>1 DEF SubmitSplitTx, AppendedTx, AppendedOwn
  <1> QED
    BY <1>2, <1>3 DEF Rest, AllIn, AnswerAll, Answers

\* Slots are handed out and shuffled so that each member's are its own.
LEMMA SubmitKeeps ==
    ASSUME IInv, NEW p \in Participant, SubmitSplitTx(p), progress = "split", p \in members
    PROVE  IInv'
  <1> DEFINE tx == AppendedTx(p)
             own == AppendedOwn(p)
  <1>1. /\ call' \in [Participant -> CallState] /\ sent' \in [Kind -> SUBSET Participant]
        /\ (CallsEnd /\ SentOnce /\ AnsweredTogether /\ AnswersAreAwaited)'
        /\ p \notin sent["split"]
    <2>1. \/ run' = Select
          \/ /\ run'.at = "answer" /\ run'.kind = "split" /\ run'.to = members
             /\ members \subseteq sent'["split"]
      BY SubmitEffect DEF Answers
    <2> QED
      BY <2>1, SubmitEffect, SendKeeps DEF Kind
  <1>2. /\ OwnsIn(tx, own) /\ \A q \in Participant : q # p => own[q] = index[q]
        /\ Len(merged) <= Len(tx) /\ Len(tx) \in Nat /\ Len(merged) \in Nat
    BY <1>1, AppendOwns
  <1> HIDE DEF tx, own
  <1>3. members \subseteq Participant
    BY DEF IInv, TypeOK
  <1>4. OwnsIn(merged', index') /\ Len(merged') = Len(tx)
    BY <1>2, <1>3, SubmitEffect, ShuffleOwns DEF tx, own
  <1>5. TypeOK'
    <2>1. run' \in RunState
      <3>1. CASE run' = Select
        BY <3>1 DEF RunState
      <3>2. ASSUME NEW next \in {"split", "sign"}, Answers("split", next) PROVE run' \in RunState
        BY <3>2, AnswersType DEF IInv, Kind
      <3> QED
        BY <3>1, <3>2, SubmitEffect
    <2>2. signed' \subseteq 1 .. Len(merged')
      <3>1. signed' = signed /\ signed \subseteq 1 .. Len(merged)
        BY SubmitEffect DEF IInv, TypeOK
      <3> QED
        BY <1>2, <1>4, <3>1
    <2> QED
      BY <1>1, <1>4, <2>1, <2>2, SubmitEffect DEF IInv, TypeOK, OwnsIn
  <1>6. AnswersInStep'
    <2>1. CASE run' = Select
      BY <2>1 DEF AnswersInStep, Select
    <2>2. ASSUME NEW next \in {"split", "sign"}, members \subseteq sent'["split"],
                 Answers("split", next)
          PROVE  AnswersInStep'
      BY <2>2, SubmitEffect DEF AnswersInStep, Answers
    <2> QED
      BY <2>1, <2>2, SubmitEffect
  <1>7. NoSlots'
    <2> SUFFICES ASSUME NEW q \in Participant, q \notin sent'["split"] PROVE index'[q] = {}
      BY DEF NoSlots
    <2>1. q # p /\ q \notin sent["split"]
      BY SubmitEffect DEF IInv, TypeOK, Kind
    <2>2. own[q] = {}
      BY <1>2, <2>1 DEF IInv, NoSlots
    <2> QED
      BY <2>2, SubmitEffect DEF Moved, own
  <1>8. OwnSlots' /\ Owned'
    BY <1>4, SubmitEffect DEF OwnsIn, OwnSlots, Owned
  <1>9. Signatures'
    BY SubmitEffect DEF IInv, TypeOK, Signatures, Kind
  <1>10. OnePublisher'
    <2>1. publisher = {} /\ publisher' = {} /\ progress' = "split"
      BY SubmitEffect DEF IInv, OnePublisher, Taking, Select
    <2>2. run'.at = "answer" => run'.kind # "sign"
      BY SubmitEffect DEF Answers, Select
    <2> QED
      BY <2>1, <2>2 DEF OnePublisher
  <1> QED
    BY <1>1, <1>5, <1>6, <1>7, <1>8, <1>9, <1>10 DEF IInv

\* A transaction in which the slots S of p are signed, S all of them or p odd.
Signs(p, S) ==
    /\ Taking(p, "sign") /\ progress = "sign" /\ p \in members
    /\ S \subseteq index[p]
    /\ odd' \subseteq Participant /\ odd \subseteq odd' /\ (S = index[p] \/ p \in odd')
    /\ short' \in BOOLEAN
    /\ sent' = [sent EXCEPT !["sign"] = @ \cup {p}]
    /\ signed' = signed \cup S
    /\ UNCHANGED <<members, progress, index, merged, publisher, published, armed, removed,
                   leaves, crashed>>

\* What the two actions do that let the session take a signed transaction.
LEMMA SignEffect ==
    ASSUME IInv, NEW p \in Participant, progress = "sign", p \in members,
           SubmitSignedTx(p) \/ SubmitOddTx(p)
    PROVE  \E S \in SUBSET index[p] :
             /\ Signs(p, S)
             /\ \/ Merge(p, signed \cup S)
                \/ p \in odd' /\ call' = [call EXCEPT ![p].worker = "gone"] /\ run' = run
  <1>1. odd \subseteq Participant /\ short \in BOOLEAN
    BY DEF IInv, TypeOK
  <1>2. CASE SubmitSignedTx(p)
    <2>1. Merge(p, signed \cup index[p]) /\ Signs(p, index[p])
      BY <1>1, <1>2 DEF SubmitSignedTx, Merged, Merge, Signs
    <2> QED
      BY <2>1
  <1>3. CASE SubmitOddTx(p)
    <2>1. PICK S \in SUBSET index[p] :
            \/ Merge(p, signed \cup S)
            \/ /\ sent' = [sent EXCEPT !["sign"] = @ \cup {p}]
               /\ signed' = signed \cup S
               /\ call' = [call EXCEPT ![p].worker = "gone"]
               /\ UNCHANGED <<progress, index, merged, publisher, published, run>>
      BY <1>3 DEF SubmitOddTx
    <2>2. odd' = odd \cup {p} /\ Taking(p, "sign")
          /\ UNCHANGED <<members, armed, removed, leaves, crashed>>
      BY <1>3 DEF SubmitOddTx
    <2>3. short' \in BOOLEAN
      BY <1>1, <1>3 DEF SubmitOddTx
    <2>4. Signs(p, S)
      BY <1>1, <2>1, <2>2, <2>3 DEF Merge, Signs
    <2> QED
      BY <2>1, <2>2, <2>4
  <1> QED
    BY <1>2, <1>3

\* What a signed transaction changes apart from calls and from what the session's
\* goroutine does next.
LEMMA SignsKeep ==
    ASSUME IInv, NEW p \in Participant, NEW S \in SUBSET index[p], Signs(p, S)
    PROVE  /\ NoSlots' /\ OwnSlots' /\ Owned' /\ Signatures'
           /\ sent' \in [Kind -> SUBSET Participant] /\ signed' \subseteq 1 .. Len(merged')
           /\ publisher = {} /\ publisher' = {} /\ progress' = "sign"
  <1>1. sent' \in [Kind -> SUBSET Participant] /\ signed' \subseteq 1 .. Len(merged')
    BY DEF Signs, IInv, TypeOK
  <1>2. NoSlots' /\ OwnSlots' /\ Owned'
    BY DEF Signs, IInv, TypeOK, NoSlots, OwnSlots, Owned, Kind
  <1>3. Signatures'
    BY DEF Signs, IInv, TypeOK, Signatures, Kind
  <1>4. publisher = {} /\ publisher' = {} /\ progress' = "sign"
    BY DEF Signs, IInv, OnePublisher, Taking, Select
  <1> QED
    BY <1>1, <1>2, <1>3, <1>4

\* Signatures are merged, and the publisher is drawn among the members.
LEMMA MergeKeeps ==
    ASSUME IInv, NEW p \in Participant, NEW S \in SUBSET index[p], Signs(p, S),
           Merge(p, signed \cup S)
    PROVE  IInv'
  <1>1. Cardinality(members) \in Nat
    BY Finite DEF IInv
  <1>2. \/ run' = Select
        \/ /\ members \subseteq sent'["sign"]
           /\ \E n \in 0 .. Cardinality(members) - 1 :
                run' = [at |-> "answer", kind |-> "sign", to |-> members, skip |-> n,
                        next |-> "publish"]
    BY DEF Merge, Rest, AllIn, AnswerAll
  <1>3. run' = Select \/ (members \subseteq sent'["sign"] /\ Answers("sign", "publish"))
    BY <1>1, <1>2 DEF Answers
  <1>4. /\ call' \in [Participant -> CallState]
        /\ (CallsEnd /\ SentOnce /\ AnsweredTogether /\ AnswersAreAwaited)'
    <2>1. \/ run' = Select
          \/ /\ run'.at = "answer" /\ run'.kind = "sign" /\ run'.to = members
             /\ members \subseteq sent'["sign"]
      BY <1>3 DEF Answers
    <2> QED
      BY <2>1, SendKeeps DEF Kind, Signs, Merge
  <1>5. TypeOK'
    <2>1. run' \in RunState
      BY <1>3, AnswersType DEF IInv, Kind, RunState
    <2> QED
      BY <1>4, <2>1, SignsKeep DEF IInv, TypeOK, Signs
  <1>6. AnswersInStep'
    BY <1>3 DEF AnswersInStep, Answers, Select, Signs
  <1>7. OnePublisher'
    <2>1. run'.at = "answer" => run'.skip < Cardinality(run'.to)
      BY <1>1, <1>2 DEF Select
    <2> QED
      BY <2>1, SignsKeep DEF OnePublisher
  <1> QED
    BY <1>4, <1>5, <1>6, <1>7, SignsKeep DEF IInv

\* A transaction that is an error: its call has an answer already.
LEMMA ErrorKeeps ==
    ASSUME IInv, NEW p \in Participant, NEW S \in SUBSET index[p], Signs(p, S), p \in odd',
           call' = [call EXCEPT ![p].worker = "gone"], run' = run
    PROVE  IInv'
  <1>1. /\ call' \in [Participant -> CallState] /\ call'[p].kind = "sign"
        /\ call'[p].handler = call[p].handler /\ call'[p].worker = "gone"
        /\ \A q \in Participant : q # p => call'[q] = call[q]
    BY WorkerSet DEF IInv, Signs, Taking
  <1>2. /\ run = Select /\ members' = members /\ odd \subseteq odd' /\ members \subseteq Participant
        /\ call[p].worker = "sending" /\ call[p].kind = "sign"
    BY DEF Signs, Taking, IInv, TypeOK
  <1>3. /\ sent'["sign"] = sent["sign"] \cup {p}
        /\ \A k \in Kind : k # "sign" => sent'[k] = sent[k]
    BY DEF Signs, IInv, TypeOK, Kind
  <1>4. TypeOK'
    BY <1>1, SignsKeep DEF IInv, TypeOK, Signs
  <1>5. CallsEnd'
    BY <1>1, <1>2 DEF IInv, CallsEnd
  <1>6. SentOnce'
    BY <1>1, <1>2, <1>3 DEF IInv, SentOnce, Kind
  <1>7. AnsweredTogether'
    <2> SUFFICES ASSUME NEW k \in Kind, NEW q \in members, q \notin odd', q \in sent'[k],
                        ~(call'[q].kind = k /\ call'[q].worker = "waiting")
                 PROVE  members \subseteq sent'[k]
      BY <1>2 DEF AnsweredTogether
    <2>1. q # p /\ q \notin odd /\ q \in Participant
      BY <1>2
    <2>2. members \subseteq sent[k]
      BY <1>1, <1>3, <2>1 DEF IInv, AnsweredTogether
    <2> QED
      BY <1>3, <2>2
  <1>8. AnswersInStep' /\ AnswersAreAwaited' /\ OnePublisher'
    BY <1>2, SignsKeep DEF AnswersInStep, AnswersAreAwaited, OnePublisher, Select
  <1> QED
    BY <1>4, <1>5, <1>6, <1>7, <1>8, SignsKeep DEF IInv

\* What was signed is taken, or is an error.
LEMMA SignKeeps ==
    ASSUME IInv, NEW p \in Participant, progress = "sign", p \in members,
           SubmitSignedTx(p) \/ SubmitOddTx(p)
    PROVE  IInv'
  BY SignEffect, MergeKeeps, ErrorKeeps

\* The process has died; all it had is left as it was.
LEMMA PanicKeeps == ASSUME IInv, NEW p \in Participant, Panic(p) PROVE IInv'
  <1> USE DEF IInv, Panic
  <1>1. odd \subseteq odd' /\ odd' \subseteq Participant
    BY DEF TypeOK
  <1>2. TypeOK'
    BY <1>1 DEF TypeOK
  <1>3. (CallsEnd /\ SentOnce /\ AnsweredTogether /\ AnswersAreAwaited)'
    BY <1>1, CallsKeep DEF TypeOK
  <1>4. (AnswersInStep /\ NoSlots /\ OwnSlots /\ Owned)'
    BY DEF AnswersInStep, NoSlots, OwnSlots, Owned
  <1>5. (Signatures /\ OnePublisher)'
    BY <1>1 DEF Signatures, OnePublisher
  <1> QED
    BY <1>2, <1>3, <1>4, <1>5

\* What the part of PublishResult that accepts a report does.
LEMMA PublishEffect ==
    ASSUME IInv, NEW p \in Participant, PublishResult(p), progress = "publish", p \in members
    PROVE  /\ Taking(p, "publish") /\ Keep(p)
           /\ sent' = [sent EXCEPT !["publish"] = @ \cup {p}]
           /\ published' \in BOOLEAN \cup {published}
           /\ UNCHANGED <<members, progress, index, merged, signed, odd, short, publisher,
                          armed, removed, leaves, crashed>>
           /\ \/ run' = Select
              \/ members \subseteq sent'["publish"] /\ Answers("publish", "publish")
  BY DEF PublishResult, Rest, AllIn, AnswerAll, Answers

\* The reports are collected.
LEMMA PublishKeeps ==
    ASSUME IInv, NEW p \in Participant, PublishResult(p), progress = "publish", p \in members
    PROVE  IInv'
  <1>1. /\ call' \in [Participant -> CallState] /\ sent' \in [Kind -> SUBSET Participant]
        /\ (CallsEnd /\ SentOnce /\ AnsweredTogether /\ AnswersAreAwaited)'
    <2>1. \/ run' = Select
          \/ /\ run'.at = "answer" /\ run'.kind = "publish" /\ run'.to = members
             /\ members \subseteq sent'["publish"]
      BY PublishEffect DEF Answers
    <2> QED
      BY <2>1, PublishEffect, SendKeeps DEF Kind
  <1>2. TypeOK'
    <2>1. run' \in RunState
      BY PublishEffect, AnswersType DEF IInv, Kind, RunState
    <2> QED
      BY <1>1, <2>1, PublishEffect DEF IInv, TypeOK
  <1>3. AnswersInStep'
    BY PublishEffect DEF AnswersInStep, Answers, Select
  <1>4. NoSlots' /\ OwnSlots' /\ Owned' /\ Signatures'
    BY PublishEffect DEF IInv, TypeOK, NoSlots, OwnSlots, Owned, Signatures, Kind
  <1>5. OnePublisher'
    BY PublishEffect DEF IInv, OnePublisher, Answers, Select
  <1> QED
    BY <1>1, <1>2, <1>3, <1>4, <1>5 DEF IInv

\* The three kinds of requests, accepted or not.
LEMMA RequestKeeps ==
    ASSUME IInv, NEW p \in Participant,
           SubmitSplitTx(p) \/ SubmitSignedTx(p) \/ SubmitOddTx(p) \/ PublishResult(p)
    PROVE  IInv'
  <1>1. CASE SubmitSplitTx(p) /\ ~(progress = "split" /\ p \in members)
    BY <1>1, RefuseKeeps DEF SubmitSplitTx, Kind
  <1>2. CASE SubmitSignedTx(p) /\ ~(progress = "sign" /\ p \in members)
    BY <1>2, RefuseKeeps DEF SubmitSignedTx, Kind
  <1>3. CASE PublishResult(p) /\ ~(progress = "publish" /\ p \in members)
    BY <1>3, RefuseKeeps DEF PublishResult, Kind
  <1>4. SubmitOddTx(p) => progress = "sign" /\ p \in members
    BY DEF SubmitOddTx
  <1> QED
    BY <1>1, <1>2, <1>3, <1>4, SubmitKeeps, SignKeeps, PublishKeeps

\* An answer: the publisher is picked when its turn comes.
LEMMA AnswerKeeps == ASSUME IInv, NEW p \in Participant, AnswerTo(p) PROVE IInv'
  <1> DEFINE left == run.to \ {p}
             skip == IF run.skip = 0 THEN 0 ELSE run.skip - 1
  <1>1. /\ run.at = "answer" /\ p \in run.to /\ p \in members
        /\ run = [at |-> "answer", kind |-> run.kind, to |-> run.to, skip |-> run.skip,
                  next |-> run.next]
        /\ run.kind \in Kind /\ run.to \in SUBSET Participant /\ run.skip \in Nat
        /\ run.next \in Kind
    BY DEF AnswerTo, IInv, TypeOK, RunState, Select
  <1>2. left \in SUBSET Participant /\ skip \in Nat
    BY <1>1
  <1> HIDE DEF left, skip
  <1>3. run' = [at |-> "answer", kind |-> run.kind, to |-> left, skip |-> skip, next |-> run.next]
    BY <1>1 DEF AnswerTo, left, skip
  <1>4. \E w \in {"gone", "finishing"} :
          /\ call' \in [Participant -> CallState]
          /\ call'[p].kind = call[p].kind /\ call'[p].handler = call[p].handler
          /\ call'[p].worker = w
          /\ \A q \in Participant : q # p => call'[q] = call[q]
    <2>1. PICK w \in {"gone", "finishing"} : call' = [call EXCEPT ![p].worker = w]
      BY DEF AnswerTo
    <2> QED
      BY <2>1, WorkerSet DEF IInv
  <1>5. TypeOK'
    <2>1. run' \in RunState
      BY <1>1, <1>2, <1>3 DEF RunState
    <2>2. publisher' \subseteq Participant
      BY DEF AnswerTo, IInv, TypeOK
    <2> QED
      BY <1>4, <2>1, <2>2 DEF AnswerTo, IInv, TypeOK
  <1>6. p \in sent[run.kind] /\ call[p].kind = run.kind /\ call[p].worker = "waiting"
    BY <1>1 DEF IInv, AnswersInStep, AnswerTo
  <1>7. CallsEnd' /\ SentOnce'
    BY <1>1, <1>4, <1>6 DEF AnswerTo, IInv, CallsEnd, SentOnce
  <1>8. AnsweredTogether'
    <2> SUFFICES ASSUME NEW k \in Kind, NEW q \in members, q \notin odd, q \in sent[k],
                        ~(call'[q].kind = k /\ call'[q].worker = "waiting")
                 PROVE  members \subseteq sent[k]
      BY DEF AnswerTo, AnsweredTogether
    <2>1. CASE q = p /\ k = run.kind
      BY <1>1, <2>1 DEF IInv, AnswersInStep
    <2>2. CASE q = p /\ k # run.kind
      BY <1>1, <1>6, <2>2 DEF IInv, AnsweredTogether
    <2>3. CASE q # p
      BY <1>1, <1>4, <2>3 DEF IInv, AnsweredTogether, TypeOK
    <2> QED
      BY <2>1, <2>2, <2>3
  <1>9. AnswersInStep' /\ AnswersAreAwaited'
    BY <1>1, <1>3, <1>4 DEF AnswerTo, IInv, AnswersInStep, AnswersAreAwaited, left
  <1>10. NoSlots' /\ OwnSlots' /\ Owned' /\ Signatures'
    BY DEF AnswerTo, IInv, NoSlots, OwnSlots, Owned, Signatures
  <1>11. OnePublisher'
    <2>1. CASE Picked(p)
      <3>1. publisher' = {p} /\ progress' = progress /\ members' = members
        BY <2>1 DEF AnswerTo, Picked
      <3> QED
        BY <1>3, <2>1, <3>1 DEF Picked, OnePublisher
    <2>2. CASE ~Picked(p)
      <3>1. publisher' = publisher /\ progress' = progress /\ members' = members
        BY <2>2 DEF AnswerTo
      <3>2. ASSUME members = Participant, run.kind = "sign", publisher = {}
            PROVE  skip < Cardinality(left)
        <4>1. run.skip # 0 /\ run.skip < Cardinality(run.to)
          BY <1>1, <2>2, <3>2 DEF Picked, IInv, OnePublisher
        <4>2. IsFiniteSet(run.to)
          BY <1>1, <3>2, Finite DEF IInv
        <4>3. Cardinality(left) = Cardinality(run.to) - 1 /\ Cardinality(run.to) \in Nat
          BY <1>1, <4>2, FS_RemoveElement, FS_CardinalityType DEF left
        <4> QED
          BY <1>1, <4>1, <4>3 DEF skip
      <3> QED
        BY <1>1, <1>3, <3>1, <3>2 DEF IInv, OnePublisher
    <2> QED
      BY <2>1, <2>2
  <1> QED
    BY <1>5, <1>7, <1>8, <1>9, <1>10, <1>11 DEF IInv

\* After the last answer the session is at the next step; a publisher was found.
LEMMA AnsweredKeeps == ASSUME IInv, Answered PROVE IInv'
  <1>1. /\ run.at = "answer" /\ run.to \cap members = {} /\ run' = Select /\ progress' = run.next
        /\ run.kind \in Kind /\ run.next \in Kind /\ run.skip \in Nat
        /\ run.to \in SUBSET Participant
    BY DEF Answered, IInv, TypeOK, RunState, Select
  <1> USE DEF IInv, Answered
  <1>2. TypeOK'
    BY <1>1 DEF TypeOK, RunState
  <1>3. (CallsEnd /\ SentOnce /\ AnsweredTogether)'
    BY DEF CallsEnd, SentOnce, AnsweredTogether
  <1>4. AnswersInStep' /\ AnswersAreAwaited'
    BY <1>1 DEF AnswersInStep, AnswersAreAwaited, Select
  <1>5. NoSlots' /\ OwnSlots' /\ Owned'
    BY DEF NoSlots, OwnSlots, Owned
  <1>6. Signatures'
    BY <1>1 DEF Signatures, AnswersInStep, Kind
  <1>7. OnePublisher'
    <2>1. ASSUME members = Participant, progress' = "publish" PROVE publisher # {}
      <3>1. run.to = {}
        BY <1>1, <2>1
      <3>2. Cardinality(run.to) = 0
        BY <3>1, FS_EmptySet
      <3> QED
        BY <1>1, <2>1, <3>2 DEF AnswersInStep, OnePublisher, Kind
    <2>2. publisher # {} => progress' = "publish"
      BY <1>1 DEF AnswersInStep, OnePublisher
    <2> QED
      BY <1>1, <2>1, <2>2 DEF OnePublisher, Select
  <1> QED
    BY <1>2, <1>3, <1>4, <1>5, <1>6, <1>7

\* The timer and a cancelled call take members away, a cancelled call only one
\* that nobody waits for.
LEMMA ExpireKeeps == ASSUME IInv, Expire PROVE IInv'
  <1>1. members' \subseteq members /\ members \subseteq Participant
    BY DEF Expire, IInv, TypeOK
  <1> USE DEF IInv, Expire, data
  <1>2. TypeOK'
    BY <1>1 DEF TypeOK
  <1>3. (CallsEnd /\ SentOnce /\ AnsweredTogether /\ AnswersAreAwaited)'
    BY <1>1, CallsKeep DEF TypeOK
  <1>4. (AnswersInStep /\ NoSlots /\ OwnSlots /\ Owned)'
    BY <1>1 DEF AnswersInStep, NoSlots, OwnSlots, Owned
  <1>5. (Signatures /\ OnePublisher)'
    BY <1>1 DEF Signatures, OnePublisher
  <1> QED
    BY <1>2, <1>3, <1>4, <1>5

\* A participant is deleted, whatever the session is doing.
LEMMA CancelKeeps == ASSUME IInv, NEW p \in Participant, Cancel(p) PROVE IInv'
  <1>1. members' = members \ {p} /\ members \subseteq Participant
    BY DEF Cancel, IInv, TypeOK
  <1>2. /\ call' \in [Participant -> CallState]
        /\ call'[p].kind = call[p].kind /\ call'[p].worker = call[p].worker
        /\ call'[p].handler = "hung"
        /\ \A q \in Participant : q # p => call'[q] = call[q]
    <2>1. call \in [Participant -> CallState] /\ call[p] \in CallState
      BY DEF IInv, TypeOK
    <2> DEFINE c == [call[p] EXCEPT !.handler = "hung"]
    <2>2. c \in CallState /\ c.kind = call[p].kind /\ c.worker = call[p].worker /\ c.handler = "hung"
      BY <2>1 DEF CallState
    <2>3. call' = [call EXCEPT ![p] = c]
      BY <2>1 DEF Cancel
    <2> HIDE DEF c
    <2> QED
      BY <2>1, <2>2, <2>3
  <1> USE DEF IInv, Cancel, data
  <1>3. TypeOK'
    <2>1. leaves' \in Nat
      BY DEF TypeOK
    <2>2. crashed' \in BOOLEAN
      <3>1. CASE run.at = "answer"
        BY <3>1, Zenon
      <3>2. CASE run.at # "answer"
        BY <3>2
      <3> QED
        BY <3>1, <3>2
    <2> QED
      BY <1>1, <1>2, <2>1, <2>2 DEF TypeOK
  <1>4. (CallsEnd /\ SentOnce /\ AnsweredTogether /\ AnswersAreAwaited)'
    BY <1>1, <1>2, CallsKeep
  <1>5. (AnswersInStep /\ NoSlots /\ OwnSlots /\ Owned)'
    BY <1>1 DEF AnswersInStep, NoSlots, OwnSlots, Owned
  <1>6. (Signatures /\ OnePublisher)'
    BY <1>1 DEF Signatures, OnePublisher
  <1> QED
    BY <1>3, <1>4, <1>5, <1>6

\* A worker that is done tells its handler, or panics.
LEMMA FinishKeeps == ASSUME IInv, NEW p \in Participant, Finish(p) PROVE IInv'
  <1>1. /\ call' \in [Participant -> CallState]
        /\ \/ call' = call
           \/ /\ call'[p].kind = call[p].kind /\ call'[p].worker = "gone"
              /\ \A q \in Participant : q # p => call'[q] = call[q]
    <2>1. call \in [Participant -> CallState] /\ call[p] \in CallState
      BY DEF IInv, TypeOK
    <2> DEFINE c == [call[p] EXCEPT !.worker = "gone", !.handler = "returned"]
    <2>2. c \in CallState /\ c.kind = call[p].kind /\ c.worker = "gone"
      BY <2>1 DEF CallState
    <2>3. call' = call \/ call' = [call EXCEPT ![p] = c]
      BY <2>1 DEF Finish
    <2> HIDE DEF c
    <2> QED
      BY <2>1, <2>2, <2>3
  <1> USE DEF IInv, Finish, data
  <1>2. TypeOK'
    BY <1>1 DEF TypeOK
  <1>3. (CallsEnd /\ SentOnce /\ AnsweredTogether /\ AnswersAreAwaited)'
    BY <1>1, CallsKeep
  <1>4. (AnswersInStep /\ NoSlots /\ OwnSlots /\ Owned)'
    BY DEF AnswersInStep, NoSlots, OwnSlots, Owned
  <1>5. (Signatures /\ OnePublisher)'
    BY DEF Signatures, OnePublisher
  <1> QED
    BY <1>2, <1>3, <1>4, <1>5

\* The state of a call after the client went on.
LEMMA CallEffect ==
    ASSUME IInv, NEW p \in Participant, Call(p)
    PROVE  /\ call' \in [Participant -> CallState]
           /\ call[p].worker = "gone" /\ call[p].kind \in Kind \cup {"none"} /\ call[p].kind # "publish"
           /\ \A q \in Participant : q # p => call'[q] = call[q]
           /\ \/ /\ call'[p].kind = call[p].kind /\ call'[p].worker = "gone"
                 /\ call'[p].handler = "refused"
              \/ /\ call'[p].kind = Following[call[p].kind] /\ call'[p].worker = "sending"
                 /\ call'[p].handler = "open"
  <1>1. call \in [Participant -> CallState] /\ call[p] \in CallState
    BY DEF IInv, TypeOK
  <1>2. call[p].kind \in Kind \cup {"none"} /\ call[p].kind # "publish" /\ call[p].worker = "gone"
    BY <1>1 DEF CallState, Call, IInv, CallsEnd
  <1>3. Following[call[p].kind] \in Kind
    BY <1>2 DEF Following, Kind
  <1> DEFINE c == [call[p] EXCEPT !.handler = "refused"]
             d == [kind |-> Following[call[p].kind], worker |-> "sending", handler |-> "open"]
  <1>4. /\ c \in CallState /\ c.kind = call[p].kind /\ c.worker = "gone" /\ c.handler = "refused"
        /\ d \in CallState /\ d.kind = Following[call[p].kind] /\ d.worker = "sending"
        /\ d.handler = "open"
    BY <1>1, <1>2, <1>3 DEF CallState
  <1>5. call' = [call EXCEPT ![p] = c] \/ call' = [call EXCEPT ![p] = d]
    BY <1>1 DEF Call
  <1> HIDE DEF c, d
  <1> QED
    BY <1>1, <1>2, <1>4, <1>5

\* Who goes on to a call has not sent its part yet.
LEMMA CallKeeps == ASSUME IInv, NEW p \in Participant, Call(p) PROVE IInv'
  <1> USE DEF IInv
  <1>1. UNCHANGED <<members, data, run, armed, removed, leaves, crashed>> /\ members \subseteq Participant
    BY DEF Call, TypeOK
  <1> USE DEF data
  <1>2. TypeOK'
    <2>1. call' \in [Participant -> CallState]
      BY CallEffect
    <2> QED
      BY <1>1, <2>1 DEF TypeOK
  <1>3. CallsEnd'
    <2>1. Following[call[p].kind] # "none"
      BY CallEffect DEF Following, Kind
    <2> QED
      BY <2>1, CallEffect DEF CallsEnd
  <1>4. SentOnce'
    <2> SUFFICES ASSUME NEW k \in Kind, p \in sent[k]
                 PROVE  call'[p].kind \in Later(k) \/ (call'[p].kind = k /\ call'[p].worker # "sending")
      BY <1>1, CallEffect DEF SentOnce
    <2>1. call[p].kind \in Later(k) \cup {k}
      BY DEF SentOnce
    <2> QED
      BY <2>1, CallEffect DEF Later, Following, Kind
  <1>5. AnsweredTogether' /\ AnswersAreAwaited'
    BY <1>1, CallEffect DEF AnsweredTogether, AnswersAreAwaited, TypeOK
  <1>6. (AnswersInStep /\ NoSlots /\ OwnSlots /\ Owned)'
    BY <1>1 DEF AnswersInStep, NoSlots, OwnSlots, Owned
  <1>7. (Signatures /\ OnePublisher)'
    BY <1>1 DEF Signatures, OnePublisher
  <1> QED
    BY <1>2, <1>3, <1>4, <1>5, <1>6, <1>7

\* A step that changes nothing.
LEMMA StutterKeeps == ASSUME IInv, UNCHANGED vars PROVE IInv'
  <1> USE DEF IInv, vars, data
  <1>1. TypeOK'
    BY DEF TypeOK
  <1>2. (CallsEnd /\ SentOnce /\ AnsweredTogether /\ AnswersAreAwaited)'
    BY DEF CallsEnd, SentOnce, AnsweredTogether, AnswersAreAwaited
  <1>3. (AnswersInStep /\ NoSlots /\ OwnSlots /\ Owned)'
    BY DEF AnswersInStep, NoSlots, OwnSlots, Owned
  <1>4. (Signatures /\ OnePublisher)'
    BY DEF Signatures, OnePublisher
  <1> QED
    BY <1>1, <1>2, <1>3, <1>4

\* The invariant behind the theorems: how far each call is, who owns which slot,
\* and who was picked to publish.
THEOREM Invariant == Spec => []IInv
  <1>1. Init => IInv
    <2>1. Init => TypeOK
      <3> SUFFICES ASSUME Init PROVE TypeOK
        OBVIOUS
      <3>1. [p \in Participant |-> NoCall] \in [Participant -> CallState]
        BY DEF NoCall, CallState
      <3>2. /\ merged \in Seq(Participant \cup {NoOne}) /\ Len(merged) = 0
            /\ run \in RunState /\ progress \in Kind
        BY DEF Init, RunState, Kind
      <3> QED
        BY <3>1, <3>2 DEF Init, TypeOK
    <2>2. Init => CallsEnd /\ SentOnce /\ AnsweredTogether /\ NoSlots
      BY DEF Init, CallsEnd, SentOnce, AnsweredTogether, NoSlots, NoCall
    <2>3. Init => AnswersInStep /\ AnswersAreAwaited
      BY DEF Init, AnswersInStep, AnswersAreAwaited, Select
    <2>4. Init => OwnSlots /\ Owned
      BY DEF Init, OwnSlots, Owned
    <2>5. Init => Signatures /\ OnePublisher
      BY DEF Init, Signatures, OnePublisher, Kind, Select
    <2> QED
      BY <2>1, <2>2, <2>3, <2>4, <2>5 DEF IInv
  <1>2. IInv /\ [Next]_vars => IInv'
    BY RequestKeeps, PanicKeeps, AnswerKeeps, AnsweredKeeps, ExpireKeeps, CancelKeeps, FinishKeeps, CallKeeps,
       StutterKeeps
       DEF Next, RunStep
  <1> QED
    BY <1>1, <1>2, PTL DEF Spec

\* Every variable keeps its type: in particular the slots a participant is given
\* and those that are signed are slots of the transaction.
THEOREM Typed == Spec => []TypeOK
  BY Invariant, PTL DEF IInv

\* The slots each member is told are its own are all of its slots and no other's,
\* in whatever order the members submit, leave and are shuffled.
THEOREM OwnSlotsHolds == Spec => []OwnSlots
  BY Invariant, PTL DEF IInv

\* The session's goroutine never waits for a call that was cancelled, has been
\* answered or was not made, but for that of a client whose signed transaction
\* was an error.
THEOREM AnswersAreAwaitedHolds == Spec => []AnswersAreAwaited
  BY Invariant, PTL DEF IInv

\* If nobody has left or signed something else, what is to be published is signed for every slot, and
\* exactly one member is to publish it.
THEOREM PublishedIsSignedHolds == Spec => []PublishedIsSigned
  <1>1. IInv => PublishedIsSigned
    <2> SUFFICES ASSUME IInv, progress = "publish", members = Participant, odd = {}
                 PROVE  signed = DOMAIN merged /\ Cardinality(publisher) = 1
      BY DEF PublishedIsSigned
    <2>1. ASSUME NEW i \in DOMAIN merged PROVE i \in signed
      <3>1. merged[i] \in members
        BY <2>1 DEF IInv, TypeOK, Owned
      <3>2. i \in index[merged[i]]
        BY <2>1, <3>1 DEF IInv, OwnSlots
      <3> QED
        BY <3>1, <3>2 DEF IInv, Signatures
    <2>2. signed = DOMAIN merged
      <3>1. signed \subseteq 1 .. Len(merged) /\ DOMAIN merged = 1 .. Len(merged)
        BY DEF IInv, TypeOK
      <3> QED
        BY <2>1, <3>1
    <2>3. PICK p \in publisher : TRUE
      BY DEF IInv, OnePublisher
    <2>4. publisher = {p}
      BY DEF IInv, OnePublisher
    <2> QED
      BY <2>2, <2>4, FS_Singleton
  <1> QED
    BY <1>1, Invariant, PTL

-----------------------------------------------------------------------------
(* The session implements Rendezvous.                                      *)

Names == <<"split", "sign", "publish">>
Passed == [k \in Kind |-> Responded(k)]

\* A step that the session, seen as Rendezvous, does not see.
Same == members' = members /\ sent' = sent /\ Passed' = Passed

\* Responses depend on calls alone, and each call on itself.
LEMMA SamePassed ==
    ASSUME \A p \in Participant, k \in Kind : p \in Responded(k)' <=> p \in Responded(k)
    PROVE  Passed' = Passed
  BY DEF Passed, Responded

\* The rounds are the kinds of calls.
LEMMA RoundNames ==
    /\ DOMAIN Names = {1, 2, 3} /\ Kind = {Names[i] : i \in DOMAIN Names}
    /\ \A i \in DOMAIN Names : Names[i] \in Kind
    /\ \A i \in DOMAIN Names : i > 1 => Names[i] \in Later(Names[i - 1])
  BY DEF Names, Kind, Later

\* At first nobody has entered a round.
LEMMA InitMatches == Init => Barrier!Init
  <1> SUFFICES ASSUME Init PROVE Barrier!Init
    OBVIOUS
  <1>1. \A k \in Kind : Responded(k) = {}
    BY DEF Init, Responded, NoCall, Later, Kind
  <1>2. Passed = [k \in Kind |-> {}]
    BY <1>1 DEF Passed
  <1>3. Kind = {Names[i] : i \in DOMAIN Names}
    BY RoundNames
  <1> QED
    BY <1>2, <1>3 DEF Init, Barrier!Init, Barrier!Nobody, Passed, Names

\* A request that is accepted enters the round of its kind.
LEMMA SendEnters ==
    ASSUME IInv, NEW i \in DOMAIN Names, NEW p \in Participant, p \in members,
           NEW w \in {"waiting", "gone"},
           Taking(p, Names[i]), call' = [call EXCEPT ![p].worker = w], sent' = [sent EXCEPT ![Names[i]] = @ \cup {p}],
           members' = members
    PROVE  Barrier!Enter(i, p)
  <1> DEFINE k == Names[i]
  <1>1. k \in Kind /\ call[p].kind = k /\ call[p].worker = "sending"
    BY RoundNames DEF Taking
  <1>2. /\ call'[p].kind = k /\ call'[p].handler = call[p].handler /\ call'[p].worker = w
        /\ \A q \in Participant : q # p => call'[q] = call[q]
    BY <1>1, WorkerSet DEF IInv
  <1>3. p \notin sent[k]
    BY <1>1, Kinds DEF IInv, SentOnce
  <1>4. i > 1 => p \in Responded(Names[i - 1]) /\ Names[i - 1] \in Kind
    BY <1>1, RoundNames DEF Responded
  <1>5. Passed' = Passed
    BY <1>1, <1>2, SamePassed DEF Responded, IInv, CallsEnd
  <1>6. i > 1 => p \in Passed[Names[i - 1]]
    BY <1>4 DEF Passed
  <1> QED
    BY <1>3, <1>5, <1>6 DEF Barrier!Enter, Passed, Names

\* An answer lets its member pass, unless it is an error.
LEMMA AnswerPasses ==
    ASSUME IInv, NEW p \in Participant, AnswerTo(p)
    PROVE  Same \/ \E i \in DOMAIN Names : Barrier!Pass(i, p)
  <1>1. /\ run.at = "answer" /\ p \in members /\ members \subseteq sent[run.kind]
        /\ call[p].kind = run.kind /\ call[p].worker = "waiting" /\ run.kind \in Kind
        /\ call[p].handler \in {"open", "hung"}
    BY DEF AnswerTo, IInv, AnswersInStep, CallsEnd, TypeOK, RunState, Select
  <1>2. PICK w \in {"gone", "finishing"} :
          /\ call'[p].kind = call[p].kind /\ call'[p].handler = call[p].handler
          /\ call'[p].worker = w
          /\ \A q \in Participant : q # p => call'[q] = call[q]
    <2>1. PICK w \in {"gone", "finishing"} : call' = [call EXCEPT ![p].worker = w]
      BY DEF AnswerTo
    <2> QED
      BY <2>1, WorkerSet DEF IInv
  <1>3. UNCHANGED <<members, sent>>
    BY DEF AnswerTo
  <1>4. CASE w = "gone"
    BY <1>1, <1>2, <1>3, <1>4, SamePassed DEF Responded, Same
  <1>5. CASE w = "finishing"
    <2>1. PICK i \in DOMAIN Names : Names[i] = run.kind
      BY <1>1, RoundNames
    <2>2. p \notin Responded(run.kind)
      BY <1>1, Kinds DEF Responded
    <2>3. \A k \in Kind : Responded(k)' = Responded(k) \cup (IF k = run.kind THEN {p} ELSE {})
      BY <1>1, <1>2, <1>5 DEF Responded
    <2>4. Passed' = [Passed EXCEPT ![run.kind] = @ \cup {p}]
      BY <1>1, <2>3 DEF Passed
    <2>5. p \notin Passed[run.kind]
      BY <1>1, <2>2 DEF Passed
    <2>6. Barrier!Pass(i, p)
      BY <1>1, <1>3, <2>1, <2>4, <2>5 DEF Barrier!Pass, Passed, Names
    <2> QED
      BY <2>6
  <1> QED
    BY <1>4, <1>5

\* What happens to a call outside the session is not seen there.
LEMMA CallsUnseen ==
    ASSUME IInv, NEW p \in Participant, Call(p) \/ Finish(p)
    PROVE  Same
  <1>1. UNCHANGED <<members, sent>>
    BY DEF Call, Finish, data
  <1>2. CASE Call(p)
    <2>1. call[p].handler = "returned"
      BY <1>2 DEF Call
    <2>2. \A k \in Kind : p \in Responded(k)' <=> p \in Responded(k)
      BY <1>2, <2>1, CallEffect DEF Responded, Later, Following, Kind
    <2>3. \A q \in Participant, k \in Kind : q # p => (q \in Responded(k)' <=> q \in Responded(k))
      BY <1>2, CallEffect DEF Responded
    <2> QED
      BY <1>1, <2>2, <2>3, SamePassed DEF Same
  <1>3. CASE Finish(p)
    <2>1. call \in [Participant -> CallState] /\ call[p] \in CallState
      BY DEF IInv, TypeOK
    <2> DEFINE c == [call[p] EXCEPT !.worker = "gone", !.handler = "returned"]
    <2>2. c.kind = call[p].kind /\ c.handler = "returned" /\ call[p].worker = "finishing"
      BY <1>3, <2>1 DEF CallState, Finish
    <2>3. call' = call \/ call' = [call EXCEPT ![p] = c]
      BY <1>3, <2>1 DEF Finish
    <2> HIDE DEF c
    <2>4. \A q \in Participant, k \in Kind : q \in Responded(k)' <=> q \in Responded(k)
      BY <2>1, <2>2, <2>3 DEF Responded
    <2> QED
      BY <1>1, <2>4, SamePassed DEF Same
  <1> QED
    BY <1>2, <1>3

\* Every step of the session is a step of Rendezvous, or none.
LEMMA StepMatches == IInv /\ [Next]_vars => [Barrier!Next]_Barrier!vars
  <1> SUFFICES ASSUME IInv, [Next]_vars PROVE Barrier!Next \/ Same
    BY DEF Barrier!vars, Same, Passed
  <1> USE DEF Barrier!Next
  <1>1. ASSUME NEW p \in Participant,
               SubmitSplitTx(p) \/ SubmitSignedTx(p) \/ SubmitOddTx(p) \/ PublishResult(p),
               ~\E k \in Kind : Taking(p, k) /\ Refuse(p) /\ members' = members
        PROVE  \E i \in DOMAIN Names : Barrier!Enter(i, p)
    <2>1. CASE SubmitSplitTx(p)
      <3>1. Taking(p, "split") /\ members' = members /\ ~Refuse(p)
        BY <1>1, <2>1 DEF SubmitSplitTx, Kind
      <3>2. p \in members /\ Keep(p) /\ sent' = [sent EXCEPT !["split"] = @ \cup {p}]
        BY <2>1, <3>1 DEF SubmitSplitTx
      <3> QED
        BY <3>1, <3>2, SendEnters, RoundNames, 1 \in DOMAIN Names, Names[1] = "split"
           DEF Names, Keep
    <2>2. CASE SubmitSignedTx(p) \/ SubmitOddTx(p)
      <3>1. progress = "sign" /\ p \in members
        BY <1>1, <2>2 DEF SubmitSignedTx, SubmitOddTx, Kind
      <3>2. PICK S \in SUBSET index[p] :
              /\ Signs(p, S)
              /\ \/ Merge(p, signed \cup S)
                 \/ call' = [call EXCEPT ![p].worker = "gone"]
        BY <2>2, <3>1, SignEffect
      <3>3. PICK w \in {"waiting", "gone"} : call' = [call EXCEPT ![p].worker = w]
        BY <3>2 DEF Merge, Keep
      <3>4. Taking(p, "sign") /\ sent' = [sent EXCEPT !["sign"] = @ \cup {p}] /\ members' = members
        BY <3>2 DEF Signs
      <3> QED
        BY <3>1, <3>3, <3>4, SendEnters, RoundNames, 2 \in DOMAIN Names, Names[2] = "sign" DEF Names
    <2>3. CASE PublishResult(p)
      <3>1. Taking(p, "publish") /\ members' = members /\ ~Refuse(p)
        BY <1>1, <2>3 DEF PublishResult, Kind
      <3>2. p \in members /\ Keep(p) /\ sent' = [sent EXCEPT !["publish"] = @ \cup {p}]
        BY <2>3, <3>1 DEF PublishResult
      <3> QED
        BY <3>1, <3>2, SendEnters, RoundNames, 3 \in DOMAIN Names, Names[3] = "publish"
           DEF Names, Keep
    <2> QED
      BY <1>1, <2>1, <2>2, <2>3
  <1>2. ASSUME NEW p \in Participant, NEW k \in Kind, Taking(p, k), Refuse(p), members' = members
        PROVE  Same
    <2>1. /\ call'[p].kind = call[p].kind /\ call'[p].handler = call[p].handler
          /\ call'[p].worker = "gone"
          /\ \A q \in Participant : q # p => call'[q] = call[q]
      BY <1>2, WorkerSet DEF IInv, Refuse
    <2>2. \A q \in Participant, j \in Kind : q \in Responded(j)' <=> q \in Responded(j)
      BY <1>2, <2>1 DEF Responded, Taking
    <2> QED
      BY <1>2, <2>2, SamePassed DEF Refuse, data, Same
  <1>3. ASSUME NEW p \in Participant, AnswerTo(p)
        PROVE  Same \/ \E i \in DOMAIN Names : Barrier!Pass(i, p)
    BY <1>3, AnswerPasses
  <1>4. CASE Answered
    BY <1>4, SamePassed DEF Answered, Responded, Same
  <1>5. CASE Expire
    <2>1. Passed' = Passed /\ sent' = sent /\ members' = members \ Missed /\ Missed \subseteq Participant
      BY <1>5, SamePassed DEF Expire, Responded, data, Missed, IInv, TypeOK
    <2>2. Barrier!Lose(Missed)
      BY <2>1 DEF Barrier!Lose, Passed
    <2> QED
      BY <2>1, <2>2
  <1>6. ASSUME NEW p \in Participant, Cancel(p) PROVE Barrier!Lose({p})
    <2>1. call \in [Participant -> CallState] /\ call[p] \in CallState
      BY DEF IInv, TypeOK
    <2> DEFINE c == [call[p] EXCEPT !.handler = "hung"]
    <2>2. c.kind = call[p].kind /\ c.worker = call[p].worker /\ c.handler = "hung"
      BY <2>1 DEF CallState
    <2>3. call' = [call EXCEPT ![p] = c] /\ call[p].handler = "open"
      BY <1>6, <2>1 DEF Cancel
    <2> HIDE DEF c
    <2>4. \A q \in Participant, k \in Kind : q \in Responded(k)' <=> q \in Responded(k)
      BY <2>1, <2>2, <2>3 DEF Responded
    <2>5. Passed' = Passed /\ sent' = sent /\ members' = members \ {p}
      BY <1>6, <2>4, SamePassed DEF Cancel, data
    <2> QED
      BY <2>5 DEF Barrier!Lose, Passed
  <1>7. ASSUME NEW p \in Participant, Call(p) \/ Finish(p) PROVE Same
    BY <1>7, CallsUnseen
  <1>8. CASE UNCHANGED vars \/ \E p \in Participant : Panic(p)
    BY <1>8, SamePassed DEF vars, data, Panic, Responded, Same
  <1>9. Names = <<"split", "sign", "publish">>
    BY DEF Names
  <1> QED
    BY <1>1, <1>2, <1>3, <1>4, <1>5, <1>6, <1>7, <1>8, <1>9 DEF Next, RunStep

\* Nobody is given the outcome of a step before all that are still members have
\* sent their part: the session does what Rendezvous says.
THEOREM StepsTogetherHolds == Spec => StepsTogether
  BY InitMatches, StepMatches, Invariant, PTL DEF Spec, StepsTogether, Barrier!Spec
=============================================================================

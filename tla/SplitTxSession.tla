--------------------------- MODULE SplitTxSession --------------------------
(***************************************************************************)
(* One session of the simple mode (matcher/matcher.go) and the RPC calls   *)
(* of its participants (service.go), from the step at which JoinTicker.Run *)
(* starts it.                                                              *)
(*                                                                         *)
(* A call is two goroutines.  The handler waits in a select for its        *)
(* channel done or for the end of the call's context.  The worker it       *)
(* starts hands a request to the session, waits for the response, and      *)
(* writes done, unless the response is an error.  A handler whose context  *)
(* ends also writes done, which only it would read: it, and later its      *)
(* worker, block for ever.  It first deletes the participant, without a    *)
(* lock, from the map that the session's goroutine uses.                   *)
(*                                                                         *)
(* All channels are unbuffered.  The session takes a request and serves it *)
(* in one action up to its first answer; each answer is a step.  Inputs    *)
(* and outputs go through the same statements, one after the other; one    *)
(* list of slots stands for either.                                        *)
(***************************************************************************)
EXTENDS Naturals, Sequences, FiniteSets, Functions

CONSTANTS
    Participant,    \* participants the session is created with
    NoOne,          \* not a participant: a nil entry of a transaction
    NumIn,          \* slots each participant submits
    Leaver,         \* participants whose clients may go away
    Careless,       \* participants whose clients may return another transaction to
                    \* be merged than the one they were given to sign
    MaxLeaves,      \* bound on the calls that are cancelled in a behaviour
    Timeouts,       \* TRUE: the timer of the session may expire
    RandomIndex     \* Config.RandomIndex

ASSUME ConstantsOK ==
    /\ IsFiniteSet(Participant)
    /\ NoOne \notin Participant
    /\ NumIn \in [Participant -> Nat \ {0}]
    /\ Leaver \subseteq Participant
    /\ Careless \subseteq Participant
    /\ MaxLeaves \in Nat
    /\ Timeouts \in BOOLEAN
    /\ RandomIndex \in BOOLEAN

Kind == {"split", "sign", "publish"}

VARIABLES
    members,    \* keys of SessionData.Participants
    progress,   \* JoinSession.progress, by the kind of request it admits
    sent,       \* per kind, who has SplitTx, SignedTx, SentPublished set
    index,      \* InputIndes of each participant
    merged,     \* MergedSplitTx: the owner of each slot
    signed,     \* slots of SessionData.SignedTx that carry a signature
    odd,        \* participants whose SignedTx is not the merged transaction
    short,      \* SessionData.SignedTx lacks some of the slots
    publisher,  \* participants with Publisher set
    published,  \* PublishedTx # nil
    run,        \* control state of the goroutine JoinSession.Run
    armed,      \* clientTimeout can still expire
    removed,    \* RemoveSession was called
    call,       \* the call each participant has made last
    leaves,     \* calls cancelled so far
    crashed     \* the process died of a panic or a fatal runtime error

data == <<progress, sent, index, merged, signed, odd, short, publisher, published>>
vars == <<members, data, run, armed, removed, call, leaves, crashed>>

NoCall == [kind |-> "none", worker |-> "gone", handler |-> "returned"]
Select == [at |-> "select"]

Init ==
    /\ members = Participant
    /\ progress = "split"
    /\ sent = [k \in Kind |-> {}]
    /\ index = [p \in Participant |-> {}]
    /\ merged = <<>>
    /\ signed = {}
    /\ odd = {}
    /\ short = FALSE
    /\ publisher = {}
    /\ published = FALSE
    /\ run = Select
    /\ armed = TRUE
    /\ removed = FALSE
    /\ call = [p \in Participant |-> NoCall]
    /\ leaves = 0
    /\ crashed = FALSE

-----------------------------------------------------------------------------
(* The goroutine of the session.                                           *)

\* The select takes the request of p's worker.
Taking(p, k) ==
    /\ ~crashed
    /\ run = Select
    /\ call[p].kind = k
    /\ call[p].worker = "sending"

\* An error is the answer, and the worker returns without telling its handler.
Refuse(p) ==
    /\ call' = [call EXCEPT ![p].worker = "gone"]
    /\ UNCHANGED <<data, run>>

\* The channel of the response is kept; the worker waits on it.
Keep(p) == call' = [call EXCEPT ![p].worker = "waiting"]

\* Mutant: the first to send its data completes the step.
AnyIn(who) == members \cap who # {}

\* CheckTxSubmitted, CheckInputsSigned, CheckAllSentPublished.
AllIn(who) == members \subseteq who

\* Nothing to send yet, or an answer to each member in any order: `skip' of
\* them go to others before the one to the publisher, `next' is the progress
\* set after the last.
Rest == run' = Select
AnswerAll(k, skip, next) ==
    run' = [at |-> "answer", kind |-> k, to |-> members, skip |-> skip, next |-> next]

Perm(n) == Bijection(1..n, 1..n)

\* Mutant: the slots move, the indices stay.
NotMoved(own, perm) == own

\* SendTxData: the indices of the members follow the permutation, and so do
\* their slots; where it puts those of a participant that has left, nil stays.
Moved(own, perm) ==
    [p \in Participant |-> IF p \in members THEN {perm[i] : i \in own[p]} ELSE own[p]]
Shuffled(tx, own, perm) ==
    [i \in DOMAIN tx |->
        IF \E p \in members : \E q \in own[p] : perm[q] = i
          THEN tx[CHOOSE q \in DOMAIN tx : perm[q] = i] ELSE NoOne]

\* Mutant: the index is counted up before it is used.
LateSlots(n, p) == n + 2 .. n + NumIn[p] + 1

\* The indices of p's entries behind the first n.
NewSlots(n, p) == n + 1 .. n + NumIn[p]

\* addParticipantInput: the transaction is appended; when it is the last,
\* SendTxData.
SubmitSplitTx(p) ==
    /\ Taking(p, "split")
    /\ \/ (progress # "split" \/ p \notin members) /\ Refuse(p)
       \/ /\ progress = "split" /\ p \in members
          /\ Keep(p)
          /\ sent' = [sent EXCEPT !["split"] = @ \cup {p}]
          /\ LET n == Len(merged)
                 tx == merged \o [i \in 1..NumIn[p] |-> p]
                 own == [index EXCEPT ![p] = NewSlots(n, p)]
             IN \/ /\ ~AllIn(sent'["split"])
                   /\ merged' = tx /\ index' = own /\ Rest
                \/ /\ AllIn(sent'["split"])
                   /\ RandomIndex /\ Cardinality(members) > 1
                   /\ \E perm \in Perm(Len(tx)) :
                        merged' = Shuffled(tx, own, perm) /\ index' = Moved(own, perm)
                   /\ AnswerAll("split", 0, "sign")
                \/ /\ AllIn(sent'["split"])
                   /\ ~(RandomIndex /\ Cardinality(members) > 1)
                   /\ merged' = tx /\ index' = own /\ AnswerAll("split", 0, "split")
          /\ UNCHANGED <<progress, signed, odd, short, publisher, published>>
    /\ UNCHANGED <<members, armed, removed, leaves, crashed>>

\* Mutant: the transaction of the last to sign replaces the others'.
OwnOnly(p) == index[p]

\* What SessionData.SignedTx has of signatures with those of p.
Merged(p) == signed \cup index[p]

\* The part of mergeSignedInput that finds no fault in the transaction of p: the
\* signatures are stored, and when all have signed, one is picked to publish.
Merge(p, signatures) ==
    /\ Keep(p)
    /\ sent' = [sent EXCEPT !["sign"] = @ \cup {p}]
    /\ signed' = signatures
    /\ \/ ~AllIn(sent'["sign"]) /\ Rest
       \/ /\ AllIn(sent'["sign"])
          /\ \E n \in 0 .. Cardinality(members) - 1 : AnswerAll("sign", n, "publish")
    /\ UNCHANGED <<progress, index, merged, publisher, published>>

\* mergeSignedInput, for the transaction that was to be signed.
SubmitSignedTx(p) ==
    /\ Taking(p, "sign")
    /\ \/ (progress # "sign" \/ p \notin members) /\ Refuse(p)
       \/ progress = "sign" /\ p \in members /\ Merge(p, Merged(p))
          /\ UNCHANGED <<odd, short>>
    /\ UNCHANGED <<members, armed, removed, leaves, crashed>>

\* mergeSignedInput, for another one: some of the slots have no signature, and it
\* becomes SessionData.SignedTx as it is if it is the first.  One whose encoding
\* ends early has nil in the rest of its slots: Copy panics at it, and later it is
\* an error, with SignedTx set, part of it merged, and nothing asked of the others.
SubmitOddTx(p) ==
    /\ Taking(p, "sign") /\ progress = "sign" /\ p \in members
    /\ p \in Careless
    /\ odd' = odd \cup {p}
    /\ short' \in IF sent["sign"] = {} THEN BOOLEAN ELSE {short}
    /\ \E S \in SUBSET index[p] :
         \/ Merge(p, signed \cup S)
         \/ /\ sent["sign"] # {} /\ S # index[p]
            /\ sent' = [sent EXCEPT !["sign"] = @ \cup {p}]
            /\ signed' = signed \cup S
            /\ call' = [call EXCEPT ![p].worker = "gone"]
            /\ UNCHANGED <<progress, index, merged, publisher, published, run>>
    /\ UNCHANGED <<members, armed, removed, leaves, crashed>>

\* The index of a slot of p is out of range, in its own transaction or in the one
\* that came first.
Panic(p) ==
    /\ Taking(p, "sign") /\ progress = "sign" /\ p \in members
    /\ p \in Careless \/ short
    /\ odd' = odd \cup ({p} \cap Careless)
    /\ crashed' = TRUE
    /\ UNCHANGED <<members, progress, sent, index, merged, signed, short, publisher,
                   published, run, armed, removed, call, leaves>>

\* publishTxResult: the publisher reports success or failure.
PublishResult(p) ==
    /\ Taking(p, "publish")
    /\ \/ (progress # "publish" \/ p \notin members) /\ Refuse(p)
       \/ /\ progress = "publish" /\ p \in members
          /\ Keep(p)
          /\ sent' = [sent EXCEPT !["publish"] = @ \cup {p}]
          /\ published' \in IF p \in publisher THEN BOOLEAN ELSE {published}
          /\ IF AllIn(sent'["publish"]) THEN AnswerAll("publish", 0, "publish") ELSE Rest
          /\ UNCHANGED <<progress, index, merged, signed, odd, short, publisher>>
    /\ UNCHANGED <<members, armed, removed, leaves, crashed>>

\* The loop over the members is at the one the random number stands for.
Picked(p) == run.kind = "sign" /\ run.skip = 0 /\ publisher = {}

\* One answer; that nothing was published is an error.  A participant that was
\* deleted meanwhile is skipped.
AnswerTo(p) ==
    /\ ~crashed
    /\ run.at = "answer"
    /\ p \in run.to \cap members
    /\ call[p].kind = run.kind /\ call[p].worker = "waiting"
    /\ call' = [call EXCEPT ![p].worker =
                  IF run.kind = "publish" /\ ~published THEN "gone" ELSE "finishing"]
    /\ publisher' = IF Picked(p) THEN publisher \cup {p} ELSE publisher
    /\ run' = [run EXCEPT !.to = @ \ {p}, !.skip = IF @ = 0 THEN 0 ELSE @ - 1]
    /\ UNCHANGED <<members, progress, sent, index, merged, signed, odd, short, published,
                   armed, removed, leaves, crashed>>

\* After the loop: progress, which SendTxData moves only if it has shuffled, a
\* new timer, RemoveSession.
Answered ==
    /\ ~crashed
    /\ run.at = "answer"
    /\ run.to \cap members = {}
    /\ run' = Select
    /\ progress' = run.next
    /\ armed' = (armed \/ run.kind = "split")
    /\ removed' = (removed \/ run.kind = "publish")
    /\ UNCHANGED <<members, sent, index, merged, signed, odd, short, publisher, published,
                   call, leaves, crashed>>

\* The timer expires: whoever has not sent what the step needs is deleted.
\* Of the step of publication the signature is asked for.
Missed == members \ sent[IF progress = "split" THEN "split" ELSE "sign"]

Expire ==
    /\ ~crashed
    /\ Timeouts
    /\ run = Select
    /\ armed
    /\ armed' = FALSE
    /\ members' = members \ Missed
    /\ UNCHANGED <<data, run, removed, call, leaves, crashed>>

RunStep ==
    \/ \E p \in Participant :
         \/ SubmitSplitTx(p) \/ SubmitSignedTx(p) \/ PublishResult(p)
         \/ SubmitOddTx(p) \/ Panic(p) \/ AnswerTo(p)
    \/ Answered

-----------------------------------------------------------------------------
(* The calls.                                                              *)

Following == [none |-> "split", split |-> "sign", sign |-> "publish"]

\* A client goes on to its next call; one to a session that is no longer
\* registered is refused at once.
Call(p) ==
    /\ ~crashed
    /\ call[p].handler = "returned"
    /\ call[p].kind # "publish"
    /\ call' = [call EXCEPT ![p] =
                  IF removed THEN [@ EXCEPT !.handler = "refused"]
                  ELSE [kind |-> Following[@.kind], worker |-> "sending", handler |-> "open"]]
    /\ UNCHANGED <<members, data, run, armed, removed, leaves, crashed>>

Entries == {merged[i] : i \in DOMAIN merged}

\* The worker encodes the transaction it was sent, which panics at a nil entry
\* of the merged one, and tells the handler, if that still listens.
Finish(p) ==
    /\ ~crashed
    /\ call[p].worker = "finishing"
    /\ \/ /\ ~(call[p].kind = "split" /\ NoOne \in Entries)
          /\ call[p].handler = "open"
          /\ call' = [call EXCEPT ![p].worker = "gone", ![p].handler = "returned"]
          /\ UNCHANGED crashed
       \/ /\ call[p].kind = "split" /\ NoOne \in Entries
          /\ crashed' = TRUE
          /\ UNCHANGED call
    /\ UNCHANGED <<members, data, run, armed, removed, leaves>>

\* The client goes away: RemoveSessionID, without a lock, and a write to done
\* that nobody reads.  Deleting from a map that is ranged over may be fatal.
Cancel(p) ==
    /\ ~crashed
    /\ p \in Leaver
    /\ leaves < MaxLeaves
    /\ call[p].handler = "open"
    /\ leaves' = leaves + 1
    /\ members' = members \ {p}
    /\ call' = [call EXCEPT ![p].handler = "hung"]
    /\ crashed' \in IF run.at = "answer" THEN BOOLEAN ELSE {FALSE}
    /\ UNCHANGED <<data, run, armed, removed>>

-----------------------------------------------------------------------------
(* Specification.                                                          *)

Next ==
    \/ RunStep \/ Expire
    \/ \E p \in Participant : Call(p) \/ Finish(p) \/ Cancel(p)

Spec == Init /\ [][Next]_vars

\* Goroutines run, and clients go on to their next call.
Fairness ==
    /\ WF_vars(RunStep)
    /\ \A p \in Participant : WF_vars(Call(p)) /\ WF_vars(Finish(p))

FairSpec == Spec /\ Fairness

-----------------------------------------------------------------------------
(* Properties.                                                             *)

CallState == [kind : Kind \cup {"none"}, worker : {"sending", "waiting", "finishing", "gone"},
              handler : {"open", "returned", "refused", "hung"}]

RunState == {Select} \cup [at : {"answer"}, kind : Kind, to : SUBSET Participant, skip : Nat,
                          next : Kind]

\* Every variable keeps its type.
TypeOK ==
    /\ members \subseteq Participant
    /\ progress \in Kind
    /\ sent \in [Kind -> SUBSET Participant]
    /\ merged \in Seq(Participant \cup {NoOne})
    /\ index \in [Participant -> SUBSET (1 .. Len(merged))]
    /\ signed \subseteq 1 .. Len(merged)
    /\ odd \subseteq Participant
    /\ short \in BOOLEAN
    /\ publisher \subseteq Participant
    /\ published \in BOOLEAN
    /\ run \in RunState
    /\ armed \in BOOLEAN
    /\ removed \in BOOLEAN
    /\ call \in [Participant -> CallState]
    /\ leaves \in Nat
    /\ crashed \in BOOLEAN

\* The indices a member is given are those of all of its own slots, and of no
\* other's, wherever the others' submissions and the permutation have put them.
OwnSlots ==
    \A p \in members : index[p] = {i \in DOMAIN merged : merged[i] = p}

\* Whoever the session answers is there to take it: its goroutine never waits
\* for a call that was cancelled, answered before, or not made yet.  The one call
\* it may wait for is that of a client whose signed transaction was an error.
AnswersAreAwaited ==
    run.at = "answer" =>
        \A p \in (run.to \cap members) \ odd : call[p].kind = run.kind /\ call[p].worker = "waiting"

\* The kinds of calls that follow one of kind k.
Later(k) == CASE k = "split" -> {"sign", "publish"} [] k = "sign" -> {"publish"} [] OTHER -> {}

\* The participants whose call of kind k has had a response.
Responded(k) ==
    {p \in Participant :
        \/ call[p].kind \in Later(k)
        \/ call[p].kind = k /\ (call[p].worker = "finishing" \/ call[p].handler \in {"returned", "refused"})}

Barrier == INSTANCE Rendezvous WITH
    Rounds <- <<"split", "sign", "publish">>,
    entered <- sent,
    passed <- [k \in Kind |-> Responded(k)]

\* However calls, answers, cancellations and the timer come together, nobody is
\* given the outcome of a step before all that are still members have sent their
\* part of it.
StepsTogether == Barrier!Spec

\* A transaction that is to be published is signed for every slot, and its one
\* publisher knows, if nobody has left and all have signed what they were given.
PublishedIsSigned ==
    progress = "publish" /\ members = Participant /\ odd = {} =>
        signed = DOMAIN merged /\ Cardinality(publisher) = 1

\* If nobody leaves or is timed out, and all sign what they were given, the
\* session completes and is removed.
Finishes == <>(members # Participant \/ odd # {} \/ removed)
=============================================================================

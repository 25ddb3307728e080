# A verification of dcrtxmatcher

dcrtxmatcher is a server that builds Decred coinjoin transactions: several
clients put their inputs and outputs into one transaction, and nobody, in the
default mode not even the server, learns which output belongs to whom.  This
directory holds TLA+ models of the server, their model-checking runs and
machine-checked proofs about them.  Paths are relative to the repository.

- [1. The system](#1-the-system): components, state, operations, hazards
- [2. The modules](#2-the-modules)
- [3. Models and code](#3-models-and-code): each model beside its code, and what it abstracts
- [4. Runs](#4-runs): what each run checks; bounds and fairness
- [5. Disagreements with the code's comments](#5-disagreements-with-the-codes-comments)
- [6. Proofs](#6-proofs)
- [7. What is not shown](#7-what-is-not-shown)

## 1. The system

`run` in `dcrtxmatcher.go` starts one of two servers, chosen by the option
`blindserver` (default true).

```
 blind (DiceMix over websockets)           simple (gRPC)
 /ws handler -> NewPeer                    FindMatches, SubmitSplitTx, ... (service.go)
      | NewPeerChan                             | addParReqChan       | submit*Req channels
 DiceMix.Run  --- JoinQueue                JoinTicker.Run -- JoinQueue
      | go                                      | go                  |
 JoinSession.run  <- channels - readers    matcher.JoinSession.Run <--'
      '--- writeChan -> writers
```

### Blind mode (`coinjoin/`)

| component | state | operations | what makes it correct |
|---|---|---|---|
| `DiceMix.Run`, `JoinQueue` (coinjoin.go 125-306) | `Peers` under `mu`, `WillStart`, `TimerChan` | `AddNewPeer`, `RemovePeer`, the join timer, which hands all queued peers to a new session | every queued peer gets into exactly one session; `Run` never blocks for good; a peer that leaves is in neither |
| `JoinSession.run` (joinsession.go 208-1242) | `Peers` with each `PeerInfo`'s data, `State`, `PeersMsgInfo`, `JoinedTx`, `Publisher`, `maliciousFinding`, `TotalMsg`, `roundTimeout`; locals `errm`, `missedPeers` | a select over nine message channels and the timer; restart (`pushMaliciousInfo`) | a round ends when, and only when, every member's data of this life of the session is in; only offenders are removed; what is published is signed by all owners; the session ends |
| `ReadMessages`, `WriteMessages` (coinjoin.go 309-658) | one goroutine each per peer; `Conn`, `writeChan`, `Close` | admit a message by the session's state; deal with unparsable data; on an I/O error remove the peer, restart, or elect a publisher | as above, and no goroutine waits for good while it holds `mu`, none panics |
| DC-net arithmetic and replay (joinsession.go 372-566, 842-1216) | vectors over a finite field, xor vectors, slots, `TotalMsg` | sum, cancel the pads, extract the messages; recompute everything from revealed keys | the sums give back the multiset of messages; the replay of a mix that failed blames somebody, and nobody honest |
| `flint.GetRoots`, `solve_poly` (flint/) | none | power sums to coefficients (Newton's identities) to roots modulo a prime | for the power sums of n messages, the roots are the messages |

`JoinQueue.Run` (coinjoin.go 209-250) is a copy of `DiceMix.Run` that nothing calls.

### Simple mode (`matcher/`, `service.go`)

| component | state | operations | what makes it correct |
|---|---|---|---|
| `JoinTicker`, `JoinQueue` (jointicker.go) | `waitingPars`, `joinSessions`, `done` (capacity 1) | take a request, tick and start a session, `RemoveWaitingID`, `RemoveSession`, `Stop` | every waiting call is answered once; a call that was cancelled is in no session; `Stop` returns when, and only when, no session is left |
| `matcher.JoinSession` (matcher.go) | `progress`, `Participants` with their transactions, the joint transaction, the index maps, `Publisher` | `addParticipantInput`, `SendTxData`, `mergeSignedInput`, `publishTxResult`, timeout, `RemoveSessionID` | every participant gets its own inputs' and outputs' indices; nobody's signature is lost; every call is answered once; a session whose members leave goes on |
| RPC handlers (service.go) | per call: a goroutine, `done`, the context | forward a call, wait for the answer or the client's cancellation | no handler waits for good; a cancelled call has no effect later |

### Around both

`dcrtxmatcher.go`, `signal.go`, `signalsigterm.go` (start, shutdown on a signal,
`Stop` with `completejoin`), `config.go`, `log.go`, `client/client.go` (a test
client of an older interface).  `flint/include` and `libs` are third-party code.

### What is hard

All state of a session is shared by `2n + 1` goroutines under one mutex, which is
released and taken again in the middle of what is logically one operation
(`pushMaliciousInfo` is called after an unlock, with the id of a message or one
read in between; run receives a message that a reader admitted earlier, in a state
that may be over).
Messages to a peer go over an unbuffered channel, sent with the mutex held, to a
goroutine that may have ended or may be waiting for that mutex.  A restart changes
all peer ids.  Data is collected by count in one round and by lookup in the
others.  `PROJECT.json` lists the hazards with their lines; they are what the
properties were chosen for.

## 2. The modules

| module | what |
|---|---|
| `JoinSession` | the session of the blind mode with readers, writers and clients of its peers |
| `JoinSessionClaims` | what a comment in the code claims of it |
| `DiceMix` | the queue of the blind mode, and its peers' readers and writers until their session is started |
| `PolySolver`, `DcNet` | the arithmetic that `JoinSession` abstracts: solver; DC-net sums and replay |
| `TicketJoiner` | the queue of the simple mode, `FindMatches`, end of sessions, shutdown |
| `SplitTxSession` | the session of the simple mode and its three RPC calls |
| `Matching` | abstract: what either queue promises its clients |
| `Rendezvous` | abstract: what a session of the simple mode promises its members |
| `MC...` | model values and instances for TLC; the claims that violation runs refute |
| `JoinSessionProofs`, then, each on the one before, `JoinSessionPeersProofs`, `JoinSessionRoundsProofs` | theorems about `JoinSession`: its data and the transaction it hands out; what faulty peers do to the others; keys and order of the rounds |
| `PolySolverProofs`, then `DcNetProofs` | sums, powers and polynomials modulo a prime, the solver; the mix and its replay |
| `DiceMixProofs`, `TicketJoinerProofs`, `SplitTxSessionProofs` | theorems about the module named, and that it implements `Matching` or `Rendezvous` |

How they meet:

- `DiceMix` has a peer until its session is started (`HandedOver`), and lets go
  of it there; that moment is the initial state of `JoinSession`.
- `JoinSession` states by who misbehaved whether the polynomial can be solved
  (`Solvable`) and whom the replay blames (`Malicious`): those that sent wrong
  data, and, when a key or a first vector is wrong or the paddings do not
  cancel, any of those whose vectors it may misread (`Misjudged`).  `DcNet`
  computes both: `HonestMix`, `SomebodyIsBlamed` and `HonestAreNotBlamed` say
  where the mix succeeds and where the honest are safe; they are proved.
- `TicketJoiner` has sessions as sets that end.  That one may end needs two
  members and one that is left to send the last result (`MayEnd`); that it will
  end is assumed only if all its members take part in it (`WillEnd`), which is
  `SplitTxSession`'s `Finishes`.
- `DiceMix` and `TicketJoiner` both implement `Matching`; only in the second may
  a session become smaller than `MinParticipants`, since its queue is counted
  without the lock (`MayShrink`).  `SplitTxSession` implements `Rendezvous`.

## 3. Models and code

### JoinSession

`JoinSession.tla` models one session from the moment `DiceMix.Run` starts it, for
any set of peers.  There is a process for `run`, and for each peer a reader, a
writer and a client.

| variable | code |
|---|---|
| `session` | the `JoinSession` struct and the data fields of its `PeerInfo`s |
| `mu` | `JoinSession.mu`, as its holder; a Go mutex has none, so `Unlock` frees it whoever holds it and kills the process if it is free |
| `run` | where the goroutine `run` is: `top` of LOOP, `select`, `handle` (message taken, lock wanted), `send` (broadcast under the lock), `push` (about to call `pushMaliciousInfo`), `expired`, `range` (over the members, at the timeout of a publisher), `exit`, `done`, `dead` (waits for a lock it holds) |
| `errm`, `missed` | run's locals `errm # nil` and `missedPeers` not empty, which survive from one iteration to the next |
| `reader[p]` | `read`, `send` (blocked on a session channel with an admitted message), `push`, `drop` (unparsable key), `bcast` (sending under the lock), `closing` (deferred send on `Close`), `gone`, `dead` |
| `writer[p]` | `ready`, `failed` (a write returned an error, lock wanted), `elect` (handing the transaction to a new publisher), `gone`, `dead` |
| `conn[p]` | the websocket: `open`, `left` by the client, `closed` by the server |
| `crashed` | a panic or fatal error ended the process |

Actions are named after the channel or function they model: `KeyExchange`,
`DcExpVector`, `DcXorVector`, `TxInputs`, `SignedTx`, `PublishResult`,
`RevealSecret`, `MsgNotFound` are the cases of run's select; `Timeout`, `Expired`,
`EvictPublisher`, `RangeDone` its timer case; `RunPush` and `ReaderPush` are
`pushMaliciousInfo`; `Accept` is a reader's case for a message it admits, `Drop`
its `removePeer` for an unparsable key; `ReaderError`, `WriterError` are the two
error branches and `ReaderClose` the reader's deferred send.

A handler is one action from the moment it has the lock up to the unlock or the
first send; each send of a broadcast is a step of its own, because it may block;
what follows the sends (state, timer, unlock) is `RunSent`.  Early exits keep what
they keep in the code: an undecodable transaction leaves LOOP with `mu` held and
`errm` set, the amount check's `break` (joinsession.go:624) leaves only the
select, with `mu` held; a secret with which no key can be computed leaves LOOP
like the first (875-896).  A transaction without outputs, or one with too few
inputs where the signer's own should be, is a panic (614, 728).

#### Abstractions

- *Payloads* are `"good"` or the name of the check they fail (`BadPayload`); two
  payloads that fail the same check are the same.  Payloads that fail no check
  but are not what the protocol asks for are `"wrong"`: they spoil the mix, and
  only the replay finds them.
- *Ids.*  A peer's id in the n-th life of the session is the pair of peer and n
  (`session.epoch`), since a restart draws new random ids for all members at once.
  Two equal random ids are not modelled.  A message has the id its sender had when
  it was admitted, which the reader sets under the lock (coinjoin.go:508, 527, ...); the id
  with which `pushMaliciousInfo` is called is often read from the peer after the
  unlock (coinjoin.go:524, joinsession.go:402, 610, 740), so it is that one or a
  newer one (`AccuseLate`, the choice of `epoch` in `RunPush` and `ReaderPush`).
- *DC-net.*  Whether the roots are found (`Solvable`) and whom the replay blames
  (`Malicious`) are stated by who sent wrong data, with a choice where that
  depends on the numbers.  Paddings cancel if the keys that were broadcast are
  one of each member (`PaddingsCancel`); if not, the mix may fail and the replay
  may blame anybody or panic.  A wrong key or a wrong first vector may shift
  the slots, and then anybody whose second vector is in may be blamed.  When the
  replay indexes past what it has, it may panic (`ReplayPanics`).  Vectors have the
  announced length.
- *The joint transaction* is the set of the owners of its inputs.  The first signed
  transaction becomes `JoinedTx` as it is, though only its sender's own inputs were
  compared (joinsession.go:727-746): if it was altered, inputs of others may be missing, and
  inputs of nobody here, without signatures, be in (`JoinedInputs`).  Of later
  ones only the signer's own inputs are taken.
- *Sends.*  A message handed to a writer and the write of it are one step.  A
  write sets no deadline in the code; here it always returns.  The order of a
  broadcast is random, as in Go's range over a map; a member whose writer does not
  take its message does not keep the others from getting theirs, but it keeps
  the broadcast from ending.
- *Data race.*  `removePeer` is called by a reader without the lock after an
  unparsable key.  `Drop` removes the entry (a range under way skips it) and, if
  anyone has the lock, may or may not be the fatal "concurrent map" error.
- *Timer.*  A round timer that was armed may expire at any moment run is in its
  select; `armed` stands for "some armed timer has not expired".  When a reader
  or writer replaces the timer while run is parked on the old one, both are live
  in Go and one here.
- *Clients* send what they are asked for, once per life (`Due`); those in `Faulty`
  may do up to `MaxFaults` other things out of `Misuse`.  A message is read only
  while the connection is open.  A secret that was not asked for and a second
  `TxInputs` are left out (the latter would rebuild the joint transaction inside
  a slice it aliases, joinsession.go:647-662).
- *NumMsg* is the same for all peers.  A lone peer with one message announces a
  vector too short for the server's check of at least two (`Sized`).
- Marshalling errors of the server's own messages are not modelled.

### DiceMix

Two processes per peer (reader, writer) and `DiceMix.Run`.

| variable | code |
|---|---|
| `queue` | `joinQueue.Peers` |
| `willStart`, `armed` | `WillStart`; that `TimerChan` will deliver |
| `run` | `select`; `check`: after `AddNewPeer`, lock released; `join`: the loop over the queue, lock held, sending to a peer or between two |
| `made` | the sessions, as the sets of peers put into them so far; also stands for each peer's pointers `JoinSession`, `JoinQueue` |
| `reader[p]` | `read`; `leaving` or `unmatched`: has seen the error and whether there is a session; `removing`: has called `RemovePeer`; `closing`; `gone` |
| `writer[p]` | `ready`, `failed`, `gone` |

`AddNewPeer`, `CheckQueue`, `TimerFires`, `Put`, `Respond` and `StartSession` are
the stretches of `DiceMix.Run` between two points where others can get in;
`ReadError`, `LookAtQueue` and `RemovePeer` those of a reader, which tests one
pointer, then uses the other.  The map that `Run` fills is used by readers under
another lock: that is the choice of `crashed` in `TakeOut`.  Each peer connects
once; Go's timer may deliver at any time after it was started.

### PolySolver and DcNet

`PolySolver` is `solve_poly` over a field of `Prime` elements: `Coefficients`
are Newton's identities in the loop's index arithmetic (`Partner`,
`NegInverse`), `Factorizations` what the library's factorization is used for,
`GetRoots` the return codes.  `DcNet` is one life of a session from the first
vectors on: `CombineExp` is what is done when all first vectors are there,
`SubmitXor` the arrival of one second vector (the last one is combined with the
others), `MissingInExp` and `MissingInXor` are a complaint in either round,
`Reveal` the arrival of the secret keys, `Replay` the replay in its parts `WrongExp`
and `WrongXor`.  Second vectors may come before and after a complaint, one peer at
a time, and the replay judges those that are in.

Clients are external: their messages, paddings and vectors are chosen in `Init` and
`SubmitXor`.  An honest one sends its second vector if it finds its hashes among
the roots, else it complains, and it complains if its pkscript is not in its slot.
One peer may deviate: add anything to its first vector, put a wrong token in one
slot of its second, complain without reason, and reveal a wrong key, from which the
server takes any padding to follow.

- Pkscripts and xor paddings are sets of tokens under symmetric difference, which
  is what xor does to independent bit strings.  Hashes have no collisions.
- Vectors have the announced length, and every peer announces at least one
  message.  (In the code a longer vector panics at joinsession.go:425; a peer
  that announced none is never blamed, since the replay has branches for one
  message and for several only.)
- Slots are counted in the numeric order of the messages, as the replay does
  (joinsession.go:1128-1130); the order in which the library returns the factors
  is not modelled.
- Random bits under a wrong key are not computed: the sender of that key is blamed
  whatever they are.
- `HonestAreNotBlamed` has a condition, since the code does blame honest peers
  without it.  If no honest second vector is in, nobody honest is blamed.
  If one is, that needs `SameSlots`: the keys are right, all honest peers have
  found their hashes, and no message occurs twice among the recovered ones.  With a
  wrong key, or with a wrong first vector that made somebody complain after others
  had sent their second vectors, the replay recovers other hashes from the deviator
  than were in the mix, and the slots of the others shift; a message that occurs twice has
  two slots in the replay, of which its sender fills the first.  Without any one of
  the three conditions TLC finds an honest peer blamed.
- `SomebodyIsBlamed` excludes only a false complaint of the deviator
  (`FalseAlarm`), after which there may be nobody to blame.

### TicketJoiner

| variable | code |
|---|---|
| `waiting` | keys of `joinQueue.waitingPars` |
| `run` | `select`; `lock`: counted, lock not yet taken; `answer`: the loop of responses, lock held; `register`: before the session is found |
| `made`, `joinSessions` | all sessions; indices of those in `joinTicker.joinSessions` |
| `done`, `holder` | messages in `joinTicker.done`; session that waits to write it with the lock held |
| `worker[p]`, `handler[p]` | the goroutine `FindMatches` starts; the handler, then the client's next call |
| `main` | `serving`, `waiting` in `Stop`, `closing`, `stopped` |

A tick that finds too few changes nothing and is not an action.  What a session
does is one action, `RemoveSession`.  It is enabled if at least two members found
the session when they called, since a session of one does not get beyond the first
step (matcher.go:399-468), and if one of them is left to send the last result
(`MayEnd`).  `Miss` is the session's timer, which removes a member and does
not look whether the others are complete.

### SplitTxSession

| variable | code |
|---|---|
| `members` | keys of `SessionData.Participants` |
| `progress`, `sent` | `JoinSession.progress`; who has `SplitTx`, `SignedTx`, `SentPublished` set |
| `merged`, `index` | the owner of each entry of `MergedSplitTx`, `NoOne` for nil; `InputIndes` |
| `signed`, `publisher`, `published` | entries of `SignedTx` with a signature; `Publisher`; `PublishedTx` |
| `run` | `select`, or the answers of a step: whom still, and how many before the publisher |
| `call[p]` | kind of the participant's last call, its worker and its handler |

A request is served in one action up to its first answer, and each answer is one,
because a cancelled call deletes its participant in between without a lock
(`Cancel`).  A deletion in the middle of the other statements of a handler (a nil
participant at matcher.go:294, `rand.Intn(0)` at 269) is not modelled.  Inputs and outputs go
through the same statements and are one list of slots.  A client signs the
slots it was told are its own; one in `Careless` may return something else to be
merged (`SubmitOddTx`, who did so is in `odd`): slots of its own without signatures, a
transaction that lacks slots (`short`), which becomes the session's if it is the
first, or one whose encoding ends early, which has nil entries (service.go ignores
the error of `BtcDecode`).  The last is refused with
`SignedTx` set, and the session may later answer a call that is no longer there; or it
panics (`Panic`), as an index out of range does.  Transactions of the first step
are taken to be in order.  `JoinSession.Run` of the simple mode never ends.

## 4. Runs

`CHECK_DEADLOCK FALSE` everywhere: sessions end, clients connect or call once, and
the goroutines stop or wait.

| run | bounds | states | shows |
|---|---|---|---|
| `JS_reject` | three peers; one faulty, one rejected message of any kind; publication by server or client; fairness | 1,993 | the session restarts without the offender (`RestartRemoves`), goes through its rounds in order (`RoundsInOrder`) with all keys known (`KeysComplete`), the lock's holder always gets on (`LockHolderRuns`), and it ends with a transaction all owners signed (`Finishes`, `CompletedIsSigned`) |
| `JS_blame` | three peers; one faulty, up to three of: a wrong second vector, a complaint without cause, a vector or key sent again, data that is refused, an altered signed transaction | 147,994 | whatever is found by a check or by the replay, honest peers stay (`HonestStay`) |
| `JS_timeouts` | three peers; any one misuse, second message or lost connection by any; timers | 111,483 | types (`TypeOK`); a round's data is complete (`RoundData`), the transaction handed out is signed for all inputs but those that a signer has added (`PublishedIsSigned`), its publisher is a member (`PublisherPresent`) |
| `DM_queue` | four peers, two of which may be lost, `MinParticipants` 2 | 71,455 | `Matching` (`Matches`); a timer when one is needed (`TimerRuns`); no peer whose reader has dealt with its loss gets into a session (`GoneAreNotPut`); enough peers get into one (`Starts`) |
| `DC_mix` | three peers with two, one and one of the messages 1-4 modulo 5; each pair its own padding; one deviant adds 0 or 1 to any element, a wrong token in any slot, may complain without reason and reveal a wrong key | 139,450 | the roots have the sums that were given, and none are given only if there are none (`SolverIsRight`); an honest mix gives the messages back (`HonestMix`); a replay with a reason blames somebody (`SomebodyIsBlamed`) and nobody honest, on the conditions of section 3 (`HonestAreNotBlamed`) |
| `TJ_queue` | four clients, two of which may cancel, `MinParticipants` 2, shutdown at any time | 142,688 | `Matching` (`Matches`); `Run` never waits for a call that has gone (`AnswersAreAwaited`); enough clients are served (`Served`); the shutdown ends unless a session is stuck (`Stops`) |
| `ST_session` | three participants with two, one and one slots; one of two may leave, the third may sign something else; timer | 370,852 | `Rendezvous` (`StepsTogether`); own slots (`OwnSlots`); no answer to a call that has gone (`AnswersAreAwaited`); a complete transaction (`PublishedIsSigned`) and completion (`Finishes`), if nobody leaves and all sign what they were given |

*Why the bounds are enough.*  Three peers are the least with a proper restart among
several, a second restart, an election with a choice; `NumMsg` in `JoinSession`
counts only by whether there are two messages in the mix.  Four clients make two
sessions, one after the other, which is what `done`, the timer and the replaced
maps can get wrong, and a larger one.  A participant with two slots can have them
parted by a shuffle.  Four messages modulo five is the least prime that the
solver takes, and has repeated roots, irreducible factors and inverses other
than 1 and -1; a peer with two messages takes the replay's other branch.
What a longer history could affect most is proved for any number (section 6).

Each run of the blind mode's session leaves out the misuses with which its
properties are false (section 6 has them as hypotheses, section 5 as what the code
then does); `JS_timeouts` leaves out none.  So `JS_reject` says nothing of timers,
lost connections, overspending or second complaints, and `JS_blame` nothing of wrong
keys, wrong first vectors or the misuses that set `errm`.

*Fairness* is weak throughout: goroutines that can go on are scheduled; a select
takes a timer or tick that stays ready; clients that were answered make their
next call; in `TicketJoiner`, a session ends if it has at least two members and
all of them have found it and are not missed by its timer (`WillEnd`, which is
`SplitTxSession`'s `Finishes`).  Any other may end or not.  It is not assumed that connections
fail, that calls are cancelled or that a session's timers expire, nor that the
server is stopped or that a new client comes.  A condition may be found true and
disabled again by others, as Go's select does; no property rests on strong
fairness.  The liveness properties say what they need: `Starts` that nobody is
lost, `Served` that nobody leaves and no session waits to write `done`, `Stops`
that no registered session is `Stuck` (fewer than two members, or one that was
refused, missed or went away), `Finishes` that nobody leaves or signs something else.

Each property of a passing run has a mutant in `PROJECT.json`: a small change of a
definition (kept beside it, marked "Mutant") under which the property fails.

## 5. Disagreements with the code's comments

Five runs each check one claim, quoted from a comment, which the code does not keep.

| run | claim | what the code does |
|---|---|---|
| `JS_v_silent` | a silent client is removed | the timeout handler calls a function that locks `mu` while it holds `mu`; run blocks for ever |
| `DM_v_join` | enough peers get a session | `Run` sends to a writer that has exited, with the queue's lock held, and no peer is taken any more |
| `ST_v_unsigned` | the transaction is built when all inputs are received | inputs of a participant that left stay in it, unsigned |
| `TJ_v_listens` | `Run` takes all requests | a session of two clients ends, then another: `RemoveSession` blocks on `done` with the ticker's lock, `Run` on that lock when it has made a third, and the next client's request is not taken |
| `TJ_v_stop` | `Stop` waits for the running sessions | it takes the message of a session that ended long before |

The models have more behaviours of this kind, without a run.  In the session of
the blind mode:

- the timeout in the xor round tests the vectors of the round before
  (joinsession.go:247);
- a peer that disconnects in a mix round stays a member: its reader locks `mu`
  twice (coinjoin.go:421);
- a writer that ends first closes `Close`, and the reader's send on it panics
  (coinjoin.go:388);
- when a member whose key is in leaves, the count of keys is reached with another
  key missing (joinsession.go:346);
- `break LOOP` after a vector that is too short ends the goroutine although the rest
  were told to start over (joinsession.go:384);
- `errm`, set by one invalid hash, condemns the next honest vector
  (joinsession.go:400);
- honest members are blamed by the replay, and removed: when a key was revealed wrong
  (joinsession.go:889-892 goes on with it) or a first vector was wrong, if their second
  vectors are in already (the slots of 1124-1153 are not those they were told), and
  when a member was refused after some keys were counted, so that paddings do not
  cancel (332-346);
- the first signed transaction becomes the joint one as it is, after a look at its
  signer's own inputs only (joinsession.go:727-746): one that has more inputs is published
  with them, unsigned, and one that lacks the inputs of others makes the next signature panic
  (749) or leaves them out;
- the result is sent, under the lock, to a member whose writer is gone
  (joinsession.go:835);
- a result taken just before a restart completes the restarted session, which has
  no transaction (joinsession.go:830);
- a second `C_MESSAGE_NOT_FOUND` leaves its reader reading with `mu` held
  (coinjoin.go:640); after `break` at joinsession.go:624 `mu` stays locked;
- two unparsable messages at once restart the session twice, the second time with
  its sender still in it; once the silent are dropped in the key exchange
  nothing starts the next round even if every key is in; the publisher elected for
  a silent one may be evicted by the same pass over the members.

In the simple mode: a call cancelled before its request was taken is queued all
the same; a client may be told of its session before that can be found, and be
refused; after a timeout or a departure nobody checks whether the rest are
complete; a session without `RandomIndex`, or with one member, never
advances (matcher.go:457), and a shutdown that waits for sessions waits for it for
ever; a signed transaction that ends early leaves its session answering
a call that has returned; a participant that left leaves nil entries in a shuffled
transaction, and encoding it panics; calls whose client went away block for ever.

## 6. Proofs

Checked by TLAPS, for every value of the constants.  The only assumptions are
`ConstantsOK` of each module and `PrimeOK` of `PolySolver`, which TLC evaluates in
its runs (for `JoinSession` it includes that there are finitely many peers).  Some
theorems about `JoinSession`, and those about `DcNet`, have a hypothesis on the
constants besides, since the code does not have the property without it; it is stated in
the theorem.  Each inductive invariant was
first checked with TLC on small instances.

`JoinSessionProofs` (any peers, misuses and number of them, with or without timers
and server-side publication):

- `Typed`: `Spec => []TypeOK`.  One lemma per goroutine, one step per action;
  updates of the session record have lemmas of their own.
- `RoundDataHolds`: `Spec => []RoundData`.  In DcXor every member's exponential
  vector is there, in TxInput also its xor vector, and so on up to TxPublish.

`RoundData` is not inductive: a message is admitted by a reader in one state and
handled by run in another, and a broadcast fixes the state it ends in before its
first send.  The inductive invariant `RoundInv` (`RoundInvHolds`) adds

- `UnderWay`: a message under way is from this life of the session or an earlier
  one, and if from this one, the data that was needed to admit it is still there;
- `Ahead`: while run broadcasts, the data for the state it will set is there;
- `Evicting`: the pass over the members at a publisher's timeout happens in TxPublish;
- `Locked`: whoever broadcasts holds `mu`, so no other goroutine restarts the
  session in between (except after run's exit, which may unlock a mutex that is
  not its own, and after which run sets no state any more).

Every step then either `Grows` the session (same life; members only leave; data is
only added) or has `Renewed` it (next life, key exchange, which needs no data).

Also there, and as unconditional as that:

- `PublishedIsSignedHolds`: the transaction handed out is signed by the owners of
  all its inputs; only inputs that a signer has added to it (`Added`) have no
  signature.  An input of a peer that did not sign is not among them: what
  the first signer leaves out is missing from the transaction.
- `PublisherPresentHolds`: the peer it is handed to is a member.

The danger is a member that is removed, without a restart, between its inputs and
its signature.  After the key exchange, in which nobody has inputs yet, one that
has not signed is removed that way only for a bad public key, which may come to be
handled late.
The inductive invariant `PublishInv` says that of a peer whose key
is still under way nothing else has come (`KeyFirst`, since its reader takes its
messages one by one), so that it has no inputs in the transaction (`InputsIn`:
their owners are members that mix, or have signed); that who answered the last round
has signed or is about to be removed (`SigsIn`); and that the first vector cannot
come in the key exchange of the same life (`Begun`).

The theorems below have hypotheses.  Each excludes the misuses with which the property
is false (they are among those of section 5; a hypothesis may exclude more than it
must), and the run that checks the property satisfies it: `JS_blame` satisfies `HonestSetting`, and `JS_reject` all four.  The
number of peers, of faulty ones among them and of their faults is arbitrary.

| theorem | hypothesis | what it excludes, and why |
|---|---|---|
| `HonestStayHolds` | `HonestSetting` | all that `KeySetting` excludes, since paddings that do not cancel make the replay blame anybody; wrong first vectors and wrong secret keys, which shift the slots of honest peers; the four messages after which `errm` stays set, so that the next honest vector is refused; timers, which remove the slow; fewer than two messages of honest peers, for which a vector is too short |
| `LockHolderRunsHolds` | `LockSetting` | all that `KeySetting` excludes, timers among it, and the misuses in `Blocking`: a connection that breaks or is closed (its reader or writer locks `mu` twice, or nobody takes the broadcast), an error or `break` with `mu` held (a secret key with which none can be computed among them), wrong data, which starts a search in which a second "not found" leaves its reader with `mu` |
| `KeysCompleteHolds` | `KeySetting` | timers, lost connections, keys that remove a single member or are sent twice: the count of keys is then not that of the members' keys |
| `CompletedIsSignedHolds`, `RoundsInOrderHolds` | `RejectSetting` | all but data that is refused by a restart without its sender; timers; fewer than two messages of honest peers |
| `RestartRemovesHolds` | `RejectSetting`, `Single` | two faulty peers besides, found out at once: the second restart removes somebody who has gone already |

- `JoinSessionPeersProofs`.  `KeyInv` ties the count of keys to the set of members
  whose keys are in (`Counted`, which needs that a key that is under way has
  not been counted, `KeyOnce`, and that no member leaves without a restart,
  `Staying`).  `KeysComplete` is proved while there is a member: if a restart
  removes everybody, `pushMaliciousInfo` leaves the state and count as they were.
  With it paddings cancel whenever there is a mix.  `HonestInv` says that honest members are there with
  goroutines, connection and data in order (`HonestThere`), that `run` accuses none
  of them and `errm` is not set (`Mild`), and that there are at least two messages
  whenever vectors are asked for or under way (`Mixed`; this is the reason for a
  lemma about products, `AtLeastTwo`).  `LockInv` says that `mu` is held through a
  broadcast and at no other time, that broadcasts go only to members (`Holding`),
  that a member's reader and writer are there (`Attended`), and that nothing
  under way makes a goroutine give up (`Peaceful`).
- `JoinSessionRoundsProofs` uses all of these invariants.  `OrderInv` adds that a
  message under way is one that the session still waits for, if it is of this life
  of the session (`InTime`), that a broadcast ends in the state it began in or
  the next (`Turn`), that nobody is accused once all have signed (`Pushes`), and
  that only members are listened to (`Closed`).  `Culprits` adds, for one faulty
  peer, that whoever is accused is still there.

`DiceMixProofs`: `Typed`, `TimerRunsHolds`, `GoneAreNotPutHolds`, and `MatchesHolds`, that
the queue implements `Matching`.  That nobody is matched twice needs where a peer
can be: `Received` (a peer that was not added yet is nowhere), `Joined` (the
session being made is a part of the queue, which still has enough peers), `Apart` (nobody in the queue is in a started session) and `Settled` (a
reader that is done with the queue has taken its peer out, or the peer has a
session).  A step of `DiceMix` is then `Arrive`, `GoAway`, `Withdraw`, or, at
`StartSession`, `Match` of all that wait; the rest stutters.

`TicketJoinerProofs`: `Typed`, `AnswersAreAwaitedHolds` and `MatchesHolds`.  The invariant
says that who has not called is nowhere (`Called`), that while `Run` answers, those
answered and those to be answered are just the ones waiting (`Answering`), and that
a complete session shares nobody with the queue (`Apart`); that a session smaller
than `MinParticipants` means somebody has left is a part of `Answering`.

`SplitTxSessionProofs`: `Typed`, `OwnSlotsHolds` (for any number of slots, any permutation,
with departures at any time), `AnswersAreAwaitedHolds`, `PublishedIsSignedHolds` and
`StepsTogetherHolds`, that the session implements `Rendezvous`.  Slots are handled
by two lemmas, for what is appended (`AppendOwns`) and for what is permuted
(`ShuffleOwns`, which uses that the permutation is a bijection).  The invariant
ties each call to what the session has recorded of it: nobody is about to send a
part that was sent (`SentOnce`), a member that was answered shows that all parts are
in (`AnsweredTogether`), all parts are in while the session answers
(`AnswersInStep`), the slots of whoever signed are signed (`Signatures`), and until a
publisher is picked enough members are left to answer (`OnePublisher`).

`PolySolverProofs` has no state.  It proves, for every prime and every number of
messages that `solve_poly` accepts, and citing nothing but the definition of a prime:

- `SolverComplete`: from the power sums of any messages, `GetRoots` returns these
  messages.
- `SolverSound`: whatever `GetRoots` returns as roots has the power sums it was given.

The sums of the model are folds over finite sets; a lemma about finite sets
(`SetInduction`) and one about intervals (`Counting`) stand in for the induction
rules.  `f[i]` of a recursive function is got at by showing that a function with its
equation exists (`PowerExists`, `HornerExists`, `ProductExists`,
`CoefficientsExist`).  The argument is then the usual one:

1. `1, ..., Prime - 1` have inverses (`Invertible`), so there are no zero divisors,
   and polynomials of degree below `n` that agree in `n` points have the same
   coefficients (`Zeros`, `Agree`).
2. A product of linear factors has coefficients (`ExpandsAll`), and these meet
   Newton's identities with the power sums of its roots, as integers (`NewtonExact`).
   `Coefficients`, in the indices of the code, meet them modulo `Prime` with the
   sums that were given (`CoefficientsNewton`).
3. Below `Prime` the identities determine the coefficients from the sums
   (`SameCoefficients`, which divides by `j`) and the sums from the coefficients
   (`SamePowers`).  So the sums are the power sums of `r` exactly if the solver's
   polynomial is the product of the factors of `r` (`FactorsOfSums`).
4. A product of fewer than `Prime` linear factors determines its roots but for their
   order (`SameRoots`: the largest is the same, and what is left agrees everywhere
   but there, hence everywhere).

`DcNetProofs`: all four properties of `DC_mix`, for any number of peers with any
numbers of messages, any prime, any paddings, and one deviant with any first vector,
complaint and key: `SolverIsRightHolds`, `HonestMixHolds`, `SomebodyIsBlamedHolds`,
`HonestAreNotBlamedHolds`.  The hypothesis `Sizes` is `2 <= TotalMsg <= 1000` and
`TotalMsg < Prime`: outside of it `solve_poly` refuses its input
(solverflint.cpp:23-50), and the code has a mix of honest peers replayed.  The inductive
invariant `IInv` is

- `Given`: what was chosen at the start stays, and an honest vector is the padded one;
- `Rounds`: once the exponential round is over, `roots` is what the solver makes of
  the sum of the vectors;
- `Vectors`: no xor vector is there, or some are, or all are and are combined, each
  in its states; those that are there are honest but for the deviant's, and
  an honest one was sent by a peer that found its hashes;
- `Keys`: the padding the server takes off an honest peer's vector is the one it added;
- `Reasons`: secret keys were asked for because the solver failed, a peer missed
  its hash, or it missed its script, if it was honest; and `blamed` is what the
  replay computed.

None of the properties is inductive: a replay looks at the vectors and at why it
was begun, both long past.  That paddings cancel is `TotalAntisymmetric`, and `XorAll`
likewise for scripts.  For `SomebodyIsBlamed`: if no key and no exponential
vector is wrong, every peer's is one of messages, the sum is that of all messages
together, the solver finds them, and nobody misses a hash; a missed script then
needs a wrong xor vector.  For `HonestAreNotBlamed`: an honest first vector is never
found wrong, so without honest second vectors there is nothing else to blame an
honest peer for.  With them, if all honest peers have found their hashes, what is
left of the roots is what the deviant's vector is made of (`RestOfRoots`), so that
the replay's list of all messages is `roots` (`AllMsgHashIs`), and an honest peer's
slots are where the replay looks for them.

## 7. What is not shown

- Every invariant and action property that a passing run checks is proved, those of
  the table in section 6 only under the hypotheses there.  Outside of these they fail or are not examined (the
  hypotheses were not made as weak as possible).
- Out of the prover's reach, and model-checked: liveness (`Finishes`, `Starts`,
  `Served`, `Stops`).
- The theorems about `DcNet` have one deviant.  Its first vector may be any (with
  `Errors` the whole field), but its second is wrong in one slot at most, and each
  peer sends one of each.  `HonestAreNotBlamed` has its conditions, without which it is
  false: that the code blames honest peers in the cases of section 5 is modelled in
  `DcNet` and `JoinSession`, not excluded.
- Not modelled: configuration, logging, listeners, signal handlers; the test
  client; `JoinQueue.Run`, which nothing calls; the third-party FLINT, MPIR and
  MPFR headers.  These headers, in C and C++, are nearly all of the repository's
  C code; the program itself is Go, and of its own C++ only `solverflint.cpp`
  exists, which `PolySolver` models.  Modelling headers of a library would say nothing
  about the server.
- `DcNet` has one life of a session and vectors of the announced length; what
  other lengths and a second replay's `TotalMsg` (joinsession.go:925) do is left
  to the crash that `JoinSession` allows (`ReplayPanics`).
- The time of timers: any that is started may expire at any later moment.
- Anonymity (that nobody learns whose output is whose) is not a property of a
  behaviour and is not treated.

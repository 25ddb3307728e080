-------------------------------- MODULE DcNet ------------------------------
(***************************************************************************)
(* What the server computes in one life of a join session (the arithmetic  *)
(* of coinjoin/joinsession.go that JoinSession leaves out): the combined   *)
(* DC-net vectors, their solution, and the replay that looks for whoever   *)
(* sent a wrong one.                                                       *)
(*                                                                         *)
(* A peer hides the power sums of its messages (hashes of its pkscripts)   *)
(* behind paddings it shares with each other peer, which cancel in the sum *)
(* of all vectors; from the solution it learns the slots of its messages,  *)
(* and sends its pkscripts in them behind paddings that cancel under xor.  *)
(* With the peers' secret keys the server can take the paddings off again. *)
(*                                                                         *)
(* Pkscripts and paddings of the second vector are sets of tokens under    *)
(* symmetric difference, and the hash of a pkscript is its one token: the  *)
(* hash is taken to have no collisions, and paddings to be independent.    *)
(* One peer may deviate: send wrong vectors, a wrong key, or a complaint   *)
(* without a reason.  Vectors have the announced length, and each peer     *)
(* sends one of each kind.                                                 *)
(***************************************************************************)
EXTENDS PolySolver

CONSTANTS
    NumMsg,     \* pkscripts of each peer, whose ids are 1, 2, ...
    Hashes,     \* the messages that occur
    Paddings,   \* the paddings of the first vector that occur
    Errors      \* what may be added to an element of a vector

Peer == DOMAIN NumMsg
NoPeer == 0

ASSUME ConstantsOK ==
    /\ NumMsg \in Seq(Nat \ {0})
    /\ Hashes \subseteq Field \ {0}
    /\ Paddings \subseteq Field
    /\ Errors \subseteq Field

VARIABLES
    msgs,       \* the messages of each peer
    padding,    \* the padding each pair shares
    deviant,    \* the peer that may deviate, or NoPeer
    expVector,  \* DcExpVector of each peer
    state,      \* JoinSession.State
    asked,      \* S_REVEAL_SECRET was sent
    roots,      \* what was sent as S_DC_EXP_VECTOR, in order
    xorVector,  \* DcXorVector of each peer, or <<>>
    scripts,    \* allPkScripts, sent as S_DC_XOR_VECTOR
    accuser,    \* the peer whose complaint made the server ask, or NoPeer
    taken,      \* the padding of each peer that follows from its key, or <<>>
    wrongKeys,  \* the peers whose revealed key is not that of their public key
    blamed,     \* maliciousIds
    replayed    \* the replay has been made

vars == <<msgs, padding, deviant, expVector, state, asked, roots, xorVector, scripts,
          accuser, taken, wrongKeys, blamed, replayed>>

\* joinSession.TotalMsg after its first computation, and the vectors' length.
TotalMsg == SumFunction(NumMsg)

Pairs == {pq \in Peer \X Peer : pq[1] < pq[2]}
Shared(p, q) == padding[IF p < q THEN <<p, q>> ELSE <<q, p>>]

\* Mutant: both ends of a pair add it.
AddsPadding(p, q) == TRUE

\* Of two peers the one with the greater id adds the shared padding, the other
\* subtracts it.
Adds(p, q) == p > q
Signed(p, q) == IF Adds(p, q) THEN Shared(p, q) ELSE Neg(Shared(p, q))
PaddingOf(p) == Sum([q \in Peer \ {p} |-> Signed(p, q)])

Padded(pad, v) == [i \in DOMAIN v |-> Plus(v[i], pad)]
Unpadded(pad, v) == [i \in DOMAIN v |-> Minus(v[i], pad)]

\* Each peer has its own messages, all different, in order.
Messages ==
    {m \in [Peer -> UNION {[1 .. NumMsg[p] -> Hashes] : p \in Peer}] :
        /\ \A p \in Peer : Len(m[p]) = NumMsg[p] /\ \A i \in 2 .. Len(m[p]) : m[p][i - 1] < m[p][i]
        /\ \A p, q \in Peer : p # q => Range(m[p]) \cap Range(m[q]) = {}}

Init ==
    /\ msgs \in Messages
    /\ padding \in [Pairs -> Paddings]
    /\ deviant \in Peer \cup {NoPeer}
    /\ \E err \in [1 .. TotalMsg -> Errors] :
         /\ deviant = NoPeer => \A i \in DOMAIN err : err[i] = 0
         /\ expVector = [p \in Peer |->
                LET honest == Padded(PaddingOf(p), PowerSums(msgs[p], TotalMsg))
                IN IF p = deviant THEN [i \in DOMAIN err |-> Plus(honest[i], err[i])] ELSE honest]
    /\ state = "DcExponential"
    /\ asked = FALSE
    /\ roots = <<>>
    /\ xorVector = [p \in Peer |-> <<>>]
    /\ scripts = <<>>
    /\ accuser = NoPeer
    /\ taken = <<>>
    /\ wrongKeys = {}
    /\ blamed = {}
    /\ replayed = FALSE

-----------------------------------------------------------------------------
(* The exponential round.                                                  *)

\* The values of a function on a finite set, as a sequence in order.
Sorted(f) ==
    LET n == Cardinality(DOMAIN f)
        order == CHOOSE b \in Bijection(1 .. n, DOMAIN f) :
                     \A i \in 2 .. n : f[b[i - 1]] <= f[b[i]]
    IN [i \in 1 .. n |-> f[order[i]]]

\* All elements of several sequences.
Together(seqs) ==
    LET place == UNION {{p} \X DOMAIN seqs[p] : p \in DOMAIN seqs}
    IN [pi \in place |-> seqs[pi[1]][pi[2]]]

DcCombine == [i \in 1 .. TotalMsg |-> Sum([p \in Peer |-> expVector[p][i]])]

\* All vectors are there: the roots are sent, or the secret keys asked for.
CombineExp ==
    /\ state = "DcExponential" /\ ~asked
    /\ LET solution == GetRoots(DcCombine)
       IN IF solution.ret # Solved
            THEN asked' = TRUE /\ UNCHANGED <<state, roots>>
            ELSE roots' = solution.roots /\ state' = "DcXor" /\ UNCHANGED asked
    /\ UNCHANGED <<msgs, padding, deviant, expVector, xorVector, scripts, accuser, taken,
                   wrongKeys, blamed, replayed>>

-----------------------------------------------------------------------------
(* The xor round.                                                          *)

Token(m) == {<<"script", m>>}
Random(p, q) == {IF p < q THEN <<"random", p, q>> ELSE <<"random", q, p>>}

\* Bit strings are combined by leaving what occurs an odd number of times.
Xor(a, b) == (a \ b) \cup (b \ a)
XorAll(f) == {t \in UNION Range(f) : Cardinality({p \in DOMAIN f : t \in f[p]}) % 2 = 1}

RandomOf(p) == XorAll([q \in Peer \ {p} |-> Random(p, q)])

HasFound(p) == Range(msgs[p]) \subseteq Range(roots)

\* The first slot of a message.
Slot(m) == CHOOSE i \in DOMAIN roots : roots[i] = m /\ \A j \in 1 .. i - 1 : roots[j] # m

HonestXor(p) ==
    [i \in DOMAIN roots |->
        Xor(RandomOf(p), UNION {Token(m) : m \in {x \in Range(msgs[p]) : Slot(x) = i}})]

\* The second vector a client sends, if it has found its hashes; the deviator's
\* may be wrong in one slot.
XorVectors(p) ==
    LET sent == IF HasFound(p) THEN HonestXor(p) ELSE [i \in DOMAIN roots |-> RandomOf(p)]
        junk == {{}, {<<"junk">>}} \cup {Token(m) : m \in Hashes}
    IN IF p = deviant THEN {[sent EXCEPT ![i] = Xor(@, t)] : i \in DOMAIN roots, t \in junk}
       ELSE {HonestXor(p)}

\* A second vector arrives, before or after a complaint of another peer; with the
\* last one the pkscripts are there.
SubmitXor(p) ==
    /\ roots # <<>> /\ ~replayed
    /\ xorVector[p] = <<>>
    /\ p # deviant => HasFound(p)
    /\ \E v \in XorVectors(p) : xorVector' = [xorVector EXCEPT ![p] = v]
    /\ IF \E q \in Peer : xorVector'[q] = <<>> THEN UNCHANGED <<state, scripts>>
       ELSE /\ scripts' = [i \in DOMAIN roots |-> XorAll([q \in Peer |-> xorVector'[q][i]])]
            /\ state' = "TxInput"
    /\ UNCHANGED <<msgs, padding, deviant, expVector, asked, roots, accuser, taken, wrongKeys,
                   blamed, replayed>>

Complain(p) ==
    /\ ~asked
    /\ asked' = TRUE
    /\ accuser' = p
    /\ state' = "RevealSecret"
    /\ UNCHANGED <<msgs, padding, deviant, expVector, roots, xorVector, scripts, taken,
                   wrongKeys, blamed, replayed>>

\* C_MSG_NOT_FOUND in either round: a client misses its hash, when others may
\* have sent their second vectors, or its script; the deviator only says so.
MissingInExp(p) ==
    /\ state = "DcXor"
    /\ p # deviant => ~HasFound(p)
    /\ Complain(p)

MissingInXor(p) ==
    /\ state = "TxInput"
    /\ p # deviant => \E m \in Range(msgs[p]) : scripts[Slot(m)] # Token(m)
    /\ Complain(p)

-----------------------------------------------------------------------------
(* The replay, when all have sent their secret keys.                       *)

\* The secret keys arrive.  The deviator's need not be that of its public key:
\* what the server then takes for its paddings is anything.
Reveal ==
    /\ asked /\ taken = <<>>
    /\ wrongKeys' \in SUBSET (Peer \cap {deviant})
    /\ \E pad \in Field :
         taken' = [p \in Peer |-> IF p \in wrongKeys' THEN pad ELSE PaddingOf(p)]
    /\ UNCHANGED <<msgs, padding, deviant, expVector, state, asked, roots, xorVector, scripts,
                   accuser, blamed, replayed>>

\* A peer's first NumMsg elements without paddings, and the messages in them.
OwnSums(p) == SubSeq(Unpadded(taken[p], expVector[p]), 1, NumMsg[p])
Recovered(p) ==
    IF NumMsg[p] = 1 THEN [ret |-> Solved, roots |-> OwnSums(p)] ELSE GetRoots(OwnSums(p))

\* Mutant: only what the messages are read from is compared.
FirstElements(p, v) == \E i \in 1 .. NumMsg[p] : expVector[p][i] # v[i]

\* The vector is rebuilt from the messages and compared.
Differs(p, v) == expVector[p] # v

WrongExp ==
    {p \in Peer : \/ Recovered(p).ret # Solved
                  \/ Differs(p, Padded(taken[p], PowerSums(Recovered(p).roots, TotalMsg)))}

\* The peers whose messages were recovered, and all the messages in order.
SlotInfos == {p \in Peer : Recovered(p).ret = Solved}
AllMsgHash == Sorted(Together([p \in SlotInfos |-> Recovered(p).roots]))

\* What the vector has in a slot but for paddings is the pkscript, or nothing.
\* (The random bits of a wrong key are wrong too, but its sender is blamed anyway.)
WrongXor ==
    LET all == AllMsgHash
    IN {p \in SlotInfos : \E i \in DOMAIN xorVector[p] :
          LET own == Xor(xorVector[p][i], RandomOf(p))
          IN IF i \in DOMAIN all /\ all[i] \in Range(Recovered(p).roots)
               THEN own # Token(all[i]) ELSE own # {}}

\* A wrong key is blamed on its sender, and the replay goes on with it.
Replay ==
    /\ taken # <<>> /\ ~replayed
    /\ blamed' = wrongKeys \cup WrongExp
                     \cup IF state \in {"TxInput", "RevealSecret"} THEN WrongXor ELSE {}
    /\ replayed' = TRUE
    /\ UNCHANGED <<msgs, padding, deviant, expVector, state, asked, roots, xorVector, scripts,
                   accuser, taken, wrongKeys>>

Next ==
    \/ CombineExp
    \/ \E p \in Peer : SubmitXor(p) \/ MissingInExp(p) \/ MissingInXor(p)
    \/ Reveal
    \/ Replay

Spec == Init /\ [][Next]_vars

-----------------------------------------------------------------------------
(* Properties.                                                             *)

\* The solver is right: what it returns as roots has the power sums it was
\* given, and when it finds none there are no messages that have them (solve_poly).
SolverIsRight ==
    /\ roots # <<>> => PowerSums(roots, TotalMsg) = DcCombine
    /\ state = "DcExponential" /\ asked =>
         \A ms \in Ordered(TotalMsg) : PowerSums(ms, TotalMsg) # DcCombine

AllMessages == Sorted(Together(msgs))

\* If nobody deviates, the paddings cancel and the messages of all come out,
\* then their pkscripts in the slots of their hashes, and nobody complains.
HonestMix ==
    deviant = NoPeer =>
        /\ ~asked
        /\ roots # <<>> => roots = AllMessages
        /\ scripts # <<>> => \A i \in DOMAIN roots : scripts[i] = Token(roots[i])

\* Only the deviator complains without a reason.
FalseAlarm == accuser # NoPeer /\ accuser = deviant

\* Whenever there was a reason for a replay (RevealSecret), it finds somebody,
\* whatever second vectors and keys have come in by then.
SomebodyIsBlamed == replayed /\ ~FalseAlarm => blamed # {}

Honest == Peer \ {deviant}

\* What the replay finds the slots from is what the clients were told.
SameSlots == wrongKeys = {} /\ (\A p \in Honest : HasFound(p)) /\ IsInjective(AllMsgHash)

\* The replay blames nobody who did as the protocol asks, as long as no honest
\* second vector is in, or the keys are right, no honest peer misses its hash and
\* no message occurs twice.  (Otherwise it does: the hashes it reads out of a wrong
\* vector, or with a wrong key, shift the slots of honest peers.)
HonestAreNotBlamed ==
    replayed /\ ((\A p \in Honest : xorVector[p] = <<>>) \/ SameSlots) =>
        blamed \subseteq {deviant}
=============================================================================

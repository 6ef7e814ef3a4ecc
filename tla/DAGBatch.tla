------------------------------ MODULE DAGBatch ------------------------------
(***************************************************************************)
(* contracts/src/remainder: batched DAG verification (RemainderVerifier.sol *)
(* with DAGBatchVerifier.sol), which spreads over many transactions the    *)
(* checks verifyDAGProof makes in one, and keeps a session in between.     *)
(*                                                                         *)
(* A check is a value: which layer, eval group or public claim it is about *)
(* and which bindings, input proof or public claim of the supplied proof   *)
(* it uses; `checked' is the history of the checks a session has made.     *)
(* Every call is given a proof, public inputs and generators of its own,   *)
(* its arguments, and makes its checks with them; `supplied' is the        *)
(* history of the arguments.  An action is a call whose checks all         *)
(* succeed; one of which a check fails reverts and changes nothing.  Left  *)
(* out: the field and curve arithmetic and the sponge values, so that the  *)
(* model does not tell which arguments pass which checks, and in           *)
(* particular not whether a session passes with those of two proofs.       *)
(***************************************************************************)
EXTENDS Integers, FiniteSets, SequencesExt, Totals

CONSTANTS
    Senders, Circuits,
    Descriptions,               \* DAGCircuitDescriptions that may be registered
    Generators,                 \* Pedersen generators, which stand for their hashes
    Arguments,                  \* what a call may be given: a proof and generators
    LAYERS_PER_BATCH, GROUPS_PER_FINALIZE_BATCH,
    Nothing,                    \* the zero value of a slot
    (* bounds of the model *)
    MaxBlock, MaxStarts, MaxAdmin

Session == [verifier : Senders, nextBatchIdx : Nat, totalBatches : Nat, finalizeInputIdx : Nat,
            finalizeGroupsDone : Nat, finalized : BOOLEAN]

(* A description: the number of compute layers, for each input layer       *)
(* whether it is committed and how many atoms (claims) target it, and the  *)
(* hash of the generators, if any.  Arguments: the number of sumcheck      *)
(* messages of each layer in the proof, and the generators, if any.        *)
ASSUME DAGAssumption ==
    /\ {LAYERS_PER_BATCH, GROUPS_PER_FINALIZE_BATCH, MaxBlock} \subseteq Nat \ {0}
    /\ {MaxStarts, MaxAdmin} \subseteq Nat
    /\ Descriptions \subseteq [numComputeLayers : Nat, inputs : Seq([committed : BOOLEAN, claims : Nat]),
                              gensHash : Generators \cup {Nothing}]
    /\ Arguments \subseteq [messages : Seq(Nat), gens : Generators \cup {Nothing}]
    /\ Nothing \notin Descriptions \cup Session

VARIABLES
    block, paused,
    dagCircuits,                \* description of a registered circuit
    active,
    session,                    \* the session struct, by session id
    crossData,                  \* lengths of the three stored arrays, by session id
    extent,                     \* how far the slots of each array are in use, by session id
    checked,                    \* history: the checks made, by session id
    supplied,                   \* history: the arguments of the session's calls, by session id
    earlier,                    \* history: those of earlier sessions of the same id
    spent                       \* starts and admin calls so far (bounds)

registry == <<paused, dagCircuits, active>>
storage  == <<session, crossData, extent>>
history  == <<checked, supplied, earlier>>
vars == <<block, registry, storage, history, spent>>

SessionIds == Senders \X Circuits \X (1 .. MaxBlock)
CircuitOf(id) == id[2]

----------------------------------------------------------------------------
(* The checks, and the order verifyDAGProof makes them in *)

LayerCheck(i, known)    == [kind |-> "layer", at |-> i, item |-> 0, uses |-> known]
GroupCheck(i, g, proof) == [kind |-> "group", at |-> i, item |-> g, uses |-> proof]
ClaimCheck(i, c, claim) == [kind |-> "claim", at |-> i, item |-> c, uses |-> claim]

(* f(from) to f(to - 1): a for loop over [from, to).                       *)
ForRange(from, to, f(_)) == [k \in 1 .. to - from |-> f(from + k - 1)]

NumInputs(d) == Len(d.inputs)
Committed(d, i) == d.inputs[i + 1].committed
Claims(d, i) == d.inputs[i + 1].claims

(* Committed input layers, and claims on public ones, in [from, to).       *)
CommittedIn(d, from, to) == Cardinality({i \in from .. to - 1 : Committed(d, i)})
PublicClaimsIn(d, from, to) == Total([i \in {j \in from .. to - 1 : ~ Committed(d, j)} |-> Claims(d, i)])

(* verifyComputeLayers: layer i uses the bindings of the layers before it. *)
ComputeChecks(d) == ForRange(0, d.numComputeLayers, LAMBDA i : LayerCheck(i, i))

(* verifyInputLayers: every group of a committed layer is checked against  *)
(* that layer's proof, every claim on a public one against the next of the *)
(* public value claims.                                                    *)
InputChecks(d, i) ==
    IF Committed(d, i)
    THEN ForRange(0, Claims(d, i), LAMBDA g : GroupCheck(i, g, CommittedIn(d, 0, i)))
    ELSE ForRange(0, Claims(d, i), LAMBDA c : ClaimCheck(i, c, PublicClaimsIn(d, 0, i) + c))

OneShot(d) == ComputeChecks(d) \o FlattenSeq(ForRange(0, NumInputs(d), LAMBDA i : InputChecks(d, i)))

(* verifyDAGProof and startDAGBatchVerify compare the generators with the  *)
(* registered ones, when both are there.                                   *)
ValidGens(d, a) == d.gensHash = Nothing \/ a.gens = Nothing \/ a.gens = d.gensHash

(* A committed layer is checked from its first claim point on; it panics   *)
(* when there is none.                                                     *)
HasPoints(d, i) == Committed(d, i) => Claims(d, i) > 0
Verifiable(d) == \A i \in 0 .. NumInputs(d) - 1 : HasPoints(d, i)

----------------------------------------------------------------------------
(* DAGBatchVerifier *)

computeNumComputeBatches(n) == (n + LAYERS_PER_BATCH - 1) \div LAYERS_PER_BATCH

StartLayer(batchIdx) == batchIdx * LAYERS_PER_BATCH
EndLayer(batchIdx, n) == Min({StartLayer(batchIdx) + LAYERS_PER_BATCH, n})

(* Mutation: the block is not part of it.                                  *)
generateSessionId_withoutBlock(q, c) == <<q, c, 1>>
generateSessionId(q, c) == <<q, c, block>>

NewSession(q, d) ==
    [verifier |-> q, nextBatchIdx |-> 0, totalBatches |-> computeNumComputeBatches(d.numComputeLayers),
     finalizeInputIdx |-> 0, finalizeGroupsDone |-> 0, finalized |-> FALSE]

(* The arrays: the bindings of all layers so far, the offset at which each *)
(* layer's begin (after a 0), and the output challenges.                   *)
CrossBatchData == [layers : Nat, flat : Nat, challenges : Nat]
NoData == [layers |-> 0, flat |-> 0, challenges |-> 0]

(* _squeezeAndStoreInitial: one challenge for each message of the proof's  *)
(* first layer.                                                            *)
FirstData(a) == [layers |-> 0, flat |-> 0, challenges |-> a.messages[1]]

(* The bindings of the layers in [from, to): one for each message.         *)
BindingsIn(a, from, to) == Total([i \in from .. to - 1 |-> a.messages[i + 1]])

updateBindings(x, a, from, to) == [x EXCEPT !.layers = to, !.flat = @ + BindingsIn(a, from, to)]

(* storeCrossBatchData: _storeArray leaves what lies beyond the new length *)
(* in place, and _clearArray clears up to the length stored last.          *)
Longer(n, m) == Max({n, m})
StoreCrossData(id, x) ==
    /\ crossData' = [crossData EXCEPT ![id] = x]
    /\ extent' = [extent EXCEPT ![id] =
           [layers |-> Longer(@.layers, x.layers), flat |-> Longer(@.flat, x.flat),
            challenges |-> Longer(@.challenges, x.challenges)]]

Beyond(used, length) == IF used > length THEN used ELSE 0
ClearCrossData(id) ==
    /\ crossData' = [crossData EXCEPT ![id] = NoData]
    /\ extent' = [extent EXCEPT ![id] =
           [layers |-> Beyond(@.layers, crossData[id].layers), flat |-> Beyond(@.flat, crossData[id].flat),
            challenges |-> Beyond(@.challenges, crossData[id].challenges)]]

Init ==
    /\ block = 1 /\ paused = FALSE
    /\ dagCircuits = [c \in Circuits |-> Nothing] /\ active = {}
    /\ session = [id \in SessionIds |-> Nothing]
    /\ crossData = [id \in SessionIds |-> NoData] /\ extent = [id \in SessionIds |-> NoData]
    /\ checked = [id \in SessionIds |-> <<>>]
    /\ supplied = [id \in SessionIds |-> {}] /\ earlier = [id \in SessionIds |-> {}]
    /\ spent = [starts |-> 0, admin |-> 0]

NewBlock ==
    /\ block < MaxBlock
    /\ block' = block + 1
    /\ UNCHANGED <<registry, storage, history, spent>>

----------------------------------------------------------------------------
(* The admin *)

registerDAGCircuit(c, d) ==
    /\ ~ paused
    /\ dagCircuits[c] = Nothing
    /\ d.numComputeLayers > 0 /\ NumInputs(d) > 0
    /\ dagCircuits' = [dagCircuits EXCEPT ![c] = d]
    /\ active' = active \cup {c}
    /\ UNCHANGED <<block, paused, storage, history, spent>>

AdminCall ==
    /\ spent.admin < MaxAdmin
    /\ spent' = [spent EXCEPT !.admin = @ + 1]
    /\ UNCHANGED <<block, dagCircuits, storage, history>>

deactivateDAGCircuit(c) ==
    /\ ~ paused /\ c \in active
    /\ active' = active \ {c}
    /\ UNCHANGED paused
    /\ AdminCall

reactivateDAGCircuit(c) ==
    /\ ~ paused /\ dagCircuits[c] # Nothing /\ c \notin active
    /\ active' = active \cup {c}
    /\ UNCHANGED <<block, paused, dagCircuits, storage, history, spent>>

pause ==
    /\ ~ paused
    /\ paused' = TRUE
    /\ UNCHANGED active
    /\ AdminCall

unpause ==
    /\ paused
    /\ paused' = FALSE
    /\ UNCHANGED <<block, dagCircuits, active, storage, history, spent>>

----------------------------------------------------------------------------
(* Sessions *)

MayStart(c, a) == ~ paused /\ c \in active /\ ValidGens(dagCircuits[c], a) /\ a.messages # <<>>

(* A session that is there, under way or not, is overwritten.              *)
startDAGBatchVerify(q, c, a) ==
    /\ spent.starts < MaxStarts
    /\ MayStart(c, a)
    /\ LET id == generateSessionId(q, c)
       IN  /\ session' = [session EXCEPT ![id] = NewSession(q, dagCircuits[c])]
           /\ StoreCrossData(id, FirstData(a))
           /\ checked' = [checked EXCEPT ![id] = <<>>]
           /\ earlier' = [earlier EXCEPT ![id] = @ \cup supplied[id]]
           /\ supplied' = [supplied EXCEPT ![id] = {a}]
    /\ spent' = [spent EXCEPT !.starts = @ + 1]
    /\ UNCHANGED <<block, registry>>

(* The session is there, it is the caller's and it is not finalized.       *)
OpenSession(q, id) ==
    /\ session[id] # Nothing /\ session[id].verifier = q
    /\ ~ session[id].finalized

(* The checks are made with what this call was given: nothing in the       *)
(* session but the transcript ties it to what earlier calls were given,    *)
(* and the generators are not looked at again.                             *)
Check(id, checks, a) ==
    /\ checked' = [checked EXCEPT ![id] = @ \o checks]
    /\ supplied' = [supplied EXCEPT ![id] = @ \cup {a}]
    /\ UNCHANGED earlier

BatchesLeft(s) == s.nextBatchIdx < s.totalBatches

LastLayer(id) == EndLayer(session[id].nextBatchIdx, dagCircuits[CircuitOf(id)].numComputeLayers)

(* A proof with too few layers makes the call panic.                       *)
MayContinue(q, id, a) ==
    ~ paused /\ OpenSession(q, id) /\ BatchesLeft(session[id]) /\ LastLayer(id) <= Len(a.messages)

continueDAGBatchVerify(q, id, a) ==
    LET start == StartLayer(session[id].nextBatchIdx)
        end == LastLayer(id)
    IN  /\ MayContinue(q, id, a)
        /\ Check(id, ForRange(start, end, LAMBDA i : LayerCheck(i, crossData[id].layers + i - start)), a)
        /\ StoreCrossData(id, updateBindings(crossData[id], a, start, end))
        /\ session' = [session EXCEPT ![id].nextBatchIdx = @ + 1]
        /\ UNCHANGED <<block, registry, spent>>

(* Mutation: the proofs are counted from the first one again in every call. *)
countCommittedBefore_none(d, i) == 0
countCommittedBefore(d, i) == CommittedIn(d, 0, i)
countPublicClaimsBefore(d, i) == PublicClaimsIn(d, 0, i)

EndGroup(d, i, done) == Min({done + GROUPS_PER_FINALIZE_BATCH, Claims(d, i)})

(* Mutation: a layer whose last group was just checked waits for another   *)
(* call.                                                                   *)
GroupsRemain_atTheEnd(d, i, done) == Committed(d, i) /\ EndGroup(d, i, done) <= Claims(d, i)
GroupsRemain(d, i, done) == Committed(d, i) /\ EndGroup(d, i, done) < Claims(d, i)

(* _processInputLayerLoop goes on from input layer finalizeInputIdx, of    *)
(* which finalizeGroupsDone groups were checked before, and stops at the   *)
(* first committed layer that has groups left after this call's share.     *)
DoneBefore(s, i) == IF i = s.finalizeInputIdx THEN s.finalizeGroupsDone ELSE 0

StopsAt(d, s) ==
    Min({i \in s.finalizeInputIdx .. NumInputs(d) - 1 : GroupsRemain(d, i, DoneBefore(s, i))} \cup {NumInputs(d)})

(* The two counters of the loop, when it has come to layer i.              *)
dagInputIdx(d, first, i) == countCommittedBefore(d, first) + CommittedIn(d, first, i)
pubClaimIdx(d, first, i) == countPublicClaimsBefore(d, first) + PublicClaimsIn(d, first, i)

GroupsUpto(d, s, i, end) ==
    ForRange(DoneBefore(s, i), end, LAMBDA g : GroupCheck(i, g, dagInputIdx(d, s.finalizeInputIdx, i)))

RestOf(d, s, i) ==
    IF Committed(d, i)
    THEN GroupsUpto(d, s, i, Claims(d, i))
    ELSE ForRange(0, Claims(d, i), LAMBDA c : ClaimCheck(i, c, pubClaimIdx(d, s.finalizeInputIdx, i) + c))

MayFinalize(q, id) ==
    /\ ~ paused /\ OpenSession(q, id)
    /\ ~ BatchesLeft(session[id])
    /\ LET s == session[id]
           d == dagCircuits[CircuitOf(id)]
       IN  \A i \in s.finalizeInputIdx .. StopsAt(d, s) - 1 : HasPoints(d, i)

finalizeDAGBatchVerify(q, id, a) ==
    LET s == session[id]
        d == dagCircuits[CircuitOf(id)]
        stop == StopsAt(d, s)
        finalized == stop = NumInputs(d)
        endGroup == EndGroup(d, stop, DoneBefore(s, stop))
    IN  /\ MayFinalize(q, id)
        /\ Check(id, FlattenSeq(ForRange(s.finalizeInputIdx, stop, LAMBDA i : RestOf(d, s, i)))
                        \o (IF finalized THEN <<>> ELSE GroupsUpto(d, s, stop, endGroup)), a)
        /\ session' = [session EXCEPT ![id].finalizeInputIdx = stop,
                                      ![id].finalizeGroupsDone = IF finalized THEN 0 ELSE endGroup,
                                      ![id].finalized = finalized]
        /\ UNCHANGED <<block, registry, crossData, extent, spent>>

(* Mutation: an unfinished session may be cleaned up.                      *)
MayCleanUp_any(id) == TRUE
MayCleanUp(id) == session[id].finalized

cleanupDAGBatchSession(q, id) ==
    /\ session[id] # Nothing /\ MayCleanUp(id)
    /\ session[id].verifier = q
    /\ session' = [session EXCEPT ![id] = Nothing]
    /\ ClearCrossData(id)
    /\ checked' = [checked EXCEPT ![id] = <<>>]
    /\ UNCHANGED <<block, registry, supplied, earlier, spent>>

----------------------------------------------------------------------------
Next ==
    \/ NewBlock \/ pause \/ unpause
    \/ \E c \in Circuits :
          \/ \E d \in Descriptions : registerDAGCircuit(c, d)
          \/ deactivateDAGCircuit(c) \/ reactivateDAGCircuit(c)
    \/ \E q \in Senders :
          \/ \E c \in Circuits, a \in Arguments : startDAGBatchVerify(q, c, a)
          \/ \E id \in SessionIds :
                \/ \E a \in Arguments : continueDAGBatchVerify(q, id, a) \/ finalizeDAGBatchVerify(q, id, a)
                \/ cleanupDAGBatchSession(q, id)

Spec == Init /\ [][Next]_vars

(* Fairness: the owner of a session goes on calling with a valid proof.    *)
FairSpec ==
    /\ Spec
    /\ \A id \in SessionIds :
         WF_vars(\E a \in Arguments : continueDAGBatchVerify(id[1], id, a) \/ finalizeDAGBatchVerify(id[1], id, a))

----------------------------------------------------------------------------
(* Every variable has its type; a session has not done more batches than   *)
(* it has.                                                                 *)
TypeOK ==
    /\ block \in 1 .. MaxBlock /\ paused \in BOOLEAN
    /\ dagCircuits \in [Circuits -> Descriptions \cup {Nothing}]
    /\ active \subseteq {c \in Circuits : dagCircuits[c] # Nothing}
    /\ session \in [SessionIds -> Session \cup {Nothing}]
    /\ \A id \in SessionIds : session[id] # Nothing => session[id].nextBatchIdx <= session[id].totalBatches
    /\ crossData \in [SessionIds -> CrossBatchData] /\ extent \in [SessionIds -> CrossBatchData]
    /\ supplied \in [SessionIds -> SUBSET Arguments] /\ earlier \in [SessionIds -> SUBSET Arguments]

(* However the calls of several sessions, restarts and pauses interleave,  *)
(* a session has made the first checks of verifyDAGProof, in its order and *)
(* with the bindings, input proofs and claims of the same numbers, and a   *)
(* finalized one has made all of them, for a circuit that verifyDAGProof   *)
(* can verify.  When all of its calls were given the same arguments, which *)
(* no code requires, these are the checks verifyDAGProof makes of them,    *)
(* and the generators are the registered ones.  (docs/                     *)
(* DAG_BATCH_SECURITY.md, section 2: the transcript "matches the           *)
(* single-transaction verification path exactly".)                         *)
MatchesOneShot ==
    TypeOK /\ \A id \in SessionIds :
        session[id] # Nothing =>
            LET d == dagCircuits[CircuitOf(id)]
                whole == OneShot(d)
            IN  /\ IsPrefix(checked[id], whole)
                /\ session[id].finalized => checked[id] = whole /\ Verifiable(d)
                /\ \A a \in Arguments : supplied[id] = {a} => ValidGens(d, a)

(* Cleaning up leaves no slot of the three arrays in use, though a restart *)
(* in the same block shortens them without clearing what they held, unless *)
(* the sessions of the id were given different arguments: the lists of the *)
(* last proof may be shorter.                                              *)
NoStorageLeftBehind ==
    \A id \in SessionIds :
        /\ session[id] = Nothing
        /\ earlier[id] = {} \/ \E a \in Arguments : earlier[id] \cup supplied[id] = {a}
        => extent[id] = NoData

(* "NO REPLAY ACROSS BLOCKS": once its block is over, a session never      *)
(* loses a check it has made other than by its cleanup, and never comes    *)
(* back after that.                                                        *)
NoReplayAcrossBlocks ==
    [][\A id \in SessionIds : id[3] < block =>
          /\ session[id] = Nothing => session'[id] = Nothing
          /\ session'[id] # Nothing => IsPrefix(checked[id], checked'[id])]_vars

(* There are arguments in A with which a session for d can get through.    *)
CanFinish(d, A) == Verifiable(d) /\ \E a \in A : d.numComputeLayers <= Len(a.messages)

(* A caller with a valid proof gets through: its session is finalized in   *)
(* finitely many calls, whatever the circuit, unless verifyDAGProof could  *)
(* not verify it either or the contract stays paused.                      *)
SessionsComplete ==
    \A id \in SessionIds :
        <>[]~paused => (session[id] # Nothing /\ CanFinish(dagCircuits[CircuitOf(id)], Arguments)
                          ~> (session[id] # Nothing /\ session[id].finalized))
============================================================================

---------------------------- MODULE BatchClient -----------------------------
(***************************************************************************)
(* sdk/typescript, batch-verifier.ts: a client that drives one batched DAG *)
(* verification (module DAGBatch) through a node that may be slow.         *)
(*                                                                         *)
(* verifyBatch sends the transactions of a session one after the other;    *)
(* sendTransaction waits for the receipt and sends the same call again     *)
(* when the wait ends with a transient error, although the first one is    *)
(* still in the mempool or already mined.  After an error or cancel() the  *)
(* application calls resumeBatch, which goes on from the session on chain. *)
(* Left out: progress events and gas estimates.                            *)
(***************************************************************************)
EXTENDS DAGBatch

CONSTANTS
    Me,                         \* the client's account
    MyArguments,                \* the proof and generators of all of its calls
    maxRetries,
    SkipCleanup,                \* values of options.skipCleanup
    (* bounds of the model *)
    MaxErrors, MaxCancels

ASSUME ClientAssumption ==
    /\ Me \in Senders /\ MyArguments \in Arguments
    /\ {maxRetries, MaxErrors, MaxCancels} \subseteq Nat
    /\ SkipCleanup \subseteq BOOLEAN

VARIABLES
    phase,                      \* what the client is doing
    aborted, skipCleanup,
    sessionId, circuit,
    i, totalBatches,            \* of the loop over the continue calls
    attempt,
    receipt,                    \* of the transaction: none, unsent, pending, ok, reverted
    logs,                       \* the session named by the event in that receipt
    mempool,                    \* calls sent and not mined, oldest first; the last one is waited
                                \* for while receipt = "pending"
    verified,                   \* history: sessions that were finalized
    faults                      \* errors and cancels so far (bounds)

clientVars == <<phase, aborted, skipCleanup, sessionId, circuit, i, totalBatches, attempt>>
txVars == <<receipt, logs, mempool, verified>>
allVars == <<vars, clientVars, txVars, faults>>

Working == {"start", "continue", "finalize", "cleanup"}
Stopped == {"failed", "cancelled"}

ClientInit ==
    /\ Init
    /\ phase = "idle" /\ aborted = FALSE /\ skipCleanup \in SkipCleanup
    /\ sessionId = Nothing /\ circuit = Nothing
    /\ i = 0 /\ totalBatches = 0 /\ attempt = 0
    /\ receipt = "none" /\ logs = Nothing /\ mempool = <<>>
    /\ verified = {} /\ faults = [errors |-> 0, cancels |-> 0]

----------------------------------------------------------------------------
(* The chain *)

(* What a call does when it is mined, and whether it can.                  *)
Execute(call) ==
    \/ call.fn = "start" /\ startDAGBatchVerify(Me, call.arg, MyArguments)
    \/ call.fn = "continue" /\ continueDAGBatchVerify(Me, call.arg, MyArguments)
    \/ call.fn = "finalize" /\ finalizeDAGBatchVerify(Me, call.arg, MyArguments)
    \/ call.fn = "cleanup" /\ cleanupDAGBatchSession(Me, call.arg)

Succeeds(call) ==
    CASE call.fn = "start" -> MayStart(call.arg, MyArguments)
      [] call.fn = "continue" -> MayContinue(Me, call.arg, MyArguments)
      [] call.fn = "finalize" -> MayFinalize(Me, call.arg)
      [] call.fn = "cleanup" -> session[call.arg] # Nothing /\ MayCleanUp(call.arg)

(* The receipt of a start names the session it has created.                *)
Mined(status) ==
    /\ mempool' = Tail(mempool)
    /\ receipt' = IF Len(mempool) = 1 /\ receipt = "pending" THEN status ELSE receipt
    /\ logs' = IF Head(mempool).fn = "start" THEN generateSessionId(Me, Head(mempool).arg) ELSE Nothing
    /\ UNCHANGED <<clientVars, faults>>

MineOk ==
    /\ mempool # <<>> /\ Succeeds(Head(mempool))
    /\ Execute(Head(mempool))
    /\ verified' = verified \cup {id \in SessionIds : session'[id] # Nothing /\ session'[id].finalized}
    /\ Mined("ok")

MineReverted ==
    /\ mempool # <<>> /\ ~ Succeeds(Head(mempool))
    /\ Mined("reverted")
    /\ UNCHANGED <<vars, verified>>

----------------------------------------------------------------------------
(* The client *)

Call(fn) == [fn |-> fn, arg |-> IF fn = "start" THEN circuit ELSE sessionId]

(* sendTransaction: the call is handed to the node, and its receipt waited *)
(* for.                                                                    *)
sendTransaction ==
    /\ phase \in Working /\ receipt = "unsent"
    /\ mempool' = Append(mempool, Call(phase))
    /\ receipt' = "pending"
    /\ UNCHANGED <<vars, clientVars, logs, verified, faults>>

(* verifyBatch, when the circuit is active.                                *)
VerifyBatch(c) ==
    /\ phase \in {"idle"} \cup (IF sessionId = Nothing THEN Stopped ELSE {})
    /\ c \in active /\ spent.starts + Len(mempool) < MaxStarts
    /\ phase' = "start" /\ aborted' = FALSE /\ circuit' = c
    /\ attempt' = 0 /\ receipt' = "unsent"
    /\ UNCHANGED <<vars, skipCleanup, sessionId, i, totalBatches, logs, mempool, verified, faults>>

(* Mutation: it starts over with the first batch.                          *)
FirstBatch_zero(s) == 0
FirstBatch(s) == s.nextBatchIdx

(* resumeBatch: the session's progress is read from the chain.             *)
ResumeBatch ==
    /\ phase \in Stopped /\ sessionId # Nothing
    /\ session[sessionId] # Nothing
    /\ LET s == session[sessionId]
       IN  /\ i' = FirstBatch(s) /\ totalBatches' = s.totalBatches
           /\ phase' = IF s.finalized /\ ~ FirstBatch(s) < s.totalBatches THEN "finalized" ELSE "loop"
    /\ aborted' = FALSE
    /\ UNCHANGED <<vars, skipCleanup, sessionId, circuit, attempt, txVars, faults>>

(* The heads of the two loops, where cancel() takes effect, and the calls  *)
(* they send.                                                              *)
NextCall ==
    /\ phase = "loop"
    /\ \/ /\ aborted
          /\ phase' = "cancelled"
          /\ UNCHANGED <<attempt, receipt>>
       \/ /\ ~ aborted
          /\ phase' = IF i < totalBatches THEN "continue" ELSE "finalize"
          /\ attempt' = 0 /\ receipt' = "unsent"
    /\ UNCHANGED <<vars, aborted, skipCleanup, sessionId, circuit, i, totalBatches, logs, mempool, verified,
                   faults>>

(* The verification is finished; the session is cleaned up on request.     *)
Conclude ==
    /\ phase = "finalized"
    /\ \/ /\ skipCleanup
          /\ phase' = "done"
          /\ UNCHANGED <<attempt, receipt>>
       \/ /\ ~ skipCleanup
          /\ phase' = "cleanup"
          /\ attempt' = 0 /\ receipt' = "unsent"
    /\ UNCHANGED <<vars, aborted, skipCleanup, sessionId, circuit, i, totalBatches, logs, mempool, verified,
                   faults>>

(* Mutation: a finalize call that succeeds is taken to be the last.        *)
IsFinalized_assumed == TRUE
(* getSession: of a session that is gone every field is zero.              *)
IsFinalized == session[sessionId] # Nothing /\ session[sessionId].finalized

(* sendTransaction returns the receipt.                                    *)
ReceiptOk ==
    /\ phase \in Working /\ receipt = "ok"
    /\ receipt' = "none"
    /\ \/ /\ phase = "start"
          /\ sessionId' = logs
          /\ phase' = "loop" /\ i' = 0
          /\ totalBatches' = IF session[logs] = Nothing THEN 0 ELSE session[logs].totalBatches
       \/ /\ phase = "continue"
          /\ phase' = "loop" /\ i' = i + 1 /\ UNCHANGED <<sessionId, totalBatches>>
       \/ /\ phase = "finalize"
          /\ phase' = IF IsFinalized THEN "finalized" ELSE "loop"
          /\ UNCHANGED <<sessionId, i, totalBatches>>
       \/ /\ phase = "cleanup"
          /\ phase' = "done" /\ UNCHANGED <<sessionId, i, totalBatches>>
    /\ UNCHANGED <<vars, aborted, skipCleanup, circuit, attempt, logs, mempool, verified, faults>>

(* "Transaction reverted" is not a transient error: the client throws.     *)
ReceiptReverted ==
    /\ phase \in Working /\ receipt = "reverted"
    /\ receipt' = "none" /\ phase' = "failed"
    /\ UNCHANGED <<vars, aborted, skipCleanup, sessionId, circuit, i, totalBatches, attempt, logs, mempool,
                   verified, faults>>

MayRetry == attempt < maxRetries

(* Sending the call, or the wait for its receipt, ends with an error.  A   *)
(* transient one makes the client send it again while retries are left;    *)
(* any other is thrown at once.                                            *)
SendError ==
    /\ phase \in Working /\ receipt \in {"unsent", "pending", "ok", "reverted"}
    /\ faults.errors < MaxErrors
    /\ faults' = [faults EXCEPT !.errors = @ + 1]
    /\ \/ /\ MayRetry
          /\ phase = "start" => spent.starts + Len(mempool) < MaxStarts
          /\ attempt' = attempt + 1 /\ receipt' = "unsent"
          /\ UNCHANGED phase
       \/ /\ phase' = "failed" /\ receipt' = "none"
          /\ UNCHANGED attempt
    /\ UNCHANGED <<vars, aborted, skipCleanup, sessionId, circuit, i, totalBatches, logs, mempool, verified>>

Cancel ==
    /\ phase \in Working \cup {"loop", "finalized"} /\ ~ aborted
    /\ faults.cancels < MaxCancels
    /\ faults' = [faults EXCEPT !.cancels = @ + 1]
    /\ aborted' = TRUE
    /\ UNCHANGED <<vars, phase, skipCleanup, sessionId, circuit, i, totalBatches, attempt, txVars>>

----------------------------------------------------------------------------
Others ==
    /\ \/ NewBlock \/ pause \/ unpause
       \/ \E c \in Circuits : \E d \in Descriptions : registerDAGCircuit(c, d)
    /\ UNCHANGED <<clientVars, txVars, faults>>

Steps == NextCall \/ sendTransaction \/ Conclude \/ ReceiptOk \/ ReceiptReverted

ClientNext ==
    \/ Others \/ MineOk \/ MineReverted
    \/ ResumeBatch \/ NextCall \/ sendTransaction \/ Conclude \/ ReceiptOk \/ ReceiptReverted \/ SendError \/ Cancel
    \/ \E c \in Circuits : VerifyBatch(c)

ClientSpec == ClientInit /\ [][ClientNext]_allVars

(* Fairness: the client runs, what it sends is mined in the end, and the   *)
(* application resumes a session that was interrupted.                     *)
FairClientSpec ==
    /\ ClientSpec
    /\ WF_allVars(Steps) /\ WF_allVars(MineOk \/ MineReverted) /\ WF_allVars(ResumeBatch)

----------------------------------------------------------------------------
(* Every variable of the client has its type; only the call waited for and *)
(* those given up on are in the mempool.                                   *)
ClientTypeOK ==
    /\ phase \in Working \cup Stopped \cup {"idle", "loop", "finalized", "done"}
    /\ aborted \in BOOLEAN /\ skipCleanup \in BOOLEAN
    /\ sessionId \in SessionIds \cup {Nothing} /\ circuit \in Circuits \cup {Nothing}
    /\ i \in Nat /\ totalBatches \in Nat
    /\ attempt \in 0 .. maxRetries
    /\ receipt \in {"none", "unsent", "pending", "ok", "reverted"}
    /\ mempool \in Seq([fn : Working, arg : Circuits \cup SessionIds])
    /\ Len(mempool) <= faults.errors + 1

(* A result the client returns is true: when verifyBatch or resumeBatch    *)
(* returns a result that is not cancelled, its session was finalized on    *)
(* chain, whatever was mined twice, late or after it was given up.         *)
ReportedIsVerified == ClientTypeOK /\ (phase = "done" => sessionId \in verified)

(* Resuming works: a session that was started is finalized in the end,     *)
(* though duplicates of calls given up advance it behind the client's back *)
(* and make later calls revert, unless the contract stays paused or    *)
(* verifyDAGProof could not verify the circuit with this proof either.     *)
ResumeCompletes ==
    \A id \in SessionIds :
        <>[]~paused => (sessionId = id /\ CanFinish(dagCircuits[CircuitOf(id)], {MyArguments})
                          ~> id \in verified)
============================================================================

----------------------------- MODULE ProverNode -----------------------------
(***************************************************************************)
(* The prover service: prover/src/queue.rs, nonce.rs and monitor.rs.  A    *)
(* round lists the pending requests of the engine, pushes them into a      *)
(* bounded priority queue, pops the best ones and processes these in       *)
(* parallel tasks; the next round starts when all of them have ended.      *)
(* Every task claims its request and submits a proof in transactions whose *)
(* nonces come from one shared counter.                                    *)
(*                                                                         *)
(* A task step is what happens between two awaits.  The engine and the     *)
(* Ethereum node are external: a transaction is refused when its gas       *)
(* estimation reverts or its nonce is taken, waits behind a missing nonce, *)
(* and may revert when it is mined.                                        *)
(***************************************************************************)
EXTENDS Integers, FiniteSets

CONSTANTS
    Requests,           \* request ids
    Private,            \* the requests with private inputs
    Scores,             \* JobScore::total() of a queued job
    max_size, max_concurrent, max_retries,
    (* bounds of the model *)
    MaxRounds,          \* rounds between two restarts
    MaxFaults           \* failed calls, crashes, and requests lost to others or expired

ASSUME RequestAssumption == Private \subseteq Requests

ASSUME NatAssumption ==
    /\ Scores \subseteq Nat
    /\ {max_size, max_concurrent, max_retries, MaxRounds, MaxFaults} \subseteq Nat
    /\ max_size > 0 /\ max_concurrent > 0 /\ max_retries > 0

VARIABLES
    status,             \* external: what the engine says of each request
    mined,              \* external: transactions of the prover's account that were mined
    mempool,            \* external: its transactions that wait to be mined
    phase,              \* of the main loop's current round
    toFetch,            \* requests of this round still to be fetched and pushed
    heap, seen,         \* JobQueue
    task,               \* one task for each request that is being processed
    current_nonce, pending_count,
    burnt,              \* history: nonces, since the start, of transactions that never
                        \* reached the node
    claimMined,         \* history: requests for which a claim of this node was mined
    rounds, faults      \* bounds

chainVars == <<status, mined, mempool, claimMined>>
queueVars == <<heap, seen>>
bounds == <<rounds, faults>>
nonceVars == <<current_nonce, pending_count>>
vars == <<chainVars, phase, toFetch, queueVars, task, nonceVars, burnt, bounds>>

----------------------------------------------------------------------------
(* A task: where it is, the call it has to make, what comes after a claim, *)
(* the attempts of this call and the nonce of the current one, and whether *)
(* the request was claimed early.                                          *)
Task ==
    [pc : {"none", "start", "plan", "decompose", "prove", "take", "send", "await", "sync", "swap"},
     call : {"claim", "submit"}, next : {"plan", "prove", "submit"},
     attempts : 0 .. max_retries, nonce : Nat, early : BOOLEAN]

NoTask == [pc |-> "none", call |-> "claim", next |-> "plan", attempts |-> 0, nonce |-> 0,
           early |-> FALSE]

Running == {r \in Requests : task[r].pc # "none"}

Queued == {j.id : j \in heap}

(* The nonce a task has taken for a transaction that is not settled. *)
Holding(r) == task[r].pc \in {"send", "await", "sync", "swap"}

Init ==
    /\ status = [r \in Requests |-> "pending"]
    /\ mined = 0
    /\ mempool = {}
    /\ phase = "idle"
    /\ toFetch = {}
    /\ heap = {}
    /\ seen = {}
    /\ task = [r \in Requests |-> NoTask]
    /\ current_nonce = 0
    /\ pending_count = 0
    /\ burnt = {}
    /\ claimMined = {}
    /\ rounds = 0
    /\ faults = 0

----------------------------------------------------------------------------
(* The engine: a request is claimed by a competitor, who may also take     *)
(* over a claim of this node that has lapsed, or expires.                  *)
Competitor(r) ==
    /\ faults < MaxFaults
    /\ faults' = faults + 1
    /\ \/ status[r] \in {"pending", "ours"} /\ status' = [status EXCEPT ![r] = "theirs"]
       \/ status[r] = "pending" /\ status' = [status EXCEPT ![r] = "expired"]
    /\ UNCHANGED <<mined, mempool, claimMined, phase, toFetch, queueVars, task, nonceVars,
                   burnt, rounds>>

(* Does the call succeed in the engine's current state? *)
Applicable(call, r) == status[r] = IF call = "claim" THEN "pending" ELSE "ours"

(* The transaction with the account's next nonce is mined; it has no       *)
(* effect when it reverts.                                                 *)
Mine ==
    \E tx \in mempool :
        /\ tx.nonce = mined
        /\ mined' = mined + 1
        /\ mempool' = mempool \ {tx}
        /\ status' = IF Applicable(tx.call, tx.req)
                     THEN [status EXCEPT ![tx.req] = IF tx.call = "claim" THEN "ours" ELSE "done"]
                     ELSE status
        /\ claimMined' = IF tx.call = "claim" THEN claimMined \cup {tx.req} ELSE claimMined
        /\ UNCHANGED <<phase, toFetch, queueVars, task, nonceVars, burnt, bounds>>

----------------------------------------------------------------------------
(* The main loop: check_and_process *)

StartRound ==
    /\ phase = "idle"
    /\ rounds < MaxRounds
    /\ toFetch' = {r \in Requests : status[r] = "pending"}
    /\ toFetch' # {}
    /\ phase' = "filling"
    /\ rounds' = rounds + 1
    /\ UNCHANGED <<chainVars, queueVars, task, nonceVars, burnt, faults>>

BestOf(jobs) == {j \in jobs : \A k \in jobs : k.score <= j.score}

(* The tip is above the threshold and the request has not expired.  At     *)
(* capacity the new job must beat the top of the max-heap, which makes     *)
(* room for it.                                                            *)
push(r, score) ==
    LET job == [id |-> r, score |-> score] IN
    /\ r \notin seen
    /\ \/ /\ Cardinality(heap) < max_size
          /\ heap' = heap \cup {job}
          /\ seen' = seen \cup {r}
       \/ /\ Cardinality(heap) >= max_size
          /\ \E top \in BestOf(heap) :
               /\ score > top.score
               /\ heap' = (heap \ {top}) \cup {job}
               /\ seen' = (seen \ {top.id}) \cup {r}

(* One of the parallel fetches: the job is queued, or filtered out, or     *)
(* refused by the queue, or its details cannot be fetched.  After the last *)
(* one process_queue_parallel drains the queue.                            *)
fetch_request_details(r) ==
    /\ phase = "filling"
    /\ r \in toFetch
    /\ toFetch' = toFetch \ {r}
    /\ \/ \E score \in Scores : push(r, score)
       \/ UNCHANGED queueVars
    /\ phase' = IF toFetch' # {} THEN "filling" ELSE IF heap' # {} THEN "draining" ELSE "serving"
    /\ UNCHANGED <<chainVars, task, nonceVars, burnt, bounds>>

(* Pops the best job; an expired one is dropped.  The tasks of the popped  *)
(* jobs start when there are max_concurrent of them or the heap is empty.  *)
pop ==
    /\ phase = "draining"
    /\ \E job \in BestOf(heap) :
         /\ heap' = heap \ {job}
         /\ seen' = seen \ {job.id}
         /\ task' = IF status[job.id] = "expired" THEN task
                    ELSE [task EXCEPT ![job.id] = [NoTask EXCEPT !.pc = "start"]]
         /\ phase' = IF heap' = {} \/ Cardinality(Running') = max_concurrent
                     THEN "serving" ELSE "draining"
    /\ UNCHANGED <<chainVars, toFetch, nonceVars, burnt, bounds>>

(* Mutation: the loop does not wait for its tasks. *)
AllEnded_assumed == TRUE

AllEnded == Running = {}

(* The last handle has been awaited. *)
EndRound ==
    /\ phase = "serving"
    /\ AllEnded
    /\ phase' = "idle"
    /\ UNCHANGED <<chainVars, toFetch, queueVars, task, nonceVars, burnt, bounds>>

(* The process dies and starts again: NonceManager::new starts from the    *)
(* mined count, whatever is still waiting to be mined.                     *)
Restart ==
    /\ faults < MaxFaults
    /\ faults' = faults + 1
    /\ phase' = "idle"
    /\ toFetch' = {}
    /\ heap' = {}
    /\ seen' = {}
    /\ task' = [r \in Requests |-> NoTask]
    /\ current_nonce' = mined
    /\ pending_count' = 0
    /\ burnt' = {}
    /\ rounds' = 0
    /\ UNCHANGED <<chainVars>>

----------------------------------------------------------------------------
(* process_single_job *)

Serving(r, pc) == phase # "draining" /\ task[r].pc = pc

Local == UNCHANGED <<chainVars, phase, toFetch, queueVars, nonceVars, burnt, bounds>>

Fail(r) == Local /\ task' = [task EXCEPT ![r] = NoTask]

(* Attempts made when a call starts. *)
FirstAttempt(r) == 0

(* send_claim_with_retry or send_submit_with_retry starts. *)
Call(r, call, next, early) ==
    /\ Local
    /\ task' = [task EXCEPT ![r] = [@ EXCEPT !.pc = "take", !.call = call, !.next = next,
                                             !.attempts = FirstAttempt(r), !.early = early]]

(* Steps 5 and 6, the standard path: the request may turn out not to be    *)
(* profitable; otherwise it is claimed before it is proved, unless that    *)
(* was done early.                                                         *)
Standard(r) ==
    \/ Fail(r)
    \/ ~task[r].early /\ Call(r, "claim", "prove", FALSE)
    \/ task[r].early /\ Local /\ task' = [task EXCEPT ![r].pc = "prove"]

(* Steps 2 (the input) to 4b: fetching and the preflight may fail; a       *)
(* cached proof is claimed for and submitted; an input that can be         *)
(* decomposed is proved in parts, whether or not the request is claimed.   *)
(* These steps touch nothing shared.                                       *)
Plan(r) ==
    \/ Fail(r)
    \/ Call(r, "claim", "submit", task[r].early)
    \/ Local /\ task' = [task EXCEPT ![r].pc = "decompose"]
    \/ Standard(r)

(* Step 1, the program.  A private input is only released to the claimant, *)
(* so its request is claimed before the input is fetched.                  *)
StartJob(r) ==
    /\ Serving(r, "start")
    /\ \/ Fail(r)
       \/ r \in Private /\ Call(r, "claim", "plan", TRUE)
       \/ r \notin Private /\ Plan(r)

GoOn(r) ==
    /\ Serving(r, "plan")
    /\ Plan(r)

(* prove_decomposed_with_receipts and the recursive wrapper end: the proof *)
(* they give is claimed for and submitted, or they failed and the standard *)
(* path is taken.                                                          *)
Decompose(r) ==
    /\ Serving(r, "decompose")
    /\ Call(r, "claim", "submit", task[r].early) \/ Standard(r)

(* Steps 7 to 9. *)
Prove(r) ==
    /\ Serving(r, "prove")
    /\ Fail(r) \/ Call(r, "submit", "submit", task[r].early)

----------------------------------------------------------------------------
(* Transactions *)

(* Mutation: a nonce is taken before the retry loop and again in it. *)
next_nonce_twice(r) ==
    /\ Serving(r, "take")
    /\ current_nonce' = current_nonce + 2
    /\ pending_count' = pending_count + 2
    /\ task' = [task EXCEPT ![r] = [task[r] EXCEPT !.pc = "send", !.attempts = @ + 1,
                                                   !.nonce = current_nonce + 1]]
    /\ UNCHANGED <<chainVars, phase, toFetch, queueVars, burnt, bounds>>

(* One more attempt, with a nonce of its own. *)
next_nonce(r) ==
    /\ Serving(r, "take")
    /\ current_nonce' = current_nonce + 1
    /\ pending_count' = pending_count + 1
    /\ task' = [task EXCEPT ![r] = [task[r] EXCEPT !.pc = "send", !.attempts = @ + 1,
                                                   !.nonce = current_nonce]]
    /\ UNCHANGED <<chainVars, phase, toFetch, queueVars, burnt, bounds>>

Tx(r) == [nonce |-> task[r].nonce, call |-> task[r].call, req |-> r]

Reverts(r) == ~Applicable(task[r].call, r)

Taken(nonce) == nonce < mined \/ \E tx \in mempool : tx.nonce = nonce

(* The node accepts the transaction. *)
SendAccepted(r) ==
    /\ Serving(r, "send")
    /\ ~Reverts(r)
    /\ ~Taken(task[r].nonce)
    /\ mempool' = mempool \cup {Tx(r)}
    /\ task' = [task EXCEPT ![r].pc = "await"]
    /\ UNCHANGED <<status, mined, claimMined, phase, toFetch, queueVars, nonceVars, burnt, bounds>>

MayRetry(r) == task[r].attempts < max_retries

(* handle_nonce_error and the decision that follows, for an error that is  *)
(* not about the nonce: a transient one is retried, up to max_retries.     *)
OtherError(r, transient) ==
    /\ pending_count' = pending_count - 1
    /\ task' = [task EXCEPT ![r] =
           IF transient /\ MayRetry(r) THEN [@ EXCEPT !.pc = "take", !.nonce = 0] ELSE NoTask]
    /\ UNCHANGED <<current_nonce>>

(* "execution reverted": the gas estimation fails, nothing is sent. *)
SendReverted(r) ==
    /\ Serving(r, "send")
    /\ Reverts(r)
    /\ OtherError(r, FALSE)
    /\ burnt' = burnt \cup {task[r].nonce}
    /\ UNCHANGED <<chainVars, phase, toFetch, queueVars, bounds>>

(* The connection fails before or after the transaction was delivered. *)
SendLost(r) ==
    /\ Serving(r, "send")
    /\ faults < MaxFaults
    /\ faults' = faults + 1
    /\ OtherError(r, TRUE)
    /\ \/ burnt' = burnt \cup {task[r].nonce} /\ UNCHANGED mempool
       \/ /\ ~Reverts(r) /\ ~Taken(task[r].nonce)
          /\ mempool' = mempool \cup {Tx(r)}
          /\ UNCHANGED burnt
    /\ UNCHANGED <<status, mined, claimMined, phase, toFetch, queueVars, rounds>>

(* "nonce too low", "already known" or "underpriced". *)
SendCollided(r) ==
    /\ Serving(r, "send")
    /\ ~Reverts(r)
    /\ Taken(task[r].nonce)
    /\ Local
    /\ task' = [task EXCEPT ![r].pc = "sync"]

(* sync_from_chain holds its lock from the read of the mined count to the  *)
(* swap of the counter; the read may fail.  None of the errors that lead   *)
(* here is retried.                                                        *)
SyncRead(r) ==
    /\ Serving(r, "sync")
    /\ \A q \in Requests : task[q].pc # "swap"
    /\ Local
    /\ \/ task' = [task EXCEPT ![r] = [@ EXCEPT !.pc = "swap", !.nonce = mined]]
       \/ task' = [task EXCEPT ![r] = NoTask]

(* The swap, the reset of the pending count and transaction_completed: the *)
(* unsigned count wraps below zero.                                        *)
SyncSwap(r) ==
    /\ Serving(r, "swap")
    /\ current_nonce' = task[r].nonce
    /\ pending_count' = 0 - 1
    /\ task' = [task EXCEPT ![r] = NoTask]
    /\ UNCHANGED <<chainVars, phase, toFetch, queueVars, burnt, bounds>>

(* Mutation: a transaction counts as confirmed once it was sent. *)
Confirmed_sent(r) == TRUE

(* Mutation: one more block is waited for. *)
Confirmed_oneMore(r) == task[r].nonce + 1 < mined

Confirmed(r) == task[r].nonce < mined

(* get_receipt: the transaction was mined.  Whether it reverted is not     *)
(* looked at.                                                              *)
Receipt(r) ==
    /\ Serving(r, "await")
    /\ Confirmed(r)
    /\ pending_count' = pending_count - 1
    /\ task' = [task EXCEPT ![r] =
           IF task[r].call = "submit" THEN NoTask
           ELSE IF task[r].next = "submit"
           THEN [@ EXCEPT !.pc = "take", !.call = "submit", !.attempts = FirstAttempt(r),
                          !.nonce = 0]
           ELSE [@ EXCEPT !.pc = task[r].next, !.attempts = FirstAttempt(r), !.nonce = 0]]
    /\ UNCHANGED <<chainVars, phase, toFetch, queueVars, current_nonce, burnt, bounds>>

(* Polling for the receipt fails; the transaction is still out there. *)
ReceiptLost(r) ==
    /\ Serving(r, "await")
    /\ faults < MaxFaults
    /\ faults' = faults + 1
    /\ OtherError(r, TRUE)
    /\ UNCHANGED <<chainVars, phase, toFetch, queueVars, burnt, rounds>>

----------------------------------------------------------------------------
TaskStep(r) ==
    \/ StartJob(r) \/ GoOn(r) \/ Decompose(r) \/ Prove(r)
    \/ next_nonce(r) \/ SendAccepted(r) \/ SendReverted(r) \/ SendCollided(r) \/ SendLost(r)
    \/ SyncRead(r) \/ SyncSwap(r) \/ Receipt(r) \/ ReceiptLost(r)

LoopStep ==
    \/ StartRound
    \/ \E r \in Requests : fetch_request_details(r)
    \/ pop
    \/ EndRound

Next ==
    \/ Mine
    \/ LoopStep
    \/ Restart
    \/ \E r \in Requests : Competitor(r) \/ TaskStep(r)

Spec == Init /\ [][Next]_vars

(* The runtime keeps polling the loop and every task, and miners include   *)
(* the account's next transaction.                                         *)
Fairness ==
    /\ WF_vars(Mine)
    /\ WF_vars(LoopStep)
    /\ \A r \in Requests : WF_vars(TaskStep(r))

FairSpec == Spec /\ Fairness

----------------------------------------------------------------------------
(* Properties *)

(* Every variable has its type. *)
TypeOK ==
    /\ status \in [Requests -> {"pending", "ours", "theirs", "expired", "done"}]
    /\ mined \in Nat
    /\ mempool \subseteq [nonce : Nat, call : {"claim", "submit"}, req : Requests]
    /\ phase \in {"idle", "filling", "draining", "serving"}
    /\ toFetch \subseteq Requests
    /\ heap \subseteq [id : Requests, score : Scores]
    /\ seen \subseteq Requests
    /\ task \in [Requests -> Task]
    /\ current_nonce \in Nat
    /\ pending_count \in Int
    /\ burnt \subseteq Nat
    /\ claimMined \subseteq Requests
    /\ rounds \in Nat
    /\ faults \in Nat

(* The queue never exceeds its size, its set of ids is exactly the jobs    *)
(* in the heap, through eviction, expiry and requests that come back, and  *)
(* no request is queued twice or both queued and in a task.                *)
QueueIsConsistent ==
    /\ TypeOK
    /\ Cardinality(heap) <= max_size
    /\ seen = Queued
    /\ Cardinality(Queued) = Cardinality(heap)
    /\ Running \cap Queued = {}

(* No two transactions of the account are waiting under one nonce, every   *)
(* one that waits is above the mined ones, and each nonce the counter has  *)
(* passed is mined, waiting, in a task's hands, or was lost by a send that *)
(* failed: parallel tasks, retries and synchronisation create no other     *)
(* gap.                                                                    *)
NoncesAreAccountedFor ==
    /\ \A tx1, tx2 \in mempool : tx1.nonce = tx2.nonce => tx1 = tx2
    /\ \A tx \in mempool : tx.nonce >= mined
    /\ \A n \in mined .. current_nonce - 1 :
         \/ n \in burnt
         \/ \E tx \in mempool : tx.nonce = n
         \/ \E r \in Requests : Holding(r) /\ task[r].nonce = n

(* The standard path spends no time on a proof, and nothing is proved for  *)
(* a request with private inputs, before a claim of this node for the      *)
(* request has been mined; nor is a proof of any path, cached or           *)
(* decomposed, submitted before that: also after lost answers, retries and *)
(* early claims.  (The decomposed path proves a public request before it   *)
(* claims it, so that work may be lost to a competitor.)                   *)
ClaimMinedBeforeProving ==
    \A r \in Requests :
        \/ task[r].pc = "prove"
        \/ task[r].pc = "decompose" /\ r \in Private
        \/ task[r].pc \in {"take", "send", "await", "sync", "swap"} /\ task[r].call = "submit"
        => r \in claimMined

(* Every round ends, so that the service goes on to new requests, as long  *)
(* as no nonce was lost by a send that failed.                             *)
RoundEndsUnlessGap ==
    (phase = "serving") ~> (phase = "idle" \/ burnt # {})

(* nonce.rs promises that the manager "Syncs with the chain on             *)
(* initialization and errors" ("On transaction failure, reset to chain     *)
(* state"): after a failed send the service goes on to its next round.     *)
EveryRoundEnds == (phase = "serving") ~> (phase = "idle")
=============================================================================

---------------------------- MODULE AutoFinalize ----------------------------
(***************************************************************************)
(* services/operator, main.rs: the calls the watch loop makes through its  *)
(* two circuit breakers.  rpc_cb guards the polls for events; chain_cb     *)
(* guards auto_finalize, which every FinalizeEvery iterations submits      *)
(* finalize for every result submitted in the last 7200 blocks, and is     *)
(* also told the outcome of the proof tasks (handle_challenge), which run  *)
(* concurrently and do not ask it.                                         *)
(*                                                                         *)
(* What the loop does with the events it polls is module OperatorWatch's.  *)
(* Here a result is submitted, then either challenged or ripe (its         *)
(* challenge window is over), and in the end closed; window is the index   *)
(* of the oldest submission auto_finalize still looks at.                  *)
(***************************************************************************)
EXTENDS CircuitBreaker, Sequences

CONSTANTS
    Results,
    RpcConfig, ChainConfig,     \* CircuitBreakerConfig of the two breakers
    FinalizeEvery,              \* iterations between two rounds of auto_finalize
    MaxOutages                  \* bound of the model: times the endpoint goes down

ASSUME CallsAssumption ==
    /\ {RpcConfig, ChainConfig} \subseteq Config
    /\ FinalizeEvery \in Nat \ {0}
    /\ MaxOutages \in Nat

VARIABLES
    submitted, ripe, challenged, closed, window,    \* the contract's results
    up, outages,                \* the RPC endpoint
    rpc_cb, chain_cb,           \* the breakers
    loop, finalize_counter,     \* the loop
    todo,                       \* the listed results not tried yet
    handled, tasks,             \* challenges seen, proof tasks in flight
    sinceTrip                   \* history: time since chain_cb last opened

resultVars == <<submitted, ripe, challenged, closed, window>>
endpoint   == <<up, outages>>
breakers   == <<rpc_cb, chain_cb, sinceTrip>>
loopVars   == <<loop, finalize_counter, todo>>
proofVars  == <<handled, tasks>>
callsVars  == <<resultVars, endpoint, breakers, loopVars, proofVars>>

----------------------------------------------------------------------------
CallsInit ==
    /\ submitted = <<>> /\ ripe = {} /\ challenged = {} /\ closed = {} /\ window = 1
    /\ up = TRUE /\ outages = 0
    /\ rpc_cb = New /\ chain_cb = New
    /\ loop = "poll" /\ finalize_counter = 0 /\ todo = <<>>
    /\ handled = {} /\ tasks = {}
    /\ sinceTrip = ChainConfig.recovery_timeout

Submitted(r) == \E i \in DOMAIN submitted : submitted[i] = r

----------------------------------------------------------------------------
(* The contract and the endpoint *)

Submit(r) ==
    /\ ~ Submitted(r)
    /\ submitted' = Append(submitted, r)
    /\ UNCHANGED <<ripe, challenged, closed, window, endpoint, breakers, loopVars, proofVars>>

Ripen(r) ==
    /\ Submitted(r) /\ r \notin ripe \cup challenged
    /\ ripe' = ripe \cup {r}
    /\ UNCHANGED <<submitted, challenged, closed, window, endpoint, breakers, loopVars, proofVars>>

ChallengeResult(r) ==
    /\ Submitted(r) /\ r \notin ripe \cup challenged
    /\ challenged' = challenged \cup {r}
    /\ UNCHANGED <<submitted, ripe, closed, window, endpoint, breakers, loopVars, proofVars>>

(* Anyone may finalize a ripe result or settle a dispute.                  *)
CloseByOthers(r) ==
    /\ r \in (ripe \cup challenged) \ closed
    /\ closed' = closed \cup {r}
    /\ UNCHANGED <<submitted, ripe, challenged, window, endpoint, breakers, loopVars, proofVars>>

(* Blocks go by, several between two rounds.                               *)
WindowMoves ==
    \E w \in window + 1 .. Len(submitted) + 1 :
        /\ window' = w
        /\ UNCHANGED <<submitted, ripe, challenged, closed, endpoint, breakers, loopVars, proofVars>>

GoesDown ==
    /\ up /\ outages < MaxOutages
    /\ up' = FALSE /\ outages' = outages + 1
    /\ UNCHANGED <<resultVars, breakers, loopVars, proofVars>>

ComesUp ==
    /\ ~ up
    /\ up' = TRUE
    /\ UNCHANGED <<resultVars, outages, breakers, loopVars, proofVars>>

----------------------------------------------------------------------------
(* The watch loop *)

(* After the events, the counter decides whether this iteration ends with  *)
(* a round of auto_finalize.                                               *)
EventsHandled ==
    IF finalize_counter + 1 >= FinalizeEvery
    THEN loop' = "list" /\ finalize_counter' = 0
    ELSE loop' = "sleep" /\ finalize_counter' = finalize_counter + 1

PollRefused ==
    /\ loop = "poll" /\ ~ allow_request(rpc_cb, RpcConfig)
    /\ rpc_cb' = Asked(rpc_cb, RpcConfig)
    /\ EventsHandled
    /\ UNCHANGED <<resultVars, endpoint, chain_cb, sinceTrip, todo, proofVars>>

(* A poll that succeeds starts the proof tasks of new challenges.          *)
PollOk ==
    /\ loop = "poll" /\ allow_request(rpc_cb, RpcConfig) /\ up
    /\ rpc_cb' = record_success(Asked(rpc_cb, RpcConfig), RpcConfig)
    /\ tasks' = tasks \cup (challenged \ handled)
    /\ handled' = challenged
    /\ EventsHandled
    /\ UNCHANGED <<resultVars, endpoint, chain_cb, sinceTrip, todo>>

PollErr ==
    /\ loop = "poll" /\ allow_request(rpc_cb, RpcConfig) /\ ~ up
    /\ rpc_cb' = record_failure(Asked(rpc_cb, RpcConfig), RpcConfig)
    /\ EventsHandled
    /\ UNCHANGED <<resultVars, endpoint, chain_cb, sinceTrip, todo, proofVars>>

(* auto_finalize: the poll, refused, failed or answered.                   *)
List ==
    /\ loop = "list"
    /\ LET asked == Asked(rpc_cb, RpcConfig)
       IN  \/ /\ ~ allow_request(rpc_cb, RpcConfig)
              /\ rpc_cb' = asked
              /\ loop' = "sleep" /\ UNCHANGED todo
           \/ /\ allow_request(rpc_cb, RpcConfig) /\ ~ up
              /\ rpc_cb' = record_failure(asked, RpcConfig)
              /\ loop' = "sleep" /\ UNCHANGED todo
           \/ /\ allow_request(rpc_cb, RpcConfig) /\ up
              /\ rpc_cb' = record_success(asked, RpcConfig)
              /\ todo' = SubSeq(submitted, window, Len(submitted))
              /\ loop' = "each"
    /\ UNCHANGED <<resultVars, endpoint, chain_cb, sinceTrip, finalize_counter, proofVars>>

(* What becomes of chain_cb, and when it last opened.                      *)
ChainBreaker(b) ==
    /\ chain_cb' = b
    /\ sinceTrip' = IF b.state = "Open" /\ chain_cb.state # "Open" THEN 0 ELSE sinceTrip

(* Mutation: a round makes no trial call, it waits for the breaker to close. *)
MayFinalize_closedOnly == chain_cb.state = "Closed"
MayFinalize == allow_request(chain_cb, ChainConfig)

Finalize ==
    /\ loop = "each" /\ todo # <<>> /\ MayFinalize
    /\ ChainBreaker(Asked(chain_cb, ChainConfig))
    /\ loop' = "sent"
    /\ UNCHANGED <<resultVars, endpoint, rpc_cb, finalize_counter, todo, proofVars>>

(* The round is over, or ends early because the breaker is open.           *)
RoundEnds ==
    /\ loop = "each" /\ (todo = <<>> \/ ~ MayFinalize)
    /\ ChainBreaker(IF todo = <<>> THEN chain_cb ELSE Asked(chain_cb, ChainConfig))
    /\ loop' = "sleep" /\ todo' = <<>>
    /\ UNCHANGED <<resultVars, endpoint, rpc_cb, finalize_counter, proofVars>>

FinalizeReturns(ok) ==
    /\ ChainBreaker(IF ok THEN record_success(chain_cb, ChainConfig) ELSE record_failure(chain_cb, ChainConfig))
    /\ loop' = "each" /\ todo' = Tail(todo)
    /\ UNCHANGED <<submitted, ripe, challenged, window, endpoint, rpc_cb, finalize_counter, proofVars>>

Finalizable(r) == r \in ripe \ closed

FinalizeOk ==
    /\ loop = "sent" /\ up /\ Finalizable(Head(todo))
    /\ closed' = closed \cup {Head(todo)}
    /\ FinalizeReturns(TRUE)

(* The endpoint is down, or the contract reverts: too early, challenged,   *)
(* or already final.                                                       *)
FinalizeErr ==
    /\ loop = "sent" /\ ~ (up /\ Finalizable(Head(todo)))
    /\ FinalizeReturns(FALSE)
    /\ UNCHANGED closed

Sleep ==
    /\ loop = "sleep"
    /\ loop' = "poll"
    /\ rpc_cb' = Aged(rpc_cb, RpcConfig) /\ chain_cb' = Aged(chain_cb, ChainConfig)
    /\ sinceTrip' = AtMost(sinceTrip + 1, ChainConfig.recovery_timeout)
    /\ UNCHANGED <<resultVars, endpoint, finalize_counter, todo, proofVars>>

----------------------------------------------------------------------------
(* The proof tasks *)

TaskOver(r) ==
    /\ r \in tasks
    /\ tasks' = tasks \ {r}
    /\ UNCHANGED <<submitted, ripe, challenged, window, endpoint, rpc_cb, loopVars, handled>>

TaskOk(r) ==
    /\ TaskOver(r)
    /\ up /\ r \notin closed
    /\ closed' = closed \cup {r}
    /\ ChainBreaker(record_success(chain_cb, ChainConfig))

(* No proof in time, or the call fails or reverts.                         *)
TaskErr(r) ==
    /\ TaskOver(r)
    /\ ChainBreaker(record_failure(chain_cb, ChainConfig))
    /\ UNCHANGED closed

(* Pre-verification rejects the proof: nothing is recorded.                *)
TaskDropped(r) ==
    /\ TaskOver(r)
    /\ UNCHANGED <<closed, chain_cb, sinceTrip>>

----------------------------------------------------------------------------
Loop == PollRefused \/ PollOk \/ PollErr \/ List \/ Finalize \/ RoundEnds \/ FinalizeOk \/ FinalizeErr \/ Sleep

CallsNext ==
    \/ PollRefused \/ PollOk \/ PollErr \/ List \/ Finalize \/ RoundEnds \/ FinalizeOk \/ FinalizeErr \/ Sleep
    \/ WindowMoves \/ GoesDown \/ ComesUp
    \/ \E r \in Results :
          \/ Submit(r) \/ Ripen(r) \/ ChallengeResult(r) \/ CloseByOthers(r)
          \/ TaskOk(r) \/ TaskErr(r) \/ TaskDropped(r)

CallsSpec == CallsInit /\ [][CallsNext]_callsVars

(* Fairness: the loop keeps running.  Nothing is assumed of the endpoint,  *)
(* of the chain or of the tasks.                                           *)
CallsFairSpec == CallsSpec /\ WF_callsVars(Loop)

----------------------------------------------------------------------------
(* Every variable has its type.                                            *)
CallsTypeOK ==
    /\ submitted \in Seq(Results)
    /\ ripe \subseteq Results /\ challenged \subseteq Results /\ closed \subseteq Results
    /\ window \in Nat \ {0}
    /\ up \in BOOLEAN /\ outages \in Nat
    /\ rpc_cb \in Breaker(RpcConfig) /\ chain_cb \in Breaker(ChainConfig)
    /\ loop \in {"poll", "list", "each", "sent", "sleep"}
    /\ finalize_counter \in 0 .. FinalizeEvery - 1
    /\ todo \in Seq(Results)
    /\ handled \subseteq Results /\ tasks \subseteq Results
    /\ sinceTrip \in 0 .. ChainConfig.recovery_timeout

Sound(b, cfg) ==
    /\ b.state = "Closed" => b.failures < cfg.failure_threshold
    /\ b.state # "HalfOpen" => b.successes = 0
    /\ b.successes < cfg.success_threshold

(* Whatever order polls, finalize calls and late proof tasks report in, a  *)
(* breaker that lets calls through unconditionally has failures to go      *)
(* before it opens, and counts successes only on trial.                    *)
BreakersAreSound == Sound(rpc_cb, RpcConfig) /\ Sound(chain_cb, ChainConfig)

(* After chain_cb opened, auto_finalize submits nothing for the length of  *)
(* recovery_timeout, though proof tasks started earlier go on recording    *)
(* successes and failures on the open breaker meanwhile.                   *)
QuietAfterTrip ==
    [][loop = "each" /\ loop' = "sent" => sinceTrip >= ChainConfig.recovery_timeout]_callsVars

(* The breaker is no dead end: once the endpoint stays up, polls succeed   *)
(* again and again.  Module OperatorWatch assumes this of its Poll.        *)
PollsResume == <>[]up => []<><<PollOk>>_callsVars

OldestInWindow(r) == window \in DOMAIN submitted /\ submitted[window] = r

(* Nor is the breaker of auto_finalize: with the endpoint up for good, the *)
(* oldest result of the window, once ripe, is finalized unless the window  *)
(* moves past it first, though every round submits finalize for results    *)
(* that revert and every revert counts against the breaker.  It is said of *)
(* the oldest only: a breaker opened by the results before it keeps a      *)
(* later one from being tried.                                             *)
OldestIsFinalized ==
    \A r \in Results : <>[]up => (r \in ripe /\ OldestInWindow(r) ~> r \in closed \/ ~ OldestInWindow(r))
============================================================================

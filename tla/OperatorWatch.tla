--------------------------- MODULE OperatorWatch ---------------------------
(***************************************************************************)
(* services/operator: the watch loop (main.rs, cmd_watch) that polls the   *)
(* chain for challenges, starts one proof task per challenge and keeps a   *)
(* checkpoint file (store.rs) from which it resumes after a crash, a       *)
(* restart or a graceful stop.                                             *)
(*                                                                         *)
(* The chain is a sequence of blocks of at most one event each; block i is *)
(* log[i].  Both circuit breakers are abstracted to the outcome they give  *)
(* a call: a poll that returns nothing.  Left out: metrics, webhooks and   *)
(* alerts, the model-hash cache, which only feeds a log line, the deadline *)
(* kept with an active dispute, and auto_finalize, which submits           *)
(* transactions about results that are not disputed.                       *)
(***************************************************************************)
EXTENDS Integers, FiniteSets, SequencesExt, Totals

CONSTANTS
    Disputes,                   \* results that may be challenged
    NoState,                    \* no usable state file
    MaxConcurrent,              \* permits of proof_semaphore
    MAX_PROCESSED_IDS,
    DryRunModes,                \* values of --dry-run the operator is started with
    (* bounds of the model *)
    MaxCrashes, MaxSignals, MaxStateLosses, MaxReorgs

ASSUME OperatorAssumption ==
    /\ {MaxCrashes, MaxSignals, MaxStateLosses, MaxReorgs} \subseteq Nat
    /\ {MaxConcurrent, MAX_PROCESSED_IDS} \subseteq Nat \ {0}
    /\ DryRunModes \subseteq BOOLEAN /\ DryRunModes # {}

ASSUME FiniteAssumption == IsFiniteSet(Disputes)

VARIABLES
    log,                        \* the chain
    mempool,                    \* disputes with a resolveDispute transaction not mined yet
    pc,                         \* where the loop is: down, poll, events, drain
    dry_run,
    from_block,
    batch,                      \* polled events not handled yet, each with its block
    active_disputes, processed_event_ids,
    proving, waiting,           \* proof tasks in flight, per dispute: before and after sending
    shutting_down,
    disk,                       \* the state file
    unseen,                     \* history: polled blocks dropped unhandled at a shutdown
    started, skipped,           \* history: disputes for which a task was started, for want
                                \* of a permit was not started
    spent                       \* faults so far (bounds)

chainVars == <<log, mempool>>
history   == <<started, skipped>>
taskVars  == <<proving, waiting>>
stateVars == <<from_block, active_disputes, processed_event_ids, unseen>>
vars == <<chainVars, pc, dry_run, batch, stateVars, taskVars, shutting_down, disk, history, spent>>

----------------------------------------------------------------------------
Kinds == {"challenged", "resolved"}
NoEvent == [kind |-> "none"]
Event == [kind : Kinds, id : Disputes]

(* ResultChallenged, and DisputeResolved, ResultFinalized or ResultExpired,*)
(* which the loop treats alike.                                            *)
Challenged(d) == [kind |-> "challenged", id |-> d]
Resolved(d)   == [kind |-> "resolved", id |-> d]

OnChain(e) == \E i \in DOMAIN log : log[i] = e
Open(d) == OnChain(Challenged(d)) /\ ~ OnChain(Resolved(d))

(* OperatorState *)
Checkpoint == [last_polled_block : Nat, active_disputes : SUBSET Disputes,
               processed_event_ids : Seq(Disputes), unseen : SUBSET Nat]
DefaultState == [last_polled_block |-> 0, active_disputes |-> {}, processed_event_ids |-> <<>>, unseen |-> {}]
(* Mutation: the active disputes are not saved.                            *)
OpState_withoutActive == [last_polled_block |-> from_block, active_disputes |-> {},
                          processed_event_ids |-> processed_event_ids, unseen |-> unseen]
OpState == [last_polled_block |-> from_block, active_disputes |-> active_disputes,
            processed_event_ids |-> processed_event_ids, unseen |-> unseen]

(* ProcessedEventTracker::insert: at the limit the oldest id is evicted.   *)
Insert(ids, d) ==
    IF Contains(ids, d) THEN ids
    ELSE LET grown == Append(ids, d)
         IN  SubSeq(grown, IF Len(grown) > MAX_PROCESSED_IDS THEN 2 ELSE 1, Len(grown))

Idle == [d \in Disputes |-> 0]
InFlight == Total(proving) + Total(waiting)

Init ==
    /\ log = <<>> /\ mempool = {}
    /\ pc = "down" /\ dry_run \in DryRunModes
    /\ from_block = 0 /\ batch = {}
    /\ active_disputes = {} /\ processed_event_ids = <<>>
    /\ proving = Idle /\ waiting = Idle /\ shutting_down = FALSE
    /\ disk = NoState
    /\ started = {} /\ skipped = {} /\ unseen = {}
    /\ spent = [crashes |-> 0, signals |-> 0, losses |-> 0, reorgs |-> 0]

----------------------------------------------------------------------------
(* The chain *)

Challenge(d) ==
    /\ ~ OnChain(Challenged(d))
    /\ log' = Append(log, Challenged(d))
    /\ UNCHANGED <<mempool, pc, dry_run, batch, stateVars, taskVars, shutting_down, disk, history, spent>>

(* resolveDisputeByTimeout, called by anyone.                              *)
TimeOut(d) ==
    /\ Open(d)
    /\ log' = Append(log, Resolved(d))
    /\ UNCHANGED <<mempool, pc, dry_run, batch, stateVars, taskVars, shutting_down, disk, history, spent>>

(* A transaction is mined; it reverts when the dispute is settled.         *)
Mine(d) ==
    /\ d \in mempool
    /\ mempool' = mempool \ {d}
    /\ log' = IF Open(d) THEN Append(log, Resolved(d)) ELSE log
    /\ UNCHANGED <<pc, dry_run, batch, stateVars, taskVars, shutting_down, disk, history, spent>>

(* The newest block is replaced and its event is mined again one later.    *)
Reorg ==
    /\ spent.reorgs < MaxReorgs
    /\ log # <<>>
    /\ log' = Append([log EXCEPT ![Len(log)] = NoEvent], Last(log))
    /\ spent' = [spent EXCEPT !.reorgs = @ + 1]
    /\ UNCHANGED <<mempool, pc, dry_run, batch, stateVars, taskVars, shutting_down, disk, history>>

----------------------------------------------------------------------------
(* The watch loop *)

Loaded(s) ==
    /\ from_block' = s.last_polled_block
    /\ active_disputes' = s.active_disputes
    /\ processed_event_ids' = s.processed_event_ids
    /\ unseen' = s.unseen

(* StateStore::load_or_default, then the first iteration.                  *)
Start ==
    /\ pc = "down"
    /\ Loaded(IF disk = NoState THEN DefaultState ELSE disk)
    /\ dry_run' \in DryRunModes
    /\ pc' = "poll"
    /\ UNCHANGED <<chainVars, batch, taskVars, shutting_down, disk, history, spent>>

Logged(i) == [event |-> log[i], block |-> i]

(* Mutation: from_block is taken to be already polled.                     *)
EventsFrom_exclusive(b) ==
    {Logged(i) : i \in {k \in DOMAIN log : k > b /\ log[k] # NoEvent}}

(* EventWatcher::poll_events: the events from from_block up to the latest  *)
(* block, each with its block number, and the block to poll from next.     *)
EventsFrom(b) ==
    {Logged(i) : i \in {k \in DOMAIN log : k >= b /\ log[k] # NoEvent}}

NextBlock(b) == IF b > Len(log) THEN b ELSE Len(log) + 1

(* Mutation: the new position is made durable before the events are handled. *)
Poll_savedFirst ==
    /\ pc = "poll" /\ ~ shutting_down
    /\ batch' = EventsFrom(from_block)
    /\ from_block' = NextBlock(from_block)
    /\ disk' = [OpState EXCEPT !.last_polled_block = NextBlock(from_block)]
    /\ pc' = "events"
    /\ UNCHANGED <<chainVars, dry_run, active_disputes, processed_event_ids, unseen, taskVars, shutting_down,
                   history, spent>>

Poll ==
    /\ pc = "poll" /\ ~ shutting_down
    /\ batch' = EventsFrom(from_block)
    /\ from_block' = NextBlock(from_block)
    /\ pc' = "events"
    /\ UNCHANGED <<chainVars, dry_run, active_disputes, processed_event_ids, unseen, taskVars, shutting_down,
                   disk, history, spent>>

(* The call fails or the breaker refuses it: no events, same from_block.   *)
PollFails ==
    /\ pc = "poll" /\ ~ shutting_down
    /\ pc' = "events"
    /\ UNCHANGED <<chainVars, dry_run, batch, stateVars, taskVars, shutting_down, disk, history, spent>>

(* They are handled in the order of the chain.                             *)
Oldest(e) == \A f \in batch : e.block <= f.block

NextEvent(e, kind) ==
    /\ pc = "events" /\ ~ shutting_down
    /\ Oldest(e) /\ e.event.kind = kind
    /\ batch' = batch \ {e}
    /\ UNCHANGED <<chainVars, pc, dry_run, from_block, unseen, shutting_down, disk, spent>>

(* Mutation: no deduplication.                                             *)
AlreadyProcessed_never(d) == FALSE
AlreadyProcessed(d) == Contains(processed_event_ids, d)

SkipProcessed ==
    /\ \E e \in batch : NextEvent(e, "challenged") /\ AlreadyProcessed(e.event.id)
    /\ UNCHANGED <<active_disputes, processed_event_ids, taskVars, history>>

(* A challenge not processed before becomes an active dispute whatever     *)
(* happens next; a proof task is started for it if a permit is free.       *)
NewChallenge(d) ==
    /\ \E e \in batch : NextEvent(e, "challenged") /\ e.event.id = d
    /\ ~ AlreadyProcessed(d)
    /\ active_disputes' = active_disputes \cup {d}

StartProof(d) ==
    /\ NewChallenge(d)
    /\ ~ dry_run /\ InFlight < MaxConcurrent
    /\ proving' = [proving EXCEPT ![d] = @ + 1]
    /\ processed_event_ids' = Insert(processed_event_ids, d)
    /\ started' = started \cup {d}
    /\ UNCHANGED <<waiting, skipped>>

LogDryRun(d) ==
    /\ NewChallenge(d)
    /\ dry_run
    /\ processed_event_ids' = Insert(processed_event_ids, d)
    /\ UNCHANGED <<taskVars, history>>

NoPermit(d) ==
    /\ NewChallenge(d)
    /\ ~ dry_run /\ InFlight = MaxConcurrent
    /\ skipped' = skipped \cup {d}
    /\ UNCHANGED <<processed_event_ids, taskVars, started>>

DisputeOver ==
    /\ \E e \in batch : /\ NextEvent(e, "resolved")
                        /\ active_disputes' = active_disputes \ {e.event.id}
    /\ UNCHANGED <<processed_event_ids, taskVars, history>>

(* "Shutdown in progress, skipping remaining events" *)
SkipRemaining ==
    /\ pc = "events" /\ batch # {} /\ shutting_down
    /\ unseen' = unseen \cup {e.block : e \in batch}
    /\ batch' = {}
    /\ UNCHANGED <<chainVars, pc, dry_run, from_block, active_disputes, processed_event_ids, taskVars,
                   shutting_down, disk, history, spent>>

(* The state is saved after each cycle, by a rename; a failure is logged.  *)
Written(saved) == disk' = IF saved THEN OpState ELSE disk

Save ==
    /\ pc = "events" /\ batch = {}
    /\ \E saved \in BOOLEAN : Written(saved)
    /\ pc' = "poll"
    /\ UNCHANGED <<chainVars, dry_run, batch, stateVars, taskVars, shutting_down, history, spent>>

----------------------------------------------------------------------------
(* Proof tasks: handle_challenge *)

SubmitProof(d) ==
    /\ proving[d] > 0
    /\ proving' = [proving EXCEPT ![d] = @ - 1]
    /\ waiting' = [waiting EXCEPT ![d] = @ + 1]
    /\ mempool' = mempool \cup {d}
    /\ UNCHANGED <<log, pc, dry_run, batch, stateVars, shutting_down, disk, history, spent>>

TaskEnds(d) ==
    /\ \/ /\ proving[d] > 0
          /\ proving' = [proving EXCEPT ![d] = @ - 1]
          /\ UNCHANGED waiting
       \/ /\ waiting[d] > 0
          /\ waiting' = [waiting EXCEPT ![d] = @ - 1]
          /\ UNCHANGED proving
    /\ UNCHANGED <<chainVars, pc, dry_run, batch, stateVars, shutting_down, disk, history, spent>>

(* It returns with a receipt, with an error of the call, or without having *)
(* sent anything when there is no valid proof; it does not try again.      *)
TaskReturns(d) == TaskEnds(d)

(* The other branch of the select! around it.                              *)
TaskCancelled(d) ==
    /\ shutting_down
    /\ TaskEnds(d)

----------------------------------------------------------------------------
(* Stopping *)

Signal ==
    /\ spent.signals < MaxSignals
    /\ pc # "down" /\ ~ shutting_down
    /\ shutting_down' = TRUE
    /\ spent' = [spent EXCEPT !.signals = @ + 1]
    /\ UNCHANGED <<chainVars, pc, dry_run, batch, stateVars, taskVars, disk, history>>

LeaveLoop ==
    /\ pc = "poll" /\ shutting_down
    /\ pc' = "drain"
    /\ UNCHANGED <<chainVars, dry_run, batch, stateVars, taskVars, shutting_down, disk, history, spent>>

(* The process is gone, and its memory with it.                            *)
Gone ==
    /\ pc' = "down"
    /\ proving' = Idle /\ waiting' = Idle
    /\ shutting_down' = FALSE
    /\ batch' = {}
    /\ Loaded(DefaultState)

(* No task is left or, with tasks still in flight, 60 seconds have passed. *)
Exit ==
    /\ pc = "drain"
    /\ \E saved \in BOOLEAN : Written(saved)
    /\ Gone
    /\ UNCHANGED <<chainVars, dry_run, history, spent>>

Crash ==
    /\ spent.crashes < MaxCrashes
    /\ pc # "down"
    /\ spent' = [spent EXCEPT !.crashes = @ + 1]
    /\ Gone
    /\ UNCHANGED <<chainVars, dry_run, disk, history>>

(* The state file is deleted or becomes unreadable.                        *)
LoseState ==
    /\ spent.losses < MaxStateLosses
    /\ pc = "down" /\ disk # NoState
    /\ disk' = NoState
    /\ spent' = [spent EXCEPT !.losses = @ + 1]
    /\ UNCHANGED <<chainVars, pc, dry_run, batch, stateVars, taskVars, shutting_down, history>>

----------------------------------------------------------------------------
Next ==
    \/ Start \/ Poll \/ PollFails \/ SkipProcessed \/ DisputeOver \/ SkipRemaining \/ Save
    \/ Signal \/ LeaveLoop \/ Exit \/ Crash \/ LoseState \/ Reorg
    \/ \E d \in Disputes :
          \/ Challenge(d) \/ TimeOut(d) \/ Mine(d)
          \/ StartProof(d) \/ LogDryRun(d) \/ NoPermit(d)
          \/ SubmitProof(d) \/ TaskReturns(d) \/ TaskCancelled(d)

Spec == Init /\ [][Next]_vars

(* Fairness: the process is restarted when it goes down (restart policies  *)
(* of docker-compose.yml and the Kubernetes deployment), its loop and its  *)
(* tasks keep running, the RPC endpoint answers again and again, and sent  *)
(* transactions are mined.  Nothing is assumed of challengers, of the      *)
(* dispute deadline or of faults.                                          *)
Fairness ==
    /\ WF_vars(Start) /\ SF_vars(Poll)
    /\ WF_vars(SkipProcessed \/ DisputeOver \/ SkipRemaining \/ Save)
    /\ WF_vars(LeaveLoop) /\ WF_vars(Exit)
    /\ \A d \in Disputes :
          /\ WF_vars(StartProof(d) \/ LogDryRun(d) \/ NoPermit(d))
          /\ WF_vars(SubmitProof(d) \/ TaskReturns(d))
          /\ WF_vars(Mine(d))

FairSpec == Spec /\ Fairness

----------------------------------------------------------------------------
(* Every variable has its type; no more proof tasks run than there are     *)
(* permits, and the tracker keeps within its limit.                        *)
TypeOK ==
    /\ log \in Seq(Event \cup {NoEvent})
    /\ mempool \subseteq Disputes
    /\ pc \in {"down", "poll", "events", "drain"}
    /\ dry_run \in BOOLEAN
    /\ from_block \in Nat
    /\ batch \subseteq [event : Event, block : Nat]
    /\ active_disputes \subseteq Disputes
    /\ processed_event_ids \in Seq(Disputes)
    /\ Len(processed_event_ids) <= MAX_PROCESSED_IDS
    /\ proving \in [Disputes -> Nat] /\ waiting \in [Disputes -> Nat]
    /\ InFlight <= MaxConcurrent
    /\ shutting_down \in BOOLEAN
    /\ disk \in Checkpoint \cup {NoState}
    /\ started \subseteq Disputes /\ skipped \subseteq Disputes
    /\ unseen \subseteq Nat

(* Crash recovery.  Whatever happened before, every challenge in a block   *)
(* the state file says was polled is among its processed ids, so that a    *)
(* crash at any point, between the poll that moves from_block and the save *)
(* that makes it durable in particular, loses no challenge.  The exception *)
(* are the blocks dropped at a graceful stop and the challenges skipped    *)
(* for want of a permit.  For instances with room for every id.            *)
CheckpointCoversChallenges ==
    disk # NoState =>
        \A i \in DOMAIN log :
            (i < disk.last_polled_block /\ i \notin disk.unseen /\ log[i].kind = "challenged"
                /\ log[i].id \notin skipped)
                => Contains(disk.processed_event_ids, log[i].id)

(* Between two cycles, whatever crashes, failed saves, lost state files    *)
(* and re-delivered events came before, the disputes the operator tracks   *)
(* are exactly those challenged and not yet over, among the disputes       *)
(* with no event left to poll and none dropped at a graceful stop.         *)
ActiveDisputesMatchChain ==
    pc = "poll" =>
        \A d \in Disputes :
            (\A i \in DOMAIN log : log[i] \in {Challenged(d), Resolved(d)} => i < from_block /\ i \notin unseen)
                => (d \in active_disputes <=> Open(d))

(* One process never runs two proof tasks for the same dispute, though a   *)
(* reorganised block delivers a challenge a second time, nor more of them  *)
(* than it has permits (TypeOK).                                           *)
OneTaskPerDispute == TypeOK /\ \A d \in Disputes : proving[d] + waiting[d] <= 1

(* A graceful stop has dropped the block of a challenge, and the state     *)
(* file has moved past it.                                                 *)
DroppedAtStop(d) == disk # NoState /\ \E i \in disk.unseen \cap DOMAIN log : log[i] = Challenged(d)

(* A challenge is taken up: as long as its dispute is open, a proof task   *)
(* has been or will be started for it, through crashes and graceful stops  *)
(* at any point, failed saves and evictions of processed ids.  There are   *)
(* two exceptions, both of them losses for good: no permit was free when   *)
(* it was seen (skipped), or a stop in the middle of a batch dropped it    *)
(* and saved the advanced position (DroppedAtStop).                        *)
EveryChallengeIsTakenUp ==
    \A d \in Disputes : Open(d) ~> (d \in started \cup skipped \/ DroppedAtStop(d) \/ ~ Open(d))
============================================================================

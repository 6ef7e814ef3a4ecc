------------------------------- MODULE Indexer -------------------------------
(***************************************************************************)
(* services/indexer/src/main.rs: the poll loop that copies the contract's  *)
(* events into a table of results and streams them to clients.  The table  *)
(* and the position of the loop are written in separate statements, so a   *)
(* crash between them makes the next life apply the same events again; so  *)
(* does a read of the position that fails, from the first block on.        *)
(*                                                                         *)
(* The chain only grows: the indexer reads up to the newest block and does *)
(* not handle a reorganisation, which is not modelled.                     *)
(***************************************************************************)
EXTENDS EventStream

CONSTANTS
    Results,            \* result ids
    (* bounds of the model *)
    MaxEvents, MaxCrashes, MaxFaults

ASSUME BoundAssumption == {MaxEvents, MaxCrashes, MaxFaults} \subseteq Nat

VARIABLES
    chain,              \* external: the contract's events, one to a block
    results,            \* the status column of the results table
    last_indexed_block,
    poll,               \* the poll under way: its first event, the one to apply next, the last
    lost,               \* history: results whose row could not be written
    rewound,            \* history: a failed read of the position has made a poll start from
                        \* the first block, and no such poll has come to its end since
    crashes, faults     \* bounds

storeVars == <<results, last_indexed_block, lost, rewound>>
vars == <<wsVars, chain, storeVars, poll, crashes, faults>>

----------------------------------------------------------------------------
(* The contract's events and the status each stands for; a finalization    *)
(* emits ResultExpired and ResultFinalized, which are stored alike.        *)
Statuses == {"submitted", "challenged", "finalized", "resolved"}

(* The status of a result after the first n events is s. *)
HasStatus(id, n, s) ==
    \/ s = "absent" /\ \A i \in 1 .. n : chain[i].id # id
    \/ \E i \in 1 .. n :
         /\ chain[i] = [id |-> id, status |-> s]
         /\ \A k \in i + 1 .. n : chain[k].id # id

May(before, after) ==
    <<before, after>> \in {<<"absent", "submitted">>, <<"submitted", "challenged">>,
                           <<"submitted", "finalized">>, <<"challenged", "resolved">>}

Idle == [pc |-> "idle", first |-> 0, next |-> 0, latest |-> 0]

Init ==
    /\ WsInit
    /\ chain = <<>>
    /\ results = [id \in Results |-> "absent"]
    /\ last_indexed_block = 0
    /\ poll = Idle
    /\ lost = {}
    /\ rewound = FALSE
    /\ crashes = 0
    /\ faults = 0

Mined(id, status) ==
    /\ Len(chain) < MaxEvents
    /\ \E before \in Statuses \cup {"absent"} :
         HasStatus(id, Len(chain), before) /\ May(before, status)
    /\ chain' = Append(chain, [id |-> id, status |-> status])
    /\ UNCHANGED <<wsVars, storeVars, poll, crashes, faults>>

----------------------------------------------------------------------------
(* poll_and_index *)

(* The position, or 0 when the lock is poisoned or the query fails. *)
get_last_indexed_block(block) ==
    \/ block = last_indexed_block /\ UNCHANGED <<rewound, faults>>
    \/ block = 0 /\ faults < MaxFaults /\ faults' = faults + 1 /\ rewound' = TRUE

(* Mutation: the newest block is left for the next poll. *)
SomethingNew_exclusive(from_block) == from_block < Len(chain)

SomethingNew(from_block) == from_block <= Len(chain)

FirstBlock(from_block) == IF from_block = 0 THEN 1 ELSE from_block

(* Blocks are numbered from 1, and the position is the next one to read.   *)
StartPoll ==
    /\ poll = Idle
    /\ \E from_block \in {0, last_indexed_block} :
         /\ get_last_indexed_block(from_block)
         /\ SomethingNew(from_block)
         /\ poll' = [pc |-> "apply", first |-> FirstBlock(from_block),
                     next |-> FirstBlock(from_block), latest |-> Len(chain)]
    /\ UNCHANGED <<wsVars, chain, results, last_indexed_block, lost, crashes>>

(* INSERT OR IGNORE for a submission, UPDATE ... WHERE id for the others. *)
Stored(id, status) ==
    [results EXCEPT ![id] =
        IF (status = "submitted") = (@ = "absent") THEN status ELSE @]

(* The row is written, or the error is logged; the event is broadcast in   *)
(* either case.                                                            *)
ApplyEvent ==
    /\ poll.pc = "apply"
    /\ poll.next <= poll.latest
    /\ LET e == chain[poll.next] IN
       \/ /\ results' = Stored(e.id, e.status)
          /\ UNCHANGED <<lost, faults>>
       \/ /\ faults < MaxFaults
          /\ faults' = faults + 1
          /\ lost' = lost \cup {e.id}
          /\ UNCHANGED results
    /\ broadcast(poll.next)
    /\ poll' = [poll EXCEPT !.next = @ + 1]
    /\ UNCHANGED <<slotVars, conn, client, chain, last_indexed_block, rewound, crashes>>

(* Mutation: the position is saved before the events are applied. *)
SavePosition_first ==
    /\ poll.pc = "apply"
    /\ last_indexed_block' = poll.latest + 1
    /\ poll' = Idle
    /\ UNCHANGED <<wsVars, chain, results, lost, rewound, crashes, faults>>

(* set_last_indexed_block(latest + 1); on an error the loop polls again    *)
(* from the old position.                                                  *)
SavePosition ==
    /\ poll.pc = "apply"
    /\ poll.next > poll.latest
    /\ \/ last_indexed_block' = poll.latest + 1 /\ UNCHANGED faults
       \/ faults < MaxFaults /\ faults' = faults + 1 /\ UNCHANGED last_indexed_block
    /\ rewound' = (rewound /\ poll.first > 1)
    /\ poll' = Idle
    /\ UNCHANGED <<wsVars, chain, results, lost, crashes>>

Crash ==
    /\ crashes < MaxCrashes
    /\ crashes' = crashes + 1
    /\ poll' = Idle
    /\ WsReset
    /\ UNCHANGED <<chain, storeVars, faults>>

Next ==
    \/ \E id \in Results, status \in Statuses : Mined(id, status)
    \/ StartPoll \/ ApplyEvent \/ SavePosition
    \/ Crash
    \/ WsNext /\ UNCHANGED <<chain, storeVars, poll, crashes, faults>>

Spec == Init /\ [][Next]_vars

(* The poll loop sleeps and polls for ever. *)
Fairness == WF_vars(StartPoll) /\ WF_vars(ApplyEvent) /\ WF_vars(SavePosition)

FairSpec == Spec /\ Fairness

----------------------------------------------------------------------------
(* Properties *)

(* Every variable of the indexer has its type. *)
TypeOK ==
    /\ chain \in Seq([id : Results, status : Statuses])
    /\ results \in [Results -> Statuses \cup {"absent"}]
    /\ last_indexed_block \in Nat
    /\ poll.pc \in {"idle", "apply"}
    /\ {poll.first, poll.next, poll.latest} \subseteq Nat
    /\ lost \subseteq Results
    /\ rewound \in BOOLEAN
    /\ Len(event_buffer) <= buffer_capacity
    /\ conn \in [Clients -> Conn]

(* A row is never invented: it shows a status the result has had, at the   *)
(* position of the loop or later, also while a crash or a failed save      *)
(* makes events apply a second time, unless a write failed.  Only while a  *)
(* failed read of the position makes everything apply again (rewound) may  *)
(* a row that was written go back behind the position; no row disappears.  *)
RowsAreGenuine ==
    TypeOK /\ \A id \in Results \ lost :
        \E n \in 0 .. Len(chain) :
            /\ n + 1 >= last_indexed_block \/ (rewound /\ results[id] # "absent")
            /\ HasStatus(id, n, results[id])

(* Every event ends up in the table for good, through crashes, lost        *)
(* positions and failed reads of it, unless its write failed, or a crash   *)
(* cut short a poll that a failed read had made start from the first       *)
(* block: then a row may stay at an old status.                            *)
TableCatchesUp ==
    <>[](rewound \/ \A id \in Results \ lost : HasStatus(id, Len(chain), results[id]))
=============================================================================

--------------------------- MODULE OperatorProofs ---------------------------
(* Theorems about the operator, for every value of the constants: its      *)
(* watch loop (part 1), and the calls the loop makes through its circuit   *)
(* breakers (part 2).                                                      *)
EXTENDS OperatorWatch, AutoFinalize, TotalsProofs, SequenceTheorems

----------------------------------------------------------------------------
(* Part 1.  The watch loop: theorems of Spec of OperatorWatch.  Those      *)
(* about processed ids are for an operator that has not seen more disputes *)
(* than its tracker has room for.                                          *)

Chain == Seq(Event \cup {NoEvent})
Batches == SUBSET [event : Event, block : Nat]

(* OnChain and Logged, of any chain. *)
On(L, e) == \E i \in DOMAIN L : L[i] = e
At(L, i) == [event |-> L[i], block |-> i]

(* A dispute ends only after it was challenged. *)
Ordered(L) ==
    /\ \A d \in Disputes : \A i, j \in DOMAIN L : L[i] = Challenged(d) /\ L[j] = Resolved(d) => i < j
    /\ \A d \in Disputes : On(L, Resolved(d)) => On(L, Challenged(d))

(* Block i is behind a state s with the events b still to be handled. *)
Handled(L, s, b, i) == i < s.last_polled_block /\ i \notin s.unseen /\ At(L, i) \notin b

(* What a state with the events b still to be handled knows of the chain:  *)
(* the disputes it tracks were challenged,                                 *)
Reached(L, s) == s.last_polled_block <= Len(L) + 1
Known(L, s) == \A d \in s.active_disputes : On(L, Challenged(d))
(* a processed one that is not over is tracked,                            *)
Tracked(L, s) == \A d \in Disputes : Contains(s.processed_event_ids, d) /\ ~ On(L, Resolved(d))
                                        => d \in s.active_disputes
(* and so is one whose challenge is behind it, until its end is too;       *)
TakenUp(L, s, b) == \A d \in Disputes : \A i \in DOMAIN L :
    L[i] = Challenged(d) /\ Handled(L, s, b, i) /\ ~ On(L, Resolved(d)) => d \in s.active_disputes
Dropped(L, s, b) == \A d \in Disputes : \A i \in DOMAIN L :
    L[i] = Resolved(d) /\ Handled(L, s, b, i) => d \notin s.active_disputes
(* the events to come have happened, and no end of a dispute is behind     *)
(* while its challenge is to come.                                         *)
Real(L, b) == \A e \in b : On(L, e.event)
EndsLater(L, s, b) == \A d \in Disputes : \A e \in b : \A j \in DOMAIN L :
    e.event = Challenged(d) /\ L[j] = Resolved(d) => ~ Handled(L, s, b, j)
InOrder(b) == \A d \in Disputes : \A e, f \in b :
    e.event = Challenged(d) /\ f.event = Resolved(d) => e.block < f.block

Good(L, s, b) ==
    /\ Reached(L, s) /\ Known(L, s) /\ Tracked(L, s) /\ TakenUp(L, s, b) /\ Dropped(L, s, b)
    /\ Real(L, b) /\ EndsLater(L, s, b) /\ InOrder(b)

(* The state file, and where the loop can be. *)
DiskGood == disk # NoState => Good(log, disk, {}) /\ Len(disk.processed_event_ids) <= MAX_PROCESSED_IDS
Control == /\ pc # "events" => batch = {}
           /\ pc = "down" => proving = Idle /\ waiting = Idle

(* The inductive invariant. *)
WatchInv ==
    /\ TypeOK
    /\ Ordered(log)
    /\ Good(log, OpState, batch)
    /\ DiskGood /\ Control

(* With room for every id: the challenges behind a state, except those     *)
(* skipped for want of a permit (K), are among its processed ids, which    *)
(* are distinct.                                                           *)
Room == Cardinality(Disputes) <= MAX_PROCESSED_IDS
Distinct(ids) == \A i, j \in 1..Len(ids) : ids[i] = ids[j] => i = j
Remembers(L, s, b, K) == \A d \in Disputes \ K : \A i \in DOMAIN L :
    L[i] = Challenged(d) /\ Handled(L, s, b, i) => Contains(s.processed_event_ids, d)

Memory == Distinct(processed_event_ids) /\ Remembers(log, OpState, batch, skipped)
DiskMemory == disk # NoState => Distinct(disk.processed_event_ids) /\ Remembers(log, disk, {}, skipped)
OneTask == \A d \in Disputes : /\ proving[d] + waiting[d] <= 1
                               /\ proving[d] + waiting[d] > 0 => Contains(processed_event_ids, d)

RoomInv == Memory /\ DiskMemory /\ OneTask

----------------------------------------------------------------------------
(* The chain *)

(* The events are told apart by their kind and their dispute. *)
LEMMA Events ==
    /\ \A d \in Disputes : Challenged(d) \in Event /\ Resolved(d) \in Event
    /\ \A d \in Disputes : Challenged(d) # NoEvent /\ Resolved(d) # NoEvent
    /\ \A d, e \in Disputes : Challenged(d) # Resolved(e)
    /\ \A d, e \in Disputes : Challenged(d) = Challenged(e) => d = e
    /\ \A d, e \in Disputes : Resolved(d) = Resolved(e) => d = e
    /\ \A e \in Event : e.id \in Disputes /\ e # NoEvent
    /\ \A e \in Event : e.kind = "challenged" => e = Challenged(e.id)
    /\ \A e \in Event : e.kind = "resolved" => e = Resolved(e.id)
    /\ \A d \in Disputes : Challenged(d).kind = "challenged" /\ Challenged(d).id = d
    /\ \A d \in Disputes : Resolved(d).kind = "resolved" /\ Resolved(d).id = d
  BY DEF Challenged, Resolved, Event, Kinds, NoEvent

(* What a block of events, a timeout, a mined transaction and a            *)
(* reorganisation do to the chain.                                         *)
Moves(L, M) ==
    /\ M \in Chain /\ Len(L) <= Len(M)
    /\ \A i \in DOMAIN L : M[i] = L[i] \/ M[i] = NoEvent
    /\ \A e \in Event : On(L, e) => On(M, e)

(* A block behind a state keeps its event or loses it. *)
LEMMA HandledMoves ==
    ASSUME NEW L \in Chain, NEW M, Moves(L, M), NEW s \in Checkpoint, NEW b, Reached(L, s),
           NEW i \in DOMAIN M, Handled(M, s, b, i), M[i] # NoEvent
    PROVE  i \in DOMAIN L /\ L[i] = M[i] /\ Handled(L, s, b, i)
<1>1. i \in DOMAIN L
  BY DEF Handled, Reached, Moves, Chain, Checkpoint
<1>2. L[i] = M[i]
  BY <1>1 DEF Moves
<1> QED
  BY <1>1, <1>2 DEF Handled, At

(* What a state knows of the chain stays true as the chain moves. *)
LEMMA GoodMoves ==
    ASSUME NEW L \in Chain, NEW M, Moves(L, M), NEW s \in Checkpoint, NEW b \in Batches, Good(L, s, b)
    PROVE  Good(M, s, b)
<1> USE Events
<1>0. \A i \in DOMAIN M : Handled(M, s, b, i) /\ M[i] # NoEvent
                            => i \in DOMAIN L /\ L[i] = M[i] /\ Handled(L, s, b, i)
  BY HandledMoves DEF Good
<1>1. Reached(M, s)
  BY DEF Good, Reached, Moves, Chain, Checkpoint
<1>2. \A d \in Disputes : ~ On(M, Resolved(d)) => ~ On(L, Resolved(d))
  BY DEF Moves
<1>3. Known(M, s) /\ Tracked(M, s)
  BY <1>2 DEF Good, Known, Tracked, Moves, Checkpoint
<1>4. TakenUp(M, s, b)
  BY <1>0, <1>2 DEF Good, TakenUp
<1>5. Dropped(M, s, b)
  BY <1>0 DEF Good, Dropped
<1>6. Real(M, b)
  BY DEF Good, Real, Moves, Batches
<1>7. EndsLater(M, s, b)
  BY <1>0 DEF Good, EndsLater
<1> QED
  BY <1>1, <1>3, <1>4, <1>5, <1>6, <1>7 DEF Good

(* The same for the processed ids. *)
LEMMA RemembersMoves ==
    ASSUME NEW L \in Chain, NEW M, Moves(L, M), NEW s \in Checkpoint, NEW b, NEW K,
           Reached(L, s), Remembers(L, s, b, K)
    PROVE  Remembers(M, s, b, K)
<1>0. \A i \in DOMAIN M : Handled(M, s, b, i) /\ M[i] # NoEvent
                            => i \in DOMAIN L /\ L[i] = M[i] /\ Handled(L, s, b, i)
  BY HandledMoves
<1> QED
  BY <1>0, Events DEF Remembers

(* A new block with an event. *)
LEMMA AppendMoves ==
    ASSUME NEW L \in Chain, NEW e \in Event
    PROVE  /\ Moves(L, Append(L, e))
           /\ On(Append(L, e), e)
           /\ \A f : On(Append(L, e), f) => f = e \/ On(L, f)
<1> DEFINE M == Append(L, e)
<1>1. M \in Chain /\ Len(M) = Len(L) + 1
  BY DEF Chain
<1>2. \A i \in DOMAIN L : i \in DOMAIN M /\ M[i] = L[i]
  BY DEF Chain
<1>3. Len(M) \in DOMAIN M /\ M[Len(M)] = e
  BY DEF Chain
<1>4. \A i \in DOMAIN M : i \in DOMAIN L \/ i = Len(M)
  BY <1>1 DEF Chain
<1>5. Len(L) \in Nat
  BY DEF Chain
<1> HIDE DEF M
<1>6. Moves(L, M)
  BY <1>1, <1>2, <1>5 DEF Moves, On
<1>7. On(M, e) /\ \A f : On(M, f) => f = e \/ On(L, f)
  BY <1>2, <1>3, <1>4 DEF On
<1> QED
  BY <1>6, <1>7 DEF M

(* A challenge of a result never challenged before keeps the order. *)
LEMMA ChallengeKeepsOrder ==
    ASSUME NEW L \in Chain, Ordered(L), NEW d \in Disputes, ~ On(L, Challenged(d))
    PROVE  Ordered(Append(L, Challenged(d)))
<1> USE Events
<1> DEFINE M == Append(L, Challenged(d))
<1>1. \A i \in DOMAIN M : (i \in DOMAIN L /\ M[i] = L[i]) \/ (i = Len(L) + 1 /\ M[i] = Challenged(d))
  BY DEF Chain
<1>2. \A i \in DOMAIN L : i \in Nat /\ i < Len(L) + 1
  BY DEF Chain
<1>3. ~ On(L, Resolved(d))
  BY DEF Ordered
<1>4. \A f : On(M, f) => f = Challenged(d) \/ On(L, f)
  BY AppendMoves
<1>5. \A e \in Event : On(L, e) => On(M, e)
  BY AppendMoves DEF Moves
<1> HIDE DEF M
<1>6. ASSUME NEW c \in Disputes, NEW i \in DOMAIN M, NEW j \in DOMAIN M,
             M[i] = Challenged(c), M[j] = Resolved(c)
      PROVE  i < j
  <2>1. j \in DOMAIN L /\ L[j] = Resolved(c)
    BY <1>1, <1>6
  <2>2. c # d
    BY <1>3, <2>1 DEF On
  <2>3. i \in DOMAIN L /\ L[i] = Challenged(c)
    BY <1>1, <1>6, <2>2
  <2> QED
    BY <2>1, <2>3 DEF Ordered
<1>7. ASSUME NEW c \in Disputes, On(M, Resolved(c))
      PROVE  On(M, Challenged(c))
  BY <1>4, <1>5, <1>7 DEF Ordered
<1> QED
  BY <1>6, <1>7 DEF Ordered, M

(* The end of an open dispute keeps the order. *)
LEMMA ResolveKeepsOrder ==
    ASSUME NEW L \in Chain, Ordered(L), NEW d \in Disputes, On(L, Challenged(d))
    PROVE  Ordered(Append(L, Resolved(d)))
<1> USE Events
<1> DEFINE M == Append(L, Resolved(d))
<1>1. \A i \in DOMAIN M : (i \in DOMAIN L /\ M[i] = L[i]) \/ (i = Len(L) + 1 /\ M[i] = Resolved(d))
  BY DEF Chain
<1>2. \A i \in DOMAIN L : i \in Nat /\ i < Len(L) + 1
  BY DEF Chain
<1>4. \A f : On(M, f) => f = Resolved(d) \/ On(L, f)
  BY AppendMoves
<1>5. \A e \in Event : On(L, e) => On(M, e)
  BY AppendMoves DEF Moves
<1> HIDE DEF M
<1>6. ASSUME NEW c \in Disputes, NEW i \in DOMAIN M, NEW j \in DOMAIN M,
             M[i] = Challenged(c), M[j] = Resolved(c)
      PROVE  i < j
  BY <1>1, <1>2, <1>6 DEF Ordered
<1>7. ASSUME NEW c \in Disputes, On(M, Resolved(c))
      PROVE  On(M, Challenged(c))
  BY <1>4, <1>5, <1>7 DEF Ordered
<1> QED
  BY <1>6, <1>7 DEF Ordered, M

(* A sequence with one more element. *)
LEMMA Appended ==
    ASSUME NEW S, NEW N \in Seq(S), NEW e \in S, NEW n \in Nat, n = Len(N)
    PROVE  /\ Append(N, e) \in Seq(S)
           /\ Len(Append(N, e)) = n + 1
           /\ DOMAIN Append(N, e) = 1..(n + 1)
           /\ Append(N, e)[n + 1] = e
           /\ \A i \in 1..n : Append(N, e)[i] = N[i]
  OBVIOUS

(* What a reorganisation does: the newest event, at block n of L, moves to *)
(* the next block.                                                         *)
Shifted(L, M, n) ==
    /\ n \in Nat /\ n >= 1 /\ Len(L) = n /\ DOMAIN L = 1..n
    /\ M \in Chain /\ Len(M) = n + 1 /\ DOMAIN M = 1..(n + 1)
    /\ M[n + 1] = L[n] /\ M[n] = NoEvent
    /\ \A i \in 1..n : i < n => M[i] = L[i]

(* A reorganisation does that. *)
LEMMA ReorgShifts ==
    ASSUME NEW L \in Chain, L # <<>>
    PROVE  Shifted(L, Append([L EXCEPT ![Len(L)] = NoEvent], Last(L)), Len(L))
<1>1. PICK n \in Nat : n = Len(L)
  BY DEF Chain
<1>2. n >= 1 /\ DOMAIN L = 1..n /\ L[n] \in Event \cup {NoEvent}
  BY <1>1 DEF Chain
<1>3. PICK N : N = [L EXCEPT ![n] = NoEvent]
  OBVIOUS
<1>4. N \in Seq(Event \cup {NoEvent}) /\ Len(N) = n
  <2>1. N \in [1..n -> Event \cup {NoEvent}]
    BY <1>1, <1>2, <1>3 DEF Chain
  <2> QED
    BY <2>1
<1>5. N[n] = NoEvent /\ \A i \in 1..n : i < n => N[i] = L[i]
  BY <1>2, <1>3
<1>6. PICK e \in Event \cup {NoEvent} : e = L[n]
  BY <1>2
<1>7. /\ Append(N, e) \in Seq(Event \cup {NoEvent})
      /\ Len(Append(N, e)) = n + 1
      /\ DOMAIN Append(N, e) = 1..(n + 1)
      /\ Append(N, e)[n + 1] = e
      /\ \A i \in 1..n : Append(N, e)[i] = N[i]
  BY <1>4, Appended
<1>8. Append([L EXCEPT ![Len(L)] = NoEvent], Last(L)) = Append(N, e)
  BY <1>1, <1>3, <1>6 DEF Last
<1>9. PICK M : M = Append(N, e)
  OBVIOUS
<1>10. Shifted(L, M, n)
  BY <1>1, <1>2, <1>5, <1>6, <1>7, <1>9 DEF Shifted, Chain
<1> QED
  BY <1>1, <1>8, <1>9, <1>10

(* It keeps the events and their order. *)
LEMMA ShiftMoves ==
    ASSUME NEW L \in Chain, Ordered(L), NEW M, NEW n, Shifted(L, M, n)
    PROVE  Moves(L, M) /\ Ordered(M)
<1> USE Events
<1>1. n \in Nat /\ n >= 1 /\ DOMAIN L = 1..n /\ DOMAIN M = 1..(n + 1)
  BY DEF Shifted
<1>2. \A i \in DOMAIN L : M[i] = L[i] \/ M[i] = NoEvent
  BY DEF Shifted
<1>3. ASSUME NEW e, On(L, e) PROVE On(M, e)
  <2>1. PICK i \in 1..n : L[i] = e
    BY <1>1, <1>3 DEF On
  <2>2. CASE i = n
    BY <1>1, <2>1, <2>2 DEF On, Shifted
  <2>3. CASE i # n
    BY <1>1, <2>1, <2>3 DEF On, Shifted
  <2> QED
    BY <2>2, <2>3
<1>4. \A i \in DOMAIN M : M[i] # NoEvent => \/ i \in 1..n /\ i < n /\ M[i] = L[i]
                                            \/ i = n + 1 /\ M[i] = L[n]
  BY DEF Shifted
<1>5. ASSUME NEW c \in Disputes, NEW i \in DOMAIN M, NEW j \in DOMAIN M,
             M[i] = Challenged(c), M[j] = Resolved(c)
      PROVE  i < j
  <2>1. \/ i \in 1..n /\ i < n /\ L[i] = Challenged(c)
        \/ i = n + 1 /\ L[n] = Challenged(c)
    BY <1>4, <1>5
  <2>2. \/ j \in 1..n /\ j < n /\ L[j] = Resolved(c)
        \/ j = n + 1 /\ L[n] = Resolved(c)
    BY <1>4, <1>5
  <2>3. \A k, m \in 1..n : L[k] = Challenged(c) /\ L[m] = Resolved(c) => k < m
    BY <1>1 DEF Ordered
  <2>4. n \in 1..n
    BY <1>1
  <2>5. CASE i = n + 1 /\ L[n] = Challenged(c)
    BY <1>1, <2>2, <2>3, <2>4, <2>5
  <2>6. CASE i \in 1..n /\ i < n /\ L[i] = Challenged(c)
    BY <1>1, <2>2, <2>3, <2>4, <2>6
  <2> QED
    BY <2>1, <2>5, <2>6
<1>6. ASSUME NEW c \in Disputes, On(M, Resolved(c))
      PROVE  On(M, Challenged(c))
  <2>1. PICK i \in DOMAIN M : M[i] = Resolved(c)
    BY <1>6 DEF On
  <2>2. On(L, Resolved(c))
    BY <1>1, <1>4, <2>1 DEF On
  <2> QED
    BY <1>3, <2>2 DEF Ordered
<1>7. Moves(L, M)
  BY <1>1, <1>2, <1>3 DEF Moves, Shifted
<1> QED
  BY <1>5, <1>6, <1>7 DEF Ordered

----------------------------------------------------------------------------
(* What the loop does to a state s and the events b still to be handled *)

(* A state with nothing polled knows nothing. *)
LEMMA NothingPolled ==
    ASSUME NEW L \in Chain
    PROVE  /\ DefaultState \in Checkpoint
           /\ Good(L, DefaultState, {})
           /\ Distinct(DefaultState.processed_event_ids)
           /\ \A K : Remembers(L, DefaultState, {}, K)
<1>1. DefaultState \in Checkpoint
  BY DEF DefaultState, Checkpoint
<1>2. \A i \in DOMAIN L : ~ Handled(L, DefaultState, {}, i)
  BY DEF Handled, DefaultState, Chain
<1>3. \A d : ~ Contains(DefaultState.processed_event_ids, d)
  BY DEF Contains, DefaultState
<1>4. Reached(L, DefaultState) /\ Known(L, DefaultState)
  BY DEF Reached, Known, DefaultState, Chain
<1>5. Good(L, DefaultState, {})
  BY <1>2, <1>3, <1>4 DEF Good, Tracked, TakenUp, Dropped, Real, EndsLater, InOrder
<1>6. Distinct(DefaultState.processed_event_ids)
  BY DEF Distinct, DefaultState
<1> QED
  BY <1>1, <1>2, <1>5, <1>6 DEF Remembers

(* The events of the blocks from n on. *)
From(L, n) == {At(L, i) : i \in {k \in DOMAIN L : k >= n /\ L[k] # NoEvent}}

(* A poll puts behind the state only what it returns. *)
LEMMA PollGood ==
    ASSUME NEW L \in Chain, Ordered(L), NEW s \in Checkpoint, Good(L, s, {}),
           NEW t \in Checkpoint, t.last_polled_block = Len(L) + 1,
           t.active_disputes = s.active_disputes, t.processed_event_ids = s.processed_event_ids,
           t.unseen = s.unseen,
           NEW b, b = From(L, s.last_polled_block)
    PROVE  /\ b \in Batches
           /\ Good(L, t, b)
           /\ \A K : Remembers(L, s, {}, K) => Remembers(L, t, b, K)
<1> USE Events
<1>1. PICK n \in Nat : n = s.last_polled_block
  BY DEF Checkpoint
<1>2. \A e \in b : e.block \in DOMAIN L /\ e.block >= n /\ L[e.block] # NoEvent /\ e.event = L[e.block]
  BY <1>1 DEF From, At
<1>3. \A i \in DOMAIN L : i \in Nat /\ L[i] \in Event \cup {NoEvent} /\ i <= Len(L)
  BY DEF Chain
<1>4. \A i \in DOMAIN L : i >= n /\ L[i] # NoEvent => At(L, i) \in b
  BY <1>1 DEF From
<1>5. b \in Batches
  BY <1>3 DEF From, At, Batches
<1>6. \A i \in DOMAIN L : Handled(L, t, b, i) /\ L[i] # NoEvent => Handled(L, s, {}, i) /\ i < n
  BY <1>1, <1>3, <1>4 DEF Handled
<1>7. Reached(L, t) /\ Known(L, t) /\ Tracked(L, t)
  BY DEF Good, Reached, Known, Tracked, Chain
<1>8. TakenUp(L, t, b)
  BY <1>6 DEF Good, TakenUp
<1>9. Dropped(L, t, b)
  BY <1>6 DEF Good, Dropped
<1>10. Real(L, b)
  BY <1>2 DEF Real, On
<1>11. EndsLater(L, t, b)
  <2> SUFFICES ASSUME NEW d \in Disputes, NEW e \in b, NEW j \in DOMAIN L,
                      e.event = Challenged(d), L[j] = Resolved(d), Handled(L, t, b, j)
               PROVE  FALSE
    BY DEF EndsLater
  <2>1. e.block < j
    BY <1>2 DEF Ordered
  <2>2. j < n
    BY <1>6
  <2> QED
    BY <1>2, <1>3, <2>1, <2>2
<1>12. InOrder(b)
  BY <1>2 DEF InOrder, Ordered
<1>13. \A K : Remembers(L, s, {}, K) => Remembers(L, t, b, K)
  BY <1>6 DEF Remembers
<1> QED
  BY <1>5, <1>7, <1>8, <1>9, <1>10, <1>11, <1>12, <1>13 DEF Good

(* Events dropped at a shutdown are recorded in unseen. *)
LEMMA DropGood ==
    ASSUME NEW L \in Chain, NEW s \in Checkpoint, NEW b \in Batches, Good(L, s, b),
           NEW t \in Checkpoint, t.last_polled_block = s.last_polled_block,
           t.active_disputes = s.active_disputes, t.processed_event_ids = s.processed_event_ids,
           t.unseen = s.unseen \cup {e.block : e \in b}
    PROVE  /\ Good(L, t, {})
           /\ \A K : Remembers(L, s, b, K) => Remembers(L, t, {}, K)
<1>1. \A i : Handled(L, t, {}, i) => Handled(L, s, b, i)
  BY DEF Handled, At
<1>2. Reached(L, t) /\ Known(L, t) /\ Tracked(L, t)
  BY DEF Good, Reached, Known, Tracked
<1>3. TakenUp(L, t, {})
  BY <1>1 DEF Good, TakenUp
<1>4. Dropped(L, t, {})
  BY <1>1 DEF Good, Dropped
<1>5. Real(L, {}) /\ EndsLater(L, t, {}) /\ InOrder({})
  BY DEF Real, EndsLater, InOrder
<1>6. \A K : Remembers(L, s, b, K) => Remembers(L, t, {}, K)
  BY <1>1 DEF Remembers
<1> QED
  BY <1>2, <1>3, <1>4, <1>5, <1>6 DEF Good

(* A handled event is the only one that is newly behind the state. *)
LEMMA OneMoreHandled ==
    ASSUME NEW L \in Chain, NEW s, NEW t, t.last_polled_block = s.last_polled_block, t.unseen = s.unseen,
           NEW b, NEW e \in b
    PROVE  \A i : Handled(L, t, b \ {e}, i) => Handled(L, s, b, i) \/ (e.event = L[i] /\ e.block = i)
BY DEF Handled, At

(* A challenge becomes a tracked dispute, or it was processed before; none *)
(* of the processed ids is new but its own.                                *)
LEMMA ChallengeGood ==
    ASSUME NEW L \in Chain, NEW s \in Checkpoint, NEW b \in Batches, Good(L, s, b),
           NEW e \in b, NEW d \in Disputes, e.event = Challenged(d),
           NEW t \in Checkpoint, t.last_polled_block = s.last_polled_block, t.unseen = s.unseen,
           \/ t.active_disputes = s.active_disputes \cup {d}
           \/ t.active_disputes = s.active_disputes /\ Contains(s.processed_event_ids, d),
           \A c \in Disputes : Contains(t.processed_event_ids, c) => c = d \/ Contains(s.processed_event_ids, c)
    PROVE  Good(L, t, b \ {e})
<1> USE Events
<1>1. \A i : Handled(L, t, b \ {e}, i) => Handled(L, s, b, i) \/ L[i] = Challenged(d)
  BY OneMoreHandled
<1>2. \A c \in Disputes \ {d} : c \in t.active_disputes <=> c \in s.active_disputes
  OBVIOUS
<1>3. d \in t.active_disputes \/ On(L, Resolved(d))
  BY DEF Good, Tracked
<1>4. On(L, Challenged(d))
  BY DEF Good, Real
<1>5. Reached(L, t)
  BY DEF Good, Reached
<1>6. Known(L, t)
  BY <1>2, <1>4 DEF Good, Known, Checkpoint
<1>7. Tracked(L, t)
  BY <1>2, <1>3 DEF Good, Tracked
<1>8. TakenUp(L, t, b \ {e})
  <2> SUFFICES ASSUME NEW c \in Disputes, NEW i \in DOMAIN L, L[i] = Challenged(c),
                      Handled(L, t, b \ {e}, i), ~ On(L, Resolved(c)), c # d
               PROVE  c \in t.active_disputes
    BY <1>3 DEF TakenUp
  <2>1. Handled(L, s, b, i)
    BY <1>1
  <2> QED
    BY <1>2, <2>1 DEF Good, TakenUp
<1>9. Dropped(L, t, b \ {e})
  <2> SUFFICES ASSUME NEW c \in Disputes, NEW i \in DOMAIN L, L[i] = Resolved(c),
                      Handled(L, t, b \ {e}, i)
               PROVE  c \notin t.active_disputes
    BY DEF Dropped
  <2>0. L[i] # Challenged(d)
    OBVIOUS
  <2>1. Handled(L, s, b, i)
    BY <1>1, <2>0, Zenon
  <2>2. c # d
    BY <2>1 DEF Good, EndsLater
  <2> QED
    BY <1>2, <2>1, <2>2 DEF Good, Dropped
<1>10. Real(L, b \ {e}) /\ InOrder(b \ {e})
  BY DEF Good, Real, InOrder
<1>11. EndsLater(L, t, b \ {e})
  <2> SUFFICES ASSUME NEW c \in Disputes, NEW f \in b \ {e}, NEW j \in DOMAIN L,
                      f.event = Challenged(c), L[j] = Resolved(c), Handled(L, t, b \ {e}, j)
               PROVE  FALSE
    BY DEF EndsLater
  <2>1. L[j] # Challenged(d)
    OBVIOUS
  <2>2. Handled(L, s, b, j)
    BY <1>1, <2>1, Zenon
  <2> QED
    BY <2>2 DEF Good, EndsLater
<1> QED
  BY <1>5, <1>6, <1>7, <1>8, <1>9, <1>10, <1>11 DEF Good

(* The end of a dispute: it is tracked no more. *)
LEMMA EndGood ==
    ASSUME NEW L \in Chain, NEW s \in Checkpoint, NEW b \in Batches, Good(L, s, b),
           NEW e \in b, \A f \in b : e.block <= f.block, NEW d \in Disputes, e.event = Resolved(d),
           NEW t \in Checkpoint, t.last_polled_block = s.last_polled_block, t.unseen = s.unseen,
           t.active_disputes = s.active_disputes \ {d}, t.processed_event_ids = s.processed_event_ids
    PROVE  Good(L, t, b \ {e})
<1> USE Events
<1>1. \A i : Handled(L, t, b \ {e}, i) => Handled(L, s, b, i) \/ L[i] = Resolved(d)
  BY OneMoreHandled
<1>2. \A c \in Disputes \ {d} : c \in t.active_disputes <=> c \in s.active_disputes
  OBVIOUS
<1>3. On(L, Resolved(d))
  BY DEF Good, Real
<1>4. Reached(L, t)
  BY DEF Good, Reached
<1>5. Known(L, t) /\ Tracked(L, t)
  BY <1>2, <1>3 DEF Good, Known, Tracked, Checkpoint
<1>6. TakenUp(L, t, b \ {e})
  BY <1>1, <1>2, <1>3 DEF Good, TakenUp
<1>7. Dropped(L, t, b \ {e})
  BY <1>1, <1>2 DEF Good, Dropped
<1>8. Real(L, b \ {e}) /\ InOrder(b \ {e})
  BY DEF Good, Real, InOrder
<1>9. EndsLater(L, t, b \ {e})
  <2> SUFFICES ASSUME NEW c \in Disputes, NEW f \in b \ {e}, NEW j \in DOMAIN L,
                      f.event = Challenged(c), L[j] = Resolved(c), Handled(L, t, b \ {e}, j)
               PROVE  FALSE
    BY DEF EndsLater
  <2>1. ~ Handled(L, s, b, j)
    BY DEF Good, EndsLater
  <2>2. L[j] = Resolved(d)
    BY <1>1, <2>1, Zenon
  <2>3. c = d
    BY <2>2 DEF Resolved
  <2>4. f.block < e.block
    BY <2>3 DEF Good, InOrder
  <2> QED
    BY <2>4 DEF Batches
<1> QED
  BY <1>4, <1>5, <1>6, <1>7, <1>8, <1>9 DEF Good

(* A handled challenge is remembered or skipped, and no id is forgotten. *)
LEMMA RemembersOneMore ==
    ASSUME NEW L \in Chain, NEW s \in Checkpoint, NEW b \in Batches,
           NEW K \in SUBSET Disputes, NEW J \in SUBSET Disputes, K \subseteq J, Remembers(L, s, b, K),
           NEW e \in b,
           NEW t \in Checkpoint, t.last_polled_block = s.last_polled_block, t.unseen = s.unseen,
           \A c \in Disputes : Contains(s.processed_event_ids, c) => Contains(t.processed_event_ids, c),
           \A d \in Disputes : e.event = Challenged(d) => d \in J \/ Contains(t.processed_event_ids, d)
    PROVE  Remembers(L, t, b \ {e}, J)
<1>1. \A i : Handled(L, t, b \ {e}, i) => Handled(L, s, b, i) \/ e.event = L[i]
  BY OneMoreHandled
<1> QED
  BY <1>1 DEF Remembers

----------------------------------------------------------------------------
(* The tracker of processed ids *)

(* Distinct ids are no more than there are disputes. *)
LEMMA DistinctLength ==
    ASSUME NEW ids \in Seq(Disputes), Distinct(ids)
    PROVE  Len(ids) <= Cardinality(Disputes)
<1>1. IsFiniteSet(Disputes)
  BY FiniteAssumption
<1>2. PICK n \in Nat : n = Len(ids)
  OBVIOUS
<1>3. IsFiniteSet(1..n) /\ Cardinality(1..n) = n
  BY FS_Interval
<1>4. ids \in Injection(1..n, Disputes)
  BY <1>2 DEF Injection, Distinct, IsInjective
<1>5. Cardinality(1..n) <= Cardinality(Disputes)
  BY <1>1, <1>4, FS_Injection
<1> QED
  BY <1>2, <1>3, <1>5

(* An inserted id is the only new one; the limit is kept. *)
LEMMA Inserted ==
    ASSUME NEW ids \in Seq(Disputes), Len(ids) <= MAX_PROCESSED_IDS, NEW d \in Disputes
    PROVE  /\ Insert(ids, d) \in Seq(Disputes)
           /\ Len(Insert(ids, d)) <= MAX_PROCESSED_IDS
           /\ \A c : Contains(Insert(ids, d), c) => c = d \/ Contains(ids, c)
<1>0. MAX_PROCESSED_IDS \in Nat \ {0}
  BY OperatorAssumption
<1>1. CASE Contains(ids, d)
  BY <1>1 DEF Insert
<1>2. CASE ~ Contains(ids, d)
  <2>1. PICK n \in Nat : n = Len(ids)
    OBVIOUS
  <2>2. PICK grown : grown = Append(ids, d)
    OBVIOUS
  <2>3. /\ grown \in Seq(Disputes) /\ Len(grown) = n + 1
        /\ grown[n + 1] = d /\ \A i \in 1..n : grown[i] = ids[i]
    BY <2>1, <2>2, Appended
  <2>4. PICK k \in {1, 2} : k = IF Len(grown) > MAX_PROCESSED_IDS THEN 2 ELSE 1
    OBVIOUS
  <2>5. Insert(ids, d) = SubSeq(grown, k, n + 1)
    BY <1>2, <2>2, <2>3, <2>4 DEF Insert
  <2>6. PICK new : new = SubSeq(grown, k, n + 1)
    OBVIOUS
  <2>7. /\ new \in Seq(Disputes) /\ Len(new) = n + 2 - k
        /\ \A i \in 1..(n + 2 - k) : new[i] = grown[i + k - 1]
    <3>1. k \in Int /\ n + 1 \in Int /\ \A i \in k..(n + 1) : grown[i] \in Disputes
      BY <2>3
    <3>2. /\ SubSeq(grown, k, n + 1) \in Seq(Disputes)
          /\ Len(SubSeq(grown, k, n + 1)) = IF k <= n + 1 THEN n + 1 - k + 1 ELSE 0
          /\ \A i \in 1..(n + 1 - k + 1) : SubSeq(grown, k, n + 1)[i] = grown[k + i - 1]
      BY <3>1, SubSeqProperties
    <3> QED
      BY <2>6, <3>2
  <2>8. Len(new) <= MAX_PROCESSED_IDS
    BY <1>0, <2>1, <2>3, <2>4, <2>7
  <2>9. ASSUME NEW c, Contains(new, c) PROVE c = d \/ Contains(ids, c)
    <3>1. PICK i \in 1..(n + 2 - k) : new[i] = c
      BY <2>7, <2>9 DEF Contains
    <3>2. PICK m \in 1..(n + 1) : m = i + k - 1
      BY <2>4, <3>1
    <3>3. grown[m] = c
      BY <2>7, <3>1, <3>2
    <3> QED
      BY <2>1, <2>3, <3>2, <3>3 DEF Contains
  <2> QED
    BY <2>5, <2>6, <2>7, <2>8, <2>9
<1> QED
  BY <1>1, <1>2

(* With room for every id none is evicted. *)
LEMMA InsertedWithRoom ==
    ASSUME Room, NEW ids \in Seq(Disputes), Distinct(ids), NEW d \in Disputes
    PROVE  /\ Distinct(Insert(ids, d))
           /\ Contains(Insert(ids, d), d)
           /\ \A c : Contains(ids, c) => Contains(Insert(ids, d), c)
<1>0. MAX_PROCESSED_IDS \in Nat /\ Cardinality(Disputes) \in Nat
  BY OperatorAssumption, FiniteAssumption, FS_CardinalityType
<1>1. CASE Contains(ids, d)
  BY <1>1 DEF Insert
<1>2. CASE ~ Contains(ids, d)
  <2>1. PICK n \in Nat : n = Len(ids)
    OBVIOUS
  <2>2. PICK grown : grown = Append(ids, d)
    OBVIOUS
  <2>3. /\ grown \in Seq(Disputes) /\ Len(grown) = n + 1
        /\ grown[n + 1] = d /\ \A i \in 1..n : grown[i] = ids[i]
    BY <2>1, <2>2, Appended
  <2>4. \A i \in 1..n : ids[i] # d
    BY <1>2, <2>1 DEF Contains
  <2>5. Distinct(grown)
    BY <2>1, <2>3, <2>4 DEF Distinct
  <2>6. Len(grown) <= MAX_PROCESSED_IDS
    BY <1>0, <2>3, <2>5, DistinctLength DEF Room
  <2>7. SubSeq(grown, 1, Len(grown)) = grown
    BY <2>3, SubSeqFull
  <2>8. Insert(ids, d) = grown
    BY <1>0, <1>2, <2>2, <2>3, <2>6, <2>7 DEF Insert
  <2>9. Contains(grown, d) /\ \A c : Contains(ids, c) => Contains(grown, c)
    BY <2>1, <2>3 DEF Contains
  <2> QED
    BY <2>5, <2>8, <2>9
<1> QED
  BY <1>1, <1>2

----------------------------------------------------------------------------
(* The steps *)

(* The state of a well-typed operator. *)
LEMMA StateType == TypeOK => /\ OpState \in Checkpoint /\ log \in Chain /\ batch \in Batches
                             /\ OpState.last_polled_block = from_block
                             /\ OpState.active_disputes = active_disputes
                             /\ OpState.processed_event_ids = processed_event_ids
                             /\ OpState.unseen = unseen
  BY DEF TypeOK, OpState, Checkpoint, Chain, Batches

(* OnChain and Logged are the above of the log. *)
LEMMA OfLog == /\ \A e : OnChain(e) <=> On(log, e)
               /\ \A n : EventsFrom(n) = From(log, n)
  BY DEF OnChain, On, EventsFrom, From, Logged, At

ChainNext == Reorg \/ \E d \in Disputes : Challenge(d) \/ TimeOut(d) \/ Mine(d)

(* What the chain does. *)
LEMMA ChainStep ==
    ASSUME TypeOK, Ordered(log), ChainNext
    PROVE  /\ Moves(log, log') /\ Ordered(log') /\ mempool' \in SUBSET Disputes
           /\ UNCHANGED <<pc, dry_run, batch, stateVars, taskVars, shutting_down, disk, history>>
<1> USE Events, OfLog
<1>0. log \in Chain /\ mempool \in SUBSET Disputes
  BY DEF TypeOK, Chain
<1>1. CASE Reorg
  <2>1. Shifted(log, log', Len(log))
    BY <1>0, <1>1, ReorgShifts DEF Reorg
  <2>2. Moves(log, log') /\ Ordered(log')
    BY <1>0, <2>1, ShiftMoves
  <2> QED
    BY <1>0, <1>1, <2>2 DEF Reorg
<1>2. ASSUME NEW d \in Disputes, Challenge(d)
      PROVE  Moves(log, log') /\ Ordered(log')
  BY <1>0, <1>2, AppendMoves, ChallengeKeepsOrder DEF Challenge
<1>3. ASSUME NEW d \in Disputes, Open(d), log' = Append(log, Resolved(d))
      PROVE  Moves(log, log') /\ Ordered(log')
  BY <1>0, <1>3, AppendMoves, ResolveKeepsOrder DEF Open
<1>4. ASSUME log' = log
      PROVE  Moves(log, log') /\ Ordered(log')
  BY <1>0, <1>4 DEF Moves, Chain
<1>5. ASSUME NEW d \in Disputes, Challenge(d)
      PROVE  UNCHANGED <<mempool, pc, dry_run, batch, stateVars, taskVars, shutting_down, disk, history>>
  BY <1>5 DEF Challenge
<1>6. ASSUME NEW d \in Disputes, TimeOut(d)
      PROVE  /\ Moves(log, log') /\ Ordered(log')
             /\ UNCHANGED <<mempool, pc, dry_run, batch, stateVars, taskVars, shutting_down, disk, history>>
  BY <1>3, <1>6 DEF TimeOut
<1>7. ASSUME NEW d \in Disputes, Mine(d)
      PROVE  /\ Moves(log, log') /\ Ordered(log') /\ mempool' \in SUBSET Disputes
             /\ UNCHANGED <<pc, dry_run, batch, stateVars, taskVars, shutting_down, disk, history>>
  <2>1. Moves(log, log') /\ Ordered(log')
    BY <1>3, <1>4, <1>7 DEF Mine
  <2> QED
    BY <1>0, <1>7, <2>1 DEF Mine
<1> QED
  BY <1>0, <1>1, <1>2, <1>5, <1>6, <1>7 DEF ChainNext

(* No task is running when every count is zero. *)
LEMMA NoTasks == Idle \in [Disputes -> Nat] /\ Total(Idle) = 0
<1>1. Idle \in [Disputes -> {0}]
  BY DEF Idle
<1> QED
  BY <1>1, FiniteAssumption, TotalZero

(* A count of tasks goes up or down by one, and their total with it. *)
LEMMA CountChanges ==
    ASSUME NEW f \in [Disputes -> Nat], NEW d \in Disputes, NEW n \in {1, -1}, f[d] + n \in Nat
    PROVE  /\ Total(f) \in Nat
           /\ [f EXCEPT ![d] = f[d] + n] \in [Disputes -> Nat]
           /\ Total([f EXCEPT ![d] = f[d] + n]) = Total(f) + n
<1>1. PICK g : g = [f EXCEPT ![d] = f[d] + n]
  OBVIOUS
<1>2. g \in [Disputes -> Nat] /\ g[d] = f[d] + n /\ \A c \in Disputes \ {d} : g[c] = f[c]
  BY <1>1
<1>3. f \in [Disputes -> Int] /\ g \in [Disputes -> Int] /\ IsFiniteSet(Disputes)
  BY <1>2, FiniteAssumption
<1>4. Total(f) \in Int /\ Total(g) = Total(f) - f[d] + g[d]
  BY <1>2, <1>3, TotalChange
<1>5. Total(f) \in Nat
  BY <1>3, TotalNat
<1> QED
  BY <1>1, <1>2, <1>4, <1>5

(* The tasks: within the permits whatever they do. *)
TasksOK == /\ proving \in [Disputes -> Nat] /\ waiting \in [Disputes -> Nat]
           /\ InFlight <= MaxConcurrent

(* A task started with a free permit, one that sends its proof and one     *)
(* that ends.                                                              *)
LEMMA TaskSteps ==
    ASSUME TasksOK, NEW d \in Disputes
    PROVE  /\ StartProof(d) => TasksOK'
           /\ SubmitProof(d) => TasksOK'
           /\ TaskEnds(d) => TasksOK'
<1>0. /\ proving \in [Disputes -> Nat] /\ waiting \in [Disputes -> Nat]
      /\ Total(proving) + Total(waiting) <= MaxConcurrent
      /\ MaxConcurrent \in Nat
      /\ Total(proving) \in Nat /\ Total(waiting) \in Nat
  BY OperatorAssumption, FiniteAssumption, TotalNat DEF TasksOK, InFlight
<1>1. ASSUME NEW f \in [Disputes -> Nat]
      PROVE  /\ [f EXCEPT ![d] = f[d] + 1] \in [Disputes -> Nat]
             /\ Total([f EXCEPT ![d] = f[d] + 1]) = Total(f) + 1
  <2>1. f[d] + 1 \in Nat /\ 1 \in {1, -1}
    OBVIOUS
  <2> QED
    BY <2>1, CountChanges
<1>2. ASSUME NEW f \in [Disputes -> Nat], f[d] > 0
      PROVE  /\ [f EXCEPT ![d] = f[d] - 1] \in [Disputes -> Nat]
             /\ Total([f EXCEPT ![d] = f[d] - 1]) = Total(f) - 1
  <2>1. f[d] - 1 = f[d] + (-1) /\ f[d] + (-1) \in Nat /\ -1 \in {1, -1}
    BY <1>2
  <2> QED
    BY <2>1, CountChanges
<1>3. ASSUME StartProof(d) PROVE TasksOK'
  <2>1. /\ proving' = [proving EXCEPT ![d] = proving[d] + 1] /\ waiting' = waiting
        /\ Total(proving) + Total(waiting) < MaxConcurrent
    BY <1>3 DEF StartProof, InFlight
  <2>2. proving' \in [Disputes -> Nat] /\ Total(proving') = Total(proving) + 1
    BY <1>0, <1>1, <2>1
  <2> QED
    BY <1>0, <2>1, <2>2 DEF TasksOK, InFlight
<1>4. ASSUME SubmitProof(d) PROVE TasksOK'
  <2>1. /\ proving' = [proving EXCEPT ![d] = proving[d] - 1] /\ proving[d] > 0
        /\ waiting' = [waiting EXCEPT ![d] = waiting[d] + 1]
    BY <1>4 DEF SubmitProof
  <2>2. proving' \in [Disputes -> Nat] /\ Total(proving') = Total(proving) - 1
    BY <1>0, <1>2, <2>1
  <2>3. waiting' \in [Disputes -> Nat] /\ Total(waiting') = Total(waiting) + 1
    BY <1>0, <1>1, <2>1
  <2> QED
    BY <1>0, <2>2, <2>3 DEF TasksOK, InFlight
<1>5. ASSUME TaskEnds(d) PROVE TasksOK'
  <2>1. CASE proving[d] > 0 /\ proving' = [proving EXCEPT ![d] = proving[d] - 1] /\ waiting' = waiting
    <3>1. proving' \in [Disputes -> Nat] /\ Total(proving') = Total(proving) - 1
      BY <1>0, <1>2, <2>1
    <3> QED
      BY <1>0, <2>1, <3>1 DEF TasksOK, InFlight
  <2>2. CASE waiting[d] > 0 /\ waiting' = [waiting EXCEPT ![d] = waiting[d] - 1] /\ proving' = proving
    <3>1. waiting' \in [Disputes -> Nat] /\ Total(waiting') = Total(waiting) - 1
      BY <1>0, <1>2, <2>2
    <3> QED
      BY <1>0, <2>2, <3>1 DEF TasksOK, InFlight
  <2> QED
    BY <1>5, <2>1, <2>2 DEF TaskEnds
<1> QED
  BY <1>3, <1>4, <1>5

TypeRest ==
    /\ log \in Chain /\ mempool \in SUBSET Disputes
    /\ pc \in {"down", "poll", "events", "drain"} /\ dry_run \in BOOLEAN
    /\ from_block \in Nat /\ batch \in Batches
    /\ active_disputes \in SUBSET Disputes
    /\ processed_event_ids \in Seq(Disputes) /\ Len(processed_event_ids) <= MAX_PROCESSED_IDS
    /\ shutting_down \in BOOLEAN
    /\ disk \in Checkpoint \cup {NoState}
    /\ started \in SUBSET Disputes /\ skipped \in SUBSET Disputes /\ unseen \in SUBSET Nat

(* Nothing is of every type. *)
LEMMA Empty ==
    /\ <<>> \in Chain /\ {} \in Batches
    /\ <<>> \in Seq(Disputes) /\ Len(<<>>) = 0 /\ 0 <= MAX_PROCESSED_IDS
    /\ DryRunModes \in SUBSET BOOLEAN
<1>1. MAX_PROCESSED_IDS \in Nat /\ DryRunModes \in SUBSET BOOLEAN
  BY OperatorAssumption
<1> QED
  BY <1>1 DEF Chain, Batches

(* The two parts of the type invariant. *)
LEMMA TypeParts ==
    /\ TypeOK <=> TypeRest /\ TasksOK
    /\ TypeOK' <=> TypeRest' /\ TasksOK'
<1>1. TypeOK <=> TypeRest /\ TasksOK
  BY DEF TypeOK, TypeRest, TasksOK, Chain, Batches
<1>2. TypeOK' <=> TypeRest' /\ TasksOK'
  BY DEF TypeOK, TypeRest, TasksOK, Chain, Batches
<1> QED
  BY <1>1, <1>2

(* An event has been handled. *)
EventStep(e) ==
    /\ batch' = batch \ {e} /\ pc = "events"
    /\ UNCHANGED <<log, mempool, pc, dry_run, from_block, unseen, shutting_down, disk>>

(* Handling the oldest event of the batch. *)
LEMMA NextEventIs ==
    ASSUME TypeRest, NEW e \in batch, NEW kind, NextEvent(e, kind)
    PROVE  /\ EventStep(e) /\ \A f \in batch : e.block <= f.block
           /\ kind = "challenged" => e.event = Challenged(e.event.id)
           /\ kind = "resolved" => e.event = Resolved(e.event.id)
           /\ e.event.id \in Disputes
<1>1. e.event \in Event
  BY DEF TypeRest, Batches
<1>2. e.event.kind = kind /\ EventStep(e) /\ \A f \in batch : e.block <= f.block
  BY DEF NextEvent, EventStep, Oldest, chainVars
<1> QED
  BY <1>1, <1>2, Events

(* A challenge is skipped as processed, or taken up. *)
LEMMA SkipIs ==
    ASSUME TypeRest, SkipProcessed
    PROVE  \E e \in batch, d \in Disputes :
               /\ EventStep(e) /\ e.event = Challenged(d) /\ Contains(processed_event_ids, d)
               /\ UNCHANGED <<active_disputes, processed_event_ids, proving, waiting, started, skipped>>
<1>1. PICK e \in batch : NextEvent(e, "challenged") /\ AlreadyProcessed(e.event.id)
  BY DEF SkipProcessed
<1>2. EventStep(e) /\ e.event = Challenged(e.event.id) /\ e.event.id \in Disputes
  BY <1>1, NextEventIs
<1>3. UNCHANGED <<active_disputes, processed_event_ids, proving, waiting, started, skipped>>
  BY DEF SkipProcessed, taskVars, history
<1> QED
  BY <1>1, <1>2, <1>3 DEF AlreadyProcessed

(* A new challenge. *)
LEMMA NewIs ==
    ASSUME TypeRest, NEW d \in Disputes, NewChallenge(d)
    PROVE  /\ \E e \in batch : EventStep(e) /\ e.event = Challenged(d)
           /\ ~ Contains(processed_event_ids, d) /\ active_disputes' = active_disputes \cup {d}
<1>1. PICK e \in batch : NextEvent(e, "challenged") /\ e.event.id = d
  BY DEF NewChallenge
<1>2. EventStep(e) /\ e.event = Challenged(e.event.id)
  BY <1>1, NextEventIs
<1> QED
  BY <1>1, <1>2 DEF NewChallenge, AlreadyProcessed

(* The end of a dispute. *)
LEMMA OverIs ==
    ASSUME TypeRest, DisputeOver
    PROVE  \E e \in batch, d \in Disputes :
               /\ EventStep(e) /\ e.event = Resolved(d) /\ \A f \in batch : e.block <= f.block
               /\ active_disputes' = active_disputes \ {d}
               /\ UNCHANGED <<processed_event_ids, proving, waiting, started, skipped>>
<1>1. PICK e \in batch : NextEvent(e, "resolved") /\ active_disputes' = active_disputes \ {e.event.id}
  BY DEF DisputeOver
<1>2. /\ EventStep(e) /\ e.event = Resolved(e.event.id) /\ e.event.id \in Disputes
      /\ \A f \in batch : e.block <= f.block
  BY <1>1, NextEventIs
<1>3. UNCHANGED <<processed_event_ids, proving, waiting, started, skipped>>
  BY DEF DisputeOver, taskVars, history
<1> QED
  BY <1>1, <1>2, <1>3

(* The steps that handle a challenge, in one. *)
TakeUp(d) == StartProof(d) \/ LogDryRun(d) \/ NoPermit(d)

(* What they do to the tracker and the tasks. *)
LEMMA TakeUpIs ==
    ASSUME TypeRest, NEW d \in Disputes, TakeUp(d)
    PROVE  /\ \E e \in batch : EventStep(e) /\ e.event = Challenged(d)
           /\ ~ Contains(processed_event_ids, d) /\ active_disputes' = active_disputes \cup {d}
           /\ \/ /\ processed_event_ids' = Insert(processed_event_ids, d)
                 /\ skipped' = skipped
              \/ /\ processed_event_ids' = processed_event_ids
                 /\ skipped' = skipped \cup {d}
           /\ started' \in SUBSET Disputes
           /\ StartProof(d) \/ UNCHANGED <<proving, waiting>>
<1>1. NewChallenge(d)
  BY DEF TakeUp, StartProof, LogDryRun, NoPermit
<1>2. started \in SUBSET Disputes
  BY DEF TypeRest
<1> QED
  BY <1>1, <1>2, NewIs DEF TakeUp, StartProof, LogDryRun, NoPermit, taskVars, history

----------------------------------------------------------------------------
(* Every step keeps WatchInv *)

(* The chain. *)
LEMMA ChainKeepsWatch == WatchInv /\ ChainNext => WatchInv'
<1> SUFFICES ASSUME WatchInv, ChainNext PROVE WatchInv'
  OBVIOUS
<1>0. TypeRest /\ TasksOK /\ Ordered(log) /\ Good(log, OpState, batch) /\ DiskGood /\ Control /\ TypeOK
  BY TypeParts DEF WatchInv
<1>1. /\ Moves(log, log') /\ Ordered(log') /\ mempool' \in SUBSET Disputes
      /\ UNCHANGED <<pc, dry_run, batch, stateVars, taskVars, shutting_down, disk, history>>
  BY <1>0, ChainStep
<1>2. TypeRest' /\ TasksOK'
  BY <1>0, <1>1 DEF TypeRest, TasksOK, InFlight, Moves, stateVars, taskVars, history
<1>3. PICK s : s = OpState
  OBVIOUS
<1>4. OpState' = s /\ s \in Checkpoint
  BY <1>0, <1>1, <1>3, StateType DEF OpState, stateVars
<1>5. Good(log', OpState', batch')
  BY <1>0, <1>1, <1>3, <1>4, GoodMoves DEF TypeRest
<1>6. DiskGood'
  <2> {} \in Batches
    BY DEF Batches
  <2>1. CASE disk = NoState
    BY <1>1, <2>1 DEF DiskGood
  <2>2. CASE disk # NoState
    <3>1. disk \in Checkpoint /\ Good(log, disk, {})
      BY <1>0, <2>2 DEF TypeRest, DiskGood
    <3>2. Good(log', disk, {})
      BY <1>0, <1>1, <3>1, GoodMoves DEF TypeRest
    <3> QED
      BY <1>0, <1>1, <3>2 DEF DiskGood
  <2> QED
    BY <2>1, <2>2
<1>7. Control'
  BY <1>0, <1>1 DEF Control, taskVars
<1> QED
  BY <1>1, <1>2, <1>5, <1>6, <1>7, TypeParts DEF WatchInv

(* The handled events. *)
LEMMA EventKeepsWatch ==
    WatchInv /\ (SkipProcessed \/ DisputeOver \/ \E d \in Disputes : TakeUp(d)) => WatchInv'
<1> SUFFICES ASSUME WatchInv, SkipProcessed \/ DisputeOver \/ \E d \in Disputes : TakeUp(d)
             PROVE  WatchInv'
  OBVIOUS
<1>0. TypeRest /\ TasksOK /\ Ordered(log) /\ Good(log, OpState, batch) /\ DiskGood /\ Control /\ TypeOK
  BY TypeParts DEF WatchInv
<1>a. /\ OpState \in Checkpoint /\ log \in Chain /\ batch \in Batches
      /\ OpState.last_polled_block = from_block /\ OpState.active_disputes = active_disputes
      /\ OpState.processed_event_ids = processed_event_ids /\ OpState.unseen = unseen
  BY <1>0, StateType
<1>b. PICK s : s = OpState
  OBVIOUS
<1>c. PICK t : t = OpState'
  OBVIOUS
<1>d. /\ t.last_polled_block = from_block' /\ t.active_disputes = active_disputes'
      /\ t.processed_event_ids = processed_event_ids' /\ t.unseen = unseen'
  BY <1>c DEF OpState
<1>e. ASSUME TypeRest' PROVE t \in Checkpoint
  BY <1>c, <1>e DEF OpState, TypeRest, Checkpoint
<1>1. ASSUME NEW e \in batch, EventStep(e), UNCHANGED <<proving, waiting>> PROVE TasksOK'
  BY <1>0, <1>1 DEF TasksOK, InFlight
<1>2. ASSUME NEW e \in batch, EventStep(e), TypeRest', TasksOK', Good(log, t, batch \ {e})
      PROVE  WatchInv'
  <2>1. Ordered(log') /\ DiskGood' /\ Control'
    BY <1>0, <1>2 DEF EventStep, DiskGood, Control
  <2>2. Good(log', OpState', batch')
    BY <1>2, <1>c DEF EventStep
  <2> QED
    BY <1>2, <2>1, <2>2, TypeParts DEF WatchInv
<1>3. CASE SkipProcessed
  <2>1. PICK e \in batch, d \in Disputes :
               /\ EventStep(e) /\ e.event = Challenged(d) /\ Contains(processed_event_ids, d)
               /\ UNCHANGED <<active_disputes, processed_event_ids, proving, waiting, started, skipped>>
    BY <1>0, <1>3, SkipIs
  <2>2. TypeRest'
    BY <1>0, <2>1 DEF TypeRest, EventStep, Batches
  <2>3. TasksOK' /\ t \in Checkpoint
    BY <1>1, <1>e, <2>1, <2>2
  <2>4. /\ t.last_polled_block = s.last_polled_block /\ t.unseen = s.unseen
        /\ t.active_disputes = s.active_disputes /\ t.processed_event_ids = s.processed_event_ids
        /\ Contains(s.processed_event_ids, d)
    BY <1>a, <1>b, <1>d, <2>1 DEF EventStep
  <2>5. Good(log, t, batch \ {e})
    BY <1>0, <1>a, <1>b, <2>1, <2>3, <2>4, ChallengeGood
  <2> QED
    BY <1>2, <2>1, <2>2, <2>3, <2>5
<1>4. CASE DisputeOver
  <2>1. PICK e \in batch, d \in Disputes :
               /\ EventStep(e) /\ e.event = Resolved(d) /\ \A f \in batch : e.block <= f.block
               /\ active_disputes' = active_disputes \ {d}
               /\ UNCHANGED <<processed_event_ids, proving, waiting, started, skipped>>
    BY <1>0, <1>4, OverIs
  <2>2. TypeRest'
    BY <1>0, <2>1 DEF TypeRest, EventStep, Batches
  <2>3. TasksOK' /\ t \in Checkpoint
    BY <1>1, <1>e, <2>1, <2>2
  <2>4. /\ t.last_polled_block = s.last_polled_block /\ t.unseen = s.unseen
        /\ t.active_disputes = s.active_disputes \ {d} /\ t.processed_event_ids = s.processed_event_ids
    BY <1>a, <1>b, <1>d, <2>1 DEF EventStep
  <2>5. Good(log, t, batch \ {e})
    BY <1>0, <1>a, <1>b, <2>1, <2>3, <2>4, EndGood
  <2> QED
    BY <1>2, <2>1, <2>2, <2>3, <2>5
<1>5. ASSUME NEW d \in Disputes, TakeUp(d) PROVE WatchInv'
  <2>0. /\ \E e \in batch : EventStep(e) /\ e.event = Challenged(d)
        /\ active_disputes' = active_disputes \cup {d}
        /\ \/ processed_event_ids' = Insert(processed_event_ids, d) /\ skipped' = skipped
           \/ processed_event_ids' = processed_event_ids /\ skipped' = skipped \cup {d}
        /\ started' \in SUBSET Disputes
        /\ StartProof(d) \/ UNCHANGED <<proving, waiting>>
    BY <1>0, <1>5, TakeUpIs
  <2>1. PICK e \in batch : EventStep(e) /\ e.event = Challenged(d)
    BY <2>0
  <2>2. /\ processed_event_ids' \in Seq(Disputes) /\ Len(processed_event_ids') <= MAX_PROCESSED_IDS
        /\ \A c : Contains(processed_event_ids', c) => c = d \/ Contains(processed_event_ids, c)
    <3>1. processed_event_ids \in Seq(Disputes) /\ Len(processed_event_ids) <= MAX_PROCESSED_IDS
      BY <1>0 DEF TypeRest
    <3>2. CASE processed_event_ids' = Insert(processed_event_ids, d)
      BY <3>1, <3>2, Inserted
    <3>3. CASE processed_event_ids' = processed_event_ids
      BY <3>1, <3>3
    <3> QED
      BY <2>0, <3>2, <3>3
  <2>3. TypeRest'
    <3>1. skipped' \in SUBSET Disputes /\ active_disputes' \in SUBSET Disputes
      BY <1>0, <2>0 DEF TypeRest
    <3> QED
      BY <1>0, <2>0, <2>1, <2>2, <3>1 DEF TypeRest, EventStep, Batches
  <2>4. TasksOK' /\ t \in Checkpoint
    BY <1>0, <1>1, <1>e, <2>0, <2>1, <2>3, TaskSteps
  <2>5. /\ t.last_polled_block = s.last_polled_block /\ t.unseen = s.unseen
        /\ t.active_disputes = s.active_disputes \cup {d}
        /\ \A c \in Disputes : Contains(t.processed_event_ids, c) => c = d \/ Contains(s.processed_event_ids, c)
    BY <1>a, <1>b, <1>d, <2>0, <2>1, <2>2 DEF EventStep
  <2>6. Good(log, t, batch \ {e})
    BY <1>0, <1>a, <1>b, <2>1, <2>4, <2>5, ChallengeGood
  <2> QED
    BY <1>2, <2>1, <2>3, <2>4, <2>6
<1> QED
  BY <1>3, <1>4, <1>5

(* Polls, and the events dropped at a shutdown. *)
LEMMA PollKeepsWatch == WatchInv /\ (Poll \/ PollFails \/ SkipRemaining) => WatchInv'
<1> SUFFICES ASSUME WatchInv, Poll \/ PollFails \/ SkipRemaining PROVE WatchInv'
  OBVIOUS
<1>0. TypeRest /\ TasksOK /\ Ordered(log) /\ Good(log, OpState, batch) /\ DiskGood /\ Control /\ TypeOK
  BY TypeParts DEF WatchInv
<1>a. /\ OpState \in Checkpoint /\ log \in Chain /\ batch \in Batches
      /\ OpState.last_polled_block = from_block /\ OpState.active_disputes = active_disputes
      /\ OpState.processed_event_ids = processed_event_ids /\ OpState.unseen = unseen
  BY <1>0, StateType
<1>b. PICK s : s = OpState
  OBVIOUS
<1>c. PICK t : t = OpState'
  OBVIOUS
<1>d. /\ t.last_polled_block = from_block' /\ t.active_disputes = active_disputes'
      /\ t.processed_event_ids = processed_event_ids' /\ t.unseen = unseen'
  BY <1>c DEF OpState
<1>e. ASSUME from_block' \in Nat, unseen' \in SUBSET Nat, UNCHANGED <<active_disputes, processed_event_ids>>
      PROVE  t \in Checkpoint
  BY <1>0, <1>c, <1>e DEF OpState, TypeRest, Checkpoint
<1>1. CASE Poll
  <2>1. /\ pc = "poll" /\ pc' = "events" /\ batch' = From(log, from_block) /\ from_block' = NextBlock(from_block)
        /\ UNCHANGED <<log, mempool, dry_run, active_disputes, processed_event_ids, unseen, proving, waiting,
                       shutting_down, disk, started, skipped>>
    BY <1>1, OfLog DEF Poll, chainVars, taskVars, history
  <2>2. batch = {}
    BY <1>0, <2>1 DEF Control
  <2>3. from_block' = Len(log) + 1 /\ from_block' \in Nat
    <3>1. from_block <= Len(log) + 1 /\ from_block \in Nat /\ Len(log) \in Nat
      BY <1>0, <1>a DEF Good, Reached, TypeRest, Chain
    <3> QED
      BY <2>1, <3>1 DEF NextBlock
  <2>4. t \in Checkpoint
    BY <1>0, <1>e, <2>1, <2>3 DEF TypeRest
  <2>5. /\ t.last_polled_block = Len(log) + 1 /\ t.unseen = s.unseen
        /\ t.active_disputes = s.active_disputes /\ t.processed_event_ids = s.processed_event_ids
        /\ s.last_polled_block = from_block
    BY <1>a, <1>b, <1>d, <2>1, <2>3
  <2>6. PICK b : b = From(log, from_block)
    OBVIOUS
  <2>7. b \in Batches /\ Good(log, t, b)
    BY <1>0, <1>a, <1>b, <2>2, <2>4, <2>5, <2>6, PollGood
  <2>8. TypeRest' /\ TasksOK'
    BY <1>0, <2>1, <2>3, <2>6, <2>7 DEF TypeRest, TasksOK, InFlight
  <2>9. Ordered(log') /\ DiskGood' /\ Control' /\ Good(log', OpState', batch')
    BY <1>0, <1>c, <2>1, <2>6, <2>7 DEF DiskGood, Control
  <2> QED
    BY <2>8, <2>9, TypeParts DEF WatchInv
<1>2. CASE PollFails
  <2>1. /\ pc = "poll" /\ pc' = "events"
        /\ UNCHANGED <<log, mempool, dry_run, batch, from_block, active_disputes, processed_event_ids, unseen,
                       proving, waiting, shutting_down, disk, started, skipped>>
    BY <1>2 DEF PollFails, chainVars, stateVars, taskVars, history
  <2>2. TypeRest' /\ TasksOK'
    BY <1>0, <2>1 DEF TypeRest, TasksOK, InFlight
  <2>3. OpState' = OpState
    BY <2>1 DEF OpState
  <2>4. Ordered(log') /\ DiskGood' /\ Control' /\ Good(log', OpState', batch')
    BY <1>0, <2>1, <2>3 DEF DiskGood, Control
  <2> QED
    BY <2>2, <2>4, TypeParts DEF WatchInv
<1>3. CASE SkipRemaining
  <2>1. /\ pc = "events" /\ batch' = {} /\ unseen' = unseen \cup {e.block : e \in batch}
        /\ UNCHANGED <<log, mempool, pc, dry_run, from_block, active_disputes, processed_event_ids,
                       proving, waiting, shutting_down, disk, started, skipped>>
    BY <1>3 DEF SkipRemaining, chainVars, taskVars, history
  <2>2. unseen' \in SUBSET Nat
    BY <1>0, <2>1 DEF TypeRest, Batches
  <2>3. t \in Checkpoint
    BY <1>0, <1>e, <2>1, <2>2 DEF TypeRest
  <2>4. /\ t.last_polled_block = s.last_polled_block /\ t.unseen = s.unseen \cup {e.block : e \in batch}
        /\ t.active_disputes = s.active_disputes /\ t.processed_event_ids = s.processed_event_ids
    BY <1>a, <1>b, <1>d, <2>1
  <2>5. Good(log, t, {})
    BY <1>0, <1>a, <1>b, <2>3, <2>4, DropGood
  <2>6. TypeRest' /\ TasksOK'
    BY <1>0, <2>1, <2>2 DEF TypeRest, TasksOK, InFlight, Batches
  <2>7. Ordered(log') /\ DiskGood' /\ Control' /\ Good(log', OpState', batch')
    BY <1>0, <1>c, <2>1, <2>5 DEF DiskGood, Control
  <2> QED
    BY <2>6, <2>7, TypeParts DEF WatchInv
<1> QED
  BY <1>1, <1>2, <1>3

(* A saved state knows what the loop knew between two cycles. *)
LEMMA WrittenIsGood ==
    ASSUME WatchInv, batch = {}, log' = log, NEW saved \in BOOLEAN, Written(saved)
    PROVE  DiskGood' /\ disk' \in Checkpoint \cup {NoState}
<1>0. TypeRest /\ Good(log, OpState, {}) /\ DiskGood /\ TypeOK
  BY TypeParts DEF WatchInv
<1>1. CASE disk' = disk
  BY <1>0, <1>1 DEF DiskGood, TypeRest
<1>2. CASE disk' = OpState
  <2>1. OpState \in Checkpoint /\ OpState.processed_event_ids = processed_event_ids
    BY <1>0, StateType
  <2> QED
    BY <1>0, <1>2, <2>1 DEF DiskGood, TypeRest
<1> QED
  BY <1>1, <1>2 DEF Written

(* The process that is gone has nothing but the state file. *)
LEMMA GoneKeepsWatch ==
    ASSUME WatchInv, Gone, DiskGood', disk' \in Checkpoint \cup {NoState},
           UNCHANGED <<log, mempool, dry_run, started, skipped>>
    PROVE  WatchInv'
<1>0. TypeRest /\ TasksOK /\ Ordered(log)
  BY TypeParts DEF WatchInv
<1>1. /\ pc' = "down" /\ proving' = Idle /\ waiting' = Idle /\ shutting_down' = FALSE /\ batch' = {}
      /\ from_block' = 0 /\ active_disputes' = {} /\ processed_event_ids' = <<>> /\ unseen' = {}
  BY DEF Gone, Loaded, DefaultState
<1>2. OpState' = DefaultState
  BY <1>1 DEF OpState, DefaultState
<1>3. Good(log', OpState', batch')
  BY <1>0, <1>1, <1>2, NothingPolled DEF TypeRest
<1>4. TasksOK'
  BY <1>1, NoTasks, OperatorAssumption DEF TasksOK, InFlight
<1>5. TypeRest'
  BY <1>0, <1>1, Empty DEF TypeRest
<1>6. Ordered(log') /\ Control'
  BY <1>0, <1>1 DEF Control
<1> QED
  BY <1>3, <1>4, <1>5, <1>6, TypeParts DEF WatchInv

(* Saving, stopping, crashing and starting. *)
LEMMA RestartKeepsWatch == WatchInv /\ (Save \/ Exit \/ Crash \/ Start \/ LoseState) => WatchInv'
<1> SUFFICES ASSUME WatchInv, Save \/ Exit \/ Crash \/ Start \/ LoseState PROVE WatchInv'
  OBVIOUS
<1>0. TypeRest /\ TasksOK /\ Ordered(log) /\ Good(log, OpState, batch) /\ DiskGood /\ Control /\ TypeOK
  BY TypeParts DEF WatchInv
<1>1. CASE Save
  <2>1. /\ batch = {} /\ pc' = "poll"
        /\ UNCHANGED <<log, mempool, dry_run, batch, from_block, active_disputes, processed_event_ids, unseen,
                       proving, waiting, shutting_down, started, skipped>>
    BY <1>1 DEF Save, chainVars, stateVars, taskVars, history
  <2>2. DiskGood' /\ disk' \in Checkpoint \cup {NoState}
    <3>1. PICK saved \in BOOLEAN : Written(saved)
      BY <1>1 DEF Save
    <3> QED
      BY <2>1, <3>1, WrittenIsGood
  <2>3. TypeRest' /\ TasksOK'
    BY <1>0, <2>1, <2>2 DEF TypeRest, TasksOK, InFlight
  <2>4. OpState' = OpState
    BY <2>1 DEF OpState
  <2>5. Ordered(log') /\ Control' /\ Good(log', OpState', batch')
    BY <1>0, <2>1, <2>4 DEF Control
  <2> QED
    BY <2>2, <2>3, <2>5, TypeParts DEF WatchInv
<1>2. CASE Exit
  <2>1. Gone /\ UNCHANGED <<log, mempool, dry_run, started, skipped>> /\ batch = {}
    BY <1>0, <1>2 DEF Exit, Control, chainVars, history
  <2>2. DiskGood' /\ disk' \in Checkpoint \cup {NoState}
    <3>1. PICK saved \in BOOLEAN : Written(saved)
      BY <1>2 DEF Exit
    <3> QED
      BY <2>1, <3>1, WrittenIsGood
  <2> QED
    BY <2>1, <2>2, GoneKeepsWatch
<1>3. CASE Crash
  <2>1. Gone /\ UNCHANGED <<log, mempool, dry_run, disk, started, skipped>>
    BY <1>3 DEF Crash, chainVars, history
  <2>2. DiskGood' /\ disk' \in Checkpoint \cup {NoState}
    BY <1>0, <2>1 DEF DiskGood, TypeRest
  <2> QED
    BY <2>1, <2>2, GoneKeepsWatch
<1>4. CASE Start
  <2>1. PICK s : s = IF disk = NoState THEN DefaultState ELSE disk
    OBVIOUS
  <2>2. /\ pc = "down" /\ pc' = "poll" /\ dry_run' \in DryRunModes
        /\ UNCHANGED <<log, mempool, batch, proving, waiting, shutting_down, disk, started, skipped>>
        /\ from_block' = s.last_polled_block /\ active_disputes' = s.active_disputes
        /\ processed_event_ids' = s.processed_event_ids /\ unseen' = s.unseen
    BY <1>4, <2>1 DEF Start, Loaded, chainVars, taskVars, history
  <2>3. batch = {}
    BY <1>0, <2>2 DEF Control
  <2>4. s \in Checkpoint /\ Good(log, s, {}) /\ Len(s.processed_event_ids) <= MAX_PROCESSED_IDS
    <3>1. CASE disk = NoState
      <4>1. DefaultState \in Checkpoint /\ Good(log, DefaultState, {})
        BY <1>0, NothingPolled DEF TypeRest
      <4>2. Len(DefaultState.processed_event_ids) <= MAX_PROCESSED_IDS
        BY OperatorAssumption DEF DefaultState
      <4> QED
        BY <2>1, <3>1, <4>1, <4>2
    <3>2. CASE disk # NoState
      BY <1>0, <2>1, <3>2 DEF TypeRest, DiskGood
    <3> QED
      BY <3>1, <3>2
  <2>5. OpState' = s
    BY <2>2, <2>4 DEF OpState, Checkpoint
  <2>6. dry_run' \in BOOLEAN
    BY <2>2, Empty
  <2>7. TypeRest' /\ TasksOK'
    BY <1>0, <2>2, <2>4, <2>6 DEF TypeRest, TasksOK, InFlight, Checkpoint
  <2>8. Ordered(log') /\ Control' /\ DiskGood' /\ Good(log', OpState', batch')
    BY <1>0, <2>2, <2>3, <2>4, <2>5 DEF Control, DiskGood
  <2> QED
    BY <2>7, <2>8, TypeParts DEF WatchInv
<1>5. CASE LoseState
  <2>1. /\ disk' = NoState
        /\ UNCHANGED <<log, mempool, pc, dry_run, batch, from_block, active_disputes, processed_event_ids, unseen,
                       proving, waiting, shutting_down, started, skipped>>
    BY <1>5 DEF LoseState, chainVars, stateVars, taskVars, history
  <2>2. TypeRest' /\ TasksOK'
    BY <1>0, <2>1 DEF TypeRest, TasksOK, InFlight
  <2>3. OpState' = OpState
    BY <2>1 DEF OpState
  <2>4. Ordered(log') /\ Control' /\ DiskGood' /\ Good(log', OpState', batch')
    BY <1>0, <2>1, <2>3 DEF Control, DiskGood
  <2> QED
    BY <2>2, <2>4, TypeParts DEF WatchInv
<1> QED
  BY <1>1, <1>2, <1>3, <1>4, <1>5

(* The proof tasks, the signal and the end of the loop. *)
LEMMA TaskKeepsWatch ==
    WatchInv /\ (\/ Signal \/ LeaveLoop \/ UNCHANGED vars
                 \/ \E d \in Disputes : SubmitProof(d) \/ TaskReturns(d) \/ TaskCancelled(d)) => WatchInv'
<1> SUFFICES ASSUME WatchInv, \/ Signal \/ LeaveLoop \/ UNCHANGED vars
                              \/ \E d \in Disputes : SubmitProof(d) \/ TaskEnds(d)
             PROVE  WatchInv'
  BY DEF TaskReturns, TaskCancelled
<1>0. TypeRest /\ TasksOK /\ Ordered(log) /\ Good(log, OpState, batch) /\ DiskGood /\ Control /\ TypeOK
  BY TypeParts DEF WatchInv
<1>1. ASSUME UNCHANGED <<log, dry_run, batch, from_block, active_disputes, processed_event_ids, unseen,
                         disk, started, skipped>>,
             mempool' \in SUBSET Disputes, TasksOK', Control',
             pc' \in {"down", "poll", "events", "drain"}, shutting_down' \in BOOLEAN
      PROVE  WatchInv'
  <2>1. TypeRest'
    BY <1>0, <1>1 DEF TypeRest
  <2>2. OpState' = OpState
    BY <1>1 DEF OpState
  <2>3. Ordered(log') /\ DiskGood' /\ Good(log', OpState', batch')
    BY <1>0, <1>1, <2>2 DEF DiskGood
  <2> QED
    BY <1>1, <2>1, <2>3, TypeParts DEF WatchInv
<1>2. CASE Signal
  <2>1. Control' /\ TasksOK'
    BY <1>0, <1>2 DEF Signal, Control, TasksOK, InFlight, taskVars
  <2> QED
    BY <1>0, <1>1, <1>2, <2>1 DEF Signal, TypeRest, chainVars, stateVars, taskVars, history
<1>3. CASE LeaveLoop
  <2>1. Control' /\ TasksOK'
    BY <1>0, <1>3 DEF LeaveLoop, Control, TasksOK, InFlight, taskVars
  <2> QED
    BY <1>0, <1>1, <1>3, <2>1 DEF LeaveLoop, TypeRest, chainVars, stateVars, taskVars, history
<1>4. CASE UNCHANGED vars
  <2>1. Control' /\ TasksOK'
    BY <1>0, <1>4 DEF vars, Control, TasksOK, InFlight, taskVars
  <2> QED
    BY <1>0, <1>1, <1>4, <2>1 DEF vars, TypeRest, chainVars, stateVars, taskVars, history
<1>5. ASSUME NEW d \in Disputes, SubmitProof(d) PROVE WatchInv'
  <2>1. proving[d] > 0 /\ TasksOK'
    BY <1>0, <1>5, TaskSteps DEF SubmitProof
  <2>2. pc # "down"
    BY <1>0, <2>1 DEF Control, Idle
  <2>3. Control'
    BY <1>0, <1>5, <2>2 DEF SubmitProof, Control
  <2> QED
    BY <1>0, <1>1, <1>5, <2>1, <2>3 DEF SubmitProof, TypeRest, stateVars, history
<1>6. ASSUME NEW d \in Disputes, TaskEnds(d) PROVE WatchInv'
  <2>1. (proving[d] > 0 \/ waiting[d] > 0) /\ TasksOK'
    BY <1>0, <1>6, TaskSteps DEF TaskEnds
  <2>2. pc # "down"
    BY <1>0, <2>1 DEF Control, Idle
  <2>3. Control'
    BY <1>0, <1>6, <2>2 DEF TaskEnds, Control
  <2> QED
    BY <1>0, <1>1, <1>6, <2>1, <2>3 DEF TaskEnds, TypeRest, chainVars, stateVars, history
<1> QED
  BY <1>2, <1>3, <1>4, <1>5, <1>6

(* Every step. *)
LEMMA NextKeepsWatch == WatchInv /\ [Next]_vars => WatchInv'
BY ChainKeepsWatch, EventKeepsWatch, PollKeepsWatch, RestartKeepsWatch, TaskKeepsWatch
   DEF Next, ChainNext, TakeUp

(* The operator's memory, its state file and the chain agree in every      *)
(* state: types and permits, what was handled and what is tracked.         *)
THEOREM WatchInvariant == Spec => []WatchInv
<1>1. Init => WatchInv
  <2> SUFFICES ASSUME Init PROVE WatchInv
    OBVIOUS
  <2>1. TypeRest
    BY Empty DEF Init, TypeRest
  <2>2. TasksOK
    BY NoTasks, OperatorAssumption DEF Init, TasksOK, InFlight
  <2>3. OpState = DefaultState
    BY DEF Init, OpState, DefaultState
  <2>4. Good(log, OpState, batch)
    BY <2>1, <2>3, NothingPolled DEF Init, TypeRest
  <2>5. Ordered(log) /\ DiskGood /\ Control
    BY DEF Init, Ordered, On, DiskGood, Control
  <2> QED
    BY <2>1, <2>2, <2>4, <2>5, TypeParts DEF WatchInv
<1> QED
  BY <1>1, NextKeepsWatch, PTL DEF Spec

(* Every variable keeps its type, the proof tasks stay within the permits  *)
(* and the tracker within its limit.                                       *)
THEOREM TypeCorrect == Spec => []TypeOK
<1>1. WatchInv => TypeOK
  BY DEF WatchInv
<1> QED
  BY <1>1, WatchInvariant, PTL

(* Between two cycles the tracked disputes are those challenged and not    *)
(* over, among the disputes with no event left to poll and none dropped at *)
(* a shutdown (active_disputes of cmd_watch).                              *)
THEOREM ActiveMatchChain == Spec => []ActiveDisputesMatchChain
<1>1. ASSUME WatchInv PROVE ActiveDisputesMatchChain
  <2> SUFFICES ASSUME pc = "poll", NEW d \in Disputes,
                      \A i \in DOMAIN log : log[i] \in {Challenged(d), Resolved(d)}
                                               => i < from_block /\ i \notin unseen
               PROVE  d \in active_disputes <=> Open(d)
    BY DEF ActiveDisputesMatchChain
  <2>1. PICK s : s = OpState
    OBVIOUS
  <2>2. /\ s.last_polled_block = from_block /\ s.active_disputes = active_disputes /\ s.unseen = unseen
        /\ Good(log, s, {})
    BY <1>1, <2>1, StateType DEF WatchInv, Control
  <2>3. \A i \in DOMAIN log : log[i] \in {Challenged(d), Resolved(d)} => Handled(log, s, {}, i)
    BY <2>2 DEF Handled
  <2>4. ASSUME d \in active_disputes PROVE Open(d)
    <3>1. On(log, Challenged(d))
      BY <2>2, <2>4 DEF Good, Known
    <3>2. ~ On(log, Resolved(d))
      BY <2>2, <2>3, <2>4 DEF Good, Dropped, On
    <3> QED
      BY <3>1, <3>2, OfLog DEF Open
  <2>5. ASSUME Open(d) PROVE d \in active_disputes
    <3>1. ~ On(log, Resolved(d)) /\ On(log, Challenged(d))
      BY <2>5, OfLog DEF Open
    <3>2. PICK i \in DOMAIN log : log[i] = Challenged(d)
      BY <3>1 DEF On
    <3> QED
      BY <2>2, <2>3, <3>1, <3>2 DEF Good, TakenUp
  <2> QED
    BY <2>4, <2>5
<1> QED
  BY <1>1, WatchInvariant, PTL

----------------------------------------------------------------------------
(* With room for every id: every step keeps RoomInv *)

(* More skipped disputes, fewer to remember. *)
LEMMA RemembersMore ==
    ASSUME NEW L, NEW s, NEW b, NEW K, NEW J, K \subseteq J, Remembers(L, s, b, K)
    PROVE  Remembers(L, s, b, J)
BY DEF Remembers

(* The chain. *)
LEMMA ChainKeepsRoom == WatchInv /\ RoomInv /\ ChainNext => RoomInv'
<1> SUFFICES ASSUME WatchInv, RoomInv, ChainNext PROVE RoomInv'
  OBVIOUS
<1>0. TypeRest /\ TypeOK /\ Ordered(log) /\ Good(log, OpState, batch) /\ DiskGood
  BY TypeParts DEF WatchInv
<1>1. /\ Moves(log, log')
      /\ UNCHANGED <<batch, from_block, active_disputes, processed_event_ids, unseen, proving, waiting, disk, skipped>>
  BY <1>0, ChainStep DEF stateVars, taskVars, history
<1>2. PICK s : s = OpState
  OBVIOUS
<1>3. OpState' = s /\ s \in Checkpoint
  BY <1>0, <1>1, <1>2, StateType DEF OpState
<1>4. Memory'
  <2>1. Reached(log, s) /\ Remembers(log, s, batch, skipped) /\ log \in Chain
    BY <1>0, <1>2 DEF Good, RoomInv, Memory, TypeRest
  <2>2. Remembers(log', s, batch, skipped)
    BY <1>1, <1>3, <2>1, RemembersMoves
  <2> QED
    BY <1>1, <1>3, <2>2 DEF RoomInv, Memory
<1>5. DiskMemory'
  <2>1. CASE disk = NoState
    BY <1>1, <2>1 DEF DiskMemory
  <2>2. CASE disk # NoState
    <3>1. disk \in Checkpoint /\ Reached(log, disk) /\ Remembers(log, disk, {}, skipped) /\ log \in Chain
      BY <1>0, <2>2 DEF TypeRest, DiskGood, Good, RoomInv, DiskMemory
    <3>2. Remembers(log', disk, {}, skipped)
      BY <1>1, <3>1, RemembersMoves
    <3> QED
      BY <1>1, <3>2 DEF RoomInv, DiskMemory
  <2> QED
    BY <2>1, <2>2
<1>6. OneTask'
  BY <1>1 DEF RoomInv, OneTask
<1> QED
  BY <1>4, <1>5, <1>6 DEF RoomInv

(* The handled events. *)
LEMMA EventKeepsRoom ==
    ASSUME Room, WatchInv, WatchInv', RoomInv,
           SkipProcessed \/ DisputeOver \/ \E d \in Disputes : TakeUp(d)
    PROVE  RoomInv'
<1>0. /\ TypeRest /\ TypeOK /\ TypeOK' /\ Memory /\ DiskMemory /\ OneTask /\ skipped \in SUBSET Disputes
      /\ proving \in [Disputes -> Nat] /\ waiting \in [Disputes -> Nat] /\ processed_event_ids \in Seq(Disputes)
  BY TypeParts DEF WatchInv, RoomInv, TypeRest, TypeOK
<1>a. /\ OpState \in Checkpoint /\ log \in Chain /\ batch \in Batches
      /\ OpState.last_polled_block = from_block /\ OpState.active_disputes = active_disputes
      /\ OpState.processed_event_ids = processed_event_ids /\ OpState.unseen = unseen
  BY <1>0, StateType
<1>b. PICK s : s = OpState
  OBVIOUS
<1>c. PICK t : t = OpState'
  OBVIOUS
<1>d. /\ t.last_polled_block = from_block' /\ t.active_disputes = active_disputes'
      /\ t.processed_event_ids = processed_event_ids' /\ t.unseen = unseen' /\ t \in Checkpoint
  BY <1>0, <1>c DEF OpState, TypeOK, Checkpoint
<1>e. PICK J : J = skipped'
  OBVIOUS
<1>f. J \in SUBSET Disputes
  BY <1>0, <1>e DEF TypeOK
<1>1. ASSUME NEW e \in batch, EventStep(e), skipped \subseteq J,
             \A c \in Disputes : Contains(processed_event_ids, c) => Contains(processed_event_ids', c),
             \A d \in Disputes : e.event = Challenged(d) => d \in J \/ Contains(processed_event_ids', d),
             Distinct(processed_event_ids')
      PROVE  Memory' /\ DiskMemory'
  <2>1. /\ t.last_polled_block = s.last_polled_block /\ t.unseen = s.unseen
        /\ Remembers(log, s, batch, skipped)
        /\ \A c \in Disputes : Contains(s.processed_event_ids, c) => Contains(t.processed_event_ids, c)
        /\ \A d \in Disputes : e.event = Challenged(d) => d \in J \/ Contains(t.processed_event_ids, d)
    BY <1>0, <1>a, <1>b, <1>d, <1>1 DEF EventStep, Memory
  <2>2. Remembers(log, t, batch \ {e}, J)
    BY <1>0, <1>a, <1>b, <1>d, <1>f, <1>1, <2>1, RemembersOneMore
  <2>3. Memory'
    BY <1>c, <1>e, <1>1, <2>2 DEF Memory, EventStep
  <2>4. DiskMemory'
    <3>1. ASSUME disk # NoState PROVE Remembers(log, disk, {}, J)
      BY <1>0, <1>1, <3>1, RemembersMore DEF DiskMemory
    <3> QED
      BY <1>0, <1>e, <1>1, <3>1 DEF DiskMemory, EventStep
  <2> QED
    BY <2>3, <2>4
<1>2. CASE SkipProcessed
  <2>1. PICK e \in batch, d \in Disputes :
               /\ EventStep(e) /\ e.event = Challenged(d) /\ Contains(processed_event_ids, d)
               /\ UNCHANGED <<active_disputes, processed_event_ids, proving, waiting, started, skipped>>
    BY <1>0, <1>2, SkipIs
  <2>2. \A c \in Disputes : e.event = Challenged(c) => Contains(processed_event_ids', c)
    BY <2>1 DEF Challenged
  <2>3. Memory' /\ DiskMemory'
    BY <1>0, <1>e, <1>1, <2>1, <2>2 DEF Memory
  <2>4. OneTask'
    BY <1>0, <2>1 DEF OneTask
  <2> QED
    BY <2>3, <2>4 DEF RoomInv
<1>3. CASE DisputeOver
  <2>1. PICK e \in batch, d \in Disputes :
               /\ EventStep(e) /\ e.event = Resolved(d)
               /\ UNCHANGED <<processed_event_ids, proving, waiting, started, skipped>>
    BY <1>0, <1>3, OverIs
  <2>2. \A c \in Disputes : e.event # Challenged(c)
    BY <2>1, Events
  <2>3. Memory' /\ DiskMemory'
    BY <1>0, <1>e, <1>1, <2>1, <2>2 DEF Memory
  <2>4. OneTask'
    BY <1>0, <2>1 DEF OneTask
  <2> QED
    BY <2>3, <2>4 DEF RoomInv
<1>4. ASSUME NEW d \in Disputes, TakeUp(d) PROVE RoomInv'
  <2>0. /\ \E e \in batch : EventStep(e) /\ e.event = Challenged(d)
        /\ ~ Contains(processed_event_ids, d)
        /\ \/ processed_event_ids' = Insert(processed_event_ids, d) /\ skipped' = skipped
           \/ processed_event_ids' = processed_event_ids /\ skipped' = skipped \cup {d}
        /\ StartProof(d) \/ UNCHANGED <<proving, waiting>>
    BY <1>0, <1>4, TakeUpIs
  <2>1. PICK e \in batch : EventStep(e) /\ e.event = Challenged(d)
    BY <2>0
  <2>2. /\ Distinct(Insert(processed_event_ids, d)) /\ Contains(Insert(processed_event_ids, d), d)
        /\ \A c : Contains(processed_event_ids, c) => Contains(Insert(processed_event_ids, d), c)
    BY <1>0, InsertedWithRoom DEF Memory
  <2>3. /\ Distinct(processed_event_ids') /\ skipped \subseteq skipped'
        /\ d \in skipped' \/ Contains(processed_event_ids', d)
        /\ \A c : Contains(processed_event_ids, c) => Contains(processed_event_ids', c)
    BY <1>0, <2>0, <2>2 DEF Memory
  <2>4. \A c \in Disputes : e.event = Challenged(c) => c = d
    BY <2>1 DEF Challenged
  <2>5. Memory' /\ DiskMemory'
    BY <1>e, <1>1, <2>1, <2>3, <2>4
  <2>6. OneTask'
    <3>1. CASE UNCHANGED <<proving, waiting>>
      BY <1>0, <2>3, <3>1 DEF OneTask
    <3>2. CASE StartProof(d)
      <4>1. /\ proving' = [proving EXCEPT ![d] = proving[d] + 1] /\ waiting' = waiting
            /\ processed_event_ids' = Insert(processed_event_ids, d)
        BY <3>2 DEF StartProof
      <4>2. proving[d] + waiting[d] = 0
        BY <1>0, <2>0 DEF OneTask
      <4>3. proving'[d] + waiting'[d] = 1 /\ Contains(processed_event_ids', d)
        BY <1>0, <2>2, <4>1, <4>2
      <4>4. \A c \in Disputes : c # d => proving'[c] = proving[c] /\ waiting'[c] = waiting[c]
        BY <1>0, <4>1
      <4>5. ASSUME NEW c \in Disputes
            PROVE  /\ proving'[c] + waiting'[c] <= 1
                   /\ proving'[c] + waiting'[c] > 0 => Contains(processed_event_ids', c)
        <5>1. CASE c = d
          BY <4>3, <5>1
        <5>2. CASE c # d
          BY <1>0, <2>3, <4>4, <5>2 DEF OneTask
        <5> QED
          BY <5>1, <5>2
      <4> QED
        BY <4>5 DEF OneTask
    <3> QED
      BY <2>0, <3>1, <3>2
  <2> QED
    BY <2>5, <2>6 DEF RoomInv
<1> QED
  BY <1>2, <1>3, <1>4

(* Polls, and the events dropped at a shutdown. *)
LEMMA PollKeepsRoom == WatchInv /\ WatchInv' /\ RoomInv /\ (Poll \/ PollFails \/ SkipRemaining) => RoomInv'
<1> SUFFICES ASSUME WatchInv, WatchInv', RoomInv, Poll \/ PollFails \/ SkipRemaining PROVE RoomInv'
  OBVIOUS
<1>0. /\ TypeRest /\ TypeOK /\ TypeOK' /\ Memory /\ DiskMemory /\ OneTask
      /\ Ordered(log) /\ Good(log, OpState, batch) /\ Control
  BY TypeParts DEF WatchInv, RoomInv
<1>a. /\ OpState \in Checkpoint /\ log \in Chain /\ batch \in Batches
      /\ OpState.last_polled_block = from_block /\ OpState.active_disputes = active_disputes
      /\ OpState.processed_event_ids = processed_event_ids /\ OpState.unseen = unseen
  BY <1>0, StateType
<1>b. PICK s : s = OpState
  OBVIOUS
<1>c. PICK t : t = OpState'
  OBVIOUS
<1>d. /\ t.last_polled_block = from_block' /\ t.active_disputes = active_disputes'
      /\ t.processed_event_ids = processed_event_ids' /\ t.unseen = unseen' /\ t \in Checkpoint
  BY <1>0, <1>c DEF OpState, TypeOK, Checkpoint
<1>1. ASSUME UNCHANGED <<log, processed_event_ids, proving, waiting, disk, skipped>>,
             Remembers(log, t, batch', skipped)
      PROVE  RoomInv'
  <2>1. Memory'
    BY <1>0, <1>c, <1>1 DEF Memory
  <2>2. DiskMemory' /\ OneTask'
    BY <1>0, <1>1 DEF DiskMemory, OneTask
  <2> QED
    BY <2>1, <2>2 DEF RoomInv
<1>2. CASE Poll
  <2>1. /\ pc = "poll" /\ batch' = From(log, from_block) /\ from_block' = NextBlock(from_block)
        /\ UNCHANGED <<log, active_disputes, processed_event_ids, unseen, proving, waiting, disk, skipped>>
    BY <1>2, OfLog DEF Poll, chainVars, taskVars, history
  <2>2. batch = {}
    BY <1>0, <2>1 DEF Control
  <2>3. from_block' = Len(log) + 1
    <3>1. from_block <= Len(log) + 1 /\ from_block \in Nat /\ Len(log) \in Nat
      BY <1>0, <1>a DEF Good, Reached, TypeRest, Chain
    <3> QED
      BY <2>1, <3>1 DEF NextBlock
  <2>4. /\ t.last_polled_block = Len(log) + 1 /\ t.unseen = s.unseen
        /\ t.active_disputes = s.active_disputes /\ t.processed_event_ids = s.processed_event_ids
        /\ s.last_polled_block = from_block
    BY <1>a, <1>b, <1>d, <2>1, <2>3
  <2>5. PICK b : b = From(log, from_block)
    OBVIOUS
  <2>6. \A K : Remembers(log, s, {}, K) => Remembers(log, t, b, K)
    BY <1>0, <1>a, <1>b, <1>d, <2>2, <2>4, <2>5, PollGood
  <2>7. Remembers(log, t, batch', skipped)
    BY <1>0, <1>b, <2>1, <2>2, <2>5, <2>6 DEF Memory
  <2> QED
    BY <1>1, <2>1, <2>7
<1>3. CASE PollFails
  <2>1. UNCHANGED <<log, batch, from_block, active_disputes, processed_event_ids, unseen, proving, waiting, disk,
                    skipped>>
    BY <1>3 DEF PollFails, chainVars, stateVars, taskVars, history
  <2>2. t = OpState
    BY <1>c, <2>1 DEF OpState
  <2> QED
    BY <1>0, <1>1, <2>1, <2>2 DEF Memory
<1>4. CASE SkipRemaining
  <2>1. /\ batch' = {} /\ unseen' = unseen \cup {e.block : e \in batch}
        /\ UNCHANGED <<log, from_block, active_disputes, processed_event_ids, proving, waiting, disk, skipped>>
    BY <1>4 DEF SkipRemaining, chainVars, taskVars, history
  <2>2. /\ t.last_polled_block = s.last_polled_block /\ t.unseen = s.unseen \cup {e.block : e \in batch}
        /\ t.active_disputes = s.active_disputes /\ t.processed_event_ids = s.processed_event_ids
    BY <1>a, <1>b, <1>d, <2>1
  <2>3. \A K : Remembers(log, s, batch, K) => Remembers(log, t, {}, K)
    BY <1>0, <1>a, <1>b, <1>d, <2>2, DropGood
  <2>4. Remembers(log, t, batch', skipped)
    BY <1>0, <1>b, <2>1, <2>3 DEF Memory
  <2> QED
    BY <1>1, <2>1, <2>4
<1> QED
  BY <1>2, <1>3, <1>4

(* A saved state remembers what the loop remembered. *)
LEMMA WrittenRemembers ==
    ASSUME WatchInv, RoomInv, batch = {}, UNCHANGED <<log, skipped>>, NEW saved \in BOOLEAN, Written(saved)
    PROVE  DiskMemory'
<1>1. /\ Distinct(OpState.processed_event_ids) /\ Remembers(log, OpState, {}, skipped)
      /\ DiskMemory
  BY DEF RoomInv, Memory, OpState
<1>2. CASE disk' = disk
  BY <1>1, <1>2 DEF DiskMemory
<1>3. CASE disk' = OpState
  BY <1>1, <1>3 DEF DiskMemory
<1> QED
  BY <1>2, <1>3 DEF Written

(* The process that is gone remembers nothing and runs no task. *)
LEMMA GoneKeepsRoom ==
    ASSUME WatchInv, Gone, DiskMemory', UNCHANGED <<log, skipped>>
    PROVE  RoomInv'
<1>0. log \in Chain
  BY StateType DEF WatchInv
<1>1. /\ proving' = Idle /\ waiting' = Idle /\ batch' = {}
      /\ from_block' = 0 /\ active_disputes' = {} /\ processed_event_ids' = <<>> /\ unseen' = {}
  BY DEF Gone, Loaded, DefaultState
<1>2. OpState' = DefaultState /\ processed_event_ids' = DefaultState.processed_event_ids
  BY <1>1 DEF OpState, DefaultState
<1>3. /\ Distinct(DefaultState.processed_event_ids)
      /\ \A K : Remembers(log, DefaultState, {}, K)
  BY <1>0, NothingPolled
<1>4. Memory'
  BY <1>1, <1>2, <1>3 DEF Memory
<1>5. OneTask'
  BY <1>1 DEF OneTask, Idle
<1> QED
  BY <1>4, <1>5 DEF RoomInv

(* Saving, stopping, crashing and starting. *)
LEMMA RestartKeepsRoom == WatchInv /\ RoomInv /\ (Save \/ Exit \/ Crash \/ Start \/ LoseState) => RoomInv'
<1> SUFFICES ASSUME WatchInv, RoomInv, Save \/ Exit \/ Crash \/ Start \/ LoseState PROVE RoomInv'
  OBVIOUS
<1>0. TypeRest /\ TypeOK /\ Memory /\ DiskMemory /\ OneTask /\ Control
  BY TypeParts DEF WatchInv, RoomInv
<1>1. CASE Save
  <2>1. /\ batch = {}
        /\ UNCHANGED <<log, batch, from_block, active_disputes, processed_event_ids, unseen, proving, waiting, skipped>>
    BY <1>1 DEF Save, chainVars, stateVars, taskVars, history
  <2>2. PICK saved \in BOOLEAN : Written(saved)
    BY <1>1 DEF Save
  <2>3. DiskMemory'
    BY <2>1, <2>2, WrittenRemembers
  <2>4. OpState' = OpState
    BY <2>1 DEF OpState
  <2>5. Memory' /\ OneTask'
    BY <1>0, <2>1, <2>4 DEF Memory, OneTask
  <2> QED
    BY <2>3, <2>5 DEF RoomInv
<1>2. CASE Exit
  <2>1. Gone /\ UNCHANGED <<log, skipped>> /\ batch = {}
    BY <1>0, <1>2 DEF Exit, Control, chainVars, history
  <2>2. PICK saved \in BOOLEAN : Written(saved)
    BY <1>2 DEF Exit
  <2> QED
    BY <2>1, <2>2, WrittenRemembers, GoneKeepsRoom
<1>3. CASE Crash
  <2>1. Gone /\ UNCHANGED <<log, disk, skipped>>
    BY <1>3 DEF Crash, chainVars, history
  <2>2. DiskMemory'
    BY <1>0, <2>1 DEF DiskMemory
  <2> QED
    BY <2>1, <2>2, GoneKeepsRoom
<1>4. CASE Start
  <2>1. PICK s : s = IF disk = NoState THEN DefaultState ELSE disk
    OBVIOUS
  <2>2. /\ pc = "down" /\ UNCHANGED <<log, batch, proving, waiting, disk, skipped>>
        /\ from_block' = s.last_polled_block /\ active_disputes' = s.active_disputes
        /\ processed_event_ids' = s.processed_event_ids /\ unseen' = s.unseen
    BY <1>4, <2>1 DEF Start, Loaded, chainVars, taskVars, history
  <2>3. batch = {} /\ proving = Idle /\ waiting = Idle
    BY <1>0, <2>2 DEF Control
  <2>4. s \in Checkpoint /\ Distinct(s.processed_event_ids) /\ Remembers(log, s, {}, skipped)
    BY <1>0, <2>1, NothingPolled DEF TypeRest, DiskMemory
  <2>5. OpState' = s
    BY <2>2, <2>4 DEF OpState, Checkpoint
  <2>6. Memory' /\ DiskMemory'
    BY <1>0, <2>2, <2>3, <2>4, <2>5 DEF Memory, DiskMemory
  <2>7. OneTask'
    BY <2>2, <2>3 DEF OneTask, Idle
  <2> QED
    BY <2>6, <2>7 DEF RoomInv
<1>5. CASE LoseState
  <2>1. /\ disk' = NoState
        /\ UNCHANGED <<log, batch, from_block, active_disputes, processed_event_ids, unseen, proving, waiting, skipped>>
    BY <1>5 DEF LoseState, chainVars, stateVars, taskVars, history
  <2>2. OpState' = OpState
    BY <2>1 DEF OpState
  <2>3. Memory' /\ OneTask' /\ DiskMemory'
    BY <1>0, <2>1, <2>2 DEF Memory, OneTask, DiskMemory
  <2> QED
    BY <2>3 DEF RoomInv
<1> QED
  BY <1>1, <1>2, <1>3, <1>4, <1>5

(* The proof tasks, the signal and the end of the loop. *)
LEMMA TaskKeepsRoom ==
    WatchInv /\ RoomInv
        /\ (\/ Signal \/ LeaveLoop \/ UNCHANGED vars
            \/ \E d \in Disputes : SubmitProof(d) \/ TaskReturns(d) \/ TaskCancelled(d)) => RoomInv'
<1> SUFFICES ASSUME WatchInv, RoomInv, \/ Signal \/ LeaveLoop \/ UNCHANGED vars
                                       \/ \E d \in Disputes : SubmitProof(d) \/ TaskEnds(d)
             PROVE  RoomInv'
  BY DEF TaskReturns, TaskCancelled
<1>0. /\ Memory /\ DiskMemory /\ OneTask
      /\ proving \in [Disputes -> Nat] /\ waiting \in [Disputes -> Nat]
  BY DEF WatchInv, RoomInv, TypeOK
<1>1. ASSUME UNCHANGED <<log, batch, from_block, active_disputes, processed_event_ids, unseen, disk, skipped>>,
             OneTask'
      PROVE  RoomInv'
  <2>1. OpState' = OpState
    BY <1>1 DEF OpState
  <2>2. Memory' /\ DiskMemory'
    BY <1>0, <1>1, <2>1 DEF Memory, DiskMemory
  <2> QED
    BY <1>1, <2>2 DEF RoomInv
<1>2. CASE Signal
  BY <1>0, <1>1, <1>2 DEF Signal, OneTask, chainVars, stateVars, taskVars, history
<1>3. CASE LeaveLoop
  BY <1>0, <1>1, <1>3 DEF LeaveLoop, OneTask, chainVars, stateVars, taskVars, history
<1>4. CASE UNCHANGED vars
  BY <1>0, <1>1, <1>4 DEF vars, OneTask, chainVars, stateVars, taskVars, history
<1>5. ASSUME NEW d \in Disputes, SubmitProof(d) PROVE RoomInv'
  <2>1. /\ proving' = [proving EXCEPT ![d] = proving[d] - 1] /\ waiting' = [waiting EXCEPT ![d] = waiting[d] + 1]
        /\ UNCHANGED <<log, batch, from_block, active_disputes, processed_event_ids, unseen, disk, skipped>>
    BY <1>5 DEF SubmitProof, stateVars, history
  <2>2. \A c \in Disputes : proving'[c] + waiting'[c] = proving[c] + waiting[c]
    BY <1>0, <2>1
  <2>3. OneTask'
    BY <1>0, <2>1, <2>2 DEF OneTask
  <2> QED
    BY <1>1, <2>1, <2>3
<1>6. ASSUME NEW d \in Disputes, TaskEnds(d) PROVE RoomInv'
  <2>1. /\ \/ proving' = [proving EXCEPT ![d] = proving[d] - 1] /\ waiting' = waiting /\ proving[d] > 0
           \/ waiting' = [waiting EXCEPT ![d] = waiting[d] - 1] /\ proving' = proving /\ waiting[d] > 0
        /\ UNCHANGED <<log, batch, from_block, active_disputes, processed_event_ids, unseen, disk, skipped>>
    BY <1>6 DEF TaskEnds, chainVars, stateVars, history
  <2>2. \A c \in Disputes : /\ proving'[c] + waiting'[c] <= proving[c] + waiting[c]
                            /\ proving'[c] + waiting'[c] \in Int /\ proving[c] + waiting[c] \in Nat
    BY <1>0, <2>1
  <2>3. OneTask'
    BY <1>0, <2>1, <2>2 DEF OneTask
  <2> QED
    BY <1>1, <2>1, <2>3
<1> QED
  BY <1>2, <1>3, <1>4, <1>5, <1>6

(* With room for every id, the state in memory and the state file remember *)
(* every challenge behind them and a task runs only for a remembered one.  *)
THEOREM RoomInvariant == ASSUME Room PROVE Spec => []RoomInv
<1>1. Init => RoomInv
  <2> SUFFICES ASSUME Init PROVE RoomInv
    OBVIOUS
  <2>1. OpState = DefaultState /\ log \in Chain /\ processed_event_ids = DefaultState.processed_event_ids
    BY Empty DEF Init, OpState, DefaultState
  <2>2. Memory
    BY <2>1, NothingPolled DEF Init, Memory
  <2>3. DiskMemory /\ OneTask
    BY DEF Init, DiskMemory, OneTask, Idle
  <2> QED
    BY <2>2, <2>3 DEF RoomInv
<1>2. WatchInv /\ WatchInv' /\ RoomInv /\ [Next]_vars => RoomInv'
  BY ChainKeepsRoom, EventKeepsRoom, PollKeepsRoom, RestartKeepsRoom, TaskKeepsRoom
     DEF Next, ChainNext, TakeUp
<1> QED
  BY <1>1, <1>2, WatchInvariant, PTL DEF Spec

(* A crash at any point loses no challenge: those in the blocks the state  *)
(* file counts as polled are among its processed ids (StateStore of        *)
(* store.rs), but for the blocks dropped at a shutdown and the challenges  *)
(* skipped for want of a permit.                                           *)
THEOREM CheckpointCovers == ASSUME Room PROVE Spec => []CheckpointCoversChallenges
<1>1. ASSUME WatchInv, RoomInv PROVE CheckpointCoversChallenges
  <2> SUFFICES ASSUME disk # NoState, NEW i \in DOMAIN log, i < disk.last_polled_block, i \notin disk.unseen,
                      log[i].kind = "challenged", log[i].id \notin skipped
               PROVE  Contains(disk.processed_event_ids, log[i].id)
    BY DEF CheckpointCoversChallenges
  <2>1. log[i] \in Event
    <3>1. log[i] \in Event \cup {NoEvent}
      BY <1>1 DEF WatchInv, TypeOK
    <3> QED
      BY <3>1 DEF NoEvent
  <2>2. log[i] = Challenged(log[i].id) /\ log[i].id \in Disputes \ skipped
    BY <2>1, Events
  <2>3. Handled(log, disk, {}, i)
    BY DEF Handled
  <2> QED
    BY <1>1, <2>2, <2>3 DEF RoomInv, DiskMemory, Remembers
<1> QED
  BY <1>1, WatchInvariant, RoomInvariant, PTL

(* One process runs at most one proof task for a dispute, though a         *)
(* reorganised block delivers its challenge twice, and no more tasks than  *)
(* it has permits (handle_challenge and proof_semaphore of cmd_watch).     *)
THEOREM OneTaskEach == ASSUME Room PROVE Spec => []OneTaskPerDispute
<1>1. WatchInv /\ RoomInv => OneTaskPerDispute
  BY DEF WatchInv, RoomInv, OneTask, OneTaskPerDispute
<1> QED
  BY <1>1, WatchInvariant, RoomInvariant, PTL


----------------------------------------------------------------------------
(* Part 2.  The breakers: theorems of CallsSpec of AutoFinalize. *)

(* A well-formed breaker. *)
GoodBreaker(b, cfg) == b \in Breaker(cfg) /\ Sound(b, cfg)

(* A new breaker is well-formed. *)
LEMMA NewIsGood ==
    ASSUME NEW cfg \in Config PROVE GoodBreaker(New, cfg)
  BY DEF Config, GoodBreaker, New, Breaker, Sound

(* Asking whether a call may pass keeps it so. *)
LEMMA AskedIsGood ==
    ASSUME NEW cfg \in Config, NEW b, GoodBreaker(b, cfg)
    PROVE  GoodBreaker(Asked(b, cfg), cfg)
  BY DEF Config, GoodBreaker, Asked, maybe_transition_to_half_open, Breaker, Sound

(* So does the passing of time. *)
LEMMA AgedIsGood ==
    ASSUME NEW cfg \in Config, NEW b, GoodBreaker(b, cfg)
    PROVE  GoodBreaker(Aged(b, cfg), cfg)
  BY DEF Config, GoodBreaker, Aged, AtMost, Breaker, Sound

(* A success counts only on trial, and the last one needed closes. *)
LEMMA SuccessIsGood ==
    ASSUME NEW cfg \in Config, NEW b \in Breaker(cfg), Sound(b, cfg)
    PROVE  GoodBreaker(record_success(b, cfg), cfg)
<1>1. CASE b.state = "HalfOpen" /\ b.successes + 1 >= cfg.success_threshold
  <2>1. record_success(b, cfg) = New
    BY <1>1 DEF record_success
  <2> QED
    BY <2>1, NewIsGood
<1>2. CASE b.state = "HalfOpen" /\ ~ (b.successes + 1 >= cfg.success_threshold)
  <2>1. record_success(b, cfg) =
            [state |-> b.state, failures |-> 0, successes |-> b.successes + 1, elapsed |-> b.elapsed]
    BY <1>2 DEF record_success, Breaker
  <2> QED
    BY <1>2, <2>1 DEF Config, GoodBreaker, Breaker, Sound
<1>3. CASE b.state # "HalfOpen"
  <2>1. record_success(b, cfg) =
            [state |-> b.state, failures |-> 0, successes |-> b.successes, elapsed |-> b.elapsed]
    BY <1>3 DEF record_success, Breaker
  <2> QED
    BY <1>3, <2>1 DEF Config, GoodBreaker, Breaker, Sound
<1> QED
  BY <1>1, <1>2, <1>3

(* The failure that reaches the threshold opens. *)
LEMMA FailureIsGood ==
    ASSUME NEW cfg \in Config, NEW b \in Breaker(cfg), Sound(b, cfg)
    PROVE  GoodBreaker(record_failure(b, cfg), cfg)
<1>1. PICK n : n = AtMost(b.failures + 1, cfg.failure_threshold)
  OBVIOUS
<1>2. PICK counted : counted = [b EXCEPT !.successes = 0, !.failures = n]
  OBVIOUS
<1>3. counted = [state |-> b.state, failures |-> n, successes |-> 0, elapsed |-> b.elapsed]
  BY <1>2 DEF Breaker
<1>4. /\ n \in 0 .. cfg.failure_threshold
      /\ b.failures < n \/ n = cfg.failure_threshold
  BY <1>1 DEF AtMost, Config, Breaker
<1>5. /\ counted \in Breaker(cfg) /\ counted.state = b.state
      /\ counted.successes = 0 /\ counted.failures = n
  BY <1>3, <1>4 DEF Config, Breaker
<1>6. record_failure(b, cfg) =
          IF b.state = "HalfOpen" \/ (b.state = "Closed" /\ counted.failures >= cfg.failure_threshold)
          THEN Opened(counted)
          ELSE counted
  BY <1>1, <1>2 DEF record_failure
<1>7. CASE record_failure(b, cfg) = Opened(counted)
  <2>1. record_failure(b, cfg) = [state |-> "Open", failures |-> n, successes |-> 0, elapsed |-> 0]
    BY <1>3, <1>7 DEF Opened
  <2> QED
    BY <1>4, <2>1 DEF Config, GoodBreaker, Breaker, Sound
<1>8. CASE /\ record_failure(b, cfg) = counted
           /\ b.state # "HalfOpen" /\ ~ (b.state = "Closed" /\ counted.failures >= cfg.failure_threshold)
  BY <1>4, <1>5, <1>8 DEF Config, GoodBreaker, Breaker, Sound
<1> QED
  BY <1>6, <1>7, <1>8

----------------------------------------------------------------------------
(* What an operation does to the state of a breaker and to its clock. *)
Kept(b, c) == c.state = b.state /\ c.elapsed = b.elapsed
OnTrial(b, c, cfg) == b.state = "Open" /\ b.elapsed >= cfg.recovery_timeout /\ c.state = "HalfOpen" /\ c.elapsed = b.elapsed
Closes(b, c) == b.state = "HalfOpen" /\ c.state = "Closed"
Trips(b, c) == b.state # "Open" /\ c.state = "Open" /\ c.elapsed = 0
Effect(b, c, cfg) == Kept(b, c) \/ OnTrial(b, c, cfg) \/ Closes(b, c) \/ Trips(b, c)

(* An open breaker goes on trial only when its time is up. *)
LEMMA AskedEffect ==
    ASSUME NEW cfg \in Config, NEW b \in Breaker(cfg)
    PROVE  Effect(b, Asked(b, cfg), cfg)
<1>1. CASE b.state = "Open" /\ b.elapsed >= cfg.recovery_timeout
  <2>1. Asked(b, cfg) = [state |-> "HalfOpen", failures |-> b.failures, successes |-> 0, elapsed |-> b.elapsed]
    BY <1>1 DEF Asked, maybe_transition_to_half_open, Breaker
  <2> QED
    BY <1>1, <2>1 DEF Effect, OnTrial
<1>2. CASE ~ (b.state = "Open" /\ b.elapsed >= cfg.recovery_timeout)
  BY <1>2 DEF Asked, maybe_transition_to_half_open, Effect, Kept
<1> QED
  BY <1>1, <1>2

(* A success closes a breaker on trial and never one that is open. *)
LEMMA SuccessEffect ==
    ASSUME NEW cfg \in Config, NEW b \in Breaker(cfg)
    PROVE  Effect(b, record_success(b, cfg), cfg)
<1>1. CASE b.state = "HalfOpen" /\ b.successes + 1 >= cfg.success_threshold
  BY <1>1 DEF record_success, New, Effect, Closes
<1>2. CASE ~ (b.state = "HalfOpen" /\ b.successes + 1 >= cfg.success_threshold)
  <2>1. PICK n : record_success(b, cfg) = [b EXCEPT !.failures = 0, !.successes = n]
    BY <1>2 DEF record_success
  <2>2. record_success(b, cfg) =
            [state |-> b.state, failures |-> 0, successes |-> n, elapsed |-> b.elapsed]
    BY <2>1 DEF Breaker
  <2> QED
    BY <2>2 DEF Effect, Kept
<1> QED
  BY <1>1, <1>2

(* A failure does not restart the clock of an open breaker. *)
LEMMA FailureEffect ==
    ASSUME NEW cfg \in Config, NEW b \in Breaker(cfg)
    PROVE  Effect(b, record_failure(b, cfg), cfg)
<1>1. PICK n : n = AtMost(b.failures + 1, cfg.failure_threshold)
  OBVIOUS
<1>2. PICK counted : counted = [b EXCEPT !.successes = 0, !.failures = n]
  OBVIOUS
<1>3. counted = [state |-> b.state, failures |-> n, successes |-> 0, elapsed |-> b.elapsed]
  BY <1>2 DEF Breaker
<1>4. record_failure(b, cfg) =
          IF b.state = "HalfOpen" \/ (b.state = "Closed" /\ counted.failures >= cfg.failure_threshold)
          THEN Opened(counted)
          ELSE counted
  BY <1>1, <1>2 DEF record_failure
<1>5. CASE record_failure(b, cfg) = Opened(counted) /\ b.state # "Open"
  <2>1. record_failure(b, cfg) = [state |-> "Open", failures |-> n, successes |-> 0, elapsed |-> 0]
    BY <1>3, <1>5 DEF Opened
  <2> QED
    BY <1>5, <2>1 DEF Effect, Trips
<1>6. CASE record_failure(b, cfg) = counted
  BY <1>3, <1>6 DEF Effect, Kept
<1> QED
  BY <1>4, <1>5, <1>6

----------------------------------------------------------------------------
(* The inductive invariant *)

(* sinceTrip is the breaker's own clock as long as that runs, and is up    *)
(* whenever the breaker lets calls through.                                *)
Timed ==
    /\ chain_cb.state # "Closed" => sinceTrip = chain_cb.elapsed
    /\ chain_cb.state # "Open" => sinceTrip = ChainConfig.recovery_timeout

CallsInv == CallsTypeOK /\ BreakersAreSound /\ Timed /\ (loop = "sent" => todo # <<>>)

(* A call to chain_cb keeps its part of the invariant. *)
LEMMA ChainBreakerStep ==
    ASSUME CallsTypeOK, Timed, NEW b, GoodBreaker(b, ChainConfig), Effect(chain_cb, b, ChainConfig), ChainBreaker(b)
    PROVE  /\ GoodBreaker(chain_cb', ChainConfig) /\ Timed'
           /\ sinceTrip' \in 0 .. ChainConfig.recovery_timeout
<1>1. chain_cb' = b /\ sinceTrip' = IF b.state = "Open" /\ chain_cb.state # "Open" THEN 0 ELSE sinceTrip
  BY DEF ChainBreaker
<1>2. ChainConfig.recovery_timeout \in Nat
  BY CallsAssumption DEF Config
<1>3. sinceTrip \in 0 .. ChainConfig.recovery_timeout /\ chain_cb.elapsed \in 0 .. ChainConfig.recovery_timeout
  BY DEF CallsTypeOK, Breaker
<1>4. CASE Kept(chain_cb, b)
  BY <1>1, <1>2, <1>3, <1>4 DEF Timed, Kept
<1>5. CASE OnTrial(chain_cb, b, ChainConfig)
  BY <1>1, <1>2, <1>3, <1>5 DEF Timed, OnTrial
<1>6. CASE Closes(chain_cb, b)
  BY <1>1, <1>2, <1>3, <1>6 DEF Timed, Closes
<1>7. CASE Trips(chain_cb, b)
  BY <1>1, <1>2, <1>3, <1>7 DEF Timed, Trips
<1> QED
  BY <1>4, <1>5, <1>6, <1>7 DEF Effect

(* Both breakers are well-formed. *)
LEMMA BothGood ==
    CallsInv => GoodBreaker(rpc_cb, RpcConfig) /\ GoodBreaker(chain_cb, ChainConfig)
  BY DEF CallsInv, CallsTypeOK, BreakersAreSound, GoodBreaker

(* The invariant from its parts. *)
LEMMA Parts ==
    ASSUME GoodBreaker(rpc_cb, RpcConfig)', GoodBreaker(chain_cb, ChainConfig)', Timed',
           sinceTrip' \in 0 .. ChainConfig.recovery_timeout,
           submitted' \in Seq(Results), ripe' \subseteq Results, challenged' \subseteq Results,
           closed' \subseteq Results, window' \in Nat \ {0}, up' \in BOOLEAN, outages' \in Nat,
           loop' \in {"poll", "list", "each", "sent", "sleep"},
           finalize_counter' \in 0 .. FinalizeEvery - 1,
           todo' \in Seq(Results), loop' = "sent" => todo' # <<>>,
           handled' \subseteq Results, tasks' \subseteq Results
    PROVE  CallsInv'
  BY DEF CallsInv, CallsTypeOK, BreakersAreSound, GoodBreaker

(* Initially the breakers are closed and no trip is recent. *)
LEMMA CallsInitInv == CallsInit => CallsInv
<1> SUFFICES ASSUME CallsInit PROVE CallsInv
  OBVIOUS
<1>1. GoodBreaker(rpc_cb, RpcConfig) /\ GoodBreaker(chain_cb, ChainConfig)
  BY CallsAssumption, NewIsGood DEF CallsInit
<1>2. Timed /\ sinceTrip \in 0 .. ChainConfig.recovery_timeout
  BY CallsAssumption DEF CallsInit, New, Timed, Config
<1>3. /\ submitted \in Seq(Results) /\ ripe \subseteq Results /\ challenged \subseteq Results
      /\ closed \subseteq Results /\ window \in Nat \ {0} /\ up \in BOOLEAN /\ outages \in Nat
      /\ loop = "poll" /\ finalize_counter \in 0 .. FinalizeEvery - 1
      /\ todo \in Seq(Results) /\ handled \subseteq Results /\ tasks \subseteq Results
  BY CallsAssumption DEF CallsInit
<1> QED
  BY <1>1, <1>2, <1>3 DEF CallsInv, CallsTypeOK, BreakersAreSound, GoodBreaker

(* Steps of the contract and of the endpoint leave the operator alone.     *)
LEMMA OutsideKeepsInv ==
    ASSUME CallsInv,
           \/ WindowMoves \/ GoesDown \/ ComesUp
           \/ \E r \in Results : Submit(r) \/ Ripen(r) \/ ChallengeResult(r) \/ CloseByOthers(r)
    PROVE  CallsInv'
<1> USE DEF CallsInv
<1>1. UNCHANGED <<breakers, loopVars, proofVars>>
  BY DEF WindowMoves, GoesDown, ComesUp, Submit, Ripen, ChallengeResult, CloseByOthers
<1>2. GoodBreaker(rpc_cb, RpcConfig)' /\ GoodBreaker(chain_cb, ChainConfig)' /\ Timed'
  BY <1>1, BothGood DEF breakers, Timed
<1>3. up' \in BOOLEAN /\ outages' \in Nat
  <2>1. CASE GoesDown
    <3>1. up' = FALSE /\ outages' = outages + 1 /\ outages \in Nat
      BY <2>1 DEF GoesDown, CallsTypeOK
    <3>2. outages' \in Nat
      BY <3>1
    <3> QED
      BY <3>1, <3>2
  <2>2. CASE ComesUp
    BY <2>2 DEF ComesUp, CallsTypeOK
  <2>3. CASE UNCHANGED endpoint
    BY <2>3 DEF endpoint, CallsTypeOK
  <2> QED
    BY <2>1, <2>2, <2>3 DEF WindowMoves, Submit, Ripen, ChallengeResult, CloseByOthers
<1>4. ripe' \subseteq Results /\ challenged' \subseteq Results /\ closed' \subseteq Results
  BY DEF WindowMoves, GoesDown, ComesUp, Submit, Ripen, ChallengeResult, CloseByOthers, CallsTypeOK, resultVars
<1>5. submitted' \in Seq(Results)
  <2>1. CASE \E r \in Results : Submit(r)
    BY <2>1 DEF Submit, CallsTypeOK
  <2>2. CASE UNCHANGED submitted
    BY <2>2 DEF CallsTypeOK
  <2> QED
    BY <2>1, <2>2 DEF WindowMoves, GoesDown, ComesUp, Ripen, ChallengeResult, CloseByOthers, resultVars
<1>6. window' \in Nat \ {0}
  BY DEF WindowMoves, GoesDown, ComesUp, Submit, Ripen, ChallengeResult, CloseByOthers, CallsTypeOK, resultVars
<1> QED
  BY <1>1, <1>2, <1>3, <1>4, <1>5, <1>6, Parts DEF CallsTypeOK, breakers, loopVars, proofVars

(* After the events the loop goes on to auto_finalize or to sleep.         *)
LEMMA CounterStep ==
    ASSUME CallsTypeOK, EventsHandled
    PROVE  loop' \in {"list", "sleep"} /\ finalize_counter' \in 0 .. FinalizeEvery - 1
  BY CallsAssumption DEF CallsTypeOK, EventsHandled

(* Steps that call rpc_cb alone. *)
LEMMA RpcKeepsInv ==
    ASSUME CallsInv, PollRefused \/ PollOk \/ PollErr \/ List
    PROVE  CallsInv'
<1> USE DEF CallsInv
<1>1. UNCHANGED <<resultVars, endpoint, chain_cb, sinceTrip>>
  BY DEF PollRefused, PollOk, PollErr, List
<1>2. GoodBreaker(Asked(rpc_cb, RpcConfig), RpcConfig)
  BY AskedIsGood, BothGood, CallsAssumption
<1>3. GoodBreaker(rpc_cb', RpcConfig)
  <2>1. \/ rpc_cb' = Asked(rpc_cb, RpcConfig)
        \/ rpc_cb' = record_success(Asked(rpc_cb, RpcConfig), RpcConfig)
        \/ rpc_cb' = record_failure(Asked(rpc_cb, RpcConfig), RpcConfig)
    BY DEF PollRefused, PollOk, PollErr, List
  <2> QED
    BY <1>2, <2>1, SuccessIsGood, FailureIsGood, CallsAssumption DEF GoodBreaker
<1>4. GoodBreaker(chain_cb, ChainConfig)' /\ Timed'
  BY <1>1, BothGood DEF Timed
<1>5. /\ loop' \in {"list", "sleep", "each"} /\ finalize_counter' \in 0 .. FinalizeEvery - 1
  BY CounterStep DEF PollRefused, PollOk, PollErr, List, CallsTypeOK
<1>6. todo' \in Seq(Results)
  <2>1. SubSeq(submitted, window, Len(submitted)) \in Seq(Results)
    <3>1. \A i \in window .. Len(submitted) : submitted[i] \in Results
      BY DEF CallsTypeOK
    <3> QED
      BY <3>1, SubSeqProperties DEF CallsTypeOK
  <2> QED
    BY <2>1 DEF PollRefused, PollOk, PollErr, List, CallsTypeOK
<1>7. handled' \subseteq Results /\ tasks' \subseteq Results
  BY DEF PollRefused, PollOk, PollErr, List, CallsTypeOK, proofVars
<1> QED
  BY <1>1, <1>3, <1>4, <1>5, <1>6, <1>7, Parts DEF CallsTypeOK, resultVars, endpoint

(* Steps that call chain_cb. *)
LEMMA ChainKeepsInv ==
    ASSUME CallsInv,
           \/ Finalize \/ RoundEnds \/ FinalizeOk \/ FinalizeErr
           \/ \E r \in Results : TaskOk(r) \/ TaskErr(r) \/ TaskDropped(r)
    PROVE  CallsInv'
<1> USE DEF CallsInv
<1> DEFINE BreakerStep(b) == GoodBreaker(b, ChainConfig) /\ Effect(chain_cb, b, ChainConfig) /\ ChainBreaker(b)
<1>1. /\ GoodBreaker(chain_cb, ChainConfig) /\ chain_cb \in Breaker(ChainConfig)
      /\ Sound(chain_cb, ChainConfig) /\ ChainConfig \in Config
  BY BothGood, CallsAssumption DEF GoodBreaker
<1>2. \/ BreakerStep(Asked(chain_cb, ChainConfig))
      \/ BreakerStep(record_success(chain_cb, ChainConfig))
      \/ BreakerStep(record_failure(chain_cb, ChainConfig))
      \/ UNCHANGED <<chain_cb, sinceTrip>>
  <2>1. \/ ChainBreaker(Asked(chain_cb, ChainConfig))
        \/ ChainBreaker(record_success(chain_cb, ChainConfig))
        \/ ChainBreaker(record_failure(chain_cb, ChainConfig))
        \/ UNCHANGED <<chain_cb, sinceTrip>>
    <3>1. ASSUME ChainBreaker(chain_cb) PROVE UNCHANGED <<chain_cb, sinceTrip>>
      BY <3>1 DEF ChainBreaker
    <3> QED
      BY <3>1 DEF Finalize, RoundEnds, FinalizeOk, FinalizeErr, FinalizeReturns, TaskOk, TaskErr, TaskDropped
  <2>2. /\ GoodBreaker(Asked(chain_cb, ChainConfig), ChainConfig)
        /\ Effect(chain_cb, Asked(chain_cb, ChainConfig), ChainConfig)
    BY <1>1, AskedIsGood, AskedEffect
  <2>3. /\ GoodBreaker(record_success(chain_cb, ChainConfig), ChainConfig)
        /\ Effect(chain_cb, record_success(chain_cb, ChainConfig), ChainConfig)
    BY <1>1, SuccessIsGood, SuccessEffect
  <2>4. /\ GoodBreaker(record_failure(chain_cb, ChainConfig), ChainConfig)
        /\ Effect(chain_cb, record_failure(chain_cb, ChainConfig), ChainConfig)
    BY <1>1, FailureIsGood, FailureEffect
  <2> QED
    BY <2>1, <2>2, <2>3, <2>4
<1>3. /\ GoodBreaker(chain_cb', ChainConfig) /\ Timed'
      /\ sinceTrip' \in 0 .. ChainConfig.recovery_timeout
  <2>1. ASSUME NEW b, BreakerStep(b)
        PROVE  /\ GoodBreaker(chain_cb', ChainConfig) /\ Timed'
               /\ sinceTrip' \in 0 .. ChainConfig.recovery_timeout
    BY <2>1, ChainBreakerStep
  <2>2. CASE UNCHANGED <<chain_cb, sinceTrip>>
    BY <1>1, <2>2 DEF Timed, CallsTypeOK
  <2> HIDE DEF BreakerStep
  <2> QED
    BY <1>2, <2>1, <2>2
<1>4. /\ UNCHANGED <<submitted, ripe, challenged, window, endpoint, rpc_cb, finalize_counter, handled>>
      /\ tasks' \subseteq Results
  BY DEF Finalize, RoundEnds, FinalizeOk, FinalizeErr, FinalizeReturns, TaskOk, TaskErr, TaskDropped, TaskOver,
         CallsTypeOK, resultVars, loopVars, proofVars
<1>5. loop = "sent" => Head(todo) \in Results /\ Tail(todo) \in Seq(Results)
  BY HeadTailProperties DEF CallsTypeOK
<1>6. closed' \subseteq Results
  BY <1>5 DEF Finalize, RoundEnds, FinalizeOk, FinalizeErr, FinalizeReturns, TaskOk, TaskErr, TaskDropped,
              CallsTypeOK, resultVars
<1>7. todo' \in Seq(Results) /\ (loop' = "sent" => todo' # <<>>)
  <2>1. CASE Finalize
    BY <2>1 DEF Finalize, CallsTypeOK
  <2>2. CASE RoundEnds
    BY <2>2 DEF RoundEnds
  <2>3. CASE FinalizeOk \/ FinalizeErr
    BY <1>5, <2>3 DEF FinalizeOk, FinalizeErr, FinalizeReturns
  <2>4. CASE UNCHANGED loopVars
    BY <2>4 DEF loopVars, CallsTypeOK
  <2> QED
    BY <2>1, <2>2, <2>3, <2>4 DEF TaskOk, TaskErr, TaskDropped, TaskOver
<1>8. loop' \in {"poll", "list", "each", "sent", "sleep"}
  BY DEF Finalize, RoundEnds, FinalizeOk, FinalizeErr, FinalizeReturns, TaskOk, TaskErr, TaskDropped, TaskOver,
         CallsTypeOK, loopVars
<1>9. GoodBreaker(rpc_cb, RpcConfig)'
  BY <1>4, BothGood
<1> QED
  BY <1>3, <1>4, <1>6, <1>7, <1>8, <1>9, Parts DEF CallsTypeOK, endpoint

(* Time passes for both breakers and for sinceTrip alike. *)
LEMMA SleepKeepsInv ==
    ASSUME CallsInv, Sleep
    PROVE  CallsInv'
<1> USE DEF CallsInv
<1>1. GoodBreaker(rpc_cb, RpcConfig)' /\ GoodBreaker(chain_cb, ChainConfig)'
  BY AgedIsGood, BothGood, CallsAssumption DEF Sleep
<1>2. /\ chain_cb \in Breaker(ChainConfig) /\ ChainConfig.recovery_timeout \in Nat
      /\ sinceTrip \in 0 .. ChainConfig.recovery_timeout
      /\ chain_cb.elapsed \in 0 .. ChainConfig.recovery_timeout
  BY CallsAssumption DEF CallsTypeOK, Breaker, Config
<1>3. sinceTrip' = AtMost(sinceTrip + 1, ChainConfig.recovery_timeout)
  BY DEF Sleep
<1>4. Timed' /\ sinceTrip' \in 0 .. ChainConfig.recovery_timeout
  <2>1. CASE chain_cb.state = "Closed"
    BY <1>2, <1>3, <2>1 DEF Sleep, Aged, AtMost, Timed
  <2>2. CASE chain_cb.state # "Closed"
    <3>1. chain_cb' = [state |-> chain_cb.state, failures |-> chain_cb.failures, successes |-> chain_cb.successes,
                       elapsed |-> AtMost(chain_cb.elapsed + 1, ChainConfig.recovery_timeout)]
      BY <1>2, <2>2 DEF Sleep, Aged, Breaker
    <3> QED
      BY <1>2, <1>3, <2>2, <3>1 DEF AtMost, Timed
  <2> QED
    BY <2>1, <2>2
<1> QED
  BY <1>1, <1>4, Parts DEF Sleep, CallsTypeOK, resultVars, endpoint, proofVars

(* The invariant is inductive. *)
LEMMA CallsKeepInv == CallsInv /\ [CallsNext]_callsVars => CallsInv'
<1> SUFFICES ASSUME CallsInv, [CallsNext]_callsVars PROVE CallsInv'
  OBVIOUS
<1>1. CASE UNCHANGED callsVars
  BY <1>1, BothGood DEF callsVars, resultVars, endpoint, breakers, loopVars, proofVars, CallsInv, CallsTypeOK, BreakersAreSound,
                        Timed, Sound
<1> QED
  BY <1>1, OutsideKeepsInv, RpcKeepsInv, ChainKeepsInv, SleepKeepsInv DEF CallsNext

(* The state is well typed, with every count and clock within the limits   *)
(* of its breaker.                                                         *)
THEOREM CallsTypeCorrect == CallsSpec => []CallsTypeOK
<1>1. CallsInv => CallsTypeOK
  BY DEF CallsInv
<1> QED
  BY <1>1, CallsInitInv, CallsKeepInv, PTL DEF CallsSpec

(* BreakersAreSound, for every configuration of the two breakers: a closed *)
(* breaker has failures to go, an open one counts no success.              *)
THEOREM SoundBreakers == CallsSpec => []BreakersAreSound
<1>1. CallsInv => BreakersAreSound
  BY DEF CallsInv
<1> QED
  BY <1>1, CallsInitInv, CallsKeepInv, PTL DEF CallsSpec

(* QuietAfterTrip: whatever late proof tasks record on the open breaker,   *)
(* auto_finalize submits nothing before recovery_timeout has passed.       *)
THEOREM Quiet == CallsSpec => QuietAfterTrip
<1> DEFINE A == loop = "each" /\ loop' = "sent" => sinceTrip >= ChainConfig.recovery_timeout
<1>1. CallsInv /\ [CallsNext]_callsVars => [A]_callsVars
  <2> SUFFICES ASSUME CallsInv, CallsNext, loop = "each", loop' = "sent"
               PROVE  sinceTrip >= ChainConfig.recovery_timeout
    OBVIOUS
  <2>1. Finalize
    BY DEF CallsNext, PollRefused, PollOk, PollErr, EventsHandled, List, RoundEnds, FinalizeOk, FinalizeErr, Sleep,
           FinalizeReturns, WindowMoves, GoesDown, ComesUp, Submit, Ripen, ChallengeResult, CloseByOthers,
           TaskOk, TaskErr, TaskDropped, TaskOver, loopVars
  <2>2. Asked(chain_cb, ChainConfig).state # "Open"
    BY <2>1 DEF Finalize, MayFinalize, allow_request
  <2>3. chain_cb.state # "Open" \/ chain_cb.elapsed >= ChainConfig.recovery_timeout
    BY <2>2 DEF Asked, maybe_transition_to_half_open
  <2>4. ChainConfig.recovery_timeout \in Nat
    BY CallsAssumption DEF Config
  <2> QED
    BY <2>3, <2>4 DEF CallsInv, Timed
<1>2. CallsSpec => []CallsInv
  BY CallsInitInv, CallsKeepInv, PTL DEF CallsSpec
<1> QED
  BY <1>1, <1>2, PTL DEF CallsSpec, QuietAfterTrip
=============================================================================

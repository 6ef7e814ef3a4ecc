----------------------------- MODULE EventStream -----------------------------
(***************************************************************************)
(* services/indexer/src/websocket.rs: the hub that numbers the indexer's   *)
(* events, keeps the last ones for replay and streams them to WebSocket    *)
(* clients, with a limit on the connections of all and of each address.    *)
(*                                                                         *)
(* A connection's task takes and gives back its two slots in separate      *)
(* steps.  The client is external: it comes back with the highest sequence *)
(* id it has seen.  A follower subscribes to all events, any other client  *)
(* to a type that does not occur: it takes a slot and receives nothing.    *)
(***************************************************************************)
EXTENDS Integers, Sequences, FiniteSets, SequencesExt, Totals

CONSTANTS
    Clients, PeerIp,    \* PeerIp: the address each client connects from
    Followers,          \* the clients that subscribe to all events
    max_connections, max_per_ip,
    buffer_capacity,    \* events kept for replay
    channel_capacity,   \* events a slow receiver may be behind
    MaxFailedUpgrades   \* bound: connections lost before the upgrade is complete

Ips == {PeerIp[c] : c \in Clients}

ASSUME FollowerAssumption == Followers \subseteq Clients /\ IsFiniteSet(Clients)

ASSUME CapacityAssumption ==
    /\ {max_connections, max_per_ip, buffer_capacity, channel_capacity} \subseteq Nat \ {0}
    /\ MaxFailedUpgrades \in Nat

VARIABLES
    next_sequence_id, event_buffer, active_connections, per_ip_connections,
    sent,       \* external: what went through the broadcast channel, by sequence id
    conn,       \* one connection task at a time for each client
    client,     \* external: the client's side
    leaked      \* history: connections lost in the upgrade, by address

slotVars   == <<active_connections, per_ip_connections, leaked>>
streamVars == <<next_sequence_id, event_buffer, sent>>
wsVars     == <<streamVars, slotVars, conn, client>>

(* The task: where it is, the sequence id its receiver reads next, the     *)
(* since_id of the client's subscribe message and whether it was read.     *)
Conn == [pc : {"none", "slot", "upgrade", "open", "release"}, cursor : Nat, since : Nat,
         greeted : BOOLEAN]

NoConn == [pc |-> "none", cursor |-> 0, since |-> 0, greeted |-> FALSE]

(* The client: the highest sequence id seen, the events received, the      *)
(* first sequence id it was connected for, whether it has cause to have    *)
(* missed something (it lagged, was away for longer than the buffer lasts, *)
(* or lost the connection with live events in hand before the replay), and *)
(* whether its cursor is from an earlier life of the server.               *)
NoClient == [last |-> 0, got |-> {}, first |-> 0, missed |-> FALSE, stale |-> FALSE]

WsInit ==
    /\ next_sequence_id = 1
    /\ event_buffer = <<>>
    /\ sent = <<>>
    /\ active_connections = 0
    /\ per_ip_connections = [ip \in Ips |-> 0]
    /\ conn = [c \in Clients |-> NoConn]
    /\ client = [c \in Clients |-> NoClient]
    /\ leaked = [ip \in Ips |-> 0]

----------------------------------------------------------------------------
Buffered(buf, item) ==
    Append(IF Len(buf) >= buffer_capacity THEN Tail(buf) ELSE buf, item)

broadcast(event) ==
    /\ next_sequence_id' = next_sequence_id + 1
    /\ event_buffer' = Buffered(event_buffer, [sequence_id |-> next_sequence_id, event |-> event])
    /\ sent' = Append(sent, event)

(* Mutation: the event with the client's own id is taken to be missing and *)
(* the next one to be known.                                               *)
events_since_offByOne(since_id) ==
    {e \in ToSet(event_buffer) : e.sequence_id > since_id + 1}

events_since(since_id) == {e \in ToSet(event_buffer) : e.sequence_id > since_id}

----------------------------------------------------------------------------
(* Connection slots *)

SetPc(c, pc) == conn' = [conn EXCEPT ![c].pc = pc]

release_slot == active_connections' = active_connections - 1

(* Mutation: the check and the increment are not one step. *)
HasRoom_stale == active_connections <= max_connections

HasRoom == active_connections < max_connections

try_acquire_slot(c) ==
    /\ conn[c].pc = "none"
    /\ HasRoom
    /\ active_connections' = active_connections + 1
    /\ SetPc(c, "slot")
    /\ UNCHANGED <<streamVars, client, per_ip_connections, leaked>>

Refuse(c) == SetPc(c, "none") /\ release_slot /\ UNCHANGED per_ip_connections

try_acquire_slot_for_ip(c) ==
    /\ conn[c].pc = "slot"
    /\ \/ per_ip_connections[PeerIp[c]] >= max_per_ip /\ Refuse(c)
       \/ /\ per_ip_connections[PeerIp[c]] < max_per_ip
          /\ per_ip_connections' = [per_ip_connections EXCEPT ![PeerIp[c]] = @ + 1]
          /\ SetPc(c, "upgrade")
          /\ UNCHANGED active_connections
    /\ UNCHANGED <<streamVars, client, leaked>>

(* on_upgrade never runs the handler when the upgrade fails, and nothing   *)
(* else gives the slots back.                                              *)
FailedUpgrade(c) ==
    /\ conn[c].pc = "upgrade"
    /\ Total(leaked) < MaxFailedUpgrades
    /\ leaked' = [leaked EXCEPT ![PeerIp[c]] = @ + 1]
    /\ SetPc(c, "none")
    /\ UNCHANGED <<streamVars, client, active_connections, per_ip_connections>>

(* handle_ws_connection starts by subscribing to the channel. *)
Open(c) ==
    /\ conn[c].pc = "upgrade"
    /\ IF c \in Followers
       THEN /\ conn' = [conn EXCEPT ![c] = [pc |-> "open", cursor |-> next_sequence_id,
                                            since |-> client[c].last, greeted |-> FALSE]]
            /\ client' = [client EXCEPT ![c].first = IF @ = 0 THEN next_sequence_id ELSE @]
       ELSE SetPc(c, "open") /\ UNCHANGED client
    /\ UNCHANGED <<streamVars, slotVars>>

(* The loop ends: a close frame, an error, a missed pong. *)
Close(c) == release_slot /\ conn' = [conn EXCEPT ![c] = [NoConn EXCEPT !.pc = "release"]]

Disconnect(c) ==
    /\ conn[c].pc = "open"
    /\ Close(c)
    /\ client' = [client EXCEPT ![c].missed =
                     @ \/ (~conn[c].greeted /\ client[c].last > conn[c].since)]
    /\ UNCHANGED <<streamVars, per_ip_connections, leaked>>

release_slot_for_ip(c) ==
    /\ conn[c].pc = "release"
    /\ per_ip_connections' = [per_ip_connections EXCEPT ![PeerIp[c]] = @ - 1]
    /\ SetPc(c, "none")
    /\ UNCHANGED <<streamVars, client, active_connections, leaked>>

----------------------------------------------------------------------------
(* Streaming *)

(* What the client makes of messages; gap: others were lost before them. *)
Received(c, items, gap) ==
    client' = [client EXCEPT ![c].got = @ \cup {e.event : e \in items},
                             ![c].last = Max({@} \cup {e.sequence_id : e \in items}),
                             ![c].missed = @ \/ gap]

(* A live event, or the notice that the receiver was overtaken. *)
Live(c) ==
    LET n == conn[c].cursor
        oldest == Len(sent) - channel_capacity + 1
    IN
    /\ conn[c].pc = "open"
    /\ n <= Len(sent)
    /\ \/ /\ n >= oldest
          /\ Received(c, {[sequence_id |-> n, event |-> sent[n]]}, FALSE)
          /\ conn' = [conn EXCEPT ![c].cursor = n + 1]
       \/ /\ n < oldest
          /\ Received(c, {}, TRUE)
          /\ conn' = [conn EXCEPT ![c].cursor = oldest]
    /\ UNCHANGED <<streamVars, slotVars>>

(* Events the client was connected for have left the buffer. *)
AwayTooLong(c) ==
    /\ event_buffer # <<>>
    /\ Head(event_buffer).sequence_id > conn[c].since + 1
    /\ Head(event_buffer).sequence_id > client[c].first

(* The client's subscribe message with since_id: everything the buffer has *)
(* after that id is sent before the loop goes on.                          *)
Subscribe(c) ==
    /\ conn[c].pc = "open"
    /\ ~conn[c].greeted
    /\ conn' = [conn EXCEPT ![c].greeted = TRUE]
    /\ Received(c, events_since(conn[c].since), AwayTooLong(c))
    /\ UNCHANGED <<streamVars, slotVars>>

(* The connection breaks during the replay, at some event: only the replay *)
(* loop ends, and the next use of the dead socket ends the connection.     *)
(* Nothing is delivered in between, so that the two are one step here.     *)
BrokenReplay(c) ==
    LET missed == events_since(conn[c].since) IN
    /\ conn[c].pc = "open"
    /\ ~conn[c].greeted
    /\ \E e \in missed :
         Received(c, {f \in missed : f.sequence_id < e.sequence_id},
                  AwayTooLong(c) \/ client[c].last > conn[c].since)
    /\ Close(c)
    /\ UNCHANGED <<streamVars, per_ip_connections, leaked>>

WsNext ==
    \/ \E c \in Clients :
         \/ try_acquire_slot(c) \/ try_acquire_slot_for_ip(c) \/ FailedUpgrade(c)
         \/ Open(c) \/ Disconnect(c) \/ release_slot_for_ip(c)
    \/ \E c \in Followers : Live(c) \/ Subscribe(c) \/ BrokenReplay(c)

(* The process dies: only the clients remember anything. *)
WsReset ==
    /\ next_sequence_id' = 1
    /\ event_buffer' = <<>>
    /\ sent' = <<>>
    /\ active_connections' = 0
    /\ per_ip_connections' = [ip \in Ips |-> 0]
    /\ leaked' = [ip \in Ips |-> 0]
    /\ conn' = [c \in Clients |-> NoConn]
    /\ client' = [c \in Clients |->
                     [client[c] EXCEPT !.stale = @ \/ client[c].first # 0]]

----------------------------------------------------------------------------
(* Properties *)

(* The counters agree with the connections, however the two steps of       *)
(* taking and of giving back a slot interleave, and the limits hold; what  *)
(* a failed upgrade held stays taken.                                      *)
SlotsAreAccountedFor ==
    LET At(pcs) == {c \in Clients : conn[c].pc \in pcs} IN
    /\ active_connections = Cardinality(At({"slot", "upgrade", "open"})) + Total(leaked)
    /\ active_connections <= max_connections
    /\ \A ip \in Ips :
         /\ per_ip_connections[ip] =
              Cardinality({c \in At({"upgrade", "open", "release"}) : PeerIp[c] = ip})
                + leaked[ip]
         /\ per_ip_connections[ip] <= max_per_ip

(* A client that comes back with its since_id has, once the replay is      *)
(* done, every event sent since it first connected, up to the one its      *)
(* receiver reads next, unless it lagged, was away for longer than the     *)
(* buffer lasts, lost an earlier connection with live events in hand       *)
(* before that one's replay, or the server was restarted.                  *)
FollowersMissNothing ==
    \A c \in Followers :
        conn[c].pc = "open" /\ conn[c].greeted /\ ~client[c].missed /\ ~client[c].stale =>
            {sent[i] : i \in client[c].first .. conn[c].cursor - 1} \subseteq client[c].got
=============================================================================

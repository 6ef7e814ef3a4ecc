---------------------------- MODULE IndexerProofs ----------------------------
(* Theorems about the indexer and its event stream, for any number of      *)
(* clients, addresses, results, events, crashes and faults.                *)
EXTENDS Indexer, TotalsProofs, SequenceTheorems

Item == [sequence_id : Nat, event : Nat]
Client == [last : Nat, got : SUBSET Nat, first : Nat, missed : BOOLEAN, stale : BOOLEAN]

(* Every variable of the stream has its type. *)
StreamTypeOK ==
    /\ conn \in [Clients -> Conn] /\ client \in [Clients -> Client]
    /\ sent \in Seq(Nat) /\ next_sequence_id = Len(sent) + 1
    /\ event_buffer \in Seq(Item)

----------------------------------------------------------------------------
(* Connection slots *)

HeldPcs == {"slot", "upgrade", "open"}
CountedPcs == {"upgrade", "open", "release"}

Held == {c \in Clients : conn[c].pc \in HeldPcs}
Counted(ip) == {c \in Clients : conn[c].pc \in CountedPcs /\ PeerIp[c] = ip}

(* SlotsAreAccountedFor, in parts. *)
SlotInv ==
    /\ active_connections = Cardinality(Held) + Total(leaked)
    /\ active_connections <= max_connections
    /\ \A ip \in Ips : /\ per_ip_connections[ip] = Cardinality(Counted(ip)) + leaked[ip]
                       /\ per_ip_connections[ip] <= max_per_ip

(* The property is SlotInv. *)
LEMMA SlotsAre == SlotInv <=> SlotsAreAccountedFor
<1>1. Held = {c \in Clients : conn[c].pc \in {"slot", "upgrade", "open"}}
  BY DEF Held, HeldPcs
<1>2. ASSUME NEW ip
      PROVE  Counted(ip) = {c \in {d \in Clients : conn[d].pc \in {"upgrade", "open", "release"}} : PeerIp[c] = ip}
  BY DEF Counted, CountedPcs
<1> QED
  BY <1>1, <1>2, Zenon DEF SlotInv, SlotsAreAccountedFor

One(b) == IF b THEN 1 ELSE 0

(* Two finite sets that differ in one element at most. *)
LEMMA OneMoves ==
    ASSUME NEW C, IsFiniteSet(C), NEW S \in SUBSET C, NEW T \in SUBSET C, NEW c \in C,
           \A x \in C \ {c} : x \in S <=> x \in T
    PROVE  /\ Cardinality(S) \in Nat /\ Cardinality(T) \in Nat
           /\ Cardinality(T) = Cardinality(S) + One(c \in T) - One(c \in S)
<1>1. IsFiniteSet(S) /\ IsFiniteSet(T)
  BY FS_Subset
<1>2. Cardinality(S) \in Nat /\ Cardinality(T) \in Nat
  BY <1>1, FS_CardinalityType
<1>3. CASE c \in S /\ c \notin T
  <2>1. T = S \ {c}
    BY <1>3
  <2>2. Cardinality(S \ {c}) = Cardinality(S) - 1
    BY <1>1, <1>3, FS_RemoveElement
  <2> QED
    BY <1>2, <1>3, <2>1, <2>2 DEF One
<1>4. CASE c \notin S /\ c \in T
  <2>1. T = S \cup {c}
    BY <1>4
  <2>2. Cardinality(S \cup {c}) = Cardinality(S) + 1
    BY <1>1, <1>4, FS_AddElement
  <2> QED
    BY <1>2, <1>4, <2>1, <2>2 DEF One
<1>5. CASE c \in S <=> c \in T
  <2>1. S = T
    BY <1>5
  <2> QED
    BY <1>2, <2>1 DEF One
<1> QED
  BY <1>3, <1>4, <1>5

(* Only c's task moves, from one place to another. *)
MovesOnly(c, from, to) ==
    /\ conn[c].pc = from /\ conn'[c].pc = to
    /\ \A x \in Clients \ {c} : conn'[x].pc = conn[x].pc

(* What that does to the two counts. *)
LEMMA CountsMove ==
    ASSUME NEW c \in Clients, NEW from, NEW to, MovesOnly(c, from, to)
    PROVE  /\ Cardinality(Held) \in Nat
           /\ Cardinality(Held') = Cardinality(Held) + One(to \in HeldPcs) - One(from \in HeldPcs)
           /\ \A ip \in Ips :
                /\ Cardinality(Counted(ip)) \in Nat
                /\ Cardinality(Counted(ip)') =
                     IF ip = PeerIp[c]
                     THEN Cardinality(Counted(ip)) + One(to \in CountedPcs) - One(from \in CountedPcs)
                     ELSE Cardinality(Counted(ip))
<1>0. IsFiniteSet(Clients)
  BY FollowerAssumption
<1>1. PICK S, T : S = Held /\ T = Held'
  OBVIOUS
<1>2. /\ S \in SUBSET Clients /\ T \in SUBSET Clients
      /\ \A x \in Clients \ {c} : x \in S <=> x \in T
      /\ c \in S <=> from \in HeldPcs
      /\ c \in T <=> to \in HeldPcs
  BY <1>1 DEF Held, MovesOnly
<1>3. /\ Cardinality(S) \in Nat
      /\ Cardinality(T) = Cardinality(S) + One(c \in T) - One(c \in S)
  BY <1>0, <1>2, OneMoves
<1>4. One(c \in T) = One(to \in HeldPcs) /\ One(c \in S) = One(from \in HeldPcs)
  BY <1>2 DEF One
<1>5. ASSUME NEW ip \in Ips
      PROVE  /\ Cardinality(Counted(ip)) \in Nat
             /\ Cardinality(Counted(ip)') =
                     IF ip = PeerIp[c]
                     THEN Cardinality(Counted(ip)) + One(to \in CountedPcs) - One(from \in CountedPcs)
                     ELSE Cardinality(Counted(ip))
  <2>1. PICK U, V : U = Counted(ip) /\ V = Counted(ip)'
    OBVIOUS
  <2>2. /\ U \in SUBSET Clients /\ V \in SUBSET Clients
        /\ \A x \in Clients \ {c} : x \in U <=> x \in V
        /\ c \in U <=> from \in CountedPcs /\ ip = PeerIp[c]
        /\ c \in V <=> to \in CountedPcs /\ ip = PeerIp[c]
    BY <2>1 DEF Counted, MovesOnly
  <2>3. /\ Cardinality(U) \in Nat
        /\ Cardinality(V) = Cardinality(U) + One(c \in V) - One(c \in U)
    BY <1>0, <2>2, OneMoves
  <2>4. CASE ip = PeerIp[c]
    <3>1. One(c \in V) = One(to \in CountedPcs) /\ One(c \in U) = One(from \in CountedPcs)
      BY <2>2, <2>4 DEF One
    <3> QED
      BY <2>1, <2>3, <2>4, <3>1
  <2>5. CASE ip # PeerIp[c]
    <3>1. One(c \in V) = 0 /\ One(c \in U) = 0
      BY <2>2, <2>5 DEF One
    <3> QED
      BY <2>1, <2>3, <2>5, <3>1
  <2> QED
    BY <2>4, <2>5
<1> QED
  BY <1>1, <1>3, <1>4, <1>5

(* Which places hold a slot, and which are counted for their address. *)
LEMMA Places ==
    /\ One("none" \in HeldPcs) = 0 /\ One("slot" \in HeldPcs) = 1 /\ One("upgrade" \in HeldPcs) = 1
    /\ One("open" \in HeldPcs) = 1 /\ One("release" \in HeldPcs) = 0
    /\ One("none" \in CountedPcs) = 0 /\ One("slot" \in CountedPcs) = 0 /\ One("upgrade" \in CountedPcs) = 1
    /\ One("open" \in CountedPcs) = 1 /\ One("release" \in CountedPcs) = 1
BY DEF One, HeldPcs, CountedPcs

(* SetPc moves only its client. *)
LEMMA SetPcMoves ==
    ASSUME conn \in [Clients -> Conn], NEW c \in Clients,
           NEW to \in {"none", "slot", "upgrade", "open", "release"}, SetPc(c, to)
    PROVE  /\ MovesOnly(c, conn[c].pc, to) /\ conn' \in [Clients -> Conn]
           /\ \A x \in Clients \ {c} : conn'[x] = conn[x]
           /\ conn'[c] = [pc |-> to, cursor |-> conn[c].cursor, since |-> conn[c].since, greeted |-> conn[c].greeted]
<1>1. /\ conn[c] \in Conn
      /\ [conn[c] EXCEPT !.pc = to] =
             [pc |-> to, cursor |-> conn[c].cursor, since |-> conn[c].since, greeted |-> conn[c].greeted]
  BY DEF Conn
<1>2. [pc |-> to, cursor |-> conn[c].cursor, since |-> conn[c].since, greeted |-> conn[c].greeted] \in Conn
  BY <1>1 DEF Conn
<1>3. conn' = [conn EXCEPT ![c] = [pc |-> to, cursor |-> conn[c].cursor, since |-> conn[c].since, greeted |-> conn[c].greeted]]
  BY <1>1 DEF SetPc
<1> QED
  BY <1>2, <1>3 DEF MovesOnly

(* The slots, with their types. *)
SlotTypeOK ==
    /\ active_connections \in Nat
    /\ per_ip_connections \in [Ips -> Nat] /\ leaked \in [Ips -> Nat]

(* There are finitely many addresses. *)
LEMMA FiniteIps == IsFiniteSet(Ips)
<1>1. IsFiniteSet(Clients)
  BY FollowerAssumption
<1> DEFINE f == [c \in Clients |-> PeerIp[c]]
<1>2. f \in Surjection(Clients, Ips)
  BY DEF Surjection, Ips
<1> QED
  BY <1>1, <1>2, FS_Surjection

(* The total of the leaked slots. *)
LEMMA LeakedNat ==
    ASSUME leaked \in [Ips -> Nat]
    PROVE  IsFiniteSet(Ips) /\ Total(leaked) \in Nat
BY FiniteIps, TotalNat

(* A step that moves no task and leaves the slots alone. *)
LEMMA SlotsKept ==
    ASSUME SlotTypeOK, SlotInv, UNCHANGED slotVars,
           \A c \in Clients : conn'[c].pc = conn[c].pc
    PROVE  SlotTypeOK' /\ SlotInv'
<1>1. Held' = Held /\ \A ip : Counted(ip)' = Counted(ip)
  BY DEF Held, Counted
<1> QED
  BY <1>1 DEF SlotTypeOK, SlotInv, slotVars

(* The first slot is taken. *)
LEMMA AcquireKeepsSlots ==
    ASSUME SlotTypeOK, SlotInv, NEW c \in Clients, MovesOnly(c, "none", "slot"), HasRoom,
           active_connections' = active_connections + 1, UNCHANGED <<per_ip_connections, leaked>>
    PROVE  SlotTypeOK' /\ SlotInv'
<1>1. /\ Cardinality(Held) \in Nat /\ Cardinality(Held') = Cardinality(Held) + 1
      /\ \A ip \in Ips : Cardinality(Counted(ip)') = Cardinality(Counted(ip)) /\ Cardinality(Counted(ip)) \in Nat
  BY CountsMove, Places
<1>2. Total(leaked) \in Nat /\ max_connections \in Nat
  BY LeakedNat, CapacityAssumption DEF SlotTypeOK
<1> QED
  BY <1>1, <1>2 DEF SlotTypeOK, SlotInv, HasRoom

(* It is given back: the address has too many connections, or the          *)
(* connection ends.                                                        *)
LEMMA ReleaseKeepsSlots ==
    ASSUME SlotTypeOK, SlotInv, NEW c \in Clients,
           MovesOnly(c, "slot", "none") \/ MovesOnly(c, "open", "release"),
           release_slot, UNCHANGED <<per_ip_connections, leaked>>
    PROVE  SlotTypeOK' /\ SlotInv'
<1>1. /\ Cardinality(Held) \in Nat /\ Cardinality(Held') = Cardinality(Held) - 1
      /\ \A ip \in Ips : Cardinality(Counted(ip)') = Cardinality(Counted(ip)) /\ Cardinality(Counted(ip)) \in Nat
  BY CountsMove, Places
<1>2. c \in Held
  BY DEF Held, HeldPcs, MovesOnly
<1>3. Cardinality(Held) # 0
  <2>1. IsFiniteSet(Held)
    BY FollowerAssumption, FS_Subset DEF Held
  <2> QED
    BY <1>2, <2>1, FS_EmptySet
<1>4. Total(leaked) \in Nat /\ max_connections \in Nat
  BY LeakedNat, CapacityAssumption DEF SlotTypeOK
<1> QED
  BY <1>1, <1>3, <1>4 DEF SlotTypeOK, SlotInv, release_slot

(* The slot of the address is taken. *)
LEMMA AcquireForIpKeepsSlots ==
    ASSUME SlotTypeOK, SlotInv, NEW c \in Clients, MovesOnly(c, "slot", "upgrade"),
           per_ip_connections[PeerIp[c]] < max_per_ip,
           per_ip_connections' = [per_ip_connections EXCEPT ![PeerIp[c]] = @ + 1],
           UNCHANGED <<active_connections, leaked>>
    PROVE  SlotTypeOK' /\ SlotInv'
<1>0. PICK here : here = PeerIp[c] /\ here \in Ips
  BY DEF Ips
<1>1. /\ Cardinality(Held') = Cardinality(Held)
      /\ \A ip \in Ips : /\ Cardinality(Counted(ip)) \in Nat
                         /\ Cardinality(Counted(ip)') = IF ip = here THEN Cardinality(Counted(ip)) + 1
                                                                     ELSE Cardinality(Counted(ip))
  BY <1>0, CountsMove, Places
<1>2. max_per_ip \in Nat
  BY CapacityAssumption
<1>3. per_ip_connections' \in [Ips -> Nat]
  BY <1>0 DEF SlotTypeOK
<1>4. ASSUME NEW ip \in Ips
      PROVE  per_ip_connections'[ip] = Cardinality(Counted(ip)') + leaked[ip] /\ per_ip_connections'[ip] <= max_per_ip
  BY <1>0, <1>1, <1>2 DEF SlotTypeOK, SlotInv
<1> QED
  BY <1>1, <1>3, <1>4 DEF SlotTypeOK, SlotInv

(* It is given back. *)
LEMMA ReleaseForIpKeepsSlots ==
    ASSUME SlotTypeOK, SlotInv, NEW c \in Clients, MovesOnly(c, "release", "none"),
           per_ip_connections' = [per_ip_connections EXCEPT ![PeerIp[c]] = @ - 1],
           UNCHANGED <<active_connections, leaked>>
    PROVE  SlotTypeOK' /\ SlotInv'
<1>0. PICK here : here = PeerIp[c] /\ here \in Ips
  BY DEF Ips
<1>1. /\ Cardinality(Held') = Cardinality(Held)
      /\ \A ip \in Ips : /\ Cardinality(Counted(ip)) \in Nat
                         /\ Cardinality(Counted(ip)') = IF ip = here THEN Cardinality(Counted(ip)) - 1
                                                                     ELSE Cardinality(Counted(ip))
  BY <1>0, CountsMove, Places
<1>2. Cardinality(Counted(here)) # 0
  <2>1. IsFiniteSet(Counted(here)) /\ c \in Counted(here)
    BY <1>0, FollowerAssumption, FS_Subset DEF Counted, CountedPcs, MovesOnly
  <2> QED
    BY <2>1, FS_EmptySet
<1>3. max_per_ip \in Nat
  BY CapacityAssumption
<1>4. per_ip_connections' \in [Ips -> Nat]
  BY <1>0, <1>1, <1>2 DEF SlotTypeOK, SlotInv
<1>5. ASSUME NEW ip \in Ips
      PROVE  per_ip_connections'[ip] = Cardinality(Counted(ip)') + leaked[ip] /\ per_ip_connections'[ip] <= max_per_ip
  BY <1>0, <1>1, <1>3 DEF SlotTypeOK, SlotInv
<1> QED
  BY <1>1, <1>4, <1>5 DEF SlotTypeOK, SlotInv

(* The upgrade fails: the slots of c are nobody's. *)
LEMMA LeakKeepsSlots ==
    ASSUME SlotTypeOK, SlotInv, NEW c \in Clients, MovesOnly(c, "upgrade", "none"),
           leaked' = [leaked EXCEPT ![PeerIp[c]] = @ + 1],
           UNCHANGED <<active_connections, per_ip_connections>>
    PROVE  SlotTypeOK' /\ SlotInv'
<1>0. PICK here : here = PeerIp[c] /\ here \in Ips
  BY DEF Ips
<1>1. /\ Cardinality(Held) \in Nat /\ Cardinality(Held') = Cardinality(Held) - 1
      /\ \A ip \in Ips : /\ Cardinality(Counted(ip)) \in Nat
                         /\ Cardinality(Counted(ip)') = IF ip = here THEN Cardinality(Counted(ip)) - 1
                                                                     ELSE Cardinality(Counted(ip))
  BY <1>0, CountsMove, Places
<1>2. leaked' \in [Ips -> Nat] /\ leaked'[here] = leaked[here] + 1 /\ \A ip \in Ips \ {here} : leaked'[ip] = leaked[ip]
  BY <1>0 DEF SlotTypeOK
<1>3. IsFiniteSet(Ips) /\ Total(leaked) \in Nat
  BY LeakedNat DEF SlotTypeOK
<1>4. Total(leaked') = Total(leaked) + 1
  <2>1. leaked \in [Ips -> Int] /\ leaked' \in [Ips -> Int] /\ leaked[here] \in Int
    BY <1>0, <1>2 DEF SlotTypeOK
  <2>a. PICK f, h : f = leaked /\ h = leaked'
    OBVIOUS
  <2>b. f \in [Ips -> Int] /\ h \in [Ips -> Int] /\ here \in Ips /\ \A ip \in Ips \ {here} : h[ip] = f[ip]
    BY <1>0, <1>2, <2>1, <2>a
  <2>2. Total(h) = Total(f) - f[here] + h[here]
    BY <1>3, <2>b, TotalChange
  <2> QED
    BY <1>2, <1>3, <2>1, <2>2, <2>a
<1>5. ASSUME NEW ip \in Ips
      PROVE  per_ip_connections[ip] = Cardinality(Counted(ip)') + leaked'[ip]
  <2>1. leaked[ip] \in Nat
    BY DEF SlotTypeOK
  <2> QED
    BY <1>1, <1>2, <2>1 DEF SlotInv
<1> QED
  BY <1>1, <1>2, <1>3, <1>4, <1>5 DEF SlotTypeOK, SlotInv

(* A new process holds nothing. *)
LEMMA NoSlots ==
    ASSUME conn = [c \in Clients |-> NoConn], active_connections = 0,
           per_ip_connections = [ip \in Ips |-> 0], leaked = [ip \in Ips |-> 0]
    PROVE  SlotTypeOK /\ SlotInv
<1>1. Held = {} /\ \A ip \in Ips : Counted(ip) = {}
  BY DEF Held, Counted, HeldPcs, CountedPcs, NoConn
<1>2. Cardinality({}) = 0
  BY FS_EmptySet
<1>3. Total(leaked) = 0
  <2>1. IsFiniteSet(Ips) /\ leaked \in [Ips -> {0}]
    BY FiniteIps
  <2> QED
    BY <2>1, TotalZero
<1>4. max_connections \in Nat /\ max_per_ip \in Nat
  BY CapacityAssumption
<1> QED
  BY <1>1, <1>2, <1>3, <1>4 DEF SlotTypeOK, SlotInv

----------------------------------------------------------------------------
(* The replay buffer *)

Sent(L, k) == [sequence_id |-> k, event |-> L[k]]

(* b holds the last events of L. *)
LastOf(L, b) ==
    /\ Len(b) <= buffer_capacity /\ Len(b) <= Len(L)
    /\ Len(L) > 0 => Len(b) > 0
    /\ \A i \in 1 .. Len(b) : b[i] = Sent(L, Len(L) - Len(b) + i)

(* Another event goes through the channel and into the buffer. *)
LEMMA BufferedIsLast ==
    ASSUME NEW L \in Seq(Nat), NEW b \in Seq(Item), LastOf(L, b), NEW e \in Nat
    PROVE  LET M == Append(L, e)
               d == Buffered(b, [sequence_id |-> Len(L) + 1, event |-> e])
           IN  M \in Seq(Nat) /\ d \in Seq(Item) /\ LastOf(M, d)
<1> DEFINE item == [sequence_id |-> Len(L) + 1, event |-> e]
<1>0. PICK rest : rest = IF Len(b) >= buffer_capacity THEN Tail(b) ELSE b
  OBVIOUS
<1>1. PICK M, d : M = Append(L, e) /\ d = Append(rest, item)
  OBVIOUS
<1>2. buffer_capacity \in Nat /\ buffer_capacity > 0 /\ Len(b) \in Nat /\ Len(L) \in Nat
  BY CapacityAssumption
<1>3. /\ rest \in Seq(Item) /\ Len(rest) \in Nat /\ Len(rest) < buffer_capacity /\ Len(rest) <= Len(L)
      /\ \A i \in 1 .. Len(rest) : rest[i] = Sent(L, Len(L) - Len(rest) + i)
  <2>1. CASE Len(b) >= buffer_capacity
    <3>1. b # <<>> /\ rest = Tail(b) /\ Len(b) = buffer_capacity
      BY <1>0, <1>2, <2>1 DEF LastOf
    <3>2. rest \in Seq(Item) /\ Len(rest) = Len(b) - 1 /\ \A i \in 1 .. Len(rest) : rest[i] = b[i + 1]
      BY <3>1
    <3>3. ASSUME NEW i \in 1 .. Len(rest) PROVE rest[i] = Sent(L, Len(L) - Len(rest) + i)
      <4>1. i + 1 \in 1 .. Len(b) /\ Len(L) - Len(b) + (i + 1) = Len(L) - Len(rest) + i
        BY <1>2, <3>2
      <4>2. b[i + 1] = Sent(L, Len(L) - Len(b) + (i + 1))
        BY <4>1 DEF LastOf
      <4> QED
        BY <3>2, <4>1, <4>2
    <3> QED
      BY <1>2, <3>1, <3>2, <3>3 DEF LastOf
  <2>2. CASE ~ (Len(b) >= buffer_capacity)
    BY <1>0, <1>2, <2>2 DEF LastOf
  <2> QED
    BY <2>1, <2>2
<1>4. item \in Item
  BY <1>2 DEF Item
<1>5. /\ M \in Seq(Nat) /\ Len(M) = Len(L) + 1 /\ M[Len(M)] = e
      /\ \A k \in 1 .. Len(L) : M[k] = L[k]
  BY <1>1
<1>6. /\ d \in Seq(Item) /\ Len(d) = Len(rest) + 1 /\ d[Len(d)] = item
      /\ \A i \in 1 .. Len(rest) : d[i] = rest[i]
  BY <1>1, <1>3, <1>4
<1>7. ASSUME NEW i \in 1 .. Len(d) PROVE d[i] = Sent(M, Len(M) - Len(d) + i)
  <2>1. CASE i = Len(d)
    BY <1>2, <1>3, <1>5, <1>6, <2>1 DEF Sent
  <2>2. CASE i # Len(d)
    <3>1. /\ i \in 1 .. Len(rest) /\ Len(L) - Len(rest) + i = Len(M) - Len(d) + i
          /\ Len(L) - Len(rest) + i \in 1 .. Len(L)
      <4>1. PICK l \in Nat, r \in Nat : l = Len(L) /\ r = Len(rest)
        BY <1>2, <1>3
      <4>2. r <= l /\ Len(M) = l + 1 /\ Len(d) = r + 1
        BY <1>3, <1>5, <1>6, <4>1
      <4>3. i \in 1 .. r
        BY <2>2, <4>1, <4>2
      <4>4. l - r + i = (l + 1) - (r + 1) + i /\ l - r + i \in 1 .. l
        BY <4>1, <4>2, <4>3
      <4> QED
        BY <4>1, <4>2, <4>3, <4>4
    <3> QED
      BY <1>3, <1>5, <1>6, <3>1 DEF Sent
  <2> QED
    BY <2>1, <2>2
<1>8. LastOf(M, d)
  <2>1. Len(d) <= buffer_capacity /\ Len(d) <= Len(M) /\ Len(d) > 0
    BY <1>2, <1>3, <1>5, <1>6
  <2> QED
    BY <1>7, <2>1 DEF LastOf
<1> QED
  BY <1>0, <1>1, <1>5, <1>6, <1>8 DEF Buffered

(* What the buffer holds after an id is the tail of what was sent. *)
LEMMA BufferHolds ==
    ASSUME NEW L \in Seq(Nat), NEW b \in Seq(Item), LastOf(L, b)
    PROVE  /\ \A e \in ToSet(b) : e \in Item /\ e.sequence_id \in 1 .. Len(L) /\ e = Sent(L, e.sequence_id)
           /\ \A k \in Len(L) - Len(b) + 1 .. Len(L) : Sent(L, k) \in ToSet(b)
           /\ b # <<>> => Head(b).sequence_id = Len(L) - Len(b) + 1
           /\ b = <<>> => Len(L) = 0
<1>0. Len(b) \in Nat /\ Len(L) \in Nat /\ Len(b) <= Len(L) /\ DOMAIN b = 1 .. Len(b)
  BY DEF LastOf
<1>1. ASSUME NEW e \in ToSet(b)
      PROVE  e \in Item /\ e.sequence_id \in 1 .. Len(L) /\ e = Sent(L, e.sequence_id)
  <2>1. PICK i \in 1 .. Len(b) : e = b[i]
    BY <1>0 DEF ToSet
  <2>0. \A l, m \in Nat : m <= l => \A j \in 1 .. m : l - m + j \in 1 .. l
    OBVIOUS
  <2>2. PICK k \in 1 .. Len(L) : k = Len(L) - Len(b) + i
    BY <1>0, <2>0
  <2>3. e = Sent(L, k)
    BY <2>1, <2>2 DEF LastOf
  <2>4. e.sequence_id = k
    BY <2>3 DEF Sent
  <2>5. e \in Item
    BY <2>1
  <2> QED
    BY <2>2, <2>3, <2>4, <2>5
<1>2. ASSUME NEW k \in Len(L) - Len(b) + 1 .. Len(L) PROVE Sent(L, k) \in ToSet(b)
  <2>0. \A l, m \in Nat : m <= l => \A j \in l - m + 1 .. l : j - (l - m) \in 1 .. m /\ l - m + (j - (l - m)) = j
    OBVIOUS
  <2>1. PICK i \in 1 .. Len(b) : i = k - (Len(L) - Len(b)) /\ Len(L) - Len(b) + i = k
    BY <1>0, <2>0
  <2>2. b[i] = Sent(L, k)
    BY <2>1 DEF LastOf
  <2> QED
    BY <1>0, <2>2 DEF ToSet
<1>3. ASSUME b # <<>> PROVE Head(b).sequence_id = Len(L) - Len(b) + 1
  <2>1. 1 \in 1 .. Len(b) /\ Head(b) = b[1]
    BY <1>0, <1>3
  <2>2. b[1] = Sent(L, Len(L) - Len(b) + 1)
    BY <2>1 DEF LastOf
  <2> QED
    BY <2>1, <2>2 DEF Sent
<1>4. ASSUME b = <<>> PROVE Len(L) = 0
  BY <1>0, <1>4 DEF LastOf
<1> QED
  BY <1>1, <1>2, <1>3, <1>4

----------------------------------------------------------------------------
(* What a client receives *)

(* The maximum of a bounded set of numbers. *)
LEMMA MaxIs ==
    ASSUME NEW S \in SUBSET Nat, S # {}, NEW bound \in Nat, \A y \in S : y <= bound
    PROVE  Max(S) \in S /\ \A y \in S : y <= Max(S)
<1> DEFINE Above == {n \in Nat : \A y \in S : y <= n}
<1>1. Above \in SUBSET Nat /\ Above # {}
  OBVIOUS
<1>2. PICK n \in Above : \A m \in Above : n <= m
  BY <1>1, LeastNumber
<1>3. n \in S
  <2> SUFFICES ASSUME n \notin S PROVE FALSE
    OBVIOUS
  <2>1. \A y \in S : y <= n - 1 /\ n - 1 \in Nat
    BY <1>2
  <2>2. n - 1 \in Above
    BY <2>1
  <2> QED
    BY <1>2, <2>2
<1>4. \E m \in S : \A y \in S : m >= y
  BY <1>2, <1>3
<1>5. Max(S) \in S /\ \A y \in S : Max(S) >= y
  BY <1>4 DEF Max
<1> QED
  BY <1>5

(* A client x that takes in items is y; some of them it may have had. *)
Took(x, y, items, gap) ==
    /\ y.first = x.first /\ y.stale = x.stale
    /\ y.missed <=> x.missed \/ gap
    /\ y.got = x.got \cup {e.event : e \in items}
    /\ y.last >= x.last
    /\ \A e \in items : y.last >= e.sequence_id
    /\ y.last = x.last \/ \E e \in items : y.last = e.sequence_id

Takes(c, items, gap) ==
    /\ client' \in [Clients -> Client]
    /\ \A x \in Clients \ {c} : client'[x] = client[x]
    /\ Took(client[c], client'[c], items, gap)

(* That is what Received says. *)
LEMMA ReceivedTakes ==
    ASSUME client \in [Clients -> Client], NEW c \in Clients, NEW items \in SUBSET Item, NEW gap \in BOOLEAN,
           NEW bound \in Nat, \A e \in items : e.sequence_id <= bound, Received(c, items, gap)
    PROVE  Takes(c, items, gap)
<1>1. PICK x \in Client : x = client[c]
  OBVIOUS
<1>2. PICK S : S = {x.last} \cup {e.sequence_id : e \in items}
  OBVIOUS
<1>3. /\ S \in SUBSET Nat /\ S # {} /\ x.last \in S
      /\ \A e \in items : e.sequence_id \in S
      /\ \A y \in S : y = x.last \/ \E e \in items : y = e.sequence_id
  BY <1>1, <1>2 DEF Client, Item
<1>4. PICK top \in Nat : \A y \in S : y <= top
  <2>1. CASE x.last <= bound
    BY <1>3, <2>1
  <2>2. CASE ~ (x.last <= bound)
    <3>1. x.last \in Nat
      BY <1>1 DEF Client
    <3>2. \A y \in S : y <= x.last
      BY <1>3, <2>2, <3>1
    <3> QED
      BY <3>1, <3>2
  <2> QED
    BY <2>1, <2>2
<1>5. PICK m : m = Max(S)
  OBVIOUS
<1>6. m \in S /\ \A y \in S : y <= m
  BY <1>3, <1>4, <1>5, MaxIs
<1>7. PICK y : y = [last |-> m, got |-> x.got \cup {e.event : e \in items}, first |-> x.first,
                    missed |-> x.missed \/ gap, stale |-> x.stale]
  OBVIOUS
<1>8. client' = [client EXCEPT ![c] = y]
  <2>1. PICK G : G = x.got \cup {e.event : e \in items}
    OBVIOUS
  <2>2. PICK f1 : f1 = [client EXCEPT ![c].got = G]
    OBVIOUS
  <2>3. f1 = [client EXCEPT ![c] = [last |-> x.last, got |-> G, first |-> x.first, missed |-> x.missed, stale |-> x.stale]]
    <3>1. [x EXCEPT !.got = G] = [last |-> x.last, got |-> G, first |-> x.first, missed |-> x.missed, stale |-> x.stale]
      BY <1>1 DEF Client
    <3>2. f1 = [client EXCEPT ![c] = [client[c] EXCEPT !.got = G]]
      BY <2>2
    <3> QED
      BY <1>1, <3>1, <3>2
  <2>4. PICK f2 : f2 = [f1 EXCEPT ![c].last = m]
    OBVIOUS
  <2>5. f2 = [client EXCEPT ![c] = [last |-> m, got |-> G, first |-> x.first, missed |-> x.missed, stale |-> x.stale]]
    <3>1. PICK y1 : y1 = [last |-> x.last, got |-> G, first |-> x.first, missed |-> x.missed, stale |-> x.stale]
      OBVIOUS
    <3>2. [y1 EXCEPT !.last = m] = [last |-> m, got |-> G, first |-> x.first, missed |-> x.missed, stale |-> x.stale]
      BY <3>1
    <3>3. f2 = [f1 EXCEPT ![c] = [f1[c] EXCEPT !.last = m]]
      BY <2>4
    <3>4. f1 = [client EXCEPT ![c] = y1] /\ f1[c] = y1
      BY <2>3, <3>1
    <3> QED
      BY <3>2, <3>3, <3>4
  <2>6. client' = [f2 EXCEPT ![c].missed = @ \/ gap]
    <3>1. f1 = [client EXCEPT ![c].got = @ \cup {e.event : e \in items}]
      BY <1>1, <2>1, <2>2
    <3>2. f1[c].last = x.last
      BY <1>1, <2>3
    <3>3. f2 = [f1 EXCEPT ![c].last = Max({@} \cup {e.sequence_id : e \in items})]
      BY <1>2, <1>5, <2>4, <3>2
    <3> QED
      BY <3>1, <3>3 DEF Received
  <2>7. f2[c].missed = x.missed
    BY <2>5
  <2> QED
    <3>1. PICK y2 : y2 = [last |-> m, got |-> G, first |-> x.first, missed |-> x.missed, stale |-> x.stale]
      OBVIOUS
    <3>a. PICK q : q = (x.missed \/ gap)
      OBVIOUS
    <3>b. y = [last |-> m, got |-> G, first |-> x.first, missed |-> q, stale |-> x.stale]
      BY <1>7, <2>1, <3>a, Zenon
    <3>2. [y2 EXCEPT !.missed = q] = y
      BY <3>1, <3>b
    <3>3. client' = [f2 EXCEPT ![c] = [f2[c] EXCEPT !.missed = q]]
      BY <2>6, <2>7, <3>a
    <3>4. f2 = [client EXCEPT ![c] = y2] /\ f2[c] = y2
      BY <2>5, <3>1
    <3> QED
      BY <3>2, <3>3, <3>4
<1>9. y \in Client
  BY <1>1, <1>3, <1>6, <1>7 DEF Client, Item
<1>10. client' \in [Clients -> Client] /\ client'[c] = y /\ \A z \in Clients \ {c} : client'[z] = client[z]
  BY <1>8, <1>9
<1>11. /\ y.first = x.first /\ y.stale = x.stale /\ (y.missed <=> x.missed \/ gap)
       /\ y.got = x.got \cup {e.event : e \in items} /\ y.last = m
  BY <1>7
<1>12. /\ m >= x.last /\ \A e \in items : m >= e.sequence_id
       /\ m = x.last \/ \E e \in items : m = e.sequence_id
  BY <1>3, <1>6
<1> QED
  BY <1>1, <1>10, <1>11, <1>12 DEF Takes, Took

----------------------------------------------------------------------------
(* Followers *)

(* x has every event from its first connection up to number n. *)
Has(x, L, n) == \A i \in x.first .. n : L[i] \in x.got

(* What the client x with the connection k has of the sent events L.  Up   *)
(* to the replay it has what came before this connection, and possibly     *)
(* live events beyond a gap.                                               *)
Follow(k, x, L) ==
    /\ x.first = 0 => x.last = 0
    /\ k.pc = "open" => k.cursor >= 1 /\ x.first >= 1
    /\ ~ x.stale =>
         /\ x.first <= Len(L) + 1 /\ x.last <= Len(L)
         /\ k.pc = "open" => k.cursor <= Len(L) + 1 /\ k.since <= x.last
         /\ ~ x.missed /\ x.first # 0 =>
              /\ k.pc = "open" /\ k.greeted => k.cursor <= x.last + 1
              /\ Has(x, L, IF k.pc = "open" /\ ~ k.greeted THEN k.since ELSE x.last)

(* A connection on its way to be opened, or closed. *)
LEMMA FollowAway ==
    ASSUME NEW k \in Conn, NEW m \in Conn, NEW x \in Client, NEW L \in Seq(Nat), Follow(k, x, L),
           k.pc # "open", m.pc # "open"
    PROVE  Follow(m, x, L)
BY DEF Follow

(* It is opened, and reads from the next event on. *)
LEMMA FollowOpens ==
    ASSUME NEW k \in Conn, NEW x \in Client, NEW y \in Client, NEW L \in Seq(Nat), Follow(k, x, L), k.pc # "open",
           NEW m \in Conn, m = [pc |-> "open", cursor |-> Len(L) + 1, since |-> x.last, greeted |-> FALSE],
           y.last = x.last, y.got = x.got, y.missed = x.missed, y.stale = x.stale,
           y.first = IF x.first = 0 THEN Len(L) + 1 ELSE x.first
    PROVE  Follow(m, y, L)
<1>0. Len(L) \in Nat /\ x.first \in Nat /\ x.last \in Nat
  BY DEF Client
<1>1. m.pc = "open" /\ m.cursor = Len(L) + 1 /\ m.since = x.last /\ m.greeted = FALSE
  OBVIOUS
<1>2. CASE x.first = 0
  <2>1. y.first = Len(L) + 1 /\ y.last = 0
    BY <1>2 DEF Follow
  <2>2. Has(y, L, m.since)
    BY <1>0, <1>1, <2>1 DEF Has
  <2> QED
    BY <1>0, <1>1, <2>1, <2>2 DEF Follow
<1>3. CASE x.first # 0
  <2>1. y.first = x.first
    BY <1>3
  <2>2. ASSUME Has(x, L, x.last) PROVE Has(y, L, m.since)
    BY <1>1, <2>1, <2>2 DEF Has
  <2> QED
    BY <1>0, <1>1, <1>3, <2>1, <2>2 DEF Follow
<1> QED
  BY <1>2, <1>3

(* It ends before or after the replay. *)
LEMMA FollowEnds ==
    ASSUME NEW k \in Conn, NEW m \in Conn, NEW x \in Client, NEW y \in Client, NEW L \in Seq(Nat), Follow(k, x, L),
           k.pc = "open", m.pc # "open",
           y.last = x.last, y.got = x.got, y.first = x.first, y.stale = x.stale,
           y.missed <=> x.missed \/ (~ k.greeted /\ x.last > k.since)
    PROVE  Follow(m, y, L)
<1>0. x.last \in Nat /\ k.since \in Nat
  BY DEF Client, Conn
<1>1. ASSUME ~ x.stale, ~ y.missed, x.first # 0 PROVE Has(y, L, y.last)
  <2>1. ~ x.missed /\ k.since <= x.last /\ (~ k.greeted => k.since = x.last)
    BY <1>0, <1>1 DEF Follow
  <2>2. Has(x, L, x.last)
    BY <1>1, <2>1 DEF Follow
  <2> QED
    BY <2>2 DEF Has
<1> QED
  BY <1>1 DEF Follow

(* A live event. *)
LEMMA FollowLive ==
    ASSUME NEW k \in Conn, NEW x \in Client, NEW y \in Client, NEW L \in Seq(Nat), Follow(k, x, L),
           k.pc = "open", k.cursor <= Len(L), Took(x, y, {Sent(L, k.cursor)}, FALSE),
           NEW m \in Conn, m.pc = "open", m.cursor = k.cursor + 1, m.since = k.since, m.greeted = k.greeted
    PROVE  Follow(m, y, L)
<1>1. PICK n \in Nat : n = k.cursor
  BY DEF Conn
<1>0. /\ x.last \in Nat /\ y.last \in Nat /\ k.since \in Nat /\ Len(L) \in Nat /\ x.first \in Nat
      /\ n >= 1 /\ n <= Len(L)
  BY <1>1 DEF Client, Conn, Follow
<1>2. /\ y.first = x.first /\ y.stale = x.stale /\ (y.missed <=> x.missed)
      /\ y.got = x.got \cup {L[n]}
      /\ y.last >= x.last /\ y.last >= n /\ y.last \in {x.last, n}
  BY <1>1 DEF Took, Sent
<1>3. ASSUME ~ x.stale, ~ x.missed, x.first # 0, m.greeted PROVE Has(y, L, y.last)
  <2>1. n <= x.last + 1 /\ Has(x, L, x.last)
    BY <1>1, <1>3 DEF Follow
  <2>2. \A i \in x.first .. y.last : i \in x.first .. x.last \/ i = n
    BY <1>0, <1>2, <2>1
  <2> QED
    BY <1>2, <2>1, <2>2 DEF Has
<1>4. ASSUME ~ x.stale, ~ x.missed, x.first # 0, ~ m.greeted PROVE Has(y, L, m.since)
  <2>1. Has(x, L, k.since)
    BY <1>4 DEF Follow
  <2> QED
    BY <1>2, <2>1 DEF Has
<1>5. /\ y.first = 0 => y.last = 0
      /\ m.cursor >= 1 /\ y.first >= 1
  BY <1>0, <1>1, <1>2 DEF Follow
<1>6. ASSUME ~ x.stale
      PROVE  /\ y.first <= Len(L) + 1 /\ y.last <= Len(L)
             /\ m.cursor <= Len(L) + 1 /\ m.since <= y.last
  BY <1>0, <1>1, <1>2, <1>6 DEF Follow
<1>7. m.cursor <= y.last + 1
  BY <1>0, <1>1, <1>2
<1> QED
  BY <1>2, <1>3, <1>4, <1>5, <1>6, <1>7 DEF Follow

(* The receiver was overtaken. *)
LEMMA FollowLags ==
    ASSUME NEW k \in Conn, NEW x \in Client, NEW y \in Client, NEW L \in Seq(Nat), Follow(k, x, L),
           k.pc = "open", Took(x, y, {}, TRUE),
           NEW m \in Conn, m.pc = "open", m.cursor > k.cursor, m.cursor <= Len(L) + 1, m.since = k.since
    PROVE  Follow(m, y, L)
<1>1. y.first = x.first /\ y.stale = x.stale /\ y.missed /\ y.last = x.last
  BY DEF Took
<1>2. k.cursor \in Nat /\ m.cursor \in Nat
  BY DEF Conn
<1> QED
  BY <1>1, <1>2 DEF Follow

(* Another event is sent. *)
LEMMA FollowGrows ==
    ASSUME NEW k \in Conn, NEW x \in Client, NEW L \in Seq(Nat), NEW e \in Nat, Follow(k, x, L)
    PROVE  Follow(k, x, Append(L, e))
<1>0. Append(L, e) \in Seq(Nat)
  OBVIOUS
<1>1. PICK M \in Seq(Nat) : M = Append(L, e)
  BY <1>0
<1>2. Len(M) = Len(L) + 1 /\ Len(L) \in Nat /\ \A i \in 1 .. Len(L) : M[i] = L[i]
  BY <1>1
<1>3. x.last \in Nat /\ x.first \in Nat /\ k.since \in Nat /\ k.cursor \in Nat
  BY DEF Client, Conn
<1>4. ASSUME NEW n \in Nat, n <= Len(L), x.first # 0, Has(x, L, n) PROVE Has(x, M, n)
  <2>1. \A i \in x.first .. n : i \in 1 .. Len(L)
    BY <1>2, <1>3, <1>4
  <2> QED
    BY <1>2, <1>4, <2>1 DEF Has
<1>5. CASE x.stale
  BY <1>1, <1>5 DEF Follow
<1>6. CASE ~ x.stale
  <2>1. /\ x.first <= Len(L) + 1 /\ x.last <= Len(L)
        /\ k.pc = "open" => k.cursor <= Len(L) + 1 /\ k.since <= x.last
    BY <1>6 DEF Follow
  <2>2. PICK n \in Nat : n = IF k.pc = "open" /\ ~ k.greeted THEN k.since ELSE x.last
    BY <1>3
  <2>3. n <= Len(L)
    BY <1>2, <1>3, <2>1, <2>2
  <2>4. ASSUME ~ x.missed, x.first # 0 PROVE Has(x, M, n)
    <3>1. Has(x, L, n)
      BY <1>6, <2>2, <2>4 DEF Follow
    <3> QED
      BY <1>4, <2>3, <2>4, <3>1
  <2> QED
    BY <1>1, <1>2, <1>3, <2>1, <2>2, <2>4 DEF Follow
<1> QED
  BY <1>5, <1>6

(* AwayTooLong and events_since, of any buffer. *)
Away(k, x, b) == /\ b # <<>>
                 /\ Head(b).sequence_id > k.since + 1
                 /\ Head(b).sequence_id > x.first
Since(b, n) == {e \in ToSet(b) : e.sequence_id > n}

(* The replay has every event the client was connected for, after those it *)
(* has seen, unless it was away for too long.                              *)
LEMMA ReplayHas ==
    ASSUME NEW L \in Seq(Nat), NEW b \in Seq(Item), LastOf(L, b), NEW k \in Conn, NEW x \in Client,
           ~ Away(k, x, b), x.first # 0, NEW i \in x.first .. Len(L), i > k.since
    PROVE  Sent(L, i) \in Since(b, k.since)
<1>0. Len(L) \in Nat /\ Len(b) \in Nat /\ x.first \in Nat /\ k.since \in Nat
  BY DEF Client, Conn
<1>1. i >= 1 /\ i <= Len(L)
  BY <1>0
<1>2. b # <<>> /\ Head(b).sequence_id = Len(L) - Len(b) + 1
  BY <1>0, <1>1, BufferHolds
<1>3. i >= Len(L) - Len(b) + 1
  BY <1>0, <1>2 DEF Away
<1>4. Sent(L, i) \in ToSet(b)
  BY <1>0, <1>1, <1>3, BufferHolds
<1> QED
  BY <1>4 DEF Since, Sent

(* The whole replay. *)
LEMMA FollowSubscribes ==
    ASSUME NEW k \in Conn, NEW x \in Client, NEW y \in Client, NEW L \in Seq(Nat), Follow(k, x, L),
           NEW b \in Seq(Item), LastOf(L, b),
           k.pc = "open", ~ k.greeted, Took(x, y, Since(b, k.since), Away(k, x, b)),
           NEW m \in Conn, m.pc = "open", m.cursor = k.cursor, m.since = k.since, m.greeted
    PROVE  Follow(m, y, L)
<1>0. /\ x.last \in Nat /\ y.last \in Nat /\ k.since \in Nat /\ Len(L) \in Nat /\ Len(b) \in Nat /\ x.first \in Nat
      /\ k.cursor \in Nat
  BY DEF Client, Conn
<1>1. /\ y.first = x.first /\ y.stale = x.stale /\ (y.missed <=> x.missed \/ Away(k, x, b))
      /\ y.got = x.got \cup {e.event : e \in Since(b, k.since)}
      /\ y.last >= x.last /\ \A e \in Since(b, k.since) : y.last >= e.sequence_id
      /\ y.last = x.last \/ \E e \in Since(b, k.since) : y.last = e.sequence_id
  BY DEF Took
<1>2. \A e \in Since(b, k.since) : e.sequence_id \in 1 .. Len(L) /\ e = Sent(L, e.sequence_id)
  BY BufferHolds DEF Since
<1>3. x.last <= Len(L) => y.last <= Len(L)
  BY <1>1, <1>2
<1>4. ASSUME ~ x.stale, ~ y.missed, x.first # 0 PROVE Has(y, L, y.last)
  <2>1. Has(x, L, k.since) /\ y.last <= Len(L)
    BY <1>1, <1>3, <1>4 DEF Follow
  <2>2. ASSUME NEW i \in x.first .. y.last PROVE L[i] \in y.got
    <3>1. CASE i <= k.since
      BY <1>0, <1>1, <2>1, <3>1 DEF Has
    <3>2. CASE i > k.since
      <4>1. i \in x.first .. Len(L)
        BY <1>0, <2>1
      <4>2. Sent(L, i) \in Since(b, k.since)
        BY <1>1, <1>4, <3>2, <4>1, ReplayHas
      <4>3. Sent(L, i).event = L[i]
        BY DEF Sent
      <4> QED
        BY <1>1, <4>2, <4>3
    <3> QED
      BY <1>0, <3>1, <3>2
  <2> QED
    BY <1>1, <2>2 DEF Has
<1>5. ASSUME ~ x.stale PROVE m.cursor <= y.last + 1 /\ m.since <= y.last
  <2>1. k.cursor <= Len(L) + 1 /\ k.since <= x.last
    BY <1>5 DEF Follow
  <2>2. Len(L) <= y.last
    <3>1. CASE Len(L) <= k.since
      BY <1>0, <1>1, <2>1, <3>1
    <3>2. CASE Len(L) > k.since
      <4>1. Len(b) > 0 /\ Len(L) \in Len(L) - Len(b) + 1 .. Len(L)
        BY <1>0, <3>2 DEF LastOf
      <4>2. Sent(L, Len(L)) \in ToSet(b) /\ Sent(L, Len(L)).sequence_id = Len(L)
        BY <4>1, BufferHolds DEF Sent
      <4> QED
        BY <1>1, <3>2, <4>2 DEF Since
    <3> QED
      BY <1>0, <3>1, <3>2
  <2> QED
    BY <1>0, <1>1, <2>1, <2>2
<1>6. /\ y.first = 0 => y.last = 0
      /\ m.cursor >= 1 /\ y.first >= 1
  BY <1>0, <1>1 DEF Follow
<1>7. ASSUME ~ x.stale
      PROVE  y.first <= Len(L) + 1 /\ y.last <= Len(L) /\ m.cursor <= Len(L) + 1
  BY <1>1, <1>3, <1>7 DEF Follow
<1> QED
  BY <1>1, <1>4, <1>5, <1>6, <1>7 DEF Follow

(* A replay that breaks off at the event e. *)
LEMMA FollowBreaks ==
    ASSUME NEW k \in Conn, NEW x \in Client, NEW y \in Client, NEW L \in Seq(Nat), Follow(k, x, L),
           NEW b \in Seq(Item), LastOf(L, b), k.pc = "open", ~ k.greeted, NEW e \in Since(b, k.since),
           Took(x, y, {f \in Since(b, k.since) : f.sequence_id < e.sequence_id}, Away(k, x, b) \/ x.last > k.since),
           NEW m \in Conn, m.pc # "open"
    PROVE  Follow(m, y, L)
<1> DEFINE items == {f \in Since(b, k.since) : f.sequence_id < e.sequence_id}
<1>0. x.last \in Nat /\ y.last \in Nat /\ k.since \in Nat /\ Len(L) \in Nat /\ x.first \in Nat
  BY DEF Client, Conn
<1>1. /\ y.first = x.first /\ y.stale = x.stale /\ (y.missed <=> x.missed \/ Away(k, x, b) \/ x.last > k.since)
      /\ y.got = x.got \cup {f.event : f \in items}
      /\ y.last >= x.last
      /\ y.last = x.last \/ \E f \in items : y.last = f.sequence_id
  BY DEF Took
<1>2. /\ e.sequence_id \in 1 .. Len(L)
      /\ \A f \in items : f.sequence_id \in 1 .. Len(L) /\ f.sequence_id < e.sequence_id
  BY BufferHolds DEF Since
<1>3. x.last <= Len(L) => y.last <= Len(L)
  BY <1>1, <1>2
<1>4. ASSUME ~ x.stale, ~ y.missed, x.first # 0 PROVE Has(y, L, y.last)
  <2>1. Has(x, L, k.since) /\ y.last <= Len(L) /\ x.last = k.since
    BY <1>0, <1>1, <1>3, <1>4 DEF Follow
  <2>2. ASSUME NEW i \in x.first .. y.last PROVE L[i] \in y.got
    <3>1. CASE i <= k.since
      BY <1>0, <1>1, <2>1, <3>1 DEF Has
    <3>2. CASE i > k.since
      <4>1. i \in x.first .. Len(L)
        BY <1>0, <2>1
      <4>2. Sent(L, i) \in Since(b, k.since)
        BY <1>1, <1>4, <3>2, <4>1, ReplayHas
      <4>3. Sent(L, i).event = L[i] /\ Sent(L, i).sequence_id = i
        BY DEF Sent
      <4>4. i < e.sequence_id
        BY <1>0, <1>1, <1>2, <2>1, <3>2
      <4>5. Sent(L, i) \in items
        BY <4>2, <4>3, <4>4
      <4> HIDE DEF items
      <4> QED
        BY <1>1, <4>3, <4>5
    <3> QED
      BY <1>0, <3>1, <3>2
  <2> QED
    BY <1>1, <2>2 DEF Has
<1>6. y.first >= 1
  BY <1>0, <1>1 DEF Follow
<1>7. ASSUME ~ x.stale
      PROVE  y.first <= Len(L) + 1 /\ y.last <= Len(L)
  BY <1>1, <1>3, <1>7 DEF Follow
<1> QED
  BY <1>1, <1>4, <1>6, <1>7 DEF Follow

----------------------------------------------------------------------------
(* The stream: every step keeps its invariant *)

StreamInv ==
    /\ StreamTypeOK /\ SlotTypeOK /\ SlotInv
    /\ LastOf(sent, event_buffer)
    /\ \A c \in Followers : Follow(conn[c], client[c], sent)

(* A step of one client. *)
LEMMA OneClient ==
    ASSUME StreamInv, UNCHANGED streamVars, SlotTypeOK', SlotInv', NEW c \in Clients,
           conn' \in [Clients -> Conn], client' \in [Clients -> Client],
           \A x \in Clients \ {c} : conn'[x] = conn[x] /\ client'[x] = client[x],
           c \in Followers => Follow(conn'[c], client'[c], sent)
    PROVE  StreamInv'
<1>1. sent' = sent /\ event_buffer' = event_buffer /\ next_sequence_id' = next_sequence_id
  BY DEF streamVars
<1>2. StreamTypeOK'
  BY <1>1 DEF StreamInv, StreamTypeOK
<1>3. ASSUME NEW x \in Followers PROVE Follow(conn'[x], client'[x], sent')
  <2>1. x \in Clients
    BY FollowerAssumption
  <2>2. CASE x = c
    BY <1>1, <2>2
  <2>3. CASE x # c
    <3>1. Follow(conn[x], client[x], sent)
      BY DEF StreamInv
    <3> QED
      BY <1>1, <2>1, <2>3, <3>1
  <2> QED
    BY <2>2, <2>3
<1> QED
  BY <1>1, <1>2, <1>3 DEF StreamInv

(* Steps that set c's pc, neither from nor to open. *)
LEMMA SlotStep ==
    ASSUME StreamInv, NEW c \in Clients, NEW to \in {"none", "slot", "upgrade", "release"}, SetPc(c, to),
           conn[c].pc # "open", UNCHANGED <<streamVars, client>>, SlotTypeOK', SlotInv'
    PROVE  StreamInv'
<1>1. conn \in [Clients -> Conn] /\ client \in [Clients -> Client] /\ sent \in Seq(Nat)
  BY DEF StreamInv, StreamTypeOK
<1>2. /\ conn' \in [Clients -> Conn] /\ conn'[c].pc = to
      /\ \A x \in Clients \ {c} : conn'[x] = conn[x]
  BY <1>1, SetPcMoves DEF MovesOnly
<1>3. ASSUME c \in Followers PROVE Follow(conn'[c], client'[c], sent)
  <2>1. Follow(conn[c], client[c], sent)
    BY <1>3 DEF StreamInv
  <2>2. conn[c] \in Conn /\ conn'[c] \in Conn /\ client[c] \in Client /\ client' = client
    BY <1>1, <1>2
  <2> QED
    BY <1>1, <1>2, <2>1, <2>2, FollowAway
<1>4. client' = client /\ UNCHANGED streamVars
  OBVIOUS
<1> QED
  BY <1>1, <1>2, <1>3, <1>4, OneClient

(* Taking and giving back slots. *)
LEMMA SlotsKeepStream ==
    ASSUME StreamInv, NEW c \in Clients,
           try_acquire_slot(c) \/ try_acquire_slot_for_ip(c) \/ FailedUpgrade(c) \/ release_slot_for_ip(c)
    PROVE  StreamInv'
<1>0. conn \in [Clients -> Conn] /\ SlotTypeOK /\ SlotInv
  BY DEF StreamInv, StreamTypeOK
<1>1. CASE try_acquire_slot(c)
  <2>1. /\ conn[c].pc = "none" /\ HasRoom /\ active_connections' = active_connections + 1 /\ SetPc(c, "slot")
        /\ UNCHANGED <<streamVars, client>> /\ UNCHANGED <<per_ip_connections, leaked>>
    BY <1>1 DEF try_acquire_slot
  <2>2. MovesOnly(c, "none", "slot")
    BY <1>0, <2>1, SetPcMoves
  <2>3. SlotTypeOK' /\ SlotInv'
    BY <1>0, <2>1, <2>2, AcquireKeepsSlots
  <2> QED
    BY <2>1, <2>3, SlotStep
<1>2. CASE try_acquire_slot_for_ip(c) /\ SetPc(c, "none") /\ release_slot /\ UNCHANGED per_ip_connections
  <2>1. /\ conn[c].pc = "slot" /\ SetPc(c, "none") /\ release_slot
        /\ UNCHANGED <<streamVars, client>> /\ UNCHANGED <<per_ip_connections, leaked>>
    BY <1>2 DEF try_acquire_slot_for_ip
  <2>2. MovesOnly(c, "slot", "none")
    BY <1>0, <2>1, SetPcMoves
  <2>3. SlotTypeOK' /\ SlotInv'
    BY <1>0, <2>1, <2>2, ReleaseKeepsSlots
  <2> QED
    BY <2>1, <2>3, SlotStep
<1>3. CASE /\ try_acquire_slot_for_ip(c) /\ SetPc(c, "upgrade") /\ UNCHANGED active_connections
           /\ per_ip_connections[PeerIp[c]] < max_per_ip
           /\ per_ip_connections' = [per_ip_connections EXCEPT ![PeerIp[c]] = @ + 1]
  <2>1. /\ conn[c].pc = "slot" /\ SetPc(c, "upgrade")
        /\ UNCHANGED <<streamVars, client>> /\ UNCHANGED <<active_connections, leaked>>
    BY <1>3 DEF try_acquire_slot_for_ip
  <2>2. MovesOnly(c, "slot", "upgrade")
    BY <1>0, <2>1, SetPcMoves
  <2>3. SlotTypeOK' /\ SlotInv'
    BY <1>0, <1>3, <2>1, <2>2, AcquireForIpKeepsSlots
  <2> QED
    BY <2>1, <2>3, SlotStep
<1>4. CASE FailedUpgrade(c)
  <2>1. /\ conn[c].pc = "upgrade" /\ SetPc(c, "none") /\ leaked' = [leaked EXCEPT ![PeerIp[c]] = @ + 1]
        /\ UNCHANGED <<streamVars, client>> /\ UNCHANGED <<active_connections, per_ip_connections>>
    BY <1>4 DEF FailedUpgrade
  <2>2. MovesOnly(c, "upgrade", "none")
    BY <1>0, <2>1, SetPcMoves
  <2>3. SlotTypeOK' /\ SlotInv'
    BY <1>0, <2>1, <2>2, LeakKeepsSlots
  <2> QED
    BY <2>1, <2>3, SlotStep
<1>5. CASE release_slot_for_ip(c)
  <2>1. /\ conn[c].pc = "release" /\ SetPc(c, "none")
        /\ per_ip_connections' = [per_ip_connections EXCEPT ![PeerIp[c]] = @ - 1]
        /\ UNCHANGED <<streamVars, client>> /\ UNCHANGED <<active_connections, leaked>>
    BY <1>5 DEF release_slot_for_ip
  <2>2. MovesOnly(c, "release", "none")
    BY <1>0, <2>1, SetPcMoves
  <2>3. SlotTypeOK' /\ SlotInv'
    BY <1>0, <2>1, <2>2, ReleaseForIpKeepsSlots
  <2> QED
    BY <2>1, <2>3, SlotStep
<1>6. ASSUME try_acquire_slot_for_ip(c)
      PROVE  \/ SetPc(c, "none") /\ release_slot /\ UNCHANGED per_ip_connections
             \/ /\ SetPc(c, "upgrade") /\ UNCHANGED active_connections
                /\ per_ip_connections[PeerIp[c]] < max_per_ip
                /\ per_ip_connections' = [per_ip_connections EXCEPT ![PeerIp[c]] = @ + 1]
  BY <1>6 DEF try_acquire_slot_for_ip, Refuse
<1> QED
  BY <1>1, <1>2, <1>3, <1>4, <1>5, <1>6

(* A connection is opened. *)
LEMMA OpenKeepsStream ==
    ASSUME StreamInv, NEW c \in Clients, Open(c)
    PROVE  StreamInv'
<1>0. /\ conn \in [Clients -> Conn] /\ client \in [Clients -> Client] /\ sent \in Seq(Nat)
      /\ next_sequence_id = Len(sent) + 1 /\ SlotTypeOK /\ SlotInv
      /\ conn[c].pc = "upgrade" /\ conn[c] \in Conn /\ client[c] \in Client
      /\ UNCHANGED streamVars /\ UNCHANGED slotVars
  BY DEF StreamInv, StreamTypeOK, Open
<1>1. CASE c \notin Followers
  <2>1. SetPc(c, "open") /\ client' = client
    BY <1>1 DEF Open
  <2>2. /\ MovesOnly(c, "upgrade", "open") /\ conn' \in [Clients -> Conn]
        /\ \A x \in Clients \ {c} : conn'[x] = conn[x]
    BY <1>0, <2>1, SetPcMoves
  <2>3. Held' = Held /\ \A ip : Counted(ip)' = Counted(ip)
    BY <2>2 DEF Held, Counted, HeldPcs, CountedPcs, MovesOnly
  <2>4. SlotTypeOK' /\ SlotInv'
    BY <1>0, <2>3 DEF SlotTypeOK, SlotInv, slotVars
  <2> QED
    BY <1>0, <1>1, <2>1, <2>2, <2>4, OneClient
<1>2. CASE c \in Followers
  <2>0. PICK x \in Client : x = client[c]
    BY <1>0
  <2>1. PICK m : m = [pc |-> "open", cursor |-> Len(sent) + 1, since |-> x.last, greeted |-> FALSE]
    OBVIOUS
  <2>2. m \in Conn /\ conn' = [conn EXCEPT ![c] = m]
    BY <1>0, <1>2, <2>0, <2>1 DEF Open, Conn, Client
  <2>3. PICK y : y = [last |-> x.last, got |-> x.got, first |-> IF x.first = 0 THEN Len(sent) + 1 ELSE x.first,
                      missed |-> x.missed, stale |-> x.stale]
    OBVIOUS
  <2>4. y \in Client
    BY <1>0, <2>3 DEF Client
  <2>5. client' = [client EXCEPT ![c] = y]
    <3>1. client' = [client EXCEPT ![c] = [client[c] EXCEPT !.first = IF client[c].first = 0 THEN next_sequence_id ELSE client[c].first]]
      BY <1>2 DEF Open
    <3>2. [x EXCEPT !.first = IF x.first = 0 THEN Len(sent) + 1 ELSE x.first] = y
      BY <2>3 DEF Client
    <3> QED
      BY <1>0, <2>0, <3>1, <3>2
  <2>6. /\ conn' \in [Clients -> Conn] /\ client' \in [Clients -> Client] /\ conn'[c] = m /\ client'[c] = y
        /\ \A z \in Clients \ {c} : conn'[z] = conn[z] /\ client'[z] = client[z]
    BY <1>0, <2>2, <2>4, <2>5
  <2>7. Held' = Held /\ \A ip : Counted(ip)' = Counted(ip)
    <3>1. conn'[c].pc = "open" /\ \A z \in Clients \ {c} : conn'[z].pc = conn[z].pc
      BY <2>1, <2>6
    <3> QED
      BY <1>0, <3>1 DEF Held, Counted, HeldPcs, CountedPcs
  <2>8. SlotTypeOK' /\ SlotInv'
    BY <1>0, <2>7 DEF SlotTypeOK, SlotInv, slotVars
  <2>9. Follow(m, y, sent)
    <3>1. PICK L, k : L = sent /\ k = conn[c]
      OBVIOUS
    <3>2. L \in Seq(Nat) /\ k \in Conn /\ k.pc # "open" /\ Follow(k, x, L)
      BY <1>0, <1>2, <2>0, <3>1 DEF StreamInv
    <3>3. y.last = x.last /\ y.got = x.got /\ y.missed = x.missed /\ y.stale = x.stale
          /\ y.first = IF x.first = 0 THEN Len(L) + 1 ELSE x.first
      BY <2>3, <3>1
    <3>4. m = [pc |-> "open", cursor |-> Len(L) + 1, since |-> x.last, greeted |-> FALSE]
      BY <2>1, <3>1
    <3> QED
      BY <2>2, <2>4, <3>1, <3>2, <3>3, <3>4, FollowOpens
  <2> QED
    BY <1>0, <2>6, <2>8, <2>9, OneClient
<1> QED
  BY <1>1, <1>2

(* What the end of a connection does to its task. *)
LEMMA CloseMoves ==
    ASSUME conn \in [Clients -> Conn], NEW c \in Clients, conn[c].pc = "open", Close(c)
    PROVE  /\ MovesOnly(c, "open", "release") /\ release_slot
           /\ conn' \in [Clients -> Conn] /\ conn'[c].pc = "release"
           /\ \A x \in Clients \ {c} : conn'[x] = conn[x]
<1>1. PICK m : m = [pc |-> "release", cursor |-> 0, since |-> 0, greeted |-> FALSE]
  OBVIOUS
<1>2. m \in Conn /\ m.pc = "release" /\ [NoConn EXCEPT !.pc = "release"] = m
  <2>1. PICK no : no = NoConn
    OBVIOUS
  <2>2. no = [pc |-> "none", cursor |-> 0, since |-> 0, greeted |-> FALSE]
    BY <2>1 DEF NoConn
  <2>3. [no EXCEPT !.pc = "release"] = m
    <3>1. PICK f : f = FALSE
      OBVIOUS
    <3>2. no = [pc |-> "none", cursor |-> 0, since |-> 0, greeted |-> f]
      BY <2>2, <3>1, Zenon
    <3>3. m = [pc |-> "release", cursor |-> 0, since |-> 0, greeted |-> f]
      BY <1>1, <3>1, Zenon
    <3> QED
      BY <3>2, <3>3
  <2>4. m \in Conn
    BY <1>1 DEF Conn
  <2> QED
    BY <1>1, <2>1, <2>3, <2>4
<1>3. conn' = [conn EXCEPT ![c] = m] /\ release_slot
  BY <1>2 DEF Close
<1> QED
  BY <1>2, <1>3 DEF MovesOnly

(* A connection ends. *)
LEMMA DisconnectKeepsStream ==
    ASSUME StreamInv, NEW c \in Clients, Disconnect(c)
    PROVE  StreamInv'
<1>0. /\ conn \in [Clients -> Conn] /\ client \in [Clients -> Client] /\ sent \in Seq(Nat)
      /\ SlotTypeOK /\ SlotInv /\ conn[c].pc = "open" /\ Close(c)
      /\ UNCHANGED streamVars /\ UNCHANGED <<per_ip_connections, leaked>>
  BY DEF StreamInv, StreamTypeOK, Disconnect
<1>1. /\ MovesOnly(c, "open", "release") /\ release_slot
      /\ conn' \in [Clients -> Conn] /\ conn'[c].pc = "release"
      /\ \A x \in Clients \ {c} : conn'[x] = conn[x]
  BY <1>0, CloseMoves
<1>2. SlotTypeOK' /\ SlotInv'
  BY <1>0, <1>1, ReleaseKeepsSlots
<1>3. PICK k \in Conn, m \in Conn : k = conn[c] /\ m = conn'[c]
  BY <1>0, <1>1
<1>4. PICK x \in Client : x = client[c]
  BY <1>0
<1>5. PICK gap \in BOOLEAN : gap = (x.missed \/ (~ k.greeted /\ x.last > k.since))
  OBVIOUS
<1>6. PICK y : y = [last |-> x.last, got |-> x.got, first |-> x.first, missed |-> gap, stale |-> x.stale]
  OBVIOUS
<1>7. client' = [client EXCEPT ![c] = y] /\ y \in Client
  <2>1. client' = [client EXCEPT ![c] = [client[c] EXCEPT !.missed = gap]]
    BY <1>3, <1>4, <1>5 DEF Disconnect
  <2>2. [x EXCEPT !.missed = gap] = y /\ y \in Client
    BY <1>6 DEF Client
  <2> QED
    BY <1>4, <2>1, <2>2
<1>8. /\ client' \in [Clients -> Client] /\ client'[c] = y
      /\ \A z \in Clients \ {c} : client'[z] = client[z]
  BY <1>0, <1>7
<1>9. ASSUME c \in Followers PROVE Follow(m, y, sent)
  <2>1. PICK L : L = sent
    OBVIOUS
  <2>2. Follow(k, x, L) /\ L \in Seq(Nat) /\ k.pc = "open" /\ m.pc # "open"
    BY <1>0, <1>1, <1>3, <1>4, <1>9, <2>1 DEF StreamInv
  <2>3. /\ y.last = x.last /\ y.got = x.got /\ y.first = x.first /\ y.stale = x.stale
        /\ y.missed <=> x.missed \/ (~ k.greeted /\ x.last > k.since)
    BY <1>5, <1>6
  <2> QED
    BY <1>7, <2>1, <2>2, <2>3, FollowEnds
<1> QED
  BY <1>0, <1>1, <1>2, <1>3, <1>8, <1>9, OneClient

(* A live event, or the notice that some were lost. *)
LEMMA LiveKeepsStream ==
    ASSUME StreamInv, NEW c \in Followers, Live(c)
    PROVE  StreamInv'
<1>0. /\ conn \in [Clients -> Conn] /\ client \in [Clients -> Client] /\ sent \in Seq(Nat) /\ c \in Clients
      /\ SlotTypeOK /\ SlotInv /\ conn[c].pc = "open" /\ conn[c].cursor <= Len(sent)
      /\ UNCHANGED streamVars /\ UNCHANGED slotVars
  BY FollowerAssumption DEF StreamInv, StreamTypeOK, Live
<1>1. PICK L \in Seq(Nat), k \in Conn : L = sent /\ k = conn[c]
  BY <1>0
<1>2. PICK x \in Client : x = client[c]
  BY <1>0
<1>3. PICK n \in Nat : n = k.cursor /\ n >= 1 /\ n <= Len(L) /\ Follow(k, x, L) /\ k.pc = "open"
  BY <1>0, <1>1, <1>2 DEF Conn, StreamInv, Follow
<1> DEFINE Reads(r) == conn' = [conn EXCEPT ![c].cursor = r]
<1>4. ASSUME NEW r \in Nat, Reads(r)
      PROVE  /\ conn' \in [Clients -> Conn]
             /\ conn'[c] = [pc |-> k.pc, cursor |-> r, since |-> k.since, greeted |-> k.greeted]
             /\ \A z \in Clients \ {c} : conn'[z] = conn[z]
  <2>1. conn' = [conn EXCEPT ![c] = [conn[c] EXCEPT !.cursor = r]]
    BY <1>4
  <2>2. PICK m : m = [pc |-> k.pc, cursor |-> r, since |-> k.since, greeted |-> k.greeted]
    OBVIOUS
  <2>3. [k EXCEPT !.cursor = r] = m /\ m \in Conn
    BY <2>2 DEF Conn
  <2> QED
    BY <1>0, <1>1, <2>1, <2>2, <2>3
<1> HIDE DEF Reads
<1>5. ASSUME NEW r \in Nat, Reads(r) PROVE SlotTypeOK' /\ SlotInv'
  <2>0. /\ conn'[c] = [pc |-> k.pc, cursor |-> r, since |-> k.since, greeted |-> k.greeted]
        /\ \A z \in Clients \ {c} : conn'[z] = conn[z]
    BY <1>4, <1>5
  <2>1. \A z \in Clients : conn'[z].pc = conn[z].pc
    BY <1>1, <2>0
  <2> QED
    BY <1>0, <2>1, SlotsKept
<1>6. ASSUME Received(c, {[sequence_id |-> n, event |-> sent[n]]}, FALSE), NEW r \in Nat, r = n + 1, Reads(r)
      PROVE  StreamInv'
  <2>1. [sequence_id |-> n, event |-> sent[n]] = Sent(L, n) /\ Sent(L, n) \in Item /\ Sent(L, n).sequence_id = n
    BY <1>1, <1>3 DEF Sent, Item
  <2>2. Takes(c, {Sent(L, n)}, FALSE)
    <3>1. {Sent(L, n)} \in SUBSET Item /\ \A e \in {Sent(L, n)} : e.sequence_id <= n
      BY <2>1
    <3> QED
      BY <1>0, <1>6, <2>1, <3>1, ReceivedTakes
  <2>3. PICK y \in Client : y = client'[c]
    BY <1>0, <2>2 DEF Takes
  <2>4. Took(x, y, {Sent(L, k.cursor)}, FALSE)
    BY <1>2, <1>3, <2>2, <2>3 DEF Takes
  <2>5. PICK m \in Conn : m = conn'[c] /\ m.pc = "open" /\ m.cursor = k.cursor + 1 /\ m.since = k.since /\ m.greeted = k.greeted
    <3>1. conn'[c] = [pc |-> k.pc, cursor |-> r, since |-> k.since, greeted |-> k.greeted] /\ conn'[c] \in Conn
      BY <1>0, <1>4, <1>6
    <3> QED
      BY <1>3, <1>6, <3>1
  <2>6. Follow(m, y, L)
    BY <1>3, <2>4, <2>5, FollowLive
  <2>7. /\ client' \in [Clients -> Client] /\ conn' \in [Clients -> Conn]
        /\ \A z \in Clients \ {c} : conn'[z] = conn[z] /\ client'[z] = client[z]
    BY <1>4, <1>6, <2>2 DEF Takes
  <2>8. SlotTypeOK' /\ SlotInv'
    BY <1>5, <1>6
  <2> QED
    BY <1>0, <1>1, <2>3, <2>5, <2>6, <2>7, <2>8, OneClient
<1>7. ASSUME NEW r \in Nat, r > n, r <= Len(L) + 1, Received(c, {}, TRUE), Reads(r)
      PROVE  StreamInv'
  <2>2. Takes(c, {}, TRUE)
    BY <1>0, <1>7, ReceivedTakes
  <2>3. PICK y \in Client : y = client'[c]
    BY <1>0, <2>2 DEF Takes
  <2>4. Took(x, y, {}, TRUE)
    BY <1>2, <2>2, <2>3 DEF Takes
  <2>5. PICK m \in Conn : m = conn'[c] /\ m.pc = "open" /\ m.cursor = r /\ m.since = k.since
    <3>1. conn'[c] = [pc |-> k.pc, cursor |-> r, since |-> k.since, greeted |-> k.greeted] /\ conn'[c] \in Conn
      BY <1>0, <1>4, <1>7
    <3> QED
      BY <1>3, <3>1
  <2>6. Follow(m, y, L)
    BY <1>3, <1>7, <2>4, <2>5, FollowLags
  <2>7. /\ client' \in [Clients -> Client] /\ conn' \in [Clients -> Conn]
        /\ \A z \in Clients \ {c} : conn'[z] = conn[z] /\ client'[z] = client[z]
    BY <1>4, <1>7, <2>2 DEF Takes
  <2>8. SlotTypeOK' /\ SlotInv'
    BY <1>5, <1>7
  <2> QED
    BY <1>0, <1>1, <2>3, <2>5, <2>6, <2>7, <2>8, OneClient
<1>8. PICK oldest \in Int : oldest = Len(L) - channel_capacity + 1 /\ oldest <= Len(L)
  BY CapacityAssumption
<1>9. \/ Received(c, {[sequence_id |-> n, event |-> sent[n]]}, FALSE) /\ Reads(n + 1)
      \/ n < oldest /\ Received(c, {}, TRUE) /\ Reads(oldest)
  BY <1>1, <1>3, <1>8 DEF Live, Reads
<1>10. n + 1 \in Nat /\ (n < oldest => oldest \in Nat /\ oldest > n /\ oldest <= Len(L) + 1)
  BY <1>8
<1>11. CASE Received(c, {[sequence_id |-> n, event |-> sent[n]]}, FALSE) /\ Reads(n + 1)
  BY <1>6, <1>10, <1>11
<1>12. CASE n < oldest /\ Received(c, {}, TRUE) /\ Reads(oldest)
  BY <1>7, <1>10, <1>12
<1> QED
  BY <1>9, <1>11, <1>12

(* The subscription, with its replay. *)
LEMMA SubscribeKeepsStream ==
    ASSUME StreamInv, NEW c \in Followers, Subscribe(c)
    PROVE  StreamInv'
<1>0. /\ conn \in [Clients -> Conn] /\ client \in [Clients -> Client] /\ sent \in Seq(Nat) /\ c \in Clients
      /\ event_buffer \in Seq(Item) /\ LastOf(sent, event_buffer)
      /\ SlotTypeOK /\ SlotInv /\ conn[c].pc = "open" /\ ~ conn[c].greeted
      /\ conn' = [conn EXCEPT ![c].greeted = TRUE]
      /\ UNCHANGED streamVars /\ UNCHANGED slotVars
  BY FollowerAssumption DEF StreamInv, StreamTypeOK, Subscribe
<1>1. PICK L \in Seq(Nat), k \in Conn : L = sent /\ k = conn[c]
  BY <1>0
<1>2. PICK x \in Client : x = client[c]
  BY <1>0
<1>3. PICK b \in Seq(Item) : b = event_buffer /\ LastOf(L, b)
  BY <1>0, <1>1
<1>4. Received(c, Since(b, k.since), Away(k, x, b))
  BY <1>1, <1>2, <1>3 DEF Subscribe, Since, events_since, Away, AwayTooLong
<1>5. /\ Since(b, k.since) \in SUBSET Item /\ Away(k, x, b) \in BOOLEAN /\ Len(L) \in Nat
      /\ \A e \in Since(b, k.since) : e.sequence_id <= Len(L)
  BY <1>3, BufferHolds DEF Since, Away
<1>6. Takes(c, Since(b, k.since), Away(k, x, b))
  BY <1>0, <1>4, <1>5, ReceivedTakes
<1>7. PICK y \in Client : y = client'[c] /\ Took(x, y, Since(b, k.since), Away(k, x, b))
  BY <1>0, <1>2, <1>6 DEF Takes
<1>8. PICK m : m = [pc |-> k.pc, cursor |-> k.cursor, since |-> k.since, greeted |-> TRUE]
  OBVIOUS
<1>9. [k EXCEPT !.greeted = TRUE] = m /\ m \in Conn
  <2>1. k = [pc |-> k.pc, cursor |-> k.cursor, since |-> k.since, greeted |-> k.greeted]
    BY DEF Conn
  <2>2. PICK p, r, q, g : p = k.pc /\ r = k.cursor /\ q = k.since /\ g = k.greeted
    OBVIOUS
  <2>3. k = [pc |-> p, cursor |-> r, since |-> q, greeted |-> g]
    BY <2>1, <2>2
  <2>4. [k EXCEPT !.greeted = TRUE] = [pc |-> p, cursor |-> r, since |-> q, greeted |-> TRUE]
    <3>1. PICK f : f = TRUE
      OBVIOUS
    <3>2. [k EXCEPT !.greeted = f] = [pc |-> p, cursor |-> r, since |-> q, greeted |-> f]
      BY <2>3
    <3> QED
      BY <3>1, <3>2, Zenon
  <2>5. m \in Conn
    BY <1>8 DEF Conn
  <2> QED
    BY <1>8, <2>2, <2>4, <2>5
<1>10. conn' = [conn EXCEPT ![c] = [conn[c] EXCEPT !.greeted = TRUE]]
  BY <1>0
<1>11. conn' \in [Clients -> Conn] /\ conn'[c] = m /\ \A z \in Clients \ {c} : conn'[z] = conn[z]
  BY <1>0, <1>1, <1>9, <1>10
<1>12. SlotTypeOK' /\ SlotInv'
  <2>1. \A z \in Clients : conn'[z].pc = conn[z].pc
    BY <1>1, <1>8, <1>11
  <2> QED
    BY <1>0, <2>1, SlotsKept
<1>13. Follow(m, y, L)
  <2>1. Follow(k, x, L) /\ k.pc = "open" /\ ~ k.greeted
    BY <1>0, <1>1, <1>2 DEF StreamInv
  <2>2. m.pc = "open" /\ m.cursor = k.cursor /\ m.since = k.since /\ m.greeted
    BY <1>8, <2>1
  <2> QED
    BY <1>3, <1>7, <1>9, <2>1, <2>2, FollowSubscribes
<1>14. client' \in [Clients -> Client] /\ \A z \in Clients \ {c} : client'[z] = client[z]
  BY <1>6 DEF Takes
<1> QED
  BY <1>0, <1>1, <1>7, <1>11, <1>12, <1>13, <1>14, OneClient

(* The replay breaks off, and with it the connection. *)
LEMMA BrokenReplayKeepsStream ==
    ASSUME StreamInv, NEW c \in Followers, BrokenReplay(c)
    PROVE  StreamInv'
<1>0. /\ conn \in [Clients -> Conn] /\ client \in [Clients -> Client] /\ sent \in Seq(Nat) /\ c \in Clients
      /\ event_buffer \in Seq(Item) /\ LastOf(sent, event_buffer)
      /\ SlotTypeOK /\ SlotInv /\ conn[c].pc = "open" /\ ~ conn[c].greeted /\ Close(c)
      /\ UNCHANGED streamVars /\ UNCHANGED <<per_ip_connections, leaked>>
  BY FollowerAssumption DEF StreamInv, StreamTypeOK, BrokenReplay
<1>1. PICK L \in Seq(Nat), k \in Conn : L = sent /\ k = conn[c]
  BY <1>0
<1>2. PICK x \in Client : x = client[c]
  BY <1>0
<1>3. PICK b \in Seq(Item) : b = event_buffer /\ LastOf(L, b)
  BY <1>0, <1>1
<1>4. PICK e \in Since(b, k.since) :
         Received(c, {f \in Since(b, k.since) : f.sequence_id < e.sequence_id}, Away(k, x, b) \/ x.last > k.since)
  BY <1>1, <1>2, <1>3 DEF BrokenReplay, Since, events_since, Away, AwayTooLong
<1> DEFINE items == {f \in Since(b, k.since) : f.sequence_id < e.sequence_id}
           gap == Away(k, x, b) \/ x.last > k.since
<1>5. /\ items \in SUBSET Item /\ gap \in BOOLEAN /\ Len(L) \in Nat
      /\ \A f \in items : f.sequence_id <= Len(L)
  BY <1>3, BufferHolds DEF Since, Away
<1>6. Takes(c, items, gap)
  <2>1. Received(c, items, gap)
    BY <1>4
  <2> HIDE DEF items, gap
  <2> QED
    BY <1>0, <1>5, <2>1, ReceivedTakes
<1>7. PICK y \in Client : y = client'[c] /\ Took(x, y, items, gap)
  BY <1>0, <1>2, <1>6 DEF Takes
<1>8. /\ MovesOnly(c, "open", "release") /\ release_slot
      /\ conn' \in [Clients -> Conn] /\ conn'[c].pc = "release"
      /\ \A z \in Clients \ {c} : conn'[z] = conn[z]
  BY <1>0, CloseMoves
<1>9. SlotTypeOK' /\ SlotInv'
  BY <1>0, <1>8, ReleaseKeepsSlots
<1>10. PICK m \in Conn : m = conn'[c] /\ m.pc # "open"
  BY <1>0, <1>8
<1>11. Follow(m, y, L)
  <2>1. Follow(k, x, L) /\ k.pc = "open" /\ ~ k.greeted
    BY <1>0, <1>1, <1>2 DEF StreamInv
  <2> QED
    BY <1>3, <1>4, <1>7, <1>10, <2>1, FollowBreaks
<1>12. client' \in [Clients -> Client] /\ \A z \in Clients \ {c} : client'[z] = client[z]
  BY <1>6 DEF Takes
<1> HIDE DEF items, gap
<1> QED
  BY <1>0, <1>1, <1>7, <1>8, <1>9, <1>10, <1>11, <1>12, OneClient

(* Every step of a client. *)
LEMMA ClientsKeepStream ==
    ASSUME StreamInv, WsNext PROVE StreamInv'
<1>1. ASSUME NEW c \in Clients,
             \/ try_acquire_slot(c) \/ try_acquire_slot_for_ip(c) \/ FailedUpgrade(c)
             \/ Open(c) \/ Disconnect(c) \/ release_slot_for_ip(c)
      PROVE  StreamInv'
  BY <1>1, SlotsKeepStream, OpenKeepsStream, DisconnectKeepsStream
<1>2. ASSUME NEW c \in Followers, Live(c) \/ Subscribe(c) \/ BrokenReplay(c)
      PROVE  StreamInv'
  BY <1>2, LiveKeepsStream, SubscribeKeepsStream, BrokenReplayKeepsStream
<1> QED
  BY <1>1, <1>2 DEF WsNext

(* An event is broadcast. *)
LEMMA BroadcastKeepsStream ==
    ASSUME StreamInv, NEW e \in Nat, broadcast(e), UNCHANGED <<slotVars, conn, client>>
    PROVE  StreamInv'
<1>0. /\ conn \in [Clients -> Conn] /\ client \in [Clients -> Client] /\ SlotTypeOK /\ SlotInv
      /\ UNCHANGED slotVars /\ conn' = conn /\ client' = client
  BY DEF StreamInv, StreamTypeOK
<1>1. PICK L \in Seq(Nat), b \in Seq(Item) : L = sent /\ b = event_buffer /\ LastOf(L, b) /\ next_sequence_id = Len(L) + 1
  BY DEF StreamInv, StreamTypeOK
<1>2. PICK M, d : M = Append(L, e) /\ d = Buffered(b, [sequence_id |-> Len(L) + 1, event |-> e])
  OBVIOUS
<1>3. M \in Seq(Nat) /\ d \in Seq(Item) /\ LastOf(M, d)
  BY <1>1, <1>2, BufferedIsLast
<1>4. sent' = M /\ event_buffer' = d /\ next_sequence_id' = Len(M) + 1
  <2>1. Len(M) = Len(L) + 1
    BY <1>2
  <2> QED
    BY <1>1, <1>2, <2>1 DEF broadcast
<1>5. SlotTypeOK' /\ SlotInv'
  BY <1>0, SlotsKept
<1>6. ASSUME NEW c \in Followers PROVE Follow(conn'[c], client'[c], sent')
  <2>1. PICK k \in Conn : k = conn[c] /\ c \in Clients
    BY <1>0, FollowerAssumption
  <2>2. PICK x \in Client : x = client[c]
    BY <1>0, <2>1
  <2>3. Follow(k, x, L)
    BY <1>1, <2>1, <2>2 DEF StreamInv
  <2>4. Follow(k, x, Append(L, e))
    BY <2>3, FollowGrows
  <2> QED
    BY <1>0, <1>2, <1>4, <2>1, <2>2, <2>4
<1>7. StreamTypeOK'
  BY <1>0, <1>3, <1>4 DEF StreamTypeOK
<1> QED
  BY <1>3, <1>4, <1>5, <1>6, <1>7 DEF StreamInv

(* The stream of a new process: what a client may know, it knows from an   *)
(* earlier life.                                                           *)
Fresh ==
    /\ next_sequence_id = 1 /\ event_buffer = <<>> /\ sent = <<>> /\ active_connections = 0
    /\ per_ip_connections = [ip \in Ips |-> 0] /\ leaked = [ip \in Ips |-> 0]
    /\ conn = [c \in Clients |-> NoConn] /\ client \in [Clients -> Client]
    /\ \A c \in Followers : /\ client[c].stale \/ client[c].first = 0
                            /\ client[c].first = 0 => client[c].last = 0

(* It satisfies the invariant. *)
LEMMA FreshStream == Fresh => StreamInv
<1> SUFFICES ASSUME Fresh PROVE StreamInv
  OBVIOUS
<1> USE DEF Fresh
<1>1. SlotTypeOK /\ SlotInv
  BY NoSlots
<1>2. NoConn \in Conn /\ NoConn.pc = "none"
  BY DEF NoConn, Conn
<1>3. Len(<<>>) = 0 /\ <<>> \in Seq(Nat) /\ <<>> \in Seq(Item)
  OBVIOUS
<1>4. StreamTypeOK
  BY <1>2, <1>3 DEF StreamTypeOK
<1>5. LastOf(sent, event_buffer)
  BY <1>3, CapacityAssumption DEF LastOf
<1>6. ASSUME NEW c \in Followers PROVE Follow(conn[c], client[c], sent)
  <2>1. conn[c] = NoConn /\ conn[c].pc # "open"
    BY <1>2, FollowerAssumption
  <2> QED
    BY <1>3, <2>1 DEF Follow
<1> QED
  BY <1>1, <1>4, <1>5, <1>6 DEF StreamInv

(* The first process. *)
LEMMA InitStream == WsInit => StreamInv
<1> SUFFICES ASSUME WsInit PROVE StreamInv
  OBVIOUS
<1>1. PICK f : f = FALSE
  OBVIOUS
<1>2. NoClient = [last |-> 0, got |-> {}, first |-> 0, missed |-> f, stale |-> f]
  BY <1>1, Zenon DEF NoClient
<1>3. NoClient \in Client
  BY <1>1, <1>2 DEF Client
<1>4. NoClient.first = 0 /\ NoClient.last = 0
  BY <1>2
<1>5. client = [c \in Clients |-> NoClient]
  BY DEF WsInit
<1>6. client \in [Clients -> Client] /\ \A c \in Followers : client[c] = NoClient
  BY <1>3, <1>5, FollowerAssumption
<1> QED
  BY <1>4, <1>6, FreshStream DEF WsInit, Fresh

(* The process dies and another one starts. *)
LEMMA ResetKeepsStream ==
    ASSUME StreamInv, WsReset PROVE StreamInv'
<1>0. client \in [Clients -> Client]
  BY DEF StreamInv, StreamTypeOK
<1>1. ASSUME NEW c \in Clients
      PROVE  /\ client'[c] \in Client /\ client'[c].first = client[c].first /\ client'[c].last = client[c].last
             /\ client'[c].stale \/ client[c].first = 0
  <2>1. PICK x \in Client : x = client[c]
    BY <1>0
  <2>2. PICK g \in BOOLEAN : g = (x.stale \/ x.first # 0)
    OBVIOUS
  <2>3. client'[c] = [x EXCEPT !.stale = g]
    BY <2>1, <2>2 DEF WsReset
  <2>4. [x EXCEPT !.stale = g] = [last |-> x.last, got |-> x.got, first |-> x.first, missed |-> x.missed, stale |-> g]
    BY DEF Client
  <2>5. PICK y : y = [last |-> x.last, got |-> x.got, first |-> x.first, missed |-> x.missed, stale |-> g]
    OBVIOUS
  <2>6. y \in Client /\ y.first = x.first /\ y.last = x.last /\ y.stale = g
    BY <2>5 DEF Client
  <2> QED
    BY <2>1, <2>2, <2>3, <2>4, <2>5, <2>6
<1>2. client' \in [Clients -> Client]
  BY <1>1 DEF WsReset
<1>3. ASSUME NEW c \in Followers
      PROVE  /\ client'[c].stale \/ client'[c].first = 0
             /\ client'[c].first = 0 => client'[c].last = 0
  <2>1. c \in Clients /\ (client[c].first = 0 => client[c].last = 0)
    BY FollowerAssumption DEF StreamInv, Follow
  <2> QED
    BY <1>1, <2>1
<1>4. Fresh'
  BY <1>2, <1>3 DEF WsReset, Fresh
<1> QED
  BY <1>4, FreshStream, PTL

----------------------------------------------------------------------------
(* The table *)

Events == [id : Results, status : Statuses]

(* HasStatus, of any chain. *)
StatusAt(C, id, n, s) ==
    \/ s = "absent" /\ \A i \in 1 .. n : C[i].id # id
    \/ \E i \in 1 .. n : C[i] = [id |-> id, status |-> s] /\ \A k \in i + 1 .. n : C[k].id # id

(* The submission of a result is its first event. *)
SubmittedFirst(C) ==
    \A k \in 1 .. Len(C) : C[k].status = "submitted" <=> \A i \in 1 .. k - 1 : C[i].id # C[k].id

(* A row with status s, when the events before next are applied: one that  *)
(* was written may be behind the position when back holds, and behind the  *)
(* poll when late holds.                                                   *)
GenuineRow(C, id, s, position, next, back, late) ==
    \E n \in 0 .. Len(C) :
        /\ n + 1 >= position \/ (back /\ s # "absent")
        /\ n + 1 >= next \/ (late /\ s # "absent")
        /\ StatusAt(C, id, n, s)

(* A poll that did not start from the first block, after a rewind that was *)
(* cut short.                                                              *)
Late == rewound /\ poll.first > 1

Polls == [pc : {"idle", "apply"}, first : Nat, next : Nat, latest : Nat]

PollOK(p, position, length, back) ==
    /\ p \in Polls
    /\ p.pc = "idle" => p = Idle
    /\ p.pc = "apply" => /\ p.next >= 1 /\ (p.next >= position \/ back)
                         /\ p.latest <= length /\ p.latest + 1 >= position

RowInv ==
    /\ chain \in Seq(Events) /\ SubmittedFirst(chain)
    /\ results \in [Results -> Statuses \cup {"absent"}]
    /\ last_indexed_block \in Nat
    /\ last_indexed_block <= Len(chain) + 1
    /\ rewound \in BOOLEAN
    /\ PollOK(poll, last_indexed_block, Len(chain), rewound)
    /\ lost \subseteq Results
    /\ \A id \in Results \ lost :
         GenuineRow(chain, id, results[id], last_indexed_block, poll.next, rewound, Late)

(* An event at the end of the chain changes no earlier status. *)
LEMMA StatusKept ==
    ASSUME NEW C \in Seq(Events), NEW e \in Events, NEW id, NEW n \in 0 .. Len(C), NEW s, StatusAt(C, id, n, s)
    PROVE  StatusAt(Append(C, e), id, n, s)
<1>1. PICK D : D = Append(C, e)
  OBVIOUS
<1>2. \A i \in 1 .. n : D[i] = C[i]
  BY <1>1
<1>3. \A i \in 1 .. n : \A k \in i + 1 .. n : k \in 1 .. n
  OBVIOUS
<1> QED
  BY <1>1, <1>2, <1>3 DEF StatusAt

(* An event of a result in the order of the contract. *)
LEMMA MinedKeepsRows ==
    ASSUME RowInv, NEW id \in Results, NEW status \in Statuses, Mined(id, status)
    PROVE  RowInv'
<1>1. PICK C \in Seq(Events) : C = chain /\ SubmittedFirst(C)
  BY DEF RowInv
<1>2. PICK e \in Events : e = [id |-> id, status |-> status]
  BY DEF Events
<1>3. PICK D \in Seq(Events) : D = Append(C, e)
  <2>1. Append(C, e) \in Seq(Events)
    OBVIOUS
  <2> QED
    BY <2>1
<1>4. Len(C) \in Nat /\ Len(D) = Len(C) + 1 /\ D[Len(D)] = e /\ \A i \in 1 .. Len(C) : D[i] = C[i]
  BY <1>3
<1>5. /\ chain' = D /\ results' = results /\ last_indexed_block' = last_indexed_block /\ poll' = poll /\ lost' = lost
      /\ rewound' = rewound
  BY <1>1, <1>2, <1>3 DEF Mined, storeVars
<1>6. status = "submitted" <=> \A i \in 1 .. Len(C) : C[i].id # id
  <2>1. PICK before \in Statuses \cup {"absent"} : StatusAt(C, id, Len(C), before) /\ May(before, status)
    BY <1>1 DEF Mined, HasStatus, StatusAt
  <2>2. CASE before = "absent"
    <3>1. status = "submitted"
      BY <2>1, <2>2 DEF May
    <3>2. \A i \in 1 .. Len(C) : C[i].id # id
      <4>1. \A i \in 1 .. Len(C) : C[i] # [id |-> id, status |-> before]
        BY <2>2 DEF Events, Statuses
      <4> QED
        BY <2>1, <4>1 DEF StatusAt
    <3> QED
      BY <3>1, <3>2
  <2>3. CASE before # "absent"
    <3>1. status # "submitted"
      BY <2>1, <2>3 DEF May
    <3>2. PICK i \in 1 .. Len(C) : C[i] = [id |-> id, status |-> before]
      BY <2>1, <2>3 DEF StatusAt
    <3> QED
      BY <3>1, <3>2
  <2> QED
    BY <2>2, <2>3
<1>7. SubmittedFirst(D)
  <2> SUFFICES ASSUME NEW k \in 1 .. Len(D)
               PROVE  D[k].status = "submitted" <=> \A i \in 1 .. k - 1 : D[i].id # D[k].id
    BY DEF SubmittedFirst
  <2>1. CASE k = Len(D)
    <3>1. k - 1 = Len(C) /\ D[k].status = status /\ D[k].id = id
      BY <1>2, <1>4, <2>1
    <3> QED
      BY <1>4, <1>6, <3>1
  <2>2. CASE k # Len(D)
    <3>1. k \in 1 .. Len(C) /\ D[k] = C[k] /\ \A i \in 1 .. k - 1 : i \in 1 .. Len(C) /\ D[i] = C[i]
      BY <1>4, <2>2
    <3> QED
      BY <1>1, <3>1 DEF SubmittedFirst
  <2> QED
    BY <2>1, <2>2
<1>8. ASSUME NEW x \in Results \ lost
      PROVE  GenuineRow(D, x, results[x], last_indexed_block, poll.next, rewound, Late)
  <2>1. PICK n \in 0 .. Len(C) : /\ n + 1 >= last_indexed_block \/ (rewound /\ results[x] # "absent")
                                 /\ n + 1 >= poll.next \/ (Late /\ results[x] # "absent")
                                 /\ StatusAt(C, x, n, results[x])
    BY <1>1 DEF RowInv, GenuineRow
  <2>2. StatusAt(D, x, n, results[x])
    <3>1. PICK s : s = results[x]
      OBVIOUS
    <3> QED
      BY <1>3, <2>1, <3>1, StatusKept
  <2>3. n \in 0 .. Len(D)
    BY <1>4
  <2> QED
    BY <2>1, <2>2, <2>3 DEF GenuineRow
<1>9. PollOK(poll, last_indexed_block, Len(D), rewound) /\ last_indexed_block <= Len(D) + 1
  <2>1. PollOK(poll, last_indexed_block, Len(C), rewound) /\ last_indexed_block <= Len(C) + 1 /\ last_indexed_block \in Nat
    BY <1>1 DEF RowInv
  <2> QED
    BY <1>4, <2>1 DEF PollOK, Polls
<1> QED
  BY <1>5, <1>7, <1>8, <1>9 DEF RowInv, Late

(* Applying event number n to the row of its result. *)
LEMMA AppliedRow ==
    ASSUME NEW C \in Seq(Events), SubmittedFirst(C), NEW id \in Results, NEW s \in Statuses \cup {"absent"},
           NEW position \in Nat, NEW next \in 1 .. Len(C), NEW back \in BOOLEAN, NEW late \in BOOLEAN,
           next >= position \/ back, GenuineRow(C, id, s, position, next, back, late),
           NEW t, t = IF C[next].id = id /\ (C[next].status = "submitted" <=> s = "absent")
                      THEN C[next].status ELSE s
    PROVE  GenuineRow(C, id, t, position, next + 1, back, late)
<1>0. Len(C) \in Nat /\ C[next] \in Events
  OBVIOUS
<1>1. PICK n \in 0 .. Len(C) : /\ n + 1 >= position \/ (back /\ s # "absent")
                               /\ n + 1 >= next \/ (late /\ s # "absent")
                               /\ StatusAt(C, id, n, s)
  BY DEF GenuineRow
<1>2. CASE C[next].id = id /\ (C[next].status = "submitted" <=> s = "absent")
  <2>1. C[next] = [id |-> id, status |-> t]
    BY <1>0, <1>2 DEF Events
  <2>2. next \in 1 .. next /\ \A k \in next + 1 .. next : C[k].id # id
    OBVIOUS
  <2>3. StatusAt(C, id, next, t)
    BY <2>1, <2>2 DEF StatusAt
  <2>4. next \in 0 .. Len(C) /\ (next + 1 >= position \/ back) /\ next + 1 >= next + 1 /\ t # "absent"
    BY <1>0, <1>2 DEF Events, Statuses
  <2> QED
    BY <2>3, <2>4 DEF GenuineRow
<1>3. CASE C[next].id # id
  <2>1. t = s
    BY <1>3
  <2>2. CASE n + 1 # next
    <3>1. n + 1 >= next + 1 \/ (late /\ s # "absent")
      BY <1>1, <2>2
    <3> QED
      BY <1>1, <2>1, <3>1 DEF GenuineRow
  <2>3. CASE n + 1 = next
    <3>1. n + 1 = next /\ next \in 0 .. Len(C) /\ next + 1 >= next + 1
      BY <1>0, <2>3
    <3>2. StatusAt(C, id, next, s)
      <4>1. CASE s = "absent" /\ \A i \in 1 .. n : C[i].id # id
        BY <1>3, <3>1, <4>1 DEF StatusAt
      <4>2. CASE \E i \in 1 .. n : C[i] = [id |-> id, status |-> s] /\ \A k \in i + 1 .. n : C[k].id # id
        <5>1. PICK i \in 1 .. n : C[i] = [id |-> id, status |-> s] /\ \A k \in i + 1 .. n : C[k].id # id
          BY <4>2
        <5>2. i \in 1 .. next /\ \A k \in i + 1 .. next : k \in i + 1 .. n \/ k = next
          BY <3>1
        <5> QED
          BY <1>3, <5>1, <5>2 DEF StatusAt
      <4> QED
        BY <1>1, <4>1, <4>2 DEF StatusAt
    <3>3. next + 1 >= position \/ (back /\ s # "absent")
      BY <1>1, <3>1
    <3> QED
      BY <2>1, <3>1, <3>2, <3>3 DEF GenuineRow
  <2> QED
    BY <2>2, <2>3
<1>4. CASE C[next].id = id /\ ~ (C[next].status = "submitted" <=> s = "absent")
  <2>1. t = s
    BY <1>4
  <2>2. n + 1 # next
    <3> SUFFICES ASSUME n + 1 = next PROVE FALSE
      OBVIOUS
    <3>1. n = next - 1
      BY <1>1
    <3>2. C[next].status = "submitted" <=> \A i \in 1 .. n : C[i].id # id
      BY <1>4, <3>1 DEF SubmittedFirst
    <3>3. s = "absent" => \A i \in 1 .. n : C[i].id # id
      <4> SUFFICES ASSUME s = "absent" PROVE \A i \in 1 .. n : C[i].id # id
        OBVIOUS
      <4>1. \A i \in 1 .. n : C[i] # [id |-> id, status |-> s]
        BY DEF Events, Statuses
      <4> QED
        BY <1>1, <4>1 DEF StatusAt
    <3>4. s # "absent" => \E i \in 1 .. n : C[i].id = id
      BY <1>1 DEF StatusAt
    <3> QED
      BY <1>4, <3>2, <3>3, <3>4
  <2>3. n + 1 >= next + 1 \/ (late /\ s # "absent")
    BY <1>1, <2>2
  <2> QED
    BY <1>1, <2>1, <2>3 DEF GenuineRow
<1> QED
  BY <1>2, <1>3, <1>4

(* A poll begins, at the position or, when that cannot be read, at the     *)
(* first block.                                                            *)
LEMMA StartPollKeepsRows ==
    ASSUME RowInv, StartPoll PROVE RowInv'
<1>1. PICK C \in Seq(Events), b \in Nat : C = chain /\ b = last_indexed_block /\ Len(C) \in Nat /\ b <= Len(C) + 1
  BY DEF RowInv
<1>2. PICK from_block \in {0, b} :
        /\ get_last_indexed_block(from_block) /\ from_block <= Len(C)
        /\ poll' = [pc |-> "apply", first |-> FirstBlock(from_block), next |-> FirstBlock(from_block),
                    latest |-> Len(C)]
  BY <1>1 DEF StartPoll, SomethingNew
<1>3. PICK x : x = FirstBlock(from_block)
  OBVIOUS
<1>4. x \in Nat /\ x >= 1 /\ (from_block = b => x >= b /\ \A n \in Nat : n + 1 >= b => n + 1 >= x)
      /\ (from_block # b => x = 1)
  BY <1>3 DEF FirstBlock
<1>5. poll' \in Polls /\ poll'.first = x /\ poll'.next = x /\ poll'.pc = "apply" /\ poll'.latest = Len(C)
  BY <1>1, <1>2, <1>3, <1>4 DEF Polls
<1>6. chain' = C /\ results' = results /\ last_indexed_block' = b /\ lost' = lost
  BY <1>1 DEF StartPoll
<1>7. /\ rewound' \in BOOLEAN /\ rewound \in BOOLEAN /\ (rewound => rewound')
      /\ from_block = b \/ rewound'
  <2>1. (rewound' = rewound /\ from_block = b) \/ rewound' = TRUE
    BY <1>1, <1>2 DEF get_last_indexed_block
  <2>2. rewound \in BOOLEAN
    BY DEF RowInv
  <2>3. CASE rewound' = rewound /\ from_block = b
    BY <2>2, <2>3
  <2>4. CASE rewound' = TRUE
    BY <2>2, <2>4
  <2> QED
    BY <2>1, <2>3, <2>4
<1>8. rewound' = rewound \/ x = 1
  BY <1>1, <1>2, <1>3 DEF get_last_indexed_block, FirstBlock
<1>9. PollOK(poll', b, Len(C), rewound')
  BY <1>1, <1>4, <1>5, <1>7 DEF PollOK
<1>10. ASSUME NEW id \in Results \ lost PROVE GenuineRow(C, id, results[id], b, x, rewound', Late')
  <2>1. PICK n \in 0 .. Len(C) : /\ n + 1 >= b \/ (rewound /\ results[id] # "absent")
                                 /\ StatusAt(C, id, n, results[id])
    BY <1>1 DEF RowInv, GenuineRow
  <2>2. n + 1 >= b \/ (rewound' /\ results[id] # "absent")
    BY <1>7, <2>1
  <2>3. n + 1 >= x \/ (Late' /\ results[id] # "absent")
    <3>1. CASE x = 1
      BY <1>1, <3>1
    <3>2. CASE x # 1
      <4>1. rewound' = rewound /\ x > 1 /\ from_block = b
        BY <1>4, <1>8, <3>2
      <4>2. Late' <=> rewound
        BY <1>5, <4>1 DEF Late
      <4> QED
        BY <1>1, <1>4, <2>1, <4>1, <4>2
    <3> QED
      BY <3>1, <3>2
  <2> QED
    BY <2>1, <2>2, <2>3 DEF GenuineRow
<1>11. SubmittedFirst(C) /\ results \in [Results -> Statuses \cup {"absent"}] /\ lost \subseteq Results
  BY <1>1 DEF RowInv
<1> QED
  BY <1>1, <1>5, <1>6, <1>7, <1>9, <1>10, <1>11 DEF RowInv

(* An event is applied, or its row cannot be written. *)
LEMMA ApplyEventKeepsRows ==
    ASSUME RowInv, ApplyEvent PROVE RowInv'
<1>1. PICK C \in Seq(Events), b \in Nat : C = chain /\ b = last_indexed_block /\ Len(C) \in Nat /\ SubmittedFirst(C)
  BY DEF RowInv
<1>2. PICK p \in Polls, back \in BOOLEAN, late \in BOOLEAN :
        p = poll /\ back = rewound /\ late = Late /\ PollOK(p, b, Len(C), back)
  <2>1. Late \in BOOLEAN
    BY DEF Late
  <2> QED
    BY <1>1, <2>1 DEF RowInv, PollOK
<1>3. p.pc = "apply" /\ p.next \in 1 .. Len(C) /\ p.next <= p.latest /\ (p.next >= b \/ back)
  BY <1>1, <1>2 DEF ApplyEvent, PollOK, Polls
<1>4. PICK q : q = [pc |-> "apply", first |-> p.first, next |-> p.next + 1, latest |-> p.latest]
  OBVIOUS
<1>5. poll' = q
  BY <1>2, <1>3, <1>4 DEF ApplyEvent, Polls
<1>6. q.next = p.next + 1 /\ q.first = p.first /\ PollOK(q, b, Len(C), back)
  <2>1. p.first \in Nat /\ p.next \in Nat /\ p.latest \in Nat /\ p.latest <= Len(C) /\ p.latest + 1 >= b
    BY <1>2, <1>3 DEF PollOK, Polls
  <2> QED
    BY <1>1, <1>3, <1>4, <2>1 DEF PollOK, Polls
<1>7. PICK e \in Events : e = C[p.next]
  BY <1>3
<1>8. /\ chain' = C /\ last_indexed_block' = b /\ rewound' = back /\ Late' = late
      /\ rewound' \in BOOLEAN /\ b <= Len(C) + 1
  <2>1. chain' = C /\ last_indexed_block' = b /\ rewound' = rewound /\ poll'.first = poll.first
    BY <1>1, <1>2, <1>5, <1>6 DEF ApplyEvent
  <2>2. Late' = Late
    BY <2>1 DEF Late
  <2> QED
    BY <1>1, <1>2, <2>1, <2>2 DEF RowInv
<1>9. results \in [Results -> Statuses \cup {"absent"}] /\ lost \subseteq Results /\ e.id \in Results /\ e.status \in Statuses
  BY <1>7 DEF RowInv, Events
<1>10. ASSUME NEW id \in Results \ lost PROVE GenuineRow(C, id, results[id], b, p.next, back, late)
  BY <1>1, <1>2 DEF RowInv
<1>11. CASE results' = Stored(e.id, e.status) /\ lost' = lost
  <2>1. ASSUME NEW id \in Results
        PROVE  results'[id] = IF e.id = id /\ (e.status = "submitted" <=> results[id] = "absent")
                              THEN e.status ELSE results[id]
    <3>1. CASE id = e.id
      <4>1. results'[id] = IF (e.status = "submitted") = (results[id] = "absent") THEN e.status ELSE results[id]
        BY <1>9, <1>11, <3>1 DEF Stored
      <4> QED
        BY <3>1, <4>1, Zenon
    <3>2. CASE id # e.id
      BY <1>9, <1>11, <3>2 DEF Stored
    <3> QED
      BY <3>1, <3>2
  <2>2. results' \in [Results -> Statuses \cup {"absent"}]
    BY <1>9, <1>11 DEF Stored
  <2>3. ASSUME NEW id \in Results \ lost PROVE GenuineRow(C, id, results'[id], b, p.next + 1, back, late)
    <3>1. PICK s \in Statuses \cup {"absent"}, t \in Statuses \cup {"absent"} : s = results[id] /\ t = results'[id]
      BY <1>9, <2>2
    <3>2. PICK n \in 1 .. Len(C) : n = p.next
      BY <1>3
    <3>3. t = IF C[n].id = id /\ (C[n].status = "submitted" <=> s = "absent") THEN C[n].status ELSE s
      BY <1>7, <2>1, <3>1, <3>2
    <3>4. (n >= b \/ back) /\ GenuineRow(C, id, s, b, n, back, late)
      BY <1>3, <1>10, <3>1, <3>2
    <3>5. GenuineRow(C, id, t, b, n + 1, back, late)
      BY <1>1, <3>3, <3>4, AppliedRow
    <3> QED
      BY <3>1, <3>2, <3>5
  <2> QED
    BY <1>1, <1>5, <1>6, <1>8, <1>9, <1>11, <2>2, <2>3 DEF RowInv
<1>12. CASE results' = results /\ lost' = lost \cup {e.id}
  <2>1. ASSUME NEW id \in Results \ lost' PROVE GenuineRow(C, id, results[id], b, p.next + 1, back, late)
    <3>1. id \in Results \ lost /\ id # C[p.next].id
      BY <1>7, <1>12
    <3>2. PICK s \in Statuses \cup {"absent"} : s = results[id]
      BY <1>9
    <3>3. PICK n \in 1 .. Len(C) : n = p.next
      BY <1>3
    <3>4. (n >= b \/ back) /\ GenuineRow(C, id, s, b, n, back, late)
      BY <1>3, <1>10, <3>1, <3>2, <3>3
    <3>5. s = IF C[n].id = id /\ (C[n].status = "submitted" <=> s = "absent") THEN C[n].status ELSE s
      BY <3>1, <3>3
    <3>6. GenuineRow(C, id, s, b, n + 1, back, late)
      BY <1>1, <3>4, <3>5, AppliedRow
    <3> QED
      BY <3>2, <3>3, <3>6
  <2>2. lost' \subseteq Results
    BY <1>9, <1>12
  <2> QED
    BY <1>1, <1>5, <1>6, <1>8, <1>9, <1>12, <2>1, <2>2 DEF RowInv
<1>13. \/ results' = Stored(e.id, e.status) /\ lost' = lost
       \/ results' = results /\ lost' = lost \cup {e.id}
  BY <1>1, <1>2, <1>7 DEF ApplyEvent
<1> QED
  BY <1>11, <1>12, <1>13

(* The position is saved, or the loop keeps the old one: either way every  *)
(* event of a poll from the first block has been applied.                  *)
LEMMA SavePositionKeepsRows ==
    ASSUME RowInv, SavePosition PROVE RowInv'
<1>1. PICK C \in Seq(Events), b \in Nat :
        C = chain /\ b = last_indexed_block /\ Len(C) \in Nat /\ SubmittedFirst(C) /\ b <= Len(C) + 1
  BY DEF RowInv
<1>2. PICK p \in Polls : p = poll /\ PollOK(p, b, Len(C), rewound)
  BY <1>1 DEF RowInv, PollOK
<1>3. /\ p.next \in Nat /\ p.latest \in Nat /\ p.first \in Nat /\ p.next > p.latest
      /\ p.latest + 1 >= b /\ p.latest <= Len(C)
  BY <1>2 DEF SavePosition, PollOK, Polls
<1>4. PICK d \in Nat : d = last_indexed_block' /\ d <= p.next /\ d <= Len(C) + 1
  <2>1. last_indexed_block' = p.latest + 1 \/ last_indexed_block' = b
    BY <1>1, <1>2 DEF SavePosition
  <2> QED
    BY <1>1, <1>3, <2>1
<1>5. chain' = C /\ results' = results /\ lost' = lost /\ poll' = Idle /\ rewound' = (rewound /\ p.first > 1)
  BY <1>1, <1>2 DEF SavePosition
<1>6. rewound' \in BOOLEAN /\ (Late => rewound')
  BY <1>2, <1>5 DEF Late
<1>7. PollOK(Idle, d, Len(C), rewound') /\ Idle.next = 0
  BY DEF PollOK, Polls, Idle
<1>8. ASSUME NEW id \in Results \ lost PROVE GenuineRow(C, id, results[id], d, 0, rewound', Late')
  <2>1. PICK n \in 0 .. Len(C) : /\ n + 1 >= p.next \/ (Late /\ results[id] # "absent")
                                 /\ StatusAt(C, id, n, results[id])
    BY <1>1, <1>2 DEF RowInv, GenuineRow
  <2>2. n + 1 >= d \/ (rewound' /\ results[id] # "absent")
    BY <1>1, <1>3, <1>4, <1>6, <2>1
  <2>3. n + 1 >= 0
    BY <1>1
  <2> QED
    BY <2>1, <2>2, <2>3 DEF GenuineRow
<1>9. results \in [Results -> Statuses \cup {"absent"}] /\ lost \subseteq Results
  BY DEF RowInv
<1> QED
  BY <1>1, <1>4, <1>5, <1>6, <1>7, <1>8, <1>9 DEF RowInv

(* The process dies, and the poll with it. *)
LEMMA CrashKeepsRows ==
    ASSUME RowInv, poll' = Idle, UNCHANGED <<chain, storeVars>> PROVE RowInv'
<1>1. PICK C \in Seq(Events), b \in Nat : C = chain /\ b = last_indexed_block /\ Len(C) \in Nat
  BY DEF RowInv
<1>2. chain' = C /\ results' = results /\ lost' = lost /\ last_indexed_block' = b /\ rewound' = rewound
  BY <1>1 DEF storeVars
<1>3. PollOK(Idle, b, Len(C), rewound) /\ Idle.next = 0
  BY DEF PollOK, Polls, Idle
<1>4. ASSUME NEW id \in Results \ lost PROVE GenuineRow(C, id, results[id], b, 0, rewound, Late')
  <2>1. PICK n \in 0 .. Len(C) : /\ n + 1 >= b \/ (rewound /\ results[id] # "absent")
                                 /\ StatusAt(C, id, n, results[id])
    BY <1>1 DEF RowInv, GenuineRow
  <2>2. n + 1 >= 0
    BY <1>1
  <2> QED
    BY <1>1, <2>1, <2>2 DEF GenuineRow
<1> QED
  BY <1>1, <1>2, <1>3, <1>4 DEF RowInv

(* At the start nothing is on the chain and the table is empty. *)
LEMMA InitRows == Init => RowInv
<1> SUFFICES ASSUME Init PROVE RowInv
  OBVIOUS
<1>1. chain \in Seq(Events) /\ Len(chain) = 0
  BY DEF Init
<1>2. PollOK(poll, last_indexed_block, Len(chain), rewound) /\ poll.next = 0
  BY DEF Init, PollOK, Polls, Idle
<1>3. ASSUME NEW id \in Results
      PROVE  GenuineRow(chain, id, results[id], last_indexed_block, poll.next, rewound, Late)
  <2>1. results[id] = "absent" /\ last_indexed_block = 0
    BY DEF Init
  <2>2. StatusAt(chain, id, 0, "absent")
    BY DEF StatusAt
  <2>3. 0 \in 0 .. Len(chain) /\ 0 + 1 >= 0
    BY <1>1
  <2> QED
    BY <1>2, <2>1, <2>2, <2>3 DEF GenuineRow
<1>4. SubmittedFirst(chain)
  BY <1>1 DEF SubmittedFirst
<1>5. last_indexed_block \in Nat /\ last_indexed_block <= Len(chain) + 1
  BY <1>1 DEF Init
<1>6. results \in [Results -> Statuses \cup {"absent"}] /\ lost \subseteq Results
  BY DEF Init
<1>7. rewound \in BOOLEAN
  BY Zenon DEF Init
<1> QED
  BY <1>1, <1>2, <1>3, <1>4, <1>5, <1>6, <1>7 DEF RowInv

----------------------------------------------------------------------------
(* The indexer *)

IndexerInv == StreamInv /\ RowInv

(* Every step keeps both parts. *)
LEMMA IndexerKeeps ==
    ASSUME IndexerInv, [Next]_vars PROVE IndexerInv'
<1>0. StreamInv /\ RowInv
  BY DEF IndexerInv
<1>1. ASSUME UNCHANGED wsVars PROVE StreamInv'
  <2>1. /\ UNCHANGED slotVars /\ conn' = conn /\ client' = client /\ sent' = sent
        /\ next_sequence_id' = next_sequence_id /\ event_buffer' = event_buffer
    BY <1>1 DEF wsVars, streamVars
  <2>2. SlotTypeOK' /\ SlotInv'
    BY <1>0, <2>1, SlotsKept DEF StreamInv
  <2> QED
    BY <1>0, <2>1, <2>2 DEF StreamInv, StreamTypeOK
<1>2. ASSUME UNCHANGED <<chain, storeVars, poll>> PROVE RowInv'
  BY <1>0, <1>2 DEF RowInv, storeVars, Late
<1>3. ASSUME NEW id \in Results, NEW status \in Statuses, Mined(id, status) PROVE IndexerInv'
  BY <1>0, <1>1, <1>3, MinedKeepsRows DEF Mined, IndexerInv
<1>4. CASE StartPoll
  BY <1>0, <1>1, <1>4, StartPollKeepsRows DEF StartPoll, IndexerInv
<1>5. CASE ApplyEvent
  <2>1. PICK n \in Nat : n = poll.next
    BY <1>0 DEF RowInv, PollOK, Polls
  <2>2. broadcast(n) /\ UNCHANGED <<slotVars, conn, client>>
    BY <1>5, <2>1 DEF ApplyEvent
  <2>3. StreamInv'
    BY <1>0, <2>2, BroadcastKeepsStream
  <2> QED
    BY <1>0, <1>5, <2>3, ApplyEventKeepsRows DEF IndexerInv
<1>6. CASE SavePosition
  BY <1>0, <1>1, <1>6, SavePositionKeepsRows DEF SavePosition, IndexerInv
<1>7. CASE Crash
  BY <1>0, <1>7, ResetKeepsStream, CrashKeepsRows DEF Crash, IndexerInv
<1>8. CASE WsNext /\ UNCHANGED <<chain, storeVars, poll, crashes, faults>>
  BY <1>0, <1>2, <1>8, ClientsKeepStream DEF IndexerInv
<1>9. CASE UNCHANGED vars
  BY <1>1, <1>2, <1>9 DEF vars, IndexerInv
<1> QED
  BY <1>3, <1>4, <1>5, <1>6, <1>7, <1>8, <1>9 DEF Next

(* The invariant the others follow from: where each connection is in taking *)
(* and giving back its slots, what every follower has of the stream, and    *)
(* how far each row may be behind the poll loop and the saved position.      *)
THEOREM IndexerInvariant == Spec => []IndexerInv
<1>1. Init => IndexerInv
  BY InitStream, InitRows DEF Init, IndexerInv
<1>2. IndexerInv /\ [Next]_vars => IndexerInv'
  BY IndexerKeeps
<1> QED
  BY <1>1, <1>2, PTL DEF Spec

(* The connection counters of websocket.rs agree with the connections and  *)
(* keep within the limits, for any interleaving of any number of clients.  *)
THEOREM SlotsAccounted == Spec => []SlotsAreAccountedFor
<1>1. IndexerInv => SlotsAreAccountedFor
  BY SlotsAre DEF IndexerInv, StreamInv
<1> QED
  BY <1>1, IndexerInvariant, PTL

(* A follower that is open and has had its replay has every event from its *)
(* first connection up to the one its receiver reads next, for buffers and *)
(* channels of any capacity.                                               *)
THEOREM NothingMissed == Spec => []FollowersMissNothing
<1>1. IndexerInv => FollowersMissNothing
  <2> SUFFICES ASSUME StreamInv, NEW c \in Followers, conn[c].pc = "open", conn[c].greeted,
                      ~ client[c].missed, ~ client[c].stale,
                      NEW i \in client[c].first .. conn[c].cursor - 1
               PROVE  sent[i] \in client[c].got
    BY DEF IndexerInv, FollowersMissNothing
  <2>1. PICK k \in Conn, x \in Client, L \in Seq(Nat) : k = conn[c] /\ x = client[c] /\ L = sent
    BY FollowerAssumption DEF StreamInv, StreamTypeOK
  <2>2. Follow(k, x, L)
    BY <2>1 DEF StreamInv
  <2>3. k.pc = "open" /\ k.greeted /\ ~ x.missed /\ ~ x.stale /\ i \in x.first .. k.cursor - 1
    BY <2>1
  <2>4. x.first >= 1 /\ k.cursor <= x.last + 1 /\ Has(x, L, x.last)
    <3>1. x.first >= 1
      BY <2>2, <2>3 DEF Follow
    <3>2. x.first # 0
      BY <3>1
    <3> QED
      BY <2>2, <2>3, <3>1, <3>2 DEF Follow
  <2>5. i \in x.first .. x.last
    <3>1. x.first \in Nat /\ x.last \in Nat /\ k.cursor \in Nat
      BY DEF Client, Conn
    <3> QED
      BY <2>3, <2>4, <3>1
  <2> QED
    BY <2>1, <2>4, <2>5 DEF Has
<1> QED
  BY <1>1, IndexerInvariant, PTL

(* Whatever is applied twice after a crash, a failed save or a failed read  *)
(* of the position, a row of the table is never invented; it is not behind  *)
(* the saved position either, unless a failed read has made a poll start    *)
(* from the first block and none has come to its end since.  (A result of   *)
(* which a write failed is exempt.)                                         *)
THEOREM GenuineRows == Spec => []RowsAreGenuine
<1>1. IndexerInv => RowsAreGenuine
  <2> SUFFICES ASSUME StreamInv, RowInv PROVE RowsAreGenuine
    BY DEF IndexerInv
  <2>1. TypeOK
    BY DEF StreamInv, StreamTypeOK, LastOf, RowInv, PollOK, Polls, Events, TypeOK
  <2>2. ASSUME NEW id \in Results \ lost
        PROVE  \E n \in 0 .. Len(chain) :
                   /\ n + 1 >= last_indexed_block \/ (rewound /\ results[id] # "absent")
                   /\ HasStatus(id, n, results[id])
    BY DEF RowInv, GenuineRow, StatusAt, HasStatus
  <2> QED
    BY <2>1, <2>2 DEF RowsAreGenuine
<1> QED
  BY <1>1, IndexerInvariant, PTL
=============================================================================

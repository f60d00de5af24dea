---------------------------- MODULE RedUdpProofs ----------------------------
(***************************************************************************)
(* Proofs about RedUdp, for every set of clients and destinations, every   *)
(* queue length and every number of descriptors.                           *)
(***************************************************************************)
EXTENDS RedUdp, FiniteSetTheorems, TLAPS

ClientsTyped == /\ cl \in [Addrs -> ClientType \cup {None}]
                /\ bound \in [Dests -> Int]
                /\ sent \in [Addrs -> 0 .. MaxPkts]

Inv == ClientsTyped /\ SendersCounted /\ QueueDrained

\* Holders as a function of the clients, to speak of those after a step.
HoldersIn(f, d) == {a \in Addrs : f[a] # None /\ f[a].sender /\ f[a].dest = d}

-----------------------------------------------------------------------------

LEMMA NoneIsNoClient == None \notin ClientType
  BY DEF None, ClientType

LEMMA HoldersFinite ==
  ASSUME NEW f, NEW d
  PROVE  IsFiniteSet(HoldersIn(f, d)) /\ Cardinality(HoldersIn(f, d)) \in Nat
  <1>1. HoldersIn(f, d) \subseteq Addrs
    BY DEF HoldersIn
  <1> QED BY <1>1, RedUdpAssumption, FS_Subset, FS_CardinalityType

\* Two finite sets that differ in one element at most.
LEMMA DifferInOne ==
  ASSUME NEW S, NEW T, NEW x, IsFiniteSet(S), T \ {x} = S \ {x}
  PROVE  /\ IsFiniteSet(T)
         /\ (x \in S <=> x \in T) => Cardinality(T) = Cardinality(S)
         /\ x \in T /\ x \notin S => Cardinality(T) = Cardinality(S) + 1
         /\ x \in S /\ x \notin T => Cardinality(T) = Cardinality(S) - 1
  <1>1. CASE x \in S <=> x \in T
    <2>1. T = S
      BY <1>1
    <2> QED BY <1>1, <2>1
  <1>2. CASE x \in T /\ x \notin S
    <2>1. T = S \cup {x}
      BY <1>2
    <2> QED BY <1>2, <2>1, FS_AddElement
  <1>3. CASE x \in S /\ x \notin T
    <2>1. T = S \ {x}
      BY <1>3
    <2> QED BY <1>3, <2>1, FS_RemoveElement
  <1> QED BY <1>1, <1>2, <1>3

\* The clients f and g differ at most in that of address a.
SameBut(f, g, a) == \A b \in Addrs \ {a} : g[b] = f[b]

\* What one address holds.
Holds(y, d) == y # None /\ y.sender /\ y.dest = d

\* A step that replaces the client of one address changes the number of holders of a
\* socket by what that address holds before and after.
LEMMA HoldersChange ==
  ASSUME NEW f, NEW g, NEW a \in Addrs, SameBut(f, g, a), NEW d
  PROVE  LET n == Cardinality(HoldersIn(f, d))
             m == Cardinality(HoldersIn(g, d))
         IN  /\ (Holds(f[a], d) <=> Holds(g[a], d)) => m = n
             /\ Holds(g[a], d) /\ ~ Holds(f[a], d) => m = n + 1
             /\ Holds(f[a], d) /\ ~ Holds(g[a], d) => m = n - 1
  <1> DEFINE S == HoldersIn(f, d)
             T == HoldersIn(g, d)
  <1>1. T \ {a} = S \ {a}
    BY DEF HoldersIn, SameBut
  <1>2. (a \in S <=> Holds(f[a], d)) /\ (a \in T <=> Holds(g[a], d))
    BY DEF HoldersIn, Holds
  <1>3. IsFiniteSet(S)
    BY HoldersFinite
  <1> HIDE DEF S, T
  <1>4. /\ (a \in S <=> a \in T) => Cardinality(T) = Cardinality(S)
        /\ a \in T /\ a \notin S => Cardinality(T) = Cardinality(S) + 1
        /\ a \in S /\ a \notin T => Cardinality(T) = Cardinality(S) - 1
    BY <1>1, <1>3, DifferInOne
  <1> QED BY <1>2, <1>4 DEF S, T

\* SendersCounted in terms of HoldersIn.
LEMMA CountedIn ==
  /\ SendersCounted <=> \A d \in Dests : bound[d] = Cardinality(HoldersIn(cl, d))
  /\ SendersCounted' <=> \A d \in Dests : bound'[d] = Cardinality(HoldersIn(cl', d))
  BY DEF SendersCounted, Holders, HoldersIn, Present

-----------------------------------------------------------------------------

QueueGood(y) == /\ Len(y.queue) <= max_pktqueue
                /\ y.udprelay => y.queue = <<>>

\* A step that replaces the client of one address by another one with the same
\* sender socket, and leaves the sockets alone.
LEMMA ReplaceGood ==
  ASSUME Inv, NEW a \in Addrs, NEW y \in ClientType, QueueGood(y),
         y.sender <=> cl[a] # None /\ cl[a].sender,
         y.sender => y.dest = cl[a].dest,
         cl' = [cl EXCEPT ![a] = y], bound' = bound, sent' \in [Addrs -> 0 .. MaxPkts]
  PROVE  Inv'
  <1>1. ClientsTyped'
    BY DEF Inv, ClientsTyped
  <1>2. SendersCounted'
    <2>1. \A d \in Dests : HoldersIn(cl', d) = HoldersIn(cl, d)
      <3> SUFFICES ASSUME NEW d \in Dests
                   PROVE  HoldersIn([cl EXCEPT ![a] = y], d) = HoldersIn(cl, d)
        OBVIOUS
      <3>1. cl \in [Addrs -> ClientType \cup {None}] /\ y # None
        BY NoneIsNoClient DEF Inv, ClientsTyped
      <3> QED BY <3>1 DEF HoldersIn
    <2> QED BY <2>1, CountedIn DEF Inv
  <1>3. QueueDrained'
    BY DEF Inv, ClientsTyped, QueueDrained, QueueGood, Present
  <1> QED BY <1>1, <1>2, <1>3 DEF Inv

LEMMA DropGood ==
  ASSUME Inv, NEW a \in Addrs, Present(a), redudp_drop_client(a), sent' = sent
  PROVE  Inv'
  <1> DEFINE d0 == cl[a].dest
  <1>1. cl[a] \in ClientType /\ d0 \in Dests
    BY DEF Inv, ClientsTyped, Present, ClientType
  <1>2. ClientsTyped'
    BY <1>1 DEF Inv, ClientsTyped, redudp_drop_client, bound_udp4_put
  <1>3. QueueDrained'
    BY DEF Inv, ClientsTyped, redudp_drop_client, QueueDrained, Present
  <1>4. SendersCounted'
    <2>1. cl' = [cl EXCEPT ![a] = None] /\ cl \in [Addrs -> ClientType \cup {None}]
      BY DEF redudp_drop_client, Inv, ClientsTyped
    <2>2. CASE cl[a].sender
      <3>1. \A d \in Dests : bound'[d] = bound[d] - (IF d = d0 THEN 1 ELSE 0)
        BY <1>1, <2>2 DEF redudp_drop_client, bound_udp4_put, Inv, ClientsTyped
      <3>2. ASSUME NEW d \in Dests
            PROVE  Cardinality(HoldersIn(cl', d))
                     = Cardinality(HoldersIn(cl, d)) - (IF d = d0 THEN 1 ELSE 0)
        <4>1. cl'[a] = None /\ SameBut(cl, cl', a)
          BY <2>1 DEF SameBut
        <4>2. ~ Holds(cl'[a], d) /\ (Holds(cl[a], d) <=> d = d0)
          BY <1>1, <2>2, <4>1, NoneIsNoClient DEF Holds
        <4>3. /\ (Holds(cl[a], d) <=> Holds(cl'[a], d))
                    => Cardinality(HoldersIn(cl', d)) = Cardinality(HoldersIn(cl, d))
              /\ Holds(cl[a], d) /\ ~ Holds(cl'[a], d)
                    => Cardinality(HoldersIn(cl', d)) = Cardinality(HoldersIn(cl, d)) - 1
          BY <4>1, HoldersChange
        <4> QED BY <4>2, <4>3, HoldersFinite
      <3> QED BY <3>1, <3>2, CountedIn DEF Inv
    <2>3. CASE ~ cl[a].sender
      <3>1. bound' = bound
        BY <2>3 DEF redudp_drop_client
      <3>2. \A d \in Dests : HoldersIn(cl', d) = HoldersIn(cl, d)
        BY <2>1, <2>3 DEF HoldersIn
      <3> QED BY <3>1, <3>2, CountedIn DEF Inv
    <2> QED BY <2>2, <2>3
  <1> QED BY <1>2, <1>3, <1>4 DEF Inv

\* Queueing a datagram at a client without association, its timer bumped.
LEMMA EnqueueGood ==
  ASSUME NEW x \in ClientType, QueueGood(x), ~ x.udprelay, NEW p \in Pkt
  PROVE  LET y == redudp_enqeue_pkt(redudp_bump_timeout(x), p)
         IN  /\ y \in ClientType /\ QueueGood(y) /\ y.sender = x.sender /\ y.dest = x.dest
             /\ ~ y.udprelay /\ y.queue \in {x.queue, Append(x.queue, p)}
  <1> DEFINE z == redudp_bump_timeout(x)
             y == redudp_enqeue_pkt(z, p)
  <1>1. z \in ClientType /\ z.sender = x.sender /\ z.dest = x.dest /\ z.queue = x.queue
        /\ ~ z.udprelay /\ QueueGood(z)
    BY DEF redudp_bump_timeout, ClientType, QueueGood
  <1> HIDE DEF z
  <1>2. /\ y \in ClientType /\ QueueGood(y) /\ y.sender = z.sender /\ y.dest = z.dest
        /\ ~ y.udprelay /\ y.queue \in {z.queue, Append(z.queue, p)}
    <2>1. CASE Len(z.queue) >= max_pktqueue
      <3>1. y = z
        BY <2>1 DEF redudp_enqeue_pkt
      <3> HIDE DEF y
      <3> QED BY <1>1, <3>1
    <2>2. CASE ~ (Len(z.queue) >= max_pktqueue)
      <3> DEFINE q == Append(z.queue, p)
      <3>1. z.queue \in Seq(Pkt)
        BY <1>1 DEF ClientType
      <3>2. q \in Seq(Pkt) /\ Len(q) = Len(z.queue) + 1 /\ Len(z.queue) \in Nat
        BY <3>1
      <3>3. y = [z EXCEPT !.queue = q]
        BY <2>2 DEF redudp_enqeue_pkt
      <3> HIDE DEF q, y
      <3>4. y \in ClientType /\ y.queue = q /\ y.udprelay = z.udprelay
        BY <1>1, <3>2, <3>3 DEF ClientType
      <3>5. y.sender = z.sender /\ y.dest = z.dest
        BY <1>1, <3>3 DEF ClientType
      <3>6. QueueGood(y)
        BY <1>1, <2>2, <3>2, <3>4, RedUdpAssumption DEF QueueGood
      <3> QED BY <1>1, <3>4, <3>5, <3>6 DEF q
    <2> QED BY <2>1, <2>2
  <1> QED BY <1>1, <1>2 DEF z

LEMMA ArrivesFacts ==
  ASSUME Inv, NEW a \in Addrs, NEW d \in Dests, Arrives(a)
  PROVE  sent' \in [Addrs -> 0 .. MaxPkts] /\ Datagram(a, d) \in Pkt
  BY RedUdpAssumption DEF Inv, ClientsTyped, Arrives, Datagram, Pkt

LEMMA PresentFacts ==
  ASSUME Inv, NEW a \in Addrs, Present(a)
  PROVE  cl[a] \in ClientType /\ QueueGood(cl[a]) /\ cl[a] # None
  BY DEF Inv, ClientsTyped, Present, QueueDrained, QueueGood

-----------------------------------------------------------------------------

LEMMA InitInv == Init => Inv
  <1> SUFFICES ASSUME Init PROVE Inv
    OBVIOUS
  <1>1. ClientsTyped
    BY RedUdpAssumption DEF Init, ClientsTyped
  <1>2. \A d \in Dests : Holders(d) = {}
    BY DEF Init, Holders, Present
  <1>3. SendersCounted
    BY <1>2, FS_EmptySet DEF Init, SendersCounted
  <1>4. QueueDrained
    BY DEF Init, QueueDrained, Present
  <1> QED BY <1>1, <1>3, <1>4 DEF Inv

LEMMA RequestGood ==
  ASSUME Inv, NEW a \in Addrs, Present(a), NEW r \in {"methods", "auth", "assoc"}, Request(a, r)
  PROVE  Inv'
  <1> DEFINE y == [cl[a] EXCEPT !.readcb = r]
  <1>1. y \in ClientType /\ QueueGood(y) /\ y.sender = cl[a].sender /\ y.dest = cl[a].dest
    BY PresentFacts DEF ClientType, QueueGood
  <1>2. cl' = [cl EXCEPT ![a] = y] /\ bound' = bound /\ sent' \in [Addrs -> 0 .. MaxPkts]
    BY DEF Request, Inv, ClientsTyped
  <1> HIDE DEF y
  <1> QED BY <1>1, <1>2, PresentFacts, ReplaceGood

\* A step that leaves the clients alone.
LEMMA IdleGood ==
  ASSUME Inv, cl' = cl, bound' = bound, sent' \in [Addrs -> 0 .. MaxPkts]
  PROVE  Inv'
  BY DEF Inv, ClientsTyped, SendersCounted, Holders, QueueDrained, Present

LEMMA SentTyped ==
  ASSUME Inv, sent' = sent
  PROVE  sent' \in [Addrs -> 0 .. MaxPkts]
  BY DEF Inv, ClientsTyped

LEMMA ClientStep ==
  ASSUME Inv, NEW a \in Addrs, NEW d \in Dests,
         redudp_first_pkt_from_client(a, d) \/ EnqueuePkt(a, d) \/ ForwardPkt(a, d)
  PROVE  Inv'
  <1>1. CASE redudp_first_pkt_from_client(a, d)
    <2> DEFINE x == ClientOf(IF TProxy THEN d ELSE ConfDest)
               y == redudp_enqeue_pkt(redudp_bump_timeout(x), Datagram(a, d))
    <2>1. x \in ClientType /\ QueueGood(x) /\ ~ x.udprelay /\ x.sender = FALSE
      BY RedUdpAssumption DEF ClientOf, ClientType, QueueGood
    <2>2. Datagram(a, d) \in Pkt /\ sent' \in [Addrs -> 0 .. MaxPkts]
      BY <1>1, ArrivesFacts DEF redudp_first_pkt_from_client
    <2>3. cl[a] = None /\ cl' = [cl EXCEPT ![a] = y] /\ bound' = bound
      BY <1>1 DEF redudp_first_pkt_from_client, Present
    <2> HIDE DEF x
    <2>4. y \in ClientType /\ QueueGood(y) /\ ~ y.sender
      BY <2>1, <2>2, EnqueueGood
    <2> HIDE DEF y
    <2> QED BY <2>2, <2>3, <2>4, ReplaceGood
  <1>2. CASE EnqueuePkt(a, d)
    <2> DEFINE y == redudp_enqeue_pkt(redudp_bump_timeout(cl[a]), Datagram(a, d))
    <2>1. Datagram(a, d) \in Pkt /\ sent' \in [Addrs -> 0 .. MaxPkts]
      BY <1>2, ArrivesFacts DEF EnqueuePkt
    <2>2. cl' = [cl EXCEPT ![a] = y] /\ bound' = bound /\ Present(a) /\ ~ cl[a].udprelay
      BY <1>2 DEF EnqueuePkt
    <2>3. y \in ClientType /\ QueueGood(y) /\ y.sender = cl[a].sender /\ y.dest = cl[a].dest
      BY <2>1, <2>2, PresentFacts, EnqueueGood
    <2> HIDE DEF y
    <2> QED BY <2>1, <2>2, <2>3, PresentFacts, ReplaceGood
  <1>3. CASE ForwardPkt(a, d)
    <2> DEFINE y == redudp_bump_timeout(cl[a])
    <2>1. sent' \in [Addrs -> 0 .. MaxPkts]
      BY <1>3, ArrivesFacts DEF ForwardPkt
    <2>2. cl' = [cl EXCEPT ![a] = y] /\ bound' = bound /\ Present(a)
      BY <1>3 DEF ForwardPkt
    <2>3. y \in ClientType /\ QueueGood(y) /\ y.sender = cl[a].sender /\ y.dest = cl[a].dest
      BY <2>2, PresentFacts DEF redudp_bump_timeout, ClientType, QueueGood
    <2> HIDE DEF y
    <2> QED BY <2>1, <2>2, <2>3, PresentFacts, ReplaceGood
  <1> QED BY <1>1, <1>2, <1>3

LEMMA GrantGood ==
  ASSUME Inv, NEW a \in Addrs, AssocGranted(a)
  PROVE  Inv'
  <1> DEFINE x == [cl[a] EXCEPT !.udprelay = TRUE]
             y == [x EXCEPT !.queue = <<>>]
  <1>1. Present(a) /\ bound' = bound /\ sent' = sent
    BY DEF AssocGranted, Waits
  <1>2. cl' = [cl EXCEPT ![a] = y]
    BY <1>1, PresentFacts DEF AssocGranted, Inv, ClientsTyped, ClientType
  <1>3. x \in ClientType /\ x.sender = cl[a].sender /\ x.dest = cl[a].dest
    BY <1>1, PresentFacts DEF ClientType
  <1> HIDE DEF x
  <1>4. y \in ClientType /\ y.sender = x.sender /\ y.dest = x.dest /\ y.queue = <<>>
    <2>1. <<>> \in Seq(Pkt)
      OBVIOUS
    <2>2. y \in ClientType
      BY <1>3, <2>1 DEF ClientType
    <2>3. y.sender = x.sender /\ y.dest = x.dest /\ y.queue = <<>>
      BY <1>3 DEF ClientType
    <2> QED BY <2>2, <2>3
  <1> HIDE DEF y
  <1>5. QueueGood(y)
    BY <1>4, RedUdpAssumption DEF QueueGood
  <1> QED BY <1>1, <1>2, <1>3, <1>4, <1>5, SentTyped, PresentFacts, ReplaceGood

LEMMA FromSocksGood ==
  ASSUME Inv, NEW a \in Addrs, redudp_pkt_from_socks(a)
  PROVE  Inv'
  <1> DEFINE d0 == cl[a].dest
             get == TProxy /\ ~ cl[a].sender /\ BoundAvailable(d0)
             x == redudp_bump_timeout(cl[a])
             y == [x EXCEPT !.sender = cl[a].sender \/ get]
  <1>1. Present(a) /\ sent' = sent /\ cl' = [cl EXCEPT ![a] = y]
    BY DEF redudp_pkt_from_socks
  <1>2. bound' = IF get THEN bound_udp4_get(d0) ELSE bound
    BY DEF redudp_pkt_from_socks
  <1>3. x \in ClientType /\ QueueGood(x) /\ x.sender = cl[a].sender /\ x.dest = d0
    BY <1>1, PresentFacts DEF redudp_bump_timeout, ClientType, QueueGood
  <1>4. get \in BOOLEAN /\ (get => ~ cl[a].sender) /\ d0 \in Dests /\ cl[a].sender \in BOOLEAN
    BY <1>1, PresentFacts DEF ClientType, BoundAvailable
  <1> HIDE DEF get, x
  <1>5. y \in ClientType /\ QueueGood(y) /\ y.dest = d0 /\ y.sender = (cl[a].sender \/ get)
    <2> DEFINE s == cl[a].sender \/ get
    <2>1. s \in BOOLEAN
      BY <1>3, <1>4
    <2>2. y = [x EXCEPT !.sender = s]
      BY <1>3 DEF ClientType
    <2> HIDE DEF y, s
    <2>3. y \in ClientType /\ y.dest = x.dest /\ y.queue = x.queue /\ y.udprelay = x.udprelay
          /\ y.sender = s
      BY <1>3, <2>1, <2>2 DEF ClientType
    <2> QED BY <1>3, <2>3 DEF QueueGood, s
  <1> HIDE DEF y
  <1>6. CASE ~ get
    BY <1>1, <1>2, <1>4, <1>5, <1>6, SentTyped, PresentFacts, ReplaceGood
  <1>7. CASE get
    <2>1. ClientsTyped'
      BY <1>1, <1>2, <1>4, <1>5, <1>7, SentTyped DEF Inv, ClientsTyped, bound_udp4_get
    <2>2. QueueDrained'
      BY <1>1, <1>5 DEF Inv, ClientsTyped, QueueDrained, QueueGood, Present
    <2>3. \A d \in Dests : bound'[d] = bound[d] + (IF d = d0 THEN 1 ELSE 0)
      BY <1>2, <1>4, <1>7 DEF bound_udp4_get, Inv, ClientsTyped
    <2>4. ASSUME NEW d \in Dests
          PROVE  Cardinality(HoldersIn(cl', d))
                   = Cardinality(HoldersIn(cl, d)) + (IF d = d0 THEN 1 ELSE 0)
      <3>1. ~ Holds(cl[a], d) /\ (Holds(y, d) <=> d = d0)
        BY <1>1, <1>4, <1>5, <1>7, NoneIsNoClient DEF Holds
      <3>2. cl'[a] = y /\ SameBut(cl, cl', a)
        BY <1>1 DEF Inv, ClientsTyped, SameBut
      <3>3. /\ (Holds(cl[a], d) <=> Holds(cl'[a], d))
                  => Cardinality(HoldersIn(cl', d)) = Cardinality(HoldersIn(cl, d))
            /\ Holds(cl'[a], d) /\ ~ Holds(cl[a], d)
                  => Cardinality(HoldersIn(cl', d)) = Cardinality(HoldersIn(cl, d)) + 1
        BY <3>2, HoldersChange
      <3> QED BY <3>1, <3>2, <3>3, HoldersFinite
    <2> QED BY <2>1, <2>2, <2>3, <2>4, CountedIn DEF Inv
  <1> QED BY <1>6, <1>7

LEMMA NextInv ==
  ASSUME Inv, Next
  PROVE  Inv'
  <1>1. CASE redudp_init_instance \/ Terminate \/ redudp_fini_instance
    BY <1>1, SentTyped, IdleGood DEF redudp_init_instance, Terminate, redudp_fini_instance
  <1>2. ASSUME NEW a \in Addrs, NEW d \in Dests,
               redudp_first_pkt_from_client(a, d) \/ EnqueuePkt(a, d) \/ ForwardPkt(a, d)
        PROVE  Inv'
    BY <1>2, ClientStep
  <1>3. ASSUME NEW a \in Addrs, FirstPktRefused(a)
        PROVE  Inv'
    BY <1>3, ArrivesFacts, IdleGood, RedUdpAssumption DEF FirstPktRefused
  <1>4. ASSUME NEW a \in Addrs, Present(a), Drop(a)
        PROVE  Inv'
    BY <1>4, DropGood DEF Drop
  <1>5. ASSUME NEW a \in Addrs,
               redudp_relay_connected(a) \/ redudp_read_auth_methods(a) \/ redudp_read_auth_reply(a)
        PROVE  Inv'
    <2>1. Present(a)
      BY <1>5 DEF redudp_relay_connected, redudp_read_auth_methods, redudp_read_auth_reply, Waits
    <2>2. Drop(a) \/ \E r \in {"methods", "auth", "assoc"} : Request(a, r)
      BY <1>5 DEF redudp_relay_connected, redudp_read_auth_methods, redudp_read_auth_reply
    <2> QED BY <1>4, <2>1, <2>2, RequestGood
  <1>6. ASSUME NEW a \in Addrs,
               AssocRefused(a) \/ redudp_relay_error(a) \/ redudp_timeout(a) \/ FiniClient(a)
        PROVE  Inv'
    BY <1>4, <1>6 DEF AssocRefused, redudp_relay_error, redudp_timeout, FiniClient, Waits
  <1> QED BY <1>1, <1>2, <1>3, <1>5, <1>6, GrantGood, FromSocksGood DEF Next

\* The inductive invariant holds in every state.
THEOREM InvHolds == Spec => []Inv
  <1>1. Inv /\ UNCHANGED vars => Inv'
    BY IdleGood, SentTyped DEF vars
  <1> QED BY <1>1, InitInv, NextInv, PTL DEF Spec

\* For every set of clients, the reference count of a sender socket is the number
\* of clients that use it, so bound_udp4_put never meets a count of zero.
THEOREM SendersCountedHolds == Spec => []SendersCounted
  <1>1. Inv => SendersCounted
    BY DEF Inv
  <1> QED BY <1>1, InvHolds, PTL

\* For every queue length, no client has more datagrams queued than allowed, and
\* none once its association is granted.
THEOREM QueueDrainedHolds == Spec => []QueueDrained
  <1>1. Inv => QueueDrained
    BY DEF Inv
  <1> QED BY <1>1, InvHolds, PTL

-----------------------------------------------------------------------------
(* The account of descriptors.                                             *)

Users(f) == {a \in Addrs : f[a] # None}

HasRelay(y) == y # None /\ y.udprelay
Granted(f) == {a \in Addrs : HasRelay(f[a])}

Taken(b) == {d \in Dests : b[d] > 0}
SameSocketsBut(b, c, d) == \A e \in Dests \ {d} : c[e] = b[e]

Listening(m) == IF m \in {"run", "fini"} THEN 1 ELSE 0

Account == /\ fdfree \in Int
           /\ fdfree + Listening(mode) + Cardinality(Users(cl)) + Cardinality(Granted(cl))
                + Cardinality(Taken(bound)) = Fds

LEMMA CountsNatural ==
  ASSUME NEW f, NEW b
  PROVE  /\ IsFiniteSet(Users(f)) /\ Cardinality(Users(f)) \in Nat
         /\ IsFiniteSet(Granted(f)) /\ Cardinality(Granted(f)) \in Nat
         /\ IsFiniteSet(Taken(b)) /\ Cardinality(Taken(b)) \in Nat
  <1>1. Users(f) \subseteq Addrs /\ Granted(f) \subseteq Addrs /\ Taken(b) \subseteq Dests
    BY DEF Users, Granted, Taken
  <1>2. IsFiniteSet(Users(f)) /\ IsFiniteSet(Granted(f)) /\ IsFiniteSet(Taken(b))
    BY <1>1, RedUdpAssumption, FS_Subset
  <1> QED BY <1>2, FS_CardinalityType

LEMMA UsersChange ==
  ASSUME NEW f, NEW g, NEW a \in Addrs, SameBut(f, g, a)
  PROVE  LET n == Cardinality(Users(f))
             m == Cardinality(Users(g))
         IN  /\ (f[a] = None <=> g[a] = None) => m = n
             /\ f[a] = None /\ g[a] # None => m = n + 1
             /\ f[a] # None /\ g[a] = None => m = n - 1
  <1> DEFINE S == Users(f)
             T == Users(g)
  <1>1. T \ {a} = S \ {a}
    BY DEF Users, SameBut
  <1>2. (a \in S <=> f[a] # None) /\ (a \in T <=> g[a] # None)
    BY DEF Users
  <1>3. IsFiniteSet(S)
    BY CountsNatural
  <1> HIDE DEF S, T
  <1>4. /\ (a \in S <=> a \in T) => Cardinality(T) = Cardinality(S)
        /\ a \in T /\ a \notin S => Cardinality(T) = Cardinality(S) + 1
        /\ a \in S /\ a \notin T => Cardinality(T) = Cardinality(S) - 1
    BY <1>1, <1>3, DifferInOne
  <1> QED BY <1>2, <1>4 DEF S, T

LEMMA GrantedChange ==
  ASSUME NEW f, NEW g, NEW a \in Addrs, SameBut(f, g, a)
  PROVE  LET n == Cardinality(Granted(f))
             m == Cardinality(Granted(g))
         IN  /\ (HasRelay(f[a]) <=> HasRelay(g[a])) => m = n
             /\ HasRelay(g[a]) /\ ~ HasRelay(f[a]) => m = n + 1
             /\ HasRelay(f[a]) /\ ~ HasRelay(g[a]) => m = n - 1
  <1> DEFINE S == Granted(f)
             T == Granted(g)
  <1>1. T \ {a} = S \ {a}
    BY DEF Granted, SameBut
  <1>2. (a \in S <=> HasRelay(f[a])) /\ (a \in T <=> HasRelay(g[a]))
    BY DEF Granted
  <1>3. IsFiniteSet(S)
    BY CountsNatural
  <1> HIDE DEF S, T
  <1>4. /\ (a \in S <=> a \in T) => Cardinality(T) = Cardinality(S)
        /\ a \in T /\ a \notin S => Cardinality(T) = Cardinality(S) + 1
        /\ a \in S /\ a \notin T => Cardinality(T) = Cardinality(S) - 1
    BY <1>1, <1>3, DifferInOne
  <1> QED BY <1>2, <1>4 DEF S, T

LEMMA TakenChange ==
  ASSUME NEW b, NEW c, NEW d \in Dests, SameSocketsBut(b, c, d)
  PROVE  LET n == Cardinality(Taken(b))
             m == Cardinality(Taken(c))
         IN  /\ (b[d] > 0 <=> c[d] > 0) => m = n
             /\ c[d] > 0 /\ ~ (b[d] > 0) => m = n + 1
             /\ b[d] > 0 /\ ~ (c[d] > 0) => m = n - 1
  <1> DEFINE S == Taken(b)
             T == Taken(c)
  <1>1. T \ {d} = S \ {d}
    BY DEF Taken, SameSocketsBut
  <1>2. (d \in S <=> b[d] > 0) /\ (d \in T <=> c[d] > 0)
    BY DEF Taken
  <1>3. IsFiniteSet(S)
    BY CountsNatural
  <1> HIDE DEF S, T
  <1>4. /\ (d \in S <=> d \in T) => Cardinality(T) = Cardinality(S)
        /\ d \in T /\ d \notin S => Cardinality(T) = Cardinality(S) + 1
        /\ d \in S /\ d \notin T => Cardinality(T) = Cardinality(S) - 1
    BY <1>1, <1>3, DifferInOne
  <1> QED BY <1>2, <1>4 DEF S, T

\* A socket that a client holds is open.
LEMMA HeldIsOpen ==
  ASSUME Inv, NEW a \in Addrs, Present(a), cl[a].sender
  PROVE  bound[cl[a].dest] \in Nat /\ bound[cl[a].dest] > 0 /\ cl[a].dest \in Dests
  <1> DEFINE d == cl[a].dest
             S == HoldersIn(cl, d)
  <1>1. d \in Dests /\ cl[a] # None
    BY PresentFacts DEF ClientType
  <1>2. bound[d] = Cardinality(S)
    BY <1>1, CountedIn DEF Inv
  <1>3. a \in S
    BY <1>1 DEF HoldersIn
  <1>4. IsFiniteSet(S) /\ Cardinality(S) \in Nat
    BY HoldersFinite
  <1> HIDE DEF S
  <1>5. Cardinality(S) # 0
    BY <1>3, <1>4, FS_EmptySet
  <1> QED BY <1>1, <1>2, <1>4, <1>5

LEMMA BoundNatural ==
  ASSUME Inv, NEW d \in Dests
  PROVE  bound[d] \in Nat
  BY CountedIn, HoldersFinite DEF Inv

\* What the steps that put a client in the place of another one do to that client.
LEMMA FirstPktStep ==
  ASSUME Inv, NEW a \in Addrs, NEW d \in Dests, redudp_first_pkt_from_client(a, d)
  PROVE  /\ SameBut(cl, cl', a) /\ cl[a] = None /\ cl'[a] \in ClientType /\ ~ cl'[a].udprelay
         /\ cl'[a].queue \in {<<>>, <<Datagram(a, d)>>}
  <1> DEFINE x == ClientOf(IF TProxy THEN d ELSE ConfDest)
             y == redudp_enqeue_pkt(redudp_bump_timeout(x), Datagram(a, d))
  <1>1. x \in ClientType /\ QueueGood(x) /\ ~ x.udprelay /\ x.queue = <<>>
    BY RedUdpAssumption DEF ClientOf, ClientType, QueueGood
  <1>2. Datagram(a, d) \in Pkt
    BY ArrivesFacts DEF redudp_first_pkt_from_client
  <1>3. cl[a] = None /\ cl' = [cl EXCEPT ![a] = y]
    BY DEF redudp_first_pkt_from_client, Present
  <1> HIDE DEF x
  <1>4. y \in ClientType /\ ~ y.udprelay /\ y.queue \in {x.queue, Append(x.queue, Datagram(a, d))}
    BY <1>1, <1>2, EnqueueGood
  <1> HIDE DEF y
  <1>5. cl'[a] = y /\ SameBut(cl, cl', a)
    BY <1>3 DEF Inv, ClientsTyped, SameBut
  <1>6. Append(<<>>, Datagram(a, d)) = <<Datagram(a, d)>>
    OBVIOUS
  <1> QED BY <1>1, <1>3, <1>4, <1>5, <1>6

LEMMA EnqueueStep ==
  ASSUME Inv, NEW a \in Addrs, NEW d \in Dests, EnqueuePkt(a, d)
  PROVE  /\ SameBut(cl, cl', a) /\ cl[a] \in ClientType /\ cl'[a] \in ClientType
         /\ ~ cl[a].udprelay /\ ~ cl'[a].udprelay
         /\ cl'[a].queue \in {cl[a].queue, Append(cl[a].queue, Datagram(a, d))}
  <1> DEFINE y == redudp_enqeue_pkt(redudp_bump_timeout(cl[a]), Datagram(a, d))
  <1>1. Datagram(a, d) \in Pkt
    BY ArrivesFacts DEF EnqueuePkt
  <1>2. cl' = [cl EXCEPT ![a] = y] /\ Present(a) /\ ~ cl[a].udprelay
    BY DEF EnqueuePkt
  <1>3. /\ y \in ClientType /\ ~ y.udprelay
        /\ y.queue \in {cl[a].queue, Append(cl[a].queue, Datagram(a, d))}
    BY <1>1, <1>2, PresentFacts, EnqueueGood
  <1> HIDE DEF y
  <1>4. cl'[a] = y /\ SameBut(cl, cl', a)
    BY <1>2 DEF Inv, ClientsTyped, SameBut
  <1> QED BY <1>2, <1>3, <1>4, PresentFacts

LEMMA ForwardStep ==
  ASSUME Inv, NEW a \in Addrs, NEW d \in Dests, ForwardPkt(a, d)
  PROVE  /\ SameBut(cl, cl', a) /\ cl[a] \in ClientType /\ cl'[a] \in ClientType
         /\ cl[a].udprelay /\ cl'[a].udprelay /\ cl[a].queue = <<>> /\ cl'[a].queue = <<>>
  <1> DEFINE y == redudp_bump_timeout(cl[a])
  <1>1. cl' = [cl EXCEPT ![a] = y] /\ cl[a] \in ClientType /\ cl[a].udprelay /\ QueueGood(cl[a])
    BY PresentFacts DEF ForwardPkt
  <1>2. y \in ClientType /\ y.udprelay /\ y.queue = cl[a].queue
    BY <1>1 DEF redudp_bump_timeout, ClientType
  <1> HIDE DEF y
  <1>3. cl'[a] = y /\ SameBut(cl, cl', a)
    BY <1>1 DEF Inv, ClientsTyped, SameBut
  <1> QED BY <1>1, <1>2, <1>3 DEF QueueGood

LEMMA RequestStep ==
  ASSUME Inv, NEW a \in Addrs, Present(a), NEW r \in {"methods", "auth", "assoc"}, Request(a, r)
  PROVE  /\ SameBut(cl, cl', a) /\ cl[a] \in ClientType /\ cl'[a] \in ClientType
         /\ cl'[a].udprelay = cl[a].udprelay /\ cl'[a].queue = cl[a].queue
  <1> DEFINE y == [cl[a] EXCEPT !.readcb = r]
  <1>1. cl[a] \in ClientType
    BY PresentFacts
  <1>2. y \in ClientType /\ y.udprelay = cl[a].udprelay /\ y.queue = cl[a].queue
    BY <1>1 DEF ClientType
  <1>3. cl' = [cl EXCEPT ![a] = y]
    BY DEF Request
  <1> HIDE DEF y
  <1>4. cl'[a] = y /\ SameBut(cl, cl', a)
    BY <1>3 DEF Inv, ClientsTyped, SameBut
  <1> QED BY <1>1, <1>2, <1>4

LEMMA GrantStep ==
  ASSUME Inv, NEW a \in Addrs, AssocGranted(a)
  PROVE  /\ SameBut(cl, cl', a) /\ cl[a] \in ClientType /\ cl'[a] \in ClientType
         /\ ~ cl[a].udprelay /\ cl'[a].udprelay /\ cl'[a].queue = <<>>
  <1> DEFINE x == [cl[a] EXCEPT !.udprelay = TRUE]
             y == [x EXCEPT !.queue = <<>>]
  <1>1. cl[a] \in ClientType /\ ~ cl[a].udprelay
    BY PresentFacts DEF AssocGranted, Waits
  <1>2. cl' = [cl EXCEPT ![a] = y]
    BY <1>1 DEF AssocGranted, Inv, ClientsTyped, ClientType
  <1>3. x \in ClientType /\ x.udprelay
    BY <1>1 DEF ClientType
  <1> HIDE DEF x
  <1>4. <<>> \in Seq(Pkt)
    OBVIOUS
  <1>5. y \in ClientType /\ y.udprelay /\ y.queue = <<>>
    BY <1>3, <1>4 DEF ClientType
  <1> HIDE DEF y
  <1>6. cl'[a] = y /\ SameBut(cl, cl', a)
    BY <1>2 DEF Inv, ClientsTyped, SameBut
  <1> QED BY <1>1, <1>5, <1>6

LEMMA FromSocksStep ==
  ASSUME Inv, NEW a \in Addrs, redudp_pkt_from_socks(a)
  PROVE  /\ SameBut(cl, cl', a) /\ cl[a] \in ClientType /\ cl'[a] # None
         /\ cl'[a].udprelay = cl[a].udprelay /\ cl'[a].queue = cl[a].queue
  <1> DEFINE s == cl[a].sender \/ (TProxy /\ ~ cl[a].sender /\ BoundAvailable(cl[a].dest))
             x == redudp_bump_timeout(cl[a])
             y == [x EXCEPT !.sender = s]
  <1>1. cl[a] \in ClientType
    BY PresentFacts DEF redudp_pkt_from_socks
  <1>2. cl' = [cl EXCEPT ![a] = y]
    BY DEF redudp_pkt_from_socks
  <1>3. x \in ClientType /\ x.udprelay = cl[a].udprelay /\ x.queue = cl[a].queue
    BY <1>1 DEF redudp_bump_timeout, ClientType
  <1>4. s \in BOOLEAN
    BY <1>1 DEF ClientType
  <1> HIDE DEF x, s
  <1>5. y \in ClientType /\ y.udprelay = x.udprelay /\ y.queue = x.queue
    BY <1>3, <1>4 DEF ClientType
  <1> HIDE DEF y
  <1>6. cl'[a] = y /\ SameBut(cl, cl', a)
    BY <1>2 DEF Inv, ClientsTyped, SameBut
  <1> QED BY <1>1, <1>3, <1>5, <1>6, NoneIsNoClient

LEMMA DropStep ==
  ASSUME Inv, NEW a \in Addrs, Present(a), redudp_drop_client(a)
  PROVE  SameBut(cl, cl', a) /\ cl[a] \in ClientType /\ cl'[a] = None
  BY PresentFacts DEF redudp_drop_client, Inv, ClientsTyped, SameBut

-----------------------------------------------------------------------------

LEMMA InitAccount == Init => Account
  <1> SUFFICES ASSUME Init PROVE Account
    OBVIOUS
  <1>1. Users(cl) = {} /\ Granted(cl) = {} /\ Taken(bound) = {}
    BY DEF Init, Users, Granted, HasRelay, Taken
  <1>2. fdfree = Fds /\ Listening(mode) = 0
    BY DEF Init, Listening
  <1> QED BY <1>1, <1>2, FS_EmptySet, RedUdpAssumption DEF Account

\* The client of one address is replaced by one with as many descriptors.
LEMMA ReplaceAccount ==
  ASSUME Account, NEW a \in Addrs, SameBut(cl, cl', a), cl[a] = None <=> cl'[a] = None,
         HasRelay(cl[a]) <=> HasRelay(cl'[a]),
         bound' = bound, fdfree' = fdfree, mode' = mode
  PROVE  Account'
  <1>1. Cardinality(Users(cl')) = Cardinality(Users(cl))
    BY UsersChange
  <1>2. Cardinality(Granted(cl')) = Cardinality(Granted(cl))
    BY GrantedChange
  <1> QED BY <1>1, <1>2 DEF Account

\* The first datagram opens a control connection.
LEMMA FirstPktAccount ==
  ASSUME Inv, Account, NEW a \in Addrs, NEW d \in Dests, redudp_first_pkt_from_client(a, d)
  PROVE  Account'
  <1>1. SameBut(cl, cl', a) /\ cl[a] = None /\ cl'[a] # None /\ ~ HasRelay(cl'[a])
    BY FirstPktStep, NoneIsNoClient DEF HasRelay
  <1>2. Cardinality(Users(cl')) = Cardinality(Users(cl)) + 1
    BY <1>1, UsersChange
  <1>3. Cardinality(Granted(cl')) = Cardinality(Granted(cl))
    <2>1. ~ HasRelay(cl[a])
      BY <1>1 DEF HasRelay
    <2> QED BY <1>1, <2>1, GrantedChange
  <1>4. fdfree' = fdfree - 1 /\ bound' = bound /\ mode' = mode
    BY DEF redudp_first_pkt_from_client
  <1>5. Cardinality(Users(cl)) \in Nat /\ Cardinality(Granted(cl)) \in Nat
        /\ Cardinality(Taken(bound)) \in Nat
    BY CountsNatural
  <1> QED BY <1>2, <1>3, <1>4, <1>5 DEF Account, Listening

\* An association opens a datagram socket.
LEMMA GrantAccount ==
  ASSUME Inv, Account, NEW a \in Addrs, AssocGranted(a)
  PROVE  Account'
  <1>1. /\ SameBut(cl, cl', a) /\ cl[a] # None /\ cl'[a] # None
        /\ ~ HasRelay(cl[a]) /\ HasRelay(cl'[a])
    BY GrantStep, NoneIsNoClient DEF HasRelay
  <1>2. Cardinality(Users(cl')) = Cardinality(Users(cl))
    BY <1>1, UsersChange
  <1>3. Cardinality(Granted(cl')) = Cardinality(Granted(cl)) + 1
    BY <1>1, GrantedChange
  <1>4. fdfree' = fdfree - 1 /\ bound' = bound /\ mode' = mode
    BY DEF AssocGranted
  <1>5. Cardinality(Users(cl)) \in Nat /\ Cardinality(Granted(cl)) \in Nat
        /\ Cardinality(Taken(bound)) \in Nat
    BY CountsNatural
  <1> QED BY <1>2, <1>3, <1>4, <1>5 DEF Account, Listening

\* An answer opens the sender socket of its destination unless it is open.
LEMMA FromSocksAccount ==
  ASSUME Inv, Account, NEW a \in Addrs, redudp_pkt_from_socks(a)
  PROVE  Account'
  <1> DEFINE d == cl[a].dest
             get == TProxy /\ ~ cl[a].sender /\ BoundAvailable(d)
  <1>1. /\ SameBut(cl, cl', a) /\ cl[a] # None /\ cl'[a] # None /\ d \in Dests
        /\ (HasRelay(cl[a]) <=> HasRelay(cl'[a]))
    BY FromSocksStep, NoneIsNoClient DEF HasRelay, ClientType
  <1>2. Cardinality(Users(cl')) = Cardinality(Users(cl))
    BY <1>1, UsersChange
  <1>3. Cardinality(Granted(cl')) = Cardinality(Granted(cl))
    BY <1>1, GrantedChange
  <1>4. /\ bound' = IF get THEN bound_udp4_get(d) ELSE bound
        /\ fdfree' = IF get /\ bound[d] = 0 THEN fdfree - 1 ELSE fdfree
        /\ mode' = mode
    BY DEF redudp_pkt_from_socks
  <1> HIDE DEF get
  <1>5. CASE ~ get
    BY <1>2, <1>3, <1>4, <1>5 DEF Account
  <1>6. CASE get
    <2>1. bound[d] \in Nat
      BY <1>1, BoundNatural
    <2>2. bound'[d] = bound[d] + 1 /\ SameSocketsBut(bound, bound', d)
      BY <1>1, <1>4, <1>6 DEF bound_udp4_get, SameSocketsBut, Inv, ClientsTyped
    <2>3. bound'[d] > 0 /\ (bound[d] > 0 <=> bound[d] # 0)
      BY <2>1, <2>2
    <2>4. Cardinality(Taken(bound')) = Cardinality(Taken(bound)) + (IF bound[d] = 0 THEN 1 ELSE 0)
      <3>1. CASE bound[d] = 0
        <4>1. ~ (bound[d] > 0)
          BY <3>1
        <4>2. Cardinality(Taken(bound')) = Cardinality(Taken(bound)) + 1
          BY <1>1, <2>2, <2>3, <4>1, TakenChange
        <4> QED BY <3>1, <4>2
      <3>2. CASE bound[d] # 0
        <4>1. Cardinality(Taken(bound')) = Cardinality(Taken(bound))
          BY <1>1, <2>2, <2>3, <3>2, TakenChange
        <4> QED BY <3>2, <4>1, CountsNatural
      <3> QED BY <3>1, <3>2
    <2>5. Cardinality(Users(cl)) \in Nat /\ Cardinality(Granted(cl)) \in Nat
          /\ Cardinality(Taken(bound)) \in Nat
      BY CountsNatural
    <2> QED BY <1>2, <1>3, <1>4, <1>6, <2>4, <2>5 DEF Account, Listening
  <1> QED BY <1>5, <1>6

\* A drop gives back the descriptors that Released counts.
LEMMA DropAccount ==
  ASSUME Inv, Account, NEW a \in Addrs, Present(a), Drop(a)
  PROVE  Account'
  <1> DEFINE d == cl[a].dest
             relay == IF cl[a].udprelay THEN 1 ELSE 0
             sender == IF cl[a].sender /\ bound[d] = 1 THEN 1 ELSE 0
  <1>1. /\ SameBut(cl, cl', a) /\ cl[a] \in ClientType /\ cl[a] # None /\ cl'[a] = None
        /\ ~ HasRelay(cl'[a])
    BY DropStep DEF Drop, HasRelay, Present
  <1>2. Cardinality(Users(cl')) = Cardinality(Users(cl)) - 1
    BY <1>1, UsersChange
  <1>3. Cardinality(Granted(cl')) = Cardinality(Granted(cl)) - relay
    <2>1. CASE cl[a].udprelay
      <3>1. HasRelay(cl[a])
        BY <1>1, <2>1 DEF HasRelay
      <3>2. Cardinality(Granted(cl')) = Cardinality(Granted(cl)) - 1
        BY <1>1, <3>1, GrantedChange
      <3> QED BY <2>1, <3>2
    <2>2. CASE ~ cl[a].udprelay
      <3>1. ~ HasRelay(cl[a])
        BY <1>1, <2>2 DEF HasRelay
      <3>2. Cardinality(Granted(cl')) = Cardinality(Granted(cl))
        BY <1>1, <3>1, GrantedChange
      <3> QED BY <2>2, <3>2, CountsNatural
    <2> QED BY <2>1, <2>2
  <1>4. Cardinality(Taken(bound')) = Cardinality(Taken(bound)) - sender
    <2>1. CASE ~ cl[a].sender
      <3>1. bound' = bound
        BY <2>1 DEF Drop, redudp_drop_client
      <3> QED BY <2>1, <3>1, CountsNatural
    <2>2. CASE cl[a].sender
      <3>1. bound[d] \in Nat /\ bound[d] > 0 /\ d \in Dests
        BY <2>2, HeldIsOpen
      <3>2. bound'[d] = bound[d] - 1 /\ SameSocketsBut(bound, bound', d)
        BY <2>2, <3>1 DEF Drop, redudp_drop_client, bound_udp4_put, SameSocketsBut, Inv, ClientsTyped
      <3>3. CASE bound[d] = 1
        <4>1. ~ (bound'[d] > 0)
          BY <3>2, <3>3
        <4>2. Cardinality(Taken(bound')) = Cardinality(Taken(bound)) - 1
          BY <3>1, <3>2, <4>1, TakenChange
        <4> QED BY <2>2, <3>3, <4>2
      <3>4. CASE bound[d] # 1
        <4>1. bound'[d] > 0
          BY <3>1, <3>2, <3>4
        <4>2. Cardinality(Taken(bound')) = Cardinality(Taken(bound))
          BY <3>1, <3>2, <4>1, TakenChange
        <4> QED BY <2>2, <3>4, <4>2, CountsNatural
      <3> QED BY <3>3, <3>4
    <2> QED BY <2>1, <2>2
  <1>5. fdfree' = fdfree + (1 + relay + sender) /\ mode' = mode
    BY DEF Drop, redudp_drop_client, Released
  <1>6. relay \in Nat /\ sender \in Nat
    OBVIOUS
  <1>7. Cardinality(Users(cl)) \in Nat /\ Cardinality(Granted(cl)) \in Nat
        /\ Cardinality(Taken(bound)) \in Nat
    BY CountsNatural
  <1> HIDE DEF relay, sender
  <1> QED BY <1>2, <1>3, <1>4, <1>5, <1>6, <1>7 DEF Account, Listening

LEMMA NextAccount ==
  ASSUME Inv, Account, Next
  PROVE  Account'
  <1>1. CASE redudp_init_instance \/ Terminate \/ redudp_fini_instance
    <2>1. cl' = cl /\ bound' = bound /\ fdfree' + Listening(mode') = fdfree + Listening(mode)
          /\ fdfree' \in Int
      BY <1>1 DEF redudp_init_instance, Terminate, redudp_fini_instance, Listening, Account
    <2> QED BY <2>1, CountsNatural DEF Account, Listening
  <1>2. ASSUME NEW a \in Addrs, NEW d \in Dests, EnqueuePkt(a, d)
        PROVE  Account'
    <2>1. bound' = bound /\ fdfree' = fdfree /\ mode' = mode
      BY <1>2 DEF EnqueuePkt
    <2> QED BY <1>2, <2>1, EnqueueStep, NoneIsNoClient, ReplaceAccount DEF HasRelay
  <1>3. ASSUME NEW a \in Addrs, NEW d \in Dests, ForwardPkt(a, d)
        PROVE  Account'
    <2>1. bound' = bound /\ fdfree' = fdfree /\ mode' = mode
      BY <1>3 DEF ForwardPkt
    <2> QED BY <1>3, <2>1, ForwardStep, NoneIsNoClient, ReplaceAccount DEF HasRelay
  <1>4. ASSUME NEW a \in Addrs, FirstPktRefused(a)
        PROVE  Account'
    BY <1>4 DEF FirstPktRefused, Account
  <1>5. ASSUME NEW a \in Addrs,
               redudp_relay_connected(a) \/ redudp_read_auth_methods(a) \/ redudp_read_auth_reply(a)
        PROVE  Account'
    <2>1. Present(a)
      BY <1>5 DEF redudp_relay_connected, redudp_read_auth_methods, redudp_read_auth_reply, Waits
    <2>2. Drop(a) \/ \E r \in {"methods", "auth", "assoc"} : Request(a, r)
      BY <1>5 DEF redudp_relay_connected, redudp_read_auth_methods, redudp_read_auth_reply
    <2>3. ASSUME NEW r \in {"methods", "auth", "assoc"}, Request(a, r)
          PROVE  Account'
      <3>1. bound' = bound /\ fdfree' = fdfree /\ mode' = mode
        BY <2>3 DEF Request
      <3> QED BY <2>1, <2>3, <3>1, RequestStep, NoneIsNoClient, ReplaceAccount DEF HasRelay
    <2> QED BY <2>1, <2>2, <2>3, DropAccount
  <1>6. ASSUME NEW a \in Addrs,
               AssocRefused(a) \/ redudp_relay_error(a) \/ redudp_timeout(a) \/ FiniClient(a)
        PROVE  Account'
    BY <1>6, DropAccount DEF AssocRefused, redudp_relay_error, redudp_timeout, FiniClient, Waits
  <1> QED BY <1>1, <1>2, <1>3, <1>4, <1>5, <1>6, FirstPktAccount, GrantAccount, FromSocksAccount
          DEF Next

\* For every number of descriptors: whatever order clients come, are granted an
\* association, answered and dropped in, each descriptor is free or has one owner.
THEOREM DescriptorsAccountedHolds == Spec => []DescriptorsAccounted
  <1>1. Inv /\ Account /\ [Next]_vars => Account'
    <2>1. Inv /\ Account /\ UNCHANGED vars => Account'
      BY DEF vars, Account
    <2> QED BY <2>1, NextAccount
  <1>2. Account => DescriptorsAccounted
    BY DEF Account, DescriptorsAccounted, Users, Granted, HasRelay, Taken, Listening, Present
  <1> QED BY <1>1, <1>2, InitAccount, InvHolds, PTL DEF Spec

-----------------------------------------------------------------------------
(* The order of datagrams.                                                 *)

Item == Pkt \cup [n : 1 .. MaxPkts, dst : Dests, to : Dests]

Sorted(s) == \A j, k \in 1 .. Len(s) : j < k => s[j].n < s[k].n
Before(s, t) == \A j \in 1 .. Len(s), k \in 1 .. Len(t) : s[j].n < t[k].n
Upto(s, m) == \A j \in 1 .. Len(s) : s[j].n <= m

LEMMA ItemNumber == \A p \in Item : p.n \in Int
  BY DEF Item, Pkt

LEMMA ConcatFacts ==
  ASSUME NEW s \in Seq(Item), NEW t \in Seq(Item)
  PROVE  /\ s \o t \in Seq(Item) /\ Len(s \o t) = Len(s) + Len(t)
         /\ \A i \in 1 .. Len(s) : (s \o t)[i] = s[i]
         /\ \A i \in 1 .. Len(s \o t) : i > Len(s) => i - Len(s) \in 1 .. Len(t)
                                                   /\ (s \o t)[i] = t[i - Len(s)]
  OBVIOUS

LEMMA ConcatSorted ==
  ASSUME NEW s \in Seq(Item), NEW t \in Seq(Item), Sorted(s), Sorted(t), Before(s, t)
  PROVE  Sorted(s \o t)
  <1> SUFFICES ASSUME NEW j \in 1 .. Len(s \o t), NEW k \in 1 .. Len(s \o t), j < k
               PROVE  (s \o t)[j].n < (s \o t)[k].n
    BY DEF Sorted
  <1>1. Len(s) \in Nat /\ Len(t) \in Nat
    OBVIOUS
  <1>2. CASE k <= Len(s)
    <2>1. j \in 1 .. Len(s) /\ k \in 1 .. Len(s)
      BY <1>1, <1>2
    <2> QED BY <2>1, ConcatFacts DEF Sorted
  <1>3. CASE j > Len(s)
    <2>1. j - Len(s) \in 1 .. Len(t) /\ k - Len(s) \in 1 .. Len(t) /\ j - Len(s) < k - Len(s)
      BY <1>1, <1>3, ConcatFacts
    <2>2. (s \o t)[j] = t[j - Len(s)] /\ (s \o t)[k] = t[k - Len(s)]
      BY <1>1, <1>3, ConcatFacts
    <2> QED BY <2>1, <2>2 DEF Sorted
  <1>4. CASE j <= Len(s) /\ k > Len(s)
    <2>1. j \in 1 .. Len(s) /\ k - Len(s) \in 1 .. Len(t)
      BY <1>1, <1>4, ConcatFacts
    <2>2. (s \o t)[j] = s[j] /\ (s \o t)[k] = t[k - Len(s)]
      BY <1>1, <1>4, <2>1, ConcatFacts
    <2> QED BY <2>1, <2>2 DEF Before
  <1> QED BY <1>1, <1>2, <1>3, <1>4

LEMMA ConcatUpto ==
  ASSUME NEW s \in Seq(Item), NEW t \in Seq(Item), NEW m, Upto(s, m), Upto(t, m)
  PROVE  Upto(s \o t, m)
  <1> SUFFICES ASSUME NEW j \in 1 .. Len(s \o t)
               PROVE  (s \o t)[j].n <= m
    BY DEF Upto
  <1>1. CASE j <= Len(s)
    BY <1>1, ConcatFacts DEF Upto
  <1>2. CASE j > Len(s)
    BY <1>2, ConcatFacts DEF Upto
  <1> QED BY <1>1, <1>2

\* What the address has sent last goes to the end of the queue.
LEMMA AppendSorted ==
  ASSUME NEW s \in Seq(Item), NEW q \in Seq(Item), NEW p \in Item, NEW m \in Int,
         Sorted(q), Before(s, q), Upto(s, m), Upto(q, m), p.n = m + 1
  PROVE  /\ Sorted(Append(q, p)) /\ Before(s, Append(q, p)) /\ Upto(s, m + 1)
         /\ Upto(Append(q, p), m + 1)
  <1> DEFINE r == Append(q, p)
  <1>1. /\ Len(q) \in Nat /\ Len(r) = Len(q) + 1 /\ r[Len(r)] = p
        /\ \A i \in 1 .. Len(q) : r[i] = q[i]
        /\ \A i \in 1 .. Len(r) : i \in 1 .. Len(q) \/ i = Len(r)
    OBVIOUS
  <1>2. /\ \A i \in 1 .. Len(s) : s[i].n \in Int
        /\ \A i \in 1 .. Len(q) : q[i].n \in Int
    BY ItemNumber
  <1> HIDE DEF r
  <1>3. Sorted(r)
    <2> SUFFICES ASSUME NEW j \in 1 .. Len(r), NEW k \in 1 .. Len(r), j < k
                 PROVE  r[j].n < r[k].n
      BY DEF Sorted
    <2>1. j \in 1 .. Len(q)
      BY <1>1
    <2>2. CASE k = Len(r)
      BY <1>1, <1>2, <2>1, <2>2 DEF Upto
    <2>3. CASE k \in 1 .. Len(q)
      BY <1>1, <2>1, <2>3 DEF Sorted
    <2> QED BY <1>1, <2>2, <2>3
  <1>4. Before(s, r)
    <2> SUFFICES ASSUME NEW j \in 1 .. Len(s), NEW k \in 1 .. Len(r)
                 PROVE  s[j].n < r[k].n
      BY DEF Before
    <2>1. CASE k = Len(r)
      BY <1>1, <1>2, <2>1 DEF Upto
    <2>2. CASE k \in 1 .. Len(q)
      BY <1>1, <2>2 DEF Before
    <2> QED BY <1>1, <2>1, <2>2
  <1>5. Upto(s, m + 1)
    BY <1>2 DEF Upto
  <1>6. Upto(r, m + 1)
    <2> SUFFICES ASSUME NEW j \in 1 .. Len(r)
                 PROVE  r[j].n <= m + 1
      BY DEF Upto
    <2>1. CASE j = Len(r)
      BY <1>1, <2>1
    <2>2. CASE j \in 1 .. Len(q)
      BY <1>1, <1>2, <2>2 DEF Upto
    <2> QED BY <1>1, <2>1, <2>2
  <1> QED BY <1>3, <1>4, <1>5, <1>6 DEF r

\* The datagrams that Forward writes out of q are in the order of q.
LEMMA WrittenSorted ==
  ASSUME NEW q \in Seq(Pkt), NEW w \in Written(q), NEW to \in Dests,
         NEW s \in Seq(Item), NEW m, Sorted(q), Before(s, q), Upto(q, m)
  PROVE  LET t == [k \in DOMAIN w |-> [n |-> q[w[k]].n, dst |-> q[w[k]].dst, to |-> to]]
         IN  t \in Seq(Item) /\ Sorted(t) /\ Before(s, t) /\ Upto(t, m)
  <1> DEFINE e(k) == [n |-> q[w[k]].n, dst |-> q[w[k]].dst, to |-> to]
             t == [k \in DOMAIN w |-> e(k)]
  <1>1. PICK n \in 0 .. Len(q) : /\ w \in [1 .. n -> 1 .. Len(q)]
                                 /\ \A j, k \in 1 .. n : j < k => w[j] < w[k]
    BY DEF Written
  <1>2. DOMAIN w = 1 .. n /\ n \in Nat /\ Len(q) \in Nat
    BY <1>1
  <1>3. \A k \in 1 .. n : w[k] \in 1 .. Len(q) /\ q[w[k]] \in Pkt
    BY <1>1
  <1>4. \A k \in 1 .. n : e(k) \in Item /\ e(k).n = q[w[k]].n
    BY <1>3 DEF Item, Pkt
  <1>5. t \in [1 .. n -> Item] /\ \A k \in 1 .. n : t[k].n = q[w[k]].n
    BY <1>2, <1>4
  <1> HIDE DEF t
  <1>6. t \in Seq(Item) /\ Len(t) = n
    BY <1>2, <1>5
  <1>7. Sorted(t)
    BY <1>1, <1>3, <1>5, <1>6 DEF Sorted
  <1>8. Before(s, t)
    BY <1>3, <1>5, <1>6 DEF Before
  <1>9. Upto(t, m)
    BY <1>3, <1>5, <1>6 DEF Upto
  <1> QED BY <1>6, <1>7, <1>8, <1>9 DEF t

-----------------------------------------------------------------------------

\* What waits in the queue of a client, or of an address without one.
Waiting(y) == IF y # None THEN y.queue ELSE <<>>

\* Of the m datagrams an address has sent, those in s were written and those in q wait.
Ordered(s, q, m) == Sorted(s) /\ Sorted(q) /\ Before(s, q) /\ Upto(s, m) /\ Upto(q, m)

Order == /\ fwd \in [Addrs -> Seq(Item)]
         /\ \A a \in Addrs : Ordered(fwd[a], Waiting(cl[a]), sent[a])

LEMMA EmptyOrdered ==
  ASSUME NEW s, NEW m, Sorted(s), Upto(s, m)
  PROVE  Ordered(s, <<>>, m)
  BY DEF Ordered, Sorted, Before, Upto

\* A datagram arrives: it is put at the end of the queue, or lost.
LEMMA ArrivalOrdered ==
  ASSUME NEW s \in Seq(Item), NEW q \in Seq(Item), NEW m \in Int, NEW p \in Item,
         Ordered(s, q, m), p.n = m + 1
  PROVE  Ordered(s, q, m + 1) /\ Ordered(s, Append(q, p), m + 1)
  <1>1. /\ Sorted(Append(q, p)) /\ Before(s, Append(q, p)) /\ Upto(s, m + 1)
        /\ Upto(Append(q, p), m + 1)
    BY AppendSorted DEF Ordered
  <1>2. \A i \in 1 .. Len(q) : q[i].n \in Int
    BY ItemNumber
  <1>3. Upto(q, m + 1)
    BY <1>2 DEF Ordered, Upto
  <1> QED BY <1>1, <1>3 DEF Ordered

\* What waited is written, but for what is lost.
LEMMA ForwardOrdered ==
  ASSUME NEW a \in Addrs, NEW q \in Seq(Pkt), NEW m, cl[a] \in ClientType, Forward(a, q),
         fwd \in [Addrs -> Seq(Item)], Ordered(fwd[a], q, m)
  PROVE  /\ fwd' \in [Addrs -> Seq(Item)] /\ SameBut(fwd, fwd', a)
         /\ Ordered(fwd'[a], <<>>, m)
  <1> DEFINE to == get_destaddr(cl[a])
             t(w) == [k \in DOMAIN w |-> [n |-> q[w[k]].n, dst |-> q[w[k]].dst, to |-> to]]
  <1>1. to \in Dests
    BY RedUdpAssumption DEF get_destaddr, ClientType
  <1>2. PICK w \in Written(q) : fwd' = [fwd EXCEPT ![a] = @ \o t(w)]
    BY DEF Forward
  <1>3. fwd[a] \in Seq(Item) /\ Sorted(fwd[a]) /\ Sorted(q) /\ Before(fwd[a], q)
        /\ Upto(fwd[a], m) /\ Upto(q, m)
    BY DEF Ordered
  <1> HIDE DEF to
  <1>4. t(w) \in Seq(Item) /\ Sorted(t(w)) /\ Before(fwd[a], t(w)) /\ Upto(t(w), m)
    BY <1>1, <1>3, WrittenSorted
  <1> HIDE DEF t
  <1>5. fwd[a] \o t(w) \in Seq(Item) /\ Sorted(fwd[a] \o t(w)) /\ Upto(fwd[a] \o t(w), m)
    BY <1>3, <1>4, ConcatSorted, ConcatUpto, ConcatFacts
  <1>6. fwd'[a] = fwd[a] \o t(w) /\ SameBut(fwd, fwd', a) /\ fwd' \in [Addrs -> Seq(Item)]
    BY <1>2, <1>5 DEF SameBut
  <1> QED BY <1>5, <1>6, EmptyOrdered

\* A step of one address only.
LEMMA AddrOrder ==
  ASSUME Order, NEW a \in Addrs, SameBut(cl, cl', a), SameBut(fwd, fwd', a),
         SameBut(sent, sent', a), fwd' \in [Addrs -> Seq(Item)],
         Ordered(fwd'[a], Waiting(cl'[a]), sent'[a])
  PROVE  Order'
  <1> SUFFICES ASSUME NEW b \in Addrs
               PROVE  Ordered(fwd'[b], Waiting(cl'[b]), sent'[b])
    BY DEF Order
  <1>1. CASE b = a
    BY <1>1
  <1>2. CASE b # a
    <2>1. fwd'[b] = fwd[b] /\ cl'[b] = cl[b] /\ sent'[b] = sent[b]
      BY <1>2 DEF SameBut
    <2> QED BY <2>1 DEF Order
  <1> QED BY <1>1, <1>2

LEMMA ArrivesOrder ==
  ASSUME Inv, NEW a \in Addrs, NEW d \in Dests, Arrives(a)
  PROVE  /\ SameBut(sent, sent', a) /\ sent[a] \in Int /\ sent'[a] = sent[a] + 1
         /\ Datagram(a, d) \in Pkt /\ Datagram(a, d) \in Item /\ Datagram(a, d).n = sent[a] + 1
  <1>1. Datagram(a, d) \in Pkt
    BY ArrivesFacts
  <1> QED BY <1>1 DEF Arrives, Inv, ClientsTyped, SameBut, Datagram, Item

LEMMA WaitingFacts ==
  ASSUME Inv, NEW a \in Addrs
  PROVE  /\ Waiting(cl[a]) \in Seq(Pkt) /\ Waiting(cl[a]) \in Seq(Item)
         /\ cl[a] \in ClientType => Waiting(cl[a]) = cl[a].queue
  <1>1. Waiting(cl[a]) \in Seq(Pkt)
    BY DEF Inv, ClientsTyped, ClientType, Waiting
  <1>2. Waiting(cl[a]) \in Seq(Item)
    BY <1>1 DEF Item
  <1> QED BY <1>1, <1>2, NoneIsNoClient DEF Waiting

LEMMA InitOrder == Init => Order
  <1> SUFFICES ASSUME Init PROVE Order
    OBVIOUS
  <1>1. \A a \in Addrs : fwd[a] = <<>> /\ Waiting(cl[a]) = <<>>
    BY DEF Init, Waiting
  <1>2. \A m : Ordered(<<>>, <<>>, m)
    BY DEF Ordered, Sorted, Before, Upto
  <1>3. fwd \in [Addrs -> Seq(Item)]
    BY DEF Init
  <1> QED BY <1>1, <1>2, <1>3 DEF Order

\* A step that changes the client of an address and neither writes nor queues, or
\* throws its queue away.
LEMMA QuietOrder ==
  ASSUME Inv, Order, NEW a \in Addrs, SameBut(cl, cl', a), fwd' = fwd, sent' = sent,
         Waiting(cl'[a]) \in {Waiting(cl[a]), <<>>}
  PROVE  Order'
  <1>1. Ordered(fwd[a], Waiting(cl[a]), sent[a]) /\ fwd \in [Addrs -> Seq(Item)]
    BY DEF Order
  <1>2. Ordered(fwd[a], <<>>, sent[a])
    BY <1>1, EmptyOrdered DEF Ordered
  <1>3. SameBut(fwd, fwd', a) /\ SameBut(sent, sent', a)
    BY DEF SameBut
  <1>4. Ordered(fwd'[a], Waiting(cl'[a]), sent'[a])
    BY <1>1, <1>2
  <1> QED BY <1>1, <1>3, <1>4, AddrOrder

LEMMA QueueOrder ==
  ASSUME Inv, Order, NEW a \in Addrs, NEW d \in Dests,
         redudp_first_pkt_from_client(a, d) \/ EnqueuePkt(a, d)
  PROVE  Order'
  <1> DEFINE q == Waiting(cl[a])
             p == Datagram(a, d)
  <1>1. Arrives(a) /\ fwd' = fwd
    BY DEF redudp_first_pkt_from_client, EnqueuePkt
  <1>2. SameBut(cl, cl', a) /\ Waiting(cl'[a]) \in {q, Append(q, p)}
    <2>1. CASE redudp_first_pkt_from_client(a, d)
      <3>1. /\ SameBut(cl, cl', a) /\ cl[a] = None /\ cl'[a] # None
            /\ cl'[a].queue \in {<<>>, <<p>>}
        BY <2>1, FirstPktStep, NoneIsNoClient
      <3>2. q = <<>> /\ Append(<<>>, p) = <<p>>
        BY <3>1 DEF Waiting
      <3>3. Waiting(cl'[a]) = cl'[a].queue
        BY <3>1 DEF Waiting
      <3> QED BY <3>1, <3>2, <3>3
    <2>2. CASE EnqueuePkt(a, d)
      <3>1. /\ SameBut(cl, cl', a) /\ cl[a] # None /\ cl'[a] # None
            /\ cl'[a].queue \in {cl[a].queue, Append(cl[a].queue, p)}
        BY <2>2, EnqueueStep, NoneIsNoClient
      <3>2. q = cl[a].queue /\ Waiting(cl'[a]) = cl'[a].queue
        BY <3>1 DEF Waiting
      <3> QED BY <3>1, <3>2
    <2> QED BY <2>1, <2>2
  <1>3. Ordered(fwd[a], q, sent[a]) /\ fwd \in [Addrs -> Seq(Item)] /\ q \in Seq(Item)
    BY WaitingFacts DEF Order
  <1>4. /\ SameBut(sent, sent', a) /\ sent[a] \in Int /\ sent'[a] = sent[a] + 1
        /\ p \in Item /\ p.n = sent[a] + 1
    BY <1>1, ArrivesOrder
  <1> HIDE DEF q, p
  <1>5. Ordered(fwd[a], q, sent[a] + 1) /\ Ordered(fwd[a], Append(q, p), sent[a] + 1)
    BY <1>3, <1>4, ArrivalOrdered
  <1>6. SameBut(fwd, fwd', a)
    BY <1>1 DEF SameBut
  <1>7. Ordered(fwd'[a], Waiting(cl'[a]), sent'[a])
    BY <1>1, <1>2, <1>4, <1>5
  <1> QED BY <1>1, <1>2, <1>3, <1>4, <1>6, <1>7, AddrOrder

LEMMA LostOrder ==
  ASSUME Inv, Order, NEW a \in Addrs, FirstPktRefused(a)
  PROVE  Order'
  <1>1. Arrives(a) /\ fwd' = fwd /\ cl' = cl
    BY DEF FirstPktRefused
  <1>2. SameBut(cl, cl', a) /\ SameBut(fwd, fwd', a)
    BY <1>1 DEF SameBut
  <1>3. ConfDest \in Dests
    BY RedUdpAssumption
  <1>4. /\ SameBut(sent, sent', a) /\ sent[a] \in Int /\ sent'[a] = sent[a] + 1
        /\ Datagram(a, ConfDest) \in Item /\ Datagram(a, ConfDest).n = sent[a] + 1
    BY <1>1, <1>3, ArrivesOrder
  <1>5. /\ Ordered(fwd[a], Waiting(cl[a]), sent[a]) /\ fwd \in [Addrs -> Seq(Item)]
        /\ Waiting(cl[a]) \in Seq(Item)
    BY WaitingFacts DEF Order
  <1>6. Ordered(fwd[a], Waiting(cl[a]), sent[a] + 1)
    BY <1>4, <1>5, ArrivalOrdered
  <1>7. Ordered(fwd'[a], Waiting(cl'[a]), sent'[a])
    BY <1>1, <1>4, <1>6
  <1> QED BY <1>1, <1>2, <1>4, <1>5, <1>7, AddrOrder

LEMMA ForwardPktOrder ==
  ASSUME Inv, Order, NEW a \in Addrs, NEW d \in Dests, ForwardPkt(a, d)
  PROVE  Order'
  <1> DEFINE p == Datagram(a, d)
  <1>1. Arrives(a) /\ Forward(a, <<p>>)
    BY DEF ForwardPkt
  <1>2. /\ SameBut(cl, cl', a) /\ cl[a] \in ClientType /\ cl'[a] \in ClientType
        /\ cl[a].queue = <<>> /\ cl'[a].queue = <<>>
    BY ForwardStep
  <1>3. Waiting(cl[a]) = <<>> /\ Waiting(cl'[a]) = <<>>
    BY <1>2, NoneIsNoClient DEF Waiting
  <1>4. /\ SameBut(sent, sent', a) /\ sent[a] \in Int /\ sent'[a] = sent[a] + 1
        /\ p \in Pkt /\ p \in Item /\ p.n = sent[a] + 1
    BY <1>1, ArrivesOrder
  <1> HIDE DEF p
  <1>5. Ordered(fwd[a], <<>>, sent[a]) /\ fwd \in [Addrs -> Seq(Item)] /\ <<>> \in Seq(Item)
    BY <1>3 DEF Order
  <1>6. Ordered(fwd[a], Append(<<>>, p), sent[a] + 1)
    BY <1>4, <1>5, ArrivalOrdered
  <1>7. Append(<<>>, p) = <<p>> /\ <<p>> \in Seq(Pkt)
    BY <1>4
  <1>8. /\ fwd' \in [Addrs -> Seq(Item)] /\ SameBut(fwd, fwd', a)
        /\ Ordered(fwd'[a], <<>>, sent[a] + 1)
    BY <1>1, <1>2, <1>5, <1>6, <1>7, ForwardOrdered
  <1>9. Ordered(fwd'[a], Waiting(cl'[a]), sent'[a])
    BY <1>3, <1>4, <1>8
  <1> QED BY <1>2, <1>4, <1>8, <1>9, AddrOrder

LEMMA GrantOrder ==
  ASSUME Inv, Order, NEW a \in Addrs, AssocGranted(a)
  PROVE  Order'
  <1>1. /\ SameBut(cl, cl', a) /\ cl[a] \in ClientType /\ cl'[a] \in ClientType
        /\ cl'[a].queue = <<>>
    BY GrantStep
  <1>2. Waiting(cl'[a]) = <<>> /\ Waiting(cl[a]) = cl[a].queue /\ Waiting(cl[a]) \in Seq(Pkt)
    BY <1>1, NoneIsNoClient, WaitingFacts DEF Waiting
  <1>3. Forward(a, cl[a].queue) /\ sent' = sent
    BY DEF AssocGranted, redudp_flush_queue
  <1>4. Ordered(fwd[a], cl[a].queue, sent[a]) /\ fwd \in [Addrs -> Seq(Item)]
    BY <1>2 DEF Order
  <1>5. /\ fwd' \in [Addrs -> Seq(Item)] /\ SameBut(fwd, fwd', a)
        /\ Ordered(fwd'[a], <<>>, sent[a])
    BY <1>1, <1>2, <1>3, <1>4, ForwardOrdered
  <1>6. SameBut(sent, sent', a)
    BY <1>3 DEF SameBut
  <1>7. Ordered(fwd'[a], Waiting(cl'[a]), sent'[a])
    BY <1>2, <1>3, <1>5
  <1> QED BY <1>1, <1>5, <1>6, <1>7, AddrOrder

LEMMA DropOrder ==
  ASSUME Inv, Order, NEW a \in Addrs, Present(a), Drop(a)
  PROVE  Order'
  <1>1. SameBut(cl, cl', a) /\ cl'[a] = None
    BY DropStep DEF Drop
  <1>2. fwd' = fwd /\ sent' = sent /\ Waiting(cl'[a]) = <<>>
    BY <1>1 DEF Drop, Waiting
  <1> QED BY <1>1, <1>2, QuietOrder

LEMMA NextOrder ==
  ASSUME Inv, Order, Next
  PROVE  Order'
  <1>1. CASE redudp_init_instance \/ Terminate \/ redudp_fini_instance
    BY <1>1 DEF redudp_init_instance, Terminate, redudp_fini_instance, Order
  <1>2. ASSUME NEW a \in Addrs, redudp_pkt_from_socks(a)
        PROVE  Order'
    <2>1. /\ SameBut(cl, cl', a) /\ cl[a] # None /\ cl'[a] # None
          /\ cl'[a].queue = cl[a].queue
      BY <1>2, FromSocksStep, NoneIsNoClient
    <2>2. fwd' = fwd /\ sent' = sent
      BY <1>2 DEF redudp_pkt_from_socks
    <2>3. Waiting(cl'[a]) = Waiting(cl[a])
      BY <2>1 DEF Waiting
    <2> QED BY <2>1, <2>2, <2>3, QuietOrder
  <1>3. ASSUME NEW a \in Addrs,
               redudp_relay_connected(a) \/ redudp_read_auth_methods(a) \/ redudp_read_auth_reply(a)
        PROVE  Order'
    <2>1. Present(a)
      BY <1>3 DEF redudp_relay_connected, redudp_read_auth_methods, redudp_read_auth_reply, Waits
    <2>2. Drop(a) \/ \E r \in {"methods", "auth", "assoc"} : Request(a, r)
      BY <1>3 DEF redudp_relay_connected, redudp_read_auth_methods, redudp_read_auth_reply
    <2>3. ASSUME NEW r \in {"methods", "auth", "assoc"}, Request(a, r)
          PROVE  Order'
      <3>1. /\ SameBut(cl, cl', a) /\ cl[a] # None /\ cl'[a] # None
            /\ cl'[a].queue = cl[a].queue
        BY <2>1, <2>3, RequestStep, NoneIsNoClient
      <3>2. fwd' = fwd /\ sent' = sent
        BY <2>3 DEF Request
      <3>3. Waiting(cl'[a]) = Waiting(cl[a])
        BY <3>1 DEF Waiting
      <3> QED BY <3>1, <3>2, <3>3, QuietOrder
    <2> QED BY <2>1, <2>2, <2>3, DropOrder
  <1>4. ASSUME NEW a \in Addrs,
               AssocRefused(a) \/ redudp_relay_error(a) \/ redudp_timeout(a) \/ FiniClient(a)
        PROVE  Order'
    BY <1>4, DropOrder DEF AssocRefused, redudp_relay_error, redudp_timeout, FiniClient, Waits
  <1> QED BY <1>1, <1>2, <1>3, <1>4, QueueOrder, LostOrder, ForwardPktOrder, GrantOrder DEF Next

\* For every queue length and every loss of datagrams: what reaches the proxy, with
\* what still waits behind it, is in the order in which the address sent it, also
\* through the end of a client and the start of the next one.
THEOREM NotOvertakenHolds == Spec => []NotOvertaken
  <1>1. Inv /\ Order /\ [Next]_vars => Order'
    <2>1. Inv /\ Order /\ UNCHANGED vars => Order'
      BY DEF vars, Order
    <2> QED BY <2>1, NextOrder
  <1>2. Inv /\ Order => NotOvertaken
    <2> SUFFICES ASSUME Inv, Order, NEW a \in Addrs
                 PROVE  Sorted(fwd[a] \o Waiting(cl[a]))
      BY DEF NotOvertaken, Sorted, Waiting, Present
    <2>1. /\ fwd[a] \in Seq(Item) /\ Waiting(cl[a]) \in Seq(Item)
          /\ Ordered(fwd[a], Waiting(cl[a]), sent[a])
      BY WaitingFacts DEF Order
    <2> QED BY <2>1, ConcatSorted DEF Ordered
  <1> QED BY <1>1, <1>2, InitOrder, InvHolds, PTL DEF Spec
=============================================================================

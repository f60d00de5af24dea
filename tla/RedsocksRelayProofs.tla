------------------------ MODULE RedsocksRelayProofs -------------------------
(***************************************************************************)
(* More proofs about RedsocksClient: no unit is lost, the buffers are      *)
(* bounded, an end of stream follows the data, no direction stalls, and    *)
(* redsocks keeps the promise of StreamRelay to its peers.                 *)
(*                                                                         *)
(* A handler is a composition of libevent operations on the client         *)
(* structure.  The first part says field by field what each operation      *)
(* does, the second part what each action does to c and net; the           *)
(* invariants, one per property, are then shown from those equations.      *)
(***************************************************************************)
EXTENDS RedsocksClientProofs

-----------------------------------------------------------------------------
(* The operations, field by field.                                         *)

\* What the operations on buffers and events leave alone.
Frame(d, e) == /\ e.phase = d.phase /\ e.hs = d.hs /\ e.suspended = d.suspended
               /\ e.evshut = d.evshut /\ e.shut = d.shut /\ e.uaf = d.uaf

LEMMA EnableFields ==
  ASSUME NEW d \in ClientType, NEW s \in Side, NEW evs \in SUBSET Event
  PROVE  LET e == bufferevent_enable(d, s, evs)
             t == Other(s)
         IN  /\ e \in ClientType /\ Frame(d, e)
             /\ e.fresh = d.fresh /\ e.input = d.input /\ e.output = d.output
             /\ e.enabled[s] = d.enabled[s] \cup evs /\ e.enabled[t] = d.enabled[t]
             /\ e.pending[s] = d.pending[s] \cup (IF d.suspended[s] THEN evs \ {"R"} ELSE evs)
             /\ e.pending[t] = d.pending[t]
  <1> DEFINE e == bufferevent_enable(d, s, evs)
             t == Other(s)
             v == d.enabled[s] \cup evs
             p == d.pending[s] \cup (IF d.suspended[s] THEN evs \ {"R"} ELSE evs)
             f == [d EXCEPT !.enabled[s] = v]
  <1>1. t \in Side /\ t # s
    BY SideFacts
  <1>2. v \in SUBSET Event /\ p \in SUBSET Event
    BY DEF ClientType
  <1>3. e = [f EXCEPT !.pending[s] = p]
    BY DEF bufferevent_enable, ClientType
  <1> HIDE DEF v, p, e, t
  <1>4. /\ f \in ClientType /\ Frame(d, f)
        /\ f.fresh = d.fresh /\ f.input = d.input /\ f.output = d.output /\ f.pending = d.pending
        /\ f.enabled[s] = v /\ f.enabled[t] = d.enabled[t]
    BY <1>1, <1>2 DEF ClientType, Frame
  <1> HIDE DEF f
  <1>5. /\ e \in ClientType /\ Frame(f, e)
        /\ e.fresh = f.fresh /\ e.input = f.input /\ e.output = f.output /\ e.enabled = f.enabled
        /\ e.pending[s] = p /\ e.pending[t] = f.pending[t]
    BY <1>1, <1>2, <1>3, <1>4 DEF ClientType, Frame
  <1> QED BY <1>4, <1>5 DEF Frame, e, t, v, p

LEMMA DisableFields ==
  ASSUME NEW d \in ClientType, NEW s \in Side, NEW evs
  PROVE  LET e == bufferevent_disable(d, s, evs)
             t == Other(s)
         IN  /\ e \in ClientType /\ Frame(d, e)
             /\ e.fresh = d.fresh /\ e.input = d.input /\ e.output = d.output
             /\ e.enabled[s] = d.enabled[s] \ evs /\ e.enabled[t] = d.enabled[t]
             /\ e.pending[s] = d.pending[s] \ evs /\ e.pending[t] = d.pending[t]
  <1> DEFINE e == bufferevent_disable(d, s, evs)
             t == Other(s)
             v == d.enabled[s] \ evs
             p == d.pending[s] \ evs
             f == [d EXCEPT !.enabled[s] = v]
  <1>1. t \in Side /\ t # s
    BY SideFacts
  <1>2. v \in SUBSET Event /\ p \in SUBSET Event
    BY DEF ClientType
  <1>3. e = [f EXCEPT !.pending[s] = p]
    BY DEF bufferevent_disable, ClientType
  <1> HIDE DEF v, p, e, t
  <1>4. /\ f \in ClientType /\ Frame(d, f)
        /\ f.fresh = d.fresh /\ f.input = d.input /\ f.output = d.output /\ f.pending = d.pending
        /\ f.enabled[s] = v /\ f.enabled[t] = d.enabled[t]
    BY <1>1, <1>2 DEF ClientType, Frame
  <1> HIDE DEF f
  <1>5. /\ e \in ClientType /\ Frame(f, e)
        /\ e.fresh = f.fresh /\ e.input = f.input /\ e.output = f.output /\ e.enabled = f.enabled
        /\ e.pending[s] = p /\ e.pending[t] = f.pending[t]
    BY <1>1, <1>2, <1>3, <1>4 DEF ClientType, Frame
  <1> QED BY <1>4, <1>5 DEF Frame, e, t, v, p

LEMMA AddOutputFields ==
  ASSUME NEW d \in ClientType, NEW s \in Side, NEW n \in Nat
  PROVE  LET e == AddOutput(d, s, n)
             t == Other(s)
         IN  /\ e \in ClientType /\ Frame(d, e)
             /\ e.fresh = d.fresh /\ e.input = d.input /\ e.enabled = d.enabled
             /\ e.output[s] = d.output[s] + n /\ e.output[t] = d.output[t]
             /\ e.pending[s] = IF n > 0 /\ "W" \in d.enabled[s]
                               THEN d.pending[s] \cup {"W"} ELSE d.pending[s]
             /\ e.pending[t] = d.pending[t]
  <1> DEFINE e == AddOutput(d, s, n)
             t == Other(s)
             v == d.output[s] + n
             p == IF n > 0 /\ "W" \in d.enabled[s] THEN d.pending[s] \cup {"W"} ELSE d.pending[s]
             f == [d EXCEPT !.output[s] = v]
  <1>1. t \in Side /\ t # s
    BY SideFacts
  <1>2. v \in Nat /\ p \in SUBSET Event
    BY DEF ClientType, Event
  <1>3. e = [f EXCEPT !.pending[s] = p]
    BY DEF AddOutput, ClientType
  <1> HIDE DEF v, p, e, t
  <1>4. /\ f \in ClientType /\ Frame(d, f)
        /\ f.fresh = d.fresh /\ f.input = d.input /\ f.enabled = d.enabled /\ f.pending = d.pending
        /\ f.output[s] = v /\ f.output[t] = d.output[t]
    BY <1>1, <1>2 DEF ClientType, Frame
  <1> HIDE DEF f
  <1>5. /\ e \in ClientType /\ Frame(f, e)
        /\ e.fresh = f.fresh /\ e.input = f.input /\ e.output = f.output /\ e.enabled = f.enabled
        /\ e.pending[s] = p /\ e.pending[t] = f.pending[t]
    BY <1>1, <1>2, <1>3, <1>4 DEF ClientType, Frame
  <1> QED BY <1>4, <1>5 DEF Frame, e, t, v, p

\* All of the input of d on side s is in the output of e on the other side.
Move(d, e, s) ==
    LET t == Other(s)
    IN  /\ e \in ClientType /\ Frame(d, e) /\ e.enabled = d.enabled
        /\ e.input[s] = 0 /\ e.input[t] = d.input[t]
        /\ e.output[t] = d.output[t] + d.input[s] /\ e.output[s] = d.output[s]
        /\ e.pending[t] = (IF d.input[s] > 0 /\ "W" \in d.enabled[t]
                           THEN d.pending[t] \cup {"W"} ELSE d.pending[t])
        /\ e.pending[s] = d.pending[s]
        /\ e.fresh[s] = (d.fresh[s] /\ "W" \in d.shut[t]) /\ e.fresh[t] = d.fresh[t]

LEMMA MoveFields ==
  ASSUME NEW d \in ClientType, NEW s \in Side
  PROVE  Move(d, MoveInput(d, s), s)
  <1> DEFINE t == Other(s)
             a == AddOutput(d, t, d.input[s])
             w == (a.fresh[s] /\ "W" \in d.shut[t])
             f == [a EXCEPT !.input[s] = 0]
             e == MoveInput(d, s)
  <1>1. t \in Side /\ t # s /\ Other(t) = s
    BY SideFacts
  <1>2. d.input[s] \in Nat
    BY DEF ClientType
  <1>3. /\ a \in ClientType /\ Frame(d, a)
        /\ a.fresh = d.fresh /\ a.input = d.input /\ a.enabled = d.enabled
        /\ a.output[t] = d.output[t] + d.input[s] /\ a.output[Other(t)] = d.output[Other(t)]
        /\ a.pending[t] = (IF d.input[s] > 0 /\ "W" \in d.enabled[t]
                           THEN d.pending[t] \cup {"W"} ELSE d.pending[t])
        /\ a.pending[Other(t)] = d.pending[Other(t)]
    <2> HIDE DEF t
    <2> QED BY <1>1, <1>2, AddOutputFields
  <1>4. e = [a EXCEPT !.input[s] = 0, !.fresh[s] = w]
    BY DEF MoveInput
  <1> HIDE DEF a, e, t
  <1>5. w \in BOOLEAN /\ e = [f EXCEPT !.fresh[s] = w]
    BY <1>3, <1>4 DEF ClientType
  <1> HIDE DEF w
  <1>6. /\ f \in ClientType /\ Frame(a, f) /\ f.enabled = a.enabled /\ f.output = a.output
        /\ f.pending = a.pending /\ f.fresh = a.fresh
        /\ f.input[s] = 0 /\ f.input[t] = a.input[t]
    BY <1>1, <1>3 DEF ClientType, Frame
  <1> HIDE DEF f
  <1>7. /\ e \in ClientType /\ Frame(f, e) /\ e.enabled = f.enabled /\ e.output = f.output
        /\ e.pending = f.pending /\ e.input = f.input
        /\ e.fresh[s] = w /\ e.fresh[t] = f.fresh[t]
    BY <1>1, <1>5, <1>6 DEF ClientType, Frame
  <1>8. e.fresh[s] = (d.fresh[s] /\ "W" \in d.shut[t])
    BY <1>3, <1>7 DEF w
  <1> QED BY <1>1, <1>3, <1>6, <1>7, <1>8 DEF Frame, Move, e, t

\* One half of the socket of s is shut down and the client goes on.
Halve(d, e, s, how) ==
    LET t == Other(s)
    IN  /\ e \in ClientType
        /\ e.phase = d.phase /\ e.hs = d.hs /\ e.suspended = d.suspended /\ e.uaf = d.uaf
        /\ e.fresh = d.fresh /\ e.input = d.input /\ e.output = d.output
        /\ e.enabled[s] = d.enabled[s] \ {how} /\ e.enabled[t] = d.enabled[t]
        /\ e.pending[s] = d.pending[s] \ {how} /\ e.pending[t] = d.pending[t]
        /\ e.evshut[s] = d.evshut[s] \cup {how} /\ e.evshut[t] = d.evshut[t]
        /\ e.shut[s] = (IF how = "R" /\ "W" \in d.evshut[s] THEN d.shut[s] ELSE d.shut[s] \cup {how})
        /\ e.shut[t] = d.shut[t]

LEMMA DropFields ==
  ASSUME NEW d, d.uaf = FALSE
  PROVE  redsocks_drop_client(d) = Freed
  <1>1. ASSUME NEW r \in ClientType, r.uaf = FALSE PROVE [r EXCEPT !.uaf = FALSE] = r
    BY <1>1 DEF ClientType
  <1>2. Freed \in ClientType /\ Freed.uaf = FALSE
    BY FreedGood DEF Good, ClientType
  <1> QED BY <1>1, <1>2 DEF redsocks_drop_client

\* The other half of both sockets, or the client is dropped.
LEMMA ShutdownFields ==
  ASSUME NEW d \in ClientType, ~ d.uaf, NEW s \in Side, NEW how \in Event
  PROVE  LET e == redsocks_shutdown(d, s, how)
         IN  \/ Halve(d, e, s, how)
             \/ /\ e = Freed
                /\ d.evshut[Other(s)] = Event /\ d.evshut[s] \cup {how} = Event
  <1> DEFINE t == Other(s)
             a == bufferevent_disable(d, s, {how})
             v == a.evshut[s] \cup {how}
             w == IF how = "R" /\ "W" \in d.evshut[s] THEN a.shut[s] ELSE a.shut[s] \cup {how}
             f == [a EXCEPT !.evshut[s] = v]
             g == [f EXCEPT !.shut[s] = w]
             e == redsocks_shutdown(d, s, how)
  <1>1. t \in Side /\ t # s /\ \A u \in Side : u = s \/ u = t
    BY SideFacts
  <1>2. /\ a \in ClientType /\ Frame(d, a)
        /\ a.fresh = d.fresh /\ a.input = d.input /\ a.output = d.output
        /\ a.enabled[s] = d.enabled[s] \ {how} /\ a.enabled[t] = d.enabled[t]
        /\ a.pending[s] = d.pending[s] \ {how} /\ a.pending[t] = d.pending[t]
    BY DisableFields
  <1>3. e = IF \A u \in Side : g.evshut[u] = Event THEN redsocks_drop_client(g) ELSE g
    <2>1. [a EXCEPT !.evshut[s] = @ \cup {how},
                    !.shut[s] = IF how = "R" /\ "W" \in d.evshut[s] THEN @ ELSE @ \cup {how}] = g
      <3> HIDE DEF a
      <3> QED BY <1>2 DEF ClientType
    <2> QED BY <2>1 DEF redsocks_shutdown
  <1> HIDE DEF a, e, t
  <1>4. v \in SUBSET Event /\ w \in SUBSET Event
    BY <1>2 DEF ClientType
  <1> HIDE DEF v, w
  <1>5. /\ f \in ClientType /\ f.phase = a.phase /\ f.hs = a.hs /\ f.suspended = a.suspended
        /\ f.uaf = a.uaf /\ f.fresh = a.fresh /\ f.input = a.input /\ f.output = a.output
        /\ f.enabled = a.enabled /\ f.pending = a.pending /\ f.shut = a.shut
        /\ f.evshut[s] = v /\ f.evshut[t] = a.evshut[t]
    BY <1>1, <1>2, <1>4 DEF ClientType
  <1> HIDE DEF f
  <1>6. /\ g \in ClientType /\ g.phase = f.phase /\ g.hs = f.hs /\ g.suspended = f.suspended
        /\ g.uaf = f.uaf /\ g.fresh = f.fresh /\ g.input = f.input /\ g.output = f.output
        /\ g.enabled = f.enabled /\ g.pending = f.pending /\ g.evshut = f.evshut
        /\ g.shut[s] = w /\ g.shut[t] = f.shut[t]
    BY <1>1, <1>4, <1>5 DEF ClientType
  <1> HIDE DEF g
  <1>7. g.evshut[s] = d.evshut[s] \cup {how} /\ g.evshut[t] = d.evshut[t]
    BY <1>2, <1>5, <1>6 DEF Frame, v
  <1>8. CASE \A u \in Side : g.evshut[u] = Event
    <2>1. g.uaf = FALSE
      BY <1>2, <1>5, <1>6 DEF Frame, ClientType
    <2>2. e = Freed
      BY <1>3, <1>8, <2>1, DropFields
    <2> QED BY <1>1, <1>7, <1>8, <2>2 DEF e, t
  <1>9. CASE ~ \A u \in Side : g.evshut[u] = Event
    <2>1. e = g
      BY <1>3, <1>9
    <2>2. g.shut[s] = IF how = "R" /\ "W" \in d.evshut[s] THEN d.shut[s] ELSE d.shut[s] \cup {how}
      BY <1>2, <1>6 DEF w, Frame
    <2>3. Halve(d, g, s, how)
      BY <1>2, <1>5, <1>6, <1>7, <2>2 DEF Frame, Halve, t
    <2> QED BY <2>1, <2>3 DEF e
  <1> QED BY <1>8, <1>9

\* A request is queued on the relay.
Ask(d, e) ==
    /\ e \in ClientType /\ e.phase = "handshake"
    /\ e.hs = d.hs /\ e.suspended = d.suspended /\ e.uaf = d.uaf
    /\ e.evshut = d.evshut /\ e.shut = d.shut /\ e.fresh = d.fresh /\ e.input = d.input
    /\ e.output["relay"] = d.output["relay"] + 1 /\ e.output["client"] = d.output["client"]

LEMMA WriteHelperFields ==
  ASSUME NEW d \in ClientType
  PROVE  Ask(d, redsocks_write_helper(d))
  <1> DEFINE a == AddOutput(d, "relay", 1)
             b == [a EXCEPT !.phase = "handshake"]
             e == redsocks_write_helper(d)
  <1>1. "relay" \in Side /\ Other("relay") = "client" /\ 1 \in Nat /\ {"R"} \in SUBSET Event
    BY DEF Side, Other, Event
  <1>2. /\ a \in ClientType /\ Frame(d, a) /\ a.fresh = d.fresh /\ a.input = d.input
        /\ a.output["relay"] = d.output["relay"] + 1
        /\ a.output[Other("relay")] = d.output[Other("relay")]
    BY <1>1, AddOutputFields
  <1>3. e = bufferevent_enable(b, "relay", {"R"})
    BY DEF redsocks_write_helper
  <1> HIDE DEF a
  <1>4. /\ b \in ClientType /\ b.phase = "handshake" /\ b.hs = a.hs /\ b.suspended = a.suspended
        /\ b.uaf = a.uaf /\ b.evshut = a.evshut /\ b.shut = a.shut /\ b.fresh = a.fresh
        /\ b.input = a.input /\ b.output = a.output
    BY <1>2 DEF ClientType, Phase
  <1> HIDE DEF b
  <1>5. e \in ClientType /\ Frame(b, e) /\ e.fresh = b.fresh /\ e.input = b.input /\ e.output = b.output
    BY <1>1, <1>3, <1>4, EnableFields
  <1> QED BY <1>1, <1>2, <1>4, <1>5 DEF Frame, Ask

\* Relaying starts: everything is enabled on both sockets.
Begin(d, e) ==
    /\ e \in ClientType /\ e.phase = "relaying"
    /\ e.hs = d.hs /\ e.suspended = d.suspended /\ e.uaf = d.uaf
    /\ e.evshut = d.evshut /\ e.shut = d.shut /\ e.input = d.input /\ e.output = d.output
    /\ \A s \in Side : /\ e.fresh[s] = (d.input[s] > 0)
                       /\ "W" \in e.enabled[s] /\ "W" \in e.pending[s]

LEMMA StartRelayFields ==
  ASSUME NEW d \in ClientType
  PROVE  Begin(d, redsocks_start_relay(d))
  <1> DEFINE u == [s \in Side |-> d.input[s] > 0]
             a == [d EXCEPT !.phase = "relaying", !.fresh = u]
             b == bufferevent_enable(a, "client", Event)
             e == bufferevent_enable(b, "relay", Event)
  <1>1. /\ "relay" \in Side /\ Other("relay") = "client" /\ "client" \in Side
        /\ Event \in SUBSET Event /\ \A s \in Side : s = "client" \/ s = "relay"
    BY DEF Side, Other
  <1>2. redsocks_start_relay(d) = e
    BY DEF redsocks_start_relay
  <1>3. u \in [Side -> BOOLEAN] /\ \A s \in Side : u[s] = (d.input[s] > 0)
    OBVIOUS
  <1> HIDE DEF u
  <1>4. /\ a \in ClientType /\ a.phase = "relaying" /\ a.hs = d.hs /\ a.suspended = d.suspended
        /\ a.uaf = d.uaf /\ a.evshut = d.evshut /\ a.shut = d.shut /\ a.fresh = u
        /\ a.input = d.input /\ a.output = d.output
    BY <1>3 DEF ClientType, Phase
  <1> HIDE DEF a
  <1>5. /\ b \in ClientType /\ Frame(a, b) /\ b.fresh = a.fresh /\ b.input = a.input
        /\ b.output = a.output /\ b.enabled["client"] = a.enabled["client"] \cup Event
        /\ b.pending["client"] = a.pending["client"]
                                   \cup (IF a.suspended["client"] THEN Event \ {"R"} ELSE Event)
    BY <1>1, <1>4, EnableFields
  <1> HIDE DEF b
  <1>6. /\ e \in ClientType /\ Frame(b, e) /\ e.fresh = b.fresh /\ e.input = b.input
        /\ e.output = b.output /\ e.enabled["relay"] = b.enabled["relay"] \cup Event
        /\ e.enabled[Other("relay")] = b.enabled[Other("relay")]
        /\ e.pending["relay"] = b.pending["relay"]
                                   \cup (IF b.suspended["relay"] THEN Event \ {"R"} ELSE Event)
        /\ e.pending[Other("relay")] = b.pending[Other("relay")]
    BY <1>1, <1>5, EnableFields
  <1> HIDE DEF e
  <1>7. "W" \in e.enabled["relay"] /\ "W" \in e.enabled["client"]
        /\ "W" \in e.pending["relay"] /\ "W" \in e.pending["client"]
    BY <1>1, <1>5, <1>6 DEF Event
  <1> QED BY <1>1, <1>2, <1>3, <1>4, <1>5, <1>6, <1>7 DEF Frame, Begin

-----------------------------------------------------------------------------
(* The actions, field by field.  Filled, Drained, ... relate c to the      *)
(* structure d that the callbacks of the action start from.                *)

Filled(d, s, n) == /\ d \in ClientType /\ Frame(c, d) /\ d.fresh = c.fresh
                   /\ d.output = c.output /\ d.enabled = c.enabled /\ d.pending = c.pending
                   /\ d.input[s] = c.input[s] + n /\ d.input[Other(s)] = c.input[Other(s)]

NetRead(s, n) == /\ net'.rx[s] = net.rx[s] - n /\ net'.rx[Other(s)] = net.rx[Other(s)]
                 /\ net'.tx = net.tx /\ net'.fin = net.fin /\ net'.rst = net.rst
                 /\ net'.sent = net.sent /\ net'.got = net.got

\* A reply is taken out of the input.
Taken(d, f) == /\ f \in ClientType /\ f.phase = d.phase /\ f.hs = d.hs - 1
               /\ f.suspended = d.suspended /\ f.uaf = d.uaf /\ f.evshut = d.evshut
               /\ f.shut = d.shut /\ f.fresh = d.fresh /\ f.output = d.output
               /\ f.input["relay"] = d.input["relay"] - 1
               /\ f.input["client"] = d.input["client"]

Pause(d, e, s) == /\ e \in ClientType /\ Frame(d, e) /\ e.fresh = d.fresh
                  /\ e.input = d.input /\ e.output = d.output
                  /\ e.enabled[s] = d.enabled[s] \ {"R"}
                  /\ e.enabled[Other(s)] = d.enabled[Other(s)]
                  /\ e.pending[s] = d.pending[s] \ {"R"}
                  /\ e.pending[Other(s)] = d.pending[Other(s)]

\* What the callbacks of ReadData make of d.
Received(d, e, s) ==
    \/ d.phase \in {"connecting", "handshake"} /\ e = d
    \/ d.phase = "relaying" /\ d.output[Other(s)] < HALFBUFF /\ Move(d, e, s)
    \/ d.phase = "relaying" /\ d.output[Other(s)] >= HALFBUFF /\ Pause(d, e, s)
    \/ /\ d.phase = "handshake" /\ s = "relay"
       /\ \E f : Taken(d, f) /\ IF f.hs = 0 THEN Begin(f, e) ELSE Ask(f, e)

LEMMA TakenFields ==
  ASSUME NEW d \in ClientType, d.phase = "handshake", d.hs > 0, d.input["relay"] > 0
  PROVE  \E f : Taken(d, f) /\ LET e == HandshakeReply(d)
                               IN  IF f.hs = 0 THEN Begin(f, e) ELSE Ask(f, e)
  <1> DEFINE k == d.input["relay"] - 1
             h == d.hs - 1
             a == [d EXCEPT !.input["relay"] = k]
             f == [a EXCEPT !.hs = h]
             e == HandshakeReply(d)
  <1>1. "relay" \in Side /\ "client" \in Side /\ "client" # "relay"
    BY DEF Side
  <1>2. k \in Nat /\ h \in 0 .. Rounds
    BY <1>1, SideFacts DEF ClientType
  <1>3. e = IF f.hs = 0 THEN redsocks_start_relay(f) ELSE redsocks_write_helper(f)
    <2>1. [d EXCEPT !.input["relay"] = @ - 1, !.hs = @ - 1] = f
      BY DEF ClientType
    <2> QED BY <2>1 DEF HandshakeReply
  <1> HIDE DEF k, h, e
  <1>4. /\ a \in ClientType /\ Frame(d, a) /\ a.fresh = d.fresh /\ a.output = d.output
        /\ a.input["relay"] = k /\ a.input["client"] = d.input["client"]
    BY <1>1, <1>2 DEF ClientType, Frame
  <1> HIDE DEF a
  <1>5. /\ f \in ClientType /\ f.phase = a.phase /\ f.hs = h
        /\ f.suspended = a.suspended /\ f.uaf = a.uaf /\ f.evshut = a.evshut
        /\ f.shut = a.shut /\ f.fresh = a.fresh /\ f.output = a.output /\ f.input = a.input
    BY <1>2, <1>4 DEF ClientType
  <1> HIDE DEF f
  <1>6. Taken(d, f)
    BY <1>4, <1>5 DEF Taken, Frame, k, h
  <1>7. IF f.hs = 0 THEN Begin(f, e) ELSE Ask(f, e)
    BY <1>3, <1>5, StartRelayFields, WriteHelperFields
  <1> QED BY <1>6, <1>7 DEF e

LEMMA ReadcbFields ==
  ASSUME NEW d \in ClientType, NEW s \in Side, d.phase = "relaying"
  PROVE  Received(d, redsocks_relay_readcb(d, s), s)
  <1> DEFINE t == Other(s)
  <1>1. d.output[t] \in Nat /\ HALFBUFF \in Nat
    BY SideFacts, BoundsAssumption DEF ClientType
  <1>2. CASE d.output[t] < HALFBUFF
    BY <1>2, MoveFields DEF redsocks_relay_readcb, Received
  <1>3. CASE ~(d.output[t] < HALFBUFF)
    <2> DEFINE e == bufferevent_disable(d, s, {"R"})
    <2>1. redsocks_relay_readcb(d, s) = e /\ d.output[t] >= HALFBUFF
      BY <1>1, <1>3 DEF redsocks_relay_readcb
    <2>2. Pause(d, e, s)
      BY DisableFields DEF Pause
    <2> HIDE DEF e
    <2> QED BY <2>1, <2>2 DEF Received
  <1> QED BY <1>2, <1>3

LEMMA ReadDataStep ==
  ASSUME Inv, NEW s \in Side, ReadData(s)
  PROVE  \E n, d :
             /\ n \in 1 .. net.rx[s]
             /\ n <= RoomToRead(c, s) /\ Filled(d, s, n)
             /\ c' = Freed \/ (NetRead(s, n) /\ Received(d, c', s))
  <1> DEFINE n == Least(net.rx[s], Least(RoomToRead(c, s), HALFBUFF))
             k == c.input[s] + n
             d == [c EXCEPT !.input[s] = k]
             v == net.rx[s] - n
             m == [net EXCEPT !.rx[s] = v]
             t == Other(s)
  <1>0. t \in Side /\ t # s /\ c \in ClientType /\ net \in NetType /\ ~ c.uaf /\ HandshakeOpen(c)
    BY SideFacts DEF Inv, Good
  <1>1. RoomToRead(c, s) \in Int /\ net.rx[s] \in 0 .. SockBuf /\ c.input[s] \in Nat
    BY <1>0, BoundsAssumption DEF RoomToRead, ReadHigh, HeadHigh, ClientType, NetType
  <1>2. n \in 1 .. net.rx[s] /\ n <= RoomToRead(c, s)
    BY <1>1, BoundsAssumption DEF ReadData, Least
  <1>3. \E e \in ReadCallbacks(d, s) : Finish(e, m)
    BY DEF ReadData
  <1>4. c.phase # "none"
    BY DEF ReadData, Registered
  <1> HIDE DEF n
  <1>5. k \in Nat /\ k > 0 /\ v \in 0 .. SockBuf
    BY <1>1, <1>2, BoundsAssumption
  <1> HIDE DEF k, v, t
  <1>6. Filled(d, s, n)
    <2>1. /\ d \in ClientType /\ Frame(c, d) /\ d.fresh = c.fresh
          /\ d.output = c.output /\ d.enabled = c.enabled /\ d.pending = c.pending
          /\ d.input[s] = k /\ d.input[t] = c.input[t]
      BY <1>0, <1>5 DEF ClientType, Frame
    <2> HIDE DEF d
    <2> QED BY <2>1 DEF Filled, k, t
  <1>7. /\ m.rx[s] = v /\ m.rx[t] = net.rx[t] /\ m.tx = net.tx /\ m.fin = net.fin
        /\ m.rst = net.rst /\ m.sent = net.sent /\ m.got = net.got
    BY <1>0, <1>5 DEF NetType
  <1>8. d.input[s] > 0
    BY <1>0, <1>5 DEF ClientType
  <1> HIDE DEF d, m
  <1>9. PICK e \in ReadCallbacks(d, s) : Finish(e, m)
    BY <1>3
  <1>10. d \in ClientType /\ d.phase = c.phase /\ d.hs = c.hs /\ d.uaf = FALSE
    BY <1>0, <1>6 DEF Filled, Frame, ClientType
  <1>11. e = Freed \/ Received(d, e, s)
    <2>1. CASE d.phase = "relaying"
      <3>1. e = redsocks_relay_readcb(d, s)
        BY <2>1 DEF ReadCallbacks
      <3> QED BY <1>10, <2>1, <3>1, ReadcbFields
    <2>2. CASE d.phase = "handshake" /\ s = "relay"
      <3>1. e \in {HandshakeReply(d), redsocks_drop_client(d)}
        BY <2>2 DEF ReadCallbacks
      <3>2. redsocks_drop_client(d) = Freed
        BY <1>10, DropFields
      <3>3. Received(d, HandshakeReply(d), s)
        <4>1. d.hs > 0 /\ d.input["relay"] > 0
          BY <1>0, <1>8, <1>10, <2>2 DEF HandshakeOpen
        <4> QED BY <1>10, <2>2, <4>1, TakenFields DEF Received
      <3> QED BY <3>1, <3>2, <3>3
    <2>3. CASE d.phase # "relaying" /\ ~(d.phase = "handshake" /\ s = "relay")
      <3>1. e = d
        BY <2>3 DEF ReadCallbacks
      <3>2. d.phase \in {"connecting", "handshake"}
        BY <1>4, <1>10, <2>3 DEF ClientType, Phase
      <3> QED BY <3>1, <3>2 DEF Received
    <2> QED BY <2>1, <2>2, <2>3
  <1>12. c' = e
    BY <1>9 DEF Finish
  <1>13. Received(d, e, s) => NetRead(s, n)
    <2> SUFFICES ASSUME Received(d, e, s) PROVE NetRead(s, n)
      OBVIOUS
    <2>1. e.phase # "none"
      BY <1>4, <1>10 DEF Received, Move, Pause, Frame, Begin, Ask
    <2>2. net' = m
      BY <1>9, <2>1 DEF Finish
    <2> QED BY <1>7, <2>2 DEF NetRead, v, t
  <1> QED BY <1>2, <1>6, <1>11, <1>12, <1>13

Drained(d, s, n) == /\ d \in ClientType /\ Frame(c, d) /\ d.fresh = c.fresh
                    /\ d.input = c.input /\ d.enabled = c.enabled /\ d.pending = c.pending
                    /\ d.output[s] = c.output[s] - n /\ d.output[Other(s)] = c.output[Other(s)]

NetWrite(s, n) == /\ net'.tx[s] = net.tx[s] + n /\ net'.tx[Other(s)] = net.tx[Other(s)]
                  /\ net'.rx = net.rx /\ net'.fin = net.fin /\ net'.rst = net.rst
                  /\ net'.sent = net.sent /\ net'.got = net.got

\* Some write events are unregistered.
Unwatch(d, e) == /\ e \in ClientType /\ Frame(d, e) /\ e.fresh = d.fresh
                 /\ e.input = d.input /\ e.output = d.output
                 /\ \A r \in Side : /\ e.pending[r] \subseteq d.pending[r]
                                    /\ "R" \in d.pending[r] => "R" \in e.pending[r]

Unregister(d, e, s) == /\ Unwatch(d, e) /\ e.enabled = d.enabled
                       /\ e.pending[s] = d.pending[s] \ {"W"}
                       /\ e.pending[Other(s)] = d.pending[Other(s)]

Resume(d, e, s) == /\ e \in ClientType /\ Frame(d, e) /\ e.fresh = d.fresh
                   /\ e.input = d.input /\ e.output = d.output
                   /\ e.enabled[s] = d.enabled[s] \cup {"R"}
                   /\ e.enabled[Other(s)] = d.enabled[Other(s)]
                   /\ e.pending[s] = d.pending[s] \cup (IF d.suspended[s] THEN {"R"} \ {"R"} ELSE {"R"})
                   /\ e.pending[Other(s)] = d.pending[Other(s)]

\* What writecb on side s makes of u, whose output on s is empty.
Flushed(u, e, s) ==
    LET t == Other(s)
    IN  \/ u.phase = "handshake" /\ Unwatch(u, e)
        \/ u.phase = "relaying" /\ u.input[t] = 0 /\ "R" \in u.evshut[t] /\ Halve(u, e, s, "W")
        \/ /\ u.phase = "relaying" /\ ~(u.input[t] = 0 /\ "R" \in u.evshut[t])
           /\ \E f : Move(u, f, t) /\ Resume(f, e, t)

LEMMA UnregisterFields ==
  ASSUME NEW d \in ClientType, NEW s \in Side
  PROVE  Unregister(d, [d EXCEPT !.pending[s] = @ \ {"W"}], s)
  <1> DEFINE p == d.pending[s] \ {"W"}
             e == [d EXCEPT !.pending[s] = p]
             t == Other(s)
  <1>1. p \in SUBSET Event /\ t \in Side /\ t # s /\ \A r \in Side : r = s \/ r = t
    BY SideFacts DEF ClientType
  <1>2. [d EXCEPT !.pending[s] = @ \ {"W"}] = e
    OBVIOUS
  <1> HIDE DEF p, t
  <1>3. /\ e \in ClientType /\ Frame(d, e) /\ e.fresh = d.fresh /\ e.enabled = d.enabled
        /\ e.input = d.input /\ e.output = d.output
        /\ e.pending[s] = p /\ e.pending[t] = d.pending[t]
    BY <1>1 DEF ClientType, Frame
  <1> HIDE DEF e
  <1>4. \A r \in Side : /\ e.pending[r] \subseteq d.pending[r]
                        /\ "R" \in d.pending[r] => "R" \in e.pending[r]
    BY <1>1, <1>3 DEF p
  <1> QED BY <1>2, <1>3, <1>4 DEF Unregister, Unwatch, p, t

LEMMA HandshakeWrittenFields ==
  ASSUME NEW u \in ClientType
  PROVE  Unwatch(u, HandshakeWritten(u))
  <1> DEFINE e == bufferevent_disable(u, "relay", {"W"})
  <1>1. "relay" \in Side /\ Other("relay") = "client" /\ \A r \in Side : r = "client" \/ r = "relay"
    BY DEF Side, Other
  <1>2. /\ e \in ClientType /\ Frame(u, e) /\ e.fresh = u.fresh /\ e.input = u.input
        /\ e.output = u.output /\ e.pending["relay"] = u.pending["relay"] \ {"W"}
        /\ e.pending[Other("relay")] = u.pending[Other("relay")]
    BY <1>1, DisableFields
  <1>3. HandshakeWritten(u) = IF Proto = "socks5" THEN u ELSE e
    BY DEF HandshakeWritten
  <1> HIDE DEF e
  <1>4. Unwatch(u, e)
    BY <1>1, <1>2 DEF Unwatch
  <1>5. Unwatch(u, u)
    BY DEF Unwatch, Frame
  <1> QED BY <1>3, <1>4, <1>5

LEMMA WritecbFields ==
  ASSUME NEW u \in ClientType, ~ u.uaf, NEW s \in Side, u.phase = "relaying", u.output[s] = 0
  PROVE  LET e == redsocks_relay_writecb(u, Other(s))
         IN  Flushed(u, e, s) \/ e = Freed
  <1> DEFINE t == Other(s)
             e == redsocks_relay_writecb(u, t)
  <1>1. t \in Side /\ Other(t) = s
    BY SideFacts
  <1>2. CASE u.input[t] = 0 /\ "R" \in u.evshut[t]
    <2>1. e = redsocks_shutdown(u, s, "W")
      BY <1>1, <1>2 DEF redsocks_relay_writecb
    <2>2. Halve(u, e, s, "W") \/ e = Freed
      BY <2>1, ShutdownFields DEF Event
    <2> QED BY <1>2, <2>2 DEF Flushed
  <1>3. CASE ~(u.input[t] = 0 /\ "R" \in u.evshut[t])
    <2> DEFINE f == MoveInput(u, t)
    <2>1. u.output[s] < HALFBUFF
      BY BoundsAssumption
    <2>2. e = bufferevent_enable(f, t, {"R"})
      BY <1>1, <1>3, <2>1 DEF redsocks_relay_writecb
    <2>3. Move(u, f, t)
      BY <1>1, MoveFields
    <2> HIDE DEF f, e
    <2>4. f \in ClientType /\ {"R"} \in SUBSET Event
      BY <2>3 DEF Move, Event
    <2>5. Resume(f, e, t)
      <3> HIDE DEF t
      <3> QED BY <1>1, <2>2, <2>4, EnableFields DEF Resume
    <2>6. Flushed(u, e, s)
      BY <1>3, <2>3, <2>5 DEF Flushed
    <2> QED BY <2>6 DEF e
  <1> QED BY <1>2, <1>3

LEMMA WriteReadyStep ==
  ASSUME Inv, NEW s \in Side, WriteReady(s)
  PROVE  \E n, d, u :
             /\ n \in 0 .. c.output[s]
             /\ Drained(d, s, n) /\ Unregister(d, u, s)
             /\ \/ c' = Freed
                \/ NetWrite(s, n) /\ (IF d.output[s] > 0 THEN c' = d ELSE Flushed(u, c', s))
  <1> DEFINE n == Least(c.output[s], SockBuf - net.tx[s])
             k == c.output[s] - n
             d == [c EXCEPT !.output[s] = k]
             u == [d EXCEPT !.pending[s] = @ \ {"W"}]
             v == net.tx[s] + n
             m == [net EXCEPT !.tx[s] = v]
             t == Other(s)
             e == IF d.output[s] > 0 THEN d ELSE WriteCallbacks(u, s)
  <1>0. t \in Side /\ t # s /\ c \in ClientType /\ net \in NetType /\ ~ c.uaf
    BY SideFacts DEF Inv, Good
  <1>1. net.tx[s] \in 0 .. SockBuf /\ c.output[s] \in Nat
    BY <1>0 DEF ClientType, NetType
  <1>2. n \in 0 .. c.output[s] /\ n \in 0 .. SockBuf - net.tx[s]
    BY <1>1, BoundsAssumption DEF Least
  <1>3. Finish(e, m) /\ c.phase \in {"handshake", "relaying"}
    BY DEF WriteReady
  <1> HIDE DEF n
  <1>4. k \in Nat /\ v \in 0 .. SockBuf
    BY <1>1, <1>2, BoundsAssumption
  <1> HIDE DEF k, v, t
  <1>5. Drained(d, s, n)
    <2>1. /\ d \in ClientType /\ Frame(c, d) /\ d.fresh = c.fresh
          /\ d.input = c.input /\ d.enabled = c.enabled /\ d.pending = c.pending
          /\ d.output[s] = k /\ d.output[t] = c.output[t]
      BY <1>0, <1>4 DEF ClientType, Frame
    <2> HIDE DEF d
    <2> QED BY <2>1 DEF Drained, k, t
  <1>6. /\ m.tx[s] = v /\ m.tx[t] = net.tx[t] /\ m.rx = net.rx /\ m.fin = net.fin
        /\ m.rst = net.rst /\ m.sent = net.sent /\ m.got = net.got
    BY <1>0, <1>4 DEF NetType
  <1> HIDE DEF d, m
  <1>7. d \in ClientType /\ d.phase = c.phase /\ d.uaf = c.uaf /\ d.output[s] = k
    BY <1>5 DEF Drained, Frame, k
  <1>8. Unregister(d, u, s)
    BY <1>7, UnregisterFields
  <1> HIDE DEF u
  <1>9. u \in ClientType /\ u.phase = c.phase /\ ~ u.uaf /\ u.output[s] = k
    BY <1>0, <1>7, <1>8 DEF Unregister, Unwatch, Frame
  <1>10. CASE d.output[s] > 0
    <2>1. e = d /\ c' = d
      BY <1>3, <1>10 DEF Finish
    <2>2. net' = m
      BY <1>3, <1>7, <2>1 DEF Finish
    <2>3. NetWrite(s, n)
      BY <1>6, <2>2 DEF NetWrite, v, t
    <2> QED BY <1>2, <1>5, <1>8, <1>10, <2>1, <2>3
  <1>11. CASE ~(d.output[s] > 0)
    <2>1. e = WriteCallbacks(u, s) /\ c' = e /\ k = 0
      BY <1>3, <1>4, <1>7, <1>11 DEF Finish
    <2>2. Flushed(u, e, s) \/ e = Freed
      <3>1. CASE c.phase = "relaying"
        <4>1. e = redsocks_relay_writecb(u, Other(s))
          BY <1>9, <2>1, <3>1 DEF WriteCallbacks
        <4> QED BY <1>9, <2>1, <3>1, <4>1, WritecbFields
      <3>2. CASE c.phase = "handshake"
        <4>1. e = HandshakeWritten(u)
          BY <1>9, <2>1, <3>2 DEF WriteCallbacks
        <4> QED BY <1>9, <3>2, <4>1, HandshakeWrittenFields DEF Flushed
      <3> QED BY <1>3, <3>1, <3>2
    <2> HIDE DEF e
    <2>3. ASSUME Flushed(u, e, s) PROVE NetWrite(s, n)
      <3>1. e.phase # "none"
        BY <1>3, <1>9, <2>3 DEF Flushed, Unwatch, Halve, Move, Resume, Frame
      <3>2. net' = m
        BY <1>3, <3>1 DEF Finish
      <3> QED BY <1>6, <3>2 DEF NetWrite, v, t
    <2> QED BY <1>2, <1>5, <1>8, <1>11, <2>1, <2>2, <2>3
  <1> QED BY <1>10, <1>11

\* redsocks_event_error: the first shutdown never drops the client, the second may.
LEMMA EventErrorFields ==
  ASSUME NEW d, Good(d), NEW s \in Side, d.phase # "none"
  PROVE  LET f == redsocks_event_error(d, s)
             t == Other(s)
         IN  \E e : /\ Halve(d, e, s, "R")
                    /\ IF e.output[t] = 0
                       THEN \/ Halve(e, f, t, "W")
                            \/ f = Freed /\ e.evshut[s] = Event
                       ELSE f = e
  <1> DEFINE t == Other(s)
             e == redsocks_shutdown(d, s, "R")
             f == redsocks_event_error(d, s)
  <1>0. t \in Side /\ Other(t) = s /\ \A r \in Side : r = s \/ r = t
    BY SideFacts
  <1>1. d \in ClientType /\ ~ d.uaf /\ EofForwarded(d) /\ HalfOpen(d)
    BY DEF Good
  <1>2. Halve(d, e, s, "R") \/ (d.evshut[t] = Event /\ d.evshut[s] \cup {"R"} = Event)
    BY <1>1, ShutdownFields DEF Event
  <1>3. Halve(d, e, s, "R")
    <2> SUFFICES ASSUME d.evshut[t] = Event, d.evshut[s] \cup {"R"} = Event PROVE FALSE
      BY <1>2
    <2>1. "R" \in d.evshut[s]
      BY <1>1 DEF EofForwarded, Event
    <2>2. d.evshut[s] = Event
      BY <2>1
    <2> QED BY <1>0, <1>1, <2>2 DEF HalfOpen
  <1>4. f = IF e.phase = "none" THEN [e EXCEPT !.uaf = TRUE]
            ELSE IF e.output[t] = 0 THEN redsocks_shutdown(e, t, "W") ELSE e
    BY DEF redsocks_event_error
  <1> HIDE DEF e, f
  <1>5. e \in ClientType /\ e.phase # "none" /\ ~ e.uaf
    BY <1>1, <1>3 DEF Halve
  <1>6. CASE e.output[t] = 0
    <2>1. f = redsocks_shutdown(e, t, "W")
      BY <1>4, <1>5, <1>6
    <2>2. Halve(e, f, t, "W") \/ (f = Freed /\ e.evshut[Other(t)] = Event)
      <3> HIDE DEF t
      <3> QED BY <1>0, <1>5, <2>1, ShutdownFields DEF Event
    <2> QED BY <1>0, <1>3, <1>6, <2>2 DEF f
  <1>7. CASE e.output[t] # 0
    <2>1. f = e
      BY <1>4, <1>5, <1>7
    <2> QED BY <1>3, <1>7, <2>1 DEF f
  <1> QED BY <1>6, <1>7

LEMMA ReadEOFStep ==
  ASSUME Inv, NEW s \in Side, ReadEOF(s)
  PROVE  \E d, e : /\ Pause(c, d, s) /\ Halve(d, e, s, "R")
                   /\ \/ c' = Freed /\ e.evshut[s] = Event /\ e.output[Other(s)] = 0
                      \/ /\ net' = net
                         /\ IF e.output[Other(s)] = 0 THEN Halve(e, c', Other(s), "W") ELSE c' = e
  <1> DEFINE d == bufferevent_disable(c, s, {"R"})
             f == redsocks_event_error(d, s)
             t == Other(s)
  <1>1. c \in ClientType /\ Good(d) /\ c.phase # "none"
    BY DisableGood DEF Inv, Good, ReadEOF, Registered, Event
  <1>2. Pause(c, d, s)
    BY <1>1, DisableFields DEF Pause
  <1>3. Finish(f, net)
    BY DEF ReadEOF
  <1> HIDE DEF d
  <1>4. d.phase # "none"
    BY <1>1, <1>2 DEF Pause, Frame
  <1>5. PICK e : /\ Halve(d, e, s, "R")
                 /\ IF e.output[t] = 0
                    THEN \/ Halve(e, f, t, "W")
                         \/ f = Freed /\ e.evshut[s] = Event
                    ELSE f = e
    BY <1>1, <1>4, EventErrorFields
  <1> HIDE DEF f, t
  <1>6. c' = f
    BY <1>3 DEF Finish
  <1>7. f.phase # "none" => net' = net
    BY <1>3 DEF Finish
  <1>8. e.phase # "none"
    BY <1>4, <1>5 DEF Halve
  <1>9. CASE e.output[t] = 0 /\ f = Freed /\ e.evshut[s] = Event
    BY <1>2, <1>5, <1>6, <1>9 DEF t
  <1>10. CASE e.output[t] = 0 /\ Halve(e, f, t, "W")
    <2>1. f.phase # "none"
      BY <1>8, <1>10 DEF Halve
    <2> QED BY <1>2, <1>5, <1>6, <1>7, <1>10, <2>1 DEF t
  <1>11. CASE e.output[t] # 0 /\ f = e
    BY <1>2, <1>5, <1>6, <1>7, <1>8, <1>11 DEF t
  <1> QED BY <1>5, <1>9, <1>10, <1>11

LEMMA ReadSuspendStep ==
  ASSUME Inv, NEW s \in Side, ReadSuspend(s)
  PROVE  LET t == Other(s)
         IN  /\ net' = net /\ c' \in ClientType
             /\ c'.phase = c.phase /\ c'.hs = c.hs /\ c'.evshut = c.evshut /\ c'.shut = c.shut
             /\ c'.input = c.input /\ c'.output = c.output /\ c'.fresh = c.fresh
             /\ c'.enabled = c.enabled /\ c'.suspended[s] = TRUE /\ c'.suspended[t] = c.suspended[t]
             /\ c'.pending[s] = c.pending[s] \ {"R"} /\ c'.pending[t] = c.pending[t]
  <1> DEFINE t == Other(s)
             p == c.pending[s] \ {"R"}
             d == [c EXCEPT !.suspended[s] = TRUE]
             e == [d EXCEPT !.pending[s] = p]
  <1>0. t \in Side /\ t # s /\ c \in ClientType
    BY SideFacts DEF Inv, Good
  <1>1. p \in SUBSET Event
    BY <1>0 DEF ClientType
  <1>2. Finish(e, net) /\ c.phase # "none"
    <2>1. [c EXCEPT !.suspended[s] = TRUE, !.pending[s] = @ \ {"R"}] = e
      BY <1>0 DEF ClientType
    <2> QED BY <2>1 DEF ReadSuspend, Registered
  <1> HIDE DEF p, t
  <1>3. /\ d \in ClientType /\ d.phase = c.phase /\ d.hs = c.hs /\ d.evshut = c.evshut
        /\ d.shut = c.shut /\ d.input = c.input /\ d.output = c.output /\ d.fresh = c.fresh
        /\ d.enabled = c.enabled /\ d.pending = c.pending
        /\ d.suspended[s] = TRUE /\ d.suspended[t] = c.suspended[t]
    BY <1>0 DEF ClientType
  <1> HIDE DEF d
  <1>4. /\ e \in ClientType /\ Frame(d, e) /\ e.input = d.input /\ e.output = d.output
        /\ e.fresh = d.fresh /\ e.enabled = d.enabled
        /\ e.pending[s] = p /\ e.pending[t] = d.pending[t]
    BY <1>0, <1>1, <1>3 DEF ClientType, Frame
  <1> HIDE DEF e
  <1>5. c' = e /\ net' = net
    BY <1>2, <1>3, <1>4 DEF Finish, Frame
  <1> QED BY <1>3, <1>4, <1>5 DEF Frame, p, t

\* The client goes on with a new relay socket.
AuthRetryStepOK ==
    /\ c' \in ClientType /\ c'.phase = "connecting" /\ c'.hs = Rounds
    /\ c'.input["relay"] = 0 /\ c'.input["client"] = c.input["client"]
    /\ c'.output["relay"] = 0 /\ c'.output["client"] = c.output["client"]
    /\ c'.shut["relay"] = {} /\ c'.shut["client"] = c.shut["client"]
    /\ c'.evshut = c.evshut /\ "R" \notin c'.pending["relay"]
    /\ net'.rx["relay"] = 0 /\ net'.rx["client"] = net.rx["client"]
    /\ net'.tx["relay"] = 0 /\ net'.tx["client"] = net.tx["client"]
    /\ net'.sent["relay"] = 0 /\ net'.sent["client"] = net.sent["client"]
    /\ net'.got["relay"] = 0 /\ net'.got["client"] = net.got["client"]
    /\ net'.fin["client"] = net.fin["client"]

LEMMA AuthRetryStep ==
  ASSUME Inv, AuthRetry
  PROVE  c' = Freed \/ AuthRetryStepOK
  <1> DEFINE a1 == [c EXCEPT !.phase = "connecting", !.hs = Rounds]
             a2 == [a1 EXCEPT !.input["relay"] = 0]
             a3 == [a2 EXCEPT !.output["relay"] = 0]
             a4 == [a3 EXCEPT !.pending["relay"] = {}]
             a5 == [a4 EXCEPT !.shut["relay"] = {}]
             a6 == [a5 EXCEPT !.enabled["relay"] = {"W"}]
             e  == bufferevent_enable(a6, "relay", {"W"})
             n1 == [net EXCEPT !.conn = "pending", !.rx["relay"] = 0]
             n2 == [n1 EXCEPT !.tx["relay"] = 0]
             n3 == [n2 EXCEPT !.fin["relay"] = FALSE]
             n4 == [n3 EXCEPT !.rst["relay"] = FALSE]
             n5 == [n4 EXCEPT !.sent["relay"] = 0]
             n6 == [n5 EXCEPT !.got["relay"] = 0]
  <1>0. /\ "relay" \in Side /\ "client" \in Side /\ "client" # "relay"
        /\ {"W"} \in SUBSET Event /\ {} \in SUBSET Event
        /\ c \in ClientType /\ net \in NetType /\ c.uaf = FALSE
        /\ Rounds \in 0 .. Rounds /\ 0 \in 0 .. SockBuf /\ 0 \in Nat
    BY SideFacts, BoundsAssumption DEF Side, Event, Inv, Good, ClientType
  <1>1. c' = redsocks_drop_client(c) \/ (c' = e /\ net' = n6)
    BY DEF AuthRetry, Finish
  <1>2. CASE c' = redsocks_drop_client(c)
    BY <1>0, <1>2, DropFields
  <1>3. CASE c' = e /\ net' = n6
    <2>1. /\ a1 \in ClientType /\ a1.phase = "connecting" /\ a1.hs = Rounds
          /\ a1.input = c.input /\ a1.output = c.output /\ a1.shut = c.shut /\ a1.evshut = c.evshut
      BY <1>0 DEF ClientType, Phase
    <2> HIDE DEF a1
    <2>2. /\ a2 \in ClientType /\ Frame(a1, a2) /\ a2.output = a1.output
          /\ a2.input["relay"] = 0 /\ a2.input["client"] = a1.input["client"]
      BY <1>0, <2>1 DEF ClientType, Frame
    <2> HIDE DEF a2
    <2>3. /\ a3 \in ClientType /\ Frame(a2, a3) /\ a3.input = a2.input
          /\ a3.output["relay"] = 0 /\ a3.output["client"] = a2.output["client"]
      BY <1>0, <2>2 DEF ClientType, Frame
    <2> HIDE DEF a3
    <2>4. /\ a4 \in ClientType /\ Frame(a3, a4) /\ a4.input = a3.input /\ a4.output = a3.output
          /\ a4.pending["relay"] = {}
      BY <1>0, <2>3 DEF ClientType, Frame
    <2> HIDE DEF a4
    <2>5. /\ a5 \in ClientType /\ a5.phase = a4.phase /\ a5.hs = a4.hs /\ a5.evshut = a4.evshut
          /\ a5.input = a4.input /\ a5.output = a4.output /\ a5.pending = a4.pending
          /\ a5.shut["relay"] = {} /\ a5.shut["client"] = a4.shut["client"]
      BY <1>0, <2>4 DEF ClientType
    <2> HIDE DEF a5
    <2>6. /\ a6 \in ClientType /\ Frame(a5, a6) /\ a6.input = a5.input /\ a6.output = a5.output
          /\ a6.pending = a5.pending
      BY <1>0, <2>5 DEF ClientType, Frame
    <2> HIDE DEF a6
    <2>7. /\ e \in ClientType /\ Frame(a6, e) /\ e.input = a6.input /\ e.output = a6.output
          /\ e.pending["relay"] = a6.pending["relay"]
                                    \cup (IF a6.suspended["relay"] THEN {"W"} \ {"R"} ELSE {"W"})
      BY <1>0, <2>6, EnableFields
    <2> HIDE DEF e
    <2>8. "R" \notin e.pending["relay"]
      BY <2>4, <2>5, <2>6, <2>7
    <2>9. /\ n1 \in NetType /\ n1.rx["relay"] = 0 /\ n1.rx["client"] = net.rx["client"]
          /\ n1.tx = net.tx /\ n1.fin = net.fin /\ n1.sent = net.sent /\ n1.got = net.got
      BY <1>0 DEF NetType
    <2> HIDE DEF n1
    <2>10. /\ n2 \in NetType /\ n2.tx["relay"] = 0 /\ n2.tx["client"] = n1.tx["client"]
           /\ n2.rx = n1.rx /\ n2.fin = n1.fin /\ n2.sent = n1.sent /\ n2.got = n1.got
      BY <1>0, <2>9 DEF NetType
    <2> HIDE DEF n2
    <2>11. /\ n3 \in NetType /\ n3.fin["client"] = n2.fin["client"]
           /\ n3.rx = n2.rx /\ n3.tx = n2.tx /\ n3.sent = n2.sent /\ n3.got = n2.got
      BY <1>0, <2>10 DEF NetType
    <2> HIDE DEF n3
    <2>12. /\ n4 \in NetType /\ n4.fin = n3.fin
           /\ n4.rx = n3.rx /\ n4.tx = n3.tx /\ n4.sent = n3.sent /\ n4.got = n3.got
      BY <1>0, <2>11 DEF NetType
    <2> HIDE DEF n4
    <2>13. /\ n5 \in NetType /\ n5.sent["relay"] = 0 /\ n5.sent["client"] = n4.sent["client"]
           /\ n5.rx = n4.rx /\ n5.tx = n4.tx /\ n5.fin = n4.fin /\ n5.got = n4.got
      BY <1>0, <2>12 DEF NetType
    <2> HIDE DEF n5
    <2>14. /\ n6.got["relay"] = 0 /\ n6.got["client"] = n5.got["client"]
           /\ n6.rx = n5.rx /\ n6.tx = n5.tx /\ n6.fin = n5.fin /\ n6.sent = n5.sent
      BY <1>0, <2>13 DEF NetType
    <2> HIDE DEF n6
    <2> QED BY <1>3, <2>1, <2>2, <2>3, <2>4, <2>5, <2>6, <2>7, <2>8, <2>9, <2>10, <2>11, <2>12,
               <2>13, <2>14 DEF AuthRetryStepOK, Frame
  <1> QED BY <1>1, <1>2, <1>3

LEMMA AcceptStep ==
  ASSUME c = Freed, redsocks_accept_client
  PROVE  /\ c' \in ClientType /\ c'.phase = "connecting" /\ c'.hs = Rounds
         /\ \A s \in Side : /\ c'.input[s] = 0 /\ c'.output[s] = 0
                            /\ c'.evshut[s] = {} /\ c'.shut[s] = {}
                            /\ net'.rx[s] = 0 /\ net'.tx[s] = 0 /\ net'.sent[s] = 0 /\ net'.got[s] = 0
         /\ "R" \notin c'.pending["relay"]
  <1> DEFINE v == [s \in Side |-> {"W"}]
             a == [c EXCEPT !.phase = "connecting", !.hs = Rounds, !.enabled = v]
             b == bufferevent_enable(a, "client", {"R"})
             e == bufferevent_enable(b, "relay", {"W"})
  <1>0. /\ "relay" \in Side /\ "client" \in Side /\ Other("client") = "relay"
        /\ {"W"} \in SUBSET Event /\ {"R"} \in SUBSET Event /\ Rounds \in 0 .. Rounds
        /\ v \in [Side -> SUBSET Event] /\ c \in ClientType
    BY SideFacts, FreedGood DEF Side, Other, Event, Good
  <1>1. c' = e /\ net' = [NetInit EXCEPT !.conn = "pending"]
    BY DEF redsocks_accept_client
  <1>2. /\ \A s \in Side : /\ c.input[s] = 0 /\ c.output[s] = 0
                           /\ c.evshut[s] = {} /\ c.shut[s] = {} /\ c.pending[s] = {}
    BY DEF Freed
  <1> HIDE DEF v
  <1>3. /\ a \in ClientType /\ a.phase = "connecting" /\ a.hs = Rounds /\ a.input = c.input
        /\ a.output = c.output /\ a.evshut = c.evshut /\ a.shut = c.shut /\ a.pending = c.pending
    BY <1>0 DEF ClientType, Phase
  <1> HIDE DEF a
  <1>4. /\ b \in ClientType /\ Frame(a, b) /\ b.input = a.input /\ b.output = a.output
        /\ b.pending[Other("client")] = a.pending[Other("client")]
    BY <1>0, <1>3, EnableFields
  <1> HIDE DEF b
  <1>5. /\ e \in ClientType /\ Frame(b, e) /\ e.input = b.input /\ e.output = b.output
        /\ e.pending["relay"] = b.pending["relay"]
                                  \cup (IF b.suspended["relay"] THEN {"W"} \ {"R"} ELSE {"W"})
    BY <1>0, <1>4, EnableFields
  <1> HIDE DEF e
  <1>6. \A s \in Side : net'.rx[s] = 0 /\ net'.tx[s] = 0 /\ net'.sent[s] = 0 /\ net'.got[s] = 0
    BY <1>1 DEF NetInit
  <1>7. "R" \notin e.pending["relay"]
    BY <1>0, <1>2, <1>3, <1>4, <1>5
  <1> QED BY <1>1, <1>2, <1>3, <1>4, <1>5, <1>6, <1>7 DEF Frame

LEMMA ConnectedStep ==
  ASSUME Inv, redsocks_relay_connected
  PROVE  \/ c' = Freed
         \/ c.phase = "connecting" /\ net' = net /\ \E d : Unwatch(c, d) /\ Ask(d, c')
  <1> DEFINE d == [c EXCEPT !.pending["relay"] = @ \ {"W"}]
  <1>1. c \in ClientType /\ c.uaf = FALSE /\ "relay" \in Side
    BY DEF Inv, Good, ClientType, Side
  <1>2. Unwatch(c, d)
    BY <1>1, UnregisterFields DEF Unregister
  <1>3. Finish(redsocks_write_helper(d), net) \/ Finish(redsocks_drop_client(d), net)
    BY DEF redsocks_relay_connected
  <1>4. c.phase = "connecting"
    BY DEF redsocks_relay_connected
  <1> HIDE DEF d
  <1>5. d \in ClientType /\ d.uaf = FALSE
    BY <1>1, <1>2 DEF Unwatch, Frame
  <1>6. Ask(d, redsocks_write_helper(d)) /\ redsocks_drop_client(d) = Freed
    BY <1>5, WriteHelperFields, DropFields
  <1>7. redsocks_write_helper(d).phase = "handshake"
    BY <1>6 DEF Ask
  <1> QED BY <1>2, <1>3, <1>4, <1>6, <1>7 DEF Finish

-----------------------------------------------------------------------------
(* Every unit is somewhere.                                                *)

\* A dropped client leaves nothing behind for the next one.
Unused == c.phase = "none" => c = Freed

\* Until relaying starts the relay has been handed requests only, and the client
\* nothing.
Preface == c.phase \in {"connecting", "handshake"} =>
             /\ c.output["client"] = 0 /\ net.tx["client"] = 0 /\ net.got["client"] = 0
             /\ c.output["relay"] + net.tx["relay"] + net.got["relay"] = Requests
             /\ c.phase = "connecting" => c.hs = Rounds

\* The proxy answers no request it has not read.
Asked == c.phase # "none" =>
           net.sent["relay"] <= net.got["relay"] \/ net.got["relay"] >= Rounds

Flow == Unused /\ StreamsIntact /\ Preface /\ Asked

\* StreamsIntact, one direction at a time.
ToRelay(d, n, sent, r) == sent + r = n.rx["client"] + d.input["client"]
                                       + d.output["relay"] + n.tx["relay"] + n.got["relay"]
ToClient(d, n, sent) == sent = n.rx["relay"] + d.input["relay"] + (Rounds - d.hs)
                                       + d.output["client"] + n.tx["client"] + n.got["client"]

LEMMA IntactParts ==
  StreamsIntact <=> (c.phase # "none" => /\ ToRelay(c, net, net.sent["client"], Requests)
                                         /\ ToClient(c, net, net.sent["relay"]))
  BY DEF StreamsIntact, ToRelay, ToClient

\* The lengths, for the arithmetic.
Lengths(d, n) == /\ d.hs \in Nat
                 /\ d.input["client"] \in Nat /\ d.input["relay"] \in Nat
                 /\ d.output["client"] \in Nat /\ d.output["relay"] \in Nat
                 /\ n.rx["client"] \in Nat /\ n.rx["relay"] \in Nat
                 /\ n.tx["client"] \in Nat /\ n.tx["relay"] \in Nat
                 /\ n.sent["client"] \in Nat /\ n.sent["relay"] \in Nat
                 /\ n.got["client"] \in Nat /\ n.got["relay"] \in Nat
                 /\ Rounds \in Nat \ {0}

LEMMA LengthFacts ==
  ASSUME NEW d \in ClientType, NEW n \in NetType
  PROVE  Lengths(d, n)
  <1>1. "client" \in Side /\ "relay" \in Side
    BY DEF Side
  <1>2. /\ d.input["client"] \in Nat /\ d.input["relay"] \in Nat
        /\ d.output["client"] \in Nat /\ d.output["relay"] \in Nat /\ d.hs \in Nat
    BY <1>1, SideFacts DEF ClientType
  <1>3. /\ n.rx["client"] \in Nat /\ n.rx["relay"] \in Nat
        /\ n.tx["client"] \in Nat /\ n.tx["relay"] \in Nat
        /\ n.sent["client"] \in Nat /\ n.sent["relay"] \in Nat
        /\ n.got["client"] \in Nat /\ n.got["relay"] \in Nat
    BY <1>1, BoundsAssumption DEF NetType
  <1> QED BY <1>2, <1>3, SideFacts DEF Lengths

\* The two equations of StreamsIntact on plain numbers: a is sent, x and i received
\* and in the input, o, t and g in the output, on the way and with the other peer.
Out(a, r, x, i, o, t, g) == a + r = x + i + o + t + g
Back(a, x, i, h, o, t, g) == a = x + i + h + o + t + g

\* Preface, on plain numbers.
Queued(r, o, t, g) == o + t + g = r

\* The client sends; a request is queued; the proxy reads a unit; the proxy is given up.
LEMMA OutSteps ==
  ASSUME NEW a \in Nat, NEW r \in Int, NEW x \in Nat, NEW i \in Nat, NEW o \in Nat, NEW t \in Nat,
         NEW g \in Nat, Out(a, r, x, i, o, t, g)
  PROVE  /\ Out(a + 1, r, x + 1, i, o, t, g)
         /\ Out(a, r + 1, x, i, o + 1, t, g)
         /\ Out(a, r, x, i, o, t - 1, g + 1)
         /\ Queued(r, o, t, g) => Out(a, 0, x, i, 0, 0, 0)
  BY DEF Out, Queued

\* The proxy sends; the client reads.
LEMMA BackSteps ==
  ASSUME NEW a \in Nat, NEW x \in Nat, NEW i \in Nat, NEW h \in Int, NEW o \in Nat, NEW t \in Nat,
         NEW g \in Nat, Back(a, x, i, h, o, t, g)
  PROVE  /\ Back(a + 1, x + 1, i, h, o, t, g)
         /\ Back(a, x, i, h, o, t - 1, g + 1)
  BY DEF Back

\* n units are written.
LEMMA Written ==
  ASSUME NEW o \in Nat, NEW t \in Nat, NEW g \in Nat, NEW n \in Nat
  PROVE  /\ \A r \in Int : Queued(r, o, t, g) => Queued(r, o - n, t + n, g)
         /\ \A a, x, i \in Nat, r \in Int : Out(a, r, x, i, o, t, g) => Out(a, r, x, i, o - n, t + n, g)
         /\ \A a, x, i \in Nat, h \in Int :
               Back(a, x, i, h, o, t, g) => Back(a, x, i, h, o - n, t + n, g)
  BY DEF Queued, Out, Back

LEMMA DroppedFlow ==
  ASSUME c' = Freed
  PROVE  Flow'
  BY DEF Flow, Unused, StreamsIntact, Preface, Asked, Freed

LEMMA ReadDataFlow ==
  ASSUME Inv, Flow, NEW s \in Side, ReadData(s)
  PROVE  Flow'
  <1>1. PICK n, d :
             /\ n \in 1 .. net.rx[s]
             /\ n <= RoomToRead(c, s) /\ Filled(d, s, n)
             /\ c' = Freed \/ (NetRead(s, n) /\ Received(d, c', s))
    BY ReadDataStep
  <1> n \in 1 .. net.rx[s]
    BY <1>1
  <1>2. CASE c' = Freed
    BY <1>2, DroppedFlow
  <1>3. CASE NetRead(s, n) /\ Received(d, c', s)
    <2>1. Lengths(c, net) /\ n \in Nat /\ c.phase # "none"
      BY LengthFacts DEF Inv, Good, ReadData, Registered
    <2>2. CASE d.phase \in {"connecting", "handshake"} /\ c' = d
      BY <1>1, <1>3, <2>1, <2>2 DEF Filled, Frame, NetRead, Lengths, Flow, Unused, StreamsIntact,
           Preface, Asked, Requests, Other, Side
    <2>3. CASE d.phase = "relaying" /\ Move(d, c', s)
      BY <1>1, <1>3, <2>1, <2>3 DEF Filled, Frame, NetRead, Move, Lengths, Flow, Unused, StreamsIntact,
           Preface, Asked, Requests, Other, Side
    <2>4. CASE d.phase = "relaying" /\ Pause(d, c', s)
      BY <1>1, <1>3, <2>1, <2>4 DEF Filled, Frame, NetRead, Pause, Lengths, Flow, Unused, StreamsIntact,
           Preface, Asked, Requests, Other, Side
    <2>5. ASSUME d.phase = "handshake", s = "relay", NEW f, Taken(d, f), f.hs # 0, Ask(f, c')
          PROVE Flow'
      <3>1. Other("relay") = "client"
        BY DEF Other
      <3>2. /\ c.phase = "handshake" /\ c'.phase = "handshake" /\ c'.hs = c.hs - 1
            /\ c'.input["relay"] = c.input["relay"] + n - 1 /\ c'.input["client"] = c.input["client"]
            /\ c'.output["relay"] = c.output["relay"] + 1
            /\ c'.output["client"] = c.output["client"]
        <4>1. /\ d.phase = c.phase /\ d.hs = c.hs /\ d.output = c.output
              /\ d.input["relay"] = c.input["relay"] + n /\ d.input["client"] = c.input["client"]
          BY <1>1, <2>5, <3>1 DEF Filled, Frame
        <4>2. /\ f.hs = d.hs - 1 /\ f.output = d.output
              /\ f.input["relay"] = d.input["relay"] - 1 /\ f.input["client"] = d.input["client"]
          BY <2>5 DEF Taken
        <4>3. /\ c'.phase = "handshake" /\ c'.hs = f.hs /\ c'.input = f.input
              /\ c'.output["relay"] = f.output["relay"] + 1
              /\ c'.output["client"] = f.output["client"]
          BY <2>5 DEF Ask
        <4>4. c'.input["relay"] = c.input["relay"] + n - 1
          <5>1. c.input["relay"] \in Nat /\ n \in Nat
            BY <2>1 DEF Lengths
          <5> QED BY <4>1, <4>2, <4>3, <5>1
        <4> QED BY <2>5, <4>1, <4>2, <4>3, <4>4
      <3>3. /\ net'.rx["relay"] = net.rx["relay"] - n /\ net'.rx["client"] = net.rx["client"]
            /\ net'.tx = net.tx /\ net'.sent = net.sent /\ net'.got = net.got
        BY <1>3, <2>5, <3>1 DEF NetRead
      <3>4. Requests' = Requests + 1 /\ Requests \in Int
        BY <2>1, <3>2 DEF Requests, Lengths
      <3>5. StreamsIntact'
        <4>1. ToRelay(c, net, net.sent["client"], Requests) /\ ToClient(c, net, net.sent["relay"])
          BY <2>1, IntactParts DEF Flow
        <4>2. ToRelay(c, net, net.sent["client"], Requests)'
          <5>1. Out(net.sent["client"], Requests, net.rx["client"], c.input["client"],
                    c.output["relay"], net.tx["relay"], net.got["relay"])
            BY <4>1 DEF ToRelay, Out
          <5>2. Out(net.sent["client"], Requests + 1, net.rx["client"], c.input["client"],
                    c.output["relay"] + 1, net.tx["relay"], net.got["relay"])
            BY <2>1, <3>4, <5>1, OutSteps DEF Lengths
          <5> QED BY <3>2, <3>3, <3>4, <5>2 DEF ToRelay, Out
        <4>3. ToClient(c, net, net.sent["relay"])'
          BY <2>1, <3>2, <3>3, <4>1 DEF Lengths, ToClient
        <4> QED BY <4>2, <4>3 DEF StreamsIntact, ToRelay, ToClient
      <3>6. Preface'
        BY <2>1, <3>2, <3>3, <3>4 DEF Lengths, Flow, Preface
      <3> QED BY <2>1, <3>2, <3>3, <3>5, <3>6 DEF Flow, Unused, Asked
    <2>6. ASSUME d.phase = "handshake", s = "relay", NEW f, Taken(d, f), f.hs = 0, Begin(f, c')
          PROVE Flow'
      BY <1>1, <1>3, <2>1, <2>6 DEF Filled, Frame, NetRead, Taken, Begin, Lengths, Flow, Unused,
           StreamsIntact, Preface, Asked, Requests, Other, Side
    <2> QED BY <1>3, <2>2, <2>3, <2>4, <2>5, <2>6 DEF Received
  <1> QED BY <1>1, <1>2, <1>3

LEMMA WriteReadyFlow ==
  ASSUME Inv, Flow, NEW s \in Side, WriteReady(s)
  PROVE  Flow'
  <1>1. PICK n, d, u :
             /\ n \in 0 .. c.output[s]
             /\ Drained(d, s, n) /\ Unregister(d, u, s)
             /\ \/ c' = Freed
                \/ NetWrite(s, n) /\ (IF d.output[s] > 0 THEN c' = d ELSE Flushed(u, c', s))
    BY WriteReadyStep
  <1> n \in 0 .. c.output[s]
    BY <1>1
  <1>2. CASE c' = Freed
    BY <1>2, DroppedFlow
  <1>3. CASE NetWrite(s, n) /\ (IF d.output[s] > 0 THEN c' = d ELSE Flushed(u, c', s))
    <2>1. Lengths(c, net) /\ n \in Nat /\ c.phase # "none"
      <3>1. c.output[s] \in Nat
        BY DEF Inv, Good, ClientType
      <3> QED BY <3>1, LengthFacts DEF Inv, Good, WriteReady, Registered
    \* What the callback starts from.
    <2>2. ASSUME NEW e, e \in {d, u}
          PROVE  /\ e.phase = c.phase /\ e.hs = c.hs /\ e.input = c.input
                 /\ e.output[s] = c.output[s] - n /\ e.output[Other(s)] = c.output[Other(s)]
      BY <1>1, <2>2 DEF Drained, Unregister, Unwatch, Frame
    <2>3. ASSUME NEW e, e \in {d, u}, c'.phase = e.phase, c'.hs = e.hs, c'.input = e.input,
                 c'.output = e.output
          PROVE  Flow'
      <3>1. /\ c'.phase = c.phase /\ c'.hs = c.hs /\ c'.input = c.input
            /\ c'.output[s] = c.output[s] - n /\ c'.output[Other(s)] = c.output[Other(s)]
        BY <2>2, <2>3
      <3>2. Requests' = Requests /\ Requests \in Int
        BY <2>1, <3>1 DEF Requests, Lengths
      <3>3. StreamsIntact'
        <4>1. /\ Out(net.sent["client"], Requests, net.rx["client"], c.input["client"],
                     c.output["relay"], net.tx["relay"], net.got["relay"])
              /\ Back(net.sent["relay"], net.rx["relay"], c.input["relay"], Rounds - c.hs,
                      c.output["client"], net.tx["client"], net.got["client"])
              /\ Rounds - c.hs \in Int
          BY <2>1 DEF Flow, StreamsIntact, Out, Back, Lengths
        <4>2. CASE s = "relay"
          <5>1. Out(net.sent["client"], Requests, net.rx["client"], c.input["client"],
                    c.output["relay"] - n, net.tx["relay"] + n, net.got["relay"])
            BY <2>1, <3>2, <4>1, Written DEF Lengths
          <5> QED BY <1>3, <3>1, <3>2, <4>1, <4>2, <5>1 DEF StreamsIntact, Out, Back, NetWrite, Other
        <4>3. CASE s = "client"
          <5>1. Back(net.sent["relay"], net.rx["relay"], c.input["relay"], Rounds - c.hs,
                     c.output["client"] - n, net.tx["client"] + n, net.got["client"])
            BY <2>1, <4>1, Written DEF Lengths
          <5> QED BY <1>3, <3>1, <3>2, <4>1, <4>3, <5>1 DEF StreamsIntact, Out, Back, NetWrite, Other
        <4> QED BY <4>2, <4>3 DEF Side
      <3>4. Preface'
        <4>1. CASE c.phase \in {"connecting", "handshake"} /\ s = "relay"
          <5>1. Queued(Requests, c.output["relay"], net.tx["relay"], net.got["relay"])
            BY <4>1 DEF Queued, Flow, Preface
          <5>2. Queued(Requests, c.output["relay"] - n, net.tx["relay"] + n, net.got["relay"])
            BY <2>1, <3>2, <5>1, Written DEF Lengths
          <5> QED BY <1>3, <3>1, <3>2, <4>1, <5>2 DEF Queued, NetWrite, Flow, Preface, Other
        <4>2. CASE c.phase \in {"connecting", "handshake"} /\ s = "client"
          <5>1. n = 0
            BY <1>1, <4>2 DEF Flow, Preface
          <5> QED BY <1>3, <3>1, <3>2, <4>2, <5>1 DEF NetWrite, Flow, Preface, Other
        <4> QED BY <3>1, <4>1, <4>2 DEF Preface, Side
      <3> QED BY <1>3, <2>1, <3>1, <3>3, <3>4 DEF NetWrite, Flow, Unused, Asked
    <2>4. ASSUME NEW f, u.phase = "relaying", Move(u, f, Other(s)), Resume(f, c', Other(s))
          PROVE  Flow'
      <3>1. /\ c'.phase = c.phase /\ c'.hs = c.hs
            /\ c'.input[Other(s)] = 0 /\ c'.input[s] = c.input[s]
            /\ c'.output[s] = c.output[s] - n + c.input[Other(s)]
            /\ c'.output[Other(s)] = c.output[Other(s)]
        BY <2>2, <2>4, SideFacts DEF Move, Resume, Frame
      <3>2. c.phase = "relaying"
        BY <2>2, <2>4
      <3> QED BY <1>3, <2>1, <3>1, <3>2 DEF NetWrite, Lengths, Flow, Unused, StreamsIntact,
                Preface, Asked, Requests, Other, Side
    <2>5. CASE c' = d
      BY <2>3, <2>5
    <2>6. CASE u.phase = "handshake" /\ Unwatch(u, c')
      BY <2>3, <2>6 DEF Unwatch, Frame
    <2>7. CASE Halve(u, c', s, "W")
      BY <2>3, <2>7 DEF Halve
    <2> QED BY <1>3, <2>4, <2>5, <2>6, <2>7 DEF Flushed
  <1> QED BY <1>1, <1>2, <1>3

\* Steps of redsocks that move no data.
LEMMA QuietFlow ==
  ASSUME Flow, net' = net, c.phase # "none",
         c'.phase = c.phase, c'.hs = c.hs, c'.input = c.input, c'.output = c.output
  PROVE  Flow'
  BY DEF Flow, Unused, StreamsIntact, Preface, Asked, Requests

LEMMA OtherFlow ==
  ASSUME Inv, Flow,
         \/ redsocks_accept_client \/ redsocks_relay_connected \/ AuthRetry
         \/ \E s \in Side : ReadEOF(s) \/ ReadSuspend(s) \/ IOError(s)
  PROVE  Flow'
  <1>0. "client" \in Side /\ "relay" \in Side /\ Lengths(c, net)
    BY LengthFacts DEF Side, Inv, Good
  <1>1. CASE redsocks_accept_client
    <2>1. c = Freed
      BY <1>1 DEF redsocks_accept_client, Flow, Unused
    <2> QED BY <1>0, <1>1, <2>1, AcceptStep DEF Flow, Unused, StreamsIntact, Preface, Asked, Requests,
              Lengths
  <1>2. CASE redsocks_relay_connected
    <2>1. ASSUME c.phase = "connecting", net' = net, NEW d, Unwatch(c, d), Ask(d, c') PROVE Flow'
      <3>1. /\ c'.phase = "handshake" /\ c'.hs = Rounds /\ c'.input = c.input
            /\ c'.output["relay"] = c.output["relay"] + 1
            /\ c'.output["client"] = c.output["client"]
        BY <2>1 DEF Unwatch, Ask, Frame, Flow, Preface
      <3>2. Requests = 0 /\ Requests' = 1 /\ c.hs = Rounds
        BY <1>0, <2>1, <3>1 DEF Requests, Lengths, Flow, Preface
      <3>3. StreamsIntact'
        <4>1. Out(net.sent["client"], Requests, net.rx["client"], c.input["client"],
                  c.output["relay"], net.tx["relay"], net.got["relay"])
          BY <2>1 DEF Flow, StreamsIntact, Out
        <4>2. Requests \in Int /\ Requests' = Requests + 1
          BY <3>2
        <4>3. Out(net.sent["client"], Requests + 1, net.rx["client"], c.input["client"],
                  c.output["relay"] + 1, net.tx["relay"], net.got["relay"])
          BY <1>0, <4>1, <4>2, OutSteps DEF Lengths
        <4> QED BY <2>1, <3>1, <3>2, <4>2, <4>3 DEF Out, Flow, StreamsIntact
      <3>4. Preface'
        BY <1>0, <2>1, <3>1, <3>2 DEF Lengths, Flow, Preface
      <3> QED BY <2>1, <3>1, <3>3, <3>4 DEF Flow, Unused, Asked
    <2> QED BY <1>2, <2>1, ConnectedStep, DroppedFlow
  <1>3. CASE AuthRetry
    <2>1. CASE AuthRetryStepOK
      <3>1. c.phase = "handshake" /\ Requests \in Int
        BY <1>0, <1>3 DEF AuthRetry, Requests, Lengths
      <3>2. Requests' = 0
        BY <2>1 DEF AuthRetryStepOK, Requests
      <3>3. /\ Out(net.sent["client"], Requests, net.rx["client"], c.input["client"],
                   c.output["relay"], net.tx["relay"], net.got["relay"])
            /\ Queued(Requests, c.output["relay"], net.tx["relay"], net.got["relay"])
            /\ c.output["client"] = 0 /\ net.tx["client"] = 0 /\ net.got["client"] = 0
        BY <3>1 DEF Flow, StreamsIntact, Preface, Out, Queued
      <3>4. Out(net.sent["client"], 0, net.rx["client"], c.input["client"], 0, 0, 0)
        BY <1>0, <3>1, <3>3, OutSteps DEF Lengths
      <3>5. /\ c'.output["client"] = 0 /\ net'.tx["client"] = 0 /\ net'.got["client"] = 0
            /\ c'.output["relay"] = 0 /\ net'.tx["relay"] = 0 /\ net'.got["relay"] = 0
            /\ net'.sent["relay"] = 0 /\ net'.rx["relay"] = 0 /\ c'.input["relay"] = 0
            /\ c'.phase = "connecting" /\ c'.hs = Rounds
        BY <2>1, <3>3 DEF AuthRetryStepOK
      <3>6. StreamsIntact'
        <4>1. ToRelay(c, net, net.sent["client"], Requests)'
          BY <2>1, <3>2, <3>4, <3>5 DEF AuthRetryStepOK, ToRelay, Out
        <4>2. ToClient(c, net, net.sent["relay"])'
          BY <1>0, <3>5 DEF ToClient, Lengths
        <4> QED BY <4>1, <4>2 DEF StreamsIntact, ToRelay, ToClient
      <3> QED BY <3>2, <3>5, <3>6 DEF Flow, Unused, Preface, Asked
    <2> QED BY <1>3, <2>1, AuthRetryStep, DroppedFlow
  <1>4. ASSUME NEW s \in Side, ReadEOF(s) PROVE Flow'
    <2>1. PICK d, e : /\ Pause(c, d, s) /\ Halve(d, e, s, "R")
                      /\ \/ c' = Freed
                         \/ /\ net' = net
                            /\ IF e.output[Other(s)] = 0 THEN Halve(e, c', Other(s), "W") ELSE c' = e
      BY <1>4, ReadEOFStep
    <2>2. CASE net' = net /\ (Halve(e, c', Other(s), "W") \/ c' = e)
      <3>1. c'.phase = c.phase /\ c'.hs = c.hs /\ c'.input = c.input /\ c'.output = c.output
        BY <2>1, <2>2 DEF Pause, Halve, Frame
      <3>2. c.phase # "none"
        BY <1>4 DEF ReadEOF, Registered
      <3> QED BY <2>2, <3>1, <3>2, QuietFlow
    <2> QED BY <2>1, <2>2, DroppedFlow
  <1>5. ASSUME NEW s \in Side, ReadSuspend(s) PROVE Flow'
    <2>1. c.phase # "none"
      BY <1>5 DEF ReadSuspend, Registered
    <2> QED BY <1>5, <2>1, ReadSuspendStep, QuietFlow
  <1>6. ASSUME NEW s \in Side, IOError(s) PROVE Flow'
    <2>1. c.uaf = FALSE
      BY DEF Inv, Good, ClientType
    <2>2. c' = Freed
      BY <1>6, <2>1, DropFields DEF IOError, Finish
    <2> QED BY <2>2, DroppedFlow
  <1> QED BY <1>1, <1>2, <1>3, <1>4, <1>5, <1>6

LEMMA PeersFlow ==
  ASSUME Inv, Flow, Peers
  PROVE  Flow'
  <1>0. "client" \in Side /\ "relay" \in Side /\ Lengths(c, net) /\ net \in NetType
    BY LengthFacts DEF Side, Inv, Good
  <1>1. ASSUME NEW r \in {"ok", "refused"}, ConnectDone(r) PROVE Flow'
    <2>1. c' = c /\ net'.rx = net.rx /\ net'.tx = net.tx /\ net'.sent = net.sent /\ net'.got = net.got
      BY <1>0, <1>1 DEF ConnectDone, NetType
    <2> QED BY <2>1 DEF Flow, Unused, StreamsIntact, Preface, Asked, Requests
  <1>2. ASSUME NEW s \in Side, PeerClose(s) \/ PeerReset(s) PROVE Flow'
    <2>1. c' = c /\ net'.rx = net.rx /\ net'.tx = net.tx /\ net'.sent = net.sent /\ net'.got = net.got
      BY <1>0, <1>2 DEF PeerClose, PeerReset, NetType
    <2> QED BY <2>1 DEF Flow, Unused, StreamsIntact, Preface, Asked, Requests
  <1>3. ASSUME NEW s \in Side, PeerSend(s) PROVE Flow'
    <2> DEFINE t == Other(s)
    <2>1. t \in Side /\ t # s
      BY SideFacts
    <2>2. /\ c' = c /\ net'.sent[s] = net.sent[s] + 1 /\ net'.rx[s] = net.rx[s] + 1
          /\ net'.sent[t] = net.sent[t] /\ net'.rx[t] = net.rx[t]
          /\ net'.tx = net.tx /\ net'.got = net.got
      BY <1>0, <1>3, <2>1 DEF PeerSend, NetType
    <2>3. /\ c.phase # "none"
          /\ (s = "relay" /\ net.sent[s] < Rounds) => net.got[s] > net.sent[s]
      BY <1>3 DEF PeerSend, PeerUp
    <2>4. Requests' = Requests
      BY <2>2 DEF Requests
    <2>5. Asked'
      BY <1>0, <2>2, <2>3 DEF Lengths, Flow, Asked, Side, Other
    <2>6. StreamsIntact'
      <3>1. /\ Out(net.sent["client"], Requests, net.rx["client"], c.input["client"],
                   c.output["relay"], net.tx["relay"], net.got["relay"])
            /\ Back(net.sent["relay"], net.rx["relay"], c.input["relay"], Rounds - c.hs,
                    c.output["client"], net.tx["client"], net.got["client"])
            /\ Rounds - c.hs \in Int /\ Requests \in Int
        BY <1>0, <2>3 DEF Flow, StreamsIntact, Out, Back, Lengths, Requests
      <3>2. CASE s = "client"
        <4>1. Out(net.sent["client"] + 1, Requests, net.rx["client"] + 1, c.input["client"],
                  c.output["relay"], net.tx["relay"], net.got["relay"])
          BY <1>0, <3>1, OutSteps DEF Lengths
        <4> QED BY <2>2, <2>4, <3>1, <3>2, <4>1 DEF StreamsIntact, Out, Back, Other
      <3>3. CASE s = "relay"
        <4>1. Back(net.sent["relay"] + 1, net.rx["relay"] + 1, c.input["relay"], Rounds - c.hs,
                   c.output["client"], net.tx["client"], net.got["client"])
          BY <1>0, <3>1, BackSteps DEF Lengths
        <4> QED BY <2>2, <2>4, <3>1, <3>3, <4>1 DEF StreamsIntact, Out, Back, Other
      <3> QED BY <3>2, <3>3 DEF Side
    <2> QED BY <2>2, <2>3, <2>4, <2>5, <2>6 DEF Flow, Unused, Preface
  <1>4. ASSUME NEW s \in Side, PeerRead(s) PROVE Flow'
    <2> DEFINE t == Other(s)
    <2>1. t \in Side /\ t # s
      BY SideFacts
    <2>2. /\ c' = c /\ net'.tx[s] = net.tx[s] - 1 /\ net'.got[s] = net.got[s] + 1
          /\ net'.tx[t] = net.tx[t] /\ net'.got[t] = net.got[t]
          /\ net'.rx = net.rx /\ net'.sent = net.sent
      BY <1>0, <1>4, <2>1 DEF PeerRead, NetType
    <2>3. c.phase # "none" /\ net.tx[s] > 0
      BY <1>4 DEF PeerRead, PeerUp
    <2>4. Requests' = Requests
      BY <2>2 DEF Requests
    <2>5. Asked' /\ Preface'
      BY <1>0, <2>2, <2>3, <2>4 DEF Lengths, Flow, Asked, Preface, Side, Other
    <2>6. StreamsIntact'
      <3>1. /\ Out(net.sent["client"], Requests, net.rx["client"], c.input["client"],
                   c.output["relay"], net.tx["relay"], net.got["relay"])
            /\ Back(net.sent["relay"], net.rx["relay"], c.input["relay"], Rounds - c.hs,
                    c.output["client"], net.tx["client"], net.got["client"])
            /\ Rounds - c.hs \in Int /\ Requests \in Int
        BY <1>0, <2>3 DEF Flow, StreamsIntact, Out, Back, Lengths, Requests
      <3>2. CASE s = "relay"
        <4>1. Out(net.sent["client"], Requests, net.rx["client"], c.input["client"],
                  c.output["relay"], net.tx["relay"] - 1, net.got["relay"] + 1)
          BY <1>0, <3>1, OutSteps DEF Lengths
        <4> QED BY <2>2, <2>4, <3>1, <3>2, <4>1 DEF StreamsIntact, Out, Back, Other
      <3>3. CASE s = "client"
        <4>1. Back(net.sent["relay"], net.rx["relay"], c.input["relay"], Rounds - c.hs,
                   c.output["client"], net.tx["client"] - 1, net.got["client"] + 1)
          BY <1>0, <3>1, BackSteps DEF Lengths
        <4> QED BY <2>2, <2>4, <3>1, <3>3, <4>1 DEF StreamsIntact, Out, Back, Other
      <3> QED BY <3>2, <3>3 DEF Side
    <2> QED BY <2>2, <2>3, <2>5, <2>6 DEF Flow, Unused
  <1> QED BY <1>1, <1>2, <1>3, <1>4 DEF Peers

\* The inductive invariant of the unit accounts holds in every state.
THEOREM FlowHolds == Spec => []Flow
  <1>1. Init => Flow
    BY DEF Init, Flow, Unused, StreamsIntact, Preface, Asked, Freed
  <1>2. Inv /\ Flow /\ [Next]_vars => Flow'
    <2>1. Inv /\ Flow /\ UNCHANGED vars => Flow'
      BY DEF vars, Flow, Unused, StreamsIntact, Preface, Asked, Requests
    <2>2. ASSUME Inv, Flow, Next PROVE Flow'
      BY <2>2, ReadDataFlow, WriteReadyFlow, OtherFlow, PeersFlow DEF Next, Dispatch
    <2> QED BY <2>1, <2>2
  <1> QED BY <1>1, <1>2, InvHolds, PTL DEF Spec

\* For every protocol and every size of the buffers: no unit is lost, duplicated or
\* taken for handshake data, whatever the peers, the retries and the drops do.
THEOREM StreamsIntactHolds == Spec => []StreamsIntact
  <1>1. Flow => StreamsIntact
    BY DEF Flow
  <1> QED BY <1>1, FlowHolds, PTL

-----------------------------------------------------------------------------
(* The buffers are bounded.                                                *)

\* What a relaying connection holds.  The output to the relay is not in it: the move of
\* what the client sent before may take it to any length.
RelayHolds == c.phase = "relaying" => /\ \A s \in Side : c.fresh[s] \/ c.input[s] <= HALFBUFF
                                      /\ c.output["client"] < 2 * HALFBUFF

\* The relay's read watermark is at most HALFBUFF in every phase.
Bounded == RelayHolds /\ c.input["relay"] <= HALFBUFF

LEMMA RoomBounded ==
  ASSUME Inv, NEW s \in Side, NEW n \in Nat, n <= RoomToRead(c, s)
  PROVE  s = "relay" \/ c.phase = "relaying" => c.input[s] + n <= HALFBUFF
  <1>1. c.input[s] \in Nat
    BY DEF Inv, Good, ClientType
  <1> QED BY <1>1, BoundsAssumption DEF RoomToRead, ReadHigh, HeadHigh

\* Steps that move no data.
LEMMA QuietBounded ==
  ASSUME Bounded, c'.phase = c.phase, c'.input = c.input, c'.output = c.output, c'.fresh = c.fresh
  PROVE  Bounded'
  BY DEF Bounded, RelayHolds

LEMMA IdleBounded ==
  ASSUME c'.phase # "relaying", c'.input["relay"] = 0
  PROVE  Bounded'
  BY BoundsAssumption DEF Bounded, RelayHolds

LEMMA DroppedBounded ==
  ASSUME c' = Freed
  PROVE  Bounded'
  BY IdleBounded DEF Freed, Side

LEMMA ReadDataBounded ==
  ASSUME Inv, Flow, Bounded, NEW s \in Side, ReadData(s)
  PROVE  Bounded'
  <1> DEFINE t == Other(s)
  <1>1. PICK n, d :
             /\ n \in 1 .. net.rx[s]
             /\ n <= RoomToRead(c, s) /\ Filled(d, s, n)
             /\ c' = Freed \/ (NetRead(s, n) /\ Received(d, c', s))
    BY ReadDataStep
  <1> n \in 1 .. net.rx[s]
    BY <1>1
  <1>2. CASE c' = Freed
    BY <1>2, DroppedBounded
  <1>3. CASE Received(d, c', s)
    <2>1. Lengths(c, net) /\ n \in Nat /\ t \in Side /\ t # s /\ \A r \in Side : r = s \/ r = t
      BY LengthFacts, SideFacts DEF Inv, Good
    <2>2. /\ d.phase = c.phase /\ d.fresh = c.fresh /\ d.output = c.output
          /\ d.input[s] = c.input[s] + n /\ d.input[t] = c.input[t]
      BY <1>1 DEF Filled, Frame
    <2>3. s = "relay" \/ d.phase = "relaying" => d.input[s] <= HALFBUFF
      BY <1>1, <2>1, <2>2, RoomBounded
    <2>4. d.input["relay"] <= HALFBUFF
      BY <2>1, <2>2, <2>3 DEF Bounded, Side
    <2>5. d.output["client"] \in Nat /\ \A r \in Side : d.input[r] \in Nat
      BY <1>1 DEF Filled, ClientType, Side
    <2> HIDE DEF t
    <2>6. CASE d.phase \in {"connecting", "handshake"} /\ c' = d
      BY <2>4, <2>6 DEF Bounded, RelayHolds
    <2>7. CASE d.phase = "relaying" /\ d.output[t] < HALFBUFF /\ Move(d, c', s)
      <3>1. /\ c'.input[s] = 0 /\ c'.input[t] = d.input[t] /\ c'.fresh[t] = d.fresh[t]
            /\ c'.output[t] = d.output[t] + d.input[s] /\ c'.output[s] = d.output[s]
        BY <2>7 DEF Move, t
      <3>2. \A r \in Side : c'.fresh[r] \/ c'.input[r] <= HALFBUFF
        BY <2>1, <2>2, <2>7, <3>1, BoundsAssumption DEF Bounded, RelayHolds
      <3>3. c'.input["relay"] <= HALFBUFF
        BY <2>1, <2>4, <3>1, BoundsAssumption DEF Side
      <3>4. c'.output["client"] < 2 * HALFBUFF
        <4>1. CASE s = "client"
          BY <2>2, <2>7, <3>1, <4>1 DEF Bounded, RelayHolds
        <4>2. CASE s = "relay"
          <5>1. /\ d.output["client"] \in Nat /\ d.input["relay"] \in Nat /\ d.input["relay"] <= HALFBUFF
                /\ d.output["client"] < HALFBUFF
                /\ c'.output["client"] = d.output["client"] + d.input["relay"]
            BY <2>4, <2>5, <2>7, <3>1, <4>2 DEF t, Other, Side
          <5> QED BY <5>1, BoundsAssumption
        <4> QED BY <4>1, <4>2 DEF Side
      <3> QED BY <3>2, <3>3, <3>4 DEF Bounded, RelayHolds
    <2>8. CASE d.phase = "relaying" /\ Pause(d, c', s)
      <3>1. c'.input = d.input /\ c'.output = d.output /\ c'.fresh = d.fresh
        BY <2>8 DEF Pause
      <3>2. \A r \in Side : c'.fresh[r] \/ c'.input[r] <= HALFBUFF
        BY <2>1, <2>2, <2>3, <2>8, <3>1 DEF Bounded, RelayHolds
      <3> QED BY <2>2, <2>4, <2>8, <3>1, <3>2 DEF Bounded, RelayHolds
    <2>9. ASSUME d.phase = "handshake", s = "relay", NEW f, Taken(d, f), f.hs # 0, Ask(f, c')
          PROVE  Bounded'
      <3>1. c'.phase = "handshake" /\ c'.input["relay"] = d.input["relay"] - 1
        BY <2>9 DEF Taken, Ask
      <3> QED BY <2>4, <2>5, <2>9, <3>1, BoundsAssumption DEF Bounded, RelayHolds
    <2>10. ASSUME d.phase = "handshake", s = "relay", NEW f, Taken(d, f), f.hs = 0, Begin(f, c')
           PROVE  Bounded'
      <3>1. /\ c'.input["relay"] = d.input["relay"] - 1 /\ c'.output["client"] = d.output["client"]
            /\ c' \in ClientType /\ \A r \in Side : c'.fresh[r] = (c'.input[r] > 0)
        BY <2>10 DEF Taken, Begin
      <3>2. \A r \in Side : c'.fresh[r] \/ c'.input[r] <= HALFBUFF
        BY <3>1, BoundsAssumption DEF ClientType
      <3>3. c'.input["relay"] <= HALFBUFF
        BY <2>4, <2>5, <2>10, <3>1, BoundsAssumption
      <3>4. c'.output["client"] = 0
        BY <2>2, <2>10, <3>1 DEF Flow, Preface
      <3> QED BY <3>2, <3>3, <3>4, BoundsAssumption DEF Bounded, RelayHolds
    <2> QED BY <1>3, <2>6, <2>7, <2>8, <2>9, <2>10 DEF Received, t
  <1> QED BY <1>1, <1>2, <1>3

LEMMA WriteReadyBounded ==
  ASSUME Inv, Flow, Bounded, NEW s \in Side, WriteReady(s)
  PROVE  Bounded'
  <1> DEFINE t == Other(s)
  <1>1. PICK n, d, u :
             /\ n \in 0 .. c.output[s]
             /\ Drained(d, s, n) /\ Unregister(d, u, s)
             /\ \/ c' = Freed
                \/ NetWrite(s, n) /\ (IF d.output[s] > 0 THEN c' = d ELSE Flushed(u, c', s))
    BY WriteReadyStep
  <1> n \in 0 .. c.output[s]
    BY <1>1
  <1>2. CASE c' = Freed
    BY <1>2, DroppedBounded
  <1>3. CASE IF d.output[s] > 0 THEN c' = d ELSE Flushed(u, c', s)
    <2>1. /\ c.output[s] \in Nat /\ c.output[t] \in Nat /\ c.input[t] \in Nat /\ n \in Nat
          /\ t \in Side /\ t # s /\ Other(t) = s /\ \A r \in Side : r = s \/ r = t
      BY SideFacts DEF Inv, Good, ClientType
    <2> HIDE DEF t
    \* What the callback starts from.
    <2>2. ASSUME NEW e, e \in {d, u}
          PROVE  /\ e.phase = c.phase /\ e.input = c.input /\ e.fresh = c.fresh
                 /\ e.output[s] = c.output[s] - n /\ e.output[t] = c.output[t]
      BY <1>1, <2>2 DEF Drained, Unregister, Unwatch, Frame, t
    <2>3. ASSUME NEW e, e \in {d, u}, c'.phase = e.phase, c'.input = e.input, c'.fresh = e.fresh,
                 c'.output = e.output
          PROVE  Bounded'
      <3>1. /\ c'.phase = c.phase /\ c'.input = c.input /\ c'.fresh = c.fresh
            /\ c'.output[s] = c.output[s] - n /\ c'.output[t] = c.output[t]
        BY <2>2, <2>3
      <3>2. \A r \in Side : c'.output[r] <= c.output[r]
        BY <2>1, <3>1
      <3>3. c'.phase = "relaying" => c'.output["client"] < 2 * HALFBUFF
        <4>1. c'.output["client"] \in Int /\ c.output["client"] \in Nat
          BY <2>1, <3>1 DEF Side
        <4> QED BY <3>1, <3>2, <4>1, BoundsAssumption DEF Bounded, RelayHolds, Side
      <3> QED BY <3>1, <3>3 DEF Bounded, RelayHolds
    <2>4. ASSUME ~(d.output[s] > 0), NEW f, u.phase = "relaying", Move(u, f, t), Resume(f, c', t)
          PROVE  Bounded'
      <3>1. u.output[s] = 0
        <4>1. d.output[s] \in Nat
          BY <1>1 DEF Drained, ClientType
        <4> QED BY <1>1, <2>4, <4>1 DEF Unregister, Unwatch
      <3>2. /\ c'.phase = "relaying"
            /\ c'.input[t] = 0 /\ c'.input[s] = c.input[s] /\ c'.fresh[s] = c.fresh[s]
            /\ c'.output[s] = 0 + c.input[t] /\ c'.output[t] = c.output[t]
        BY <2>1, <2>2, <2>4, <3>1 DEF Move, Resume, Frame
      <3>3. c.phase = "relaying"
        BY <2>2, <2>4
      <3>4. \A r \in Side : c'.fresh[r] \/ c'.input[r] <= HALFBUFF
        BY <2>1, <3>2, <3>3, BoundsAssumption DEF Bounded, RelayHolds
      <3>5. c'.input["relay"] <= HALFBUFF
        BY <2>1, <3>2, BoundsAssumption DEF Bounded, Side
      <3>6. c'.output["client"] < 2 * HALFBUFF
        <4>1. CASE s = "relay"
          BY <3>2, <3>3, <4>1 DEF Bounded, RelayHolds, t, Other
        <4>2. CASE s = "client"
          <5>1. c.input["relay"] \in Nat /\ c'.output["client"] = c.input["relay"]
            BY <2>1, <3>2, <4>2 DEF t, Other
          <5> QED BY <5>1, BoundsAssumption DEF Bounded
        <4> QED BY <4>1, <4>2 DEF Side
      <3> QED BY <3>4, <3>5, <3>6 DEF Bounded, RelayHolds
    <2>5. CASE d.output[s] > 0 /\ c' = d
      BY <2>3, <2>5
    <2>6. CASE u.phase = "handshake" /\ Unwatch(u, c')
      BY <2>3, <2>6 DEF Unwatch, Frame
    <2>7. CASE Halve(u, c', s, "W")
      BY <2>3, <2>7 DEF Halve
    <2> QED BY <1>3, <2>4, <2>5, <2>6, <2>7 DEF Flushed, t
  <1> QED BY <1>1, <1>2, <1>3

LEMMA OtherBounded ==
  ASSUME Inv, Flow, Bounded,
         \/ redsocks_accept_client \/ redsocks_relay_connected \/ AuthRetry \/ Peers
         \/ \E s \in Side : ReadEOF(s) \/ ReadSuspend(s) \/ IOError(s)
  PROVE  Bounded'
  <1>1. CASE redsocks_accept_client
    <2>1. c = Freed /\ "relay" \in Side
      BY <1>1 DEF redsocks_accept_client, Flow, Unused, Side
    <2> QED BY <1>1, <2>1, AcceptStep, IdleBounded
  <1>2. CASE redsocks_relay_connected
    <2>1. ASSUME NEW d, Unwatch(c, d), Ask(d, c') PROVE Bounded'
      <3>1. c'.phase = "handshake" /\ c'.input = c.input
        BY <2>1 DEF Unwatch, Ask
      <3> QED BY <3>1 DEF Bounded, RelayHolds
    <2> QED BY <1>2, <2>1, ConnectedStep, DroppedBounded
  <1>3. CASE AuthRetry
    <2>1. CASE AuthRetryStepOK
      <3>1. c'.phase = "connecting" /\ c'.input["relay"] = 0
        BY <2>1 DEF AuthRetryStepOK
      <3> QED BY <3>1, IdleBounded
    <2> QED BY <1>3, <2>1, AuthRetryStep, DroppedBounded
  <1>4. CASE Peers
    <2>1. c' = c
      BY <1>4, Zenon DEF Peers, ConnectDone, PeerSend, PeerRead, PeerClose, PeerReset
    <2> QED BY <2>1, QuietBounded
  <1>5. ASSUME NEW s \in Side, ReadEOF(s) PROVE Bounded'
    <2>1. PICK d, e : /\ Pause(c, d, s) /\ Halve(d, e, s, "R")
                      /\ \/ c' = Freed
                         \/ /\ net' = net
                            /\ IF e.output[Other(s)] = 0 THEN Halve(e, c', Other(s), "W") ELSE c' = e
      BY <1>5, ReadEOFStep
    <2>2. CASE Halve(e, c', Other(s), "W") \/ c' = e
      <3>1. c'.phase = c.phase /\ c'.fresh = c.fresh /\ c'.input = c.input /\ c'.output = c.output
        BY <2>1, <2>2 DEF Pause, Halve, Frame
      <3> QED BY <3>1, QuietBounded
    <2> QED BY <2>1, <2>2, DroppedBounded
  <1>6. ASSUME NEW s \in Side, ReadSuspend(s) PROVE Bounded'
    BY <1>6, ReadSuspendStep, QuietBounded
  <1>7. ASSUME NEW s \in Side, IOError(s) PROVE Bounded'
    <2>1. c.uaf = FALSE
      BY DEF Inv, Good, ClientType
    <2>2. c' = Freed
      BY <1>7, <2>1, DropFields DEF IOError, Finish
    <2> QED BY <2>2, DroppedBounded
  <1> QED BY <1>1, <1>2, <1>3, <1>4, <1>5, <1>6, <1>7

LEMMA BoundedHolds == Spec => []Bounded
  <1>1. Init => Bounded
    BY BoundsAssumption DEF Init, Bounded, RelayHolds, Freed, Side
  <1>2. Inv /\ Flow /\ Bounded /\ [Next]_vars => Bounded'
    <2>1. Bounded /\ UNCHANGED vars => Bounded'
      BY DEF vars, Bounded, RelayHolds
    <2>2. ASSUME Inv, Flow, Bounded, Next PROVE Bounded'
      BY <2>2, ReadDataBounded, WriteReadyBounded, OtherBounded DEF Next, Dispatch
    <2> QED BY <2>1, <2>2
  <1> QED BY <1>1, <1>2, InvHolds, FlowHolds, PTL DEF Spec

\* Each unit read fits, and what is moved on was at most one half buffer and came to
\* less than another.
LEMMA ReadDataLimits ==
  ASSUME Inv, NEW s \in Side, ReadData(s), c.phase = "relaying", c'.phase = "relaying"
  PROVE  WithinLimits
  <1> DEFINE t == Other(s)
  <1>1. PICK n, d :
             /\ n \in 1 .. net.rx[s]
             /\ n <= RoomToRead(c, s) /\ Filled(d, s, n)
             /\ c' = Freed \/ (NetRead(s, n) /\ Received(d, c', s))
    BY ReadDataStep
  <1> n \in 1 .. net.rx[s]
    BY <1>1
  <1>2. Lengths(c, net) /\ n \in Nat /\ t \in Side /\ t # s /\ \A r \in Side : r = s \/ r = t
    BY LengthFacts, SideFacts DEF Inv, Good
  <1>3. /\ d.phase = "relaying" /\ d.output = c.output
        /\ d.input[s] = c.input[s] + n /\ d.input[t] = c.input[t]
    BY <1>1 DEF Filled, Frame
  <1>4. d.input[s] <= HALFBUFF
    BY <1>1, <1>2, <1>3, RoomBounded
  <1>5. \A r \in Side : c.output[r] \in Nat /\ c.input[r] \in Nat
    BY DEF Inv, Good, ClientType
  <1>6. c' # Freed
    BY DEF Freed
  <1> HIDE DEF t
  <1>7. CASE d.output[t] < HALFBUFF /\ Move(d, c', s)
    <2>1. /\ c'.input[s] = 0 /\ c'.input[t] = c.input[t]
          /\ c'.output[t] = c.output[t] + d.input[s] /\ c'.output[s] = c.output[s]
          /\ c.output[t] < HALFBUFF
      BY <1>3, <1>7 DEF Move, t
    <2>2. c'.output[t] < 2 * HALFBUFF
      BY <1>2, <1>3, <1>4, <1>5, <2>1, BoundsAssumption
    <2> QED BY <1>2, <1>5, <2>1, <2>2 DEF WithinLimits
  <1>8. CASE Pause(d, c', s)
    <2>1. c'.input[s] = d.input[s] /\ c'.input[t] = c.input[t] /\ c'.output = c.output
      BY <1>3, <1>8 DEF Pause
    <2> QED BY <1>2, <1>4, <1>5, <2>1 DEF WithinLimits
  <1> QED BY <1>1, <1>3, <1>6, <1>7, <1>8 DEF Received, t

\* The callback of an empty output moves one input to it.
LEMMA WriteReadyLimits ==
  ASSUME Inv, Bounded, NEW s \in Side, WriteReady(s), c.phase = "relaying", c'.phase = "relaying"
  PROVE  WithinLimits
  <1> DEFINE t == Other(s)
  <1>1. PICK n, d, u :
             /\ n \in 0 .. c.output[s]
             /\ Drained(d, s, n) /\ Unregister(d, u, s)
             /\ \/ c' = Freed
                \/ NetWrite(s, n) /\ (IF d.output[s] > 0 THEN c' = d ELSE Flushed(u, c', s))
    BY WriteReadyStep
  <1> n \in 0 .. c.output[s]
    BY <1>1
  <1>2. c' # Freed
    BY DEF Freed
  <1>3. t \in Side /\ t # s /\ Other(t) = s /\ \A r \in Side : r = s \/ r = t
    BY SideFacts
  <1>4. \A r \in Side : c.output[r] \in Nat /\ c.input[r] \in Nat
    BY DEF Inv, Good, ClientType
  <1> HIDE DEF t
  <1>5. ASSUME NEW e, e \in {d, u}
        PROVE  /\ e.phase = c.phase /\ e.input = c.input
               /\ e.output[s] = c.output[s] - n /\ e.output[t] = c.output[t]
    BY <1>1, <1>5 DEF Drained, Unregister, Unwatch, Frame, t
  <1>6. ASSUME NEW e, e \in {d, u}, c'.input = e.input, c'.output = e.output
        PROVE  WithinLimits
    <2>1. /\ c'.input = c.input /\ c'.output[s] = c.output[s] - n /\ c'.output[t] = c.output[t]
      BY <1>5, <1>6
    <2>2. \A r \in Side : ~ (c'.output[r] > c.output[r]) /\ ~ (c'.input[r] > c.input[r])
      BY <1>3, <1>4, <2>1
    <2> QED BY <2>2 DEF WithinLimits
  <1>7. ASSUME ~(d.output[s] > 0), NEW f, Move(u, f, t), Resume(f, c', t)
        PROVE  WithinLimits
    <2>1. u.output[s] = 0
      <3>1. d.output[s] \in Nat
        BY <1>1 DEF Drained, ClientType
      <3> QED BY <1>1, <1>7, <3>1 DEF Unregister, Unwatch
    <2>2. /\ c'.input[t] = 0 /\ c'.input[s] = c.input[s]
          /\ c'.output[s] = 0 + c.input[t] /\ c'.output[t] = c.output[t]
      BY <1>3, <1>5, <1>7, <2>1 DEF Move, Resume, Frame
    <2>3. (s = "relay" /\ c.fresh["client"]) \/ c.input[t] <= HALFBUFF
      BY <1>3 DEF Bounded, RelayHolds, Side
    <2>4. c.input[t] <= HALFBUFF => c'.output[s] < 2 * HALFBUFF
      BY <1>3, <1>4, <2>2, BoundsAssumption
    <2> QED BY <1>3, <1>4, <2>2, <2>3, <2>4 DEF WithinLimits
  <1>8. CASE d.output[s] > 0 /\ c' = d
    BY <1>6, <1>8
  <1>9. CASE Unwatch(u, c')
    BY <1>6, <1>9 DEF Unwatch, Frame
  <1>10. CASE Halve(u, c', s, "W")
    BY <1>6, <1>10 DEF Halve
  <1> QED BY <1>1, <1>2, <1>7, <1>8, <1>9, <1>10 DEF Flushed, t

LEMMA OtherLimits ==
  ASSUME Inv, Flow, c.phase = "relaying", c'.phase = "relaying",
         \/ redsocks_accept_client \/ redsocks_relay_connected \/ AuthRetry \/ Peers
         \/ \E s \in Side : ReadEOF(s) \/ ReadSuspend(s) \/ IOError(s)
  PROVE  WithinLimits
  <1>1. c' # Freed
    BY DEF Freed
  <1>2. \A r \in Side : c.output[r] \in Nat /\ c.input[r] \in Nat
    BY DEF Inv, Good, ClientType
  <1>3. ASSUME c'.input = c.input, c'.output = c.output PROVE WithinLimits
    BY <1>2, <1>3 DEF WithinLimits
  <1>4. ~ redsocks_accept_client /\ ~ redsocks_relay_connected /\ ~ AuthRetry
    BY DEF redsocks_accept_client, redsocks_relay_connected, AuthRetry
  <1>5. CASE Peers
    <2>1. c' = c
      BY <1>5, Zenon DEF Peers, ConnectDone, PeerSend, PeerRead, PeerClose, PeerReset
    <2> QED BY <1>3, <2>1
  <1>6. ASSUME NEW s \in Side, ReadEOF(s) PROVE WithinLimits
    <2>1. PICK d, e : /\ Pause(c, d, s) /\ Halve(d, e, s, "R")
                      /\ \/ c' = Freed
                         \/ /\ net' = net
                            /\ IF e.output[Other(s)] = 0 THEN Halve(e, c', Other(s), "W") ELSE c' = e
      BY <1>6, ReadEOFStep
    <2>2. c'.input = c.input /\ c'.output = c.output
      BY <1>1, <2>1 DEF Pause, Halve, Frame
    <2> QED BY <1>3, <2>2
  <1>7. ASSUME NEW s \in Side, ReadSuspend(s) PROVE WithinLimits
    BY <1>3, <1>7, ReadSuspendStep
  <1>8. ASSUME NEW s \in Side, IOError(s) PROVE FALSE
    <2>1. c.uaf = FALSE
      BY DEF Inv, Good, ClientType
    <2> QED BY <1>1, <1>8, <2>1, DropFields DEF IOError, Finish
  <1> QED BY <1>4, <1>5, <1>6, <1>7, <1>8

\* For every HALFBUFF and every amount of data: no step of a relaying connection makes an
\* input exceed HALFBUFF or an output reach twice that, in either direction, except when
\* what the client sent before the relaying is moved on.
THEOREM BoundedBuffersHolds == Spec => BoundedBuffers
  <1>1. Inv /\ Flow /\ Bounded /\ [Next]_vars => [WithinLimits]_vars
    <2> SUFFICES ASSUME Inv, Flow, Bounded, Next PROVE WithinLimits
      BY DEF vars
    <2>1. CASE c.phase = "relaying" /\ c'.phase = "relaying"
      BY <2>1, ReadDataLimits, WriteReadyLimits, OtherLimits DEF Next, Dispatch
    <2>2. CASE ~ (c.phase = "relaying" /\ c'.phase = "relaying")
      BY <2>2 DEF WithinLimits
    <2> QED BY <2>1, <2>2
  <1> QED BY <1>1, InvHolds, FlowHolds, BoundedHolds, PTL DEF Spec, BoundedBuffers

-----------------------------------------------------------------------------
(* No direction stalls.                                                    *)

\* Direction s, from the input of s to the output of the other side.
Alive(d, s) == \/ "W" \in d.shut[Other(s)]
               \/ "W" \in d.pending[Other(s)]
               \/ /\ "R" \in d.pending[s] \/ d.suspended[s]
                  /\ "R" \notin d.evshut[s]
                  /\ d.output[Other(s)] = 0

\* Writing is enabled until it is shut down.
Writing(d, s) == "W" \in d.enabled[s] \/ "W" \in d.shut[s]

Lively(d) == d.phase = "relaying" => \A s \in Side : Alive(d, s) /\ Writing(d, s)

LEMMA LivelySides ==
  ASSUME NEW s \in Side, c'.phase = "relaying" => /\ Alive(c, s)' /\ Alive(c, Other(s))'
                                                  /\ Writing(c, s)' /\ Writing(c, Other(s))'
  PROVE  Lively(c)'
  <1>1. \A r \in Side : r = s \/ r = Other(s)
    BY SideFacts
  <1>2. ASSUME c'.phase = "relaying", NEW r \in Side PROVE Alive(c, r)' /\ Writing(c, r)'
    <2>1. CASE r = s
      BY <1>2, <2>1
    <2>2. CASE r = Other(s)
      BY <1>2, <2>2
    <2> QED BY <1>1, <2>1, <2>2
  <1> QED BY <1>2 DEF Lively

LEMMA ReadDataLively ==
  ASSUME Inv, Lively(c), NEW s \in Side, ReadData(s)
  PROVE  Lively(c)'
  <1> DEFINE t == Other(s)
  <1>1. PICK n, d :
             /\ n \in 1 .. net.rx[s]
             /\ n <= RoomToRead(c, s) /\ Filled(d, s, n)
             /\ c' = Freed \/ (NetRead(s, n) /\ Received(d, c', s))
    BY ReadDataStep
  <1> n \in 1 .. net.rx[s]
    BY <1>1
  <1>2. CASE c' = Freed
    BY <1>2 DEF Lively, Freed
  <1>3. CASE Received(d, c', s)
    <2>1. c.input[s] \in Nat /\ n \in Nat \ {0} /\ t \in Side /\ Other(t) = s /\ s # t
      BY SideFacts DEF Inv, Good, ClientType
    <2> HIDE DEF t
    <2>2. /\ d.phase = c.phase /\ d.output = c.output /\ d.enabled = c.enabled
          /\ d.pending = c.pending /\ d.shut = c.shut /\ d.evshut = c.evshut
          /\ d.suspended = c.suspended /\ d.input[s] > 0 /\ d.output[t] \in Nat
      BY <1>1, <2>1 DEF Filled, Frame, ClientType
    <2>3. d.phase = "relaying" => /\ Alive(d, s) /\ Alive(d, t) /\ Writing(d, s) /\ Writing(d, t)
      BY <2>1, <2>2 DEF Lively, Alive, Writing
    <2>4. CASE d.phase = "relaying" /\ Move(d, c', s)
      <3>1. /\ c'.shut = d.shut /\ c'.evshut = d.evshut /\ c'.suspended = d.suspended
            /\ c'.enabled = d.enabled /\ c'.pending[s] = d.pending[s] /\ c'.output[s] = d.output[s]
            /\ c'.pending[t] = (IF d.input[s] > 0 /\ "W" \in d.enabled[t]
                                THEN d.pending[t] \cup {"W"} ELSE d.pending[t])
        BY <2>4 DEF Move, Frame, t
      <3>2. Alive(c, s)' /\ Writing(c, s)' /\ Writing(c, t)'
        BY <2>2, <2>3, <2>4, <3>1 DEF Alive, Writing, t
      <3>3. Alive(c, t)'
        BY <2>1, <2>2, <2>3, <2>4, <3>1 DEF Alive
      <3> QED BY <3>2, <3>3, LivelySides DEF t
    <2>5. CASE d.phase = "relaying" /\ d.output[t] >= HALFBUFF /\ Pause(d, c', s)
      <3>1. /\ c'.shut = d.shut /\ c'.evshut = d.evshut /\ c'.suspended = d.suspended
            /\ c'.enabled[s] = d.enabled[s] \ {"R"} /\ c'.enabled[t] = d.enabled[t]
            /\ c'.pending[s] = d.pending[s] \ {"R"} /\ c'.pending[t] = d.pending[t]
            /\ c'.output = d.output
        BY <2>5 DEF Pause, Frame, t
      <3>2. d.output[t] # 0
        BY <2>2, <2>5, BoundsAssumption
      <3>3. Alive(c, s)' /\ Writing(c, s)' /\ Writing(c, t)'
        BY <2>3, <2>5, <3>1, <3>2 DEF Alive, Writing, t
      <3>4. Alive(c, t)'
        BY <2>1, <2>3, <2>5, <3>1 DEF Alive
      <3> QED BY <3>3, <3>4, LivelySides DEF t
    <2>6. ASSUME NEW f, Begin(f, c') PROVE Lively(c)'
      <3>1. \A r \in Side : "W" \in c'.enabled[r] /\ "W" \in c'.pending[r]
        BY <2>6 DEF Begin
      <3>2. \A r \in Side : "W" \in c'.pending[Other(r)]
        BY <3>1, SideFacts
      <3> QED BY <3>1, <3>2 DEF Lively, Alive, Writing
    <2>7. CASE c'.phase # "relaying"
      BY <2>7 DEF Lively
    <2>8. ASSUME NEW f, Ask(f, c') PROVE c'.phase # "relaying"
      BY <2>8 DEF Ask
    <2> QED BY <1>3, <2>4, <2>5, <2>6, <2>7, <2>8 DEF Received, t
  <1> QED BY <1>1, <1>2, <1>3

LEMMA WriteReadyLively ==
  ASSUME Inv, Lively(c), NEW s \in Side, WriteReady(s)
  PROVE  Lively(c)'
  <1> DEFINE t == Other(s)
  <1>1. PICK n, d, u :
             /\ n \in 0 .. c.output[s]
             /\ Drained(d, s, n) /\ Unregister(d, u, s)
             /\ \/ c' = Freed
                \/ NetWrite(s, n) /\ (IF d.output[s] > 0 THEN c' = d ELSE Flushed(u, c', s))
    BY WriteReadyStep
  <1> n \in 0 .. c.output[s]
    BY <1>1
  <1>2. CASE c' = Freed
    BY <1>2 DEF Lively, Freed
  <1>3. CASE IF d.output[s] > 0 THEN c' = d ELSE Flushed(u, c', s)
    <2>1. /\ t \in Side /\ Other(t) = s /\ t # s /\ "W" \in c.pending[s]
      BY SideFacts DEF WriteReady, Registered
    <2> HIDE DEF t
    \* What the callback starts from.
    <2>2. ASSUME NEW e, e \in {d, u}
          PROVE  /\ e.phase = c.phase /\ e.output[t] = c.output[t] /\ e.enabled = c.enabled
                 /\ e.shut = c.shut /\ e.evshut = c.evshut /\ e.suspended = c.suspended
      BY <1>1, <2>2 DEF Drained, Unregister, Unwatch, Frame, t
    <2>3. /\ d.pending = c.pending /\ u.pending[s] = c.pending[s] \ {"W"}
          /\ u.pending[t] = c.pending[t] /\ u.output[s] = d.output[s] /\ d.output[s] \in Nat
          /\ u.input[t] \in Nat
      BY <1>1, <2>1 DEF Drained, Unregister, Unwatch, Frame, ClientType, t
    <2>4. c.phase = "relaying" => /\ Alive(c, s) /\ Writing(c, s) /\ Writing(c, t)
      BY <2>1 DEF Lively
    <2>5. CASE c' = d
      <3>1. /\ c'.phase = c.phase /\ c'.output[t] = c.output[t] /\ c'.enabled = c.enabled
            /\ c'.shut = c.shut /\ c'.evshut = c.evshut /\ c'.suspended = c.suspended
            /\ c'.pending = c.pending
        BY <2>2, <2>3, <2>5
      <3>2. c'.phase = "relaying" => Alive(c, s)' /\ Writing(c, s)' /\ Writing(c, t)'
        BY <2>4, <3>1 DEF Alive, Writing, t
      <3>3. Alive(c, t)'
        BY <2>1, <3>1 DEF Alive
      <3> QED BY <3>2, <3>3, LivelySides DEF t
    <2>6. CASE u.phase = "relaying" /\ Halve(u, c', s, "W")
      <3>1. /\ c'.enabled[s] = u.enabled[s] \ {"W"} /\ c'.enabled[t] = u.enabled[t]
            /\ c'.pending[s] = u.pending[s] \ {"W"} /\ c'.pending[t] = u.pending[t]
            /\ c'.evshut[s] = u.evshut[s] \cup {"W"}
            /\ c'.shut[s] = u.shut[s] \cup {"W"} /\ c'.shut[t] = u.shut[t]
            /\ c'.output = u.output /\ c'.suspended = u.suspended
        BY <2>6 DEF Halve, t
      <3>2. /\ u.phase = c.phase /\ u.output[t] = c.output[t] /\ u.enabled = c.enabled
            /\ u.shut = c.shut /\ u.evshut = c.evshut /\ u.suspended = c.suspended
        BY <2>2
      <3>3. Alive(c, s)' /\ Writing(c, s)' /\ Writing(c, t)'
        BY <2>3, <2>4, <2>6, <3>1, <3>2 DEF Alive, Writing, t
      <3>4. Alive(c, t)'
        BY <2>1, <3>1 DEF Alive
      <3> QED BY <3>3, <3>4, LivelySides DEF t
    <2>7. ASSUME d.output[s] <= 0, u.phase = "relaying", ~(u.input[t] = 0 /\ "R" \in u.evshut[t]),
                 NEW f, Move(u, f, t), Resume(f, c', t)
          PROVE  Lively(c)'
      <3>1. /\ f.shut = u.shut /\ f.evshut = u.evshut /\ f.suspended = u.suspended
            /\ f.enabled = u.enabled /\ f.output[s] = u.output[s] + u.input[t]
            /\ f.output[t] = u.output[t] /\ f.pending[t] = u.pending[t]
            /\ f.pending[s] = (IF u.input[t] > 0 /\ "W" \in u.enabled[s]
                               THEN u.pending[s] \cup {"W"} ELSE u.pending[s])
        BY <2>1, <2>7 DEF Move, Frame
      <3>2. /\ c'.shut = f.shut /\ c'.evshut = f.evshut /\ c'.suspended = f.suspended
            /\ c'.enabled[t] = f.enabled[t] \cup {"R"} /\ c'.enabled[s] = f.enabled[s]
            /\ c'.pending[t] = f.pending[t] \cup (IF f.suspended[t] THEN {"R"} \ {"R"} ELSE {"R"})
            /\ c'.pending[s] = f.pending[s] /\ c'.output = f.output
        BY <2>1, <2>7 DEF Resume, Frame
      <3>3. /\ u.phase = c.phase /\ u.output[t] = c.output[t] /\ u.enabled = c.enabled
            /\ u.shut = c.shut /\ u.evshut = c.evshut /\ u.suspended = c.suspended
        BY <2>2
      <3>4. u.output[s] = 0
        BY <2>3, <2>7
      <3>5. Writing(c, s)' /\ Writing(c, t)'
        BY <2>4, <2>7, <3>1, <3>2, <3>3 DEF Writing
      <3>6. Alive(c, s)'
        <4>1. /\ "W" \in c.pending[t] => "W" \in c'.pending[t]
              /\ "R" \in c.pending[s] => "R" \in c'.pending[s]
          BY <2>3, <3>1, <3>2
        <4> QED BY <2>4, <2>7, <3>1, <3>2, <3>3, <4>1 DEF Alive, t
      <3>7. Alive(c, t)'
        <4>1. CASE u.input[t] > 0
          BY <2>1, <2>4, <2>7, <3>1, <3>2, <3>3, <4>1 DEF Alive, Writing
        <4>2. CASE u.input[t] = 0
          <5>1. c'.output[s] = 0
            BY <3>1, <3>2, <3>4, <4>2
          <5>2. "R" \in c'.pending[t] \/ c'.suspended[t]
            BY <3>2
          <5> QED BY <2>1, <2>7, <3>1, <3>2, <4>2, <5>1, <5>2 DEF Alive
        <4> QED BY <2>3, <4>1, <4>2
      <3> QED BY <3>5, <3>6, <3>7, LivelySides DEF t
    <2>8. CASE u.phase = "handshake" /\ Unwatch(u, c')
      BY <2>8 DEF Unwatch, Frame, Lively
    <2>9. ~(d.output[s] > 0) => d.output[s] <= 0
      BY <2>3
    <2> QED BY <1>3, <2>5, <2>6, <2>7, <2>8, <2>9 DEF Flushed, t
  <1> QED BY <1>1, <1>2, <1>3

LEMMA ReadEOFLively ==
  ASSUME Inv, Lively(c), NEW s \in Side, ReadEOF(s)
  PROVE  Lively(c)'
  <1> DEFINE t == Other(s)
  <1>1. PICK d, e : /\ Pause(c, d, s) /\ Halve(d, e, s, "R")
                    /\ \/ c' = Freed
                       \/ /\ net' = net
                          /\ IF e.output[t] = 0 THEN Halve(e, c', t, "W") ELSE c' = e
    BY ReadEOFStep
  <1>2. t \in Side /\ Other(t) = s /\ s # t
    BY SideFacts
  <1> HIDE DEF t
  <1>3. /\ e.phase = c.phase /\ e.suspended = c.suspended /\ e.output = c.output
        /\ e.enabled[s] = (c.enabled[s] \ {"R"}) \ {"R"} /\ e.enabled[t] = c.enabled[t]
        /\ e.pending[s] = (c.pending[s] \ {"R"}) \ {"R"} /\ e.pending[t] = c.pending[t]
        /\ e.evshut[t] = c.evshut[t] /\ c.shut[s] \subseteq e.shut[s] /\ e.shut[t] = c.shut[t]
    BY <1>1 DEF Pause, Halve, Frame, t
  <1>4. c.phase = "relaying" => /\ Alive(c, s) /\ Alive(c, t) /\ Writing(c, s) /\ Writing(c, t)
    BY <1>2 DEF Lively
  <1>5. CASE c' = Freed
    BY <1>5 DEF Lively, Freed
  <1>6. CASE e.output[t] = 0 /\ Halve(e, c', t, "W")
    <2>1. /\ c'.phase = c.phase /\ c'.suspended = c.suspended /\ c'.output = c.output
          /\ c'.enabled[t] = e.enabled[t] \ {"W"} /\ c'.enabled[s] = e.enabled[s]
          /\ c'.pending[t] = e.pending[t] \ {"W"} /\ c'.pending[s] = e.pending[s]
          /\ c'.evshut[t] = e.evshut[t] \cup {"W"} /\ c'.evshut[s] = e.evshut[s]
          /\ c'.shut[t] = e.shut[t] \cup {"W"} /\ c'.shut[s] = e.shut[s]
      BY <1>2, <1>3, <1>6 DEF Halve
    <2>2. Alive(c, s)'
      BY <2>1 DEF Alive, t
    <2>3. c'.phase = "relaying" => Writing(c, s)' /\ Writing(c, t)'
      BY <1>3, <1>4, <2>1 DEF Writing
    <2>4. c'.phase = "relaying" => Alive(c, t)'
      BY <1>2, <1>3, <1>4, <2>1 DEF Alive
    <2> QED BY <2>2, <2>3, <2>4, LivelySides DEF t
  <1>7. CASE e.output[t] # 0 /\ c' = e
    <2>1. c'.phase = "relaying" => Writing(c, s)' /\ Writing(c, t)'
      BY <1>3, <1>4, <1>7 DEF Writing
    <2>2. c'.phase = "relaying" => Alive(c, s)'
      BY <1>3, <1>4, <1>7 DEF Alive, t
    <2>3. c'.phase = "relaying" => Alive(c, t)'
      BY <1>2, <1>3, <1>4, <1>7 DEF Alive
    <2> QED BY <2>1, <2>2, <2>3, LivelySides DEF t
  <1> QED BY <1>1, <1>5, <1>6, <1>7

LEMMA OtherLively ==
  ASSUME Inv, Flow, Lively(c),
         \/ redsocks_accept_client \/ redsocks_relay_connected \/ AuthRetry \/ Peers
         \/ \E s \in Side : ReadSuspend(s) \/ IOError(s)
  PROVE  Lively(c)'
  <1>1. CASE c'.phase # "relaying"
    BY <1>1 DEF Lively
  <1>2. Freed.phase # "relaying"
    BY DEF Freed
  <1>3. CASE redsocks_accept_client
    <2>1. c = Freed
      BY <1>3 DEF redsocks_accept_client, Flow, Unused
    <2>2. c'.phase = "connecting"
      BY <1>3, <2>1, AcceptStep
    <2> QED BY <1>1, <2>2
  <1>4. CASE redsocks_relay_connected
    <2>1. c' = Freed \/ c'.phase = "handshake"
      BY <1>4, ConnectedStep DEF Ask
    <2> QED BY <1>1, <1>2, <2>1
  <1>5. CASE AuthRetry
    <2>1. c' = Freed \/ c'.phase = "connecting"
      BY <1>5, AuthRetryStep DEF AuthRetryStepOK
    <2> QED BY <1>1, <1>2, <2>1
  <1>6. CASE Peers
    <2>1. c' = c
      BY <1>6, Zenon DEF Peers, ConnectDone, PeerSend, PeerRead, PeerClose, PeerReset
    <2> QED BY <2>1 DEF Lively, Alive, Writing
  <1>7. ASSUME NEW s \in Side, ReadSuspend(s) PROVE Lively(c)'
    <2> DEFINE t == Other(s)
    <2>1. t \in Side /\ Other(t) = s
      BY SideFacts
    <2>2. /\ c'.phase = c.phase /\ c'.evshut = c.evshut /\ c'.shut = c.shut /\ c'.output = c.output
          /\ c'.enabled = c.enabled /\ c'.suspended[s] = TRUE /\ c'.suspended[t] = c.suspended[t]
          /\ c'.pending[s] = c.pending[s] \ {"R"} /\ c'.pending[t] = c.pending[t]
      BY <1>7, ReadSuspendStep
    <2> HIDE DEF t
    <2>3. c.phase = "relaying" => /\ Alive(c, s) /\ Alive(c, t) /\ Writing(c, s) /\ Writing(c, t)
      BY <2>1 DEF Lively
    <2>4. c'.phase = "relaying" => Alive(c, s)' /\ Writing(c, s)' /\ Writing(c, t)'
      BY <2>2, <2>3 DEF Alive, Writing, t
    <2>5. c'.phase = "relaying" => Alive(c, t)'
      BY <2>1, <2>2, <2>3 DEF Alive
    <2> QED BY <2>4, <2>5, LivelySides DEF t
  <1>8. ASSUME NEW s \in Side, IOError(s) PROVE Lively(c)'
    <2>1. c.uaf = FALSE
      BY DEF Inv, Good, ClientType
    <2>2. c' = Freed
      BY <1>8, <2>1, DropFields DEF IOError, Finish
    <2> QED BY <1>1, <1>2, <2>2
  <1> QED BY <1>3, <1>4, <1>5, <1>6, <1>7, <1>8

\* For every size of the buffers and every order of the callbacks: pausing, resuming
\* and shutting down never leave an unfinished direction without an event to wait for.
THEOREM DirectionAliveHolds == Spec => []DirectionAlive
  <1>1. Init => Lively(c)
    BY DEF Init, Lively, Freed
  <1>2. Inv /\ Flow /\ Lively(c) /\ [Next]_vars => Lively(c)'
    <2>1. Lively(c) /\ UNCHANGED vars => Lively(c)'
      BY DEF vars, Lively, Alive, Writing
    <2>2. ASSUME Inv, Flow, Lively(c), Next PROVE Lively(c)'
      BY <2>2, ReadDataLively, WriteReadyLively, ReadEOFLively, OtherLively DEF Next, Dispatch
    <2> QED BY <2>1, <2>2
  <1>3. Lively(c) => DirectionAlive
    BY DEF Lively, Alive, DirectionAlive
  <1> QED BY <1>1, <1>2, <1>3, InvHolds, FlowHolds, PTL DEF Spec

-----------------------------------------------------------------------------
(* The end of a stream comes after its data.                               *)

\* What is shut down is known to be: relay_evshut may be ahead of the socket after a
\* retry, never behind.
Really(d) == \A s \in Side : d.shut[s] \subseteq d.evshut[s]

\* The read half was shut down because the peer had closed and all was read.
EndedAt(d, n, s) == "R" \in d.evshut[s] => n.fin[s] /\ n.rx[s] = 0

\* Input that waits, waits for output to be written.
BackedAt(d, s) == d.input[s] > 0 /\ ~ d.fresh[s] => d.output[Other(s)] > 0

\* Behind the FIN passed on for s there is nothing left of s.
PassedAt(d, s) == "W" \in d.shut[Other(s)] /\ ~ d.fresh[s] =>
                    d.input[s] = 0 /\ d.output[Other(s)] = 0

\* No reply is read from a proxy whose end of stream was seen.
Quiet(d) == /\ d.phase = "connecting" => "R" \notin d.evshut["relay"] /\ "R" \notin d.pending["relay"]
            /\ d.phase = "handshake" /\ "R" \in d.evshut["relay"] => "R" \notin d.pending["relay"]

Ending == /\ Really(c) /\ Quiet(c)
          /\ c.phase # "none" => \A s \in Side : EndedAt(c, net, s)
          /\ c.phase = "relaying" => \A s \in Side : BackedAt(c, s) /\ PassedAt(c, s)

LEMMA EndingSides ==
  ASSUME NEW s \in Side, Really(c)', Quiet(c)',
         EndedAt(c, net, s)', EndedAt(c, net, Other(s))',
         c'.phase = "relaying" => /\ BackedAt(c, s)' /\ PassedAt(c, s)'
                                  /\ BackedAt(c, Other(s))' /\ PassedAt(c, Other(s))'
  PROVE  Ending'
  <1>1. \A r \in Side : r = s \/ r = Other(s)
    BY SideFacts
  <1>2. ASSUME NEW r \in Side
        PROVE  EndedAt(c, net, r)' /\ (c'.phase = "relaying" => BackedAt(c, r)' /\ PassedAt(c, r)')
    <2>1. CASE r = s
      BY <2>1
    <2>2. CASE r = Other(s)
      BY <2>2
    <2> QED BY <1>1, <2>1, <2>2
  <1> QED BY <1>2 DEF Ending

LEMMA DroppedEnding ==
  ASSUME c' = Freed
  PROVE  Ending'
  BY DEF Ending, Really, Quiet, Freed

\* A side from which there is something to read has not ended, and no FIN was passed on.
LEMMA StillOpen ==
  ASSUME Inv, Ending, NEW s \in Side, c.phase # "none", net.rx[s] > 0
  PROVE  "R" \notin c.evshut[s] /\ "W" \notin c.shut[Other(s)]
  <1>1. net.rx[s] # 0
    BY DEF Inv, NetType
  <1>2. "R" \notin c.evshut[s]
    BY <1>1 DEF Ending, EndedAt
  <1>3. "W" \notin c.evshut[Other(s)]
    BY <1>2 DEF Inv, Good, EofForwarded
  <1> QED BY <1>2, <1>3, SideFacts DEF Ending, Really

\* When the last reply is there, the requests have left redsocks.
LEMMA RequestsGone ==
  ASSUME Inv, Flow, c.phase = "handshake", c.hs = 1, net.rx["relay"] > 0
  PROVE  c.output["relay"] = 0
  <1>1. Lengths(c, net)
    BY LengthFacts DEF Inv, Good
  <1>2. net.sent["relay"] >= Rounds
    <2>1. /\ net.sent["relay"] = net.rx["relay"] + c.input["relay"] + (Rounds - c.hs)
                + c.output["client"] + net.tx["client"] + net.got["client"]
          /\ c.output["client"] = 0 /\ net.tx["client"] = 0 /\ net.got["client"] = 0
      BY DEF Flow, StreamsIntact, Preface
    <2> QED BY <1>1, <2>1 DEF Lengths
  <1>3. net.got["relay"] >= Rounds
    BY <1>1, <1>2 DEF Flow, Asked, Lengths
  <1>4. c.output["relay"] + net.tx["relay"] + net.got["relay"] = Rounds
    BY <1>1 DEF Flow, Preface, Requests, Lengths
  <1> QED BY <1>1, <1>3, <1>4 DEF Lengths

LEMMA ReadDataEnding ==
  ASSUME Inv, Flow, Ending, NEW s \in Side, ReadData(s)
  PROVE  Ending'
  <1> DEFINE t == Other(s)
  <1>1. PICK n, d :
             /\ n \in 1 .. net.rx[s]
             /\ n <= RoomToRead(c, s) /\ Filled(d, s, n)
             /\ c' = Freed \/ (NetRead(s, n) /\ Received(d, c', s))
    BY ReadDataStep
  <1> n \in 1 .. net.rx[s]
    BY <1>1
  <1>2. CASE c' = Freed
    BY <1>2, DroppedEnding
  <1>3. CASE NetRead(s, n) /\ Received(d, c', s)
    <2>1. /\ t \in Side /\ Other(t) = s /\ t # s /\ c.phase # "none" /\ net.rx[s] > 0
          /\ "R" \in c.pending[s]
      BY SideFacts DEF ReadData, Registered
    <2>2. "R" \notin c.evshut[s] /\ "W" \notin c.shut[t]
      BY <2>1, StillOpen
    <2> HIDE DEF t
    <2>3. /\ d.phase = c.phase /\ d.output = c.output /\ d.pending = c.pending /\ d.shut = c.shut
          /\ d.evshut = c.evshut /\ d.fresh = c.fresh /\ d.hs = c.hs /\ d.input[t] = c.input[t]
          /\ d \in ClientType
      BY <1>1 DEF Filled, Frame, t
    <2>4. c'.evshut = c.evshut /\ c'.shut = c.shut
      <3>1. ASSUME NEW f, Taken(d, f), Ask(f, c') \/ Begin(f, c')
            PROVE  c'.evshut = c.evshut /\ c'.shut = c.shut
        BY <2>3, <3>1 DEF Taken, Ask, Begin
      <3>2. CASE c' = d \/ Move(d, c', s) \/ Pause(d, c', s)
        BY <2>3, <3>2 DEF Move, Pause, Frame
      <3> QED BY <1>3, <3>1, <3>2 DEF Received
    <2>5. Really(c)'
      BY <2>4 DEF Ending, Really
    <2>6. EndedAt(c, net, s)' /\ EndedAt(c, net, t)'
      <3>1. net'.rx[t] = net.rx[t] /\ net'.fin = net.fin
        BY <1>3 DEF NetRead, t
      <3> QED BY <2>1, <2>2, <2>4, <3>1 DEF Ending, EndedAt
    \* Nothing changed for the other direction.
    <2>7. c.phase = "relaying" => BackedAt(c, t) /\ PassedAt(c, t)
      BY <2>1 DEF Ending
    <2>8. CASE d.phase \in {"connecting", "handshake"} /\ c' = d
      <3>1. Quiet(c)'
        BY <2>3, <2>8 DEF Ending, Quiet
      <3> QED BY <2>5, <2>6, <2>8, <3>1, EndingSides DEF t
    <2>9. CASE d.phase = "relaying" /\ Move(d, c', s)
      <3>1. /\ c'.phase = d.phase /\ c'.input[s] = 0 /\ c'.input[t] = d.input[t]
            /\ c'.output[s] = d.output[s] /\ c'.fresh[t] = d.fresh[t]
        BY <2>9 DEF Move, Frame, t
      <3>2. Quiet(c)'
        BY <2>9, <3>1 DEF Quiet
      <3>3. BackedAt(c, s)' /\ PassedAt(c, s)'
        BY <2>2, <2>4, <3>1 DEF BackedAt, PassedAt, t
      <3>4. BackedAt(c, t)' /\ PassedAt(c, t)'
        BY <2>1, <2>3, <2>4, <2>7, <2>9, <3>1 DEF BackedAt, PassedAt
      <3> QED BY <2>5, <2>6, <3>2, <3>3, <3>4, EndingSides DEF t
    <2>10. CASE d.phase = "relaying" /\ d.output[t] >= HALFBUFF /\ Pause(d, c', s)
      <3>1. c'.phase = d.phase /\ c'.input = d.input /\ c'.output = d.output /\ c'.fresh = d.fresh
        BY <2>10 DEF Pause, Frame
      <3>2. Quiet(c)'
        BY <2>10, <3>1 DEF Quiet
      <3>3. c'.output[t] > 0
        BY <2>1, <2>3, <2>10, <3>1, BoundsAssumption DEF ClientType
      <3>4. BackedAt(c, s)' /\ PassedAt(c, s)'
        BY <2>2, <2>4, <3>3 DEF BackedAt, PassedAt, t
      <3>5. BackedAt(c, t)' /\ PassedAt(c, t)'
        BY <2>1, <2>3, <2>4, <2>7, <2>10, <3>1 DEF BackedAt, PassedAt
      <3> QED BY <2>5, <2>6, <3>2, <3>4, <3>5, EndingSides DEF t
    <2>11. ASSUME s = "relay", NEW f, Ask(f, c') PROVE Ending'
      <3>1. c'.phase = "handshake"
        BY <2>11 DEF Ask
      <3>2. Quiet(c)'
        BY <2>2, <2>4, <2>11, <3>1 DEF Quiet
      <3> QED BY <2>5, <2>6, <3>1, <3>2, EndingSides DEF t
    <2>12. ASSUME d.phase = "handshake", s = "relay", NEW f, Taken(d, f), f.hs = 0, Begin(f, c')
           PROVE  Ending'
      <3>1. /\ c'.phase = "relaying" /\ c' \in ClientType /\ c'.output = c.output
            /\ \A r \in Side : c'.fresh[r] = (c'.input[r] > 0)
        BY <2>3, <2>12 DEF Taken, Begin
      <3>2. c.hs = 1
        <4>1. c.hs - 1 = 0 /\ c.hs \in Int
          BY <2>3, <2>12 DEF Taken, ClientType
        <4> QED BY <4>1
      <3>3. c.output["relay"] = 0 /\ c.output["client"] = 0
        <4>1. c.phase = "handshake" /\ net.rx["relay"] > 0
          BY <2>1, <2>3, <2>12
        <4> QED BY <3>2, <4>1, RequestsGone DEF Flow, Preface
      <3>4. \A r \in Side : ~ c'.fresh[r] => c'.input[r] = 0 /\ c'.output[Other(r)] = 0
        <4>1. \A r \in Side : c'.input[r] \in Nat /\ c'.output[Other(r)] = 0
          BY <3>1, <3>3 DEF ClientType, Side, Other
        <4>2. ASSUME NEW r \in Side, ~ c'.fresh[r] PROVE c'.input[r] = 0
          <5>1. ~(c'.input[r] > 0)
            BY <3>1, <4>2, Zenon
          <5> QED BY <4>1, <5>1
        <4> QED BY <4>1, <4>2
      <3>5. \A r \in Side : BackedAt(c, r)' /\ PassedAt(c, r)'
        BY <3>1, <3>4 DEF BackedAt, PassedAt
      <3>6. Quiet(c)'
        BY <3>1 DEF Quiet
      <3> QED BY <2>1, <2>5, <2>6, <3>5, <3>6, EndingSides DEF t
    <2> QED BY <1>3, <2>8, <2>9, <2>10, <2>11, <2>12 DEF Received, t
  <1> QED BY <1>1, <1>2, <1>3

LEMMA WriteReadyEnding ==
  ASSUME Inv, Ending, NEW s \in Side, WriteReady(s)
  PROVE  Ending'
  <1> DEFINE t == Other(s)
  <1>1. PICK n, d, u :
             /\ n \in 0 .. c.output[s]
             /\ Drained(d, s, n) /\ Unregister(d, u, s)
             /\ \/ c' = Freed
                \/ NetWrite(s, n) /\ (IF d.output[s] > 0 THEN c' = d ELSE Flushed(u, c', s))
    BY WriteReadyStep
  <1> n \in 0 .. c.output[s]
    BY <1>1
  <1>2. CASE c' = Freed
    BY <1>2, DroppedEnding
  <1>3. CASE NetWrite(s, n) /\ (IF d.output[s] > 0 THEN c' = d ELSE Flushed(u, c', s))
    <2>1. /\ t \in Side /\ Other(t) = s /\ t # s /\ c.phase # "none"
          /\ c.output[s] \in Nat /\ n \in Nat
      BY SideFacts DEF WriteReady, Registered, Inv, Good, ClientType
    <2> HIDE DEF t
    \* What the callback starts from.
    <2>2. ASSUME NEW e, e \in {d, u}
          PROVE  /\ e.phase = c.phase /\ e.output[t] = c.output[t] /\ e.input = c.input
                 /\ e.shut = c.shut /\ e.evshut = c.evshut /\ e.fresh = c.fresh
                 /\ \A r \in Side : e.pending[r] \subseteq c.pending[r]
                 /\ e.output[s] = c.output[s] - n
      BY <1>1, <2>2 DEF Drained, Unregister, Unwatch, Frame, t
    <2>3. net'.rx = net.rx /\ net'.fin = net.fin
      BY <1>3 DEF NetWrite
    <2>4. /\ Really(c) /\ Quiet(c) /\ EndedAt(c, net, s) /\ EndedAt(c, net, t)
          /\ c.phase = "relaying" => /\ BackedAt(c, s) /\ PassedAt(c, s)
                                     /\ BackedAt(c, t) /\ PassedAt(c, t)
      BY <2>1 DEF Ending
    <2>5. c.input[t] \in Nat
      BY <2>1 DEF Inv, Good, ClientType
    <2>6. ASSUME c'.phase = c.phase, c'.evshut = c.evshut, c'.shut = c.shut,
                 \A r \in Side : c'.pending[r] \subseteq c.pending[r]
          PROVE  Really(c)' /\ Quiet(c)' /\ EndedAt(c, net, s)' /\ EndedAt(c, net, t)'
      BY <2>3, <2>4, <2>6 DEF Really, Quiet, EndedAt, Side
    <2>7. CASE d.output[s] > 0 /\ c' = d
      <3>1. /\ c'.phase = c.phase /\ c'.output[t] = c.output[t] /\ c'.input = c.input
            /\ c'.shut = c.shut /\ c'.evshut = c.evshut /\ c'.fresh = c.fresh
            /\ \A r \in Side : c'.pending[r] \subseteq c.pending[r]
            /\ c'.output[s] = c.output[s] - n /\ c'.output[s] > 0
        BY <2>2, <2>7
      <3>2. c.output[s] # 0
        BY <2>1, <3>1
      <3>3. c'.phase = "relaying" => BackedAt(c, s)' /\ PassedAt(c, s)'
        BY <2>4, <3>1 DEF BackedAt, PassedAt, t
      <3>4. c'.phase = "relaying" => BackedAt(c, t)' /\ PassedAt(c, t)'
        BY <2>1, <2>4, <3>1, <3>2 DEF BackedAt, PassedAt
      <3> QED BY <2>6, <3>1, <3>3, <3>4, EndingSides DEF t
    <2>8. u.output[s] = 0 \/ d.output[s] > 0
      <3>1. d.output[s] \in Nat
        BY <1>1 DEF Drained, ClientType
      <3> QED BY <1>1, <3>1 DEF Unregister, Unwatch
    <2>9. CASE u.phase = "handshake" /\ Unwatch(u, c')
      <3>1. /\ c'.phase = c.phase /\ c'.shut = c.shut /\ c'.evshut = c.evshut /\ c'.phase = "handshake"
            /\ \A r \in Side : c'.pending[r] \subseteq c.pending[r]
        BY <2>2, <2>9 DEF Unwatch, Frame
      <3> QED BY <2>6, <3>1, EndingSides DEF t
    <2>10. CASE u.phase = "relaying" /\ u.input[t] = 0 /\ u.output[s] = 0 /\ Halve(u, c', s, "W")
      <3>1. /\ c'.phase = "relaying" /\ c'.output[t] = c.output[t] /\ c'.input = c.input
            /\ c'.fresh = c.fresh /\ c'.output[s] = 0 /\ c'.input[t] = 0
            /\ c'.evshut[s] = c.evshut[s] \cup {"W"} /\ c'.evshut[t] = c.evshut[t]
            /\ c'.shut[s] = c.shut[s] \cup {"W"} /\ c'.shut[t] = c.shut[t]
            /\ c.phase = "relaying"
        BY <2>2, <2>10 DEF Halve, t
      <3>2. Really(c)'
        <4>1. \A r \in Side : r = s \/ r = t
          BY SideFacts DEF t
        <4>2. c.shut[s] \subseteq c.evshut[s] /\ c.shut[t] \subseteq c.evshut[t]
          BY <2>1, <2>4 DEF Really
        <4>3. c'.shut[s] \subseteq c'.evshut[s] /\ c'.shut[t] \subseteq c'.evshut[t]
          BY <3>1, <4>2
        <4> QED BY <4>1, <4>3 DEF Really
      <3>3. Quiet(c)'
        BY <3>1 DEF Quiet
      <3>4. EndedAt(c, net, s)' /\ EndedAt(c, net, t)'
        BY <2>3, <2>4, <3>1 DEF EndedAt
      <3>5. BackedAt(c, s)' /\ PassedAt(c, s)'
        BY <2>4, <3>1 DEF BackedAt, PassedAt, t
      <3>6. BackedAt(c, t)' /\ PassedAt(c, t)'
        BY <2>1, <3>1 DEF BackedAt, PassedAt
      <3> QED BY <3>2, <3>3, <3>4, <3>5, <3>6, EndingSides DEF t
    <2>11. ASSUME u.phase = "relaying", u.output[s] = 0, NEW f, Move(u, f, t), Resume(f, c', t)
           PROVE  Ending'
      <3>1. /\ f.phase = u.phase /\ f.shut = u.shut /\ f.evshut = u.evshut
            /\ f.input[t] = 0 /\ f.input[s] = u.input[s]
            /\ f.output[s] = u.output[s] + u.input[t] /\ f.output[t] = u.output[t]
            /\ f.fresh[t] = (u.fresh[t] /\ "W" \in u.shut[s]) /\ f.fresh[s] = u.fresh[s]
        BY <2>1, <2>11 DEF Move, Frame
      <3>2. /\ c'.phase = f.phase /\ c'.shut = f.shut /\ c'.evshut = f.evshut
            /\ c'.input = f.input /\ c'.output = f.output /\ c'.fresh = f.fresh
        BY <2>11 DEF Resume, Frame
      <3>3. /\ c'.phase = "relaying" /\ c.phase = "relaying" /\ c'.shut = c.shut
            /\ c'.evshut = c.evshut /\ c'.input[t] = 0 /\ c'.input[s] = c.input[s]
            /\ c'.output[s] = 0 + c.input[t] /\ c'.output[t] = c.output[t]
            /\ c'.fresh[t] = (c.fresh[t] /\ "W" \in c.shut[s]) /\ c'.fresh[s] = c.fresh[s]
        BY <2>2, <2>11, <3>1, <3>2
      <3>4. Really(c)' /\ Quiet(c)' /\ EndedAt(c, net, s)' /\ EndedAt(c, net, t)'
        BY <2>3, <2>4, <3>3 DEF Really, Quiet, EndedAt
      <3>5. BackedAt(c, s)' /\ PassedAt(c, s)'
        BY <2>4, <3>3 DEF BackedAt, PassedAt, t
      <3>6. BackedAt(c, t)'
        BY <3>3 DEF BackedAt
      <3>7. PassedAt(c, t)'
        <4>1. ASSUME "W" \in c'.shut[s], ~ c'.fresh[t] PROVE c'.output[s] = 0
          <5>1. c.input[t] = 0
            BY <2>1, <2>4, <3>3, <4>1 DEF PassedAt
          <5> QED BY <3>3, <5>1
        <4> QED BY <2>1, <3>3, <4>1 DEF PassedAt
      <3> QED BY <3>4, <3>5, <3>6, <3>7, EndingSides DEF t
    <2> QED BY <1>3, <2>7, <2>8, <2>9, <2>10, <2>11 DEF Flushed, t
  <1> QED BY <1>1, <1>2, <1>3

LEMMA ReadEOFEnding ==
  ASSUME Inv, Ending, NEW s \in Side, ReadEOF(s)
  PROVE  Ending'
  <1> DEFINE t == Other(s)
  <1>1. PICK d, e : /\ Pause(c, d, s) /\ Halve(d, e, s, "R")
                    /\ \/ c' = Freed
                       \/ /\ net' = net
                          /\ IF e.output[t] = 0 THEN Halve(e, c', t, "W") ELSE c' = e
    BY ReadEOFStep
  <1>2. /\ t \in Side /\ Other(t) = s /\ s # t /\ c.phase # "none" /\ "R" \in c.pending[s]
        /\ net.rx[s] = 0 /\ (net.fin[s] \/ "R" \in c.shut[s])
        /\ \A r \in Side : r = s \/ r = t
    BY SideFacts DEF ReadEOF, Registered
  <1> HIDE DEF t
  <1>3. /\ e.phase = c.phase /\ e.input = c.input /\ e.output = c.output /\ e.fresh = c.fresh
        /\ e.pending[s] = (c.pending[s] \ {"R"}) \ {"R"} /\ e.pending[t] = c.pending[t]
        /\ e.evshut[s] = c.evshut[s] \cup {"R"} /\ e.evshut[t] = c.evshut[t]
        /\ e.shut[s] \in {c.shut[s], c.shut[s] \cup {"R"}} /\ e.shut[t] = c.shut[t]
    BY <1>1 DEF Pause, Halve, Frame, t
  <1>4. /\ c.shut[s] \subseteq c.evshut[s] /\ c.shut[t] \subseteq c.evshut[t]
        /\ EndedAt(c, net, s) /\ EndedAt(c, net, t) /\ Quiet(c)
        /\ c.phase = "relaying" => /\ BackedAt(c, s) /\ PassedAt(c, s)
                                   /\ BackedAt(c, t) /\ PassedAt(c, t)
    BY <1>2 DEF Ending, Really
  <1>5. CASE c' = Freed
    BY <1>5, DroppedEnding
  \* The end is real: what looks like one on a socket whose read half redsocks shut is not new.
  <1>6. net.fin[s] /\ net.rx[s] = 0
    BY <1>2, <1>4 DEF EndedAt
  \* Nothing of s is left when the FIN is passed on.
  <1>7. c.phase = "relaying" /\ c.output[t] = 0 /\ ~ c.fresh[s] => c.input[s] = 0
    <2>1. c.input[s] \in Nat
      BY DEF Inv, Good, ClientType
    <2> QED BY <1>4, <2>1 DEF BackedAt, t
  <1>8. CASE net' = net /\ e.output[t] = 0 /\ Halve(e, c', t, "W")
    <2>1. /\ c'.phase = e.phase /\ c'.input = e.input /\ c'.output = e.output /\ c'.fresh = e.fresh
          /\ c'.pending[t] = e.pending[t] \ {"W"} /\ c'.pending[s] = e.pending[s]
          /\ c'.evshut[t] = e.evshut[t] \cup {"W"} /\ c'.evshut[s] = e.evshut[s]
          /\ c'.shut[t] = e.shut[t] \cup {"W"} /\ c'.shut[s] = e.shut[s]
      BY <1>2, <1>8 DEF Halve
    <2>2. Really(c)'
      <3>1. c'.shut[s] \subseteq c'.evshut[s]
        BY <1>3, <1>4, <2>1
      <3>2. c'.shut[t] \subseteq c'.evshut[t]
        BY <1>3, <1>4, <2>1
      <3> QED BY <1>2, <3>1, <3>2 DEF Really
    <2>3. Quiet(c)'
      BY <1>2, <1>3, <1>4, <2>1 DEF Quiet, Side
    <2>4. EndedAt(c, net, s)' /\ EndedAt(c, net, t)'
      BY <1>3, <1>4, <1>6, <1>8, <2>1 DEF EndedAt
    <2>5. c'.phase = "relaying" => BackedAt(c, s)' /\ PassedAt(c, s)'
      BY <1>3, <1>4, <1>7, <1>8, <2>1 DEF BackedAt, PassedAt, t
    <2>6. c'.phase = "relaying" => BackedAt(c, t)' /\ PassedAt(c, t)'
      <3>1. "W" \in c'.shut[s] => "W" \in c.shut[s]
        BY <1>3, <2>1
      <3> QED BY <1>2, <1>3, <1>4, <2>1, <3>1 DEF BackedAt, PassedAt
    <2> QED BY <2>2, <2>3, <2>4, <2>5, <2>6, EndingSides DEF t
  <1>9. CASE net' = net /\ c' = e
    <2>1. Really(c)'
      <3>1. c'.shut[s] \subseteq c'.evshut[s]
        BY <1>3, <1>4, <1>9
      <3>2. c'.shut[t] \subseteq c'.evshut[t]
        BY <1>3, <1>4, <1>9
      <3> QED BY <1>2, <3>1, <3>2 DEF Really
    <2>2. Quiet(c)'
      BY <1>2, <1>3, <1>4, <1>9 DEF Quiet, Side
    <2>3. EndedAt(c, net, s)' /\ EndedAt(c, net, t)'
      BY <1>3, <1>4, <1>6, <1>9 DEF EndedAt
    <2>4. c'.phase = "relaying" => BackedAt(c, s)' /\ PassedAt(c, s)'
      BY <1>3, <1>4, <1>9 DEF BackedAt, PassedAt, t
    <2>5. c'.phase = "relaying" => BackedAt(c, t)' /\ PassedAt(c, t)'
      <3>1. "W" \in c'.shut[s] => "W" \in c.shut[s]
        BY <1>3, <1>9
      <3> QED BY <1>2, <1>3, <1>4, <1>9, <3>1 DEF BackedAt, PassedAt
    <2> QED BY <2>1, <2>2, <2>3, <2>4, <2>5, EndingSides DEF t
  <1> QED BY <1>1, <1>5, <1>8, <1>9

LEMMA OtherEnding ==
  ASSUME Inv, Flow, Ending,
         \/ redsocks_accept_client \/ redsocks_relay_connected \/ AuthRetry
         \/ \E s \in Side : ReadSuspend(s) \/ IOError(s)
  PROVE  Ending'
  <1>0. "client" \in Side /\ "relay" \in Side /\ \A r \in Side : r = "client" \/ r = "relay"
    BY DEF Side
  <1>1. CASE redsocks_accept_client
    <2>1. c = Freed
      BY <1>1 DEF redsocks_accept_client, Flow, Unused
    <2>2. /\ c'.phase = "connecting" /\ "R" \notin c'.pending["relay"]
          /\ \A s \in Side : c'.evshut[s] = {} /\ c'.shut[s] = {}
      BY <1>1, <2>1, AcceptStep
    <2>3. Really(c)' /\ Quiet(c)' /\ \A s \in Side : EndedAt(c, net, s)'
      BY <1>0, <2>2 DEF Really, Quiet, EndedAt
    <2> QED BY <2>2, <2>3 DEF Ending
  <1>2. CASE redsocks_relay_connected
    <2>1. ASSUME c.phase = "connecting", net' = net, NEW d, Unwatch(c, d), Ask(d, c') PROVE Ending'
      <3>1. c'.phase = "handshake" /\ c'.evshut = c.evshut /\ c'.shut = c.shut
        BY <2>1 DEF Unwatch, Ask, Frame
      <3>2. Really(c)' /\ Quiet(c)'
        BY <2>1, <3>1 DEF Ending, Really, Quiet
      <3>3. \A s \in Side : EndedAt(c, net, s)'
        BY <2>1, <3>1 DEF Ending, EndedAt
      <3> QED BY <3>1, <3>2, <3>3 DEF Ending
    <2> QED BY <1>2, <2>1, ConnectedStep, DroppedEnding
  <1>3. CASE AuthRetry
    <2>1. CASE AuthRetryStepOK
      <3>1. c.phase = "handshake" /\ "R" \in c.pending["relay"]
        BY <1>3 DEF AuthRetry, Registered
      <3>2. "R" \notin c.evshut["relay"]
        BY <3>1 DEF Ending, Quiet
      <3>3. /\ c'.phase = "connecting" /\ c'.evshut = c.evshut /\ "R" \notin c'.pending["relay"]
            /\ c'.shut["relay"] = {} /\ c'.shut["client"] = c.shut["client"]
            /\ net'.rx["client"] = net.rx["client"] /\ net'.fin["client"] = net.fin["client"]
        BY <2>1 DEF AuthRetryStepOK
      <3>4. Really(c)'
        <4>1. c'.shut["relay"] \subseteq c'.evshut["relay"] /\ c'.shut["client"] \subseteq c'.evshut["client"]
          BY <1>0, <3>3 DEF Ending, Really
        <4> QED BY <1>0, <4>1 DEF Really
      <3>5. Quiet(c)'
        BY <3>2, <3>3 DEF Quiet
      <3>6. EndedAt(c, net, "relay")' /\ EndedAt(c, net, "client")'
        BY <1>0, <3>1, <3>2, <3>3 DEF Ending, EndedAt
      <3> QED BY <1>0, <3>3, <3>4, <3>5, <3>6, EndingSides DEF Other
    <2> QED BY <1>3, <2>1, AuthRetryStep, DroppedEnding
  <1>4. ASSUME NEW s \in Side, ReadSuspend(s) PROVE Ending'
    <2> DEFINE t == Other(s)
    <2>1. /\ net' = net /\ c'.phase = c.phase /\ c'.evshut = c.evshut /\ c'.shut = c.shut
          /\ c'.input = c.input /\ c'.output = c.output /\ c'.fresh = c.fresh
          /\ c'.pending[s] = c.pending[s] \ {"R"} /\ c'.pending[t] = c.pending[t]
      BY <1>4, ReadSuspendStep
    <2>2. t \in Side /\ c.phase # "none" /\ \A r \in Side : r = s \/ r = t
      BY <1>4, SideFacts DEF ReadSuspend, Registered
    <2> HIDE DEF t
    <2>3. Really(c)' /\ \A r \in Side : EndedAt(c, net, r)'
      BY <2>1, <2>2 DEF Ending, Really, EndedAt
    <2>4. Quiet(c)'
      <3>1. "R" \in c'.pending["relay"] => "R" \in c.pending["relay"]
        BY <1>0, <2>1, <2>2
      <3> QED BY <2>1, <3>1 DEF Ending, Quiet
    <2>5. c'.phase = "relaying" => \A r \in Side : BackedAt(c, r)' /\ PassedAt(c, r)'
      BY <2>1 DEF Ending, BackedAt, PassedAt
    <2> QED BY <2>3, <2>4, <2>5 DEF Ending
  <1>5. ASSUME NEW s \in Side, IOError(s) PROVE Ending'
    <2>1. c.uaf = FALSE
      BY DEF Inv, Good, ClientType
    <2>2. c' = Freed
      BY <1>5, <2>1, DropFields DEF IOError, Finish
    <2> QED BY <2>2, DroppedEnding
  <1> QED BY <1>1, <1>2, <1>3, <1>4, <1>5

LEMMA PeersEnding ==
  ASSUME Inv, Ending, Peers
  PROVE  Ending'
  <1>1. c' = c
    BY Zenon DEF Peers, ConnectDone, PeerSend, PeerRead, PeerClose, PeerReset
  <1>2. net \in NetType
    BY DEF Inv
  \* A peer that has closed sends no more.
  <1>3. \A r \in Side : net.fin[r] /\ net.rx[r] = 0 => net'.fin[r] /\ net'.rx[r] = 0
    <2>1. CASE \E r \in {"ok", "refused"} : ConnectDone(r)
      BY <1>2, <2>1 DEF ConnectDone, NetType
    <2>2. ASSUME NEW s \in Side, PeerSend(s), NEW r \in Side, net.fin[r], net.rx[r] = 0
          PROVE  net'.fin[r] /\ net'.rx[r] = 0
      <3>1. r # s
        BY <2>2 DEF PeerSend
      <3> QED BY <1>2, <2>2, <3>1 DEF PeerSend, NetType
    <2>3. ASSUME NEW s \in Side, PeerRead(s) \/ PeerClose(s) \/ PeerReset(s),
                 NEW r \in Side, net.fin[r], net.rx[r] = 0
          PROVE  net'.fin[r] /\ net'.rx[r] = 0
      BY <1>2, <2>3 DEF PeerRead, PeerClose, PeerReset, NetType
    <2> QED BY <2>1, <2>2, <2>3 DEF Peers
  <1>4. c'.phase # "none" => \A s \in Side : EndedAt(c, net, s)'
    BY <1>1, <1>3 DEF Ending, EndedAt
  <1> QED BY <1>1, <1>4 DEF Ending, Really, Quiet, BackedAt, PassedAt

\* What redsocks knows of the ends of the two streams holds in every reachable state: a read
\* half is shut down only when its peer has closed and all was read (redsocks_event_error).
THEOREM EndingHolds == Spec => []Ending
  <1>1. Init => Ending
    BY DEF Init, Ending, Really, Quiet, Freed
  <1>2. Inv /\ Flow /\ Ending /\ [Next]_vars => Ending'
    <2>1. Ending /\ UNCHANGED vars => Ending'
      BY DEF vars, Ending, Really, Quiet, EndedAt, BackedAt, PassedAt
    <2>2. ASSUME Inv, Flow, Ending, Next PROVE Ending'
      BY <2>2, ReadDataEnding, WriteReadyEnding, ReadEOFEnding, OtherEnding, PeersEnding
         DEF Next, Dispatch
    <2> QED BY <2>1, <2>2
  <1> QED BY <1>1, <1>2, InvHolds, FlowHolds, PTL DEF Spec

\* For every size of the buffers: a FIN that redsocks passes on comes after all that
\* the peer sent before its own, unless input from before the relaying still waits.
THEOREM EofAfterDataHolds == Spec => []EofAfterData
  <1>1. Inv /\ Ending => EofAfterData
    <2> SUFFICES ASSUME Inv, Ending, c.phase = "relaying", NEW s \in Side,
                        "W" \in c.shut[Other(s)], ~ c.fresh[s]
                 PROVE  c.input[s] = 0 /\ net.rx[s] = 0 /\ c.output[Other(s)] = 0 /\ net.fin[s]
      BY DEF EofAfterData
    <2>1. "W" \in c.evshut[Other(s)]
      BY SideFacts DEF Ending, Really
    <2>2. "R" \in c.evshut[s]
      BY <2>1 DEF Inv, Good, EofForwarded
    <2> QED BY <2>2 DEF Ending, EndedAt, PassedAt
  <1> QED BY <1>1, InvHolds, EndingHolds, PTL

-----------------------------------------------------------------------------
(* The promise to the peers.  The mapped variables, and what Flow and      *)
(* Ending say about them.                                                  *)

\* Units handed to the relay, or received from it, before the payload.
Preamble(s) == IF s = "relay" THEN Rounds ELSE 0

PSent(n) == [n.sent EXCEPT !["relay"] = n.sent["relay"] - Rounds]
POut(n) == [s \in Side |-> n.tx[s] + n.got[s] - (IF s = "relay" THEN Rounds ELSE 0)]
PEof(d) == [s \in Side |-> "W" \in d.shut[s]]

\* All of a stream has been handed on, up to its end.
PDelivered(n, s) == n.fin[s] /\ POut(n)[Other(s)] = PSent(n)[s]

\* What Promise!Open asks of the two streams, and all later steps keep.
Kept(d, n) == \A s \in Side : /\ POut(n)[Other(s)] <= PSent(n)[s]
                              /\ PEof(d)[Other(s)] => PDelivered(n, s)

\* Payload of s that redsocks or the kernel holds.
Held(d, n, s) == n.rx[s] + d.input[s] + d.output[Other(s)]

Steady == Begun => \A s \in Side : /\ POut(net)[Other(s)] + Held(c, net, s) = PSent(net)[s]
                                   /\ "W" \in c.shut[Other(s)] => Held(c, net, s) = 0 /\ net.fin[s]

LEMMA MappedFacts ==
  ASSUME NEW n \in NetType
  PROVE  /\ PSent(n) \in [Side -> Int] /\ POut(n) \in [Side -> Int]
         /\ \A s \in Side : /\ PSent(n)[s] = n.sent[s] - Preamble(s)
                            /\ POut(n)[s] = n.tx[s] + n.got[s] - Preamble(s)
  <1>1. "relay" \in Side /\ Rounds \in Nat /\ \A s \in Side : Preamble(s) \in Nat
    BY SideFacts DEF Side, Preamble
  <1>2. /\ n.sent \in [Side -> Nat] /\ n.tx \in [Side -> Nat] /\ n.got \in [Side -> Nat]
    BY BoundsAssumption DEF NetType
  <1>3. PSent(n) \in [Side -> Int] /\ \A s \in Side : PSent(n)[s] = n.sent[s] - Preamble(s)
    BY <1>1, <1>2 DEF PSent, Preamble
  <1>4. POut(n) \in [Side -> Int] /\ \A s \in Side : POut(n)[s] = n.tx[s] + n.got[s] - Preamble(s)
    BY <1>1, <1>2 DEF POut, Preamble
  <1> QED BY <1>3, <1>4

LEMMA EofFacts ==
  ASSUME NEW d
  PROVE  PEof(d) \in [Side -> BOOLEAN] /\ \A s \in Side : PEof(d)[s] = ("W" \in d.shut[s])
  BY DEF PEof

LEMMA SteadyKept ==
  ASSUME NEW d \in ClientType, NEW n \in NetType,
         \A s \in Side : /\ POut(n)[Other(s)] + Held(d, n, s) = PSent(n)[s]
                         /\ "W" \in d.shut[Other(s)] => Held(d, n, s) = 0 /\ n.fin[s]
  PROVE  Kept(d, n)
  <1> SUFFICES ASSUME NEW s \in Side
               PROVE  /\ POut(n)[Other(s)] <= PSent(n)[s]
                      /\ PEof(d)[Other(s)] => PDelivered(n, s)
    BY DEF Kept
  <1> DEFINE t == Other(s)
  <1>1. t \in Side
    BY SideFacts
  <1>2. PSent(n)[s] \in Int /\ POut(n)[t] \in Int
    BY <1>1, MappedFacts
  <1>3. Held(d, n, s) \in Nat
    <2>1. n.rx[s] \in Nat /\ d.input[s] \in Nat /\ d.output[t] \in Nat
      BY <1>1, BoundsAssumption DEF NetType, ClientType
    <2> QED BY <2>1 DEF Held
  <1>4. POut(n)[t] + Held(d, n, s) = PSent(n)[s] /\ ("W" \in d.shut[t] => Held(d, n, s) = 0 /\ n.fin[s])
    OBVIOUS
  <1>5. PEof(d)[t] => "W" \in d.shut[t]
    BY <1>1, EofFacts
  <1> HIDE DEF t
  <1>6. POut(n)[t] <= PSent(n)[s]
    BY <1>2, <1>3, <1>4
  <1>7. PEof(d)[t] => n.fin[s] /\ POut(n)[t] = PSent(n)[s]
    BY <1>2, <1>3, <1>4, <1>5
  <1> QED BY <1>6, <1>7 DEF PDelivered, t

\* The last reply of the handshake starts the relaying.
Answered == c.phase = "relaying" => c.hs = 0

\* What arrived is what is held and what was handed on, without r units of preamble.
Adds(sent, r, held, tx, got, q) == tx + got - q + held = sent - r

LEMMA PayloadAdds ==
  ASSUME NEW S \in Nat, NEW R \in Nat, NEW x \in Nat, NEW i \in Nat, NEW o \in Nat,
         NEW t \in Nat, NEW g \in Nat
  PROVE  /\ Out(S, R, x, i, o, t, g) => Adds(S, 0, x + i + o, t, g, R)
         /\ Back(S, x, i, R - 0, o, t, g) => Adds(S, R, x + i + o, t, g, 0)
  BY DEF Out, Back, Adds

LEMMA SteadyState ==
  ASSUME Inv, StreamsIntact, EofAfterData, Answered
  PROVE  Steady
  <1> SUFFICES ASSUME Begun, NEW s \in Side
               PROVE  /\ POut(net)[Other(s)] + Held(c, net, s) = PSent(net)[s]
                      /\ "W" \in c.shut[Other(s)] => Held(c, net, s) = 0 /\ net.fin[s]
    BY DEF Steady
  <1>1. c.phase = "relaying" /\ ~ c.fresh[s] /\ c.hs = 0
    BY DEF Begun, Answered
  <1>2. c \in ClientType /\ net \in NetType /\ Lengths(c, net)
    BY LengthFacts DEF Inv, Good
  <1>3. "W" \in c.shut[Other(s)] => Held(c, net, s) = 0 /\ net.fin[s]
    BY <1>1 DEF EofAfterData, Held
  <1>4. POut(net)[Other(s)] + Held(c, net, s) = PSent(net)[s]
    <2>1. "client" \in Side /\ "relay" \in Side
      BY DEF Side
    <2>2. /\ Out(net.sent["client"], Rounds, net.rx["client"], c.input["client"],
                 c.output["relay"], net.tx["relay"], net.got["relay"])
          /\ Back(net.sent["relay"], net.rx["relay"], c.input["relay"], Rounds - 0,
                  c.output["client"], net.tx["client"], net.got["client"])
      BY <1>1 DEF StreamsIntact, Requests, Out, Back
    <2>3. /\ PSent(net)["client"] = net.sent["client"] - 0
          /\ PSent(net)["relay"] = net.sent["relay"] - Rounds
          /\ POut(net)["client"] = net.tx["client"] + net.got["client"] - 0
          /\ POut(net)["relay"] = net.tx["relay"] + net.got["relay"] - Rounds
      BY <1>2, <2>1, MappedFacts DEF Preamble
    <2>6. /\ c.input["client"] \in Nat /\ c.input["relay"] \in Nat
          /\ c.output["client"] \in Nat /\ c.output["relay"] \in Nat
          /\ net.rx["client"] \in Nat /\ net.rx["relay"] \in Nat
          /\ net.tx["client"] \in Nat /\ net.tx["relay"] \in Nat
          /\ net.sent["client"] \in Nat /\ net.sent["relay"] \in Nat
          /\ net.got["client"] \in Nat /\ net.got["relay"] \in Nat
          /\ Rounds \in Nat
      BY <1>2 DEF Lengths
    <2>4. CASE s = "client"
      <3>1. Held(c, net, s) = net.rx["client"] + c.input["client"] + c.output["relay"]
            /\ Other(s) = "relay"
        BY <2>4 DEF Held, Other
      <3>2. Adds(net.sent["client"], 0, net.rx["client"] + c.input["client"] + c.output["relay"],
                 net.tx["relay"], net.got["relay"], Rounds)
        BY <2>2, <2>6, PayloadAdds
      <3> QED BY <2>3, <2>4, <3>1, <3>2 DEF Adds
    <2>5. CASE s = "relay"
      <3>1. Held(c, net, s) = net.rx["relay"] + c.input["relay"] + c.output["client"]
            /\ Other(s) = "client"
        BY <2>5 DEF Held, Other
      <3>2. Adds(net.sent["relay"], Rounds, net.rx["relay"] + c.input["relay"] + c.output["client"],
                 net.tx["client"], net.got["client"], 0)
        BY <2>2, <2>6, PayloadAdds
      <3> QED BY <2>3, <2>5, <3>1, <3>2 DEF Adds
    <2> QED BY <2>4, <2>5 DEF Side
  <1> QED BY <1>3, <1>4

-----------------------------------------------------------------------------
(* The steps of the promise, on the mapped variables.                      *)

LEMMA ModeFacts ==
  /\ Mode \in {"closed", "broken", "open"} /\ Mode' \in {"closed", "broken", "open"}
  /\ Mode = "open" <=> Begun /\ \A s \in Side : ~ net.rst[s]
  /\ Mode' = "open" <=> Begun' /\ \A s \in Side : ~ net'.rst[s]
  /\ Mode' = "closed" <=> ~ Begun'
  /\ Mode = "broken" <=> Begun /\ \E s \in Side : net.rst[s]
  BY DEF Mode

PromiseStep == [Promise!Next]_(Promise!vars)

LEMMA NothingPromised ==
  ASSUME Mode \in {"closed", "broken"}, Mode' \in {"closed", "broken"}
  PROVE  PromiseStep
  BY DEF PromiseStep, Promise!Next, Promise!SetUp

LEMMA Broken ==
  ASSUME Mode = "open", Mode' = "broken"
  PROVE  PromiseStep
  BY DEF PromiseStep, Promise!Next, Promise!Break

LEMMA OpenKept ==
  ASSUME Mode = "closed", Mode' = "open", Kept(c, net)'
  PROVE  PromiseStep
  <1>1. \A s \in Side : /\ POut(net')[Other(s)] <= PSent(net')[s]
                        /\ PEof(c')[Other(s)] => net'.fin[s] /\ POut(net')[Other(s)] = PSent(net')[s]
    BY DEF Kept, PDelivered
  <1>2. Promise!Open
    BY <1>1 DEF Promise!Open, Promise!Delivered, PSent, POut, PEof
  <1> QED BY <1>2 DEF PromiseStep, Promise!Next

LEMMA SendStep ==
  ASSUME Mode = "open", Mode' = "open", NEW s \in Side, ~ net.fin[s],
         net'.fin = net.fin, PSent(net') = [PSent(net) EXCEPT ![s] = PSent(net)[s] + 1],
         POut(net') = POut(net), PEof(c') = PEof(c)
  PROVE  PromiseStep
  <1>1. Promise!Send(s)
    BY DEF Promise!Send, PSent, POut, PEof
  <1> QED BY <1>1 DEF PromiseStep, Promise!Next

LEMMA StopStep ==
  ASSUME Mode = "open", Mode' = "open", NEW s \in Side, ~ net.fin[s],
         net'.fin = [net.fin EXCEPT ![s] = TRUE], PSent(net') = PSent(net),
         POut(net') = POut(net), PEof(c') = PEof(c)
  PROVE  PromiseStep
  <1>1. Promise!Stop(s)
    BY DEF Promise!Stop, PSent, POut, PEof
  <1> QED BY <1>1 DEF PromiseStep, Promise!Next

LEMMA StutterStep ==
  ASSUME Mode' = Mode, net'.fin = net.fin, PSent(net') = PSent(net),
         POut(net') = POut(net), PEof(c') = PEof(c)
  PROVE  PromiseStep
  <1>1. UNCHANGED Promise!vars
    BY DEF Promise!vars, PSent, POut, PEof
  <1> QED BY <1>1 DEF PromiseStep

\* redsocks hands on some of what the peer of s has sent, perhaps with its end, or
\* does nothing a peer would notice.
LEMMA ForwardStep ==
  ASSUME Mode = "open", Mode' = "open", net \in NetType, net' \in NetType,
         Kept(c, net), Kept(c, net)', NEW s \in Side,
         net'.fin = net.fin, net'.sent = net.sent,
         POut(net')[s] = POut(net)[s], POut(net')[Other(s)] >= POut(net)[Other(s)],
         "W" \in c'.shut[s] <=> "W" \in c.shut[s],
         "W" \in c.shut[Other(s)] => "W" \in c'.shut[Other(s)]
  PROVE  PromiseStep
  <1> DEFINE t == Other(s)
             n == POut(net')[t]
  <1>1. t \in Side /\ s # t /\ \A r \in Side : r = s \/ r = t
    BY SideFacts
  <1>2. /\ PSent(net') = PSent(net) /\ PSent(net)[s] \in Int
        /\ POut(net) \in [Side -> Int] /\ POut(net') \in [Side -> Int]
        /\ PEof(c) \in [Side -> BOOLEAN] /\ PEof(c') \in [Side -> BOOLEAN]
        /\ \A r \in Side : PEof(c)[r] = ("W" \in c.shut[r]) /\ PEof(c')[r] = ("W" \in c'.shut[r])
    BY MappedFacts, EofFacts DEF PSent
  <1>3. /\ n <= PSent(net)[s] /\ n \in Int /\ POut(net)[t] \in Int
        /\ PEof(c')[t] => net'.fin[s] /\ n = PSent(net)[s]
        /\ PEof(c)[t] => POut(net)[t] = PSent(net)[s]
    BY <1>1, <1>2 DEF Kept, PDelivered
  <1>4. POut(net') = [POut(net) EXCEPT ![t] = n]
    BY <1>1, <1>2
  <1>5. CASE PEof(c)[t]
    <2>1. PEof(c')[t]
      BY <1>1, <1>2, <1>5
    <2>2. n = POut(net)[t]
      BY <1>3, <1>5, <2>1
    <2>3. POut(net') = POut(net)
      BY <1>1, <1>2, <1>4, <2>2
    <2>4. PEof(c') = PEof(c)
      BY <1>1, <1>2, <1>5, <2>1
    <2> QED BY <1>2, <2>3, <2>4, StutterStep
  <1>6. CASE ~ PEof(c)[t]
    <2>1. n \in POut(net)[t] .. PSent(net)[s]
      BY <1>3
    <2>2. PEof(c') = PEof(c) \/ PEof(c') = [PEof(c) EXCEPT ![t] = (net'.fin[s] /\ n = PSent(net')[s])]
      <3>1. CASE PEof(c')[t]
        <4>1. (net'.fin[s] /\ n = PSent(net')[s]) = TRUE
          BY <1>2, <1>3, <3>1
        <4>2. PEof(c') = [PEof(c) EXCEPT ![t] = TRUE]
          BY <1>1, <1>2, <3>1
        <4> QED BY <4>1, <4>2
      <3>2. CASE ~ PEof(c')[t]
        BY <1>1, <1>2, <1>6, <3>2
      <3> QED BY <3>1, <3>2
    <2> HIDE DEF n
    <2>3. Promise!Forward(s)
      BY <1>2, <1>4, <1>6, <2>1, <2>2 DEF Promise!Forward, Promise!Delivered, PSent, POut, PEof, n
    <2> QED BY <2>3 DEF PromiseStep, Promise!Next
  <1> QED BY <1>5, <1>6

\* Each stream was delivered before, or is with the last step.
LEMMA EndStep ==
  ASSUME Mode = "open", Mode' = "closed",
         \A s \in Side : \/ PDelivered(net, s)
                         \/ net.fin[s] /\ PSent(net')[s] = PSent(net)[s] /\ PDelivered(net', s)
  PROVE  PromiseStep
  <1>1. \A s \in Side : Promise!Over(s)
    BY DEF Promise!Over, Promise!Delivered, PDelivered, PSent, POut
  <1>2. Promise!End
    BY <1>1 DEF Promise!End
  <1> QED BY <1>2 DEF PromiseStep, Promise!Next

-----------------------------------------------------------------------------
(* redsocks keeps the promise: one lemma per action for an open connection.*)

LEMMA AnsweredHolds == Spec => []Answered
  <1>1. Init => Answered
    BY DEF Init, Answered, Freed
  <1>2. Inv /\ Flow /\ Answered /\ [Next]_vars => Answered'
    <2>0. ASSUME c' = Freed PROVE Answered'
      BY <2>0 DEF Answered, Freed
    <2>1. Answered /\ UNCHANGED vars => Answered'
      BY DEF vars, Answered
    <2>2. ASSUME Inv, Answered, NEW s \in Side, ReadData(s) PROVE Answered'
      <3>1. PICK n, d :
                 /\ n \in 1 .. net.rx[s]
                 /\ n <= RoomToRead(c, s) /\ Filled(d, s, n)
                 /\ c' = Freed \/ (NetRead(s, n) /\ Received(d, c', s))
        BY <2>2, ReadDataStep
      <3>2. d.phase = c.phase /\ d.hs = c.hs
        BY <3>1 DEF Filled, Frame
      <3> QED BY <2>0, <2>2, <3>1, <3>2 DEF Received, Move, Pause, Frame, Taken, Begin, Ask, Answered
    <2>3. ASSUME Inv, Answered, NEW s \in Side, WriteReady(s) PROVE Answered'
      <3>1. PICK n, d, u :
                 /\ n \in 0 .. c.output[s]
                 /\ Drained(d, s, n) /\ Unregister(d, u, s)
                 /\ \/ c' = Freed
                    \/ NetWrite(s, n) /\ (IF d.output[s] > 0 THEN c' = d ELSE Flushed(u, c', s))
        BY <2>3, WriteReadyStep
      <3>2. d.phase = c.phase /\ d.hs = c.hs /\ u.phase = c.phase /\ u.hs = c.hs
        BY <3>1 DEF Drained, Unregister, Unwatch, Frame
      <3>3. Flushed(u, c', s) => c'.phase = u.phase /\ c'.hs = u.hs
        BY DEF Flushed, Unwatch, Halve, Move, Resume, Frame
      <3> QED BY <2>0, <2>3, <3>1, <3>2, <3>3 DEF Answered
    <2>4. ASSUME Inv, Answered, NEW s \in Side, ReadEOF(s) PROVE Answered'
      <3>1. PICK d, e : /\ Pause(c, d, s) /\ Halve(d, e, s, "R")
                        /\ \/ c' = Freed
                           \/ c' = e \/ Halve(e, c', Other(s), "W")
        BY <2>4, ReadEOFStep
      <3>2. e.phase = c.phase /\ e.hs = c.hs
        BY <3>1 DEF Pause, Halve, Frame
      <3> QED BY <2>0, <2>4, <3>1, <3>2 DEF Halve, Answered
    <2>5. ASSUME Inv, Answered, NEW s \in Side, ReadSuspend(s) \/ IOError(s) PROVE Answered'
      <3>1. ReadSuspend(s) => Answered'
        BY <2>5, ReadSuspendStep DEF Answered
      <3>2. IOError(s) => c' = Freed
        BY <2>5, DropFields DEF IOError, Finish, Inv, Good, ClientType
      <3> QED BY <2>0, <2>5, <3>1, <3>2
    <2>6. ASSUME Inv, AuthRetry PROVE Answered'
      BY <2>0, <2>6, AuthRetryStep DEF AuthRetryStepOK, Answered
    <2>7. ASSUME Inv, Flow, redsocks_accept_client PROVE Answered'
      <3>1. c = Freed
        BY <2>7 DEF redsocks_accept_client, Flow, Unused
      <3> QED BY <2>7, <3>1, AcceptStep DEF Answered
    <2>8. ASSUME Inv, redsocks_relay_connected PROVE Answered'
      BY <2>0, <2>8, ConnectedStep DEF Ask, Answered
    <2>9. ASSUME Answered, Peers PROVE Answered'
      <3>1. c' = c
        BY <2>9, Zenon DEF Peers, ConnectDone, PeerSend, PeerRead, PeerClose, PeerReset
      <3> QED BY <2>9, <3>1 DEF Answered
    <2> QED BY <2>1, <2>2, <2>3, <2>4, <2>5, <2>6, <2>7, <2>8, <2>9 DEF Next, Dispatch
  <1> QED BY <1>1, <1>2, InvHolds, FlowHolds, PTL DEF Spec

\* What an open connection is.
LEMMA OpenFacts ==
  ASSUME Mode = "open"
  PROVE  /\ Begun /\ c.phase = "relaying"
         /\ \A s \in Side : /\ ~ net.rst[s] /\ ~ c.fresh[s]
                            /\ "W" \in c.evshut[s] => "W" \in c.shut[s]
  BY ModeFacts DEF Begun, StaleShut

LEMMA StaysOpen ==
  ASSUME c'.phase = "relaying", \A s \in Side : ~ net'.rst[s],
         \A s \in Side : ~ c'.fresh[s] /\ ("W" \in c'.evshut[s] => "W" \in c'.shut[s])
  PROVE  Mode' = "open"
  BY ModeFacts DEF Begun, StaleShut

LEMMA DropCloses ==
  ASSUME c' = Freed
  PROVE  Mode' = "closed"
  BY ModeFacts DEF Begun, Freed

\* What redsocks knows between two steps.
Sound == Inv /\ Flow /\ Ending /\ Steady

LEMMA SoundFacts ==
  ASSUME Sound
  PROVE  /\ c \in ClientType /\ net \in NetType
         /\ Mode = "open" => Kept(c, net)
  <1>1. c \in ClientType /\ net \in NetType
    BY DEF Sound, Inv, Good
  <1> QED BY <1>1, OpenFacts, SteadyKept DEF Sound, Steady

LEMMA SoundNext ==
  ASSUME Sound'
  PROVE  /\ c' \in ClientType /\ net' \in NetType
         /\ Mode' = "open" => Kept(c, net)'
  <1>1. c' \in ClientType /\ net' \in NetType
    BY DEF Sound, Inv, Good
  <1> SUFFICES ASSUME Mode' = "open" PROVE Kept(c', net')
    BY <1>1
  <1>2. Begun'
    BY ModeFacts
  <1>3. \A s \in Side : /\ POut(net')[Other(s)] + Held(c', net', s) = PSent(net')[s]
                        /\ "W" \in c'.shut[Other(s)] => Held(c', net', s) = 0 /\ net'.fin[s]
    BY <1>2 DEF Sound, Steady
  <1> QED BY <1>1, <1>3, SteadyKept

LEMMA ReadDataKeeps ==
  ASSUME Sound, Sound', Mode = "open", NEW s \in Side, ReadData(s)
  PROVE  PromiseStep
  <1> DEFINE t == Other(s)
  <1>1. t \in Side /\ \A r \in Side : r = s \/ r = t
    BY SideFacts
  <1>2. PICK n, d :
             /\ n \in 1 .. net.rx[s]
             /\ n <= RoomToRead(c, s) /\ Filled(d, s, n)
             /\ c' = Freed \/ (NetRead(s, n) /\ Received(d, c', s))
    BY ReadDataStep DEF Sound
  <1>3. /\ c.phase = "relaying"
        /\ \A r \in Side : ~ net.rst[r] /\ ~ c.fresh[r] /\ ("W" \in c.evshut[r] => "W" \in c.shut[r])
    BY OpenFacts
  \* The relay's read callback does not drop the client.
  <1>4. c' # Freed
    <2> DEFINE k == Least(net.rx[s], Least(RoomToRead(c, s), HALFBUFF))
               j == c.input[s] + k
               f == [c EXCEPT !.input[s] = j]
    <2>1. c \in ClientType /\ net \in NetType
      BY SoundFacts
    <2>2. k \in Nat
      <3>1. RoomToRead(c, s) \in Int /\ net.rx[s] \in 0 .. SockBuf
        BY <2>1, BoundsAssumption DEF RoomToRead, ReadHigh, HeadHigh, ClientType, NetType
      <3>2. RoomToRead(c, s) > 0
        BY DEF ReadData
      <3> QED BY <3>1, <3>2, BoundsAssumption DEF Least
    <2>3. c' \in ReadCallbacks(f, s)
      BY DEF ReadData, Finish
    <2> HIDE DEF k
    <2>8. j \in Nat
      BY <2>1, <2>2 DEF ClientType
    <2> HIDE DEF j
    <2>4. f \in ClientType /\ f.phase = "relaying"
      BY <1>3, <2>1, <2>8 DEF ClientType
    <2> HIDE DEF f
    <2>5. c' = redsocks_relay_readcb(f, s)
      BY <2>3, <2>4 DEF ReadCallbacks
    <2>6. Received(f, c', s)
      BY <2>4, <2>5, ReadcbFields
    <2>7. c'.phase = "relaying"
      BY <2>4, <2>6 DEF Received, Move, Pause, Frame
    <2> QED BY <2>7 DEF Freed
  <1>5. d.phase = "relaying" /\ d.fresh = c.fresh /\ d.evshut = c.evshut /\ d.shut = c.shut
    BY <1>2, <1>3 DEF Filled, Frame
  <1>6. /\ c'.phase = "relaying" /\ c'.evshut = c.evshut /\ c'.shut = c.shut
        /\ ~ c'.fresh[s] /\ ~ c'.fresh[t]
    BY <1>1, <1>2, <1>3, <1>4, <1>5 DEF Received, Move, Pause, Frame
  <1>7. Mode' = "open"
    BY <1>1, <1>2, <1>3, <1>4, <1>6, StaysOpen DEF NetRead
  <1>8. net'.fin = net.fin /\ PSent(net') = PSent(net) /\ POut(net') = POut(net) /\ PEof(c') = PEof(c)
    BY <1>2, <1>4, <1>6 DEF NetRead, PSent, POut, PEof
  <1> QED BY <1>7, <1>8, StutterStep

LEMMA ReadSuspendKeeps ==
  ASSUME Sound, Mode = "open", NEW s \in Side, ReadSuspend(s)
  PROVE  PromiseStep
  <1>1. /\ net' = net /\ c'.phase = c.phase /\ c'.evshut = c.evshut /\ c'.shut = c.shut
        /\ c'.fresh = c.fresh
    BY ReadSuspendStep DEF Sound
  <1>2. Mode' = "open"
    BY <1>1, OpenFacts, StaysOpen
  <1> QED BY <1>1, <1>2, StutterStep DEF PSent, POut, PEof

\* Nothing of the stream of s is held and its peer has closed.
LEMMA NothingHeld ==
  ASSUME Sound, Mode = "open", NEW s \in Side, net.fin[s],
         net.rx[s] = 0, c.input[s] = 0, c.output[Other(s)] = 0
  PROVE  PDelivered(net, s)
  <1>1. POut(net)[Other(s)] + Held(c, net, s) = PSent(net)[s]
    BY OpenFacts DEF Sound, Steady
  <1>2. Held(c, net, s) = 0
    BY DEF Held
  <1>3. POut(net)[Other(s)] \in Int /\ net.fin[s] \in BOOLEAN
    BY SideFacts, SoundFacts, MappedFacts DEF NetType
  <1> QED BY <1>1, <1>2, <1>3 DEF PDelivered

\* A socket whose two halves are shut down has been handed all of the other stream.
LEMMA ShutDelivered ==
  ASSUME Sound, Mode = "open", NEW s \in Side, "W" \in c.evshut[Other(s)]
  PROVE  PDelivered(net, s)
  <1>1. Other(s) \in Side
    BY SideFacts
  <1>2. "W" \in c.shut[Other(s)]
    BY <1>1, OpenFacts
  <1>3. PEof(c)[Other(s)]
    BY <1>1, <1>2, EofFacts
  <1> QED BY <1>3, SoundFacts DEF Kept

LEMMA ReadEOFKeeps ==
  ASSUME Sound, Sound', Mode = "open", NEW s \in Side, ReadEOF(s)
  PROVE  PromiseStep
  <1> DEFINE t == Other(s)
  <1>1. t \in Side /\ Other(t) = s /\ t # s /\ \A r \in Side : r = s \/ r = t
    BY SideFacts
  <1>2. /\ c.phase = "relaying"
        /\ \A r \in Side : ~ net.rst[r] /\ ~ c.fresh[r] /\ ("W" \in c.evshut[r] => "W" \in c.shut[r])
    BY OpenFacts
  <1>3. PICK d, e : /\ Pause(c, d, s) /\ Halve(d, e, s, "R")
                    /\ \/ c' = Freed /\ e.evshut[s] = Event /\ e.output[Other(s)] = 0
                       \/ /\ net' = net
                          /\ IF e.output[Other(s)] = 0 THEN Halve(e, c', Other(s), "W") ELSE c' = e
    BY ReadEOFStep DEF Sound
  <1> HIDE DEF t
  <1>4. /\ e.phase = c.phase /\ e.fresh = c.fresh /\ e.output = c.output
        /\ e.evshut[s] = c.evshut[s] \cup {"R"} /\ e.evshut[t] = c.evshut[t]
        /\ e.shut[t] = c.shut[t] /\ ("W" \in e.shut[s] <=> "W" \in c.shut[s])
    BY <1>1, <1>3 DEF Pause, Halve, Frame, t
  <1>5. CASE c' = Freed /\ e.evshut[s] = Event /\ e.output[t] = 0
    <2>1. "W" \in c.evshut[s]
      BY <1>4, <1>5 DEF Event
    <2>2. PDelivered(net, t)
      BY <1>1, <2>1, ShutDelivered
    <2>3. net.fin[s] /\ net.rx[s] = 0
      <3>1. net.rx[s] = 0 /\ (net.fin[s] \/ "R" \in c.shut[s])
        BY DEF ReadEOF
      <3>2. "R" \in c.shut[s] => net.fin[s]
        BY <1>2 DEF Sound, Ending, Really, EndedAt
      <3> QED BY <3>1, <3>2
    <2>4. c.output[t] = 0 /\ c.input[s] = 0
      <3>1. c.output[t] = 0 /\ c.input[s] \in Nat
        BY <1>4, <1>5, SoundFacts DEF ClientType
      <3>2. BackedAt(c, s)
        BY <1>2 DEF Sound, Ending
      <3> QED BY <1>2, <3>1, <3>2 DEF BackedAt, t
    <2>5. PDelivered(net, s)
      BY <2>3, <2>4, NothingHeld DEF t
    <2> QED BY <1>1, <1>5, <2>2, <2>5, DropCloses, EndStep
  <1>6. CASE net' = net /\ (IF e.output[t] = 0 THEN Halve(e, c', t, "W") ELSE c' = e)
    <2>1. /\ c'.phase = c.phase /\ c'.fresh = c.fresh
          /\ "W" \in c'.evshut[s] => "W" \in c'.shut[s]
          /\ "W" \in c'.evshut[t] => "W" \in c'.shut[t]
          /\ "W" \in c'.shut[s] <=> "W" \in c.shut[s]
          /\ "W" \in c.shut[t] => "W" \in c'.shut[t]
      <3>1. CASE e.output[t] = 0
        <4>1. /\ c'.phase = e.phase /\ c'.fresh = e.fresh
              /\ c'.evshut[s] = e.evshut[s] /\ c'.shut[s] = e.shut[s]
              /\ "W" \in c'.shut[t]
          BY <1>1, <1>6, <3>1 DEF Halve
        <4> QED BY <1>1, <1>2, <1>4, <4>1
      <3>2. CASE e.output[t] # 0
        BY <1>1, <1>2, <1>4, <1>6, <3>2
      <3> QED BY <3>1, <3>2
    <2>2. Mode' = "open"
      BY <1>1, <1>2, <1>6, <2>1, StaysOpen
    <2>3. Kept(c, net) /\ Kept(c, net)' /\ net \in NetType /\ net' \in NetType
      BY <2>2, SoundFacts, SoundNext
    <2>4. POut(net)[s] \in Int /\ POut(net)[t] \in Int
      BY <1>1, <2>3, MappedFacts
    <2>5. /\ net'.fin = net.fin /\ net'.sent = net.sent
          /\ POut(net')[s] = POut(net)[s] /\ POut(net')[t] >= POut(net)[t]
      BY <1>6, <2>4
    <2> QED BY <2>1, <2>2, <2>3, <2>5, ForwardStep DEF t
  <1> QED BY <1>3, <1>5, <1>6 DEF t

\* The write callback drops the client when all of the other stream is written and both
\* sockets are shut down.
LEMMA WriteReadyDrops ==
  ASSUME Inv, NEW s \in Side, WriteReady(s), c.phase = "relaying", c' = Freed
  PROVE  LET t == Other(s)
         IN  /\ c.input[t] = 0 /\ "R" \in c.evshut[t] /\ "W" \in c.evshut[t]
             /\ net'.tx[s] = net.tx[s] + c.output[s] /\ net'.tx[t] = net.tx[t]
             /\ net'.got = net.got /\ net'.sent = net.sent /\ net'.fin = net.fin
  <1> DEFINE n == Least(c.output[s], SockBuf - net.tx[s])
             k == c.output[s] - n
             d == [c EXCEPT !.output[s] = k]
             u == [d EXCEPT !.pending[s] = @ \ {"W"}]
             v == net.tx[s] + n
             m == [net EXCEPT !.tx[s] = v]
             t == Other(s)
             e == IF d.output[s] > 0 THEN d ELSE WriteCallbacks(u, s)
  <1>0. t \in Side /\ Other(t) = s /\ t # s /\ c \in ClientType /\ net \in NetType /\ ~ c.uaf
    BY SideFacts DEF Inv, Good
  <1>1. net.tx[s] \in 0 .. SockBuf /\ c.output[s] \in Nat
    BY <1>0 DEF ClientType, NetType
  <1>2. n \in 0 .. c.output[s] /\ n \in 0 .. SockBuf - net.tx[s]
    BY <1>1, BoundsAssumption DEF Least
  <1>3. Finish(e, m)
    BY DEF WriteReady
  <1> HIDE DEF n
  <1>4. k \in Nat /\ v \in 0 .. SockBuf
    BY <1>1, <1>2, BoundsAssumption
  <1> HIDE DEF k, v, t
  <1>5. /\ d \in ClientType /\ d.phase = "relaying" /\ d.uaf = c.uaf /\ d.input = c.input
        /\ d.evshut = c.evshut /\ d.output[s] = k
    BY <1>0, <1>4 DEF ClientType
  <1>6. /\ Closed(m).tx[s] = v /\ Closed(m).tx[t] = net.tx[t] /\ Closed(m).fin = net.fin
        /\ Closed(m).sent = net.sent /\ Closed(m).got = net.got
    BY <1>0, <1>4 DEF NetType, Closed
  <1> HIDE DEF d, m
  <1>7. Unregister(d, u, s)
    BY <1>5, UnregisterFields
  <1> HIDE DEF u
  <1>8. /\ u \in ClientType /\ u.phase = "relaying" /\ ~ u.uaf /\ u.input = c.input
        /\ u.evshut = c.evshut /\ u.output[s] = k
    BY <1>0, <1>5, <1>7 DEF Unregister, Unwatch, Frame
  <1>9. e = Freed /\ net' = Closed(m) /\ e.phase = "none"
    <2> HIDE DEF e
    <2>1. c' = e /\ net' = IF e.phase = "none" THEN Closed(m) ELSE m
      BY <1>3 DEF Finish
    <2> QED BY <2>1 DEF Freed
  <1>10. ~ (d.output[s] > 0)
    BY <1>5, <1>9
  <1>11. k = 0
    BY <1>4, <1>5, <1>10
  <1>12. redsocks_relay_writecb(u, t) = Freed
    BY <1>8, <1>9, <1>10 DEF WriteCallbacks, t
  <1>13. u.input[t] = 0 /\ "R" \in u.evshut[t] /\ redsocks_shutdown(u, s, "W") = Freed
    <2>1. Flushed(u, redsocks_relay_writecb(u, t), s) => redsocks_relay_writecb(u, t).phase # "none"
      BY <1>8 DEF Flushed, Unwatch, Halve, Move, Resume, Frame
    <2>2. CASE u.input[t] = 0 /\ "R" \in u.evshut[t]
      BY <1>0, <1>12, <2>2 DEF redsocks_relay_writecb
    <2>3. CASE ~ (u.input[t] = 0 /\ "R" \in u.evshut[t])
      <3>1. u.output[s] < HALFBUFF
        BY <1>8, <1>11, BoundsAssumption
      <3>2. Freed = bufferevent_enable(MoveInput(u, t), t, {"R"})
        BY <1>0, <1>12, <2>3, <3>1 DEF redsocks_relay_writecb
      <3>3. MoveInput(u, t) \in ClientType /\ MoveInput(u, t).phase = u.phase
        BY <1>0, <1>8, MoveFields DEF Move, Frame
      <3>4. bufferevent_enable(MoveInput(u, t), t, {"R"}).phase = u.phase
        BY <1>0, <3>3, EnableFields DEF Frame, Event
      <3> QED BY <1>8, <3>2, <3>4 DEF Freed
    <2> QED BY <2>2, <2>3
  <1>14. "W" \in u.evshut[t]
    <2>1. Halve(u, Freed, s, "W") \/ u.evshut[t] = Event
      BY <1>8, <1>13, ShutdownFields DEF Event, t
    <2>2. ~ Halve(u, Freed, s, "W")
      BY <1>8 DEF Halve, Freed
    <2> QED BY <2>1, <2>2 DEF Event
  <1>15. v = net.tx[s] + c.output[s]
    BY <1>1, <1>2, <1>11 DEF k, v
  <1> QED BY <1>6, <1>8, <1>9, <1>13, <1>14, <1>15 DEF t

LEMMA MoreOut ==
  ASSUME NEW t \in Nat, NEW g \in Nat, NEW p \in Nat, NEW o \in Nat
  PROVE  (t + o) + g - p = (t + g - p) + o
  OBVIOUS

\* From d to e the write half of r may have been shut down, and no other.
Proceeds(d, e, r) ==
    /\ e.phase = d.phase
    /\ \A x \in Side : ~ d.fresh[x] => ~ e.fresh[x]
    /\ e.evshut[Other(r)] = d.evshut[Other(r)] /\ e.shut[Other(r)] = d.shut[Other(r)]
    /\ (e.evshut[r] = d.evshut[r] /\ e.shut[r] = d.shut[r]) \/ "W" \in e.shut[r]

LEMMA WriteReadyKeeps ==
  ASSUME Sound, Sound', Mode = "open", NEW r \in Side, WriteReady(r)
  PROVE  PromiseStep
  <1> DEFINE s == Other(r)
  <1>1. s \in Side /\ Other(s) = r /\ s # r /\ \A x \in Side : x = s \/ x = r
    BY SideFacts
  <1> HIDE DEF s
  <1>2. /\ c.phase = "relaying"
        /\ \A x \in Side : ~ net.rst[x] /\ ~ c.fresh[x] /\ ("W" \in c.evshut[x] => "W" \in c.shut[x])
    BY OpenFacts
  <1>3. c \in ClientType /\ net \in NetType /\ net' \in NetType /\ Inv
    BY SoundFacts, SoundNext DEF Sound
  <1>4. /\ net.tx[r] \in Nat /\ net.got[r] \in Nat /\ c.output[r] \in Nat
        /\ net.tx[s] \in Nat /\ net.got[s] \in Nat
    BY <1>1, <1>3, BoundsAssumption DEF ClientType, NetType
  <1>5. /\ POut(net)[r] = net.tx[r] + net.got[r] - Preamble(r)
        /\ POut(net')[r] = net'.tx[r] + net'.got[r] - Preamble(r)
        /\ POut(net)[s] = net.tx[s] + net.got[s] - Preamble(s)
        /\ POut(net')[s] = net'.tx[s] + net'.got[s] - Preamble(s)
        /\ Preamble(r) \in Nat /\ Preamble(s) \in Nat
    BY <1>1, <1>3, MappedFacts, SideFacts DEF Preamble
  <1>6. CASE c' = Freed
    <2>1. /\ c.input[s] = 0 /\ "R" \in c.evshut[s] /\ "W" \in c.evshut[s]
          /\ net'.tx[r] = net.tx[r] + c.output[r]
          /\ net'.got = net.got /\ net'.sent = net.sent /\ net'.fin = net.fin
      BY <1>2, <1>3, <1>6, WriteReadyDrops DEF s
    <2>2. PDelivered(net, r)
      BY <1>1, <2>1, ShutDelivered DEF s
    <2>3. net.fin[s] /\ net.rx[s] = 0
      BY <1>1, <1>2, <2>1 DEF Sound, Ending, EndedAt
    <2>4. PSent(net') = PSent(net)
      BY <2>1 DEF PSent
    <2>5. POut(net')[r] = PSent(net)[s]
      <3>1. POut(net)[r] + Held(c, net, s) = PSent(net)[s]
        BY <1>1, OpenFacts DEF Sound, Steady
      <3>2. Held(c, net, s) = c.output[r]
        BY <1>1, <1>4, <2>1, <2>3 DEF Held
      <3>3. POut(net')[r] = (net.tx[r] + c.output[r]) + net.got[r] - Preamble(r)
        BY <1>5, <2>1
      <3>4. POut(net')[r] = POut(net)[r] + c.output[r]
        BY <1>4, <1>5, <3>3, MoreOut
      <3> QED BY <3>1, <3>2, <3>4
    <2>6. PDelivered(net', s)
      BY <1>1, <2>1, <2>3, <2>4, <2>5 DEF PDelivered
    <2> QED BY <1>1, <1>6, <2>2, <2>3, <2>4, <2>6, DropCloses, EndStep
  <1>7. CASE c' # Freed
    <2>1. PICK n, d, u :
               /\ n \in 0 .. c.output[r]
               /\ Drained(d, r, n) /\ Unregister(d, u, r)
               /\ \/ c' = Freed
                  \/ NetWrite(r, n) /\ (IF d.output[r] > 0 THEN c' = d ELSE Flushed(u, c', r))
      BY <1>3, WriteReadyStep
    <2>2. /\ d.phase = c.phase /\ d.fresh = c.fresh /\ d.evshut = c.evshut /\ d.shut = c.shut
          /\ u.phase = c.phase /\ u.fresh = c.fresh /\ u.evshut = c.evshut /\ u.shut = c.shut
      BY <2>1 DEF Drained, Unregister, Unwatch, Frame
    <2>3. Proceeds(c, c', r)
      <3>1. CASE c' = d
        BY <2>2, <3>1 DEF Proceeds
      <3>2. CASE Halve(u, c', r, "W")
        <4>1. /\ c'.phase = u.phase /\ c'.fresh = u.fresh
              /\ c'.evshut[Other(r)] = u.evshut[Other(r)] /\ c'.shut[Other(r)] = u.shut[Other(r)]
              /\ "W" \in c'.shut[r]
          BY <3>2 DEF Halve
        <4> QED BY <2>2, <4>1 DEF Proceeds
      <3>3. ASSUME NEW f, Move(u, f, s), Resume(f, c', s) PROVE Proceeds(c, c', r)
        <4>1. /\ c'.phase = u.phase /\ c'.evshut = u.evshut /\ c'.shut = u.shut
              /\ c'.fresh = f.fresh /\ f.fresh[s] = (u.fresh[s] /\ "W" \in u.shut[Other(s)])
              /\ f.fresh[Other(s)] = u.fresh[Other(s)]
          BY <3>3 DEF Move, Resume, Frame
        <4>2. \A x \in Side : ~ u.fresh[x] => ~ c'.fresh[x]
          BY <1>1, <4>1
        <4> QED BY <2>2, <4>1, <4>2 DEF Proceeds
      <3> QED BY <1>2, <1>7, <2>1, <2>2, <3>1, <3>2, <3>3 DEF Flushed, s
    <2>4. /\ c'.phase = "relaying" /\ ~ c'.fresh[s] /\ ~ c'.fresh[r]
          /\ "W" \in c'.evshut[s] => "W" \in c'.shut[s]
          /\ "W" \in c'.evshut[r] => "W" \in c'.shut[r]
          /\ "W" \in c'.shut[s] <=> "W" \in c.shut[s]
          /\ "W" \in c.shut[r] => "W" \in c'.shut[r]
      BY <1>1, <1>2, <2>3 DEF Proceeds, s
    <2>5. /\ net'.tx[r] = net.tx[r] + n /\ net'.tx[s] = net.tx[s] /\ net'.rst = net.rst
          /\ net'.fin = net.fin /\ net'.sent = net.sent /\ net'.got = net.got
      BY <1>7, <2>1 DEF NetWrite, s
    <2>6. Mode' = "open"
      BY <1>1, <1>2, <2>4, <2>5, StaysOpen
    <2>7. Kept(c, net) /\ Kept(c, net)'
      BY <2>6, SoundFacts, SoundNext
    <2>8. POut(net')[s] = POut(net)[s]
      BY <1>5, <2>5
    <2>9. POut(net')[r] >= POut(net)[r]
      <3>1. n \in Nat
        BY <1>4, <2>1
      <3>2. POut(net')[r] = (net.tx[r] + n) + net.got[r] - Preamble(r)
        BY <1>5, <2>5
      <3>3. POut(net')[r] = POut(net)[r] + n
        BY <1>4, <1>5, <3>1, <3>2, MoreOut
      <3>4. POut(net)[r] \in Int
        BY <1>3, MappedFacts
      <3> QED BY <3>1, <3>3, <3>4
    <2> QED BY <1>1, <1>3, <2>4, <2>5, <2>6, <2>7, <2>8, <2>9, ForwardStep
  <1> QED BY <1>6, <1>7

\* A connection that was not reset has no output behind a FIN.
LEMMA NoIOError ==
  ASSUME Sound, Mode = "open", NEW s \in Side
  PROVE  ~ IOError(s)
  <1> SUFFICES ASSUME IOError(s) PROVE FALSE
    OBVIOUS
  <1>1. Other(s) \in Side /\ Other(Other(s)) = s
    BY SideFacts
  <1>2. /\ c.phase = "relaying" /\ ~ net.rst[s] /\ ~ c.fresh[Other(s)]
    BY <1>1, OpenFacts
  <1>3. "W" \in c.shut[s] /\ c.output[s] > 0
    BY <1>2 DEF IOError
  <1>4. PassedAt(c, Other(s))
    BY <1>1, <1>2 DEF Sound, Ending
  <1> QED BY <1>1, <1>2, <1>3, <1>4 DEF PassedAt

LEMMA PeersKeep ==
  ASSUME Sound, Sound', Mode = "open", Peers
  PROVE  PromiseStep
  <1>1. c' = c
    BY Zenon DEF Peers, ConnectDone, PeerSend, PeerRead, PeerClose, PeerReset
  <1>2. net \in NetType /\ net' \in NetType
    BY SoundFacts, SoundNext
  <1>3. Begun' /\ PEof(c') = PEof(c) /\ ((\A s \in Side : ~ net'.rst[s]) => Mode' = "open")
    BY <1>1, ModeFacts, OpenFacts DEF Begun, StaleShut
  <1>4. \A s \in Side : ~ net.rst[s]
    BY OpenFacts
  <1>5. ASSUME NEW x \in {"ok", "refused"}, ConnectDone(x) PROVE PromiseStep
    <2>1. /\ net'.fin = net.fin /\ net'.rst = net.rst /\ net'.sent = net.sent
          /\ net'.tx = net.tx /\ net'.got = net.got
      BY <1>2, <1>5 DEF ConnectDone, NetType
    <2> QED BY <1>3, <1>4, <2>1, StutterStep DEF PSent, POut
  <1>6. ASSUME NEW s \in Side, PeerSend(s) PROVE PromiseStep
    <2>1. /\ net'.fin = net.fin /\ net'.rst = net.rst /\ ~ net.fin[s]
          /\ net'.sent = [net.sent EXCEPT ![s] = net.sent[s] + 1]
          /\ net'.tx = net.tx /\ net'.got = net.got
      BY <1>2, <1>6 DEF PeerSend, NetType
    <2>2. PSent(net') = [PSent(net) EXCEPT ![s] = PSent(net)[s] + 1]
      <3>1. \A x \in Side : PSent(net')[x] = IF x = s THEN PSent(net)[s] + 1 ELSE PSent(net)[x]
        <4>1. net.sent \in [Side -> Nat] /\ \A x \in Side : Preamble(x) \in Nat
          BY <1>2, SideFacts DEF NetType, Preamble
        <4>2. \A x \in Side : /\ PSent(net')[x] = net'.sent[x] - Preamble(x)
                              /\ PSent(net)[x] = net.sent[x] - Preamble(x)
          BY <1>2, MappedFacts
        <4> QED BY <2>1, <4>1, <4>2
      <3>2. PSent(net') \in [Side -> Int] /\ PSent(net) \in [Side -> Int]
        BY <1>2, MappedFacts
      <3> QED BY <3>1, <3>2
    <2> QED BY <1>3, <1>4, <2>1, <2>2, SendStep DEF POut
  <1>7. ASSUME NEW s \in Side, PeerClose(s) PROVE PromiseStep
    <2>1. /\ net'.fin = [net.fin EXCEPT ![s] = TRUE] /\ net'.rst = net.rst /\ ~ net.fin[s]
          /\ net'.sent = net.sent /\ net'.tx = net.tx /\ net'.got = net.got
      BY <1>2, <1>7 DEF PeerClose, NetType
    <2> QED BY <1>3, <1>4, <2>1, StopStep DEF PSent, POut
  <1>8. ASSUME NEW s \in Side, PeerReset(s) PROVE PromiseStep
    <2>1. net'.rst[s]
      BY <1>2, <1>8 DEF PeerReset, NetType
    <2>2. Mode' = "broken"
      BY <1>3, <2>1, ModeFacts
    <2> QED BY <2>2, Broken
  <1>9. ASSUME NEW s \in Side, PeerRead(s) PROVE PromiseStep
    <2>1. /\ net'.fin = net.fin /\ net'.rst = net.rst /\ net'.sent = net.sent
          /\ net'.tx[s] = net.tx[s] - 1 /\ net'.got[s] = net.got[s] + 1
          /\ \A x \in Side : x # s => net'.tx[x] = net.tx[x] /\ net'.got[x] = net.got[x]
      BY <1>2, <1>9 DEF PeerRead, NetType
    <2>2. \A x \in Side : net.tx[x] \in Nat /\ net.got[x] \in Nat /\ Preamble(x) \in Nat
      BY <1>2, BoundsAssumption, SideFacts DEF NetType, Preamble
    <2>3. net'.tx[s] + net'.got[s] - Preamble(s) = net.tx[s] + net.got[s] - Preamble(s)
      <3>1. (net.tx[s] - 1) + (net.got[s] + 1) - Preamble(s) = net.tx[s] + net.got[s] - Preamble(s)
        BY <2>2
      <3> QED BY <2>1, <3>1
    <2>4. \A x \in Side : POut(net')[x] = POut(net)[x]
      <3>1. \A x \in Side : /\ POut(net')[x] = net'.tx[x] + net'.got[x] - Preamble(x)
                            /\ POut(net)[x] = net.tx[x] + net.got[x] - Preamble(x)
        BY <1>2, MappedFacts
      <3> QED BY <2>1, <2>3, <3>1
    <2>5. POut(net') = POut(net)
      BY <1>2, <2>4, MappedFacts
    <2> QED BY <1>3, <1>4, <2>1, <2>5, StutterStep DEF PSent
  <1> QED BY <1>5, <1>6, <1>7, <1>8, <1>9 DEF Peers

\* A reset connection stays reset for as long as it lasts.
LEMMA BrokenStays ==
  ASSUME Sound, Sound', Mode = "broken", Next
  PROVE  Mode' # "open"
  <1>1. Begun /\ c.phase = "relaying" /\ net \in NetType
    BY ModeFacts, SoundFacts DEF Begun
  <1>2. PICK s \in Side : net.rst[s]
    BY ModeFacts
  <1>3. c' = Freed \/ net'.rst[s]
    <2>1. ASSUME NEW r \in Side, ReadData(r) PROVE c' = Freed \/ net'.rst = net.rst
      BY <2>1, ReadDataStep DEF Sound, NetRead
    <2>2. ASSUME NEW r \in Side, WriteReady(r) PROVE c' = Freed \/ net'.rst = net.rst
      BY <2>2, WriteReadyStep DEF Sound, NetWrite
    <2>3. ASSUME NEW r \in Side, ReadEOF(r) PROVE c' = Freed \/ net'.rst = net.rst
      BY <2>3, ReadEOFStep DEF Sound
    <2>4. ASSUME NEW r \in Side, ReadSuspend(r) PROVE net'.rst = net.rst
      BY <2>4, ReadSuspendStep DEF Sound
    <2>5. ASSUME NEW r \in Side, IOError(r) PROVE c' = Freed
      BY <2>5, DropFields DEF Sound, IOError, Finish, Inv, Good, ClientType
    <2>6. ASSUME Peers PROVE net'.rst[s]
      <3>1. \/ net'.rst = net.rst
            \/ \E r \in Side : net' = [net EXCEPT !.rst[r] = TRUE]
        BY <1>1, <2>6 DEF Peers, ConnectDone, PeerSend, PeerRead, PeerClose, PeerReset, NetType
      <3> QED BY <1>1, <1>2, <3>1 DEF NetType
    <2>7. ~ redsocks_accept_client /\ ~ redsocks_relay_connected /\ ~ AuthRetry
      BY <1>1 DEF redsocks_accept_client, redsocks_relay_connected, AuthRetry
    <2> QED BY <1>2, <2>1, <2>2, <2>3, <2>4, <2>5, <2>6, <2>7 DEF Next, Dispatch
  <1> QED BY <1>3, DropCloses, ModeFacts

LEMMA StepKeeps ==
  ASSUME Sound, Sound', [Next]_vars
  PROVE  PromiseStep
  <1>1. CASE UNCHANGED vars
    <2>1. c' = c /\ net' = net
      BY <1>1 DEF vars
    <2>2. Mode' = Mode
      BY <2>1 DEF Mode, Begun, StaleShut
    <2> QED BY <2>1, <2>2, StutterStep DEF PSent, POut, PEof
  <1>2. CASE Next
    <2>1. CASE Mode = "open"
      <3>1. c.phase = "relaying"
        BY <2>1, OpenFacts
      <3>2. ~ redsocks_accept_client /\ ~ redsocks_relay_connected /\ ~ AuthRetry
        BY <3>1 DEF redsocks_accept_client, redsocks_relay_connected, AuthRetry
      <3> QED BY <1>2, <2>1, <3>2, ReadDataKeeps, ReadEOFKeeps, ReadSuspendKeeps, WriteReadyKeeps,
                 NoIOError, PeersKeep DEF Next, Dispatch
    <2>2. CASE Mode = "closed" /\ Mode' = "open"
      BY <2>2, SoundNext, OpenKept
    <2>3. CASE Mode \in {"closed", "broken"} /\ Mode' \in {"closed", "broken"}
      BY <2>3, NothingPromised
    <2>4. CASE Mode = "broken" /\ Mode' = "open"
      BY <1>2, <2>4, BrokenStays
    <2> QED BY <2>1, <2>2, <2>3, <2>4, ModeFacts
  <1> QED BY <1>1, <1>2

\* For every protocol, buffer size and amount of data redsocks implements StreamRelay:
\* each of its steps is one the promise allows, or none that a peer would notice.
THEOREM KeepsPromiseHolds == Spec => KeepsPromise
  <1>1. Init => Promise!Init
    BY DEF Init, Promise!Init, Mode, Begun, Freed
  <1>2. Inv /\ StreamsIntact /\ EofAfterData /\ Answered => Steady
    BY SteadyState
  <1>3. Sound /\ Sound' /\ [Next]_vars => [Promise!Next]_(Promise!vars)
    BY StepKeeps DEF PromiseStep
  <1>4. Inv /\ Flow /\ Ending /\ Steady => Sound
    BY DEF Sound
  <1> QED BY <1>1, <1>2, <1>3, <1>4, InvHolds, FlowHolds, EndingHolds, StreamsIntactHolds,
             EofAfterDataHolds, AnsweredHolds, PTL DEF Spec, KeepsPromise, Promise!Spec
=============================================================================

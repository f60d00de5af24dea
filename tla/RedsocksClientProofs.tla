------------------------ MODULE RedsocksClientProofs ------------------------
(***************************************************************************)
(* Proofs about RedsocksClient, for every protocol, buffer size and bound. *)
(*                                                                         *)
(* The handlers are functions of the client structure, so the proofs go    *)
(* the same way: Good(d) collects what every handler preserves, there is   *)
(* one lemma per handler, and the step that shows the invariant inductive  *)
(* has one case per action.                                                *)
(***************************************************************************)
EXTENDS RedsocksClient, TLAPS

\* While a handshake runs a reply is still to come.
HandshakeOpen(d) == d.phase \in {"connecting", "handshake"} => d.hs > 0

\* A write half is shut only after the read half of the other side.
EofForwarded(d) == \A s \in Side : "W" \in d.evshut[Other(s)] => "R" \in d.evshut[s]

\* A client that is still there has a half that is open: the shutdown of the
\* last one drops it.
HalfOpen(d) == \E s \in Side : d.evshut[s] # Event

Good(d) == /\ d \in ClientType
           /\ HandshakeOpen(d)
           /\ EofForwarded(d)
           /\ HalfOpen(d)
           /\ ~ d.uaf

Inv == Good(c) /\ net \in NetType

-----------------------------------------------------------------------------

LEMMA SideFacts == /\ \A s \in Side : Other(s) \in Side /\ Other(Other(s)) = s /\ Other(s) # s
                   /\ \A s, t \in Side : t = s \/ t = Other(s)
                   /\ Rounds \in Nat \ {0}
  BY DEF Side, Other, Rounds

LEMMA FreedGood == Good(Freed)
  <1>1. Freed \in ClientType
    BY SideFacts DEF Freed, ClientType, Phase, Side, Event, Rounds
  <1>2. HandshakeOpen(Freed) /\ EofForwarded(Freed) /\ HalfOpen(Freed) /\ ~ Freed.uaf
    BY SideFacts DEF Freed, HandshakeOpen, EofForwarded, HalfOpen, Side, Event
  <1> QED BY <1>1, <1>2 DEF Good

LEMMA DropGood ==
  ASSUME NEW d, d.uaf = FALSE
  PROVE  Good(redsocks_drop_client(d)) /\ redsocks_drop_client(d).phase = "none"
  <1> DEFINE e == redsocks_drop_client(d)
  <1>1. e \in ClientType
    BY FreedGood DEF redsocks_drop_client, Freed, Good, ClientType
  <1>2. e.phase = Freed.phase /\ e.hs = Freed.hs /\ e.evshut = Freed.evshut /\ e.uaf = d.uaf
    BY DEF redsocks_drop_client, Freed
  <1>3. HandshakeOpen(e) /\ EofForwarded(e) /\ HalfOpen(e)
    BY <1>2, FreedGood DEF Good, HandshakeOpen, EofForwarded, HalfOpen
  <1> QED BY <1>1, <1>2, <1>3 DEF Good, Freed

LEMMA EnableGood ==
  ASSUME NEW d, Good(d), NEW s \in Side, NEW evs \in SUBSET Event
  PROVE  /\ Good(bufferevent_enable(d, s, evs))
         /\ bufferevent_enable(d, s, evs).evshut = d.evshut
         /\ bufferevent_enable(d, s, evs).phase = d.phase
         /\ bufferevent_enable(d, s, evs).hs = d.hs
         /\ bufferevent_enable(d, s, evs).input = d.input
  <1>1. bufferevent_enable(d, s, evs) \in ClientType
    BY DEF bufferevent_enable, Good, ClientType
  <1> QED BY <1>1 DEF bufferevent_enable, Good, ClientType, HandshakeOpen, EofForwarded, HalfOpen

LEMMA DisableGood ==
  ASSUME NEW d, Good(d), NEW s \in Side, NEW evs \in SUBSET Event
  PROVE  /\ Good(bufferevent_disable(d, s, evs))
         /\ bufferevent_disable(d, s, evs).evshut = d.evshut
         /\ bufferevent_disable(d, s, evs).phase = d.phase
  <1>1. bufferevent_disable(d, s, evs) \in ClientType
    BY DEF bufferevent_disable, Good, ClientType
  <1> QED BY <1>1 DEF bufferevent_disable, Good, ClientType, HandshakeOpen, EofForwarded, HalfOpen

LEMMA AddOutputGood ==
  ASSUME NEW d, Good(d), NEW s \in Side, NEW n \in Nat
  PROVE  Good(AddOutput(d, s, n)) /\ AddOutput(d, s, n).evshut = d.evshut
  <1>1. AddOutput(d, s, n) \in ClientType
    <2> DEFINE p == IF n > 0 /\ "W" \in d.enabled[s] THEN d.pending[s] \cup {"W"} ELSE d.pending[s]
    <2>1. p \in SUBSET Event
      BY DEF Good, ClientType, Event
    <2> DEFINE q == d.output[s] + n
    <2>2. q \in Nat
      BY DEF Good, ClientType
    <2>3. AddOutput(d, s, n) = [d EXCEPT !.output[s] = q, !.pending[s] = p]
      BY DEF AddOutput
    <2> HIDE DEF p, q
    <2>4. [d EXCEPT !.output[s] = q] \in ClientType
      BY <2>2 DEF Good, ClientType
    <2>5. [d EXCEPT !.output[s] = q, !.pending[s] = p] \in ClientType
      BY <2>1, <2>4, Zenon DEF Good, ClientType
    <2> QED BY <2>3, <2>5
  <1> QED BY <1>1 DEF AddOutput, Good, ClientType, HandshakeOpen, EofForwarded, HalfOpen

LEMMA MoveInputGood ==
  ASSUME NEW d, Good(d), NEW s \in Side
  PROVE  Good(MoveInput(d, s))
  <1> DEFINE e == AddOutput(d, Other(s), d.input[s])
  <1>1. Good(e)
    BY AddOutputGood, SideFacts DEF Good, ClientType
  <1>2. MoveInput(d, s) \in ClientType
    BY <1>1 DEF MoveInput, Good, ClientType
  <1> QED BY <1>1, <1>2, Zenon DEF MoveInput, Good, ClientType, HandshakeOpen, EofForwarded, HalfOpen

\* A shutdown keeps the invariant if it does not shut a write half too early.
LEMMA ShutdownGood ==
  ASSUME NEW d, Good(d), NEW s \in Side, NEW how \in Event,
         how = "W" => "R" \in d.evshut[Other(s)]
  PROVE  Good(redsocks_shutdown(d, s, how))
  <1> DEFINE e == [bufferevent_disable(d, s, {how})
                     EXCEPT !.evshut[s] = @ \cup {how},
                            !.shut[s] = IF how = "R" /\ "W" \in d.evshut[s] THEN @
                                        ELSE @ \cup {how}]
  <1>2. e \in ClientType
    <2> DEFINE f == bufferevent_disable(d, s, {how})
               v == f.evshut[s] \cup {how}
               w == IF how = "R" /\ "W" \in d.evshut[s] THEN f.shut[s] ELSE f.shut[s] \cup {how}
    <2>1. f \in ClientType
      BY DisableGood DEF Good
    <2> HIDE DEF f
    <2>2. v \in SUBSET Event /\ w \in SUBSET Event
      BY <2>1 DEF ClientType
    <2> DEFINE g == [f EXCEPT !.evshut[s] = v]
    <2>3. e = [g EXCEPT !.shut[s] = w]
      BY <2>1 DEF f, ClientType
    <2> HIDE DEF v, w
    <2>4. g \in ClientType
      BY <2>1, <2>2 DEF ClientType
    <2> HIDE DEF e, g
    <2> QED BY <2>2, <2>3, <2>4 DEF ClientType
  <1>3. e.evshut = [d.evshut EXCEPT ![s] = @ \cup {how}]
    BY DEF Good, ClientType, bufferevent_disable
  <1>4. HandshakeOpen(e) /\ e.uaf = FALSE
    BY DEF Good, ClientType, HandshakeOpen, bufferevent_disable
  <1>5. EofForwarded(e)
    <2> HIDE DEF e
    <2> QED BY <1>3, SideFacts DEF Good, ClientType, EofForwarded, Event
  <1>6. CASE \A t \in Side : e.evshut[t] = Event
    <2>1. redsocks_shutdown(d, s, how) = redsocks_drop_client(e)
      BY <1>6 DEF redsocks_shutdown
    <2> HIDE DEF e
    <2> QED BY <2>1, <1>4, DropGood
  <1>7. CASE \E t \in Side : e.evshut[t] # Event
    <2>1. redsocks_shutdown(d, s, how) = e
      BY <1>7 DEF redsocks_shutdown
    <2> HIDE DEF e
    <2> QED BY <2>1, <1>7, <1>2, <1>4, <1>5 DEF Good, HalfOpen
  <1> QED BY <1>6, <1>7

LEMMA EventErrorGood ==
  ASSUME NEW d, Good(d), NEW s \in Side, d.phase # "none"
  PROVE  Good(redsocks_event_error(d, s))
  <1> DEFINE e == redsocks_shutdown(d, s, "R")
             f == [bufferevent_disable(d, s, {"R"})
                     EXCEPT !.evshut[s] = @ \cup {"R"},
                            !.shut[s] = IF "R" = "R" /\ "W" \in d.evshut[s] THEN @
                                        ELSE @ \cup {"R"}]
  <1>1. Good(e)
    BY ShutdownGood DEF Event
  <1>2. f.evshut = [d.evshut EXCEPT ![s] = @ \cup {"R"}]
    BY DEF Good, ClientType, bufferevent_disable
  \* The first shutdown cannot be the last one: if it completed both words, the
  \* other side would have been shut for writing before this side's EOF.
  <1>3. ~ \A t \in Side : f.evshut[t] = Event
    <2> HIDE DEF f
    <2> SUFFICES ASSUME \A t \in Side : f.evshut[t] = Event PROVE FALSE
      OBVIOUS
    <2>1. d.evshut[Other(s)] = Event
      BY <1>2, SideFacts DEF Good, ClientType
    <2>2. "R" \in d.evshut[s]
      BY <2>1, SideFacts DEF Good, EofForwarded, Event
    <2>3. d.evshut[s] = Event
      <3>1. f.evshut[s] = d.evshut[s] \cup {"R"}
        BY <1>2 DEF Good, ClientType
      <3> QED BY <2>2, <3>1
    <2> QED BY <2>1, <2>3, SideFacts DEF Good, HalfOpen
  <1>4. e = f
    BY <1>3 DEF redsocks_shutdown
  <1>5. "R" \in e.evshut[s] /\ e.phase = d.phase
    <2>1. "R" \in f.evshut[s]
      <3> HIDE DEF f
      <3> QED BY <1>2 DEF Good, ClientType
    <2>2. f.phase = d.phase
      BY DEF Good, ClientType, bufferevent_disable
    <2> QED BY <1>4, <2>1, <2>2
  <1> HIDE DEF e, f
  <1>6. redsocks_event_error(d, s) = IF e.output[Other(s)] = 0
                                     THEN redsocks_shutdown(e, Other(s), "W") ELSE e
    BY <1>5 DEF redsocks_event_error, e
  <1>7. Good(redsocks_shutdown(e, Other(s), "W"))
    BY <1>1, <1>5, SideFacts, ShutdownGood DEF Event
  <1> QED BY <1>1, <1>6, <1>7

LEMMA RelayReadcbGood ==
  ASSUME NEW d, Good(d), NEW s \in Side
  PROVE  Good(redsocks_relay_readcb(d, s))
  BY MoveInputGood, DisableGood DEF redsocks_relay_readcb, Event

LEMMA RelayWritecbGood ==
  ASSUME NEW d, Good(d), NEW s \in Side
  PROVE  Good(redsocks_relay_writecb(d, s))
  <1>1. "R" \in d.evshut[s] => Good(redsocks_shutdown(d, Other(s), "W"))
    BY ShutdownGood, SideFacts DEF Event
  <1>2. Good(MoveInput(d, s))
    BY MoveInputGood
  <1>3. Good(bufferevent_enable(MoveInput(d, s), s, {"R"}))
    BY <1>2, EnableGood DEF Event
  <1> QED BY <1>1, <1>3 DEF redsocks_relay_writecb

\* redsocks_start_relay runs when the last reply has been consumed.
LEMMA StartRelayGood ==
  ASSUME NEW d \in ClientType, EofForwarded(d), HalfOpen(d), ~ d.uaf
  PROVE  Good(redsocks_start_relay(d))
  <1> DEFINE w == [s \in Side |-> d.input[s] > 0]
             e == [d EXCEPT !.phase = "relaying", !.fresh = w]
  <1>1. w \in [Side -> BOOLEAN]
    OBVIOUS
  <1>2. redsocks_start_relay(d) =
          bufferevent_enable(bufferevent_enable(e, "client", Event), "relay", Event)
    BY DEF redsocks_start_relay
  <1> HIDE DEF w
  <1>3. e \in ClientType
    BY <1>1 DEF ClientType, Phase
  <1>4. HandshakeOpen(e) /\ EofForwarded(e) /\ HalfOpen(e) /\ ~ e.uaf
    BY DEF ClientType, HandshakeOpen, EofForwarded, HalfOpen
  <1>5. Good(e)
    BY <1>3, <1>4 DEF Good
  <1> HIDE DEF e
  <1>6. Good(bufferevent_enable(e, "client", Event))
    BY <1>5, EnableGood DEF Side
  <1>7. Good(bufferevent_enable(bufferevent_enable(e, "client", Event), "relay", Event))
    BY <1>6, EnableGood DEF Side
  <1> QED BY <1>2, <1>7

LEMMA WriteHelperGood ==
  ASSUME NEW d, Good(d), d.hs > 0
  PROVE  Good(redsocks_write_helper(d))
  <1> DEFINE a == AddOutput(d, "relay", 1)
             e == [a EXCEPT !.phase = "handshake"]
  <1>1. Good(a) /\ a.hs = d.hs
    <2>1. Good(a)
      BY AddOutputGood DEF Side
    <2>2. a.hs = d.hs
      BY DEF AddOutput, Good, ClientType
    <2> QED BY <2>1, <2>2
  <1> HIDE DEF a
  <1>2. e \in ClientType
    BY <1>1 DEF Good, ClientType, Phase
  <1>3. HandshakeOpen(e) /\ EofForwarded(e) /\ HalfOpen(e) /\ ~ e.uaf
    BY <1>1 DEF Good, ClientType, HandshakeOpen, EofForwarded, HalfOpen
  <1>4. Good(e)
    BY <1>2, <1>3 DEF Good
  <1> HIDE DEF e
  <1>5. Good(bufferevent_enable(e, "relay", {"R"}))
    BY <1>4, EnableGood DEF Side, Event
  <1> QED BY <1>5 DEF redsocks_write_helper, e, a

LEMMA HandshakeReplyGood ==
  ASSUME NEW d, Good(d), d.phase = "handshake", d.input["relay"] > 0
  PROVE  Good(HandshakeReply(d))
  <1> DEFINE e == [d EXCEPT !.input["relay"] = @ - 1, !.hs = @ - 1]
  <1>1. d.hs - 1 \in 0 .. Rounds /\ d.input["relay"] - 1 \in Nat
    BY SideFacts DEF Good, ClientType, HandshakeOpen, Side
  <1>2. e \in ClientType
    BY <1>1 DEF Good, ClientType, Side
  <1>3. EofForwarded(e) /\ HalfOpen(e) /\ ~ e.uaf /\ e.phase = "handshake" /\ e.hs = d.hs - 1
    BY DEF Good, ClientType, EofForwarded, HalfOpen
  <1>4. CASE e.hs = 0
    <2>1. HandshakeReply(d) = redsocks_start_relay(e)
      BY <1>4 DEF HandshakeReply
    <2> HIDE DEF e
    <2> QED BY <1>2, <1>3, <2>1, StartRelayGood
  <1>5. CASE e.hs # 0
    <2>1. Good(e) /\ e.hs > 0
      BY <1>1, <1>2, <1>3, <1>5 DEF Good, HandshakeOpen, ClientType
    <2>2. HandshakeReply(d) = redsocks_write_helper(e)
      BY <1>5 DEF HandshakeReply
    <2> HIDE DEF e
    <2> QED BY <2>1, <2>2, WriteHelperGood
  <1> QED BY <1>4, <1>5

LEMMA InputGood ==
  ASSUME NEW d, Good(d), NEW s \in Side, NEW n \in Nat
  PROVE  Good([d EXCEPT !.input[s] = n])
  <1>1. [d EXCEPT !.input[s] = n] \in ClientType
    BY DEF Good, ClientType
  <1> QED BY <1>1 DEF Good, ClientType, HandshakeOpen, EofForwarded, HalfOpen

LEMMA OutputGood ==
  ASSUME NEW d, Good(d), NEW s \in Side, NEW n \in Nat
  PROVE  Good([d EXCEPT !.output[s] = n])
  <1>1. [d EXCEPT !.output[s] = n] \in ClientType
    BY DEF Good, ClientType
  <1> QED BY <1>1 DEF Good, ClientType, HandshakeOpen, EofForwarded, HalfOpen

LEMMA UnregisterGood ==
  ASSUME NEW d, Good(d), NEW s \in Side, NEW evs
  PROVE  Good([d EXCEPT !.pending[s] = @ \ evs])
  <1>1. [d EXCEPT !.pending[s] = @ \ evs] \in ClientType
    BY DEF Good, ClientType
  <1> QED BY <1>1 DEF Good, ClientType, HandshakeOpen, EofForwarded, HalfOpen

LEMMA NetInitType == NetInit \in NetType
  BY BoundsAssumption DEF NetInit, NetType

LEMMA ClosedType == ASSUME NEW n \in NetType PROVE Closed(n) \in NetType
  <1>1. /\ "idle" \in {"idle", "pending", "ok", "refused"}
        /\ [s \in Side |-> 0] \in [Side -> 0 .. SockBuf]
        /\ [s \in Side |-> FALSE] \in [Side -> BOOLEAN]
    BY BoundsAssumption
  <1> QED BY <1>1 DEF Closed, NetType

LEMMA FinishInv ==
  ASSUME NEW d, Good(d), NEW n \in NetType, Finish(d, n)
  PROVE  Inv'
  BY ClosedType DEF Finish, Inv, Good, ClientType, HandshakeOpen, EofForwarded, HalfOpen

-----------------------------------------------------------------------------
(* One lemma per action.                                                   *)

LEMMA AcceptInv ==
  ASSUME Inv, redsocks_accept_client PROVE Inv'
  <1> DEFINE a == [c EXCEPT !.phase = "connecting", !.hs = Rounds,
                            !.enabled = [s \in Side |-> {"W"}]]
             n == [NetInit EXCEPT !.conn = "pending"]
  <1>1. a \in ClientType
    <2>1. Rounds \in 0 .. Rounds /\ [s \in Side |-> {"W"}] \in [Side -> SUBSET Event]
      BY SideFacts DEF Event
    <2> QED BY <2>1 DEF Inv, Good, ClientType, Phase
  <1>2. HandshakeOpen(a) /\ EofForwarded(a) /\ HalfOpen(a) /\ ~ a.uaf
    BY SideFacts DEF Inv, Good, ClientType, HandshakeOpen, EofForwarded, HalfOpen
  <1>3. Good(a)
    BY <1>1, <1>2 DEF Good
  <1>4. n \in NetType
    BY NetInitType DEF NetType
  <1>5. /\ c' = bufferevent_enable(bufferevent_enable(a, "client", {"R"}), "relay", {"W"})
        /\ net' = n
    BY DEF redsocks_accept_client
  <1> HIDE DEF a, n
  <1>6. Good(bufferevent_enable(a, "client", {"R"}))
    BY <1>3, EnableGood DEF Side, Event
  <1>7. Good(bufferevent_enable(bufferevent_enable(a, "client", {"R"}), "relay", {"W"}))
    BY <1>6, EnableGood DEF Side, Event
  <1> QED BY <1>4, <1>5, <1>7 DEF Inv, Good, HandshakeOpen, EofForwarded, HalfOpen

LEMMA ConnectedInv ==
  ASSUME Inv, redsocks_relay_connected PROVE Inv'
  <1> DEFINE e == [c EXCEPT !.pending["relay"] = @ \ {"W"}]
  <1>1. Good(e)
    BY UnregisterGood DEF Inv, Side
  <1>2. e.hs > 0 /\ e.uaf = FALSE
    BY DEF redsocks_relay_connected, Inv, Good, ClientType, HandshakeOpen
  <1>3. Finish(redsocks_write_helper(e), net) \/ Finish(redsocks_drop_client(e), net)
    BY DEF redsocks_relay_connected
  <1> HIDE DEF e
  <1>4. Good(redsocks_write_helper(e)) /\ Good(redsocks_drop_client(e))
    BY <1>1, <1>2, WriteHelperGood, DropGood
  <1> QED BY <1>3, <1>4, FinishInv DEF Inv

LEMMA ReadDataInv ==
  ASSUME Inv, NEW s \in Side, ReadData(s) PROVE Inv'
  <1> DEFINE n == Least(net.rx[s], Least(RoomToRead(c, s), HALFBUFF))
             k == c.input[s] + n
             e == [c EXCEPT !.input[s] = k]
             m == [net EXCEPT !.rx[s] = @ - n]
  <1>1. RoomToRead(c, s) \in Int
    BY BoundsAssumption DEF RoomToRead, ReadHigh, HeadHigh, Inv, Good, ClientType
  <1>2. n \in Nat /\ n > 0 /\ n <= net.rx[s]
    BY <1>1, BoundsAssumption DEF ReadData, Least, Inv, NetType
  <1>3. k \in Nat /\ k > 0
    BY <1>2 DEF Inv, Good, ClientType
  <1>4. \E d \in ReadCallbacks(e, s) : Finish(d, m)
    BY DEF ReadData
  <1>5. m \in NetType
    <2> HIDE DEF n
    <2>1. net.rx[s] - n \in 0 .. SockBuf
      BY <1>2, BoundsAssumption DEF Inv, NetType
    <2> QED BY <2>1 DEF Inv, NetType
  <1> HIDE DEF n, k, m
  <1>6. Good(e) /\ e.phase = c.phase /\ e.input[s] > 0
    BY <1>3, InputGood DEF Inv, Good, ClientType
  <1> HIDE DEF e
  <1>7. ASSUME NEW d \in ReadCallbacks(e, s) PROVE Good(d)
    <2>1. e.phase = "relaying" => d = redsocks_relay_readcb(e, s)
      BY DEF ReadCallbacks
    <2>2. e.phase = "handshake" /\ s = "relay"
            => d \in {HandshakeReply(e), redsocks_drop_client(e)}
      BY DEF ReadCallbacks
    <2>3. e.phase # "relaying" /\ ~(e.phase = "handshake" /\ s = "relay") => d = e
      BY DEF ReadCallbacks
    <2>4. e.uaf = FALSE
      BY <1>6 DEF Good, ClientType
    <2>5. Good(redsocks_drop_client(e))
      BY <2>4, DropGood
    <2>6. e.phase = "handshake" /\ s = "relay" => Good(HandshakeReply(e))
      BY <1>6, HandshakeReplyGood
    <2> QED BY <1>6, <2>1, <2>2, <2>3, <2>5, <2>6, RelayReadcbGood
  <1> QED BY <1>4, <1>5, <1>7, FinishInv

LEMMA AuthRetryInv ==
  ASSUME Inv, AuthRetry PROVE Inv'
  <1> DEFINE a == [c EXCEPT !.phase = "connecting", !.hs = Rounds,
                            !.input["relay"] = 0, !.output["relay"] = 0,
                            !.pending["relay"] = {}, !.shut["relay"] = {},
                            !.enabled["relay"] = {"W"}]
             n == [net EXCEPT !.conn = "pending",
                              !.rx["relay"] = 0, !.tx["relay"] = 0,
                              !.fin["relay"] = FALSE, !.rst["relay"] = FALSE,
                              !.sent["relay"] = 0, !.got["relay"] = 0]
  <1>1. a \in ClientType
    <2> DEFINE a1 == [c EXCEPT !.phase = "connecting", !.hs = Rounds]
               a2 == [a1 EXCEPT !.input["relay"] = 0, !.output["relay"] = 0]
               a3 == [a2 EXCEPT !.pending["relay"] = {}, !.shut["relay"] = {},
                                !.enabled["relay"] = {"W"}]
    <2>1. Rounds \in 0 .. Rounds
      BY SideFacts
    <2>2. a1 \in ClientType
      BY <2>1 DEF Inv, Good, ClientType, Phase
    <2>3. a = a3
      OBVIOUS
    <2> HIDE DEF a1
    <2>4. a2 \in ClientType
      BY <2>2 DEF ClientType
    <2> HIDE DEF a2
    <2>5. a3 \in ClientType
      BY <2>4 DEF ClientType, Event
    <2> QED BY <2>3, <2>5
  <1>2. HandshakeOpen(a) /\ EofForwarded(a) /\ HalfOpen(a) /\ ~ a.uaf
    BY SideFacts DEF Inv, Good, ClientType, HandshakeOpen, EofForwarded, HalfOpen
  <1>3. Good(a)
    BY <1>1, <1>2 DEF Good
  <1>4. n \in NetType
    <2> DEFINE n1 == [net EXCEPT !.conn = "pending", !.rx["relay"] = 0, !.tx["relay"] = 0]
               n2 == [n1 EXCEPT !.fin["relay"] = FALSE, !.rst["relay"] = FALSE]
               n3 == [n2 EXCEPT !.sent["relay"] = 0, !.got["relay"] = 0]
    <2>1. 0 \in 0 .. SockBuf
      BY BoundsAssumption
    <2>2. n1 \in NetType
      BY <2>1 DEF Inv, NetType
    <2>3. n = n3
      OBVIOUS
    <2> HIDE DEF n1
    <2>4. n2 \in NetType
      BY <2>2 DEF NetType
    <2> HIDE DEF n2
    <2>5. n3 \in NetType
      BY <2>4 DEF NetType
    <2> QED BY <2>3, <2>5
  <1>5. \/ c' = bufferevent_enable(a, "relay", {"W"}) /\ net' = n
        \/ Finish(redsocks_drop_client(c), net)
    BY DEF AuthRetry
  <1> HIDE DEF a, n
  <1>6. Good(bufferevent_enable(a, "relay", {"W"}))
    BY <1>3, EnableGood DEF Side, Event
  <1>7. Good(redsocks_drop_client(c))
    BY DropGood DEF Inv, Good, ClientType
  <1>8. CASE c' = bufferevent_enable(a, "relay", {"W"}) /\ net' = n
    BY <1>4, <1>6, <1>8 DEF Inv, Good, HandshakeOpen, EofForwarded, HalfOpen
  <1>9. CASE Finish(redsocks_drop_client(c), net)
    BY <1>7, <1>9, FinishInv DEF Inv
  <1> QED BY <1>5, <1>8, <1>9

LEMMA ReadEOFInv ==
  ASSUME Inv, NEW s \in Side, ReadEOF(s) PROVE Inv'
  <1> DEFINE e == bufferevent_disable(c, s, {"R"})
  <1>1. Good(e) /\ e.phase # "none"
    BY DisableGood DEF Inv, ReadEOF, Registered, Event
  <1>2. Finish(redsocks_event_error(e, s), net)
    BY DEF ReadEOF
  <1> HIDE DEF e
  <1> QED BY <1>1, <1>2, EventErrorGood, FinishInv DEF Inv

LEMMA ReadSuspendInv ==
  ASSUME Inv, NEW s \in Side, ReadSuspend(s) PROVE Inv'
  <1> DEFINE e == [c EXCEPT !.suspended[s] = TRUE, !.pending[s] = @ \ {"R"}]
  <1>1. e \in ClientType
    BY DEF Inv, Good, ClientType
  <1>2. Good(e)
    BY <1>1 DEF Inv, Good, ClientType, HandshakeOpen, EofForwarded, HalfOpen
  <1>3. Finish(e, net)
    BY DEF ReadSuspend
  <1> HIDE DEF e
  <1> QED BY <1>2, <1>3, FinishInv DEF Inv

LEMMA WriteReadyInv ==
  ASSUME Inv, NEW s \in Side, WriteReady(s) PROVE Inv'
  <1> DEFINE n == Least(c.output[s], SockBuf - net.tx[s])
             k == c.output[s] - n
             d == [c EXCEPT !.output[s] = k]
             e == [d EXCEPT !.pending[s] = @ \ {"W"}]
             m == [net EXCEPT !.tx[s] = @ + n]
  <1>1. n \in Nat /\ n <= c.output[s] /\ n <= SockBuf - net.tx[s]
    BY BoundsAssumption DEF WriteReady, Least, Inv, Good, ClientType, NetType
  <1>2. k \in Nat
    BY <1>1 DEF Inv, Good, ClientType
  <1>3. m \in NetType
    <2> HIDE DEF n
    <2>1. net.tx[s] + n \in 0 .. SockBuf
      BY <1>1, BoundsAssumption DEF Inv, NetType
    <2> QED BY <2>1 DEF Inv, NetType
  <1>4. Finish(IF d.output[s] > 0 THEN d ELSE WriteCallbacks(e, s), m)
    BY DEF WriteReady
  <1> HIDE DEF n, k, m
  <1>5. Good(d)
    BY <1>2, OutputGood DEF Inv
  <1> HIDE DEF d
  <1>6. Good(e)
    BY <1>5, UnregisterGood
  <1> HIDE DEF e
  <1>7. Good(redsocks_relay_writecb(e, Other(s)))
    BY <1>6, SideFacts, RelayWritecbGood
  <1>8. Good(HandshakeWritten(e))
    BY <1>6, DisableGood DEF HandshakeWritten, Side, Event
  <1>9. Good(WriteCallbacks(e, s))
    BY <1>7, <1>8 DEF WriteCallbacks
  <1>10. Good(IF d.output[s] > 0 THEN d ELSE WriteCallbacks(e, s))
    BY <1>5, <1>9
  <1> QED BY <1>3, <1>4, <1>10, FinishInv

LEMMA IOErrorInv ==
  ASSUME Inv, NEW s \in Side, IOError(s) PROVE Inv'
  <1>1. Good(redsocks_drop_client(c))
    BY DropGood DEF Inv, Good, ClientType
  <1> QED BY <1>1, FinishInv DEF IOError, Inv

LEMMA PeersInv ==
  ASSUME Inv, Peers PROVE Inv'
  <1>1. ASSUME NEW r \in {"ok", "refused"}, ConnectDone(r) PROVE net' \in NetType /\ UNCHANGED c
    BY <1>1 DEF ConnectDone, Inv, NetType
  <1>2. ASSUME NEW s \in Side, PeerSend(s) PROVE net' \in NetType /\ UNCHANGED c
    <2>1. net.rx[s] + 1 \in 0 .. SockBuf /\ net.sent[s] + 1 \in Nat
      BY <1>2, BoundsAssumption DEF PeerSend, Inv, NetType
    <2> QED BY <1>2, <2>1 DEF PeerSend, Inv, NetType
  <1>3. ASSUME NEW s \in Side, PeerRead(s) PROVE net' \in NetType /\ UNCHANGED c
    <2>1. net.tx[s] - 1 \in 0 .. SockBuf /\ net.got[s] + 1 \in Nat
      BY <1>3, BoundsAssumption DEF PeerRead, Inv, NetType
    <2> QED BY <1>3, <2>1 DEF PeerRead, Inv, NetType
  <1>4. ASSUME NEW s \in Side, PeerClose(s) PROVE net' \in NetType /\ UNCHANGED c
    BY <1>4 DEF PeerClose, Inv, NetType
  <1>5. ASSUME NEW s \in Side, PeerReset(s) PROVE net' \in NetType /\ UNCHANGED c
    BY <1>5 DEF PeerReset, Inv, NetType
  <1>6. net' \in NetType /\ UNCHANGED c
    BY <1>1, <1>2, <1>3, <1>4, <1>5 DEF Peers
  <1> QED BY <1>6 DEF Inv, Good, HandshakeOpen, EofForwarded, HalfOpen

-----------------------------------------------------------------------------

\* The invariant holds in every reachable state: the flag words of the two
\* sockets are ordered and never both complete while the client exists.
THEOREM InvHolds == Spec => []Inv
  <1>1. Init => Inv
    BY FreedGood, NetInitType DEF Init, Inv, Good, HandshakeOpen, EofForwarded, HalfOpen
  <1>2. Inv /\ [Next]_vars => Inv'
    <2> SUFFICES ASSUME Inv, [Next]_vars PROVE Inv'
      OBVIOUS
    <2>1. CASE UNCHANGED vars
      BY <2>1 DEF vars, Inv, Good, HandshakeOpen, EofForwarded, HalfOpen
    <2>2. CASE Next
      BY <2>2, AcceptInv, ConnectedInv, ReadDataInv, AuthRetryInv, ReadEOFInv,
         ReadSuspendInv, WriteReadyInv, IOErrorInv, PeersInv DEF Next, Dispatch
    <2> QED BY <2>1, <2>2
  <1> QED BY <1>1, <1>2, PTL DEF Spec

\* Client structure and kernel state stay well formed.
THEOREM TypeCorrect == Spec => []TypeOK
  <1>1. Inv => TypeOK
    BY DEF Inv, Good, TypeOK
  <1> QED BY <1>1, InvHolds, PTL

\* redsocks_event_error never touches a client that its own first shutdown has
\* freed.
THEOREM NoUseAfterFreeHolds == Spec => []NoUseAfterFree
  <1>1. Inv => NoUseAfterFree
    BY DEF Inv, Good, NoUseAfterFree
  <1> QED BY <1>1, InvHolds, PTL

\* No half is shut for writing before the other side's end of stream was seen.
THEOREM EofIsForwardedHolds == Spec => []EofIsForwarded
  <1>1. Inv => EofIsForwarded
    BY DEF Inv, Good, EofForwarded, EofIsForwarded
  <1> QED BY <1>1, InvHolds, PTL
=============================================================================

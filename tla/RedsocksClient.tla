--------------------------- MODULE RedsocksClient ---------------------------
(***************************************************************************)
(* One TCP connection that redsocks redirects (src/jni/redsocks/redsocks.c)*)
(*                                                                         *)
(* redsocks accepts the connection of a local client, connects to a proxy  *)
(* (the "relay"), runs the handshake of the configured protocol and then   *)
(* copies bytes both ways until both directions are shut down.  Each of    *)
(* the two sockets is driven by a libevent 2.0.21 bufferevent; everything  *)
(* runs in the callbacks of one single-threaded, level-triggered event     *)
(* loop, so a step of this model is the dispatch of ONE ready event with   *)
(* every callback it runs, or a step of one of the two remote peers.       *)
(*                                                                         *)
(* What is kept: which events are enabled and registered, the lengths of   *)
(* the evbuffers, the watermarks, the shutdown flags and the order of all  *)
(* calls.  What is abstracted: the bytes (a buffer is its length, counted  *)
(* in units), the contents of handshake messages (one unit each; HttpAuth  *)
(* has the choice of credentials) and the addresses.                       *)
(***************************************************************************)
EXTENDS Integers, FiniteSets

CONSTANTS
    Proto,     \* the handshake protocol of the instance (redsocks_config.type)
    HALFBUFF,  \* REDSOCKS_RELAY_HALFBUFF = EVBUFFER_MAX_READ = HTTP_HEAD_WM_HIGH
    SockBuf,   \* bound: units a kernel socket buffer holds
    MaxSend    \* bound: payload units a peer sends on one connection

ASSUME ProtoAssumption == Proto \in {"socks4", "socks5", "http-connect"}
ASSUME BoundsAssumption == /\ HALFBUFF \in Nat \ {0}
                           /\ SockBuf \in Nat \ {0}
                           /\ MaxSend \in Nat

Side == {"client", "relay"}
Event == {"R", "W"}          \* EV_READ, EV_WRITE

\* The bufferevent on the other end of the redirection (antiev, from/to).
Other(s) == IF s = "client" THEN "relay" ELSE "client"

Least(a, b) == IF a <= b THEN a ELSE b

VARIABLES
    c,    \* the redsocks_client and its two bufferevents
    net   \* kernel socket buffers and the two remote peers

vars == <<c, net>>

-----------------------------------------------------------------------------
(* The client structure.  phase is "none" while nothing is allocated,      *)
(* "connecting" until redsocks_relay_connected ran, "handshake" until      *)
(* redsocks_start_relay, then "relaying".  hs counts the handshake replies *)
(* still to come.  evshut is what redsocks believes it has shut down, shut *)
(* what shutdown() was really called for on the present sockets.  Two      *)
(* history fields: uaf records that freed memory was used, and fresh[s]    *)
(* that input read before redsocks_start_relay still waits to be forwarded.*)

Phase == {"none", "connecting", "handshake", "relaying"}

Freed == [phase     |-> "none",
          hs        |-> 0,
          input     |-> [s \in Side |-> 0],
          output    |-> [s \in Side |-> 0],
          enabled   |-> [s \in Side |-> {}],
          pending   |-> [s \in Side |-> {}],
          suspended |-> [s \in Side |-> FALSE],
          evshut    |-> [s \in Side |-> {}],
          shut      |-> [s \in Side |-> {}],
          fresh     |-> [s \in Side |-> FALSE],
          uaf       |-> FALSE]

NetInit == [conn |-> "idle",
            rx   |-> [s \in Side |-> 0],      \* received, not read by redsocks
            tx   |-> [s \in Side |-> 0],      \* written, not read by the peer
            fin  |-> [s \in Side |-> FALSE],  \* the peer has closed its end
            rst  |-> [s \in Side |-> FALSE],  \* the peer has reset the connection
            sent |-> [s \in Side |-> 0],      \* units the peer has sent
            got  |-> [s \in Side |-> 0]]      \* units the peer has read

\* Request/reply rounds of the handshake, each one unit of data: socks4 and
\* http-connect have one, socks5 the method choice and the connect command.
\* (With a password socks5 has a third one, of the same shape.)
Rounds == IF Proto = "socks5" THEN 2 ELSE 1

\* wm_read.high of the relay while the handshake runs.
HeadHigh == IF Proto = "http-connect" THEN HALFBUFF ELSE 1

\* wm_read.high now; 0 is "no limit".
ReadHigh(d, s) == IF d.phase = "relaying" THEN HALFBUFF
                  ELSE IF s = "relay" THEN HeadHigh ELSE 0

-----------------------------------------------------------------------------
(* libevent operations on the bufferevent of side s.                       *)

bufferevent_enable(d, s, evs) ==
    [d EXCEPT !.enabled[s] = @ \cup evs,
              !.pending[s] = @ \cup (IF d.suspended[s] THEN evs \ {"R"} ELSE evs)]

bufferevent_disable(d, s, evs) ==
    [d EXCEPT !.enabled[s] = @ \ evs, !.pending[s] = @ \ evs]

\* Appending n units to the output registers the write event if it is enabled.
AddOutput(d, s, n) ==
    [d EXCEPT !.output[s] = @ + n,
              !.pending[s] = IF n > 0 /\ "W" \in d.enabled[s] THEN @ \cup {"W"} ELSE @]

\* bufferevent_write_buffer(to, from->input): all of the input is moved.
MoveInput(d, from) ==
    [AddOutput(d, Other(from), d.input[from])
        EXCEPT !.input[from] = 0,
               !.fresh[from] = @ /\ "W" \in d.shut[Other(from)]]

-----------------------------------------------------------------------------
(* redsocks functions, as functions of the client structure.               *)

\* Both sockets are closed, both bufferevents and the client are freed.
redsocks_drop_client(d) == [Freed EXCEPT !.uaf = d.uaf]

\* Fault: the last shutdown does not release the client.
redsocks_shutdown_NoDrop(d, s, how) ==
    [bufferevent_disable(d, s, {how}) EXCEPT !.evshut[s] = @ \cup {how},
                                             !.shut[s] = @ \cup {how}]

redsocks_shutdown(d, s, how) ==
    LET e == [bufferevent_disable(d, s, {how})
                EXCEPT !.evshut[s] = @ \cup {how},
                       !.shut[s] = IF how = "R" /\ "W" \in d.evshut[s] THEN @
                                   ELSE @ \cup {how}]
    IN  IF \A t \in Side : e.evshut[t] = Event THEN redsocks_drop_client(e) ELSE e

\* Fault: the EOF is passed on although output is still waiting.
redsocks_event_error_Eager(d, s) ==
    redsocks_shutdown(redsocks_shutdown(d, s, "R"), Other(s), "W")

\* READ|EOF.  antiev is inspected after the first shutdown, which may have
\* freed the client.
redsocks_event_error(d, s) ==
    LET e == redsocks_shutdown(d, s, "R")
        antiev == Other(s)
    IN  IF e.phase = "none" THEN [e EXCEPT !.uaf = TRUE]
        ELSE IF e.output[antiev] = 0 THEN redsocks_shutdown(e, antiev, "W")
        ELSE e

\* Fault: no look at the high watermark of the output.
redsocks_relay_readcb_NoLimit(d, from) == MoveInput(d, from)

\* Fault: what does not fit is thrown away.
redsocks_relay_readcb_Discards(d, from) ==
    IF d.output[Other(from)] < HALFBUFF THEN MoveInput(d, from)
    ELSE [bufferevent_disable(d, from, {"R"}) EXCEPT !.input[from] = 0]

redsocks_relay_readcb(d, from) ==
    IF d.output[Other(from)] < HALFBUFF THEN MoveInput(d, from)
    ELSE bufferevent_disable(d, from, {"R"})

\* Fault: an empty input is taken for the end of the stream.
redsocks_relay_writecb_NoEofCheck(d, from) ==
    IF d.input[from] = 0 THEN redsocks_shutdown(d, Other(from), "W")
    ELSE IF d.output[Other(from)] < HALFBUFF
         THEN bufferevent_enable(MoveInput(d, from), from, {"R"})
         ELSE d

\* Fault: reading that was paused is not started again.
redsocks_relay_writecb_NoResume(d, from) ==
    IF d.input[from] = 0 /\ "R" \in d.evshut[from]
    THEN redsocks_shutdown(d, Other(from), "W")
    ELSE IF d.output[Other(from)] < HALFBUFF THEN MoveInput(d, from) ELSE d

redsocks_relay_writecb(d, from) ==
    LET to == Other(from)
    IN  IF d.input[from] = 0 /\ "R" \in d.evshut[from] THEN redsocks_shutdown(d, to, "W")
        ELSE IF d.output[to] < HALFBUFF
             THEN bufferevent_enable(MoveInput(d, from), from, {"R"})
             ELSE d

redsocks_start_relay(d) ==
    LET e == [d EXCEPT !.phase = "relaying",
                       !.fresh = [s \in Side |-> d.input[s] > 0]]
    IN  bufferevent_enable(bufferevent_enable(e, "client", Event), "relay", Event)

\* Queue one request to the relay and wait for its reply.
redsocks_write_helper(d) ==
    bufferevent_enable([AddOutput(d, "relay", 1) EXCEPT !.phase = "handshake"],
                       "relay", {"R"})

\* readcb of the protocol: one reply is consumed; unless it was the last, the
\* next request follows.
HandshakeReply(d) ==
    LET e == [d EXCEPT !.input["relay"] = @ - 1, !.hs = @ - 1]
    IN  IF e.hs = 0 THEN redsocks_start_relay(e) ELSE redsocks_write_helper(e)

\* writecb of the protocol once the request is written.
HandshakeWritten(d) ==
    IF Proto = "socks5" THEN d ELSE bufferevent_disable(d, "relay", {"W"})

-----------------------------------------------------------------------------
(* Event loop steps.                                                       *)

\* What is left of kernel state n after close() of both sockets: the counts of the
\* peers, which accept() of the next connection clears.
Closed(n) == [n EXCEPT !.conn = "idle", !.rx = [s \in Side |-> 0],
                       !.rst = [s \in Side |-> FALSE]]

\* The step ends with client structure d; the kernel state is n, unless the
\* client was dropped, which closes both sockets.
Finish(d, n) == /\ c' = d
                /\ net' = IF d.phase = "none" THEN Closed(n) ELSE n

\* The bufferevent of s exists and waits for event ev.
Registered(s, ev) == c.phase # "none" /\ ev \in c.pending[s]

Init == /\ c = Freed
        /\ net = NetInit

\* accept() succeeded; the relay socket starts to connect.  A failing
\* red_connect_relay drops the client at once, which is no change of state.
redsocks_accept_client ==
    /\ c.phase = "none"
    /\ c' = bufferevent_enable(
              bufferevent_enable([c EXCEPT !.phase = "connecting", !.hs = Rounds,
                                           !.enabled = [s \in Side |-> {"W"}]],
                                 "client", {"R"}),
              "relay", {"W"})
    /\ net' = [NetInit EXCEPT !.conn = "pending"]

\* The relay socket turned writable: the connection is there or has failed.
redsocks_relay_connected ==
    /\ c.phase = "connecting"
    /\ Registered("relay", "W")
    /\ net.conn \in {"ok", "refused"}
    /\ LET e == [c EXCEPT !.pending["relay"] = @ \ {"W"}]
       IN  \/ /\ net.conn = "ok"
              /\ Finish(redsocks_write_helper(e), net)
           \/ Finish(redsocks_drop_client(e), net)   \* refused, or out of memory

\* What bufferevent_readcb runs once n more units are in the input.
ReadCallbacks(d, s) ==
    CASE d.phase = "relaying"                   -> {redsocks_relay_readcb(d, s)}
      [] d.phase = "handshake" /\ s = "relay"   -> {HandshakeReply(d), redsocks_drop_client(d)}
      [] OTHER                                  -> {d}

\* May the read event of s read now, or has the high watermark been reached?
RoomToRead(d, s) ==
    IF ReadHigh(d, s) = 0 THEN HALFBUFF ELSE ReadHigh(d, s) - d.input[s]

\* bufferevent_readcb finds data.
ReadData(s) ==
    /\ Registered(s, "R")
    /\ net.rx[s] > 0
    /\ RoomToRead(c, s) > 0
    /\ LET n == Least(net.rx[s], Least(RoomToRead(c, s), HALFBUFF))
       IN  \E d \in ReadCallbacks([c EXCEPT !.input[s] = @ + n], s) :
              Finish(d, [net EXCEPT !.rx[s] = @ - n])

\* httpc_read_cb gets "407": the relay connection is closed and a new one is
\* made, with the same redsocks_client.  relay_evshut keeps its value.
AuthRetry ==
    /\ Proto = "http-connect" /\ c.phase = "handshake"
    /\ Registered("relay", "R")
    /\ net.rx["relay"] > 0
    /\ RoomToRead(c, "relay") > 0
    /\ \/ /\ c' = bufferevent_enable(
                     [c EXCEPT !.phase = "connecting", !.hs = Rounds,
                               !.input["relay"] = 0, !.output["relay"] = 0,
                               !.pending["relay"] = {}, !.shut["relay"] = {},
                               !.enabled["relay"] = {"W"}],
                     "relay", {"W"})
          /\ net' = [net EXCEPT !.conn = "pending",
                                !.rx["relay"] = 0, !.tx["relay"] = 0,
                                !.fin["relay"] = FALSE, !.rst["relay"] = FALSE,
                                !.sent["relay"] = 0, !.got["relay"] = 0]
       \/ Finish(redsocks_drop_client(c), net)

\* bufferevent_readcb finds the end of the stream, or the read half it has
\* itself shut down.
ReadEOF(s) ==
    /\ Registered(s, "R")
    /\ net.rx[s] = 0 /\ ~ net.rst[s]
    /\ net.fin[s] \/ "R" \in c.shut[s]
    /\ RoomToRead(c, s) > 0
    /\ Finish(redsocks_event_error(bufferevent_disable(c, s, {"R"}), s), net)

\* bufferevent_readcb finds the input at its high watermark.  redsocks sets the
\* watermark fields itself, so no evbuffer callback ever lifts the suspension.
ReadSuspend(s) ==
    /\ Registered(s, "R")
    /\ net.rx[s] > 0 \/ net.fin[s] \/ net.rst[s] \/ "R" \in c.shut[s]
    /\ RoomToRead(c, s) <= 0
    /\ Finish([c EXCEPT !.suspended[s] = TRUE, !.pending[s] = @ \ {"R"}], net)

WriteCallbacks(d, s) ==
    IF d.phase = "relaying" THEN redsocks_relay_writecb(d, Other(s))
    ELSE HandshakeWritten(d)

\* bufferevent_writecb: write what the kernel takes; when the output is empty
\* unregister the event and run the callback (wm_write.low is 0).
WriteReady(s) ==
    /\ Registered(s, "W")
    /\ c.phase \in {"handshake", "relaying"}
    /\ ~ net.rst[s]
    /\ IF "W" \in c.shut[s] THEN c.output[s] = 0 ELSE net.tx[s] < SockBuf
    /\ LET n == Least(c.output[s], SockBuf - net.tx[s])
           d == [c EXCEPT !.output[s] = @ - n]
       IN  Finish(IF d.output[s] > 0 THEN d
                  ELSE WriteCallbacks([d EXCEPT !.pending[s] = @ \ {"W"}], s),
                  [net EXCEPT !.tx[s] = @ + n])

\* A read or write fails (reset by the peer; EPIPE after our own SHUT_WR).
IOError(s) ==
    /\ c.phase # "none"
    /\ \/ c.pending[s] # {} /\ net.rst[s]
       \/ Registered(s, "W") /\ "W" \in c.shut[s] /\ c.output[s] > 0
    /\ Finish(redsocks_drop_client(c), net)

-----------------------------------------------------------------------------
(* The remote peers and the network.                                       *)

\* The connection attempt ends, unless SHUT_WR has aborted it.
ConnectDone(result) ==
    /\ net.conn = "pending"
    /\ "W" \notin c.shut["relay"]
    /\ net' = [net EXCEPT !.conn = result]
    /\ UNCHANGED c

PeerUp(s) == /\ c.phase # "none"
             /\ ~ net.rst[s]
             /\ s = "relay" => net.conn = "ok"

\* Units peer s sends on one connection at most: the proxy's replies come first.
SendBound(s) == IF s = "relay" THEN Rounds + MaxSend ELSE MaxSend

\* The proxy answers a request only after it has read it.
PeerSend(s) ==
    /\ PeerUp(s)
    /\ ~ net.fin[s]
    /\ net.sent[s] < SendBound(s)
    /\ net.rx[s] < SockBuf
    /\ (s = "relay" /\ net.sent[s] < Rounds) => net.got[s] > net.sent[s]
    /\ net' = [net EXCEPT !.sent[s] = @ + 1, !.rx[s] = @ + 1]
    /\ UNCHANGED c

PeerRead(s) ==
    /\ PeerUp(s)
    /\ net.tx[s] > 0
    /\ net' = [net EXCEPT !.tx[s] = @ - 1, !.got[s] = @ + 1]
    /\ UNCHANGED c

PeerClose(s) ==
    /\ PeerUp(s)
    /\ ~ net.fin[s]
    /\ net' = [net EXCEPT !.fin[s] = TRUE]
    /\ UNCHANGED c

PeerReset(s) ==
    /\ PeerUp(s)
    /\ net' = [net EXCEPT !.rst[s] = TRUE]
    /\ UNCHANGED c

-----------------------------------------------------------------------------
Dispatch == \/ redsocks_relay_connected
            \/ AuthRetry
            \/ \E s \in Side : \/ ReadData(s)
                               \/ ReadEOF(s)
                               \/ ReadSuspend(s)
                               \/ WriteReady(s)
                               \/ IOError(s)

Peers == \/ \E r \in {"ok", "refused"} : ConnectDone(r)
         \/ \E s \in Side : PeerSend(s) \/ PeerRead(s) \/ PeerClose(s) \/ PeerReset(s)

Next == redsocks_accept_client \/ Dispatch \/ Peers

Spec == Init /\ [][Next]_vars

\* The event loop dispatches every event that stays ready; a connection attempt
\* ends; a peer that has data to read reads it.  Nothing makes a peer send,
\* close or reset.
Fairness == /\ WF_vars(redsocks_relay_connected)
            /\ WF_vars(\E r \in {"ok", "refused"} : ConnectDone(r))
            /\ \A s \in Side : /\ WF_vars(ReadData(s))
                               /\ WF_vars(ReadEOF(s))
                               /\ WF_vars(ReadSuspend(s))
                               /\ WF_vars(WriteReady(s))
                               /\ WF_vars(IOError(s))
                               /\ WF_vars(PeerRead(s))

FairSpec == Spec /\ Fairness

-----------------------------------------------------------------------------
(* Properties.                                                             *)

ClientType ==
    [phase     : Phase,
     hs        : 0 .. Rounds,
     input     : [Side -> Nat],
     output    : [Side -> Nat],
     enabled   : [Side -> SUBSET Event],
     pending   : [Side -> SUBSET Event],
     suspended : [Side -> BOOLEAN],
     evshut    : [Side -> SUBSET Event],
     shut      : [Side -> SUBSET Event],
     fresh     : [Side -> BOOLEAN],
     uaf       : BOOLEAN]

NetType ==
    [conn : {"idle", "pending", "ok", "refused"},
     rx   : [Side -> 0 .. SockBuf],
     tx   : [Side -> 0 .. SockBuf],
     fin  : [Side -> BOOLEAN],
     rst  : [Side -> BOOLEAN],
     sent : [Side -> Nat],
     got  : [Side -> Nat]]

\* The client structure and the kernel state are well formed; in particular no
\* buffer length or reply count goes below zero.
TypeOK == c \in ClientType /\ net \in NetType

\* redsocks_event_error never uses the client after its own redsocks_shutdown
\* has freed it: the first of the two shutdowns is never the one that completes
\* both flag words.
NoUseAfterFree == ~ c.uaf

\* A half is shut down for writing only after the other side's end of stream:
\* an EOF travels through redsocks, it is never invented.
EofIsForwarded == \A s \in Side : "W" \in c.evshut[Other(s)] => "R" \in c.evshut[s]

\* Requests queued to the proxy so far on the present relay connection.
Requests == CASE c.phase \in {"none", "connecting"} -> 0
              [] c.phase = "handshake" -> Rounds - c.hs + 1
              [] OTHER -> Rounds

\* No unit is lost, duplicated or taken for handshake data: what a peer has sent
\* is in the socket buffer, the input, the other side's output or socket buffer,
\* or with the other peer, apart from the requests and replies of the handshake.
StreamsIntact ==
    c.phase # "none" =>
      /\ net.sent["client"] + Requests = net.rx["client"] + c.input["client"]
            + c.output["relay"] + net.tx["relay"] + net.got["relay"]
      /\ net.sent["relay"] = net.rx["relay"] + c.input["relay"] + (Rounds - c.hs)
            + c.output["client"] + net.tx["client"] + net.got["client"]

\* While relaying, the FIN passed on to one side comes after all the data of the
\* other side, except for data that was buffered before the relaying started.
EofAfterData ==
    c.phase = "relaying" =>
      \A s \in Side : ("W" \in c.shut[Other(s)] /\ ~ c.fresh[s]) =>
        c.input[s] = 0 /\ net.rx[s] = 0 /\ c.output[Other(s)] = 0 /\ net.fin[s]

\* A step of a relaying connection with no buffer grown beyond its limit.
WithinLimits ==
    (c.phase = "relaying" /\ c'.phase = "relaying") =>
       \A s \in Side :
          /\ c'.input[s] > c.input[s] => c'.input[s] <= HALFBUFF
          /\ (c'.output[s] > c.output[s] /\ ~ (s = "relay" /\ c.fresh["client"])) =>
               c'.output[s] < 2 * HALFBUFF

\* Back-pressure in both directions: while relaying, no step makes an input grow beyond
\* one half buffer or an output to two or more, however fast one peer sends and however
\* slowly the other reads.  Excepted by name (fresh): the move of what the client had
\* sent before the relaying started, which nothing limits.
BoundedBuffers == [][WithinLimits]_vars

\* While relaying, each direction that is not finished has an event registered
\* that moves it on: a read event, or a write event whose callback flushes the
\* output, restarts the reading or forwards the EOF.  The exception is a read
\* suspended at the high watermark, which nothing lifts.
DirectionAlive ==
    c.phase = "relaying" =>
      \A s \in Side :
        \/ "W" \in c.shut[Other(s)]
        \/ "W" \in c.pending[Other(s)]
        \/ /\ "R" \in c.pending[s] \/ c.suspended[s]
           /\ "R" \notin c.evshut[s]
           /\ c.output[Other(s)] = 0

\* The proxy's end of stream was passed on to the client ahead of data that was read
\* together with the last reply of the handshake: redsocks_event_error looks at the
\* output only, and that data is still in the input.
EofOvertook == c.fresh["relay"] /\ "W" \in c.shut["client"]

\* Once relaying has begun, the client comes to have all that the proxy has sent, what
\* came together with the last reply included, unless the connection is dropped, the
\* client has reset it, or the end of the stream has overtaken the data (EofOvertook).
ReplyDelivered ==
    c.phase = "relaying" ~> (\/ net.got["client"] = net.sent["relay"] - Rounds
                             \/ c.phase = "none" \/ net.rst["client"] \/ EofOvertook)

\* When both peers have closed, the connection is dropped and its memory and
\* sockets are released, unless reading from the client is suspended for good.
ClosedIsDropped ==
    (c.phase = "relaying" /\ \A s \in Side : net.fin[s])
        ~> (c.phase = "none" \/ c.suspended["client"])

\* Reading is enabled on the client before the relay is connected so that a
\* client that closes early is noticed: its connection leaves the connecting
\* phase, by a successful connect or by being dropped.
EarlyCloseHandled ==
    (c.phase = "connecting" /\ net.fin["client"]) ~> (c.phase # "connecting")
-----------------------------------------------------------------------------
(* The promise to the peers.  The relayed stream begins with               *)
(* redsocks_start_relay, or, if input was read before, when that input has *)
(* been moved on; a reset breaks it.  Nothing is promised either while     *)
(* relay_evshut is stale: after a retry with authentication it says of the *)
(* new socket that it was shut down, which was true of the old one.        *)

StaleShut == \E s \in Side : "W" \in c.evshut[s] /\ "W" \notin c.shut[s]

Begun == c.phase = "relaying" /\ ~ StaleShut /\ \A s \in Side : ~ c.fresh[s]

Mode == IF ~ Begun THEN "closed"
        ELSE IF \E s \in Side : net.rst[s] THEN "broken" ELSE "open"

Promise == INSTANCE StreamRelay WITH
    EndsWithOne <- FALSE,
    mode <- Mode,
    fin  <- net.fin,
    sent <- [net.sent EXCEPT !["relay"] = @ - Rounds],
    out  <- [s \in Side |-> net.tx[s] + net.got[s] - (IF s = "relay" THEN Rounds ELSE 0)],
    eof  <- [s \in Side |-> "W" \in c.shut[s]]

\* redsocks implements StreamRelay: what either peer sends is forwarded whole, its end
\* is passed on after it, and a connection nobody has reset lasts until both streams
\* have come to their end.
KeepsPromise == Promise!Spec
=============================================================================

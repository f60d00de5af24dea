-------------------------- MODULE ShadowsocksLocal --------------------------
(***************************************************************************)
(* One connection of the shadowsocks client (src/jni/shadowsocks/local.c)  *)
(*                                                                         *)
(* A local application speaks SOCKS5 to this program, which connects to a  *)
(* shadowsocks server, sends it the encrypted destination address and then *)
(* copies encrypted data both ways.  The socket of the application belongs *)
(* to a struct server, the other one to a struct remote; each has a        *)
(* receiving and a sending watcher of libev, and the remote a connect      *)
(* timer.  libev polls (Poll), puts the watchers of the ready descriptors  *)
(* into its pending array and runs their callbacks one by one; a callback  *)
(* that stops a watcher also takes it out of that array.  The receiving    *)
(* callbacks loop until recv finds nothing, so each turn of their loop is  *)
(* a step, between which the two peers go on.                              *)
(*                                                                         *)
(* Kept: watchers, pending events, buffer lengths, stages, the order of    *)
(* all calls.  Abstracted: the bytes (a buffer is its length; the address  *)
(* header, and a SOCKS5 message unless recv finds only a part of it, is    *)
(* one unit) and the ciphers, which keep the length of what they           *)
(* transform.                                                              *)
(***************************************************************************)
EXTENDS Integers, FiniteSets

CONSTANTS
    BUF_SIZE,   \* units server->buf and remote->buf hold
    SockBuf,    \* bound: units a kernel socket buffer holds
    MaxRequest, \* bound: payload units the application sends on one connection
    MaxReply    \* bound: units the shadowsocks server sends on one connection

ASSUME BoundsAssumption == /\ BUF_SIZE \in Nat \ {0}
                           /\ SockBuf \in Nat \ {0}
                           /\ MaxRequest \in Nat /\ MaxReply \in Nat

Side == {"server", "remote"}     \* struct server: the application's socket
Watcher == {"recv", "send", "timer"}

Other(s) == IF s = "server" THEN "remote" ELSE "server"

Least(a, b) == IF a <= b THEN a ELSE b

VARIABLES
    ss,   \* the process: the pair of structures and the state of libev
    net   \* kernel socket buffers and the two peers

vars == <<ss, net>>

-----------------------------------------------------------------------------
(* up: the process runs.  alloc: the structures that exist.  buf[s] is     *)
(* buf_len of s, what waits to be sent on its socket.  running is the side *)
(* whose receiving callback is inside its loop.                            *)

Down == [up        |-> FALSE,
         alloc     |-> {},
         stage     |-> 0,
         connected |-> FALSE,
         buf       |-> [s \in Side |-> 0],
         active    |-> [s \in Side |-> {}],
         pending   |-> [s \in Side |-> {}],
         running   |-> "none"]

Idle == [Down EXCEPT !.up = TRUE]

\* astray records that the application did not wait for a SOCKS5 reply, or that recv
\* returned a SOCKS5 message without its tail; tail says that this is under way still.
NetInit == [conn   |-> "idle",
            rx     |-> [s \in Side |-> 0],      \* received, not read by recv
            tx     |-> [s \in Side |-> 0],      \* sent, not read by the peer
            fin    |-> [s \in Side |-> FALSE],  \* the peer has closed its end
            rst    |-> [s \in Side |-> FALSE],  \* the peer has reset the connection
            sent   |-> [s \in Side |-> 0],      \* units the peer has sent
            got    |-> [s \in Side |-> 0],      \* units the peer has read
            astray |-> FALSE,
            tail   |-> FALSE]

-----------------------------------------------------------------------------
(* Functions of local.c and libev, as functions of the process state.      *)

ev_start(d, s, w) == [d EXCEPT !.active[s] = @ \cup {w}]

\* ev_io_stop and ev_timer_stop begin with clear_pending.
ev_stop(d, s, w) == [d EXCEPT !.active[s] = @ \ {w}, !.pending[s] = @ \ {w}]

\* Fault: the connect timer is left running.
close_and_free_remote_NoTimerStop(d) ==
    [ev_stop(ev_stop(d, "remote", "send"), "remote", "recv")
        EXCEPT !.alloc = @ \ {"remote"}, !.connected = FALSE, !.buf["remote"] = 0]

close_and_free_remote(d) ==
    [ev_stop(ev_stop(ev_stop(d, "remote", "timer"), "remote", "send"), "remote", "recv")
        EXCEPT !.alloc = @ \ {"remote"}, !.connected = FALSE, !.buf["remote"] = 0]

close_and_free_server(d) ==
    [ev_stop(ev_stop(d, "server", "send"), "server", "recv")
        EXCEPT !.alloc = @ \ {"server"}, !.stage = 0, !.buf["server"] = 0]

\* The way every callback gives a connection up; it returns afterwards.
CloseBoth(d) == [close_and_free_server(close_and_free_remote(d)) EXCEPT !.running = "none"]

\* The callback returns.
Return(d) == [d EXCEPT !.running = "none"]

\* What recv on the socket of s finds.
RecvLength(s) == Least(net.rx[s], BUF_SIZE)
RecvEof(s)    == net.rx[s] = 0 /\ ~ net.rst[s] /\ net.fin[s]
RecvError(s)  == net.rx[s] = 0 /\ net.rst[s]
RecvAgain(s)  == net.rx[s] = 0 /\ ~ net.rst[s] /\ ~ net.fin[s]

\* What send of n units on the socket of s accepts; 0 is EAGAIN.
SendLength(s, n) == Least(n, SockBuf - net.tx[s])

\* The step ends with process state d and kernel state n; close() discards both
\* sockets.
Finish(d, n) == /\ ss' = d
                /\ net' = IF d.alloc = {} THEN NetInit ELSE n

-----------------------------------------------------------------------------
Init == ss = Down /\ net = NetInit

\* main of a new process: the listening socket is bound and the event loop entered.
main == ~ ss.up /\ ss' = Idle /\ net' = NetInit

\* Fault: the connection attempt is not timed.
accept_cb_NoTimer ==
    /\ ss.up /\ ss.alloc = {} /\ ss.running = "none"
    /\ ss' = ev_start([ss EXCEPT !.alloc = Side], "remote", "send")
    /\ net' = [net EXCEPT !.conn = "pending"]

\* accept_cb: both structures are made and the connection attempt starts.
accept_cb ==
    /\ ss.up /\ ss.alloc = {} /\ ss.running = "none"
    /\ ss' = ev_start(ev_start([ss EXCEPT !.alloc = Side], "remote", "send"),
                      "remote", "timer")
    /\ net' = [net EXCEPT !.conn = "pending"]

\* accept_cb for some connection fails in getaddrinfo or socket and frees its
\* server, whose field remote nobody has set: nothing happens if the memory holds
\* NULL there, otherwise the process dies writing through it.
accept_cb_fails ==
    /\ ss.up /\ ss.running = "none"
    /\ \/ UNCHANGED vars
       \/ ss' = Down /\ net' = NetInit

\* What poll reports for the watcher w of side s.
Ready(s, w) ==
    CASE w = "recv"  -> net.rx[s] > 0 \/ net.fin[s] \/ net.rst[s]
      [] w = "send"  -> /\ s = "remote" => net.conn # "pending"
                        /\ net.tx[s] < SockBuf \/ net.rst[s]
      [] w = "timer" -> FALSE

\* One turn of ev_run up to ev_invoke_pending: fd_event feeds the watchers of ready
\* descriptors, timers_reify the expired timer, which is then no longer active.
Poll(expired) ==
    /\ ss.running = "none"
    /\ \A s \in Side : ss.pending[s] = {}
    /\ expired \subseteq ss.active["remote"] \cap {"timer"}
    /\ LET fed == [s \in Side |-> {w \in ss.active[s] : Ready(s, w)}
                                    \cup (IF s = "remote" THEN expired ELSE {})]
       IN  /\ \E s \in Side : fed[s] # {}
           /\ ss' = [ss EXCEPT !.pending = fed, !.active["remote"] = @ \ expired]
    /\ UNCHANGED net

\* ev_invoke_pending takes the watcher w of s out of the pending array.
Invoked(s, w) == [ss EXCEPT !.pending[s] = @ \ {w}]

CanInvoke(s, w) == ss.running = "none" /\ w \in ss.pending[s]

\* server_recv_cb or remote_recv_cb is entered.
recv_cb_enter(s) ==
    /\ CanInvoke(s, "recv")
    /\ ss' = [Invoked(s, "recv") EXCEPT !.running = s]
    /\ UNCHANGED net

\* Fault: the receiving watcher stays on while data waits in the buffer.
Copy_NoStop(s) ==
    LET to == Other(s)
        r  == RecvLength(s)
        w  == SendLength(to, r)
        n  == [net EXCEPT !.rx[s] = @ - r, !.tx[to] = @ + w]
    IN  IF net.rst[to] THEN Finish(CloseBoth(ss), net)
        ELSE IF w < r
             THEN Finish(Return(ev_start([ss EXCEPT !.buf[to] = r - w], to, "send")), n)
             ELSE Finish(ss, n)

\* Fault: the -1 of a send that would block is taken for a length.
Copy_Blocked(s) ==
    LET to == Other(s)
        r  == RecvLength(s)
        w  == SendLength(to, r)
        n  == [net EXCEPT !.rx[s] = @ - r, !.tx[to] = @ + w]
    IN  IF net.rst[to] THEN Finish(CloseBoth(ss), net)
        ELSE IF w < r
             THEN Finish(Return(ev_start(ev_stop([ss EXCEPT !.buf[to] = IF w = 0 THEN r + 1 ELSE r - w],
                                                 s, "recv"), to, "send")), n)
             ELSE Finish(ss, n)

\* One turn of the loop that received data to be passed on: send takes all of it and
\* the loop goes on, or the rest waits in the buffer for the sending watcher.
Copy(s) ==
    LET to == Other(s)
        r  == RecvLength(s)
        w  == SendLength(to, r)
        n  == [net EXCEPT !.rx[s] = @ - r, !.tx[to] = @ + w]
    IN  IF net.rst[to] THEN Finish(CloseBoth(ss), net)
        ELSE IF w < r
             THEN Finish(Return(ev_start(ev_stop([ss EXCEPT !.buf[to] = r - w], s, "recv"),
                                         to, "send")), n)
             ELSE Finish(ss, n)

\* One unit is sent on the socket of s and the result ignored.
SendIgnored(n, s) ==
    IF net.rst[s] \/ n.tx[s] = SockBuf THEN n ELSE [n EXCEPT !.tx[s] = @ + 1]

\* recv during the handshake, which returns the last message whole or without its tail.
RecvMessage(cut) ==
    [net EXCEPT !.rx["server"] = @ - RecvLength("server"), !.astray = @ \/ cut, !.tail = cut]

\* The last message may have arrived in part: all of rx is returned, and it ends with
\* one of the two messages.
MayBeCut == /\ net.rx["server"] <= BUF_SIZE
            /\ net.sent["server"] <= 2
            /\ ~ net.fin["server"]

\* Stage 0: whatever was received is the greeting; it is answered.
MethodSelect ==
    \E cut \in {FALSE, MayBeCut} :
        Finish(Return([ss EXCEPT !.stage = 1]), SendIgnored(RecvMessage(cut), "server"))

\* Stage 1: whatever was received is the request.  It is refused, or the address goes
\* to the remote and the application is told that it is connected.
ConnectRequest ==
    \/ Finish(CloseBoth(ss), net)
    \/ IF net.rst["server"] \/ net.tx["server"] = SockBuf
       THEN Finish(CloseBoth(ss), net)
       ELSE \E cut \in {FALSE, MayBeCut} :
              Finish([ss EXCEPT !.stage = 5],
                     SendIgnored(SendIgnored(RecvMessage(cut), "remote"), "server"))

\* Fault: the end of the stream is taken for "no data yet".
recv_cb_loop_NoEof(s) ==
    /\ ss.running = s
    /\ \/ (RecvAgain(s) \/ RecvEof(s)) /\ Finish(Return(ss), net)
       \/ RecvError(s) /\ Finish(CloseBoth(ss), net)
       \/ /\ net.rx[s] > 0
          /\ CASE s = "remote" \/ ss.stage = 5 -> Copy(s)
               [] s = "server" /\ ss.stage = 0 -> MethodSelect
               [] s = "server" /\ ss.stage = 1 -> ConnectRequest

\* One turn of the loop of server_recv_cb or remote_recv_cb.
recv_cb_loop(s) ==
    /\ ss.running = s
    /\ \/ RecvAgain(s) /\ Finish(Return(ss), net)
       \/ (RecvEof(s) \/ RecvError(s)) /\ Finish(CloseBoth(ss), net)
       \/ /\ net.rx[s] > 0
          /\ CASE s = "remote" \/ ss.stage = 5 -> Copy(s)
               [] s = "server" /\ ss.stage = 0 -> MethodSelect
               [] s = "server" /\ ss.stage = 1 -> ConnectRequest

\* Fault: receiving is not started again once everything is sent.
SendBuffer_NoResume(s) ==
    LET w == SendLength(s, ss.buf[s])
        d == Invoked(s, "send")
        n == [net EXCEPT !.tx[s] = @ + w]
    IN  IF ss.buf[s] = 0 \/ net.rst[s] THEN Finish(CloseBoth(d), net)
        ELSE IF w < ss.buf[s] THEN Finish([d EXCEPT !.buf[s] = @ - w], n)
        ELSE Finish(ev_stop(d, s, "send"), n)

\* What waits in the buffer is sent.  Once all is sent, buf_len keeps its value, the
\* sending watcher is stopped and receiving on the other socket starts again.
SendBuffer(s) ==
    LET w == SendLength(s, ss.buf[s])
        d == Invoked(s, "send")
        n == [net EXCEPT !.tx[s] = @ + w]
    IN  IF ss.buf[s] = 0 \/ net.rst[s] THEN Finish(CloseBoth(d), net)
        ELSE IF w < ss.buf[s] THEN Finish([d EXCEPT !.buf[s] = @ - w], n)
        ELSE Finish(ev_start(ev_stop(d, s, "send"), Other(s), "recv"), n)

server_send_cb == CanInvoke("server", "send") /\ SendBuffer("server")

\* Fault: the connect timer is not stopped by the connection.
RemoteConnected_NoTimerStop ==
    Finish(ev_start(ev_start(ev_stop([Invoked("remote", "send") EXCEPT !.connected = TRUE],
                                     "remote", "send"),
                             "server", "recv"), "remote", "recv"), net)

\* The remote is connected: timing ends, receiving starts on both sockets.
RemoteConnected ==
    Finish(ev_start(ev_start(ev_stop(ev_stop([Invoked("remote", "send") EXCEPT !.connected = TRUE],
                                             "remote", "send"), "remote", "timer"),
                             "server", "recv"), "remote", "recv"), net)

\* getpeername tells whether the connection was made; a reset one has no peer.
remote_send_cb ==
    /\ CanInvoke("remote", "send")
    /\ IF ss.connected THEN SendBuffer("remote")
       ELSE IF net.conn = "ok" /\ ~ net.rst["remote"] THEN RemoteConnected
       ELSE Finish(CloseBoth(Invoked("remote", "send")), net)

remote_timeout_cb ==
    /\ CanInvoke("remote", "timer")
    /\ Finish(CloseBoth(ev_stop(Invoked("remote", "timer"), "remote", "timer")), net)

-----------------------------------------------------------------------------
(* The application, the shadowsocks server and the network.                *)

ConnectDone(result) ==
    /\ net.conn = "pending"
    /\ net' = [net EXCEPT !.conn = result]
    /\ UNCHANGED ss

PeerUp(s) == /\ ss.alloc = Side
             /\ ~ net.rst[s]
             /\ s = "remote" => net.conn = "ok"

\* Two units of the application are its greeting and its request; they and the first
\* payload are answers to what it has read.
Early == net.sent["server"] <= 2 /\ net.got["server"] < net.sent["server"]

SendBound(s) == IF s = "server" THEN 2 + MaxRequest ELSE MaxReply

\* The shadowsocks server sends nothing before it has read the address.  What the
\* application sends arrives behind the tail of its last message.
PeerSend(s) ==
    /\ PeerUp(s)
    /\ ~ net.fin[s]
    /\ net.sent[s] < SendBound(s)
    /\ net.rx[s] < SockBuf
    /\ IF s = "remote" THEN net.got[s] > 0 ELSE ~ net.tail
    /\ net' = [net EXCEPT !.sent[s] = @ + 1, !.rx[s] = @ + 1,
                          !.astray = @ \/ (s = "server" /\ Early)]
    /\ UNCHANGED ss

\* The tail of a torn message arrives, one more unit for recv.
TailArrives ==
    /\ PeerUp("server")
    /\ net.tail
    /\ net.rx["server"] < SockBuf
    /\ net' = [net EXCEPT !.tail = FALSE, !.rx["server"] = @ + 1]
    /\ UNCHANGED ss

PeerRead(s) ==
    /\ PeerUp(s)
    /\ net.tx[s] > 0
    /\ net' = [net EXCEPT !.tx[s] = @ - 1, !.got[s] = @ + 1]
    /\ UNCHANGED ss

PeerClose(s) ==
    /\ PeerUp(s)
    /\ ~ net.fin[s]
    /\ s = "server" => ~ net.tail
    /\ net' = [net EXCEPT !.fin[s] = TRUE]
    /\ UNCHANGED ss

PeerReset(s) ==
    /\ PeerUp(s)
    /\ net' = [net EXCEPT !.rst[s] = TRUE]
    /\ UNCHANGED ss

-----------------------------------------------------------------------------
Callbacks == \/ server_send_cb \/ remote_send_cb \/ remote_timeout_cb
             \/ \E s \in Side : recv_cb_enter(s) \/ recv_cb_loop(s)

Peers == \/ TailArrives
         \/ \E r \in {"ok", "refused"} : ConnectDone(r)
         \/ \E s \in Side : PeerSend(s) \/ PeerRead(s) \/ PeerClose(s) \/ PeerReset(s)

Next == \/ main \/ accept_cb \/ accept_cb_fails
        \/ \E expired \in SUBSET {"timer"} : Poll(expired)
        \/ Callbacks
        \/ Peers

Spec == Init /\ [][Next]_vars

\* The loop polls again and again and runs what is pending; the connect timer expires
\* if it stays active; a peer that has data to read reads it.  Nothing makes a
\* connection attempt end, or a peer send, close or reset.
Fairness == /\ WF_vars(Poll({})) /\ WF_vars(Poll({"timer"}))
            /\ WF_vars(Callbacks)
            /\ \A s \in Side : WF_vars(PeerRead(s))

FairSpec == Spec /\ Fairness

-----------------------------------------------------------------------------
(* Properties.                                                             *)

ProcessType ==
    [up        : BOOLEAN,
     alloc     : SUBSET Side,
     stage     : {0, 1, 5},
     connected : BOOLEAN,
     buf       : [Side -> 0 .. BUF_SIZE],
     active    : [Side -> SUBSET Watcher],
     pending   : [Side -> SUBSET Watcher],
     running   : Side \cup {"none"}]

NetType ==
    [conn   : {"idle", "pending", "ok", "refused"},
     rx     : [Side -> 0 .. SockBuf],
     tx     : [Side -> 0 .. SockBuf],
     fin    : [Side -> BOOLEAN],
     rst    : [Side -> BOOLEAN],
     sent   : [Side -> Nat],
     got    : [Side -> Nat],
     astray : BOOLEAN,
     tail   : BOOLEAN]

\* The process and the kernel state are well formed; in particular buf_len stays
\* between 0, as the assertions of local.c demand, and the size of the array.
TypeOK == ss \in ProcessType /\ net \in NetType

\* libev never keeps a watcher of a freed structure: the server and the remote of a
\* connection are freed together and by then all five watchers are stopped, expired
\* timers and pending events included, so no callback finds freed memory.
NoDanglingWatcher ==
    /\ ss.alloc \in {{}, Side}
    /\ \A s \in Side : (ss.active[s] # {} \/ ss.pending[s] # {} \/ ss.running = s) => s \in ss.alloc

\* While the connection is being made only the connect attempt and its timer are
\* watched.  Afterwards the timer is off for good, and in each direction either the
\* source is received from or the unsent rest is waiting for the target, never both
\* and never neither: the rest is not overwritten and the direction does not stop.
OneWatcherPerDirection ==
    ss.alloc = Side =>
      IF ss.connected
      THEN /\ "timer" \notin ss.active["remote"] \cup ss.pending["remote"]
           /\ \A s \in Side :
                /\ "send" \in ss.active[Other(s)] <=> "recv" \notin ss.active[s]
                /\ "send" \in ss.active[s] => ss.buf[s] > 0
      ELSE /\ ss.active["server"] = {} /\ "recv" \notin ss.active["remote"]
           /\ "timer" \in ss.active["remote"] \cup ss.pending["remote"]

\* Units that wait in the buffer of s.
Waiting(s) == IF "send" \in ss.active[s] THEN ss.buf[s] ELSE 0

\* Messages of the application consumed, and answered, by the stages passed.
Answered == IF ss.stage = 5 THEN 2 ELSE ss.stage

\* The application waits for each reply, recv returned each of its messages whole, and
\* nobody has reset a connection.
Orderly == ss.alloc = Side /\ ~ net.astray /\ \A s \in Side : ~ net.rst[s]

\* No unit is lost, duplicated or taken for a SOCKS5 message: what one peer has sent
\* is in a socket buffer, in the buffer of the other side, or with the other peer.
\* Excepted by name (astray): a message that recv returned without its tail, for
\* server_recv_cb takes whatever it is given for the whole and relays the tail as
\* payload, and an application that does not wait for the replies.
StreamsIntact ==
    Orderly =>
      /\ net.sent["server"] - Answered + (IF ss.stage = 5 THEN 1 ELSE 0)
            = net.rx["server"] + (IF ss.connected THEN Waiting("remote") ELSE 0)
              + net.tx["remote"] + net.got["remote"]
      /\ net.sent["remote"] + Answered
            = net.rx["remote"] + Waiting("server") + net.tx["server"] + net.got["server"]

\* A connection attempt ends: it succeeds, fails or times out, even if the network
\* never answers it.
ConnectEnds == (ss.alloc = Side /\ ~ ss.connected) ~> (ss.connected \/ ss.alloc = {})

\* Once the two are connected, the end of either stream releases both sockets.
ClosedIsFreed == \A s \in Side : (ss.connected /\ net.fin[s]) ~> (ss.alloc = {})

\* Every unit the shadowsocks server sends reaches the application, unless the
\* connection ends before.
ReplyDelivered ==
    \A k \in 1 .. MaxReply :
        (ss.connected /\ net.sent["remote"] >= k)
            ~> (ss.alloc = {} \/ net.rst["server"] \/ net.got["server"] >= 2 + k)
-----------------------------------------------------------------------------
(* The promise to the peers.  The relayed stream begins when the address   *)
(* has been sent (stage 5); two units of the application and of what it    *)
(* receives, and one unit of what the remote receives, belong to the       *)
(* handshake.                                                              *)

Mode == CASE ~ ss.up -> "down"
          [] ss.up /\ ss.stage # 5 -> "closed"
          [] ss.up /\ ss.stage = 5 /\ Orderly -> "open"
          [] OTHER -> "broken"

Promise == INSTANCE StreamRelay WITH
    EndsWithOne <- TRUE,
    mode <- Mode,
    fin  <- net.fin,
    sent <- [net.sent EXCEPT !["server"] = @ - 2],
    out  <- [s \in Side |-> net.tx[s] + net.got[s] - (IF s = "server" THEN 2 ELSE 1)],
    eof  <- [s \in Side |-> FALSE]

\* The shadowsocks client implements StreamRelay: the payload is forwarded whole, and
\* a connection that nobody has reset ends only after a stream has ended and all of
\* it was handed to the other peer's socket.
KeepsPromise == Promise!Spec
=============================================================================

# Verification of the HaP-Android network core

HaP-Android bundles, behind a small Android app, the native programs that redirect
a phone's traffic through a proxy.  This directory holds TLA+ models of the parts that
carry the program's own control logic (`jni/redsocks`, `jni/shadowsocks`, and the
code and scripts with which the app starts and stops HaP), their TLC
configurations, and TLAPS proofs of the properties that matter most.
`PROJECT.json` lists the components, runs, seeded faults, source lines of every
definition, findings, hazards and theorems in machine-readable form.

## 1. Inventory

### The system

| Part | State it keeps | Operations | What is hard about it | Here |
|---|---|---|---|---|
| redirected TCP connection (`redsocks.c`, `utils.c`) | `redsocks_client`: two bufferevents, protocol state, `client_evshut`, `relay_evshut` | accept, connect the relay, handshake callbacks, relay read/write callbacks, EOF and error callback, drop | half closes in any order, back-pressure, data that comes before the relay is ready, memory freed inside a callback | `RedsocksClient` |
| listening instances (`redsocks.c`) | list of instances: listener event, back-off timer, `accept_backoff_ms`, clients | init, accept, back off, wake-up by any close, fini | closes of one instance's sockets wake another; 16-bit arithmetic; failures half way through accept or init | `RedsocksInstance` |
| socks4, socks5 (`socks4.c`, `socks5.c`) | `client->state` | request, wait for N bytes, next request or start relaying | replies and payload share one stream | rounds of `RedsocksClient`; methods in `RedUdp` |
| http-connect (`http-connect.c`) | `client->state`; per instance `http_auth` | CONNECT request, reply head, 407 and reconnect | the challenge is shared by all connections of the instance | `RedsocksClient` (sockets), `HttpAuth` (challenge) |
| http-relay (`http-relay.c`) | `httpr_client`: first line, buffered request, reply head; `http_auth` | collect and rewrite the request head, connect, send, resend after 407, collect the reply head | heads split over reads; a second try while content still arrives; memory of lines | `HttpRelay` (one connection), `HttpAuth` (shared challenge) |
| redudp (`redudp.c`) | `redudp_client`: control connection, datagram socket, packet queue, timer, sender socket; tree of bound sockets with reference counts | datagram from client, connect, authenticate, associate, flush, datagram from proxy, timeout, error, fini | sockets shared by clients, a queue at its limit, drops in every phase | `RedUdp` |
| dnstc (`dnstc.c`) | none | answer a DNS query with "truncated" | nothing: stateless | no |
| reddns (`reddns.c`) | a parsed section | none | a stub | no |
| parser, base, log, main | configuration; event base | parse, init in order, event loop, fini in reverse order | sequential start-up and shut-down | order of init, loop and fini in `RedsocksInstance` and `RedUdp` |
| http-auth, base64, md5 | none | byte computations | nothing that outlives a call | no |
| libevent 2.0 (vendored) | bufferevents | enable, disable, watermarks, callbacks | callbacks and suspension | the operations redsocks uses, in `RedsocksClient` |
| shadowsocks local (`jni/shadowsocks/local.c`) | `struct server` and `struct remote`: two sockets, four io watchers, two buffers, connect timer, SOCKS5 stage | accept, connected, timeout, the receiving and sending callbacks, free | a timer racing the connection with both pending; partial sends; buffers shared by two callbacks; freeing inside a callback | `ShadowsocksLocal` |
| libev (vendored) | active and pending watchers, timers | start, stop, poll, invoke | what stopping does to a pending watcher | the operations local.c uses, in `ShadowsocksLocal` |
| starting and stopping HaP (`HPStart`, `SuperUser`, the buttons of `MainActivity`, the boot receiver; `start.sh`, `stop.sh`, `status.sh`) | `run.cfg`, `haproxy.pid`, the static counter `si`, script files, threads, the daemons | start (stop, then start), stop, status, boot | `join` with a time limit, a counter without a lock, scripts that overlap, a su that refuses, a changed port, the end of the app or of the phone half way | `HapService` |
| rest of the app, installer, `pstart.sh` | | user interface, file copying, iptables rules | no protocol; `ImageLoader` is not used | no |
| shadowsocks encryption, OpenSSL, spdylay, shrpx, highlight, termExec, hello-jni | | | third-party, byte transformations, a pseudo terminal | no |

### How the parts interact

All of redsocks runs in the callbacks of one libevent loop, in one thread.  `main.c`
initialises the subsystems in order, runs the loop until SIGTERM or SIGINT, and calls
the `fini` functions in reverse order.  An instance accepts a client and hands it to
the relay subsystem of its `type` through a table of function pointers (`readcb`,
`writecb`, `connect_relay`, ...); after the handshake the subsystem calls
`redsocks_start_relay` and is out of the picture.  Connections of one instance share the
instance's payload (`http_auth`) and all connections and instances share the process's
file descriptors: every close goes through `redsocks_close`, which walks the list of
instances.  redudp uses the socks5 message helpers and the same `red_connect_relay`; on
Android `main.c` leaves redudp and dnstc out.

The shadowsocks client is a second program of the same kind, on libev: each connection
is a pair of structures that point to each other, and is freed as a pair by whichever callback
gives it up.  The app itself does not take part in any of this.  It writes the configuration
of a third program, HaP (haproxy, a binary asset), and starts and kills it with shell
scripts, each run by a thread of its own.

In the two C programs there is no preemption, but there is every interleaving of events: which socket is
ready first, how data is cut into reads, when peers close or reset, when timers fire.
That is what the actions of the models range over.  Each action is the dispatch of one
ready event with everything its callbacks do, or a step of the environment (a peer, the
network, the clock).

### What makes the parts correct

* A redirected connection is a pipe in each direction: no byte is lost, doubled or
  taken for handshake data; an EOF travels behind the data and is never invented; a
  direction that is not finished has an event that moves it on; buffers are bounded; a
  finished connection is released once and not used after that.
* An instance listens or is going to; running out of descriptors is survived; all
  descriptors come back.
* Connections of an instance that share an authentication challenge do not spoil each
  other's requests and do not reconnect for ever.
* A shadowsocks connection is a pipe too, but ends as a whole with its first EOF; libev never
  calls a watcher of a freed pair, and a connection attempt is given up in time.
* A request through http-relay reaches the proxy whole, once per try, and its reply reaches the
  client whole; refusals lead to one more try, and to others only as far as other connections of
  the instance interfere with the count they share.
* If every script is carried out, in time and with its own commands, then after a start the daemon
  runs with the configuration just written and the pid file names every daemon; a stop that is
  carried out ends the daemon the pid file names; no start waits for ever.
* UDP clients get their datagrams through in order, share sender sockets without
  leaking or reusing a closed one, and disappear when they are idle.

## 2. Modules

### RedsocksClient

One `redsocks_client` and its surroundings.  `c` is the client structure with its two
bufferevents: `phase` and `hs` stand for `client->state`; `input` and `output` are the lengths
of the evbuffers; `enabled` is the enabled mask of a bufferevent, `pending` the events
really registered, `suspended` the read suspension at the high watermark; `evshut` is
`client_evshut`/`relay_evshut`, `shut` what `shutdown()` was called for.  `net` holds the
kernel's socket buffers and the peers.  The history fields `uaf` and `fresh` record a use
of freed memory and input that was buffered before `redsocks_start_relay`; `sent` and
`got` count units.

| Definitions | Code |
|---|---|
| `bufferevent_enable`, `bufferevent_disable`, `AddOutput`, `MoveInput` | libevent's functions of those names, and what appending to an output buffer does |
| `redsocks_drop_client`, `redsocks_shutdown`, `redsocks_event_error`, `redsocks_relay_readcb`, `redsocks_relay_writecb`, `redsocks_start_relay`, `redsocks_write_helper` | the functions of `redsocks.c` |
| `HandshakeReply`, `HandshakeWritten`, `Rounds`, `HeadHigh` | read and write callbacks of `socks4.c`, `socks5.c`, `http-connect.c` |
| `redsocks_accept_client`, `redsocks_relay_connected` | the callbacks of those names |
| `ReadData`, `ReadEOF`, `ReadSuspend`, `WriteReady`, `IOError` | the outcomes of `bufferevent_readcb` and `bufferevent_writecb`, with the redsocks callback each runs |
| `AuthRetry` | `httpc_read_cb` on a 407 |
| `ConnectDone`, `PeerSend`, `PeerRead`, `PeerClose`, `PeerReset` | environment |

Abstractions: a byte stream is a count of units; a handshake message is one unit; a
refusal or a malformed reply is the choice of dropping the client.  Two details of the
code shape the model and the properties.  redsocks assigns the watermark fields of a
bufferevent itself instead of calling `bufferevent_setwatermark`, so libevent never installs
the callback that lifts a suspension (`ReadSuspend` has no opposite).  And the
`relay_evshut` word survives a reconnect by `AuthRetry`, although the socket is new.

### RedsocksInstance

`ins[i]` is a `redsocks_instance`: `st` is its life, `listener` and `timer` are its tracked
events (`timer` also tells whether `min_accept_backoff` has passed since it was inserted),
`backoff` is `accept_backoff_ms`, `clients` counts `redsocks_client`s of two descriptors each,
`waiting` the kernel's accept queue.  `fdfree` is what the process may still open.  Actions:
`redsocks_init_instance` (and its failure), `AcceptClient`, `AcceptThenFail`, `AcceptBackoff`
(the outcomes of `redsocks_accept_client`), `DropClient`, `TimerFires`
(`redsocks_accept_backoff`), `Terminate`, `redsocks_fini_instance`; `Arrive` and `TimePasses`
are the environment.  `redsocks_close` is the walk of `redsocks_close_internal` over the list
and runs inside every action that closes a descriptor, once per descriptor.  The model's
only descriptors are those of redsocks; accept fails exactly when none is left.

### StreamRelay

The abstract specification of what redsocks and the shadowsocks client both owe their
peers, without buffers, events or callbacks: payload counts `sent` and `out` per side, the
ends of the streams `fin` and `eof`, and a `mode`.  Payload is handed on once and in order
(`Forward`), an EOF only with or after the last of it, and an open connection that nobody
has broken ends only when its streams are delivered: both of them for redsocks, the
first one for shadowsocks (`EndsWithOne`).  While a connection is set up, or after a peer has
reset it, nothing is promised.  Both components state `KeepsPromise == Promise!Spec`, with
`Promise == INSTANCE StreamRelay WITH ...`: `sent` is what the peer has sent minus the
handshake, `out` what was put into the kernel's send buffer minus the handshake.

### ShadowsocksLocal

`ss` is the process: which structures exist, `stage`, `connected`, the two `buf_len`, and of
libev the `active` and the `pending` watchers of each side; `running` says that a receiving
callback is inside its loop.  `Poll` is one turn of `ev_run` up to `ev_invoke_pending`: it
makes the watchers of ready descriptors pending and perhaps the expired timer.  Then
`recv_cb_enter`, `server_send_cb`, `remote_send_cb` and `remote_timeout_cb` run pending callbacks in
any order.  The receiving callbacks loop until `recv` finds nothing, so each turn of the loop
is a step (`recv_cb_loop`), between which the peers go on.  `Copy` is a turn that passes data on,
`MethodSelect` and `ConnectRequest` are the SOCKS5 stages, `SendBuffer` the two sending
callbacks.  The stages take what one `recv` returns for a whole message: `RecvMessage` returns it
whole or without its tail (`MayBeCut`), which then arrives as one more unit (`TailArrives`) and is taken
for the next message or for payload.  The history field `astray` records that, and an
application that does not wait for a reply.  `close_and_free_remote` and `close_and_free_server` stop their watchers with
`ev_stop`, which clears a pending event as libev's `clear_pending` does.  `accept_cb_fails` is
the error path that frees a server whose field `remote` was never set: depending on the
memory nothing happens or the process dies.  One connection is modelled; several share
nothing but that death.

### HttpRelay

`h` is one connection of type http-relay, `auth` the challenge and the count stored in the instance,
`env` the client and the proxy, which knows the credentials or does not.  Other connections may have
left a challenge (`Init`) and go on to change it and the count while this one is served
(`OtherConnection`, at most `MaxOthers` times).  A line is
what the code tests it for: Host, a header about the connection, any other, the empty one,
content.  `httpr_client_read_cb` applies `TakeLines` to the lines of a segment up to the
empty one and then ends the head, keeps the content and connects.  `httpr_relay_write_cb` sends
the request with or without credentials.  `httpr_relay_read_cb(n)` is the callback for the
next `n` lines of the reply: the status line once, then `CollectHead`.  `Refused` is the 407
branch.  It looks for the challenge only among the lines that have arrived with the status line, and
only up to a line without a colon ("folded"); if it finds none, the second `free(line)` is a
choice between "unchallenged", the client dropped with the message that says so, and "crashed".

### HapService

`app` is the executor of AsyncTasks and the counter `si`, `shell` the Shell and DShell threads,
`tfile` the contents of their script files, `sys` the two files and the set of daemons, each with its
process number and the configuration it was started with.  A configuration is a mode and a port: the
user may change the port between two starts, and a HaP on another port starts beside one that still
runs and overwrites `haproxy.pid` (`StartHaP`).  A thread
increases `si` (`Count`), reads it for the name of its file and writes the file (`Name`), has a
shell carry out whatever the file then holds (`Run`) and deletes it (`Done`).  At any time nothing may be
carried out instead (`Refuse`): su refuses, `Runtime.exec` throws, or `kill` is not permitted for a
daemon that root has started.  The start task is
`Begin`, `StopJoined`, `StartJoined`; a join ends when the thread has ended or after three
seconds, that is, at any time.  `late`, `mixed` and `refused` are history: a script was left behind by
its task; two threads that were running at the same time had the same file; a stop.sh had no
effect while a daemon ran.  `Smooth` says that none of them has happened.  `AppDies` ends the
application and its threads but neither the daemons nor the shells that su keeps waiting
("left"); `Reboot` ends every process and may run the boot receiver.

### HttpAuth

`auth` is the instance's `http_auth` (`last_auth_query`, `last_auth_count`), `conn[c]` a
connection: "new" while its relay is connected, "sent" after the request was made by
`httpc_mkconnect`, then "open", or "new" again after a 407.  The proxy answers (`Grant`, `Refuse`) in one
step and `httpc_read_cb` handles the answer in another (`Accepted`, `AuthFailed`, `AuthImpossible`,
`AuthRetry`); in between it is under way (`reply`), so the 407s of different connections are handled in
any order and an older challenge may replace a younger one.  `nonce` and `oldest` are the proxy's:
the last nonce it issued and the oldest it accepts.  `used`, `replay`, `refused` and `failed`
are history.  `GivesUp` is the test that makes a 407 final.

### RedUdp

`cl[a]` is the `redudp_client` of a client address: what its control connection waits
for, its recorded destination, whether the association is granted (`udprelay`), whether it
holds a sender socket, its timer and its queue.  `bound` is the reference count of each
entry of `root_bound_udp4`.  `sent` and `fwd` are history.  One action per handler; `Drop` is
`redudp_drop_client` with everything it closes.  The proxy answers each request at most
once.  Loss of a datagram in `sendmsg` is the choice of the positions `Written` in `Forward`.

### Proof modules

`RedsocksClientProofs`, `RedsocksInstanceProofs`, `RedUdpProofs`, `ShadowsocksLocalProofs`,
`HttpAuthProofs`, `HttpRelayProofs` and `HapServiceProofs` extend their component and hold its
theorems.  `RedsocksRelayProofs` extends `RedsocksClientProofs` with what is proved of the
relaying.

The operators whose names have a suffix and whose comment starts with "Fault:" are the seeded
faults of `PROJECT.json`: no specification uses them; put in place of the
definition after them, each must make TLC report the property it is listed with.

## 3. Runs

| Run | Instance | Shows |
|---|---|---|
| `client_socks5` | socks5, half buffer 2, socket buffer 1, 5 payload units each way; 290,140 states | `NoUseAfterFree`, `EofIsForwarded`, `StreamsIntact`, `EofAfterData`, `BoundedBuffers`, `DirectionAlive` |
| `client_http` | http-connect, half buffer 2, socket buffer 2, 4 payload units each way, with reconnects after 407, fair; 280,248 states | `KeepsPromise` (refinement of StreamRelay), `ReplyDelivered`, `ClosedIsDropped` |
| `client_early_close` | socks5, fair | finding: `EarlyCloseHandled` fails |
| `instances` | 3 instances, 7 descriptors, a back-off that overflows, fair; 100,054 states | `ListensOrBacksOff`, `ShrinksByOverflow`, `DescriptorsReturned`, `ListensAgain`, `TearsDown` |
| `backoff_uint16` | 1 instance, the default limits 100 and 60000 in 16 bits | finding: `BackoffGrows` fails |
| `udp_tproxy` | 2 addresses, 2 destinations, queue of 2, 6 descriptors, 3 datagrams per address, fair; 428,033 states | `SendersCounted`, `DescriptorsAccounted`, `NotOvertaken`, `QueueDrained`, `ClientsExpire` |
| `udp_destination` | TPROXY, two destinations | finding: `ForwardedWhereSent` fails |
| `auth_digest` | 3 connections, a new nonce in every challenge, challenges handled in any order, expiry, fair; 350,883 states | `NoReplay`, `RefusedNotRepeated`, `Settles` |
| `auth_verdict` | 2 connections | finding: `FailedMeansRefused` fails |
| `shadowsocks` | buffers of 2, socket buffers of 2, messages received whole or torn, 1 payload unit from the application and 3 from the server, fair; 439,812 states | `TypeOK`, `NoDanglingWatcher`, `OneWatcherPerDirection`, `StreamsIntact`, `ConnectEnds`, `ClosedIsFreed`, `ReplyDelivered`, `KeepsPromise` (refinement of StreamRelay) |
| `http_relay` | requests of up to 4 lines in segments of up to 3, replies cut anywhere, right and wrong credentials, one expired challenge, two changes by other connections, fair; 1,060,680 states | `RequestWhole`, `ReplyIntact`, `TriesBounded`, `Served` |
| `hap_service` | 1 mode, 2 ports, 2 process numbers, 2 taps, 3 threads between reboots, one late script, fair; 340,330 states | `PidFileNamesDaemon`, `NoStaleDaemon`, `OwnCommands`, `StopEnds`, `TasksEnd` |

Deadlock is checked in `shadowsocks`, where another accept is always possible.  Elsewhere it
is not: a connection may end with nothing to do, addresses, users and proxies stop at their
bounds, and a torn-down instance stays down.

`client_http` leaves the safety invariants of the connection to `client_socks5` and to the
theorems, which hold for every protocol: a lost, doubled or stalled unit would also break
`KeepsPromise` or `ReplyDelivered`.  The types of the connection, the instances, the UDP
clients and the shadowsocks process are part of the inductive invariants that section 4
proves.

Most properties are about what several steps of several actors can do together: a peer's
close between two callbacks, a timer that is pending together with the connection it times,
a challenge replaced while a request is under way.  `PROJECT.json` lists under "hazards" the
line of the code at which each of them would go wrong.

### Bounds, and why they are enough

* `HALFBUFF = 2`, `SockBuf = 1`, `MaxSend = 5`.  A direction can hold one unit in each kernel
  buffer, two of input and up to three of output, so five units reach every combination
  of full and empty buffers including a stopped reader; `HALFBUFF = 2` separates "empty",
  "some" and "full", the three cases the callbacks tell apart.  `client_http`, which
  checks liveness and the refinement, has `SockBuf = 2`: the proxy's 200 and its first data may then be
  read together, so that data waits in the input when the relaying starts and an EOF may overtake
  it.  Four payload units fill a socket buffer and a half buffer of output, at which a reader is
  stopped: a reader that is not resumed is noticed in this instance (a seeded fault).
* `MIN = 1`, `MAX = 13`, `U16 = 16` keep the shape of the back-off with the default limits, which is
  1, 3, 7, 13 and, as the doubling overflows, 11, 7, 13 and so on; `backoff_uint16` uses the real
  numbers.  Seven descriptors are three listeners
  and two clients, so the third accept fails and any of three instances can be woken by a
  client of another.
* Two addresses and two destinations are the fewest for shared and for separate sender
  sockets; six descriptors are fewer than the seven that listener, two control
  connections, two datagram sockets and two senders want.  Three datagrams overfill a
  queue of two.
* Three connections let a challenge be replaced twice while a request is under way, by the 407s of
  the other two in either order.
* `BUF_SIZE = 2`, `SockBuf = 2`, `MaxRequest = 1`, `MaxReply = 3` in `ShadowsocksLocal`: with the
  two messages of the handshake the application sends three units, so that a torn greeting or request
  is followed by another message; a socket buffer is full while two units are received at once, `send` takes none,
  one or both of them, and the rest waits in the buffer while a further unit arrives; with
  one reply unit less, a rest that is overwritten would not be noticed.
* Four lines are the first line, two headers that may be of different kinds and the empty
  line, or one header and content, or no header and two segments of content; segments of three let a
  segment end before, at and after the empty line.  Replies have at most four lines and are cut
  everywhere.  Two changes by other connections are the fewest after which a third and a fourth try
  follow.
* Two taps are two starts, or a start or a stop that meets the other, the death of the application or
  a reboot; they come in addition to the daemon that may be running at first.  Three threads are those
  of a start and a stop that overlap.  Two ports let a second daemon start beside the first; a
  configuration that differs in its mode only is not needed, since a changed port makes it differ
  too.  One late script is enough, as nothing is claimed after the first.  The invariants, which
  are proved for every value of these bounds, were also checked with two modes and three taps
  (785,931 states up to symmetry).

### Fairness

Invariants do not depend on fairness; liveness properties assume only the following.
`RedsocksClient`: the event loop dispatches an event that stays ready (libevent is level
triggered and runs all active events of a priority), a connect attempt ends, and a peer reads
what has arrived; nothing makes a peer send, close or reset.  `RedsocksInstance`: a
registered timer fires, and `fini` functions, plain loops, run to their end.  `RedUdp`: a
pending timer expires, which the bound on datagrams justifies, as each datagram puts the
timer off; `fini` as before.  `HttpAuth`: a connecting relay becomes writable or the
connection is dropped, the proxy answers a request and the answer arrives.  `ShadowsocksLocal`: the loop polls
again and again and runs what is pending, an active connect timer expires, and a peer reads
what has arrived; nothing makes a connection attempt end, which is what the timer is for.
`HttpRelay`: a connecting relay becomes writable or fails, the proxy answers and its answer
arrives; that other connections leave the count alone in the end is the bound `MaxOthers`, without
which the code may reconnect for ever.  `HapService`: Android runs the executor and the threads, a
script that su lets run comes to its end, and a signalled daemon ends; nothing makes su answer or
refuse.

### Findings

1. **A client that closes early is never released** (`client_early_close`).  Reading is
   enabled on the client before the relay is connected "to handle EOF from client"
   (`redsocks.c:697`).  The handler of that EOF shuts the relay down for writing, which
   aborts the connect and unregisters the write event, the only event left.  The client
   structure and two descriptors stay until the program ends.
2. **The back-off shrinks** (`backoff_uint16`).  It is doubled in 16 bits before it is
   clamped: with the default limits, 51711 is followed by 37887.  `redsocks.h:33` says
   "backoff capped by 65 seconds is enough".
3. **Datagrams for a second destination go to the first** (`udp_destination`), as the TODO at
   `redudp.c:649` suspects.
4. **"proxy auth failed" for a connection that sent no credentials** (`auth_verdict`).  The test
   at `http-connect.c:96` is made on state of the instance, which another connection
   may have set.

More behaviours are excepted in properties by name instead of being findings, as hardly any text of
the repository promises the contrary:

* input that was buffered before `redsocks_start_relay` is lost if the EOF is handled before
  the next write callback (`fresh` in `EofAfterData` and the promise, `EofOvertook` in
  `ReplyDelivered`); what the client had sent before is moved on whatever its length
  (`BoundedBuffers`); and
  a read suspended at the high watermark stays suspended (`suspended` in `DirectionAlive` and
  `ClosedIsDropped`);
* after a 407, `relay_evshut` says of the new relay that it was shut down (`StaleShut` in
  `KeepsPromise`), so the end of the client's stream is not passed on;
* a reply head that http-relay receives in several reads loses the lines of the earlier ones
  (`split` in `ReplyIntact`); requests of other connections change the count by which a 407 is found
  to be final (`others` in `TriesBounded`); a 407 whose challenge has not arrived with the status line,
  or stands behind a line without a colon, ends the connection with a double free, which the process
  may not survive (`http-relay.c:134`, 179 and 227; "unchallenged" and "crashed" in `Served`); a line before the status line
  delays the reply until more arrives (`Served`); a client that closes before the relay is
  connected leaves nothing registered, as in finding 1 (`aborted` in `Served`);
* the shadowsocks client takes what one `recv` returns for a whole SOCKS5 message: the tail of one that
  TCP has cut is taken for the next message or relayed as payload, and so is what an application
  sends before it has read the reply (`astray` in `Orderly`);
* a stop script that outlasts the three seconds or the application may end the daemon started after
  it, or leave the old one running beside it on another port, where no script reaches it any more
  (`late`; FAQ 9 of `help.html` knows the HaP that has to be killed by hand), two threads that increase `si` at the same time
  run one script twice and the other not at all (`mixed`), and after a stop that su, exec or kill has
  refused the old daemon runs on (`refused`): all three in `Smooth`, that is, in `PidFileNamesDaemon`
  and `NoStaleDaemon`; `mixed` in `OwnCommands`, `mixed` and `refused` in `StopEnds`.

## 4. Theorems

Each holds for every value of the constants that satisfies the named assumptions of the
component.

**RedsocksClientProofs** (`ProtoAssumption`, `BoundsAssumption`).  `TypeCorrect`,
`NoUseAfterFreeHolds`, `EofIsForwardedHolds`.  `NoUseAfterFree` is not inductive:
`redsocks_event_error` shuts down one half for reading and then looks at the other half, and
nothing in it says that the first shutdown did not complete both flag words.
The inductive invariant `Inv` (well-typed, plus `Good`) adds what makes it impossible: a
half is shut for writing only after the other was shut for reading (`EofForwarded`), a
living client has an open half (`HalfOpen`), and a handshake under way has replies to come
(`HandshakeOpen`).  If reading of `s` is being shut down and everything else were shut
already, then the other side's write half would be shut while reading of `s` was open,
against `EofForwarded`.  The proof has one lemma per redsocks function (it keeps a good
client good) and one per action.

**RedsocksRelayProofs** (the same assumptions).  `StreamsIntactHolds`, `BoundedBuffersHolds`,
`DirectionAliveHolds`, `EofAfterDataHolds`, `KeepsPromiseHolds`.  The handlers compose libevent operations that each
touch a few fields, so the module first states field by field what every operation does
(`EnableFields`, `MoveFields`, ...) and then what every action does to `c` and `net`
(`ReadDataStep`, `WriteReadyStep`, ...); the invariants are shown from these equations only.
`Flow` adds to `StreamsIntact` that a dropped client leaves nothing behind, that before the
relaying the relay has been handed requests only, and that the proxy answers no request it
has not read.  `BoundedBuffers` is an action property: no step of a relaying connection takes an
input beyond a half buffer or an output to two, but the step that moves on what the client had sent
before.  It cannot be an invariant, for the output to the relay may stay as long as that step has
made it.  Its proof uses `Bounded`, what a relaying connection holds (`RelayHolds`) and the limit of
the relay's input in every phase, and then shows for each action which buffer it lengthens
(`ReadDataLimits`, `WriteReadyLimits`, `OtherLimits`).  `Lively` adds to
`DirectionAlive` that writing stays enabled until it is shut down.  `Ending`, for
`EofAfterData`, says why a read half was shut down (the peer had closed and all was read), that
input which waits, waits for output to be written, and that `client_evshut` and `relay_evshut`
are never behind the sockets.
`KeepsPromiseHolds` is the refinement of `StreamRelay`.  From `StreamsIntact`, `EofAfterData` and
`Answered` (no reply of the handshake is outstanding while relaying) follows `Steady`: payload handed
on and payload held make up the payload sent, and nothing is held behind an end of stream that was
passed on.  With it the entry into relaying is `Open`, each read, write and shutdown is a `Forward`
or a stutter, and an unbroken connection is dropped only when both streams are delivered, as an
I/O error needs a reset.

**RedsocksInstanceProofs** (`InstanceAssumption`, `BackoffAssumption`).
`ListensOrBacksOffHolds` for any number of instances; its inductive invariant also says that an
instance out of service has neither event registered, so that a close never wakes one.
`DescriptorsReturnedHolds` needs the balance that holds all along (`Balance`): the free
descriptors, one per instance in service and two per client make up all of them; its proof
counts instances and the pairs of an instance and one of its clients.
`ShrinksByOverflowHolds`, for every pair of limits within 16 bits and so for the defaults too: a failed
accept makes the back-off smaller exactly when its doubling overflows (`Overflows`); in every other
case it is kept or grows.  With finding 2 this says when the cap is not kept.

**RedUdpProofs** (`RedUdpAssumption`).  `SendersCountedHolds`: for every set of clients and
destinations the reference count of a sender socket is the number of clients that hold it; the
cardinality lemmas `NewHolder` and `LostHolder` give the effect of taking and of giving up a
reference.  `QueueDrainedHolds`: the queue is within its bound, and empty once the
association is granted.  `DescriptorsAccountedHolds`: every descriptor is free or has one owner; the
proof follows, for each of `Drop`, connecting, associating and answering, the cardinalities of the sets
of clients with a control connection, with a datagram socket, and of bound destinations.
`NotOvertakenHolds`: `fwd` followed by the queue is ascending, which is inductive once all
numbers are known to be at most `sent` and a client that is up has an empty queue.

**HttpAuthProofs** (`HttpAuthAssumption`).  `NoReplayHolds`, under the hypothesis `Fresh` that each
challenge has a nonce of its own, and `RefusedNotRepeatedHolds`, which carries it in its statement.
Neither is inductive: that a request is new depends on the counts used by all other connections.
The challenges are not ordered, as an older one may be stored after a younger one.  What holds is
that a challenge under way is nowhere else (`Single`): not stored, not used, not under way to another
connection and not among those anybody was refused for.  So storing one starts a count nobody has
used, the counts used with the stored nonce stay at most `last_auth_count` (`Counts`), and what a
connection will answer next it was not refused for (`Unrefused`).

**HttpRelayProofs** (`HttpRelayAssumption`).  `TriesBoundedHolds`,
`ReplyIntactHolds` and `RequestWholeHolds`, for requests and segments of any length.  `TriesBounded` needs that a try
after the first finds the challenge stored and the count begun anew, so that the 407 answering it is
final unless another connection has changed them since (`Counts`); `ReplyIntact` needs which part of
the reply each state has consumed (`Taken`, `Whole`).  `RequestWhole` compares all lines of a request with those sent.  Its
invariant `RequestInv` names the parts of the request instead of positions in it: while the head is
read, a firstline and headers of which `client_buffer` has those that are kept (`Reading`);
afterwards a firstline, headers and content, of which it has the rewritten form (`Gathers`);
and a relay that has its request has been sent just that, behind the firstline and perhaps
credentials (`Sent`).  A segment extends the headers (lemma `TakeLinesReads`), ends them
(`EndHeadGathers`) or extends the content (`ContentOK`), and no callback of the relay touches any
of it (`ReadSame`).  That reading segment by segment keeps the same headers as reading all at once
(`WithoutConcat`) is an induction over the lines.  The library's induction theorems take an
operator as a parameter and cannot be used, so `SetInduction` states induction for a set of
numbers; it follows from the order on the natural numbers being well founded.  For the
same reason `Without` is a recursive function in `HttpRelay` and not `SelectSeq`, which the
prover cannot expand.  Before it was proved, `RequestInv` was checked with TLC on all states of
`http_relay`, with the parts cut out of the request by position.

**HapServiceProofs** (`ServiceAssumption`).  `PidFileNamesDaemonHolds`, `OwnCommandsHolds`,
`NoStaleDaemonHolds`, for any number of threads, modes, ports and process numbers.  `OwnFiles` says that until two
threads have met in a file each has one of its own (`si` never passes the number of threads that
have counted themselves, so a new name is one nobody is using); `Waits` ties the task's
phase to the script of the thread it waits for, and says that while nothing was left behind only that
thread starts a daemon; `Fresh` says, as long as everything was `Smooth`, that after the task's stop.sh
every daemon is ending, that there is none when its start.sh runs, whatever the port, and that the pid
file names those there are.  The proof showed that `NoStaleDaemon` depends on the bound `MaxLate` being
positive: with 0 a script that is left behind would not be counted.  The assumption says so.

**ShadowsocksLocalProofs** (`BoundsAssumption`).  `TypeCorrect`, `NoDanglingWatcherHolds`,
`OneWatcherPerDirectionHolds`, `StreamsIntactHolds` and `KeepsPromiseHolds`, for every buffer size,
every size of the socket buffers and any amount of data.  `OneWatcherPerDirection` is not inductive: that
exactly one watcher of a direction is on after a callback depends on which one was on when
the callback ran, and libev only says that the callback was pending.  `Good` adds the
missing links: a pending io watcher is active (`Fed`), a receiving loop runs only for an active
watcher of a connected pair (`InLoop`), the server has no timer, and a pair exists
wholly or not at all (`Owned`).  Each function of local.c has a lemma that it keeps a process
state `Good`, whatever the kernel did, and each action one that combines them.
`StreamsIntact` needs more, `Whole`: besides the balance itself, that before stage 5 nothing has
been sent to the remote, that the remote sends nothing before it has read the address, and
that the application has read a reply for each message but its last
(`InTurn`); `Torn` says that a tail under way belongs to a connection that is already `astray`.
Without these a stage could not be sure that what one `recv` returns is one
message (lemma `StagesWhole`), and the copying loop could overwrite a rest that waits
(lemma `CopyWhole`, which uses `OneWatcherPerDirection`: a loop runs only while its
direction has no rest).
`KeepsPromiseHolds`, the refinement of `StreamRelay`, adds `Live` (a process that has a connection runs,
and stage 5 is reached on a connected pair only).  Lemma `RelayStep` sums up what may happen at stage
5: the program dies, hands on some units, changes nothing a peer sees, or frees the pair, and
this only after a reset or when a loop meets the end of its stream.  That loop runs only
while its direction has no rest, so by the balance all of the stream has been handed on.

Only model-checked: every liveness property (`ListensAgain`, `TearsDown`,
`ReplyDelivered`, `ClosedIsDropped`, `ClientsExpire`, `Settles`, `ConnectEnds`, `ClosedIsFreed`, `Served`,
`StopEnds`, `TasksEnd`), which is out of the prover's reach.

## 5. Not modelled

* Message layouts, base64, MD5, the parser's grammar, logging: byte computations without
  state that outlives a call.
* Causes of a failed accept other than descriptors of the process: `redsocks.c:634` backs off in the
  same way for ENFILE, ENOBUFS and ENOMEM, which nothing in the program brings about or ends.
* What the write through the unset `remote` in `accept_cb_fails` does to memory it happens to hit
  (`local.c:501`): the process survives it unharmed or dies.
* `si++` is not atomic (`SuperUser.java:420`); the model's increment is.  Two threads that lose an
  update have the same number, which the model reaches by the second increment falling before the
  first thread's name, and records as `mixed`.
* AsyncTasks that run in parallel, as Android did for API 8 to 10, which the manifest admits: from
  API 11 on they run one after the other.
* Failure of memory allocation and of `event_add`, except where the handler answers it as it
  answers another failure.  `redudp_bump_timeout` drops the client in that case and its
  callers go on using it (`redudp.c:252`).
* A proxy that goes on sending on the control connection after the association is granted:
  `redudp_read_assoc_reply` then runs again over a registered event (`redudp.c:383`).
* The third round of socks5 with a password over TCP, which repeats the shape of the others.
* The layout of a SOCKS5 address in local.c: `addr_len` is an unsigned char and wraps for
  names of 252 bytes or more (`local.c:181`, listed as a hazard).
* The tasks of the app that save, import and edit modes, the installer, the rest of the
  user interface and `pstart.sh` (iptables rules): sequential file operations.  A process that
  has got the number in a stale `haproxy.pid` after a reboot.
* Third-party code: libevent and libev beyond the operations above, OpenSSL, spdylay, shrpx.  It
  is by far the greater part of the files in the repository (OpenSSL alone is more than half), is
  used unchanged, and has its own projects.  Measured over all files the models therefore
  cover a small share; of `jni/redsocks` and `jni/shadowsocks/local.c` they cover nearly every
  function that changes state.

## 6. Plan

1. Done: `RedsocksClient`, `RedsocksInstance`, `RedUdp`, `HttpAuth`; then `ShadowsocksLocal`,
   `HttpRelay`, `HapService` and the abstract `StreamRelay`; the proofs above.
2. Done: every safety invariant and action property of the runs and both refinements of `StreamRelay`
   are theorems.
3. `Redsocks`: instances composed with clients whose descriptors they compete for, in place of
   the abstract clients of `RedsocksInstance`.

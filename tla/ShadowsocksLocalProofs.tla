----------------------- MODULE ShadowsocksLocalProofs -----------------------
(***************************************************************************)
(* Proofs about ShadowsocksLocal, for every buffer size and bound.         *)
(*                                                                         *)
(* Good(d) says what every callback keeps true of the process state d.  It *)
(* strengthens NoDanglingWatcher and OneWatcherPerDirection by what the    *)
(* callbacks rely on without testing it: only active watchers are pending  *)
(* (an expired timer apart), the server has no timer, and a receiving      *)
(* callback runs only for a watcher that is active on a connected pair.    *)
(* Whole(d, n) is the same for the data: the balance of StreamsIntact and  *)
(* the turns of the SOCKS5 handshake, without which the two stages could   *)
(* not be sure that what they take is one message.  From both follows that *)
(* every step is one StreamRelay allows.                                   *)
(***************************************************************************)
EXTENDS ShadowsocksLocal, TLAPS

\* The two structures are made and freed together, and nothing is watched after.
Owned(d) ==
    /\ d.alloc \in {{}, Side}
    /\ d.connected => d.alloc = Side
    /\ \A s \in Side : (d.active[s] # {} \/ d.pending[s] # {} \/ d.running = s) => s \in d.alloc

\* Only active watchers are pending, an expired timer apart.
Fed(d) == \A s \in Side : \A w \in {"recv", "send"} : w \in d.pending[s] => w \in d.active[s]

Untimed(d) == "timer" \notin d.active["server"] /\ "timer" \notin d.pending["server"]

\* A loop runs for an active watcher of a connected pair.
InLoop(d) == d.running # "none" => (d.connected /\ "recv" \in d.active[d.running])

Connecting(d) == /\ d.active["server"] = {} /\ "recv" \notin d.active["remote"]
                 /\ "timer" \in d.active["remote"] \cup d.pending["remote"]

Relaying(d) ==
    /\ "timer" \notin d.active["remote"] \cup d.pending["remote"]
    /\ \A s \in Side :
         /\ "send" \in d.active[Other(s)] <=> "recv" \notin d.active[s]
         /\ "send" \in d.active[s] => d.buf[s] > 0

Watched(d) == d.alloc = Side => IF d.connected THEN Relaying(d) ELSE Connecting(d)

Good(d) == /\ d \in ProcessType
           /\ Owned(d) /\ Fed(d) /\ Untimed(d) /\ InLoop(d) /\ Watched(d)

Inv == Good(ss) /\ net \in NetType

(* The same for the data, of a process state d and a kernel state n.        *)

Clean(d, n) == d.alloc = Side /\ ~ n.astray /\ ~ n.rst["server"] /\ ~ n.rst["remote"]

Rest(d, s) == IF "send" \in d.active[s] THEN d.buf[s] ELSE 0

Past(d) == IF d.stage = 5 THEN 2 ELSE d.stage

\* What one peer has sent is somewhere on the way to the other one.
Balanced(d, n) ==
    /\ n.sent["server"] - Past(d) + (IF d.stage = 5 THEN 1 ELSE 0)
          = n.rx["server"] + (IF d.connected THEN Rest(d, "remote") ELSE 0)
            + n.tx["remote"] + n.got["remote"]
    /\ n.sent["remote"] + Past(d)
          = n.rx["remote"] + Rest(d, "server") + n.tx["server"] + n.got["server"]

\* Before stage 5 the remote has been sent nothing; it sends nothing before it has
\* read; the application waits for both replies.
InTurn(d, n) ==
    /\ d.stage # 5 => /\ n.tx["remote"] = 0 /\ n.got["remote"] = 0
                      /\ d.connected => "recv" \in d.active["server"]
    /\ n.sent["remote"] > 0 => n.got["remote"] > 0
    /\ n.sent["server"] >= 2 => n.got["server"] >= 1
    /\ n.sent["server"] >= 3 => n.got["server"] >= 2

Whole(d, n) == /\ d.alloc = {} => n = NetInit /\ d.stage = 0
               /\ Clean(d, n) => Balanced(d, n) /\ InTurn(d, n)

\* A tail under way belongs to a message that recv has returned without it.
Torn(n) == n.tail => n.astray

StreamInv == Inv /\ Whole(ss, net) /\ Torn(net)

-----------------------------------------------------------------------------

LEMMA SideFacts == /\ \A s \in Side : Other(s) \in Side /\ Other(Other(s)) = s /\ Other(s) # s
                   /\ \A s, t \in Side : t = s \/ t = Other(s)
                   /\ Side = {"server", "remote"}
                   /\ Side # {}
                   /\ "none" \notin Side
  BY DEF Side, Other

LEMMA StartFacts ==
  ASSUME NEW d \in ProcessType, NEW s \in Side, NEW w \in Watcher
  PROVE  LET e == ev_start(d, s, w)
         IN  /\ e \in ProcessType
             /\ e.up = d.up /\ e.alloc = d.alloc /\ e.stage = d.stage
             /\ e.connected = d.connected /\ e.buf = d.buf
             /\ e.pending = d.pending /\ e.running = d.running
             /\ e.active[s] = d.active[s] \cup {w}
             /\ \A t \in Side : t # s => e.active[t] = d.active[t]
  <1> DEFINE e == ev_start(d, s, w)
  <1>1. e = [d EXCEPT !.active = [d.active EXCEPT ![s] = d.active[s] \cup {w}]]
    BY DEF ev_start, ProcessType
  <1>2. [d.active EXCEPT ![s] = d.active[s] \cup {w}] \in [Side -> SUBSET Watcher]
    BY DEF ProcessType
  <1>3. e \in ProcessType
    BY <1>1, <1>2 DEF ProcessType
  <1> QED BY <1>1, <1>3 DEF ProcessType

LEMMA StopFacts ==
  ASSUME NEW d \in ProcessType, NEW s \in Side, NEW w \in Watcher
  PROVE  LET e == ev_stop(d, s, w)
         IN  /\ e \in ProcessType
             /\ e.up = d.up /\ e.alloc = d.alloc /\ e.stage = d.stage
             /\ e.connected = d.connected /\ e.buf = d.buf
             /\ e.running = d.running
             /\ e.active[s] = d.active[s] \ {w} /\ e.pending[s] = d.pending[s] \ {w}
             /\ \A t \in Side : t # s => e.active[t] = d.active[t] /\ e.pending[t] = d.pending[t]
  <1> DEFINE e == ev_stop(d, s, w)
  <1>1. e = [d EXCEPT !.active = [d.active EXCEPT ![s] = d.active[s] \ {w}],
                      !.pending = [d.pending EXCEPT ![s] = d.pending[s] \ {w}]]
    BY DEF ev_stop, ProcessType
  <1>2. /\ [d.active EXCEPT ![s] = d.active[s] \ {w}] \in [Side -> SUBSET Watcher]
        /\ [d.pending EXCEPT ![s] = d.pending[s] \ {w}] \in [Side -> SUBSET Watcher]
    BY DEF ProcessType
  <1>3. e \in ProcessType
    BY <1>1, <1>2 DEF ProcessType
  <1> QED BY <1>1, <1>3 DEF ProcessType

\* Whatever state a callback is in, giving the connection up leaves nothing behind.
LEMMA CloseBothGood ==
  ASSUME NEW d \in ProcessType, Untimed(d)
  PROVE  Good(CloseBoth(d)) /\ CloseBoth(d).alloc = {} /\ CloseBoth(d).stage = 0
  <1> DEFINE a == ev_stop(d, "remote", "timer")
             b == ev_stop(a, "remote", "send")
             c == ev_stop(b, "remote", "recv")
             r == [c EXCEPT !.alloc = @ \ {"remote"}, !.connected = FALSE, !.buf["remote"] = 0]
             x == ev_stop(r, "server", "send")
             y == ev_stop(x, "server", "recv")
             z == [y EXCEPT !.alloc = @ \ {"server"}, !.stage = 0, !.buf["server"] = 0]
             q == [z EXCEPT !.running = "none"]
  <1>0. "server" \in Side /\ "remote" \in Side /\ {"recv", "send", "timer"} = Watcher
    BY DEF Side, Watcher
  <1>1. a \in ProcessType /\ a.active["remote"] = d.active["remote"] \ {"timer"}
        /\ a.pending["remote"] = d.pending["remote"] \ {"timer"}
        /\ a.active["server"] = d.active["server"] /\ a.pending["server"] = d.pending["server"]
    <2> HIDE DEF a
    <2> QED BY <1>0, StopFacts DEF a
  <1>2. b \in ProcessType /\ b.active["remote"] = a.active["remote"] \ {"send"}
        /\ b.pending["remote"] = a.pending["remote"] \ {"send"}
        /\ b.active["server"] = a.active["server"] /\ b.pending["server"] = a.pending["server"]
    <2> HIDE DEF a
    <2> QED BY <1>0, <1>1, StopFacts
  <1>3. c \in ProcessType /\ c.active["remote"] = b.active["remote"] \ {"recv"}
        /\ c.pending["remote"] = b.pending["remote"] \ {"recv"}
        /\ c.active["server"] = b.active["server"] /\ c.pending["server"] = b.pending["server"]
    <2> HIDE DEF b
    <2> QED BY <1>0, <1>2, StopFacts
  <1>4. r \in ProcessType /\ r.active = c.active /\ r.pending = c.pending
        /\ r.alloc = c.alloc \ {"remote"} /\ r.connected = FALSE
    <2> HIDE DEF c
    <2>1. [c.buf EXCEPT !["remote"] = 0] \in [Side -> 0 .. BUF_SIZE]
      BY <1>0, <1>3, BoundsAssumption DEF ProcessType
    <2>2. r = [c EXCEPT !.alloc = c.alloc \ {"remote"}, !.connected = FALSE,
                        !.buf = [c.buf EXCEPT !["remote"] = 0]]
      BY <1>3 DEF ProcessType
    <2> QED BY <1>3, <2>1, <2>2 DEF ProcessType
  <1>5. x \in ProcessType /\ x.active["server"] = r.active["server"] \ {"send"}
        /\ x.pending["server"] = r.pending["server"] \ {"send"}
        /\ x.active["remote"] = r.active["remote"] /\ x.pending["remote"] = r.pending["remote"]
        /\ x.alloc = r.alloc /\ x.connected = r.connected
    <2> HIDE DEF r
    <2> QED BY <1>0, <1>4, StopFacts
  <1>6. y \in ProcessType /\ y.active["server"] = x.active["server"] \ {"recv"}
        /\ y.pending["server"] = x.pending["server"] \ {"recv"}
        /\ y.active["remote"] = x.active["remote"] /\ y.pending["remote"] = x.pending["remote"]
        /\ y.alloc = x.alloc /\ y.connected = x.connected
    <2>1. x \in ProcessType
      BY <1>5
    <2> HIDE DEF x
    <2> QED BY <1>0, <2>1, StopFacts
  <1>7. q \in ProcessType /\ q.active = y.active /\ q.pending = y.pending
        /\ q.alloc = y.alloc \ {"server"} /\ q.connected = y.connected /\ q.running = "none"
        /\ q.stage = 0
    <2> HIDE DEF y
    <2>1. [y.buf EXCEPT !["server"] = 0] \in [Side -> 0 .. BUF_SIZE]
      BY <1>0, <1>6, BoundsAssumption DEF ProcessType
    <2>2. q = [y EXCEPT !.alloc = y.alloc \ {"server"}, !.stage = 0,
                        !.buf = [y.buf EXCEPT !["server"] = 0], !.running = "none"]
      BY <1>6 DEF ProcessType
    <2> QED BY <1>6, <2>1, <2>2 DEF ProcessType
  <1>8. CloseBoth(d) = q
    BY DEF CloseBoth, close_and_free_server, close_and_free_remote
  <1> HIDE DEF a, b, c, r, x, y, z, q
  <1>9. q.alloc = {}
    BY <1>4, <1>5, <1>6, <1>7, <1>3 DEF ProcessType, Side
  <1>10. d.active["remote"] \subseteq Watcher /\ d.pending["remote"] \subseteq Watcher
         /\ d.active["server"] \subseteq Watcher /\ d.pending["server"] \subseteq Watcher
    BY <1>0 DEF ProcessType
  <1>11. q.active["remote"] = {} /\ q.pending["remote"] = {}
    BY <1>0, <1>1, <1>2, <1>3, <1>4, <1>5, <1>6, <1>7, <1>10
  <1>12. q.active["server"] = {} /\ q.pending["server"] = {}
    BY <1>0, <1>1, <1>2, <1>3, <1>4, <1>5, <1>6, <1>7, <1>10 DEF Untimed
  <1>13. Owned(q) /\ Fed(q) /\ Untimed(q) /\ InLoop(q) /\ Watched(q)
    BY <1>4, <1>5, <1>6, <1>7, <1>9, <1>11, <1>12, SideFacts DEF Owned, Fed, Untimed, InLoop, Watched
  <1> QED BY <1>7, <1>8, <1>9, <1>13 DEF Good

\* The state the callback of a pending watcher is entered with.
LEMMA InvokedGood ==
  ASSUME Good(ss), NEW s \in Side, NEW w \in {"recv", "send"}
  PROVE  /\ Good(Invoked(s, w))
         /\ Invoked(s, w).active = ss.active /\ Invoked(s, w).buf = ss.buf
         /\ Invoked(s, w).alloc = ss.alloc /\ Invoked(s, w).connected = ss.connected
         /\ Invoked(s, w).running = ss.running
         /\ Invoked(s, w).pending[s] = ss.pending[s] \ {w}
         /\ \A t \in Side : t # s => Invoked(s, w).pending[t] = ss.pending[t]
  <1> DEFINE p == [ss.pending EXCEPT ![s] = ss.pending[s] \ {w}]
             e == [ss EXCEPT !.pending = p]
  <1>1. Invoked(s, w) = e
    BY DEF Invoked, Good, ProcessType
  <1>2. p \in [Side -> SUBSET Watcher]
    BY DEF Good, ProcessType
  <1>3. e \in ProcessType /\ e.active = ss.active /\ e.buf = ss.buf /\ e.alloc = ss.alloc
        /\ e.connected = ss.connected /\ e.running = ss.running /\ e.pending = p
    BY <1>2 DEF Good, ProcessType
  <1>4. /\ p[s] = ss.pending[s] \ {w}
        /\ \A t \in Side : t # s => p[t] = ss.pending[t]
    BY DEF Good, ProcessType
  <1> HIDE DEF e, p
  <1>5. Owned(e)
    BY <1>3, <1>4 DEF Good, Owned
  <1>6. Fed(e) /\ Untimed(e) /\ InLoop(e)
    BY <1>3, <1>4, SideFacts DEF Good, Fed, Untimed, InLoop
  <1>7. Watched(e)
    BY <1>3, <1>4, SideFacts DEF Good, Watched, Relaying, Connecting
  <1> QED BY <1>1, <1>3, <1>4, <1>5, <1>6, <1>7 DEF Good

LEMMA InvokedTimer ==
  ASSUME Good(ss)
  PROVE  LET c == CloseBoth(ev_stop(Invoked("remote", "timer"), "remote", "timer"))
         IN  Good(c) /\ c.alloc = {} /\ c.stage = 0
  <1> DEFINE p == [ss.pending EXCEPT !["remote"] = ss.pending["remote"] \ {"timer"}]
             e == [ss EXCEPT !.pending = p]
  <1>1. Invoked("remote", "timer") = e
    BY DEF Invoked, Good, ProcessType
  <1>2. p \in [Side -> SUBSET Watcher] /\ p["server"] = ss.pending["server"]
    BY DEF Good, ProcessType, Side
  <1>3. e \in ProcessType /\ Untimed(e)
    BY <1>2 DEF Good, ProcessType, Untimed
  <1> HIDE DEF e, p
  <1>4. ev_stop(e, "remote", "timer") \in ProcessType /\ Untimed(ev_stop(e, "remote", "timer"))
    BY <1>3, StopFacts, SideFacts DEF Untimed, Watcher
  <1> QED BY <1>1, <1>4, CloseBothGood

\* A step that ends in a good process state and a well formed kernel state.
LEMMA FinishInv ==
  ASSUME NEW d, Good(d), NEW n \in NetType, Finish(d, n)
  PROVE  Inv'
  <1>1. NetInit \in NetType
    BY BoundsAssumption DEF NetInit, NetType
  <1>2. net' \in NetType
    BY <1>1 DEF Finish
  <1>3. Good(ss)'
    BY DEF Finish, Good, Owned, Fed, Untimed, InLoop, Watched, Relaying, Connecting
  <1> QED BY <1>2, <1>3 DEF Inv

LEMMA ReturnGood ==
  ASSUME NEW d, Good(d)
  PROVE  Good(Return(d)) /\ Return(d).alloc = d.alloc
  <1> DEFINE e == [d EXCEPT !.running = "none"]
  <1>1. e \in ProcessType /\ e.active = d.active /\ e.buf = d.buf /\ e.alloc = d.alloc
        /\ e.connected = d.connected /\ e.running = "none" /\ e.pending = d.pending
    BY DEF Good, ProcessType
  <1> HIDE DEF e
  <1>2. Owned(e) /\ Fed(e) /\ Untimed(e) /\ InLoop(e)
    BY <1>1, SideFacts DEF Good, Owned, Fed, Untimed, InLoop
  <1>3. Watched(e)
    BY <1>1 DEF Good, Watched, Relaying, Connecting
  <1>4. Good(e)
    BY <1>1, <1>2, <1>3 DEF Good
  <1> QED BY <1>1, <1>4 DEF Return, e

LEMMA CloseInv ==
  ASSUME Inv, NEW d, Good(d), Finish(CloseBoth(d), net)
  PROVE  Inv'
  <1>1. Good(CloseBoth(d))
    BY CloseBothGood DEF Good
  <1> QED BY <1>1, FinishInv DEF Inv

LEMMA LengthFacts ==
  ASSUME Inv, NEW s \in Side
  PROVE  /\ RecvLength(s) \in 0 .. BUF_SIZE /\ RecvLength(s) <= net.rx[s]
         /\ \A k \in 0 .. BUF_SIZE :
              /\ SendLength(s, k) \in 0 .. k
              /\ net.tx[s] + SendLength(s, k) \in 0 .. SockBuf
  <1>1. net.rx[s] \in 0 .. SockBuf /\ net.tx[s] \in 0 .. SockBuf
    BY DEF Inv, NetType
  <1> QED BY <1>1, BoundsAssumption DEF RecvLength, SendLength, Least

\* The rest of what was received waits in the buffer: the loop is left, receiving
\* stops and the sending watcher takes over.
LEMMA HandOverGood ==
  ASSUME Good(ss), NEW s \in Side, ss.running = s, NEW k \in 1 .. BUF_SIZE
  PROVE  LET q == Return(ev_start(ev_stop([ss EXCEPT !.buf[Other(s)] = k], s, "recv"),
                                  Other(s), "send"))
         IN  /\ Good(q) /\ q.alloc = Side /\ q.connected = TRUE /\ q.stage = ss.stage
             /\ q.active[s] = ss.active[s] \ {"recv"}
             /\ q.active[Other(s)] = ss.active[Other(s)] \cup {"send"}
             /\ q.buf[Other(s)] = k /\ q.buf[s] = ss.buf[s]
  <1> DEFINE to == Other(s)
             a == [ss EXCEPT !.buf = [ss.buf EXCEPT ![to] = k]]
             b == ev_stop(a, s, "recv")
             c == ev_start(b, to, "send")
             q == [c EXCEPT !.running = "none"]
  <1>0. to \in Side /\ to # s /\ "recv" \in Watcher /\ "send" \in Watcher
        /\ \A t \in Side : t = s \/ t = to
    BY SideFacts DEF Watcher
  <1>1. [ss EXCEPT !.buf[Other(s)] = k] = a
    BY DEF Good, ProcessType
  <1>2. a \in ProcessType /\ a.alloc = ss.alloc /\ a.connected = ss.connected /\ a.stage = ss.stage
        /\ a.active = ss.active /\ a.pending = ss.pending
        /\ a.buf[to] = k /\ a.buf[s] = ss.buf[s]
    <2>1. [ss.buf EXCEPT ![to] = k] \in [Side -> 0 .. BUF_SIZE]
      BY <1>0, BoundsAssumption DEF Good, ProcessType
    <2> QED BY <1>0, <2>1 DEF Good, ProcessType
  <1> HIDE DEF a
  <1>3. b \in ProcessType /\ b.alloc = a.alloc /\ b.connected = a.connected /\ b.buf = a.buf /\ b.stage = a.stage
        /\ b.active[s] = a.active[s] \ {"recv"} /\ b.pending[s] = a.pending[s] \ {"recv"}
        /\ b.active[to] = a.active[to] /\ b.pending[to] = a.pending[to]
    BY <1>0, <1>2, StopFacts
  <1> HIDE DEF b
  <1>4. c \in ProcessType /\ c.alloc = b.alloc /\ c.connected = b.connected /\ c.buf = b.buf /\ c.stage = b.stage
        /\ c.pending = b.pending
        /\ c.active[to] = b.active[to] \cup {"send"} /\ c.active[s] = b.active[s]
    <2>1. b \in ProcessType /\ to \in Side /\ "send" \in Watcher
      BY <1>0, <1>3
    <2>2. /\ c \in ProcessType /\ c.alloc = b.alloc /\ c.stage = b.stage
          /\ c.connected = b.connected /\ c.buf = b.buf /\ c.pending = b.pending
          /\ c.active[to] = b.active[to] \cup {"send"}
          /\ \A t \in Side : t # to => c.active[t] = b.active[t]
      <3> HIDE DEF to
      <3> QED BY <2>1, StartFacts
    <2> HIDE DEF c
    <2> QED BY <1>0, <2>2
  <1> HIDE DEF c
  <1>5. q \in ProcessType /\ q.alloc = c.alloc /\ q.connected = c.connected /\ q.buf = c.buf /\ q.stage = c.stage
        /\ q.pending = c.pending /\ q.active = c.active /\ q.running = "none"
    BY <1>4 DEF ProcessType
  <1> HIDE DEF q
  <1>6. /\ q.alloc = Side /\ q.connected = TRUE /\ q.stage = ss.stage
        /\ q.active[s] = ss.active[s] \ {"recv"} /\ q.active[to] = ss.active[to] \cup {"send"}
        /\ q.pending[s] = ss.pending[s] \ {"recv"} /\ q.pending[to] = ss.pending[to]
        /\ q.buf[to] = k /\ q.buf[s] = ss.buf[s]
    <2>1. ss.connected = TRUE /\ ss.alloc = Side
      BY SideFacts DEF Good, InLoop, Owned, ProcessType
    <2> QED BY <2>1, <1>2, <1>3, <1>4, <1>5
  <1>7. Relaying(ss) /\ "recv" \in ss.active[s]
    BY SideFacts DEF Good, InLoop, Owned, Watched
  <1>8. Owned(q) /\ InLoop(q)
    BY <1>5, <1>6, SideFacts DEF Owned, InLoop
  <1>9. Fed(q)
    BY <1>0, <1>6 DEF Good, Fed
  <1>10. Untimed(q)
    BY <1>0, <1>6, SideFacts DEF Good, Untimed
  <1>11. Relaying(q)
    <2>1. "timer" \notin q.active["remote"] \cup q.pending["remote"]
      BY <1>0, <1>6, <1>7, SideFacts DEF Relaying
    <2>2. "send" \in q.active[to] /\ "recv" \notin q.active[s] /\ q.buf[to] > 0
      BY <1>6
    <2>3. "send" \in q.active[s] <=> "recv" \notin q.active[to]
      BY <1>0, <1>6, <1>7, SideFacts DEF Relaying
    <2>4. "send" \in q.active[s] => q.buf[s] > 0
      BY <1>6, <1>7 DEF Relaying
    <2> QED BY <1>0, <2>1, <2>2, <2>3, <2>4, SideFacts DEF Relaying
  <1>12. Good(q)
    BY <1>5, <1>6, <1>8, <1>9, <1>10, <1>11 DEF Good, Watched
  <1> QED BY <1>1, <1>6, <1>12 DEF Return, q, c, b

LEMMA CopyInv ==
  ASSUME Inv, NEW s \in Side, ss.running = s, Copy(s)
  PROVE  Inv'
  <1> DEFINE to == Other(s)
             r  == RecvLength(s)
             w  == SendLength(to, r)
             n  == [net EXCEPT !.rx[s] = @ - r, !.tx[to] = @ + w]
  <1>1. to \in Side /\ r \in 0 .. BUF_SIZE /\ r <= net.rx[s] /\ w \in 0 .. r
        /\ net.tx[to] + w \in 0 .. SockBuf
    BY LengthFacts, SideFacts
  <1> HIDE DEF r, w
  <1>2. n \in NetType
    <2> DEFINE rx == net.rx[s] - r
               tx == net.tx[to] + w
    <2>1. rx \in 0 .. SockBuf /\ tx \in 0 .. SockBuf
      BY <1>1, BoundsAssumption DEF Inv, NetType
    <2> HIDE DEF rx, tx
    <2>2. [net EXCEPT !.rx[s] = rx, !.tx[to] = tx] \in NetType
      BY <1>1, <2>1 DEF Inv, NetType
    <2> QED BY <2>2 DEF rx, tx
  <1> HIDE DEF n
  <1>3. CASE net.rst[to]
    BY <1>3, CloseInv DEF Copy, Inv
  <1>4. CASE ~ net.rst[to] /\ w < r
    <2>1. r - w \in 1 .. BUF_SIZE
      BY <1>1, <1>4, BoundsAssumption
    <2>2. Finish(Return(ev_start(ev_stop([ss EXCEPT !.buf[to] = r - w], s, "recv"), to, "send")), n)
      BY <1>4 DEF Copy, r, w, n
    <2>3. Good(Return(ev_start(ev_stop([ss EXCEPT !.buf[to] = r - w], s, "recv"), to, "send")))
      BY <2>1, HandOverGood DEF Inv
    <2> QED BY <1>2, <2>2, <2>3, FinishInv
  <1>5. CASE ~ net.rst[to] /\ ~ (w < r)
    <2>1. Finish(ss, n)
      BY <1>5 DEF Copy, r, w, n
    <2> QED BY <1>2, <2>1, FinishInv DEF Inv
  <1> QED BY <1>3, <1>4, <1>5

\* Part of the buffer is sent, the rest goes on waiting.
LEMMA ShrinkGood ==
  ASSUME NEW d, Good(d), NEW s \in Side, NEW k \in 1 .. BUF_SIZE
  PROVE  Good([d EXCEPT !.buf[s] = k])
  <1> DEFINE e == [d EXCEPT !.buf = [d.buf EXCEPT ![s] = k]]
  <1>1. [d EXCEPT !.buf[s] = k] = e
    BY DEF Good, ProcessType
  <1>2. [d.buf EXCEPT ![s] = k] \in [Side -> 0 .. BUF_SIZE]
    BY BoundsAssumption DEF Good, ProcessType
  <1>3. e \in ProcessType /\ e.active = d.active /\ e.alloc = d.alloc /\ e.pending = d.pending
        /\ e.connected = d.connected /\ e.running = d.running
        /\ \A t \in Side : e.buf[t] = IF t = s THEN k ELSE d.buf[t]
    BY <1>2 DEF Good, ProcessType
  <1> HIDE DEF e
  <1>4. Owned(e) /\ Fed(e) /\ Untimed(e) /\ InLoop(e)
    BY <1>3 DEF Good, Owned, Fed, Untimed, InLoop
  <1>5. Relaying(d) => Relaying(e)
    BY <1>3 DEF Relaying
  <1>6. Watched(e)
    BY <1>3, <1>5 DEF Good, Watched, Connecting
  <1> QED BY <1>1, <1>3, <1>4, <1>6 DEF Good

\* The buffer is empty: the sending watcher stops and receiving starts again.
LEMMA ResumeGood ==
  ASSUME NEW d, Good(d), NEW s \in Side, d.connected, d.running = "none", "send" \in d.active[s]
  PROVE  LET c == ev_start(ev_stop(d, s, "send"), Other(s), "recv")
         IN  /\ Good(c) /\ c.alloc = Side /\ c.connected = TRUE /\ c.stage = d.stage
             /\ c.buf = d.buf
             /\ c.active[s] = d.active[s] \ {"send"}
             /\ c.active[Other(s)] = d.active[Other(s)] \cup {"recv"}
  <1> DEFINE from == Other(s)
             b == ev_stop(d, s, "send")
             c == ev_start(b, from, "recv")
  <1>0. from \in Side /\ from # s /\ "recv" \in Watcher /\ "send" \in Watcher
        /\ Other(from) = s /\ \A t \in Side : t = s \/ t = from
    BY SideFacts DEF Watcher
  <1>1. b \in ProcessType /\ b.alloc = d.alloc /\ b.connected = d.connected /\ b.buf = d.buf
        /\ b.running = d.running /\ b.stage = d.stage
        /\ b.active[s] = d.active[s] \ {"send"} /\ b.pending[s] = d.pending[s] \ {"send"}
        /\ b.active[from] = d.active[from] /\ b.pending[from] = d.pending[from]
    <2>1. d \in ProcessType /\ "send" \in Watcher
      BY <1>0 DEF Good
    <2>2. LET e == ev_stop(d, s, "send")
          IN  /\ e \in ProcessType
              /\ e.up = d.up /\ e.alloc = d.alloc /\ e.stage = d.stage
              /\ e.connected = d.connected /\ e.buf = d.buf
              /\ e.running = d.running
              /\ e.active[s] = d.active[s] \ {"send"} /\ e.pending[s] = d.pending[s] \ {"send"}
              /\ \A t \in Side : t # s => e.active[t] = d.active[t] /\ e.pending[t] = d.pending[t]
      BY ONLY <2>1, StopFacts, s \in Side
    <2> HIDE DEF from
    <2> QED BY <1>0, <2>2
  <1> HIDE DEF b
  <1>2. c \in ProcessType /\ c.alloc = b.alloc /\ c.connected = b.connected /\ c.buf = b.buf
        /\ c.pending = b.pending /\ c.running = b.running /\ c.stage = b.stage
        /\ c.active[from] = b.active[from] \cup {"recv"} /\ c.active[s] = b.active[s]
    <2>1. b \in ProcessType
      BY <1>1
    <2> HIDE DEF from
    <2> QED BY <1>0, <2>1, StartFacts
  <1> HIDE DEF c
  <1>3. d.alloc = Side /\ d.connected = TRUE /\ Relaying(d)
    BY DEF Good, Owned, Watched, ProcessType
  <1>4. Owned(c) /\ InLoop(c)
    BY <1>1, <1>2, <1>3, SideFacts DEF Owned, InLoop
  <1>5. Fed(c)
    BY <1>0, <1>1, <1>2 DEF Good, Fed
  <1>6. Untimed(c)
    BY <1>0, <1>1, <1>2, SideFacts DEF Good, Untimed
  <1>7. Relaying(c)
    <2>1. "timer" \notin c.active["remote"] \cup c.pending["remote"]
      BY <1>0, <1>1, <1>2, <1>3, SideFacts DEF Relaying
    <2>2. "recv" \in c.active[from] /\ "send" \notin c.active[s]
      BY <1>1, <1>2
    <2>3. "send" \in c.active[from] <=> "recv" \notin c.active[s]
      BY <1>0, <1>1, <1>2, <1>3 DEF Relaying
    <2>4. "send" \in c.active[from] => c.buf[from] > 0
      BY <1>0, <1>1, <1>2, <1>3 DEF Relaying
    <2> QED BY <1>0, <2>1, <2>2, <2>3, <2>4, SideFacts DEF Relaying
  <1> QED BY <1>1, <1>2, <1>3, <1>4, <1>5, <1>6, <1>7 DEF Good, Watched, b, c

LEMMA SendBufferInv ==
  ASSUME Inv, NEW s \in Side, CanInvoke(s, "send"), ss.connected, SendBuffer(s)
  PROVE  Inv'
  <1> DEFINE d == Invoked(s, "send")
             w == SendLength(s, ss.buf[s])
             n == [net EXCEPT !.tx[s] = @ + w]
  <1>1. Good(d) /\ d.active = ss.active /\ d.buf = ss.buf /\ d.connected = ss.connected
        /\ d.running = ss.running
    BY InvokedGood DEF Inv
  <1>2. ss.buf[s] \in 0 .. BUF_SIZE /\ w \in 0 .. ss.buf[s] /\ net.tx[s] + w \in 0 .. SockBuf
    <2>1. ss.buf[s] \in 0 .. BUF_SIZE
      BY DEF Inv, Good, ProcessType
    <2> QED BY <2>1, LengthFacts
  <1>3. "send" \in ss.active[s] /\ ss.running = "none"
    BY DEF Inv, Good, Fed, CanInvoke
  <1> HIDE DEF w
  <1>4. n \in NetType
    BY <1>2 DEF Inv, NetType
  <1>5. CASE ss.buf[s] = 0 \/ net.rst[s]
    <2>1. Finish(CloseBoth(d), net)
      BY <1>5 DEF SendBuffer
    <2> HIDE DEF d
    <2> QED BY <1>1, <2>1, CloseInv
  <1>6. CASE ~ (ss.buf[s] = 0 \/ net.rst[s]) /\ w < ss.buf[s]
    <2>1. ss.buf[s] - w \in 1 .. BUF_SIZE
      BY <1>2, <1>6, BoundsAssumption
    <2>2. Finish([d EXCEPT !.buf[s] = d.buf[s] - w], n)
      <3>1. [d EXCEPT !.buf[s] = @ - w] = [d EXCEPT !.buf[s] = d.buf[s] - w]
        OBVIOUS
      <3> QED BY <1>6, <3>1 DEF SendBuffer, w
    <2> HIDE DEF d, n
    <2>3. Good([d EXCEPT !.buf[s] = d.buf[s] - w])
      BY <1>1, <2>1, ShrinkGood
    <2> QED BY <1>4, <2>2, <2>3, FinishInv
  <1>7. CASE ~ (ss.buf[s] = 0 \/ net.rst[s]) /\ ~ (w < ss.buf[s])
    <2>1. Finish(ev_start(ev_stop(d, s, "send"), Other(s), "recv"), n)
      BY <1>7 DEF SendBuffer, w
    <2> HIDE DEF d, n
    <2>2. Good(ev_start(ev_stop(d, s, "send"), Other(s), "recv"))
      BY <1>1, <1>3, ResumeGood
    <2> QED BY <1>4, <2>1, <2>2, FinishInv
  <1> QED BY <1>5, <1>6, <1>7

\* The connection is made: timing stops for good, both sockets are received from.
LEMMA ConnectedGood ==
  ASSUME Inv, CanInvoke("remote", "send"), ~ ss.connected, RemoteConnected
  PROVE  \E f : /\ Finish(f, net)
               /\ Good(f) /\ f.alloc = Side /\ f.connected = TRUE /\ f.stage = ss.stage
               /\ f.active["server"] = {"recv"} /\ f.active["remote"] = {"recv"}
  <1> DEFINE i == Invoked("remote", "send")
             a == [i EXCEPT !.connected = TRUE]
             b == ev_stop(a, "remote", "send")
             c == ev_stop(b, "remote", "timer")
             e == ev_start(c, "server", "recv")
             f == ev_start(e, "remote", "recv")
  <1>0. "server" \in Side /\ "remote" \in Side /\ {"recv", "send", "timer"} = Watcher
    BY DEF Side, Watcher
  <1>1. Good(i) /\ i.active = ss.active /\ i.connected = ss.connected /\ i.running = "none"
        /\ i.alloc = Side /\ i.stage = ss.stage
    <2>1. "send" \in ss.pending["remote"] /\ ss.running = "none"
      BY DEF CanInvoke
    <2>2. ss.alloc = Side
      BY <1>0, <2>1 DEF Inv, Good, Owned
    <2>3. i.stage = ss.stage
      BY DEF Invoked, Inv, Good, ProcessType
    <2> QED BY <1>0, <2>1, <2>2, <2>3, InvokedGood DEF Inv
  <1> HIDE DEF i
  <1>2. a \in ProcessType /\ a.alloc = Side /\ a.connected = TRUE /\ a.stage = ss.stage /\ a.buf = i.buf
        /\ a.active = i.active /\ a.pending = i.pending /\ a.running = "none"
    BY <1>1 DEF Good, ProcessType
  <1> HIDE DEF a
  <1>3. b \in ProcessType /\ b.alloc = Side /\ b.connected = TRUE /\ b.stage = ss.stage /\ b.running = "none"
        /\ b.active["remote"] = a.active["remote"] \ {"send"}
        /\ b.pending["remote"] = a.pending["remote"] \ {"send"}
        /\ b.active["server"] = a.active["server"] /\ b.pending["server"] = a.pending["server"]
    BY <1>0, <1>2, StopFacts
  <1> HIDE DEF b
  <1>4. c \in ProcessType /\ c.alloc = Side /\ c.connected = TRUE /\ c.stage = ss.stage /\ c.running = "none"
        /\ c.active["remote"] = b.active["remote"] \ {"timer"}
        /\ c.pending["remote"] = b.pending["remote"] \ {"timer"}
        /\ c.active["server"] = b.active["server"] /\ c.pending["server"] = b.pending["server"]
    BY <1>0, <1>3, StopFacts
  <1> HIDE DEF c
  <1>5. e \in ProcessType /\ e.alloc = Side /\ e.connected = TRUE /\ e.stage = ss.stage /\ e.running = "none"
        /\ e.pending = c.pending
        /\ e.active["server"] = c.active["server"] \cup {"recv"}
        /\ e.active["remote"] = c.active["remote"]
    BY <1>0, <1>4, StartFacts
  <1> HIDE DEF e
  <1>6. f \in ProcessType /\ f.alloc = Side /\ f.connected = TRUE /\ f.stage = ss.stage /\ f.running = "none"
        /\ f.pending = e.pending
        /\ f.active["remote"] = e.active["remote"] \cup {"recv"}
        /\ f.active["server"] = e.active["server"]
    BY <1>0, <1>5, StartFacts
  <1> HIDE DEF f
  <1>7. /\ i.active["server"] = {} /\ i.pending["server"] \subseteq {}
        /\ i.active["remote"] \subseteq Watcher /\ i.pending["remote"] \subseteq Watcher
    <2>1. Connecting(i)
      BY <1>1 DEF Good, Watched
    <2>2. i.pending["server"] \subseteq Watcher
      BY <1>0, <1>1 DEF Good, ProcessType
    <2> QED BY <1>0, <1>1, <2>1, <2>2 DEF Good, Connecting, Fed, Untimed, ProcessType
  <1>8. /\ f.active["server"] = {"recv"} /\ f.pending["server"] = {}
        /\ f.active["remote"] = {"recv"} /\ f.pending["remote"] \subseteq {"recv"}
    BY <1>0, <1>2, <1>3, <1>4, <1>5, <1>6, <1>7
  <1>9. Owned(f) /\ InLoop(f) /\ Fed(f) /\ Untimed(f)
    BY <1>6, <1>8, SideFacts DEF Owned, InLoop, Fed, Untimed
  <1>10. Relaying(f)
    BY <1>8 DEF Relaying, Side, Other
  <1>11. Good(f)
    BY <1>6, <1>9, <1>10 DEF Good, Watched
  <1>12. Finish(f, net)
    BY DEF RemoteConnected, f, e, c, b, a, i
  <1> QED BY <1>6, <1>8, <1>11, <1>12

LEMMA ConnectedInv ==
  ASSUME Inv, CanInvoke("remote", "send"), ~ ss.connected, RemoteConnected
  PROVE  Inv'
  BY ConnectedGood, FinishInv DEF Inv

\* The stages of the handshake change neither watchers nor buffers.
LEMMA StageGood ==
  ASSUME NEW d, Good(d), NEW k \in {0, 1, 5}
  PROVE  Good([d EXCEPT !.stage = k])
  <1> DEFINE e == [d EXCEPT !.stage = k]
  <1>1. e \in ProcessType /\ e.active = d.active /\ e.buf = d.buf /\ e.alloc = d.alloc
        /\ e.connected = d.connected /\ e.running = d.running /\ e.pending = d.pending
    BY DEF Good, ProcessType
  <1> HIDE DEF e
  <1>2. Owned(e) /\ Fed(e) /\ Untimed(e) /\ InLoop(e) /\ Watched(e)
    BY <1>1 DEF Good, Owned, Fed, Untimed, InLoop, Watched, Relaying, Connecting
  <1>3. Good(e)
    BY <1>1, <1>2 DEF Good
  <1> QED BY <1>3 DEF e

LEMMA IgnoredType ==
  ASSUME NEW n \in NetType, NEW s \in Side
  PROVE  SendIgnored(n, s) \in NetType
  <1>1. CASE net.rst[s] \/ n.tx[s] = SockBuf
    BY <1>1 DEF SendIgnored
  <1>2. CASE ~ (net.rst[s] \/ n.tx[s] = SockBuf)
    <2> DEFINE k == n.tx[s] + 1
    <2>1. k \in 0 .. SockBuf
      BY <1>2, BoundsAssumption DEF NetType
    <2> HIDE DEF k
    <2>2. [n EXCEPT !.tx[s] = k] \in NetType
      BY <2>1 DEF NetType
    <2> QED BY <1>2, <2>2 DEF SendIgnored, k
  <1> QED BY <1>1, <1>2

\* recv in a stage takes some units and may leave the connection astray.
LEMMA MessageFacts ==
  ASSUME Inv, NEW cut \in BOOLEAN
  PROVE  LET n == RecvMessage(cut)
         IN  /\ n \in NetType
             /\ n.rx["server"] = net.rx["server"] - RecvLength("server")
             /\ n.rx["remote"] = net.rx["remote"]
             /\ n.tx = net.tx /\ n.sent = net.sent /\ n.got = net.got /\ n.rst = net.rst
             /\ n.astray = (net.astray \/ cut) /\ n.tail = cut
  <1> DEFINE k == net.rx["server"] - RecvLength("server")
             y == net.astray \/ cut
             m == [net EXCEPT !.rx["server"] = k, !.astray = y, !.tail = cut]
  <1>0. "server" \in Side /\ "remote" \in Side
    BY DEF Side
  <1>1. k \in 0 .. SockBuf
    BY <1>0, LengthFacts, BoundsAssumption DEF Inv, NetType
  <1>2. y \in BOOLEAN
    BY DEF Inv, NetType
  <1>3. RecvMessage(cut) = m
    BY DEF RecvMessage
  <1> HIDE DEF k, y
  <1>4. m \in NetType /\ m.astray = y /\ m.tail = cut
    BY <1>0, <1>1, <1>2 DEF Inv, NetType
  <1>5. m.rx["server"] = k /\ m.rx["remote"] = net.rx["remote"]
    BY <1>0 DEF Inv, NetType
  <1>6. m.tx = net.tx /\ m.sent = net.sent /\ m.got = net.got /\ m.rst = net.rst
    BY DEF Inv, NetType
  <1> HIDE DEF m
  <1> QED BY <1>3, <1>4, <1>5, <1>6 DEF k, y

LEMMA CutFacts == \A cut \in {FALSE, MayBeCut} : cut \in BOOLEAN
  BY DEF MayBeCut

LEMMA StagesInv ==
  ASSUME Inv, ss.running = "server", MethodSelect \/ ConnectRequest
  PROVE  Inv'
  <1>0. "server" \in Side /\ "remote" \in Side
    BY DEF Side
  <1>1. \A cut \in {FALSE, MayBeCut} : RecvMessage(cut) \in NetType
    BY CutFacts, MessageFacts DEF Inv
  <1>2. CASE MethodSelect
    <2>1. Good([ss EXCEPT !.stage = 1])
      BY StageGood DEF Inv
    <2> DEFINE e == [ss EXCEPT !.stage = 1]
    <2> HIDE DEF e
    <2>2. Good(Return(e))
      BY <2>1, ReturnGood DEF e
    <2>5. PICK cut \in {FALSE, MayBeCut} : Finish(Return(e), SendIgnored(RecvMessage(cut), "server"))
      BY <1>2, Zenon DEF MethodSelect, e
    <2> DEFINE n == RecvMessage(cut)
    <2>3. SendIgnored(n, "server") \in NetType
      BY <1>0, <1>1, IgnoredType
    <2>4. Finish(Return(e), SendIgnored(n, "server"))
      BY <2>5
    <2> QED BY <2>2, <2>3, <2>4, FinishInv
  <1>3. CASE ConnectRequest /\ Finish(CloseBoth(ss), net)
    BY <1>3, CloseInv DEF Inv
  <1>4. CASE ConnectRequest /\ ~ Finish(CloseBoth(ss), net)
    <2>5. PICK cut \in {FALSE, MayBeCut} :
             Finish([ss EXCEPT !.stage = 5], SendIgnored(SendIgnored(RecvMessage(cut), "remote"), "server"))
      BY <1>4, Zenon DEF ConnectRequest
    <2> DEFINE n == RecvMessage(cut)
    <2>1. Finish([ss EXCEPT !.stage = 5], SendIgnored(SendIgnored(n, "remote"), "server"))
      BY <2>5
    <2>2. Good([ss EXCEPT !.stage = 5])
      BY StageGood DEF Inv
    <2>3. SendIgnored(n, "remote") \in NetType
      BY <1>0, <1>1, IgnoredType
    <2> DEFINE m == SendIgnored(n, "remote")
    <2> HIDE DEF m
    <2>4. SendIgnored(m, "server") \in NetType
      BY <1>0, <2>3, IgnoredType DEF m
    <2> QED BY <2>1, <2>2, <2>4, FinishInv DEF m
  <1> QED BY <1>2, <1>3, <1>4

LEMMA LoopInv ==
  ASSUME Inv, NEW s \in Side, recv_cb_loop(s)
  PROVE  Inv'
  <1>1. ss.running = s
    BY DEF recv_cb_loop
  <1>2. CASE RecvAgain(s) /\ Finish(Return(ss), net)
    BY <1>2, ReturnGood, FinishInv DEF Inv
  <1>3. CASE (RecvEof(s) \/ RecvError(s)) /\ Finish(CloseBoth(ss), net)
    BY <1>3, CloseInv DEF Inv
  <1>4. CASE Copy(s)
    BY <1>1, <1>4, CopyInv
  <1>5. CASE s = "server" /\ (MethodSelect \/ ConnectRequest)
    BY <1>1, <1>5, StagesInv
  <1>6. ss.stage \in {0, 1, 5}
    BY DEF Inv, Good, ProcessType
  <1> QED BY <1>2, <1>3, <1>4, <1>5, <1>6 DEF recv_cb_loop, Side

LEMMA EnterInv ==
  ASSUME Inv, NEW s \in Side, recv_cb_enter(s)
  PROVE  Inv'
  <1> DEFINE i == Invoked(s, "recv")
             e == [i EXCEPT !.running = s]
  <1>1. "recv" \in ss.pending[s] /\ ss' = e /\ net' = net
    BY DEF recv_cb_enter, CanInvoke
  <1>2. Good(i) /\ i.active = ss.active /\ i.alloc = ss.alloc /\ i.connected = ss.connected
    BY InvokedGood DEF Inv
  <1> HIDE DEF i
  <1>3. e \in ProcessType /\ e.active = i.active /\ e.buf = i.buf /\ e.alloc = i.alloc
        /\ e.connected = i.connected /\ e.running = s /\ e.pending = i.pending
    BY <1>2 DEF Good, ProcessType
  <1> HIDE DEF e
  <1>4. "recv" \in ss.active[s] /\ ss.alloc = Side
    BY <1>1 DEF Inv, Good, Fed, Owned
  <1>5. ss.connected
    BY <1>4, SideFacts DEF Inv, Good, Watched, Connecting
  <1>6. Owned(e) /\ Fed(e) /\ Untimed(e) /\ InLoop(e)
    BY <1>2, <1>3, <1>4, <1>5 DEF Good, Owned, Fed, Untimed, InLoop
  <1>7. Watched(e)
    BY <1>2, <1>3 DEF Good, Watched, Relaying, Connecting
  <1>8. Good(e)
    BY <1>3, <1>6, <1>7 DEF Good
  <1>9. Good(ss)'
    BY <1>1, <1>8 DEF Good, Owned, Fed, Untimed, InLoop, Watched, Relaying, Connecting
  <1> QED BY <1>1, <1>9 DEF Inv

LEMMA AcceptInv ==
  ASSUME Inv, accept_cb
  PROVE  Inv'
  <1> DEFINE a == [ss EXCEPT !.alloc = Side]
             b == ev_start(a, "remote", "send")
             c == ev_start(b, "remote", "timer")
  <1>0. "server" \in Side /\ "remote" \in Side /\ {"recv", "send", "timer"} = Watcher
    BY DEF Side, Watcher
  <1>1. /\ ss.alloc = {} /\ ss.running = "none" /\ ~ ss.connected
        /\ \A s \in Side : ss.active[s] = {} /\ ss.pending[s] = {}
    BY SideFacts DEF accept_cb, Inv, Good, Owned
  <1>2. a \in ProcessType /\ a.alloc = Side /\ a.running = "none" /\ ~ a.connected
        /\ a.active = ss.active /\ a.pending = ss.pending
    BY <1>1 DEF Inv, Good, ProcessType
  <1> HIDE DEF a
  <1>3. b \in ProcessType /\ b.alloc = Side /\ b.running = "none" /\ ~ b.connected
        /\ b.pending = a.pending /\ b.active["remote"] = a.active["remote"] \cup {"send"}
        /\ b.active["server"] = a.active["server"]
    BY <1>0, <1>2, StartFacts
  <1> HIDE DEF b
  <1>4. c \in ProcessType /\ c.alloc = Side /\ c.running = "none" /\ ~ c.connected
        /\ c.pending = b.pending /\ c.active["remote"] = b.active["remote"] \cup {"timer"}
        /\ c.active["server"] = b.active["server"]
    BY <1>0, <1>3, StartFacts
  <1> HIDE DEF c
  <1>5. /\ c.active["server"] = {} /\ c.active["remote"] = {"send", "timer"}
        /\ c.pending["server"] = {} /\ c.pending["remote"] = {}
    BY <1>0, <1>1, <1>2, <1>3, <1>4
  <1>6. Owned(c) /\ Fed(c) /\ Untimed(c) /\ InLoop(c) /\ Watched(c)
    BY <1>4, <1>5, SideFacts DEF Owned, Fed, Untimed, InLoop, Watched, Connecting
  <1>7. Good(c)
    BY <1>4, <1>6 DEF Good
  <1>8. ss' = c /\ net' = [net EXCEPT !.conn = "pending"]
    BY DEF accept_cb, c, b, a
  <1>9. Good(ss)'
    BY <1>7, <1>8 DEF Good, Owned, Fed, Untimed, InLoop, Watched, Relaying, Connecting
  <1>10. net' \in NetType
    BY <1>8 DEF Inv, NetType
  <1> QED BY <1>9, <1>10 DEF Inv

\* Polling feeds active watchers only; an expired timer moves to the pending array.
LEMMA PollInv ==
  ASSUME Inv, NEW expired \in SUBSET {"timer"}, Poll(expired)
  PROVE  Inv'
  <1> DEFINE fed == [s \in Side |-> {w \in ss.active[s] : Ready(s, w)}
                                       \cup (IF s = "remote" THEN expired ELSE {})]
             act == [ss.active EXCEPT !["remote"] = ss.active["remote"] \ expired]
             e   == [ss EXCEPT !.pending = fed, !.active = act]
  <1>0. "server" \in Side /\ "remote" \in Side /\ "timer" \in Watcher
        /\ \A s \in Side : ss.active[s] \subseteq Watcher
    BY DEF Side, Watcher, Inv, Good, ProcessType
  <1>1. ss' = e /\ net' = net
    BY DEF Poll, Inv, Good, ProcessType
  <1>2. fed \in [Side -> SUBSET Watcher] /\ act \in [Side -> SUBSET Watcher]
    BY <1>0 DEF Inv, Good, ProcessType
  <1>3. /\ fed["server"] \subseteq ss.active["server"]
        /\ fed["remote"] \subseteq ss.active["remote"] \cup expired /\ expired \subseteq fed["remote"]
        /\ act["server"] = ss.active["server"] /\ act["remote"] = ss.active["remote"] \ expired
        /\ expired \subseteq ss.active["remote"]
    BY <1>0 DEF Poll, Inv, Good, ProcessType
  <1> HIDE DEF fed, act
  <1>4. e \in ProcessType /\ e.active = act /\ e.pending = fed /\ e.alloc = ss.alloc
        /\ e.connected = ss.connected /\ e.running = ss.running /\ e.buf = ss.buf
    BY <1>2 DEF Inv, Good, ProcessType
  <1> HIDE DEF e
  <1>5. Owned(e)
    <2>1. Owned(ss)
      BY Zenon DEF Inv, Good
    <2>2. \A s \in Side : act[s] # {} \/ fed[s] # {} => ss.active[s] # {}
      BY <1>3 DEF Side
    <2> QED BY <1>4, <2>1, <2>2 DEF Owned
  <1>6. Fed(e) /\ Untimed(e)
    BY <1>3, <1>4, SideFacts DEF Inv, Good, Fed, Untimed
  <1>7. InLoop(e)
    BY <1>4 DEF Poll, InLoop
  <1>8. Watched(e)
    <2>1. ASSUME ss.connected, ss.alloc = Side PROVE Relaying(e)
      <3>1. Relaying(ss)
        BY <2>1 DEF Inv, Good, Watched
      <3>2. expired = {}
        BY <1>3, <3>1 DEF Relaying
      <3>3. \A s \in Side : act[s] = ss.active[s]
        BY <1>3, <3>2, SideFacts
      <3>4. "timer" \notin e.active["remote"] \cup e.pending["remote"]
        BY <1>3, <1>4, <3>1, <3>2 DEF Relaying
      <3> QED BY <1>4, <3>1, <3>3, <3>4, SideFacts DEF Relaying
    <2>2. ASSUME ~ ss.connected, ss.alloc = Side PROVE Connecting(e)
      <3>1. Connecting(ss) /\ ss.pending["remote"] = {}
        BY <1>0, <2>2 DEF Inv, Good, Watched, Poll
      <3> QED BY <1>3, <1>4, <3>1 DEF Connecting
    <2> QED BY <1>4, <2>1, <2>2 DEF Watched
  <1>11. Good(e)
    BY <1>4, <1>5, <1>6, <1>7, <1>8 DEF Good
  <1>12. Good(ss)'
    BY <1>1, <1>11 DEF Good, Owned, Fed, Untimed, InLoop, Watched, Relaying, Connecting
  <1> QED BY <1>1, <1>12 DEF Inv

LEMMA DownGood == Good(Down) /\ Good(Idle) /\ NetInit \in NetType
  <1>1. Down \in ProcessType /\ NetInit \in NetType
    BY BoundsAssumption DEF Down, ProcessType, NetInit, NetType
  <1>2. Idle \in ProcessType /\ Idle = [Down EXCEPT !.up = TRUE]
    BY <1>1, Zenon DEF Idle, ProcessType
  <1>3. Good(Down)
    BY <1>1, SideFacts DEF Down, Good, Owned, Fed, Untimed, InLoop, Watched
  <1>4. Good(Idle)
    BY <1>2, SideFacts DEF Down, Good, Owned, Fed, Untimed, InLoop, Watched
  <1> QED BY <1>1, <1>3, <1>4

LEMMA PeersInv ==
  ASSUME Inv, Peers
  PROVE  Inv'
  <1>1. ss' = ss
    BY Zenon DEF Peers, TailArrives, ConnectDone, PeerSend, PeerRead, PeerClose, PeerReset
  <1>2. net' \in NetType
    <2>0. CASE TailArrives
      <3> DEFINE k == net.rx["server"] + 1
      <3>1. k \in 0 .. SockBuf
        BY <2>0, BoundsAssumption DEF TailArrives, Inv, NetType, Side
      <3>2. net' = [net EXCEPT !.tail = FALSE, !.rx["server"] = k]
        BY <2>0 DEF TailArrives
      <3> HIDE DEF k
      <3> QED BY <3>1, <3>2 DEF Inv, NetType
    <2>1. CASE \E r \in {"ok", "refused"} : ConnectDone(r)
      BY <2>1 DEF ConnectDone, Inv, NetType
    <2>2. ASSUME NEW s \in Side, PeerSend(s) PROVE net' \in NetType
      <3> DEFINE k == net.rx[s] + 1
                 m == net.sent[s] + 1
                 y == net.astray \/ (s = "server" /\ Early)
      <3>1. k \in 0 .. SockBuf /\ m \in Nat /\ y \in BOOLEAN
        <4>1. net.astray \in BOOLEAN
          BY DEF Inv, NetType
        <4>2. k \in 0 .. SockBuf /\ m \in Nat
          BY <2>2, BoundsAssumption DEF PeerSend, Inv, NetType
        <4> QED BY <4>1, <4>2
      <3>2. net' = [net EXCEPT !.sent[s] = m, !.rx[s] = k, !.astray = y]
        BY <2>2 DEF PeerSend
      <3> HIDE DEF k, m, y
      <3> QED BY <3>1, <3>2 DEF Inv, NetType
    <2>3. ASSUME NEW s \in Side, PeerRead(s) PROVE net' \in NetType
      <3> DEFINE k == net.tx[s] - 1
                 m == net.got[s] + 1
      <3>1. k \in 0 .. SockBuf /\ m \in Nat
        BY <2>3, BoundsAssumption DEF PeerRead, Inv, NetType
      <3>2. net' = [net EXCEPT !.tx[s] = k, !.got[s] = m]
        BY <2>3 DEF PeerRead
      <3> HIDE DEF k, m
      <3> QED BY <3>1, <3>2 DEF Inv, NetType
    <2>4. ASSUME NEW s \in Side, PeerClose(s) PROVE net' \in NetType
      BY <2>4 DEF PeerClose, Inv, NetType
    <2>5. ASSUME NEW s \in Side, PeerReset(s) PROVE net' \in NetType
      BY <2>5 DEF PeerReset, Inv, NetType
    <2> QED BY <2>0, <2>1, <2>2, <2>3, <2>4, <2>5 DEF Peers
  <1>3. Good(ss)'
    BY <1>1 DEF Inv, Good, Owned, Fed, Untimed, InLoop, Watched, Relaying, Connecting
  <1> QED BY <1>2, <1>3 DEF Inv

-----------------------------------------------------------------------------

LEMMA InvInductive ==
  ASSUME Inv, [Next]_vars
  PROVE  Inv'
  <1> USE DEF Inv
  <1>1. CASE main
    <2>1. ss' = Idle /\ net' = NetInit
      BY <1>1 DEF main
    <2> QED BY <2>1, DownGood DEF Good, Owned, Fed, Untimed, InLoop, Watched, Relaying, Connecting
  <1>2. CASE accept_cb
    BY <1>2, AcceptInv
  <1>3. CASE accept_cb_fails
    <2>1. CASE UNCHANGED vars
      BY <2>1 DEF vars, Good, Owned, Fed, Untimed, InLoop, Watched, Relaying, Connecting
    <2>2. CASE ss' = Down /\ net' = NetInit
      BY <2>2, DownGood DEF Good, Owned, Fed, Untimed, InLoop, Watched, Relaying, Connecting
    <2> QED BY <1>3, <2>1, <2>2 DEF accept_cb_fails
  <1>4. CASE \E expired \in SUBSET {"timer"} : Poll(expired)
    BY <1>4, PollInv
  <1>5. CASE server_send_cb
    <2>1. CanInvoke("server", "send") /\ SendBuffer("server") /\ "server" \in Side
      BY <1>5 DEF server_send_cb, Side
    <2>2. "send" \in ss.active["server"]
      BY <2>1 DEF CanInvoke, Good, Fed
    <2>3. ss.connected
      BY <2>1, <2>2 DEF Good, Owned, Watched, Connecting
    <2> QED BY <2>1, <2>3, SendBufferInv
  <1>6. CASE remote_send_cb
    <2>1. CanInvoke("remote", "send") /\ "remote" \in Side
      BY <1>6 DEF remote_send_cb, Side
    <2>2. CASE ss.connected
      BY <1>6, <2>1, <2>2, SendBufferInv DEF remote_send_cb
    <2>3. CASE ~ ss.connected /\ RemoteConnected
      BY <2>1, <2>3, ConnectedInv
    <2>4. CASE Finish(CloseBoth(Invoked("remote", "send")), net)
      <3>1. Good(Invoked("remote", "send"))
        BY <2>1, InvokedGood
      <3> QED BY <2>4, <3>1, CloseInv
    <2> QED BY <1>6, <2>2, <2>3, <2>4 DEF remote_send_cb
  <1>7. CASE remote_timeout_cb
    <2>1. Finish(CloseBoth(ev_stop(Invoked("remote", "timer"), "remote", "timer")), net)
      BY <1>7 DEF remote_timeout_cb
    <2> QED BY <2>1, InvokedTimer, FinishInv
  <1>8. CASE \E s \in Side : recv_cb_enter(s) \/ recv_cb_loop(s)
    BY <1>8, EnterInv, LoopInv
  <1>9. CASE Peers
    BY <1>9, PeersInv
  <1>10. CASE UNCHANGED vars
    BY <1>10 DEF vars, Good, Owned, Fed, Untimed, InLoop, Watched, Relaying, Connecting
  <1> QED BY <1>1, <1>2, <1>3, <1>4, <1>5, <1>6, <1>7, <1>8, <1>9, <1>10 DEF Next, Callbacks

\* Inv is an invariant of the process, whatever the two peers do.
THEOREM Invariance == Spec => []Inv
  <1>1. Init => Inv
    BY DownGood DEF Init, Inv
  <1>2. Inv /\ [Next]_vars => Inv'
    BY InvInductive
  <1> QED BY <1>1, <1>2, PTL DEF Spec

\* For every buffer size, buf_len stays within its array and the states of the
\* process and of the sockets stay well formed.
THEOREM TypeCorrect == Spec => []TypeOK
  <1>1. Inv => TypeOK
    BY DEF Inv, Good, TypeOK
  <1> QED BY <1>1, Invariance, PTL

\* No watcher, expired timer or pending event of a freed pair is left with libev,
\* whichever callback freed it.
THEOREM NoDanglingWatcherHolds == Spec => []NoDanglingWatcher
  <1>1. Inv => NoDanglingWatcher
    BY DEF Inv, Good, Owned, NoDanglingWatcher
  <1> QED BY <1>1, Invariance, PTL

\* Before the connection only the attempt and its timer are watched; afterwards the
\* timer is off and each direction has exactly one of its two watchers on.
THEOREM OneWatcherPerDirectionHolds == Spec => []OneWatcherPerDirection
  <1>1. Inv => OneWatcherPerDirection
    BY DEF Inv, Good, Watched, Relaying, Connecting, OneWatcherPerDirection
  <1> QED BY <1>1, Invariance, PTL

-----------------------------------------------------------------------------
(* The data.                                                               *)

LEMMA NetFacts ==
  ASSUME NEW n \in NetType
  PROVE  /\ n.rx["server"] \in Nat /\ n.rx["remote"] \in Nat
         /\ n.tx["server"] \in Nat /\ n.tx["remote"] \in Nat
         /\ n.sent["server"] \in Nat /\ n.sent["remote"] \in Nat
         /\ n.got["server"] \in Nat /\ n.got["remote"] \in Nat
  BY BoundsAssumption DEF NetType, Side

LEMMA BufFacts ==
  ASSUME NEW d, Good(d)
  PROVE  d.buf["server"] \in Nat /\ d.buf["remote"] \in Nat /\ d.stage \in {0, 1, 5}
  BY BoundsAssumption DEF Good, ProcessType, Side

LEMMA FinishWhole ==
  ASSUME NEW d, NEW n, Finish(d, n), d.alloc = {} => d.stage = 0,
         Clean(d, n) => Balanced(d, n) /\ InTurn(d, n)
  PROVE  Whole(ss, net)'
  <1>1. CASE d.alloc = {}
    BY <1>1, SideFacts DEF Finish, Whole, Clean
  <1>2. CASE d.alloc # {}
    BY <1>2 DEF Finish, Whole, Clean, Balanced, InTurn, Past, Rest
  <1> QED BY <1>1, <1>2

LEMMA CloseWhole ==
  ASSUME NEW d, Good(d), Finish(CloseBoth(d), net)
  PROVE  Whole(ss, net)'
  <1>1. CloseBoth(d).alloc = {} /\ CloseBoth(d).stage = 0
    BY CloseBothGood DEF Good
  <1> QED BY <1>1, FinishWhole, SideFacts DEF Clean

\* A process state with the same buffers, watchers and stage has the same data.
LEMMA SameData ==
  ASSUME NEW d, NEW e, NEW n, Whole(d, n),
         e.alloc = d.alloc, e.stage = d.stage, e.connected = d.connected,
         e.buf = d.buf, e.active = d.active
  PROVE  Whole(e, n)
  BY DEF Whole, Clean, Balanced, InTurn, Past, Rest

\* One turn of the copying loop.  The application's data is copied at stage 5 only.
LEMMA CopyWhole ==
  ASSUME StreamInv, NEW s \in Side, ss.running = s, s = "server" => ss.stage = 5, Copy(s)
  PROVE  Whole(ss, net)'
  <1> DEFINE to == Other(s)
             r  == RecvLength(s)
             w  == SendLength(to, r)
             n  == [net EXCEPT !.rx[s] = @ - r, !.tx[to] = @ + w]
             q  == Return(ev_start(ev_stop([ss EXCEPT !.buf[to] = r - w], s, "recv"), to, "send"))
  <1>0. Inv /\ Good(ss) /\ net \in NetType
    BY DEF StreamInv, Inv
  <1>1. to \in Side /\ to # s /\ r \in 0 .. BUF_SIZE /\ r <= net.rx[s] /\ w \in 0 .. r
    BY <1>0, LengthFacts, SideFacts
  <1>2. /\ ss.connected = TRUE /\ ss.alloc = Side /\ "recv" \in ss.active[s]
        /\ "send" \notin ss.active[to]
    BY <1>0, SideFacts DEF Good, InLoop, Owned, Watched, Relaying, ProcessType
  <1> HIDE DEF r, w
  <1>3. /\ n.rx[s] = net.rx[s] - r /\ n.rx[to] = net.rx[to]
        /\ n.tx[to] = net.tx[to] + w /\ n.tx[s] = net.tx[s]
        /\ n.sent = net.sent /\ n.got = net.got /\ n.rst = net.rst /\ n.astray = net.astray
    BY <1>0, <1>1 DEF NetType
  <1> HIDE DEF n
  <1>4. CASE net.rst[to]
    BY <1>0, <1>4, CloseWhole DEF Copy
  <1>5. CASE ~ net.rst[to] /\ w < r
    <2>1. r - w \in 1 .. BUF_SIZE
      BY <1>1, <1>5, BoundsAssumption
    <2>2. Finish(q, n)
      BY <1>5 DEF Copy, r, w, n
    <2>3. /\ Good(q) /\ q.alloc = Side /\ q.connected = TRUE /\ q.stage = ss.stage
          /\ q.active[s] = ss.active[s] \ {"recv"} /\ q.active[to] = ss.active[to] \cup {"send"}
          /\ q.buf[to] = r - w /\ q.buf[s] = ss.buf[s]
      <3> DEFINE k == r - w
                 p == Return(ev_start(ev_stop([ss EXCEPT !.buf[Other(s)] = k], s, "recv"),
                                      Other(s), "send"))
      <3>1. q = p /\ k \in 1 .. BUF_SIZE
        BY <2>1
      <3> HIDE DEF q, k
      <3>2. /\ Good(p) /\ p.alloc = Side /\ p.connected = TRUE /\ p.stage = ss.stage
            /\ p.active[s] = ss.active[s] \ {"recv"}
            /\ p.active[Other(s)] = ss.active[Other(s)] \cup {"send"}
            /\ p.buf[Other(s)] = k /\ p.buf[s] = ss.buf[s]
        BY <1>0, <3>1, HandOverGood
      <3> HIDE DEF p
      <3> QED BY <3>1, <3>2 DEF k
    <2> HIDE DEF q
    <2>4. ASSUME Clean(q, n) PROVE Balanced(q, n) /\ InTurn(q, n)
      <3>1. Clean(ss, net) /\ Balanced(ss, net) /\ InTurn(ss, net)
        BY <1>2, <1>3, <2>4 DEF Clean, StreamInv, Whole
      <3>2. Rest(ss, to) = 0 /\ Rest(q, to) = r - w /\ Rest(q, s) = Rest(ss, s) /\ Past(q) = Past(ss)
        BY <1>2, <2>3 DEF Rest, Past
      <3>3. Rest(ss, s) \in Nat /\ Past(ss) \in Nat
        BY <1>0, BufFacts, SideFacts DEF Rest, Past
      <3>4. CASE s = "server"
        <4>1. to = "remote"
          BY <3>4 DEF Other
        <4> QED BY <1>0, <1>1, <1>2, <1>3, <2>3, <3>1, <3>2, <3>3, <3>4, <4>1, NetFacts
                DEF Balanced, InTurn
      <3>5. CASE s = "remote"
        <4>1. to = "server"
          BY <3>5 DEF Other
        <4>2. q.stage # 5 => "recv" \in q.active["server"]
          BY <1>2, <2>3, <3>1, <4>1 DEF InTurn
        <4> QED BY <1>0, <1>1, <1>2, <1>3, <2>3, <3>1, <3>2, <3>3, <3>5, <4>1, <4>2, NetFacts
                DEF Balanced, InTurn
      <3> QED BY <3>4, <3>5 DEF Side
    <2> QED BY <2>2, <2>3, <2>4, FinishWhole, SideFacts
  <1>6. CASE ~ net.rst[to] /\ ~ (w < r)
    <2>1. Finish(ss, n)
      BY <1>6 DEF Copy, r, w, n
    <2>2. w = r
      BY <1>1, <1>6
    <2>3. ASSUME Clean(ss, n) PROVE Balanced(ss, n) /\ InTurn(ss, n)
      <3>1. Clean(ss, net) /\ Balanced(ss, net) /\ InTurn(ss, net)
        BY <1>3, <2>3 DEF Clean, StreamInv, Whole
      <3>2. Rest(ss, "server") \in Nat /\ Rest(ss, "remote") \in Nat /\ Past(ss) \in Nat
        BY <1>0, BufFacts DEF Rest, Past
      <3>3. CASE s = "server"
        <4>1. to = "remote"
          BY <3>3 DEF Other
        <4> QED BY <1>0, <1>1, <1>3, <2>2, <3>1, <3>2, <3>3, <4>1, NetFacts DEF Balanced, InTurn
      <3>4. CASE s = "remote"
        <4>1. to = "server"
          BY <3>4 DEF Other
        <4> QED BY <1>0, <1>1, <1>3, <2>2, <3>1, <3>2, <3>4, <4>1, NetFacts DEF Balanced, InTurn
      <3> QED BY <3>3, <3>4 DEF Side
    <2> QED BY <1>2, <2>1, <2>3, FinishWhole, SideFacts
  <1> QED BY <1>4, <1>5, <1>6

\* What is sent from a buffer leaves it.
LEMMA SendBufferWhole ==
  ASSUME StreamInv, NEW s \in Side, CanInvoke(s, "send"), ss.connected, SendBuffer(s)
  PROVE  Whole(ss, net)'
  <1> DEFINE d == Invoked(s, "send")
             w == SendLength(s, ss.buf[s])
             n == [net EXCEPT !.tx[s] = @ + w]
             to == Other(s)
  <1>0. Inv /\ Good(ss) /\ net \in NetType /\ to \in Side /\ to # s
    BY SideFacts DEF StreamInv, Inv
  <1>1. /\ Good(d) /\ d.active = ss.active /\ d.buf = ss.buf /\ d.connected = ss.connected
        /\ d.running = ss.running /\ d.alloc = ss.alloc /\ d.stage = ss.stage
    <2>1. d.stage = ss.stage
      BY <1>0 DEF Invoked, Good, ProcessType
    <2> QED BY <1>0, <2>1, InvokedGood
  <1>2. ss.buf[s] \in 0 .. BUF_SIZE /\ w \in 0 .. ss.buf[s]
    <2>1. ss.buf[s] \in 0 .. BUF_SIZE
      BY <1>0 DEF Good, ProcessType
    <2> QED BY <1>0, <2>1, LengthFacts
  <1>3. /\ "send" \in ss.active[s] /\ ss.running = "none" /\ ss.alloc = Side
        /\ "recv" \notin ss.active[to] /\ ss.connected = TRUE
    <2>1. "send" \in ss.active[s] /\ ss.running = "none" /\ ss.alloc = Side /\ ss.connected = TRUE
      BY <1>0 DEF Good, Fed, CanInvoke, Owned, ProcessType
    <2>2. Relaying(ss)
      BY <1>0, <2>1 DEF Good, Watched
    <2> QED BY <1>0, <2>1, <2>2, SideFacts DEF Relaying
  <1> HIDE DEF w
  <1>4. /\ n.rx = net.rx /\ n.tx[s] = net.tx[s] + w /\ n.tx[to] = net.tx[to]
        /\ n.sent = net.sent /\ n.got = net.got /\ n.rst = net.rst /\ n.astray = net.astray
    BY <1>0 DEF NetType
  <1>5. CASE ss.buf[s] = 0 \/ net.rst[s]
    <2>1. Finish(CloseBoth(d), net)
      BY <1>5 DEF SendBuffer
    <2> HIDE DEF d
    <2> QED BY <1>1, <2>1, CloseWhole
  \* Balance and order carry over to any e whose buffer of s has lost w units.
  <1>6. ASSUME NEW e, Good(e), e.alloc = Side, e.connected = TRUE, e.stage = ss.stage,
               Rest(e, s) = ss.buf[s] - w, Rest(e, to) = Rest(ss, to),
               "recv" \in ss.active["server"] => "recv" \in e.active["server"],
               Clean(e, n)
        PROVE  Balanced(e, n) /\ InTurn(e, n)
    <2>1. Clean(ss, net) /\ Balanced(ss, net) /\ InTurn(ss, net)
      BY <1>3, <1>4, <1>6 DEF Clean, StreamInv, Whole
    <2>2. Rest(ss, s) = ss.buf[s] /\ Past(e) = Past(ss)
      BY <1>3, <1>6 DEF Rest, Past
    <2>3. Rest(ss, to) \in Nat /\ Past(ss) \in Nat
      BY <1>0, BufFacts, SideFacts DEF Rest, Past
    <2>4. s = "remote" => ss.stage = 5
      BY <1>3, <2>1 DEF InTurn, Other
    <2> HIDE DEF n, d
    <2>5. CASE s = "server"
      <3>1. to = "remote"
        BY <2>5 DEF Other
      <3> QED BY <1>0, <1>2, <1>3, <1>4, <1>6, <2>1, <2>2, <2>3, <2>5, <3>1, NetFacts
              DEF Balanced, InTurn
    <2>6. CASE s = "remote"
      <3>1. to = "server"
        BY <2>6 DEF Other
      <3> QED BY <1>0, <1>2, <1>3, <1>4, <1>6, <2>1, <2>2, <2>3, <2>4, <2>6, <3>1, NetFacts
              DEF Balanced, InTurn
    <2> QED BY <2>5, <2>6 DEF Side
  <1>7. CASE ~ (ss.buf[s] = 0 \/ net.rst[s]) /\ w < ss.buf[s]
    <2>1. ss.buf[s] - w \in 1 .. BUF_SIZE
      BY <1>2, <1>7, BoundsAssumption
    <2> DEFINE e == [d EXCEPT !.buf[s] = d.buf[s] - w]
    <2>2. Finish(e, n)
      <3>1. [d EXCEPT !.buf[s] = @ - w] = [d EXCEPT !.buf[s] = d.buf[s] - w]
        OBVIOUS
      <3> QED BY <1>7, <3>1 DEF SendBuffer, w
    <2> HIDE DEF d, n
    <2>3. Good(e)
      BY <1>1, <2>1, ShrinkGood
    <2>4. e.alloc = Side /\ e.connected = TRUE /\ e.stage = ss.stage /\ e.active = ss.active
          /\ e.buf[s] = ss.buf[s] - w /\ e.buf[to] = ss.buf[to]
      BY <1>0, <1>1, <1>3 DEF Good, ProcessType
    <2> HIDE DEF e
    <2>5. Rest(e, s) = ss.buf[s] - w /\ Rest(e, to) = Rest(ss, to)
      BY <1>3, <2>4 DEF Rest
    <2>6. Clean(e, n) => Balanced(e, n) /\ InTurn(e, n)
      BY <1>6, <2>3, <2>4, <2>5
    <2> QED BY <2>2, <2>4, <2>6, FinishWhole, SideFacts
  <1>8. CASE ~ (ss.buf[s] = 0 \/ net.rst[s]) /\ ~ (w < ss.buf[s])
    <2> DEFINE e == ev_start(ev_stop(d, s, "send"), to, "recv")
    <2>1. Finish(e, n)
      BY <1>8 DEF SendBuffer, w
    <2>2. ss.buf[s] - w = 0
      BY <1>2, <1>8
    <2> HIDE DEF d, n
    <2>3. Good(e) /\ e.alloc = Side /\ e.connected = TRUE /\ e.stage = ss.stage /\ e.buf = ss.buf
          /\ e.active[s] = ss.active[s] \ {"send"} /\ e.active[to] = ss.active[to] \cup {"recv"}
      <3>1. Good(d) /\ d.connected /\ d.running = "none" /\ "send" \in d.active[s]
        BY <1>1, <1>3
      <3>2. /\ Good(e) /\ e.alloc = Side /\ e.connected = TRUE /\ e.stage = d.stage /\ e.buf = d.buf
            /\ e.active[s] = d.active[s] \ {"send"} /\ e.active[to] = d.active[to] \cup {"recv"}
        BY <3>1, ResumeGood
      <3> QED BY <1>1, <3>2
    <2> HIDE DEF e
    <2>4. Rest(e, s) = ss.buf[s] - w /\ Rest(e, to) = Rest(ss, to)
      BY <2>2, <2>3 DEF Rest
    <2>5. "recv" \in ss.active["server"] => "recv" \in e.active["server"]
      BY <1>0, <2>3, SideFacts
    <2>6. Clean(e, n) => Balanced(e, n) /\ InTurn(e, n)
      BY <1>6, <2>3, <2>4, <2>5
    <2> QED BY <2>1, <2>3, <2>6, FinishWhole, SideFacts
  <1> QED BY <1>5, <1>7, <1>8

LEMMA ConnectedWhole ==
  ASSUME StreamInv, CanInvoke("remote", "send"), ~ ss.connected, RemoteConnected
  PROVE  Whole(ss, net)'
  <1>1. PICK f : /\ Finish(f, net)
                 /\ Good(f) /\ f.alloc = Side /\ f.connected = TRUE /\ f.stage = ss.stage
                 /\ f.active["server"] = {"recv"} /\ f.active["remote"] = {"recv"}
    BY ConnectedGood DEF StreamInv
  <1>2. ss.alloc = Side /\ ss.active["server"] = {}
    <2>1. ss.alloc = Side
      BY DEF StreamInv, Inv, Good, Owned, CanInvoke, Side
    <2> QED BY <2>1 DEF StreamInv, Inv, Good, Watched, Connecting
  <1>3. ASSUME Clean(f, net) PROVE Balanced(f, net) /\ InTurn(f, net)
    <2>1. Balanced(ss, net) /\ InTurn(ss, net)
      BY <1>2, <1>3 DEF Clean, StreamInv, Whole
    <2> QED BY <1>1, <1>2, <2>1 DEF Balanced, InTurn, Rest, Past
  <1> QED BY <1>1, <1>3, FinishWhole, SideFacts

\* Each stage takes one message and sends one reply: an application that waits for
\* its replies has sent no more than that message.
LEMMA StagesWhole ==
  ASSUME StreamInv, ss.running = "server", net.rx["server"] > 0,
         \/ ss.stage = 0 /\ MethodSelect
         \/ ss.stage = 1 /\ ConnectRequest
  PROVE  Whole(ss, net)'
  <1> DEFINE r == RecvLength("server")
  <1>0. Inv /\ Good(ss) /\ net \in NetType /\ "server" \in Side /\ "remote" \in Side
    BY DEF StreamInv, Inv, Side
  <1>1. /\ ss.connected = TRUE /\ ss.alloc = Side /\ "recv" \in ss.active["server"]
        /\ Rest(ss, "remote") = 0 /\ Rest(ss, "server") \in Nat
    <2>1. ss.connected = TRUE /\ ss.alloc = Side /\ "recv" \in ss.active["server"]
      BY <1>0, SideFacts DEF Good, InLoop, Owned, ProcessType
    <2>2. "send" \notin ss.active["remote"]
      BY <1>0, <2>1 DEF Good, Watched, Relaying, Other
    <2> QED BY <1>0, <2>1, <2>2, BufFacts DEF Rest
  <1>2. r \in Nat /\ r <= net.rx["server"] /\ (net.rx["server"] = 1 => r = 1)
    <2>1. net.rx["server"] \in Nat
      BY <1>0, NetFacts
    <2> QED BY <2>1, BoundsAssumption DEF RecvLength, Least
  <1> HIDE DEF r
  <1>3. ASSUME NEW cut \in {FALSE, MayBeCut}, NEW n, n = RecvMessage(cut)
        PROVE  /\ n.rx["server"] = net.rx["server"] - r /\ n.rx["remote"] = net.rx["remote"]
               /\ n.tx = net.tx /\ n.sent = net.sent /\ n.got = net.got
               /\ n.rst = net.rst /\ (net.astray => n.astray) /\ n \in NetType
    BY <1>0, <1>3, CutFacts, MessageFacts DEF r
  <1>4. ASSUME Clean(ss, net), ss.stage \in {0, 1}
        PROVE  /\ Balanced(ss, net) /\ InTurn(ss, net)
               /\ net.sent["remote"] = 0 /\ net.tx["remote"] = 0 /\ net.got["remote"] = 0
               /\ net.rx["server"] = 1 /\ r = 1 /\ net.sent["server"] = ss.stage + 1
               /\ Rest(ss, "server") = 0 /\ net.rx["remote"] = 0
               /\ net.tx["server"] + net.got["server"] = ss.stage
    <2>1. Balanced(ss, net) /\ InTurn(ss, net)
      BY <1>4 DEF StreamInv, Whole
    <2>2. Past(ss) = ss.stage
      BY <1>4 DEF Past
    <2>3. net.tx["remote"] = 0 /\ net.got["remote"] = 0 /\ net.sent["remote"] = 0
      BY <1>0, <1>4, <2>1, NetFacts DEF InTurn
    <2>4. net.rx["remote"] + Rest(ss, "server") + net.tx["server"] + net.got["server"] = ss.stage
      BY <1>0, <2>1, <2>2, <2>3, <1>4 DEF Balanced
    <2>5. net.sent["server"] = net.rx["server"] + ss.stage
      BY <1>0, <1>1, <1>4, <2>1, <2>2, <2>3, NetFacts DEF Balanced
    <2>6. net.rx["server"] = 1
      <3>1. /\ net.sent["server"] >= 2 => net.got["server"] >= 1
            /\ net.sent["server"] >= 3 => net.got["server"] >= 2
        BY <2>1 DEF InTurn
      <3>2. /\ net.rx["server"] \in Nat /\ net.rx["remote"] \in Nat
            /\ net.tx["server"] \in Nat /\ net.got["server"] \in Nat
        BY <1>0, NetFacts
      <3>3. CASE ss.stage = 0
        BY <1>1, <2>4, <2>5, <3>1, <3>2, <3>3
      <3>4. CASE ss.stage = 1
        BY <1>1, <2>4, <2>5, <3>1, <3>2, <3>4
      <3> QED BY <1>4, <3>3, <3>4
    <2>7. net.got["server"] >= ss.stage
      <3>1. CASE ss.stage = 0
        BY <1>0, <3>1, NetFacts
      <3>2. CASE ss.stage = 1
        BY <2>1, <2>5, <2>6, <3>2 DEF InTurn
      <3> QED BY <1>4, <3>1, <3>2
    <2>8. Rest(ss, "server") = 0 /\ net.rx["remote"] = 0
          /\ net.tx["server"] + net.got["server"] = ss.stage
      <3>1. CASE ss.stage = 0
        BY <1>0, <1>1, <2>4, <2>7, <3>1, NetFacts
      <3>2. CASE ss.stage = 1
        BY <1>0, <1>1, <2>4, <2>7, <3>2, NetFacts
      <3> QED BY <1>4, <3>1, <3>2
    <2>9. net.sent["server"] = ss.stage + 1
      BY <1>4, <2>5, <2>6
    <2> QED BY <1>2, <2>1, <2>3, <2>6, <2>8, <2>9
  <1>5. CASE ss.stage = 0 /\ MethodSelect
    <2> DEFINE e == Return([ss EXCEPT !.stage = 1])
    <2>5. PICK cut \in {FALSE, MayBeCut} : Finish(e, SendIgnored(RecvMessage(cut), "server"))
      BY <1>5, Zenon DEF MethodSelect
    <2>6. PICK n : n = RecvMessage(cut)
      OBVIOUS
    <2>7. /\ n.rx["server"] = net.rx["server"] - r /\ n.rx["remote"] = net.rx["remote"]
          /\ n.tx = net.tx /\ n.sent = net.sent /\ n.got = net.got
          /\ n.rst = net.rst /\ (net.astray => n.astray) /\ n \in NetType
      BY <1>3, <2>6
    <2> DEFINE m == SendIgnored(n, "server")
    <2>1. Finish(e, m)
      BY <2>5, <2>6
    <2>2. /\ e.alloc = Side /\ e.connected = TRUE /\ e.stage = 1 /\ e.active = ss.active
          /\ e.buf = ss.buf
      BY <1>0, <1>1 DEF Return, Good, ProcessType
    <2> HIDE DEF e
    <2>3. m.rst = net.rst /\ (net.astray => m.astray)
      BY <2>7 DEF SendIgnored, NetType
    <2>4. ASSUME Clean(e, m) PROVE Balanced(e, m) /\ InTurn(e, m)
      <3>1. Clean(ss, net)
        BY <1>1, <2>3, <2>4 DEF Clean
      <3>2. net.tx["server"] = 0 /\ net.got["server"] = 0
        BY <1>0, <1>4, <1>5, <3>1, NetFacts
      <3>3. m = [n EXCEPT !.tx["server"] = @ + 1]
        BY <2>7, <3>1, <3>2, BoundsAssumption DEF SendIgnored, Clean
      <3>4. /\ m.rx = n.rx /\ m.sent = n.sent /\ m.got = n.got
            /\ m.tx["server"] = n.tx["server"] + 1 /\ m.tx["remote"] = n.tx["remote"]
        BY <1>0, <2>7, <3>3 DEF NetType
      <3>5. Rest(e, "server") = Rest(ss, "server") /\ Rest(e, "remote") = Rest(ss, "remote") /\ Past(e) = 1
        BY <2>2 DEF Rest, Past
      <3> HIDE DEF m
      <3> QED BY <1>0, <1>1, <2>7, <1>4, <1>5, <2>2, <3>1, <3>2, <3>4, <3>5 DEF Balanced, InTurn
    <2> QED BY <2>1, <2>2, <2>4, FinishWhole, SideFacts
  <1>6. CASE Finish(CloseBoth(ss), net)
    BY <1>0, <1>6, CloseWhole
  <1>7. CASE ss.stage = 1 /\ ConnectRequest /\ ~ Finish(CloseBoth(ss), net)
    <2> DEFINE e == [ss EXCEPT !.stage = 5]
    <2>6. PICK cut \in {FALSE, MayBeCut} :
             Finish(e, SendIgnored(SendIgnored(RecvMessage(cut), "remote"), "server"))
      BY <1>7, Zenon DEF ConnectRequest
    <2>7. PICK n : n = RecvMessage(cut)
      OBVIOUS
    <2>8. /\ n.rx["server"] = net.rx["server"] - r /\ n.rx["remote"] = net.rx["remote"]
          /\ n.tx = net.tx /\ n.sent = net.sent /\ n.got = net.got
          /\ n.rst = net.rst /\ (net.astray => n.astray) /\ n \in NetType
      BY <1>3, <2>7
    <2> DEFINE l == SendIgnored(n, "remote")
               m == SendIgnored(l, "server")
    <2>1. Finish(e, m) /\ net.tx["server"] # SockBuf
      <3>1. net.tx["server"] # SockBuf
        BY <1>7, Zenon DEF ConnectRequest
      <3> QED BY <2>6, <2>7, <3>1
    <2>2. /\ e.alloc = Side /\ e.connected = TRUE /\ e.stage = 5 /\ e.active = ss.active
          /\ e.buf = ss.buf
      BY <1>0, <1>1 DEF Good, ProcessType
    <2> HIDE DEF e
    <2>3. l \in NetType /\ l.rst = net.rst /\ (net.astray => l.astray)
      <3>1. l \in NetType
        BY <1>0, <2>8, IgnoredType
      <3> QED BY <2>8, <3>1 DEF SendIgnored, NetType
    <2>4. m.rst = l.rst /\ m.astray = l.astray
      <3> HIDE DEF l
      <3> QED BY <2>3 DEF SendIgnored, NetType
    <2>5. ASSUME Clean(e, m) PROVE Balanced(e, m) /\ InTurn(e, m)
      <3>1. Clean(ss, net)
        BY <1>1, <2>3, <2>4, <2>5 DEF Clean
      <3>2. net.tx["remote"] = 0
        BY <1>4, <1>7, <3>1
      <3>3. l = [n EXCEPT !.tx["remote"] = @ + 1]
        BY <2>8, <3>1, <3>2, BoundsAssumption DEF SendIgnored, Clean
      <3>4. /\ l.rx = n.rx /\ l.sent = n.sent /\ l.got = n.got
            /\ l.tx["remote"] = 1 /\ l.tx["server"] = net.tx["server"]
        BY <1>0, <2>8, <3>2, <3>3 DEF NetType
      <3> HIDE DEF l
      <3>5. m = [l EXCEPT !.tx["server"] = @ + 1]
        BY <2>1, <3>1, <3>4 DEF SendIgnored, Clean
      <3>6. /\ m.rx = n.rx /\ m.sent = n.sent /\ m.got = n.got
            /\ m.tx["remote"] = 1 /\ m.tx["server"] = net.tx["server"] + 1
        BY <1>0, <2>3, <3>4, <3>5 DEF NetType
      <3>7. Rest(e, "server") = Rest(ss, "server") /\ Rest(e, "remote") = Rest(ss, "remote") /\ Past(e) = 2
        BY <2>2 DEF Rest, Past
      <3> HIDE DEF m
      <3>8. /\ net.sent["remote"] = 0 /\ net.got["remote"] = 0 /\ net.rx["server"] = 1 /\ r = 1
            /\ net.sent["server"] = 2 /\ Rest(ss, "server") = 0 /\ net.rx["remote"] = 0
            /\ net.tx["server"] + net.got["server"] = 1
            /\ net.tx["server"] \in Nat /\ net.got["server"] \in Nat /\ InTurn(ss, net)
        BY <1>0, <1>4, <1>7, <3>1, NetFacts
      <3>9. m.rx["server"] = 0 /\ m.rx["remote"] = 0
        BY <2>8, <3>6, <3>8
      <3>10. Balanced(e, m)
        BY <1>1, <2>8, <2>2, <3>6, <3>7, <3>8, <3>9 DEF Balanced
      <3>11. InTurn(e, m)
        BY <2>8, <2>2, <3>6, <3>8 DEF InTurn
      <3> QED BY <3>10, <3>11
    <2> QED BY <2>1, <2>2, <2>5, FinishWhole, SideFacts
  <1> QED BY <1>5, <1>6, <1>7

LEMMA LoopWhole ==
  ASSUME StreamInv, NEW s \in Side, recv_cb_loop(s)
  PROVE  Whole(ss, net)'
  <1>1. ss.running = s /\ Good(ss) /\ Whole(ss, net) /\ ss.stage \in {0, 1, 5}
    BY BufFacts DEF recv_cb_loop, StreamInv, Inv
  <1>2. CASE RecvAgain(s) /\ Finish(Return(ss), net)
    <2> DEFINE e == Return(ss)
    <2>1. /\ e.alloc = ss.alloc /\ e.stage = ss.stage /\ e.connected = ss.connected
          /\ e.buf = ss.buf /\ e.active = ss.active
      BY <1>1 DEF Return, Good, ProcessType
    <2> HIDE DEF e
    <2>2. Whole(e, net)
      BY <1>1, <2>1, SameData
    <2> QED BY <1>2, <2>2, FinishWhole DEF Whole, e
  <1>3. CASE (RecvEof(s) \/ RecvError(s)) /\ Finish(CloseBoth(ss), net)
    BY <1>1, <1>3, CloseWhole
  <1>4. CASE net.rx[s] > 0 /\ (s = "remote" \/ ss.stage = 5) /\ Copy(s)
    <2>1. s = "server" => ss.stage = 5
      BY <1>4
    <2> QED BY <1>1, <1>4, <2>1, CopyWhole
  <1>5. CASE /\ net.rx[s] > 0 /\ s = "server"
             /\ (ss.stage = 0 /\ MethodSelect) \/ (ss.stage = 1 /\ ConnectRequest)
    BY <1>1, <1>5, StagesWhole
  <1>6. CASE s = "remote"
    BY <1>2, <1>3, <1>4, <1>6 DEF recv_cb_loop
  <1>7. CASE s = "server"
    <2>1. CASE ss.stage = 5
      BY <1>2, <1>3, <1>4, <1>7, <2>1 DEF recv_cb_loop
    <2>2. CASE ss.stage = 0
      BY <1>2, <1>3, <1>5, <1>7, <2>2 DEF recv_cb_loop
    <2>3. CASE ss.stage = 1
      BY <1>2, <1>3, <1>5, <1>7, <2>3 DEF recv_cb_loop
    <2> QED BY <1>1, <2>1, <2>2, <2>3
  <1> QED BY <1>6, <1>7 DEF Side

LEMMA EnterWhole ==
  ASSUME StreamInv, NEW s \in Side, recv_cb_enter(s)
  PROVE  Whole(ss, net)'
  <1> DEFINE e == [Invoked(s, "recv") EXCEPT !.running = s]
  <1>1. ss' = e /\ net' = net /\ Whole(ss, net)
    BY DEF recv_cb_enter, StreamInv
  <1>2. /\ e.alloc = ss.alloc /\ e.stage = ss.stage /\ e.connected = ss.connected
        /\ e.buf = ss.buf /\ e.active = ss.active
    BY DEF Invoked, StreamInv, Inv, Good, ProcessType
  <1> HIDE DEF e
  <1>3. Whole(e, net)
    BY <1>1, <1>2, SameData
  <1> QED BY <1>1, <1>3 DEF Whole, Clean, Balanced, InTurn, Past, Rest

\* A new connection has no data yet.
LEMMA AcceptWhole ==
  ASSUME StreamInv, accept_cb
  PROVE  Whole(ss, net)'
  <1>0. "server" \in Side /\ "remote" \in Side
    BY DEF Side
  <1>1. net = NetInit /\ ss.stage = 0 /\ ss.active["server"] = {} /\ ~ ss.connected
    BY <1>0, SideFacts DEF accept_cb, StreamInv, Inv, Good, Owned, Whole
  <1>2. /\ ss'.stage = 0 /\ ss'.active["server"] = {} /\ ~ ss'.connected /\ ss'.alloc = Side
    BY <1>0, <1>1 DEF accept_cb, ev_start, StreamInv, Inv, Good, ProcessType
  <1>3. /\ net'.rx = net.rx /\ net'.tx = net.tx /\ net'.sent = net.sent /\ net'.got = net.got
    BY <1>1 DEF accept_cb, NetInit
  <1>4. /\ net'.rx["server"] = 0 /\ net'.rx["remote"] = 0 /\ net'.tx["server"] = 0
        /\ net'.tx["remote"] = 0 /\ net'.sent["server"] = 0 /\ net'.sent["remote"] = 0
        /\ net'.got["server"] = 0 /\ net'.got["remote"] = 0
    BY <1>0, <1>1, <1>3 DEF NetInit
  <1>5. Balanced(ss, net)'
    BY <1>2, <1>4 DEF Balanced, Rest, Past
  <1>6. InTurn(ss, net)'
    BY <1>2, <1>4 DEF InTurn
  <1> QED BY <1>2, <1>5, <1>6, SideFacts DEF Whole

\* Polling moves the timer at most.
LEMMA PollWhole ==
  ASSUME StreamInv, NEW expired \in SUBSET {"timer"}, Poll(expired)
  PROVE  Whole(ss, net)'
  <1>0. "server" \in Side /\ "remote" \in Side
    BY DEF Side
  <1>1. /\ ss'.alloc = ss.alloc /\ ss'.stage = ss.stage /\ ss'.connected = ss.connected
        /\ ss'.buf = ss.buf /\ net' = net
        /\ ss'.active["server"] = ss.active["server"]
        /\ ss'.active["remote"] = ss.active["remote"] \ expired
    BY <1>0 DEF Poll, StreamInv, Inv, Good, ProcessType
  <1>2. "send" \in ss'.active["remote"] <=> "send" \in ss.active["remote"]
    BY <1>1
  <1>3. Rest(ss, "server")' = Rest(ss, "server") /\ Rest(ss, "remote")' = Rest(ss, "remote")
        /\ Past(ss)' = Past(ss)
    BY <1>1, <1>2 DEF Rest, Past
  <1>4. Clean(ss, net)' => Balanced(ss, net)' /\ InTurn(ss, net)'
    BY <1>1, <1>3 DEF StreamInv, Whole, Clean, Balanced, InTurn
  <1> QED BY <1>1, <1>4 DEF StreamInv, Whole

\* The peers keep the balance: a unit sent is received, a unit read was sent; and an
\* application that does not wait is astray.
LEMMA PeersWhole ==
  ASSUME StreamInv, Peers
  PROVE  Whole(ss, net)'
  <1>0. Inv /\ Good(ss) /\ net \in NetType /\ Whole(ss, net)
    BY Zenon DEF StreamInv, Inv
  <1>1. ss' = ss /\ ss.alloc \in {{}, Side}
    <2>1. ss' = ss
      BY Zenon DEF Peers, TailArrives, ConnectDone, PeerSend, PeerRead, PeerClose, PeerReset
    <2>2. ss.alloc \in {{}, Side}
      BY <1>0, Zenon DEF Good, Owned
    <2> QED BY <2>1, <2>2
  <1>2. ss.alloc = {} => net.conn # "pending"
    BY <1>0 DEF Whole, NetInit
  <1>3. ss.alloc = Side
    BY <1>1, <1>2, Zenon DEF Peers, TailArrives, ConnectDone, PeerSend, PeerRead, PeerClose, PeerReset, PeerUp
  <1>4. Rest(ss, "server") \in Nat /\ Rest(ss, "remote") \in Nat /\ Past(ss) \in 0 .. 2
    BY <1>0, BufFacts DEF Rest, Past
  <1> DEFINE b == IF ss.connected THEN Rest(ss, "remote") ELSE 0
             h == IF ss.stage = 5 THEN 1 ELSE 0
  <1>11. b \in Nat /\ h \in Nat
    BY <1>4
  <1>12. Balanced(ss, net) =>
            /\ net.sent["server"] - Past(ss) + h
                  = net.rx["server"] + b + net.tx["remote"] + net.got["remote"]
            /\ net.sent["remote"] + Past(ss)
                  = net.rx["remote"] + Rest(ss, "server") + net.tx["server"] + net.got["server"]
    BY DEF Balanced
  <1>13. /\ net'.sent["server"] - Past(ss) + h
               = net'.rx["server"] + b + net'.tx["remote"] + net'.got["remote"]
         /\ net'.sent["remote"] + Past(ss)
               = net'.rx["remote"] + Rest(ss, "server") + net'.tx["server"] + net'.got["server"]
         => Balanced(ss, net')
    BY DEF Balanced
  <1> HIDE DEF b, h
  <1>5. ASSUME Clean(ss, net'), net'.rst = net.rst, net.astray => net'.astray
        PROVE  Balanced(ss, net) /\ InTurn(ss, net)
    BY <1>0, <1>3, <1>5 DEF Whole, Clean
  <1>6. ASSUME NEW s \in Side, PeerSend(s), Clean(ss, net')
        PROVE  Balanced(ss, net') /\ InTurn(ss, net')
    <2> DEFINE y == net.astray \/ (s = "server" /\ Early)
    <2>1. /\ net'.rst = net.rst /\ net'.tx = net.tx /\ net'.got = net.got
          /\ net'.sent[s] = net.sent[s] + 1 /\ net'.rx[s] = net.rx[s] + 1
          /\ net'.sent[Other(s)] = net.sent[Other(s)] /\ net'.rx[Other(s)] = net.rx[Other(s)]
          /\ net'.astray = y
      BY <1>0, <1>6, SideFacts DEF PeerSend, NetType
    <2>2. Balanced(ss, net) /\ InTurn(ss, net)
      BY <1>5, <1>6, <2>1
    <2>3. CASE s = "server"
      <3>1. net.sent["server"] > 2 \/ net.got["server"] >= net.sent["server"]
        <4>1. ~ Early
          BY <1>6, <2>1, <2>3 DEF Clean
        <4> QED BY <1>0, <4>1, NetFacts DEF Early
      <3>4. /\ net'.sent["server"] = net.sent["server"] + 1 /\ net'.rx["server"] = net.rx["server"] + 1
            /\ net'.sent["remote"] = net.sent["remote"] /\ net'.rx["remote"] = net.rx["remote"]
            /\ net'.tx = net.tx /\ net'.got = net.got
        BY <2>1, <2>3 DEF Other
      <3>2. Balanced(ss, net')
        BY <1>0, <1>4, <1>11, <1>12, <1>13, <2>2, <3>4, NetFacts
      <3>3. InTurn(ss, net')
        BY <1>0, <2>2, <3>1, <3>4, NetFacts DEF InTurn
      <3> QED BY <3>2, <3>3
    <2>4. CASE s = "remote"
      <3>1. net.got["remote"] > 0
        BY <1>6, <2>4 DEF PeerSend
      <3>4. /\ net'.sent["remote"] = net.sent["remote"] + 1 /\ net'.rx["remote"] = net.rx["remote"] + 1
            /\ net'.sent["server"] = net.sent["server"] /\ net'.rx["server"] = net.rx["server"]
            /\ net'.tx = net.tx /\ net'.got = net.got
        BY <2>1, <2>4 DEF Other
      <3>2. Balanced(ss, net')
        BY <1>0, <1>4, <1>11, <1>12, <1>13, <2>2, <3>4, NetFacts
      <3>3. InTurn(ss, net')
        BY <1>0, <2>1, <2>2, <2>4, <3>1, NetFacts DEF InTurn, Other
      <3> QED BY <3>2, <3>3
    <2> QED BY <2>3, <2>4 DEF Side
  <1>7. ASSUME NEW s \in Side, PeerRead(s), Clean(ss, net')
        PROVE  Balanced(ss, net') /\ InTurn(ss, net')
    <2>1. /\ net'.rst = net.rst /\ net'.sent = net.sent /\ net'.rx = net.rx
          /\ net'.tx[s] = net.tx[s] - 1 /\ net'.got[s] = net.got[s] + 1
          /\ net'.tx[Other(s)] = net.tx[Other(s)] /\ net'.got[Other(s)] = net.got[Other(s)]
          /\ net'.astray = net.astray /\ net.tx[s] > 0
      BY <1>0, <1>7, SideFacts DEF PeerRead, NetType
    <2>2. Balanced(ss, net) /\ InTurn(ss, net)
      BY <1>5, <1>7, <2>1
    <2>3. CASE s = "server"
      <3>0. /\ net'.tx["server"] = net.tx["server"] - 1 /\ net'.got["server"] = net.got["server"] + 1
            /\ net'.tx["remote"] = net.tx["remote"] /\ net'.got["remote"] = net.got["remote"]
            /\ net'.sent = net.sent /\ net'.rx = net.rx
        BY <2>1, <2>3 DEF Other
      <3>1. Balanced(ss, net')
        BY <1>0, <1>4, <1>11, <1>12, <1>13, <2>2, <3>0, NetFacts
      <3>2. InTurn(ss, net')
        BY <1>0, <2>1, <2>2, <2>3, NetFacts DEF InTurn, Other
      <3> QED BY <3>1, <3>2
    <2>4. CASE s = "remote"
      <3>0. /\ net'.tx["remote"] = net.tx["remote"] - 1 /\ net'.got["remote"] = net.got["remote"] + 1
            /\ net'.tx["server"] = net.tx["server"] /\ net'.got["server"] = net.got["server"]
            /\ net'.sent = net.sent /\ net'.rx = net.rx
        BY <2>1, <2>4 DEF Other
      <3>1. Balanced(ss, net')
        BY <1>0, <1>4, <1>11, <1>12, <1>13, <2>2, <3>0, NetFacts
      <3>2. InTurn(ss, net')
        BY <1>0, <2>1, <2>2, <2>4, NetFacts DEF InTurn, Other
      <3> QED BY <3>1, <3>2
    <2> QED BY <2>3, <2>4 DEF Side
  <1>8. ASSUME \/ \E r \in {"ok", "refused"} : ConnectDone(r)
               \/ \E s \in Side : PeerClose(s) \/ PeerReset(s),
               Clean(ss, net')
        PROVE  Balanced(ss, net') /\ InTurn(ss, net')
    <2>1. /\ net'.rx = net.rx /\ net'.tx = net.tx /\ net'.sent = net.sent /\ net'.got = net.got
          /\ net'.astray = net.astray
      BY <1>0, <1>8 DEF ConnectDone, PeerClose, PeerReset, NetType
    <2>2. net'.rst = net.rst
      <3>1. CASE \E s \in Side : PeerReset(s)
        <4>1. PICK s \in Side : PeerReset(s)
          BY <3>1
        <4>2. net'.rst[s] = TRUE
          BY <1>0, <4>1 DEF PeerReset, NetType
        <4> QED BY <1>8, <4>2 DEF Clean, Side
      <3>2. CASE ~ \E s \in Side : PeerReset(s)
        BY <1>0, <1>8, <3>2 DEF ConnectDone, PeerClose, NetType
      <3> QED BY <3>1, <3>2
    <2>3. Balanced(ss, net) /\ InTurn(ss, net)
      BY <1>5, <1>8, <2>1, <2>2
    <2> QED BY <2>1, <2>3 DEF Balanced, InTurn
  <1>14. ASSUME TailArrives, Clean(ss, net') PROVE FALSE
    <2>1. net.astray
      BY <1>14 DEF TailArrives, StreamInv, Torn
    <2>2. net'.astray = net.astray
      BY <1>0, <1>14 DEF TailArrives, NetType
    <2> QED BY <1>14, <2>1, <2>2 DEF Clean
  <1>9. Clean(ss, net') => Balanced(ss, net') /\ InTurn(ss, net')
    BY <1>6, <1>7, <1>8, <1>14 DEF Peers
  <1>10. Whole(ss, net')
    BY <1>3, <1>9, SideFacts DEF Whole
  <1> QED BY <1>1, <1>10 DEF Whole, Clean, Balanced, InTurn, Past, Rest

LEMMA FinishTorn ==
  ASSUME NEW d, NEW n, Torn(n), Finish(d, n)
  PROVE  Torn(net)'
  BY DEF Finish, Torn, NetInit

LEMMA IgnoredTorn ==
  ASSUME NEW n \in NetType, Torn(n), NEW s \in Side
  PROVE  Torn(SendIgnored(n, s))
  BY DEF Torn, SendIgnored, NetType

LEMMA TornInductive ==
  ASSUME Inv, Torn(net), [Next]_vars
  PROVE  Torn(net)'
  <1>0. net \in NetType /\ "server" \in Side /\ "remote" \in Side
    BY DEF Inv, Side
  <1>1. CASE main \/ accept_cb \/ accept_cb_fails \/ UNCHANGED vars
    BY <1>0, <1>1 DEF main, accept_cb, accept_cb_fails, vars, Torn, NetInit, NetType
  <1>2. CASE \E expired \in SUBSET {"timer"} : Poll(expired)
    BY <1>2 DEF Poll, Torn
  <1>3. ASSUME NEW s \in Side, SendBuffer(s) PROVE Torn(net)'
    <2> DEFINE n == [net EXCEPT !.tx[s] = @ + SendLength(s, ss.buf[s])]
    <2>1. Torn(n)
      BY <1>0 DEF Torn, NetType
    <2>2. \E d : Finish(d, net) \/ Finish(d, n)
      BY <1>3, Zenon DEF SendBuffer
    <2> QED BY <2>1, <2>2, FinishTorn
  <1>4. CASE server_send_cb \/ remote_send_cb \/ remote_timeout_cb
    <2>1. (\E s \in Side : SendBuffer(s)) \/ (\E d : Finish(d, net))
      BY <1>0, <1>4, Zenon DEF server_send_cb, remote_send_cb, remote_timeout_cb, RemoteConnected
    <2> QED BY <1>3, <2>1, FinishTorn
  <1>5. ASSUME NEW s \in Side, Copy(s) PROVE Torn(net)'
    <2> DEFINE n == [net EXCEPT !.rx[s] = @ - RecvLength(s),
                                !.tx[Other(s)] = @ + SendLength(Other(s), RecvLength(s))]
    <2>1. Torn(n)
      BY <1>0 DEF Torn, NetType
    <2>2. \E d : Finish(d, net) \/ Finish(d, n)
      BY <1>5, Zenon DEF Copy
    <2> QED BY <2>1, <2>2, FinishTorn
  <1>6. \A cut \in {FALSE, MayBeCut} : RecvMessage(cut) \in NetType /\ Torn(RecvMessage(cut))
    BY <1>0, CutFacts, MessageFacts DEF Torn
  <1>7. CASE MethodSelect
    <2>1. PICK cut \in {FALSE, MayBeCut} : \E d : Finish(d, SendIgnored(RecvMessage(cut), "server"))
      BY <1>7, Zenon DEF MethodSelect
    <2> QED BY <1>0, <1>6, <2>1, IgnoredTorn, FinishTorn
  <1>8. CASE ConnectRequest
    <2>1. CASE \E d : Finish(d, net)
      BY <2>1, FinishTorn
    <2>2. CASE ~ \E d : Finish(d, net)
      <3>1. PICK cut \in {FALSE, MayBeCut} :
               \E d : Finish(d, SendIgnored(SendIgnored(RecvMessage(cut), "remote"), "server"))
        BY <1>8, <2>2, Zenon DEF ConnectRequest
      <3> DEFINE m == SendIgnored(RecvMessage(cut), "remote")
      <3>2. m \in NetType /\ Torn(m)
        BY <1>0, <1>6, IgnoredType, IgnoredTorn
      <3> QED BY <1>0, <3>1, <3>2, IgnoredTorn, FinishTorn
    <2> QED BY <2>1, <2>2
  <1>9. ASSUME NEW s \in Side, recv_cb_loop(s) PROVE Torn(net)'
    <2>1. (\E d : Finish(d, net)) \/ Copy(s) \/ MethodSelect \/ ConnectRequest
      BY <1>0, <1>9, BufFacts DEF recv_cb_loop, Inv, Side
    <2> QED BY <1>5, <1>7, <1>8, <2>1, FinishTorn
  <1>10. CASE \E s \in Side : recv_cb_enter(s)
    BY <1>10 DEF recv_cb_enter, Torn
  <1>11. CASE Peers
    BY <1>0, <1>11 DEF Peers, TailArrives, ConnectDone, PeerSend, PeerRead, PeerClose, PeerReset, Torn, NetType
  <1> QED BY <1>1, <1>2, <1>4, <1>9, <1>10, <1>11 DEF Next, Callbacks

LEMMA StreamInvInductive ==
  ASSUME StreamInv, [Next]_vars
  PROVE  StreamInv'
  <1>0. Inv /\ Good(ss) /\ Whole(ss, net) /\ Torn(net)
    BY DEF StreamInv, Inv
  <1>1. Inv'
    BY <1>0, InvInductive
  <1> SUFFICES Whole(ss, net)'
    BY <1>0, <1>1, TornInductive DEF StreamInv
  <1>2. Down.alloc = {} /\ Down.stage = 0 /\ Idle.alloc = {} /\ Idle.stage = 0 /\ {} # Side
    BY SideFacts DEF Down, Idle
  <1>3. CASE main
    BY <1>1, <1>2, <1>3 DEF main, StreamInv, Whole, Clean
  <1>4. CASE accept_cb
    BY <1>1, <1>4, AcceptWhole DEF StreamInv
  <1>5. CASE accept_cb_fails
    <2>1. CASE ss' = Down /\ net' = NetInit
      BY <1>1, <1>2, <2>1 DEF StreamInv, Whole, Clean
    <2>2. CASE UNCHANGED vars
      BY <1>0, <1>1, <2>2 DEF vars, StreamInv, Whole, Clean, Balanced, InTurn, Past, Rest
    <2> QED BY <1>5, <2>1, <2>2 DEF accept_cb_fails
  <1>6. CASE \E expired \in SUBSET {"timer"} : Poll(expired)
    BY <1>1, <1>6, PollWhole DEF StreamInv
  <1>7. CASE server_send_cb
    <2>1. CanInvoke("server", "send") /\ SendBuffer("server") /\ "server" \in Side
      BY <1>7 DEF server_send_cb, Side
    <2>2. "send" \in ss.active["server"]
      BY <1>0, <2>1 DEF CanInvoke, Good, Fed
    <2>3. ss.connected
      BY <1>0, <2>1, <2>2 DEF Good, Owned, Watched, Connecting
    <2> QED BY <1>1, <2>1, <2>3, SendBufferWhole DEF StreamInv
  <1>8. CASE remote_send_cb
    <2>1. CanInvoke("remote", "send") /\ "remote" \in Side
      BY <1>8 DEF remote_send_cb, Side
    <2>2. CASE ss.connected
      BY <1>1, <1>8, <2>1, <2>2, SendBufferWhole DEF remote_send_cb, StreamInv
    <2>3. CASE ~ ss.connected /\ RemoteConnected
      BY <1>1, <2>1, <2>3, ConnectedWhole DEF StreamInv
    <2>4. CASE Finish(CloseBoth(Invoked("remote", "send")), net)
      <3>1. Good(Invoked("remote", "send"))
        BY <1>0, <2>1, InvokedGood
      <3> QED BY <1>1, <2>4, <3>1, CloseWhole DEF StreamInv
    <2> QED BY <1>8, <2>2, <2>3, <2>4 DEF remote_send_cb
  <1>9. CASE remote_timeout_cb
    <2> DEFINE e == CloseBoth(ev_stop(Invoked("remote", "timer"), "remote", "timer"))
    <2>1. Finish(e, net)
      BY <1>9 DEF remote_timeout_cb
    <2>2. e.alloc = {} /\ e.stage = 0
      BY <1>0, InvokedTimer
    <2> HIDE DEF e
    <2> QED BY <1>1, <2>1, <2>2, FinishWhole, SideFacts DEF StreamInv, Clean
  <1>10. CASE \E s \in Side : recv_cb_enter(s) \/ recv_cb_loop(s)
    BY <1>1, <1>10, EnterWhole, LoopWhole DEF StreamInv
  <1>11. CASE Peers
    BY <1>1, <1>11, PeersWhole DEF StreamInv
  <1>12. CASE UNCHANGED vars
    BY <1>0, <1>1, <1>12 DEF vars, StreamInv, Whole, Clean, Balanced, InTurn, Past, Rest
  <1> QED BY <1>3, <1>4, <1>5, <1>6, <1>7, <1>8, <1>9, <1>10, <1>11, <1>12 DEF Next, Callbacks

\* For every buffer size and however recv and send cut the payload, a connection whose
\* two SOCKS5 messages were each received whole and in turn (not astray) and that
\* nobody has reset loses, duplicates and misreads nothing: what one peer has sent is in a
\* socket buffer, in the one waiting buffer of its direction, or with the other peer.
THEOREM StreamsIntactHolds == Spec => []StreamsIntact
  <1>1. Init => StreamInv
    BY DownGood, SideFacts DEF Init, StreamInv, Inv, Whole, Clean, Down, Torn, NetInit
  <1>2. StreamInv /\ [Next]_vars => StreamInv'
    BY StreamInvInductive
  <1>3. StreamInv => StreamsIntact
    <2> SUFFICES ASSUME StreamInv, Orderly PROVE Balanced(ss, net)
      BY DEF StreamsIntact, Balanced, Answered, Past, Waiting, Rest
    <2>1. Clean(ss, net)
      BY DEF Orderly, Clean, Side
    <2> QED BY <2>1 DEF StreamInv, Whole
  <1> QED BY <1>1, <1>2, <1>3, PTL DEF Spec

-----------------------------------------------------------------------------
(* The promise to the peers.  First what a step of the program does to the *)
(* process, watchers and buffers apart, and to what has been sent.         *)

\* The process runs while it has a connection, and relays only a connected one.
Live(d) == (d.alloc # {} => d.up) /\ (d.stage = 5 => d.connected)

Alike(d, e) == e.up = d.up /\ e.alloc = d.alloc /\ e.stage = d.stage /\ e.connected = d.connected

Freed(d) == d.alloc = {} /\ d.stage = 0

\* Nothing but perhaps more units are handed to the socket of t.
Handed(n, m, t) ==
    /\ m.tx[Other(t)] = n.tx[Other(t)]
    /\ \E w \in Nat : m.tx[t] = n.tx[t] + w
    /\ m.sent = n.sent /\ m.got = n.got /\ m.fin = n.fin /\ m.rst = n.rst /\ m.astray = n.astray

LEMMA AlikeWatchers ==
  ASSUME NEW d \in ProcessType, NEW s \in Side, NEW w \in Watcher
  PROVE  /\ Alike(d, ev_start(d, s, w)) /\ ev_start(d, s, w) \in ProcessType
         /\ Alike(d, ev_stop(d, s, w)) /\ ev_stop(d, s, w) \in ProcessType
         /\ Alike(d, Return(d)) /\ Return(d) \in ProcessType
         /\ \A k \in 0 .. BUF_SIZE : Alike(d, [d EXCEPT !.buf[s] = k])
                                     /\ [d EXCEPT !.buf[s] = k] \in ProcessType
  <1>1. Alike(d, Return(d)) /\ Return(d) \in ProcessType
    BY DEF Return, Alike, ProcessType
  <1>2. ASSUME NEW k \in 0 .. BUF_SIZE
        PROVE  Alike(d, [d EXCEPT !.buf[s] = k]) /\ [d EXCEPT !.buf[s] = k] \in ProcessType
    BY DEF Alike, ProcessType
  <1> QED BY <1>1, <1>2, StartFacts, StopFacts DEF Alike

LEMMA AlikeInvoked ==
  ASSUME Good(ss), NEW s \in Side, NEW w \in {"recv", "send"}
  PROVE  Alike(ss, Invoked(s, w)) /\ Invoked(s, w) \in ProcessType
  <1>1. Invoked(s, w).up = ss.up /\ Invoked(s, w).stage = ss.stage
    BY DEF Invoked, Good, ProcessType
  <1> QED BY <1>1, InvokedGood DEF Alike, Good

LEMMA AlikeChain ==
  ASSUME NEW a, NEW b, NEW e, Alike(a, b), Alike(b, e)
  PROVE  Alike(a, e)
  BY DEF Alike

LEMMA FinishStep ==
  ASSUME Inv, NEW d, NEW n, Finish(d, n), ss.alloc = Side, Alike(ss, d)
  PROVE  ss' = d /\ net' = n
  BY SideFacts DEF Finish, Alike

LEMMA CloseFreed ==
  ASSUME NEW d, Good(d), NEW n, Finish(CloseBoth(d), n)
  PROVE  Freed(ss')
  BY CloseBothGood DEF Finish, Freed, Good

\* One turn of the copying loop.
LEMMA CopyStep ==
  ASSUME Inv, NEW s \in Side, ss.running = s, Copy(s)
  PROVE  \/ net.rst[Other(s)] /\ Freed(ss')
         \/ Alike(ss, ss') /\ Handed(net, net', Other(s))
  <1> DEFINE to == Other(s)
             r  == RecvLength(s)
             w  == SendLength(to, r)
             n  == [net EXCEPT !.rx[s] = @ - r, !.tx[to] = @ + w]
             a  == [ss EXCEPT !.buf[to] = r - w]
             b  == ev_stop(a, s, "recv")
             e  == ev_start(b, to, "send")
             q  == Return(e)
  <1>0. Good(ss) /\ ss \in ProcessType /\ net \in NetType
        /\ "recv" \in Watcher /\ "send" \in Watcher
    BY DEF Inv, Good, Watcher
  <1>1. to \in Side /\ to # s /\ Other(to) = s /\ r \in 0 .. BUF_SIZE /\ w \in 0 .. r /\ w \in Nat
    BY LengthFacts, SideFacts
  <1>2. ss.alloc = Side
    BY <1>0, SideFacts DEF Good, InLoop, Owned
  <1>3. CASE net.rst[to]
    BY <1>0, <1>3, CloseFreed DEF Copy
  <1>4. Alike(ss, q)
    <2>1. r - w \in 0 .. BUF_SIZE
      BY <1>1, BoundsAssumption
    <2> HIDE DEF r, w
    <2>2. Alike(ss, a) /\ a \in ProcessType
      BY <1>0, <1>1, <2>1, AlikeWatchers
    <2> HIDE DEF a
    <2>3. Alike(ss, b) /\ b \in ProcessType
      BY <1>0, <2>2, AlikeWatchers, AlikeChain
    <2> HIDE DEF b
    <2>4. Alike(ss, e) /\ e \in ProcessType
      BY <1>0, <1>1, <2>3, AlikeWatchers, AlikeChain
    <2> HIDE DEF e
    <2> QED BY <2>4, <1>0, AlikeWatchers, AlikeChain
  <1>5. Alike(ss, ss)
    BY DEF Alike
  <1>6. ASSUME ~ net.rst[to] PROVE (ss' = q \/ ss' = ss) /\ net' = n
    <2>1. (w < r /\ Finish(q, n)) \/ Finish(ss, n)
      BY <1>6 DEF Copy
    <2> HIDE DEF q, n
    <2> QED BY <1>2, <1>4, <1>5, <2>1, FinishStep
  <1> HIDE DEF q, r, w
  <1>7. Handed(net, n, to)
    BY <1>0, <1>1 DEF Handed, NetType
  <1> HIDE DEF n
  <1>8. CASE ~ net.rst[to]
    BY <1>4, <1>5, <1>6, <1>7, <1>8
  <1> QED BY <1>3, <1>8

\* What waits in a buffer is sent.
LEMMA SendBufferStep ==
  ASSUME Inv, NEW s \in Side, CanInvoke(s, "send"), SendBuffer(s)
  PROVE  \/ (ss.buf[s] = 0 \/ net.rst[s]) /\ Freed(ss')
         \/ Alike(ss, ss') /\ Handed(net, net', s)
  <1> DEFINE d == Invoked(s, "send")
             w == SendLength(s, ss.buf[s])
             n == [net EXCEPT !.tx[s] = @ + w]
             k == d.buf[s] - w
             e == [d EXCEPT !.buf[s] = k]
             b == ev_stop(d, s, "send")
             f == ev_start(b, Other(s), "recv")
  <1>0. Good(ss) /\ ss \in ProcessType /\ net \in NetType /\ Other(s) \in Side /\ Other(s) # s
        /\ "recv" \in Watcher /\ "send" \in Watcher /\ "send" \in {"recv", "send"}
    BY SideFacts DEF Inv, Good, Watcher
  <1>1. ss.buf[s] \in 0 .. BUF_SIZE /\ w \in 0 .. ss.buf[s]
    <2>1. ss.buf[s] \in 0 .. BUF_SIZE
      BY <1>0 DEF ProcessType
    <2> QED BY <2>1, LengthFacts
  <1>2. ss.alloc = Side
    BY <1>0, SideFacts DEF Good, Owned, CanInvoke
  <1>3. Alike(ss, d) /\ d \in ProcessType /\ d.buf = ss.buf /\ Good(d)
    BY <1>0, AlikeInvoked, InvokedGood
  <1>4. CASE ss.buf[s] = 0 \/ net.rst[s]
    <2>1. Finish(CloseBoth(d), net)
      BY <1>4 DEF SendBuffer
    <2> HIDE DEF d
    <2> QED BY <1>3, <1>4, <2>1, CloseFreed
  <1>5. ASSUME ~ (ss.buf[s] = 0 \/ net.rst[s]) PROVE Finish(e, n) \/ Finish(f, n)
    <2>1. [d EXCEPT !.buf[s] = @ - w] = e
      OBVIOUS
    <2> QED BY <1>5, <2>1 DEF SendBuffer
  <1> HIDE DEF d, w
  <1>6. Alike(ss, e)
    <2>1. k \in 0 .. BUF_SIZE
      BY <1>1, <1>3, BoundsAssumption
    <2> HIDE DEF k
    <2> QED BY <1>3, <1>0, <2>1, AlikeWatchers, AlikeChain
  <1>7. Alike(ss, f)
    <2>1. Alike(ss, b) /\ b \in ProcessType
      BY <1>0, <1>3, AlikeWatchers, AlikeChain
    <2> HIDE DEF b
    <2> QED BY <1>0, <2>1, AlikeWatchers, AlikeChain
  <1> HIDE DEF e, f
  <1>8. Handed(net, n, s)
    BY <1>0, <1>1 DEF Handed, NetType
  <1> HIDE DEF n
  <1>9. CASE ~ (ss.buf[s] = 0 \/ net.rst[s])
    BY <1>2, <1>5, <1>6, <1>7, <1>8, <1>9, FinishStep
  <1> QED BY <1>4, <1>9

\* One turn of a receiving loop.  At stage 5 it frees the connection for the end of
\* the stream or for a reset only.
LEMMA LoopStep ==
  ASSUME Inv, NEW s \in Side, recv_cb_loop(s)
  PROVE  \/ /\ Freed(ss')
            /\ RecvEof(s) \/ (\E t \in Side : net.rst[t]) \/ ss.stage # 5
         \/ Alike(ss, ss') /\ (net' = net \/ Handed(net, net', Other(s)))
         \/ ss.stage # 5 /\ ss'.up = ss.up /\ ss'.alloc = ss.alloc /\ ss'.connected
  <1>0. Good(ss) /\ ss \in ProcessType /\ ss.running = s /\ Other(s) \in Side
        /\ ss.stage \in {0, 1, 5} /\ "server" \in Side
    BY BufFacts, SideFacts DEF Inv, Good, recv_cb_loop, Side
  <1>1. ss.alloc = Side /\ ss.connected
    BY <1>0, SideFacts DEF Good, InLoop, Owned
  <1>2. CASE RecvAgain(s) /\ Finish(Return(ss), net)
    <2>1. Alike(ss, Return(ss))
      BY <1>0, AlikeWatchers DEF Watcher
    <2> QED BY <1>1, <1>2, <2>1, FinishStep
  <1>3. CASE (RecvEof(s) \/ RecvError(s)) /\ Finish(CloseBoth(ss), net)
    BY <1>0, <1>3, CloseFreed DEF RecvError
  <1>4. CASE Copy(s)
    BY <1>0, <1>4, CopyStep
  <1>5. CASE ss.stage # 5 /\ MethodSelect
    <2> DEFINE e == [ss EXCEPT !.stage = 1]
    <2>1. e \in ProcessType /\ e.up = ss.up /\ e.alloc = ss.alloc /\ e.connected = ss.connected
      BY <1>0 DEF ProcessType
    <2>2. ss' = Return(e)
      BY <1>5 DEF MethodSelect, Finish
    <2> HIDE DEF e
    <2>3. Alike(e, Return(e))
      BY <1>0, <2>1, AlikeWatchers DEF Watcher
    <2> QED BY <1>1, <1>5, <2>1, <2>2, <2>3 DEF Alike
  <1>6. CASE ss.stage # 5 /\ ConnectRequest
    <2>1. CASE Finish(CloseBoth(ss), net)
      BY <1>0, <1>6, <2>1, CloseFreed
    <2> DEFINE e == [ss EXCEPT !.stage = 5]
    <2>2. CASE ss' = e
      <3>1. e.up = ss.up /\ e.alloc = ss.alloc /\ e.connected = ss.connected
        BY <1>0 DEF ProcessType
      <3> QED BY <1>1, <1>6, <2>2, <3>1
    <2> QED BY <1>6, <2>1, <2>2 DEF ConnectRequest, Finish
  <1>7. CASE s = "remote"
    BY <1>2, <1>3, <1>4, <1>7 DEF recv_cb_loop
  <1>8. CASE s = "server"
    <2>1. CASE ss.stage = 5
      BY <1>2, <1>3, <1>4, <1>8, <2>1 DEF recv_cb_loop
    <2>2. CASE ss.stage = 0
      BY <1>2, <1>3, <1>5, <1>8, <2>2 DEF recv_cb_loop
    <2>3. CASE ss.stage = 1
      BY <1>2, <1>3, <1>6, <1>8, <2>3 DEF recv_cb_loop
    <2> QED BY <1>0, <2>1, <2>2, <2>3
  <1> QED BY <1>7, <1>8 DEF Side

LEMMA EnterStep ==
  ASSUME Inv, NEW s \in Side, recv_cb_enter(s)
  PROVE  Alike(ss, ss') /\ net' = net
  <1> DEFINE d == Invoked(s, "recv")
  <1>1. Alike(ss, d) /\ d \in ProcessType
    BY AlikeInvoked DEF Inv
  <1>2. ss' = [d EXCEPT !.running = s] /\ net' = net
    BY DEF recv_cb_enter
  <1> HIDE DEF d
  <1> QED BY <1>1, <1>2 DEF Alike, ProcessType

LEMMA PollStep ==
  ASSUME Inv, NEW expired \in SUBSET {"timer"}, Poll(expired)
  PROVE  Alike(ss, ss') /\ net' = net
  BY DEF Poll, Alike, Inv, Good, ProcessType

\* The callback of the connection attempt.
LEMMA RemoteSendStep ==
  ASSUME Inv, remote_send_cb
  PROVE  \/ Freed(ss') /\ (~ ss.connected \/ ss.buf["remote"] = 0 \/ net.rst["remote"])
         \/ Alike(ss, ss') /\ Handed(net, net', "remote")
         \/ ~ ss.connected /\ ss'.connected /\ ss'.up = ss.up /\ ss'.alloc = ss.alloc
  <1>0. Good(ss) /\ "remote" \in Side /\ CanInvoke("remote", "send")
        /\ "server" \in Side /\ {"recv", "send", "timer"} = Watcher
    BY DEF Inv, remote_send_cb, Side, Watcher
  <1>1. CASE ss.connected
    BY <1>0, <1>1, SendBufferStep DEF remote_send_cb
  <1> DEFINE i == Invoked("remote", "send")
             a == [i EXCEPT !.connected = TRUE]
             b == ev_stop(a, "remote", "send")
             c == ev_stop(b, "remote", "timer")
             e == ev_start(c, "server", "recv")
             f == ev_start(e, "remote", "recv")
  <1>2. Alike(ss, i) /\ i \in ProcessType /\ Good(i)
    BY <1>0, AlikeInvoked, InvokedGood
  <1>3. CASE ~ ss.connected /\ Finish(CloseBoth(i), net)
    <2> HIDE DEF i
    <2> QED BY <1>2, <1>3, CloseFreed
  <1>4. CASE ~ ss.connected /\ RemoteConnected
    <2>1. ss' = f
      BY <1>4 DEF RemoteConnected, Finish
    <2> HIDE DEF i
    <2>2. a \in ProcessType /\ a.connected /\ a.up = ss.up /\ a.alloc = ss.alloc
      BY <1>2 DEF ProcessType, Alike
    <2> HIDE DEF a
    <2>3. Alike(a, b) /\ b \in ProcessType
      BY <1>0, <2>2, AlikeWatchers
    <2> HIDE DEF b
    <2>4. Alike(a, c) /\ c \in ProcessType
      BY <1>0, <2>3, AlikeWatchers, AlikeChain
    <2> HIDE DEF c
    <2>5. Alike(a, e) /\ e \in ProcessType
      BY <1>0, <2>4, AlikeWatchers, AlikeChain
    <2> HIDE DEF e
    <2>6. Alike(a, f)
      BY <1>0, <2>5, AlikeWatchers, AlikeChain
    <2> HIDE DEF f
    <2> QED BY <1>4, <2>1, <2>2, <2>6 DEF Alike
  <1> QED BY <1>1, <1>3, <1>4 DEF remote_send_cb

LEMMA TimeoutStep ==
  ASSUME Inv, remote_timeout_cb
  PROVE  Freed(ss') /\ ~ ss.connected
  <1> DEFINE e == CloseBoth(ev_stop(Invoked("remote", "timer"), "remote", "timer"))
  <1>1. ss' = e
    BY DEF remote_timeout_cb, Finish
  <1>2. e.alloc = {} /\ e.stage = 0
    BY InvokedTimer DEF Inv
  <1> HIDE DEF e
  <1>3. ~ ss.connected
    BY DEF remote_timeout_cb, CanInvoke, Inv, Good, Owned, Watched, Relaying
  <1> QED BY <1>1, <1>2, <1>3 DEF Freed

LEMMA LiveInductive ==
  ASSUME Inv, Live(ss), [Next]_vars
  PROVE  Live(ss')
  <1>1. ASSUME Freed(ss') PROVE Live(ss')
    BY <1>1 DEF Freed, Live
  <1>2. ASSUME Alike(ss, ss') PROVE Live(ss')
    BY <1>2 DEF Alike, Live
  <1>3. ASSUME ss'.connected, ss'.up = ss.up, ss'.alloc = ss.alloc PROVE Live(ss')
    BY <1>3 DEF Live
  <1>4. CASE main
    BY <1>4, <1>1 DEF main, Freed, Idle, Down
  <1>5. CASE accept_cb
    <2> DEFINE a == [ss EXCEPT !.alloc = Side]
               b == ev_start(a, "remote", "send")
    <2>0. "remote" \in Side /\ {"recv", "send", "timer"} = Watcher
      BY DEF Side, Watcher
    <2>1. a \in ProcessType /\ a.up /\ a.stage = ss.stage /\ a.connected = ss.connected
      BY <1>5 DEF accept_cb, Inv, Good, ProcessType
    <2>2. ss' = ev_start(b, "remote", "timer")
      BY <1>5 DEF accept_cb
    <2> HIDE DEF a
    <2>3. Alike(a, b) /\ b \in ProcessType
      BY <2>0, <2>1, AlikeWatchers
    <2> HIDE DEF b
    <2>4. Alike(a, ss')
      BY <2>0, <2>2, <2>3, AlikeWatchers, AlikeChain
    <2> QED BY <2>1, <2>4 DEF Alike, Live
  <1>6. CASE accept_cb_fails
    BY <1>6, <1>1 DEF accept_cb_fails, Freed, Down, vars
  <1>7. CASE \E expired \in SUBSET {"timer"} : Poll(expired)
    BY <1>7, <1>2, PollStep
  <1>8. CASE server_send_cb
    BY <1>8, <1>1, <1>2, SendBufferStep DEF server_send_cb, Side
  <1>9. CASE remote_send_cb
    BY <1>9, <1>1, <1>2, <1>3, RemoteSendStep
  <1>10. CASE remote_timeout_cb
    BY <1>10, <1>1, TimeoutStep
  <1>11. CASE \E s \in Side : recv_cb_enter(s) \/ recv_cb_loop(s)
    BY <1>11, <1>1, <1>2, <1>3, EnterStep, LoopStep
  <1>12. CASE Peers \/ UNCHANGED vars
    <2>1. ss' = ss
      BY <1>12, Zenon DEF Peers, TailArrives, ConnectDone, PeerSend, PeerRead, PeerClose, PeerReset, vars
    <2> QED BY <2>1
  <1> QED BY <1>4, <1>5, <1>6, <1>7, <1>8, <1>9, <1>10, <1>11, <1>12 DEF Next, Callbacks

-----------------------------------------------------------------------------
(* The mapped variables and the steps of the promise.                      *)

\* Units the peer of s has sent, or was sent, before the payload.
Asked(s) == IF s = "server" THEN 2 ELSE 0
Told(s) == IF s = "server" THEN 2 ELSE 1

PSent(n) == [n.sent EXCEPT !["server"] = n.sent["server"] - 2]
POut(n) == [s \in Side |-> n.tx[s] + n.got[s] - (IF s = "server" THEN 2 ELSE 1)]

\* Payload from the peer of s that waits in a buffer.
Held(d, n, s) == n.rx[s] + Rest(d, Other(s))

\* What is handed on and what is held is what the peers have sent.
Steady(d, n) == \A s \in Side : POut(n)[Other(s)] + Held(d, n, s) = PSent(n)[s]

PromiseStep == [Promise!Next]_(Promise!vars)

LEMMA MappedFacts ==
  ASSUME NEW n \in NetType
  PROVE  /\ PSent(n) \in [Side -> Int] /\ POut(n) \in [Side -> Int]
         /\ \A s \in Side : /\ PSent(n)[s] = n.sent[s] - Asked(s)
                            /\ POut(n)[s] = n.tx[s] + n.got[s] - Told(s)
  <1>1. n.sent \in [Side -> Nat] /\ n.tx \in [Side -> Nat] /\ n.got \in [Side -> Nat]
        /\ "server" \in Side
    BY BoundsAssumption DEF NetType, Side
  <1>2. PSent(n) \in [Side -> Int] /\ \A s \in Side : PSent(n)[s] = n.sent[s] - Asked(s)
    BY <1>1 DEF PSent, Asked
  <1>3. POut(n) \in [Side -> Int] /\ \A s \in Side : POut(n)[s] = n.tx[s] + n.got[s] - Told(s)
    BY <1>1 DEF POut, Told
  <1> QED BY <1>2, <1>3

\* The two lines of Balanced, and what they say of the payload: S units sent, p and q of
\* them and of what was handed on (t and g) before the payload, x and b held.
Outward(S, x, b, t, g) == S - 2 + 1 = x + b + t + g
Inward(S, x, b, t, g) == S + 2 = x + b + t + g
Adds(S, p, x, b, t, g, q) == t + g - q + (x + b) = S - p

LEMMA PayloadAdds ==
  ASSUME NEW S \in Nat, NEW x \in Nat, NEW b \in Nat, NEW t \in Nat, NEW g \in Nat
  PROVE  /\ Outward(S, x, b, t, g) => Adds(S, 2, x, b, t, g, 1)
         /\ Inward(S, x, b, t, g) => Adds(S, 0, x, b, t, g, 2)
  BY DEF Outward, Inward, Adds

LEMMA SteadyState ==
  ASSUME NEW d, Good(d), NEW n \in NetType, d.stage = 5, d.connected, Balanced(d, n)
  PROVE  Steady(d, n)
  <1>1. /\ PSent(n)["server"] = n.sent["server"] - 2 /\ PSent(n)["remote"] = n.sent["remote"] - 0
        /\ POut(n)["server"] = n.tx["server"] + n.got["server"] - 2
        /\ POut(n)["remote"] = n.tx["remote"] + n.got["remote"] - 1
    BY MappedFacts DEF Side, Asked, Told
  <1>2. Rest(d, "server") \in Nat /\ Rest(d, "remote") \in Nat
    BY BufFacts DEF Rest
  <1>3. /\ Held(d, n, "server") = n.rx["server"] + Rest(d, "remote") /\ Other("server") = "remote"
        /\ Held(d, n, "remote") = n.rx["remote"] + Rest(d, "server") /\ Other("remote") = "server"
    BY DEF Held, Other
  <1>4. /\ Outward(n.sent["server"], n.rx["server"], Rest(d, "remote"), n.tx["remote"], n.got["remote"])
        /\ Inward(n.sent["remote"], n.rx["remote"], Rest(d, "server"), n.tx["server"], n.got["server"])
    BY DEF Balanced, Past, Outward, Inward
  <1>5. /\ Adds(n.sent["server"], 2, n.rx["server"], Rest(d, "remote"), n.tx["remote"], n.got["remote"], 1)
        /\ Adds(n.sent["remote"], 0, n.rx["remote"], Rest(d, "server"), n.tx["server"], n.got["server"], 2)
    BY <1>2, <1>4, NetFacts, PayloadAdds
  <1>6. POut(n)["remote"] + Held(d, n, "server") = PSent(n)["server"]
    BY <1>1, <1>3, <1>5 DEF Adds
  <1>7. POut(n)["server"] + Held(d, n, "remote") = PSent(n)["remote"]
    BY <1>1, <1>3, <1>5 DEF Adds
  <1> QED BY <1>3, <1>6, <1>7 DEF Steady, Side

LEMMA SteadyBound ==
  ASSUME NEW d, Good(d), NEW n \in NetType, Steady(d, n), NEW s \in Side
  PROVE  /\ POut(n)[Other(s)] <= PSent(n)[s]
         /\ Held(d, n, s) = 0 => POut(n)[Other(s)] = PSent(n)[s]
  <1>1. POut(n)[Other(s)] \in Int /\ PSent(n)[s] \in Int
    BY MappedFacts, SideFacts
  <1>2. Held(d, n, s) \in Nat
    <2>1. n.rx[s] \in Nat /\ Rest(d, Other(s)) \in Nat
      BY NetFacts, BufFacts DEF Rest, Side, Other
    <2> QED BY <2>1 DEF Held
  <1>3. POut(n)[Other(s)] + Held(d, n, s) = PSent(n)[s]
    BY DEF Steady
  <1> QED BY <1>1, <1>2, <1>3

LEMMA ModeFacts ==
  /\ Mode \in {"down", "closed", "open", "broken"}
  /\ Mode' \in {"down", "closed", "open", "broken"}
  /\ Mode = "down" <=> ~ ss.up
  /\ Mode = "open" <=> (ss.up /\ ss.stage = 5 /\ Clean(ss, net))
  /\ Mode' = "open" <=> (ss'.up /\ ss'.stage = 5 /\ Clean(ss', net'))
  /\ Mode = "broken" <=> (ss.up /\ ss.stage = 5 /\ ~ Clean(ss, net))
  /\ Mode' = "closed" <=> (ss'.up /\ ss'.stage # 5)
  /\ Mode' = "broken" <=> (ss'.up /\ ss'.stage = 5 /\ ~ Clean(ss', net'))
  <1>1. (Orderly <=> Clean(ss, net)) /\ (Orderly' <=> Clean(ss', net'))
    BY DEF Orderly, Clean, Side
  <1> QED BY <1>1 DEF Mode

\* The steps that ask nothing of the data.
LEMMA FreeSteps ==
  ASSUME \/ Mode' = "down"
         \/ Mode = "down" /\ Mode' = "closed"
         \/ Mode \in {"closed", "broken"} /\ Mode' \in {"closed", "broken"}
         \/ Mode = "open" /\ Mode' = "broken"
  PROVE  PromiseStep
  BY DEF PromiseStep, Promise!Next, Promise!Crash, Promise!Start, Promise!SetUp, Promise!Break

LEMMA OpenStep ==
  ASSUME Mode = "closed", Mode' = "open", \A s \in Side : POut(net')[Other(s)] <= PSent(net')[s]
  PROVE  PromiseStep
  <1>1. Promise!Open
    BY SideFacts DEF Promise!Open, PSent, POut
  <1> QED BY <1>1 DEF PromiseStep, Promise!Next

LEMMA SendStep ==
  ASSUME Mode = "open", Mode' = "open", NEW s \in Side, ~ net.fin[s],
         net'.fin = net.fin, PSent(net') = [PSent(net) EXCEPT ![s] = PSent(net)[s] + 1],
         POut(net') = POut(net)
  PROVE  PromiseStep
  <1>1. Promise!Send(s)
    BY DEF Promise!Send, PSent, POut
  <1> QED BY <1>1 DEF PromiseStep, Promise!Next

LEMMA StopStep ==
  ASSUME Mode = "open", Mode' = "open", NEW s \in Side, ~ net.fin[s],
         net'.fin = [net.fin EXCEPT ![s] = TRUE], PSent(net') = PSent(net), POut(net') = POut(net)
  PROVE  PromiseStep
  <1>1. Promise!Stop(s)
    BY DEF Promise!Stop, PSent, POut
  <1> QED BY <1>1 DEF PromiseStep, Promise!Next

LEMMA StutterStep ==
  ASSUME Mode' = Mode, net'.fin = net.fin, PSent(net') = PSent(net), POut(net') = POut(net)
  PROVE  PromiseStep
  <1>1. UNCHANGED Promise!vars
    BY DEF Promise!vars, PSent, POut
  <1> QED BY <1>1 DEF PromiseStep

LEMMA ForwardStep ==
  ASSUME Mode = "open", Mode' = "open", NEW s \in Side, net'.fin = net.fin, PSent(net') = PSent(net),
         NEW k \in POut(net)[Other(s)] .. PSent(net)[s],
         POut(net') = [POut(net) EXCEPT ![Other(s)] = k]
  PROVE  PromiseStep
  <1>1. Promise!Forward(s)
    BY SideFacts DEF Promise!Forward, PSent, POut
  <1> QED BY <1>1 DEF PromiseStep, Promise!Next

\* The stream of s has ended and all of it was handed on.
LEMMA EndStep ==
  ASSUME Mode = "open", Mode' = "closed", NEW s \in Side, net.fin[s],
         POut(net)[Other(s)] = PSent(net)[s]
  PROVE  PromiseStep
  <1>1. Promise!Over(s)
    BY DEF Promise!Over, Promise!Delivered, PSent, POut
  <1>2. Promise!End
    BY <1>1 DEF Promise!End
  <1> QED BY <1>2 DEF PromiseStep, Promise!Next

-----------------------------------------------------------------------------
(* Every step of the program keeps the promise.                            *)

Sound == StreamInv /\ Live(ss)

\* Everything the program and its peers may do once payload flows.
LEMMA RelayStep ==
  ASSUME Sound, ss.up, ss.stage = 5, [Next]_vars
  PROVE  \/ ~ ss'.up
         \/ Alike(ss, ss') /\ net' = net
         \/ Alike(ss, ss') /\ \E t \in Side : Handed(net, net', t)
         \/ /\ Freed(ss')
            /\ \/ \E t \in Side : net.rst[t]
               \/ \E s \in Side : ss.running = s /\ RecvEof(s)
         \/ Peers
  <1>0. /\ Inv /\ Good(ss) /\ ss.connected /\ ss.alloc = Side /\ Relaying(ss)
        /\ "server" \in Side /\ "remote" \in Side
    BY DEF Sound, Live, StreamInv, Inv, Good, Owned, Watched, Side
  <1>1. Alike(ss, ss)
    BY DEF Alike
  <1>2. ~ main /\ ~ accept_cb
    BY <1>0, SideFacts DEF main, accept_cb
  <1>3. CASE accept_cb_fails
    <2>1. CASE UNCHANGED vars
      BY <1>1, <2>1 DEF vars
    <2>2. CASE ss' = Down
      BY <2>2 DEF Down
    <2> QED BY <1>3, <2>1, <2>2 DEF accept_cb_fails
  <1>4. CASE \E expired \in SUBSET {"timer"} : Poll(expired)
    BY <1>0, <1>4, PollStep
  <1>5. ASSUME NEW s \in Side, CanInvoke(s, "send") PROVE ss.buf[s] # 0
    BY <1>0, <1>5 DEF CanInvoke, Good, Fed, Relaying
  <1>6. CASE server_send_cb
    BY <1>0, <1>5, <1>6, SendBufferStep DEF server_send_cb
  <1>7. CASE remote_send_cb
    <2>1. ss.buf["remote"] # 0
      BY <1>0, <1>5, <1>7 DEF remote_send_cb
    <2> QED BY <1>0, <1>7, <2>1, RemoteSendStep
  <1>8. ~ remote_timeout_cb
    BY <1>0, TimeoutStep
  <1>9. CASE \E s \in Side : recv_cb_enter(s)
    BY <1>0, <1>9, EnterStep
  <1>10. CASE \E s \in Side : recv_cb_loop(s)
    <2>1. PICK s \in Side : recv_cb_loop(s)
      BY <1>10
    <2>2. ss.running = s /\ Other(s) \in Side
      BY <2>1, SideFacts DEF recv_cb_loop
    <2> QED BY <1>0, <2>1, <2>2, LoopStep
  <1>11. CASE UNCHANGED vars
    BY <1>1, <1>11 DEF vars
  <1> QED BY <1>2, <1>3, <1>4, <1>6, <1>7, <1>8, <1>9, <1>10, <1>11 DEF Next, Callbacks

LEMMA OpenSteady ==
  ASSUME NEW d, Good(d), NEW n \in NetType, Whole(d, n), Live(d), d.stage = 5, Clean(d, n)
  PROVE  Steady(d, n)
  BY SteadyState DEF Whole, Live

LEMMA OpenFacts ==
  ASSUME Sound, Mode = "open"
  PROVE  /\ ss.up /\ ss.stage = 5 /\ ss.connected /\ ss.alloc = Side /\ Clean(ss, net)
         /\ Inv /\ Good(ss) /\ net \in NetType /\ Steady(ss, net)
         /\ \A s \in Side : ~ net.rst[s]
  <1>1. /\ ss.up /\ ss.stage = 5 /\ Clean(ss, net) /\ Inv /\ Good(ss) /\ net \in NetType
        /\ Whole(ss, net) /\ Live(ss)
    BY ModeFacts DEF Sound, StreamInv, Inv
  <1>2. ss.connected /\ ss.alloc = Side
    BY <1>1 DEF Live, Clean
  <1>3. \A s \in Side : ~ net.rst[s]
    BY <1>1 DEF Clean, Side
  <1> QED BY <1>1, <1>2, <1>3, OpenSteady

LEMMA NextFacts ==
  ASSUME Sound', Mode' = "open"
  PROVE  Good(ss') /\ net' \in NetType /\ Steady(ss', net')
  <1>1. /\ ss'.stage = 5 /\ Clean(ss', net') /\ Good(ss') /\ net' \in NetType
        /\ Whole(ss', net') /\ Live(ss')
    BY ModeFacts DEF Sound, StreamInv, Inv
  <1> QED BY <1>1, OpenSteady

\* The connection goes on as it was.
LEMMA StaysOpen ==
  ASSUME Sound, Mode = "open", Alike(ss, ss'), net'.rst = net.rst, net'.astray = net.astray
  PROVE  Mode' = "open"
  BY OpenFacts, ModeFacts DEF Alike, Clean

\* Units handed to a socket are some the other peer has sent.
LEMMA HandedKeeps ==
  ASSUME Sound, Sound', Mode = "open", Alike(ss, ss'), NEW t \in Side, Handed(net, net', t)
  PROVE  PromiseStep
  <1> DEFINE s == Other(t)
             k == POut(net')[t]
  <1>1. s \in Side /\ Other(s) = t /\ s # t /\ \A r \in Side : r = s \/ r = t
    BY SideFacts
  <1>2. Mode' = "open"
    BY StaysOpen DEF Handed
  <1>3. net \in NetType /\ Good(ss') /\ net' \in NetType /\ Steady(ss', net')
    BY <1>2, OpenFacts, NextFacts
  <1>4. PSent(net') = PSent(net) /\ net'.fin = net.fin
    BY DEF PSent, Handed
  <1>5. /\ POut(net) \in [Side -> Int] /\ POut(net') \in [Side -> Int] /\ PSent(net)[s] \in Int
        /\ POut(net')[s] = POut(net)[s] /\ POut(net)[t] <= k
    <2>1. /\ POut(net')[s] = net'.tx[s] + net'.got[s] - Told(s)
          /\ POut(net)[s] = net.tx[s] + net.got[s] - Told(s)
          /\ POut(net')[t] = net'.tx[t] + net'.got[t] - Told(t)
          /\ POut(net)[t] = net.tx[t] + net.got[t] - Told(t)
      BY <1>1, <1>3, MappedFacts
    <2>2. /\ net'.tx[s] = net.tx[s] /\ net'.got = net.got
      BY DEF Handed
    <2>3. PICK w \in Nat : net'.tx[t] = net.tx[t] + w
      BY DEF Handed
    <2>4. net.tx[t] \in Nat /\ net.got[t] \in Nat /\ Told(t) \in Nat
      BY <1>3, NetFacts DEF Side, Told
    <2>5. \A x, g, q, v \in Nat : x + g - q <= (x + v) + g - q
      OBVIOUS
    <2>6. net.tx[t] + net.got[t] - Told(t) <= (net.tx[t] + w) + net.got[t] - Told(t)
      BY <2>3, <2>4, <2>5
    <2>7. POut(net)[t] <= k
      BY <2>1, <2>2, <2>3, <2>6
    <2> QED BY <1>1, <1>3, <2>1, <2>2, <2>7, MappedFacts
  <1>6. k <= PSent(net)[s] /\ k \in Int /\ POut(net)[t] \in Int
    BY <1>1, <1>3, <1>4, <1>5, SteadyBound
  <1>7. k \in POut(net)[t] .. PSent(net)[s]
    BY <1>5, <1>6
  <1>8. POut(net') = [POut(net) EXCEPT ![t] = k]
    BY <1>1, <1>5
  <1> HIDE DEF k
  <1> QED BY <1>1, <1>2, <1>4, <1>7, <1>8, ForwardStep

\* At the end of a stream nothing of it is left behind: the loop runs only while
\* nothing waits in the buffer of its direction.
LEMMA EofKeeps ==
  ASSUME Sound, Mode = "open", Freed(ss'), NEW s \in Side, ss.running = s, RecvEof(s)
  PROVE  PromiseStep
  <1>1. Good(ss) /\ net \in NetType /\ Steady(ss, net) /\ ss.connected /\ ss.alloc = Side
    BY OpenFacts
  <1>2. net.rx[s] = 0 /\ net.fin[s]
    BY DEF RecvEof
  <1>3. Rest(ss, Other(s)) = 0
    <2>1. "recv" \in ss.active[s]
      BY <1>1, SideFacts DEF Good, InLoop
    <2> QED BY <1>1, <2>1 DEF Good, Watched, Relaying, Rest
  <1>4. POut(net)[Other(s)] = PSent(net)[s]
    <2>1. Held(ss, net, s) = 0
      BY <1>2, <1>3 DEF Held
    <2> QED BY <1>1, <2>1, SteadyBound
  <1>5. Mode' \in {"down", "closed"}
    BY ModeFacts DEF Freed
  <1> QED BY <1>2, <1>4, <1>5, EndStep, FreeSteps

LEMMA PeersKeep ==
  ASSUME Sound, Sound', Mode = "open", Peers
  PROVE  PromiseStep
  <1>0. /\ net \in NetType /\ ss.up /\ ss.stage = 5
    BY OpenFacts
  <1>1. ss' = ss
    BY Zenon DEF Peers, TailArrives, ConnectDone, PeerSend, PeerRead, PeerClose, PeerReset
  <1>2. Mode' \in {"open", "broken"}
    BY <1>0, <1>1, ModeFacts
  <1>3. CASE Mode' = "broken"
    BY <1>3, FreeSteps
  <1>4. CASE Mode' = "open"
    <2>0. net' \in NetType
      BY <1>4, NextFacts
    <2>1. ASSUME NEW r, ConnectDone(r) PROVE PromiseStep
      <3>1. net'.fin = net.fin /\ net'.sent = net.sent /\ net'.tx = net.tx /\ net'.got = net.got
        BY <1>0, <2>1 DEF ConnectDone, NetType
      <3> QED BY <1>4, <3>1, StutterStep DEF PSent, POut
    <2>2. ASSUME NEW s \in Side, PeerSend(s) PROVE PromiseStep
      <3>1. /\ net'.fin = net.fin /\ net'.tx = net.tx /\ net'.got = net.got /\ ~ net.fin[s]
            /\ net'.sent[s] = net.sent[s] + 1
            /\ \A t \in Side : t # s => net'.sent[t] = net.sent[t]
        BY <1>0, <2>2 DEF PeerSend, NetType
      <3>2. POut(net') = POut(net)
        BY <3>1 DEF POut
      <3>3. /\ PSent(net) \in [Side -> Int] /\ PSent(net') \in [Side -> Int]
            /\ \A t \in Side : /\ PSent(net')[t] = net'.sent[t] - Asked(t)
                               /\ PSent(net)[t] = net.sent[t] - Asked(t)
        BY <1>0, <2>0, MappedFacts
      <3>4. PSent(net')[s] = PSent(net)[s] + 1
        <4>1. net.sent[s] \in Nat /\ Asked(s) \in Nat
          BY <1>0 DEF NetType, Asked
        <4>2. \A x, q \in Nat : (x + 1) - q = (x - q) + 1
          OBVIOUS
        <4> QED BY <3>1, <3>3, <4>1, <4>2
      <3>5. PSent(net') = [PSent(net) EXCEPT ![s] = PSent(net)[s] + 1]
        BY <3>1, <3>3, <3>4
      <3> QED BY <1>4, <3>1, <3>2, <3>5, SendStep
    <2>3. ASSUME NEW s \in Side, PeerRead(s) PROVE PromiseStep
      <3>1. /\ net'.fin = net.fin /\ net'.sent = net.sent
            /\ net'.tx[s] = net.tx[s] - 1 /\ net'.got[s] = net.got[s] + 1
            /\ \A t \in Side : t # s => net'.tx[t] = net.tx[t] /\ net'.got[t] = net.got[t]
        BY <1>0, <2>3 DEF PeerRead, NetType
      <3>2. /\ POut(net) \in [Side -> Int] /\ POut(net') \in [Side -> Int]
            /\ \A t \in Side : /\ POut(net')[t] = net'.tx[t] + net'.got[t] - Told(t)
                               /\ POut(net)[t] = net.tx[t] + net.got[t] - Told(t)
        BY <1>0, <2>0, MappedFacts
      <3>3. POut(net')[s] = POut(net)[s]
        <4>1. net.tx[s] \in Nat /\ net.got[s] \in Nat /\ Told(s) \in Nat
          BY <1>0, NetFacts DEF Side, Told
        <4>2. \A x, g, q \in Nat : (x - 1) + (g + 1) - q = x + g - q
          OBVIOUS
        <4> QED BY <3>1, <3>2, <4>1, <4>2
      <3>4. POut(net') = POut(net)
        BY <3>1, <3>2, <3>3
      <3> QED BY <1>4, <3>1, <3>4, StutterStep DEF PSent
    <2>4. ASSUME NEW s \in Side, PeerClose(s) PROVE PromiseStep
      <3>1. /\ net'.fin = [net.fin EXCEPT ![s] = TRUE] /\ ~ net.fin[s]
            /\ net'.sent = net.sent /\ net'.tx = net.tx /\ net'.got = net.got
        BY <1>0, <2>4 DEF PeerClose, NetType
      <3> QED BY <1>4, <3>1, StopStep DEF PSent, POut
    <2>5. ASSUME NEW s \in Side, PeerReset(s) PROVE PromiseStep
      <3>1. net'.rst[s]
        BY <1>0, <2>5 DEF PeerReset, NetType
      <3> QED BY <1>4, <3>1, ModeFacts DEF Clean, Side
    <2>6. ASSUME TailArrives PROVE FALSE
      <3>1. net.astray
        BY <2>6 DEF TailArrives, Sound, StreamInv, Torn
      <3> QED BY <3>1, OpenFacts DEF Clean
    <2> QED BY <2>1, <2>2, <2>3, <2>4, <2>5, <2>6 DEF Peers
  <1> QED BY <1>2, <1>3, <1>4

\* A connection that was reset, or whose application did not wait, stays one.
LEMMA BrokenStays ==
  ASSUME Sound, Mode = "broken", [Next]_vars
  PROVE  Mode' # "open"
  <1>0. ss.up /\ ss.stage = 5 /\ ss.alloc = Side /\ ~ Clean(ss, net) /\ net \in NetType
    BY ModeFacts DEF Sound, Live, StreamInv, Inv, Good, Owned
  <1>1. CASE ~ ss'.up \/ Freed(ss')
    BY <1>1, ModeFacts DEF Freed
  <1>2. CASE Alike(ss, ss') /\ (net' = net \/ \E t \in Side : Handed(net, net', t))
    BY <1>0, <1>2, ModeFacts DEF Alike, Handed, Clean
  <1>3. CASE Peers
    <2>1. net.astray => net'.astray
      BY <1>0, <1>3 DEF Peers, TailArrives, ConnectDone, PeerSend, PeerRead, PeerClose, PeerReset, NetType
    <2>2. \/ net'.rst = net.rst
          \/ \E r \in Side : net'.rst = [net.rst EXCEPT ![r] = TRUE]
      BY <1>0, <1>3 DEF Peers, TailArrives, ConnectDone, PeerSend, PeerRead, PeerClose, PeerReset, NetType
    <2>3. \A t \in Side : net.rst[t] => net'.rst[t]
      BY <1>0, <2>2 DEF NetType
    <2> QED BY <1>0, <2>1, <2>3, ModeFacts DEF Clean, Side
  <1> QED BY <1>0, <1>1, <1>2, <1>3, RelayStep

LEMMA StepKeeps ==
  ASSUME Sound, Sound', [Next]_vars
  PROVE  PromiseStep
  <1>1. CASE Mode = "open"
    <2>1. ss.up /\ ss.stage = 5 /\ \A s \in Side : ~ net.rst[s]
      BY <1>1, OpenFacts
    <2>2. CASE ~ ss'.up
      BY <2>2, FreeSteps, ModeFacts DEF Mode
    <2>3. CASE Alike(ss, ss') /\ net' = net
      <3>1. Mode' = "open"
        BY <1>1, <2>3, StaysOpen
      <3> QED BY <1>1, <2>3, <3>1, StutterStep
    <2> QED BY <1>1, <2>1, <2>2, <2>3, RelayStep, HandedKeeps, EofKeeps, PeersKeep
  <1>2. CASE Mode = "closed" /\ Mode' = "open"
    BY <1>2, NextFacts, SteadyBound, OpenStep
  <1>3. CASE Mode = "broken" /\ Mode' = "open"
    BY <1>3, BrokenStays
  <1>4. CASE Mode = "down"
    <2>1. ss.alloc = {} /\ ~ ss.up /\ net = NetInit
      BY <1>4, ModeFacts DEF Sound, Live, StreamInv, Whole
    <2>2. \A s \in Side : ss.active[s] = {} /\ ss.pending[s] = {} /\ ss.running = "none"
      BY <2>1, SideFacts DEF Sound, StreamInv, Inv, Good, Owned, ProcessType
    <2>3. ~ Peers
      BY <2>1, SideFacts DEF Peers, TailArrives, ConnectDone, PeerSend, PeerRead, PeerClose, PeerReset, PeerUp, NetInit
    <2>4. ~ Callbacks
      BY <2>2, SideFacts DEF Callbacks, server_send_cb, remote_send_cb, remote_timeout_cb, recv_cb_enter,
                             recv_cb_loop, CanInvoke, Side
    <2>5. ~ \E expired \in SUBSET {"timer"} : Poll(expired)
      BY <2>2 DEF Poll, Side
    <2>6. CASE main
      BY <1>4, <2>6, FreeSteps, ModeFacts DEF main, Idle, Down
    <2>7. CASE UNCHANGED vars
      BY <2>1, <2>7, FreeSteps, ModeFacts DEF vars, Mode
    <2> QED BY <2>1, <2>3, <2>4, <2>5, <2>6, <2>7 DEF Next, accept_cb, accept_cb_fails
  <1>5. CASE \/ Mode' = "down"
             \/ Mode \in {"closed", "broken"} /\ Mode' \in {"closed", "broken"}
    BY <1>5, FreeSteps
  <1> QED BY <1>1, <1>2, <1>3, <1>4, <1>5, ModeFacts

\* For every buffer size and amount of data the shadowsocks client implements
\* StreamRelay: each of its steps is one the promise allows, or none a peer notices.
THEOREM KeepsPromiseHolds == Spec => KeepsPromise
  <1>1. Init => Sound /\ Promise!Init
    BY DownGood, SideFacts DEF Init, Sound, Live, StreamInv, Inv, Whole, Clean, Down, Torn,
                               NetInit, Promise!Init, Mode
  <1>2. Sound /\ [Next]_vars => Sound'
    BY StreamInvInductive, LiveInductive DEF Sound, StreamInv
  <1>3. Sound /\ Sound' /\ [Next]_vars => [Promise!Next]_(Promise!vars)
    BY StepKeeps DEF PromiseStep
  <1> QED BY <1>1, <1>2, <1>3, PTL DEF Spec, KeepsPromise, Promise!Spec
=============================================================================

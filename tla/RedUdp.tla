------------------------------- MODULE RedUdp -------------------------------
(***************************************************************************)
(* UDP through a SOCKS5 proxy: src/jni/redsocks/redudp.c.                  *)
(*                                                                         *)
(* The first datagram of a client address opens a TCP connection to the    *)
(* proxy and is queued, as are the next max_pktqueue - 1, while the        *)
(* connection is authenticated and a UDP association is asked for.  Once   *)
(* it is granted the queue is flushed and datagrams are forwarded as they  *)
(* come.  With TPROXY the answers leave from a socket bound to the         *)
(* destination, which all clients of that destination share under a        *)
(* reference count.  An idle client is dropped by its timer.               *)
(*                                                                         *)
(* A handler runs to its end before the next one, so each is one action.   *)
(* A datagram is its number in the order in which its address sent them,   *)
(* and its destination.  The proxy answers each request at most once.      *)
(***************************************************************************)
EXTENDS Integers, Sequences, FiniteSets

CONSTANTS
    Addrs,         \* client addresses
    Dests,         \* destination addresses
    TProxy,        \* do_tproxy: does the instance serve every destination?
    ConfDest,      \* the configured destaddr, used otherwise
    Login,         \* does the instance have credentials?
    max_pktqueue,  \* datagrams a client may have queued
    Fds,           \* descriptors the process may have open
    MaxPkts        \* bound: datagrams an address sends

ASSUME RedUdpAssumption == /\ IsFiniteSet(Addrs) /\ IsFiniteSet(Dests)
                           /\ TProxy \in BOOLEAN /\ Login \in BOOLEAN
                           /\ ConfDest \in Dests
                           /\ max_pktqueue \in Nat \ {0}
                           /\ Fds \in Nat /\ MaxPkts \in Nat

VARIABLES
    mode,    \* "init", "run", "fini" or "exit"
    cl,      \* the client of each address, or None
    bound,   \* root_bound_udp4: how often each destination's socket is referenced
    fdfree,  \* descriptors still available
    sent,    \* how many datagrams each address has sent
    fwd      \* the datagrams of each address that were written to the proxy

vars == <<mode, cl, bound, fdfree, sent, fwd>>

\* readcb: what the control connection waits for; udprelay: is that event
\* initialised, that is, has the association been granted; sender: has sender_fd
\* been taken from bound_udp4_get; timer: is the timeout pending.
ClientOf(d) == [readcb |-> "connect", dest |-> d, udprelay |-> FALSE,
                sender |-> FALSE, timer |-> FALSE, queue |-> <<>>]

None == [readcb |-> "none"]
Present(a) == cl[a] # None

Init == /\ mode = "init"
        /\ cl = [a \in Addrs |-> None]
        /\ bound = [d \in Dests |-> 0]
        /\ fdfree = Fds
        /\ sent = [a \in Addrs |-> 0]
        /\ fwd = [a \in Addrs |-> <<>>]

-----------------------------------------------------------------------------
(* Helpers.                                                                *)

\* Can bound_udp4_get(d) return a socket?
BoundAvailable(d) == bound[d] > 0 \/ fdfree > 0

bound_udp4_get(d) == [bound EXCEPT ![d] = @ + 1]

bound_udp4_put(d) == [bound EXCEPT ![d] = @ - 1]

\* Fault: the datagram socket is not closed.
Released_LeaksRelay(x) == 1 + (IF x.sender /\ bound[x.dest] = 1 THEN 1 ELSE 0)

\* Descriptors that dropping the client closes: its control connection, its
\* datagram socket, and the sender socket if this was the last reference.
Released(x) ==
    1 + (IF x.udprelay THEN 1 ELSE 0) + (IF x.sender /\ bound[x.dest] = 1 THEN 1 ELSE 0)

\* Fault: the reference is kept.
redudp_drop_client_KeepsSender(a) ==
    /\ cl' = [cl EXCEPT ![a] = None]
    /\ fdfree' = fdfree + Released(cl[a])
    /\ UNCHANGED bound

redudp_drop_client(a) ==
    /\ cl' = [cl EXCEPT ![a] = None]
    /\ fdfree' = fdfree + Released(cl[a])
    /\ bound' = IF cl[a].sender THEN bound_udp4_put(cl[a].dest) ELSE bound

\* Fault: the timer is not registered.
redudp_bump_timeout_Forgotten(x) == x

redudp_bump_timeout(x) == [x EXCEPT !.timer = TRUE]

\* Fault: one datagram too many.
redudp_enqeue_pkt_OffByOne(x, p) ==
    IF Len(x.queue) > max_pktqueue THEN x ELSE [x EXCEPT !.queue = Append(@, p)]

\* A datagram that finds the queue full is lost.
redudp_enqeue_pkt(x, p) ==
    IF Len(x.queue) >= max_pktqueue THEN x ELSE [x EXCEPT !.queue = Append(@, p)]

\* redudp_fill_preamble: where the proxy is told to send the client's datagrams.
get_destaddr(x) == IF TProxy THEN x.dest ELSE ConfDest

\* sendmsg may fail and lose a datagram: the positions in s of those it writes.
Written(s) == UNION {{w \in [1 .. n -> 1 .. Len(s)] : \A j, k \in 1 .. n : j < k => w[j] < w[k]} :
                        n \in 0 .. Len(s)}

\* redudp_forward_pkt on a series s of datagrams of address a.
Forward(a, s) ==
    \E w \in Written(s) :
        fwd' = [fwd EXCEPT ![a] = @ \o [k \in DOMAIN w |->
                    [n |-> s[w[k]].n, dst |-> s[w[k]].dst, to |-> get_destaddr(cl[a])]]]

-----------------------------------------------------------------------------
(* Datagrams from clients.                                                 *)

Datagram(a, d) == [n |-> sent[a] + 1, dst |-> d]

Arrives(a) == /\ mode = "run"
              /\ sent[a] < MaxPkts
              /\ sent' = [sent EXCEPT ![a] = @ + 1]

\* Without TPROXY the destination is not recorded (pdestaddr is NULL).
redudp_first_pkt_from_client(a, d) ==
    /\ Arrives(a)
    /\ ~Present(a)
    /\ fdfree > 0
    /\ cl' = [cl EXCEPT ![a] = redudp_enqeue_pkt(redudp_bump_timeout(
                                   ClientOf(IF TProxy THEN d ELSE ConfDest)), Datagram(a, d))]
    /\ fdfree' = fdfree - 1
    /\ UNCHANGED <<mode, bound, fwd>>

\* red_connect_relay fails: the half made client is dropped at once.
FirstPktRefused(a) ==
    /\ Arrives(a)
    /\ ~Present(a)
    /\ UNCHANGED <<mode, cl, bound, fdfree, fwd>>

\* redudp_pkt_from_client for a client without association.
EnqueuePkt(a, d) ==
    /\ Arrives(a)
    /\ Present(a)
    /\ ~cl[a].udprelay
    /\ cl' = [cl EXCEPT ![a] = redudp_enqeue_pkt(redudp_bump_timeout(@), Datagram(a, d))]
    /\ UNCHANGED <<mode, bound, fdfree, fwd>>

\* redudp_pkt_from_client for a client with one.
ForwardPkt(a, d) ==
    /\ Arrives(a)
    /\ Present(a)
    /\ cl[a].udprelay
    /\ cl' = [cl EXCEPT ![a] = redudp_bump_timeout(@)]
    /\ Forward(a, <<Datagram(a, d)>>)
    /\ UNCHANGED <<mode, bound, fdfree>>

-----------------------------------------------------------------------------
(* The control connection.                                                 *)

Waits(a, for) == mode = "run" /\ Present(a) /\ cl[a].readcb = for

Request(a, next) == /\ cl' = [cl EXCEPT ![a].readcb = next]
                    /\ UNCHANGED <<mode, bound, fdfree, sent, fwd>>

Drop(a) == redudp_drop_client(a) /\ UNCHANGED <<mode, sent, fwd>>

redudp_relay_connected(a) ==
    /\ Waits(a, "connect")
    /\ Request(a, "methods") \/ Drop(a)

\* The proxy chooses a method; socks5_is_known_auth_method refuses "password" if
\* there are no credentials.
redudp_read_auth_methods(a) ==
    /\ Waits(a, "methods")
    /\ \/ Request(a, "assoc")
       \/ Login /\ Request(a, "auth")
       \/ Drop(a)

redudp_read_auth_reply(a) ==
    /\ Waits(a, "auth")
    /\ Request(a, "assoc") \/ Drop(a)

\* Fault: the newest datagrams are written first.
redudp_flush_queue_Reversed(a) ==
    LET q == cl[a].queue IN Forward(a, [k \in 1 .. Len(q) |-> q[Len(q) + 1 - k]])

redudp_flush_queue(a) == Forward(a, cl[a].queue)

\* The association is granted and there is a descriptor for the datagram socket.
AssocGranted(a) ==
    /\ Waits(a, "assoc")
    /\ ~cl[a].udprelay
    /\ fdfree > 0
    /\ fdfree' = fdfree - 1
    /\ redudp_flush_queue(a)
    /\ cl' = [cl EXCEPT ![a].udprelay = TRUE, ![a].queue = <<>>]
    /\ UNCHANGED <<mode, bound, sent>>

\* It is refused, or the datagram socket cannot be made.
AssocRefused(a) ==
    /\ Waits(a, "assoc")
    /\ ~cl[a].udprelay
    /\ Drop(a)

\* The control connection is closed or fails; reading starts with the first request.
redudp_relay_error(a) ==
    /\ mode = "run"
    /\ Present(a)
    /\ cl[a].readcb # "connect"
    /\ Drop(a)

redudp_timeout(a) ==
    /\ mode = "run"
    /\ Present(a)
    /\ cl[a].timer
    /\ Drop(a)

-----------------------------------------------------------------------------
(* Datagrams from the proxy.                                               *)

\* An acceptable datagram: the first one takes the sender socket.  Should that fail,
\* the datagram is lost and the next one tries again.
redudp_pkt_from_socks(a) ==
    /\ mode = "run"
    /\ Present(a)
    /\ cl[a].udprelay
    /\ LET d == cl[a].dest
           get == TProxy /\ ~cl[a].sender /\ BoundAvailable(d)
       IN  /\ cl' = [cl EXCEPT ![a] = [redudp_bump_timeout(@)
                                        EXCEPT !.sender = cl[a].sender \/ get]]
           /\ bound' = IF get THEN bound_udp4_get(d) ELSE bound
           /\ fdfree' = IF get /\ bound[d] = 0 THEN fdfree - 1 ELSE fdfree
    /\ UNCHANGED <<mode, sent, fwd>>

-----------------------------------------------------------------------------
(* Set up and tear down.                                                   *)

redudp_init_instance ==
    /\ mode = "init"
    /\ \/ fdfree > 0 /\ mode' = "run" /\ fdfree' = fdfree - 1
       \/ mode' = "exit" /\ UNCHANGED fdfree
    /\ UNCHANGED <<cl, bound, sent, fwd>>

Terminate ==
    /\ mode = "run"
    /\ mode' = "fini"
    /\ UNCHANGED <<cl, bound, fdfree, sent, fwd>>

\* redudp_fini_instance drops the clients one by one; their order does not matter.
FiniClient(a) ==
    /\ mode = "fini"
    /\ Present(a)
    /\ Drop(a)

redudp_fini_instance ==
    /\ mode = "fini"
    /\ \A a \in Addrs : ~Present(a)
    /\ mode' = "exit"
    /\ fdfree' = fdfree + 1
    /\ UNCHANGED <<cl, bound, sent, fwd>>

Next == \/ redudp_init_instance
        \/ Terminate
        \/ redudp_fini_instance
        \/ \E a \in Addrs : \/ \E d \in Dests : \/ redudp_first_pkt_from_client(a, d)
                                               \/ EnqueuePkt(a, d)
                                               \/ ForwardPkt(a, d)
                            \/ FirstPktRefused(a)
                            \/ redudp_relay_connected(a)
                            \/ redudp_read_auth_methods(a)
                            \/ redudp_read_auth_reply(a)
                            \/ AssocGranted(a)
                            \/ AssocRefused(a)
                            \/ redudp_relay_error(a)
                            \/ redudp_timeout(a)
                            \/ redudp_pkt_from_socks(a)
                            \/ FiniClient(a)

Spec == Init /\ [][Next]_vars

\* A pending timer expires (addresses send finitely many datagrams, so no timer is
\* put off for ever) and the tear down, which does not wait for events, goes on.
Fairness == /\ \A a \in Addrs : WF_vars(redudp_timeout(a)) /\ WF_vars(FiniClient(a))
            /\ WF_vars(redudp_fini_instance)

FairSpec == Spec /\ Fairness

-----------------------------------------------------------------------------
(* Properties.                                                             *)

\* What a client structure and its queue may hold.
Pkt == [n : 1 .. MaxPkts, dst : Dests]

ClientType == [readcb : {"connect", "methods", "auth", "assoc"}, dest : Dests,
               udprelay : BOOLEAN, sender : BOOLEAN, timer : BOOLEAN, queue : Seq(Pkt)]

Holders(d) == {a \in Addrs : Present(a) /\ cl[a].sender /\ cl[a].dest = d}

\* The reference count of a shared sender socket is the number of clients that use
\* it, through every order of first answers, failures and drops of its clients: no
\* client sends on a closed socket, and none is left open without a client.
SendersCounted == \A d \in Dests : bound[d] = Cardinality(Holders(d))

\* Every descriptor is free, the listener's, a client's control connection, a
\* client's datagram socket or one shared sender socket.
DescriptorsAccounted ==
    fdfree + (IF mode \in {"run", "fini"} THEN 1 ELSE 0)
           + Cardinality({a \in Addrs : Present(a)})
           + Cardinality({a \in Addrs : Present(a) /\ cl[a].udprelay})
           + Cardinality({d \in Dests : bound[d] > 0})
        = Fds

\* The datagrams of an address reach the proxy in the order in which they were
\* sent: none overtakes another through the flush of the queue or a new client.
NotOvertaken ==
    \A a \in Addrs :
        LET all == fwd[a] \o (IF Present(a) THEN cl[a].queue ELSE <<>>)
        IN  \A j, k \in 1 .. Len(all) : j < k => all[j].n < all[k].n

\* At most max_pktqueue datagrams wait, and none once the association is granted
\* (redudp_flush_queue asserts it), so none is forgotten in the queue.
QueueDrained ==
    \A a \in Addrs : Present(a) => /\ Len(cl[a].queue) <= max_pktqueue
                                   /\ cl[a].udprelay => cl[a].queue = <<>>

\* A client never outlives its traffic: in every phase, a proxy that accepts
\* connections and then keeps silent included, its timer is pending and ends it.
ClientsExpire == \A a \in Addrs : Present(a) ~> ~Present(a)

\* A datagram is forwarded to the destination its client sent it to.
ForwardedWhereSent ==
    \A a \in Addrs : \A k \in 1 .. Len(fwd[a]) : fwd[a][k].to = fwd[a][k].dst
=============================================================================

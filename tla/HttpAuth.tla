------------------------------ MODULE HttpAuth ------------------------------
(***************************************************************************)
(* Proxy authentication in the http-connect relay of redsocks              *)
(* (src/jni/redsocks/http-connect.c; http-relay.c has the same steps).     *)
(*                                                                         *)
(* The challenge of the last 407 and the number of requests made since are *)
(* kept once per instance, in http_auth, behind all its connections.  Each *)
(* connection sends a request with credentials for the challenge that is   *)
(* stored when its relay becomes writable, and reconnects after a 407.     *)
(*                                                                         *)
(* A challenge is a number: for Basic always 1, for Digest the nonce.  A   *)
(* connection makes one relay attempt after another until it is relayed or *)
(* dropped; the sockets are in RedsocksClient.  The proxy's answer to a    *)
(* request is under way for a while: answers to one connection come one at *)
(* a time, answers to different connections arrive in any order, so that a *)
(* challenge may be stored after a younger one.                            *)
(***************************************************************************)
EXTENDS Integers, FiniteSets

CONSTANTS
    Conns,      \* connections of one instance
    Login,      \* does the instance have a login and a password?
    Right,      \* does the proxy know them?
    Digest,     \* does the proxy ask for Digest, or for Basic?
    Fresh,      \* does a Digest proxy put a new nonce into every challenge?
    MaxNonce    \* bound: nonces expire only before the proxy has issued this many

ASSUME HttpAuthAssumption == /\ IsFiniteSet(Conns)
                             /\ Login \in BOOLEAN /\ Right \in BOOLEAN
                             /\ Digest \in BOOLEAN /\ Fresh \in BOOLEAN
                             /\ MaxNonce \in Nat \ {0}

VARIABLES
    auth,     \* http_auth: last_auth_query (0 for NULL) and last_auth_count
    conn,     \* the connections
    nonce,    \* the nonce the proxy issued last
    oldest,   \* the oldest nonce it still accepts
    used      \* the requests with credentials that were made: nonce and nc

vars == <<auth, conn, nonce, oldest, used>>

\* st: "idle" before it is accepted, "new" while its relay is connected (httpc_new),
\* "sent" (httpc_request_sent), "open" when the relay was started, "dropped".
\* query, nc: the credentials of its last request.  reply: the answer to it that is
\* under way, a 2xx or a 407 with the challenge it carries.  refused: the challenges
\* for which its credentials were refused.  failed: was it dropped with the verdict
\* "proxy auth failed"?  replay: did a request repeat an nc of the same nonce?
NoReply == -1
Ok2xx == 0

Idle == [st |-> "idle", query |-> 0, nc |-> 0, reply |-> NoReply, refused |-> {},
         failed |-> FALSE, replay |-> FALSE]

Init == /\ auth = [query |-> 0, count |-> 0]
        /\ conn = [c \in Conns |-> Idle]
        /\ nonce = 1
        /\ oldest = 1
        /\ used = {}

-----------------------------------------------------------------------------

Accept(c) ==
    /\ conn[c].st = "idle"
    /\ conn' = [conn EXCEPT ![c].st = "new"]
    /\ UNCHANGED <<auth, nonce, oldest, used>>

\* Fault: the request is not counted.
Counted_Not(a) == a

\* httpc_mkconnect counts every request, with credentials or without.
Counted(a) == [a EXCEPT !.count = @ + 1]

\* Fault: only the first request with a challenge is made.
httpc_mkconnect_Once(c) ==
    /\ conn[c].st = "new" /\ (auth.query # 0 => auth.count = 0)
    /\ LET a == Counted(auth)
           id == <<a.query, a.count>>
       IN  /\ auth' = a
           /\ conn' = [conn EXCEPT ![c] =
                          [@ EXCEPT !.st = "sent", !.query = a.query, !.nc = a.count,
                                    !.replay = conn[c].replay \/ (a.query # 0 /\ id \in used)]]
           /\ used' = IF a.query # 0 THEN used \cup {id} ELSE used
    /\ UNCHANGED <<nonce, oldest>>

\* httpc_write_cb: the relay is writable and the request is made.
httpc_mkconnect(c) ==
    /\ conn[c].st = "new"
    /\ LET a == Counted(auth)
           id == <<a.query, a.count>>
       IN  /\ auth' = a
           /\ conn' = [conn EXCEPT ![c] =
                          [@ EXCEPT !.st = "sent", !.query = a.query, !.nc = a.count,
                                    !.replay = conn[c].replay \/ (a.query # 0 /\ id \in used)]]
           /\ used' = IF a.query # 0 THEN used \cup {id} ELSE used
    /\ UNCHANGED <<nonce, oldest>>

\* The relay cannot be connected, or the connection ends for another reason.
Drop(c) ==
    /\ conn[c].st \in {"new", "sent", "open"}
    /\ conn' = [conn EXCEPT ![c] = [@ EXCEPT !.st = "dropped", !.reply = NoReply]]
    /\ UNCHANGED <<auth, nonce, oldest, used>>

-----------------------------------------------------------------------------
(* The proxy answers a request.                                            *)

\* Does the proxy accept the credentials of the connection's request?  A Digest
\* proxy may have let the nonce expire.
Valid(c) == Right /\ conn[c].query # 0 /\ (Digest => conn[c].query >= oldest)

Grant(c) ==
    /\ conn[c].st = "sent" /\ conn[c].reply = NoReply
    /\ Valid(c)
    /\ conn' = [conn EXCEPT ![c].reply = Ok2xx]
    /\ UNCHANGED <<auth, nonce, oldest, used>>

\* 407: the proxy puts its latest nonce into the challenge, or a new one.
Refuse(c) ==
    /\ conn[c].st = "sent" /\ conn[c].reply = NoReply
    /\ ~Valid(c)
    /\ nonce' = IF Digest /\ Fresh THEN nonce + 1 ELSE nonce
    /\ conn' = [conn EXCEPT ![c].reply = nonce']
    /\ UNCHANGED <<auth, oldest, used>>

\* The nonces issued so far expire.
NonceExpires ==
    /\ Digest
    /\ nonce < MaxNonce
    /\ nonce' = nonce + 1
    /\ oldest' = nonce + 1
    /\ UNCHANGED <<auth, conn, used>>

-----------------------------------------------------------------------------
(* httpc_read_cb handles the answer when it arrives.                       *)

Accepted(c) ==
    /\ conn[c].st = "sent" /\ conn[c].reply = Ok2xx
    /\ conn' = [conn EXCEPT ![c] = [@ EXCEPT !.st = "open", !.reply = NoReply]]
    /\ UNCHANGED <<auth, nonce, oldest, used>>

Refusal(c) == conn[c].st = "sent" /\ conn[c].reply > 0

Refused(x) == [x EXCEPT !.refused = @ \cup ({x.query} \ {0}), !.reply = NoReply]

\* The test that makes a 407 final.
GivesUp == auth.query # 0 /\ auth.count = 1

\* httpc_read_cb on 407: "proxy auth failed".
AuthFailed(c) ==
    /\ Refusal(c)
    /\ GivesUp
    /\ conn' = [conn EXCEPT ![c] = [Refused(@) EXCEPT !.st = "dropped", !.failed = TRUE]]
    /\ UNCHANGED <<auth, nonce, oldest, used>>

\* "proxy auth required, but no login information provided", or no challenge is
\* found behind the status line.
AuthImpossible(c) ==
    /\ Refusal(c)
    /\ ~GivesUp
    /\ conn' = [conn EXCEPT ![c] = [Refused(@) EXCEPT !.st = "dropped"]]
    /\ UNCHANGED <<auth, nonce, oldest, used>>

\* Fault: the challenge is stored only if there was none.
Challenge_Sticky(q) == [query |-> IF auth.query = 0 THEN q ELSE auth.query, count |-> 0]

Challenge(q) == [query |-> q, count |-> 0]

\* The challenge is stored for all connections, the relay closed and connected anew.
AuthRetry(c) ==
    /\ Refusal(c)
    /\ ~GivesUp
    /\ Login
    /\ auth' = Challenge(conn[c].reply)
    /\ conn' = [conn EXCEPT ![c] = [Refused(@) EXCEPT !.st = "new"]]
    /\ UNCHANGED <<nonce, oldest, used>>

Next == \/ NonceExpires
        \/ \E c \in Conns : \/ Accept(c)
                            \/ httpc_mkconnect(c)
                            \/ Drop(c)
                            \/ Grant(c)
                            \/ Refuse(c)
                            \/ Accepted(c)
                            \/ AuthFailed(c)
                            \/ AuthImpossible(c)
                            \/ AuthRetry(c)

Spec == Init /\ [][Next]_vars

\* A relay that is being connected becomes writable, the proxy answers, and its
\* answer arrives.
Fairness == \A c \in Conns : /\ WF_vars(httpc_mkconnect(c))
                             /\ WF_vars(Grant(c) \/ Refuse(c))
                             /\ WF_vars(\/ Accepted(c) \/ AuthFailed(c)
                                        \/ AuthImpossible(c) \/ AuthRetry(c))

FairSpec == Spec /\ Fairness

-----------------------------------------------------------------------------
(* Properties.                                                             *)

\* No two requests carry the same nc for the same nonce, whichever connections make
\* them, however their refusals interleave and in whatever order the challenges
\* arrive: RFC 2617 lets a proxy take the second one for a replay.  It needs a proxy
\* whose every challenge has a nonce of its own (Fresh): a challenge restarts the
\* count also if it repeats the stored nonce.
NoReplay == Digest => \A c \in Conns : ~conn[c].replay

\* A connection does not answer a challenge again for which it was already refused.
\* The stored challenge may be replaced by an older one, of a 407 that was long under
\* way, but that one is not among those the connection has been refused for.  This too
\* needs a proxy whose every challenge has a nonce of its own: else the 407 of another
\* connection brings a refused nonce back.
RefusedNotRepeated ==
    Digest /\ Fresh =>
        \A c \in Conns : conn[c].st = "sent" => conn[c].query \notin conn[c].refused

\* With the right credentials every connection comes to an end: it is relayed or
\* dropped, and does not connect to the proxy for ever.
Settles == \A c \in Conns : (conn[c].st = "new") ~> (conn[c].st \in {"open", "dropped"})

\* The verdict "proxy auth failed" is only for a connection whose own credentials
\* were refused.
FailedMeansRefused == \A c \in Conns : conn[c].failed => conn[c].refused # {}
=============================================================================

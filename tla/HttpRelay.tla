------------------------------ MODULE HttpRelay -----------------------------
(***************************************************************************)
(* The http-relay protocol of redsocks (src/jni/redsocks/http-relay.c)     *)
(*                                                                         *)
(* Unlike the tunnelling protocols, http-relay reads the head of the       *)
(* client's request before it connects to the proxy, rewrites it, keeps it *)
(* together with the body for a second try with credentials, and reads the *)
(* head of the proxy's reply before the relaying starts.  Both heads       *)
(* arrive in segments cut anywhere.                                        *)
(*                                                                         *)
(* Kept: which lines are collected, skipped, added, sent and sent again,   *)
(* and in which callback.  Abstracted: a line is what the code tests it    *)
(* for; a line cut in two stays in the evbuffer until it is whole, so      *)
(* segments end at lines.  Buffers and half closes while relaying are in   *)
(* RedsocksClient.  One connection is followed; the others of its instance *)
(* change the challenge and the count that all of them share.              *)
(***************************************************************************)
EXTENDS Integers, Sequences, SequencesExt

CONSTANTS
    Login,      \* does the instance have a login and a password?
    MaxSegment, \* bound: lines of one segment from the client
    MaxRequest, \* bound: lines of a request, body included
    MaxExpire,  \* bound: how often the proxy forgets the challenge it gave
    MaxOthers   \* bound: how often other connections change http_auth

ASSUME HttpRelayAssumption == /\ Login \in BOOLEAN
                              /\ MaxSegment \in Nat /\ MaxRequest \in Nat
                              /\ MaxExpire \in Nat /\ MaxOthers \in Nat

\* Lines of a request: Host, (Proxy-)Connection, any other, the empty one.
HeadLine == {"host", "hop", "plain"}

VARIABLES
    h,     \* the redsocks_client with its httpr_client
    auth,  \* http_auth of the instance: is a challenge stored, last_auth_count
    env    \* the client, the proxy and the segments between

vars == <<h, auth, env>>

\* st: client->state, "relaying" after redsocks_start_relay, "dropped".  first: is
\* firstline set?  buf: client_buffer.  rbuf: relay_buffer.  relay: no relay yet,
\* connecting or writable.  input: lines read from the relay, not taken yet.
\* toRelay, toClient: all that was written to the present relay and to the client.
\* aborted: the client's EOF has unregistered the last event of the connection.
Start == [st |-> "new", first |-> FALSE, has_host |-> FALSE, buf |-> <<>>, rbuf |-> <<>>,
          relay |-> "none", input |-> <<>>, toRelay |-> <<>>, toClient |-> <<>>,
          aborted |-> FALSE]

\* request: the lines the client has sent.  open: the client may send more.  reply:
\* the reply on the present relay connection, sofar: its lines that have arrived,
\* split: a reply head arrived in more than one read.  tries: relays connected.
\* known: the proxy still knows the challenge.  expired: times it forgot one.
\* right: the proxy knows the login and the password.  others: times another
\* connection of the instance has changed http_auth.
Outside(right) == [request |-> <<>>, open |-> TRUE, reply |-> <<>>, sofar |-> 0,
                   split |-> FALSE, tries |-> 0, known |-> TRUE, expired |-> 0,
                   right |-> right, others |-> 0]

Init == /\ h = Start
        /\ \E right \in BOOLEAN : env = Outside(right)
        /\ auth \in [query : {FALSE}, count : {0}] \cup
                    (IF Login THEN [query : {TRUE}, count : {0, 1, 2}] ELSE {})

Complete(req) == \E i \in 1 .. Len(req) : req[i] = "empty"

Drop(d) == [d EXCEPT !.st = "dropped", !.relay = "none", !.input = <<>>]

-----------------------------------------------------------------------------
(* httpr_client_read_cb                                                    *)

\* The lines of s that are not x.  SelectSeq in the form of a recursive function, which
\* HttpRelayProofs can reason about.
Without(s, x) ==
    LET keep[i \in 0 .. Len(s)] ==
            IF i = 0 THEN <<>>
            ELSE IF s[i] = x THEN keep[i - 1] ELSE Append(keep[i - 1], s[i])
    IN  keep[Len(s)]

\* Headers are kept unless they are about the connection.
Kept(headers) == Without(headers, "hop")

\* Lines of the head before the empty one: the firstline, unless it is set, and headers.
TakeLines(d, lines) ==
    LET headers == IF d.first \/ lines = <<>> THEN lines ELSE Tail(lines)
    IN  [d EXCEPT !.first = d.first \/ lines # <<>>,
                  !.has_host = @ \/ Contains(headers, "host"),
                  !.buf = @ \o Kept(headers)]

\* The empty line: the firstline is tossed and the missing headers are added.
EndHead(d) ==
    [d EXCEPT !.buf = @ \o (IF d.has_host THEN <<>> ELSE <<"host">>)
                        \o <<"pclose", "close", "empty">>,
              !.st = "recv_request_headers"]

\* Fault: content for a relay that has its request is not kept for a second try.
httpr_client_read_content_NotKept(d, content) ==
    IF d.relay = "up" /\ d.st \in {"request_sent", "reply_came"}
    THEN [d EXCEPT !.toRelay = @ \o content]
    ELSE [d EXCEPT !.buf = @ \o content]

\* Content is kept, and written at once if the request has been sent.
httpr_client_read_content(d, content) ==
    [d EXCEPT !.buf = @ \o content,
              !.toRelay = IF d.relay = "up" /\ d.st \in {"request_sent", "reply_came"}
                          THEN @ \o content ELSE @]

\* redsocks_connect_relay; a relay that cannot be made drops the client.
redsocks_connect_relay(d) ==
    {[d EXCEPT !.relay = "connecting", !.toRelay = <<>>, !.input = <<>>], Drop(d)}

\* What the callback makes of the lines of one segment.
httpr_client_read_cb(d, seg) ==
    IF d.st # "new" THEN {httpr_client_read_content(d, seg)}
    ELSE LET n == CHOOSE k \in 0 .. Len(seg) :
                      /\ \A i \in 1 .. k : seg[i] # "empty"
                      /\ k = Len(seg) \/ seg[k + 1] = "empty"
             e == TakeLines(d, SubSeq(seg, 1, n))
         IN  IF n = Len(seg) THEN {e}
             ELSE {Drop(e)} \cup      \* no firstline, or a malformed one
                  (IF ~ e.first THEN {}
                   ELSE redsocks_connect_relay(
                          httpr_client_read_content(EndHead(e), SubSeq(seg, n + 2, Len(seg)))))

\* Segments that may follow the lines sent so far: content after the empty line.
Segment == {s \in UNION {[1 .. n -> HeadLine \cup {"empty", "body"}] : n \in 1 .. MaxSegment} :
              /\ Len(env.request) + Len(s) <= MaxRequest
              /\ \A i \in 1 .. Len(s) :
                    (s[i] = "body") = Complete(env.request \o SubSeq(s, 1, i - 1))}

ClientSends ==
    /\ h.st \in {"new", "recv_request_headers", "request_sent", "reply_came"}
    /\ env.open
    /\ \E seg \in Segment :
         /\ h' \in httpr_client_read_cb(h, seg)
         /\ env' = [env EXCEPT !.request = @ \o seg]
    /\ UNCHANGED auth

\* The client closes its end.  redsocks_event_error finds no relay to pass the EOF
\* on to, or shuts down the one that is still connecting: no event is left.
ClientCloses ==
    /\ h.st \in {"new", "recv_request_headers", "request_sent", "reply_came"}
    /\ env.open
    /\ env' = [env EXCEPT !.open = FALSE]
    /\ h' = [h EXCEPT !.aborted = h.relay # "up"]
    /\ UNCHANGED auth

-----------------------------------------------------------------------------
(* httpr_relay_write_cb                                                    *)

\* What is written to a relay that has turned writable: the firstline, perhaps
\* credentials, the headers and the content that has come so far.
Request(credentials) == (IF credentials THEN <<"first", "auth">> ELSE <<"first">>) \o h.buf

\* The attempt to connect is over.  Either it has failed, or the request is counted
\* and sent with credentials if a challenge of a known scheme is stored, or the client
\* is dropped because its firstline has no address that Digest can sign.
httpr_relay_write_cb ==
    /\ h.st = "recv_request_headers" /\ h.relay = "connecting" /\ ~ h.aborted
    /\ \/ h' = Drop(h) /\ UNCHANGED auth
       \/ /\ auth' = [auth EXCEPT !.count = @ + 1]
          /\ \/ auth.query /\ h' = Drop(h)
             \/ \E credentials \in {auth.query, FALSE} :
                  h' = [h EXCEPT !.relay = "up", !.st = "request_sent",
                                 !.toRelay = Request(credentials)]
    /\ env' = [env EXCEPT !.tries = @ + 1, !.reply = <<>>, !.sofar = 0, !.split = FALSE]

-----------------------------------------------------------------------------
(* The proxy.                                                              *)

Valid == env.right /\ env.known /\ \E i \in 1 .. Len(h.toRelay) : h.toRelay[i] = "auth"

\* A refusal carries a challenge, perhaps behind a line without a colon, or, from an odd
\* proxy, none; another answer has a status line, perhaps after a line that is none,
\* headers and content.
Replies == IF Valid THEN {<<"200", "header", "empty", "content">>,
                          <<"junk", "200", "empty">>, <<"9">>}
           ELSE {<<"407", "header", "challenge", "empty">>,
                 <<"407", "folded", "challenge", "empty">>, <<"407", "empty">>}

ProxyAnswers ==
    /\ h.st = "request_sent" /\ env.reply = <<>>
    /\ \E r \in Replies : env' = [env EXCEPT !.reply = r, !.known = Valid \/ r[2] # "empty"]
    /\ UNCHANGED <<h, auth>>

\* The proxy forgets the challenge it gave, such as an expired nonce.
ChallengeExpires ==
    /\ env.expired < MaxExpire /\ env.known
    /\ env' = [env EXCEPT !.known = FALSE, !.expired = @ + 1]
    /\ UNCHANGED <<h, auth>>

-----------------------------------------------------------------------------
(* httpr_relay_read_cb                                                     *)

\* The position of the first line of s that ends the search for a header, or 0.
FirstOf(s, lines) ==
    LET at == {i \in 1 .. Len(s) : s[i] \in lines}
    IN  IF at = {} THEN 0 ELSE CHOOSE i \in at : \A j \in at : i <= j

\* get_auth_request_header: is a challenge among the lines that have arrived, before
\* the end of the head and before any line without a colon?
get_auth_request_header(lines) ==
    LET i == FirstOf(lines, {"challenge", "empty", "folded"})
    IN  i # 0 /\ lines[i] = "challenge"

\* Fault: what arrived behind the head is thrown away with it.
CollectHead_Drains(d) ==
    LET e == [d EXCEPT !.rbuf = @ \o d.input, !.input = <<>>]
        n == FirstOf(e.rbuf, {"empty"})
    IN  IF n = 0 THEN e
        ELSE [e EXCEPT !.st = "relaying", !.toClient = @ \o SubSeq(e.rbuf, 1, n)]

\* Fault: the end of the head is not noticed.
CollectHead_NoEnd(d) == [d EXCEPT !.rbuf = @ \o d.input, !.input = <<>>]

\* Lines of the head are collected; behind the empty one the head goes to the client
\* and the relaying starts.
CollectHead(d) ==
    LET i == FirstOf(d.input, {"empty"})
        n == IF i = 0 THEN Len(d.input) ELSE i
        e == [d EXCEPT !.rbuf = @ \o SubSeq(d.input, 1, n),
                       !.input = SubSeq(d.input, n + 1, Len(d.input))]
    IN  IF i = 0 THEN e
        ELSE [e EXCEPT !.st = "relaying", !.toClient = @ \o e.rbuf]

\* The test that makes a 407 final.
GivesUp == auth.query /\ auth.count = 1

\* Fault: a second 407 is not final.
Refused_Always(d) ==
    IF Login /\ get_auth_request_header(d.input)
    THEN /\ auth' = [query |-> TRUE, count |-> 0]
         /\ h' \in redsocks_connect_relay([d EXCEPT !.st = "recv_request_headers",
                                                    !.rbuf = <<>>])
    ELSE h' = Drop(d) /\ UNCHANGED auth

\* 407.  If no challenge is found among the lines that have arrived, the client is
\* dropped with "no proxy auth challenge" and line is freed a second time, which the
\* process may not survive.
Refused(d) ==
    IF GivesUp \/ ~ Login THEN h' = Drop(d) /\ UNCHANGED auth
    ELSE IF get_auth_request_header(d.input)
         THEN /\ auth' = [query |-> TRUE, count |-> 0]
              /\ h' \in redsocks_connect_relay([d EXCEPT !.st = "recv_request_headers",
                                                         !.rbuf = <<>>])
         ELSE /\ \E st \in {"unchallenged", "crashed"} : h' = [Drop(d) EXCEPT !.st = st]
              /\ UNCHANGED auth

\* The relay's input is not empty; relay_buffer was made anew by the callback.
StatusLine(d) ==
    LET line == Head(d.input)
        e    == [d EXCEPT !.rbuf = <<line>>, !.input = Tail(@)]
    IN  CASE line = "407"  -> Refused(e)
          [] line = "200"  -> h' = CollectHead([e EXCEPT !.st = "reply_came"]) /\ UNCHANGED auth
          [] line = "9"    -> h' = Drop(e) /\ UNCHANGED auth
          [] OTHER         -> h' = e /\ UNCHANGED auth

\* The next n lines of the reply arrive and are read at once.
httpr_relay_read_cb(n) ==
    LET d == [h EXCEPT !.rbuf = <<>>,
                       !.input = @ \o SubSeq(env.reply, env.sofar + 1, env.sofar + n)]
    IN  /\ h.st \in {"request_sent", "reply_came"}
        /\ env.sofar + n <= Len(env.reply)
        /\ IF h.st = "request_sent" THEN StatusLine(d)
           ELSE h' = CollectHead(d) /\ UNCHANGED auth
        /\ env' = [env EXCEPT !.sofar = @ + n, !.split = @ \/ h.st = "reply_came" \/ h.rbuf # <<>>]

\* While relaying, what is left of the reply follows the head.
RelayRest ==
    /\ h.st = "relaying"
    /\ h.input # <<>> \/ env.sofar < Len(env.reply)
    /\ h' = [h EXCEPT !.toClient = @ \o h.input \o SubSeq(env.reply, env.sofar + 1, Len(env.reply)),
                      !.input = <<>>]
    /\ env' = [env EXCEPT !.sofar = Len(env.reply)]
    /\ UNCHANGED auth

RelayError ==
    /\ h.relay = "up"
    /\ h' = Drop(h)
    /\ UNCHANGED <<auth, env>>

\* Another connection of the instance makes its request or stores a challenge, in
\* httpr_relay_write_cb and httpr_relay_read_cb.
OtherConnection ==
    /\ env.others < MaxOthers
    /\ \/ auth' = [auth EXCEPT !.count = @ + 1]
       \/ Login /\ ~ GivesUp /\ auth' = [query |-> TRUE, count |-> 0]
    /\ env' = [env EXCEPT !.others = @ + 1]
    /\ UNCHANGED h

Read == \E n \in 1 .. 4 : httpr_relay_read_cb(n)

Next == \/ ClientSends \/ ClientCloses
        \/ httpr_relay_write_cb \/ Read \/ RelayRest \/ RelayError
        \/ ProxyAnswers \/ ChallengeExpires \/ OtherConnection

Spec == Init /\ [][Next]_vars

\* A connecting relay becomes writable or fails, the proxy answers a request and its
\* answer arrives.
Fairness == /\ WF_vars(httpr_relay_write_cb) /\ WF_vars(Read) /\ WF_vars(RelayRest)
            /\ WF_vars(ProxyAnswers)

FairSpec == Spec /\ Fairness

-----------------------------------------------------------------------------
(* Properties.                                                             *)

\* The request as the proxy should see it: the firstline, perhaps credentials, the
\* headers without those about the connection, the missing ones, the empty line and
\* the content.
Rewritten(credentials, req) ==
    LET end     == FirstOf(req, {"empty"})
        headers == SubSeq(req, 2, end - 1)
    IN  (IF credentials THEN <<"first", "auth">> ELSE <<"first">>)
          \o Without(headers, "hop") \o (IF Contains(headers, "host") THEN <<>> ELSE <<"host">>)
          \o <<"pclose", "close">> \o SubSeq(req, end, Len(req))

\* Every relay connection that has been sent the request has been sent all of it,
\* exactly once, whichever way the client's segments fell before, between and after
\* the two tries.
RequestWhole ==
    h.st \in {"request_sent", "reply_came"} =>
        \E credentials \in BOOLEAN : h.toRelay = Rewritten(credentials, env.request)

\* The client gets the reply from its first line on, unless its head came in several
\* reads: httpr_relay_read_cb then forgets the lines of the earlier ones.
ReplyIntact ==
    h.st = "relaying" =>
        \/ env.split
        \/ h.toClient \o h.input = SubSeq(env.reply, 1, env.sofar)

\* A connection is not refused for ever: it makes at most two tries, also if it finds
\* the challenge of another connection stored or the proxy forgets its challenge, and
\* one more for each time that another connection changes the count or the challenge
\* by which a 407 is found to be final.
TriesBounded == env.tries <= 2 + env.others

\* A client that has sent a whole request and stays is served or given up, with right
\* and with wrong credentials, once the other connections of the instance leave the
\* shared count alone (MaxOthers): each of their requests may cost one more try.  A
\* proxy that precedes its reply with a line that is no status line is excepted: only
\* one line is taken per read.
Served ==
    (h.st # "new") ~>
        \/ h.st \in {"relaying", "dropped", "unchallenged", "crashed"}
        \/ h.aborted
        \/ env.reply # <<>> /\ Head(env.reply) = "junk"
=============================================================================

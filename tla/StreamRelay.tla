---------------------------- MODULE StreamRelay -----------------------------
(***************************************************************************)
(* What a program between two TCP peers promises about one connection.     *)
(*                                                                         *)
(* redsocks (RedsocksClient) and the shadowsocks client (ShadowsocksLocal) *)
(* both stand between a local application and a server and copy payload in *)
(* both directions.  This module says what either owes its peers, without  *)
(* buffers, events or callbacks: payload is forwarded once and in order,   *)
(* the end of one stream is passed on only after all of its payload, and a *)
(* connection nobody has broken is not given up before.  The two modules   *)
(* check that they implement it.                                           *)
(***************************************************************************)
EXTENDS Integers

CONSTANTS
    Side,          \* the two sockets
    Other(_),      \* the opposite socket
    EndsWithOne    \* the connection ends with the first of its streams (TRUE)
                   \* or when both have ended (FALSE)

VARIABLES
    mode,   \* "down", "closed", "open", or "broken" by a peer
    fin,    \* fin[s]: the peer of s sends nothing any more
    sent,   \* sent[s]: payload units sent by the peer of s
    out,    \* out[s]: payload units handed to the kernel on socket s
    eof     \* eof[s]: the end of the stream was passed on to socket s

vars == <<mode, fin, sent, out, eof>>

\* Everything the peer of s has sent was handed on, and there will be no more.
Delivered(s) == fin[s] /\ out[Other(s)] = sent[s]

Init == mode \in {"down", "closed"}

\* The program is started, or dies and takes the connection with it.
Start == mode = "down" /\ mode' = "closed"
Crash == mode' = "down"

\* Between two connections and while one is set up nothing is promised.
SetUp == mode \in {"closed", "broken"} /\ mode' \in {"closed", "broken"}

\* Payload may flow from now on; the peers may have been at work already.
Open == /\ mode = "closed" /\ mode' = "open"
        /\ \A s \in Side : /\ out'[Other(s)] <= sent'[s]
                           /\ eof'[Other(s)] => (Delivered(s))'

Send(s) == /\ mode = "open" /\ ~ fin[s]
           /\ sent' = [sent EXCEPT ![s] = @ + 1]
           /\ UNCHANGED <<mode, fin, out, eof>>

Stop(s) == /\ mode = "open" /\ ~ fin[s]
           /\ fin' = [fin EXCEPT ![s] = TRUE]
           /\ UNCHANGED <<mode, sent, out, eof>>

\* Some of what the peer of s has sent is handed on, and with the last of it perhaps
\* the end of the stream.
Forward(s) ==
    LET t == Other(s)
    IN  /\ mode = "open" /\ ~ eof[t]
        /\ \E n \in out[t] .. sent[s] : out' = [out EXCEPT ![t] = n]
        /\ eof' \in {eof, [eof EXCEPT ![t] = (Delivered(s))']}
        /\ UNCHANGED <<mode, fin, sent>>

\* A peer resets the connection.
Break == mode = "open" /\ mode' = "broken"

\* The stream of s is over, perhaps with what is handed on just now.
Over(s) == Delivered(s) \/ (fin[s] /\ sent'[s] = sent[s] /\ (Delivered(s))')

\* The connection is over when its streams have come to their end.
End == /\ mode = "open" /\ mode' = "closed"
       /\ IF EndsWithOne THEN \E s \in Side : Over(s) ELSE \A s \in Side : Over(s)

Next == \/ Start \/ Crash \/ SetUp \/ Open \/ Break \/ End
        \/ \E s \in Side : Send(s) \/ Stop(s) \/ Forward(s)

Spec == Init /\ [][Next]_vars
=============================================================================

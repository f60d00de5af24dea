--------------------------- MODULE HttpRelayProofs ---------------------------
(***************************************************************************)
(* Proofs about HttpRelay: a connection makes at most two tries and one    *)
(* for every change that other connections make to http_auth, a reply      *)
(* whose head came in one read reaches the client whole, and a relay that  *)
(* has been sent the request has been sent all of it.  They hold for       *)
(* requests and segments of any length.                                    *)
(*                                                                         *)
(* Inv depends on the state, the counters and the lines of a reply, of     *)
(* which the model has six.  RequestInv is about all lines of a request:  *)
(* it names the firstline, the headers and the content that make it up,    *)
(* and says what has been kept and sent of each.  That the headers kept of *)
(* two segments are those kept of the whole is shown by induction, in the  *)
(* form that a set of numbers with 0 and the successor of each of its      *)
(* members has all of them.                                                *)
(***************************************************************************)
EXTENDS HttpRelay, SequenceTheorems, WellFoundedInduction, TLAPS

Plain == <<"200", "header", "empty", "content">>
Junk == <<"junk", "200", "empty">>
Bad == <<"9">>
Asks == <<"407", "header", "challenge", "empty">>
Odd == <<"407", "folded", "challenge", "empty">>
Mute == <<"407", "empty">>

\* The fields of a record, whatever they hold.
IsClient(d) == d \in [st : {d.st}, first : {d.first}, has_host : {d.has_host}, buf : {d.buf},
                      rbuf : {d.rbuf}, relay : {d.relay}, input : {d.input}, toRelay : {d.toRelay},
                      toClient : {d.toClient}, aborted : {d.aborted}]
IsOutside(e) == e \in [request : {e.request}, open : {e.open}, reply : {e.reply}, sofar : {e.sofar},
                       split : {e.split}, tries : {e.tries}, known : {e.known}, expired : {e.expired},
                       right : {e.right}, others : {e.others}]

OutsideOK(e) == /\ IsOutside(e)
                /\ e.split \in BOOLEAN /\ e.tries \in Nat /\ e.sofar \in Nat /\ e.others \in Nat
                /\ e.reply \in {<<>>, Plain, Junk, Bad, Asks, Odd, Mute}

AuthType == [query : BOOLEAN, count : Nat]

TypeOK == IsClient(h) /\ OutsideOK(env) /\ auth \in AuthType

\* The tries that other connections account for, and two.
Bounded(e) == e.tries <= 2 + e.others

\* A try after the first finds the challenge stored and the count begun anew, so that the
\* 407 that answers it is final, unless other connections have changed them since.
Counts == /\ h.st = "new" => env.tries = 0
          /\ h.st = "recv_request_headers" =>
               \/ env.tries <= env.others
               \/ env.tries = env.others + 1 /\ auth.query /\ auth.count = 0
          /\ h.st \in {"request_sent", "reply_came"} =>
               \/ env.tries <= env.others + 1
               \/ env.tries = env.others + 2 /\ auth.query /\ auth.count = 1
          /\ Bounded(env)

\* What of the reply has been taken.  Only a line that is no status line leaves the
\* callback in the state it found.
Taken == /\ h.st \in {"new", "recv_request_headers", "request_sent"} => h.toClient = <<>>
         /\ h.st = "recv_request_headers" => h.input = <<>>
         /\ h.st = "request_sent" =>
              \/ env.sofar = 0 /\ h.input = <<>>
              \/ /\ env.reply = Junk /\ h.rbuf = <<"junk">>
                 /\ \/ env.sofar = 1 /\ h.input = <<>>
                    \/ env.sofar = 2 /\ h.input = <<"200">>
                    \/ env.sofar = 3 /\ h.input = <<"200", "empty">>

\* The reply whose head came in one read.
Whole == (h.st = "relaying" /\ ~ env.split) =>
           /\ env.reply = Plain
           /\ \/ env.sofar = 3 /\ h.toClient = <<"200", "header", "empty">> /\ h.input = <<>>
              \/ env.sofar = 4 /\ h.toClient = <<"200", "header", "empty">> /\ h.input = <<"content">>
              \/ env.sofar = 4 /\ h.toClient = Plain /\ h.input = <<>>

Inv == TypeOK /\ Counts /\ Taken /\ Whole

-----------------------------------------------------------------------------
(* What the operators do to a client.                                      *)

LEMMA DropIs ==
  ASSUME NEW d, IsClient(d)
  PROVE  IsClient(Drop(d)) /\ Drop(d).st = "dropped"
  BY DEF IsClient, Drop

LEMMA TakeLinesIs ==
  ASSUME NEW d, NEW lines, IsClient(d)
  PROVE  /\ IsClient(TakeLines(d, lines)) /\ TakeLines(d, lines).st = d.st
         /\ TakeLines(d, lines).toClient = d.toClient
  BY DEF IsClient, TakeLines

LEMMA EndHeadIs ==
  ASSUME NEW d, IsClient(d)
  PROVE  /\ IsClient(EndHead(d)) /\ EndHead(d).st = "recv_request_headers"
         /\ EndHead(d).toClient = d.toClient
  BY DEF IsClient, EndHead

LEMMA ContentIs ==
  ASSUME NEW d, NEW content, IsClient(d)
  PROVE  \A e \in {httpr_client_read_content(d, content)} :
            /\ IsClient(e) /\ e.st = d.st /\ e.toClient = d.toClient
            /\ e.input = d.input /\ e.rbuf = d.rbuf
  BY DEF IsClient, httpr_client_read_content

LEMMA ConnectIs ==
  ASSUME NEW d, IsClient(d)
  PROVE  \A e \in redsocks_connect_relay(d) :
            /\ IsClient(e)
            /\ \/ e.st = "dropped"
               \/ e.st = d.st /\ e.toClient = d.toClient /\ e.input = <<>>
  <1>1. IsClient(Drop(d)) /\ Drop(d).st = "dropped"
    BY DropIs
  <1> DEFINE c == [d EXCEPT !.relay = "connecting", !.toRelay = <<>>, !.input = <<>>]
  <1>2. IsClient(c) /\ c.st = d.st /\ c.toClient = d.toClient /\ c.input = <<>>
    BY DEF IsClient
  <1> HIDE DEF c
  <1>3. redsocks_connect_relay(d) = {c, Drop(d)}
    BY DEF redsocks_connect_relay, c
  <1> QED BY <1>1, <1>2, <1>3

\* The head of a request, in one read or in several, leads to the first try only.
LEMMA ClientReadIs ==
  ASSUME NEW d, NEW seg, IsClient(d), NEW e \in httpr_client_read_cb(d, seg)
  PROVE  /\ IsClient(e)
         /\ \/ e.st = "dropped"
            \/ /\ e.st = d.st /\ e.toClient = d.toClient
               /\ d.st = "new" \/ (e.input = d.input /\ e.rbuf = d.rbuf)
            \/ /\ d.st = "new" /\ e.st = "recv_request_headers"
               /\ e.toClient = d.toClient /\ e.input = <<>>
  <1>1. CASE d.st # "new"
    BY <1>1, ContentIs DEF httpr_client_read_cb
  <1>2. CASE d.st = "new"
    <2>1. PICK n : e \in LET t == TakeLines(d, SubSeq(seg, 1, n))
                         IN  IF n = Len(seg) THEN {t}
                             ELSE {Drop(t)} \cup
                                  (IF ~ t.first THEN {}
                                   ELSE redsocks_connect_relay(
                                          httpr_client_read_content(EndHead(t), SubSeq(seg, n + 2, Len(seg)))))
      BY <1>2 DEF httpr_client_read_cb
    <2> DEFINE t == TakeLines(d, SubSeq(seg, 1, n))
               u == EndHead(t)
               v == httpr_client_read_content(u, SubSeq(seg, n + 2, Len(seg)))
    <2>2. e = t \/ e = Drop(t) \/ e \in redsocks_connect_relay(v)
      BY <2>1
    <2>3. IsClient(t) /\ t.st = d.st /\ t.toClient = d.toClient
      BY TakeLinesIs
    <2> HIDE DEF t
    <2>4. IsClient(u) /\ u.st = "recv_request_headers" /\ u.toClient = t.toClient
      BY <2>3, EndHeadIs
    <2> HIDE DEF u
    <2>5. IsClient(v) /\ v.st = u.st /\ v.toClient = u.toClient
      BY <2>4, ContentIs
    <2> HIDE DEF v
    <2>6. CASE e = t
      BY <1>2, <2>3, <2>6
    <2>7. CASE e = Drop(t)
      BY <2>3, <2>7, DropIs
    <2>8. CASE e \in redsocks_connect_relay(v)
      BY <1>2, <2>3, <2>4, <2>5, <2>8, ConnectIs
    <2> QED BY <2>2, <2>6, <2>7, <2>8
  <1> QED BY <1>1, <1>2

-----------------------------------------------------------------------------
(* The lines of a reply.                                                   *)

\* The lines a reply is made of.
Line == {"200", "junk", "9", "407", "header", "challenge", "folded", "empty", "content"}

LEMMA Tuple ==
  /\ \A s \in Seq(Line) : Len(s) = 0 => s = <<>>
  /\ \A s \in Seq(Line) : Len(s) = 1 => s = <<s[1]>>
  /\ \A s \in Seq(Line) : Len(s) = 2 => s = <<s[1], s[2]>>
  /\ \A s \in Seq(Line) : Len(s) = 3 => s = <<s[1], s[2], s[3]>>
  /\ \A s \in Seq(Line) : Len(s) = 4 => s = <<s[1], s[2], s[3], s[4]>>
  <1>1. ASSUME NEW s \in Seq(Line), Len(s) = 0 PROVE s = <<>>
    BY <1>1
  <1>2. ASSUME NEW s \in Seq(Line), Len(s) = 1 PROVE s = <<s[1]>>
    BY <1>2
  <1>3. ASSUME NEW s \in Seq(Line), Len(s) = 2 PROVE s = <<s[1], s[2]>>
    BY <1>3
  <1>4. ASSUME NEW s \in Seq(Line), Len(s) = 3 PROVE s = <<s[1], s[2], s[3]>>
    BY <1>4
  <1>5. ASSUME NEW s \in Seq(Line), Len(s) = 4 PROVE s = <<s[1], s[2], s[3], s[4]>>
    BY <1>5
  <1> QED BY <1>1, <1>2, <1>3, <1>4, <1>5

LEMMA Tuples ==
  ASSUME NEW a \in Line, NEW b \in Line, NEW c \in Line, NEW d \in Line
  PROVE  /\ <<>> \in Seq(Line) /\ <<a>> \in Seq(Line) /\ <<a, b>> \in Seq(Line)
         /\ <<a, b, c>> \in Seq(Line) /\ <<a, b, c, d>> \in Seq(Line)
  OBVIOUS

LEMMA ReplyTypes ==
  /\ Plain \in Seq(Line) /\ Junk \in Seq(Line) /\ Bad \in Seq(Line) /\ Asks \in Seq(Line)
     /\ Odd \in Seq(Line) /\ Mute \in Seq(Line)
  /\ Len(Plain) = 4 /\ Len(Junk) = 3 /\ Len(Bad) = 1 /\ Len(Asks) = 4 /\ Len(Odd) = 4 /\ Len(Mute) = 2
  <1>1. \A a, b, c, d \in Line : /\ <<a>> \in Seq(Line) /\ <<a, b>> \in Seq(Line)
                                 /\ <<a, b, c>> \in Seq(Line) /\ <<a, b, c, d>> \in Seq(Line)
    BY Tuples
  <1>2. \A l \in {"200", "junk", "9", "407", "header", "challenge", "folded", "empty", "content"} : l \in Line
    BY DEF Line
  <1>3. Plain \in Seq(Line) /\ Junk \in Seq(Line) /\ Bad \in Seq(Line) /\ Asks \in Seq(Line)
     /\ Odd \in Seq(Line) /\ Mute \in Seq(Line)
    BY <1>1, <1>2, Zenon DEF Plain, Junk, Bad, Asks, Odd, Mute
  <1>4. Len(Plain) = 4 /\ Len(Junk) = 3 /\ Len(Bad) = 1 /\ Len(Asks) = 4 /\ Len(Odd) = 4 /\ Len(Mute) = 2
    BY DEF Plain, Junk, Bad, Asks, Odd, Mute
  <1> QED BY <1>3, <1>4

\* The lines of each reply.
LEMMA ReplyLines ==
  /\ Plain[1] = "200" /\ Plain[2] = "header" /\ Plain[3] = "empty" /\ Plain[4] = "content"
  /\ Junk[1] = "junk" /\ Junk[2] = "200" /\ Junk[3] = "empty"
  /\ Bad[1] = "9" /\ Asks[1] = "407" /\ Odd[1] = "407" /\ Mute[1] = "407"
  BY DEF Plain, Junk, Asks, Bad, Odd, Mute

\* The first read of a reply takes its first line off and leaves the others.
LEMMA FirstRead ==
  ASSUME NEW r \in Seq(Line), NEW n \in 1 .. Len(r)
  PROVE  \A I \in {<<>> \o SubSeq(r, 0 + 1, 0 + n)} :
            /\ I # <<>> /\ Head(I) = r[1] /\ Tail(I) \in Seq(Line) /\ Len(Tail(I)) = n - 1
            /\ \A i \in 1 .. n - 1 : Tail(I)[i] = r[i + 1]
  <1> DEFINE I == SubSeq(r, 1, n)
  <1>1. I \in Seq(Line) /\ Len(I) = n /\ \A i \in 1 .. n : I[i] = r[i]
    BY SubSeqProperties
  <1>2. <<>> \o SubSeq(r, 0 + 1, 0 + n) = I
    <2>1. 0 + 1 = 1 /\ 0 + n = n
      OBVIOUS
    <2> QED BY <1>1, <2>1, ConcatEmptySeq
  <1> HIDE DEF I
  <1>3. /\ I # <<>> /\ Head(I) = r[1] /\ Tail(I) \in Seq(Line) /\ Len(Tail(I)) = n - 1
        /\ \A i \in 1 .. n - 1 : Tail(I)[i] = r[i + 1]
    BY <1>1, HeadTailProperties
  <1> QED BY <1>2, <1>3

\* What is left of each reply after the first read.
LEMMA Rests ==
  ASSUME NEW I, NEW n \in Nat
  PROVE  /\ (n \in 1 .. Len(Plain) /\ I = <<>> \o SubSeq(Plain, 0 + 1, 0 + n)) =>
              /\ I # <<>> /\ Head(I) = "200"
              /\ \/ n = 1 /\ Tail(I) = <<>>
                 \/ n = 2 /\ Tail(I) = <<"header">>
                 \/ n = 3 /\ Tail(I) = <<"header", "empty">>
                 \/ n = 4 /\ Tail(I) = <<"header", "empty", "content">>
         /\ (n \in 1 .. Len(Junk) /\ I = <<>> \o SubSeq(Junk, 0 + 1, 0 + n)) =>
              /\ I # <<>> /\ Head(I) = "junk"
              /\ \/ n = 1 /\ Tail(I) = <<>>
                 \/ n = 2 /\ Tail(I) = <<"200">>
                 \/ n = 3 /\ Tail(I) = <<"200", "empty">>
         /\ (n \in 1 .. Len(Bad) /\ I = <<>> \o SubSeq(Bad, 0 + 1, 0 + n)) => I # <<>> /\ Head(I) = "9"
         /\ \A r \in {Asks, Odd, Mute} :
              (n \in 1 .. Len(r) /\ I = <<>> \o SubSeq(r, 0 + 1, 0 + n)) => I # <<>> /\ Head(I) = "407"
  <1>1. ASSUME n \in 1 .. Len(Plain), I = <<>> \o SubSeq(Plain, 0 + 1, 0 + n)
        PROVE  /\ I # <<>> /\ Head(I) = "200"
               /\ \/ n = 1 /\ Tail(I) = <<>>
                  \/ n = 2 /\ Tail(I) = <<"header">>
                  \/ n = 3 /\ Tail(I) = <<"header", "empty">>
                  \/ n = 4 /\ Tail(I) = <<"header", "empty", "content">>
    <2> DEFINE T == Tail(I)
    <2>1. /\ I # <<>> /\ Head(I) = Plain[1] /\ T \in Seq(Line) /\ Len(T) = n - 1
          /\ \A i \in 1 .. n - 1 : T[i] = Plain[i + 1]
      BY <1>1, ReplyTypes, FirstRead
    <2>2. n = 1 \/ n = 2 \/ n = 3 \/ n = 4
      BY <1>1, ReplyTypes
    <2> HIDE DEF T
    <2>3. ASSUME n = 1 PROVE T = <<>>
      <3>1. Len(T) = 0
        BY <2>1, <2>3
      <3> QED BY <2>1, <2>3, <3>1, Tuple, ReplyLines
    <2>4. ASSUME n = 2 PROVE T = <<"header">>
      <3>1. Len(T) = 1 /\ T[1] = Plain[2]
        BY <2>1, <2>4
      <3> QED BY <2>1, <2>4, <3>1, Tuple, ReplyLines
    <2>5. ASSUME n = 3 PROVE T = <<"header", "empty">>
      <3>1. Len(T) = 2 /\ T[1] = Plain[2] /\ T[2] = Plain[3]
        BY <2>1, <2>5
      <3> QED BY <2>1, <2>5, <3>1, Tuple, ReplyLines
    <2>6. ASSUME n = 4 PROVE T = <<"header", "empty", "content">>
      <3>1. Len(T) = 3 /\ T[1] = Plain[2] /\ T[2] = Plain[3] /\ T[3] = Plain[4]
        BY <2>1, <2>6
      <3> QED BY <2>1, <2>6, <3>1, Tuple, ReplyLines
    <2> QED BY <2>1, <2>2, <2>3, <2>4, <2>5, <2>6, ReplyLines DEF T
  <1>2. ASSUME n \in 1 .. Len(Junk), I = <<>> \o SubSeq(Junk, 0 + 1, 0 + n)
        PROVE  /\ I # <<>> /\ Head(I) = "junk"
               /\ \/ n = 1 /\ Tail(I) = <<>>
                  \/ n = 2 /\ Tail(I) = <<"200">>
                  \/ n = 3 /\ Tail(I) = <<"200", "empty">>
    <2> DEFINE T == Tail(I)
    <2>1. /\ I # <<>> /\ Head(I) = Junk[1] /\ T \in Seq(Line) /\ Len(T) = n - 1
          /\ \A i \in 1 .. n - 1 : T[i] = Junk[i + 1]
      BY <1>2, ReplyTypes, FirstRead
    <2>2. n = 1 \/ n = 2 \/ n = 3
      BY <1>2, ReplyTypes
    <2> HIDE DEF T
    <2>3. ASSUME n = 1 PROVE T = <<>>
      <3>1. Len(T) = 0
        BY <2>1, <2>3
      <3> QED BY <2>1, <2>3, <3>1, Tuple, ReplyLines
    <2>4. ASSUME n = 2 PROVE T = <<"200">>
      <3>1. Len(T) = 1 /\ T[1] = Junk[2]
        BY <2>1, <2>4
      <3> QED BY <2>1, <2>4, <3>1, Tuple, ReplyLines
    <2>5. ASSUME n = 3 PROVE T = <<"200", "empty">>
      <3>1. Len(T) = 2 /\ T[1] = Junk[2] /\ T[2] = Junk[3]
        BY <2>1, <2>5
      <3> QED BY <2>1, <2>5, <3>1, Tuple, ReplyLines
    <2> QED BY <2>1, <2>2, <2>3, <2>4, <2>5, ReplyLines DEF T
  <1>3. ASSUME n \in 1 .. Len(Bad), I = <<>> \o SubSeq(Bad, 0 + 1, 0 + n)
        PROVE  I # <<>> /\ Head(I) = "9"
    <2>1. I # <<>> /\ Head(I) = Bad[1]
      BY <1>3, ReplyTypes, FirstRead
    <2> QED BY <2>1, ReplyLines
  <1>4. ASSUME NEW r \in {Asks, Odd, Mute}, n \in 1 .. Len(r), I = <<>> \o SubSeq(r, 0 + 1, 0 + n)
        PROVE  I # <<>> /\ Head(I) = "407"
    <2>1. r \in Seq(Line) /\ r[1] = "407"
      BY ReplyTypes, ReplyLines
    <2>2. I # <<>> /\ Head(I) = r[1]
      BY <1>4, <2>1, FirstRead
    <2> QED BY <2>1, <2>2
  <1> QED BY <1>1, <1>2, <1>3, <1>4

LEMMA Cut ==
  ASSUME NEW s \in Seq(Line), NEW m \in 1 .. Len(s), NEW k \in m .. Len(s)
  PROVE  SubSeq(s, m, k) \in Seq(Line) /\ Len(SubSeq(s, m, k)) = k - m + 1 /\ SubSeq(s, m, k)[1] = s[m]
  <1>1. m \in Int /\ k \in Int /\ m <= k /\ \A i \in m .. k : s[i] \in Line
    OBVIOUS
  <1>2. /\ SubSeq(s, m, k) \in Seq(Line) /\ Len(SubSeq(s, m, k)) = k - m + 1
        /\ \A i \in 1 .. k - m + 1 : SubSeq(s, m, k)[i] = s[m + i - 1]
    BY <1>1, SubSeqProperties
  <1>3. 1 \in 1 .. k - m + 1 /\ m + 1 - 1 = m
    BY <1>1
  <1> QED BY <1>2, <1>3

LEMMA Prefixed ==
  ASSUME NEW t \in Seq(Line), NEW s \in Seq(Line), Len(t) = 1
  PROVE  /\ t \o s \in Seq(Line) /\ Len(t \o s) = Len(s) + 1 /\ (t \o s)[1] = t[1]
         /\ \A i \in 1 .. Len(s) : (t \o s)[i + 1] = s[i]
  <1>1. Len(s) \in Nat
    OBVIOUS
  <1>2. /\ t \o s \in Seq(Line) /\ Len(t \o s) = 1 + Len(s)
        /\ \A i \in 1 .. 1 + Len(s) : (t \o s)[i] = IF i <= 1 THEN t[i] ELSE s[i - 1]
    <2>1. /\ t \o s \in Seq(Line) /\ Len(t \o s) = Len(t) + Len(s)
          /\ \A i \in 1 .. Len(t) + Len(s) : (t \o s)[i] = IF i <= Len(t) THEN t[i] ELSE s[i - Len(t)]
      BY ConcatProperties, Zenon
    <2> QED BY <2>1
  <1> HIDE DEF Line
  <1>3. (t \o s)[1] = t[1]
    BY <1>1, <1>2
  <1>4. ASSUME NEW i \in 1 .. Len(s)
        PROVE  (t \o s)[i + 1] = s[i]
    <2>1. i + 1 \in 1 .. 1 + Len(s) /\ ~ (i + 1 <= 1) /\ (i + 1) - 1 = i
      BY <1>1
    <2> QED BY <1>2, <2>1
  <1> QED BY <1>1, <1>2, <1>3, <1>4

\* A reply that begins with a line of junk goes on with its status line.
LEMMA SecondRead ==
  ASSUME NEW n \in 1 .. 4
  PROVE  /\ 1 + n <= 3 => Head(<<>> \o SubSeq(Junk, 1 + 1, 1 + n)) = "200"
         /\ 2 + n <= 3 => Head(<<"200">> \o SubSeq(Junk, 2 + 1, 2 + n)) = "200"
  <1>1. ASSUME 1 + n <= 3
        PROVE  Head(<<>> \o SubSeq(Junk, 1 + 1, 1 + n)) = "200"
    <2> DEFINE k == 1 + n
               s == SubSeq(Junk, 1 + 1, k)
    <2>1. 1 + 1 = 2 /\ k \in 2 .. 3
      BY <1>1
    <2> HIDE DEF k
    <2>2. s \in Seq(Line) /\ Len(s) = k - 1 /\ s[1] = Junk[2]
      <3>1. SubSeq(Junk, 2, k) \in Seq(Line) /\ Len(SubSeq(Junk, 2, k)) = k - 2 + 1
            /\ SubSeq(Junk, 2, k)[1] = Junk[2]
        <4>1. Junk \in Seq(Line) /\ 2 \in 1 .. Len(Junk) /\ k \in 2 .. Len(Junk)
          BY <2>1, ReplyTypes
        <4> QED BY <4>1, Cut, Zenon
      <3> QED BY <2>1, <3>1
    <2> HIDE DEF s
    <2>3. <<>> \o s = s
      BY <2>2, ConcatEmptySeq
    <2>4. Head(s) = "200"
      BY <2>1, <2>2, ReplyLines, HeadTailProperties
    <2> QED BY <2>3, <2>4 DEF s, k
  <1>2. ASSUME 2 + n <= 3
        PROVE  Head(<<"200">> \o SubSeq(Junk, 2 + 1, 2 + n)) = "200"
    <2> DEFINE s == SubSeq(Junk, 2 + 1, 2 + n)
               t == <<"200">>
    <2>1. 2 + 1 = 3 /\ 2 + n = 3
      BY <1>2
    <2>2. s \in Seq(Line)
      <3>1. Junk \in Seq(Line) /\ 3 \in 1 .. Len(Junk) /\ 3 \in 3 .. Len(Junk)
        BY ReplyTypes
      <3>2. SubSeq(Junk, 3, 3) \in Seq(Line)
        BY <3>1, Cut, Zenon
      <3> QED BY <2>1, <3>2
    <2>3. t \in Seq(Line) /\ Len(t) = 1 /\ t[1] = "200"
      BY Tuples DEF Line
    <2> HIDE DEF s, t
    <2>4. t \o s \in Seq(Line) /\ Len(t \o s) >= 1 /\ (t \o s)[1] = "200"
      BY <2>2, <2>3, Prefixed
    <2>5. Head(t \o s) = "200"
      BY <2>4, HeadTailProperties
    <2> QED BY <2>5 DEF s, t
  <1> QED BY <1>1, <1>2

-----------------------------------------------------------------------------
(* The head of the reply.                                                  *)

LEMMA CollectIs ==
  ASSUME NEW d, IsClient(d)
  PROVE  IsClient(CollectHead(d)) /\ CollectHead(d).st \in {d.st, "relaying"}
  <1> DEFINE i == FirstOf(d.input, {"empty"})
             n == IF i = 0 THEN Len(d.input) ELSE i
             b == d.rbuf \o SubSeq(d.input, 1, n)
             r == SubSeq(d.input, n + 1, Len(d.input))
             e == [d EXCEPT !.rbuf = b, !.input = r]
             c == [e EXCEPT !.st = "relaying", !.toClient = e.toClient \o e.rbuf]
  <1>1. CollectHead(d) = IF i = 0 THEN e ELSE c
    BY DEF CollectHead, IsClient
  <1> HIDE DEF i, b, r
  <1>2. IsClient(e) /\ e.st = d.st
    BY DEF IsClient
  <1> HIDE DEF e
  <1>3. IsClient(c) /\ c.st = "relaying"
    BY <1>2 DEF IsClient
  <1> HIDE DEF c
  <1> QED BY <1>1, <1>2, <1>3

\* The empty line ends the head.
LEMMA NoEnd ==
  /\ FirstOf(<<>>, {"empty"}) = 0
  /\ FirstOf(<<"header">>, {"empty"}) = 0
  <1>1. \A i \in 1 .. Len(<<>>) : FALSE
    OBVIOUS
  <1>2. {i \in 1 .. Len(<<"header">>) : <<"header">>[i] \in {"empty"}} = {}
    OBVIOUS
  <1>3. {i \in 1 .. Len(<<>>) : <<>>[i] \in {"empty"}} = {}
    BY <1>1
  <1> QED BY <1>2, <1>3 DEF FirstOf

LEMMA EndAt ==
  ASSUME NEW s \in Seq(Line), Len(s) >= 2, s[1] = "header", s[2] = "empty"
  PROVE  FirstOf(s, {"empty"}) = 2
  <1> DEFINE at == {i \in 1 .. Len(s) : s[i] \in {"empty"}}
  <1>1. 2 \in at /\ \A j \in at : 2 <= j
    OBVIOUS
  <1>2. \A i \in at : (\A j \in at : i <= j) => i = 2
    <2> SUFFICES ASSUME NEW i \in at, \A j \in at : i <= j PROVE i = 2
      OBVIOUS
    <2>1. i <= 2 /\ 2 <= i /\ i \in Int
      BY <1>1
    <2> QED BY <2>1
  <1> QED BY <1>1, <1>2 DEF FirstOf

\* The head goes to the client once its empty line has been read.
LEMMA CollectPlain ==
  ASSUME NEW d, IsClient(d), d.st = "reply_came", d.rbuf = <<"200">>, d.toClient = <<>>
  PROVE  \A c \in {CollectHead(d)} :
           /\ (d.input = <<>> \/ d.input = <<"header">>) => c.st = "reply_came"
           /\ d.input = <<"header", "empty">> =>
                c.toClient = <<"200", "header", "empty">> /\ c.input = <<>>
           /\ d.input = <<"header", "empty", "content">> =>
                c.toClient = <<"200", "header", "empty">> /\ c.input = <<"content">>
  <1>1. ASSUME d.input = <<>> \/ d.input = <<"header">>
        PROVE  CollectHead(d).st = "reply_came"
    <2>1. FirstOf(d.input, {"empty"}) = 0
      BY <1>1, NoEnd
    <2> QED BY <2>1 DEF CollectHead, IsClient
  <1>2. ASSUME NEW s \in Seq(Line), d.input = s, Len(s) >= 2, s[1] = "header", s[2] = "empty"
        PROVE  /\ CollectHead(d).toClient = <<"200", "header", "empty">>
               /\ CollectHead(d).input = SubSeq(s, 3, Len(s))
    <2> DEFINE p == SubSeq(s, 1, 2)
               b == <<"200">> \o p
               r == SubSeq(s, 3, Len(s))
               e == [d EXCEPT !.rbuf = b, !.input = r]
               c == [e EXCEPT !.st = "relaying", !.toClient = b]
    <2>1. p \in Seq(Line) /\ Len(p) = 2 /\ p[1] = "header" /\ p[2] = "empty"
      BY <1>2, SubSeqProperties
    <2> HIDE DEF p
    <2>2. b \in Seq(Line) /\ Len(b) = 3 /\ b[1] = "200" /\ b[2] = "header" /\ b[3] = "empty"
      <3> DEFINE t == <<"200">>
      <3>1. t \in Seq(Line) /\ Len(t) = 1 /\ t[1] = "200"
        BY Tuples DEF Line
      <3> HIDE DEF t
      <3>2. t \o p \in Seq(Line) /\ Len(t \o p) = 3 /\ (t \o p)[1] = t[1]
            /\ (t \o p)[2] = p[1] /\ (t \o p)[3] = p[2]
        <4>1. /\ t \o p \in Seq(Line) /\ Len(t \o p) = Len(p) + 1 /\ (t \o p)[1] = t[1]
              /\ \A i \in 1 .. Len(p) : (t \o p)[i + 1] = p[i]
          BY <2>1, <3>1, Prefixed
        <4>2. 1 \in 1 .. Len(p) /\ 2 \in 1 .. Len(p) /\ 1 + 1 = 2 /\ 2 + 1 = 3
          BY <2>1
        <4> QED BY <2>1, <4>1, <4>2
      <3> QED BY <2>1, <3>1, <3>2 DEF t
    <2>3. <<>> \o b = b
      BY <2>2, ConcatEmptySeq
    <2>4. FirstOf(d.input, {"empty"}) = 2
      BY <1>2, EndAt
    <2>5. 2 + 1 = 3 /\ 2 # 0
      OBVIOUS
    <2>6. CollectHead(d) = c
      <3>1. d.rbuf \o SubSeq(d.input, 1, 2) = b /\ SubSeq(d.input, 2 + 1, Len(d.input)) = r
        BY <1>2, <2>5 DEF p
      <3> HIDE DEF b, r
      <3>2. CollectHead(d) = [e EXCEPT !.st = "relaying", !.toClient = @ \o e.rbuf]
        BY <2>4, <2>5, <3>1 DEF CollectHead
      <3>3. e.rbuf = b /\ e.toClient = <<>>
        BY DEF IsClient
      <3> HIDE DEF e
      <3> QED BY <2>3, <3>2, <3>3
    <2>7. b = <<"200", "header", "empty">>
      BY <2>2, Tuple
    <2> HIDE DEF b, r
    <2>8. c.toClient = b /\ c.input = r
      BY DEF IsClient
    <2> QED BY <2>6, <2>7, <2>8 DEF r
  <1>3. ASSUME d.input = <<"header", "empty">>
        PROVE  /\ CollectHead(d).toClient = <<"200", "header", "empty">>
               /\ CollectHead(d).input = <<>>
    <2> DEFINE s == <<"header", "empty">>
    <2>1. s \in Seq(Line) /\ Len(s) = 2 /\ s[1] = "header" /\ s[2] = "empty" /\ d.input = s
      BY <1>3, Tuples DEF Line
    <2> HIDE DEF s
    <2>2. SubSeq(s, 3, 2) = <<>>
      BY <2>1, SubSeqEmpty
    <2> QED BY <1>2, <2>1, <2>2
  <1>4. ASSUME d.input = <<"header", "empty", "content">>
        PROVE  /\ CollectHead(d).toClient = <<"200", "header", "empty">>
               /\ CollectHead(d).input = <<"content">>
    <2> DEFINE s == <<"header", "empty", "content">>
    <2>1. s \in Seq(Line) /\ Len(s) = 3 /\ s[1] = "header" /\ s[2] = "empty" /\ s[3] = "content" /\ d.input = s
      BY <1>4, Tuples DEF Line
    <2> HIDE DEF s
    <2>2. SubSeq(s, 3, 3) \in Seq(Line) /\ Len(SubSeq(s, 3, 3)) = 1 /\ SubSeq(s, 3, 3)[1] = "content"
      <3>1. s \in Seq(Line) /\ 3 \in 1 .. Len(s) /\ 3 \in 3 .. Len(s)
        BY <2>1
      <3>2. SubSeq(s, 3, 3) \in Seq(Line) /\ Len(SubSeq(s, 3, 3)) = 3 - 3 + 1 /\ SubSeq(s, 3, 3)[1] = s[3]
        BY <3>1, Cut, Zenon
      <3> QED BY <2>1, <3>2
    <2>3. SubSeq(s, 3, Len(s)) = <<"content">>
      <3> DEFINE p == SubSeq(s, 3, 3)
      <3>1. p \in Seq(Line) /\ Len(p) = 1 /\ p[1] = "content" /\ SubSeq(s, 3, Len(s)) = p
        BY <2>1, <2>2
      <3> HIDE DEF p
      <3> QED BY <3>1, Tuple
    <2>4. Len(s) >= 2
      BY <2>1
    <2> QED BY <1>2, <2>1, <2>3, <2>4
  <1> QED BY <1>1, <1>3, <1>4

-----------------------------------------------------------------------------
(* The steps.                                                              *)

LEMMA Dropped ==
  ASSUME Inv, IsClient(h'), h'.st \in {"dropped", "unchallenged", "crashed"}, OutsideOK(env'),
         Bounded(env'), auth' \in AuthType
  PROVE  Inv'
  <1>1. TypeOK'
    BY DEF TypeOK
  <1>2. Counts' /\ Taken' /\ Whole'
    BY DEF Counts, Taken, Whole
  <1> QED BY <1>1, <1>2 DEF Inv

LEMMA InitInv == Init => Inv
  <1> SUFFICES ASSUME Init PROVE Inv
    OBVIOUS
  <1>1. IsClient(h) /\ h.st = "new" /\ h.toClient = <<>>
    BY DEF Init, Start, IsClient
  <1>2. OutsideOK(env) /\ env.tries = 0 /\ Bounded(env)
    BY DEF Init, Outside, OutsideOK, IsOutside, Bounded
  <1>3. auth \in AuthType
    <2>1. auth \in [query : {FALSE}, count : {0}] \/ auth \in [query : {TRUE}, count : {0, 1, 2}]
      BY Zenon DEF Init
    <2>2. ASSUME NEW A \in SUBSET BOOLEAN, NEW B \in SUBSET Nat, NEW a \in [query : A, count : B]
          PROVE  a \in AuthType
      <3> DEFINE C == BOOLEAN
      <3>1. A \subseteq C
        OBVIOUS
      <3> HIDE DEF C
      <3>2. a \in [query : C, count : Nat]
        BY <3>1
      <3> QED BY <3>2 DEF AuthType, C
    <2>3. {FALSE} \subseteq BOOLEAN /\ {TRUE} \subseteq BOOLEAN
      OBVIOUS
    <2>4. {0} \subseteq Nat /\ {0, 1, 2} \subseteq Nat
      OBVIOUS
    <2> QED BY <2>1, <2>2, <2>3, <2>4, Zenon
  <1>4. TypeOK
    BY <1>1, <1>2, <1>3 DEF TypeOK
  <1>5. Counts /\ Taken /\ Whole
    BY <1>1, <1>2 DEF Counts, Taken, Whole
  <1> QED BY <1>4, <1>5 DEF Inv

\* Steps of the outside that touch neither the reply nor the count of tries.
LEMMA OutsideKept ==
  ASSUME Inv, OutsideOK(env'), env'.tries = env.tries, env'.reply = env.reply, env'.sofar = env.sofar,
         env'.split = env.split, env'.others = env.others, auth' = auth, IsClient(h'),
         \/ h'.st = h.st /\ h'.toClient = h.toClient /\ h'.input = h.input /\ h'.rbuf = h.rbuf
         \/ h.st = "new" /\ h'.st = "new" /\ h'.toClient = h.toClient
         \/ h.st = "new" /\ h'.st = "recv_request_headers" /\ h'.toClient = h.toClient /\ h'.input = <<>>
  PROVE  Inv'
  <1>1. TypeOK'
    BY DEF Inv, TypeOK
  <1>2. Counts'
    <2>1. env.tries \in Nat /\ env.others \in Nat
      BY DEF Inv, TypeOK, OutsideOK
    <2> QED BY <2>1 DEF Inv, Counts, Bounded
  <1>3. Taken'
    BY DEF Inv, Taken
  <1>4. Whole'
    BY DEF Inv, Whole
  <1> QED BY <1>1, <1>2, <1>3, <1>4 DEF Inv

LEMMA ClientStep ==
  ASSUME Inv, ClientSends \/ ClientCloses \/ ChallengeExpires
  PROVE  Inv'
  <1>0. IsClient(h) /\ OutsideOK(env) /\ auth \in AuthType /\ Bounded(env)
    BY DEF Inv, TypeOK, Counts
  <1>1. ASSUME NEW seg, h' \in httpr_client_read_cb(h, seg), env' = [env EXCEPT !.request = @ \o seg],
               auth' = auth
        PROVE  Inv'
    <2> DEFINE q == env.request \o seg
    <2>1. env' = [env EXCEPT !.request = q]
      BY <1>1
    <2> HIDE DEF q
    <2>2. OutsideOK(env') /\ env'.tries = env.tries /\ env'.reply = env.reply /\ env'.sofar = env.sofar
          /\ env'.split = env.split /\ env'.others = env.others
      BY <1>0, <2>1 DEF OutsideOK, IsOutside
    <2>3. /\ IsClient(h')
          /\ \/ h'.st = "dropped"
             \/ /\ h'.st = h.st /\ h'.toClient = h.toClient
                /\ h.st = "new" \/ (h'.input = h.input /\ h'.rbuf = h.rbuf)
             \/ /\ h.st = "new" /\ h'.st = "recv_request_headers"
                /\ h'.toClient = h.toClient /\ h'.input = <<>>
      BY <1>0, <1>1, ClientReadIs
    <2>4. CASE h'.st = "dropped"
      <3>1. Bounded(env')
        BY <1>0, <2>2 DEF Bounded
      <3> QED BY <1>0, <1>1, <2>2, <2>3, <2>4, <3>1, Dropped
    <2>5. CASE h'.st # "dropped"
      BY <1>1, <2>2, <2>3, <2>5, OutsideKept
    <2> QED BY <2>4, <2>5
  <1>2. CASE ClientCloses
    <2> DEFINE a == h.relay # "up"
    <2>1. h' = [h EXCEPT !.aborted = a] /\ env' = [env EXCEPT !.open = FALSE] /\ auth' = auth
      BY <1>2 DEF ClientCloses
    <2> HIDE DEF a
    <2>2. OutsideOK(env') /\ env'.tries = env.tries /\ env'.reply = env.reply /\ env'.sofar = env.sofar
          /\ env'.split = env.split /\ env'.others = env.others
      BY <1>0, <2>1 DEF OutsideOK, IsOutside
    <2>3. IsClient(h') /\ h'.st = h.st /\ h'.toClient = h.toClient /\ h'.input = h.input /\ h'.rbuf = h.rbuf
      BY <1>0, <2>1 DEF IsClient
    <2> QED BY <2>1, <2>2, <2>3, OutsideKept
  <1>3. CASE ChallengeExpires
    <2> DEFINE x == env.expired + 1
    <2>1. h' = h /\ env' = [env EXCEPT !.known = FALSE, !.expired = x] /\ auth' = auth
      BY <1>3 DEF ChallengeExpires
    <2> HIDE DEF x
    <2>2. OutsideOK(env') /\ env'.tries = env.tries /\ env'.reply = env.reply /\ env'.sofar = env.sofar
          /\ env'.split = env.split /\ env'.others = env.others
      BY <1>0, <2>1 DEF OutsideOK, IsOutside
    <2> QED BY <1>0, <2>1, <2>2, OutsideKept
  <1>4. CASE ClientSends
    BY <1>1, <1>4 DEF ClientSends
  <1> QED BY <1>2, <1>3, <1>4

LEMMA AnswerStep ==
  ASSUME Inv, ProxyAnswers
  PROVE  Inv'
  <1>1. PICK r \in Replies : env' = [env EXCEPT !.reply = r, !.known = Valid \/ r[2] # "empty"]
    BY DEF ProxyAnswers
  <1> DEFINE k == Valid \/ r[2] # "empty"
  <1>2. h.st = "request_sent" /\ env.reply = <<>> /\ h' = h /\ auth' = auth
    BY DEF ProxyAnswers
  <1>3. r \in {Plain, Junk, Bad, Asks, Odd, Mute}
    BY DEF Replies, Plain, Junk, Bad, Asks, Odd, Mute
  <1>4. IsClient(h) /\ OutsideOK(env) /\ auth \in AuthType /\ Bounded(env)
    BY DEF Inv, TypeOK, Counts
  <1>5. env' = [env EXCEPT !.reply = r, !.known = k]
    BY <1>1
  <1> HIDE DEF k
  <1>6. OutsideOK(env') /\ env'.tries = env.tries /\ env'.sofar = env.sofar /\ env'.others = env.others
    BY <1>3, <1>4, <1>5 DEF OutsideOK, IsOutside
  <1>7. env.sofar = 0 /\ h.input = <<>> /\ h.toClient = <<>>
    BY <1>2 DEF Inv, Taken, Junk
  <1>8. TypeOK'
    BY <1>2, <1>4, <1>6 DEF TypeOK
  <1>9. Counts'
    BY <1>2, <1>6 DEF Inv, Counts, Bounded
  <1>10. Taken' /\ Whole'
    BY <1>2, <1>6, <1>7 DEF Taken, Whole
  <1> QED BY <1>8, <1>9, <1>10 DEF Inv

LEMMA WriteStep ==
  ASSUME Inv, httpr_relay_write_cb
  PROVE  Inv'
  <1> DEFINE n == env.tries + 1
  <1>0. IsClient(h) /\ OutsideOK(env) /\ auth \in AuthType /\ h.st = "recv_request_headers"
        /\ auth.count \in Nat /\ env.tries \in Nat /\ env.others \in Nat
    BY DEF Inv, TypeOK, AuthType, OutsideOK, httpr_relay_write_cb
  <1>1. env.tries <= env.others \/ (env.tries = env.others + 1 /\ auth.query /\ auth.count = 0)
    BY <1>0 DEF Inv, Counts
  <1>2. env' = [env EXCEPT !.tries = n, !.reply = <<>>, !.sofar = 0, !.split = FALSE]
    BY DEF httpr_relay_write_cb
  <1>3. n \in Nat /\ n <= 2 + env.others
    BY <1>0, <1>1
  <1>4. n <= env.others + 1 \/ (n = env.others + 2 /\ auth.query /\ auth.count = 0)
    BY <1>0, <1>1
  <1> HIDE DEF n
  <1>5. /\ OutsideOK(env') /\ env'.tries = n /\ env'.sofar = 0 /\ env'.reply = <<>>
        /\ env'.others = env.others /\ Bounded(env')
    BY <1>0, <1>2, <1>3 DEF OutsideOK, IsOutside, Bounded
  <1>6. CASE h' = Drop(h) /\ UNCHANGED auth
    BY <1>0, <1>3, <1>5, <1>6, DropIs, Dropped
  <1>7. CASE auth' = [auth EXCEPT !.count = @ + 1]
    <2> DEFINE c == auth.count + 1
    <2>1. auth' = [auth EXCEPT !.count = c] /\ c \in Nat /\ (auth.count = 0 => c = 1)
      BY <1>0, <1>7
    <2> HIDE DEF c
    <2>2. auth' \in AuthType /\ auth'.query = auth.query /\ auth'.count = c
      BY <1>0, <2>1 DEF AuthType
    <2>3. CASE h' = Drop(h)
      BY <1>0, <1>3, <1>5, <2>2, <2>3, DropIs, Dropped
    <2>4. ASSUME NEW q, h' = [h EXCEPT !.relay = "up", !.st = "request_sent", !.toRelay = q]
          PROVE  Inv'
      <3>1. IsClient(h') /\ h'.st = "request_sent" /\ h'.toClient = h.toClient /\ h'.input = h.input
        BY <1>0, <2>4 DEF IsClient
      <3>2. h.toClient = <<>> /\ h.input = <<>>
        BY <1>0 DEF Inv, Taken
      <3>3. TypeOK'
        BY <1>5, <2>2, <3>1 DEF TypeOK
      <3>4. Counts'
        BY <1>3, <1>4, <1>5, <2>1, <2>2, <3>1 DEF Counts
      <3>5. Taken' /\ Whole'
        BY <1>5, <3>1, <3>2 DEF Taken, Whole
      <3> QED BY <3>3, <3>4, <3>5 DEF Inv
    <2>5. \/ h' = Drop(h)
          \/ \E credentials \in {auth.query, FALSE} :
               h' = [h EXCEPT !.relay = "up", !.st = "request_sent", !.toRelay = Request(credentials)]
          \/ UNCHANGED auth /\ h' = Drop(h)
      BY DEF httpr_relay_write_cb
    <2> QED BY <2>3, <2>4, <2>5
  <1> QED BY <1>6, <1>7 DEF httpr_relay_write_cb

\* A refusal: final, or followed by a second try, or the end of the process.
LEMMA RefusedStep ==
  ASSUME Inv, h.st = "request_sent", NEW e, IsClient(e), e.toClient = <<>>, Refused(e),
         OutsideOK(env'), env'.tries = env.tries, env'.others = env.others
  PROVE  Inv'
  <1>1. IsClient(Drop(e)) /\ Drop(e).st = "dropped"
    BY DropIs
  <1>2. auth \in AuthType /\ Bounded(env') /\ env.tries \in Nat /\ env.others \in Nat
    BY DEF Inv, TypeOK, Counts, OutsideOK, Bounded
  <1>3. CASE h' = Drop(e) /\ UNCHANGED auth
    BY <1>1, <1>2, <1>3, Dropped
  <1>4. CASE ~ GivesUp /\ auth' = [query |-> TRUE, count |-> 0]
             /\ h' \in redsocks_connect_relay([e EXCEPT !.st = "recv_request_headers", !.rbuf = <<>>])
    <2> DEFINE f == [e EXCEPT !.st = "recv_request_headers", !.rbuf = <<>>]
    <2>1. IsClient(f) /\ f.st = "recv_request_headers" /\ f.toClient = <<>>
      BY DEF IsClient
    <2> HIDE DEF f
    <2>2. /\ IsClient(h')
          /\ \/ h'.st = "dropped"
             \/ h'.st = "recv_request_headers" /\ h'.toClient = <<>> /\ h'.input = <<>>
      BY <1>4, <2>1, ConnectIs DEF f
    <2>3. auth' \in AuthType /\ auth'.query = TRUE /\ auth'.count = 0
      BY <1>4 DEF AuthType
    <2>4. CASE h'.st = "dropped"
      BY <1>2, <2>2, <2>3, <2>4, Dropped
    <2>5. CASE h'.st # "dropped"
      <3>1. env.tries <= env.others + 1
        BY <1>4 DEF Inv, Counts, GivesUp
      <3>2. TypeOK'
        BY <2>2, <2>3 DEF TypeOK
      <3>3. Counts'
        BY <1>2, <2>2, <2>3, <2>5, <3>1 DEF Counts
      <3>4. Taken' /\ Whole'
        BY <2>2, <2>5 DEF Taken, Whole
      <3> QED BY <3>2, <3>3, <3>4 DEF Inv
    <2> QED BY <2>4, <2>5
  <1>5. ASSUME NEW st \in {"unchallenged", "crashed"}, h' = [Drop(e) EXCEPT !.st = st], UNCHANGED auth
        PROVE  Inv'
    <2> DEFINE f == Drop(e)
    <2> HIDE DEF f
    <2>1. IsClient(h') /\ h'.st = st
      BY <1>1, <1>5 DEF IsClient, f
    <2> QED BY <1>2, <1>5, <2>1, Dropped
  <1> QED BY <1>3, <1>4, <1>5 DEF Refused

\* Steps into the relaying, or closer to it.
LEMMA Collected ==
  ASSUME Inv, h.st \in {"request_sent", "reply_came"}, auth' = auth, OutsideOK(env'),
         env'.tries = env.tries, env'.others = env.others, IsClient(h'),
         h'.st \in {"reply_came", "relaying"}, Whole'
  PROVE  Inv'
  <1>1. TypeOK'
    BY DEF Inv, TypeOK
  <1>2. Counts'
    BY DEF Inv, Counts, Bounded
  <1>3. Taken'
    BY DEF Taken
  <1> QED BY <1>1, <1>2, <1>3 DEF Inv

LEMMA ReadStep ==
  ASSUME Inv, NEW n \in 1 .. 4, httpr_relay_read_cb(n)
  PROVE  Inv'
  <1> DEFINE I == h.input \o SubSeq(env.reply, env.sofar + 1, env.sofar + n)
             d == [h EXCEPT !.rbuf = <<>>, !.input = I]
             k == env.sofar + n
             p == env.split \/ h.st = "reply_came" \/ h.rbuf # <<>>
  <1>0. IsClient(h) /\ OutsideOK(env) /\ auth \in AuthType /\ Bounded(env) /\ env.sofar \in Nat /\ env.split \in BOOLEAN
    BY DEF Inv, TypeOK, Counts, OutsideOK
  <1>1. /\ h.st \in {"request_sent", "reply_came"} /\ k <= Len(env.reply)
        /\ h.st = "request_sent" => StatusLine(d)
        /\ h.st = "reply_came" => h' = CollectHead(d) /\ auth' = auth
    BY <1>0 DEF httpr_relay_read_cb, IsClient
  <1>2. env' = [env EXCEPT !.sofar = k, !.split = p] /\ k \in Nat /\ p \in BOOLEAN
    BY <1>0 DEF httpr_relay_read_cb, OutsideOK, IsOutside
  <1>3. (h.st = "reply_came" \/ h.rbuf # <<>>) => p
    OBVIOUS
  <1>4. /\ IsClient(d) /\ d.st = h.st /\ d.toClient = h.toClient /\ d.input = I /\ d.rbuf = <<>>
    <2> HIDE DEF I
    <2> QED BY <1>0 DEF IsClient
  <1> HIDE DEF p, d
  <1>5. /\ OutsideOK(env') /\ env'.tries = env.tries /\ env'.reply = env.reply /\ env'.sofar = k
        /\ env'.split = p /\ env'.others = env.others /\ Bounded(env')
    <2> HIDE DEF k
    <2> QED BY <1>0, <1>2 DEF OutsideOK, IsOutside, Bounded
  <1>6. CASE h.st = "reply_came"
    <2>1. IsClient(h') /\ h'.st \in {"reply_came", "relaying"} /\ auth' = auth
      BY <1>1, <1>4, <1>6, CollectIs
    <2>2. Whole'
      BY <1>3, <1>5, <1>6 DEF Whole
    <2> QED BY <1>5, <1>6, <2>1, <2>2, Collected
  <1>7. CASE h.st = "request_sent"
    <2> DEFINE l == Head(I)
               T == Tail(I)
               e == [d EXCEPT !.rbuf = <<l>>, !.input = T]
    <2>1. StatusLine(d) /\ h.toClient = <<>>
      BY <1>1, <1>7 DEF Inv, Taken
    <2>2. /\ l = "407" => Refused(e)
          /\ l = "200" => h' = CollectHead([e EXCEPT !.st = "reply_came"]) /\ auth' = auth
          /\ l = "9" => h' = Drop(e) /\ auth' = auth
          /\ l = "junk" => h' = e /\ auth' = auth
      <3>1. e = [d EXCEPT !.rbuf = <<Head(d.input)>>, !.input = Tail(@)]
        BY <1>4 DEF IsClient
      <3> HIDE DEF e
      <3>2. l = Head(d.input)
        BY <1>4
      <3> HIDE DEF l, I
      <3> QED BY <2>1, <3>1, <3>2 DEF StatusLine
    <2> HIDE DEF I
    <2>3. /\ IsClient(e) /\ e.st = "request_sent" /\ e.toClient = <<>> /\ e.rbuf = <<l>> /\ e.input = T
      <3> HIDE DEF l, T
      <3> QED BY <1>4, <1>7, <2>1 DEF IsClient
    <2> HIDE DEF e
    <2>4. \/ env.sofar = 0 /\ h.input = <<>> /\ env.reply \in {Plain, Junk, Bad, Asks, Odd, Mute}
             /\ k = n /\ n \in 1 .. Len(env.reply)
             /\ I = <<>> \o SubSeq(env.reply, 0 + 1, 0 + n)
          \/ h.rbuf # <<>> /\ l = "200"
      <3>1. CASE env.sofar = 0 /\ h.input = <<>>
        <4>1. k = n /\ env.reply # <<>>
          BY <1>1, <3>1
        <4> QED BY <1>0, <1>1, <3>1, <4>1 DEF OutsideOK, I
      <3>2. CASE env.reply = Junk /\ h.rbuf = <<"junk">> /\ env.sofar = 1 /\ h.input = <<>>
        <4>1. 1 + n <= 3 /\ I = <<>> \o SubSeq(Junk, 1 + 1, 1 + n)
          BY <1>1, <3>2, ReplyTypes DEF I
        <4> QED BY <3>2, <4>1, SecondRead
      <3>3. CASE env.reply = Junk /\ h.rbuf = <<"junk">> /\ env.sofar = 2 /\ h.input = <<"200">>
        <4>1. 2 + n <= 3 /\ I = <<"200">> \o SubSeq(Junk, 2 + 1, 2 + n)
          BY <1>1, <3>3, ReplyTypes DEF I
        <4> QED BY <3>3, <4>1, SecondRead
      <3>4. ~ (env.reply = Junk /\ env.sofar = 3)
        <4> SUFFICES ASSUME env.reply = Junk, env.sofar = 3 PROVE FALSE
          OBVIOUS
        <4>1. 3 + n <= 3
          BY <1>1, ReplyTypes
        <4> QED BY <4>1
      <3> QED BY <1>7, <3>1, <3>2, <3>3, <3>4 DEF Inv, Taken
    <2> DEFINE f == [e EXCEPT !.st = "reply_came"]
    <2>5. IsClient(f) /\ f.st = "reply_came" /\ f.toClient = <<>> /\ f.rbuf = <<l>> /\ f.input = T
      <3> HIDE DEF l, T
      <3> QED BY <2>3 DEF IsClient
    <2>6. l = "200" => /\ h' = CollectHead(f) /\ auth' = auth
                       /\ IsClient(h') /\ h'.st \in {"reply_came", "relaying"}
      BY <2>2, <2>5, CollectIs
    <2> HIDE DEF f
    <2>7. CASE h.rbuf # <<>> /\ l = "200"
      <3>1. Whole'
        BY <1>3, <1>5, <2>7 DEF Whole
      <3> QED BY <1>5, <1>7, <2>6, <2>7, <3>1, Collected
    <2> DEFINE first(r) == /\ env.sofar = 0 /\ env.reply = r /\ k = n /\ n \in 1 .. Len(r)
                           /\ I = <<>> \o SubSeq(r, 0 + 1, 0 + n)
    <2>8. CASE first(Plain)
      <3>1. /\ l = "200"
            /\ \/ n = 1 /\ T = <<>>
               \/ n = 2 /\ T = <<"header">>
               \/ n = 3 /\ T = <<"header", "empty">>
               \/ n = 4 /\ T = <<"header", "empty", "content">>
        <4>1. n \in Nat /\ n \in 1 .. Len(Plain) /\ I = <<>> \o SubSeq(Plain, 0 + 1, 0 + n)
          BY <2>8
        <4> QED BY <4>1, Rests, Zenon
      <3> HIDE DEF l, T
      <3>2. /\ (T = <<>> \/ T = <<"header">>) => h'.st = "reply_came"
            /\ T = <<"header", "empty">> =>
                 h'.toClient = <<"200", "header", "empty">> /\ h'.input = <<>>
            /\ T = <<"header", "empty", "content">> =>
                 h'.toClient = <<"200", "header", "empty">> /\ h'.input = <<"content">>
        BY <2>5, <2>6, <3>1, CollectPlain
      <3>3. env'.sofar = n /\ env'.reply = Plain
        BY <1>5, <2>8
      <3>4. Whole'
        BY <3>1, <3>2, <3>3 DEF Whole
      <3> QED BY <1>5, <1>7, <2>6, <3>1, <3>4, Collected
    <2>9. CASE first(Junk)
      <3>1. /\ l = "junk"
            /\ \/ n = 1 /\ T = <<>>
               \/ n = 2 /\ T = <<"200">>
               \/ n = 3 /\ T = <<"200", "empty">>
        <4>1. n \in Nat /\ n \in 1 .. Len(Junk) /\ I = <<>> \o SubSeq(Junk, 0 + 1, 0 + n)
          BY <2>9
        <4> QED BY <4>1, Rests, Zenon
      <3> HIDE DEF l, T
      <3>2. h' = e /\ auth' = auth
        BY <2>2, <3>1
      <3>3. env'.sofar = n /\ env'.reply = Junk
        BY <1>5, <2>9
      <3>4. TypeOK'
        BY <1>0, <1>5, <2>3, <3>2 DEF TypeOK
      <3>5. Counts'
        BY <1>5, <1>7, <2>3, <3>2 DEF Inv, Counts, Bounded
      <3>6. Taken'
        BY <2>3, <3>1, <3>2, <3>3 DEF Taken
      <3>7. Whole'
        BY <2>3, <3>2 DEF Whole
      <3> QED BY <3>4, <3>5, <3>6, <3>7 DEF Inv
    <2>10. CASE first(Bad)
      <3>1. l = "9"
        BY <2>10, Rests
      <3>2. IsClient(Drop(e)) /\ Drop(e).st = "dropped"
        BY <2>3, DropIs
      <3> QED BY <1>0, <1>5, <2>2, <3>1, <3>2, Dropped
    <2>11. ASSUME NEW r \in {Asks, Odd, Mute}, first(r) PROVE Inv'
      <3>1. l = "407"
        BY <2>11, Rests
      <3> QED BY <1>5, <1>7, <2>2, <2>3, <3>1, RefusedStep
    <2> QED BY <2>4, <2>7, <2>8, <2>9, <2>10, <2>11
  <1> QED BY <1>1, <1>6, <1>7

\* The head and the content make the reply.
LEMMA PlainWhole ==
  LET head == <<"200", "header", "empty">>
  IN  /\ (head \o <<>>) \o SubSeq(Plain, 3 + 1, Len(Plain)) = Plain
      /\ (head \o <<"content">>) \o SubSeq(Plain, 4 + 1, Len(Plain)) = Plain
      /\ head \o <<>> = SubSeq(Plain, 1, 3)
      /\ head \o <<"content">> = SubSeq(Plain, 1, 4)
      /\ Plain \o <<>> = SubSeq(Plain, 1, 4)
  <1> DEFINE a == <<"200", "header", "empty">>
             c == <<"content">>
  <1>1. a \in Seq(Line) /\ Len(a) = 3 /\ a[1] = "200" /\ a[2] = "header" /\ a[3] = "empty"
    BY Tuples DEF Line
  <1>2. c \in Seq(Line) /\ Len(c) = 1 /\ c[1] = "content"
    BY Tuples DEF Line
  <1> HIDE DEF a, c
  <1>3. a \o <<>> = a /\ Plain \o <<>> = Plain
    BY <1>1, ReplyTypes, ConcatEmptySeq
  <1>4. a \o c = Plain
    <2> DEFINE s == a \o c
    <2>1. /\ s \in Seq(Line) /\ Len(s) = Len(a) + Len(c)
          /\ \A i \in 1 .. Len(a) + Len(c) : s[i] = IF i <= Len(a) THEN a[i] ELSE c[i - Len(a)]
      BY <1>1, <1>2, ConcatProperties, Zenon
    <2> HIDE DEF s
    <2>2. Len(a) + Len(c) = 4 /\ 4 - Len(a) = 1
      BY <1>1, <1>2
    <2>3. Len(s) = 4 /\ s[1] = "200" /\ s[2] = "header" /\ s[3] = "empty" /\ s[4] = "content"
      BY <1>1, <1>2, <2>1, <2>2
    <2>4. s = <<"200", "header", "empty", "content">>
      BY <2>1, <2>3, Tuple
    <2> QED BY <2>4 DEF s, Plain
  <1>5. SubSeq(Plain, 3 + 1, Len(Plain)) = c
    <2> DEFINE s == SubSeq(Plain, 4, 4)
    <2>1. Plain \in Seq(Line) /\ 4 \in 1 .. Len(Plain) /\ 4 \in 4 .. Len(Plain) /\ 3 + 1 = 4 /\ Len(Plain) = 4
      BY ReplyTypes
    <2>2. s \in Seq(Line) /\ Len(s) = 4 - 4 + 1 /\ s[1] = Plain[4]
      BY <2>1, Cut, Zenon
    <2>3. SubSeq(Plain, 3 + 1, Len(Plain)) = s
      BY <2>1
    <2> HIDE DEF s
    <2>4. Len(s) = 1 /\ s[1] = "content"
      BY <2>2, ReplyLines
    <2>5. s = <<"content">>
      BY <2>2, <2>4, Tuple
    <2> QED BY <2>3, <2>5 DEF c
  <1>6. SubSeq(Plain, 4 + 1, Len(Plain)) = <<>>
    <2>1. 4 + 1 \in Int /\ Len(Plain) \in Int /\ Len(Plain) < 4 + 1
      BY ReplyTypes
    <2> QED BY <2>1, SubSeqEmpty
  <1>7. SubSeq(Plain, 1, 4) = Plain
    BY ReplyTypes, SubSeqFull
  <1>8. SubSeq(Plain, 1, 3) = a
    <2> DEFINE s == SubSeq(Plain, 1, 3)
    <2>1. s \in Seq(Line) /\ Len(s) = 3 /\ \A i \in 1 .. 3 : s[i] = Plain[i]
      <3>1. Plain \in Seq(Line) /\ 1 \in 1 .. Len(Plain) /\ 3 \in 1 .. Len(Plain)
        BY ReplyTypes
      <3>2. s \in Seq(Line)
        BY <3>1, Cut, Zenon
      <3>3. Len(s) = 3 /\ \A i \in 1 .. 3 : s[i] = Plain[i]
        BY ReplyTypes
      <3> QED BY <3>2, <3>3
    <2> HIDE DEF s
    <2>2. s = <<"200", "header", "empty">>
      BY <2>1, Tuple, ReplyLines
    <2> QED BY <2>2 DEF s, a
  <1>9. (a \o <<>>) \o c = Plain /\ (a \o c) \o <<>> = Plain
    BY <1>3, <1>4
  <1> QED BY <1>3, <1>4, <1>5, <1>6, <1>7, <1>8, <1>9 DEF a, c

LEMMA RestStep ==
  ASSUME Inv, RelayRest
  PROVE  Inv'
  <1> DEFINE c == (h.toClient \o h.input) \o SubSeq(env.reply, env.sofar + 1, Len(env.reply))
             k == Len(env.reply)
  <1>0. IsClient(h) /\ OutsideOK(env) /\ auth \in AuthType /\ Bounded(env) /\ h.st = "relaying"
        /\ (h.input # <<>> \/ env.sofar < k)
    BY DEF Inv, TypeOK, Counts, RelayRest
  <1>1. h' = [h EXCEPT !.toClient = c, !.input = <<>>] /\ env' = [env EXCEPT !.sofar = k] /\ auth' = auth
    BY DEF RelayRest
  <1>2. k \in Nat
    <2>1. Len(<<>>) = 0
      OBVIOUS
    <2> QED BY <1>0, <2>1, ReplyTypes DEF OutsideOK
  <1>3. (~ env.split) => env.reply = Plain /\ c = Plain /\ k = 4
    <2> SUFFICES ASSUME ~ env.split PROVE env.reply = Plain /\ c = Plain /\ k = 4
      OBVIOUS
    <2>1. env.reply = Plain /\ k = 4
      BY <1>0, ReplyTypes DEF Inv, Whole
    <2>2. \/ env.sofar = 3 /\ h.toClient = <<"200", "header", "empty">> /\ h.input = <<>>
          \/ env.sofar = 4 /\ h.toClient = <<"200", "header", "empty">> /\ h.input = <<"content">>
      BY <1>0, <2>1 DEF Inv, Whole
    <2>3. c = Plain
      BY <2>1, <2>2, PlainWhole, Zenon
    <2> QED BY <2>1, <2>3
  <1> HIDE DEF c, k
  <1>4. IsClient(h') /\ h'.st = "relaying" /\ h'.toClient = c /\ h'.input = <<>>
    BY <1>0, <1>1 DEF IsClient
  <1>5. /\ OutsideOK(env') /\ env'.tries = env.tries /\ env'.reply = env.reply /\ env'.sofar = k
        /\ env'.split = env.split /\ env'.others = env.others /\ Bounded(env')
    BY <1>0, <1>1, <1>2 DEF OutsideOK, IsOutside, Bounded
  <1>6. TypeOK'
    BY <1>0, <1>1, <1>4, <1>5 DEF TypeOK
  <1>7. Counts' /\ Taken'
    BY <1>0, <1>4, <1>5 DEF Counts, Taken
  <1>8. Whole'
    BY <1>3, <1>4, <1>5 DEF Whole
  <1> QED BY <1>6, <1>7, <1>8 DEF Inv

\* Another connection changes the challenge or the count: a 407 may not be final then.
LEMMA OtherStep ==
  ASSUME Inv, OtherConnection
  PROVE  Inv'
  <1> DEFINE o == env.others + 1
  <1>0. IsClient(h) /\ OutsideOK(env) /\ auth \in AuthType /\ auth.count \in Nat
        /\ env.tries \in Nat /\ env.others \in Nat
    BY DEF Inv, TypeOK, OutsideOK, AuthType
  <1>1. h' = h /\ env' = [env EXCEPT !.others = o]
    BY DEF OtherConnection
  <1>2. auth' \in AuthType
    <2>1. CASE auth' = [auth EXCEPT !.count = @ + 1]
      <3> DEFINE c == auth.count + 1
      <3>1. auth' = [auth EXCEPT !.count = c] /\ c \in Nat
        BY <1>0, <2>1
      <3> HIDE DEF c
      <3> QED BY <1>0, <3>1 DEF AuthType
    <2>2. CASE auth' = [query |-> TRUE, count |-> 0]
      BY <2>2 DEF AuthType
    <2> QED BY <2>1, <2>2 DEF OtherConnection
  <1>3. o \in Nat /\ o = env.others + 1
    BY <1>0
  <1> HIDE DEF o
  <1>4. /\ OutsideOK(env') /\ env'.tries = env.tries /\ env'.reply = env.reply /\ env'.sofar = env.sofar
        /\ env'.split = env.split /\ env'.others = o
    BY <1>0, <1>1, <1>3 DEF OutsideOK, IsOutside
  <1>5. TypeOK'
    BY <1>0, <1>1, <1>2, <1>4 DEF TypeOK
  <1>6. Counts'
    BY <1>0, <1>1, <1>3, <1>4 DEF Inv, Counts, Bounded
  <1>7. Taken' /\ Whole'
    BY <1>1, <1>4 DEF Inv, Taken, Whole
  <1> QED BY <1>5, <1>6, <1>7 DEF Inv

LEMMA NextInv == Inv /\ [Next]_vars => Inv'
  <1> SUFFICES ASSUME Inv, [Next]_vars PROVE Inv'
    OBVIOUS
  <1>1. CASE UNCHANGED vars
    BY <1>1 DEF vars, Inv, TypeOK, Counts, Taken, Whole
  <1>2. CASE RelayError
    <2>1. h' = Drop(h) /\ auth' = auth /\ env' = env
      BY <1>2 DEF RelayError
    <2>2. IsClient(h) /\ OutsideOK(env) /\ auth \in AuthType /\ Bounded(env)
      BY DEF Inv, TypeOK, Counts
    <2>3. IsClient(Drop(h)) /\ Drop(h).st = "dropped"
      BY <2>2, DropIs
    <2> QED BY <2>1, <2>2, <2>3, Dropped
  <1>3. CASE Read
    BY <1>3, ReadStep DEF Read
  <1> QED BY <1>1, <1>2, <1>3, ClientStep, WriteStep, RestStep, AnswerStep, OtherStep DEF Next

-----------------------------------------------------------------------------
(* Numbers and recursion.                                                  *)

\* Every nonempty set of natural numbers has a least element.
LEMMA LeastNumber ==
  ASSUME NEW T \in SUBSET Nat, T # {}
  PROVE  \E m \in T : \A k \in T : m <= k
  <1> DEFINE R == OpToRel(<, Nat)
  <1>1. IsWellFoundedOn(R, Nat)
    BY NatLessThanWellFounded
  <1>2. \A k, m \in Nat : k < m => <<k, m>> \in R
    BY DEF OpToRel
  <1> HIDE DEF R
  <1>3. PICK m \in T : \A k \in T : ~ (<<k, m>> \in R)
    BY <1>1, WFMin
  <1>4. ASSUME NEW k \in T PROVE m <= k
    <2>1. ~ (k < m) /\ k \in Nat /\ m \in Nat
      BY <1>2, <1>3
    <2> QED BY <2>1
  <1> QED BY <1>4

\* Induction for a property that is a set of numbers.
LEMMA SetInduction ==
  ASSUME NEW T \in SUBSET Nat, 0 \in T, \A n \in T : n + 1 \in T
  PROVE  T = Nat
  <1> SUFFICES ASSUME Nat \ T # {} PROVE FALSE
    OBVIOUS
  <1>1. PICK m \in Nat \ T : \A k \in Nat \ T : m <= k
    <2> DEFINE U == Nat \ T
    <2>1. U \in SUBSET Nat /\ U # {}
      OBVIOUS
    <2> HIDE DEF U
    <2>2. \E m \in U : \A k \in U : m <= k
      BY <2>1, LeastNumber
    <2> QED BY <2>2 DEF U
  <1>2. m - 1 \in Nat /\ m - 1 \in T
    BY <1>1
  <1>3. (m - 1) + 1 = m
    BY <1>1
  <1> QED BY <1>1, <1>2, <1>3

\* f is the function that the definition of Without chooses, on 0 .. n.
Keeps(f, s, x, n) ==
    f = [i \in 0 .. n |->
            IF i = 0 THEN <<>>
            ELSE IF s[i] = x THEN f[i - 1] ELSE Append(f[i - 1], s[i])]

Keep(s, x) == CHOOSE f : Keeps(f, s, x, Len(s))

\* The recursion is well founded.
LEMMA KeepExists ==
  ASSUME NEW s, NEW x, NEW n \in Nat
  PROVE  \E f : Keeps(f, s, x, n)
  <1> DEFINE T == {m \in Nat : \E f : Keeps(f, s, x, m)}
  <1>1. 0 \in T
    <2> DEFINE f == [i \in 0 .. 0 |-> <<>>]
    <2>1. Keeps(f, s, x, 0)
      BY DEF Keeps
    <2> QED BY <2>1
  <1>2. ASSUME NEW m \in T PROVE m + 1 \in T
    <2>1. PICK f : Keeps(f, s, x, m)
      OBVIOUS
    <2> DEFINE e == IF s[m + 1] = x THEN f[m] ELSE Append(f[m], s[m + 1])
               g == [i \in 0 .. m + 1 |-> IF i <= m THEN f[i] ELSE e]
               r == [i \in 0 .. m + 1 |->
                       IF i = 0 THEN <<>>
                       ELSE IF s[i] = x THEN g[i - 1] ELSE Append(g[i - 1], s[i])]
    <2>2. \A i \in 0 .. m : f[i] = IF i = 0 THEN <<>>
                                   ELSE IF s[i] = x THEN f[i - 1] ELSE Append(f[i - 1], s[i])
      BY <2>1 DEF Keeps
    <2> HIDE DEF e
    <2>3. \A i \in 0 .. m : g[i] = f[i]
      OBVIOUS
    <2>4. g[m + 1] = e
      OBVIOUS
    <2>5. ASSUME NEW i \in 0 .. m + 1 PROVE r[i] = g[i]
      <3>1. CASE i <= m
        <4>1. g[i] = f[i]
          BY <2>3, <3>1
        <4>2. i # 0 => g[i - 1] = f[i - 1]
          BY <2>3, <3>1
        <4>3. r[i] = IF i = 0 THEN <<>> ELSE IF s[i] = x THEN g[i - 1] ELSE Append(g[i - 1], s[i])
          BY Zenon
        <4> HIDE DEF g, r
        <4> QED BY <2>2, <3>1, <4>1, <4>2, <4>3
      <3>2. CASE i = m + 1
        <4>1. i - 1 = m /\ i # 0
          BY <3>2
        <4>2. g[i - 1] = f[m]
          BY <2>3, <4>1
        <4>3. r[i] = IF i = 0 THEN <<>> ELSE IF s[i] = x THEN g[i - 1] ELSE Append(g[i - 1], s[i])
          BY Zenon
        <4> HIDE DEF g, r
        <4> QED BY <2>4, <3>2, <4>1, <4>2, <4>3 DEF e
      <3> QED BY <3>1, <3>2
    <2>6. r = g
      <3>1. r = [i \in 0 .. m + 1 |-> r[i]] /\ g = [i \in 0 .. m + 1 |-> g[i]]
        OBVIOUS
      <3> HIDE DEF r, g
      <3> QED BY <2>5, <3>1
    <2>7. Keeps(g, s, x, m + 1)
      BY <2>6, Zenon DEF Keeps
    <2> QED BY <2>7
  <1> HIDE DEF T
  <1>3. T = Nat
    <2>1. T \in SUBSET Nat
      BY DEF T
    <2> QED BY <1>1, <1>2, <2>1, SetInduction
  <1> QED BY <1>3 DEF T

\* Without is the last value of the recursion, which obeys its equation.
LEMMA KeepIs ==
  ASSUME NEW s, NEW x, Len(s) \in Nat
  PROVE  /\ Without(s, x) = Keep(s, x)[Len(s)]
         /\ Keep(s, x)[0] = <<>>
         /\ \A i \in 1 .. Len(s) :
              Keep(s, x)[i] = IF s[i] = x THEN Keep(s, x)[i - 1] ELSE Append(Keep(s, x)[i - 1], s[i])
  <1>1. Without(s, x) = Keep(s, x)[Len(s)]
    BY Zenon DEF Without, Keep, Keeps
  <1>2. Keeps(Keep(s, x), s, x, Len(s))
    <2>1. \E f : Keeps(f, s, x, Len(s))
      BY KeepExists
    <2> QED BY <2>1, Zenon DEF Keep
  <1> DEFINE k == Keep(s, x)
  <1> HIDE DEF k
  <1>3. k = [i \in 0 .. Len(s) |->
                IF i = 0 THEN <<>> ELSE IF s[i] = x THEN k[i - 1] ELSE Append(k[i - 1], s[i])]
    BY <1>2, Zenon DEF Keeps, k
  <1>4. \A i \in 0 .. Len(s) :
           k[i] = IF i = 0 THEN <<>> ELSE IF s[i] = x THEN k[i - 1] ELSE Append(k[i - 1], s[i])
    BY <1>3
  <1>5. /\ k[0] = <<>>
        /\ \A i \in 1 .. Len(s) : k[i] = IF s[i] = x THEN k[i - 1] ELSE Append(k[i - 1], s[i])
    BY <1>4
  <1> QED BY <1>1, <1>5 DEF k

\* What is kept consists of lines of the sequence.
LEMMA KeepType ==
  ASSUME NEW S, NEW s \in Seq(S), NEW x, NEW n \in 0 .. Len(s)
  PROVE  Keep(s, x)[n] \in Seq(S)
  <1> DEFINE k == Keep(s, x)
             T == {m \in Nat : m <= Len(s) => k[m] \in Seq(S)}
  <1>1. Len(s) \in Nat
    OBVIOUS
  <1>2. /\ k[0] = <<>>
        /\ \A i \in 1 .. Len(s) : k[i] = IF s[i] = x THEN k[i - 1] ELSE Append(k[i - 1], s[i])
    BY <1>1, KeepIs
  <1> HIDE DEF k
  <1>3. 0 \in T
    <2>1. <<>> \in Seq(S)
      OBVIOUS
    <2> QED BY <1>2, <2>1
  <1>4. ASSUME NEW m \in T, m + 1 <= Len(s) PROVE k[m + 1] \in Seq(S)
    <2>1. k[m] \in Seq(S) /\ m + 1 \in 1 .. Len(s) /\ (m + 1) - 1 = m
      BY <1>1, <1>4
    <2>2. s[m + 1] \in S
      BY <2>1
    <2>3. k[m + 1] = IF s[m + 1] = x THEN k[m] ELSE Append(k[m], s[m + 1])
      BY <1>2, <2>1
    <2>4. Append(k[m], s[m + 1]) \in Seq(S)
      BY <2>1, <2>2, AppendProperties
    <2> QED BY <2>1, <2>3, <2>4
  <1>5. \A m \in T : m + 1 \in T
    BY <1>4
  <1>6. T \in SUBSET Nat
    OBVIOUS
  <1> HIDE DEF T
  <1>7. T = Nat
    BY <1>3, <1>5, <1>6, SetInduction
  <1> QED BY <1>7 DEF T, k

\* Kept headers are headers.
LEMMA WithoutType ==
  ASSUME NEW S, NEW s \in Seq(S), NEW x
  PROVE  Without(s, x) \in Seq(S)
  <1>1. Len(s) \in Nat /\ Len(s) \in 0 .. Len(s)
    OBVIOUS
  <1> QED BY <1>1, KeepIs, KeepType

\* Nothing is kept of nothing.
LEMMA WithoutEmpty ==
  ASSUME NEW x
  PROVE  Without(<<>>, x) = <<>>
  <1>1. Len(<<>>) = 0
    OBVIOUS
  <1> QED BY <1>1, KeepIs

\* What is kept of the first part does not depend on the second.
LEMMA KeepFirst ==
  ASSUME NEW S, NEW a \in Seq(S), NEW b \in Seq(S), NEW x, NEW n \in 0 .. Len(a)
  PROVE  Keep(a \o b, x)[n] = Keep(a, x)[n]
  <1> DEFINE c == a \o b
             k == Keep(a, x)
             l == Keep(c, x)
             T == {m \in Nat : m <= Len(a) => l[m] = k[m]}
  <1>1. Len(a) \in Nat /\ Len(b) \in Nat
    OBVIOUS
  <1>2. Len(c) = Len(a) + Len(b) /\ \A i \in 1 .. Len(a) : c[i] = a[i]
    BY <1>1, ConcatProperties
  <1> HIDE DEF c
  <1>3. /\ k[0] = <<>>
        /\ \A i \in 1 .. Len(a) : k[i] = IF a[i] = x THEN k[i - 1] ELSE Append(k[i - 1], a[i])
    BY <1>1, KeepIs
  <1>4. /\ l[0] = <<>>
        /\ \A i \in 1 .. Len(c) : l[i] = IF c[i] = x THEN l[i - 1] ELSE Append(l[i - 1], c[i])
    BY <1>1, <1>2, KeepIs
  <1> HIDE DEF k, l
  <1>5. 0 \in T
    BY <1>3, <1>4
  <1>6. ASSUME NEW m \in T, m + 1 <= Len(a) PROVE l[m + 1] = k[m + 1]
    <2>1. l[m] = k[m] /\ m + 1 \in 1 .. Len(a) /\ m + 1 \in 1 .. Len(c) /\ (m + 1) - 1 = m
      BY <1>1, <1>2, <1>6
    <2>2. k[m + 1] = IF a[m + 1] = x THEN k[m] ELSE Append(k[m], a[m + 1])
      BY <1>3, <2>1
    <2>3. l[m + 1] = IF c[m + 1] = x THEN l[m] ELSE Append(l[m], c[m + 1])
      BY <1>4, <2>1
    <2>4. c[m + 1] = a[m + 1]
      BY <1>2, <2>1
    <2> QED BY <2>1, <2>2, <2>3, <2>4
  <1>7. \A m \in T : m + 1 \in T
    BY <1>6
  <1>8. T \in SUBSET Nat
    OBVIOUS
  <1> HIDE DEF T
  <1>9. T = Nat
    BY <1>5, <1>7, <1>8, SetInduction
  <1> QED BY <1>9 DEF T, k, l, c

\* What is kept of two parts is what is kept of each.
LEMMA WithoutConcat ==
  ASSUME NEW S, NEW a \in Seq(S), NEW b \in Seq(S), NEW x
  PROVE  Without(a \o b, x) = Without(a, x) \o Without(b, x)
  <1> DEFINE c == a \o b
             k == Keep(b, x)
             l == Keep(c, x)
             w == Without(a, x)
             P(m) == l[Len(a) + m] = w \o k[m]
             T == {m \in Nat : m <= Len(b) => P(m)}
  <1>1. Len(a) \in Nat /\ Len(b) \in Nat /\ Len(a) \in 0 .. Len(a)
    OBVIOUS
  <1>2. Len(c) = Len(a) + Len(b) /\ \A i \in 1 .. Len(b) : c[Len(a) + i] = b[i]
    BY <1>1, ConcatProperties
  <1>3. l[Len(a)] = w /\ w \in Seq(S)
    BY <1>1, KeepFirst, KeepIs, WithoutType
  <1> HIDE DEF c
  <1>4. /\ k[0] = <<>> /\ Without(b, x) = k[Len(b)]
        /\ \A i \in 1 .. Len(b) : k[i] = IF b[i] = x THEN k[i - 1] ELSE Append(k[i - 1], b[i])
    BY <1>1, KeepIs
  <1>5. /\ \A i \in 1 .. Len(c) : l[i] = IF c[i] = x THEN l[i - 1] ELSE Append(l[i - 1], c[i])
        /\ Without(c, x) = l[Len(c)]
    <2>1. Len(c) \in Nat
      BY <1>1, <1>2
    <2> QED BY <2>1, KeepIs
  <1>6. \A m \in 0 .. Len(b) : k[m] \in Seq(S)
    BY <1>1, KeepType
  <1> HIDE DEF k, l, w
  <1>7. 0 \in T
    <2>1. w \o <<>> = w /\ Len(a) + 0 = Len(a)
      BY <1>1, <1>3, ConcatEmptySeq
    <2> QED BY <1>3, <1>4, <2>1
  <1>8. ASSUME NEW m \in T, m + 1 <= Len(b) PROVE P(m + 1)
    <2> DEFINE j == Len(a) + (m + 1)
    <2>1. /\ l[Len(a) + m] = w \o k[m] /\ m + 1 \in 1 .. Len(b) /\ (m + 1) - 1 = m
          /\ j \in 1 .. Len(c) /\ j - 1 = Len(a) + m /\ m \in 0 .. Len(b)
      BY <1>1, <1>2, <1>8
    <2>2. c[j] = b[m + 1]
      BY <1>2, <2>1
    <2> HIDE DEF j
    <2>3. k[m + 1] = IF b[m + 1] = x THEN k[m] ELSE Append(k[m], b[m + 1])
      BY <1>4, <2>1
    <2>4. l[j] = IF c[j] = x THEN l[Len(a) + m] ELSE Append(l[Len(a) + m], c[j])
      BY <1>5, <2>1
    <2>5. b[m + 1] \in S
      BY <2>1
    <2>6. Append(w \o k[m], b[m + 1]) = w \o Append(k[m], b[m + 1])
      <3> DEFINE q == k[m]
                 e == b[m + 1]
      <3>1. w \in Seq(S) /\ q \in Seq(S) /\ e \in S
        BY <1>3, <1>6, <2>1, <2>5
      <3> HIDE DEF q, e
      <3>2. Append(w \o q, e) = w \o Append(q, e)
        <4> DEFINE g == <<e>>
        <4>1. w \o q \in Seq(S) /\ g \in Seq(S)
          BY <3>1, ConcatProperties
        <4>2. Append(w \o q, e) = (w \o q) \o g /\ Append(q, e) = q \o g
          BY <3>1, <4>1, AppendIsConcat
        <4> HIDE DEF g
        <4>3. (w \o q) \o g = w \o (q \o g)
          BY <3>1, <4>1, ConcatAssociative
        <4> QED BY <4>2, <4>3, Zenon
      <3> QED BY <3>2 DEF q, e
    <2>7. l[j] = w \o k[m + 1]
      BY <2>1, <2>2, <2>3, <2>4, <2>6, Zenon
    <2> QED BY <2>7 DEF j
  <1> HIDE DEF P
  <1>9. \A m \in T : m + 1 \in T
    BY <1>8
  <1>10. T \in SUBSET Nat
    OBVIOUS
  <1> HIDE DEF T
  <1>11. T = Nat
    BY <1>7, <1>9, <1>10, SetInduction
  <1>12. l[Len(a) + Len(b)] = w \o k[Len(b)]
    <2>1. P(Len(b))
      BY <1>1, <1>11 DEF T
    <2> QED BY <2>1 DEF P
  <1> QED BY <1>2, <1>4, <1>5, <1>12 DEF c, w

-----------------------------------------------------------------------------
(* The request in its parts.                                               *)

\* Lines that are read from the client or written to the relay.
Lines == HeadLine \cup {"empty", "body", "pclose", "close", "first", "auth"}
Text == Lines \ {"empty"}

Missing(hs) == IF Contains(hs, "host") THEN <<>> ELSE <<"host">>
Opening(credentials) == IF credentials THEN <<"first", "auth">> ELSE <<"first">>

\* The constant pieces of a request are sequences of lines.
LEMMA LineTypes ==
  /\ <<>> \in Seq(Lines) /\ <<"empty">> \in Seq(Lines)
  /\ <<"pclose", "close">> \in Seq(Lines) /\ <<"pclose", "close", "empty">> \in Seq(Lines)
  /\ <<"pclose", "close">> \o <<"empty">> = <<"pclose", "close", "empty">>
  /\ \A credentials : Opening(credentials) \in Seq(Lines)
  /\ \A hs : Missing(hs) \in Seq(Lines)
  /\ Seq(Text) \subseteq Seq(Lines)
  /\ \A f \in Text : <<f>> \in Seq(Text)
  /\ Text \subseteq Lines /\ "empty" \notin Text
  <1>1. {"empty", "pclose", "close", "first", "auth", "host"} \subseteq Lines /\ Text \subseteq Lines
        /\ "empty" \notin Text
    BY DEF Lines, Text, HeadLine
  <1>2. \A a, b, c \in Lines : <<a>> \in Seq(Lines) /\ <<a, b>> \in Seq(Lines) /\ <<a, b, c>> \in Seq(Lines)
    OBVIOUS
  <1>3. Seq(Text) \subseteq Seq(Lines)
    BY <1>1
  <1>4. \A f \in Text : <<f>> \in Seq(Text)
    OBVIOUS
  <1>5. <<>> \in Seq(Lines)
    OBVIOUS
  <1>6. \A credentials : Opening(credentials) \in Seq(Lines)
    BY <1>1, <1>2 DEF Opening
  <1>7. \A hs : Missing(hs) \in Seq(Lines)
    BY <1>1, <1>2, <1>5 DEF Missing
  <1>8. <<"pclose", "close">> \o <<"empty">> = <<"pclose", "close", "empty">>
    <2> DEFINE a == <<"pclose", "close">>
               b == <<"empty">>
               c == a \o b
               d == <<"pclose", "close", "empty">>
    <2>1. a \in Seq(Lines) /\ b \in Seq(Lines) /\ d \in Seq(Lines)
      BY <1>1, <1>2
    <2>2. Len(a) = 2 /\ Len(b) = 1 /\ a[1] = "pclose" /\ a[2] = "close" /\ b[1] = "empty"
          /\ Len(d) = 3 /\ d[1] = "pclose" /\ d[2] = "close" /\ d[3] = "empty"
      OBVIOUS
    <2> HIDE DEF a, b, d
    <2>3. c \in Seq(Lines) /\ Len(c) = Len(a) + Len(b)
          /\ \A i \in 1 .. Len(a) + Len(b) : c[i] = IF i <= Len(a) THEN a[i] ELSE b[i - Len(a)]
      BY <2>1, ConcatProperties
    <2> HIDE DEF c
    <2>4. Len(c) = 3 /\ c[1] = "pclose" /\ c[2] = "close" /\ c[3] = "empty"
      BY <2>2, <2>3
    <2>5. \A i \in 1 .. 3 : i = 1 \/ i = 2 \/ i = 3
      OBVIOUS
    <2>6. c = d
      BY <2>1, <2>2, <2>3, <2>4, <2>5, SeqEqual
    <2> QED BY <2>6 DEF a, b, c, d
  <1> QED BY <1>1, <1>2, <1>3, <1>4, <1>5, <1>6, <1>7, <1>8

\* Concatenation by another name, with the facts about it that are used.
Cat(s, t) == s \o t

\* The lines of s and then those of t are those of q.
Joins(s, t, q) == /\ Len(q) = Len(s) + Len(t)
                  /\ \A i \in 1 .. Len(s) : q[i] = s[i]
                  /\ \A i \in 1 .. Len(t) : q[Len(s) + i] = t[i]

\* The lines of a concatenation.
LEMMA CatProperties ==
  ASSUME NEW S, NEW s \in Seq(S), NEW t \in Seq(S)
  PROVE  Cat(s, t) \in Seq(S) /\ Joins(s, t, Cat(s, t))
  <1>1. /\ Cat(s, t) \in Seq(S) /\ Len(Cat(s, t)) = Len(s) + Len(t)
        /\ \A i \in 1 .. Len(s) + Len(t) : Cat(s, t)[i] = IF i <= Len(s) THEN s[i] ELSE t[i - Len(s)]
    BY ConcatProperties DEF Cat
  <1>2. Len(s) \in Nat /\ Len(t) \in Nat
    OBVIOUS
  <1>3. ASSUME NEW i \in 1 .. Len(t) PROVE Cat(s, t)[Len(s) + i] = t[i]
    <2>1. Len(s) + i \in 1 .. Len(s) + Len(t) /\ ~ (Len(s) + i <= Len(s)) /\ (Len(s) + i) - Len(s) = i
      BY <1>2
    <2> QED BY <1>1, <2>1
  <1> QED BY <1>1, <1>2, <1>3 DEF Joins

\* Concatenation is associative.
LEMMA CatAssociative ==
  ASSUME NEW S, NEW s \in Seq(S), NEW t \in Seq(S), NEW u \in Seq(S)
  PROVE  Cat(Cat(s, t), u) = Cat(s, Cat(t, u))
  BY ConcatAssociative DEF Cat

\* The empty sequence is neutral.
LEMMA CatEmpty ==
  ASSUME NEW S, NEW s \in Seq(S)
  PROVE  Cat(s, <<>>) = s /\ Cat(<<>>, s) = s
  BY ConcatEmptySeq DEF Cat

\* A head, the empty line and what follows it.
Ended(p, r) == Cat(Cat(p, <<"empty">>), r)

\* The lines of such a request.
LEMMA Parts ==
  ASSUME NEW p \in Seq(Text), NEW r \in Seq(Lines)
  PROVE  /\ Ended(p, r) \in Seq(Lines) /\ Len(Ended(p, r)) = Len(p) + 1 + Len(r)
         /\ \A i \in 1 .. Len(p) : Ended(p, r)[i] = p[i]
         /\ Ended(p, r)[Len(p) + 1] = "empty"
         /\ \A i \in 1 .. Len(r) : Ended(p, r)[(Len(p) + 1) + i] = r[i]
  <1> DEFINE e == <<"empty">>
             t == Cat(p, e)
             q == Cat(t, r)
  <1>1. p \in Seq(Lines) /\ e \in Seq(Lines) /\ Len(e) = 1 /\ e[1] = "empty"
        /\ Len(p) \in Nat /\ Len(r) \in Nat
    BY LineTypes
  <1>2. Ended(p, r) = q
    BY DEF Ended
  <1> HIDE DEF e
  <1>3. t \in Seq(Lines) /\ Len(t) = Len(p) + 1 /\ t[Len(p) + 1] = "empty"
        /\ \A i \in 1 .. Len(p) : t[i] = p[i]
    <2>1. t \in Seq(Lines) /\ Joins(p, e, t)
      BY <1>1, CatProperties
    <2> HIDE DEF t
    <2> QED BY <1>1, <2>1 DEF Joins
  <1> HIDE DEF t
  <1>4. q \in Seq(Lines) /\ Joins(t, r, q)
    BY <1>3, CatProperties
  <1> HIDE DEF q
  <1> QED BY <1>1, <1>2, <1>3, <1>4 DEF Joins

\* The head ends at the first empty line.
LEMMA FirstEmpty ==
  ASSUME NEW p \in Seq(Text), NEW r \in Seq(Lines)
  PROVE  FirstOf(Ended(p, r), {"empty"}) = Len(p) + 1
  <1> DEFINE q == Ended(p, r)
             n == Len(p) + 1
             at == {i \in 1 .. Len(q) : q[i] \in {"empty"}}
  <1>1. Len(p) \in Nat /\ Len(r) \in Nat
    OBVIOUS
  <1>2. Len(q) = Len(p) + 1 + Len(r) /\ q[n] = "empty" /\ \A i \in 1 .. Len(p) : q[i] = p[i]
    BY Parts
  <1>3. FirstOf(q, {"empty"}) = IF at = {} THEN 0 ELSE CHOOSE i \in at : \A j \in at : i <= j
    BY Zenon DEF FirstOf
  <1> HIDE DEF q
  <1>4. \A i \in 1 .. Len(p) : p[i] # "empty"
    BY LineTypes
  <1>5. n \in at /\ at \subseteq Nat
    BY <1>1, <1>2
  <1>6. \A i \in at : n <= i
    BY <1>1, <1>2, <1>4
  <1>7. \A i \in at : (\A j \in at : i <= j) => i = n
    BY <1>1, <1>5, <1>6
  <1> HIDE DEF at, n
  <1>8. FirstOf(q, {"empty"}) = n
    BY <1>3, <1>5, <1>6, <1>7
  <1> QED BY <1>8 DEF n, q

\* The headers of a whole request.
LEMMA CutHeaders ==
  ASSUME NEW f \in Text, NEW hs \in Seq(Text), NEW r \in Seq(Lines)
  PROVE  SubSeq(Ended(Cat(<<f>>, hs), r), 2, Len(hs) + 1) = hs
  <1> DEFINE n == Len(hs)
             s == <<f>>
             p == Cat(s, hs)
             q == Ended(p, r)
             u == SubSeq(q, 2, n + 1)
  <1>1. n \in Nat /\ s \in Seq(Text) /\ Len(s) = 1 /\ hs \in Seq(Lines) /\ Len(r) \in Nat
    BY LineTypes
  <1> HIDE DEF s
  <1>2. p \in Seq(Text) /\ Len(p) = 1 + n /\ \A i \in 1 .. n : p[1 + i] = hs[i]
    <2>1. p \in Seq(Text) /\ Joins(s, hs, p)
      BY <1>1, CatProperties
    <2> HIDE DEF p
    <2> QED BY <1>1, <2>1 DEF Joins
  <1> HIDE DEF p
  <1>3. q \in Seq(Lines) /\ Len(q) = Len(p) + 1 + Len(r) /\ \A i \in 1 .. Len(p) : q[i] = p[i]
    BY <1>2, Parts
  <1> HIDE DEF q
  <1>4. 2 \in Int /\ n + 1 \in Int /\ \A i \in 2 .. n + 1 : q[i] \in Lines
    BY <1>1, <1>2, <1>3
  <1>5. u \in Seq(Lines) /\ Len(u) = (IF 2 <= n + 1 THEN (n + 1) - 2 + 1 ELSE 0)
        /\ \A i \in 1 .. (n + 1) - 2 + 1 : u[i] = q[2 + i - 1]
    BY <1>4, SubSeqProperties
  <1> HIDE DEF u
  <1>6. Len(u) = n
    BY <1>1, <1>5
  <1>7. ASSUME NEW i \in 1 .. n PROVE u[i] = hs[i]
    <2>1. i \in 1 .. (n + 1) - 2 + 1 /\ 2 + i - 1 = 1 + i /\ 1 + i \in 1 .. Len(p)
      BY <1>1, <1>2
    <2>2. u[i] = q[1 + i]
      BY <1>5, <2>1
    <2>3. q[1 + i] = p[1 + i]
      BY <1>3, <2>1
    <2> QED BY <1>2, <2>2, <2>3
  <1>8. u = hs
    BY <1>1, <1>5, <1>6, <1>7, SeqEqual
  <1> QED BY <1>8 DEF u, q, p, s

\* What follows the head.
LEMMA CutRest ==
  ASSUME NEW p \in Seq(Text), NEW r \in Seq(Lines)
  PROVE  SubSeq(Ended(p, r), Len(p) + 1, Len(Ended(p, r))) = Cat(<<"empty">>, r)
  <1> DEFINE e == <<"empty">>
             w == Cat(e, r)
             q == Ended(p, r)
             m == Len(p) + 1
             v == SubSeq(q, m, Len(q))
  <1>1. e \in Seq(Lines) /\ Len(e) = 1 /\ e[1] = "empty" /\ Len(r) \in Nat /\ m \in Nat
    BY LineTypes
  <1> HIDE DEF e
  <1>2. w \in Seq(Lines) /\ Len(w) = 1 + Len(r) /\ w[1] = "empty"
        /\ \A i \in 1 .. Len(r) : w[1 + i] = r[i]
    <2>1. w \in Seq(Lines) /\ Joins(e, r, w)
      BY <1>1, CatProperties
    <2> HIDE DEF w
    <2> QED BY <1>1, <2>1 DEF Joins
  <1> HIDE DEF w
  <1>3. q \in Seq(Lines) /\ Len(q) = m + Len(r) /\ q[m] = "empty"
        /\ \A i \in 1 .. Len(r) : q[m + i] = r[i]
    BY Parts
  <1> HIDE DEF q, m
  <1>4. m \in Int /\ Len(q) \in Int
    BY <1>1, <1>3
  <1>5. \A i \in m .. Len(q) : q[i] \in Lines
    <2> SUFFICES ASSUME NEW i \in m .. Len(q) PROVE q[i] \in Lines
      OBVIOUS
    <2>1. CASE i = m
      BY <1>3, <2>1 DEF Lines
    <2>2. CASE i # m
      <3> DEFINE j == i - m
      <3>1. j \in 1 .. Len(r) /\ m + j = i
        BY <1>1, <1>3, <2>2
      <3> HIDE DEF j
      <3>2. q[i] = r[j]
        BY <1>3, <3>1
      <3> QED BY <3>1, <3>2
    <2> QED BY <2>1, <2>2
  <1>6. v \in Seq(Lines) /\ Len(v) = (IF m <= Len(q) THEN Len(q) - m + 1 ELSE 0)
        /\ \A i \in 1 .. Len(q) - m + 1 : v[i] = q[m + i - 1]
    BY <1>4, <1>5, SubSeqProperties
  <1> HIDE DEF v
  <1>7. Len(v) = Len(w) /\ Len(q) - m + 1 = 1 + Len(r)
    BY <1>1, <1>2, <1>3, <1>6
  <1>8. ASSUME NEW i \in 1 .. Len(v) PROVE v[i] = w[i]
    <2>1. i \in 1 .. Len(q) - m + 1
      BY <1>2, <1>7
    <2>2. v[i] = q[m + i - 1]
      BY <1>6, <2>1
    <2>3. CASE i = 1
      <3>1. m + i - 1 = m
        BY <1>1, <2>3
      <3> QED BY <1>2, <1>3, <2>2, <2>3, <3>1
    <2>4. CASE i # 1
      <3> DEFINE j == i - 1
      <3>1. j \in 1 .. Len(r) /\ m + i - 1 = m + j /\ i = 1 + j
        BY <1>1, <1>2, <1>7, <2>4
      <3> HIDE DEF j
      <3> QED BY <1>2, <1>3, <2>2, <3>1
    <2> QED BY <2>3, <2>4
  <1>9. v = w
    BY <1>2, <1>6, <1>7, <1>8, SeqEqual
  <1> QED BY <1>9 DEF v, w, q, m, e

\* The pieces that Rewritten joins, grouped as the code joins them.
LEMMA Regroup ==
  ASSUME NEW S, NEW o \in Seq(S), NEW w \in Seq(S), NEW m \in Seq(S), NEW c \in Seq(S),
         NEW e \in Seq(S), NEW r \in Seq(S)
  PROVE  Cat(Cat(Cat(Cat(o, w), m), c), Cat(e, r)) = Cat(o, Cat(Cat(Cat(w, m), Cat(c, e)), r))
  <1> DEFINE a == Cat(w, m)
             z == Cat(c, e)
             b == Cat(o, a)
             d == Cat(b, c)
             g == Cat(a, z)
  <1>1. Cat(Cat(o, w), m) = b /\ a \in Seq(S) /\ z \in Seq(S)
    BY CatProperties, CatAssociative
  <1> HIDE DEF a, z
  <1>2. b \in Seq(S) /\ g \in Seq(S)
    BY <1>1, CatProperties
  <1>3. Cat(b, z) = Cat(o, g)
    BY <1>1, CatAssociative
  <1> HIDE DEF b, g
  <1>4. d \in Seq(S) /\ Cat(d, e) = Cat(b, z)
    BY <1>2, CatProperties, CatAssociative DEF z
  <1>5. Cat(Cat(o, g), r) = Cat(o, Cat(g, r))
    BY <1>2, CatAssociative
  <1> HIDE DEF d
  <1>6. Cat(d, Cat(e, r)) = Cat(Cat(d, e), r)
    BY <1>4, CatAssociative
  <1>7. Cat(d, Cat(e, r)) = Cat(o, Cat(g, r))
    BY <1>3, <1>4, <1>5, <1>6
  <1>8. Cat(Cat(Cat(o, w), m), c) = d
    BY <1>1 DEF d
  <1> QED BY <1>7, <1>8, Zenon DEF g, a, z

\* The headers and the content as they are collected for the relay.
Gathered(hs, r) == Cat(Cat(Cat(Without(hs, "hop"), Missing(hs)), <<"pclose", "close", "empty">>), r)

\* Rewritten, of a request in its parts.
LEMMA RewrittenIs ==
  ASSUME NEW f \in Text, NEW hs \in Seq(Text), NEW r \in Seq(Lines), NEW credentials
  PROVE  Rewritten(credentials, Ended(Cat(<<f>>, hs), r)) = Cat(Opening(credentials), Gathered(hs, r))
  <1> DEFINE o == Opening(credentials)
             w == Without(hs, "hop")
             m == Missing(hs)
             c == <<"pclose", "close">>
             e == <<"empty">>
             z == <<"pclose", "close", "empty">>
             p == Cat(<<f>>, hs)
             q == Ended(p, r)
  <1>1. p \in Seq(Text) /\ Len(p) = Len(hs) + 1
    <2> DEFINE s == <<f>>
    <2>1. s \in Seq(Text) /\ Len(s) = 1 /\ Len(hs) \in Nat
      BY LineTypes
    <2> HIDE DEF s
    <2>2. Cat(s, hs) \in Seq(Text) /\ Len(Cat(s, hs)) = Len(s) + Len(hs)
      BY <2>1, CatProperties DEF Joins
    <2>3. Len(s) + Len(hs) = Len(hs) + 1
      BY <2>1
    <2> QED BY <2>2, <2>3 DEF s
  <1>2. SubSeq(q, 2, Len(hs) + 1) = hs
    BY CutHeaders
  <1> HIDE DEF p
  <1>3. FirstOf(q, {"empty"}) = Len(p) + 1 /\ SubSeq(q, Len(p) + 1, Len(q)) = Cat(e, r)
    BY <1>1, FirstEmpty, CutRest
  <1> HIDE DEF q
  <1>4. (Len(p) + 1) - 1 = Len(hs) + 1
    BY <1>1
  <1>5. Rewritten(credentials, q) = Cat(Cat(Cat(Cat(o, w), m), c), Cat(e, r))
    <2> DEFINE end == FirstOf(q, {"empty"})
    <2>1. SubSeq(q, 2, end - 1) = hs /\ SubSeq(q, end, Len(q)) = Cat(e, r)
      BY <1>2, <1>3, <1>4
    <2> QED BY <2>1, Zenon DEF Rewritten, Opening, Missing, Cat
  <1>6. o \in Seq(Lines) /\ m \in Seq(Lines) /\ c \in Seq(Lines) /\ e \in Seq(Lines)
        /\ z \in Seq(Lines) /\ Cat(c, e) = z
    BY LineTypes DEF Cat
  <1>7. w \in Seq(Lines)
    <2>1. w \in Seq(Text)
      BY WithoutType
    <2> QED BY <2>1, LineTypes
  <1> HIDE DEF o, w, m, c, e, z
  <1>8. Cat(Cat(Cat(Cat(o, w), m), c), Cat(e, r)) = Cat(o, Cat(Cat(Cat(w, m), z), r))
    BY <1>6, <1>7, Regroup
  <1> QED BY <1>5, <1>8, Zenon DEF o, w, m, z, q, p, Gathered

-----------------------------------------------------------------------------
(* What is read, kept and sent of a request.                               *)

InFlight == {"recv_request_headers", "request_sent", "reply_came"}

\* The head is being read: its firstline is f and its headers so far are hs.
Reading(d, q) ==
    \/ q = <<>> /\ ~ d.first /\ ~ d.has_host /\ d.buf = <<>>
    \/ /\ d.first
       /\ \E f \in Text, hs \in Seq(Text) :
            /\ q = Cat(<<f>>, hs)
            /\ d.has_host <=> Contains(hs, "host")
            /\ d.buf = Without(hs, "hop")

\* The head has been read and rewritten, and what followed it is kept.
Gathers(d, q) ==
    \E f \in Text, hs \in Seq(Text), r \in Seq(Lines) :
        q = Ended(Cat(<<f>>, hs), r) /\ d.buf = Gathered(hs, r)

\* The present relay has been sent what has been gathered.
Sent(d) == d.relay = "up" /\ \E credentials \in BOOLEAN : d.toRelay = Cat(Opening(credentials), d.buf)

LinesOK(d, q) == /\ d.st = "new" => Reading(d, q)
                 /\ d.st \in InFlight => Gathers(d, q)
                 /\ d.st \in {"request_sent", "reply_came"} => Sent(d)

\* A step that leaves the request alone.
SameRequest(d, e) ==
    /\ e.st = "new" => d.st = "new" /\ (e.first <=> d.first) /\ (e.has_host <=> d.has_host) /\ e.buf = d.buf
    /\ e.st \in InFlight => d.st \in InFlight /\ e.buf = d.buf
    /\ e.st \in {"request_sent", "reply_came"} =>
         d.st \in {"request_sent", "reply_came"} /\ e.relay = d.relay /\ e.toRelay = d.toRelay

\* Such a step keeps what is said of the request.
LEMMA SameRequestOK ==
  ASSUME NEW d, NEW e, NEW q, LinesOK(d, q), SameRequest(d, e)
  PROVE  LinesOK(e, q)
  <1>1. ASSUME e.st = "new" PROVE Reading(e, q)
    BY <1>1 DEF LinesOK, SameRequest, Reading
  <1>2. ASSUME e.st \in InFlight PROVE Gathers(e, q)
    BY <1>2 DEF LinesOK, SameRequest, Gathers
  <1>3. ASSUME e.st \in {"request_sent", "reply_came"} PROVE Sent(e)
    <2>1. e.buf = d.buf /\ Sent(d) /\ e.relay = d.relay /\ e.toRelay = d.toRelay
      BY <1>3 DEF LinesOK, SameRequest, InFlight
    <2> QED BY <2>1 DEF Sent
  <1> QED BY <1>1, <1>2, <1>3 DEF LinesOK

\* The states in which there is nothing to keep.
LEMMA OverOK ==
  ASSUME NEW e, NEW q, e.st \in {"relaying", "dropped", "crashed"}
  PROVE  LinesOK(e, q)
  BY DEF LinesOK, InFlight

\* A header is in a concatenation iff it is in one of the parts.
LEMMA ContainsCat ==
  ASSUME NEW S, NEW a \in Seq(S), NEW b \in Seq(S), NEW x
  PROVE  Contains(Cat(a, b), x) <=> Contains(a, x) \/ Contains(b, x)
  <1> DEFINE c == Cat(a, b)
  <1>1. c \in Seq(S) /\ Joins(a, b, c) /\ Len(a) \in Nat /\ Len(b) \in Nat
    BY CatProperties
  <1> HIDE DEF c
  <1>2. Len(c) = Len(a) + Len(b) /\ (\A i \in 1 .. Len(a) : c[i] = a[i])
        /\ (\A i \in 1 .. Len(b) : c[Len(a) + i] = b[i])
    BY <1>1 DEF Joins
  <1>3. ASSUME NEW i \in 1 .. Len(a), a[i] = x PROVE Contains(c, x)
    BY <1>1, <1>2, <1>3 DEF Contains
  <1>4. ASSUME NEW i \in 1 .. Len(b), b[i] = x PROVE Contains(c, x)
    <2>1. c[Len(a) + i] = x /\ Len(a) + i \in 1 .. Len(c)
      BY <1>1, <1>2, <1>4
    <2> QED BY <2>1 DEF Contains
  <1>5. ASSUME NEW i \in 1 .. Len(c), c[i] = x PROVE Contains(a, x) \/ Contains(b, x)
    <2>1. CASE i <= Len(a)
      BY <1>1, <1>2, <1>5, <2>1 DEF Contains
    <2>2. CASE ~ (i <= Len(a))
      <3> DEFINE j == i - Len(a)
      <3>1. j \in 1 .. Len(b) /\ i = Len(a) + j
        BY <1>1, <1>2, <2>2
      <3> HIDE DEF j
      <3>2. b[j] = x
        BY <1>2, <1>5, <3>1
      <3> QED BY <3>1, <3>2 DEF Contains
    <2> QED BY <2>1, <2>2
  <1>6. Contains(c, x) <=> Contains(a, x) \/ Contains(b, x)
    BY <1>3, <1>4, <1>5 DEF Contains
  <1> QED BY <1>6 DEF c

\* No header is in the empty sequence.
LEMMA ContainsEmpty ==
  ASSUME NEW x
  PROVE  ~ Contains(<<>>, x)
  BY DEF Contains

\* The headers among lines of the head.
HeadersOf(d, p) == IF d.first \/ p = <<>> THEN p ELSE Tail(p)

\* What TakeLines assigns.
LEMMA TakeLinesFields ==
  ASSUME NEW d, NEW p, IsClient(d)
  PROVE  /\ TakeLines(d, p).first <=> d.first \/ p # <<>>
         /\ TakeLines(d, p).has_host <=> d.has_host \/ Contains(HeadersOf(d, p), "host")
         /\ TakeLines(d, p).buf = Cat(d.buf, Without(HeadersOf(d, p), "hop"))
         /\ TakeLines(d, p).st = d.st
  <1> DEFINE x == HeadersOf(d, p)
             a == d.first \/ p # <<>>
             b == d.has_host \/ Contains(x, "host")
             c == d.buf \o Without(x, "hop")
  <1>1. TakeLines(d, p) = [d EXCEPT !.first = a, !.has_host = b, !.buf = c]
    BY Zenon DEF TakeLines, HeadersOf, Kept
  <1>2. c = Cat(d.buf, Without(x, "hop"))
    BY DEF Cat
  <1> DEFINE t == [d EXCEPT !.first = a, !.has_host = b, !.buf = c]
  <1> HIDE DEF a, b, c, x
  <1>3. t.first = a /\ t.has_host = b /\ t.buf = c /\ t.st = d.st
    BY DEF IsClient
  <1> HIDE DEF t
  <1>4. TakeLines(d, p) = t
    BY <1>1 DEF t
  <1> QED BY <1>2, <1>3, <1>4, Zenon DEF a, b, x

\* Lines of the head that are read make it longer.
LEMMA TakeLinesReads ==
  ASSUME NEW d, NEW q, NEW p \in Seq(Text), IsClient(d), Reading(d, q)
  PROVE  Reading(TakeLines(d, p), Cat(q, p))
  <1> DEFINE t == TakeLines(d, p)
             x == HeadersOf(d, p)
  <1>1. /\ t.first <=> d.first \/ p # <<>>
        /\ t.has_host <=> d.has_host \/ Contains(x, "host")
        /\ t.buf = Cat(d.buf, Without(x, "hop"))
    BY TakeLinesFields
  <1> HIDE DEF t
  <1>2. CASE q = <<>> /\ ~ d.first /\ ~ d.has_host /\ d.buf = <<>>
    <2>1. Cat(q, p) = p
      BY <1>2, CatEmpty
    <2>2. CASE p = <<>>
      <3>1. x = <<>> /\ Without(x, "hop") = <<>> /\ ~ Contains(x, "host") /\ Cat(<<>>, <<>>) = <<>>
        BY <2>2, WithoutEmpty, ContainsEmpty, CatEmpty DEF HeadersOf
      <3> HIDE DEF x
      <3>2. Cat(q, p) = <<>> /\ ~ t.first /\ ~ t.has_host /\ t.buf = <<>>
        BY <1>1, <1>2, <2>1, <2>2, <3>1
      <3> QED BY <3>2 DEF Reading, t
    <2>3. CASE p # <<>>
      <3> DEFINE f == Head(p)
      <3>1. x = Tail(p) /\ x \in Seq(Text) /\ f \in Text
        BY <1>2, <2>3, HeadTailProperties DEF HeadersOf
      <3>2. p = Cat(<<f>>, Tail(p))
        BY <2>3 DEF Cat
      <3>3. Without(x, "hop") \in Seq(Text)
        BY <3>1, WithoutType
      <3>4. Cat(<<>>, Without(x, "hop")) = Without(x, "hop")
        BY <3>3, CatEmpty
      <3> HIDE DEF x, f
      <3>5. t.first /\ Cat(q, p) = Cat(<<f>>, x) /\ (t.has_host <=> Contains(x, "host")) /\ t.buf = Without(x, "hop")
        BY <1>1, <1>2, <2>1, <2>3, <3>1, <3>2, <3>4
      <3> QED BY <3>1, <3>5 DEF Reading, t
    <2> QED BY <2>2, <2>3
  <1>3. CASE /\ d.first
             /\ \E f \in Text, hs \in Seq(Text) :
                  q = Cat(<<f>>, hs) /\ (d.has_host <=> Contains(hs, "host")) /\ d.buf = Without(hs, "hop")
    <2>1. PICK f \in Text, hs \in Seq(Text) :
             q = Cat(<<f>>, hs) /\ (d.has_host <=> Contains(hs, "host")) /\ d.buf = Without(hs, "hop")
      BY <1>3
    <2>2. x = p
      BY <1>3 DEF HeadersOf
    <2> DEFINE g == Cat(hs, p)
    <2>3. g \in Seq(Text)
      BY CatProperties
    <2>4. Contains(g, "host") <=> Contains(hs, "host") \/ Contains(p, "host")
      BY ContainsCat
    <2>5. Without(g, "hop") = Cat(Without(hs, "hop"), Without(p, "hop"))
      BY WithoutConcat DEF Cat
    <2>6. Cat(Cat(<<f>>, hs), p) = Cat(<<f>>, g)
      <3> DEFINE s == <<f>>
      <3>1. s \in Seq(Text)
        BY LineTypes
      <3> HIDE DEF s
      <3>2. Cat(Cat(s, hs), p) = Cat(s, Cat(hs, p))
        BY <3>1, CatAssociative
      <3> QED BY <3>2 DEF s
    <2> HIDE DEF g, x
    <2>7. t.first /\ Cat(q, p) = Cat(<<f>>, g) /\ (t.has_host <=> Contains(g, "host")) /\ t.buf = Without(g, "hop")
      BY <1>1, <1>3, <2>1, <2>2, <2>4, <2>5, <2>6
    <2> QED BY <2>3, <2>7 DEF Reading, t
  <1> QED BY <1>2, <1>3 DEF Reading

\* What is gathered is a sequence of lines.
LEMMA GatheredType ==
  ASSUME NEW hs \in Seq(Text), NEW r \in Seq(Lines)
  PROVE  Gathered(hs, r) \in Seq(Lines)
  <1> DEFINE w == Without(hs, "hop")
             m == Missing(hs)
             z == <<"pclose", "close", "empty">>
  <1>1. w \in Seq(Lines) /\ m \in Seq(Lines) /\ z \in Seq(Lines)
    <2>1. w \in Seq(Text)
      BY WithoutType
    <2> QED BY <2>1, LineTypes
  <1> HIDE DEF w, m, z
  <1>2. Cat(w, m) \in Seq(Lines)
    BY <1>1, CatProperties
  <1>3. Cat(Cat(w, m), z) \in Seq(Lines)
    BY <1>1, <1>2, CatProperties
  <1>4. Cat(Cat(Cat(w, m), z), r) \in Seq(Lines)
    BY <1>3, CatProperties
  <1> QED BY <1>4 DEF Gathered, w, m, z

\* client_buffer is a sequence of lines.
LEMMA GathersType ==
  ASSUME NEW d, NEW q, Gathers(d, q)
  PROVE  d.buf \in Seq(Lines)
  <1>1. PICK f \in Text, hs \in Seq(Text), r \in Seq(Lines) : d.buf = Gathered(hs, r)
    BY DEF Gathers
  <1> QED BY <1>1, GatheredType

\* More content.
LEMMA MoreContent ==
  ASSUME NEW p \in Seq(Text), NEW hs \in Seq(Text), NEW r \in Seq(Lines), NEW s \in Seq(Lines)
  PROVE  /\ Cat(r, s) \in Seq(Lines)
         /\ Cat(Ended(p, r), s) = Ended(p, Cat(r, s))
         /\ Cat(Gathered(hs, r), s) = Gathered(hs, Cat(r, s))
  <1>1. Cat(r, s) \in Seq(Lines)
    BY CatProperties
  <1>2. Cat(Ended(p, r), s) = Ended(p, Cat(r, s))
    <2> DEFINE e == <<"empty">>
               t == Cat(p, e)
    <2>1. p \in Seq(Lines) /\ e \in Seq(Lines)
      BY LineTypes
    <2> HIDE DEF e
    <2>2. t \in Seq(Lines)
      BY <2>1, CatProperties
    <2> HIDE DEF t
    <2>3. Cat(Cat(t, r), s) = Cat(t, Cat(r, s))
      BY <2>2, CatAssociative
    <2> QED BY <2>3 DEF Ended, t, e
  <1>3. Cat(Gathered(hs, r), s) = Gathered(hs, Cat(r, s))
    <2> DEFINE w == Without(hs, "hop")
               m == Missing(hs)
               z == <<"pclose", "close", "empty">>
               t == Cat(Cat(w, m), z)
    <2>1. w \in Seq(Lines) /\ m \in Seq(Lines) /\ z \in Seq(Lines)
      <3>1. w \in Seq(Text)
        BY WithoutType
      <3> QED BY <3>1, LineTypes
    <2> HIDE DEF w, m, z
    <2>2. Cat(w, m) \in Seq(Lines)
      BY <2>1, CatProperties
    <2>3. t \in Seq(Lines)
      BY <2>1, <2>2, CatProperties
    <2> HIDE DEF t
    <2>4. Cat(Cat(t, r), s) = Cat(t, Cat(r, s))
      BY <2>3, CatAssociative
    <2> QED BY <2>4 DEF Gathered, t, w, m, z
  <1> QED BY <1>1, <1>2, <1>3

\* What httpr_client_read_content assigns.
LEMMA ContentFields ==
  ASSUME NEW d, NEW s, IsClient(d)
  PROVE  /\ httpr_client_read_content(d, s).st = d.st
         /\ httpr_client_read_content(d, s).relay = d.relay
         /\ httpr_client_read_content(d, s).buf = Cat(d.buf, s)
         /\ httpr_client_read_content(d, s).toRelay =
              IF d.relay = "up" /\ d.st \in {"request_sent", "reply_came"}
              THEN Cat(d.toRelay, s) ELSE d.toRelay
  BY DEF httpr_client_read_content, IsClient, Cat

\* Content is kept, and follows what the relay has been sent.
LEMMA ContentOK ==
  ASSUME NEW d, NEW q, NEW s \in Seq(Lines), IsClient(d), d.st \in InFlight, LinesOK(d, q)
  PROVE  LinesOK(httpr_client_read_content(d, s), Cat(q, s))
  <1> DEFINE e == httpr_client_read_content(d, s)
  <1>1. /\ e.st = d.st /\ e.relay = d.relay /\ e.buf = Cat(d.buf, s)
        /\ e.toRelay = IF d.relay = "up" /\ d.st \in {"request_sent", "reply_came"}
                       THEN Cat(d.toRelay, s) ELSE d.toRelay
    BY ContentFields
  <1> HIDE DEF e
  <1>2. Gathers(e, Cat(q, s))
    <2>1. PICK f \in Text, hs \in Seq(Text), r \in Seq(Lines) :
             q = Ended(Cat(<<f>>, hs), r) /\ d.buf = Gathered(hs, r)
      BY DEF LinesOK, Gathers
    <2> DEFINE p == Cat(<<f>>, hs)
    <2>2. p \in Seq(Text)
      <3> DEFINE k == <<f>>
      <3>1. k \in Seq(Text)
        BY LineTypes
      <3> HIDE DEF k
      <3>2. Cat(k, hs) \in Seq(Text)
        BY <3>1, CatProperties
      <3> QED BY <3>2 DEF k
    <2> HIDE DEF p
    <2>3. /\ Cat(r, s) \in Seq(Lines)
          /\ Cat(Ended(p, r), s) = Ended(p, Cat(r, s))
          /\ Cat(Gathered(hs, r), s) = Gathered(hs, Cat(r, s))
      BY <2>2, MoreContent
    <2>4. Cat(q, s) = Ended(p, Cat(r, s)) /\ e.buf = Gathered(hs, Cat(r, s))
      BY <1>1, <2>1, <2>3 DEF p
    <2> QED BY <2>3, <2>4 DEF Gathers, p
  <1>3. ASSUME d.st \in {"request_sent", "reply_came"} PROVE Sent(e)
    <2>1. PICK credentials \in BOOLEAN : d.toRelay = Cat(Opening(credentials), d.buf)
      BY <1>3 DEF LinesOK, Sent
    <2> DEFINE o == Opening(credentials)
    <2>2. d.relay = "up" /\ o \in Seq(Lines) /\ d.buf \in Seq(Lines)
      BY <1>3, LineTypes, GathersType DEF LinesOK, Sent
    <2> HIDE DEF o
    <2>3. Cat(Cat(o, d.buf), s) = Cat(o, Cat(d.buf, s))
      BY <2>2, CatAssociative
    <2>4. e.relay = "up" /\ e.toRelay = Cat(o, e.buf)
      BY <1>1, <1>3, <2>1, <2>2, <2>3 DEF o
    <2> QED BY <2>4 DEF Sent, o
  <1>4. d.st # "new"
    BY DEF InFlight
  <1> QED BY <1>1, <1>2, <1>3, <1>4 DEF LinesOK, e

\* The end of the head.
LEMMA EndHeadGathers ==
  ASSUME NEW d, NEW q, NEW r \in Seq(Lines), IsClient(d), Reading(d, q), d.first
  PROVE  Gathers(httpr_client_read_content(EndHead(d), r), Ended(q, r))
  <1> DEFINE e == EndHead(d)
             c == httpr_client_read_content(e, r)
  <1>1. PICK f \in Text, hs \in Seq(Text) :
           q = Cat(<<f>>, hs) /\ (d.has_host <=> Contains(hs, "host")) /\ d.buf = Without(hs, "hop")
    BY DEF Reading
  <1> DEFINE m == IF d.has_host THEN <<>> ELSE <<"host">>
             z == <<"pclose", "close", "empty">>
             b == (d.buf \o m) \o z
  <1>2. e = [d EXCEPT !.buf = b, !.st = "recv_request_headers"]
    BY Zenon DEF EndHead
  <1>3. m = Missing(hs)
    BY <1>1 DEF Missing
  <1>4. b = Cat(Cat(d.buf, m), z)
    BY DEF Cat
  <1> HIDE DEF m, z, b
  <1>5. e.buf = b /\ IsClient(e)
    BY <1>2 DEF IsClient
  <1> HIDE DEF e
  <1>6. c.buf = Cat(b, r)
    BY <1>5, ContentFields
  <1> HIDE DEF c
  <1>7. c.buf = Gathered(hs, r)
    BY <1>1, <1>3, <1>4, <1>6 DEF Gathered, z
  <1> QED BY <1>1, <1>7 DEF Gathers, c, e

\* Where the lines of the head end in a segment, and what the callback makes of it then.
EndsAt(seg, n) == /\ \A i \in 1 .. n : seg[i] # "empty"
                  /\ n = Len(seg) \/ seg[n + 1] = "empty"

Outcomes(d, seg, n) ==
    LET t == TakeLines(d, SubSeq(seg, 1, n))
    IN  IF n = Len(seg) THEN {t}
        ELSE {Drop(t)} \cup
             (IF ~ t.first THEN {}
              ELSE redsocks_connect_relay(
                     httpr_client_read_content(EndHead(t), SubSeq(seg, n + 2, Len(seg)))))

\* There is such a place in every segment.
LEMMA HeadEnds ==
  ASSUME NEW seg \in Seq(Lines)
  PROVE  \E n \in 0 .. Len(seg) : EndsAt(seg, n)
  <1> DEFINE at == {i \in 1 .. Len(seg) : seg[i] = "empty"}
  <1>1. Len(seg) \in Nat
    OBVIOUS
  <1>2. CASE at = {}
    <2>1. EndsAt(seg, Len(seg))
      BY <1>1, <1>2 DEF EndsAt
    <2> QED BY <1>1, <2>1
  <1>3. CASE at # {}
    <2>1. at \in SUBSET Nat
      BY <1>1
    <2>2. PICK m \in at : \A k \in at : m <= k
      <3> HIDE DEF at
      <3> QED BY <1>3, <2>1, LeastNumber
    <2> DEFINE n == m - 1
    <2>3. n \in 0 .. Len(seg) /\ n + 1 = m /\ n < m /\ seg[m] = "empty"
      BY <1>1, <2>2
    <2>4. \A i \in 1 .. n : seg[i] # "empty"
      BY <1>1, <2>2
    <2> HIDE DEF n
    <2>5. EndsAt(seg, n)
      BY <2>3, <2>4 DEF EndsAt
    <2> QED BY <2>3, <2>5
  <1> QED BY <1>2, <1>3

\* httpr_client_read_cb finds it.
LEMMA ReadNew ==
  ASSUME NEW d, NEW seg \in Seq(Lines), d.st = "new", NEW e \in httpr_client_read_cb(d, seg)
  PROVE  \E n \in 0 .. Len(seg) : EndsAt(seg, n) /\ e \in Outcomes(d, seg, n)
  <1> DEFINE n == CHOOSE k \in 0 .. Len(seg) : EndsAt(seg, k)
  <1>1. n \in 0 .. Len(seg) /\ EndsAt(seg, n)
    BY HeadEnds, Zenon
  <1>2. httpr_client_read_cb(d, seg) = Outcomes(d, seg, n)
    BY Zenon DEF httpr_client_read_cb, Outcomes, EndsAt
  <1> HIDE DEF n
  <1> QED BY <1>1, <1>2

\* The parts of a segment.
LEMMA SegmentParts ==
  ASSUME NEW seg \in Seq(Lines), NEW n \in 0 .. Len(seg), EndsAt(seg, n)
  PROVE  /\ SubSeq(seg, 1, n) \in Seq(Text)
         /\ n = Len(seg) => SubSeq(seg, 1, n) = seg
         /\ n # Len(seg) => /\ SubSeq(seg, n + 2, Len(seg)) \in Seq(Lines)
                            /\ seg = Ended(SubSeq(seg, 1, n), SubSeq(seg, n + 2, Len(seg)))
  <1> DEFINE p == SubSeq(seg, 1, n)
             r == SubSeq(seg, n + 2, Len(seg))
             l == Len(seg)
  <1>1. l \in Nat /\ n \in Nat /\ n <= l /\ 1 \in Int /\ n \in Int /\ n + 2 \in Int /\ l \in Int
    OBVIOUS
  <1>2. \A i \in 1 .. l : seg[i] \in Lines
    OBVIOUS
  <1>3. \A i \in 1 .. n : seg[i] \in Text
    BY <1>1, <1>2 DEF EndsAt, Text
  <1>4. p \in Seq(Text) /\ Len(p) = (IF 1 <= n THEN n - 1 + 1 ELSE 0)
        /\ \A i \in 1 .. n - 1 + 1 : p[i] = seg[1 + i - 1]
    BY <1>1, <1>3, SubSeqProperties
  <1>5. n = l => p = seg
    BY SubSeqFull
  <1>6. ASSUME n # l PROVE r \in Seq(Lines) /\ seg = Ended(p, r)
    <2>1. \A i \in n + 2 .. l : seg[i] \in Lines
      BY <1>1, <1>2
    <2>2. r \in Seq(Lines) /\ Len(r) = (IF n + 2 <= l THEN l - (n + 2) + 1 ELSE 0)
          /\ \A i \in 1 .. l - (n + 2) + 1 : r[i] = seg[(n + 2) + i - 1]
      BY <1>1, <2>1, SubSeqProperties
    <2> DEFINE q == Ended(p, r)
    <2> HIDE DEF p, r
    <2>3. /\ q \in Seq(Lines) /\ Len(q) = Len(p) + 1 + Len(r)
          /\ \A i \in 1 .. Len(p) : q[i] = p[i]
          /\ q[Len(p) + 1] = "empty"
          /\ \A i \in 1 .. Len(r) : q[(Len(p) + 1) + i] = r[i]
      BY <1>4, <2>2, Parts
    <2> HIDE DEF q
    <2>4. Len(p) = n /\ Len(r) = l - (n + 1) /\ Len(q) = l /\ n < l
      <3>1. Len(p) = n /\ n < l
        BY <1>1, <1>4, <1>6
      <3>2. Len(r) = l - (n + 1)
        BY <1>1, <2>2, <3>1
      <3> HIDE DEF l
      <3>3. Len(q) = l
        BY <1>1, <2>3, <3>1, <3>2
      <3> QED BY <3>1, <3>2, <3>3
    <2>5. seg[n + 1] = "empty"
      BY <1>6 DEF EndsAt
    <2>6. ASSUME NEW i \in 1 .. l PROVE q[i] = seg[i]
      <3>1. CASE i <= n
        <4>1. i \in 1 .. Len(p) /\ i \in 1 .. n - 1 + 1 /\ 1 + i - 1 = i
          BY <1>1, <2>4, <3>1
        <4>2. p[i] = seg[i]
          BY <1>4, <4>1
        <4> QED BY <2>3, <4>1, <4>2
      <3>2. CASE i = n + 1
        BY <2>3, <2>4, <2>5, <3>2
      <3>3. CASE i > n + 1
        <4> DEFINE j == i - (n + 1)
        <4>1. j \in 1 .. Len(r) /\ j \in 1 .. l - (n + 2) + 1 /\ i = (Len(p) + 1) + j /\ (n + 2) + j - 1 = i
          BY <1>1, <2>4, <3>3
        <4> HIDE DEF j
        <4>2. r[j] = seg[i]
          BY <2>2, <4>1
        <4>3. q[i] = r[j]
          BY <2>3, <4>1
        <4> QED BY <4>2, <4>3
      <3> QED BY <1>1, <3>1, <3>2, <3>3
    <2>7. q = seg
      BY <2>3, <2>4, <2>6, SeqEqual
    <2> QED BY <2>2, <2>7 DEF q
  <1> HIDE DEF p, r
  <1>7. p \in Seq(Text)
    BY <1>4
  <1> QED BY <1>5, <1>6, <1>7 DEF p, r, l

\* redsocks_connect_relay keeps client_buffer.
LEMMA ConnectFields ==
  ASSUME NEW d, IsClient(d), NEW e \in redsocks_connect_relay(d)
  PROVE  e.st = "dropped" \/ (e.st = d.st /\ e.buf = d.buf)
  <1>1. Drop(d).st = "dropped"
    BY DropIs
  <1> DEFINE c == [d EXCEPT !.relay = "connecting", !.toRelay = <<>>, !.input = <<>>]
  <1>2. c.st = d.st /\ c.buf = d.buf
    BY DEF IsClient
  <1> HIDE DEF c
  <1>3. e = c \/ e = Drop(d)
    BY DEF redsocks_connect_relay, c
  <1> QED BY <1>1, <1>2, <1>3

\* A head that is being read has no empty line.
LEMMA ReadingType ==
  ASSUME NEW d, NEW q, Reading(d, q)
  PROVE  q \in Seq(Text)
  <1>1. CASE q = <<>>
    BY <1>1
  <1>2. ASSUME NEW f \in Text, NEW hs \in Seq(Text), q = Cat(<<f>>, hs) PROVE q \in Seq(Text)
    <2> DEFINE s == <<f>>
    <2>1. s \in Seq(Text)
      BY LineTypes
    <2> HIDE DEF s
    <2>2. Cat(s, hs) \in Seq(Text)
      BY <2>1, CatProperties
    <2> QED BY <1>2, <2>2 DEF s
  <1> QED BY <1>1, <1>2 DEF Reading

\* The head of a request is read, in one segment or in several.
LEMMA ReadNewOK ==
  ASSUME NEW d, NEW q, NEW seg \in Seq(Lines), IsClient(d), d.st = "new", LinesOK(d, q),
         NEW e \in httpr_client_read_cb(d, seg)
  PROVE  LinesOK(e, Cat(q, seg))
  <1>1. PICK n \in 0 .. Len(seg) : EndsAt(seg, n) /\ e \in Outcomes(d, seg, n)
    BY ReadNew
  <1> DEFINE p == SubSeq(seg, 1, n)
             r == SubSeq(seg, n + 2, Len(seg))
             t == TakeLines(d, p)
             u == EndHead(t)
             v == httpr_client_read_content(u, r)
  <1>2. p \in Seq(Text) /\ (n = Len(seg) => p = seg)
        /\ (n # Len(seg) => r \in Seq(Lines) /\ seg = Ended(p, r))
    BY <1>1, SegmentParts
  <1>3. \/ n = Len(seg) /\ e = t
        \/ e = Drop(t)
        \/ n # Len(seg) /\ t.first /\ e \in redsocks_connect_relay(v)
    BY <1>1, Zenon DEF Outcomes
  <1> HIDE DEF p, r
  <1>4. Reading(t, Cat(q, p)) /\ IsClient(t) /\ t.st = "new"
    BY <1>2, TakeLinesReads, TakeLinesIs DEF LinesOK
  <1> HIDE DEF t
  <1>5. CASE n = Len(seg) /\ e = t
    BY <1>2, <1>4, <1>5 DEF LinesOK, InFlight
  <1>6. CASE e = Drop(t)
    BY <1>4, <1>6, DropIs, OverOK
  <1>7. CASE n # Len(seg) /\ t.first /\ e \in redsocks_connect_relay(v)
    <2>1. Gathers(v, Ended(Cat(q, p), r))
      BY <1>2, <1>4, <1>7, EndHeadGathers
    <2>2. IsClient(u) /\ u.st = "recv_request_headers"
      BY <1>4, EndHeadIs
    <2> HIDE DEF u
    <2>3. IsClient(v) /\ v.st = "recv_request_headers"
      BY <2>2, ContentIs
    <2> HIDE DEF v
    <2>4. e.st = "dropped" \/ (e.st = v.st /\ e.buf = v.buf)
      BY <1>7, <2>3, ConnectFields
    <2>5. Cat(q, seg) = Ended(Cat(q, p), r)
      <3> DEFINE k == <<"empty">>
                 b == Cat(p, k)
      <3>1. q \in Seq(Lines) /\ p \in Seq(Lines) /\ k \in Seq(Lines) /\ r \in Seq(Lines)
        BY <1>2, <1>7, LineTypes, ReadingType DEF LinesOK
      <3> HIDE DEF k
      <3>2. b \in Seq(Lines) /\ Cat(Cat(q, p), k) = Cat(q, b)
        BY <3>1, CatProperties, CatAssociative
      <3> HIDE DEF b
      <3>3. Cat(q, Cat(b, r)) = Cat(Cat(q, b), r)
        BY <3>1, <3>2, CatAssociative
      <3>4. seg = Cat(b, r) /\ Ended(Cat(q, p), r) = Cat(Cat(Cat(q, p), k), r)
        BY <1>2, <1>7 DEF Ended, b, k
      <3> QED BY <3>2, <3>3, <3>4
    <2>6. CASE e.st = "dropped"
      BY <2>6, OverOK
    <2>7. CASE e.st = v.st /\ e.buf = v.buf
      <3>1. Gathers(e, Cat(q, seg))
        BY <2>1, <2>5, <2>7 DEF Gathers
      <3> QED BY <2>3, <2>7, <3>1 DEF LinesOK
    <2> QED BY <2>4, <2>6, <2>7
  <1> QED BY <1>3, <1>5, <1>6, <1>7

\* A segment is a sequence of lines.
LEMMA SegmentType ==
  ASSUME NEW seg \in Segment
  PROVE  seg \in Seq(Lines)
  <1>1. PICK n \in 1 .. MaxSegment : seg \in [1 .. n -> HeadLine \cup {"empty", "body"}]
    BY DEF Segment
  <1>2. HeadLine \cup {"empty", "body"} \subseteq Lines
    BY DEF Lines
  <1>3. seg \in [1 .. n -> Lines]
    BY <1>1, <1>2
  <1>4. n \in Nat
    BY HttpRelayAssumption
  <1> QED BY <1>3, <1>4

\* The client's EOF leaves the request alone.
LEMMA CloseFields ==
  ASSUME NEW d, NEW a, IsClient(d)
  PROVE  SameRequest(d, [d EXCEPT !.aborted = a])
  <1> DEFINE e == [d EXCEPT !.aborted = a]
  <1>1. e.st = d.st /\ e.first = d.first /\ e.has_host = d.has_host /\ e.buf = d.buf
        /\ e.relay = d.relay /\ e.toRelay = d.toRelay
    BY DEF IsClient
  <1> HIDE DEF e
  <1>2. SameRequest(d, e)
    BY <1>1 DEF SameRequest
  <1> QED BY <1>2 DEF e

\* The head of the reply is collected elsewhere.
LEMMA CollectFields ==
  ASSUME NEW d, IsClient(d)
  PROVE  \/ CollectHead(d).st = "relaying"
         \/ /\ CollectHead(d).st = d.st /\ CollectHead(d).buf = d.buf
            /\ CollectHead(d).relay = d.relay /\ CollectHead(d).toRelay = d.toRelay
  <1> DEFINE i == FirstOf(d.input, {"empty"})
             n == IF i = 0 THEN Len(d.input) ELSE i
             b == d.rbuf \o SubSeq(d.input, 1, n)
             r == SubSeq(d.input, n + 1, Len(d.input))
             e == [d EXCEPT !.rbuf = b, !.input = r]
             c == [e EXCEPT !.st = "relaying", !.toClient = e.toClient \o e.rbuf]
  <1>1. CollectHead(d) = IF i = 0 THEN e ELSE c
    BY DEF CollectHead, IsClient
  <1> HIDE DEF i, b, r
  <1>2. IsClient(e) /\ e.st = d.st /\ e.buf = d.buf /\ e.relay = d.relay /\ e.toRelay = d.toRelay
    BY DEF IsClient
  <1> HIDE DEF e
  <1>3. c.st = "relaying"
    BY <1>2 DEF IsClient
  <1> HIDE DEF c
  <1> QED BY <1>1, <1>2, <1>3

\* Two clients that differ in what has been read from the relay only.
SameClient(d, e) == /\ IsClient(e) /\ e.st = d.st /\ e.buf = d.buf
                    /\ e.relay = d.relay /\ e.toRelay = d.toRelay

\* A refusal leaves what is kept for the second try alone.
LEMMA RefusedSame ==
  ASSUME NEW e, SameClient(h, e), h.st = "request_sent", Refused(e)
  PROVE  SameRequest(h, h')
  <1>0. IsClient(e) /\ e.buf = h.buf
    BY DEF SameClient
  <1>1. IsClient(Drop(e)) /\ Drop(e).st = "dropped"
    BY <1>0, DropIs
  <1>2. CASE h' = Drop(e)
    BY <1>1, <1>2 DEF SameRequest, InFlight
  <1>3. ASSUME NEW st \in {"unchallenged", "crashed"}, h' = [Drop(e) EXCEPT !.st = st]
        PROVE  SameRequest(h, h')
    <2> DEFINE d == Drop(e)
    <2> HIDE DEF d
    <2>1. h'.st = st
      BY <1>1, <1>3 DEF IsClient, d
    <2> QED BY <2>1 DEF SameRequest, InFlight
  <1>4. CASE h' \in redsocks_connect_relay([e EXCEPT !.st = "recv_request_headers", !.rbuf = <<>>])
    <2> DEFINE d == [e EXCEPT !.st = "recv_request_headers", !.rbuf = <<>>]
    <2>1. IsClient(d) /\ d.st = "recv_request_headers" /\ d.buf = e.buf
      BY <1>0 DEF IsClient
    <2> HIDE DEF d
    <2>2. h'.st = "dropped" \/ (h'.st = d.st /\ h'.buf = d.buf)
      BY <1>4, <2>1, ConnectFields DEF d
    <2> QED BY <1>0, <2>1, <2>2 DEF SameRequest, InFlight
  <1> QED BY <1>2, <1>3, <1>4 DEF Refused

\* Whatever the relay answers, what it has been sent and what is kept for another try stay.
LEMMA ReadSame ==
  ASSUME Inv, NEW n, httpr_relay_read_cb(n)
  PROVE  SameRequest(h, h')
  <1> DEFINE I == h.input \o SubSeq(env.reply, env.sofar + 1, env.sofar + n)
             d == [h EXCEPT !.rbuf = <<>>, !.input = I]
  <1>1. IsClient(h) /\ h.st \in {"request_sent", "reply_came"}
    BY DEF Inv, TypeOK, httpr_relay_read_cb
  <1>2. IF h.st = "request_sent" THEN StatusLine(d) ELSE h' = CollectHead(d) /\ UNCHANGED auth
    BY Zenon DEF httpr_relay_read_cb
  <1> HIDE DEF I
  <1>3. SameClient(h, d)
    BY <1>1 DEF IsClient, SameClient
  <1> HIDE DEF d
  <1>4. CASE h.st = "reply_came"
    <2>1. h' = CollectHead(d)
      BY <1>2, <1>4
    <2>2. \/ CollectHead(d).st = "relaying"
          \/ /\ CollectHead(d).st = d.st /\ CollectHead(d).buf = d.buf
             /\ CollectHead(d).relay = d.relay /\ CollectHead(d).toRelay = d.toRelay
      BY <1>3, CollectFields DEF SameClient
    <2> QED BY <1>3, <1>4, <2>1, <2>2 DEF SameRequest, SameClient, InFlight
  <1>5. CASE h.st = "request_sent"
    <2> DEFINE line == Head(d.input)
               e == [d EXCEPT !.rbuf = <<line>>, !.input = Tail(d.input)]
               c == [e EXCEPT !.st = "reply_came"]
    <2>1. Refused(e) \/ h' = CollectHead(c) \/ h' = Drop(e) \/ h' = e
      <3>1. StatusLine(d)
        BY <1>2, <1>5
      <3>2. e = [d EXCEPT !.rbuf = <<line>>, !.input = Tail(@)]
        OBVIOUS
      <3> HIDE DEF e, c
      <3> QED BY <3>1, <3>2, Zenon DEF StatusLine, c
    <2> HIDE DEF line
    <2>2. SameClient(h, e)
      BY <1>3 DEF SameClient, IsClient
    <2> HIDE DEF e
    <2>3. IsClient(c) /\ c.st = "reply_came" /\ c.buf = h.buf /\ c.relay = h.relay /\ c.toRelay = h.toRelay
      BY <2>2 DEF SameClient, IsClient
    <2> HIDE DEF c
    <2>4. CASE Refused(e)
      BY <1>5, <2>2, <2>4, RefusedSame
    <2>5. CASE h' = CollectHead(c)
      <3>1. \/ CollectHead(c).st = "relaying"
            \/ /\ CollectHead(c).st = c.st /\ CollectHead(c).buf = c.buf
               /\ CollectHead(c).relay = c.relay /\ CollectHead(c).toRelay = c.toRelay
        BY <2>3, CollectFields
      <3> QED BY <1>5, <2>3, <2>5, <3>1 DEF SameRequest, InFlight
    <2>6. CASE h' = Drop(e)
      <3>1. Drop(e).st = "dropped"
        BY <2>2, DropIs DEF SameClient
      <3> QED BY <2>6, <3>1 DEF SameRequest, InFlight
    <2>7. CASE h' = e
      BY <1>5, <2>2, <2>7 DEF SameRequest, SameClient, InFlight
    <2> QED BY <2>1, <2>4, <2>5, <2>6, <2>7
  <1> QED BY <1>1, <1>4, <1>5

\* What has been read of the request, what is kept of it and what has been written of it.
RequestInv == LinesOK(h, env.request)

\* Nothing has been read at first.
LEMMA InitRequest == Init => RequestInv
  <1> SUFFICES ASSUME Init PROVE LinesOK(h, env.request)
    BY DEF RequestInv
  <1>1. h.st = "new" /\ ~ h.first /\ ~ h.has_host /\ h.buf = <<>> /\ env.request = <<>>
    BY DEF Init, Start, Outside
  <1>2. Reading(h, env.request)
    BY <1>1 DEF Reading
  <1> QED BY <1>1, <1>2 DEF LinesOK, InFlight

\* A segment from the client, before, between and after the tries.
LEMMA ClientSendsRequest ==
  ASSUME Inv, RequestInv, ClientSends
  PROVE  RequestInv'
  <1> DEFINE q == env.request
  <1>1. PICK seg \in Segment : h' \in httpr_client_read_cb(h, seg) /\ env' = [env EXCEPT !.request = @ \o seg]
    BY DEF ClientSends
  <1>2. seg \in Seq(Lines)
    BY SegmentType
  <1>3. env'.request = Cat(q, seg)
    <2> DEFINE c == q \o seg
    <2>1. env' = [env EXCEPT !.request = c]
      BY <1>1
    <2> HIDE DEF c
    <2>2. env'.request = c
      BY <2>1 DEF Inv, TypeOK, OutsideOK, IsOutside
    <2> QED BY <2>2 DEF c, Cat
  <1>4. IsClient(h) /\ LinesOK(h, q) /\ (h.st = "new" \/ h.st \in InFlight)
    BY DEF Inv, TypeOK, RequestInv, ClientSends, InFlight
  <1> HIDE DEF q
  <1>5. CASE h.st = "new"
    <2>1. LinesOK(h', Cat(q, seg))
      BY <1>1, <1>2, <1>4, <1>5, ReadNewOK
    <2> QED BY <1>3, <2>1 DEF RequestInv
  <1>6. CASE h.st \in InFlight
    <2>1. h' = httpr_client_read_content(h, seg)
      BY <1>1, <1>6 DEF httpr_client_read_cb, InFlight
    <2>2. LinesOK(h', Cat(q, seg))
      BY <1>2, <1>4, <1>6, <2>1, ContentOK
    <2> QED BY <1>3, <2>2 DEF RequestInv
  <1> QED BY <1>4, <1>5, <1>6

\* A relay that turns writable is sent what has been gathered.
LEMMA WriteRequest ==
  ASSUME Inv, RequestInv, httpr_relay_write_cb
  PROVE  RequestInv'
  <1>1. IsClient(h) /\ LinesOK(h, env.request) /\ h.st = "recv_request_headers" /\ auth.query \in BOOLEAN
    BY DEF Inv, TypeOK, AuthType, RequestInv, httpr_relay_write_cb
  <1>2. env'.request = env.request
    BY DEF Inv, TypeOK, OutsideOK, IsOutside, httpr_relay_write_cb
  <1>3. CASE h' = Drop(h)
    <2>1. h'.st = "dropped"
      BY <1>1, <1>3, DropIs
    <2> QED BY <1>2, <2>1, OverOK DEF RequestInv
  <1>4. ASSUME NEW credentials \in BOOLEAN,
               h' = [h EXCEPT !.relay = "up", !.st = "request_sent", !.toRelay = Request(credentials)]
        PROVE  LinesOK(h', env.request)
    <2> DEFINE w == Request(credentials)
    <2>1. w = Cat(Opening(credentials), h.buf)
      BY DEF Request, Cat, Opening
    <2> HIDE DEF w
    <2>2. h'.relay = "up" /\ h'.st = "request_sent" /\ h'.toRelay = w /\ h'.buf = h.buf
      BY <1>1, <1>4 DEF IsClient, w
    <2>3. Sent(h')
      BY <2>1, <2>2 DEF Sent
    <2>4. Gathers(h, env.request)
      BY <1>1 DEF LinesOK, InFlight
    <2>5. Gathers(h', env.request)
      BY <2>2, <2>4 DEF Gathers
    <2> QED BY <2>2, <2>3, <2>5 DEF LinesOK
  <1>5. ASSUME NEW credentials \in {auth.query, FALSE},
               h' = [h EXCEPT !.relay = "up", !.st = "request_sent", !.toRelay = Request(credentials)]
        PROVE  RequestInv'
    <2>1. credentials \in BOOLEAN
      BY <1>1, <1>5
    <2> QED BY <1>2, <1>4, <1>5, <2>1 DEF RequestInv
  <1> QED BY <1>3, <1>5 DEF httpr_relay_write_cb

\* RequestInv is inductive, given Inv.
LEMMA NextRequest == Inv /\ RequestInv /\ [Next]_vars => RequestInv'
  <1> SUFFICES ASSUME Inv, RequestInv, [Next]_vars PROVE RequestInv'
    OBVIOUS
  <1>0. IsClient(h) /\ IsOutside(env) /\ LinesOK(h, env.request)
    BY DEF Inv, TypeOK, OutsideOK, RequestInv
  <1>1. CASE UNCHANGED vars
    BY <1>1 DEF vars, RequestInv
  <1>2. CASE ClientCloses
    <2>1. env'.request = env.request /\ h' = [h EXCEPT !.aborted = h.relay # "up"]
      BY <1>0, <1>2 DEF ClientCloses, IsOutside
    <2>2. SameRequest(h, h')
      BY <1>0, <2>1, CloseFields
    <2> QED BY <1>0, <2>1, <2>2, SameRequestOK DEF RequestInv
  <1>3. CASE Read
    <2>1. PICK n \in 1 .. 4 : httpr_relay_read_cb(n)
      BY <1>3 DEF Read
    <2>2. SameRequest(h, h')
      BY <2>1, ReadSame
    <2>3. env'.request = env.request
      BY <1>0, <2>1 DEF httpr_relay_read_cb, IsOutside
    <2> QED BY <1>0, <2>2, <2>3, SameRequestOK DEF RequestInv
  <1>4. CASE RelayRest
    <2>1. h'.st = "relaying"
      BY <1>0, <1>4 DEF RelayRest, IsClient
    <2> QED BY <2>1, OverOK DEF RequestInv
  <1>5. CASE RelayError
    <2>1. h'.st = "dropped"
      BY <1>0, <1>5, DropIs DEF RelayError
    <2> QED BY <2>1, OverOK DEF RequestInv
  <1>6. CASE ProxyAnswers \/ ChallengeExpires \/ OtherConnection
    <2>1. h' = h /\ env'.request = env.request
      BY <1>0, <1>6 DEF ProxyAnswers, ChallengeExpires, OtherConnection, IsOutside
    <2> QED BY <1>0, <2>1 DEF RequestInv
  <1> QED BY <1>1, <1>2, <1>3, <1>4, <1>5, <1>6, ClientSendsRequest, WriteRequest DEF Next

-----------------------------------------------------------------------------
(* The theorems.                                                           *)

\* The inductive invariant holds in every state.
THEOREM InvHolds == Spec => []Inv
  BY InitInv, NextInv, PTL DEF Spec

\* Whatever challenge is stored when a connection begins and whatever the proxy forgets,
\* httpr_relay_write_cb sends at most two requests for it and one more for every change
\* that another connection makes to the shared http_auth, for requests of any length.
THEOREM TriesBoundedHolds == Spec => []TriesBounded
  <1>1. Inv => TriesBounded
    BY DEF Inv, Counts, Bounded, TriesBounded
  <1> QED BY <1>1, InvHolds, PTL

\* A reply whose head came in one read reaches the client from its first line on.
THEOREM ReplyIntactHolds == Spec => []ReplyIntact
  <1>1. Inv => ReplyIntact
    <2> SUFFICES ASSUME Inv, h.st = "relaying", ~ env.split
                 PROVE  h.toClient \o h.input = SubSeq(env.reply, 1, env.sofar)
      BY DEF ReplyIntact
    <2>1. /\ env.reply = Plain
          /\ \/ env.sofar = 3 /\ h.toClient = <<"200", "header", "empty">> /\ h.input = <<>>
             \/ env.sofar = 4 /\ h.toClient = <<"200", "header", "empty">> /\ h.input = <<"content">>
             \/ env.sofar = 4 /\ h.toClient = Plain /\ h.input = <<>>
      BY DEF Inv, Whole
    <2> QED BY <2>1, PlainWhole, Zenon
  <1> QED BY <1>1, InvHolds, PTL

\* However the client's segments fall before, between and after the two tries, every relay
\* that has been sent the request has been sent all of it, rewritten, and exactly once: for
\* requests and segments of any length.
THEOREM RequestWholeHolds == Spec => []RequestWhole
  <1>1. RequestInv => RequestWhole
    <2> SUFFICES ASSUME RequestInv, h.st \in {"request_sent", "reply_came"}
                 PROVE  \E credentials \in BOOLEAN : h.toRelay = Rewritten(credentials, env.request)
      BY DEF RequestWhole
    <2>1. Gathers(h, env.request) /\ Sent(h)
      BY DEF RequestInv, LinesOK, InFlight
    <2>2. PICK credentials \in BOOLEAN : h.toRelay = Cat(Opening(credentials), h.buf)
      BY <2>1 DEF Sent
    <2>3. PICK f \in Text, hs \in Seq(Text), r \in Seq(Lines) :
             env.request = Ended(Cat(<<f>>, hs), r) /\ h.buf = Gathered(hs, r)
      BY <2>1 DEF Gathers
    <2>4. Rewritten(credentials, Ended(Cat(<<f>>, hs), r)) = Cat(Opening(credentials), Gathered(hs, r))
      BY RewrittenIs
    <2> QED BY <2>2, <2>3, <2>4
  <1>2. Inv /\ RequestInv /\ [Next]_vars => RequestInv'
    BY NextRequest
  <1> QED BY <1>1, <1>2, InitRequest, InvHolds, PTL DEF Spec
=============================================================================

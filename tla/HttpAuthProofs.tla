--------------------------- MODULE HttpAuthProofs ---------------------------
(***************************************************************************)
(* Proofs about HttpAuth: for any number of connections, no request        *)
(* repeats a nonce count and no refused challenge is answered again, in    *)
(* whatever order the challenges of different connections arrive.          *)
(*                                                                         *)
(* Both rest on a challenge being stored once: while a 407 is under way    *)
(* its challenge is nowhere else, neither stored nor answered nor refused. *)
(***************************************************************************)
EXTENDS HttpAuth, TLAPS

ConnType == [st : {"idle", "new", "sent", "open", "dropped"}, query : Nat, nc : Nat,
             reply : Int, refused : SUBSET Nat, failed : BOOLEAN, replay : BOOLEAN]

TypeOK == /\ auth \in [query : Nat, count : Nat]
          /\ conn \in [Conns -> ConnType]
          /\ nonce \in Nat \ {0} /\ oldest \in Nat
          /\ used \in SUBSET (Nat \X Nat)

\* The challenges of a connection were issued by the proxy.
Issued(x) == /\ x.query <= nonce /\ x.reply <= nonce /\ (\A q \in x.refused : q <= nonce)
             /\ x.st # "sent" => x.reply = NoReply

AllIssued == /\ auth.query <= nonce
             /\ \A u \in used : u[1] <= nonce
             /\ \A c \in Conns : Issued(conn[c])

\* Connection x does not hold challenge q, except perhaps as one under way to it.
Unknown(x, q) == x.query # q /\ q \notin x.refused

\* The challenge under way to c is nowhere else.
Single(c) == LET q == conn[c].reply
             IN  q > 0 => /\ auth.query # q
                          /\ \A u \in used : u[1] # q
                          /\ \A b \in Conns : Unknown(conn[b], q) /\ (b # c => conn[b].reply # q)

AllSingle == Digest /\ Fresh => \A c \in Conns : Single(c)

\* What the connection will answer, or is answering, was not refused before.
Unrefused(x) == /\ x.st = "idle" => x.refused = {}
                /\ x.st = "new" => auth.query \notin x.refused
                /\ x.st = "sent" => x.query \notin x.refused

AllUnrefused == Digest /\ Fresh => \A c \in Conns : Unrefused(conn[c])

\* The counts used with the stored nonce are at most last_auth_count.
Behind(u) == u[1] = auth.query => u[2] <= auth.count

Counts == Digest /\ Fresh => \A u \in used : Behind(u)

Unrepeated == Digest /\ Fresh => \A c \in Conns : conn[c].replay = FALSE

Inv == TypeOK /\ AllIssued /\ AllSingle /\ AllUnrefused /\ Counts /\ Unrepeated

-----------------------------------------------------------------------------

\* A connection changes, but for the worse in nothing that it knows, and the stored
\* challenge stays.
LEMMA ConnStep ==
  ASSUME Inv, NEW c \in Conns, NEW x \in ConnType,
         conn' = [conn EXCEPT ![c] = x], UNCHANGED <<auth, nonce, oldest, used>>,
         Issued(x), Digest /\ Fresh => Unrefused(x), x.replay = conn[c].replay, x.reply \in {NoReply, Ok2xx},
         x.query = conn[c].query, x.refused \subseteq conn[c].refused \cup {x.query}
  PROVE  Inv'
  <1>1. /\ conn' \in [Conns -> ConnType] /\ conn'[c] = x
        /\ \A b \in Conns : b # c => conn'[b] = conn[b]
    BY DEF Inv, TypeOK
  <1>2. TypeOK'
    BY <1>1 DEF Inv, TypeOK
  <1>3. AllIssued'
    BY <1>1 DEF Inv, AllIssued, Issued
  <1>4. AllSingle'
    <2> SUFFICES ASSUME Digest, Fresh, NEW b \in Conns, conn'[b].reply > 0
                 PROVE  Single(b)'
      BY DEF AllSingle, Single
    <2>1. b # c /\ conn'[b] = conn[b]
      BY <1>1 DEF NoReply, Ok2xx
    <2>2. Single(b) /\ conn[b].reply > 0
      BY <2>1 DEF Inv, AllSingle
    <2>3. Unknown(conn[c], conn[b].reply)
      BY <2>2 DEF Single
    <2>4. Unknown(x, conn[b].reply) /\ x.reply # conn[b].reply
      BY <2>2, <2>3 DEF Unknown, NoReply, Ok2xx
    <2> QED BY <1>1, <2>1, <2>2, <2>4 DEF Single, Unknown
  <1>5. AllUnrefused'
    BY <1>1 DEF Inv, AllUnrefused, Unrefused
  <1>6. Counts' /\ Unrepeated'
    BY <1>1 DEF Inv, Counts, Behind, Unrepeated
  <1> QED BY <1>2, <1>3, <1>4, <1>5, <1>6 DEF Inv

\* Fields of a connection, one changed after the other.
LEMMA StFields ==
  ASSUME NEW y \in ConnType, NEW s \in {"idle", "new", "sent", "open", "dropped"}
  PROVE  LET x == [y EXCEPT !.st = s]
         IN  /\ x \in ConnType /\ x.st = s /\ x.query = y.query /\ x.reply = y.reply
             /\ x.refused = y.refused /\ x.replay = y.replay
  BY DEF ConnType

LEMMA ReplyFields ==
  ASSUME NEW y \in ConnType, NEW r \in Int
  PROVE  LET x == [y EXCEPT !.reply = r]
         IN  /\ x \in ConnType /\ x.st = y.st /\ x.query = y.query /\ x.reply = r
             /\ x.refused = y.refused /\ x.replay = y.replay
  BY DEF ConnType

\* The connection ends, or its relay is started.
LEMMA EndedInv ==
  ASSUME Inv, NEW c \in Conns, NEW s \in {"open", "dropped"},
         conn' = [conn EXCEPT ![c] = [@ EXCEPT !.st = s, !.reply = NoReply]],
         UNCHANGED <<auth, nonce, oldest, used>>
  PROVE  Inv'
  <1> DEFINE y == conn[c]
             x == [y EXCEPT !.st = s, !.reply = NoReply]
  <1>1. y \in ConnType /\ Issued(y)
    BY DEF Inv, TypeOK, AllIssued
  <1>2. /\ x \in ConnType /\ x.st = s /\ x.query = y.query /\ x.reply = NoReply
        /\ x.refused = y.refused /\ x.replay = y.replay
    <2> DEFINE z == [y EXCEPT !.st = s]
    <2> HIDE DEF y
    <2>1. /\ z \in ConnType /\ z.st = s /\ z.query = y.query /\ z.refused = y.refused
          /\ z.replay = y.replay
      BY <1>1 DEF ConnType
    <2>2. x = [z EXCEPT !.reply = NoReply]
      OBVIOUS
    <2> HIDE DEF z
    <2> QED BY <2>1, <2>2, ReplyFields DEF NoReply
  <1>3. conn' = [conn EXCEPT ![c] = x]
    BY DEF Inv, TypeOK
  <1> HIDE DEF x
  <1>4. Issued(x) /\ Unrefused(x)
    BY <1>1, <1>2 DEF Issued, Unrefused, NoReply, Inv, TypeOK
  <1> QED BY <1>2, <1>3, <1>4, ConnStep

LEMMA AcceptInv ==
  ASSUME Inv, NEW c \in Conns, Accept(c)
  PROVE  Inv'
  <1> DEFINE y == conn[c]
             x == [y EXCEPT !.st = "new"]
  <1>1. y \in ConnType /\ Issued(y) /\ y.st = "idle"
    BY DEF Inv, TypeOK, AllIssued, Accept
  <1>2. /\ x \in ConnType /\ x.st = "new" /\ x.query = y.query /\ x.reply = NoReply
        /\ x.refused = y.refused /\ x.replay = y.replay
    BY <1>1, StFields DEF Issued
  <1>3. conn' = [conn EXCEPT ![c] = x] /\ UNCHANGED <<auth, nonce, oldest, used>>
    BY DEF Inv, TypeOK, Accept
  <1>4. Digest /\ Fresh => y.refused = {}
    BY <1>1 DEF Inv, AllUnrefused, Unrefused
  <1> HIDE DEF x
  <1>5. Issued(x)
    BY <1>1, <1>2 DEF Issued
  <1>6. Digest /\ Fresh => Unrefused(x)
    BY <1>2, <1>4 DEF Unrefused
  <1> QED BY <1>2, <1>3, <1>5, <1>6, ConnStep

LEMMA GrantInv ==
  ASSUME Inv, NEW c \in Conns, Grant(c)
  PROVE  Inv'
  <1> DEFINE y == conn[c]
             x == [y EXCEPT !.reply = Ok2xx]
  <1>1. y \in ConnType /\ Issued(y) /\ y.st = "sent" /\ nonce \in Nat
    BY DEF Inv, TypeOK, AllIssued, Grant
  <1>2. /\ x \in ConnType /\ x.st = "sent" /\ x.query = y.query /\ x.reply = Ok2xx
        /\ x.refused = y.refused /\ x.replay = y.replay
    BY <1>1, ReplyFields DEF Ok2xx
  <1>3. conn' = [conn EXCEPT ![c] = x] /\ UNCHANGED <<auth, nonce, oldest, used>>
    BY DEF Inv, TypeOK, Grant
  <1> HIDE DEF x
  <1>4. Issued(x)
    BY <1>1, <1>2 DEF Issued, Ok2xx
  <1>5. Digest /\ Fresh => Unrefused(x)
    BY <1>1, <1>2 DEF Inv, AllUnrefused, Unrefused
  <1> QED BY <1>2, <1>3, <1>4, <1>5, ConnStep

\* What a refused connection becomes.
LEMMA RefusedFields ==
  ASSUME Inv, NEW c \in Conns
  PROVE  LET y == conn[c]
             x == Refused(y)
         IN  /\ x \in ConnType /\ x.st = y.st /\ x.query = y.query /\ x.replay = y.replay
             /\ x.reply = NoReply /\ x.refused = y.refused \cup ({y.query} \ {0})
  <1> DEFINE y == conn[c]
             t == y.refused \cup ({y.query} \ {0})
             z == [y EXCEPT !.refused = t]
  <1>1. y \in ConnType
    BY DEF Inv, TypeOK
  <1>2. t \in SUBSET Nat
    BY <1>1 DEF ConnType
  <1>3. Refused(y) = [z EXCEPT !.reply = NoReply]
    BY DEF Refused
  <1> HIDE DEF y, t
  <1>4. z \in ConnType /\ z.st = y.st /\ z.query = y.query /\ z.replay = y.replay /\ z.refused = t
    BY <1>1, <1>2 DEF ConnType
  <1> HIDE DEF z
  <1>5. LET x == [z EXCEPT !.reply = NoReply]
        IN  /\ x \in ConnType /\ x.st = z.st /\ x.query = z.query /\ x.reply = NoReply
            /\ x.refused = z.refused /\ x.replay = z.replay
    BY <1>4, ReplyFields DEF NoReply
  <1> QED BY <1>3, <1>4, <1>5 DEF y, t

LEMMA DroppedInv ==
  ASSUME Inv, NEW c \in Conns, AuthFailed(c) \/ AuthImpossible(c)
  PROVE  Inv'
  <1> DEFINE r == Refused(conn[c])
             x1 == [r EXCEPT !.st = "dropped", !.failed = TRUE]
             x2 == [r EXCEPT !.st = "dropped"]
  <1>1. /\ r \in ConnType /\ r.replay = conn[c].replay /\ r.query = conn[c].query
        /\ r.reply = NoReply /\ r.refused \subseteq conn[c].refused \cup {conn[c].query}
    BY RefusedFields
  <1>2. conn' \in {[conn EXCEPT ![c] = x1], [conn EXCEPT ![c] = x2]}
        /\ UNCHANGED <<auth, nonce, oldest, used>>
    BY DEF AuthFailed, AuthImpossible, Inv, TypeOK
  <1> HIDE DEF r
  <1>3. /\ x1 \in ConnType /\ x1.st = "dropped" /\ x1.replay = r.replay
        /\ x1.query = r.query /\ x1.reply = r.reply /\ x1.refused = r.refused
    BY <1>1 DEF ConnType
  <1>4. /\ x2 \in ConnType /\ x2.st = "dropped" /\ x2.replay = r.replay
        /\ x2.query = r.query /\ x2.reply = r.reply /\ x2.refused = r.refused
    BY <1>1, StFields
  <1> HIDE DEF x1, x2
  <1>5. ASSUME NEW x \in ConnType, x.st = "dropped", x.query = r.query, x.reply = r.reply,
               x.refused = r.refused
        PROVE  Issued(x) /\ Unrefused(x)
    <2>1. Issued(conn[c]) /\ nonce \in Nat
      BY DEF Inv, TypeOK, AllIssued
    <2> QED BY <1>1, <1>5, <2>1 DEF Issued, Unrefused, NoReply
  <1>6. CASE conn' = [conn EXCEPT ![c] = x1]
    BY <1>1, <1>2, <1>3, <1>5, <1>6, ConnStep
  <1>7. CASE conn' = [conn EXCEPT ![c] = x2]
    BY <1>1, <1>2, <1>4, <1>5, <1>7, ConnStep
  <1> QED BY <1>2, <1>6, <1>7

\* The challenge of a 407 is a new one, so it is nowhere else yet.
LEMMA RefuseInv ==
  ASSUME Inv, NEW c \in Conns, Refuse(c)
  PROVE  Inv'
  <1> DEFINE y == conn[c]
             n == nonce'
             x == [y EXCEPT !.reply = n]
  <1>1. /\ y \in ConnType /\ Issued(y) /\ y.st = "sent" /\ nonce \in Nat \ {0}
        /\ n = (IF Digest /\ Fresh THEN nonce + 1 ELSE nonce)
        /\ auth' = auth /\ oldest' = oldest /\ used' = used
    BY DEF Inv, TypeOK, AllIssued, Refuse
  <1>2. n \in Nat \ {0} /\ nonce <= n /\ (Digest /\ Fresh => n = nonce + 1)
    BY <1>1
  <1>3. conn' = [conn EXCEPT ![c] = x]
    BY DEF Inv, TypeOK, Refuse
  <1> HIDE DEF n
  <1>4. /\ x \in ConnType /\ x.st = "sent" /\ x.query = y.query /\ x.reply = n
        /\ x.refused = y.refused /\ x.replay = y.replay
    BY <1>1, <1>2, ReplyFields
  <1> HIDE DEF x
  <1>5. /\ conn' \in [Conns -> ConnType] /\ conn'[c] = x
        /\ \A b \in Conns : b # c => conn'[b] = conn[b]
    BY <1>3, <1>4 DEF Inv, TypeOK
  <1>6. TypeOK'
    BY <1>1, <1>2, <1>5 DEF Inv, TypeOK, n
  <1>7. AllIssued'
    <2>1. auth'.query <= n /\ \A u \in used' : u[1] <= n
      <3>1. auth.query \in Nat /\ \A u \in used : u[1] \in Nat
        BY DEF Inv, TypeOK
      <3> QED BY <1>1, <1>2, <3>1 DEF Inv, AllIssued
    <2>2. ASSUME NEW b \in Conns PROVE Issued(conn[b])'
      <3>1. /\ Issued(conn[b]) /\ conn[b].query \in Nat /\ conn[b].reply \in Int
            /\ conn[b].refused \subseteq Nat
        BY DEF Inv, TypeOK, AllIssued, ConnType
      <3>2. CASE b = c
        BY <1>1, <1>2, <1>4, <1>5, <3>1, <3>2 DEF Issued, n
      <3>3. CASE b # c
        BY <1>1, <1>2, <1>5, <3>1, <3>3 DEF Issued, n
      <3> QED BY <3>2, <3>3
    <2> QED BY <2>1, <2>2 DEF AllIssued, n
  <1>8. AllSingle'
    <2> SUFFICES ASSUME Digest, Fresh, NEW b \in Conns, conn'[b].reply > 0
                 PROVE  Single(b)'
      BY DEF AllSingle, Single
    <2>1. \A d \in Conns : conn'[d].query = conn[d].query /\ conn'[d].refused = conn[d].refused
      BY <1>4, <1>5
    <2>2. CASE b = c
      <3>1. conn'[b].reply = n /\ n = nonce + 1
        BY <1>2, <1>4, <1>5, <2>2
      <3>2. auth.query # n /\ \A u \in used : u[1] # n
        <4>1. auth.query \in Nat /\ \A u \in used : u[1] \in Nat
          BY DEF Inv, TypeOK
        <4> QED BY <1>1, <3>1, <4>1 DEF Inv, AllIssued
      <3>3. ASSUME NEW d \in Conns PROVE Unknown(conn'[d], n) /\ conn[d].reply # n
        <4>1. /\ Issued(conn[d]) /\ conn[d].query \in Nat /\ conn[d].reply \in Int
              /\ conn[d].refused \subseteq Nat
          BY DEF Inv, TypeOK, AllIssued, ConnType
        <4>2. conn[d].query # n /\ conn[d].reply # n /\ n \notin conn[d].refused
          BY <1>1, <3>1, <4>1 DEF Issued
        <4>3. Unknown(conn'[d], n)
          BY <2>1, <4>2 DEF Unknown
        <4> QED BY <4>2, <4>3
      <3>4. \A d \in Conns : d # b => conn'[d].reply # n
        BY <1>5, <2>2, <3>3
      <3> HIDE DEF n
      <3>5. auth'.query # n /\ \A u \in used' : u[1] # n
        BY <1>1, <3>2
      <3>6. \A d \in Conns : conn'[d].query # n /\ n \notin conn'[d].refused
        BY <3>3 DEF Unknown
      <3> QED BY <3>1, <3>4, <3>5, <3>6 DEF Single, Unknown
    <2>3. CASE b # c
      <3>1. conn'[b] = conn[b] /\ Single(b) /\ conn[b].reply > 0
        BY <1>5, <2>3 DEF Inv, AllSingle
      <3>2. x.reply # conn[b].reply
        <4>1. conn[b].reply <= nonce /\ conn[b].reply \in Int
          BY DEF Inv, TypeOK, AllIssued, Issued, ConnType
        <4> QED BY <1>1, <1>2, <1>4, <4>1
      <3> QED BY <1>1, <1>5, <2>1, <3>1, <3>2 DEF Single, Unknown
    <2> QED BY <2>2, <2>3
  <1>9. AllUnrefused'
    <2> SUFFICES ASSUME Digest, Fresh, NEW b \in Conns PROVE Unrefused(conn[b])'
      BY DEF AllUnrefused
    <2>1. Unrefused(conn[b])
      BY DEF Inv, AllUnrefused
    <2> QED BY <1>1, <1>4, <1>5, <2>1 DEF Unrefused
  <1>10. Counts' /\ Unrepeated'
    BY <1>1, <1>4, <1>5 DEF Inv, Counts, Behind, Unrepeated
  <1> QED BY <1>6, <1>7, <1>8, <1>9, <1>10 DEF Inv

LEMMA MkconnectInv ==
  ASSUME Inv, NEW c \in Conns, httpc_mkconnect(c)
  PROVE  Inv'
  <1> DEFINE y == conn[c]
             k == auth.count + 1
             id == <<auth.query, k>>
             v == (y.replay \/ (auth.query # 0 /\ id \in used))
             x == [y EXCEPT !.st = "sent", !.query = auth.query, !.nc = k, !.replay = v]
  <1>1. y \in ConnType /\ y.st = "new" /\ auth.query \in Nat /\ auth.count \in Nat /\ k \in Nat
        /\ Issued(y) /\ y.reply = NoReply
    BY DEF Inv, TypeOK, httpc_mkconnect, AllIssued, Issued
  <1>2. Counted(auth) = [auth EXCEPT !.count = k] /\ Counted(auth).query = auth.query
        /\ Counted(auth).count = k /\ Counted(auth) \in [query : Nat, count : Nat]
    BY <1>1 DEF Counted, Inv, TypeOK
  <1>3. /\ auth' = Counted(auth)
        /\ conn' = [conn EXCEPT ![c] = x]
        /\ used' = IF auth.query # 0 THEN used \cup {id} ELSE used
        /\ nonce' = nonce /\ oldest' = oldest
    <2> DEFINE a == Counted(auth)
               z == [y EXCEPT !.st = "sent", !.query = a.query, !.nc = a.count,
                              !.replay = y.replay \/ (a.query # 0 /\ <<a.query, a.count>> \in used)]
    <2>1. conn' = [conn EXCEPT ![c] = z]
      BY Zenon DEF httpc_mkconnect
    <2>2. z = x
      BY <1>1, <1>2 DEF ConnType
    <2>3. /\ auth' = a
          /\ used' = IF a.query # 0 THEN used \cup {<<a.query, a.count>>} ELSE used
          /\ nonce' = nonce /\ oldest' = oldest
      BY DEF httpc_mkconnect
    <2> QED BY <1>2, <2>1, <2>2, <2>3
  <1>4. v \in BOOLEAN
    BY <1>1 DEF ConnType
  <1> HIDE DEF v
  <1>5. /\ x \in ConnType /\ x.st = "sent" /\ x.query = auth.query /\ x.refused = y.refused
        /\ x.replay = v /\ x.reply = y.reply
    BY <1>1, <1>4 DEF ConnType
  <1> HIDE DEF x
  <1>6. /\ conn' \in [Conns -> ConnType] /\ conn'[c] = x
        /\ \A b \in Conns : b # c => conn'[b] = conn[b]
    BY <1>3, <1>5 DEF Inv, TypeOK
  <1>7. auth'.query = auth.query /\ auth'.count = auth.count + 1
    BY <1>2, <1>3
  <1>8. TypeOK'
    BY <1>1, <1>2, <1>3, <1>6 DEF Inv, TypeOK
  <1>9. AllIssued'
    <2>1. auth'.query <= nonce' /\ \A u \in used' : u[1] <= nonce'
      BY <1>3, <1>7 DEF Inv, AllIssued
    <2>2. ASSUME NEW b \in Conns PROVE Issued(conn[b])'
      <3>1. Issued(conn[b]) /\ auth.query <= nonce
        BY DEF Inv, AllIssued
      <3> QED BY <1>1, <1>3, <1>5, <1>6, <3>1 DEF Issued
    <2> QED BY <2>1, <2>2 DEF AllIssued
  <1>10. AllSingle'
    <2> SUFFICES ASSUME Digest, Fresh, NEW b \in Conns, conn'[b].reply > 0
                 PROVE  Single(b)'
      BY DEF AllSingle, Single
    <2>1. conn'[b].reply = conn[b].reply
      BY <1>5, <1>6
    <2> DEFINE q == conn[b].reply
    <2>2. /\ auth.query # q /\ (\A u \in used : u[1] # q)
          /\ \A d \in Conns : Unknown(conn[d], q) /\ (d # b => conn[d].reply # q)
      BY <2>1 DEF Inv, AllSingle, Single
    <2> HIDE DEF q
    <2>3. auth'.query # q /\ \A u \in used' : u[1] # q
      BY <1>3, <1>7, <2>2
    <2>4. \A d \in Conns : conn'[d].reply = conn[d].reply
      BY <1>5, <1>6
    <2>5. \A d \in Conns : conn'[d].query # q /\ q \notin conn'[d].refused
      BY <1>5, <1>6, <2>2 DEF Unknown
    <2> QED BY <2>1, <2>2, <2>3, <2>4, <2>5 DEF Single, Unknown, q
  <1>11. AllUnrefused'
    <2> SUFFICES ASSUME Digest, Fresh, NEW b \in Conns PROVE Unrefused(conn[b])'
      BY DEF AllUnrefused
    <2>1. Unrefused(conn[b])
      BY DEF Inv, AllUnrefused
    <2>2. CASE b = c
      BY <1>1, <1>5, <1>6, <2>1, <2>2 DEF Unrefused
    <2>3. CASE b # c
      BY <1>6, <1>7, <2>1, <2>3 DEF Unrefused
    <2> QED BY <2>2, <2>3
  <1>12. ASSUME NEW u \in used, Behind(u) PROVE Behind(u)'
    <2>1. u[1] \in Nat /\ u[2] \in Nat
      BY DEF Inv, TypeOK
    <2> QED BY <1>1, <1>7, <1>12, <2>1 DEF Behind
  <1>13. Counts'
    <2>1. \A u \in {id} : Behind(u)'
      BY <1>1, <1>7 DEF Behind
    <2> QED BY <1>3, <1>12, <2>1 DEF Inv, Counts
  \* The request is a new one: its count is above all that were used with its nonce.
  <1>14. Unrepeated'
    <2> SUFFICES ASSUME Digest, Fresh PROVE \A b \in Conns : conn'[b].replay = FALSE
      BY DEF Unrepeated
    <2>1. id \notin used
      <3> SUFFICES ASSUME id \in used PROVE FALSE
        OBVIOUS
      <3>1. Behind(id)
        BY DEF Inv, Counts
      <3> QED BY <1>1, <3>1 DEF Behind
    <2>2. x.replay = FALSE
      BY <1>5, <2>1 DEF v, Inv, Unrepeated
    <2> QED BY <1>6, <2>2 DEF Inv, Unrepeated
  <1> QED BY <1>8, <1>9, <1>10, <1>11, <1>13, <1>14 DEF Inv

\* The challenge that was under way is stored: no request has used it, and nobody was
\* refused for it.
LEMMA AuthRetryInv ==
  ASSUME Inv, NEW c \in Conns, AuthRetry(c)
  PROVE  Inv'
  <1> DEFINE r == Refused(conn[c])
             x == [r EXCEPT !.st = "new"]
             q == conn[c].reply
  <1>1. /\ r \in ConnType /\ r.replay = conn[c].replay /\ r.query = conn[c].query
        /\ r.reply = NoReply /\ r.refused = conn[c].refused \cup ({conn[c].query} \ {0})
    BY RefusedFields
  <1>2. /\ conn' = [conn EXCEPT ![c] = x] /\ auth' = [query |-> q, count |-> 0]
        /\ nonce' = nonce /\ oldest' = oldest /\ used' = used
        /\ conn[c].st = "sent" /\ q > 0
    BY DEF AuthRetry, Refusal, Challenge, Inv, TypeOK
  <1>3. q \in Nat /\ q <= nonce /\ Issued(conn[c])
    BY <1>2 DEF Inv, TypeOK, ConnType, AllIssued, Issued
  <1> HIDE DEF r, q
  <1>4. x \in ConnType /\ x.st = "new" /\ x.query = r.query /\ x.reply = r.reply
        /\ x.replay = r.replay /\ x.refused = r.refused
    BY <1>1, StFields
  <1> HIDE DEF x
  <1>5. /\ conn' \in [Conns -> ConnType] /\ conn'[c] = x
        /\ \A b \in Conns : b # c => conn'[b] = conn[b]
    BY <1>2, <1>4 DEF Inv, TypeOK
  <1>6. auth'.query = q /\ auth'.count = 0 /\ auth' \in [query : Nat, count : Nat]
    BY <1>2, <1>3
  <1>7. TypeOK'
    BY <1>2, <1>5, <1>6 DEF Inv, TypeOK
  <1>8. AllIssued'
    <2>1. Issued(conn[c])'
      <3>1. NoReply <= nonce
        BY DEF Inv, TypeOK, NoReply
      <3> QED BY <1>1, <1>2, <1>3, <1>4, <1>5, <3>1 DEF Issued
    <2>2. \A b \in Conns : b # c => Issued(conn[b])'
      BY <1>2, <1>5 DEF Inv, AllIssued, Issued
    <2>3. auth'.query <= nonce' /\ \A u \in used' : u[1] <= nonce'
      BY <1>2, <1>3, <1>6 DEF Inv, AllIssued
    <2> QED BY <2>1, <2>2, <2>3 DEF AllIssued
  <1>9. ASSUME Digest, Fresh
        PROVE  /\ \A u \in used : u[1] # q
               /\ \A b \in Conns : Unknown(conn[b], q) /\ (b # c => conn[b].reply # q)
    BY <1>2, <1>9 DEF Inv, AllSingle, Single, q
  <1>10. AllSingle'
    <2> SUFFICES ASSUME Digest, Fresh, NEW b \in Conns, conn'[b].reply > 0
                 PROVE  Single(b)'
      BY DEF AllSingle, Single
    <2>1. b # c /\ conn'[b] = conn[b]
      BY <1>1, <1>4, <1>5 DEF NoReply
    <2> DEFINE p == conn[b].reply
    <2>2. /\ p # q /\ (\A u \in used : u[1] # p) /\ p > 0
          /\ \A d \in Conns : Unknown(conn[d], p) /\ (d # b => conn[d].reply # p)
      BY <1>9, <2>1 DEF Inv, AllSingle, Single
    <2> HIDE DEF p
    <2>3. Unknown(x, p) /\ x.reply # p
      BY <1>1, <1>4, <2>2 DEF Unknown, NoReply
    <2>4. \A d \in Conns : Unknown(conn'[d], p) /\ (d # b => conn'[d].reply # p)
      BY <1>5, <2>2, <2>3
    <2> QED BY <1>2, <1>6, <2>1, <2>2, <2>4 DEF Single, Unknown, p
  <1>11. AllUnrefused'
    <2> SUFFICES ASSUME Digest, Fresh, NEW b \in Conns PROVE Unrefused(conn[b])'
      BY DEF AllUnrefused
    <2>1. Unrefused(conn[b]) /\ Unknown(conn[b], q)
      BY <1>9 DEF Inv, AllUnrefused
    <2>2. CASE b = c
      BY <1>1, <1>4, <1>5, <1>6, <2>1, <2>2 DEF Unrefused, Unknown
    <2>3. CASE b # c
      BY <1>5, <1>6, <2>1, <2>3 DEF Unrefused, Unknown
    <2> QED BY <2>2, <2>3
  <1>12. Counts' /\ Unrepeated'
    <2>1. Counts'
      BY <1>2, <1>6, <1>9 DEF Counts, Behind
    <2>2. Unrepeated'
      BY <1>1, <1>4, <1>5 DEF Inv, Unrepeated
    <2> QED BY <2>1, <2>2
  <1> QED BY <1>7, <1>8, <1>10, <1>11, <1>12 DEF Inv

\* The inductive invariant of challenges and counts holds in every state.
THEOREM InvHolds == Spec => []Inv
  <1>1. Init => Inv
    <2> SUFFICES ASSUME Init PROVE Inv
      OBVIOUS
    <2>1. /\ Idle \in ConnType /\ Idle.st = "idle" /\ Idle.refused = {} /\ Idle.replay = FALSE
          /\ Idle.query = 0 /\ Idle.reply = NoReply
      BY DEF Idle, ConnType, NoReply
    <2>2. \A c \in Conns : conn[c] = Idle
      BY DEF Init
    <2>3. TypeOK
      BY <2>1 DEF Init, TypeOK
    <2>4. AllIssued
      BY <2>1, <2>2 DEF Init, AllIssued, Issued, NoReply
    <2>5. AllSingle
      BY <2>1, <2>2 DEF AllSingle, Single, NoReply
    <2> QED BY <2>1, <2>2, <2>3, <2>4, <2>5 DEF Init, Inv, AllUnrefused, Unrefused, Counts, Unrepeated
  <1>2. Inv /\ [Next]_vars => Inv'
    <2> SUFFICES ASSUME Inv, [Next]_vars PROVE Inv'
      OBVIOUS
    <2>1. CASE UNCHANGED vars
      BY <2>1 DEF vars, Inv, TypeOK, AllIssued, Issued, AllSingle, Single, Unknown, AllUnrefused,
                  Unrefused, Counts, Behind, Unrepeated
    <2>2. CASE NonceExpires
      <3>1. /\ nonce' = nonce + 1 /\ oldest' = nonce + 1 /\ auth' = auth /\ conn' = conn /\ used' = used
            /\ nonce \in Nat
        BY <2>2 DEF NonceExpires, Inv, TypeOK
      <3>2. TypeOK'
        BY <3>1 DEF Inv, TypeOK
      <3>3. AllIssued'
        <4>1. ASSUME NEW c \in Conns PROVE Issued(conn[c])'
          <5>1. /\ Issued(conn[c]) /\ conn[c].query \in Nat /\ conn[c].reply \in Int
                /\ conn[c].refused \subseteq Nat
            BY DEF Inv, TypeOK, AllIssued, ConnType
          <5> QED BY <3>1, <5>1 DEF Issued
        <4>2. auth.query \in Nat /\ \A u \in used : u[1] \in Nat
          BY DEF Inv, TypeOK
        <4>3. auth'.query <= nonce' /\ \A u \in used' : u[1] <= nonce'
          BY <3>1, <4>2 DEF Inv, AllIssued
        <4> QED BY <4>1, <4>3 DEF AllIssued
      <3> QED BY <3>1, <3>2, <3>3 DEF Inv, AllSingle, Single, Unknown, AllUnrefused, Unrefused,
                                      Counts, Behind, Unrepeated
    <2>3. ASSUME NEW c \in Conns, Drop(c) PROVE Inv'
      BY <2>3, EndedInv DEF Drop
    <2>4. ASSUME NEW c \in Conns, Accepted(c) PROVE Inv'
      BY <2>4, EndedInv DEF Accepted
    <2> QED BY <2>1, <2>2, <2>3, <2>4, AcceptInv, MkconnectInv, GrantInv, RefuseInv, DroppedInv,
               AuthRetryInv DEF Next
  <1> QED BY <1>1, <1>2, PTL DEF Spec

\* For any number of connections, any interleaving of their refusals and any order in
\* which the challenges arrive: a proxy whose every challenge has a nonce of its own
\* never sees an nc twice for one nonce.
THEOREM NoReplayHolds == ASSUME Fresh PROVE Spec => []NoReplay
  <1>1. Inv => NoReplay
    BY DEF Inv, Unrepeated, NoReplay
  <1> QED BY <1>1, InvHolds, PTL

\* For any number of connections and any order in which the challenges arrive: a
\* connection does not answer again a challenge for which it was refused, if every
\* challenge has a nonce of its own.
THEOREM RefusedNotRepeatedHolds == Spec => []RefusedNotRepeated
  <1>1. Inv => RefusedNotRepeated
    BY DEF Inv, AllUnrefused, Unrefused, RefusedNotRepeated
  <1> QED BY <1>1, InvHolds, PTL
=============================================================================

----------------------- MODULE RedsocksInstanceProofs -----------------------
(***************************************************************************)
(* Proofs about RedsocksInstance, for every number of instances and every  *)
(* configuration of the back-off.                                          *)
(***************************************************************************)
EXTENDS RedsocksInstance, WellFoundedInduction, FiniteSetTheorems, TLAPS

\* What an instance in service is doing, and that one which is not in service has
\* neither event registered: the accept handler does not look at the state of its
\* instance, so without the second half the first would not be inductive.
Duty(x) == /\ x.st = "up" => (x.listener <=> x.timer = "off")
           /\ x.st # "up" => (~ x.listener /\ x.timer = "off")

OnDuty(I) == /\ I \in [Inst -> InstanceType]
             /\ \A i \in Inst : Duty(I[i])

Inv == OnDuty(ins)

-----------------------------------------------------------------------------

LEMMA FirstIn ==
  ASSUME NEW S \in SUBSET Inst, S # {}
  PROVE  First(S) \in S
  <1>1. S \subseteq Nat
    BY InstanceAssumption DEF Inst
  <1> DEFINE R == {p \in Nat \X Nat : p[1] < p[2]}
  <1>2. IsWellFoundedOn(R, Nat)
    BY NatLessThanWellFounded, Zenon DEF OpToRel
  <1>3. PICK x \in S : \A y \in S : ~ (<<y, x>> \in R)
    BY <1>1, <1>2, WFMin
  <1>4. ASSUME NEW y \in S
        PROVE  x <= y
    <2>1. x \in Nat /\ y \in Nat
      BY <1>1
    <2>2. <<y, x>> \in R <=> y < x
      BY <2>1
    <2> QED BY <1>3, <2>1, <2>2
  <1> QED BY <1>4 DEF First

LEMMA ClampRange ==
  ASSUME NEW v \in Int
  PROVE  Clamp(v) \in MIN .. MAX
  BY BackoffAssumption DEF Clamp

LEMMA NextBackoffRange ==
  ASSUME NEW b \in 0 .. MAX
  PROVE  NextBackoff(b) \in 0 .. MAX
  <1>1. (2 * b + 1) % U16 \in Int
    BY BackoffAssumption
  <1> QED BY <1>1, ClampRange, BackoffAssumption DEF NextBackoff

LEMMA RearmGood ==
  ASSUME NEW x \in InstanceType, x.st = "up"
  PROVE  redsocks_accept_backoff(x) \in InstanceType /\ Duty(redsocks_accept_backoff(x))
  BY DEF redsocks_accept_backoff, InstanceType, Duty

LEMMA CloseGood ==
  ASSUME NEW I, OnDuty(I)
  PROVE  /\ OnDuty(redsocks_close(I))
         /\ \A i \in Inst : redsocks_close(I)[i].clients = I[i].clients
  <1>1. CASE Expired(I) = {}
    BY <1>1 DEF redsocks_close
  <1>2. CASE Expired(I) # {}
    <2> DEFINE k == First(Expired(I))
               y == redsocks_accept_backoff(I[k])
    <2>1. k \in Expired(I)
      BY <1>2, FirstIn DEF Expired
    <2>2. k \in Inst /\ I[k] \in InstanceType /\ I[k].st = "up"
      BY <2>1 DEF Expired, OnDuty, Duty
    <2>3. y \in InstanceType /\ Duty(y)
      BY <2>2, RearmGood
    <2>4. y.clients = I[k].clients
      BY <2>2 DEF redsocks_accept_backoff, InstanceType
    <2>5. redsocks_close(I) = [I EXCEPT ![k] = y]
      BY <1>2 DEF redsocks_close
    <2> HIDE DEF k, y
    <2> QED BY <2>2, <2>3, <2>4, <2>5 DEF OnDuty
  <1> QED BY <1>1, <1>2

\* Replacing one instance by a good one.
LEMMA UpdateGood ==
  ASSUME NEW I, OnDuty(I), NEW i \in Inst, NEW y \in InstanceType, Duty(y)
  PROVE  OnDuty([I EXCEPT ![i] = y])
  BY DEF OnDuty

LEMMA GoneGood == Gone \in InstanceType /\ Duty(Gone)
  BY BackoffAssumption, InstanceAssumption DEF Gone, Blank, InstanceType, Duty

-----------------------------------------------------------------------------

LEMMA InitInv == Init => Inv
  BY BackoffAssumption, InstanceAssumption
     DEF Init, Inv, OnDuty, Duty, Parsed, Blank, InstanceType

LEMMA NextInv ==
  ASSUME Inv, Next
  PROVE  Inv'
  <1> USE DEF Inv
  <1>1. CASE redsocks_init_instance
    <2> DEFINE k == First(Unborn)
               y == [ins[k] EXCEPT !.st = "up", !.listener = TRUE]
    <2>1. k \in Unborn
      BY <1>1, FirstIn DEF redsocks_init_instance, Unborn
    <2>2. k \in Inst /\ ins[k] \in InstanceType /\ ins[k].timer = "off"
      BY <2>1 DEF Unborn, OnDuty, Duty
    <2>3. y \in InstanceType /\ Duty(y)
      BY <2>2 DEF InstanceType, Duty
    <2>4. ins' = [ins EXCEPT ![k] = y]
      BY <1>1, <2>2 DEF redsocks_init_instance, OnDuty, InstanceType
    <2> HIDE DEF k, y
    <2> QED BY <2>2, <2>3, <2>4, UpdateGood
  <1>2. CASE redsocks_init_instance_fail
    <2>1. First(Unborn) \in Inst
      BY <1>2, FirstIn DEF redsocks_init_instance_fail, Unborn
    <2> QED BY <1>2, <2>1, GoneGood, UpdateGood DEF redsocks_init_instance_fail
  <1>3. CASE Terminate
    BY <1>3 DEF Terminate
  <1>4. CASE redsocks_fini_instance
    <2> DEFINE k == First(Alive)
               J == [ins EXCEPT ![k].listener = FALSE]
               K == IF ins[k].st = "up" THEN redsocks_close(J) ELSE J
    <2>1. k \in Inst
      BY <1>4, FirstIn DEF redsocks_fini_instance, Alive
    <2>2. J \in [Inst -> InstanceType] /\ \A j \in Inst \ {k} : Duty(J[j])
      BY <2>1 DEF OnDuty, InstanceType
    <2>3. \A j \in Inst : J[j].timer = ins[j].timer /\ J[j].st = ins[j].st
      BY <2>1 DEF OnDuty, InstanceType
    <2>4. K \in [Inst -> InstanceType] /\ \A j \in Inst \ {k} : Duty(K[j])
      <3> HIDE DEF J, k
      <3>1. CASE Expired(J) = {}
        BY <3>1, <2>2 DEF redsocks_close
      <3>2. CASE Expired(J) # {}
        <4> DEFINE m == First(Expired(J))
                   y == redsocks_accept_backoff(J[m])
        <4>1. m \in Expired(J)
          BY <3>2, FirstIn DEF Expired
        <4>2. m \in Inst /\ J[m] \in InstanceType /\ J[m].st = "up"
          BY <4>1, <2>2, <2>3 DEF Expired, OnDuty, Duty
        <4>3. y \in InstanceType /\ Duty(y)
          BY <4>2, RearmGood
        <4>4. redsocks_close(J) = [J EXCEPT ![m] = y]
          BY <3>2 DEF redsocks_close
        <4> HIDE DEF m, y
        <4> QED BY <4>2, <4>3, <4>4, <2>2
      <3> QED BY <3>1, <3>2
    <2>5. ins' = [K EXCEPT ![k] = Gone]
      BY <1>4 DEF redsocks_fini_instance
    <2> HIDE DEF K, k
    <2> QED BY <2>1, <2>4, <2>5, GoneGood DEF OnDuty
  <1>5. ASSUME NEW i \in Inst, Arrive(i)
        PROVE  Inv'
    <2> DEFINE y == [ins[i] EXCEPT !.waiting = @ + 1]
    <2>1. y \in InstanceType /\ Duty(y)
      BY <1>5, InstanceAssumption DEF Arrive, OnDuty, InstanceType, Duty
    <2>2. ins' = [ins EXCEPT ![i] = y]
      BY <1>5 DEF Arrive
    <2> HIDE DEF y
    <2> QED BY <2>1, <2>2, UpdateGood
  <1>6. ASSUME NEW i \in Inst, AcceptBackoff(i)
        PROVE  Inv'
    <2> DEFINE b == NextBackoff(ins[i].backoff)
               y == [ins[i] EXCEPT !.backoff = b, !.listener = FALSE, !.timer = "young"]
    <2>1. b \in 0 .. MAX
      BY NextBackoffRange DEF OnDuty, InstanceType
    <2>2. ins[i].listener /\ ins[i].st = "up" /\ ins[i] \in InstanceType
      BY <1>6 DEF AcceptBackoff, Accepting, OnDuty, Duty
    <2>3. ins' = [ins EXCEPT ![i] = y]
      BY <1>6, <2>2 DEF AcceptBackoff, OnDuty, InstanceType
    <2> HIDE DEF b
    <2>4. y \in InstanceType /\ Duty(y)
      BY <2>1, <2>2 DEF InstanceType, Duty
    <2> HIDE DEF y
    <2> QED BY <2>3, <2>4, UpdateGood
  <1>7. ASSUME NEW i \in Inst, Accepting(i)
        PROVE  OnDuty(Accepted(i)) /\ \A j \in Inst : Accepted(i)[j].clients = ins[j].clients
    <2> DEFINE y == [ins[i] EXCEPT !.backoff = 0, !.waiting = @ - 1]
    <2> DEFINE w == ins[i].waiting - 1
               z == [ins[i] EXCEPT !.backoff = 0]
    <2>3. ins[i] \in InstanceType /\ Duty(ins[i]) /\ w \in 0 .. MaxWaiting
      BY <1>7, InstanceAssumption DEF Accepting, OnDuty, InstanceType
    <2>4. y = [z EXCEPT !.waiting = w]
      BY <2>3 DEF InstanceType
    <2> HIDE DEF w
    <2>5. z \in InstanceType /\ Duty(z) /\ z.clients = ins[i].clients
      BY <2>3, BackoffAssumption DEF InstanceType, Duty
    <2> HIDE DEF y, z
    <2>1. y \in InstanceType /\ Duty(y) /\ y.clients = ins[i].clients
      BY <2>3, <2>4, <2>5 DEF InstanceType, Duty
    <2> USE DEF y
    <2>2. Accepted(i) = [ins EXCEPT ![i] = y]
      BY DEF Accepted, OnDuty, InstanceType
    <2> HIDE DEF y
    <2> QED BY <2>1, <2>2, UpdateGood DEF OnDuty
  <1>8. ASSUME NEW i \in Inst, AcceptClient(i)
        PROVE  Inv'
    <2> DEFINE I == Accepted(i)
               y == [I[i] EXCEPT !.clients = @ + 1]
    <2>1. OnDuty(I)
      BY <1>7, <1>8 DEF AcceptClient
    <2>2. ins' = [I EXCEPT ![i] = y]
      BY <1>8 DEF AcceptClient
    <2> HIDE DEF I
    <2>3. y \in InstanceType /\ Duty(y)
      BY <2>1 DEF OnDuty, InstanceType, Duty
    <2> HIDE DEF y
    <2> QED BY <2>1, <2>2, <2>3, UpdateGood
  <1>9. ASSUME NEW i \in Inst, AcceptThenFail(i)
        PROVE  Inv'
    BY <1>7, <1>9, CloseGood DEF AcceptThenFail
  <1>10. ASSUME NEW i \in Inst, DropClient(i)
         PROVE  Inv'
    <2> DEFINE y == [ins[i] EXCEPT !.clients = @ - 1]
               I == [ins EXCEPT ![i] = y]
    <2>1. y \in InstanceType /\ Duty(y)
      BY <1>10 DEF DropClient, OnDuty, InstanceType, Duty
    <2>2. ins' = redsocks_close(redsocks_close(I))
      BY <1>10 DEF DropClient
    <2> HIDE DEF y
    <2>3. OnDuty(I)
      BY <2>1, UpdateGood
    <2> HIDE DEF I
    <2> QED BY <2>2, <2>3, CloseGood
  <1>11. ASSUME NEW i \in Inst, TimePasses(i)
         PROVE  Inv'
    <2> DEFINE y == [ins[i] EXCEPT !.timer = "old"]
    <2>1. y \in InstanceType /\ Duty(y)
      BY <1>11 DEF TimePasses, OnDuty, InstanceType, Duty
    <2>2. ins' = [ins EXCEPT ![i] = y]
      BY <1>11 DEF TimePasses
    <2> HIDE DEF y
    <2> QED BY <2>1, <2>2, UpdateGood
  <1>12. ASSUME NEW i \in Inst, TimerFires(i)
         PROVE  Inv'
    <2>1. ins[i] \in InstanceType /\ ins[i].st = "up"
      BY <1>12 DEF TimerFires, OnDuty, Duty
    <2>2. ins' = [ins EXCEPT ![i] = redsocks_accept_backoff(ins[i])]
      BY <1>12 DEF TimerFires
    <2> QED BY <2>1, <2>2, RearmGood, UpdateGood
  <1> QED BY <1>1, <1>2, <1>3, <1>4, <1>5, <1>6, <1>8, <1>9, <1>10, <1>11, <1>12 DEF Next

\* The inductive invariant holds in every state.
THEOREM InvHolds == Spec => []Inv
  <1>1. Inv /\ UNCHANGED vars => Inv'
    BY DEF Inv, OnDuty, vars
  <1> QED BY <1>1, InitInv, NextInv, PTL DEF Spec

\* For every number of instances and every order of accepts, closes and timers, an
\* instance in service listens or has its back-off timer pending, and not both.
THEOREM ListensOrBacksOffHolds == Spec => []ListensOrBacksOff
  <1>1. Inv => ListensOrBacksOff
    BY DEF Inv, OnDuty, Duty, ListensOrBacksOff
  <1> QED BY <1>1, InvHolds, PTL

\* The clamped remainder is less than b exactly if the doubled b overflows.
LEMMA NextBackoffShrinks ==
  ASSUME NEW b \in 0 .. MAX
  PROVE  NextBackoff(b) < b <=> Overflows(b)
  <1>1. b \in Nat /\ b <= MAX
    BY BackoffAssumption
  <1>2. CASE 2 * b + 1 < U16
    <2>1. (2 * b + 1) % U16 = 2 * b + 1
      BY <1>1, <1>2, BackoffAssumption
    <2> QED BY <1>1, <1>2, <2>1, BackoffAssumption DEF NextBackoff, Clamp, Overflows
  <1>3. CASE 2 * b + 1 >= U16
    <2> DEFINE r == 2 * b + 1 - U16
    <2>1. r \in 0 .. U16 - 1 /\ 2 * b + 1 = r + U16
      BY <1>1, <1>3, BackoffAssumption
    <2>2. (2 * b + 1) % U16 = r
      BY <1>1, <2>1, BackoffAssumption
    <2>3. NextBackoff(b) = Clamp(r)
      BY <2>2 DEF NextBackoff
    <2>4. r < b <=> b + 1 < U16
      BY <1>1, BackoffAssumption
    <2> HIDE DEF r
    <2>5. Clamp(r) < b <=> (r < b /\ MIN < b)
      BY <1>1, <2>1, BackoffAssumption DEF Clamp
    <2> QED BY <1>3, <2>3, <2>4, <2>5 DEF Overflows
  <1> QED BY <1>1, <1>2, <1>3, BackoffAssumption

\* For every pair of limits that fit 16 bits, the defaults included: the back-off of an
\* instance shrinks at a failed accept exactly when doubling it has overflowed.
THEOREM ShrinksByOverflowHolds == Spec => ShrinksByOverflow
  <1>1. ASSUME Inv, NEW i \in Inst, AcceptBackoff(i)
        PROVE  ins'[i].backoff < ins[i].backoff <=> Overflows(ins[i].backoff)
    <2>1. ins[i] \in InstanceType /\ ins[i].backoff \in 0 .. MAX
      BY <1>1 DEF Inv, OnDuty, InstanceType
    <2>2. ins'[i].backoff = NextBackoff(ins[i].backoff)
      BY <1>1, <2>1 DEF AcceptBackoff, Inv, OnDuty, InstanceType
    <2> QED BY <2>1, <2>2, NextBackoffShrinks
  <1>2. Inv /\ [Next]_vars =>
           [\A i \in Inst : AcceptBackoff(i) =>
               (ins'[i].backoff < ins[i].backoff <=> Overflows(ins[i].backoff))]_vars
    BY <1>1
  <1> QED BY <1>2, InvHolds, PTL DEF Spec, ShrinksByOverflow

-----------------------------------------------------------------------------
(* Descriptors: a listening socket holds one, a client two.                *)

Ups(I) == {i \in Inst : I[i].st = "up"}

\* One pair per client: <<i, k>> is the k-th client of instance i.
Clients(I) == {p \in Inst \X (Nat \ {0}) : p[2] <= I[p[1]].clients}

Account(I, free) == /\ IsFiniteSet(Clients(I)) /\ free \in Int
                    /\ free + Cardinality(Ups(I)) + 2 * Cardinality(Clients(I)) = Fds

\* Only an instance in service has clients.
Served == \A i \in Inst : ins[i].st # "up" => ins[i].clients = 0

AllGone == mode = "exit" => \A i \in Inst : ins[i].st = "gone"

Balance == Account(ins, fdfree) /\ Served /\ AllGone

LEMMA InstFinite == \A S \in SUBSET Inst : IsFiniteSet(S) /\ Cardinality(S) \in Nat
  <1>1. N \in Int
    BY InstanceAssumption
  <1>2. IsFiniteSet(Inst)
    BY <1>1, FS_Interval DEF Inst
  <1>3. \A S \in SUBSET Inst : IsFiniteSet(S)
    BY <1>2, FS_Subset
  <1> QED BY <1>3, FS_CardinalityType

LEMMA CloseKeeps ==
  ASSUME NEW I \in [Inst -> InstanceType]
  PROVE  /\ redsocks_close(I) \in [Inst -> InstanceType]
         /\ \A i \in Inst : /\ redsocks_close(I)[i].st = I[i].st
                            /\ redsocks_close(I)[i].clients = I[i].clients
  <1>1. CASE Expired(I) = {}
    BY <1>1 DEF redsocks_close
  <1>2. CASE Expired(I) # {}
    <2> DEFINE k == First(Expired(I))
               y == redsocks_accept_backoff(I[k])
    <2>1. k \in Inst
      BY <1>2, FirstIn DEF Expired
    <2>2. I[k] \in InstanceType
      BY <2>1
    <2>3. y \in InstanceType /\ y.st = I[k].st /\ y.clients = I[k].clients
      BY <2>2 DEF redsocks_accept_backoff, InstanceType
    <2>4. redsocks_close(I) = [I EXCEPT ![k] = y]
      BY <1>2 DEF redsocks_close
    <2> HIDE DEF k, y
    <2> QED BY <2>1, <2>3, <2>4
  <1> QED BY <1>1, <1>2

\* Accepting a connection changes neither the state nor the clients of any instance.
LEMMA AcceptedKeeps ==
  ASSUME NEW i \in Inst, ins \in [Inst -> InstanceType], ins[i].waiting > 0
  PROVE  /\ Accepted(i) \in [Inst -> InstanceType]
         /\ \A j \in Inst : /\ Accepted(i)[j].st = ins[j].st
                            /\ Accepted(i)[j].clients = ins[j].clients
  <1> DEFINE w == ins[i].waiting - 1
             z == [ins[i] EXCEPT !.backoff = 0]
             y == [z EXCEPT !.waiting = w]
  <1>1. ins[i] \in InstanceType /\ w \in 0 .. MaxWaiting
    BY InstanceAssumption DEF InstanceType
  <1>2. Accepted(i) = [ins EXCEPT ![i] = y]
    BY <1>1 DEF Accepted, InstanceType
  <1> HIDE DEF w
  <1>3. z \in InstanceType /\ z.st = ins[i].st /\ z.clients = ins[i].clients
    BY <1>1, BackoffAssumption DEF InstanceType
  <1> HIDE DEF z
  <1>4. y \in InstanceType /\ y.st = z.st /\ y.clients = z.clients
    BY <1>1, <1>3 DEF InstanceType
  <1> HIDE DEF y
  <1> QED BY <1>2, <1>3, <1>4

\* A step that changes no state and no number of clients.
LEMMA SameAccount ==
  ASSUME NEW I, NEW J, \A i \in Inst : J[i].st = I[i].st /\ J[i].clients = I[i].clients
  PROVE  Ups(J) = Ups(I) /\ Clients(J) = Clients(I)
  <1>1. Ups(J) = Ups(I)
    BY DEF Ups
  <1>2. \A p \in Inst \X (Nat \ {0}) : J[p[1]].clients = I[p[1]].clients
    OBVIOUS
  <1>3. Clients(J) = Clients(I)
    BY <1>2 DEF Clients
  <1> QED BY <1>1, <1>3

LEMMA QuietBalance ==
  ASSUME Balance, fdfree' = fdfree, mode' # "exit",
         \A i \in Inst : ins'[i].st = ins[i].st /\ ins'[i].clients = ins[i].clients
  PROVE  Balance'
  <1>1. Ups(ins') = Ups(ins) /\ Clients(ins') = Clients(ins)
    BY SameAccount
  <1>2. Account(ins, fdfree)'
    BY <1>1 DEF Balance, Account
  <1>3. Served' /\ AllGone'
    BY DEF Balance, Served, AllGone
  <1> QED BY <1>2, <1>3 DEF Balance

\* One client more of instance i, and one less.
LEMMA OneMore ==
  ASSUME NEW I, NEW J, NEW i \in Inst, I[i].clients \in Nat, IsFiniteSet(Clients(I)),
         J[i].clients = I[i].clients + 1,
         \A j \in Inst : j # i => J[j].clients = I[j].clients
  PROVE  IsFiniteSet(Clients(J)) /\ Cardinality(Clients(J)) = Cardinality(Clients(I)) + 1
  <1> DEFINE k == I[i].clients + 1
             q == <<i, k>>
  <1>1. k \in Nat \ {0} /\ q \in Inst \X (Nat \ {0}) /\ q[1] = i /\ q[2] = k
    OBVIOUS
  <1>2. q \notin Clients(I)
    BY <1>1 DEF Clients
  <1>3. ASSUME NEW p \in Inst \X (Nat \ {0})
        PROVE  p \in Clients(J) <=> (p \in Clients(I) \/ p = q)
    <2>1. CASE p[1] = i
      <3>1. p[2] \in Nat /\ p = <<i, p[2]>>
        BY <2>1
      <3>2. p[2] <= I[i].clients + 1 <=> (p[2] <= I[i].clients \/ p[2] = I[i].clients + 1)
        BY <3>1
      <3>3. p = q <=> p[2] = I[i].clients + 1
        BY <3>1
      <3> QED BY <2>1, <3>2, <3>3 DEF Clients
    <2>2. CASE p[1] # i
      <3>1. p # q /\ J[p[1]].clients = I[p[1]].clients
        BY <1>1, <2>2
      <3> QED BY <3>1 DEF Clients
    <2> QED BY <2>1, <2>2
  <1> HIDE DEF q
  <1>4. Clients(J) = Clients(I) \cup {q}
    <2>1. Clients(J) \subseteq Inst \X (Nat \ {0}) /\ Clients(I) \subseteq Inst \X (Nat \ {0})
      BY DEF Clients
    <2> QED BY <1>1, <1>3, <2>1
  <1> QED BY <1>2, <1>4, FS_AddElement

LEMMA OneLess ==
  ASSUME NEW I, NEW J, NEW i \in Inst, I[i].clients \in Nat, I[i].clients > 0, IsFiniteSet(Clients(I)),
         J[i].clients = I[i].clients - 1,
         \A j \in Inst : j # i => J[j].clients = I[j].clients
  PROVE  IsFiniteSet(Clients(J)) /\ Cardinality(Clients(J)) = Cardinality(Clients(I)) - 1
  <1> DEFINE k == I[i].clients
             q == <<i, k>>
  <1>1. k \in Nat \ {0} /\ q \in Inst \X (Nat \ {0}) /\ q[1] = i /\ q[2] = k
    OBVIOUS
  <1>2. q \in Clients(I)
    BY <1>1 DEF Clients
  <1>3. ASSUME NEW p \in Inst \X (Nat \ {0})
        PROVE  p \in Clients(J) <=> (p \in Clients(I) /\ p # q)
    <2>1. CASE p[1] = i
      <3>1. p[2] \in Nat /\ p = <<i, p[2]>>
        BY <2>1
      <3>2. p[2] <= I[i].clients - 1 <=> (p[2] <= I[i].clients /\ p[2] # I[i].clients)
        BY <3>1
      <3>3. p = q <=> p[2] = I[i].clients
        BY <3>1
      <3> QED BY <2>1, <3>2, <3>3 DEF Clients
    <2>2. CASE p[1] # i
      <3>1. p # q /\ J[p[1]].clients = I[p[1]].clients
        BY <1>1, <2>2
      <3> QED BY <3>1 DEF Clients
    <2> QED BY <2>1, <2>2
  <1> HIDE DEF q
  <1>4. Clients(J) = Clients(I) \ {q}
    <2>1. Clients(J) \subseteq Inst \X (Nat \ {0}) /\ Clients(I) \subseteq Inst \X (Nat \ {0})
      BY DEF Clients
    <2> QED BY <1>1, <1>3, <2>1
  <1> QED BY <1>2, <1>4, FS_RemoveElement

LEMMA SetUpBalance ==
  ASSUME Inv, Balance, redsocks_init_instance \/ redsocks_init_instance_fail
  PROVE  Balance'
  <1> DEFINE k == First(Unborn)
  <1>1. k \in Inst /\ ins[k].st = "conf" /\ ins \in [Inst -> InstanceType] /\ ins[k] \in InstanceType
    <2>1. k \in Unborn
      BY FirstIn DEF redsocks_init_instance, redsocks_init_instance_fail, Unborn
    <2> QED BY <2>1 DEF Unborn, Inv, OnDuty
  <1> HIDE DEF k
  <1>2. Cardinality(Ups(ins)) \in Nat /\ IsFiniteSet(Ups(ins)) /\ Cardinality(Clients(ins)) \in Nat
    BY InstFinite, FS_CardinalityType DEF Ups, Balance, Account
  <1>3. CASE redsocks_init_instance
    <2>1. /\ ins'[k].st = "up" /\ ins'[k].clients = ins[k].clients
          /\ \A j \in Inst : j # k => ins'[j] = ins[j]
          /\ fdfree' = fdfree - 1 /\ mode' # "exit"
      BY <1>1, <1>3 DEF redsocks_init_instance, InstanceType, k
    <2>2. Ups(ins') = Ups(ins) \cup {k} /\ k \notin Ups(ins)
      BY <1>1, <2>1 DEF Ups
    <2>3. Cardinality(Ups(ins')) = Cardinality(Ups(ins)) + 1
      BY <1>2, <2>2, FS_AddElement
    <2>4. \A p \in Inst \X (Nat \ {0}) : ins'[p[1]].clients = ins[p[1]].clients
      BY <2>1
    <2>5. Clients(ins') = Clients(ins)
      BY <2>4 DEF Clients
    <2>6. Account(ins, fdfree)'
      BY <1>2, <2>1, <2>3, <2>5 DEF Balance, Account
    <2> QED BY <2>1, <2>6 DEF Balance, Served, AllGone
  <1>4. CASE redsocks_init_instance_fail
    <2>1. /\ ins' = [ins EXCEPT ![k] = Gone] /\ fdfree' = fdfree
          /\ mode' = IF Cardinality(Alive) = 1 THEN "exit" ELSE "fini"
      BY <1>4 DEF redsocks_init_instance_fail, k
    <2>2. Gone.st = "gone" /\ Gone.clients = 0 /\ ins[k].clients = 0
      BY <1>1 DEF Gone, Blank, Balance, Served
    <2>3. Ups(ins') = Ups(ins)
      BY <1>1, <2>1, <2>2 DEF Ups
    <2>4. \A j \in Inst : ins'[j].clients = ins[j].clients
      BY <1>1, <2>1, <2>2
    <2>5. \A p \in Inst \X (Nat \ {0}) : ins'[p[1]].clients = ins[p[1]].clients
      BY <2>4
    <2>6. Clients(ins') = Clients(ins)
      BY <2>5 DEF Clients
    <2>7. Account(ins, fdfree)'
      BY <2>1, <2>3, <2>6 DEF Balance, Account
    <2>8. Served'
      BY <1>1, <2>1, <2>2 DEF Balance, Served
    <2>9. AllGone'
      <3> SUFFICES ASSUME Cardinality(Alive) = 1, NEW j \in Inst PROVE ins'[j].st = "gone"
        BY <2>1 DEF AllGone
      <3>1. PICK x : Alive = {x}
        BY InstFinite, FS_Singleton DEF Alive
      <3>2. k \in Alive
        BY <1>1 DEF Alive
      <3> QED BY <1>1, <2>1, <2>2, <3>1, <3>2 DEF Alive
    <2> QED BY <2>7, <2>8, <2>9 DEF Balance
  <1> QED BY <1>3, <1>4

LEMMA FiniBalance ==
  ASSUME Inv, Balance, redsocks_fini_instance
  PROVE  Balance'
  <1> DEFINE k == First(Alive)
             J == [ins EXCEPT ![k].listener = FALSE]
             K == IF ins[k].st = "up" THEN redsocks_close(J) ELSE J
  <1>1. k \in Alive /\ k \in Inst /\ ins \in [Inst -> InstanceType] /\ ins[k] \in InstanceType
    BY FirstIn DEF redsocks_fini_instance, Alive, Inv, OnDuty
  <1>2. /\ ins' = [K EXCEPT ![k] = Gone] /\ ins[k].clients = 0
        /\ fdfree' = (IF ins[k].st = "up" THEN fdfree + 1 ELSE fdfree)
        /\ mode' = IF Cardinality(Alive) = 1 THEN "exit" ELSE "fini"
    BY DEF redsocks_fini_instance
  <1> HIDE DEF k
  <1>3. /\ J \in [Inst -> InstanceType]
        /\ \A j \in Inst : J[j].st = ins[j].st /\ J[j].clients = ins[j].clients
    BY <1>1 DEF InstanceType
  <1> HIDE DEF J
  <1>4. /\ K \in [Inst -> InstanceType]
        /\ \A j \in Inst : K[j].st = ins[j].st /\ K[j].clients = ins[j].clients
    BY <1>3, CloseKeeps
  <1> HIDE DEF K
  <1>5. Gone.st = "gone" /\ Gone.clients = 0
    BY DEF Gone, Blank
  <1>6. /\ ins'[k].st = "gone" /\ ins'[k].clients = 0
        /\ \A j \in Inst : j # k => ins'[j].st = ins[j].st /\ ins'[j].clients = ins[j].clients
    BY <1>1, <1>2, <1>4, <1>5
  <1>7. \A p \in Inst \X (Nat \ {0}) : ins'[p[1]].clients = ins[p[1]].clients
    BY <1>2, <1>6
  <1>8. Clients(ins') = Clients(ins)
    BY <1>7 DEF Clients
  <1>9. Cardinality(Ups(ins)) \in Nat /\ IsFiniteSet(Ups(ins)) /\ Cardinality(Clients(ins)) \in Nat
    BY InstFinite, FS_CardinalityType DEF Ups, Balance, Account
  <1>10. Account(ins, fdfree)'
    <2>1. CASE ins[k].st = "up"
      <3>1. Ups(ins') = Ups(ins) \ {k} /\ k \in Ups(ins)
        BY <1>1, <1>6, <2>1 DEF Ups
      <3>2. Cardinality(Ups(ins')) = Cardinality(Ups(ins)) - 1
        BY <1>9, <3>1, FS_RemoveElement
      <3> QED BY <1>2, <1>8, <1>9, <2>1, <3>2 DEF Balance, Account
    <2>2. CASE ins[k].st # "up"
      <3>1. Ups(ins') = Ups(ins)
        BY <1>1, <1>6, <2>2 DEF Ups
      <3> QED BY <1>2, <1>8, <2>2, <3>1 DEF Balance, Account
    <2> QED BY <2>1, <2>2
  <1>11. Served'
    BY <1>6 DEF Balance, Served
  <1>12. AllGone'
    <2> SUFFICES ASSUME Cardinality(Alive) = 1, NEW j \in Inst PROVE ins'[j].st = "gone"
      BY <1>2 DEF AllGone
    <2>1. PICK x : Alive = {x}
      BY InstFinite, FS_Singleton DEF Alive
    <2> QED BY <1>1, <1>6, <2>1 DEF Alive
  <1> QED BY <1>10, <1>11, <1>12 DEF Balance

LEMMA ClientBalance ==
  ASSUME Inv, Balance, NEW i \in Inst, AcceptClient(i) \/ DropClient(i)
  PROVE  Balance'
  <1>1. ins \in [Inst -> InstanceType] /\ ins[i] \in InstanceType /\ ins[i].clients \in Nat
    BY DEF Inv, OnDuty, InstanceType
  <1>2. Cardinality(Ups(ins)) \in Nat /\ Cardinality(Clients(ins)) \in Nat /\ IsFiniteSet(Clients(ins))
    BY InstFinite, FS_CardinalityType DEF Ups, Balance, Account
  <1>3. CASE AcceptClient(i)
    <2>1. ins[i].st = "up" /\ ins[i].waiting > 0
      BY <1>3 DEF AcceptClient, Accepting, Inv, OnDuty, Duty
    <2>2. /\ ins' = [Accepted(i) EXCEPT ![i].clients = @ + 1]
          /\ fdfree' = fdfree - 2 /\ mode' = mode /\ mode = "run"
      BY <1>3 DEF AcceptClient, Accepting
    <2>3. /\ Accepted(i) \in [Inst -> InstanceType]
          /\ \A j \in Inst : /\ Accepted(i)[j].st = ins[j].st
                             /\ Accepted(i)[j].clients = ins[j].clients
      BY <1>1, <2>1, AcceptedKeeps
    <2>4. /\ ins'[i].clients = ins[i].clients + 1
          /\ \A j \in Inst : /\ ins'[j].st = ins[j].st
                             /\ j # i => ins'[j].clients = ins[j].clients
      BY <1>1, <2>2, <2>3 DEF InstanceType
    <2>5. IsFiniteSet(Clients(ins')) /\ Cardinality(Clients(ins')) = Cardinality(Clients(ins)) + 1
      BY <1>1, <1>2, <2>4, OneMore
    <2>6. Ups(ins') = Ups(ins)
      BY <2>4 DEF Ups
    <2>7. Account(ins, fdfree)'
      BY <1>2, <2>2, <2>5, <2>6 DEF Balance, Account
    <2> QED BY <2>1, <2>2, <2>4, <2>7 DEF Balance, Served, AllGone
  <1>4. CASE DropClient(i)
    <2> DEFINE y == [ins[i] EXCEPT !.clients = @ - 1]
               I == [ins EXCEPT ![i] = y]
    <2>1. /\ ins' = redsocks_close(redsocks_close(I))
          /\ fdfree' = fdfree + 2 /\ mode' = mode /\ mode \in {"run", "fini"} /\ ins[i].clients > 0
      BY <1>4 DEF DropClient
    <2>2. y \in InstanceType /\ y.st = ins[i].st /\ y.clients = ins[i].clients - 1
      BY <1>1, <2>1 DEF InstanceType
    <2> HIDE DEF y
    <2>3. /\ I \in [Inst -> InstanceType] /\ I[i].clients = ins[i].clients - 1
          /\ \A j \in Inst : I[j].st = ins[j].st /\ (j # i => I[j].clients = ins[j].clients)
      BY <1>1, <2>2
    <2> HIDE DEF I
    <2>4. /\ redsocks_close(I) \in [Inst -> InstanceType]
          /\ \A j \in Inst : /\ redsocks_close(I)[j].st = I[j].st
                             /\ redsocks_close(I)[j].clients = I[j].clients
      BY <2>3, CloseKeeps
    <2>5. \A j \in Inst : ins'[j].st = I[j].st /\ ins'[j].clients = I[j].clients
      BY <2>1, <2>4, CloseKeeps
    <2>6. IsFiniteSet(Clients(ins')) /\ Cardinality(Clients(ins')) = Cardinality(Clients(ins)) - 1
      <3>1. /\ ins'[i].clients = ins[i].clients - 1
            /\ \A j \in Inst : j # i => ins'[j].clients = ins[j].clients
        BY <2>3, <2>5
      <3>2. ins[i].clients > 0
        BY <2>1
      <3> QED BY <1>1, <1>2, <3>1, <3>2, OneLess
    <2>7. Ups(ins') = Ups(ins)
      BY <2>3, <2>5 DEF Ups
    <2>8. Account(ins, fdfree)'
      BY <1>2, <2>1, <2>6, <2>7 DEF Balance, Account
    <2>9. Served'
      BY <1>1, <2>1, <2>3, <2>5 DEF Balance, Served
    <2> QED BY <2>1, <2>8, <2>9 DEF Balance, AllGone
  <1> QED BY <1>3, <1>4

LEMMA OtherBalance ==
  ASSUME Inv, Balance, NEW i \in Inst,
         Arrive(i) \/ AcceptBackoff(i) \/ AcceptThenFail(i) \/ TimePasses(i) \/ TimerFires(i)
  PROVE  Balance'
  <1>1. ins \in [Inst -> InstanceType] /\ ins[i] \in InstanceType
    BY DEF Inv, OnDuty
  <1>2. fdfree' = fdfree /\ mode' = mode /\ mode = "run"
    BY DEF Arrive, AcceptBackoff, AcceptThenFail, TimePasses, TimerFires, Accepting
  <1>3. CASE Arrive(i) \/ AcceptBackoff(i) \/ TimePasses(i) \/ TimerFires(i)
    <2>1. ASSUME NEW y, ins' = [ins EXCEPT ![i] = y], y.st = ins[i].st, y.clients = ins[i].clients
          PROVE  Balance'
      <3>1. \A j \in Inst : ins'[j].st = ins[j].st /\ ins'[j].clients = ins[j].clients
        BY <1>1, <2>1
      <3> QED BY <1>2, <3>1, QuietBalance
    <2>2. CASE Arrive(i)
      <3> DEFINE y == [ins[i] EXCEPT !.waiting = @ + 1]
      <3>1. y.st = ins[i].st /\ y.clients = ins[i].clients
        BY <1>1 DEF InstanceType
      <3>2. ins' = [ins EXCEPT ![i] = y]
        BY <2>2 DEF Arrive
      <3> HIDE DEF y
      <3> QED BY <2>1, <3>1, <3>2
    <2>3. CASE AcceptBackoff(i)
      <3> DEFINE b == NextBackoff(ins[i].backoff)
                 y == [ins[i] EXCEPT !.backoff = b, !.listener = FALSE, !.timer = "young"]
      <3>1. ins' = [ins EXCEPT ![i] = y]
        BY <1>1, <2>3 DEF AcceptBackoff, InstanceType
      <3> HIDE DEF b
      <3>2. y.st = ins[i].st /\ y.clients = ins[i].clients
        BY <1>1 DEF InstanceType
      <3> HIDE DEF y
      <3> QED BY <2>1, <3>1, <3>2
    <2>4. CASE TimePasses(i)
      <3> DEFINE y == [ins[i] EXCEPT !.timer = "old"]
      <3>1. y.st = ins[i].st /\ y.clients = ins[i].clients
        BY <1>1 DEF InstanceType
      <3>2. ins' = [ins EXCEPT ![i] = y]
        BY <2>4 DEF TimePasses
      <3> HIDE DEF y
      <3> QED BY <2>1, <3>1, <3>2
    <2>5. CASE TimerFires(i)
      <3> DEFINE y == redsocks_accept_backoff(ins[i])
      <3>1. y.st = ins[i].st /\ y.clients = ins[i].clients
        BY <1>1 DEF redsocks_accept_backoff, InstanceType
      <3>2. ins' = [ins EXCEPT ![i] = y]
        BY <2>5 DEF TimerFires
      <3> HIDE DEF y
      <3> QED BY <2>1, <3>1, <3>2
    <2> QED BY <1>3, <2>2, <2>3, <2>4, <2>5
  <1>4. CASE AcceptThenFail(i)
    <2>1. ins[i].waiting > 0
      BY <1>4 DEF AcceptThenFail, Accepting
    <2>2. /\ Accepted(i) \in [Inst -> InstanceType]
          /\ \A j \in Inst : /\ Accepted(i)[j].st = ins[j].st
                             /\ Accepted(i)[j].clients = ins[j].clients
      BY <1>1, <2>1, AcceptedKeeps
    <2>3. ins' = redsocks_close(Accepted(i))
      BY <1>4 DEF AcceptThenFail
    <2>4. \A j \in Inst : ins'[j].st = ins[j].st /\ ins'[j].clients = ins[j].clients
      BY <2>2, <2>3, CloseKeeps
    <2> QED BY <1>2, <2>4, QuietBalance
  <1> QED BY <1>3, <1>4

\* For every number of instances and of descriptors: when redsocks has torn itself
\* down, every descriptor is free again, after any history of accepts and failures.
THEOREM DescriptorsReturnedHolds == Spec => []DescriptorsReturned
  <1>1. Init => Balance
    <2> SUFFICES ASSUME Init PROVE Balance
      OBVIOUS
    <2>1. \A j \in Inst : ins[j].st = "conf" /\ ins[j].clients = 0
      BY DEF Init, Parsed, Blank
    <2>2. Ups(ins) = {}
      BY <2>1 DEF Ups
    <2>3. Clients(ins) = {}
      BY <2>1 DEF Clients
    <2>4. Account(ins, fdfree)
      BY <2>2, <2>3, FS_EmptySet, InstanceAssumption DEF Account, Init
    <2> QED BY <2>1, <2>4 DEF Balance, Served, AllGone, Init
  <1>2. Inv /\ Balance /\ [Next]_vars => Balance'
    <2> SUFFICES ASSUME Inv, Balance, [Next]_vars PROVE Balance'
      OBVIOUS
    <2>1. CASE UNCHANGED vars
      BY <2>1 DEF vars, Balance, Account, Served, AllGone
    <2>2. CASE Terminate
      BY <2>2, QuietBalance DEF Terminate
    <2> QED BY <2>1, <2>2, SetUpBalance, FiniBalance, ClientBalance, OtherBalance DEF Next
  <1>3. Balance => DescriptorsReturned
    <2> SUFFICES ASSUME Balance, mode = "exit" PROVE fdfree = Fds
      BY DEF DescriptorsReturned
    <2>1. \A j \in Inst : ins[j].st = "gone" /\ ins[j].clients = 0
      BY DEF Balance, AllGone, Served
    <2>2. Ups(ins) = {}
      BY <2>1 DEF Ups
    <2>3. Clients(ins) = {}
      BY <2>1 DEF Clients
    <2> QED BY <2>2, <2>3, FS_EmptySet DEF Balance, Account
  <1> QED BY <1>1, <1>2, <1>3, InvHolds, PTL DEF Spec
=============================================================================

-------------------------- MODULE RedsocksInstance --------------------------
(***************************************************************************)
(* The listening instances of redsocks (src/jni/redsocks/redsocks.c): set  *)
(* up, accepting under a shortage of file descriptors, and tear down.      *)
(*                                                                         *)
(* When accept() fails for want of descriptors an instance unregisters its *)
(* listener and registers a back-off timer.  The timer, or the close of    *)
(* any descriptor once min_accept_backoff has passed, registers the        *)
(* listener again.  Every close walks the list of all instances, whoever   *)
(* calls it.                                                               *)
(*                                                                         *)
(* A client is abstracted to the two descriptors it holds (RedsocksClient  *)
(* has the rest).  Time is abstracted to whether min_accept_backoff has    *)
(* passed since the timer was registered; the random delay may be shorter  *)
(* or longer than that, so the timer may fire in either case.              *)
(***************************************************************************)
EXTENDS Integers, FiniteSets

CONSTANTS
    N,           \* number of instances; 1 .. N is the order of the list
    Fds,         \* descriptors the process may have open
    MaxWaiting,  \* bound: connections waiting in a listen queue
    MIN, MAX,    \* min_accept_backoff, max_accept_backoff
    U16          \* 2^16, the modulus of uint16_t accept_backoff_ms

Inst == 1 .. N

ASSUME InstanceAssumption == /\ N \in Nat \ {0}
                             /\ Fds \in Nat
                             /\ MaxWaiting \in Nat
\* redsocks_onexit refuses a configuration that violates this.
ASSUME BackoffAssumption == /\ MIN \in Nat /\ MAX \in Nat /\ U16 \in Nat
                            /\ 0 < MIN /\ MIN < MAX /\ MAX < U16

VARIABLES
    mode,     \* "init", "run", "fini" or "exit": where redsocks_init/fini are
    ins,      \* the instances
    fdfree    \* descriptors still available

vars == <<mode, ins, fdfree>>

\* st: "conf" after parsing, "up" after redsocks_init_instance, "gone" when freed.
\* listener, timer: is the tracked event inserted, and for the timer since when.
Blank(st) == [st |-> st, listener |-> FALSE, timer |-> "off",
              backoff |-> 0, clients |-> 0, waiting |-> 0]

Parsed == Blank("conf")
Gone == Blank("gone")

Init == /\ mode = "init"
        /\ ins = [i \in Inst |-> Parsed]
        /\ fdfree = Fds

-----------------------------------------------------------------------------

\* Fault: the listener is not registered again.
redsocks_accept_backoff_Deaf(x) == [x EXCEPT !.timer = "off"]

\* The timer is unregistered and the listener registered.
redsocks_accept_backoff(x) == [x EXCEPT !.timer = "off", !.listener = TRUE]

\* The first of a set of instances in the order of the list.
First(S) == CHOOSE i \in S : \A j \in S : i <= j

\* Instances whose timer was registered longer than min_accept_backoff ago.
Expired(I) == {i \in Inst : I[i].timer = "old"}

\* Fault: the listener of the woken instance is registered beside its timer.
redsocks_close_KeepsTimer(I) ==
    IF Expired(I) = {} THEN I
    ELSE [I EXCEPT ![First(Expired(I))].listener = TRUE]

\* Every successful close wakes the first such instance, and only that one.
redsocks_close(I) ==
    IF Expired(I) = {} THEN I
    ELSE [I EXCEPT ![First(Expired(I))] = redsocks_accept_backoff(@)]

\* Fault: the wrong limit is assigned.
Clamp_WrongLimit(v) == IF v < MIN \/ v > MAX THEN MIN ELSE v

Clamp(v) == IF v < MIN THEN MIN ELSE IF v > MAX THEN MAX ELSE v

\* accept_backoff_ms = (accept_backoff_ms << 1) + 1 in 16 bits, then clamped.
NextBackoff(b) == Clamp((2 * b + 1) % U16)

-----------------------------------------------------------------------------
(* Set up.                                                                 *)

Unborn == {i \in Inst : ins[i].st = "conf"}
Alive == {i \in Inst : ins[i].st # "gone"}

\* redsocks_init_instance creates, binds and registers the listening socket.
redsocks_init_instance ==
    /\ mode = "init"
    /\ Unborn # {}
    /\ fdfree > 0
    /\ ins' = [ins EXCEPT ![First(Unborn)].st = "up", ![First(Unborn)].listener = TRUE]
    /\ fdfree' = fdfree - 1
    /\ mode' = IF Cardinality(Unborn) = 1 THEN "run" ELSE "init"

\* It fails: the instance is freed and redsocks_fini frees all the others.
redsocks_init_instance_fail ==
    /\ mode = "init"
    /\ Unborn # {}
    /\ ins' = [ins EXCEPT ![First(Unborn)] = Gone]
    /\ mode' = IF Cardinality(Alive) = 1 THEN "exit" ELSE "fini"
    /\ UNCHANGED fdfree

-----------------------------------------------------------------------------
(* The event loop.                                                         *)

Arrive(i) ==
    /\ mode = "run"
    /\ ins[i].waiting < MaxWaiting
    /\ ins' = [ins EXCEPT ![i].waiting = @ + 1]
    /\ UNCHANGED <<mode, fdfree>>

Accepting(i) == mode = "run" /\ ins[i].listener /\ ins[i].waiting > 0

\* accept() fails for want of descriptors.
AcceptBackoff(i) ==
    /\ Accepting(i)
    /\ fdfree = 0
    /\ ins' = [ins EXCEPT ![i].backoff = NextBackoff(@), ![i].listener = FALSE,
                          ![i].timer = "young"]
    /\ UNCHANGED <<mode, fdfree>>

Accepted(i) == [ins EXCEPT ![i].backoff = 0, ![i].waiting = @ - 1]

\* accept() succeeds, and so does the socket of the relay.
AcceptClient(i) ==
    /\ Accepting(i)
    /\ fdfree > 1
    /\ ins' = [Accepted(i) EXCEPT ![i].clients = @ + 1]
    /\ fdfree' = fdfree - 2
    /\ UNCHANGED mode

\* accept() succeeds and something after it fails, at the latest the socket of
\* the relay when there is no second descriptor: the client's is closed again.
AcceptThenFail(i) ==
    /\ Accepting(i)
    /\ fdfree > 0
    /\ ins' = redsocks_close(Accepted(i))
    /\ UNCHANGED <<mode, fdfree>>

\* Fault: the relay's descriptor is not closed.
DropClient_LeaksRelay(i) ==
    /\ mode = "run" \/ (mode = "fini" /\ i = First(Alive))
    /\ ins[i].clients > 0
    /\ ins' = redsocks_close([ins EXCEPT ![i].clients = @ - 1])
    /\ fdfree' = fdfree + 1
    /\ UNCHANGED mode

\* redsocks_drop_client closes the client's and then the relay's descriptor.
DropClient(i) ==
    /\ mode = "run" \/ (mode = "fini" /\ i = First(Alive))
    /\ ins[i].clients > 0
    /\ ins' = redsocks_close(redsocks_close([ins EXCEPT ![i].clients = @ - 1]))
    /\ fdfree' = fdfree + 2
    /\ UNCHANGED mode

\* min_accept_backoff passes.
TimePasses(i) ==
    /\ mode = "run"
    /\ ins[i].timer = "young"
    /\ ins' = [ins EXCEPT ![i].timer = "old"]
    /\ UNCHANGED <<mode, fdfree>>

TimerFires(i) ==
    /\ mode = "run"
    /\ ins[i].timer # "off"
    /\ ins' = [ins EXCEPT ![i] = redsocks_accept_backoff(@)]
    /\ UNCHANGED <<mode, fdfree>>

\* SIGTERM or SIGINT ends the event loop.
Terminate ==
    /\ mode = "run"
    /\ mode' = "fini"
    /\ UNCHANGED <<ins, fdfree>>

-----------------------------------------------------------------------------
(* Tear down.                                                              *)

\* Fault: the walk over the list stops after the first instance.
redsocks_fini_instance_Once ==
    /\ mode = "fini"
    /\ Alive = Inst
    /\ ins[1].clients = 0
    /\ ins' = [redsocks_close(ins) EXCEPT ![1] = Gone]
    /\ fdfree' = fdfree + 1
    /\ UNCHANGED mode

\* redsocks_fini_instance, for the first instance of the list: once its clients
\* are dropped (DropClient) the listening socket is closed, which may wake a later
\* instance, and the instance is freed.  If the close picks the instance itself,
\* the event_add of its listener fails, for the socket is closed.
redsocks_fini_instance ==
    /\ mode = "fini"
    /\ Alive # {}
    /\ LET i == First(Alive)
           J == [ins EXCEPT ![i].listener = FALSE]
       IN  /\ ins[i].clients = 0
           /\ ins' = [(IF ins[i].st = "up" THEN redsocks_close(J) ELSE J) EXCEPT ![i] = Gone]
           /\ fdfree' = IF ins[i].st = "up" THEN fdfree + 1 ELSE fdfree
    /\ mode' = IF Cardinality(Alive) = 1 THEN "exit" ELSE "fini"

Next == \/ redsocks_init_instance
        \/ redsocks_init_instance_fail
        \/ Terminate
        \/ redsocks_fini_instance
        \/ \E i \in Inst : \/ Arrive(i)
                          \/ AcceptBackoff(i)
                          \/ AcceptClient(i)
                          \/ AcceptThenFail(i)
                          \/ DropClient(i)
                          \/ TimePasses(i)
                          \/ TimerFires(i)

Spec == Init /\ [][Next]_vars

\* A registered timer fires; the teardown, which runs without the event loop,
\* goes on to its end.
Fairness == /\ \A i \in Inst : WF_vars(TimerFires(i))
            /\ WF_vars(redsocks_fini_instance)
            /\ \A i \in Inst : WF_vars(mode = "fini" /\ DropClient(i))

FairSpec == Spec /\ Fairness

-----------------------------------------------------------------------------
(* Properties.                                                             *)

\* What an instance may hold.
InstanceType == [st : {"conf", "up", "gone"}, listener : BOOLEAN,
                 timer : {"off", "young", "old"}, backoff : 0 .. MAX,
                 clients : Nat, waiting : 0 .. MaxWaiting]

\* An instance in service either listens or waits for its back-off timer, never
\* both and never neither, whichever of the timer, its own accepts and the closes
\* of other instances' clients came first.
ListensOrBacksOff ==
    \A i \in Inst : ins[i].st = "up" => (ins[i].listener <=> ins[i].timer = "off")

\* Out of descriptors again and again, an instance never waits shorter than it
\* did before: the bound of its random delay does not shrink.
BackoffGrows ==
    [][\A i \in Inst : AcceptBackoff(i) => ins'[i].backoff >= ins[i].backoff]_vars

\* Doubling the back-off b leaves 16 bits, with a remainder that is less than b.
Overflows(b) == 2 * b + 1 >= U16 /\ b + 1 < U16 /\ MIN < b

\* Out of descriptors again and again, an instance waits shorter than before exactly
\* when the doubled back-off overflows; the clamping never makes it shrink, whatever
\* the limits are.
ShrinksByOverflow ==
    [][\A i \in Inst : AcceptBackoff(i) =>
          (ins'[i].backoff < ins[i].backoff <=> Overflows(ins[i].backoff))]_vars

\* No descriptor is lost: after the tear down all of them are free again, whatever
\* accepts, failures after accept and drops came before it.
DescriptorsReturned == mode = "exit" => fdfree = Fds

\* An instance in service keeps coming back to listening until the program ends.
ListensAgain == \A i \in Inst : (ins[i].st = "up") ~> (ins[i].listener \/ mode # "run")

\* Once the event loop has ended every instance is freed.
TearsDown == (mode = "fini") ~> (mode = "exit")
=============================================================================

-------------------------- MODULE HapServiceProofs --------------------------
(***************************************************************************)
(* Proofs about HapService: haproxy.pid names the daemon that runs, a      *)
(* thread finds its own commands in its file, and no daemon outlives the   *)
(* configuration it was started with, with the exceptions that the         *)
(* properties name, for every number of threads, modes, ports and process  *)
(* numbers.                                                                *)
(***************************************************************************)
EXTENDS HapService, Integers, FiniteSetTheorems, NaturalsInduction, WellFoundedInduction, TLAPS

AppType == [queue : Seq(Mode), phase : {"idle", "stop", "start"}, joins : 0 .. MaxShell, si : 0 .. MaxShell,
            answers : BOOLEAN, late : 0 .. MaxLate, mixed : BOOLEAN, refused : BOOLEAN]

ShellType == [pc : {"none", "new", "counted", "named", "left", "sleep", "done"},
              script : Script, prefix : Prefix, no : 0 .. MaxShell]

Daemon == [pid : Pid, cfg : Config \cup {NoCfg}, ending : BOOLEAN]

SysType == [cfg : Config \cup {NoCfg}, pidfile : Pid \cup {NoPid}, daemons : SUBSET Daemon]

\* Threads that have counted themselves in si.
Counted == {t \in Shells : shell[t].pc \notin {"none", "new"}}

\* si never passes the number of threads, so that every file name is one of tfile's.
TypeOK == /\ app \in AppType
          /\ app.phase # "idle" => app.joins \in Shells
          /\ app.si <= Cardinality(Counted)
          /\ shell \in [Shells -> ShellType]
          /\ tfile \in [Prefix \X (0 .. MaxShell) -> Script \cup {"none"}]
          /\ sys \in SysType

Reads(t) == shell[t].pc \in {"named", "left", "sleep"}

\* Until two threads have met in one file, each has one of its own.
OwnFiles == ~ app.mixed => /\ \A t, u \in Shells : (t # u /\ Reads(t) /\ Reads(u)) => File(t) # File(u)
                           /\ \A t \in Shells : Reads(t) => tfile[File(t)] = shell[t].script

\* The thread a task waits for runs the script of its phase and has not outlived the
\* application; while nothing was left behind, only that thread starts a daemon.
Waits == /\ app.phase # "idle" => /\ shell[app.joins].script = app.phase \/ shell[app.joins].pc = "done"
                                  /\ shell[app.joins].pc \notin {"none", "left"}
         /\ \A t \in Shells : shell[t].script = "start" => shell[t].pc \notin {"none", "done"}
         /\ app.late = 0 => \A t \in Shells : shell[t].script = "start" => (app.phase = "start" /\ t = app.joins)

\* Once the task's stop.sh has run, every daemon is ending; until its start.sh has run,
\* there is none; outside of the stop phase every daemon has the configuration of
\* run.cfg; and haproxy.pid names them all.
Fresh == Smooth =>
           /\ (app.phase = "stop" /\ shell[app.joins].pc \in {"sleep", "done"}) => \A d \in sys.daemons : d.ending
           /\ (app.phase = "start" /\ shell[app.joins].pc \in {"new", "counted", "named"}) => sys.daemons = {}
           /\ app.phase # "stop" => \A d \in sys.daemons : d.cfg = sys.cfg
           /\ \A d \in sys.daemons : Named(d)

Inv == TypeOK /\ OwnFiles /\ Waits /\ Fresh

-----------------------------------------------------------------------------
(* Threads.                                                                *)

LEMMA ShellsFinite ==
  /\ \A S \in SUBSET Shells : IsFiniteSet(S) /\ Cardinality(S) \in Nat /\ Cardinality(S) <= MaxShell
  /\ \A S \in SUBSET Shells, t \in Shells : t \notin S => Cardinality(S) + 1 <= MaxShell
  <1>1. MaxShell \in Int /\ 1 \in Int /\ ~ (1 > MaxShell) /\ MaxShell - 1 + 1 = MaxShell
    BY ServiceAssumption
  <1>2. IsFiniteSet(Shells) /\ Cardinality(Shells) = MaxShell
    BY <1>1, FS_Interval DEF Shells
  <1>3. \A S \in SUBSET Shells : IsFiniteSet(S) /\ Cardinality(S) \in Nat /\ Cardinality(S) <= MaxShell
    BY <1>2, FS_Subset, FS_CardinalityType
  <1>4. ASSUME NEW S \in SUBSET Shells, NEW t \in Shells, t \notin S
        PROVE  Cardinality(S) + 1 <= MaxShell
    <2>1. S \cup {t} \in SUBSET Shells
      BY <1>4
    <2>2. Cardinality(S \cup {t}) = Cardinality(S) + 1
      BY <1>3, <1>4, FS_AddElement
    <2> QED BY <1>3, <2>1, <2>2
  <1> QED BY <1>3, <1>4

\* There is a least unused thread.
LEMMA FreeIn ==
  ASSUME SomeFree(1)
  PROVE  Free \in Shells /\ shell[Free].pc = "none"
  <1> DEFINE S == {t \in Shells : shell[t].pc = "none"}
             R == {p \in Nat \X Nat : p[1] < p[2]}
  <1>0. S # {}
    BY FS_EmptySet DEF SomeFree
  <1>1. S \subseteq Nat
    BY ServiceAssumption DEF Shells
  <1>2. IsWellFoundedOn(R, Nat)
    BY NatLessThanWellFounded, Zenon DEF OpToRel
  <1>3. PICK x \in S : \A y \in S : ~ (<<y, x>> \in R)
    BY <1>0, <1>1, <1>2, WFMin
  <1>4. ASSUME NEW u \in Shells, u < x
        PROVE  shell[u].pc # "none"
    <2>1. u \in Nat /\ x \in Nat
      BY <1>1, ServiceAssumption DEF Shells
    <2>2. <<u, x>> \in R
      BY <1>4, <2>1
    <2> QED BY <1>3, <2>2
  <1>5. x \in Shells /\ shell[x].pc = "none" /\ \A u \in Shells : u < x => shell[u].pc # "none"
    BY <1>3, <1>4
  <1> QED BY <1>5 DEF Free

\* A thread changes and the others do not.
LEMMA OneThread ==
  ASSUME NEW t \in Shells, NEW y \in ShellType, shell \in [Shells -> ShellType],
         shell' = [shell EXCEPT ![t] = y]
  PROVE  /\ shell' \in [Shells -> ShellType] /\ shell'[t] = y
         /\ \A u \in Shells : u # t => shell'[u] = shell[u]
         /\ \A u \in Shells : u # t => (Reads(u)' <=> Reads(u)) /\ File(u)' = File(u)
  <1>1. /\ shell' \in [Shells -> ShellType] /\ shell'[t] = y
        /\ \A u \in Shells : u # t => shell'[u] = shell[u]
    OBVIOUS
  <1> QED BY <1>1 DEF Reads, File

\* The new thread is not counted yet and has no file.
LEMMA NewThread ==
  ASSUME Inv, SomeFree(1), NEW script \in Script, NEW prefix \in Prefix, NewShell(script, prefix)
  PROVE  /\ Free \in Shells /\ shell[Free].pc = "none"
         /\ shell' \in [Shells -> ShellType] /\ Counted' = Counted
         /\ shell'[Free].pc = "new" /\ shell'[Free].script = script
         /\ \A u \in Shells : u # Free => shell'[u] = shell[u]
         /\ (app'.mixed = app.mixed /\ tfile' = tfile) => OwnFiles'
  <1> DEFINE z == NoShell
             y == [z EXCEPT !.pc = "new", !.script = script, !.prefix = prefix]
  <1>0. z \in ShellType
    BY ServiceAssumption DEF NoShell, ShellType, Script, Prefix
  <1> HIDE DEF z
  <1>1. y \in ShellType /\ y.pc = "new" /\ y.script = script
    BY <1>0 DEF ShellType
  <1>2. PICK k \in Shells : k = Free /\ shell[k].pc = "none" /\ shell' = [shell EXCEPT ![k] = y]
    BY FreeIn DEF NewShell, z
  <1> HIDE DEF y
  <1>3. /\ shell' \in [Shells -> ShellType] /\ shell'[k] = y
        /\ \A u \in Shells : u # k => shell'[u] = shell[u]
        /\ \A u \in Shells : u # k => (Reads(u)' <=> Reads(u)) /\ File(u)' = File(u)
    BY <1>1, <1>2, OneThread DEF Inv, TypeOK
  <1>4. Counted' = Counted
    BY <1>1, <1>2, <1>3 DEF Counted
  <1>5. ~ Reads(k)'
    BY <1>1, <1>3 DEF Reads
  <1>6. (app'.mixed = app.mixed /\ tfile' = tfile) => OwnFiles'
    BY <1>3, <1>5 DEF Inv, OwnFiles
  <1> QED BY <1>1, <1>2, <1>3, <1>4, <1>6

-----------------------------------------------------------------------------
(* The steps.                                                              *)

LEMMA NewDaemonType ==
  ASSUME NEW p \in Pid, NEW c \in Config \cup {NoCfg}
  PROVE  /\ NewDaemon(p, c) \in Daemon
         /\ NewDaemon(p, c).pid = p /\ NewDaemon(p, c).cfg = c
  BY DEF NewDaemon, Daemon

LEMMA AppInitType ==
  ASSUME NEW answers \in BOOLEAN
  PROVE  /\ AppInit(answers) \in AppType
         /\ AppInit(answers).phase = "idle" /\ AppInit(answers).si = 0 /\ AppInit(answers).late = 0
  <1>1. <<>> \in Seq(Mode)
    OBVIOUS
  <1>2. 0 \in 0 .. MaxShell /\ 0 \in 0 .. MaxLate
    BY ServiceAssumption
  <1>3. AppInit(answers) \in AppType
    BY <1>1, <1>2 DEF AppInit, AppType
  <1> QED BY <1>3 DEF AppInit

LEMMA InitInv == Init => Inv
  <1> SUFFICES ASSUME Init PROVE Inv
    OBVIOUS
  <1>1. PICK answers \in BOOLEAN : app = AppInit(answers)
    BY DEF Init
  <1>2. /\ app \in AppType /\ app.phase = "idle" /\ app.si = 0 /\ app.late = 0
    BY <1>1, AppInitType
  <1>3. /\ shell \in [Shells -> ShellType]
        /\ \A t \in Shells : shell[t].pc = "none" /\ shell[t].script = "user"
    BY ServiceAssumption DEF Init, ShellInit, NoShell, ShellType, Script, Prefix
  <1>4. Cardinality(Counted) \in Nat
    BY ShellsFinite DEF Counted
  <1>5. tfile \in [Prefix \X (0 .. MaxShell) -> Script \cup {"none"}]
    BY DEF Init, NoFiles
  <1>6. ASSUME sys \in SysType PROVE TypeOK
    BY <1>2, <1>3, <1>4, <1>5, <1>6 DEF TypeOK
  <1>7. OwnFiles /\ Waits
    BY <1>2, <1>3 DEF OwnFiles, Reads, Waits
  <1>8. CASE sys = [cfg |-> NoCfg, pidfile |-> NoPid, daemons |-> {}]
    <2>1. sys \in SysType /\ sys.daemons = {}
      BY <1>8 DEF SysType
    <2>2. Fresh
      BY <2>1 DEF Fresh
    <2> QED BY <1>6, <1>7, <2>1, <2>2 DEF Inv
  <1>9. ASSUME NEW c \in Config, NEW p \in Pid,
               sys = [cfg |-> c, pidfile |-> p, daemons |-> {NewDaemon(p, c)}]
        PROVE  Inv
    <2> DEFINE d == NewDaemon(p, c)
    <2>1. d \in Daemon /\ d.pid = p /\ d.cfg = c
      BY NewDaemonType
    <2>2. sys = [cfg |-> c, pidfile |-> p, daemons |-> {d}]
      BY <1>9
    <2> HIDE DEF d
    <2>3. sys \in SysType /\ sys.cfg = c /\ sys.pidfile = p /\ sys.daemons = {d}
      BY <2>1, <2>2 DEF SysType
    <2>4. Fresh
      BY <1>2, <2>1, <2>3 DEF Fresh, Named
    <2> QED BY <1>6, <1>7, <2>3, <2>4 DEF Inv
  <1> QED BY <1>8, <1>9 DEF Init

\* A task gives up a mode, or a start is queued.
LEMMA QueueStep ==
  ASSUME Inv, NEW q \in Seq(Mode), app' = [app EXCEPT !.queue = q], UNCHANGED <<shell, tfile, sys>>
  PROVE  Inv'
  <1>1. app' \in AppType /\ app'.phase = app.phase /\ app'.joins = app.joins /\ app'.si = app.si
        /\ app'.late = app.late /\ app'.mixed = app.mixed /\ app'.refused = app.refused
    BY DEF Inv, TypeOK, AppType
  <1>2. Counted' = Counted
    BY DEF Counted
  <1>3. TypeOK'
    BY <1>1, <1>2 DEF Inv, TypeOK
  <1>4. \A t \in Shells : (Reads(t)' <=> Reads(t)) /\ File(t)' = File(t)
    BY DEF Reads, File
  <1>5. OwnFiles'
    BY <1>1, <1>4 DEF Inv, OwnFiles
  <1>6. Waits' /\ Fresh'
    BY <1>1 DEF Inv, Waits, Fresh, Smooth, Named
  <1> QED BY <1>3, <1>5, <1>6 DEF Inv

LEMMA BeginStep ==
  ASSUME Inv, Begin
  PROVE  Inv'
  <1>0. app \in AppType /\ app.phase = "idle" /\ app.queue # <<>> /\ app.queue \in Seq(Mode)
    BY DEF Begin, Inv, TypeOK, AppType
  <1>1. Tail(app.queue) \in Seq(Mode) /\ Head(app.queue) \in Mode
    BY <1>0
  <1>2. CASE app' = [app EXCEPT !.queue = Tail(@)] /\ UNCHANGED <<shell, sys>>
    BY <1>1, <1>2, QueueStep DEF Begin
  <1>3. CASE /\ SomeFree(1)
             /\ \E port \in Port : sys' = [sys EXCEPT !.cfg = [mode |-> Head(app.queue), port |-> port]]
             /\ NewShell("stop", "s_shell_")
             /\ app' = [app EXCEPT !.queue = Tail(@), !.phase = "stop", !.joins = Free]
    <2>1. PICK k \in Shells :
             /\ k = Free /\ shell[k].pc = "none"
             /\ shell' \in [Shells -> ShellType] /\ Counted' = Counted
             /\ shell'[k].pc = "new" /\ shell'[k].script = "stop"
             /\ \A u \in Shells : u # k => shell'[u] = shell[u]
             /\ (app'.mixed = app.mixed /\ tfile' = tfile) => OwnFiles'
      BY <1>3, NewThread DEF Script, Prefix
    <2>2. /\ app' \in AppType /\ app'.phase = "stop" /\ app'.joins = k /\ app'.si = app.si
          /\ app'.late = app.late /\ app'.mixed = app.mixed /\ app'.refused = app.refused
      <3>1. k \in 0 .. MaxShell
        BY ServiceAssumption DEF Shells
      <3> QED BY <1>0, <1>1, <1>3, <2>1, <3>1 DEF AppType
    <2>3. tfile' = tfile
      BY DEF Begin
    <2>4. sys' \in SysType /\ sys'.daemons = sys.daemons /\ sys'.pidfile = sys.pidfile
      <3>1. PICK port \in Port : sys' = [sys EXCEPT !.cfg = [mode |-> Head(app.queue), port |-> port]]
        BY <1>3
      <3> DEFINE c == [mode |-> Head(app.queue), port |-> port]
      <3>2. c \in Config /\ sys' = [sys EXCEPT !.cfg = c] /\ sys \in SysType
        BY <1>1, <3>1 DEF Config, Inv, TypeOK
      <3> HIDE DEF c
      <3> QED BY <3>2 DEF SysType
    <2>5. TypeOK'
      BY <2>1, <2>2, <2>3, <2>4 DEF Inv, TypeOK
    <2>6. Waits'
      BY <1>0, <2>1, <2>2 DEF Inv, Waits
    <2>7. Fresh'
      BY <2>1, <2>2, <2>4 DEF Inv, Fresh, Smooth, Named
    <2> QED BY <2>1, <2>2, <2>3, <2>4, <2>5, <2>6, <2>7 DEF Inv
  <1> QED BY <1>2, <1>3 DEF Begin

\* A task that leaves something behind is counted.
LEMMA GoesOnCounts ==
  ASSUME Inv, NEW lost \in BOOLEAN, GoesOn(lost), SomeFree(1) \/ app.phase # "stop"
  PROVE  /\ app' \in AppType /\ app'.si = app.si /\ app'.mixed = app.mixed /\ app'.refused = app.refused
         /\ app'.phase = (IF app.phase = "stop" THEN "start" ELSE "idle")
         /\ app.phase = "stop" => app'.joins = Free
         /\ app'.late = 0 => ~ lost /\ app.late = 0
  <1> DEFINE l == IF lost /\ app.late < MaxLate THEN app.late + 1 ELSE app.late
             p == IF app.phase = "stop" THEN "start" ELSE "idle"
             j == IF app.phase = "stop" THEN Free ELSE 0
  <1>1. app \in AppType /\ app.late \in 0 .. MaxLate
    BY DEF Inv, TypeOK, AppType
  <1>2. l \in 0 .. MaxLate /\ (l = 0 => ~ lost /\ app.late = 0)
    BY <1>1, ServiceAssumption
  <1>3. j \in 0 .. MaxShell /\ p \in {"idle", "stop", "start"}
    BY FreeIn, ServiceAssumption DEF Shells
  <1>4. app' = [app EXCEPT !.late = l, !.phase = p, !.joins = j]
    BY <1>1 DEF GoesOn, AppType
  <1>5. app.phase = "stop" => j = Free
    OBVIOUS
  <1> HIDE DEF l, j
  <1>6. /\ app' \in AppType /\ app'.si = app.si /\ app'.mixed = app.mixed /\ app'.refused = app.refused
        /\ app'.phase = p /\ app'.joins = j /\ app'.late = l
    BY <1>1, <1>2, <1>3, <1>4 DEF AppType
  <1> QED BY <1>2, <1>5, <1>6

LEMMA StopJoinedStep ==
  ASSUME Inv, StopJoined
  PROVE  Inv'
  <1> DEFINE ends == \E d \in sys.daemons : d.ending
  <1>1. PICK lost \in BOOLEAN : Joined(lost) /\ GoesOn(lost \/ ends)
    BY DEF StopJoined
  <1> DEFINE left == lost \/ ends
  <1>2. /\ app.phase = "stop" /\ SomeFree(1) /\ NewShell("start", "s_shell_")
        /\ tfile' = tfile /\ sys' = sys
    BY DEF StopJoined
  <1>3. left \in BOOLEAN /\ GoesOn(left) /\ (~ left => ~ lost /\ \A d \in sys.daemons : ~ d.ending)
    BY <1>1
  <1> HIDE DEF left
  <1>4. /\ app' \in AppType /\ app'.si = app.si /\ app'.mixed = app.mixed /\ app'.refused = app.refused
        /\ app'.phase = "start" /\ app'.joins = Free
        /\ app'.late = 0 => ~ left /\ app.late = 0
    BY <1>2, <1>3, GoesOnCounts
  <1>5. PICK k \in Shells :
           /\ k = Free /\ shell[k].pc = "none"
           /\ shell' \in [Shells -> ShellType] /\ Counted' = Counted
           /\ shell'[k].pc = "new" /\ shell'[k].script = "start"
           /\ \A u \in Shells : u # k => shell'[u] = shell[u]
           /\ (app'.mixed = app.mixed /\ tfile' = tfile) => OwnFiles'
    BY <1>2, NewThread DEF Script, Prefix
  <1>6. TypeOK'
    BY <1>2, <1>4, <1>5 DEF Inv, TypeOK
  <1>7. Waits'
    BY <1>2, <1>4, <1>5 DEF Inv, Waits
  <1>8. Smooth' => sys.daemons = {}
    <2> SUFFICES ASSUME Smooth' PROVE sys.daemons = {}
      OBVIOUS
    <2>1. Smooth /\ ~ left
      BY <1>4 DEF Smooth
    <2>2. shell[app.joins].pc = "done"
      BY <1>1, <1>3, <2>1 DEF Joined
    <2> QED BY <1>2, <1>3, <2>1, <2>2 DEF Inv, Fresh
  <1>9. Fresh'
    BY <1>2, <1>8 DEF Fresh
  <1> QED BY <1>2, <1>4, <1>5, <1>6, <1>7, <1>9 DEF Inv

LEMMA StartJoinedStep ==
  ASSUME Inv, StartJoined
  PROVE  Inv'
  <1>1. PICK lost \in BOOLEAN : Joined(lost) /\ GoesOn(lost)
    BY DEF StartJoined
  <1>2. app.phase = "start" /\ UNCHANGED <<shell, tfile, sys>>
    BY DEF StartJoined
  <1>3. /\ app' \in AppType /\ app'.si = app.si /\ app'.mixed = app.mixed /\ app'.refused = app.refused
        /\ app'.phase = "idle" /\ (app'.late = 0 => ~ lost /\ app.late = 0)
    BY <1>1, <1>2, GoesOnCounts
  <1>4. Counted' = Counted
    BY <1>2 DEF Counted
  <1>5. TypeOK'
    BY <1>2, <1>3, <1>4 DEF Inv, TypeOK
  <1>6. \A t \in Shells : (Reads(t)' <=> Reads(t)) /\ File(t)' = File(t)
    BY <1>2 DEF Reads, File
  <1>7. OwnFiles'
    BY <1>2, <1>3, <1>6 DEF Inv, OwnFiles
  <1>8. Waits'
    BY <1>1, <1>2, <1>3 DEF Inv, Waits, Joined
  <1>9. Fresh'
    BY <1>2, <1>3 DEF Inv, Fresh, Smooth, Named
  <1> QED BY <1>5, <1>7, <1>8, <1>9 DEF Inv

\* What a thread that goes on leaves as it was.
LEMMA ThreadKeeps ==
  ASSUME Inv, NEW t \in Shells, NEW y \in ShellType, shell' = [shell EXCEPT ![t] = y],
         y.script = shell[t].script \/ y.pc = "done",
         y.pc \notin {"none", "new", "left"}, shell[t].pc \notin {"none", "done"},
         app'.phase = app.phase, app'.joins = app.joins, app'.late = app.late,
         y.pc = "done" => y.script = "user"
  PROVE  Waits'
  <1>1. /\ shell'[t] = y /\ \A u \in Shells : u # t => shell'[u] = shell[u]
    BY OneThread DEF Inv, TypeOK
  <1>2. Waits
    BY DEF Inv
  <1>3. app.phase # "idle" => app.joins \in Shells
    BY DEF Inv, TypeOK
  <1>4. app.phase # "idle" => /\ shell'[app.joins].script = app.phase \/ shell'[app.joins].pc = "done"
                              /\ shell'[app.joins].pc \notin {"none", "left"}
    BY <1>1, <1>2, <1>3 DEF Waits
  <1>5. \A u \in Shells : shell'[u].script = "start" => shell'[u].pc \notin {"none", "done"}
    BY <1>1, <1>2 DEF Waits
  <1>6. \A u \in Shells : shell'[u].script = "start" => shell[u].script = "start"
    BY <1>1
  <1> QED BY <1>2, <1>4, <1>5, <1>6 DEF Waits

LEMMA CountStep ==
  ASSUME Inv, NEW t \in Shells, Count(t)
  PROVE  Inv'
  <1> DEFINE y == [shell[t] EXCEPT !.pc = "counted"]
             n == app.si + 1
  <1>1. /\ shell[t].pc = "new" /\ shell[t] \in ShellType /\ app \in AppType /\ app.si <= Cardinality(Counted)
        /\ tfile' = tfile /\ sys' = sys
    BY DEF Count, Inv, TypeOK
  <1>2. shell' = [shell EXCEPT ![t] = y]
    BY DEF Count, Goes
  <1>3. y \in ShellType /\ y.pc = "counted" /\ y.script = shell[t].script
    BY <1>1 DEF ShellType
  <1> HIDE DEF y
  <1>4. /\ shell' \in [Shells -> ShellType] /\ shell'[t] = y
        /\ \A u \in Shells : u # t => shell'[u] = shell[u]
        /\ \A u \in Shells : u # t => (Reads(u)' <=> Reads(u)) /\ File(u)' = File(u)
    BY <1>2, <1>3, OneThread DEF Inv, TypeOK
  <1>5. Counted \in SUBSET Shells /\ t \notin Counted /\ Counted' = Counted \cup {t}
    BY <1>1, <1>3, <1>4 DEF Counted
  <1>6. Cardinality(Counted') = Cardinality(Counted) + 1 /\ Cardinality(Counted) + 1 <= MaxShell
        /\ Cardinality(Counted) \in Nat
    <2>1. IsFiniteSet(Counted)
      BY <1>5, ShellsFinite
    <2> QED BY <1>5, <2>1, ShellsFinite, FS_AddElement
  <1>7. n \in 0 .. MaxShell /\ n <= Cardinality(Counted')
    BY <1>1, <1>6, ServiceAssumption DEF AppType
  <1>8. app' = [app EXCEPT !.si = n]
    BY DEF Count
  <1> HIDE DEF n
  <1>9. /\ app' \in AppType /\ app'.si = n /\ app'.mixed = app.mixed /\ app'.phase = app.phase
        /\ app'.joins = app.joins /\ app'.late = app.late /\ app'.refused = app.refused
    BY <1>1, <1>7, <1>8 DEF AppType
  <1>10. TypeOK'
    BY <1>1, <1>4, <1>7, <1>9 DEF Inv, TypeOK
  <1>12. \A u \in {t} : ~ Reads(u)'
    BY <1>3, <1>4 DEF Reads
  <1>13. OwnFiles'
    BY <1>1, <1>4, <1>9, <1>12 DEF Inv, OwnFiles
  <1>14. Waits'
    BY <1>1, <1>2, <1>3, <1>9, ThreadKeeps
  <1>15. Fresh'
    BY <1>1, <1>3, <1>4, <1>9 DEF Inv, TypeOK, Fresh, Smooth, Named
  <1> QED BY <1>10, <1>13, <1>14, <1>15 DEF Inv

LEMMA NameStep ==
  ASSUME Inv, NEW t \in Shells, Name(t)
  PROVE  Inv'
  <1> DEFINE f == <<shell[t].prefix, app.si>>
             z == [shell[t] EXCEPT !.pc = "named"]
             y == [z EXCEPT !.no = app.si]
             met == \E u \in Shells \ {t} : shell[u].pc \in {"named", "left", "sleep"} /\ File(u) = f
             m == app.mixed \/ met
  <1>1. /\ shell[t].pc = "counted" /\ shell[t] \in ShellType /\ app \in AppType /\ app.si \in 0 .. MaxShell
        /\ sys' = sys /\ app.si <= Cardinality(Counted) /\ app.mixed \in BOOLEAN
    BY DEF Name, Inv, TypeOK, AppType
  <1>2. shell' = [shell EXCEPT ![t] = y]
    BY <1>1 DEF Name, ShellType
  <1>3. z \in ShellType /\ z.pc = "named" /\ z.script = shell[t].script /\ z.prefix = shell[t].prefix
    BY <1>1 DEF ShellType
  <1> HIDE DEF z
  <1>4. y \in ShellType /\ y.pc = "named" /\ y.script = shell[t].script
        /\ y.prefix = shell[t].prefix /\ y.no = app.si
    BY <1>1, <1>3 DEF ShellType
  <1> HIDE DEF y
  <1>5. /\ shell' \in [Shells -> ShellType] /\ shell'[t] = y
        /\ \A u \in Shells : u # t => shell'[u] = shell[u]
        /\ \A u \in Shells : u # t => (Reads(u)' <=> Reads(u)) /\ File(u)' = File(u)
    BY <1>2, <1>4, OneThread DEF Inv, TypeOK
  <1>6. Counted' = Counted
    BY <1>1, <1>4, <1>5 DEF Counted
  <1>7. f \in Prefix \X (0 .. MaxShell) /\ tfile' = [tfile EXCEPT ![f] = shell[t].script]
    BY <1>1 DEF Name, ShellType
  <1>8. tfile' \in [Prefix \X (0 .. MaxShell) -> Script \cup {"none"}] /\ tfile'[f] = shell[t].script
        /\ \A g \in Prefix \X (0 .. MaxShell) : g # f => tfile'[g] = tfile[g]
    <2>1. tfile \in [Prefix \X (0 .. MaxShell) -> Script \cup {"none"}] /\ shell[t].script \in Script
      BY <1>1 DEF Inv, TypeOK, ShellType
    <2> HIDE DEF f
    <2> QED BY <1>7, <2>1
  <1>9. app' = [app EXCEPT !.mixed = m] /\ m \in BOOLEAN
    BY <1>1 DEF Name, SharedWith
  <1>10. ~ m => ~ app.mixed /\ \A u \in Shells : (u # t /\ Reads(u)) => File(u) # f
    BY DEF Reads
  <1> HIDE DEF m
  <1>11. /\ app' \in AppType /\ app'.si = app.si /\ app'.mixed = m /\ app'.phase = app.phase
         /\ app'.joins = app.joins /\ app'.late = app.late /\ app'.refused = app.refused
    BY <1>1, <1>9 DEF AppType
  <1>12. TypeOK'
    BY <1>1, <1>5, <1>6, <1>8, <1>11 DEF Inv, TypeOK
  <1>14. \A u \in {t} : File(u)' = f
    BY <1>4, <1>5 DEF File
  <1>15. \A u \in Shells : File(u) \in Prefix \X (0 .. MaxShell)
    BY DEF Inv, TypeOK, ShellType, File
  <1> HIDE DEF f
  <1>16. OwnFiles'
    <2> SUFFICES ASSUME ~ m PROVE OwnFiles'
      BY <1>11 DEF OwnFiles
    <2>1. ASSUME NEW u \in Shells, NEW v \in Shells, u # v, Reads(u)', Reads(v)'
          PROVE  File(u)' # File(v)'
      BY <1>5, <1>10, <1>14, <2>1 DEF Inv, OwnFiles
    <2>2. ASSUME NEW u \in Shells, Reads(u)'
          PROVE  tfile'[File(u)'] = shell'[u].script
      <3>1. CASE u = t
        BY <1>4, <1>5, <1>8, <1>14, <3>1
      <3>2. CASE u # t
        <4>1. Reads(u) /\ File(u)' = File(u) /\ File(u) # f /\ shell'[u] = shell[u]
          BY <1>5, <1>10, <2>2, <3>2
        <4>2. tfile[File(u)] = shell[u].script
          BY <1>10, <4>1 DEF Inv, OwnFiles
        <4> QED BY <1>8, <1>15, <4>1, <4>2
      <3> QED BY <3>1, <3>2
    <2> QED BY <2>1, <2>2 DEF OwnFiles
  <1>17. Waits'
    BY <1>1, <1>2, <1>4, <1>11, ThreadKeeps
  <1>18. Fresh'
    BY <1>1, <1>4, <1>5, <1>10, <1>11 DEF Inv, TypeOK, Fresh, Smooth, Named
  <1> QED BY <1>12, <1>16, <1>17, <1>18 DEF Inv

\* stop.sh: each daemon that haproxy.pid names is ending now, and nothing else changes.
LEMMA Killed ==
  ASSUME sys \in SysType, StopKill
  PROVE  /\ sys' \in SysType /\ sys'.cfg = sys.cfg /\ sys'.pidfile = sys.pidfile
         /\ \A e \in sys'.daemons : \E d \in sys.daemons :
               e.pid = d.pid /\ e.cfg = d.cfg /\ (Named(d) => e.ending)
  <1> DEFINE E(d) == [d EXCEPT !.ending = d.ending \/ Named(d)]
             D == {E(d) : d \in sys.daemons}
  <1>1. sys.daemons \in SUBSET Daemon
    BY DEF SysType
  <1>2. \A d \in sys.daemons : E(d) \in Daemon /\ E(d).pid = d.pid /\ E(d).cfg = d.cfg /\ (Named(d) => E(d).ending)
    BY <1>1 DEF Daemon, Named
  <1>3. sys' = [sys EXCEPT !.daemons = D]
    BY DEF StopKill
  <1> HIDE DEF E
  <1>4. D \in SUBSET Daemon
    BY <1>2
  <1>5. \A e \in D : \E d \in sys.daemons : e.pid = d.pid /\ e.cfg = d.cfg /\ (Named(d) => e.ending)
    BY <1>2
  <1> HIDE DEF D
  <1>6. sys' \in SysType /\ sys'.cfg = sys.cfg /\ sys'.pidfile = sys.pidfile /\ sys'.daemons = D
    BY <1>3, <1>4 DEF SysType
  <1> QED BY <1>5, <1>6

\* start.sh starts a daemon with run.cfg, or none.
LEMMA Started ==
  ASSUME sys \in SysType, StartHaP
  PROVE  /\ sys' \in SysType /\ sys'.cfg = sys.cfg
         /\ \/ sys' = sys
            \/ \A d \in sys'.daemons : d \in sys.daemons \/ (d.cfg = sys.cfg /\ d.pid = sys'.pidfile)
  <1>1. CASE sys' = sys
    BY <1>1
  <1>2. ASSUME NEW p \in Pid,
               sys' = [sys EXCEPT !.daemons = @ \cup {NewDaemon(p, sys.cfg)}, !.pidfile = p]
        PROVE  /\ sys' \in SysType /\ sys'.cfg = sys.cfg
               /\ \A d \in sys'.daemons : d \in sys.daemons \/ (d.cfg = sys.cfg /\ d.pid = sys'.pidfile)
    <2> DEFINE n == NewDaemon(p, sys.cfg)
               D == sys.daemons \cup {n}
    <2>1. sys.cfg \in Config \cup {NoCfg} /\ sys.daemons \in SUBSET Daemon
      BY DEF SysType
    <2>2. n \in Daemon /\ n.pid = p /\ n.cfg = sys.cfg
      BY <2>1, NewDaemonType
    <2>3. sys' = [sys EXCEPT !.daemons = D, !.pidfile = p]
      BY <1>2
    <2> HIDE DEF n
    <2>4. D \in SUBSET Daemon /\ \A d \in D : d \in sys.daemons \/ (d.cfg = sys.cfg /\ d.pid = p)
      BY <2>1, <2>2
    <2> HIDE DEF D
    <2>5. sys' \in SysType /\ sys'.cfg = sys.cfg /\ sys'.pidfile = p /\ sys'.daemons = D
      BY <2>3, <2>4 DEF SysType
    <2> QED BY <2>4, <2>5
  <1> QED BY <1>1, <1>2 DEF StartHaP

\* A thread whose shell has ended sleeps or is done; it has its file as before or no
\* longer.
LEMMA ThreadEnds ==
  ASSUME Inv, NEW t \in Shells, Reads(t), ShellEnds(t) \/ Ends(t),
         app'.phase = app.phase, app'.joins = app.joins, app'.late = app.late
  PROVE  /\ shell' \in [Shells -> ShellType] /\ Counted' = Counted /\ Waits'
         /\ shell'[t].pc \in {"sleep", "done"} /\ (Ends(t) => ~ Reads(t)')
         /\ \A u \in Shells : u # t => shell'[u] = shell[u]
         /\ \A u \in Shells : Reads(u)' => Reads(u) /\ File(u)' = File(u) /\ shell'[u].script = shell[u].script
  <1> DEFINE s == [shell[t] EXCEPT !.pc = "sleep"]
             e == [NoShell EXCEPT !.pc = "done"]
  <1>1. shell[t] \in ShellType /\ shell[t].pc \in {"named", "left", "sleep"}
    BY DEF Inv, TypeOK, Reads
  <1>2. /\ s \in ShellType /\ s.pc = "sleep" /\ s.script = shell[t].script
        /\ s.prefix = shell[t].prefix /\ s.no = shell[t].no
    BY <1>1 DEF ShellType
  <1>3. e \in ShellType /\ e.pc = "done" /\ e.script = "user"
    BY ServiceAssumption DEF ShellType, NoShell, Script, Prefix
  <1>4. /\ shell' = [shell EXCEPT ![t] = s] \/ shell' = [shell EXCEPT ![t] = e]
        /\ Ends(t) => shell' = [shell EXCEPT ![t] = e]
    BY DEF ShellEnds, Ends, Goes
  <1> HIDE DEF s, e
  <1>5. PICK y \in {s, e} : shell' = [shell EXCEPT ![t] = y] /\ (Ends(t) => y = e)
    BY <1>4
  <1>6. /\ y \in ShellType /\ y.pc \in {"sleep", "done"} /\ (Ends(t) => y.pc = "done")
        /\ y.pc = "done" => y.script = "user"
        /\ y.pc = "sleep" => (y.script = shell[t].script /\ y.prefix = shell[t].prefix /\ y.no = shell[t].no)
    BY <1>2, <1>3, <1>5
  <1>7. /\ shell' \in [Shells -> ShellType] /\ shell'[t] = y
        /\ \A u \in Shells : u # t => shell'[u] = shell[u]
        /\ \A u \in Shells : u # t => (Reads(u)' <=> Reads(u)) /\ File(u)' = File(u)
    BY <1>5, <1>6, OneThread DEF Inv, TypeOK
  <1>8. Counted' = Counted
    BY <1>1, <1>6, <1>7 DEF Counted
  <1>9. Waits'
    BY <1>1, <1>5, <1>6, ThreadKeeps
  <1>10. \A u \in {t} : Reads(u)' => File(u)' = File(u) /\ shell'[u].script = shell[u].script
    BY <1>6, <1>7 DEF Reads, File
  <1>11. \A u \in {t} : Ends(t) => ~ Reads(u)'
    BY <1>6, <1>7 DEF Reads
  <1> QED BY <1>6, <1>7, <1>8, <1>9, <1>10, <1>11

\* What becomes of the file.
LEMMA FileEnds ==
  ASSUME Inv, NEW t \in Shells, Reads(t), ShellEnds(t) \/ Ends(t),
         app'.phase = app.phase, app'.joins = app.joins, app'.late = app.late, app'.mixed = app.mixed,
         \/ tfile' = tfile
         \/ Ends(t) /\ tfile' = [tfile EXCEPT ![File(t)] = "none"]
  PROVE  /\ tfile' \in [Prefix \X (0 .. MaxShell) -> Script \cup {"none"}]
         /\ OwnFiles'
  <1> DEFINE f == File(t)
  <1>1. tfile \in [Prefix \X (0 .. MaxShell) -> Script \cup {"none"}]
    BY DEF Inv, TypeOK
  <1>2. \A u \in Shells : File(u) \in Prefix \X (0 .. MaxShell)
    BY DEF Inv, TypeOK, ShellType, File
  <1>3. /\ Ends(t) => ~ Reads(t)'
        /\ \A u \in Shells : Reads(u)' => Reads(u) /\ File(u)' = File(u) /\ shell'[u].script = shell[u].script
    BY ThreadEnds
  <1>4. f \in Prefix \X (0 .. MaxShell)
    BY <1>2
  <1>5. \A u \in Shells : (u # t /\ Reads(u) /\ ~ app.mixed) => File(u) # f
    BY DEF Inv, OwnFiles
  <1> HIDE DEF f
  <1>6. /\ tfile' \in [Prefix \X (0 .. MaxShell) -> Script \cup {"none"}]
        /\ \A g \in Prefix \X (0 .. MaxShell) : g # f => tfile'[g] = tfile[g]
        /\ tfile' = tfile \/ ~ Reads(t)'
    BY <1>1, <1>3, <1>4 DEF f
  <1>7. OwnFiles'
    <2> SUFFICES ASSUME ~ app.mixed PROVE OwnFiles'
      BY DEF OwnFiles
    <2>1. ASSUME NEW u \in Shells, NEW v \in Shells, u # v, Reads(u)', Reads(v)'
          PROVE  File(u)' # File(v)'
      BY <1>3, <2>1 DEF Inv, OwnFiles
    <2>2. ASSUME NEW u \in Shells, Reads(u)'
          PROVE  tfile'[File(u)'] = shell'[u].script
      <3>1. Reads(u) /\ File(u)' = File(u) /\ shell'[u].script = shell[u].script
        BY <1>3, <2>2
      <3>2. tfile[File(u)] = shell[u].script
        BY <3>1 DEF Inv, OwnFiles
      <3>3. tfile'[File(u)] = tfile[File(u)]
        <4>1. CASE tfile' = tfile
          BY <4>1
        <4>2. CASE ~ Reads(t)'
          <5>1. u # t
            BY <2>2, <4>2
          <5> QED BY <1>2, <1>5, <1>6, <3>1, <5>1
        <4> QED BY <1>6, <4>1, <4>2
      <3> QED BY <3>1, <3>2, <3>3
    <2> QED BY <2>1, <2>2 DEF OwnFiles
  <1> QED BY <1>6, <1>7

LEMMA RunStep ==
  ASSUME Inv, NEW t \in Shells, Run(t)
  PROVE  Inv'
  <1> DEFINE c == tfile[File(t)]
  <1>1. /\ shell[t].pc \in {"named", "left"} /\ app' = app /\ tfile' = tfile /\ ShellEnds(t)
        /\ sys \in SysType
    BY DEF Run, Inv, TypeOK
  <1>2. Reads(t)
    BY <1>1 DEF Reads
  <1>3. /\ shell' \in [Shells -> ShellType] /\ Counted' = Counted /\ Waits'
        /\ shell'[t].pc \in {"sleep", "done"}
        /\ \A u \in Shells : u # t => shell'[u] = shell[u]
    BY <1>1, <1>2, ThreadEnds
  <1>4. OwnFiles'
    BY <1>1, <1>2, FileEnds
  <1>5. ~ app.mixed => c = shell[t].script
    BY <1>2 DEF Inv, OwnFiles
  <1>6. /\ c = "stop" => StopKill
        /\ c = "start" => StartHaP
        /\ (c # "stop" /\ c # "start") => sys' = sys
    BY DEF Run
  <1> HIDE DEF c
  <1>7. sys' \in SysType /\ sys'.cfg = sys.cfg
    BY <1>1, <1>6, Killed, Started
  <1>8. TypeOK'
    BY <1>1, <1>3, <1>7 DEF Inv, TypeOK
  <1>9. Fresh'
    <2> SUFFICES ASSUME Smooth
                 PROVE  /\ (app.phase = "stop" /\ shell'[app.joins].pc \in {"sleep", "done"}) =>
                             \A d \in sys'.daemons : d.ending
                        /\ (app.phase = "start" /\ shell'[app.joins].pc \in {"new", "counted", "named"}) =>
                             sys'.daemons = {}
                        /\ app.phase # "stop" => \A d \in sys'.daemons : d.cfg = sys'.cfg
                        /\ \A d \in sys'.daemons : d.pid = sys'.pidfile
      BY <1>1 DEF Fresh, Smooth, Named
    <2>1. /\ (app.phase = "stop" /\ shell[app.joins].pc \in {"sleep", "done"}) => \A d \in sys.daemons : d.ending
          /\ (app.phase = "start" /\ shell[app.joins].pc \in {"new", "counted", "named"}) => sys.daemons = {}
          /\ app.phase # "stop" => \A d \in sys.daemons : d.cfg = sys.cfg
          /\ \A d \in sys.daemons : d.pid = sys.pidfile
      BY DEF Inv, Fresh, Named
    <2>2. /\ app.phase # "idle" => /\ app.joins \in Shells
                                   /\ shell[app.joins].script = app.phase \/ shell[app.joins].pc = "done"
                                   /\ shell[app.joins].pc # "left"
          /\ shell[t].script = "start" => app.phase = "start" /\ t = app.joins
          /\ c = shell[t].script
      BY <1>5 DEF Inv, TypeOK, Waits, Smooth
    <2>3. (app.phase = "start" /\ shell'[app.joins].pc \in {"new", "counted", "named"}) => sys.daemons = {} /\ t # app.joins
      BY <1>3, <2>1, <2>2
    <2>4. CASE c = "stop"
      <3>1. /\ sys'.cfg = sys.cfg /\ sys'.pidfile = sys.pidfile
            /\ \A e \in sys'.daemons : \E d \in sys.daemons :
                  e.pid = d.pid /\ e.cfg = d.cfg /\ (Named(d) => e.ending)
        BY <1>1, <1>6, <2>4, Killed
      <3>2. \A e \in sys'.daemons : e.ending /\ e.pid = sys'.pidfile
        BY <2>1, <3>1 DEF Named
      <3>3. sys.daemons = {} => sys'.daemons = {}
        BY <3>1
      <3> QED BY <2>1, <2>3, <3>1, <3>2, <3>3
    <2>5. CASE c = "start"
      <3>1. app.phase = "start" /\ t = app.joins /\ sys.daemons = {}
        BY <1>1, <2>1, <2>2, <2>5
      <3>2. \A d \in sys'.daemons : d.cfg = sys.cfg /\ d.pid = sys'.pidfile
        BY <1>1, <1>6, <2>5, <3>1, Started
      <3> QED BY <1>7, <2>3, <3>1, <3>2
    <2>6. CASE c # "stop" /\ c # "start"
      <3>1. sys' = sys
        BY <1>6, <2>6
      <3>2. app.phase = "stop" => app.joins # t
        BY <1>1, <2>2, <2>6
      <3> QED BY <1>3, <2>1, <2>2, <2>3, <3>1, <3>2
    <2> QED BY <2>4, <2>5, <2>6
  <1> QED BY <1>3, <1>4, <1>8, <1>9 DEF Inv

\* Without stop.sh no daemon is signalled, but then refused says so.
LEMMA RefuseStep ==
  ASSUME Inv, NEW t \in Shells, Refuse(t)
  PROVE  Inv'
  <1> DEFINE r == app.refused \/ (shell[t].script = "stop" /\ sys.daemons # {})
  <1>1. /\ shell[t].pc \in {"named", "left"} /\ sys' = sys
        /\ app \in AppType /\ app' = [app EXCEPT !.refused = r] /\ (ShellEnds(t) \/ Ends(t))
        /\ \/ tfile' = tfile
           \/ Ends(t) /\ tfile' = [tfile EXCEPT ![File(t)] = "none"]
    BY DEF Refuse, Abandon, Inv, TypeOK
  <1>2. r \in BOOLEAN /\ (~ r => ~ app.refused /\ (shell[t].script = "stop" => sys.daemons = {}))
    BY <1>1 DEF AppType
  <1> HIDE DEF r
  <1>3. /\ app' \in AppType /\ app'.si = app.si /\ app'.mixed = app.mixed /\ app'.phase = app.phase
        /\ app'.joins = app.joins /\ app'.late = app.late /\ app'.refused = r
    BY <1>1, <1>2 DEF AppType
  <1>4. Reads(t)
    BY <1>1 DEF Reads
  <1>5. /\ shell' \in [Shells -> ShellType] /\ Counted' = Counted /\ Waits'
        /\ shell'[t].pc \in {"sleep", "done"}
        /\ \A u \in Shells : u # t => shell'[u] = shell[u]
    BY <1>1, <1>3, <1>4, ThreadEnds
  <1>6. OwnFiles' /\ tfile' \in [Prefix \X (0 .. MaxShell) -> Script \cup {"none"}]
    BY <1>1, <1>3, <1>4, FileEnds
  <1>7. TypeOK'
    BY <1>1, <1>3, <1>5, <1>6 DEF Inv, TypeOK
  <1>8. Fresh'
    <2> SUFFICES ASSUME Smooth, ~ r PROVE Fresh'
      BY <1>2, <1>3 DEF Fresh, Smooth
    <2>1. /\ app.phase # "idle" => /\ app.joins \in Shells
                                   /\ shell[app.joins].script = app.phase \/ shell[app.joins].pc = "done"
          /\ shell[t].script = "stop" => sys.daemons = {}
      BY <1>2 DEF Inv, TypeOK, Waits
    <2>2. CASE app.joins = t
      BY <1>1, <1>3, <1>5, <2>1, <2>2 DEF Inv, Fresh, Named
    <2>3. CASE app.joins # t
      BY <1>1, <1>3, <1>5, <2>1, <2>3 DEF Inv, Fresh, Named
    <2> QED BY <2>2, <2>3
  <1> QED BY <1>5, <1>6, <1>7, <1>8 DEF Inv

LEMMA DoneStep ==
  ASSUME Inv, NEW t \in Shells, Done(t)
  PROVE  Inv'
  <1>1. /\ shell[t].pc = "sleep" /\ app' = app /\ sys' = sys /\ Ends(t)
        /\ tfile' = [tfile EXCEPT ![File(t)] = "none"]
    BY DEF Done
  <1>2. Reads(t)
    BY <1>1 DEF Reads
  <1>3. /\ shell' \in [Shells -> ShellType] /\ Counted' = Counted /\ Waits'
        /\ shell'[t].pc \in {"sleep", "done"}
        /\ \A u \in Shells : u # t => shell'[u] = shell[u]
    BY <1>1, <1>2, ThreadEnds
  <1>4. OwnFiles' /\ tfile' \in [Prefix \X (0 .. MaxShell) -> Script \cup {"none"}]
    BY <1>1, <1>2, FileEnds
  <1>5. TypeOK'
    BY <1>1, <1>3, <1>4 DEF Inv, TypeOK
  <1>6. app.phase # "idle" => app.joins \in Shells
    BY DEF Inv, TypeOK
  <1>7. Fresh'
    BY <1>1, <1>3, <1>6 DEF Inv, Fresh, Smooth, Named
  <1> QED BY <1>3, <1>4, <1>5, <1>7 DEF Inv

LEMMA ButtonStep ==
  ASSUME Inv, NEW b \in {"stop", "status"}, PressButton(b)
  PROVE  Inv'
  <1>1. NewShell(b, "d_shell_") /\ app' = app /\ tfile' = tfile /\ sys' = sys
    BY DEF PressButton
  <1>2. SomeFree(1)
    <2> DEFINE n == 2 * Len(app.queue)
               k == IF app.phase = "stop" THEN 1 ELSE 0
    <2>1. Len(app.queue) \in Nat
      BY DEF Inv, TypeOK, AppType
    <2>2. n \in Nat /\ k \in Nat
      BY <2>1
    <2>4. SomeFree(n + k + 1)
      BY Zenon DEF PressButton, Needed
    <2>3. Cardinality({t \in Shells : shell[t].pc = "none"}) \in Nat
      BY ShellsFinite
    <2> HIDE DEF n, k
    <2> QED BY <2>2, <2>3, <2>4 DEF SomeFree
  <1>3. PICK k \in Shells :
           /\ k = Free /\ shell[k].pc = "none"
           /\ shell' \in [Shells -> ShellType] /\ Counted' = Counted
           /\ shell'[k].pc = "new" /\ shell'[k].script = b
           /\ \A u \in Shells : u # k => shell'[u] = shell[u]
           /\ (app'.mixed = app.mixed /\ tfile' = tfile) => OwnFiles'
    BY <1>1, <1>2, NewThread DEF Script, Prefix
  <1>4. TypeOK'
    BY <1>1, <1>3 DEF Inv, TypeOK
  <1>6. app.phase # "idle" => app.joins \in Shells /\ app.joins # k
    BY <1>3 DEF Inv, TypeOK, Waits
  <1>7. Waits'
    BY <1>1, <1>3, <1>6 DEF Inv, Waits
  <1>8. Fresh'
    BY <1>1, <1>3, <1>6 DEF Inv, Fresh, Smooth, Named
  <1> QED BY <1>1, <1>3, <1>4, <1>7, <1>8 DEF Inv

\* Daemons have ended, by SIGTERM or with the phone.
LEMMA Ended ==
  ASSUME sys \in SysType, NEW D \in SUBSET sys.daemons, sys' = [sys EXCEPT !.daemons = D]
  PROVE  sys' \in SysType /\ sys'.daemons = D /\ sys'.cfg = sys.cfg /\ sys'.pidfile = sys.pidfile
  <1>1. D \in SUBSET Daemon
    BY DEF SysType
  <1> QED BY <1>1 DEF SysType

LEMMA DaemonEndsStep ==
  ASSUME Inv, DaemonEnds
  PROVE  Inv'
  <1>1. PICK D \in SUBSET sys.daemons : sys' = [sys EXCEPT !.daemons = D]
    BY DEF DaemonEnds
  <1>2. UNCHANGED <<app, shell, tfile>>
    BY DEF DaemonEnds
  <1>3. sys' \in SysType /\ sys'.daemons = D /\ sys'.cfg = sys.cfg /\ sys'.pidfile = sys.pidfile
    BY <1>1, Ended DEF Inv, TypeOK
  <1>4. Fresh'
    BY <1>2, <1>3 DEF Inv, Fresh, Smooth, Named
  <1>5. Counted' = Counted /\ \A t \in Shells : (Reads(t)' <=> Reads(t)) /\ File(t)' = File(t)
    BY <1>2 DEF Counted, Reads, File
  <1>6. TypeOK' /\ OwnFiles' /\ Waits'
    BY <1>2, <1>3, <1>5 DEF Inv, TypeOK, OwnFiles, Waits
  <1> QED BY <1>4, <1>6 DEF Inv

\* The shells that are left keep their files.  A task that dies is counted as late.
LEMMA AppDiesStep ==
  ASSUME Inv, AppDies
  PROVE  Inv'
  <1> DEFINE l == IF app.phase # "idle" /\ app.late < MaxLate THEN app.late + 1 ELSE app.late
  <1>1. PICK answers \in BOOLEAN :
           app' = [AppInit(answers) EXCEPT !.late = l, !.mixed = app.mixed, !.refused = app.refused]
    BY DEF AppDies
  <1>2. /\ app.late \in 0 .. MaxLate /\ app.mixed \in BOOLEAN /\ app.refused \in BOOLEAN
        /\ tfile' = tfile /\ sys' = sys
    BY DEF AppDies, Inv, TypeOK, AppType
  <1>3. l \in 0 .. MaxLate /\ (l = 0 => app.late = 0 /\ app.phase = "idle")
    BY <1>2, ServiceAssumption
  <1> HIDE DEF l
  <1>4. /\ app' \in AppType /\ app'.phase = "idle" /\ app'.si = 0 /\ app'.late = l
        /\ app'.mixed = app.mixed /\ app'.refused = app.refused
    <2> DEFINE A == AppInit(answers)
    <2>1. A \in AppType /\ A.phase = "idle" /\ A.si = 0
      BY AppInitType
    <2>2. app' = [A EXCEPT !.late = l, !.mixed = app.mixed, !.refused = app.refused]
      BY <1>1
    <2> HIDE DEF A
    <2> QED BY <1>2, <1>3, <2>1, <2>2 DEF AppType
  <1>5. NoShell \in ShellType /\ NoShell.pc = "none" /\ NoShell.script = "user"
    BY ServiceAssumption DEF NoShell, ShellType, Script, Prefix
  <1>6. ASSUME NEW t \in Shells
        PROVE  /\ shell'[t] \in ShellType
               /\ Reads(t)' => (Reads(t) /\ File(t)' = File(t) /\ shell'[t].script = shell[t].script)
               /\ shell'[t].script = "start" => (shell[t].script = "start" /\ shell'[t].pc = "left")
    <2> DEFINE y == [shell[t] EXCEPT !.pc = "left"]
    <2>1. shell[t] \in ShellType
      BY DEF Inv, TypeOK
    <2>2. shell'[t] = IF shell[t].pc \in {"named", "left"} THEN y ELSE NoShell
      BY DEF AppDies
    <2>3. /\ y \in ShellType /\ y.pc = "left" /\ y.script = shell[t].script
          /\ y.prefix = shell[t].prefix /\ y.no = shell[t].no
      BY <2>1 DEF ShellType
    <2> HIDE DEF y
    <2>4. CASE shell[t].pc \in {"named", "left"}
      BY <2>2, <2>3, <2>4 DEF Reads, File
    <2>5. CASE shell[t].pc \notin {"named", "left"}
      BY <1>5, <2>2, <2>5 DEF Reads
    <2> QED BY <2>4, <2>5
  <1>7. shell' \in [Shells -> ShellType]
    <2>1. \E e : shell' = [t \in Shells |-> e[t]]
      <3> DEFINE e == [t \in Shells |-> IF shell[t].pc \in {"named", "left"}
                                        THEN [shell[t] EXCEPT !.pc = "left"] ELSE NoShell]
      <3>1. shell' = e /\ e = [t \in Shells |-> e[t]]
        BY DEF AppDies
      <3> QED BY <3>1
    <2> QED BY <1>6, <2>1
  <1>8. Cardinality(Counted') \in Nat
    BY ShellsFinite DEF Counted
  <1>9. TypeOK'
    BY <1>2, <1>4, <1>7, <1>8 DEF Inv, TypeOK
  <1>10. OwnFiles'
    BY <1>2, <1>4, <1>6 DEF Inv, OwnFiles
  <1>11. Waits'
    BY <1>3, <1>4, <1>6 DEF Inv, Waits
  <1>12. Fresh'
    BY <1>2, <1>3, <1>4 DEF Inv, Fresh, Smooth, Named
  <1> QED BY <1>9, <1>10, <1>11, <1>12 DEF Inv

LEMMA RebootStep ==
  ASSUME Inv, Reboot
  PROVE  Inv'
  <1>1. sys' = [sys EXCEPT !.daemons = {}] /\ tfile' = NoFiles
    BY DEF Reboot
  <1>2. sys' \in SysType /\ sys'.daemons = {}
    BY <1>1, Ended DEF Inv, TypeOK
  <1>3. app' \in AppType /\ app'.phase = "idle" /\ app'.si = 0
    <2>1. PICK answers \in BOOLEAN : \/ app' = AppInit(answers)
                                     \/ \E m \in Mode : app' = [AppInit(answers) EXCEPT !.queue = <<m>>]
      BY DEF Reboot
    <2> DEFINE A == AppInit(answers)
    <2>2. A \in AppType /\ A.phase = "idle" /\ A.si = 0
      BY AppInitType
    <2> HIDE DEF A
    <2>3. CASE app' = A
      BY <2>2, <2>3
    <2>4. ASSUME NEW m \in Mode, app' = [A EXCEPT !.queue = <<m>>]
          PROVE  app' \in AppType /\ app'.phase = "idle" /\ app'.si = 0
      <3>1. <<m>> \in Seq(Mode)
        OBVIOUS
      <3> QED BY <2>2, <2>4, <3>1 DEF AppType
    <2> QED BY <2>1, <2>3, <2>4 DEF A
  <1>4. /\ shell' \in [Shells -> ShellType]
        /\ \A t \in Shells : shell'[t].pc \in {"none", "new"} /\ shell'[t].script = "user"
    <2>1. NoShell \in ShellType /\ NoShell.pc = "none" /\ NoShell.script = "user"
      BY ServiceAssumption DEF NoShell, ShellType, Script, Prefix
    <2>2. CASE shell' = ShellInit
      BY <2>1, <2>2 DEF ShellInit
    <2>3. CASE shell' = [ShellInit EXCEPT ![1].pc = "new"]
      <3> DEFINE y == [NoShell EXCEPT !.pc = "new"]
      <3>1. y \in ShellType /\ y.pc = "new" /\ y.script = "user"
        BY <2>1 DEF ShellType
      <3>2. 1 \in Shells
        BY ServiceAssumption DEF Shells
      <3>3. shell' = [ShellInit EXCEPT ![1] = y]
        BY <2>3, <3>2 DEF ShellInit
      <3> HIDE DEF y
      <3> QED BY <2>1, <3>1, <3>3 DEF ShellInit
    <2> QED BY <2>2, <2>3 DEF Reboot
  <1>5. Cardinality(Counted') \in Nat
    BY ShellsFinite DEF Counted
  <1>6. tfile' \in [Prefix \X (0 .. MaxShell) -> Script \cup {"none"}]
    BY <1>1 DEF NoFiles
  <1>7. TypeOK'
    BY <1>2, <1>3, <1>4, <1>5, <1>6 DEF TypeOK
  <1>8. \A t \in Shells : ~ Reads(t)'
    BY <1>4 DEF Reads
  <1>9. OwnFiles'
    BY <1>8 DEF OwnFiles
  <1>10. Waits'
    BY <1>3, <1>4 DEF Waits
  <1>11. Fresh'
    BY <1>2 DEF Fresh
  <1> QED BY <1>7, <1>9, <1>10, <1>11 DEF Inv

LEMMA NextInv == Inv /\ [Next]_vars => Inv'
  <1> SUFFICES ASSUME Inv, [Next]_vars PROVE Inv'
    OBVIOUS
  <1>1. CASE UNCHANGED vars
    <2>1. UNCHANGED <<app, shell, tfile, sys>>
      BY <1>1 DEF vars
    <2>2. Counted' = Counted /\ \A t \in Shells : (Reads(t)' <=> Reads(t)) /\ File(t)' = File(t)
      BY <2>1 DEF Counted, Reads, File
    <2> QED BY <2>1, <2>2 DEF Inv, TypeOK, OwnFiles, Waits, Fresh, Smooth, Named
  <1>2. CASE TaskStep
    BY <1>2, BeginStep, StopJoinedStep, StartJoinedStep DEF TaskStep
  <1>3. ASSUME NEW t \in Shells, ShellStep(t) \/ Refuse(t)
        PROVE  Inv'
    BY <1>3, CountStep, NameStep, RunStep, RefuseStep, DoneStep DEF ShellStep
  <1>4. ASSUME NEW m \in Mode, PressStart(m)
        PROVE  Inv'
    <2> DEFINE q == Append(app.queue, m)
    <2>1. app.queue \in Seq(Mode)
      BY DEF Inv, TypeOK, AppType
    <2>2. q \in Seq(Mode) /\ app' = [app EXCEPT !.queue = q] /\ UNCHANGED <<shell, tfile, sys>>
      BY <1>4, <2>1 DEF PressStart
    <2> QED BY <2>2, QueueStep
  <1> QED BY <1>1, <1>2, <1>3, <1>4, ButtonStep, DaemonEndsStep, AppDiesStep, RebootStep DEF Next

-----------------------------------------------------------------------------
(* The theorems.                                                           *)

\* The inductive invariant holds in every state.
THEOREM InvHolds == Spec => []Inv
  BY InitInv, NextInv, PTL DEF Spec

\* However starts, stops, deaths of the application and reboots overlap, whatever port is
\* set for each start, and though si is shared without a lock: haproxy.pid names every
\* daemon, as long as no task has left a script behind, no stop.sh was refused and no
\* file was shared.  Each of these is needed: a start on another port may follow it.
THEOREM PidFileNamesDaemonHolds == Spec => []PidFileNamesDaemon
  <1>1. Inv => PidFileNamesDaemon
    BY DEF Inv, Fresh, PidFileNamesDaemon
  <1> QED BY <1>1, InvHolds, PTL

\* For every number of threads: unless two running threads have had the same file, each
\* thread's shell reads the commands the thread was made for.
THEOREM OwnCommandsHolds == Spec => []OwnCommands
  <1>1. Inv => OwnCommands
    BY DEF Inv, OwnFiles, Reads, OwnCommands
  <1> QED BY <1>1, InvHolds, PTL

\* When every script was done before its task went on, no stop.sh was refused and no file
\* was shared, no daemon is left with the mode or the port of an earlier start.
THEOREM NoStaleDaemonHolds == Spec => []NoStaleDaemon
  <1>1. Inv => NoStaleDaemon
    BY DEF Inv, Fresh, NoStaleDaemon
  <1> QED BY <1>1, InvHolds, PTL
=============================================================================

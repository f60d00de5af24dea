----------------------------- MODULE HapService -----------------------------
(***************************************************************************)
(* Starting and stopping HaP from the application                          *)
(* (src/src/com/hap/Tool/HPStart.java, SuperUser.java, the buttons of      *)
(* MainActivity.java, the boot receiver, and assets/start.sh, stop.sh and  *)
(* status.sh).                                                             *)
(*                                                                         *)
(* A start is an AsyncTask; Android runs these one after the other on one  *)
(* thread (from API 11 on).  It writes run.cfg, runs stop.sh in a Shell    *)
(* thread, waits for that thread for at most three seconds, and does the   *)
(* same with start.sh.  The stop and the status button each start a DShell *)
(* thread of their own.  A thread counts itself in the static field si,    *)
(* names a file after the counter, writes its commands there and has su,   *)
(* or sh if no root was found, read that file.                             *)
(* HaP is haproxy as a daemon: it refuses to start while another one has   *)
(* the port of its configuration, otherwise it writes its process number   *)
(* to haproxy.pid.  It is known here by what the scripts do with it.       *)
(*                                                                         *)
(* Abstracted: the configuration (run.cfg is the mode whose files it was   *)
(* made from and the port that was set), the messages of the scripts and   *)
(* the progress display.                                                   *)
(***************************************************************************)
EXTENDS Naturals, Sequences, FiniteSets

CONSTANTS
    Mode,      \* the modes the user has set up
    Port,      \* the ports the user sets
    Pid,       \* process numbers
    NoCfg,     \* not a configuration: no run.cfg yet
    NoPid,     \* not a process number: no haproxy.pid yet
    MaxTap,    \* bound: buttons pressed, deaths of the application and reboots
    MaxLate,   \* bound: scripts left behind while su is answered
    MaxShell   \* bound: Shell and DShell threads between two reboots

ASSUME ServiceAssumption ==
    /\ NoPid \notin Pid
    /\ MaxTap \in Nat
    /\ MaxLate \in Nat \ {0}    \* with 0 a script left behind would not be counted
    /\ MaxShell \in Nat \ {0}

Script == {"stop", "start", "status", "user"}
Prefix == {"s_shell_", "d_shell_"}   \* of the files of Shell and of DShell
Shells == 1 .. MaxShell

VARIABLES
    app,    \* the AsyncTask executor, si and the history flags late and mixed
    shell,  \* the Shell and DShell threads
    tfile,  \* the commands in the file of each name
    sys,    \* run.cfg, haproxy.pid and the daemons
    taps    \* what the user has done so far, counted

vars == <<app, shell, tfile, sys, taps>>

-----------------------------------------------------------------------------
\* answers: somebody answers when su asks whether the scripts may run.  late: tasks
\* that went on or died before a script of theirs had its effect.  mixed: two threads that
\* were running at the same time had the same file.  refused: a stop.sh was not carried
\* out, or its kill not permitted, while a daemon ran.
AppInit(answers) ==
    [queue |-> <<>>, phase |-> "idle", joins |-> 0, si |-> 0, answers |-> answers,
     late |-> 0, mixed |-> FALSE, refused |-> FALSE]

NoShell == [pc |-> "none", script |-> "user", prefix |-> "s_shell_", no |-> 0]

ShellInit == [t \in Shells |-> NoShell]

NoFiles == [f \in Prefix \X (0 .. MaxShell) |-> "none"]

Config == [mode : Mode, port : Port]

NewDaemon(p, cfg) == [pid |-> p, cfg |-> cfg, ending |-> FALSE]

\* The application is opened for the first time, or again while HaP is running.
Init == /\ \E answers \in BOOLEAN : app = AppInit(answers)
        /\ shell = ShellInit
        /\ tfile = NoFiles
        /\ \/ sys = [cfg |-> NoCfg, pidfile |-> NoPid, daemons |-> {}]
           \/ \E c \in Config, p \in Pid :
                sys = [cfg |-> c, pidfile |-> p, daemons |-> {NewDaemon(p, c)}]
        /\ taps = 0

-----------------------------------------------------------------------------
(* Threads.                                                                *)

\* The next unused thread.
Free == CHOOSE t \in Shells : shell[t].pc = "none" /\ \A u \in Shells : u < t => shell[u].pc # "none"

SomeFree(n) == Cardinality({t \in Shells : shell[t].pc = "none"}) >= n

\* Su.Shell(script).start(), or Su.DShell(script).start().
NewShell(script, prefix) ==
    shell' = [shell EXCEPT ![Free] = [NoShell EXCEPT !.pc = "new", !.script = script, !.prefix = prefix]]

File(t) == <<shell[t].prefix, shell[t].no>>

\* Another thread than t has the file f.
SharedWith(t, f) == \E u \in Shells \ {t} : shell[u].pc \in {"named", "left", "sleep"} /\ File(u) = f

Goes(t, pc) == shell' = [shell EXCEPT ![t].pc = pc]

Ends(t) == shell' = [shell EXCEPT ![t] = [NoShell EXCEPT !.pc = "done"]]

\* si++
Count(t) ==
    /\ shell[t].pc = "new"
    /\ app' = [app EXCEPT !.si = @ + 1]
    /\ Goes(t, "counted")
    /\ UNCHANGED <<tfile, sys, taps>>

\* The name is read from si, which another thread may have changed, the commands are
\* written to that file, and su or sh is started to read it.
Name(t) ==
    /\ shell[t].pc = "counted"
    /\ LET f == <<shell[t].prefix, app.si>>
       IN  /\ shell' = [shell EXCEPT ![t].pc = "named", ![t].no = app.si]
           /\ tfile' = [tfile EXCEPT ![f] = shell[t].script]
           /\ app' = [app EXCEPT !.mixed = @ \/ SharedWith(t, f)]
    /\ UNCHANGED <<sys, taps>>

Named(d) == d.pid = sys.pidfile

\* Fault: the test for an empty file is the wrong way round.
StopKill_IfEmpty ==
    sys' = [sys EXCEPT !.daemons = {[d EXCEPT !.ending = @ \/ (sys.pidfile = NoPid /\ Named(d))] : d \in @}]

\* stop.sh: the process that haproxy.pid names, if it is there, gets SIGTERM.
StopKill == sys' = [sys EXCEPT !.daemons = {[d EXCEPT !.ending = @ \/ Named(d)] : d \in @}]

\* start.sh: ./HaP -f run.cfg.  It fails if the port is taken or the configuration is
\* refused; otherwise haproxy.pid names the new daemon.
StartHaP ==
    \/ UNCHANGED sys
    \/ /\ \A d \in sys.daemons : d.cfg.port # sys.cfg.port
       /\ \E p \in Pid \ {d.pid : d \in sys.daemons} :
             sys' = [sys EXCEPT !.daemons = @ \cup {NewDaemon(p, sys.cfg)}, !.pidfile = p]

\* The thread's shell has read and reported; one that has outlived the application
\* ("left") has nobody to report to.
ShellEnds(t) == IF shell[t].pc = "named" THEN Goes(t, "sleep") ELSE Ends(t)

\* The shell, which su may have kept waiting, reads the file and carries out whatever
\* is in it, up to the sleep of stop.sh and the report.
Run(t) ==
    /\ shell[t].pc \in {"named", "left"} /\ app.answers
    /\ CASE tfile[File(t)] = "stop"  -> StopKill
         [] tfile[File(t)] = "start" -> StartHaP
         [] OTHER                    -> UNCHANGED sys
    /\ ShellEnds(t)
    /\ UNCHANGED <<app, tfile, taps>>

\* The file stays.  Unless another thread has it, it is written before it is read, so
\* what is left in it does not matter.
Abandon(t) == tfile' = IF SharedWith(t, File(t)) THEN tfile ELSE [tfile EXCEPT ![File(t)] = "none"]

\* Nothing is carried out: su refuses; Runtime.exec or the write to the shell throws, and
\* then the thread ends without deleting its file; or sh, given the script as no root
\* was found, may not signal a daemon that root has started.
Refuse(t) ==
    /\ shell[t].pc \in {"named", "left"}
    /\ app' = [app EXCEPT !.refused = @ \/ (shell[t].script = "stop" /\ sys.daemons # {})]
    /\ \/ ShellEnds(t) /\ UNCHANGED tfile
       \/ Ends(t) /\ Abandon(t)
    /\ UNCHANGED <<sys, taps>>

\* Fault: stop.sh removes the file when it is done.
Done_RemovesPidfile(t) ==
    /\ shell[t].pc = "sleep"
    /\ Ends(t)
    /\ tfile' = [tfile EXCEPT ![File(t)] = "none"]
    /\ sys' = IF shell[t].script = "stop" THEN [sys EXCEPT !.pidfile = NoPid] ELSE sys
    /\ UNCHANGED <<app, taps>>

\* Fault: the file that is deleted is named after the shared counter.
Done_DeletesLast(t) ==
    /\ shell[t].pc = "sleep"
    /\ Ends(t)
    /\ tfile' = [tfile EXCEPT ![<<shell[t].prefix, app.si>>] = "none"]
    /\ UNCHANGED <<app, sys, taps>>

\* The script has reported and ended, waitFor returns and the file is deleted.
Done(t) ==
    /\ shell[t].pc = "sleep"
    /\ Ends(t)
    /\ tfile' = [tfile EXCEPT ![File(t)] = "none"]
    /\ UNCHANGED <<app, sys, taps>>

ShellStep(t) == Count(t) \/ Name(t) \/ Run(t) \/ Done(t)

-----------------------------------------------------------------------------
(* The start task, HPStart.doInBackground.                                 *)

\* Fault: a start does not stop what is running.
Begin_NoStop ==
    /\ app.phase = "idle" /\ app.queue # <<>> /\ SomeFree(1)
    /\ \E port \in Port : sys' = [sys EXCEPT !.cfg = [mode |-> Head(app.queue), port |-> port]]
    /\ NewShell("start", "s_shell_")
    /\ app' = [app EXCEPT !.queue = Tail(@), !.phase = "start", !.joins = Free]
    /\ UNCHANGED <<tfile, taps>>

\* The task gives up if the mode has no directory; otherwise run.cfg is written, with the
\* port as it is set now, and stop.sh started.
Begin ==
    /\ app.phase = "idle" /\ app.queue # <<>>
    /\ \/ /\ app' = [app EXCEPT !.queue = Tail(@)]
          /\ UNCHANGED <<shell, sys>>
       \/ /\ SomeFree(1)
          /\ \E port \in Port : sys' = [sys EXCEPT !.cfg = [mode |-> Head(app.queue), port |-> port]]
          /\ NewShell("stop", "s_shell_")
          /\ app' = [app EXCEPT !.queue = Tail(@), !.phase = "stop", !.joins = Free]
    /\ UNCHANGED <<tfile, taps>>

\* Fault: join() without a time limit.
Joined_Forever(lost) == ~ lost /\ shell[app.joins].pc = "done"

\* join(3000) returns because the thread has ended, or the time is over and the thread
\* is lost sight of.
Joined(lost) == lost <=> shell[app.joins].pc # "done"

\* The task goes on, lost telling whether it leaves a script or a daemon that a script
\* has signalled behind.
GoesOn(lost) ==
    /\ lost => (app.late < MaxLate \/ ~ app.answers)
    /\ app' = [app EXCEPT !.late = IF lost /\ @ < MaxLate THEN @ + 1 ELSE @,
                          !.phase = IF app.phase = "stop" THEN "start" ELSE "idle",
                          !.joins = IF app.phase = "stop" THEN Free ELSE 0]

\* stop.sh is done or left behind; start.sh is started.
StopJoined ==
    /\ app.phase = "stop" /\ SomeFree(1)
    /\ \E lost \in BOOLEAN : Joined(lost) /\ GoesOn(lost \/ \E d \in sys.daemons : d.ending)
    /\ NewShell("start", "s_shell_")
    /\ UNCHANGED <<tfile, sys, taps>>

\* start.sh is done or left behind; the task ends.
StartJoined ==
    /\ app.phase = "start"
    /\ \E lost \in BOOLEAN : Joined(lost) /\ GoesOn(lost)
    /\ UNCHANGED <<shell, tfile, sys, taps>>

TaskStep == Begin \/ StopJoined \/ StartJoined

-----------------------------------------------------------------------------
(* The user, the daemon and the phone.  A button is offered only if the    *)
(* bound leaves threads for all that is waiting.                           *)

Needed(more) == SomeFree(2 * Len(app.queue) + (IF app.phase = "stop" THEN 1 ELSE 0) + more)

Tap == taps < MaxTap /\ taps' = taps + 1

\* bstart, or a mode chosen from the list.
PressStart(m) ==
    /\ Tap /\ Needed(2)
    /\ app' = [app EXCEPT !.queue = Append(@, m)]
    /\ UNCHANGED <<shell, tfile, sys>>

\* bstop and bstatus.
PressButton(script) ==
    /\ Tap /\ Needed(1)
    /\ NewShell(script, "d_shell_")
    /\ UNCHANGED <<app, tfile, sys>>

\* A daemon has handled SIGTERM.
DaemonEnds ==
    /\ \E d \in sys.daemons : d.ending /\ sys' = [sys EXCEPT !.daemons = @ \ {d}]
    /\ UNCHANGED <<app, shell, tfile, taps>>

\* Android ends the application, which is opened again.  The daemons live on, and so do
\* the shells that wait for su; si begins again.
AppDies ==
    /\ Tap
    /\ \E answers \in BOOLEAN :
         app' = [AppInit(answers) EXCEPT
                    !.late = IF app.phase # "idle" /\ app.late < MaxLate THEN app.late + 1 ELSE app.late,
                    !.mixed = app.mixed, !.refused = app.refused]
    /\ shell' = [t \in Shells |-> IF shell[t].pc \in {"named", "left"}
                                  THEN [shell[t] EXCEPT !.pc = "left"] ELSE NoShell]
    /\ UNCHANGED <<tfile, sys>>

\* Every process ends.  run.cfg and haproxy.pid stay.  Files of Shell threads may stay
\* too, but si begins again and each is written before it is read.  The boot receiver,
\* if it is set to, starts a mode and runs the user's own commands in a Shell thread.
Reboot ==
    /\ Tap /\ MaxShell >= 3
    /\ sys' = [sys EXCEPT !.daemons = {}]
    /\ \E answers \in BOOLEAN :
         \/ app' = AppInit(answers) /\ shell' = ShellInit
         \/ \E m \in Mode :
              /\ app' = [AppInit(answers) EXCEPT !.queue = <<m>>]
              /\ shell' = [ShellInit EXCEPT ![1].pc = "new"]
    /\ tfile' = NoFiles

Next == \/ TaskStep
        \/ \E t \in Shells : ShellStep(t) \/ Refuse(t)
        \/ \E m \in Mode : PressStart(m)
        \/ \E b \in {"stop", "status"} : PressButton(b)
        \/ DaemonEnds \/ AppDies \/ Reboot

Spec == Init /\ [][Next]_vars

\* Android runs the executor and the threads, a script that su lets run runs to its
\* end, and a signalled daemon ends.
Fairness == /\ WF_vars(TaskStep) /\ WF_vars(DaemonEnds)
            /\ \A t \in Shells : WF_vars(ShellStep(t))

FairSpec == Spec /\ Fairness

-----------------------------------------------------------------------------
(* Properties.                                                             *)

\* Every script so far was carried out before its task went on, and with its own
\* commands.
Smooth == app.late = 0 /\ ~ app.mixed /\ ~ app.refused

\* haproxy.pid names every daemon that runs, so there is one at most and the buttons
\* can end it, however starts and stops have overlapped.  Excepted by name (Smooth): a
\* script that a task has left behind, that su, exec or kill has refused, or that
\* found another's commands in its file, for a start on another port may follow.
PidFileNamesDaemon == Smooth => \A d \in sys.daemons : Named(d)

\* Between two starts no daemon runs with another mode or port than those in run.cfg,
\* with the same exceptions.
NoStaleDaemon ==
    (app.phase = "idle" /\ Smooth) => \A d \in sys.daemons : d.cfg = sys.cfg

\* The commands of a script that is read are those its thread was made for, unless
\* two running threads had the same file; in particular no thread finds its file
\* already deleted.
OwnCommands ==
    \A t \in Shells :
        (shell[t].pc \in {"named", "left"} /\ ~ app.mixed) => tfile[File(t)] = shell[t].script

\* Once a stop.sh is on its way, the daemon that haproxy.pid names ends.  Excepted by
\* name: su never answers, it is refused or its kill not permitted, another thread
\* has taken the file, another daemon was started, or the application died before the
\* script was given to a shell.
StopEnds ==
    \A t \in Shells, p \in Pid :
        (/\ shell[t].script = "stop" /\ shell[t].pc \in {"new", "counted", "named"}
         /\ sys.pidfile = p /\ \E d \in sys.daemons : d.pid = p)
            ~> (\/ \A d \in sys.daemons : d.pid # p
                \/ ~ app.answers \/ app.refused \/ app.mixed
                \/ sys.pidfile # p \/ shell[t].pc = "none")

\* Every start that is waiting is carried out, even if a script hangs for ever.
TasksEnd == (app.queue # <<>> \/ app.phase # "idle") ~> (app.queue = <<>> /\ app.phase = "idle")
=============================================================================

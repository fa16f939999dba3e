--------------------------- MODULE DaemonLifecycle ---------------------------
(***************************************************************************)
(* Starting and stopping daemons on one socket path: crates/evix-daemon/   *)
(* src/lib.rs (run, bind_listener, prepare_socket_path, daemonize, the     *)
(* shutdown signals, RuntimeCleanup) and bin/evixd.rs, with what the       *)
(* command line makes of the socket (crates/evix-cli/src/main.rs).         *)
(*                                                                         *)
(* The socket path holds the socket of one daemon, or another file; the    *)
(* socket outlives the process that bound it.  The pid file is the same    *)
(* for all daemons of a user.  One step is one system call on state that   *)
(* is shared with others.                                                  *)
(*                                                                         *)
(* A definition Name_Fault is the definition Name with one plausible       *)
(* mistake; it is used by no behaviour.                                    *)
(***************************************************************************)
EXTENDS Integers, Sequences, FiniteSets

CONSTANTS
    Daemons,
    Foreground,   \* the ones started with --foreground
    Clients,      \* calls of evix eval or evix watch
    Serial,       \* daemons are started and stopped one at a time
    Crashes,      \* processes may be killed
    Nobody        \* no daemon

ASSUME DaemonLifecycleAssumption ==
    /\ Foreground \subseteq Daemons
    /\ Serial \in BOOLEAN /\ Crashes \in BOOLEAN
    /\ Nobody \notin Daemons

VARIABLES
    path,       \* whose socket is at the socket path; a plain file is "file"
    pidfile,    \* whose pid is in the pid file
    st,         \* what each daemon process is doing
    listening,  \* daemons with an open listener
    backlog,    \* connections a daemon has not accepted
    handlers,   \* daemons that handle SIGTERM
    requested,  \* SHUTDOWN_REQUESTED
    signalled,  \* a byte is in the shutdown pipe
    report,     \* the readiness line a daemon has sent
    launcher,   \* the process that waits for it
    reason,     \* why a start failed
    client      \* how each call of the command line ended

vars == <<path, pidfile, st, listening, backlog, handlers, requested, signalled, report, launcher,
          reason, client>>

Starting == {"daemonize", "check", "probe", "remove", "bind", "listen", "permissions", "pid",
             "ready", "install"}
Serving == {"loop", "poll", "accept"}
Stopping == {"close", "restore", "cleanup socket", "cleanup pid", "exit"}
Over == {"off", "exited", "failed", "killed"}

Init ==
    /\ path \in {Nobody, "file"}
    /\ pidfile = Nobody
    /\ st = [d \in Daemons |-> "off"]
    /\ listening = {} /\ handlers = {} /\ requested = {} /\ signalled = {}
    /\ backlog = [d \in Daemons |-> {}]
    /\ report = [d \in Daemons |-> "none"]
    /\ launcher = [d \in Daemons |-> "none"]
    /\ reason = [d \in Daemons |-> "none"]
    /\ client = [c \in Clients |-> "idle"]

Goto(d, l) == st' = [st EXCEPT ![d] = l]
signalVars == <<handlers, requested, signalled>>
launchVars == <<report, launcher, reason>>

(* What connecting to the socket path gives.  The connection a starting
   daemon makes to find out is closed at once, which its peer reads as an
   empty request. *)
Probe ==
    IF path = Nobody THEN "NotFound"
    ELSE IF path \in listening THEN "connected"
    ELSE "ConnectionRefused"

(* No other daemon is starting or on its way out, where that is assumed. *)
Alone(d) ==
    Serial => \A e \in Daemons \ {d} : st[e] \in Over \union Serving /\ (e \in requested => st[e] \in Over)

(* run: evixd and evix daemon get here; in the background daemonize forks and
   the first process waits for the readiness line. *)
Start(d) ==
    /\ st[d] = "off"
    /\ Alone(d)
    /\ Goto(d, IF d \in Foreground THEN "check" ELSE "daemonize")
    /\ launcher' = [launcher EXCEPT ![d] = IF d \in Foreground THEN "none" ELSE "wait"]
    /\ UNCHANGED <<path, pidfile, listening, backlog, signalVars, report, reason, client>>

(* A start fails and the process exits, ... *)
Fail(d, why) ==
    /\ Goto(d, "failed")
    /\ reason' = [reason EXCEPT ![d] = why]

(* ... in most cases after the reporter got the error. *)
FailStart(d, why) ==
    /\ Fail(d, why)
    /\ report' = [report EXCEPT ![d] = IF d \in Foreground THEN "none" ELSE "Error"]

(* A listener is dropped, at the end of a process at the latest: connections
   nobody accepted are reset. *)
DropListener(d) ==
    /\ listening' = listening \ {d}
    /\ backlog' = [backlog EXCEPT ![d] = {}]
    /\ client' = [c \in Clients |-> IF c \in backlog[d] THEN "error" ELSE client[c]]

(* The rest of daemonize, in the process that becomes the daemon: a new
   session, a second fork, the root directory, /dev/null for its stdio.  An
   error is reported and ends it (exit_after_startup_error). *)
Daemonize(d) ==
    /\ st[d] = "daemonize"
    /\ \/ Goto(d, "check") /\ UNCHANGED <<report, reason>>
       \/ FailStart(d, "daemonize")
    /\ UNCHANGED <<path, pidfile, listening, backlog, signalVars, launcher, client>>

(* prepare_socket_path, one system call after the other. *)
Check(d) ==
    /\ st[d] = "check"
    /\ \/ path = Nobody /\ Goto(d, "bind") /\ UNCHANGED <<report, reason>>
       \/ path = "file" /\ FailStart(d, "not a socket")
       \/ path \in Daemons /\ Goto(d, "probe") /\ UNCHANGED <<report, reason>>
    /\ UNCHANGED <<path, pidfile, listening, backlog, signalVars, launcher, client>>

ProbeSocket_Fault(d) ==
    /\ st[d] = "probe"
    /\ \/ Probe = "connected" /\ FailStart(d, "live")
       \/ Probe # "connected" /\ Goto(d, "bind") /\ UNCHANGED <<report, reason>>
    /\ UNCHANGED <<path, pidfile, listening, backlog, signalVars, launcher, client>>

ProbeSocket(d) ==
    /\ st[d] = "probe"
    /\ \/ Probe = "connected" /\ FailStart(d, "live")
       \/ Probe = "NotFound" /\ Goto(d, "bind") /\ UNCHANGED <<report, reason>>
       \/ Probe = "ConnectionRefused" /\ Goto(d, "remove") /\ UNCHANGED <<report, reason>>
    /\ UNCHANGED <<path, pidfile, listening, backlog, signalVars, launcher, client>>

RemoveStale(d) ==
    /\ st[d] = "remove"
    /\ \/ path # Nobody /\ path' = Nobody /\ Goto(d, "bind") /\ UNCHANGED <<report, reason>>
       \/ path = Nobody /\ FailStart(d, "gone") /\ UNCHANGED path
    /\ UNCHANGED <<pidfile, listening, backlog, signalVars, launcher, client>>

(* UnixListener::bind: two system calls, bind and listen. *)
Bind(d) ==
    /\ st[d] = "bind"
    /\ \/ path = Nobody /\ path' = d /\ Goto(d, "listen") /\ UNCHANGED <<report, reason>>
       \/ path # Nobody /\ FailStart(d, "in use") /\ UNCHANGED path
    /\ UNCHANGED <<pidfile, listening, backlog, signalVars, launcher, client>>

Listen(d) ==
    /\ st[d] = "listen"
    /\ listening' = listening \union {d}
    /\ Goto(d, "permissions")
    /\ UNCHANGED <<path, pidfile, backlog, signalVars, launchVars, client>>

(* set_permissions fails if the path has been removed, or did not work; what
   is at the path is then removed. *)
SetPermissions(d) ==
    /\ st[d] = "permissions"
    /\ \/ /\ path # Nobody
          /\ Goto(d, IF d \in Foreground THEN "install" ELSE "pid")
          /\ UNCHANGED <<path, listening, backlog, report, reason, client>>
       \/ /\ path = Nobody
          /\ FailStart(d, "permissions")
          /\ DropListener(d) /\ path' = Nobody
    /\ UNCHANGED <<pidfile, signalVars, launcher>>

WritePid_Fault(d) ==
    /\ st[d] = "pid"
    /\ Goto(d, "ready")
    /\ UNCHANGED <<path, pidfile, listening, backlog, signalVars, launchVars, client>>

(* PipeStartupReporter::ready: the pid file, then Done.  A pid file that cannot
   be written keeps what it has or is left empty; the socket is removed, and the
   launcher is told nothing. *)
WritePid(d) ==
    /\ st[d] = "pid"
    /\ \/ /\ pidfile' = d
          /\ Goto(d, "ready")
          /\ UNCHANGED <<path, listening, backlog, reason, client>>
       \/ /\ pidfile' \in {pidfile, Nobody} /\ path' = Nobody
          /\ Fail(d, "pid file")
          /\ DropListener(d)
    /\ UNCHANGED <<signalVars, report, launcher>>

(* If nobody reads the line, pid file and socket are removed again. *)

Ready(d) ==
    /\ st[d] = "ready"
    /\ \/ /\ launcher[d] = "wait"
          /\ report' = [report EXCEPT ![d] = "Done"]
          /\ Goto(d, "install")
          /\ UNCHANGED <<path, pidfile, listening, backlog, reason, client>>
       \/ /\ launcher[d] # "wait"
          /\ Fail(d, "nobody waits") /\ UNCHANGED report
          /\ pidfile' = Nobody /\ path' = Nobody
          /\ DropListener(d)
    /\ UNCHANGED <<signalVars, launcher>>

(* ShutdownSignals::install, the shutdown pipe and the handlers, of which one is
   taken back if the other fails, and the runtime.  RuntimeCleanup exists from
   here on: a daemon that cannot have them, although already announced, cleans
   up while its listener is still open. *)
Install(d) ==
    /\ st[d] = "install"
    /\ \/ handlers' = handlers \union {d} /\ (Goto(d, "loop") \/ Goto(d, "restore"))
       \/ Goto(d, "cleanup socket") /\ UNCHANGED handlers
    /\ UNCHANGED <<path, pidfile, listening, backlog, requested, signalled, launchVars, client>>

---------------------------------------------------------------------------
(* serve_connections and shutdown.                                          *)

Loop(d) ==
    /\ st[d] = "loop"
    /\ Goto(d, IF d \in requested THEN "close" ELSE "poll")
    /\ UNCHANGED <<path, pidfile, listening, backlog, signalVars, launchVars, client>>

(* poll returns for a byte in the pipe or a connection. *)
Poll(d) ==
    /\ st[d] = "poll"
    /\ d \in signalled \/ backlog[d] # {}
    /\ Goto(d, IF d \in requested \union signalled THEN "close" ELSE "accept")
    /\ UNCHANGED <<path, pidfile, listening, backlog, signalVars, launchVars, client>>

(* poll fails, which ends serve_connections. *)
PollFails(d) ==
    /\ st[d] = "poll" /\ Alone(d)
    /\ Goto(d, "close")
    /\ UNCHANGED <<path, pidfile, listening, backlog, signalVars, launchVars, client>>

(* The connection gets a thread of its own: DaemonSessions has the rest. *)
Accept(d) ==
    /\ st[d] = "accept"
    /\ \E c \in backlog[d] :
         /\ backlog' = [backlog EXCEPT ![d] = @ \ {c}]
         /\ client' = [client EXCEPT ![c] = "served"]
    /\ Goto(d, "loop")
    /\ UNCHANGED <<path, pidfile, listening, signalVars, launchVars>>

(* serve_connections returns. *)
CloseListener(d) ==
    /\ st[d] = "close"
    /\ DropListener(d)
    /\ Goto(d, "restore")
    /\ UNCHANGED <<path, pidfile, signalVars, launchVars>>

(* Drop for ShutdownSignals. *)
RestoreHandlers(d) ==
    /\ st[d] = "restore"
    /\ handlers' = handlers \ {d}
    /\ signalled' = signalled \ {d}
    /\ Goto(d, "cleanup socket")
    /\ UNCHANGED <<path, pidfile, listening, backlog, requested, launchVars, client>>

(* run returns; a daemon that never served closes its listener only now. *)
CleanedUp(d) == IF d \in listening THEN "exit" ELSE "exited"

Exit(d) ==
    /\ st[d] = "exit"
    /\ DropListener(d)
    /\ Goto(d, "exited")
    /\ UNCHANGED <<path, pidfile, signalVars, launchVars>>

(* Drop for RuntimeCleanup: whatever is at the path goes. *)
CleanupSocket(d) ==
    /\ st[d] = "cleanup socket"
    /\ path' = Nobody
    /\ Goto(d, IF d \in Foreground THEN CleanedUp(d) ELSE "cleanup pid")
    /\ UNCHANGED <<pidfile, listening, backlog, signalVars, launchVars, client>>

CleanupPid(d) ==
    /\ st[d] = "cleanup pid"
    /\ pidfile' = Nobody
    /\ Goto(d, CleanedUp(d))
    /\ UNCHANGED <<path, listening, backlog, signalVars, launchVars, client>>

handle_shutdown_signal_Fault(d) ==
    /\ requested' = requested \union {d}
    /\ UNCHANGED signalled

(* The handler sets the flag and writes a byte into the pipe. *)
handle_shutdown_signal(d) ==
    /\ requested' = requested \union {d}
    /\ signalled' = signalled \union {d}

(* The process is gone: its descriptors are closed, its files stay. *)
Die(d) ==
    /\ Goto(d, "killed")
    /\ DropListener(d)
    /\ handlers' = handlers \ {d}
    /\ requested' = requested \ {d} /\ signalled' = signalled \ {d}

(* SIGTERM or SIGINT: without a handler it kills. *)
Signal(d) ==
    /\ st[d] \in Starting \union Serving \union Stopping
    /\ \/ /\ d \in handlers /\ d \notin requested /\ Alone(d)
          /\ handle_shutdown_signal(d)
          /\ UNCHANGED <<st, listening, backlog, handlers, client>>
       \/ d \notin handlers /\ Crashes /\ Die(d)
    /\ UNCHANGED <<path, pidfile, launchVars>>

Kill(d) ==
    /\ Crashes /\ st[d] \in Starting \union Serving \union Stopping
    /\ Die(d)
    /\ UNCHANGED <<path, pidfile, launchVars>>

---------------------------------------------------------------------------
(* Those who look at the daemon from outside.                               *)

Launched_Fault(d) ==
    /\ launcher[d] = "wait"
    /\ report[d] # "none"
    /\ launcher' = [launcher EXCEPT ![d] = IF report[d] = "Done" THEN "ok" ELSE "error"]
    /\ UNCHANGED <<path, pidfile, st, listening, backlog, signalVars, report, reason, client>>

(* wait_for_readiness reads the line, or the end of the connection. *)
Launched(d) ==
    /\ launcher[d] = "wait"
    /\ report[d] # "none" \/ st[d] \in {"failed", "killed"}
    /\ launcher' = [launcher EXCEPT ![d] = IF report[d] = "Done" THEN "ok" ELSE "error"]
    /\ UNCHANGED <<path, pidfile, st, listening, backlog, signalVars, report, reason, client>>

(* The user interrupts the waiting process. *)
LauncherDies(d) ==
    /\ Crashes /\ launcher[d] = "wait"
    /\ launcher' = [launcher EXCEPT ![d] = "killed"]
    /\ UNCHANGED <<path, pidfile, st, listening, backlog, signalVars, report, reason, client>>

(* run_client_or_local: only a missing socket makes it evaluate by itself. *)
Connect(c) ==
    /\ client[c] = "idle"
    /\ \/ Probe = "NotFound" /\ client' = [client EXCEPT ![c] = "local"] /\ UNCHANGED backlog
       \/ Probe = "ConnectionRefused" /\ client' = [client EXCEPT ![c] = "error"] /\ UNCHANGED backlog
       \/ /\ Probe = "connected"
          /\ backlog' = [backlog EXCEPT ![path] = @ \union {c}]
          /\ client' = [client EXCEPT ![c] = "waiting"]
    /\ UNCHANGED <<path, pidfile, st, listening, signalVars, launchVars>>

---------------------------------------------------------------------------

DaemonStep(d) ==
    \/ Daemonize(d) \/ Check(d) \/ ProbeSocket(d) \/ RemoveStale(d) \/ Bind(d)
    \/ Listen(d) \/ SetPermissions(d) \/ WritePid(d) \/ Ready(d) \/ Install(d)
    \/ Loop(d) \/ Poll(d) \/ Accept(d) \/ CloseListener(d)
    \/ RestoreHandlers(d) \/ CleanupSocket(d) \/ CleanupPid(d) \/ Exit(d)

Next ==
    \/ \E d \in Daemons : Start(d) \/ DaemonStep(d) \/ Launched(d) \/ PollFails(d)
                          \/ Signal(d) \/ Kill(d) \/ LauncherDies(d)
    \/ \E c \in Clients : Connect(c)

Spec == Init /\ [][Next]_vars

(* Processes run; signals, crashes and starts happen or not. *)
Fairness == \A d \in Daemons : WF_vars(DaemonStep(d)) /\ WF_vars(Launched(d))

LiveSpec == Spec /\ Fairness

---------------------------------------------------------------------------
(* Properties.                                                              *)

(* Every variable has its type; who waits at a daemon has not been answered. *)
TypeOK ==
    /\ path \in Daemons \union {Nobody, "file"} /\ pidfile \in Daemons \union {Nobody}
    /\ st \in [Daemons -> Starting \union Serving \union Stopping \union Over]
    /\ listening \subseteq Daemons /\ handlers \subseteq Daemons
    /\ requested \subseteq Daemons /\ signalled \subseteq Daemons
    /\ \A d \in Daemons : \A c \in backlog[d] : client[c] = "waiting"
    /\ report \in [Daemons -> {"none", "Done", "Error"}]
    /\ launcher \in [Daemons -> {"none", "wait", "ok", "error", "killed"}]
    /\ client \in [Clients -> {"idle", "waiting", "served", "local", "error"}]

(* A daemon that announced itself and was not told to stop is at the socket
   path, and a later start that finds it live leaves it there. *)
LiveSocketKept ==
    \A d \in Daemons : st[d] \in Serving => path = d /\ d \in listening

(* After a crash the next daemon starts: it fails only because another one is
   live or the path is not a socket, or for what is no matter of the path: its
   launcher is gone, it cannot become a daemon or write its pid file. *)
FailureHasReason ==
    \A d \in Daemons : st[d] = "failed" =>
        reason[d] \in {"live", "not a socket", "nobody waits", "daemonize", "pid file"}

(* A daemon that was shut down leaves neither its socket nor its pid file. *)
CleanExit == \A d \in Daemons : st[d] = "exited" => path # d /\ pidfile # d

(* The launcher reports success only for a daemon that is reachable and has
   its pid file, unless that stopped since. *)
LauncherHonest ==
    \A d \in Daemons : launcher[d] = "ok" /\ st[d] \in {"install"} \union Serving =>
        path = d /\ d \in listening /\ pidfile = d

(* The launcher always gets an answer, also from a daemon that dies. *)
LauncherAnswered == \A d \in Daemons : launcher[d] = "wait" ~> launcher[d] # "wait"

(* A signal that is handled stops the daemon, wherever it was in its loop. *)
SignalStops == \A d \in Daemons : d \in requested ~> st[d] \in Over

(* The socket: types, a daemon that serves is the one at the socket path, and
   a launcher that reports success speaks of such a daemon. *)
SocketSound == TypeOK /\ LiveSocketKept /\ LauncherHonest

(* However a daemon ended, the next one can start: a clean exit leaves nothing
   behind, and what a crash leaves stops nobody. *)
RestartSound == FailureHasReason /\ CleanExit
=============================================================================

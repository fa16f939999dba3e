--------------------------- MODULE LifecycleProofs ---------------------------
(***************************************************************************)
(* Proofs about DaemonLifecycle: with starts and shutdowns that do not     *)
(* overlap, a daemon that serves is the one at the socket path, a launcher *)
(* that reports success is right, and every crash can be recovered from,   *)
(* for any number of daemons and clients and with any process killed at    *)
(* any point.                                                              *)
(*                                                                         *)
(* The invariant says for each step of a daemon what is at the socket path *)
(* and in the pid file.  Another daemon cannot spoil that because whoever  *)
(* changes either of them is starting or on its way out, and at most one   *)
(* daemon is.                                                              *)
(***************************************************************************)
EXTENDS DaemonLifecycle, TLAPS

(* The socket at the path is the daemon's own, ... *)
Owning == {"listen", "permissions", "pid", "ready", "install", "close", "restore",
           "cleanup socket"} \union Serving

(* ... its listener is open, ... *)
Open == {"permissions", "pid", "ready", "install", "close"} \union Serving

(* ... or still open if it never served, ... *)
Late == {"restore", "cleanup socket", "cleanup pid", "exit"}

(* ... and the pid file says so, if it writes one. *)
Noted == {"ready", "install", "close", "restore", "cleanup socket", "cleanup pid"}
           \union Serving

(* Starting or on its way out. *)
Busy(d) == st[d] \notin Over /\ (st[d] \notin Serving \/ d \in requested)

OneBusy == \A d, e \in Daemons : Busy(d) /\ Busy(e) => d = e

SocketInv(d) ==
    /\ st[d] \in Owning => path = d
    /\ st[d] \in Open => d \in listening
    /\ d \in listening => st[d] \in Open \union Late
    /\ st[d] \in {"bind", "cleanup pid", "exit"} => path = Nobody
    /\ st[d] \in {"probe", "remove"} => path \in Daemons
    /\ st[d] = "remove" => path \notin listening
    /\ st[d] = "exited" => path # d

PidInv(d) ==
    /\ pidfile = d \/ st[d] \in {"pid", "ready", "cleanup pid"} => d \notin Foreground
    /\ st[d] \in Noted /\ d \notin Foreground => pidfile = d
    /\ st[d] \in {"exit", "exited"} => pidfile # d

StartInv(d) ==
    /\ launcher[d] # "none" => d \notin Foreground
    /\ st[d] = "failed" =>
         reason[d] \in {"live", "not a socket", "nobody waits", "daemonize", "pid file"}
    /\ d \in signalled => d \in requested

BacklogInv ==
    /\ backlog \in [Daemons -> SUBSET Clients]
    /\ \A d \in Daemons : \A c \in backlog[d] : client[c] = "waiting"
    /\ \A d, e \in Daemons : \A c \in backlog[d] : c \in backlog[e] => d = e

Typed ==
    /\ path \in Daemons \union {Nobody, "file"} /\ pidfile \in Daemons \union {Nobody}
    /\ st \in [Daemons -> Starting \union Serving \union Stopping \union Over]
    /\ listening \subseteq Daemons /\ handlers \subseteq Daemons
    /\ requested \subseteq Daemons /\ signalled \subseteq Daemons
    /\ report \in [Daemons -> {"none", "Done", "Error"}]
    /\ launcher \in [Daemons -> {"none", "wait", "ok", "error", "killed"}]
    /\ client \in [Clients -> {"idle", "waiting", "served", "local", "error"}]

ReasonTyped == reason \in [Daemons -> {"none", "live", "not a socket", "nobody waits", "daemonize",
                                       "pid file", "gone", "in use", "permissions"}]

LifeInv ==
    /\ Typed /\ ReasonTyped
    /\ OneBusy /\ BacklogInv
    /\ \A d \in Daemons : SocketInv(d) /\ PidInv(d) /\ StartInv(d)

-----------------------------------------------------------------------------
(* A step of one daemon and the others. *)

(* Who changes the path or the pid file is busy, and what it takes away was
   nobody's, its own or left behind. *)
DaemonFrame(d) ==
    /\ \A e \in Daemons \ {d} : /\ st'[e] = st[e] /\ launcher'[e] = launcher[e]
                                /\ reason'[e] = reason[e]
                                /\ e \in listening' <=> e \in listening
                                /\ e \in requested' <=> e \in requested
                                /\ e \in signalled' <=> e \in signalled
    /\ path' # path => /\ Busy(d) /\ path' \in {Nobody, d}
                       /\ path \in {Nobody, d} \/ path \notin listening
    /\ pidfile' # pidfile => Busy(d) /\ pidfile' \in {Nobody, d} /\ path \in {Nobody, d}
    /\ d \in listening' => d \in listening \/ Busy(d)
    /\ Busy(d)' => Busy(d) \/ \A e \in Daemons \ {d} : ~Busy(e)

LEMMA OthersKeep ==
  ASSUME LifeInv, NEW d \in Daemons, DaemonFrame(d), path' \in Daemons \union {Nobody, "file"},
         NEW e \in Daemons, e # d
  PROVE  /\ SocketInv(e)' /\ PidInv(e)' /\ StartInv(e)'
         /\ Busy(e)' <=> Busy(e)
<1>t. /\ st[e] \in Starting \union Serving \union Stopping \union Over
      /\ SocketInv(e) /\ PidInv(e) /\ StartInv(e)
      /\ Nobody \notin Daemons
  BY DaemonLifecycleAssumption DEF LifeInv, Typed
<1>f. /\ st'[e] = st[e] /\ launcher'[e] = launcher[e] /\ reason'[e] = reason[e]
      /\ e \in listening' <=> e \in listening
      /\ e \in requested' <=> e \in requested
      /\ e \in signalled' <=> e \in signalled
  BY DEF DaemonFrame
<1>b. Busy(e) => ~Busy(d)
  BY DEF LifeInv, OneBusy
<1>s. ~Busy(e) => st[e] \in Over \union Serving
  BY DEF Busy
<1>o. st[e] \in Over => st[e] \notin Owning \union Open \union Late \union Noted
                        /\ st[e] \notin {"bind", "cleanup pid", "exit", "probe", "remove", "pid",
                                         "ready"}
  BY DEF Over, Owning, Open, Late, Noted, Serving
<1>v. st[e] \in Serving => st[e] \in Owning /\ st[e] \in Open
                           /\ st[e] \notin {"bind", "cleanup pid", "probe", "remove", "pid", "ready",
                                             "exit", "exited"}
  BY DEF Owning, Open, Late, Serving
<1>p. st[e] \in Serving => path' = path
  <2>1. st[e] \in Serving => path = e /\ e \in listening
    BY <1>t, <1>v DEF SocketInv
  <2> QED
    BY <1>t, <2>1 DEF DaemonFrame
<1>q. st[e] \in Serving => pidfile' = pidfile
  <2>1. st[e] \in Serving => path = e
    BY <1>t, <1>v DEF SocketInv
  <2> QED
    BY <1>t, <2>1 DEF DaemonFrame
<1>1. Busy(e)' <=> Busy(e)
  BY <1>f DEF Busy
<1>2. CASE Busy(e)
  <2>1. path' = path /\ pidfile' = pidfile /\ (d \in listening' => d \in listening)
    BY <1>b, <1>2 DEF DaemonFrame
  <2>2. st[e] = "remove" => path' \notin listening'
    BY <1>t, <1>f, <2>1 DEF SocketInv, DaemonFrame
  <2>3. SocketInv(e)'
    BY <1>t, <1>f, <2>1, <2>2 DEF SocketInv
  <2> QED
    BY <1>1, <1>t, <1>f, <2>1, <2>3 DEF PidInv, StartInv
<1>3. CASE st[e] \in Serving
  BY <1>1, <1>t, <1>f, <1>p, <1>q, <1>v, <1>3 DEF SocketInv, PidInv, StartInv
<1>4. CASE st[e] \in Over
  <2>1. /\ path # e => path' # e
        /\ pidfile # e => pidfile' # e
    BY <1>t DEF DaemonFrame
  <2>2. SocketInv(e)'
    BY <1>t, <1>f, <1>o, <1>4, <2>1 DEF SocketInv
  <2>3. PidInv(e)' /\ StartInv(e)'
    BY <1>t, <1>f, <1>o, <1>4, <2>1 DEF PidInv, StartInv
  <2> QED
    BY <1>1, <2>2, <2>3
<1> QED
  BY <1>s, <1>2, <1>3, <1>4

LEMMA StepKeeps ==
  ASSUME LifeInv, NEW d \in Daemons, DaemonFrame(d), Typed', ReasonTyped', BacklogInv',
         SocketInv(d)', PidInv(d)', StartInv(d)'
  PROVE  LifeInv'
<1>1. path' \in Daemons \union {Nobody, "file"}
  BY DEF Typed
<1>2. \A e \in Daemons \ {d} : /\ SocketInv(e)' /\ PidInv(e)' /\ StartInv(e)'
                               /\ Busy(e)' <=> Busy(e)
  BY <1>1, OthersKeep
<1>3. OneBusy'
  <2> SUFFICES ASSUME NEW e \in Daemons, NEW f \in Daemons, Busy(e)', Busy(f)' PROVE e = f
    BY DEF OneBusy
  <2>1. CASE e # d /\ f # d
    BY <1>2, <2>1 DEF LifeInv, OneBusy
  <2>2. CASE e = d \/ f = d
    BY <1>2, <2>2 DEF LifeInv, OneBusy, DaemonFrame
  <2> QED
    BY <2>1, <2>2
<1> QED
  BY <1>2, <1>3 DEF LifeInv

-----------------------------------------------------------------------------
(* The connections nobody accepted yet. *)

LEMMA DropKeepsBacklog ==
  ASSUME LifeInv, NEW d \in Daemons, DropListener(d)
  PROVE  BacklogInv' /\ client' \in [Clients -> {"idle", "waiting", "served", "local", "error"}]
<1>t. /\ backlog \in [Daemons -> SUBSET Clients]
      /\ client \in [Clients -> {"idle", "waiting", "served", "local", "error"}]
      /\ \A e \in Daemons : \A c \in backlog[e] : client[c] = "waiting"
      /\ \A e, f \in Daemons : \A c \in backlog[e] : c \in backlog[f] => e = f
  BY DEF LifeInv, BacklogInv, Typed
<1>f. /\ backlog' = [backlog EXCEPT ![d] = {}]
      /\ client' = [c \in Clients |-> IF c \in backlog[d] THEN "error" ELSE client[c]]
  BY DEF DropListener
<1>1. backlog' \in [Daemons -> SUBSET Clients] /\ backlog'[d] = {}
      /\ \A e \in Daemons \ {d} : backlog'[e] = backlog[e]
  BY <1>t, <1>f
<1>2. ASSUME NEW e \in Daemons, NEW c \in backlog'[e] PROVE client'[c] = "waiting"
  <2>1. e # d /\ c \in backlog[e] /\ c \in Clients /\ c \notin backlog[d]
    BY <1>t, <1>1, <1>2
  <2> QED
    BY <1>t, <1>f, <2>1
<1>3. \A e, f \in Daemons : \A c \in backlog'[e] : c \in backlog'[f] => e = f
  BY <1>t, <1>1
<1>4. client' \in [Clients -> {"idle", "waiting", "served", "local", "error"}]
  BY <1>t, <1>f
<1> QED
  BY <1>1, <1>2, <1>3, <1>4 DEF BacklogInv

LEMMA AcceptKeepsBacklog ==
  ASSUME LifeInv, NEW d \in Daemons, Accept(d)
  PROVE  BacklogInv' /\ client' \in [Clients -> {"idle", "waiting", "served", "local", "error"}]
<1>t. /\ backlog \in [Daemons -> SUBSET Clients]
      /\ client \in [Clients -> {"idle", "waiting", "served", "local", "error"}]
      /\ \A e \in Daemons : \A c \in backlog[e] : client[c] = "waiting"
      /\ \A e, f \in Daemons : \A c \in backlog[e] : c \in backlog[f] => e = f
  BY DEF LifeInv, BacklogInv, Typed
<1>p. PICK b \in backlog[d] : /\ backlog' = [backlog EXCEPT ![d] = @ \ {b}]
                              /\ client' = [client EXCEPT ![b] = "served"]
  BY DEF Accept
<1>1. /\ backlog' \in [Daemons -> SUBSET Clients] /\ backlog'[d] = backlog[d] \ {b}
      /\ \A e \in Daemons \ {d} : backlog'[e] = backlog[e]
  BY <1>t, <1>p
<1>2. ASSUME NEW e \in Daemons, NEW c \in backlog'[e] PROVE client'[c] = "waiting"
  <2>1. c \in backlog[e] /\ c \in Clients /\ c # b
    BY <1>t, <1>1, <1>2
  <2> QED
    BY <1>t, <1>p, <2>1
<1>3. \A e, f \in Daemons : \A c \in backlog'[e] : c \in backlog'[f] => e = f
  BY <1>t, <1>1
<1>4. client' \in [Clients -> {"idle", "waiting", "served", "local", "error"}]
  BY <1>t, <1>p
<1> QED
  BY <1>1, <1>2, <1>3, <1>4 DEF BacklogInv

LEMMA ConnectKeeps ==
  ASSUME LifeInv, NEW b \in Clients, Connect(b)
  PROVE  LifeInv'
<1>t. /\ backlog \in [Daemons -> SUBSET Clients]
      /\ client \in [Clients -> {"idle", "waiting", "served", "local", "error"}]
      /\ \A e \in Daemons : \A c \in backlog[e] : client[c] = "waiting"
      /\ \A e, f \in Daemons : \A c \in backlog[e] : c \in backlog[f] => e = f
      /\ listening \subseteq Daemons
  BY DEF LifeInv, BacklogInv, Typed
<1>f. /\ UNCHANGED <<path, pidfile, st, listening, handlers, requested, signalled, report, launcher, reason>>
      /\ client[b] = "idle"
  BY DEF Connect, signalVars, launchVars
<1>b. \A e \in Daemons : b \notin backlog[e]
  BY <1>t, <1>f
<1>1. BacklogInv' /\ client' \in [Clients -> {"idle", "waiting", "served", "local", "error"}]
  <2>1. ASSUME NEW how \in {"local", "error"}, client' = [client EXCEPT ![b] = how], UNCHANGED backlog
        PROVE  BacklogInv' /\ client' \in [Clients -> {"idle", "waiting", "served", "local", "error"}]
    <3>1. ASSUME NEW e \in Daemons, NEW c \in backlog'[e] PROVE client'[c] = "waiting"
      BY <1>t, <1>b, <2>1, <3>1
    <3>2. client' \in [Clients -> {"idle", "waiting", "served", "local", "error"}]
      BY <1>t, <2>1
    <3> QED
      BY <1>t, <2>1, <3>1, <3>2 DEF BacklogInv
  <2>2. ASSUME NEW d \in Daemons, backlog' = [backlog EXCEPT ![d] = @ \union {b}],
               client' = [client EXCEPT ![b] = "waiting"]
        PROVE  BacklogInv' /\ client' \in [Clients -> {"idle", "waiting", "served", "local", "error"}]
    <3>1. /\ backlog' \in [Daemons -> SUBSET Clients] /\ backlog'[d] = backlog[d] \union {b}
          /\ \A e \in Daemons \ {d} : backlog'[e] = backlog[e]
      BY <1>t, <2>2
    <3>2. ASSUME NEW e \in Daemons, NEW c \in backlog'[e] PROVE client'[c] = "waiting"
      <4>1. c = b \/ (c \in backlog[e] /\ c \in Clients)
        BY <1>t, <3>1, <3>2
      <4> QED
        BY <1>t, <2>2, <4>1
    <3>3. \A e, f \in Daemons : \A c \in backlog'[e] : c \in backlog'[f] => e = f
      BY <1>t, <1>b, <3>1
    <3>4. client' \in [Clients -> {"idle", "waiting", "served", "local", "error"}]
      BY <1>t, <2>2
    <3> QED
      BY <3>1, <3>2, <3>3, <3>4 DEF BacklogInv
  <2>3. Probe = "connected" => path \in Daemons
    BY <1>t DEF Probe
  <2> QED
    BY <2>1, <2>2, <2>3 DEF Connect
<1>2. Typed' /\ ReasonTyped'
  BY <1>f, <1>1 DEF LifeInv, Typed, ReasonTyped
<1>3. OneBusy'
  BY <1>f DEF LifeInv, OneBusy, Busy
<1>4. ASSUME NEW d \in Daemons PROVE SocketInv(d)' /\ PidInv(d)' /\ StartInv(d)'
  <2>1. SocketInv(d) /\ PidInv(d) /\ StartInv(d)
    BY DEF LifeInv
  <2> QED
    BY <1>f, <2>1 DEF SocketInv, PidInv, StartInv
<1> QED
  BY <1>1, <1>2, <1>3, <1>4 DEF LifeInv

-----------------------------------------------------------------------------
(* Every step of a daemon keeps the invariant. *)

LEMMA StartKeeps ==
  ASSUME Serial = TRUE, LifeInv, NEW d \in Daemons, Start(d)
  PROVE  LifeInv'
<1>t. Typed /\ ReasonTyped /\ SocketInv(d) /\ PidInv(d) /\ StartInv(d) /\ Nobody \notin Daemons
  BY DaemonLifecycleAssumption DEF LifeInv
<1>1. BacklogInv' /\ client' \in [Clients -> {"idle", "waiting", "served", "local", "error"}]
  BY DEF LifeInv, BacklogInv, Typed, Start
<1>2. Typed'
  BY <1>t, <1>1 DEF Typed, Starting, Serving, Stopping, Over, Start, Goto, signalVars
<1>3. ReasonTyped'
  BY <1>t DEF ReasonTyped, Start, Goto, signalVars
<1>4. DaemonFrame(d)
  <2>1. \A e \in Daemons \ {d} :
          /\ st'[e] = st[e] /\ launcher'[e] = launcher[e]
          /\ reason'[e] = reason[e]
          /\ e \in listening' <=> e \in listening
          /\ e \in requested' <=> e \in requested
          /\ e \in signalled' <=> e \in signalled
    BY <1>t DEF Typed, ReasonTyped, Start, Goto, signalVars
  <2>2. /\ path' # path => /\ Busy(d) /\ path' \in {Nobody, d}
                           /\ path \in {Nobody, d} \/ path \notin listening
        /\ pidfile' # pidfile => Busy(d) /\ pidfile' \in {Nobody, d} /\ path \in {Nobody, d}
    BY <1>t DEF SocketInv, Busy, Owning, Serving, Over, Start, Goto, signalVars
  <2>3. d \in listening' => d \in listening \/ Busy(d)
    BY DEF Busy, Serving, Over, Start, Goto, signalVars
  <2>4. Busy(d)' => Busy(d) \/ \A e \in Daemons \ {d} : ~Busy(e)
    BY <1>t DEF Typed, StartInv, Busy, Serving, Over, Alone, Start, Goto, signalVars
  <2> QED
    BY <2>1, <2>2, <2>3, <2>4 DEF DaemonFrame
<1>5. SocketInv(d)'
  BY <1>t DEF Typed, SocketInv, Owning, Open, Late, Serving, Start, Goto, signalVars
<1>6. PidInv(d)'
  BY <1>t DEF Typed, SocketInv, PidInv, Noted, Owning, Serving, Start, Goto, signalVars
<1>7. StartInv(d)'
  BY <1>t DEF Typed, ReasonTyped, StartInv, SocketInv, Owning, Start, Goto, signalVars
<1> QED
  BY <1>1, <1>2, <1>3, <1>4, <1>5, <1>6, <1>7, StepKeeps

LEMMA DaemonizeKeeps ==
  ASSUME LifeInv, NEW d \in Daemons, Daemonize(d)
  PROVE  LifeInv'
<1>t. Typed /\ ReasonTyped /\ SocketInv(d) /\ PidInv(d) /\ StartInv(d) /\ Nobody \notin Daemons
  BY DaemonLifecycleAssumption DEF LifeInv
<1>1. BacklogInv' /\ client' \in [Clients -> {"idle", "waiting", "served", "local", "error"}]
  BY DEF LifeInv, BacklogInv, Typed, Daemonize
<1>2. Typed'
  BY <1>t, <1>1 DEF Typed, Starting, Serving, Stopping, Over, Daemonize, Goto, signalVars, FailStart, Fail
<1>3. ReasonTyped'
  BY <1>t DEF ReasonTyped, Daemonize, Goto, signalVars, FailStart, Fail
<1>4. DaemonFrame(d)
  <2>1. \A e \in Daemons \ {d} :
          /\ st'[e] = st[e] /\ launcher'[e] = launcher[e]
          /\ reason'[e] = reason[e]
          /\ e \in listening' <=> e \in listening
          /\ e \in requested' <=> e \in requested
          /\ e \in signalled' <=> e \in signalled
    BY <1>t DEF Typed, ReasonTyped, Daemonize, Goto, signalVars, FailStart, Fail
  <2>2. /\ path' # path => /\ Busy(d) /\ path' \in {Nobody, d}
                           /\ path \in {Nobody, d} \/ path \notin listening
        /\ pidfile' # pidfile => Busy(d) /\ pidfile' \in {Nobody, d} /\ path \in {Nobody, d}
    BY <1>t DEF SocketInv, Busy, Owning, Serving, Over, Daemonize, Goto, signalVars, FailStart, Fail
  <2>3. d \in listening' => d \in listening \/ Busy(d)
    BY DEF Busy, Serving, Over, Daemonize, Goto, signalVars, FailStart, Fail
  <2>4. Busy(d)' => Busy(d) \/ \A e \in Daemons \ {d} : ~Busy(e)
    BY <1>t DEF Typed, StartInv, Busy, Serving, Over, Daemonize, Goto, signalVars, FailStart, Fail
  <2> QED
    BY <2>1, <2>2, <2>3, <2>4 DEF DaemonFrame
<1>5. SocketInv(d)'
  BY <1>t, ZenonT(60) DEF Typed, SocketInv, Owning, Open, Late, Serving, Daemonize, Goto, signalVars, FailStart, Fail
<1>6. PidInv(d)'
  BY <1>t DEF Typed, SocketInv, PidInv, Noted, Owning, Serving, Daemonize, Goto, signalVars, FailStart, Fail
<1>7. StartInv(d)'
  BY <1>t DEF Typed, ReasonTyped, StartInv, SocketInv, Owning, Daemonize, Goto, signalVars, FailStart, Fail
<1> QED
  BY <1>1, <1>2, <1>3, <1>4, <1>5, <1>6, <1>7, StepKeeps

LEMMA CheckKeeps ==
  ASSUME LifeInv, NEW d \in Daemons, Check(d)
  PROVE  LifeInv'
<1>t. Typed /\ ReasonTyped /\ SocketInv(d) /\ PidInv(d) /\ StartInv(d) /\ Nobody \notin Daemons
  BY DaemonLifecycleAssumption DEF LifeInv
<1>1. BacklogInv' /\ client' \in [Clients -> {"idle", "waiting", "served", "local", "error"}]
  BY DEF LifeInv, BacklogInv, Typed, Check
<1>2. Typed'
  BY <1>t, <1>1 DEF Typed, Starting, Serving, Stopping, Over, Check, Goto, signalVars, FailStart, Fail
<1>3. ReasonTyped'
  BY <1>t DEF ReasonTyped, Check, Goto, signalVars, FailStart, Fail
<1>4. DaemonFrame(d)
  <2>1. \A e \in Daemons \ {d} :
          /\ st'[e] = st[e] /\ launcher'[e] = launcher[e]
          /\ reason'[e] = reason[e]
          /\ e \in listening' <=> e \in listening
          /\ e \in requested' <=> e \in requested
          /\ e \in signalled' <=> e \in signalled
    BY <1>t DEF Typed, ReasonTyped, Check, Goto, signalVars, FailStart, Fail
  <2>2. /\ path' # path => /\ Busy(d) /\ path' \in {Nobody, d}
                           /\ path \in {Nobody, d} \/ path \notin listening
        /\ pidfile' # pidfile => Busy(d) /\ pidfile' \in {Nobody, d} /\ path \in {Nobody, d}
    BY <1>t DEF SocketInv, Busy, Owning, Serving, Over, Check, Goto, signalVars, FailStart, Fail
  <2>3. d \in listening' => d \in listening \/ Busy(d)
    BY DEF Busy, Serving, Over, Check, Goto, signalVars, FailStart, Fail
  <2>4. Busy(d)' => Busy(d) \/ \A e \in Daemons \ {d} : ~Busy(e)
    BY <1>t DEF Typed, StartInv, Busy, Serving, Over, Check, Goto, signalVars, FailStart, Fail
  <2> QED
    BY <2>1, <2>2, <2>3, <2>4 DEF DaemonFrame
<1>5. SocketInv(d)'
  BY <1>t, ZenonT(60) DEF Typed, SocketInv, Owning, Open, Late, Serving, Check, Goto, signalVars, FailStart, Fail
<1>6. PidInv(d)'
  BY <1>t, ZenonT(60) DEF Typed, SocketInv, PidInv, Noted, Owning, Serving, Check, Goto, signalVars, FailStart, Fail
<1>7. StartInv(d)'
  BY <1>t DEF Typed, ReasonTyped, StartInv, SocketInv, Owning, Check, Goto, signalVars, FailStart, Fail
<1> QED
  BY <1>1, <1>2, <1>3, <1>4, <1>5, <1>6, <1>7, StepKeeps

LEMMA ProbeSocketKeeps ==
  ASSUME LifeInv, NEW d \in Daemons, ProbeSocket(d)
  PROVE  LifeInv'
<1>t. Typed /\ ReasonTyped /\ SocketInv(d) /\ PidInv(d) /\ StartInv(d) /\ Nobody \notin Daemons
  BY DaemonLifecycleAssumption DEF LifeInv
<1>1. BacklogInv' /\ client' \in [Clients -> {"idle", "waiting", "served", "local", "error"}]
  BY DEF LifeInv, BacklogInv, Typed, ProbeSocket
<1>2. Typed'
  BY <1>t, <1>1, ZenonT(60) DEF Typed, Starting, Serving, Stopping, Over, ProbeSocket, Goto, signalVars, FailStart, Fail, Probe
<1>3. ReasonTyped'
  BY <1>t DEF ReasonTyped, ProbeSocket, Goto, signalVars, FailStart, Fail, Probe
<1>4. DaemonFrame(d)
  <2>1. \A e \in Daemons \ {d} :
          /\ st'[e] = st[e] /\ launcher'[e] = launcher[e]
          /\ reason'[e] = reason[e]
          /\ e \in listening' <=> e \in listening
          /\ e \in requested' <=> e \in requested
          /\ e \in signalled' <=> e \in signalled
    BY <1>t DEF Typed, ReasonTyped, ProbeSocket, Goto, signalVars, FailStart, Fail, Probe
  <2>2. /\ path' # path => /\ Busy(d) /\ path' \in {Nobody, d}
                           /\ path \in {Nobody, d} \/ path \notin listening
        /\ pidfile' # pidfile => Busy(d) /\ pidfile' \in {Nobody, d} /\ path \in {Nobody, d}
    BY <1>t DEF SocketInv, Busy, Owning, Serving, Over, ProbeSocket, Goto, signalVars, FailStart, Fail, Probe
  <2>3. d \in listening' => d \in listening \/ Busy(d)
    BY DEF Busy, Serving, Over, ProbeSocket, Goto, signalVars, FailStart, Fail, Probe
  <2>4. Busy(d)' => Busy(d) \/ \A e \in Daemons \ {d} : ~Busy(e)
    BY <1>t DEF Typed, StartInv, Busy, Serving, Over, ProbeSocket, Goto, signalVars, FailStart, Fail, Probe
  <2> QED
    BY <2>1, <2>2, <2>3, <2>4 DEF DaemonFrame
<1>5. SocketInv(d)'
  BY <1>t, ZenonT(60) DEF Typed, SocketInv, Owning, Open, Late, Serving, ProbeSocket, Goto, signalVars, FailStart, Fail, Probe
<1>6. PidInv(d)'
  BY <1>t DEF Typed, SocketInv, PidInv, Noted, Owning, Serving, ProbeSocket, Goto, signalVars, FailStart, Fail, Probe
<1>7. StartInv(d)'
  BY <1>t DEF Typed, ReasonTyped, StartInv, SocketInv, Owning, ProbeSocket, Goto, signalVars, FailStart, Fail, Probe
<1> QED
  BY <1>1, <1>2, <1>3, <1>4, <1>5, <1>6, <1>7, StepKeeps

LEMMA RemoveStaleKeeps ==
  ASSUME LifeInv, NEW d \in Daemons, RemoveStale(d)
  PROVE  LifeInv'
<1>t. Typed /\ ReasonTyped /\ SocketInv(d) /\ PidInv(d) /\ StartInv(d) /\ Nobody \notin Daemons
  BY DaemonLifecycleAssumption DEF LifeInv
<1>1. BacklogInv' /\ client' \in [Clients -> {"idle", "waiting", "served", "local", "error"}]
  BY DEF LifeInv, BacklogInv, Typed, RemoveStale
<1>2. Typed'
  BY <1>t, <1>1, ZenonT(60) DEF Typed, Starting, Serving, Stopping, Over, RemoveStale, Goto, signalVars, FailStart, Fail
<1>3. ReasonTyped'
  BY <1>t DEF ReasonTyped, RemoveStale, Goto, signalVars, FailStart, Fail
<1>4. DaemonFrame(d)
  <2>1. \A e \in Daemons \ {d} :
          /\ st'[e] = st[e] /\ launcher'[e] = launcher[e]
          /\ reason'[e] = reason[e]
          /\ e \in listening' <=> e \in listening
          /\ e \in requested' <=> e \in requested
          /\ e \in signalled' <=> e \in signalled
    BY <1>t DEF Typed, ReasonTyped, RemoveStale, Goto, signalVars, FailStart, Fail
  <2>2. /\ path' # path => /\ Busy(d) /\ path' \in {Nobody, d}
                           /\ path \in {Nobody, d} \/ path \notin listening
        /\ pidfile' # pidfile => Busy(d) /\ pidfile' \in {Nobody, d} /\ path \in {Nobody, d}
    BY <1>t DEF SocketInv, Busy, Owning, Serving, Over, RemoveStale, Goto, signalVars, FailStart, Fail
  <2>3. d \in listening' => d \in listening \/ Busy(d)
    BY DEF Busy, Serving, Over, RemoveStale, Goto, signalVars, FailStart, Fail
  <2>4. Busy(d)' => Busy(d) \/ \A e \in Daemons \ {d} : ~Busy(e)
    BY <1>t DEF Typed, StartInv, Busy, Serving, Over, RemoveStale, Goto, signalVars, FailStart, Fail
  <2> QED
    BY <2>1, <2>2, <2>3, <2>4 DEF DaemonFrame
<1>5. SocketInv(d)'
  BY <1>t DEF Typed, SocketInv, Owning, Open, Late, Serving, RemoveStale, Goto, signalVars, FailStart, Fail
<1>6. PidInv(d)'
  BY <1>t DEF Typed, SocketInv, PidInv, Noted, Owning, Serving, RemoveStale, Goto, signalVars, FailStart, Fail
<1>7. StartInv(d)'
  BY <1>t DEF Typed, ReasonTyped, StartInv, SocketInv, Owning, RemoveStale, Goto, signalVars, FailStart, Fail
<1> QED
  BY <1>1, <1>2, <1>3, <1>4, <1>5, <1>6, <1>7, StepKeeps

LEMMA BindKeeps ==
  ASSUME LifeInv, NEW d \in Daemons, Bind(d)
  PROVE  LifeInv'
<1>t. Typed /\ ReasonTyped /\ SocketInv(d) /\ PidInv(d) /\ StartInv(d) /\ Nobody \notin Daemons
  BY DaemonLifecycleAssumption DEF LifeInv
<1>1. BacklogInv' /\ client' \in [Clients -> {"idle", "waiting", "served", "local", "error"}]
  BY DEF LifeInv, BacklogInv, Typed, Bind
<1>2. Typed'
  BY <1>t, <1>1, ZenonT(60) DEF Typed, Starting, Serving, Stopping, Over, Bind, Goto, signalVars, FailStart, Fail
<1>3. ReasonTyped'
  BY <1>t DEF ReasonTyped, Bind, Goto, signalVars, FailStart, Fail
<1>4. DaemonFrame(d)
  <2>1. \A e \in Daemons \ {d} :
          /\ st'[e] = st[e] /\ launcher'[e] = launcher[e]
          /\ reason'[e] = reason[e]
          /\ e \in listening' <=> e \in listening
          /\ e \in requested' <=> e \in requested
          /\ e \in signalled' <=> e \in signalled
    BY <1>t DEF Typed, ReasonTyped, Bind, Goto, signalVars, FailStart, Fail
  <2>2. /\ path' # path => /\ Busy(d) /\ path' \in {Nobody, d}
                           /\ path \in {Nobody, d} \/ path \notin listening
        /\ pidfile' # pidfile => Busy(d) /\ pidfile' \in {Nobody, d} /\ path \in {Nobody, d}
    BY <1>t DEF SocketInv, Busy, Owning, Serving, Over, Bind, Goto, signalVars, FailStart, Fail
  <2>3. d \in listening' => d \in listening \/ Busy(d)
    BY DEF Busy, Serving, Over, Bind, Goto, signalVars, FailStart, Fail
  <2>4. Busy(d)' => Busy(d) \/ \A e \in Daemons \ {d} : ~Busy(e)
    BY <1>t DEF Typed, StartInv, Busy, Serving, Over, Bind, Goto, signalVars, FailStart, Fail
  <2> QED
    BY <2>1, <2>2, <2>3, <2>4 DEF DaemonFrame
<1>5. SocketInv(d)'
  BY <1>t DEF Typed, SocketInv, Owning, Open, Late, Serving, Bind, Goto, signalVars, FailStart, Fail
<1>6. PidInv(d)'
  BY <1>t DEF Typed, SocketInv, PidInv, Noted, Owning, Serving, Bind, Goto, signalVars, FailStart, Fail
<1>7. StartInv(d)'
  BY <1>t DEF Typed, ReasonTyped, StartInv, SocketInv, Owning, Bind, Goto, signalVars, FailStart, Fail
<1> QED
  BY <1>1, <1>2, <1>3, <1>4, <1>5, <1>6, <1>7, StepKeeps

LEMMA ListenKeeps ==
  ASSUME LifeInv, NEW d \in Daemons, Listen(d)
  PROVE  LifeInv'
<1>t. Typed /\ ReasonTyped /\ SocketInv(d) /\ PidInv(d) /\ StartInv(d) /\ Nobody \notin Daemons
  BY DaemonLifecycleAssumption DEF LifeInv
<1>1. BacklogInv' /\ client' \in [Clients -> {"idle", "waiting", "served", "local", "error"}]
  BY DEF LifeInv, BacklogInv, Typed, Listen
<1>2. Typed'
  BY <1>t, <1>1 DEF Typed, Starting, Serving, Stopping, Over, Listen, Goto, signalVars, launchVars
<1>3. ReasonTyped'
  BY <1>t DEF ReasonTyped, Listen, Goto, signalVars, launchVars
<1>4. DaemonFrame(d)
  <2>1. \A e \in Daemons \ {d} :
          /\ st'[e] = st[e] /\ launcher'[e] = launcher[e]
          /\ reason'[e] = reason[e]
          /\ e \in listening' <=> e \in listening
          /\ e \in requested' <=> e \in requested
          /\ e \in signalled' <=> e \in signalled
    BY <1>t DEF Typed, ReasonTyped, Listen, Goto, signalVars, launchVars
  <2>2. /\ path' # path => /\ Busy(d) /\ path' \in {Nobody, d}
                           /\ path \in {Nobody, d} \/ path \notin listening
        /\ pidfile' # pidfile => Busy(d) /\ pidfile' \in {Nobody, d} /\ path \in {Nobody, d}
    BY <1>t DEF SocketInv, Busy, Owning, Serving, Over, Listen, Goto, signalVars, launchVars
  <2>3. d \in listening' => d \in listening \/ Busy(d)
    BY DEF Busy, Serving, Over, Listen, Goto, signalVars, launchVars
  <2>4. Busy(d)' => Busy(d) \/ \A e \in Daemons \ {d} : ~Busy(e)
    BY <1>t DEF Typed, StartInv, Busy, Serving, Over, Listen, Goto, signalVars, launchVars
  <2> QED
    BY <2>1, <2>2, <2>3, <2>4 DEF DaemonFrame
<1>5. SocketInv(d)'
  BY <1>t DEF Typed, SocketInv, Owning, Open, Late, Serving, Listen, Goto, signalVars, launchVars
<1>6. PidInv(d)'
  BY <1>t DEF Typed, SocketInv, PidInv, Noted, Owning, Serving, Listen, Goto, signalVars, launchVars
<1>7. StartInv(d)'
  BY <1>t DEF Typed, ReasonTyped, StartInv, SocketInv, Owning, Listen, Goto, signalVars, launchVars
<1> QED
  BY <1>1, <1>2, <1>3, <1>4, <1>5, <1>6, <1>7, StepKeeps

LEMMA SetPermissionsKeeps ==
  ASSUME LifeInv, NEW d \in Daemons, SetPermissions(d)
  PROVE  LifeInv'
<1>t. Typed /\ ReasonTyped /\ SocketInv(d) /\ PidInv(d) /\ StartInv(d) /\ Nobody \notin Daemons
  BY DaemonLifecycleAssumption DEF LifeInv
<1>1. BacklogInv' /\ client' \in [Clients -> {"idle", "waiting", "served", "local", "error"}]
  <2>1. CASE DropListener(d)
    BY <2>1, DropKeepsBacklog
  <2>2. CASE UNCHANGED <<backlog, client>>
    BY <2>2 DEF LifeInv, BacklogInv, Typed
  <2> QED
    BY <2>1, <2>2 DEF SetPermissions, Die
<1>2. Typed'
  BY <1>t, <1>1, ZenonT(60) DEF Typed, Starting, Serving, Stopping, Over, SetPermissions, Goto, signalVars, FailStart, Fail, DropListener
<1>3. ReasonTyped'
  BY <1>t DEF ReasonTyped, SetPermissions, Goto, signalVars, FailStart, Fail, DropListener
<1>4. DaemonFrame(d)
  <2>1. \A e \in Daemons \ {d} :
          /\ st'[e] = st[e] /\ launcher'[e] = launcher[e]
          /\ reason'[e] = reason[e]
          /\ e \in listening' <=> e \in listening
          /\ e \in requested' <=> e \in requested
          /\ e \in signalled' <=> e \in signalled
    BY <1>t, ZenonT(60) DEF Typed, ReasonTyped, SetPermissions, Goto, signalVars, FailStart, Fail, DropListener
  <2>2. /\ path' # path => /\ Busy(d) /\ path' \in {Nobody, d}
                           /\ path \in {Nobody, d} \/ path \notin listening
        /\ pidfile' # pidfile => Busy(d) /\ pidfile' \in {Nobody, d} /\ path \in {Nobody, d}
    BY <1>t DEF SocketInv, Busy, Owning, Serving, Over, SetPermissions, Goto, signalVars, FailStart, Fail, DropListener
  <2>3. d \in listening' => d \in listening \/ Busy(d)
    BY DEF Busy, Serving, Over, SetPermissions, Goto, signalVars, FailStart, Fail, DropListener
  <2>4. Busy(d)' => Busy(d) \/ \A e \in Daemons \ {d} : ~Busy(e)
    BY <1>t DEF Typed, StartInv, Busy, Serving, Over, SetPermissions, Goto, signalVars, FailStart, Fail, DropListener
  <2> QED
    BY <2>1, <2>2, <2>3, <2>4 DEF DaemonFrame
<1>5. SocketInv(d)'
  BY <1>t DEF Typed, SocketInv, Owning, Open, Late, Serving, SetPermissions, Goto, signalVars, FailStart, Fail, DropListener
<1>6. PidInv(d)'
  BY <1>t DEF Typed, SocketInv, PidInv, Noted, Owning, Serving, SetPermissions, Goto, signalVars, FailStart, Fail, DropListener
<1>7. StartInv(d)'
  BY <1>t DEF Typed, ReasonTyped, StartInv, SocketInv, Owning, SetPermissions, Goto, signalVars, FailStart, Fail, DropListener
<1> QED
  BY <1>1, <1>2, <1>3, <1>4, <1>5, <1>6, <1>7, StepKeeps

LEMMA WritePidKeeps ==
  ASSUME LifeInv, NEW d \in Daemons, WritePid(d)
  PROVE  LifeInv'
<1>t. Typed /\ ReasonTyped /\ SocketInv(d) /\ PidInv(d) /\ StartInv(d) /\ Nobody \notin Daemons
  BY DaemonLifecycleAssumption DEF LifeInv
<1>1. BacklogInv' /\ client' \in [Clients -> {"idle", "waiting", "served", "local", "error"}]
  <2>1. CASE DropListener(d)
    BY <2>1, DropKeepsBacklog
  <2>2. CASE UNCHANGED <<backlog, client>>
    BY <2>2 DEF LifeInv, BacklogInv, Typed
  <2> QED
    BY <2>1, <2>2 DEF WritePid, Die
<1>2. Typed'
  BY <1>t, <1>1 DEF Typed, Starting, Serving, Stopping, Over, WritePid, Goto, signalVars, Fail, DropListener
<1>3. ReasonTyped'
  BY <1>t DEF ReasonTyped, WritePid, Goto, signalVars, Fail, DropListener
<1>4. DaemonFrame(d)
  <2>1. \A e \in Daemons \ {d} :
          /\ st'[e] = st[e] /\ launcher'[e] = launcher[e]
          /\ reason'[e] = reason[e]
          /\ e \in listening' <=> e \in listening
          /\ e \in requested' <=> e \in requested
          /\ e \in signalled' <=> e \in signalled
    BY <1>t DEF Typed, ReasonTyped, WritePid, Goto, signalVars, Fail, DropListener
  <2>2. /\ path' # path => /\ Busy(d) /\ path' \in {Nobody, d}
                           /\ path \in {Nobody, d} \/ path \notin listening
        /\ pidfile' # pidfile => Busy(d) /\ pidfile' \in {Nobody, d} /\ path \in {Nobody, d}
    BY <1>t DEF SocketInv, Busy, Owning, Serving, Over, WritePid, Goto, signalVars, Fail, DropListener
  <2>3. d \in listening' => d \in listening \/ Busy(d)
    BY DEF Busy, Serving, Over, WritePid, Goto, signalVars, Fail, DropListener
  <2>4. Busy(d)' => Busy(d) \/ \A e \in Daemons \ {d} : ~Busy(e)
    BY <1>t DEF Typed, StartInv, Busy, Serving, Over, WritePid, Goto, signalVars, Fail, DropListener
  <2> QED
    BY <2>1, <2>2, <2>3, <2>4 DEF DaemonFrame
<1>5. SocketInv(d)'
  BY <1>t DEF Typed, SocketInv, Owning, Open, Late, Serving, WritePid, Goto, signalVars, Fail, DropListener
<1>6. PidInv(d)'
  BY <1>t DEF Typed, SocketInv, PidInv, Noted, Owning, Serving, WritePid, Goto, signalVars, Fail, DropListener
<1>7. StartInv(d)'
  BY <1>t DEF Typed, ReasonTyped, StartInv, SocketInv, Owning, WritePid, Goto, signalVars, Fail, DropListener
<1> QED
  BY <1>1, <1>2, <1>3, <1>4, <1>5, <1>6, <1>7, StepKeeps

LEMMA ReadyKeeps ==
  ASSUME LifeInv, NEW d \in Daemons, Ready(d)
  PROVE  LifeInv'
<1>t. Typed /\ ReasonTyped /\ SocketInv(d) /\ PidInv(d) /\ StartInv(d) /\ Nobody \notin Daemons
  BY DaemonLifecycleAssumption DEF LifeInv
<1>1. BacklogInv' /\ client' \in [Clients -> {"idle", "waiting", "served", "local", "error"}]
  <2>1. CASE DropListener(d)
    BY <2>1, DropKeepsBacklog
  <2>2. CASE UNCHANGED <<backlog, client>>
    BY <2>2 DEF LifeInv, BacklogInv, Typed
  <2> QED
    BY <2>1, <2>2 DEF Ready, Die
<1>2. Typed'
  BY <1>t, <1>1, ZenonT(60) DEF Typed, Starting, Serving, Stopping, Over, Ready, Goto, signalVars, Fail, DropListener
<1>3. ReasonTyped'
  BY <1>t DEF ReasonTyped, Ready, Goto, signalVars, Fail, DropListener
<1>4. DaemonFrame(d)
  <2>1. \A e \in Daemons \ {d} :
          /\ st'[e] = st[e] /\ launcher'[e] = launcher[e]
          /\ reason'[e] = reason[e]
          /\ e \in listening' <=> e \in listening
          /\ e \in requested' <=> e \in requested
          /\ e \in signalled' <=> e \in signalled
    BY <1>t DEF Typed, ReasonTyped, Ready, Goto, signalVars, Fail, DropListener
  <2>2. /\ path' # path => /\ Busy(d) /\ path' \in {Nobody, d}
                           /\ path \in {Nobody, d} \/ path \notin listening
        /\ pidfile' # pidfile => Busy(d) /\ pidfile' \in {Nobody, d} /\ path \in {Nobody, d}
    BY <1>t DEF SocketInv, Busy, Owning, Serving, Over, Ready, Goto, signalVars, Fail, DropListener
  <2>3. d \in listening' => d \in listening \/ Busy(d)
    BY DEF Busy, Serving, Over, Ready, Goto, signalVars, Fail, DropListener
  <2>4. Busy(d)' => Busy(d) \/ \A e \in Daemons \ {d} : ~Busy(e)
    BY <1>t DEF Typed, StartInv, Busy, Serving, Over, Ready, Goto, signalVars, Fail, DropListener
  <2> QED
    BY <2>1, <2>2, <2>3, <2>4 DEF DaemonFrame
<1>5. SocketInv(d)'
  BY <1>t, ZenonT(60) DEF Typed, SocketInv, Owning, Open, Late, Serving, Ready, Goto, signalVars, Fail, DropListener
<1>6. PidInv(d)'
  BY <1>t DEF Typed, SocketInv, PidInv, Noted, Owning, Serving, Ready, Goto, signalVars, Fail, DropListener
<1>7. StartInv(d)'
  BY <1>t DEF Typed, ReasonTyped, StartInv, SocketInv, Owning, Ready, Goto, signalVars, Fail, DropListener
<1> QED
  BY <1>1, <1>2, <1>3, <1>4, <1>5, <1>6, <1>7, StepKeeps

LEMMA InstallKeeps ==
  ASSUME LifeInv, NEW d \in Daemons, Install(d)
  PROVE  LifeInv'
<1>t. Typed /\ ReasonTyped /\ SocketInv(d) /\ PidInv(d) /\ StartInv(d) /\ Nobody \notin Daemons
  BY DaemonLifecycleAssumption DEF LifeInv
<1>1. BacklogInv' /\ client' \in [Clients -> {"idle", "waiting", "served", "local", "error"}]
  BY DEF LifeInv, BacklogInv, Typed, Install
<1>2. Typed'
  BY <1>t, <1>1 DEF Typed, Starting, Serving, Stopping, Over, Install, Goto, launchVars
<1>3. ReasonTyped'
  BY <1>t DEF ReasonTyped, Install, Goto, launchVars
<1>4. DaemonFrame(d)
  <2>1. \A e \in Daemons \ {d} :
          /\ st'[e] = st[e] /\ launcher'[e] = launcher[e]
          /\ reason'[e] = reason[e]
          /\ e \in listening' <=> e \in listening
          /\ e \in requested' <=> e \in requested
          /\ e \in signalled' <=> e \in signalled
    BY <1>t DEF Typed, ReasonTyped, Install, Goto, launchVars
  <2>2. /\ path' # path => /\ Busy(d) /\ path' \in {Nobody, d}
                           /\ path \in {Nobody, d} \/ path \notin listening
        /\ pidfile' # pidfile => Busy(d) /\ pidfile' \in {Nobody, d} /\ path \in {Nobody, d}
    BY <1>t DEF SocketInv, Busy, Owning, Serving, Over, Install, Goto, launchVars
  <2>3. d \in listening' => d \in listening \/ Busy(d)
    BY DEF Busy, Serving, Over, Install, Goto, launchVars
  <2>4. Busy(d)' => Busy(d) \/ \A e \in Daemons \ {d} : ~Busy(e)
    BY <1>t DEF Typed, StartInv, Busy, Serving, Over, Install, Goto, launchVars
  <2> QED
    BY <2>1, <2>2, <2>3, <2>4 DEF DaemonFrame
<1>5. SocketInv(d)'
  BY <1>t DEF Typed, SocketInv, Owning, Open, Late, Serving, Install, Goto, launchVars
<1>6. PidInv(d)'
  BY <1>t DEF Typed, SocketInv, PidInv, Noted, Owning, Serving, Install, Goto, launchVars
<1>7. StartInv(d)'
  BY <1>t DEF Typed, ReasonTyped, StartInv, SocketInv, Owning, Install, Goto, launchVars
<1> QED
  BY <1>1, <1>2, <1>3, <1>4, <1>5, <1>6, <1>7, StepKeeps

LEMMA LoopKeeps ==
  ASSUME LifeInv, NEW d \in Daemons, Loop(d)
  PROVE  LifeInv'
<1>t. Typed /\ ReasonTyped /\ SocketInv(d) /\ PidInv(d) /\ StartInv(d) /\ Nobody \notin Daemons
  BY DaemonLifecycleAssumption DEF LifeInv
<1>1. BacklogInv' /\ client' \in [Clients -> {"idle", "waiting", "served", "local", "error"}]
  BY DEF LifeInv, BacklogInv, Typed, Loop
<1>2. Typed'
  BY <1>t, <1>1 DEF Typed, Starting, Serving, Stopping, Over, Loop, Goto, signalVars, launchVars
<1>3. ReasonTyped'
  BY <1>t DEF ReasonTyped, Loop, Goto, signalVars, launchVars
<1>4. DaemonFrame(d)
  <2>1. \A e \in Daemons \ {d} :
          /\ st'[e] = st[e] /\ launcher'[e] = launcher[e]
          /\ reason'[e] = reason[e]
          /\ e \in listening' <=> e \in listening
          /\ e \in requested' <=> e \in requested
          /\ e \in signalled' <=> e \in signalled
    BY <1>t DEF Typed, ReasonTyped, Loop, Goto, signalVars, launchVars
  <2>2. /\ path' # path => /\ Busy(d) /\ path' \in {Nobody, d}
                           /\ path \in {Nobody, d} \/ path \notin listening
        /\ pidfile' # pidfile => Busy(d) /\ pidfile' \in {Nobody, d} /\ path \in {Nobody, d}
    BY <1>t DEF SocketInv, Busy, Owning, Serving, Over, Loop, Goto, signalVars, launchVars
  <2>3. d \in listening' => d \in listening \/ Busy(d)
    BY DEF Busy, Serving, Over, Loop, Goto, signalVars, launchVars
  <2>4. Busy(d)' => Busy(d) \/ \A e \in Daemons \ {d} : ~Busy(e)
    BY <1>t DEF Typed, StartInv, Busy, Serving, Over, Loop, Goto, signalVars, launchVars
  <2> QED
    BY <2>1, <2>2, <2>3, <2>4 DEF DaemonFrame
<1>5. SocketInv(d)'
  BY <1>t DEF Typed, SocketInv, Owning, Open, Late, Serving, Loop, Goto, signalVars, launchVars
<1>6. PidInv(d)'
  BY <1>t DEF Typed, SocketInv, PidInv, Noted, Owning, Serving, Loop, Goto, signalVars, launchVars
<1>7. StartInv(d)'
  BY <1>t DEF Typed, ReasonTyped, StartInv, SocketInv, Owning, Loop, Goto, signalVars, launchVars
<1> QED
  BY <1>1, <1>2, <1>3, <1>4, <1>5, <1>6, <1>7, StepKeeps

LEMMA PollKeeps ==
  ASSUME LifeInv, NEW d \in Daemons, Poll(d)
  PROVE  LifeInv'
<1>t. Typed /\ ReasonTyped /\ SocketInv(d) /\ PidInv(d) /\ StartInv(d) /\ Nobody \notin Daemons
  BY DaemonLifecycleAssumption DEF LifeInv
<1>1. BacklogInv' /\ client' \in [Clients -> {"idle", "waiting", "served", "local", "error"}]
  BY DEF LifeInv, BacklogInv, Typed, Poll
<1>2. Typed'
  BY <1>t, <1>1 DEF Typed, Starting, Serving, Stopping, Over, Poll, Goto, signalVars, launchVars
<1>3. ReasonTyped'
  BY <1>t DEF ReasonTyped, Poll, Goto, signalVars, launchVars
<1>4. DaemonFrame(d)
  <2>1. \A e \in Daemons \ {d} :
          /\ st'[e] = st[e] /\ launcher'[e] = launcher[e]
          /\ reason'[e] = reason[e]
          /\ e \in listening' <=> e \in listening
          /\ e \in requested' <=> e \in requested
          /\ e \in signalled' <=> e \in signalled
    BY <1>t DEF Typed, ReasonTyped, Poll, Goto, signalVars, launchVars
  <2>2. /\ path' # path => /\ Busy(d) /\ path' \in {Nobody, d}
                           /\ path \in {Nobody, d} \/ path \notin listening
        /\ pidfile' # pidfile => Busy(d) /\ pidfile' \in {Nobody, d} /\ path \in {Nobody, d}
    BY <1>t DEF SocketInv, Busy, Owning, Serving, Over, Poll, Goto, signalVars, launchVars
  <2>3. d \in listening' => d \in listening \/ Busy(d)
    BY DEF Busy, Serving, Over, Poll, Goto, signalVars, launchVars
  <2>4. Busy(d)' => Busy(d) \/ \A e \in Daemons \ {d} : ~Busy(e)
    BY <1>t DEF Typed, StartInv, Busy, Serving, Over, Poll, Goto, signalVars, launchVars
  <2> QED
    BY <2>1, <2>2, <2>3, <2>4 DEF DaemonFrame
<1>5. SocketInv(d)'
  BY <1>t DEF Typed, SocketInv, Owning, Open, Late, Serving, Poll, Goto, signalVars, launchVars
<1>6. PidInv(d)'
  BY <1>t DEF Typed, SocketInv, PidInv, Noted, Owning, Serving, Poll, Goto, signalVars, launchVars
<1>7. StartInv(d)'
  BY <1>t DEF Typed, ReasonTyped, StartInv, SocketInv, Owning, Poll, Goto, signalVars, launchVars
<1> QED
  BY <1>1, <1>2, <1>3, <1>4, <1>5, <1>6, <1>7, StepKeeps

LEMMA PollFailsKeeps ==
  ASSUME Serial = TRUE, LifeInv, NEW d \in Daemons, PollFails(d)
  PROVE  LifeInv'
<1>t. Typed /\ ReasonTyped /\ SocketInv(d) /\ PidInv(d) /\ StartInv(d) /\ Nobody \notin Daemons
  BY DaemonLifecycleAssumption DEF LifeInv
<1>1. BacklogInv' /\ client' \in [Clients -> {"idle", "waiting", "served", "local", "error"}]
  BY DEF LifeInv, BacklogInv, Typed, PollFails
<1>2. Typed'
  BY <1>t, <1>1 DEF Typed, Starting, Serving, Stopping, Over, PollFails, Goto, signalVars, launchVars
<1>3. ReasonTyped'
  BY <1>t DEF ReasonTyped, PollFails, Goto, signalVars, launchVars
<1>4. DaemonFrame(d)
  <2>1. \A e \in Daemons \ {d} :
          /\ st'[e] = st[e] /\ launcher'[e] = launcher[e]
          /\ reason'[e] = reason[e]
          /\ e \in listening' <=> e \in listening
          /\ e \in requested' <=> e \in requested
          /\ e \in signalled' <=> e \in signalled
    BY <1>t DEF Typed, ReasonTyped, PollFails, Goto, signalVars, launchVars
  <2>2. /\ path' # path => /\ Busy(d) /\ path' \in {Nobody, d}
                           /\ path \in {Nobody, d} \/ path \notin listening
        /\ pidfile' # pidfile => Busy(d) /\ pidfile' \in {Nobody, d} /\ path \in {Nobody, d}
    BY <1>t DEF SocketInv, Busy, Owning, Serving, Over, PollFails, Goto, signalVars, launchVars
  <2>3. d \in listening' => d \in listening \/ Busy(d)
    BY DEF Busy, Serving, Over, PollFails, Goto, signalVars, launchVars
  <2>4. Busy(d)' => Busy(d) \/ \A e \in Daemons \ {d} : ~Busy(e)
    BY <1>t DEF Typed, StartInv, Busy, Serving, Over, Alone, PollFails, Goto, signalVars, launchVars
  <2> QED
    BY <2>1, <2>2, <2>3, <2>4 DEF DaemonFrame
<1>5. SocketInv(d)'
  BY <1>t DEF Typed, SocketInv, Owning, Open, Late, Serving, PollFails, Goto, signalVars, launchVars
<1>6. PidInv(d)'
  BY <1>t DEF Typed, SocketInv, PidInv, Noted, Owning, Serving, PollFails, Goto, signalVars, launchVars
<1>7. StartInv(d)'
  BY <1>t DEF Typed, ReasonTyped, StartInv, SocketInv, Owning, PollFails, Goto, signalVars, launchVars
<1> QED
  BY <1>1, <1>2, <1>3, <1>4, <1>5, <1>6, <1>7, StepKeeps

LEMMA AcceptKeeps ==
  ASSUME LifeInv, NEW d \in Daemons, Accept(d)
  PROVE  LifeInv'
<1>t. Typed /\ ReasonTyped /\ SocketInv(d) /\ PidInv(d) /\ StartInv(d) /\ Nobody \notin Daemons
  BY DaemonLifecycleAssumption DEF LifeInv
<1>1. BacklogInv' /\ client' \in [Clients -> {"idle", "waiting", "served", "local", "error"}]
  BY AcceptKeepsBacklog
<1>2. Typed'
  BY <1>t, <1>1 DEF Typed, Starting, Serving, Stopping, Over, Accept, Goto, signalVars, launchVars
<1>3. ReasonTyped'
  BY <1>t DEF ReasonTyped, Accept, Goto, signalVars, launchVars
<1>4. DaemonFrame(d)
  <2>1. \A e \in Daemons \ {d} :
          /\ st'[e] = st[e] /\ launcher'[e] = launcher[e]
          /\ reason'[e] = reason[e]
          /\ e \in listening' <=> e \in listening
          /\ e \in requested' <=> e \in requested
          /\ e \in signalled' <=> e \in signalled
    BY <1>t DEF Typed, ReasonTyped, Accept, Goto, signalVars, launchVars
  <2>2. /\ path' # path => /\ Busy(d) /\ path' \in {Nobody, d}
                           /\ path \in {Nobody, d} \/ path \notin listening
        /\ pidfile' # pidfile => Busy(d) /\ pidfile' \in {Nobody, d} /\ path \in {Nobody, d}
    BY <1>t DEF SocketInv, Busy, Owning, Serving, Over, Accept, Goto, signalVars, launchVars
  <2>3. d \in listening' => d \in listening \/ Busy(d)
    BY DEF Busy, Serving, Over, Accept, Goto, signalVars, launchVars
  <2>4. Busy(d)' => Busy(d) \/ \A e \in Daemons \ {d} : ~Busy(e)
    BY <1>t DEF Typed, StartInv, Busy, Serving, Over, Accept, Goto, signalVars, launchVars
  <2> QED
    BY <2>1, <2>2, <2>3, <2>4 DEF DaemonFrame
<1>5. SocketInv(d)'
  BY <1>t DEF Typed, SocketInv, Owning, Open, Late, Serving, Accept, Goto, signalVars, launchVars
<1>6. PidInv(d)'
  BY <1>t DEF Typed, SocketInv, PidInv, Noted, Owning, Serving, Accept, Goto, signalVars, launchVars
<1>7. StartInv(d)'
  BY <1>t DEF Typed, ReasonTyped, StartInv, SocketInv, Owning, Accept, Goto, signalVars, launchVars
<1> QED
  BY <1>1, <1>2, <1>3, <1>4, <1>5, <1>6, <1>7, StepKeeps

LEMMA CloseListenerKeeps ==
  ASSUME LifeInv, NEW d \in Daemons, CloseListener(d)
  PROVE  LifeInv'
<1>t. Typed /\ ReasonTyped /\ SocketInv(d) /\ PidInv(d) /\ StartInv(d) /\ Nobody \notin Daemons
  BY DaemonLifecycleAssumption DEF LifeInv
<1>1. BacklogInv' /\ client' \in [Clients -> {"idle", "waiting", "served", "local", "error"}]
  BY DropKeepsBacklog DEF CloseListener, Die
<1>2. Typed'
  BY <1>t, <1>1 DEF Typed, Starting, Serving, Stopping, Over, CloseListener, Goto, signalVars, launchVars, DropListener
<1>3. ReasonTyped'
  BY <1>t DEF ReasonTyped, CloseListener, Goto, signalVars, launchVars, DropListener
<1>4. DaemonFrame(d)
  <2>1. \A e \in Daemons \ {d} :
          /\ st'[e] = st[e] /\ launcher'[e] = launcher[e]
          /\ reason'[e] = reason[e]
          /\ e \in listening' <=> e \in listening
          /\ e \in requested' <=> e \in requested
          /\ e \in signalled' <=> e \in signalled
    BY <1>t DEF Typed, ReasonTyped, CloseListener, Goto, signalVars, launchVars, DropListener
  <2>2. /\ path' # path => /\ Busy(d) /\ path' \in {Nobody, d}
                           /\ path \in {Nobody, d} \/ path \notin listening
        /\ pidfile' # pidfile => Busy(d) /\ pidfile' \in {Nobody, d} /\ path \in {Nobody, d}
    BY <1>t DEF SocketInv, Busy, Owning, Serving, Over, CloseListener, Goto, signalVars, launchVars, DropListener
  <2>3. d \in listening' => d \in listening \/ Busy(d)
    BY DEF Busy, Serving, Over, CloseListener, Goto, signalVars, launchVars, DropListener
  <2>4. Busy(d)' => Busy(d) \/ \A e \in Daemons \ {d} : ~Busy(e)
    BY <1>t DEF Typed, StartInv, Busy, Serving, Over, CloseListener, Goto, signalVars, launchVars, DropListener
  <2> QED
    BY <2>1, <2>2, <2>3, <2>4 DEF DaemonFrame
<1>5. SocketInv(d)'
  BY <1>t DEF Typed, SocketInv, Owning, Open, Late, Serving, CloseListener, Goto, signalVars, launchVars, DropListener
<1>6. PidInv(d)'
  BY <1>t DEF Typed, SocketInv, PidInv, Noted, Owning, Serving, CloseListener, Goto, signalVars, launchVars, DropListener
<1>7. StartInv(d)'
  BY <1>t DEF Typed, ReasonTyped, StartInv, SocketInv, Owning, CloseListener, Goto, signalVars, launchVars, DropListener
<1> QED
  BY <1>1, <1>2, <1>3, <1>4, <1>5, <1>6, <1>7, StepKeeps

LEMMA RestoreHandlersKeeps ==
  ASSUME LifeInv, NEW d \in Daemons, RestoreHandlers(d)
  PROVE  LifeInv'
<1>t. Typed /\ ReasonTyped /\ SocketInv(d) /\ PidInv(d) /\ StartInv(d) /\ Nobody \notin Daemons
  BY DaemonLifecycleAssumption DEF LifeInv
<1>1. BacklogInv' /\ client' \in [Clients -> {"idle", "waiting", "served", "local", "error"}]
  BY DEF LifeInv, BacklogInv, Typed, RestoreHandlers
<1>2. Typed'
  BY <1>t, <1>1 DEF Typed, Starting, Serving, Stopping, Over, RestoreHandlers, Goto, launchVars
<1>3. ReasonTyped'
  BY <1>t DEF ReasonTyped, RestoreHandlers, Goto, launchVars
<1>4. DaemonFrame(d)
  <2>1. \A e \in Daemons \ {d} :
          /\ st'[e] = st[e] /\ launcher'[e] = launcher[e]
          /\ reason'[e] = reason[e]
          /\ e \in listening' <=> e \in listening
          /\ e \in requested' <=> e \in requested
          /\ e \in signalled' <=> e \in signalled
    BY <1>t DEF Typed, ReasonTyped, RestoreHandlers, Goto, launchVars
  <2>2. /\ path' # path => /\ Busy(d) /\ path' \in {Nobody, d}
                           /\ path \in {Nobody, d} \/ path \notin listening
        /\ pidfile' # pidfile => Busy(d) /\ pidfile' \in {Nobody, d} /\ path \in {Nobody, d}
    BY <1>t DEF SocketInv, Busy, Owning, Serving, Over, RestoreHandlers, Goto, launchVars
  <2>3. d \in listening' => d \in listening \/ Busy(d)
    BY DEF Busy, Serving, Over, RestoreHandlers, Goto, launchVars
  <2>4. Busy(d)' => Busy(d) \/ \A e \in Daemons \ {d} : ~Busy(e)
    BY <1>t DEF Typed, StartInv, Busy, Serving, Over, RestoreHandlers, Goto, launchVars
  <2> QED
    BY <2>1, <2>2, <2>3, <2>4 DEF DaemonFrame
<1>5. SocketInv(d)'
  BY <1>t DEF Typed, SocketInv, Owning, Open, Late, Serving, RestoreHandlers, Goto, launchVars
<1>6. PidInv(d)'
  BY <1>t DEF Typed, SocketInv, PidInv, Noted, Owning, Serving, RestoreHandlers, Goto, launchVars
<1>7. StartInv(d)'
  BY <1>t DEF Typed, ReasonTyped, StartInv, SocketInv, Owning, RestoreHandlers, Goto, launchVars
<1> QED
  BY <1>1, <1>2, <1>3, <1>4, <1>5, <1>6, <1>7, StepKeeps

LEMMA CleanupSocketKeeps ==
  ASSUME LifeInv, NEW d \in Daemons, CleanupSocket(d)
  PROVE  LifeInv'
<1>t. Typed /\ ReasonTyped /\ SocketInv(d) /\ PidInv(d) /\ StartInv(d) /\ Nobody \notin Daemons
  BY DaemonLifecycleAssumption DEF LifeInv
<1>1. BacklogInv' /\ client' \in [Clients -> {"idle", "waiting", "served", "local", "error"}]
  BY DEF LifeInv, BacklogInv, Typed, CleanupSocket
<1>2. Typed'
  BY <1>t, <1>1 DEF Typed, Starting, Serving, Stopping, Over, CleanupSocket, CleanedUp, Goto, signalVars, launchVars
<1>3. ReasonTyped'
  BY <1>t DEF ReasonTyped, CleanupSocket, CleanedUp, Goto, signalVars, launchVars
<1>4. DaemonFrame(d)
  <2>1. \A e \in Daemons \ {d} :
          /\ st'[e] = st[e] /\ launcher'[e] = launcher[e]
          /\ reason'[e] = reason[e]
          /\ e \in listening' <=> e \in listening
          /\ e \in requested' <=> e \in requested
          /\ e \in signalled' <=> e \in signalled
    BY <1>t DEF Typed, ReasonTyped, CleanupSocket, CleanedUp, Goto, signalVars, launchVars
  <2>2. /\ path' # path => /\ Busy(d) /\ path' \in {Nobody, d}
                           /\ path \in {Nobody, d} \/ path \notin listening
        /\ pidfile' # pidfile => Busy(d) /\ pidfile' \in {Nobody, d} /\ path \in {Nobody, d}
    BY <1>t DEF SocketInv, Busy, Owning, Serving, Over, CleanupSocket, CleanedUp, Goto, signalVars, launchVars
  <2>3. d \in listening' => d \in listening \/ Busy(d)
    BY DEF Busy, Serving, Over, CleanupSocket, CleanedUp, Goto, signalVars, launchVars
  <2>4. Busy(d)' => Busy(d) \/ \A e \in Daemons \ {d} : ~Busy(e)
    BY <1>t DEF Typed, StartInv, Busy, Serving, Over, CleanupSocket, CleanedUp, Goto, signalVars, launchVars
  <2> QED
    BY <2>1, <2>2, <2>3, <2>4 DEF DaemonFrame
<1>5. SocketInv(d)'
  BY <1>t DEF Typed, SocketInv, Owning, Open, Late, Serving, CleanupSocket, CleanedUp, Goto, signalVars, launchVars
<1>6. PidInv(d)'
  BY <1>t DEF Typed, SocketInv, PidInv, Noted, Owning, Serving, CleanupSocket, CleanedUp, Goto, signalVars, launchVars
<1>7. StartInv(d)'
  BY <1>t DEF Typed, ReasonTyped, StartInv, SocketInv, Owning, CleanupSocket, CleanedUp, Goto, signalVars, launchVars
<1> QED
  BY <1>1, <1>2, <1>3, <1>4, <1>5, <1>6, <1>7, StepKeeps

LEMMA CleanupPidKeeps ==
  ASSUME LifeInv, NEW d \in Daemons, CleanupPid(d)
  PROVE  LifeInv'
<1>t. Typed /\ ReasonTyped /\ SocketInv(d) /\ PidInv(d) /\ StartInv(d) /\ Nobody \notin Daemons
  BY DaemonLifecycleAssumption DEF LifeInv
<1>1. BacklogInv' /\ client' \in [Clients -> {"idle", "waiting", "served", "local", "error"}]
  BY DEF LifeInv, BacklogInv, Typed, CleanupPid
<1>2. Typed'
  BY <1>t, <1>1 DEF Typed, Starting, Serving, Stopping, Over, CleanupPid, CleanedUp, Goto, signalVars, launchVars
<1>3. ReasonTyped'
  BY <1>t DEF ReasonTyped, CleanupPid, CleanedUp, Goto, signalVars, launchVars
<1>4. DaemonFrame(d)
  <2>1. \A e \in Daemons \ {d} :
          /\ st'[e] = st[e] /\ launcher'[e] = launcher[e]
          /\ reason'[e] = reason[e]
          /\ e \in listening' <=> e \in listening
          /\ e \in requested' <=> e \in requested
          /\ e \in signalled' <=> e \in signalled
    BY <1>t DEF Typed, ReasonTyped, CleanupPid, CleanedUp, Goto, signalVars, launchVars
  <2>2. /\ path' # path => /\ Busy(d) /\ path' \in {Nobody, d}
                           /\ path \in {Nobody, d} \/ path \notin listening
        /\ pidfile' # pidfile => Busy(d) /\ pidfile' \in {Nobody, d} /\ path \in {Nobody, d}
    BY <1>t DEF SocketInv, Busy, Owning, Serving, Over, CleanupPid, CleanedUp, Goto, signalVars, launchVars
  <2>3. d \in listening' => d \in listening \/ Busy(d)
    BY DEF Busy, Serving, Over, CleanupPid, CleanedUp, Goto, signalVars, launchVars
  <2>4. Busy(d)' => Busy(d) \/ \A e \in Daemons \ {d} : ~Busy(e)
    BY <1>t DEF Typed, StartInv, Busy, Serving, Over, CleanupPid, CleanedUp, Goto, signalVars, launchVars
  <2> QED
    BY <2>1, <2>2, <2>3, <2>4 DEF DaemonFrame
<1>5. SocketInv(d)'
  BY <1>t DEF Typed, SocketInv, Owning, Open, Late, Serving, CleanupPid, CleanedUp, Goto, signalVars, launchVars
<1>6. PidInv(d)'
  BY <1>t DEF Typed, SocketInv, PidInv, Noted, Owning, Serving, CleanupPid, CleanedUp, Goto, signalVars, launchVars
<1>7. StartInv(d)'
  BY <1>t DEF Typed, ReasonTyped, StartInv, SocketInv, Owning, CleanupPid, CleanedUp, Goto, signalVars, launchVars
<1> QED
  BY <1>1, <1>2, <1>3, <1>4, <1>5, <1>6, <1>7, StepKeeps

LEMMA ExitKeeps ==
  ASSUME LifeInv, NEW d \in Daemons, Exit(d)
  PROVE  LifeInv'
<1>t. Typed /\ ReasonTyped /\ SocketInv(d) /\ PidInv(d) /\ StartInv(d) /\ Nobody \notin Daemons
  BY DaemonLifecycleAssumption DEF LifeInv
<1>1. BacklogInv' /\ client' \in [Clients -> {"idle", "waiting", "served", "local", "error"}]
  BY DropKeepsBacklog DEF Exit, Die
<1>2. Typed'
  BY <1>t, <1>1 DEF Typed, Starting, Serving, Stopping, Over, Exit, Goto, signalVars, launchVars, DropListener
<1>3. ReasonTyped'
  BY <1>t DEF ReasonTyped, Exit, Goto, signalVars, launchVars, DropListener
<1>4. DaemonFrame(d)
  <2>1. \A e \in Daemons \ {d} :
          /\ st'[e] = st[e] /\ launcher'[e] = launcher[e]
          /\ reason'[e] = reason[e]
          /\ e \in listening' <=> e \in listening
          /\ e \in requested' <=> e \in requested
          /\ e \in signalled' <=> e \in signalled
    BY <1>t DEF Typed, ReasonTyped, Exit, Goto, signalVars, launchVars, DropListener
  <2>2. /\ path' # path => /\ Busy(d) /\ path' \in {Nobody, d}
                           /\ path \in {Nobody, d} \/ path \notin listening
        /\ pidfile' # pidfile => Busy(d) /\ pidfile' \in {Nobody, d} /\ path \in {Nobody, d}
    BY <1>t DEF SocketInv, Busy, Owning, Serving, Over, Exit, Goto, signalVars, launchVars, DropListener
  <2>3. d \in listening' => d \in listening \/ Busy(d)
    BY DEF Busy, Serving, Over, Exit, Goto, signalVars, launchVars, DropListener
  <2>4. Busy(d)' => Busy(d) \/ \A e \in Daemons \ {d} : ~Busy(e)
    BY <1>t DEF Typed, StartInv, Busy, Serving, Over, Exit, Goto, signalVars, launchVars, DropListener
  <2> QED
    BY <2>1, <2>2, <2>3, <2>4 DEF DaemonFrame
<1>5. SocketInv(d)'
  BY <1>t DEF Typed, SocketInv, Owning, Open, Late, Serving, Exit, Goto, signalVars, launchVars, DropListener
<1>6. PidInv(d)'
  BY <1>t DEF Typed, SocketInv, PidInv, Noted, Owning, Serving, Exit, Goto, signalVars, launchVars, DropListener
<1>7. StartInv(d)'
  BY <1>t DEF Typed, ReasonTyped, StartInv, SocketInv, Owning, Exit, Goto, signalVars, launchVars, DropListener
<1> QED
  BY <1>1, <1>2, <1>3, <1>4, <1>5, <1>6, <1>7, StepKeeps

LEMMA SignalKeeps ==
  ASSUME Serial = TRUE, LifeInv, NEW d \in Daemons, Signal(d)
  PROVE  LifeInv'
<1>t. Typed /\ ReasonTyped /\ SocketInv(d) /\ PidInv(d) /\ StartInv(d) /\ Nobody \notin Daemons
  BY DaemonLifecycleAssumption DEF LifeInv
<1>1. BacklogInv' /\ client' \in [Clients -> {"idle", "waiting", "served", "local", "error"}]
  <2>1. CASE DropListener(d)
    BY <2>1, DropKeepsBacklog
  <2>2. CASE UNCHANGED <<backlog, client>>
    BY <2>2 DEF LifeInv, BacklogInv, Typed
  <2> QED
    BY <2>1, <2>2 DEF Signal, Die
<1>2. Typed'
  BY <1>t, <1>1 DEF Typed, Starting, Serving, Stopping, Over, Signal, Goto, launchVars, DropListener, Die, handle_shutdown_signal
<1>3. ReasonTyped'
  BY <1>t DEF ReasonTyped, Signal, Goto, launchVars, DropListener, Die, handle_shutdown_signal
<1>4. DaemonFrame(d)
  <2>1. \A e \in Daemons \ {d} :
          /\ st'[e] = st[e] /\ launcher'[e] = launcher[e]
          /\ reason'[e] = reason[e]
          /\ e \in listening' <=> e \in listening
          /\ e \in requested' <=> e \in requested
          /\ e \in signalled' <=> e \in signalled
    BY <1>t DEF Typed, ReasonTyped, Signal, Goto, launchVars, DropListener, Die, handle_shutdown_signal
  <2>2. /\ path' # path => /\ Busy(d) /\ path' \in {Nobody, d}
                           /\ path \in {Nobody, d} \/ path \notin listening
        /\ pidfile' # pidfile => Busy(d) /\ pidfile' \in {Nobody, d} /\ path \in {Nobody, d}
    BY <1>t DEF SocketInv, Busy, Owning, Serving, Over, Signal, Goto, launchVars, DropListener, Die, handle_shutdown_signal
  <2>3. d \in listening' => d \in listening \/ Busy(d)
    BY DEF Busy, Serving, Over, Signal, Goto, launchVars, DropListener, Die, handle_shutdown_signal
  <2>4. Busy(d)' => Busy(d) \/ \A e \in Daemons \ {d} : ~Busy(e)
    BY <1>t DEF Typed, StartInv, Busy, Serving, Over, Alone, Signal, Goto, launchVars, DropListener, Die, handle_shutdown_signal
  <2> QED
    BY <2>1, <2>2, <2>3, <2>4 DEF DaemonFrame
<1>5. SocketInv(d)'
  BY <1>t DEF Typed, SocketInv, Owning, Open, Late, Serving, Signal, Goto, launchVars, DropListener, Die, handle_shutdown_signal
<1>6. PidInv(d)'
  BY <1>t DEF Typed, SocketInv, PidInv, Noted, Owning, Serving, Signal, Goto, launchVars, DropListener, Die, handle_shutdown_signal
<1>7. StartInv(d)'
  BY <1>t DEF Typed, ReasonTyped, StartInv, SocketInv, Owning, Signal, Goto, launchVars, DropListener, Die, handle_shutdown_signal
<1> QED
  BY <1>1, <1>2, <1>3, <1>4, <1>5, <1>6, <1>7, StepKeeps

LEMMA KillKeeps ==
  ASSUME LifeInv, NEW d \in Daemons, Kill(d)
  PROVE  LifeInv'
<1>t. Typed /\ ReasonTyped /\ SocketInv(d) /\ PidInv(d) /\ StartInv(d) /\ Nobody \notin Daemons
  BY DaemonLifecycleAssumption DEF LifeInv
<1>1. BacklogInv' /\ client' \in [Clients -> {"idle", "waiting", "served", "local", "error"}]
  BY DropKeepsBacklog DEF Kill, Die
<1>2. Typed'
  BY <1>t, <1>1 DEF Typed, Starting, Serving, Stopping, Over, Kill, Goto, launchVars, DropListener, Die
<1>3. ReasonTyped'
  BY <1>t DEF ReasonTyped, Kill, Goto, launchVars, DropListener, Die
<1>4. DaemonFrame(d)
  <2>1. \A e \in Daemons \ {d} :
          /\ st'[e] = st[e] /\ launcher'[e] = launcher[e]
          /\ reason'[e] = reason[e]
          /\ e \in listening' <=> e \in listening
          /\ e \in requested' <=> e \in requested
          /\ e \in signalled' <=> e \in signalled
    BY <1>t DEF Typed, ReasonTyped, Kill, Goto, launchVars, DropListener, Die
  <2>2. /\ path' # path => /\ Busy(d) /\ path' \in {Nobody, d}
                           /\ path \in {Nobody, d} \/ path \notin listening
        /\ pidfile' # pidfile => Busy(d) /\ pidfile' \in {Nobody, d} /\ path \in {Nobody, d}
    BY <1>t DEF SocketInv, Busy, Owning, Serving, Over, Kill, Goto, launchVars, DropListener, Die
  <2>3. d \in listening' => d \in listening \/ Busy(d)
    BY DEF Busy, Serving, Over, Kill, Goto, launchVars, DropListener, Die
  <2>4. Busy(d)' => Busy(d) \/ \A e \in Daemons \ {d} : ~Busy(e)
    BY <1>t DEF Typed, StartInv, Busy, Serving, Over, Kill, Goto, launchVars, DropListener, Die
  <2> QED
    BY <2>1, <2>2, <2>3, <2>4 DEF DaemonFrame
<1>5. SocketInv(d)'
  BY <1>t DEF Typed, SocketInv, Owning, Open, Late, Serving, Kill, Goto, launchVars, DropListener, Die
<1>6. PidInv(d)'
  BY <1>t DEF Typed, SocketInv, PidInv, Noted, Owning, Serving, Kill, Goto, launchVars, DropListener, Die
<1>7. StartInv(d)'
  BY <1>t DEF Typed, ReasonTyped, StartInv, SocketInv, Owning, Kill, Goto, launchVars, DropListener, Die
<1> QED
  BY <1>1, <1>2, <1>3, <1>4, <1>5, <1>6, <1>7, StepKeeps

LEMMA LaunchedKeeps ==
  ASSUME LifeInv, NEW d \in Daemons, Launched(d)
  PROVE  LifeInv'
<1>t. Typed /\ ReasonTyped /\ SocketInv(d) /\ PidInv(d) /\ StartInv(d) /\ Nobody \notin Daemons
  BY DaemonLifecycleAssumption DEF LifeInv
<1>1. BacklogInv' /\ client' \in [Clients -> {"idle", "waiting", "served", "local", "error"}]
  BY DEF LifeInv, BacklogInv, Typed, Launched
<1>2. Typed'
  BY <1>t, <1>1 DEF Typed, Starting, Serving, Stopping, Over, Launched, signalVars
<1>3. ReasonTyped'
  BY <1>t DEF ReasonTyped, Launched, signalVars
<1>4. DaemonFrame(d)
  <2>1. \A e \in Daemons \ {d} :
          /\ st'[e] = st[e] /\ launcher'[e] = launcher[e]
          /\ reason'[e] = reason[e]
          /\ e \in listening' <=> e \in listening
          /\ e \in requested' <=> e \in requested
          /\ e \in signalled' <=> e \in signalled
    BY <1>t DEF Typed, ReasonTyped, Launched, signalVars
  <2>2. /\ path' # path => /\ Busy(d) /\ path' \in {Nobody, d}
                           /\ path \in {Nobody, d} \/ path \notin listening
        /\ pidfile' # pidfile => Busy(d) /\ pidfile' \in {Nobody, d} /\ path \in {Nobody, d}
    BY <1>t DEF SocketInv, Busy, Owning, Serving, Over, Launched, signalVars
  <2>3. d \in listening' => d \in listening \/ Busy(d)
    BY DEF Busy, Serving, Over, Launched, signalVars
  <2>4. Busy(d)' => Busy(d) \/ \A e \in Daemons \ {d} : ~Busy(e)
    BY <1>t DEF Typed, StartInv, Busy, Serving, Over, Launched, signalVars
  <2> QED
    BY <2>1, <2>2, <2>3, <2>4 DEF DaemonFrame
<1>5. SocketInv(d)'
  BY <1>t DEF Typed, SocketInv, Owning, Open, Late, Serving, Launched, signalVars
<1>6. PidInv(d)'
  BY <1>t DEF Typed, SocketInv, PidInv, Noted, Owning, Serving, Launched, signalVars
<1>7. StartInv(d)'
  BY <1>t DEF Typed, ReasonTyped, StartInv, SocketInv, Owning, Launched, signalVars
<1> QED
  BY <1>1, <1>2, <1>3, <1>4, <1>5, <1>6, <1>7, StepKeeps

LEMMA LauncherDiesKeeps ==
  ASSUME LifeInv, NEW d \in Daemons, LauncherDies(d)
  PROVE  LifeInv'
<1>t. Typed /\ ReasonTyped /\ SocketInv(d) /\ PidInv(d) /\ StartInv(d) /\ Nobody \notin Daemons
  BY DaemonLifecycleAssumption DEF LifeInv
<1>1. BacklogInv' /\ client' \in [Clients -> {"idle", "waiting", "served", "local", "error"}]
  BY DEF LifeInv, BacklogInv, Typed, LauncherDies
<1>2. Typed'
  BY <1>t, <1>1 DEF Typed, Starting, Serving, Stopping, Over, LauncherDies, signalVars
<1>3. ReasonTyped'
  BY <1>t DEF ReasonTyped, LauncherDies, signalVars
<1>4. DaemonFrame(d)
  <2>1. \A e \in Daemons \ {d} :
          /\ st'[e] = st[e] /\ launcher'[e] = launcher[e]
          /\ reason'[e] = reason[e]
          /\ e \in listening' <=> e \in listening
          /\ e \in requested' <=> e \in requested
          /\ e \in signalled' <=> e \in signalled
    BY <1>t DEF Typed, ReasonTyped, LauncherDies, signalVars
  <2>2. /\ path' # path => /\ Busy(d) /\ path' \in {Nobody, d}
                           /\ path \in {Nobody, d} \/ path \notin listening
        /\ pidfile' # pidfile => Busy(d) /\ pidfile' \in {Nobody, d} /\ path \in {Nobody, d}
    BY <1>t DEF SocketInv, Busy, Owning, Serving, Over, LauncherDies, signalVars
  <2>3. d \in listening' => d \in listening \/ Busy(d)
    BY DEF Busy, Serving, Over, LauncherDies, signalVars
  <2>4. Busy(d)' => Busy(d) \/ \A e \in Daemons \ {d} : ~Busy(e)
    BY <1>t DEF Typed, StartInv, Busy, Serving, Over, LauncherDies, signalVars
  <2> QED
    BY <2>1, <2>2, <2>3, <2>4 DEF DaemonFrame
<1>5. SocketInv(d)'
  BY <1>t DEF Typed, SocketInv, Owning, Open, Late, Serving, LauncherDies, signalVars
<1>6. PidInv(d)'
  BY <1>t DEF Typed, SocketInv, PidInv, Noted, Owning, Serving, LauncherDies, signalVars
<1>7. StartInv(d)'
  BY <1>t DEF Typed, ReasonTyped, StartInv, SocketInv, Owning, LauncherDies, signalVars
<1> QED
  BY <1>1, <1>2, <1>3, <1>4, <1>5, <1>6, <1>7, StepKeeps

-----------------------------------------------------------------------------
(* The theorems. *)

LEMMA InitHolds ==
  ASSUME Init PROVE LifeInv
<1>1. Typed /\ ReasonTyped
  BY DEF Init, Typed, ReasonTyped, Over
<1>2. OneBusy
  BY DEF Init, OneBusy, Busy, Over
<1>3. BacklogInv
  BY DEF Init, BacklogInv
<1>4. ASSUME NEW d \in Daemons PROVE SocketInv(d) /\ PidInv(d) /\ StartInv(d)
  BY DaemonLifecycleAssumption
     DEF Init, SocketInv, PidInv, StartInv, Owning, Open, Late, Noted, Serving
<1> QED
  BY <1>1, <1>2, <1>3, <1>4 DEF LifeInv

LEMMA StutterKeeps ==
  ASSUME LifeInv, UNCHANGED vars PROVE LifeInv'
<1>1. Typed' /\ ReasonTyped'
  BY DEF LifeInv, Typed, ReasonTyped, vars
<1>2. OneBusy' /\ BacklogInv'
  BY DEF LifeInv, OneBusy, Busy, BacklogInv, vars
<1>3. ASSUME NEW d \in Daemons PROVE SocketInv(d)' /\ PidInv(d)' /\ StartInv(d)'
  <2>1. SocketInv(d) /\ PidInv(d) /\ StartInv(d)
    BY DEF LifeInv
  <2> QED
    BY <2>1 DEF SocketInv, PidInv, StartInv, vars
<1> QED
  BY <1>1, <1>2, <1>3 DEF LifeInv

LEMMA InvariantHolds ==
  ASSUME Serial = TRUE
  PROVE  Spec => []LifeInv
<1>1. Init => LifeInv
  BY InitHolds
<1>2. LifeInv /\ [Next]_vars => LifeInv'
  <2> SUFFICES ASSUME LifeInv, [Next]_vars PROVE LifeInv'
    OBVIOUS
  <2>1. ASSUME NEW d \in Daemons, DaemonStep(d) PROVE LifeInv'
    BY <2>1, DaemonizeKeeps, CheckKeeps, ProbeSocketKeeps, RemoveStaleKeeps,
       BindKeeps, ListenKeeps, SetPermissionsKeeps, WritePidKeeps, ReadyKeeps, InstallKeeps,
       LoopKeeps, PollKeeps, AcceptKeeps, CloseListenerKeeps, RestoreHandlersKeeps,
       CleanupSocketKeeps, CleanupPidKeeps, ExitKeeps DEF DaemonStep
  <2>2. ASSUME NEW d \in Daemons,
               Start(d) \/ Launched(d) \/ PollFails(d) \/ Signal(d) \/ Kill(d) \/ LauncherDies(d)
        PROVE  LifeInv'
    BY <2>2, StartKeeps, LaunchedKeeps, PollFailsKeeps, SignalKeeps, KillKeeps, LauncherDiesKeeps
  <2>3. ASSUME NEW c \in Clients, Connect(c) PROVE LifeInv'
    BY <2>3, ConnectKeeps
  <2>4. CASE UNCHANGED vars
    BY <2>4, StutterKeeps
  <2> QED
    BY <2>1, <2>2, <2>3, <2>4 DEF Next
<1> QED
  BY <1>1, <1>2, PTL DEF Spec

(* A daemon that serves (serve_connections) is the one at the socket path and
   listens there, and the process that launched it (wait_for_readiness) reports
   success only for one that is reachable and has its pid file, whatever crashes
   came before, as long as starts and shutdowns do not overlap. *)
THEOREM SocketIsSound ==
  ASSUME Serial = TRUE
  PROVE  Spec => []SocketSound
<1>1. LifeInv => SocketSound
  <2> SUFFICES ASSUME LifeInv PROVE SocketSound
    OBVIOUS
  <2>1. TypeOK
    BY DEF LifeInv, Typed, BacklogInv, TypeOK
  <2>2. LiveSocketKept
    BY DEF LifeInv, SocketInv, LiveSocketKept, Owning, Open
  <2>3. ASSUME NEW d \in Daemons, launcher[d] = "ok", st[d] \in {"install"} \union Serving
        PROVE  path = d /\ d \in listening /\ pidfile = d
    <3>1. SocketInv(d) /\ PidInv(d) /\ StartInv(d)
      BY DEF LifeInv
    <3>2. st[d] \in Owning /\ st[d] \in Open /\ st[d] \in Noted
      BY <2>3 DEF Owning, Open, Noted
    <3> QED
      BY <2>3, <3>1, <3>2 DEF SocketInv, PidInv, StartInv
  <2> QED
    BY <2>1, <2>2, <2>3 DEF SocketSound, LauncherHonest
<1> QED
  BY <1>1, InvariantHolds, PTL

(* A daemon that was shut down leaves neither its socket nor its pid file
   (RuntimeCleanup), and a start fails only because another daemon is live, the
   path is not a socket, its launcher is gone, or daemonize or the pid file
   failed: a socket that a killed daemon left stops nobody (prepare_socket_path). *)
THEOREM RestartIsSound ==
  ASSUME Serial = TRUE
  PROVE  Spec => []RestartSound
<1>1. LifeInv => RestartSound
  BY DEF LifeInv, SocketInv, PidInv, StartInv, RestartSound, FailureHasReason, CleanExit
<1> QED
  BY <1>1, InvariantHolds, PTL
==============================================================================

------------------------------- MODULE Client -------------------------------
(***************************************************************************)
(* One call of the command line client, from its words to its exit status, *)
(* with the daemon that may serve it: crates/evix-cli/src/main.rs, and the *)
(* request handlers of crates/evix-daemon/src/lib.rs.  CommandLine turns   *)
(* the words into a plan; this module carries the plan out.                *)
(*                                                                         *)
(* A request is carried out by the daemon, which streams response lines    *)
(* over a socket, or in the client itself.  What is streamed comes from a  *)
(* session (module Session), a warm graph or a recording: here a numbered  *)
(* sequence of items that may break off with an error.  The daemon can be  *)
(* stopped at any point, also in the middle of a line; the reader of       *)
(* standard output can leave, and writing to it can fail.                  *)
(*                                                                         *)
(* A definition Name_Fault is the definition Name with one plausible       *)
(* mistake; it is used by no behaviour.                                    *)
(***************************************************************************)
EXTENDS CommandLine

CONSTANTS
    Items,      \* bound on the items of a stream
    Capacity,   \* lines the socket holds before a write blocks
    Faults      \* the daemon and standard output may go away

Requests == [cmd : {"eval", "replay", "watch", "query", "diff"}, use_daemon : BOOLEAN]

ASSUME ClientAssumption ==
    /\ None \notin Requests
    /\ Items \in Nat \ {0} /\ Capacity \in Nat \ {0} /\ Faults \in BOOLEAN

VARIABLES
    request,   \* a member of Requests: what is left of the plan, once it is made
    path,      \* the socket path: "live", "stale" or "none"
    pc,        \* where the client is
    code,      \* its exit: "ok" or "failed"
    ends,      \* the ends of the connection that are open
    unread,    \* the request is in the daemon's receive buffer
    chan,      \* response lines on their way to the client
    handler,   \* where the daemon's handler is
    stream,    \* "unopened", "live", "ended" or, with its daemon, "lost"
    made,      \* items and errors the stream has yielded
    printed,   \* lines on standard output
    stdout,    \* "open", "closed" or "failing"
    evaluated  \* where Nix code was evaluated for this request

vars == <<argVars, request, path, pc, code, ends, unread, chan, handler, stream, made, printed, stdout, evaluated>>
clientVars == <<pc, code, printed>>
streamVars == <<stream, made, evaluated>>

(* Response lines: an item of the stream, Done, an error, or the beginning of
   a line. *)
Item(n) == <<"Item", n>>
Done == <<"Done", 0>>
Failure == <<"Error", 0>>
Cut == <<"cut", 0>>

Init ==
    /\ CommandLineInit
    /\ request = None
    /\ path = "none"
    /\ pc = "parse" /\ code = "none"
    /\ ends = {} /\ unread = FALSE /\ chan = <<>> /\ handler = "none"
    /\ stream = "unopened" /\ made = <<>> /\ printed = <<>>
    /\ stdout = "open" /\ evaluated = {}

-----------------------------------------------------------------------------
(* The client.                                                               *)

(* Leaving closes the client's end of the connection. *)
Exit(c) == pc' = "exited" /\ code' = c /\ ends' = ends \ {"client"}
Goto(l) == pc' = l /\ UNCHANGED <<code, ends>>

(* parse_plan: the steps of CommandLine. *)
Parse ==
    /\ pc = "parse"
    /\ CommandLineNext
    /\ UNCHANGED <<request, path, pc, code, ends, unread, chan, handler, stream, made, printed, stdout,
                   evaluated>>

(* The command line is not looked at again. *)
Forget ==
    at' = "over" /\ command' = None /\ env' = None /\ meant' = <<>> /\ words' = <<>> /\ plan' = None

(* main: what is refused ends with an error. *)
Refuse ==
    /\ pc = "parse" /\ at = "refused"
    /\ Exit("failed") /\ Forget
    /\ UNCHANGED <<request, path, unread, chan, handler, streamVars, printed, stdout>>

(* run_plan takes the plan apart.  Of the words and the configuration nothing
   is told apart from here on; a daemon or a worker is another module's.  What
   is at the socket path matters from here on. *)
Begin ==
    /\ pc = "parse" /\ at = "planned"
    /\ LET p == plan
       IN /\ request' = IF p.command \in {"daemon", "worker"} THEN None
                        ELSE [cmd |-> IF p.command = "eval" /\ p.replay THEN "replay" ELSE p.command,
                              use_daemon |-> p.command \in {"query", "diff"} \/ p.use_daemon]
          /\ pc' = IF p.command \in {"daemon", "worker"} THEN "server" ELSE "prepare"
    /\ Forget
    /\ path' \in {"live", "stale", "none"}
    /\ UNCHANGED <<code, ends, unread, chan, handler, streamVars, printed, stdout>>

(* run_plan up to connecting: the paths in a request are made absolute for
   the daemon, which fails when they do not exist. *)
Prepare ==
    /\ pc = "prepare"
    /\ \/ request.use_daemon /\ Goto("connect")
       \/ request.use_daemon /\ Exit("failed")
       \/ ~request.use_daemon /\ Goto("local")
    /\ UNCHANGED <<argVars, request, path, unread, chan, handler, streamVars, printed, stdout>>

(* eval and watch can do without a daemon; only a missing socket lets them. *)
MayFallBack == request.cmd \in {"eval", "watch"}

run_client_or_local ==
    \/ path = "live" /\ pc' = "write" /\ code' = code /\ ends' = {"client", "daemon"}
    \/ path = "none" /\ Goto("local")
    \/ path = "stale" /\ Exit("failed")

run_daemon_only_Fault ==
    \/ path = "live" /\ pc' = "write" /\ code' = code /\ ends' = {"client", "daemon"}
    \/ path = "none" /\ Goto("local")
    \/ path = "stale" /\ Exit("failed")

run_daemon_only ==
    \/ path = "live" /\ pc' = "write" /\ code' = code /\ ends' = {"client", "daemon"}
    \/ path # "live" /\ Exit("failed")

Connect ==
    /\ pc = "connect"
    /\ IF MayFallBack THEN run_client_or_local ELSE run_daemon_only
    /\ UNCHANGED <<argVars, request, path, unread, chan, handler, streamVars, printed, stdout>>

(* The start of run_daemon_request; a closed peer gives EPIPE. *)
WriteRequest ==
    /\ pc = "write"
    /\ \/ "daemon" \in ends /\ Goto("read") /\ unread' = TRUE
       \/ "daemon" \notin ends /\ Exit("failed") /\ UNCHANGED unread
    /\ UNCHANGED <<argVars, request, path, chan, handler, streamVars, printed, stdout>>

(* write_output_line: a reader that left is no error. *)
write_output_line(item, l) ==
    \/ stdout = "open" /\ printed' = Append(printed, item) /\ Goto(l)
    \/ stdout = "closed" /\ printed' = printed /\ Exit("ok")
    \/ stdout = "failing" /\ printed' = printed /\ Exit("failed")

(* One line of the response. *)
ReadItem ==
    /\ pc = "read" /\ chan # <<>> /\ Head(chan)[1] = "Item"
    /\ write_output_line(Head(chan), "read")
    /\ chan' = Tail(chan)
    /\ UNCHANGED <<argVars, request, path, unread, handler, streamVars, stdout>>

(* Done ends the loop; an error, and a line that is cut short, end the
   client. *)
ReadLast ==
    /\ pc = "read" /\ chan # <<>> /\ Head(chan)[1] # "Item"
    /\ \/ Head(chan) = Done /\ Exit("ok")
       \/ Head(chan) \in {Failure, Cut} /\ Exit("failed")
    /\ chan' = Tail(chan)
    /\ UNCHANGED <<argVars, request, path, unread, handler, streamVars, printed, stdout>>

ReadEof_FaultNoDone ==
    /\ pc = "read" /\ chan = <<>> /\ "daemon" \notin ends
    /\ Exit(IF unread THEN "failed" ELSE "ok")
    /\ UNCHANGED <<argVars, request, path, unread, chan, handler, streamVars, printed, stdout>>

ReadEof_FaultRetry ==
    /\ pc = "read" /\ chan = <<>> /\ "daemon" \notin ends
    /\ Goto(IF MayFallBack THEN "local" ELSE "read")
    /\ UNCHANGED <<argVars, request, path, unread, chan, handler, streamVars, printed, stdout>>

(* The end of the lines without Done.  A daemon that left the request unread
   resets the connection, which is a read error. *)
ReadEof ==
    /\ pc = "read" /\ chan = <<>> /\ "daemon" \notin ends
    /\ Exit(IF request.cmd # "watch" \/ unread THEN "failed" ELSE "ok")
    /\ UNCHANGED <<argVars, request, path, unread, chan, handler, streamVars, printed, stdout>>

-----------------------------------------------------------------------------
(* What a request streams.                                                   *)

(* A stream that evaluates as it goes can break off, one that is read from
   memory cannot. *)
Evaluating == request.cmd \in {"eval", "watch", "diff"}
CanFail == request.cmd \in {"eval", "watch"}

YieldItem ==
    /\ stream = "live" /\ Len(made) < (IF request.cmd = "diff" THEN 1 ELSE Items)
    /\ made' = Append(made, Item(Len(made) + 1))
    /\ UNCHANGED stream

(* A failed evaluation ends an eval, and a watch that it was the first
   evaluation of; a watch whose re-evaluation fails goes on. *)
YieldError ==
    /\ stream = "live" /\ CanFail /\ Len(made) < Items
    /\ made' = Append(made, Failure)
    /\ \/ stream' = "ended"
       \/ request.cmd = "watch" /\ stream' = "live"

(* Everything was yielded: the one item of a diff; a watch ends when its
   session is cancelled. *)
YieldEnd ==
    /\ stream = "live" /\ (request.cmd = "diff" => made # <<>>)
    /\ stream' = "ended" /\ UNCHANGED made

Opened(where) ==
    /\ stream' = "live"
    /\ evaluated' = IF Evaluating THEN evaluated \union {where} ELSE evaluated
    /\ UNCHANGED made

-----------------------------------------------------------------------------
(* The evaluation in the client: run_local_eval and run_local_watch.         *)

LocalOpen ==
    /\ pc = "local" /\ stream = "unopened"
    /\ \/ Opened("client") /\ Goto("local")
       \/ Exit("failed") /\ UNCHANGED streamVars
    /\ UNCHANGED <<argVars, request, path, unread, chan, handler, printed, stdout>>

LocalItem ==
    /\ pc = "local"
    /\ YieldItem
    /\ write_output_line(Last(made'), "local")
    /\ UNCHANGED <<argVars, request, path, unread, chan, handler, stdout, evaluated>>

LocalError ==
    /\ pc = "local"
    /\ YieldError
    /\ Exit("failed") /\ Forget
    /\ UNCHANGED <<request, path, unread, chan, handler, printed, stdout, evaluated>>

LocalEnd ==
    /\ pc = "local"
    /\ YieldEnd
    /\ Exit("ok")
    /\ UNCHANGED <<argVars, request, path, unread, chan, handler, printed, stdout, evaluated>>

-----------------------------------------------------------------------------
(* The daemon's handler.                                                     *)

(* The handler is over, and its end of the connection closed. *)
Close == handler' = "over" /\ ends' = ends \ {"daemon"}
Room == Len(chan) < Capacity
Gone == "client" \notin ends

(* write_response: blocks while the socket is full, fails once the client is
   gone; the error then ends the handler. *)
Write(line, h) ==
    \/ ~Gone /\ Room /\ chan' = Append(chan, line) /\ handler' = h
    \/ Gone /\ chan' = chan /\ handler' = "failed"

(* The accept loop: over the limit of connections the answer is an error and
   the request stays unread.  A peer that cannot be authorized gets none. *)
Accept ==
    /\ "daemon" \in ends /\ handler = "none"
    /\ \/ handler' = "request" /\ UNCHANGED <<ends, chan>>
       \/ chan' = (IF Gone THEN chan ELSE Append(chan, Failure)) /\ Close
       \/ Close /\ UNCHANGED chan
    /\ UNCHANGED <<argVars, request, path, clientVars, unread, streamVars, stdout>>

(* handle_connection reads the request: an empty one of a client that left
   is dropped, one of another protocol version refused. *)
ReadRequest ==
    /\ handler = "request"
    /\ \/ unread /\ unread' = FALSE /\ handler' \in {"open", "failed"} /\ UNCHANGED ends
       \/ ~unread /\ Gone /\ Close /\ UNCHANGED unread
    /\ UNCHANGED <<argVars, request, path, clientVars, chan, streamVars, stdout>>

(* The session is opened, or the warm one found; diff evaluates before it
   answers. *)
HandlerOpen ==
    /\ handler = "open"
    /\ \/ Opened("daemon") /\ handler' = "stream"
       \/ handler' = "failed" /\ UNCHANGED streamVars
    /\ UNCHANGED <<argVars, request, path, clientVars, ends, unread, chan, stdout>>

HandlerItem ==
    /\ handler = "stream"
    /\ YieldItem
    /\ Write(Last(made'), "stream")
    /\ UNCHANGED <<argVars, request, path, clientVars, ends, unread, stdout, evaluated>>

HandlerError ==
    /\ handler = "stream"
    /\ YieldError
    /\ Write(Failure, "stream")
    /\ UNCHANGED <<argVars, request, path, clientVars, ends, unread, stdout, evaluated>>

HandlerEnd ==
    /\ handler = "stream"
    /\ \/ YieldEnd
       \/ stream = "ended" /\ UNCHANGED <<stream, made>>
    /\ handler' = "settle"
    /\ UNCHANGED <<argVars, request, path, clientVars, ends, unread, chan, stdout, evaluated>>

(* settle_replay, and Done, which a watch is not given.  The recording is
   settled before Done is written. *)
HandlerSettle ==
    /\ handler = "settle"
    /\ \/ request.cmd # "watch" /\ Write(Done, "close")
       \/ request.cmd = "watch" /\ handler' = "close" /\ UNCHANGED chan
       \/ request.cmd \in {"eval", "diff"} /\ handler' = "failed" /\ UNCHANGED chan
    /\ UNCHANGED <<argVars, request, path, clientVars, ends, unread, streamVars, stdout>>

(* The end of handle_connection.  An error is written if that is possible. *)
HandlerClose ==
    /\ handler \in {"close", "failed"}
    /\ \/ handler = "failed" /\ ~Gone /\ Room /\ chan' = Append(chan, Failure)
       \/ (handler = "close" \/ Gone) /\ UNCHANGED chan
    /\ Close
    /\ UNCHANGED <<argVars, request, path, clientVars, unread, streamVars, stdout>>

-----------------------------------------------------------------------------
(* The environment.                                                          *)

(* The daemon's process ends, by a signal or on request: a handler that was
   writing leaves a cut line.  A daemon that was asked to stop removes its
   socket. *)
DaemonStops ==
    /\ Faults /\ path = "live" /\ pc \notin {"parse", "server"}
    /\ path' \in {"none", "stale"}
    /\ ends' = ends \ {"daemon"}
    /\ handler' = IF "daemon" \in ends THEN "over" ELSE handler
    /\ stream' = IF handler = "stream" /\ stream = "live" THEN "lost" ELSE stream
    /\ \/ UNCHANGED chan
       \/ handler \in {"stream", "settle", "failed"} /\ ~Gone /\ chan' = Append(chan, Cut)
    /\ UNCHANGED <<argVars, request, clientVars, unread, made, stdout, evaluated>>

DaemonStarts ==
    /\ Faults /\ path # "live" /\ pc \in {"parse", "server", "prepare", "connect"}
    /\ path' = "live"
    /\ UNCHANGED <<argVars, request, clientVars, ends, unread, chan, handler, streamVars, stdout>>

StdoutGoes ==
    /\ Faults /\ stdout = "open" /\ pc \notin {"parse", "server", "exited"}
    /\ stdout' \in {"closed", "failing"}
    /\ UNCHANGED <<argVars, request, path, clientVars, ends, unread, chan, handler, streamVars>>

ClientStep == Begin \/ Refuse \/ Prepare \/ Connect \/ WriteRequest \/ ReadItem \/ ReadLast \/ ReadEof
LocalStep == LocalOpen \/ LocalItem \/ LocalError \/ LocalEnd
HandlerStep ==
    \/ Accept \/ ReadRequest \/ HandlerOpen \/ HandlerItem \/ HandlerError \/ HandlerEnd
    \/ HandlerSettle \/ HandlerClose

Next == Parse \/ ClientStep \/ LocalStep \/ HandlerStep \/ DaemonStops \/ DaemonStarts \/ StdoutGoes

Spec == Init /\ [][Next]_vars

(* Both processes run, evaluations come to an end and so does a bounded
   stream; nothing obliges the files of a watch to change. *)
Fairness == WF_vars(ClientStep) /\ WF_vars(LocalStep) /\ WF_vars(HandlerStep)
FairSpec == Spec /\ Fairness

-----------------------------------------------------------------------------
(* Properties.                                                               *)

Responses == {Item(n) : n \in 1..Items}

(* Types of the state; the socket never holds more than its capacity and the
   line a stopping daemon was writing (write_response blocks). *)
TypeOK ==
    /\ request \in {None} \union Requests
    /\ path \in {"live", "stale", "none"}
    /\ pc \in {"parse", "server", "prepare", "connect", "write", "read", "local", "exited"} /\ code \in {"none", "ok", "failed"}
    /\ ends \subseteq {"client", "daemon"} /\ unread \in BOOLEAN
    /\ Len(chan) <= Capacity + (IF Cut \in Range(chan) THEN 1 ELSE 0)
    /\ Range(chan) \subseteq Responses \union {Done, Failure, Cut}
    /\ handler \in {"none", "request", "open", "stream", "settle", "close", "failed", "over"}
    /\ stream \in {"unopened", "live", "ended", "lost"}
    /\ Range(made) \subseteq Responses \union {Failure} /\ Range(printed) \subseteq Responses
    /\ stdout \in {"open", "closed", "failing"} /\ evaluated \subseteq {"client", "daemon"}

(* Exit status 0 of anything but a watch means the whole result was printed
   (run_daemon_request's saw_done, run_local_eval's `event?`), whatever
   became of the daemon and in whatever order, unless the reader of the
   output left first: the stream came to its own end, none of it failed and
   all of it is on standard output. *)
SuccessIsWhole ==
    code = "ok" /\ request.cmd # "watch" /\ stdout # "closed" =>
        stream = "ended" /\ Failure \notin Range(made) /\ printed = made

(* What is printed is always a beginning of what the stream yielded: no line
   is dropped when the socket is full, none appears after an error
   (write_response, run_daemon_request). *)
PrintedIsPrefix == IsPrefix(printed, made)

(* A request is evaluated in one place: the fallback of eval and watch is
   taken before anything was sent, and never after a daemon has begun
   (run_client_or_local).  replay and query evaluate nothing, and diff only in the
   daemon (run_daemon_only). *)
EvaluatedOnce ==
    /\ Cardinality(evaluated) <= 1
    /\ request # None /\ request.cmd \in {"replay", "query"} => evaluated = {}
    /\ request # None /\ ~MayFallBack => pc # "local" /\ "client" \notin evaluated

(* Every request but a watch comes to an end for both: the client exits and
   the daemon's handler releases its connection, also when one of them goes
   away while the other is blocked on the socket (write_response,
   run_daemon_request). *)
RequestEnds ==
    pc = "prepare" /\ request.cmd # "watch" ~> pc = "exited" /\ "daemon" \notin ends

(* The output: types and socket capacity, what is printed is a beginning of
   what was yielded, and exit status 0 means all of it. *)
OutputSound == TypeOK /\ PrintedIsPrefix /\ SuccessIsWhole
=============================================================================

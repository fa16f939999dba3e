--------------------------- MODULE DaemonSessions ---------------------------
(***************************************************************************)
(* The daemon's connections and its cache of warm sessions:                *)
(* crates/evix-daemon/src/{lib,session_cache,connection_limit}.rs.         *)
(*                                                                         *)
(* Every accepted connection is a thread that handles one request.  The    *)
(* registry lock is taken for one lookup or update at a time, so requests  *)
(* interleave between those, at every await and at every write to the      *)
(* client.  A session is the evaluation behind it: it streams a number of  *)
(* events to the handler that opened it, over a bounded channel, and       *)
(* becomes completed (before that handler has drained the channel) or      *)
(* failed.                                                                 *)
(*                                                                         *)
(* A definition Name_Fault is the definition Name with one plausible       *)
(* mistake; it is used by no behaviour.                                    *)
(***************************************************************************)
EXTENDS Integers, Sequences, FiniteSets, Functions

CONSTANTS
    Clients,          \* connections
    Keys,             \* session keys: the daemon-relevant part of a Config
    MAX_CONNECTIONS,  \* ConnectionLimiter.max
    MAX_SESSIONS,     \* SessionRegistry.max
    EventCount,       \* events of one evaluation
    Capacity,         \* capacity of the stream between session and handler
    Ops               \* requests the clients make

ASSUME DaemonAssumption ==
    /\ MAX_CONNECTIONS \in Nat \ {0}
    /\ MAX_SESSIONS \in Nat \ {0}
    /\ EventCount \in Nat
    /\ Capacity \in Nat \ {0}
    /\ Ops \subseteq {"eval", "replay", "watch", "query", "diff"}
    /\ IsFiniteSet(Clients)

VARIABLES
    cache,     \* SessionRegistry.sessions: key -> [session, replay]
    order,     \* SessionRegistry.order: least recently used key first
    opened,    \* number of sessions opened so far; a session is its number
    phase,     \* each session: "idle", "running", "completed" or "failed"
    sent,      \* each session: events put into its stream
    stream,    \* each session: the stream's channel
    closed,    \* each session: the evaluation task dropped its sender
    dropped,   \* each session: the handler dropped its receiver
    slots,     \* ConnectionLimiter.active
    pc,        \* where each connection is
    request,   \* the request of each connection: [op, key], or NoRequest
    held,      \* the session each handler holds, 0 if none
    recorded,  \* events handle_eval has recorded, NoRecording after an error
    diffed     \* sessions for which a diff response was written

registryVars == <<cache, order>>
sessionVars == <<opened, phase, sent, stream, closed, dropped>>
vars == <<cache, order, opened, phase, sent, stream, closed, dropped, slots, pc, request,
          held, recorded, diffed>>

(* Every connection opens at most one session. *)
Sessions == 1..Cardinality(Clients)

NoRequest == [op |-> "none"]
NoRecording == -1
Recording == [state |-> "Recording"]
Invalidated == [state |-> "Invalidated"]
Ready(s, n) == [state |-> "Ready", from |-> s, events |-> n]

Done == {"closed", "refused"}

Init ==
    /\ cache = <<>>
    /\ order = <<>>
    /\ opened = 0
    /\ phase = [s \in Sessions |-> "idle"]
    /\ sent = [s \in Sessions |-> 0]
    /\ stream = [s \in Sessions |-> <<>>]
    /\ closed = [s \in Sessions |-> FALSE]
    /\ dropped = [s \in Sessions |-> FALSE]
    /\ slots = 0
    /\ pc = [c \in Clients |-> "connecting"]
    /\ request = [c \in Clients |-> NoRequest]
    /\ held = [c \in Clients |-> 0]
    /\ recorded = [c \in Clients |-> 0]
    /\ diffed = {}

------------------------------------------------------------------------------
(* SessionRegistry. *)

(* The position of the first entry for k. *)
position(seq, k) ==
    CHOOSE i \in DOMAIN seq : seq[i] = k /\ \A j \in 1..(i - 1) : seq[j] # k

(* The first entry for the key leaves the order. *)
remove_order_entry(seq, k) ==
    IF k \in Range(seq)
    THEN LET i == position(seq, k)
         IN  SubSeq(seq, 1, i - 1) \o SubSeq(seq, i + 1, Len(seq))
    ELSE seq

Touch(k) == Append(remove_order_entry(order, k), k)

Insert_NoEviction(k, entry) ==
    /\ order' = Append(remove_order_entry(order, k), k)
    /\ cache' = [x \in DOMAIN cache \union {k} |-> IF x = k THEN entry ELSE cache[x]]

(* insert: the key leaves the order first, so at capacity the oldest other *)
(* session goes even when the key only replaces its own entry.             *)
Insert(k, entry) ==
    LET rest == remove_order_entry(order, k)
        excess == Cardinality(DOMAIN cache) - MAX_SESSIONS + 1
        count == IF excess <= 0 THEN 0
                 ELSE IF excess > Len(rest) THEN Len(rest) ELSE excess
        evicted == Range(SubSeq(rest, 1, count))
    IN  /\ order' = Append(SubSeq(rest, count + 1, Len(rest)), k)
        /\ cache' = [x \in (DOMAIN cache \ evicted) \union {k} |->
                       IF x = k THEN entry ELSE cache[x]]

(* get: a miss changes nothing, a hit makes the key the most recent one. *)
Lookup(k) ==
    /\ order' = IF k \in DOMAIN cache THEN Touch(k) ELSE order
    /\ UNCHANGED cache

settle_replay_AnySession(k, s, replay) ==
    /\ order' = IF k \in DOMAIN cache THEN Touch(k) ELSE order
    /\ cache' = IF k \in DOMAIN cache /\ cache[k].replay # Invalidated
                THEN [cache EXCEPT ![k].replay = replay]
                ELSE cache

settle_replay_Overwrites(k, s, replay) ==
    /\ order' = IF k \in DOMAIN cache THEN Touch(k) ELSE order
    /\ cache' = IF k \in DOMAIN cache /\ cache[k].session = s
                THEN [cache EXCEPT ![k].replay = replay]
                ELSE cache

(* settle_replay leaves a replaced session and an invalidated replay alone. *)
settle_replay(k, s, replay) ==
    /\ order' = IF k \in DOMAIN cache THEN Touch(k) ELSE order
    /\ cache' = IF k \in DOMAIN cache /\ cache[k].session = s
                   /\ cache[k].replay # Invalidated
                THEN [cache EXCEPT ![k].replay = replay]
                ELSE cache

------------------------------------------------------------------------------
(* Connections. *)

Key(c) == request[c].key
Goto(c, where) == pc' = [pc EXCEPT ![c] = where]

Close_KeepsReceiver(c) ==
    /\ Goto(c, "closed")
    /\ slots' = slots - 1
    /\ UNCHANGED dropped

(* The handler returns, with or without an error: its thread drops the     *)
(* slot, and a stream it still reads loses its receiver.                   *)
Close(c) ==
    /\ Goto(c, "closed")
    /\ slots' = slots - 1
    /\ dropped' = IF request[c].op = "eval" /\ held[c] # 0
                  THEN [dropped EXCEPT ![held[c]] = TRUE]
                  ELSE dropped

acquire_Late(c) ==
    /\ pc[c] = "connecting"
    /\ IF slots > MAX_CONNECTIONS
       THEN Goto(c, "refused") /\ UNCHANGED <<slots, request>>
       ELSE /\ Goto(c, "request")
            /\ slots' = slots + 1
            /\ \E op \in Ops, k \in Keys : request' = [request EXCEPT ![c] = [op |-> op, key |-> k]]
    /\ UNCHANGED <<registryVars, sessionVars, held, recorded, diffed>>

(* The accept loop takes a slot and spawns the handler, or refuses. *)
acquire(c) ==
    /\ pc[c] = "connecting"
    /\ IF slots >= MAX_CONNECTIONS
       THEN Goto(c, "refused") /\ UNCHANGED <<slots, request>>
       ELSE /\ Goto(c, "request")
            /\ slots' = slots + 1
            /\ \E op \in Ops, k \in Keys : request' = [request EXCEPT ![c] = [op |-> op, key |-> k]]
    /\ UNCHANGED <<registryVars, sessionVars, held, recorded, diffed>>

(* An unauthorised peer, an empty or unreadable request, an unknown        *)
(* protocol or a configuration without a session key.                      *)
RejectRequest(c) ==
    /\ pc[c] = "request"
    /\ Close(c)
    /\ UNCHANGED <<registryVars, opened, phase, sent, stream, closed, request, held,
                   recorded, diffed>>

(* replace_session: the new session is cached before it is evaluated.  An  *)
(* eval starts its stream at once, a watch after it settled the replay.    *)
OpenSession(c) ==
    /\ pc[c] = "request"
    /\ request[c].op \in {"eval", "watch"}
    /\ LET s == opened + 1 IN
          /\ opened' = s
          /\ phase' = [phase EXCEPT ![s] = IF request[c].op = "eval" THEN "running" ELSE "idle"]
          /\ held' = [held EXCEPT ![c] = s]
          /\ Insert(Key(c), [session |-> s, replay |-> Recording])
    /\ Goto(c, request[c].op)
    /\ UNCHANGED <<sent, stream, closed, dropped, slots, request, recorded, diffed>>

(* handle_eval takes the next item of the stream and writes it to the      *)
(* client; an error item ends the recording.                               *)
RelayEvent(c) ==
    /\ pc[c] = "eval"
    /\ stream[held[c]] # <<>>
    /\ stream' = [stream EXCEPT ![held[c]] = Tail(@)]
    /\ recorded' = [recorded EXCEPT ![c] =
                      IF Head(stream[held[c]]) = "error" \/ @ = NoRecording
                      THEN NoRecording ELSE @ + 1]
    /\ UNCHANGED <<registryVars, opened, phase, sent, closed, dropped, slots, pc, request,
                   held, diffed>>

(* The client went away: a write fails and handle_eval returns at once,    *)
(* leaving the replay as it is.                                            *)
WriteFails(c) ==
    /\ \/ pc[c] = "eval" /\ stream[held[c]] # <<>>
       \/ pc[c] = "watching" /\ phase[held[c]] # "running"
       \/ pc[c] = "answer"
    /\ Close(c)
    /\ UNCHANGED <<registryVars, opened, phase, sent, stream, closed, request, held,
                   recorded, diffed>>

(* The stream ended: settle the replay, then answer Done. *)
EndEval(c) ==
    /\ pc[c] = "eval"
    /\ stream[held[c]] = <<>>
    /\ closed[held[c]]
    /\ settle_replay(Key(c), held[c],
                     IF recorded[c] = NoRecording THEN Invalidated
                     ELSE Ready(held[c], recorded[c]))
    /\ Goto(c, "answer")
    /\ UNCHANGED <<sessionVars, slots, request, held, recorded, diffed>>

(* handle_replay: fetch the recorded lines, or fail. *)
FetchReplay(c) ==
    /\ pc[c] = "request"
    /\ request[c].op = "replay"
    /\ Lookup(Key(c))
    /\ IF Key(c) \in DOMAIN cache /\ cache[Key(c)].replay.state = "Ready"
       THEN Goto(c, "answer") /\ UNCHANGED <<slots, dropped>>
       ELSE Close(c)
    /\ UNCHANGED <<opened, phase, sent, stream, closed, request, held, recorded, diffed>>

(* handle_watch invalidates the replay of its own session and starts its   *)
(* evaluation; then it relays diffs until a write fails or the watch ends. *)
InvalidateForWatch(c) ==
    /\ pc[c] = "watch"
    /\ settle_replay(Key(c), held[c], Invalidated)
    /\ phase' = [phase EXCEPT ![held[c]] = "running"]
    /\ Goto(c, "watching")
    /\ UNCHANGED <<opened, sent, stream, closed, dropped, slots, request, held, recorded,
                   diffed>>

EndWatch(c) ==
    /\ pc[c] = "watching"
    /\ phase[held[c]] # "running"
    /\ Close(c)
    /\ UNCHANGED <<registryVars, opened, phase, sent, stream, closed, request, held,
                   recorded, diffed>>

(* warm_session, for query and diff. *)
FindSession(c) ==
    /\ pc[c] = "request"
    /\ request[c].op \in {"query", "diff"}
    /\ Lookup(Key(c))
    /\ IF Key(c) \in DOMAIN cache
       THEN /\ held' = [held EXCEPT ![c] = cache[Key(c)].session]
            /\ Goto(c, request[c].op)
            /\ UNCHANGED <<slots, dropped>>
       ELSE Close(c) /\ UNCHANGED held
    /\ UNCHANGED <<opened, phase, sent, stream, closed, request, recorded, diffed>>

(* require_completed: a session that is evaluating or failed is an error. *)
RequireCompleted(c) ==
    /\ pc[c] \in {"query", "diff"}
    /\ IF phase[held[c]] = "completed"
       THEN /\ Goto(c, IF pc[c] = "query" THEN "answer" ELSE "evaluating")
            /\ UNCHANGED <<slots, dropped>>
       ELSE Close(c)
    /\ UNCHANGED <<registryVars, opened, phase, sent, stream, closed, request, held,
                   recorded, diffed>>

(* diff_once replaces the graph, or fails and leaves everything alone. *)
EvaluateDiff(c) ==
    /\ pc[c] = "evaluating"
    /\ \/ Goto(c, "settle") /\ UNCHANGED <<slots, dropped>>
       \/ Close(c)
    /\ UNCHANGED <<registryVars, opened, phase, sent, stream, closed, request, held,
                   recorded, diffed>>

InvalidateForDiff(c) ==
    /\ pc[c] = "settle"
    /\ settle_replay(Key(c), held[c], Invalidated)
    /\ Goto(c, "answer")
    /\ UNCHANGED <<sessionVars, slots, request, held, recorded, diffed>>

(* The answer is written and the handler ends. *)
Answer(c) ==
    /\ pc[c] = "answer"
    /\ Close(c)
    /\ diffed' = IF request[c].op = "diff" THEN diffed \union {held[c]} ELSE diffed
    /\ UNCHANGED <<registryVars, opened, phase, sent, stream, closed, request, held, recorded>>

------------------------------------------------------------------------------
(* The evaluation task of a session. *)

Streams(s) == \E c \in Clients : held[c] = s /\ request[c].op = "eval"

(* A sender that overfilled the channel waits in its flush, and with it    *)
(* the whole evaluation, until the handler reads or drops the receiver.    *)
Flushed(s) == Len(stream[s]) <= Capacity \/ dropped[s]

(* on_event: a sender of its own for each event always has room for it. *)
EmitEvent(s) ==
    /\ phase[s] = "running"
    /\ Streams(s)
    /\ ~dropped[s]
    /\ sent[s] < EventCount
    /\ Flushed(s)
    /\ sent' = [sent EXCEPT ![s] = @ + 1]
    /\ stream' = [stream EXCEPT ![s] = Append(@, "event")]
    /\ UNCHANGED <<registryVars, opened, phase, closed, dropped, slots, pc, request, held,
                   recorded, diffed>>

(* evaluate_initial: the warm state is completed and the task ends. *)
CompleteSession(s) ==
    /\ phase[s] = "running"
    /\ Streams(s) => sent[s] = EventCount
    /\ Flushed(s)
    /\ phase' = [phase EXCEPT ![s] = "completed"]
    /\ closed' = [closed EXCEPT ![s] = TRUE]
    /\ UNCHANGED <<registryVars, opened, sent, stream, dropped, slots, pc, request, held,
                   recorded, diffed>>

(* The evaluation fails: the error is recorded in the warm state and sent, *)
(* for which the task's own sender always has room.  An event that finds   *)
(* the receiver dropped is such a failure, and so is a cancellation.       *)
FailSession(s) ==
    /\ phase[s] = "running"
    /\ Flushed(s)
    /\ phase' = [phase EXCEPT ![s] = "failed"]
    /\ closed' = [closed EXCEPT ![s] = TRUE]
    /\ stream' = IF Streams(s) /\ ~dropped[s]
                 THEN [stream EXCEPT ![s] = Append(@, "error")]
                 ELSE stream
    /\ UNCHANGED <<registryVars, opened, sent, dropped, slots, pc, request, held, recorded,
                   diffed>>

------------------------------------------------------------------------------
Handler(c) ==
    \/ RejectRequest(c)
    \/ OpenSession(c)
    \/ RelayEvent(c)
    \/ WriteFails(c)
    \/ EndEval(c)
    \/ FetchReplay(c)
    \/ InvalidateForWatch(c)
    \/ EndWatch(c)
    \/ FindSession(c)
    \/ RequireCompleted(c)
    \/ EvaluateDiff(c)
    \/ InvalidateForDiff(c)
    \/ Answer(c)

Evaluation(s) ==
    \/ EmitEvent(s)
    \/ CompleteSession(s)
    \/ FailSession(s)

(* No connection is left: the accept loop waits for the next one. *)
Listening ==
    /\ \A c \in Clients : pc[c] \in Done
    /\ UNCHANGED vars

Next ==
    \/ \E c \in Clients : acquire(c) \/ Handler(c)
    \/ \E s \in Sessions : Evaluation(s)
    \/ Listening

Spec == Init /\ [][Next]_vars

(* What a handler does without its client's or the file system's help. *)
Progress(c) ==
    \/ OpenSession(c)
    \/ RelayEvent(c)
    \/ EndEval(c)
    \/ FetchReplay(c)
    \/ InvalidateForWatch(c)
    \/ FindSession(c)
    \/ RequireCompleted(c)
    \/ EvaluateDiff(c)
    \/ InvalidateForDiff(c)
    \/ Answer(c)

(* Handler threads and evaluation tasks are scheduled; an evaluation ends  *)
(* because every item has a timeout, and a client either reads what it is  *)
(* sent or goes away.  Nothing is assumed about when a watch ends.         *)
FairSpec ==
    /\ Spec
    /\ \A c \in Clients : WF_vars(acquire(c)) /\ WF_vars(Progress(c))
    /\ \A s \in Sessions : WF_vars(Evaluation(s))

------------------------------------------------------------------------------
(* What the daemon guarantees. *)

Replays == [state : {"Recording", "Invalidated"}]
           \union [state : {"Ready"}, from : Sessions, events : 0..EventCount]

Pcs == {"connecting", "request", "eval", "watch", "watching", "query", "diff", "evaluating",
        "settle", "answer"} \union Done

TypeOK ==
    /\ DOMAIN cache \subseteq Keys
    /\ \A k \in DOMAIN cache : cache[k] \in [session : Sessions, replay : Replays]
    /\ order \in Seq(Keys)
    /\ opened \in 0..Cardinality(Clients)
    /\ phase \in [Sessions -> {"idle", "running", "completed", "failed"}]
    /\ sent \in [Sessions -> 0..EventCount]
    /\ stream \in [Sessions -> Seq({"event", "error"})]
    /\ \A s \in Sessions : Len(stream[s]) <= Capacity + 1
    /\ closed \in [Sessions -> BOOLEAN]
    /\ dropped \in [Sessions -> BOOLEAN]
    /\ slots \in Nat
    /\ pc \in [Clients -> Pcs]
    /\ request \in [Clients -> [op : Ops, key : Keys] \union {NoRequest}]
    /\ held \in [Clients -> {0} \union Sessions]
    /\ recorded \in [Clients -> (0..EventCount) \union {NoRecording}]
    /\ diffed \subseteq Sessions

(* The recency order lists exactly the cached keys, each once, and the     *)
(* cache stays within its capacity whatever lookups, settlements and       *)
(* replacements interleave.                                                *)
RegistryConsistent ==
    /\ Range(order) = DOMAIN cache
    /\ Len(order) = Cardinality(DOMAIN cache)
    /\ Len(order) <= MAX_SESSIONS

(* The limiter counts exactly the connections being handled: no path out   *)
(* of a handler leaks or returns a slot twice, and the limit holds.        *)
SlotsCounted ==
    /\ slots = Cardinality({c \in Clients : pc[c] \notin Done \union {"connecting"}})
    /\ slots <= MAX_CONNECTIONS

(* What a replay serves is the whole event stream of the session that is   *)
(* cached under the key now, and that session's evaluation completed.      *)
ReplayIsWholeStream ==
    \A k \in DOMAIN cache :
        cache[k].replay.state = "Ready" =>
            /\ cache[k].replay.from = cache[k].session
            /\ cache[k].replay.events = EventCount
            /\ phase[cache[k].session] = "completed"

(* Once a diff of a session has been answered, or its watch has begun, its *)
(* evaluation is not replayed any more, even if the evaluation's own       *)
(* handler settles later: "a `diff` that lands before the eval stream      *)
(* finishes still wins".                                                   *)
DiffWins ==
    \A k \in DOMAIN cache :
        \/ cache[k].session \in diffed
        \/ \E c \in Clients : pc[c] = "watching" /\ held[c] = cache[k].session
        => cache[k].replay = Invalidated

(* Every connection is refused, answered or closed in the end, except that *)
(* a watch goes on: no handler waits for ever on a session's stream.       *)
ConnectionsEnd ==
    \A c \in Clients : <>(pc[c] \in Done \union {"watching"})

(* Every evaluation ends, although it waits for its handler whenever the   *)
(* stream is full: a handler that goes away releases it.                   *)
EvaluationsEnd ==
    \A s \in Sessions : phase[s] = "running" ~> phase[s] \in {"completed", "failed"}

(* The registry of session_cache.rs: types, and map and recency order in   *)
(* step within the capacity.                                               *)
RegistrySound == TypeOK /\ RegistryConsistent

(* Back-pressure wedges neither a handler nor the evaluation it drains.    *)
NothingWedges == ConnectionsEnd /\ EvaluationsEnd
==============================================================================

----------------------------- MODULE DaemonProofs -----------------------------
(***************************************************************************)
(* Theorems about the daemon's connections and its session cache, for any  *)
(* number of connections, keys, cached sessions and events.                *)
(***************************************************************************)
EXTENDS DaemonSessions, FiniteSetTheorems, TLAPS

------------------------------------------------------------------------------
(* The inductive invariant. *)

(* What the position of a handler says about its request and session. *)
HandlerInv(c) ==
    /\ pc[c] \notin {"connecting", "refused"} => request[c] \in [op : Ops, key : Keys]
    /\ pc[c] \in {"connecting", "refused", "request"} => held[c] = 0 /\ recorded[c] = 0
    /\ pc[c] = "eval" => request[c].op = "eval" /\ held[c] # 0
    /\ pc[c] \in {"watch", "watching"} => request[c].op = "watch" /\ held[c] # 0
    /\ pc[c] \in {"query", "diff"} => request[c].op = pc[c] /\ held[c] # 0
    /\ pc[c] \in {"evaluating", "settle"} => request[c].op = "diff" /\ held[c] # 0
    /\ pc[c] = "answer" /\ request[c].op = "diff" => held[c] # 0
    /\ held[c] <= opened

(* Every session was opened by one handler, so there are never more        *)
(* sessions than connections.                                              *)
Opener(c) == request[c].op \in {"eval", "watch"} /\ held[c] # 0

OpenersInv ==
    /\ opened = Cardinality({c \in Clients : Opener(c)})
    /\ \A c, d \in Clients : Opener(c) /\ Opener(d) /\ held[c] = held[d] => c = d

(* A session is cached under the key of its request and under no other. *)
CachedInv ==
    /\ \A k \in DOMAIN cache : cache[k].session <= opened
    /\ \A k, l \in DOMAIN cache : cache[k].session = cache[l].session => k = l
    /\ \A k \in DOMAIN cache, c \in Clients :
          held[c] # 0 /\ cache[k].session = held[c] => request[c].key = k
    /\ \A s \in diffed : s <= opened

SessionInv(s) ==
    /\ s > opened => phase[s] = "idle"
    /\ s > opened => sent[s] = 0 /\ stream[s] = <<>>
    /\ s > opened => closed[s] = FALSE /\ dropped[s] = FALSE
    /\ closed[s] = TRUE <=> phase[s] \in {"completed", "failed"}

(* What a handler has recorded and what is still in the stream make up     *)
(* what the evaluation sent; an error is the last item.                    *)
RelayInv(c, s) ==
    /\ dropped[s] = FALSE
    /\ phase[s] # "idle"
    /\ phase[s] \in {"running", "completed"} =>
          /\ \A i \in DOMAIN stream[s] : stream[s][i] = "event"
          /\ recorded[c] # NoRecording /\ recorded[c] + Len(stream[s]) = sent[s]
    /\ phase[s] = "completed" => sent[s] = EventCount
    /\ phase[s] = "failed" =>
          \/ stream[s] = <<>> /\ recorded[c] = NoRecording
          \/ /\ stream[s] # <<>> /\ recorded[c] # NoRecording
             /\ \A i \in DOMAIN stream[s] : stream[s][i] = "error" <=> i = Len(stream[s])
             /\ recorded[c] + Len(stream[s]) - 1 = sent[s]

StreamInv ==
    \A c \in Clients : /\ pc[c] = "eval" => RelayInv(c, held[c])
                       /\ pc[c] = "watch" => phase[held[c]] = "idle"

(* The recency order lists each cached key once. *)
RegistryInv ==
    /\ order \in Seq(Keys)
    /\ \A i, j \in DOMAIN order : order[i] = order[j] => i = j
    /\ Range(order) = DOMAIN cache
    /\ Len(order) <= MAX_SESSIONS

(* A session whose replay may not be served any more. *)
Overtaken(s) ==
    \/ s \in diffed
    \/ \E c \in Clients : /\ held[c] = s
                          /\ pc[c] = "watching" \/ (pc[c] = "answer" /\ request[c].op = "diff")

OvertakenInv ==
    \A k \in DOMAIN cache : Overtaken(cache[k].session) => cache[k].replay = Invalidated

CoreInv ==
    /\ TypeOK
    /\ \A c \in Clients : HandlerInv(c)
    /\ \A s \in Sessions : SessionInv(s)
    /\ OpenersInv
    /\ CachedInv
    /\ StreamInv
    /\ RegistryInv
    /\ SlotsCounted

DaemonInv == CoreInv /\ ReplayIsWholeStream /\ OvertakenInv

------------------------------------------------------------------------------
(* The recency order. *)

Distinct(seq) == \A i, j \in DOMAIN seq : seq[i] = seq[j] => i = j

LEMMA Concatenation ==
  ASSUME NEW S, NEW s \in Seq(S), NEW t \in Seq(S)
  PROVE  /\ s \o t \in Seq(S) /\ Len(s \o t) = Len(s) + Len(t)
         /\ DOMAIN (s \o t) = 1..(Len(s) + Len(t))
         /\ \A i \in 1..Len(s) : (s \o t)[i] = s[i]
         /\ \A i \in (Len(s) + 1)..(Len(s) + Len(t)) : (s \o t)[i] = t[i - Len(s)]
OBVIOUS

(* Removing the first entry for a key removes the key. *)
LEMMA RemoveEntry ==
  ASSUME NEW S, NEW seq \in Seq(S), Distinct(seq), NEW k
  PROVE  /\ remove_order_entry(seq, k) \in Seq(S)
         /\ Distinct(remove_order_entry(seq, k))
         /\ Range(remove_order_entry(seq, k)) = Range(seq) \ {k}
         /\ Len(remove_order_entry(seq, k))
              = IF k \in Range(seq) THEN Len(seq) - 1 ELSE Len(seq)
<1>1. CASE k \notin Range(seq)
  BY <1>1 DEF remove_order_entry
<1>2. CASE k \in Range(seq)
  <2> DEFINE r == remove_order_entry(seq, k)
  <2>n. PICK n \in Nat : n = Len(seq) /\ DOMAIN seq = 1..n
    OBVIOUS
  <2>1. PICK i \in DOMAIN seq : seq[i] = k
    BY <1>2 DEF Range
  <2>2. position(seq, k) = i
    <3>1. \A j \in 1..(i - 1) : seq[j] # k
      <4> SUFFICES ASSUME NEW j \in 1..(i - 1), seq[j] = k PROVE FALSE
        OBVIOUS
      <4>1. j \in DOMAIN seq /\ j # i
        BY <2>n
      <4> QED BY <2>1, <4>1 DEF Distinct
    <3>2. position(seq, k) \in DOMAIN seq /\ seq[position(seq, k)] = k
      BY <2>1, <3>1 DEF position
    <3> QED BY <2>1, <3>2 DEF Distinct
  <2>3. r = SubSeq(seq, 1, i - 1) \o SubSeq(seq, i + 1, n)
    BY <1>2, <2>2, <2>n DEF remove_order_entry
  <2>4. /\ SubSeq(seq, 1, i - 1) \in Seq(S) /\ Len(SubSeq(seq, 1, i - 1)) = i - 1
        /\ \A j \in 1..(i - 1) : SubSeq(seq, 1, i - 1)[j] = seq[j]
    BY <2>n
  <2>5. /\ SubSeq(seq, i + 1, n) \in Seq(S) /\ Len(SubSeq(seq, i + 1, n)) = n - i
        /\ \A j \in 1..(n - i) : SubSeq(seq, i + 1, n)[j] = seq[j + i]
    BY <2>n
  <2> HIDE DEF r
  <2>6. /\ r \in Seq(S) /\ Len(r) = n - 1 /\ DOMAIN r = 1..(n - 1)
        /\ \A j \in 1..(n - 1) : r[j] = IF j < i THEN seq[j] ELSE seq[j + 1]
    <3>a. PICK a \in Seq(S) : a = SubSeq(seq, 1, i - 1)
      BY <2>4
    <3>b. PICK b \in Seq(S) : b = SubSeq(seq, i + 1, n)
      BY <2>5
    <3>c. r = a \o b
      BY <2>3, <3>a, <3>b
    <3>d. Len(a) = i - 1 /\ Len(b) = n - i
      BY <2>4, <2>5, <3>a, <3>b
    <3>e. /\ r \in Seq(S) /\ Len(r) = Len(a) + Len(b) /\ DOMAIN r = 1..(Len(a) + Len(b))
          /\ \A j \in 1..Len(a) : r[j] = a[j]
          /\ \A j \in (Len(a) + 1)..(Len(a) + Len(b)) : r[j] = b[j - Len(a)]
      BY <3>c, Concatenation
    <3>f. i \in Int /\ Len(a) + 1 = i /\ Len(a) + Len(b) = n - 1
      BY <2>n, <3>d
    <3>1. /\ r \in Seq(S) /\ Len(r) = n - 1 /\ DOMAIN r = 1..(n - 1)
          /\ \A j \in 1..(i - 1) : r[j] = a[j]
          /\ \A j \in i..(n - 1) : r[j] = b[j - (i - 1)]
      BY <3>d, <3>e, <3>f
    <3>2. ASSUME NEW j \in 1..(n - 1) PROVE r[j] = IF j < i THEN seq[j] ELSE seq[j + 1]
      <4>1. CASE j < i
        <5>1. j \in 1..(i - 1)
          BY <4>1, <2>n
        <5> QED BY <2>4, <3>1, <3>a, <4>1, <5>1
      <4>2. CASE ~(j < i)
        <5>1. j \in i..(n - 1) /\ j - (i - 1) \in 1..(n - i) /\ (j - (i - 1)) + i = j + 1
          BY <4>2, <2>n
        <5> QED BY <2>5, <3>1, <3>b, <4>2, <5>1
      <4> QED BY <4>1, <4>2
    <3> QED BY <3>1, <3>2
  <2>7. Distinct(r)
    <3> SUFFICES ASSUME NEW a \in 1..(n - 1), NEW b \in 1..(n - 1), r[a] = r[b] PROVE a = b
      BY <2>6 DEF Distinct
    <3> DEFINE up(x) == IF x < i THEN x ELSE x + 1
    <3>1. up(a) \in DOMAIN seq /\ up(b) \in DOMAIN seq /\ seq[up(a)] = seq[up(b)]
      BY <2>6, <2>n
    <3>2. up(a) = up(b)
      BY <3>1 DEF Distinct
    <3> QED BY <3>2, <2>n
  <2>8. Range(r) = Range(seq) \ {k}
    <3>1. ASSUME NEW j \in DOMAIN r PROVE r[j] \in Range(seq) /\ r[j] # k
      <4> DEFINE up == IF j < i THEN j ELSE j + 1
      <4>1. up \in DOMAIN seq /\ r[j] = seq[up] /\ up # i
        BY <2>6, <2>n
      <4> HIDE DEF up
      <4> QED BY <2>1, <4>1 DEF Range, Distinct
    <3>2. ASSUME NEW j \in DOMAIN seq, seq[j] # k PROVE seq[j] \in Range(r)
      <4> DEFINE down == IF j < i THEN j ELSE j - 1
      <4>1. j # i
        BY <2>1, <3>2
      <4>2. down \in DOMAIN r /\ r[down] = seq[j]
        BY <2>6, <2>n, <4>1
      <4> HIDE DEF down
      <4> QED BY <4>2 DEF Range
    <3> QED BY <3>1, <3>2 DEF Range
  <2> QED BY <1>2, <2>6, <2>7, <2>8, <2>n DEF r
<1> QED BY <1>1, <1>2

LEMMA AppendEntry ==
  ASSUME NEW S, NEW seq \in Seq(S), Distinct(seq), NEW k \in S, k \notin Range(seq)
  PROVE  /\ Append(seq, k) \in Seq(S)
         /\ Distinct(Append(seq, k))
         /\ Range(Append(seq, k)) = Range(seq) \union {k}
         /\ Len(Append(seq, k)) = Len(seq) + 1
<1>n. PICK n \in Nat : n = Len(seq) /\ DOMAIN seq = 1..n
  OBVIOUS
<1>1. /\ Append(seq, k) \in Seq(S) /\ Len(Append(seq, k)) = n + 1
      /\ DOMAIN Append(seq, k) = 1..(n + 1)
      /\ \A i \in 1..n : Append(seq, k)[i] = seq[i]
      /\ Append(seq, k)[n + 1] = k
  BY <1>n
<1>2. \A i \in 1..(n + 1) : i \in 1..n \/ i = n + 1
  OBVIOUS
<1>3. \A i \in 1..n : seq[i] # k /\ seq[i] \in Range(seq)
  BY <1>n DEF Range
<1>4. Distinct(Append(seq, k))
  BY <1>n, <1>1, <1>2, <1>3 DEF Distinct
<1>5. Range(Append(seq, k)) = Range(seq) \union {k}
  BY <1>n, <1>1, <1>2 DEF Range
<1> QED BY <1>1, <1>4, <1>5, <1>n

(* Dropping the oldest entries drops exactly their keys. *)
LEMMA DropEntries ==
  ASSUME NEW S, NEW seq \in Seq(S), Distinct(seq), NEW m \in 0..Len(seq)
  PROVE  /\ SubSeq(seq, m + 1, Len(seq)) \in Seq(S)
         /\ Distinct(SubSeq(seq, m + 1, Len(seq)))
         /\ Range(SubSeq(seq, m + 1, Len(seq))) = Range(seq) \ Range(SubSeq(seq, 1, m))
         /\ Len(SubSeq(seq, m + 1, Len(seq))) = Len(seq) - m
<1> DEFINE tail == SubSeq(seq, m + 1, Len(seq))
           first == SubSeq(seq, 1, m)
<1>n. PICK n \in Nat : n = Len(seq) /\ DOMAIN seq = 1..n
  OBVIOUS
<1>1. /\ tail \in Seq(S) /\ Len(tail) = n - m /\ DOMAIN tail = 1..(n - m)
      /\ \A i \in 1..(n - m) : tail[i] = seq[i + m]
  BY <1>n
<1>2. /\ DOMAIN first = 1..m
      /\ \A i \in 1..m : first[i] = seq[i]
  BY <1>n
<1> HIDE DEF tail, first
<1>3. Distinct(tail)
  <2> SUFFICES ASSUME NEW a \in 1..(n - m), NEW b \in 1..(n - m), tail[a] = tail[b] PROVE a = b
    BY <1>1 DEF Distinct
  <2>1. a + m \in DOMAIN seq /\ b + m \in DOMAIN seq /\ seq[a + m] = seq[b + m]
    BY <1>1, <1>n
  <2>2. a + m = b + m
    BY <2>1 DEF Distinct
  <2> QED BY <2>2
<1>4. Range(tail) = Range(seq) \ Range(first)
  <2>1. ASSUME NEW a \in 1..(n - m) PROVE tail[a] \in Range(seq) /\ tail[a] \notin Range(first)
    <3>1. a + m \in DOMAIN seq /\ tail[a] = seq[a + m]
      BY <1>1, <1>n
    <3>2. ASSUME NEW b \in 1..m, first[b] = tail[a] PROVE FALSE
      <4>1. b \in DOMAIN seq /\ seq[b] = seq[a + m] /\ b # a + m
        BY <1>2, <1>n, <3>1, <3>2
      <4> QED BY <3>1, <4>1 DEF Distinct
    <3> QED BY <1>2, <3>1, <3>2 DEF Range
  <2>2. ASSUME NEW j \in DOMAIN seq, seq[j] \notin Range(first) PROVE seq[j] \in Range(tail)
    <3>1. ~(j \in 1..m)
      BY <1>2, <2>2 DEF Range
    <3>2. j - m \in 1..(n - m) /\ tail[j - m] = seq[j]
      BY <1>1, <1>n, <3>1
    <3> QED BY <1>1, <3>2 DEF Range
  <2> QED BY <1>1, <2>1, <2>2 DEF Range
<1> QED BY <1>1, <1>3, <1>4, <1>n DEF tail, first
(* A sequence without repetition is as long as its range is large. *)
LEMMA CountEntries ==
  ASSUME NEW S, NEW seq \in Seq(S), Distinct(seq)
  PROVE  IsFiniteSet(Range(seq)) /\ Cardinality(Range(seq)) = Len(seq)
<1>n. PICK n \in Nat : n = Len(seq) /\ DOMAIN seq = 1..n
  OBVIOUS
<1>1. seq \in [1..n -> Range(seq)]
  BY <1>n DEF Range
<1>2. seq \in Surjection(1..n, Range(seq))
  BY <1>1, <1>n DEF Surjection, Range
<1>3. seq \in Injection(1..n, Range(seq))
  BY <1>1, <1>n DEF Injection, IsInjective, Distinct
<1>4. IsFiniteSet(1..n) /\ Cardinality(1..n) = n
  BY FS_Interval
<1> QED BY <1>2, <1>3, <1>4, <1>n, FS_Surjection

LEMMA TouchKeepsRegistry ==
  ASSUME RegistryInv, DOMAIN cache \subseteq Keys, NEW k \in DOMAIN cache,
         order' = Touch(k), DOMAIN cache' = DOMAIN cache
  PROVE  RegistryInv'
<1>1. /\ order \in Seq(Keys) /\ Distinct(order) /\ k \in Keys /\ k \in Range(order)
      /\ Range(order) = DOMAIN cache
  BY DEF RegistryInv, Distinct
<1> DEFINE rest == remove_order_entry(order, k)
<1>2. /\ rest \in Seq(Keys) /\ Distinct(rest) /\ Range(rest) = Range(order) \ {k}
      /\ Len(rest) = Len(order) - 1
  BY <1>1, RemoveEntry
<1>3. order' = Append(rest, k)
  BY DEF Touch
<1> HIDE DEF rest
<1>4. /\ order' \in Seq(Keys) /\ Distinct(order') /\ Range(order') = Range(rest) \union {k}
      /\ Len(order') = Len(rest) + 1
  BY <1>1, <1>2, <1>3, AppendEntry
<1>5. Range(order') = DOMAIN cache'
  BY <1>1, <1>2, <1>4
<1>6. Len(order') <= MAX_SESSIONS
  <2>1. Len(order) \in Nat /\ Len(order) <= MAX_SESSIONS
    BY <1>1 DEF RegistryInv
  <2> QED BY <1>2, <1>4, <2>1
<1> QED BY <1>4, <1>5, <1>6 DEF RegistryInv, Distinct

(* insert evicts no more than it must and leaves the other entries alone. *)
LEMMA InsertKeepsRegistry ==
  ASSUME RegistryInv, NEW k \in Keys, NEW entry, Insert(k, entry)
  PROVE  /\ RegistryInv'
         /\ k \in DOMAIN cache' /\ cache'[k] = entry
         /\ \A x \in DOMAIN cache' : x # k => x \in DOMAIN cache /\ cache'[x] = cache[x]
<1> DEFINE rest == remove_order_entry(order, k)
           excess == Cardinality(DOMAIN cache) - MAX_SESSIONS + 1
           count == IF excess <= 0 THEN 0
                    ELSE IF excess > Len(rest) THEN Len(rest) ELSE excess
           kept == SubSeq(rest, count + 1, Len(rest))
           evicted == Range(SubSeq(rest, 1, count))
<1>1. /\ order' = Append(kept, k)
      /\ cache' = [x \in (DOMAIN cache \ evicted) \union {k} |-> IF x = k THEN entry ELSE cache[x]]
  BY DEF Insert
<1>2. /\ order \in Seq(Keys) /\ Distinct(order) /\ Range(order) = DOMAIN cache
      /\ Len(order) \in Nat /\ Len(order) <= MAX_SESSIONS /\ MAX_SESSIONS \in Nat \ {0}
  BY DaemonAssumption DEF RegistryInv, Distinct
<1>3. Cardinality(DOMAIN cache) = Len(order)
  BY <1>2, CountEntries
<1>4. /\ rest \in Seq(Keys) /\ Distinct(rest) /\ Range(rest) = DOMAIN cache \ {k}
      /\ Len(rest) = IF k \in DOMAIN cache THEN Len(order) - 1 ELSE Len(order)
      /\ Len(rest) \in Nat
  BY <1>2, RemoveEntry
<1> HIDE DEF rest
<1>5. count \in 0..Len(rest) /\ Len(rest) - count + 1 <= MAX_SESSIONS
  BY <1>2, <1>3, <1>4
<1> HIDE DEF count
<1>6. /\ kept \in Seq(Keys) /\ Distinct(kept) /\ Range(kept) = Range(rest) \ evicted
      /\ Len(kept) = Len(rest) - count
  <2>1. \A m \in 0..Len(rest) :
          /\ SubSeq(rest, m + 1, Len(rest)) \in Seq(Keys)
          /\ Distinct(SubSeq(rest, m + 1, Len(rest)))
          /\ Range(SubSeq(rest, m + 1, Len(rest))) = Range(rest) \ Range(SubSeq(rest, 1, m))
          /\ Len(SubSeq(rest, m + 1, Len(rest))) = Len(rest) - m
    BY <1>4, DropEntries, Zenon
  <2> QED BY <1>5, <2>1, Zenon
<1>7. k \notin evicted
  <2>1. \A i \in 1..count : SubSeq(rest, 1, count)[i] = rest[i] /\ i \in DOMAIN rest
    BY <1>4, <1>5
  <2>2. DOMAIN SubSeq(rest, 1, count) = 1..count
    BY <1>4, <1>5
  <2>3. evicted \subseteq Range(rest)
    BY <2>1, <2>2 DEF Range
  <2> QED BY <1>4, <2>3
<1> HIDE DEF kept, evicted
<1>8. k \notin Range(kept)
  BY <1>4, <1>6
<1>9. /\ order' \in Seq(Keys) /\ Distinct(order') /\ Range(order') = Range(kept) \union {k}
      /\ Len(order') = Len(kept) + 1
  BY <1>1, <1>6, <1>8, AppendEntry
<1>10. Range(order') = DOMAIN cache'
  BY <1>1, <1>4, <1>6, <1>9
<1>11. Len(order') <= MAX_SESSIONS
  BY <1>5, <1>6, <1>9
<1>12. RegistryInv'
  BY <1>9, <1>10, <1>11 DEF RegistryInv, Distinct
<1>13. /\ k \in DOMAIN cache' /\ cache'[k] = entry
       /\ \A x \in DOMAIN cache' : x # k => x \in DOMAIN cache /\ cache'[x] = cache[x]
  BY <1>1
<1> QED BY <1>12, <1>13

LEMMA LookupKeepsRegistry ==
  ASSUME RegistryInv, DOMAIN cache \subseteq Keys, NEW k, Lookup(k)
  PROVE  RegistryInv' /\ cache' = cache
<1>1. CASE k \in DOMAIN cache
  BY <1>1, TouchKeepsRegistry DEF Lookup
<1>2. CASE k \notin DOMAIN cache
  BY <1>2 DEF Lookup, RegistryInv
<1> QED BY <1>1, <1>2

(* settle_replay changes at most the replay of one entry. *)
LEMMA SettleKeepsRegistry ==
  ASSUME TypeOK, RegistryInv, NEW k, NEW s, NEW replay \in Replays, settle_replay(k, s, replay)
  PROVE  /\ RegistryInv'
         /\ DOMAIN cache' = DOMAIN cache
         /\ \A x \in DOMAIN cache :
               /\ cache'[x] \in [session : Sessions, replay : Replays]
               /\ cache'[x].session = cache[x].session
               /\ cache[x].replay = Invalidated => cache'[x].replay = Invalidated
               /\ \/ cache'[x].replay = cache[x].replay
                  \/ x = k /\ cache[x].session = s /\ cache'[x].replay = replay
               /\ x = k /\ cache[x].session = s /\ cache[x].replay # Invalidated
                     => cache'[x].replay = replay
<1>t. /\ DOMAIN cache \subseteq Keys
      /\ \A x \in DOMAIN cache : cache[x] \in [session : Sessions, replay : Replays]
  BY DEF TypeOK
<1>1. CASE k \in DOMAIN cache /\ cache[k].session = s /\ cache[k].replay # Invalidated
  <2>1. cache' = [cache EXCEPT ![k].replay = replay]
    BY <1>1 DEF settle_replay
  <2>2. DOMAIN cache' = DOMAIN cache
    BY <2>1
  <2>3. \A x \in DOMAIN cache : x # k => cache'[x] = cache[x]
    BY <2>1
  <2>4. cache'[k] = [cache[k] EXCEPT !.replay = replay]
    BY <1>1, <2>1
  <2>5. /\ cache'[k] \in [session : Sessions, replay : Replays]
        /\ cache'[k].session = cache[k].session /\ cache'[k].replay = replay
    BY <1>1, <1>t, <2>4
  <2>6. RegistryInv'
    BY <1>1, <1>t, <2>2, TouchKeepsRegistry DEF settle_replay
  <2> QED BY <1>1, <1>t, <2>2, <2>3, <2>5, <2>6
<1>2. CASE ~(k \in DOMAIN cache /\ cache[k].session = s /\ cache[k].replay # Invalidated)
  <2>1. cache' = cache
    BY <1>2 DEF settle_replay
  <2>2. RegistryInv'
    <3>1. CASE k \in DOMAIN cache
      BY <1>t, <2>1, <3>1, TouchKeepsRegistry DEF settle_replay
    <3>2. CASE k \notin DOMAIN cache
      BY <2>1, <3>2 DEF settle_replay, RegistryInv
    <3> QED BY <3>1, <3>2
  <2> QED BY <1>2, <1>t, <2>1, <2>2
<1> QED BY <1>1, <1>2
------------------------------------------------------------------------------
(* Connection slots. *)

Busy == {c \in Clients : pc[c] \notin Done \union {"connecting"}}

(* What a step of a connection does to the slots. *)
LEMMA ConnectionMoves ==
  ASSUME TypeOK, NEW c \in Clients, acquire(c) \/ Handler(c)
  PROVE  /\ \A d \in Clients \ {c} : pc'[d] = pc[d]
         /\ \/ c \notin Busy /\ pc'[c] \in Done /\ slots' = slots
            \/ c \notin Busy /\ pc'[c] = "request" /\ slots' = slots + 1 /\ slots < MAX_CONNECTIONS
            \/ c \in Busy /\ pc'[c] = "closed" /\ slots' = slots - 1
            \/ c \in Busy /\ pc'[c] \notin Done \union {"connecting"} /\ slots' = slots
<1>t. pc \in [Clients -> Pcs] /\ slots \in Nat
  BY DEF TypeOK
<1>m. MAX_CONNECTIONS \in Nat
  BY DaemonAssumption
<1>1. CASE acquire(c)
  BY <1>t, <1>m, <1>1 DEF acquire, Goto, Busy, Done
<1>2. CASE RejectRequest(c) \/ WriteFails(c) \/ EndWatch(c) \/ Answer(c)
  BY <1>t, <1>2 DEF RejectRequest, WriteFails, EndWatch, Answer, Close, Goto, Busy, Done
<1>3. CASE OpenSession(c) \/ EndEval(c) \/ InvalidateForWatch(c) \/ InvalidateForDiff(c)
  BY <1>t, <1>3 DEF OpenSession, EndEval, InvalidateForWatch, InvalidateForDiff, Goto, Busy, Done
<1>4. CASE RelayEvent(c)
  BY <1>t, <1>4 DEF RelayEvent, Busy, Done
<1>5. CASE FetchReplay(c) \/ FindSession(c) \/ RequireCompleted(c) \/ EvaluateDiff(c)
  BY <1>t, <1>5 DEF FetchReplay, FindSession, RequireCompleted, EvaluateDiff, Close, Goto, Busy, Done
<1> QED BY <1>1, <1>2, <1>3, <1>4, <1>5 DEF Handler

LEMMA ConnectionKeepsSlots ==
  ASSUME TypeOK, SlotsCounted, NEW c \in Clients, acquire(c) \/ Handler(c)
  PROVE  SlotsCounted' /\ slots' \in Nat
<1>b. Busy \subseteq Clients /\ IsFiniteSet(Busy) /\ slots = Cardinality(Busy)
      /\ slots <= MAX_CONNECTIONS /\ MAX_CONNECTIONS \in Nat
  <2>1. Busy \subseteq Clients
    BY DEF Busy
  <2>2. IsFiniteSet(Busy)
    BY <2>1, FS_Subset, DaemonAssumption
  <2> QED BY <2>1, <2>2, DaemonAssumption DEF Busy, SlotsCounted
<1>n. slots \in Nat
  BY <1>b, FS_CardinalityType
<1> SUFFICES slots' = Cardinality(Busy') /\ slots' <= MAX_CONNECTIONS /\ slots' \in Nat
  BY DEF SlotsCounted, Busy
<1>f. \A d \in Clients \ {c} : pc'[d] = pc[d]
  BY ConnectionMoves
<1>1. CASE c \notin Busy /\ pc'[c] \in Done /\ slots' = slots
  <2>1. Busy' = Busy
    BY <1>f, <1>1 DEF Busy, Done
  <2> QED BY <1>1, <1>b, <1>n, <2>1
<1>2. CASE c \notin Busy /\ pc'[c] = "request" /\ slots' = slots + 1 /\ slots < MAX_CONNECTIONS
  <2>1. Busy' = Busy \union {c}
    BY <1>f, <1>2 DEF Busy, Done
  <2>2. Cardinality(Busy') = Cardinality(Busy) + 1
    BY <1>2, <1>b, <2>1, FS_AddElement
  <2> QED BY <1>2, <1>b, <1>n, <2>2
<1>3. CASE c \in Busy /\ pc'[c] = "closed" /\ slots' = slots - 1
  <2>1. Busy' = Busy \ {c}
    BY <1>f, <1>3 DEF Busy, Done
  <2>2. Cardinality(Busy') = Cardinality(Busy) - 1 /\ IsFiniteSet(Busy')
    BY <1>3, <1>b, <2>1, FS_RemoveElement
  <2>3. Cardinality(Busy') \in Nat
    BY <2>2, FS_CardinalityType
  <2> QED BY <1>3, <1>b, <1>n, <2>2, <2>3
<1>4. CASE c \in Busy /\ pc'[c] \notin Done \union {"connecting"} /\ slots' = slots
  <2>1. Busy' = Busy
    BY <1>f, <1>4 DEF Busy, Done
  <2> QED BY <1>4, <1>b, <1>n, <2>1
<1> QED BY <1>1, <1>2, <1>3, <1>4, ConnectionMoves
------------------------------------------------------------------------------
(* Handlers, sessions and streams. *)

LEMMA SessionsAreNumbers ==
  Cardinality(Clients) \in Nat /\ Sessions \subseteq Nat \ {0}
  /\ \A s \in Nat \ {0} : s \in Sessions <=> s <= Cardinality(Clients)
BY DaemonAssumption, FS_CardinalityType DEF Sessions

(* A handler moves on with the session it has: its replay may be settled,  *)
(* its slot freed and its receiver dropped.                                *)
LEMMA MoveKeepsCore ==
  ASSUME CoreInv, NEW c \in Clients,
         UNCHANGED <<opened, phase, sent, stream, closed, request, held, recorded>>,
         DOMAIN cache' = DOMAIN cache,
         \A k \in DOMAIN cache : /\ cache'[k] \in [session : Sessions, replay : Replays]
                                 /\ cache'[k].session = cache[k].session,
         RegistryInv', SlotsCounted', slots' \in Nat,
         NEW where \in Pcs \ {"eval", "watch"}, pc' = [pc EXCEPT ![c] = where],
         HandlerInv(c)',
         \/ dropped' = dropped
         \/ /\ request[c].op = "eval" /\ held[c] # 0 /\ where = "closed"
            /\ dropped' = [dropped EXCEPT ![held[c]] = TRUE],
         diffed' = diffed \/ (held[c] # 0 /\ diffed' = diffed \union {held[c]})
  PROVE  CoreInv'
<1>t. TypeOK /\ (\A d \in Clients : HandlerInv(d)) /\ (\A s \in Sessions : SessionInv(s))
      /\ OpenersInv /\ CachedInv /\ StreamInv
  BY DEF CoreInv
<1>p. pc'[c] = where /\ \A d \in Clients : d # c => pc'[d] = pc[d]
  BY <1>t DEF TypeOK
<1>h. held[c] \in {0} \union Sessions /\ held[c] <= opened
  BY <1>t DEF TypeOK, HandlerInv
<1>1. TypeOK'
  <2>1. dropped' \in [Sessions -> BOOLEAN] /\ diffed' \subseteq Sessions
    BY <1>t, <1>h DEF TypeOK
  <2>2. pc' \in [Clients -> Pcs]
    BY <1>t DEF TypeOK
  <2>3. order' \in Seq(Keys)
    BY DEF RegistryInv
  <2> QED BY <1>t, <2>1, <2>2, <2>3 DEF TypeOK
<1>2. \A d \in Clients : HandlerInv(d)'
  BY <1>t, <1>p DEF HandlerInv
<1>3. ASSUME NEW s \in Sessions PROVE SessionInv(s)'
  <2>1. s > opened => dropped'[s] = FALSE
    <3>1. s > opened => s # held[c]
      BY <1>h, <1>t, SessionsAreNumbers DEF TypeOK
    <3> QED BY <1>t, <1>h, <3>1 DEF TypeOK, SessionInv
  <2> QED BY <1>t, <2>1 DEF SessionInv
<1>4. OpenersInv'
  BY <1>t DEF OpenersInv, Opener
<1>5. CachedInv'
  BY <1>t, <1>h DEF CachedInv
<1>6. StreamInv'
  <2> SUFFICES ASSUME NEW d \in Clients
               PROVE  /\ pc'[d] = "eval" => RelayInv(d, held[d])'
                      /\ pc'[d] = "watch" => phase'[held[d]] = "idle"
    BY DEF StreamInv
  <2>1. CASE d = c
    BY <1>p, <2>1
  <2>2. CASE d # c
    <3>1. pc'[d] = pc[d]
      BY <1>p, <2>2
    <3>2. pc[d] = "watch" => phase'[held[d]] = "idle"
      BY <1>t DEF StreamInv
    <3>3. ASSUME pc[d] = "eval" PROVE RelayInv(d, held[d])'
      <4>1. RelayInv(d, held[d])
        BY <1>t, <3>3 DEF StreamInv
      <4>2. Opener(d) /\ held[d] \in Sessions
        BY <1>t, <3>3 DEF HandlerInv, Opener, TypeOK
      <4>3. Opener(c) => held[c] # held[d]
        BY <1>t, <2>2, <4>2 DEF OpenersInv
      <4>4. dropped'[held[d]] = dropped[held[d]]
        BY <1>t, <4>2, <4>3 DEF TypeOK, Opener
      <4> QED BY <4>1, <4>4 DEF RelayInv
    <3> QED BY <3>1, <3>2, <3>3
  <2> QED BY <2>1, <2>2
<1> QED BY <1>1, <1>2, <1>3, <1>4, <1>5, <1>6 DEF CoreInv
(* What Close does to the receiver of the handler's stream. *)
LEMMA CloseDrops ==
  ASSUME NEW c \in Clients, Close(c)
  PROVE  /\ pc' = [pc EXCEPT ![c] = "closed"]
         /\ \/ dropped' = dropped
            \/ /\ request[c].op = "eval" /\ held[c] # 0
               /\ dropped' = [dropped EXCEPT ![held[c]] = TRUE]
BY DEF Close, Goto

LEMMA EndEvalReplay ==
  ASSUME CoreInv, NEW c \in Clients, pc[c] = "eval"
  PROVE  /\ held[c] \in Sessions
         /\ (IF recorded[c] = NoRecording THEN Invalidated ELSE Ready(held[c], recorded[c])) \in Replays
<1>1. held[c] \in Sessions /\ recorded[c] \in (0..EventCount) \union {NoRecording}
  BY DEF CoreInv, TypeOK, HandlerInv
<1>2. CASE recorded[c] = NoRecording
  BY <1>1, <1>2 DEF Invalidated, Replays
<1>3. CASE recorded[c] # NoRecording
  BY <1>1, <1>3 DEF Ready, Replays
<1> QED BY <1>1, <1>2, <1>3

LEMMA InvalidatedIsReplay == Invalidated \in Replays
BY DEF Invalidated, Replays

LEMMA MovingHandlersKeepCore ==
  ASSUME CoreInv, NEW c \in Clients,
         \/ RejectRequest(c) \/ WriteFails(c) \/ EndEval(c) \/ FetchReplay(c) \/ EndWatch(c)
         \/ RequireCompleted(c) \/ EvaluateDiff(c) \/ InvalidateForDiff(c) \/ Answer(c)
         \/ (FindSession(c) /\ Key(c) \notin DOMAIN cache)
  PROVE  CoreInv'
<1>t. TypeOK /\ HandlerInv(c) /\ RegistryInv /\ SlotsCounted
  BY DEF CoreInv
<1>p. pc \in [Clients -> Pcs] /\ Done = {"closed", "refused"}
  BY <1>t DEF TypeOK, Done
<1>s. SlotsCounted' /\ slots' \in Nat
  BY <1>t, ConnectionKeepsSlots DEF Handler
<1>u. UNCHANGED <<opened, phase, sent, stream, closed, request, held, recorded>>
  BY DEF RejectRequest, WriteFails, EndEval, FetchReplay, EndWatch, RequireCompleted,
     EvaluateDiff, InvalidateForDiff, Answer, FindSession, sessionVars
<1>c. /\ RegistryInv' /\ DOMAIN cache' = DOMAIN cache
      /\ \A k \in DOMAIN cache : /\ cache'[k] \in [session : Sessions, replay : Replays]
                                 /\ cache'[k].session = cache[k].session
  <2>1. CASE RejectRequest(c) \/ WriteFails(c) \/ EndWatch(c) \/ RequireCompleted(c)
             \/ EvaluateDiff(c) \/ Answer(c)
    <3>1. UNCHANGED <<cache, order>>
      BY <2>1 DEF RejectRequest, WriteFails, EndWatch, RequireCompleted, EvaluateDiff, Answer,
         registryVars
    <3> QED BY <1>t, <3>1 DEF RegistryInv, TypeOK
  <2>2. CASE FetchReplay(c) \/ FindSession(c)
    <3>1. Lookup(Key(c))
      BY <2>2 DEF FetchReplay, FindSession
    <3>2. RegistryInv' /\ cache' = cache
      BY <1>t, <3>1, LookupKeepsRegistry DEF TypeOK
    <3> QED BY <1>t, <3>2 DEF TypeOK
  <2>3. CASE InvalidateForDiff(c)
    BY <1>t, <2>3, SettleKeepsRegistry, InvalidatedIsReplay DEF InvalidateForDiff
  <2>4. CASE EndEval(c)
    <3> DEFINE replay == IF recorded[c] = NoRecording THEN Invalidated ELSE Ready(held[c], recorded[c])
    <3>1. settle_replay(Key(c), held[c], replay) /\ replay \in Replays
      BY <2>4, EndEvalReplay DEF EndEval
    <3> HIDE DEF replay
    <3> QED BY <1>t, <3>1, SettleKeepsRegistry
  <2> QED BY <2>1, <2>2, <2>3, <2>4
<1>d. diffed' = diffed \/ (held[c] # 0 /\ diffed' = diffed \union {held[c]})
  BY <1>t DEF RejectRequest, WriteFails, EndEval, FetchReplay, EndWatch, RequireCompleted,
     EvaluateDiff, InvalidateForDiff, Answer, FindSession, HandlerInv
<1>1. CASE Close(c)
  <2>1. pc[c] \notin {"connecting", "refused"}
    BY <1>t DEF RejectRequest, WriteFails, EndEval, FetchReplay, EndWatch, RequireCompleted,
       EvaluateDiff, InvalidateForDiff, Answer, FindSession
  <2>2. pc'[c] = "closed"
    BY <1>1, <1>p, CloseDrops
  <2>3. HandlerInv(c)'
    BY <1>t, <1>u, <2>1, <2>2 DEF HandlerInv
  <2>4. "closed" \in Pcs \ {"eval", "watch"}
    BY <1>p DEF Pcs
  <2> QED BY <1>1, <1>c, <1>d, <1>s, <1>u, <2>3, <2>4, CloseDrops, MoveKeepsCore
<1>2. CASE ~Close(c)
  <2>1. PICK where \in {"answer", "evaluating", "settle"} :
           /\ pc' = [pc EXCEPT ![c] = where] /\ dropped' = dropped
           /\ where \in {"evaluating", "settle"} => pc[c] \in {"diff", "evaluating"}
           /\ where = "answer" => pc[c] \in {"eval", "request", "query", "settle"}
           /\ pc[c] = "request" => request[c].op = "replay"
    BY <1>2 DEF RejectRequest, WriteFails, EndEval, FetchReplay, EndWatch, RequireCompleted,
       EvaluateDiff, InvalidateForDiff, Answer, FindSession, Goto, sessionVars
  <2>2. pc'[c] = where
    BY <1>p, <2>1
  <2>3. HandlerInv(c)'
    BY <1>t, <1>u, <2>1, <2>2 DEF HandlerInv
  <2>4. where \in Pcs \ {"eval", "watch"}
    BY <2>1 DEF Pcs
  <2> QED BY <1>c, <1>d, <1>s, <1>u, <2>1, <2>3, <2>4, MoveKeepsCore
<1> QED BY <1>1, <1>2

(* The accept loop touches only a connection that has no session yet. *)
LEMMA AcquireKeepsCore ==
  ASSUME CoreInv, NEW c \in Clients, acquire(c)
  PROVE  CoreInv'
<1>t. TypeOK /\ (\A d \in Clients : HandlerInv(d)) /\ (\A s \in Sessions : SessionInv(s))
      /\ OpenersInv /\ CachedInv /\ StreamInv /\ RegistryInv /\ SlotsCounted
  BY DEF CoreInv
<1>s. SlotsCounted' /\ slots' \in Nat
  BY <1>t, ConnectionKeepsSlots
<1>u. UNCHANGED <<cache, order, opened, phase, sent, stream, closed, dropped, held, recorded, diffed>>
  BY DEF acquire, registryVars, sessionVars
<1>h. held[c] = 0 /\ recorded[c] = 0 /\ held[c] <= opened
  BY <1>t DEF acquire, HandlerInv
<1>p. /\ \A d \in Clients \ {c} : pc'[d] = pc[d] /\ request'[d] = request[d]
      /\ pc' \in [Clients -> Pcs] /\ request' \in [Clients -> [op : Ops, key : Keys] \union {NoRequest}]
      /\ \/ pc'[c] = "refused"
         \/ pc'[c] = "request" /\ request'[c] \in [op : Ops, key : Keys]
  <2>1. pc \in [Clients -> Pcs] /\ request \in [Clients -> [op : Ops, key : Keys] \union {NoRequest}]
        /\ "refused" \in Pcs /\ "request" \in Pcs
    BY <1>t DEF TypeOK, Pcs, Done
  <2>2. CASE pc' = [pc EXCEPT ![c] = "refused"] /\ request' = request
    BY <2>1, <2>2
  <2>3. CASE /\ pc' = [pc EXCEPT ![c] = "request"]
             /\ \E op \in Ops, k \in Keys : request' = [request EXCEPT ![c] = [op |-> op, key |-> k]]
    <3>1. PICK r \in [op : Ops, key : Keys] : request' = [request EXCEPT ![c] = r]
      BY <2>3
    <3> QED BY <2>1, <2>3, <3>1
  <2> QED BY <2>2, <2>3 DEF acquire, Goto
<1>1. TypeOK'
  BY <1>t, <1>s, <1>u, <1>p DEF TypeOK
<1>2. ASSUME NEW d \in Clients PROVE HandlerInv(d)'
  <2>1. CASE d = c
    BY <1>h, <1>p, <1>u, <2>1 DEF HandlerInv
  <2>2. CASE d # c
    BY <1>t, <1>p, <1>u, <2>2 DEF HandlerInv
  <2> QED BY <2>1, <2>2
<1>3. \A s \in Sessions : SessionInv(s)'
  BY <1>t, <1>u DEF SessionInv
<1>4. OpenersInv'
  <2>1. \A d \in Clients : Opener(d)' <=> Opener(d)
    BY <1>h, <1>p, <1>u DEF Opener
  <2>2. {d \in Clients : Opener(d)}' = {d \in Clients : Opener(d)}
    BY <2>1
  <2> QED BY <1>t, <1>u, <2>1, <2>2 DEF OpenersInv
<1>5. CachedInv'
  BY <1>t, <1>u, <1>h, <1>p DEF CachedInv
<1>6. StreamInv'
  BY <1>t, <1>u, <1>p DEF StreamInv, RelayInv
<1>7. RegistryInv'
  BY <1>t, <1>u DEF RegistryInv
<1> QED BY <1>1, <1>2, <1>3, <1>4, <1>5, <1>6, <1>7, <1>s DEF CoreInv

(* Not every connection has opened a session when one more opens its own. *)
LEMMA RoomForSession ==
  ASSUME TypeOK, OpenersInv, NEW c \in Clients, ~Opener(c)
  PROVE  /\ opened + 1 \in Sessions
         /\ Cardinality({d \in Clients : Opener(d)} \union {c}) = opened + 1
<1> DEFINE O == {d \in Clients : Opener(d)}
<1>1. O \subseteq Clients /\ O \union {c} \subseteq Clients /\ c \notin O /\ IsFiniteSet(Clients)
  BY DaemonAssumption
<1>2. IsFiniteSet(O)
  BY <1>1, FS_Subset
<1>3. opened = Cardinality(O) /\ opened \in Nat
  BY <1>2, FS_CardinalityType DEF OpenersInv
<1> HIDE DEF O
<1>4. Cardinality(O \union {c}) = opened + 1
  BY <1>1, <1>2, <1>3, FS_AddElement
<1>5. Cardinality(O \union {c}) <= Cardinality(Clients)
  BY <1>1, FS_Subset
<1>6. opened + 1 \in Sessions
  BY <1>3, <1>4, <1>5, SessionsAreNumbers
<1> QED BY <1>4, <1>6 DEF O

(* A new session is cached under its key; nobody else knows it yet. *)
LEMMA OpenSessionKeepsCore ==
  ASSUME CoreInv, NEW c \in Clients, OpenSession(c)
  PROVE  CoreInv'
<1>t. TypeOK /\ (\A d \in Clients : HandlerInv(d)) /\ (\A s \in Sessions : SessionInv(s))
      /\ OpenersInv /\ CachedInv /\ StreamInv /\ RegistryInv /\ SlotsCounted
  BY DEF CoreInv
<1>s. SlotsCounted' /\ slots' \in Nat
  BY <1>t, ConnectionKeepsSlots DEF Handler
<1> DEFINE s == opened + 1
<1>u. UNCHANGED <<sent, stream, closed, dropped, slots, request, recorded, diffed>> /\ opened' = s
  BY DEF OpenSession
<1>h. /\ held[c] = 0 /\ recorded[c] = 0 /\ request[c] \in [op : Ops, key : Keys]
      /\ request[c].op \in {"eval", "watch"} /\ Key(c) \in Keys
  BY <1>t DEF OpenSession, HandlerInv, Key
<1>o. ~Opener(c)
  BY <1>h DEF Opener
<1>r. s \in Sessions /\ Cardinality({d \in Clients : Opener(d)} \union {c}) = s
  BY <1>o, <1>t, RoomForSession
<1>n. opened \in Nat /\ s \in Nat /\ s # 0 /\ s > opened /\ Sessions \subseteq Nat \ {0}
      /\ s <= Cardinality(Clients) /\ Cardinality(Clients) \in Nat
  BY <1>r, <1>t, SessionsAreNumbers DEF TypeOK
<1>m. \A q \in {0} \union Sessions : q <= opened => q <= opened' /\ q # s
  BY <1>n, <1>u
<1>i. /\ RegistryInv' /\ Key(c) \in DOMAIN cache'
      /\ cache'[Key(c)] = [session |-> s, replay |-> Recording]
      /\ \A x \in DOMAIN cache' : x # Key(c) => x \in DOMAIN cache /\ cache'[x] = cache[x]
  <2>1. Insert(Key(c), [session |-> s, replay |-> Recording])
    BY DEF OpenSession
  <2> QED BY <1>h, <1>t, <2>1, InsertKeepsRegistry
<1>p. /\ pc' = [pc EXCEPT ![c] = request[c].op]
      /\ phase' = [phase EXCEPT ![s] = IF request[c].op = "eval" THEN "running" ELSE "idle"]
      /\ held' = [held EXCEPT ![c] = s]
  BY DEF OpenSession, Goto
<1> HIDE DEF s
<1>f. /\ pc'[c] = request[c].op /\ held'[c] = s
      /\ \A d \in Clients : d # c => pc'[d] = pc[d] /\ held'[d] = held[d]
      /\ phase'[s] = IF request[c].op = "eval" THEN "running" ELSE "idle"
      /\ \A q \in Sessions : q # s => phase'[q] = phase[q]
  BY <1>t, <1>p, <1>r DEF TypeOK
<1>g. \A d \in Clients : held[d] \in {0} \union Sessions /\ held[d] <= opened /\ held[d] # s
  BY <1>t, <1>n DEF TypeOK, HandlerInv
<1>1. TypeOK'
  <2>1. pc' \in [Clients -> Pcs]
    BY <1>t, <1>p, <1>h DEF TypeOK, Pcs
  <2>2. phase' \in [Sessions -> {"idle", "running", "completed", "failed"}]
    BY <1>t, <1>p, <1>r DEF TypeOK
  <2>3. held' \in [Clients -> {0} \union Sessions]
    BY <1>t, <1>p, <1>r DEF TypeOK
  <2>4. opened' \in 0..Cardinality(Clients)
    BY <1>n, <1>u
  <2>5. DOMAIN cache' \subseteq Keys
    BY <1>t, <1>i, <1>h DEF TypeOK
  <2>6. [session |-> s, replay |-> Recording] \in [session : Sessions, replay : Replays]
    BY <1>r DEF Recording, Replays
  <2>7. \A k \in DOMAIN cache' : cache'[k] \in [session : Sessions, replay : Replays]
    BY <1>t, <1>i, <2>6 DEF TypeOK
  <2>8. order' \in Seq(Keys)
    BY <1>i DEF RegistryInv
  <2> QED BY <1>t, <1>u, <1>s, <2>1, <2>2, <2>3, <2>4, <2>5, <2>7, <2>8 DEF TypeOK
<1>2. ASSUME NEW d \in Clients PROVE HandlerInv(d)'
  <2>1. CASE d = c
    BY <1>h, <1>f, <1>u, <1>n, <2>1 DEF HandlerInv
  <2>2. CASE d # c
    <3>1. HandlerInv(d) /\ held[d] <= opened'
      BY <1>t, <1>g, <1>m
    <3> QED BY <3>1, <1>f, <1>u, <2>2 DEF HandlerInv
  <2> QED BY <2>1, <2>2
<1>3. ASSUME NEW q \in Sessions PROVE SessionInv(q)'
  <2>1. SessionInv(q) /\ closed[q] \in BOOLEAN
    BY <1>t DEF TypeOK
  <2>2. CASE q = s
    <3>1. closed'[q] = FALSE /\ ~(q > opened') /\ phase'[q] \in {"running", "idle"}
      BY <1>f, <1>n, <1>u, <2>1, <2>2 DEF SessionInv
    <3> QED BY <3>1 DEF SessionInv
  <2>3. CASE q # s
    <3>1. q > opened' => q > opened
      BY <1>n, <1>u
    <3> QED BY <1>f, <1>u, <2>1, <2>3, <3>1 DEF SessionInv
  <2> QED BY <2>2, <2>3
<1>4. OpenersInv'
  <2>1. \A d \in Clients : Opener(d)' <=> Opener(d) \/ d = c
    BY <1>h, <1>f, <1>u, <1>n DEF Opener
  <2>2. {d \in Clients : Opener(d)}' = {d \in Clients : Opener(d)} \union {c}
    BY <2>1
  <2>3. opened' = Cardinality({d \in Clients : Opener(d)}')
    BY <1>u, <1>r, <2>2
  <2>4. ASSUME NEW a \in Clients, NEW b \in Clients, Opener(a)', Opener(b)', held'[a] = held'[b]
        PROVE  a = b
    BY <1>t, <1>f, <1>g, <2>1, <2>4 DEF OpenersInv
  <2> QED BY <2>3, <2>4 DEF OpenersInv
<1>5. CachedInv'
  <2>1. \A k \in DOMAIN cache' : \/ k = Key(c) /\ cache'[k].session = s
                                 \/ /\ k # Key(c) /\ k \in DOMAIN cache
                                    /\ cache'[k].session = cache[k].session
                                    /\ cache[k].session <= opened /\ cache[k].session \in Sessions
    BY <1>i, <1>t DEF CachedInv, TypeOK
  <2>2. \A k \in DOMAIN cache' : cache'[k].session <= opened'
    <3>1. s <= opened'
      BY <1>n, <1>u
    <3> QED BY <2>1, <3>1, <1>m
  <2>3. \A k, l \in DOMAIN cache' : cache'[k].session = cache'[l].session => k = l
    BY <2>1, <1>n, <1>t DEF CachedInv
  <2>4. \A k \in DOMAIN cache', d \in Clients :
          held'[d] # 0 /\ cache'[k].session = held'[d] => request'[d].key = k
    <3> SUFFICES ASSUME NEW k \in DOMAIN cache', NEW d \in Clients, held'[d] # 0,
                        cache'[k].session = held'[d]
                 PROVE  request[d].key = k
      BY <1>u
    <3>1. CASE d = c
      BY <3>1, <1>f, <1>n, <2>1 DEF Key
    <3>2. CASE d # c
      BY <3>2, <1>f, <1>g, <2>1, <1>t DEF CachedInv
    <3> QED BY <3>1, <3>2
  <2>5. \A q \in diffed' : q <= opened'
    <3>1. \A q \in diffed : q \in Sessions /\ q <= opened
      BY <1>t DEF CachedInv, TypeOK
    <3> QED BY <3>1, <1>m, <1>u
  <2> QED BY <2>2, <2>3, <2>4, <2>5 DEF CachedInv
<1>6. StreamInv'
  <2> SUFFICES ASSUME NEW d \in Clients
               PROVE  /\ pc'[d] = "eval" => RelayInv(d, held[d])'
                      /\ pc'[d] = "watch" => phase'[held'[d]] = "idle"
    BY DEF StreamInv
  <2>1. CASE d = c
    <3>1. pc'[d] = "watch" => phase'[held'[d]] = "idle"
      BY <2>1, <1>f
    <3>2. ASSUME pc'[d] = "eval" PROVE RelayInv(d, held[d])'
      <4>1. phase'[s] = "running" /\ held'[d] = s
        BY <3>2, <2>1, <1>f
      <4>2. dropped'[s] = FALSE /\ stream'[s] = <<>> /\ sent'[s] = 0 /\ recorded'[d] = 0
        BY <1>t, <1>r, <1>n, <1>u, <1>h, <2>1 DEF SessionInv
      <4> QED BY <4>1, <4>2 DEF RelayInv, NoRecording
    <3> QED BY <3>1, <3>2
  <2>2. CASE d # c
    <3>1. pc'[d] = pc[d] /\ held'[d] = held[d]
      BY <2>2, <1>f
    <3>2. pc[d] \in {"eval", "watch"} => held[d] # 0 /\ phase'[held[d]] = phase[held[d]]
      BY <1>t, <1>f, <1>g DEF HandlerInv
    <3>3. pc'[d] = "watch" => phase'[held'[d]] = "idle"
      BY <3>1, <3>2, <1>t DEF StreamInv
    <3>4. ASSUME pc[d] = "eval" PROVE RelayInv(d, held[d])'
      <4>1. RelayInv(d, held[d])
        BY <1>t, <3>4 DEF StreamInv
      <4> QED BY <4>1, <3>1, <3>2, <3>4, <1>u DEF RelayInv
    <3> QED BY <3>1, <3>3, <3>4
  <2> QED BY <2>1, <2>2
<1> QED BY <1>1, <1>2, <1>3, <1>4, <1>5, <1>6, <1>i, <1>s DEF CoreInv

(* handle_eval takes one item out of its stream. *)
LEMMA RelayEventKeepsCore ==
  ASSUME CoreInv, NEW c \in Clients, RelayEvent(c)
  PROVE  CoreInv'
<1>t. TypeOK /\ (\A d \in Clients : HandlerInv(d)) /\ (\A s \in Sessions : SessionInv(s))
      /\ OpenersInv /\ CachedInv /\ StreamInv /\ RegistryInv /\ SlotsCounted
  BY DEF CoreInv
<1>u. UNCHANGED <<cache, order, opened, phase, sent, closed, dropped, slots, pc, request, held, diffed>>
  BY DEF RelayEvent, registryVars
<1>s. PICK s \in Sessions : s = held[c]
  BY <1>t DEF RelayEvent, HandlerInv, TypeOK
<1>a. /\ pc[c] = "eval" /\ stream[s] # <<>> /\ stream' = [stream EXCEPT ![s] = Tail(stream[s])]
      /\ recorded' = [recorded EXCEPT ![c] =
                        IF Head(stream[s]) = "error" \/ recorded[c] = NoRecording
                        THEN NoRecording ELSE recorded[c] + 1]
  BY <1>s DEF RelayEvent
<1>n. /\ stream[s] \in Seq({"event", "error"}) /\ Len(stream[s]) <= Capacity + 1
      /\ recorded[c] \in (0..EventCount) \union {NoRecording} /\ EventCount \in Nat
      /\ sent[s] \in 0..EventCount /\ Capacity \in Nat
  BY <1>t, DaemonAssumption DEF TypeOK
<1>q. PICK n \in Nat : n = Len(stream[s]) /\ n > 0 /\ DOMAIN stream[s] = 1..n
  BY <1>a, <1>n
<1>e. /\ Tail(stream[s]) \in Seq({"event", "error"}) /\ Len(Tail(stream[s])) = n - 1
      /\ DOMAIN Tail(stream[s]) = 1..(n - 1)
      /\ \A i \in 1..(n - 1) : Tail(stream[s])[i] = stream[s][i + 1]
      /\ Head(stream[s]) = stream[s][1]
  BY <1>a, <1>n, <1>q
<1>f. /\ stream'[s] = Tail(stream[s]) /\ \A q \in Sessions : q # s => stream'[q] = stream[q]
      /\ \A d \in Clients : d # c => recorded'[d] = recorded[d]
      /\ recorded'[c] = IF stream[s][1] = "error" \/ recorded[c] = NoRecording
                        THEN NoRecording ELSE recorded[c] + 1
  BY <1>a, <1>t, <1>e DEF TypeOK
<1>r. RelayInv(c, s)
  BY <1>a, <1>s, <1>t DEF StreamInv
<1>p. phase[s] \in {"running", "completed", "failed"}
  BY <1>r, <1>t DEF RelayInv, TypeOK
<1>c. \/ /\ phase[s] \in {"running", "completed"} /\ stream[s][1] = "event"
         /\ recorded[c] # NoRecording /\ recorded[c] + n = sent[s]
         /\ \A i \in 1..n : stream[s][i] = "event"
         /\ phase[s] = "completed" => sent[s] = EventCount
      \/ /\ phase[s] = "failed" /\ recorded[c] # NoRecording
         /\ \A i \in 1..n : stream[s][i] = "error" <=> i = n
         /\ recorded[c] + n - 1 = sent[s]
  <2>1. 1 \in 1..n
    BY <1>q
  <2> QED BY <1>p, <1>q, <1>a, <1>r, <2>1 DEF RelayInv
<1>w. recorded'[c] \in (0..EventCount) \union {NoRecording}
  <2>1. CASE stream[s][1] = "error"
    BY <1>f, <2>1
  <2>2. CASE stream[s][1] # "error"
    <3>1. recorded[c] # NoRecording /\ recorded[c] + 1 <= sent[s]
      <4>1. CASE phase[s] = "failed"
        <5>1. n # 1 /\ recorded[c] + n - 1 = sent[s] /\ recorded[c] # NoRecording
          BY <1>c, <1>q, <2>2, <4>1
        <5>2. recorded[c] \in 0..EventCount
          BY <5>1, <1>n
        <5>3. n > 1
          <6>1. n # 1
            BY <5>1
          <6>2. n > 0
            BY <1>q
          <6> QED BY <6>1, <6>2
        <5> QED BY <5>1, <5>2, <5>3, <1>n
      <4>2. CASE phase[s] # "failed"
        <5>1. recorded[c] + n = sent[s] /\ recorded[c] # NoRecording
          BY <1>c, <4>2
        <5> QED BY <5>1, <1>n, <1>q
      <4> QED BY <4>1, <4>2
    <3> QED BY <1>f, <1>n, <2>2, <3>1
  <2> QED BY <2>1, <2>2
<1>1. TypeOK'
  <2>1. stream' \in [Sessions -> Seq({"event", "error"})]
    BY <1>t, <1>a, <1>e DEF TypeOK
  <2>2. \A q \in Sessions : Len(stream'[q]) <= Capacity + 1
    <3>1. Len(stream'[s]) <= Capacity + 1
      BY <1>e, <1>f, <1>n, <1>q
    <3> QED BY <3>1, <1>f, <1>t DEF TypeOK
  <2>3. recorded' \in [Clients -> (0..EventCount) \union {NoRecording}]
    BY <1>t, <1>a, <1>w DEF TypeOK
  <2> QED BY <1>t, <1>u, <2>1, <2>2, <2>3 DEF TypeOK
<1>2. ASSUME NEW d \in Clients PROVE HandlerInv(d)'
  <2>1. CASE d = c
    BY <1>t, <1>a, <1>u, <2>1 DEF HandlerInv
  <2>2. CASE d # c
    BY <1>t, <1>f, <1>u, <2>2 DEF HandlerInv
  <2> QED BY <2>1, <2>2
<1>3. ASSUME NEW q \in Sessions PROVE SessionInv(q)'
  <2>1. q = s => ~(q > opened)
    BY <1>a, <1>t DEF SessionInv
  <2> QED BY <1>t, <1>u, <1>f, <2>1 DEF SessionInv
<1>4. OpenersInv'
  BY <1>t, <1>u DEF OpenersInv, Opener
<1>5. CachedInv'
  BY <1>t, <1>u DEF CachedInv
<1>6. StreamInv'
  <2> SUFFICES ASSUME NEW d \in Clients
               PROVE  /\ pc[d] = "eval" => RelayInv(d, held[d])'
                      /\ pc[d] = "watch" => phase'[held[d]] = "idle"
    BY <1>u DEF StreamInv
  <2>1. pc[d] = "watch" => phase'[held[d]] = "idle"
    BY <1>t, <1>u DEF StreamInv
  <2>2. CASE d # c
    <3> SUFFICES ASSUME pc[d] = "eval" PROVE RelayInv(d, held[d])'
      BY <2>1
    <3>1. RelayInv(d, held[d]) /\ held[d] \in Sessions
      BY <1>t DEF StreamInv, HandlerInv, TypeOK
    <3>2. held[d] # s
      BY <1>t, <1>a, <1>s, <2>2 DEF OpenersInv, Opener, HandlerInv
    <3> QED BY <1>f, <1>u, <2>2, <3>1, <3>2 DEF RelayInv
  <2>3. CASE d = c
    <3>1. dropped'[s] = FALSE /\ phase'[s] # "idle" /\ phase'[s] = phase[s] /\ held'[c] = s
          /\ sent'[s] = sent[s]
      BY <1>r, <1>u, <1>s DEF RelayInv
    <3>2. CASE phase[s] \in {"running", "completed"}
      <4>1. recorded'[c] = recorded[c] + 1 /\ recorded[c] + n = sent[s] /\ recorded[c] \in Nat
        BY <1>c, <1>f, <1>n, <3>2 DEF NoRecording
      <4>2. recorded'[c] # NoRecording /\ recorded'[c] + Len(stream'[s]) = sent[s]
        <5>1. Len(stream'[s]) = n - 1 /\ n \in Nat
          BY <1>e, <1>f
        <5>2. recorded[c] + 1 # -1 /\ (recorded[c] + 1) + (n - 1) = sent[s]
          BY <4>1, <5>1
        <5> QED BY <4>1, <5>1, <5>2, Zenon DEF NoRecording
      <4>3. ASSUME NEW i \in DOMAIN stream'[s] PROVE stream'[s][i] = "event"
        <5>1. i + 1 \in 1..n /\ stream'[s][i] = stream[s][i + 1]
          BY <1>e, <1>f, <1>q
        <5> QED BY <1>c, <3>2, <5>1
      <4> QED BY <1>c, <2>1, <2>3, <3>1, <3>2, <4>2, <4>3 DEF RelayInv
    <3>3. CASE phase[s] = "failed" /\ n = 1
      <4>1. 1 \in 1..n /\ Len(stream'[s]) = 0 /\ stream'[s] \in Seq({"event", "error"})
        BY <1>e, <1>f, <3>3
      <4>2. stream[s][1] = "error"
        BY <1>c, <3>3, <4>1
      <4>3. recorded'[c] = NoRecording /\ stream'[s] = <<>>
        <5>1. stream'[s] = <<>>
          BY <4>1
        <5> QED BY <1>f, <4>2, <5>1
      <4> QED BY <2>1, <2>3, <3>1, <3>3, <4>3 DEF RelayInv
    <3>4. CASE phase[s] = "failed" /\ n # 1
      <4>1. 1 \in 1..n /\ 1 # n
        BY <1>q, <3>4
      <4>2. recorded'[c] = recorded[c] + 1 /\ recorded[c] + n - 1 = sent[s] /\ recorded[c] \in Nat
        BY <1>c, <1>f, <1>n, <3>4, <4>1 DEF NoRecording
      <4>3. recorded'[c] # NoRecording /\ recorded'[c] + Len(stream'[s]) - 1 = sent[s]
        <5>1. Len(stream'[s]) = n - 1 /\ n \in Nat
          BY <1>e, <1>f
        <5>2. recorded[c] + 1 # -1 /\ (recorded[c] + 1) + (n - 1) - 1 = sent[s]
          BY <4>2, <5>1
        <5> QED BY <4>2, <5>1, <5>2, Zenon DEF NoRecording
      <4>4. ASSUME NEW i \in DOMAIN stream'[s]
            PROVE  stream'[s][i] = "error" <=> i = Len(stream'[s])
        <5>1. i + 1 \in 1..n /\ stream'[s][i] = stream[s][i + 1] /\ (i + 1 = n <=> i = Len(stream'[s]))
          BY <1>e, <1>f, <1>q
        <5>2. stream[s][i + 1] = "error" <=> i + 1 = n
          BY <1>c, <3>4, <5>1
        <5> QED BY <5>1, <5>2
      <4>5. stream'[s] # <<>>
        <5>1. Len(stream'[s]) # 0 /\ stream'[s] \in Seq({"event", "error"})
          BY <1>e, <1>f, <1>q, <4>1
        <5> QED BY <5>1
      <4> QED BY <2>1, <2>3, <3>1, <3>4, <4>3, <4>4, <4>5 DEF RelayInv
    <3> QED BY <1>p, <3>2, <3>3, <3>4
  <2> QED BY <2>2, <2>3
<1>7. RegistryInv' /\ SlotsCounted'
  BY <1>t, <1>u DEF RegistryInv, SlotsCounted
<1> QED BY <1>1, <1>2, <1>3, <1>4, <1>5, <1>6, <1>7 DEF CoreInv

(* A watch starts the evaluation of its own session, which was idle. *)
LEMMA InvalidateForWatchKeepsCore ==
  ASSUME CoreInv, NEW c \in Clients, InvalidateForWatch(c)
  PROVE  CoreInv'
<1>t. TypeOK /\ (\A d \in Clients : HandlerInv(d)) /\ (\A s \in Sessions : SessionInv(s))
      /\ OpenersInv /\ CachedInv /\ StreamInv /\ RegistryInv /\ SlotsCounted
  BY DEF CoreInv
<1>z. SlotsCounted' /\ slots' \in Nat
  BY <1>t, ConnectionKeepsSlots DEF Handler
<1>u. UNCHANGED <<opened, sent, stream, closed, dropped, slots, request, held, recorded, diffed>>
  BY DEF InvalidateForWatch
<1>s. PICK s \in Sessions : s = held[c]
  BY <1>t DEF InvalidateForWatch, HandlerInv, TypeOK
<1>a. /\ pc[c] = "watch" /\ phase' = [phase EXCEPT ![s] = "running"]
      /\ pc' = [pc EXCEPT ![c] = "watching"]
      /\ settle_replay(Key(c), held[c], Invalidated)
  BY <1>s DEF InvalidateForWatch, Goto
<1>c. /\ RegistryInv' /\ DOMAIN cache' = DOMAIN cache
      /\ \A k \in DOMAIN cache : /\ cache'[k] \in [session : Sessions, replay : Replays]
                                 /\ cache'[k].session = cache[k].session
  BY <1>t, <1>a, SettleKeepsRegistry, InvalidatedIsReplay
<1>f. /\ pc'[c] = "watching" /\ \A d \in Clients : d # c => pc'[d] = pc[d]
      /\ phase'[s] = "running" /\ \A q \in Sessions : q # s => phase'[q] = phase[q]
  BY <1>a, <1>t DEF TypeOK
<1>1. TypeOK'
  <2>1. pc' \in [Clients -> Pcs] /\ phase' \in [Sessions -> {"idle", "running", "completed", "failed"}]
    BY <1>t, <1>a DEF TypeOK, Pcs
  <2>2. order' \in Seq(Keys)
    BY <1>c DEF RegistryInv
  <2> QED BY <1>t, <1>c, <1>u, <1>z, <2>1, <2>2 DEF TypeOK
<1>2. \A d \in Clients : HandlerInv(d)'
  BY <1>t, <1>a, <1>f, <1>u DEF HandlerInv
<1>3. ASSUME NEW q \in Sessions PROVE SessionInv(q)'
  <2>1. phase[s] = "idle" /\ held[c] <= opened
    BY <1>a, <1>s, <1>t DEF StreamInv, HandlerInv
  <2>2. CASE q = s
    <3>1. closed[q] # TRUE
      BY <1>t, <2>1, <2>2 DEF SessionInv
    <3>2. q \in Nat /\ opened \in Nat /\ q <= opened
      BY <1>t, <1>s, <2>1, <2>2, SessionsAreNumbers DEF TypeOK
    <3>3. ~(q > opened)
      BY <3>2
    <3> QED BY <3>1, <3>3, <2>2, <1>f, <1>u DEF SessionInv
  <2>3. CASE q # s
    BY <1>t, <1>f, <1>u, <2>3 DEF SessionInv
  <2> QED BY <2>2, <2>3
<1>4. OpenersInv'
  BY <1>t, <1>u DEF OpenersInv, Opener
<1>5. CachedInv'
  BY <1>t, <1>u, <1>c DEF CachedInv
<1>6. StreamInv'
  <2> SUFFICES ASSUME NEW d \in Clients, pc'[d] \in {"eval", "watch"}
               PROVE  /\ pc'[d] = "eval" => RelayInv(d, held[d])'
                      /\ pc'[d] = "watch" => phase'[held[d]] = "idle"
    BY <1>u DEF StreamInv
  <2>1. d # c /\ pc[d] = pc'[d]
    BY <1>f
  <2>2. held[d] \in Sessions /\ held[d] # s
    BY <1>t, <1>a, <1>s, <2>1 DEF OpenersInv, Opener, HandlerInv, TypeOK
  <2> QED BY <1>t, <1>f, <1>u, <2>1, <2>2 DEF StreamInv, RelayInv
<1> QED BY <1>1, <1>2, <1>3, <1>4, <1>5, <1>6, <1>c, <1>z DEF CoreInv

(* A query or a diff holds the session that is cached under its key. *)
LEMMA FindSessionKeepsCore ==
  ASSUME CoreInv, NEW c \in Clients, FindSession(c), Key(c) \in DOMAIN cache
  PROVE  CoreInv'
<1>t. TypeOK /\ (\A d \in Clients : HandlerInv(d)) /\ (\A s \in Sessions : SessionInv(s))
      /\ OpenersInv /\ CachedInv /\ StreamInv /\ RegistryInv /\ SlotsCounted
  BY DEF CoreInv
<1>z. SlotsCounted' /\ slots' \in Nat
  BY <1>t, ConnectionKeepsSlots DEF Handler
<1>u. UNCHANGED <<opened, phase, sent, stream, closed, dropped, slots, request, recorded, diffed>>
  BY DEF FindSession
<1>l. RegistryInv' /\ cache' = cache
  BY <1>t, LookupKeepsRegistry DEF FindSession, TypeOK
<1>s. PICK s \in Sessions : s = cache[Key(c)].session
  BY <1>t DEF TypeOK
<1>a. /\ pc[c] = "request" /\ request[c].op \in {"query", "diff"}
      /\ held' = [held EXCEPT ![c] = s] /\ pc' = [pc EXCEPT ![c] = request[c].op]
  BY <1>s DEF FindSession, Goto
<1>f. /\ pc'[c] = request[c].op /\ held'[c] = s
      /\ \A d \in Clients : d # c => pc'[d] = pc[d] /\ held'[d] = held[d]
  BY <1>a, <1>t DEF TypeOK
<1>n. s # 0 /\ s <= opened
  BY <1>s, <1>t, SessionsAreNumbers DEF CachedInv
<1>1. TypeOK'
  <2>1. pc' \in [Clients -> Pcs] /\ held' \in [Clients -> {0} \union Sessions]
    BY <1>t, <1>a DEF TypeOK, Pcs
  <2>2. order' \in Seq(Keys)
    BY <1>l DEF RegistryInv
  <2> QED BY <1>t, <1>l, <1>u, <1>z, <2>1, <2>2 DEF TypeOK
<1>2. ASSUME NEW d \in Clients PROVE HandlerInv(d)'
  <2>1. CASE d = c
    BY <1>t, <1>a, <1>f, <1>n, <1>u, <2>1 DEF HandlerInv
  <2>2. CASE d # c
    BY <1>t, <1>f, <1>u, <2>2 DEF HandlerInv
  <2> QED BY <2>1, <2>2
<1>3. \A q \in Sessions : SessionInv(q)'
  BY <1>t, <1>u DEF SessionInv
<1>4. OpenersInv'
  <2>1. \A d \in Clients : (Opener(d)' <=> Opener(d)) /\ (Opener(d) => d # c)
    BY <1>a, <1>f, <1>u DEF Opener
  <2>2. {d \in Clients : Opener(d)}' = {d \in Clients : Opener(d)}
    BY <2>1
  <2> QED BY <1>t, <1>f, <1>u, <2>1, <2>2 DEF OpenersInv
<1>5. CachedInv'
  <2>1. \A k \in DOMAIN cache, d \in Clients :
          held'[d] # 0 /\ cache[k].session = held'[d] => request[d].key = k
    <3> SUFFICES ASSUME NEW k \in DOMAIN cache, NEW d \in Clients, held'[d] # 0,
                        cache[k].session = held'[d]
                 PROVE  request[d].key = k
      OBVIOUS
    <3>1. CASE d = c
      BY <1>f, <1>s, <1>t, <3>1 DEF CachedInv, Key
    <3>2. CASE d # c
      BY <1>f, <1>t, <3>2 DEF CachedInv
    <3> QED BY <3>1, <3>2
  <2> QED BY <1>t, <1>l, <1>u, <2>1 DEF CachedInv
<1>6. StreamInv'
  <2> SUFFICES ASSUME NEW d \in Clients, pc'[d] \in {"eval", "watch"}
               PROVE  /\ pc'[d] = "eval" => RelayInv(d, held[d])'
                      /\ pc'[d] = "watch" => phase'[held'[d]] = "idle"
    BY DEF StreamInv
  <2>1. d # c /\ pc[d] = pc'[d] /\ held'[d] = held[d]
    BY <1>a, <1>f
  <2>2. phase' = phase /\ (pc[d] = "watch" => phase[held[d]] = "idle")
    BY <1>t, <1>u DEF StreamInv
  <2>3. ASSUME pc[d] = "eval" PROVE RelayInv(d, held[d])'
    <3>1. RelayInv(d, held[d])
      BY <1>t, <2>3 DEF StreamInv
    <3> QED BY <1>u, <2>1, <3>1 DEF RelayInv
  <2> QED BY <2>1, <2>2, <2>3
<1> QED BY <1>1, <1>2, <1>3, <1>4, <1>5, <1>6, <1>l, <1>z DEF CoreInv

LEMMA AppendItem ==
  ASSUME NEW S, NEW seq \in Seq(S), NEW e \in S
  PROVE  /\ Append(seq, e) \in Seq(S) /\ Len(Append(seq, e)) = Len(seq) + 1
         /\ Append(seq, e) # <<>> /\ DOMAIN Append(seq, e) = 1..(Len(seq) + 1)
         /\ \A i \in DOMAIN seq : Append(seq, e)[i] = seq[i]
         /\ \A i \in DOMAIN Append(seq, e) : i \in DOMAIN seq \/ i = Len(seq) + 1
         /\ \A i \in DOMAIN seq : i # Len(seq) + 1
         /\ Append(seq, e)[Len(seq) + 1] = e
OBVIOUS

(* The evaluation task fills the stream of the one handler that drains it. *)
LEMMA EvaluationKeepsCore ==
  ASSUME CoreInv, NEW s \in Sessions, Evaluation(s)
  PROVE  CoreInv'
<1>t. TypeOK /\ (\A d \in Clients : HandlerInv(d)) /\ (\A q \in Sessions : SessionInv(q))
      /\ OpenersInv /\ CachedInv /\ StreamInv /\ RegistryInv /\ SlotsCounted
  BY DEF CoreInv
<1>u. UNCHANGED <<cache, order, opened, dropped, slots, pc, request, held, recorded, diffed>>
  BY DEF Evaluation, EmitEvent, CompleteSession, FailSession, registryVars
<1>r. phase[s] = "running" /\ ~(s > opened) /\ closed[s] # TRUE /\ Flushed(s)
  BY <1>t DEF Evaluation, EmitEvent, CompleteSession, FailSession, SessionInv
<1>n. /\ stream[s] \in Seq({"event", "error"}) /\ Len(stream[s]) \in Nat /\ dropped[s] \in BOOLEAN
      /\ Len(stream[s]) <= Capacity + 1 /\ Capacity \in Nat /\ EventCount \in Nat
      /\ sent[s] \in 0..EventCount
  BY <1>t, DaemonAssumption DEF TypeOK
<1> DEFINE e == IF EmitEvent(s) THEN "event" ELSE "error"
<1>e. \/ stream' = stream
      \/ /\ ~dropped[s] /\ stream' = [stream EXCEPT ![s] = Append(stream[s], e)]
         /\ EmitEvent(s) \/ FailSession(s)
  BY DEF Evaluation, EmitEvent, CompleteSession, FailSession
<1>x. /\ \A q \in Sessions : q # s => /\ stream'[q] = stream[q] /\ phase'[q] = phase[q]
                                      /\ sent'[q] = sent[q] /\ closed'[q] = closed[q]
      /\ phase' \in [Sessions -> {"idle", "running", "completed", "failed"}]
      /\ closed' \in [Sessions -> BOOLEAN]
      /\ phase'[s] \in {"running", "completed", "failed"}
      /\ closed'[s] = TRUE <=> phase'[s] \in {"completed", "failed"}
  <2>1. /\ stream \in [Sessions -> Seq({"event", "error"})] /\ sent \in [Sessions -> 0..EventCount]
        /\ phase \in [Sessions -> {"idle", "running", "completed", "failed"}]
        /\ closed \in [Sessions -> BOOLEAN]
    BY <1>t DEF TypeOK
  <2>2. CASE EmitEvent(s)
    BY <1>r, <2>1, <2>2 DEF EmitEvent
  <2>3. CASE CompleteSession(s)
    BY <2>1, <2>3 DEF CompleteSession
  <2>4. CASE FailSession(s)
    BY <2>1, <2>4 DEF FailSession
  <2> QED BY <2>2, <2>3, <2>4 DEF Evaluation
<1>1. TypeOK'
  <2>1. e \in {"event", "error"}
    OBVIOUS
  <2> HIDE DEF e
  <2>2. stream' \in [Sessions -> Seq({"event", "error"})]
    <3>1. stream \in [Sessions -> Seq({"event", "error"})]
      BY <1>t DEF TypeOK
    <3>2. Append(stream[s], e) \in Seq({"event", "error"})
      BY <1>n, <2>1, AppendItem
    <3> QED BY <1>e, <3>1, <3>2
  <2>3. Len(stream'[s]) <= Capacity + 1
    <3>1. CASE stream' = stream
      BY <3>1, <1>n
    <3>2. CASE ~dropped[s] /\ stream' = [stream EXCEPT ![s] = Append(stream[s], e)]
      <4>1. Len(stream[s]) <= Capacity
        BY <1>r, <3>2 DEF Flushed
      <4>2. stream'[s] = Append(stream[s], e)
        BY <1>t, <3>2 DEF TypeOK
      <4>3. Len(stream'[s]) = Len(stream[s]) + 1
        BY <1>n, <2>1, <4>2, AppendItem
      <4> QED BY <1>n, <4>1, <4>3
    <3> QED BY <1>e, <3>1, <3>2
  <2>4. \A q \in Sessions : Len(stream'[q]) <= Capacity + 1
    BY <1>t, <1>x, <2>3 DEF TypeOK
  <2>5. sent' \in [Sessions -> 0..EventCount]
    <3>1. CASE EmitEvent(s)
      <4>1. sent[s] + 1 \in 0..EventCount
        BY <1>n, <3>1 DEF EmitEvent
      <4> QED BY <1>t, <3>1, <4>1 DEF EmitEvent, TypeOK
    <3>2. CASE ~EmitEvent(s)
      BY <1>t, <3>2 DEF Evaluation, CompleteSession, FailSession, TypeOK
    <3> QED BY <3>1, <3>2
  <2> QED BY <1>t, <1>u, <1>x, <2>2, <2>4, <2>5 DEF TypeOK
<1> HIDE DEF e
<1>2. \A d \in Clients : HandlerInv(d)'
  BY <1>t, <1>u DEF HandlerInv
<1>3. ASSUME NEW q \in Sessions PROVE SessionInv(q)'
  <2>1. CASE q = s
    BY <1>r, <1>u, <1>x, <2>1 DEF SessionInv
  <2>2. CASE q # s
    BY <1>t, <1>u, <1>x, <2>2 DEF SessionInv
  <2> QED BY <2>1, <2>2
<1>4. OpenersInv' /\ CachedInv' /\ RegistryInv' /\ SlotsCounted'
  BY <1>t, <1>u DEF OpenersInv, Opener, CachedInv, RegistryInv, SlotsCounted
<1>6. StreamInv'
  <2> SUFFICES ASSUME NEW d \in Clients
               PROVE  /\ pc[d] = "eval" => RelayInv(d, held[d])'
                      /\ pc[d] = "watch" => phase'[held[d]] = "idle"
    BY <1>u DEF StreamInv
  <2>1. ASSUME pc[d] = "watch" PROVE phase'[held[d]] = "idle"
    <3>1. phase[held[d]] = "idle" /\ held[d] \in Sessions
      BY <1>t, <2>1 DEF StreamInv, HandlerInv, TypeOK
    <3> QED BY <3>1, <1>r, <1>x
  <2>2. ASSUME pc[d] = "eval" PROVE RelayInv(d, held[d])'
    <3>1. RelayInv(d, held[d]) /\ held[d] \in Sessions /\ request[d].op = "eval"
      BY <1>t, <2>2 DEF StreamInv, HandlerInv, TypeOK
    <3>2. CASE held[d] # s
      BY <3>1, <3>2, <1>x, <1>u DEF RelayInv
    <3>3. CASE held[d] = s
      <4>1. /\ dropped[s] = FALSE /\ recorded[d] # NoRecording /\ recorded[d] \in 0..EventCount
            /\ recorded[d] + Len(stream[s]) = sent[s]
            /\ \A i \in DOMAIN stream[s] : stream[s][i] = "event"
            /\ Streams(s)
        BY <1>t, <1>r, <3>1, <3>3 DEF RelayInv, TypeOK, Streams
      <4>2. CASE EmitEvent(s)
        <5>1. /\ stream'[s] = Append(stream[s], "event") /\ sent'[s] = sent[s] + 1
              /\ phase'[s] = "running"
          BY <1>t, <1>r, <4>2 DEF EmitEvent, TypeOK
        <5>2. /\ Len(stream'[s]) = Len(stream[s]) + 1
              /\ \A i \in DOMAIN stream'[s] : stream'[s][i] = "event"
          BY <1>n, <4>1, <5>1, AppendItem
        <5>3. recorded[d] + Len(stream'[s]) = sent'[s]
          BY <1>n, <4>1, <5>1, <5>2
        <5> QED BY <1>u, <3>3, <4>1, <5>1, <5>2, <5>3 DEF RelayInv
      <4>3. CASE CompleteSession(s)
        <5>1. /\ stream'[s] = stream[s] /\ sent'[s] = sent[s] /\ sent[s] = EventCount
              /\ phase'[s] = "completed"
          BY <1>t, <4>1, <4>3 DEF CompleteSession, TypeOK
        <5> QED BY <1>u, <3>3, <4>1, <5>1 DEF RelayInv
      <4>4. CASE FailSession(s)
        <5>1. /\ stream'[s] = Append(stream[s], "error") /\ sent'[s] = sent[s]
              /\ phase'[s] = "failed"
          BY <1>t, <4>1, <4>4 DEF FailSession, TypeOK
        <5>2. /\ stream'[s] # <<>> /\ Len(stream'[s]) = Len(stream[s]) + 1
              /\ \A i \in DOMAIN stream'[s] : stream'[s][i] = "error" <=> i = Len(stream'[s])
          BY <1>n, <4>1, <5>1, AppendItem
        <5>3. recorded[d] + Len(stream'[s]) - 1 = sent'[s]
          BY <1>n, <4>1, <5>1, <5>2
        <5> QED BY <1>u, <3>3, <4>1, <5>1, <5>2, <5>3 DEF RelayInv
      <4> QED BY <4>2, <4>3, <4>4 DEF Evaluation
    <3> QED BY <3>2, <3>3
  <2> QED BY <2>1, <2>2
<1> QED BY <1>1, <1>2, <1>3, <1>4, <1>6 DEF CoreInv

------------------------------------------------------------------------------
(* The invariant holds at the start and no step breaks it. *)

LEMMA InitHolds == Init => DaemonInv
<1> SUFFICES ASSUME Init PROVE DaemonInv
  OBVIOUS
<1>n. /\ Cardinality(Clients) \in Nat /\ EventCount \in Nat /\ Capacity \in Nat /\ MAX_SESSIONS \in Nat
      /\ MAX_CONNECTIONS \in Nat
  BY SessionsAreNumbers, DaemonAssumption
<1>c. cache = <<>> /\ DOMAIN cache = {}
  BY DEF Init
<1>o. order = <<>> /\ order \in Seq(Keys) /\ Len(order) = 0 /\ DOMAIN order = {} /\ Range(order) = {}
  BY DEF Init, Range
<1>1. TypeOK
  <2>1. stream \in [Sessions -> Seq({"event", "error"})] /\ \A s \in Sessions : Len(stream[s]) <= Capacity + 1
    BY <1>n DEF Init
  <2> QED BY <1>n, <1>c, <1>o, <2>1 DEF Init, TypeOK, Pcs
<1>2. \A c \in Clients : HandlerInv(c)
  BY DEF Init, HandlerInv
<1>3. \A s \in Sessions : SessionInv(s)
  BY DEF Init, SessionInv
<1>4. OpenersInv
  <2>1. {c \in Clients : Opener(c)} = {}
    BY DEF Init, Opener
  <2>2. Cardinality({c \in Clients : Opener(c)}) = 0
    BY <2>1, FS_EmptySet
  <2> QED BY <2>1, <2>2 DEF OpenersInv, Init
<1>5. CachedInv
  BY <1>c DEF CachedInv, Init
<1>6. StreamInv
  BY DEF Init, StreamInv
<1>7. RegistryInv
  BY <1>c, <1>o, <1>n DEF RegistryInv
<1>8. SlotsCounted
  <2>1. {c \in Clients : pc[c] \notin Done \union {"connecting"}} = {}
    BY DEF Init
  <2>2. Cardinality({c \in Clients : pc[c] \notin Done \union {"connecting"}}) = 0
    BY <2>1, FS_EmptySet
  <2> QED BY <2>2, <1>n DEF SlotsCounted, Init
<1>9. ReplayIsWholeStream /\ OvertakenInv
  BY <1>c DEF ReplayIsWholeStream, OvertakenInv
<1> QED BY <1>1, <1>2, <1>3, <1>4, <1>5, <1>6, <1>7, <1>8, <1>9 DEF DaemonInv, CoreInv

LEMMA StutterKeepsDaemon ==
  ASSUME DaemonInv, UNCHANGED vars
  PROVE  DaemonInv'
BY DEF vars, DaemonInv, CoreInv, TypeOK, HandlerInv, SessionInv, OpenersInv, Opener, CachedInv,
   StreamInv, RelayInv, RegistryInv, SlotsCounted, ReplayIsWholeStream, OvertakenInv, Overtaken

LEMMA ConnectionKeepsCore ==
  ASSUME CoreInv, NEW c \in Clients, acquire(c) \/ Handler(c)
  PROVE  CoreInv'
<1>1. CASE acquire(c)
  BY <1>1, AcquireKeepsCore
<1>2. CASE OpenSession(c)
  BY <1>2, OpenSessionKeepsCore
<1>3. CASE RelayEvent(c)
  BY <1>3, RelayEventKeepsCore
<1>4. CASE InvalidateForWatch(c)
  BY <1>4, InvalidateForWatchKeepsCore
<1>5. CASE FindSession(c)
  BY <1>5, FindSessionKeepsCore, MovingHandlersKeepCore
<1>6. CASE \/ RejectRequest(c) \/ WriteFails(c) \/ EndEval(c) \/ FetchReplay(c) \/ EndWatch(c)
           \/ RequireCompleted(c) \/ EvaluateDiff(c) \/ InvalidateForDiff(c) \/ Answer(c)
  BY <1>6, MovingHandlersKeepCore
<1> QED BY <1>1, <1>2, <1>3, <1>4, <1>5, <1>6 DEF Handler

(* A completed session stays completed: only an idle one starts. *)
LEMMA CompletedStays ==
  ASSUME CoreInv, NEW q \in Sessions, phase[q] = "completed",
         \/ \E c \in Clients : acquire(c) \/ Handler(c)
         \/ \E s \in Sessions : Evaluation(s)
  PROVE  phase'[q] = "completed"
<1>t. TypeOK /\ (\A d \in Clients : HandlerInv(d)) /\ (\A s \in Sessions : SessionInv(s))
      /\ OpenersInv /\ StreamInv
  BY DEF CoreInv
<1>p. phase \in [Sessions -> {"idle", "running", "completed", "failed"}]
  BY <1>t DEF TypeOK
<1>1. ASSUME NEW s \in Sessions, Evaluation(s) PROVE phase'[q] = "completed"
  BY <1>p, <1>1 DEF Evaluation, EmitEvent, CompleteSession, FailSession
<1>2. ASSUME NEW c \in Clients, acquire(c) \/ Handler(c) PROVE phase'[q] = "completed"
  <2>1. CASE OpenSession(c)
    <3>1. request[c].op \in {"eval", "watch"} /\ held[c] = 0
      BY <1>t, <2>1 DEF OpenSession, HandlerInv
    <3>2. opened + 1 \in Sessions
      BY <1>t, <3>1, RoomForSession DEF Opener
    <3>3. opened \in Nat
      BY <1>t, SessionsAreNumbers DEF TypeOK
    <3>4. q # opened + 1
      BY <1>t, <3>2, <3>3 DEF SessionInv
    <3> QED BY <1>p, <2>1, <3>4 DEF OpenSession
  <2>2. CASE InvalidateForWatch(c)
    <3>1. phase[held[c]] = "idle"
      BY <1>t, <2>2 DEF InvalidateForWatch, StreamInv
    <3> QED BY <1>p, <2>2, <3>1 DEF InvalidateForWatch
  <2>3. CASE ~OpenSession(c) /\ ~InvalidateForWatch(c)
    <3>1. phase' = phase
      BY <1>2, <2>3 DEF acquire, Handler, RejectRequest, RelayEvent, WriteFails, EndEval, FetchReplay,
         EndWatch, FindSession, RequireCompleted, EvaluateDiff, InvalidateForDiff, Answer, sessionVars
    <3> QED BY <3>1
  <2> QED BY <2>1, <2>2, <2>3
<1> QED BY <1>1, <1>2

(* The steps that leave every cached entry as it is. *)
LEMMA CacheUnchanged ==
  ASSUME CoreInv,
         \/ \E c \in Clients : /\ acquire(c) \/ Handler(c)
                               /\ ~OpenSession(c) /\ ~EndEval(c)
                               /\ ~InvalidateForWatch(c) /\ ~InvalidateForDiff(c)
         \/ \E s \in Sessions : Evaluation(s)
  PROVE  cache' = cache
BY DEF acquire, Handler, RejectRequest, RelayEvent, WriteFails, FetchReplay, EndWatch, FindSession,
   RequireCompleted, EvaluateDiff, Answer, Evaluation, EmitEvent, CompleteSession, FailSession,
   Lookup, registryVars

(* What EndEval records is the whole stream of a completed evaluation. *)
LEMMA RecordedIsWhole ==
  ASSUME CoreInv, NEW c \in Clients, EndEval(c), recorded[c] # NoRecording
  PROVE  held[c] \in Sessions /\ phase[held[c]] = "completed" /\ recorded[c] = EventCount
<1>t. TypeOK /\ HandlerInv(c) /\ (\A s \in Sessions : SessionInv(s)) /\ StreamInv
  BY DEF CoreInv
<1>1. PICK s \in Sessions : s = held[c]
  BY <1>t DEF EndEval, HandlerInv, TypeOK
<1>2. RelayInv(c, s) /\ stream[s] = <<>> /\ closed[s] = TRUE
  <2>1. closed[s] \in BOOLEAN
    BY <1>t DEF TypeOK
  <2> QED BY <1>t, <1>1, <2>1 DEF EndEval, StreamInv
<1>3. phase[s] \in {"completed", "failed"}
  BY <1>t, <1>2 DEF SessionInv
<1>4. phase[s] = "completed"
  BY <1>2, <1>3 DEF RelayInv
<1>5. recorded[c] + Len(stream[s]) = EventCount /\ recorded[c] \in 0..EventCount /\ EventCount \in Nat
  BY <1>2, <1>4, <1>t, DaemonAssumption DEF RelayInv, TypeOK
<1>6. Len(stream[s]) = 0
  BY <1>2
<1> QED BY <1>1, <1>4, <1>5, <1>6

LEMMA ReplayKept ==
  ASSUME CoreInv, ReplayIsWholeStream,
         \/ \E c \in Clients : acquire(c) \/ Handler(c)
         \/ \E s \in Sessions : Evaluation(s)
  PROVE  ReplayIsWholeStream'
<1>t. TypeOK /\ RegistryInv /\ \A d \in Clients : HandlerInv(d)
  BY DEF CoreInv
<1>i. Invalidated.state # "Ready" /\ Recording.state # "Ready"
  BY DEF Invalidated, Recording
<1>r. \A s, n : Ready(s, n).from = s /\ Ready(s, n).events = n
  BY DEF Ready
<1> SUFFICES ASSUME NEW k \in DOMAIN cache', cache'[k].replay.state = "Ready"
             PROVE  /\ cache'[k].replay.from = cache'[k].session
                    /\ cache'[k].replay.events = EventCount
                    /\ phase'[cache'[k].session] = "completed"
  BY DEF ReplayIsWholeStream
<1>1. CASE k \in DOMAIN cache /\ cache'[k].session = cache[k].session /\ cache'[k].replay = cache[k].replay
  <2>1. cache[k].session \in Sessions
    BY <1>t, <1>1 DEF TypeOK
  <2>2. /\ cache[k].replay.from = cache[k].session /\ cache[k].replay.events = EventCount
        /\ phase[cache[k].session] = "completed"
    BY <1>1 DEF ReplayIsWholeStream
  <2> QED BY <1>1, <2>1, <2>2, CompletedStays
<1>2. ASSUME NEW c \in Clients, OpenSession(c)
      PROVE  k \in DOMAIN cache /\ cache'[k] = cache[k]
  <2>1. Key(c) \in Keys /\ Insert(Key(c), [session |-> opened + 1, replay |-> Recording])
    BY <1>t, <1>2 DEF OpenSession, HandlerInv, Key
  <2>2. /\ cache'[Key(c)] = [session |-> opened + 1, replay |-> Recording]
        /\ k # Key(c) => k \in DOMAIN cache /\ cache'[k] = cache[k]
    BY <1>t, <2>1, InsertKeepsRegistry
  <2> QED BY <1>i, <2>2
<1>3. ASSUME NEW c \in Clients, InvalidateForWatch(c) \/ InvalidateForDiff(c)
      PROVE  k \in DOMAIN cache /\ cache'[k].session = cache[k].session /\ cache'[k].replay = cache[k].replay
  <2>1. settle_replay(Key(c), held[c], Invalidated)
    BY <1>3 DEF InvalidateForWatch, InvalidateForDiff
  <2>2. /\ k \in DOMAIN cache /\ cache'[k].session = cache[k].session
        /\ cache'[k].replay = cache[k].replay \/ cache'[k].replay = Invalidated
    BY <1>t, <2>1, InvalidatedIsReplay, SettleKeepsRegistry
  <2> QED BY <1>i, <2>2
<1>4. ASSUME NEW c \in Clients, EndEval(c)
      PROVE  \/ k \in DOMAIN cache /\ cache'[k].session = cache[k].session /\ cache'[k].replay = cache[k].replay
             \/ /\ cache'[k].replay.from = cache'[k].session
                /\ cache'[k].replay.events = EventCount
                /\ phase'[cache'[k].session] = "completed"
  <2> DEFINE replay == IF recorded[c] = NoRecording THEN Invalidated ELSE Ready(held[c], recorded[c])
  <2>1. settle_replay(Key(c), held[c], replay) /\ replay \in Replays /\ phase' = phase
    BY <1>4, EndEvalReplay DEF EndEval, sessionVars
  <2> HIDE DEF replay
  <2>2. /\ k \in DOMAIN cache /\ cache'[k].session = cache[k].session
        /\ cache'[k].replay = cache[k].replay \/ (cache[k].session = held[c] /\ cache'[k].replay = replay)
    BY <1>t, <2>1, SettleKeepsRegistry
  <2>3. CASE cache'[k].replay = replay /\ cache[k].session = held[c]
    <3>1. recorded[c] # NoRecording /\ replay = Ready(held[c], recorded[c])
      BY <1>i, <2>3 DEF replay
    <3>2. phase[held[c]] = "completed" /\ recorded[c] = EventCount
      BY <1>4, <3>1, RecordedIsWhole
    <3> QED BY <1>r, <2>1, <2>2, <2>3, <3>1, <3>2
  <2> QED BY <2>2, <2>3
<1>5. CASE cache' = cache
  BY <1>1, <1>5
<1> QED BY <1>1, <1>2, <1>3, <1>4, <1>5, CacheUnchanged

(* No step makes a cached session overtaken without its replay being       *)
(* invalidated first.                                                      *)
LEMMA OvertakenKept ==
  ASSUME CoreInv, OvertakenInv,
         \/ \E c \in Clients : acquire(c) \/ Handler(c)
         \/ \E s \in Sessions : Evaluation(s)
  PROVE  OvertakenInv'
<1>t. TypeOK /\ RegistryInv /\ (\A d \in Clients : HandlerInv(d)) /\ CachedInv
  BY DEF CoreInv
<1>y. pc \in [Clients -> Pcs] /\ held \in [Clients -> {0} \union Sessions]
  BY <1>t DEF TypeOK
<1>1. ASSUME NEW q \in Sessions,
             NEW c \in Clients, acquire(c) \/ Handler(c), ~InvalidateForWatch(c), ~InvalidateForDiff(c),
             Overtaken(q)', q # opened + 1 \/ ~OpenSession(c)
      PROVE  Overtaken(q)
  <2>1. ASSUME NEW d \in Clients, held'[d] = q,
               pc'[d] = "watching" \/ (pc'[d] = "answer" /\ request'[d].op = "diff")
        PROVE  Overtaken(q)
    <3>1. \/ pc'[d] = pc[d] /\ held'[d] = held[d] /\ request'[d] = request[d]
          \/ d = c /\ ~(pc'[d] = "watching" \/ (pc'[d] = "answer" /\ request'[d].op = "diff"))
      <4>1. CASE acquire(c)
        BY <1>t, <1>y, <4>1 DEF acquire, Goto, TypeOK
      <4>2. CASE RejectRequest(c) \/ WriteFails(c) \/ EndWatch(c) \/ Answer(c) \/ RelayEvent(c)
        BY <1>y, <4>2 DEF RejectRequest, WriteFails, EndWatch, Answer, RelayEvent, Close, Goto
      <4>3. CASE OpenSession(c) \/ FindSession(c)
        BY <1>y, <4>3 DEF OpenSession, FindSession, Close, Goto
      <4>4. CASE EndEval(c)
        BY <1>t, <1>y, <4>4 DEF EndEval, Goto, HandlerInv
      <4>5. CASE FetchReplay(c) \/ RequireCompleted(c) \/ EvaluateDiff(c)
        BY <1>t, <1>y, <4>5 DEF FetchReplay, RequireCompleted, EvaluateDiff, Close, Goto, HandlerInv
      <4> QED BY <1>1, <4>1, <4>2, <4>3, <4>4, <4>5 DEF Handler
    <3> QED BY <2>1, <3>1 DEF Overtaken
  <2>2. ASSUME q \in diffed' PROVE Overtaken(q)
    <3>1. CASE Answer(c)
      BY <2>2, <3>1 DEF Answer, Overtaken
    <3>2. CASE ~Answer(c)
      <4>1. diffed' = diffed
        BY <1>1, <3>2 DEF acquire, Handler, RejectRequest, OpenSession, RelayEvent, WriteFails, EndEval,
           FetchReplay, EndWatch, FindSession, RequireCompleted, EvaluateDiff
      <4> QED BY <2>2, <4>1 DEF Overtaken
    <3> QED BY <3>1, <3>2
  <2> QED BY <1>1, <2>1, <2>2 DEF Overtaken
<1>2. CASE \E s \in Sessions : Evaluation(s)
  <2>1. UNCHANGED <<cache, pc, held, request, diffed>>
    BY <1>2 DEF Evaluation, EmitEvent, CompleteSession, FailSession, registryVars
  <2> QED BY <2>1 DEF OvertakenInv, Overtaken
<1>3. ASSUME NEW c \in Clients, acquire(c) \/ Handler(c) PROVE OvertakenInv'
  <2> SUFFICES ASSUME NEW k \in DOMAIN cache', Overtaken(cache[k].session)'
               PROVE  cache'[k].replay = Invalidated
    BY DEF OvertakenInv
  <2>1. CASE OpenSession(c)
    <3> DEFINE s == opened + 1
    <3>1. Key(c) \in Keys /\ Insert(Key(c), [session |-> s, replay |-> Recording])
      BY <1>t, <2>1 DEF OpenSession, HandlerInv, Key
    <3>2. /\ cache'[Key(c)] = [session |-> s, replay |-> Recording]
          /\ k # Key(c) => k \in DOMAIN cache /\ cache'[k] = cache[k]
      BY <1>t, <3>1, InsertKeepsRegistry
    <3>3. opened \in Nat /\ (\A d \in Clients : held[d] # s) /\ s \notin diffed
          /\ \A x \in DOMAIN cache : cache[x].session \in Sessions /\ cache[x].session # s
      <4>1. opened \in Nat /\ Sessions \subseteq Nat
        BY <1>t, SessionsAreNumbers DEF TypeOK
      <4>2. /\ \A d \in Clients : held[d] \in {0} \union Sessions /\ held[d] <= opened
            /\ \A q \in diffed : q \in Sessions /\ q <= opened
            /\ \A x \in DOMAIN cache : cache[x].session \in Sessions /\ cache[x].session <= opened
        BY <1>t DEF TypeOK, HandlerInv, CachedInv
      <4>3. \A q \in Nat : q <= opened => q # s
        BY <4>1
      <4> HIDE DEF s
      <4> QED BY <4>1, <4>2, <4>3
    <3>4. k # Key(c)
      <4> SUFFICES ASSUME k = Key(c) PROVE FALSE
        OBVIOUS
      <4>1. cache'[k].session = s
        BY <3>2
      <4>2. /\ pc' = [pc EXCEPT ![c] = request[c].op] /\ request[c].op \in {"eval", "watch"}
            /\ held' = [held EXCEPT ![c] = s] /\ UNCHANGED <<request, diffed>>
        BY <2>1 DEF OpenSession, Goto
      <4> HIDE DEF s
      <4>3. /\ pc'[c] \in {"eval", "watch"} /\ diffed' = diffed
            /\ \A d \in Clients : d # c => held'[d] # s
        BY <1>y, <3>3, <4>2
      <4> QED BY <3>3, <4>1, <4>3 DEF Overtaken
    <3>5. Overtaken(cache[k].session)
      BY <1>1, <2>1, <3>2, <3>3, <3>4 DEF Handler, InvalidateForWatch, InvalidateForDiff, OpenSession
    <3> QED BY <3>2, <3>4, <3>5 DEF OvertakenInv
  <2>2. CASE InvalidateForWatch(c) \/ InvalidateForDiff(c)
    <3>1. settle_replay(Key(c), held[c], Invalidated)
      BY <2>2 DEF InvalidateForWatch, InvalidateForDiff
    <3>2. /\ k \in DOMAIN cache /\ cache'[k].session = cache[k].session
          /\ cache[k].replay = Invalidated => cache'[k].replay = Invalidated
          /\ k = Key(c) /\ cache[k].session = held[c] => cache'[k].replay = Invalidated
      BY <1>t, <3>1, InvalidatedIsReplay, SettleKeepsRegistry
    <3>3. CASE cache[k].session = held[c]
      <4>1. held[c] # 0
        BY <1>t, <2>2 DEF HandlerInv, InvalidateForWatch, InvalidateForDiff
      <4>2. k = Key(c)
        BY <1>t, <3>2, <3>3, <4>1 DEF CachedInv, Key
      <4> QED BY <3>2, <3>3, <4>2
    <3>4. CASE cache[k].session # held[c]
      <4>1. /\ \A d \in Clients \ {c} : pc'[d] = pc[d]
            /\ UNCHANGED <<request, held, diffed>>
        BY <1>y, <2>2 DEF InvalidateForWatch, InvalidateForDiff, Goto
      <4>2. Overtaken(cache[k].session)
        BY <3>2, <3>4, <4>1 DEF Overtaken
      <4> QED BY <3>2, <4>2 DEF OvertakenInv
    <3> QED BY <3>3, <3>4
  <2>3. CASE EndEval(c)
    <3> DEFINE replay == IF recorded[c] = NoRecording THEN Invalidated ELSE Ready(held[c], recorded[c])
    <3>1. settle_replay(Key(c), held[c], replay) /\ replay \in Replays
      BY <2>3, EndEvalReplay DEF EndEval
    <3> HIDE DEF replay
    <3>2. /\ k \in DOMAIN cache /\ cache'[k].session = cache[k].session
          /\ cache[k].replay = Invalidated => cache'[k].replay = Invalidated
      BY <1>t, <3>1, SettleKeepsRegistry
    <3>3. cache[k].session \in Sessions
      BY <1>t, <3>2 DEF TypeOK
    <3>4. Overtaken(cache[k].session)
      BY <1>1, <2>3, <3>2, <3>3 DEF Handler, EndEval, InvalidateForWatch, InvalidateForDiff, OpenSession
    <3> QED BY <3>2, <3>4 DEF OvertakenInv
  <2>4. CASE ~OpenSession(c) /\ ~InvalidateForWatch(c) /\ ~InvalidateForDiff(c) /\ ~EndEval(c)
    <3>1. cache' = cache
      BY <1>3, <2>4, CacheUnchanged
    <3>2. cache[k].session \in Sessions
      BY <1>t, <3>1 DEF TypeOK
    <3>3. Overtaken(cache[k].session)
      BY <1>1, <1>3, <2>4, <3>1, <3>2
    <3> QED BY <3>1, <3>3 DEF OvertakenInv
  <2> QED BY <2>1, <2>2, <2>3, <2>4
<1> QED BY <1>2, <1>3

LEMMA NextKeepsDaemon ==
  ASSUME DaemonInv, [Next]_vars
  PROVE  DaemonInv'
<1>1. CASE \E c \in Clients : acquire(c) \/ Handler(c)
  BY <1>1, ConnectionKeepsCore, ReplayKept, OvertakenKept DEF DaemonInv
<1>2. CASE \E s \in Sessions : Evaluation(s)
  BY <1>2, EvaluationKeepsCore, ReplayKept, OvertakenKept DEF DaemonInv
<1>3. CASE UNCHANGED vars
  BY <1>3, StutterKeepsDaemon
<1> QED BY <1>1, <1>2, <1>3 DEF Next, Listening

LEMMA InvariantHolds == Spec => []DaemonInv
BY InitHolds, NextKeepsDaemon, PTL DEF Spec

LEMMA RegistryCounts ==
  ASSUME DaemonInv
  PROVE  RegistrySound
<1>1. TypeOK /\ order \in Seq(Keys) /\ Distinct(order) /\ Range(order) = DOMAIN cache
      /\ Len(order) <= MAX_SESSIONS
  BY DEF DaemonInv, CoreInv, RegistryInv, Distinct
<1>2. Cardinality(Range(order)) = Len(order)
  BY <1>1, CountEntries
<1> QED BY <1>1, <1>2 DEF RegistrySound, RegistryConsistent

(* The registry of session_cache.rs stays consistent, for any number of    *)
(* connections, keys and cached sessions: the recency order lists every    *)
(* cached key once and the cache never exceeds its capacity.               *)
THEOREM RegistryIsSound == Spec => []RegistrySound
<1>1. DaemonInv => RegistrySound
  BY RegistryCounts
<1> QED BY <1>1, InvariantHolds, PTL

(* The connection limiter counts the connections being handled and never   *)
(* admits more than its maximum (connection_limit.rs).                     *)
THEOREM SlotsAreCounted == Spec => []SlotsCounted
<1>1. DaemonInv => SlotsCounted
  BY DEF DaemonInv, CoreInv
<1> QED BY <1>1, InvariantHolds, PTL

(* A replay that can be served is the whole stream of the completed        *)
(* evaluation of the session cached under its key (settle_replay).         *)
THEOREM ReplaysAreWhole == Spec => []ReplayIsWholeStream
<1>1. DaemonInv => ReplayIsWholeStream
  BY DEF DaemonInv
<1> QED BY <1>1, InvariantHolds, PTL

(* Once a diff of a session was answered or a watch of it runs, its replay *)
(* is never served again, in whatever order the handlers settle.           *)
THEOREM DiffsWin == Spec => []DiffWins
<1>1. DaemonInv => DiffWins
  BY DEF DaemonInv, OvertakenInv, Overtaken, DiffWins
<1> QED BY <1>1, InvariantHolds, PTL
==============================================================================

---------------------------- MODULE ClientProofs ----------------------------
(***************************************************************************)
(* Proofs about Client: a command line becomes the plan its user means,    *)
(* exit status 0 means that the whole result was printed, what is printed  *)
(* is always a beginning of what was yielded, and a request is evaluated   *)
(* in one place, for any length of the stream, any capacity of the socket  *)
(* and any command line.                                                   *)
(*                                                                         *)
(* The heart of the invariant is Linked: while the client reads, what is   *)
(* printed and what is on the socket, one after the other, are what the    *)
(* stream has yielded, followed by at most one line that ends the answer.  *)
(*                                                                         *)
(* The heart of the proof about the command line is that a sequence made   *)
(* of pieces is read back piece by piece (Laid, Rebuilt): each option is   *)
(* one piece of the words as they are typed, one of the words as they are  *)
(* packed and one of what the parser finds, and normalize_args and         *)
(* try_parse_from, defined by recursion from the end, turn the rest of the *)
(* one into the rest of the other.                                         *)
(***************************************************************************)
EXTENDS Client, FiniteSetTheorems, WellFoundedInduction, TLAPS

Kinds == {"eval", "watch", "query", "diff", "daemon", "worker"}
Yields == Responses \union {Failure}
Lines == Responses \union {Done, Failure, Cut}
Handling == {"request", "open", "stream", "settle", "close", "failed"}

Typed ==
    /\ path \in {"live", "stale", "none"}
    /\ pc \in {"parse", "server", "prepare", "connect", "write", "read", "local", "exited"}
    /\ code \in {"none", "ok", "failed"}
    /\ ends \subseteq {"client", "daemon"} /\ unread \in BOOLEAN
    /\ chan \in Seq(Lines) /\ made \in Seq(Yields) /\ printed \in Seq(Responses)
    /\ handler \in Handling \union {"none", "over"}
    /\ stream \in {"unopened", "live", "ended", "lost"}
    /\ stdout \in {"open", "closed", "failing"}
    /\ evaluated \in {{}, {"client"}, {"daemon"}}

(* The plan: replay is only ever planned for a daemon. *)
PlanInv ==
    /\ at \in {"typed", "packed", "parsed"} => command \in Commands
    /\ at = "planned" =>
         /\ plan.command \in Kinds
         /\ plan.command = "eval" => /\ plan.replay \in BOOLEAN /\ plan.use_daemon \in BOOLEAN
                                     /\ plan.replay => plan.use_daemon
         /\ plan.command = "watch" => plan.use_daemon \in BOOLEAN

Early == {"parse", "server", "prepare", "connect"}

(* Which state belongs to which place of the client and of the handler. *)
PhaseInv ==
    /\ pc \in Early => stream = "unopened" /\ printed = <<>>
    /\ pc \in Early \union {"local"} => ends = {} /\ handler = "none" /\ chan = <<>>
    /\ pc = "write" => printed = <<>>
    /\ "client" \in ends <=> pc \in {"write", "read"}
    /\ handler \in Handling => "daemon" \in ends
    /\ "daemon" \in ends /\ handler \in {"none", "request", "open"} => stream = "unopened"
    /\ handler = "none" => chan = <<>>
    /\ handler = "settle" => stream = "ended"
    /\ stream = "unopened" => made = <<>> /\ evaluated = {}
    /\ pc # "exited" => code = "none"

(* The request is known once it is prepared; one that cannot fall back is for
   the daemon. *)
RequestInv ==
    /\ pc \in {"parse", "server"} => request = None
    /\ pc \notin {"parse", "server", "exited"} => request \in Requests
    /\ pc = "exited" => \/ request \in Requests
                        \/ request = None /\ code = "failed" /\ stream = "unopened" /\ ends = {}
    /\ request \in Requests =>
         /\ MayFallBack \/ request.use_daemon
         /\ pc = "local" => MayFallBack
         /\ ~MayFallBack => "client" \notin evaluated
         /\ ~Evaluating => evaluated = {}

(* The socket holds at most one line more than its capacity, a cut one. *)
SocketInv ==
    /\ Len(chan) <= Capacity + 1 /\ (Len(chan) <= Capacity \/ Cut \in Range(chan))
    /\ Cut \in Range(chan) => handler = "over"

Prefix ==
    /\ Len(printed) <= Len(made)
    /\ \A i \in 1..Len(printed) : printed[i] = made[i]

(* The line that ends an answer. *)
Final ==
    /\ handler \in {"close", "over"} /\ chan # <<>>
    /\ chan[Len(chan)] \in {Done, Failure, Cut}
    /\ chan[Len(chan)] = Done => stream = "ended"

Linked ==
    /\ \A i \in 1..Len(chan) : Len(printed) + i <= Len(made) => chan[i] = made[Len(printed) + i]
    /\ \/ Len(printed) + Len(chan) = Len(made)
       \/ Len(printed) + Len(chan) = Len(made) + 1 /\ Final

OutputInv ==
    /\ Prefix
    /\ pc \in {"write", "read"} => Linked
    /\ pc = "local" => printed = made
    /\ code = "ok" /\ request.cmd # "watch" /\ stdout # "closed" => stream = "ended" /\ printed = made

ClientInv == Typed /\ PlanInv /\ PhaseInv /\ RequestInv /\ SocketInv /\ OutputInv

-----------------------------------------------------------------------------
(* Lines and sequences of them. *)

LEMMA LineFacts ==
  /\ Done \notin Responses /\ Failure \notin Responses /\ Cut \notin Responses
  /\ Done # Failure /\ Done # Cut /\ Failure # Cut
  /\ \A l \in Responses : l[1] = "Item"
  /\ Done[1] # "Item" /\ Failure[1] # "Item" /\ Cut[1] # "Item"
  /\ \A n \in 1..Items : Item(n) \in Responses
  /\ Responses \subseteq Yields /\ Yields \subseteq Lines /\ Failure \in Yields
  /\ Done \notin Yields /\ Cut \notin Yields
  /\ \A l \in Lines : l[1] = "Item" => l \in Responses
<1>1. /\ Done # Failure /\ Done # Cut /\ Failure # Cut
      /\ Done[1] # "Item" /\ Failure[1] # "Item" /\ Cut[1] # "Item"
  BY DEF Done, Failure, Cut
<1>2. \A l \in Responses : l[1] = "Item"
  BY DEF Responses, Item
<1>3. \A n \in 1..Items : Item(n) \in Responses
  BY DEF Responses
<1>4. Done \notin Responses /\ Failure \notin Responses /\ Cut \notin Responses
  BY <1>1, <1>2
<1> QED
  BY <1>1, <1>2, <1>3, <1>4 DEF Yields, Lines

LEMMA Bounds == Items \in Nat /\ Items > 0 /\ Capacity \in Nat /\ Capacity > 0
  BY ClientAssumption

LEMMA TailFacts ==
  ASSUME NEW S, NEW s \in Seq(S), s # <<>>
  PROVE  /\ Tail(s) \in Seq(S) /\ Len(Tail(s)) = Len(s) - 1 /\ Len(s) \in Nat /\ Len(s) >= 1
         /\ Head(s) = s[1] /\ s[1] \in S
         /\ \A i \in 1..(Len(s) - 1) : Tail(s)[i] = s[i + 1]
  OBVIOUS

LEMMA AppendFacts ==
  ASSUME NEW S, NEW s \in Seq(S), NEW x \in S
  PROVE  /\ Append(s, x) \in Seq(S) /\ Len(Append(s, x)) = Len(s) + 1 /\ Len(s) \in Nat
         /\ Append(s, x) # <<>>
         /\ \A i \in 1..Len(s) : Append(s, x)[i] = s[i]
         /\ Append(s, x)[Len(s) + 1] = x
  OBVIOUS

LEMMA RangeFacts ==
  ASSUME NEW S, NEW s \in Seq(S)
  PROVE  /\ Range(s) \subseteq S
         /\ \A v : v \in Range(s) <=> \E i \in 1..Len(s) : s[i] = v
<1>1. DOMAIN s = 1..Len(s) /\ \A i \in 1..Len(s) : s[i] \in S
  OBVIOUS
<1> QED
  BY <1>1 DEF Range

LEMMA RangeOfTail ==
  ASSUME NEW S, NEW s \in Seq(S), s # <<>>, NEW v \in Range(Tail(s))
  PROVE  v \in Range(s)
<1>1. Tail(s) \in Seq(S) /\ Len(Tail(s)) = Len(s) - 1 /\ Len(s) \in Nat
      /\ \A i \in 1..(Len(s) - 1) : Tail(s)[i] = s[i + 1]
  BY TailFacts
<1>2. PICK i \in 1..(Len(s) - 1) : Tail(s)[i] = v
  BY <1>1, RangeFacts
<1>3. i + 1 \in 1..Len(s) /\ s[i + 1] = v
  BY <1>1, <1>2
<1> QED
  BY <1>3, RangeFacts

LEMMA RangeOfAppend ==
  ASSUME NEW S, NEW s \in Seq(S), NEW x \in S, NEW v
  PROVE  v \in Range(Append(s, x)) <=> v \in Range(s) \/ v = x
<1>1. /\ Append(s, x) \in Seq(S) /\ Len(Append(s, x)) = Len(s) + 1 /\ Len(s) \in Nat
      /\ \A i \in 1..Len(s) : Append(s, x)[i] = s[i]
      /\ Append(s, x)[Len(s) + 1] = x
  BY AppendFacts
<1>p. PICK t \in Seq(S) : t = Append(s, x)
  BY <1>1
<1>r. v \in Range(t) <=> \E i \in 1..Len(t) : t[i] = v
  BY RangeFacts
<1>2. v \in Range(Append(s, x)) <=> \E i \in 1..(Len(s) + 1) : Append(s, x)[i] = v
  BY <1>1, <1>p, <1>r
<1>3. v \in Range(s) <=> \E i \in 1..Len(s) : s[i] = v
  BY RangeFacts
<1>4. \A i \in 1..(Len(s) + 1) : i \in 1..Len(s) \/ i = Len(s) + 1
  BY <1>1
<1>5. \A i \in 1..Len(s) : i \in 1..(Len(s) + 1)
  BY <1>1
<1>6. Len(s) + 1 \in 1..(Len(s) + 1)
  BY <1>1
<1> QED
  BY <1>1, <1>2, <1>3, <1>4, <1>5, <1>6

LEMMA Lengths ==
  ASSUME Typed
  PROVE  Len(chan) \in Nat /\ Len(made) \in Nat /\ Len(printed) \in Nat
  BY DEF Typed

-----------------------------------------------------------------------------
(* Least numbers and induction over them. *)

LEMMA Least ==
  ASSUME NEW T, T \subseteq Nat, T # {}
  PROVE \E n \in T : \A m \in T : n <= m
<1> DEFINE R == {ss \in Nat \X Nat : ss[1] < ss[2]}
<1>1. IsWellFoundedOn(R, Nat)
  BY NatLessThanWellFounded, Zenon DEF OpToRel
<1> HIDE DEF R
<1>2. PICK n \in T : \A y \in T : ~(<<y, n>> \in R)
  BY <1>1, WFMin, Zenon
<1>3. ASSUME NEW m \in T PROVE n <= m
  <2>1. m \in Nat /\ n \in Nat OBVIOUS
  <2>2. SUFFICES ASSUME m < n PROVE FALSE BY <2>1
  <2>3. <<m, n>> \in Nat \X Nat /\ <<m, n>>[1] < <<m, n>>[2] BY <2>1, <2>2
  <2>4. <<m, n>> \in R BY <2>3, Zenon DEF R
  <2> QED BY <2>4, <1>2, Zenon
<1>. QED BY <1>2, <1>3

(* Induction over the numbers, for a set. *)
LEMMA Induct ==
  ASSUME NEW S, 0 \in S, \A n \in Nat : n \in S => n + 1 \in S
  PROVE Nat \subseteq S
<1>1. SUFFICES ASSUME Nat \ S # {} PROVE FALSE OBVIOUS
<1>2. PICK n \in Nat \ S : \A m \in Nat \ S : n <= m BY <1>1, Least
<1>3. n # 0 /\ n - 1 \in Nat /\ n = (n-1)+1 BY <1>2
<1>4. n - 1 \in S BY <1>2, <1>3
<1> QED BY <1>2, <1>3, <1>4

(* W is the pieces F[1], ..., F[n] one after the other, F[k] ending at off[k]. *)
Laid(W, F, off, n) ==
    /\ off \in [0..n -> 0..Len(W)] /\ off[0] = 0 /\ off[n] = Len(W)
    /\ \A k \in 1..n : /\ off[k] = off[k - 1] + Len(F[k])
                       /\ \A j \in 1..Len(F[k]) : W[off[k - 1] + j] = F[k][j]

(* One piece more. *)
LEMMA LaidOne ==
  ASSUME NEW S, NEW n \in Nat, NEW F, F[n + 1] \in Seq(S), NEW W \in Seq(S), NEW off, Laid(W, F, off, n)
  PROVE  \E o : Laid(W \o F[n + 1], F, o, n + 1)
<1> DEFINE V == W \o F[n + 1]
           o == [k \in 0..(n + 1) |-> IF k = n + 1 THEN Len(V) ELSE off[k]]
<1>1. /\ V \in Seq(S) /\ Len(V) = Len(W) + Len(F[n + 1]) /\ Len(W) \in Nat /\ Len(F[n + 1]) \in Nat
      /\ \A i \in 1..Len(W) : V[i] = W[i]
      /\ \A i \in 1..Len(F[n + 1]) : V[Len(W) + i] = F[n + 1][i]
  OBVIOUS
<1> HIDE DEF V
<1>2. /\ off \in [0..n -> 0..Len(W)] /\ off[0] = 0 /\ off[n] = Len(W)
      /\ \A k \in 1..n : /\ off[k] = off[k - 1] + Len(F[k])
                         /\ \A j \in 1..Len(F[k]) : W[off[k - 1] + j] = F[k][j]
  BY DEF Laid
<1>3. \A k \in 0..n : o[k] = off[k] /\ off[k] \in 0..Len(W)
  BY <1>2
<1>4. o[n + 1] = Len(V) /\ DOMAIN o = 0..(n + 1) /\ n + 1 \in 0..(n + 1)
  OBVIOUS
<1>5. o = [k \in 0..(n + 1) |-> o[k]]
  OBVIOUS
<1> HIDE DEF o
<1>6. o \in [0..(n + 1) -> 0..Len(V)]
  <2>1. ASSUME NEW k \in 0..(n + 1) PROVE o[k] \in 0..Len(V)
    <3>1. CASE k = n + 1 BY <1>1, <1>4, <3>1
    <3>2. CASE k # n + 1
      <4>1. k \in 0..n BY <3>2
      <4> QED BY <1>1, <1>3, <4>1
    <3> QED BY <3>1, <3>2
  <2> QED BY <1>5, <2>1
<1>7. o[0] = 0
  BY <1>2, <1>3
<1>8. ASSUME NEW k \in 1..(n + 1)
      PROVE  o[k] = o[k - 1] + Len(F[k]) /\ \A j \in 1..Len(F[k]) : V[o[k - 1] + j] = F[k][j]
  <2>1. CASE k = n + 1
    <3>1. o[k] = Len(V) /\ o[k - 1] = Len(W)
      BY <1>2, <1>3, <1>4, <2>1
    <3> QED BY <1>1, <2>1, <3>1
  <2>2. CASE k # n + 1
    <3>1. k \in 1..n /\ k - 1 \in 0..n /\ k \in 0..n
      BY <2>2
    <3>2. o[k] = off[k] /\ o[k - 1] = off[k - 1] /\ off[k] \in 0..Len(W) /\ off[k - 1] \in 0..Len(W)
      BY <1>3, <3>1
    <3>3. off[k] = off[k - 1] + Len(F[k]) /\ \A j \in 1..Len(F[k]) : W[off[k - 1] + j] = F[k][j]
      BY <1>2, <3>1
    <3>4. ASSUME NEW j \in 1..Len(F[k]) PROVE V[off[k - 1] + j] = F[k][j]
      <4>1. j \in Nat /\ j >= 1 /\ j <= Len(F[k]) /\ Len(F[k]) = off[k] - off[k - 1]
        BY <1>1, <3>2, <3>3
      <4>2. off[k - 1] + j \in 1..Len(W)
        <5>1. Len(W) \in Nat /\ off[k] \in 0..Len(W) /\ off[k - 1] \in 0..Len(W)
          BY <1>1, <3>2
        <5> QED BY ONLY <4>1, <5>1
      <4> QED BY <1>1, <3>3, <4>2
    <3> QED BY <3>2, <3>3, <3>4
  <2> QED BY <2>1, <2>2
<1>9. Laid(V, F, o, n + 1)
  BY <1>4, <1>6, <1>7, <1>8 DEF Laid
<1> QED
  BY <1>9 DEF V

IsFlat(f, F) == f = [i \in 1..Len(F) |-> IF i = 1 THEN F[i] ELSE f[i - 1] \o F[i]]

LEMMA FlatExists ==
  ASSUME NEW S, NEW n \in Nat, n # 0, NEW F \in [1..n -> Seq(S)]
  PROVE  \E f : IsFlat(f, F)
<1> DEFINE Upto(k) == \E f : f = [i \in 1..k |-> IF i = 1 THEN F[i] ELSE f[i - 1] \o F[i]]
           G == {k \in Nat : Upto(k + 1)}
<1>1. Upto(1)
  <2> DEFINE f == [i \in 1..1 |-> F[1]]
  <2>1. f = [i \in 1..1 |-> IF i = 1 THEN F[i] ELSE f[i - 1] \o F[i]]
    OBVIOUS
  <2> QED BY <2>1
<1>2. ASSUME NEW k \in Nat, Upto(k + 1) PROVE Upto(k + 2)
  <2>1. PICK f : f = [i \in 1..(k + 1) |-> IF i = 1 THEN F[i] ELSE f[i - 1] \o F[i]]
    BY <1>2
  <2> DEFINE g == [i \in 1..(k + 2) |-> IF i = k + 2 THEN f[k + 1] \o F[k + 2] ELSE f[i]]
  <2>2. \A i \in 1..(k + 1) : g[i] = f[i]
    OBVIOUS
  <2>3. g[k + 2] = f[k + 1] \o F[k + 2]
    <3>1. k + 2 \in 1..(k + 2)
      OBVIOUS
    <3> QED BY <3>1, Zenon
  <2>4. g = [i \in 1..(k + 2) |-> g[i]]
    OBVIOUS
  <2> HIDE DEF g
  <2>5. ASSUME NEW i \in 1..(k + 2) PROVE g[i] = IF i = 1 THEN F[i] ELSE g[i - 1] \o F[i]
    <3>1. CASE i = k + 2
      <4>1. i # 1 /\ i - 1 = k + 1 /\ k + 1 \in 1..(k + 1) BY <3>1
      <4> QED BY <2>2, <2>3, <3>1, <4>1
    <3>2. CASE i # k + 2
      <4>1. i \in 1..(k + 1) BY <3>2
      <4>2. f[i] = IF i = 1 THEN F[i] ELSE f[i - 1] \o F[i] BY <2>1, <4>1
      <4>3. i # 1 => i - 1 \in 1..(k + 1) BY <4>1
      <4> QED BY <2>2, <4>1, <4>2, <4>3
    <3> QED BY <3>1, <3>2
  <2>6. g = [i \in 1..(k + 2) |-> IF i = 1 THEN F[i] ELSE g[i - 1] \o F[i]]
    BY <2>4, <2>5
  <2> QED BY <2>6
<1> HIDE DEF Upto
<1>3. 0 \in G
  <2>1. 0 + 1 = 1 OBVIOUS
  <2> QED BY <1>1, <2>1
<1>4. ASSUME NEW k \in Nat, k \in G PROVE k + 1 \in G
  <2>1. (k + 1) + 1 = k + 2 OBVIOUS
  <2> QED BY <1>2, <1>4, <2>1
<1>5. Nat \subseteq G
  BY <1>3, <1>4, Induct
<1>6. n - 1 \in Nat /\ (n - 1) + 1 = n
  OBVIOUS
<1>7. Upto(n)
  BY <1>5, <1>6
<1>8. Len(F) = n
  OBVIOUS
<1> QED
  BY <1>7, <1>8 DEF Upto, IsFlat

(* FlattenSeq lays its pieces one after the other. *)
LEMMA Flattened ==
  ASSUME NEW S, NEW n \in Nat, NEW F \in [1..n -> Seq(S)]
  PROVE  FlattenSeq(F) \in Seq(S) /\ \E off : Laid(FlattenSeq(F), F, off, n)
<1>l. Len(F) = n
  OBVIOUS
<1>1. CASE n = 0
  <2>1. FlattenSeq(F) = F
    BY <1>l, <1>1 DEF FlattenSeq
  <2>2. F = <<>> /\ F \in Seq(S) /\ Len(F) = 0
    BY <1>1
  <2> DEFINE off == [k \in 0..0 |-> 0]
  <2>3. off \in [0..0 -> 0..0] /\ off[0] = 0 /\ 1..0 = {}
    OBVIOUS
  <2> HIDE DEF off
  <2>4. Laid(F, F, off, n)
    BY <1>1, <2>2, <2>3 DEF Laid
  <2> QED BY <2>1, <2>2, <2>4
<1>2. CASE n # 0
  <2> DEFINE f == CHOOSE g : IsFlat(g, F)
  <2>1. IsFlat(f, F)
    BY <1>2, FlatExists, Zenon
  <2>2. FlattenSeq(F) = f[n]
    <3>1. Len(F) # 0 BY <1>l, <1>2
    <3>2. FlattenSeq(F) = f[Len(F)] BY <3>1, Zenon DEF FlattenSeq, IsFlat
    <3> QED BY <1>l, <3>2
  <2> HIDE DEF f
  <2>3. \A i \in 1..n : f[i] = IF i = 1 THEN F[i] ELSE f[i - 1] \o F[i]
    BY <1>l, <2>1 DEF IsFlat
  <2> DEFINE Good(k) == f[k] \in Seq(S) /\ \E off : Laid(f[k], F, off, k)
             G == {k \in Nat : k + 1 <= n => Good(k + 1)}
  <2>4. Good(1)
    <3> DEFINE off == [k \in 0..0 |-> 0]
    <3>1. off \in [0..0 -> 0..0] /\ off[0] = 0 /\ 1..0 = {} /\ <<>> \in Seq(S) /\ Len(<<>>) = 0
      OBVIOUS
    <3> HIDE DEF off
    <3>2. Laid(<<>>, F, off, 0)
      BY <3>1 DEF Laid
    <3>3. F[1] \in Seq(S) /\ 1 \in 1..n
      BY <1>2
    <3>w. PICK W \in Seq(S) : W = <<>>
      BY <3>1
    <3>p. PICK z \in Nat : z = 0 /\ z + 1 = 1
      OBVIOUS
    <3>4. \E o : Laid(W \o F[z + 1], F, o, z + 1)
      <4>1. Laid(W, F, off, z) /\ F[z + 1] \in Seq(S)
        BY <3>2, <3>3, <3>p, <3>w
      <4> QED BY <4>1, LaidOne
    <3>5. <<>> \o F[1] = F[1] /\ 0 + 1 = 1
      BY <3>3
    <3>6. f[1] = F[1]
      BY <2>3, <3>3
    <3> QED BY <3>3, <3>4, <3>5, <3>6, <3>p, <3>w
  <2>5. ASSUME NEW k \in Nat, k + 2 <= n, Good(k + 1) PROVE Good(k + 2)
    <3>1. k + 1 \in Nat /\ (k + 1) + 1 = k + 2 /\ k + 2 \in 1..n /\ k + 2 # 1 /\ (k + 2) - 1 = k + 1
      BY <2>5
    <3>2. F[k + 2] \in Seq(S) /\ f[k + 2] = f[k + 1] \o F[k + 2]
      BY <2>3, <3>1
    <3>3. PICK off : Laid(f[k + 1], F, off, k + 1)
      BY <2>5
    <3>p. PICK K \in Nat : K = k + 1 /\ K + 1 = k + 2
      BY <3>1
    <3>q. f[K] \in Seq(S) /\ Laid(f[K], F, off, K) /\ F[K + 1] \in Seq(S)
      BY <2>5, <3>2, <3>3, <3>p
    <3>4. \E o : Laid(f[K] \o F[K + 1], F, o, K + 1)
      BY <3>q, LaidOne
    <3>5. f[k + 2] \in Seq(S)
      BY <2>5, <3>2
    <3> QED BY <3>2, <3>4, <3>5, <3>p
  <2> HIDE DEF Good
  <2>6. 0 \in G
    <3>1. 0 + 1 = 1 OBVIOUS
    <3> QED BY <2>4, <3>1
  <2>7. ASSUME NEW k \in Nat, k \in G PROVE k + 1 \in G
    <3>1. (k + 1) + 1 = k + 2 /\ (k + 2 <= n => k + 1 <= n) /\ k + 1 \in Nat OBVIOUS
    <3>2. k + 2 <= n => Good(k + 2) BY <2>5, <2>7, <3>1
    <3> QED BY <3>1, <3>2
  <2>8. Nat \subseteq G
    BY <2>6, <2>7, Induct
  <2>9. n - 1 \in Nat /\ (n - 1) + 1 = n /\ n <= n
    BY <1>2
  <2>10. Good(n)
    BY <2>8, <2>9
  <2> QED BY <2>2, <2>10 DEF Good
<1> QED
  BY <1>1, <1>2

(* A table that is filled from the right: what it says at i is made of what it
   says further on, unless it stops there. *)
RightEntry(s, stop, pre, next, i) == IF stop[i] THEN pre[i] ELSE pre[i] \o s[next[i]]

Filled(s, M, stop, pre, next) == s = [i \in 1..M |-> RightEntry(s, stop, pre, next, i)]

Onward(M, stop, next) == \A i \in 1..M : ~stop[i] => next[i] \in (i + 1)..M

LEMMA RightTable ==
  ASSUME NEW M \in Nat, NEW stop, NEW pre, NEW next, Onward(M, stop, next)
  PROVE  \E s : Filled(s, M, stop, pre, next)
<1>o. \A i \in 1..M : ~stop[i] => next[i] \in (i + 1)..M
  BY DEF Onward
<1> DEFINE Upto(k) == \E s : s = [i \in (M - k + 1)..M |-> RightEntry(s, stop, pre, next, i)]
           G == {k \in Nat : k <= M => Upto(k)}
<1>1. Upto(0)
  <2> DEFINE s == [i \in {} |-> 0]
  <2>1. (M - 0 + 1)..M = {}
    OBVIOUS
  <2>2. s = [i \in (M - 0 + 1)..M |-> RightEntry(s, stop, pre, next, i)]
    BY <2>1
  <2> QED BY <2>2
<1>2. ASSUME NEW k \in Nat, k + 1 <= M, Upto(k) PROVE Upto(k + 1)
  <2>1. PICK s : s = [i \in (M - k + 1)..M |-> RightEntry(s, stop, pre, next, i)]
    BY <1>2
  <2>p. PICK a \in 1..M : a = M - k /\ a + 1 = M - k + 1 /\ M - (k + 1) + 1 = a
    BY <1>2
  <2> DEFINE t == [i \in a..M |-> IF i = a THEN RightEntry(s, stop, pre, next, a) ELSE s[i]]
  <2>2. \A i \in (a + 1)..M : t[i] = s[i]
    BY <2>p
  <2>3. t[a] = RightEntry(s, stop, pre, next, a)
    <3>1. a \in a..M BY <2>p
    <3> QED BY <3>1, Zenon
  <2>4. t = [i \in a..M |-> t[i]]
    BY Zenon
  <2> HIDE DEF t
  <2>5. ASSUME NEW i \in a..M PROVE t[i] = RightEntry(t, stop, pre, next, i)
    <3>0. i \in 1..M /\ (~stop[i] => next[i] \in (i + 1)..M)
      BY <1>o, <2>p
    <3>1. ~stop[i] => next[i] \in (a + 1)..M
      BY <2>p, <3>0
    <3>2. ~stop[i] => t[next[i]] = s[next[i]]
      BY <2>2, <3>1
    <3>3. RightEntry(t, stop, pre, next, i) = RightEntry(s, stop, pre, next, i)
      BY <3>2, Zenon DEF RightEntry
    <3>4. CASE i = a BY <2>3, <3>3, <3>4
    <3>5. CASE i # a
      <4>1. i \in (a + 1)..M BY <2>p, <3>5
      <4>2. i \in (M - k + 1)..M BY <2>p, <4>1
      <4>3. s[i] = RightEntry(s, stop, pre, next, i) BY <2>1, <4>2, Zenon
      <4> QED BY <2>2, <3>3, <4>1, <4>3
    <3> QED BY <3>4, <3>5
  <2>6. t = [i \in a..M |-> RightEntry(t, stop, pre, next, i)]
    BY <2>4, <2>5, Zenon
  <2> QED BY <2>6, <2>p
<1> HIDE DEF Upto
<1>3. 0 \in G
  BY <1>1
<1>4. ASSUME NEW k \in Nat, k \in G PROVE k + 1 \in G
  <2>1. k + 1 <= M => k <= M OBVIOUS
  <2>2. k + 1 <= M => Upto(k + 1) BY <1>2, <1>4, <2>1
  <2> QED BY <2>2
<1>5. Nat \subseteq G
  BY <1>3, <1>4, Induct
<1>6. Upto(M)
  BY <1>5
<1>7. M - M + 1 = 1
  OBVIOUS
<1> QED
  BY <1>6, <1>7 DEF Upto, Filled

(* The rest of W from off[k] on. *)
Rest(W, off, k) == [j \in 1..(Len(W) - off[k]) |-> W[off[k] + j]]

LEMMA Shift ==
  ASSUME NEW a \in Nat, NEW b \in Nat, NEW l \in Nat, NEW m \in Nat, b = a + l, b <= m
  PROVE  /\ l + (m - b) = m - a
         /\ \A j \in 1..(m - a) : ~(j <= l) => \E i \in 1..(m - b) : j = l + i /\ b + i = a + j
<1>1. ASSUME NEW j \in 1..(m - a), ~(j <= l)
      PROVE  j - l \in 1..(m - b) /\ j = l + (j - l) /\ b + (j - l) = a + j
  BY <1>1
<1> QED
  BY <1>1

LEMMA RestStep ==
  ASSUME NEW S, NEW n \in Nat, NEW W \in Seq(S), NEW F, NEW off, Laid(W, F, off, n),
         NEW k \in 1..n, F[k] \in Seq(S)
  PROVE  Rest(W, off, k - 1) = F[k] \o Rest(W, off, k)
<1>0. k - 1 \in 0..n /\ k \in 0..n
  OBVIOUS
<1>l. /\ off \in [0..n -> 0..Len(W)]
      /\ off[k] = off[k - 1] + Len(F[k])
      /\ \A j \in 1..Len(F[k]) : W[off[k - 1] + j] = F[k][j]
  BY DEF Laid
<1>1. off[k - 1] \in 0..Len(W) /\ off[k] \in 0..Len(W) /\ Len(W) \in Nat /\ Len(F[k]) \in Nat
  BY <1>0, <1>l
<1>p. PICK a \in Nat, b \in Nat, l \in Nat, m \in Nat :
        a = off[k - 1] /\ b = off[k] /\ l = Len(F[k]) /\ m = Len(W) /\ b = a + l /\ b <= m
  BY <1>l, <1>1
<1>a. b = a + l /\ b <= m
  BY <1>p
<1>s. /\ l + (m - b) = m - a
      /\ \A j \in 1..(m - a) : ~(j <= l) => \E i \in 1..(m - b) : j = l + i /\ b + i = a + j
  BY ONLY <1>a, Shift, a \in Nat, b \in Nat, l \in Nat, m \in Nat
<1>2. Rest(W, off, k) \in Seq(S) /\ Len(Rest(W, off, k)) = m - b
      /\ \A j \in 1..(m - b) : Rest(W, off, k)[j] = W[b + j]
  <2>1. \A j \in 1..(m - b) : b + j \in 1..m
    BY ONLY <1>a, a \in Nat, b \in Nat, m \in Nat
  <2>2. \A j \in 1..(m - b) : W[b + j] \in S
    BY <2>1, <1>p
  <2>3. Rest(W, off, k) = [j \in 1..(m - b) |-> W[b + j]]
    BY <1>p DEF Rest
  <2>4. m - b \in Nat
    BY <1>p
  <2> QED BY <2>2, <2>3, <2>4
<1>3. Rest(W, off, k - 1) = [j \in 1..(m - a) |-> W[a + j]]
  BY <1>p DEF Rest
<1>q. PICK T \in Seq(S) : T = Rest(W, off, k)
  BY <1>2
<1> DEFINE V == F[k] \o T
<1>4. /\ V \in Seq(S) /\ Len(V) = l + Len(T)
      /\ \A j \in 1..l : V[j] = F[k][j]
      /\ \A j \in 1..Len(T) : V[l + j] = T[j]
  BY <1>p
<1> HIDE DEF V
<1>5. Len(T) = m - b /\ Len(V) = m - a
  <2>1. Len(T) = m - b
    BY <1>2, <1>q
  <2> QED BY <1>4, <1>s, <2>1
<1>6. ASSUME NEW j \in 1..(m - a) PROVE V[j] = W[a + j]
  <2>1. CASE j <= l
    <3>1. j \in 1..l BY <2>1, <1>p
    <3>2. F[k][j] = W[a + j] BY <1>l, <1>p, <3>1
    <3> QED BY <1>4, <3>1, <3>2
  <2>2. CASE ~(j <= l)
    <3>p. PICK i \in 1..(m - b) : j = l + i /\ b + i = a + j
      BY <1>s, <2>2, Zenon
    <3>2. T[i] = W[b + i] BY <1>2, <1>q
    <3>3. V[l + i] = T[i] BY <1>4, <1>5
    <3> QED BY <3>2, <3>3, <3>p
  <2> QED BY <2>1, <2>2
<1>7. V = [j \in 1..(m - a) |-> V[j]]
  <2>1. V = [j \in 1..Len(V) |-> V[j]]
    BY <1>4
  <2> QED BY <1>5, <2>1
<1>8. V = [j \in 1..(m - a) |-> W[a + j]]
  BY <1>6, <1>7
<1> QED
  BY <1>3, <1>8, <1>q DEF V

(* What is built from the right, piece by piece, is what is laid out, unless
   one of its pieces is refused. *)
Builds(R, F, n, Bad) ==
    /\ R[n] = <<>> /\ Bad \in SUBSET (1..n)
    /\ \A k \in Bad : R[k - 1] = <<Refused>>
    /\ \A k \in (1..n) \ Bad : R[k - 1] = F[k] \o R[k]

LEMMA Rebuilt ==
  ASSUME NEW S, Refused \notin S, NEW n \in Nat, NEW W \in Seq(S), NEW F \in [1..n -> Seq(S)],
         NEW off, Laid(W, F, off, n), NEW R, NEW Bad, Builds(R, F, n, Bad)
  PROVE  /\ Bad = {} => R[0] = W /\ \A i \in DOMAIN W : W[i] # Refused
         /\ Bad # {} => \E i \in DOMAIN R[0] : R[0][i] = Refused
<1>b. /\ R[n] = <<>> /\ Bad \in SUBSET (1..n)
      /\ \A k \in Bad : R[k - 1] = <<Refused>>
      /\ \A k \in (1..n) \ Bad : R[k - 1] = F[k] \o R[k]
  BY DEF Builds
<1>r. /\ \A i \in DOMAIN W : W[i] # Refused
      /\ Len(W) \in Nat /\ off[0] = 0 /\ off[n] = Len(W)
  BY DEF Laid
<1>1. ASSUME Bad = {} PROVE R[0] = W
  <2> DEFINE G == {d \in Nat : d <= n => R[n - d] = Rest(W, off, n - d)}
  <2>1. 0 \in G
    <3>1. Len(W) - off[n] = 0 /\ 1..0 = {} /\ n - 0 = n BY <1>r
    <3>2. Rest(W, off, n) = <<>> BY <3>1 DEF Rest
    <3> QED BY <1>b, <3>1, <3>2
  <2>2. ASSUME NEW d \in Nat, d \in G PROVE d + 1 \in G
    <3>1. SUFFICES ASSUME d + 1 <= n PROVE R[n - (d + 1)] = Rest(W, off, n - (d + 1))
      OBVIOUS
    <3>p. PICK k \in 1..n : k = n - d /\ k - 1 = n - (d + 1)
      BY <3>1
    <3>2. R[k] = Rest(W, off, k)
      BY <2>2, <3>1, <3>p
    <3>3. R[k - 1] = F[k] \o R[k]
      BY <1>1, <1>b
    <3>4. Rest(W, off, k - 1) = F[k] \o Rest(W, off, k)
      <4>1. F[k] \in Seq(S)
        OBVIOUS
      <4>2. Laid(W, F, off, n)
        OBVIOUS
      <4> HIDE DEF G
      <4> QED BY <4>1, <4>2, RestStep
    <3> QED BY <3>2, <3>3, <3>4, <3>p
  <2>3. Nat \subseteq G
    BY <2>1, <2>2, Induct
  <2>4. n \in G /\ n - n = 0
    BY <2>3
  <2>5. R[0] = Rest(W, off, 0)
    BY <2>4
  <2>6. Rest(W, off, 0) = W
    <3>1. Rest(W, off, 0) = [j \in 1..Len(W) |-> W[j]]
      BY <1>r DEF Rest
    <3> QED BY <3>1
  <2> QED BY <2>5, <2>6
<1>2. ASSUME NEW b \in Bad PROVE \E i \in DOMAIN R[0] : R[0][i] = Refused
  <2>0. b \in 1..n
    BY <1>b
  <2> DEFINE T == S \union {Refused}
             Has(k) == R[k] \in Seq(T) /\ \E i \in 1..Len(R[k]) : R[k][i] = Refused
             G == {d \in Nat : d <= b - 1 => Has(b - 1 - d)}
  <2>1. Has(b - 1)
    <3>1. R[b - 1] = <<Refused>>
      BY <1>b
    <3>2. <<Refused>> \in Seq(T) /\ 1 \in 1..Len(<<Refused>>) /\ <<Refused>>[1] = Refused
      OBVIOUS
    <3> QED BY <3>1, <3>2
  <2>2. ASSUME NEW k \in 1..n, Has(k) PROVE Has(k - 1)
    <3>1. CASE k \in Bad
      <4>1. R[k - 1] = <<Refused>>
        BY <1>b, <3>1
      <4>2. <<Refused>> \in Seq(T) /\ 1 \in 1..Len(<<Refused>>) /\ <<Refused>>[1] = Refused
        OBVIOUS
      <4> QED BY <4>1, <4>2
    <3>2. CASE k \notin Bad
      <4>1. R[k - 1] = F[k] \o R[k]
        BY <1>b, <3>2
      <4>2. F[k] \in Seq(T)
        OBVIOUS
      <4>3. PICK i \in 1..Len(R[k]) : R[k][i] = Refused
        BY <2>2
      <4>p. PICK u \in Seq(T), v \in Seq(T) : u = F[k] /\ v = R[k]
        BY <2>2, <4>2
      <4>4. u \o v \in Seq(T) /\ Len(u) + i \in 1..Len(u \o v) /\ (u \o v)[Len(u) + i] = v[i]
        BY <4>3, <4>p
      <4> QED BY <4>1, <4>3, <4>4, <4>p
    <3> QED BY <3>1, <3>2
  <2> HIDE DEF Has
  <2>3. 0 \in G
    <3>1. b - 1 - 0 = b - 1 BY <2>0
    <3> QED BY <2>1, <3>1
  <2>4. ASSUME NEW d \in Nat, d \in G PROVE d + 1 \in G
    <3>1. SUFFICES ASSUME d + 1 <= b - 1 PROVE Has(b - 1 - (d + 1))
      OBVIOUS
    <3>p. PICK k \in 1..n : k = b - 1 - d /\ k - 1 = b - 1 - (d + 1) /\ d <= b - 1
      BY <2>0, <3>1
    <3>2. Has(k)
      BY <2>4, <3>p
    <3> QED BY <2>2, <3>2, <3>p
  <2>5. Nat \subseteq G
    BY <2>3, <2>4, Induct
  <2>6. b - 1 \in Nat /\ b - 1 - (b - 1) = 0 /\ b - 1 <= b - 1
    BY <2>0
  <2>7. Has(0)
    BY <2>5, <2>6
  <2>8. DOMAIN R[0] = 1..Len(R[0])
    BY <2>7 DEF Has
  <2> QED BY <2>7, <2>8 DEF Has
<1> QED
  BY <1>r, <1>1, <1>2

(* Where it does not stop it is a sequence too. *)
LEMMA RightSeq ==
  ASSUME NEW M \in Nat, NEW stop, NEW pre, NEW next, NEW T, Onward(M, stop, next),
         \A i \in 1..M : pre[i] \in Seq(T),
         NEW s, Filled(s, M, stop, pre, next)
  PROVE  \A i \in 1..M : s[i] \in Seq(T)
<1>f. s = [i \in 1..M |-> RightEntry(s, stop, pre, next, i)]
  BY DEF Filled
<1> DEFINE G == {k \in Nat : \A i \in 1..M : i >= M - k => s[i] \in Seq(T)}
<1>1. ASSUME NEW i \in 1..M, \A j \in (i + 1)..M : s[j] \in Seq(T) PROVE s[i] \in Seq(T)
  <2>1. s[i] = RightEntry(s, stop, pre, next, i)
    BY <1>f, Zenon
  <2>2. CASE stop[i]
    <3>1. s[i] = pre[i] BY <2>1, <2>2, Zenon DEF RightEntry
    <3> QED BY <3>1
  <2>3. CASE ~stop[i]
    <3>1. s[i] = pre[i] \o s[next[i]] BY <2>1, <2>3, Zenon DEF RightEntry
    <3>2. s[next[i]] \in Seq(T) BY <1>1, <2>3, Zenon DEF Onward
    <3>3. pre[i] \in Seq(T) OBVIOUS
    <3>4. \A u, v \in Seq(T) : u \o v \in Seq(T) OBVIOUS
    <3> QED BY <3>1, <3>2, <3>3, <3>4, Zenon
  <2> QED BY <2>2, <2>3
<1>2. 0 \in G
  <2>1. ASSUME NEW i \in 1..M, i >= M - 0 PROVE s[i] \in Seq(T)
    <3>1. (i + 1)..M = {} BY <2>1
    <3> QED BY <1>1, <3>1
  <2> QED BY <2>1
<1>3. ASSUME NEW k \in Nat, k \in G PROVE k + 1 \in G
  <2>1. ASSUME NEW i \in 1..M, i >= M - (k + 1) PROVE s[i] \in Seq(T)
    <3>1. ASSUME NEW j \in (i + 1)..M PROVE s[j] \in Seq(T)
      <4>1. j \in 1..M /\ j >= M - k BY <2>1
      <4> QED BY <1>3, <4>1
    <3> QED BY <1>1, <3>1
  <2> QED BY <2>1
<1>4. Nat \subseteq G
  BY <1>2, <1>3, Induct
<1>5. \A i \in 1..M : i >= M - M
  OBVIOUS
<1> QED
  BY <1>4, <1>5

(* One and two pieces before the rest. *)
LEMMA AtMostOne ==
  ASSUME NEW T, NEW x \in T, NEW q, q = <<>> \/ q = <<x>>
  PROVE  q \in Seq(T)
<1>1. <<>> \in Seq(T) /\ <<x>> \in Seq(T)
  OBVIOUS
<1> QED BY <1>1, Zenon

LEMMA OneBefore ==
  ASSUME NEW S, NEW F \in Seq(S), NEW r \in Seq(S), Len(F) = 1
  PROVE  <<F[1]>> \o r = F \o r
<1>1. F = <<F[1]>>
  OBVIOUS
<1> QED BY <1>1

LEMMA TwoBefore ==
  ASSUME NEW S, NEW F \in Seq(S), NEW r \in Seq(S), Len(F) = 2
  PROVE  <<F[1]>> \o (<<F[2]>> \o r) = F \o r
<1>1. F = <<F[1], F[2]>> /\ F[1] \in S /\ F[2] \in S
  OBVIOUS
<1>p. PICK x \in S, y \in S : x = F[1] /\ y = F[2]
  BY <1>1
<1> DEFINE q == <<y>> \o r
           u == <<x>> \o q
           v == <<x, y>> \o r
<1>2. q \in Seq(S) /\ Len(q) = 1 + Len(r) /\ q[1] = y /\ \A j \in 1..Len(r) : q[1 + j] = r[j]
  OBVIOUS
<1> HIDE DEF q
<1>3. u \in Seq(S) /\ Len(u) = 1 + Len(q) /\ u[1] = x /\ \A j \in 1..Len(q) : u[1 + j] = q[j]
  BY <1>2
<1> HIDE DEF u
<1>4. v \in Seq(S) /\ Len(v) = 2 + Len(r) /\ v[1] = x /\ v[2] = y /\ \A j \in 1..Len(r) : v[2 + j] = r[j]
  OBVIOUS
<1> HIDE DEF v
<1>5. Len(u) = Len(v) /\ Len(r) \in Nat
  BY <1>2, <1>3, <1>4
<1>6. ASSUME NEW i \in 1..Len(v) PROVE u[i] = v[i]
  <2>1. CASE i = 1 BY <1>3, <1>4, <2>1
  <2>2. CASE i = 2
    <3>1. 1 \in 1..Len(q) /\ 1 + 1 = 2 BY <1>2, <1>5
    <3>2. u[1 + 1] = q[1] BY <1>3, <3>1
    <3> QED BY <1>2, <1>4, <2>2, <3>1, <3>2
  <2>3. CASE i # 1 /\ i # 2
    <3>p. PICK j \in 1..Len(r) : i = 2 + j /\ i = 1 + (1 + j) /\ 1 + j \in 1..Len(q)
      <4>1. i - 2 \in 1..Len(r) /\ i = 2 + (i - 2) /\ i = 1 + (1 + (i - 2)) /\ 1 + (i - 2) \in 1..Len(q)
        BY <1>2, <1>4, <1>5, <2>3
      <4> QED BY <4>1
    <3>1. u[1 + (1 + j)] = q[1 + j] /\ q[1 + j] = r[j] /\ v[2 + j] = r[j]
      BY <1>2, <1>3, <1>4, <3>p
    <3> QED BY <3>1, <3>p
  <2> QED BY <2>1, <2>2, <2>3
<1>7. u = [i \in 1..Len(u) |-> u[i]] /\ v = [i \in 1..Len(v) |-> v[i]]
  BY <1>3, <1>4
<1>8. u = v
  BY <1>5, <1>6, <1>7
<1> QED
  BY <1>1, <1>8, <1>p DEF u, v, q

-----------------------------------------------------------------------------
(* The table of normalize_args. *)

More(args, i) == packed_arity(args[i].text) - (IF args[i].eq = None THEN 0 ELSE 1)

Packs(args, i) == i + More(args, i) <= Len(args) /\ pack(collect_packed_values(args, i)) # None

NormEntry(s, args, i) ==
    IF i = Len(args) + 1 THEN <<>>
    ELSE LET arity == packed_arity(args[i].text)
             more == arity - (IF args[i].eq = None THEN 0 ELSE 1)
         IN IF arity = 0 THEN <<args[i]>> \o s[i + 1]
            ELSE IF i + more > Len(args) \/ pack(collect_packed_values(args, i)) = None
            THEN <<Refused>>
            ELSE <<[text |-> args[i].text, packed |-> pack(collect_packed_values(args, i))]>>
                   \o s[i + more + 1]

IsNorm(s, args) == s = [i \in 1..(Len(args) + 1) |-> NormEntry(s, args, i)]

LEMMA Arities ==
  ASSUME NEW f
  PROVE  packed_arity(f) \in {0, 2, 3}
<1>1. CASE f \in {"--arg", "--argstr", "--override-input", "--option"}
  BY <1>1 DEF packed_arity
<1>2. CASE f = "--remote"
  BY <1>2 DEF packed_arity
<1>3. CASE f \notin {"--arg", "--argstr", "--override-input", "--option", "--remote"}
  BY <1>3 DEF packed_arity
<1> QED
  BY <1>1, <1>2, <1>3

LEMMA NormCases ==
  ASSUME NEW s, NEW args, Len(args) \in Nat, NEW i \in 1..(Len(args) + 1)
  PROVE  /\ i = Len(args) + 1 => NormEntry(s, args, i) = <<>>
         /\ i # Len(args) + 1 /\ packed_arity(args[i].text) = 0 =>
              NormEntry(s, args, i) = <<args[i]>> \o s[i + 1]
         /\ i # Len(args) + 1 /\ packed_arity(args[i].text) # 0 /\ ~Packs(args, i) =>
              NormEntry(s, args, i) = <<Refused>>
         /\ i # Len(args) + 1 /\ packed_arity(args[i].text) # 0 /\ Packs(args, i) =>
              NormEntry(s, args, i) =
                <<[text |-> args[i].text, packed |-> pack(collect_packed_values(args, i))]>>
                  \o s[i + More(args, i) + 1]
<1>1. More(args, i) \in Int /\ ((i + More(args, i) > Len(args)) <=> ~(i + More(args, i) <= Len(args)))
  <2>1. packed_arity(args[i].text) \in {0, 2, 3} BY Arities
  <2>2. (IF args[i].eq = None THEN 0 ELSE 1) \in Int OBVIOUS
  <2>p. PICK r \in Int, d \in Int : r = packed_arity(args[i].text) /\ d = (IF args[i].eq = None THEN 0 ELSE 1)
    BY <2>1, <2>2
  <2>3. More(args, i) = r - d BY <2>p DEF More
  <2> QED BY <2>3
<1> QED
  BY <1>1, Zenon DEF NormEntry, Packs, More

LEMMA NormTable ==
  ASSUME NEW args, Len(args) \in Nat
  PROVE  \E s, T : /\ normalize_args(args) = s[1]
                   /\ \A i \in 1..(Len(args) + 1) : s[i] = NormEntry(s, args, i) /\ s[i] \in Seq(T)
<1>p. PICK M \in Nat : M = Len(args) + 1
  OBVIOUS
<1> DEFINE Stops(i) == i = M \/ (packed_arity(args[i].text) # 0 /\ ~Packs(args, i))
           Out(i) == IF packed_arity(args[i].text) = 0 THEN args[i]
                     ELSE IF Packs(args, i)
                     THEN [text |-> args[i].text, packed |-> pack(collect_packed_values(args, i))]
                     ELSE Refused
           T == {Out(i) : i \in 1..M}
           Pre(i) == IF i = M THEN <<>> ELSE <<Out(i)>>
           Next1(i) == IF packed_arity(args[i].text) = 0 THEN i + 1 ELSE i + More(args, i) + 1
           stop == [i \in 1..M |-> Stops(i)]
           pre == [i \in 1..M |-> Pre(i)]
           next == [i \in 1..M |-> Next1(i)]
<1>1. ASSUME NEW i \in 1..M, ~stop[i] PROVE next[i] \in (i + 1)..M
  <2>1. ~Stops(i) /\ next[i] = Next1(i)
    BY <1>1, Zenon
  <2>2. i # M
    BY <2>1
  <2>3. CASE packed_arity(args[i].text) = 0
    BY <1>p, <2>1, <2>2, <2>3
  <2>4. CASE packed_arity(args[i].text) # 0
    <3>1. Packs(args, i) /\ next[i] = i + More(args, i) + 1
      BY <2>1, <2>4, Zenon
    <3>2. packed_arity(args[i].text) \in {2, 3}
      BY <2>4, Arities
    <3>3. More(args, i) \in {1, 2, 3}
      BY <3>2 DEF More
    <3>4. i + More(args, i) <= Len(args)
      BY <3>1 DEF Packs
    <3> QED BY <1>p, <3>1, <3>3, <3>4
  <2> QED BY <2>3, <2>4
<1>2. ASSUME NEW i \in 1..M PROVE pre[i] \in Seq(T)
  <2>1. Out(i) \in T
    BY Zenon
  <2>2. pre[i] = <<>> \/ pre[i] = <<Out(i)>>
    BY Zenon
  <2>p0. PICK x \in T : x = Out(i)
    BY <2>1, Zenon
  <2>p. PICK q : x = Out(i) /\ q = pre[i]
    BY <2>p0
  <2> HIDE DEF T, Out, pre
  <2>3. q = <<>> \/ q = <<x>>
    BY <2>2, <2>p, Zenon
  <2>4. q \in Seq(T)
    BY <2>3, AtMostOne, Zenon
  <2> QED BY <2>4, <2>p, Zenon
<1>3. ASSUME NEW s, NEW i \in 1..M PROVE RightEntry(s, stop, pre, next, i) = NormEntry(s, args, i)
  <2>0. i \in 1..(Len(args) + 1) /\ (i = M <=> i = Len(args) + 1)
    BY <1>p
  <2>1. stop[i] = Stops(i) /\ pre[i] = Pre(i) /\ next[i] = Next1(i)
    BY Zenon
  <2>2. RightEntry(s, stop, pre, next, i) = IF Stops(i) THEN Pre(i) ELSE Pre(i) \o s[Next1(i)]
    BY <2>1, Zenon DEF RightEntry
  <2>3. CASE i = M
    <3>1. NormEntry(s, args, i) = <<>>
      BY <2>0, <2>3, NormCases, Zenon
    <3> QED BY <2>2, <2>3, <3>1, Zenon
  <2>4. CASE i # M /\ packed_arity(args[i].text) = 0
    <3>1. NormEntry(s, args, i) = <<args[i]>> \o s[i + 1]
      BY <2>0, <2>4, NormCases, Zenon
    <3> QED BY <2>2, <2>4, <3>1, Zenon
  <2>5. CASE i # M /\ packed_arity(args[i].text) # 0 /\ ~Packs(args, i)
    <3>1. NormEntry(s, args, i) = <<Refused>>
      BY <2>0, <2>5, NormCases, Zenon
    <3> QED BY <2>2, <2>5, <3>1, Zenon
  <2>6. CASE i # M /\ packed_arity(args[i].text) # 0 /\ Packs(args, i)
    <3>1. NormEntry(s, args, i) =
            <<[text |-> args[i].text, packed |-> pack(collect_packed_values(args, i))]>>
              \o s[i + More(args, i) + 1]
      BY <2>0, <2>6, NormCases, Zenon
    <3> QED BY <2>2, <2>6, <3>1, Zenon
  <2> QED BY <2>3, <2>4, <2>5, <2>6
<1>a. Onward(M, stop, next) /\ \A i \in 1..M : pre[i] \in Seq(T)
  BY <1>1, <1>2, Zenon DEF Onward
<1> HIDE DEF stop, pre, next, T
<1>r. PICK s : Filled(s, M, stop, pre, next)
  BY <1>a, RightTable, Zenon
<1>4. s = [i \in 1..M |-> RightEntry(s, stop, pre, next, i)]
  BY <1>r, Zenon DEF Filled
<1>5. s = [i \in 1..M |-> NormEntry(s, args, i)]
  BY <1>3, <1>4, Zenon
<1>6. IsNorm(s, args)
  BY <1>5, <1>p, Zenon DEF IsNorm
<1> DEFINE c == CHOOSE t : IsNorm(t, args)
<1>7. IsNorm(c, args)
  BY <1>6, Zenon
<1>8. normalize_args(args) = c[1]
  BY Zenon DEF normalize_args, IsNorm, NormEntry
<1> HIDE DEF c
<1>9. c = [i \in 1..M |-> NormEntry(c, args, i)]
  BY <1>7, <1>p, Zenon DEF IsNorm
<1>10. \A i \in 1..M : c[i] = NormEntry(c, args, i)
  BY <1>9, Zenon
<1>11. Filled(c, M, stop, pre, next)
  BY <1>3, <1>9, Zenon DEF Filled
<1>12. \A i \in 1..M : c[i] \in Seq(T)
  BY <1>a, <1>11, RightSeq, Zenon
<1> QED
  BY <1>8, <1>10, <1>12, <1>p

-----------------------------------------------------------------------------
(* The words of an option.  The first is its flag, with the first value after
   "=" if that is joined; the values that are left follow. *)

Skipped(e) == IF e = None THEN 0 ELSE 1

WritesOut(F, o, e) ==
    /\ F[1] = [text |-> o[1], eq |-> e]
    /\ Len(F) = 1 + (Arity(o[1]) - Skipped(e)) /\ Skipped(e) \in {0, 1} /\ Arity(o[1]) >= Skipped(e)
    /\ \A j \in 1..(Arity(o[1]) - Skipped(e)) : F[1 + j] = o[2][j + Skipped(e)]
    /\ e # None => o[2][1] = Word(e)

LEMMA ArityIs ==
  ASSUME NEW f
  PROVE  Arity(f) \in {0, 1, 2, 3} /\ (packed_arity(f) # 0 => Arity(f) = packed_arity(f))
  BY Arities DEF Arity

(* The words that can come of an option. *)
WordsOf(o) ==
    {Word(o[1])} \union {o[2][i] : i \in 1..Arity(o[1])}
      \union {w \in {[text |-> o[1], eq |-> o[2][1].text]} : Arity(o[1]) # 0}

LEMMA OptionParts ==
  ASSUME NEW o, IsOption(o)
  PROVE  \E v : /\ o = <<o[1], v>> /\ v = o[2] /\ v \in Seq(WordsOf(o)) /\ Len(v) = Arity(o[1])
                /\ v = [i \in 1..Arity(o[1]) |-> v[i]] /\ \A i \in 1..Arity(o[1]) : IsWord(v[i])
<1>p. PICK v : v = o[2]
  OBVIOUS
<1>q. PICK n \in Nat : n = Arity(o[1])
  BY ArityIs
<1>1. o = <<o[1], v>> /\ v = [i \in 1..n |-> v[i]] /\ \A i \in 1..n : IsWord(v[i])
  BY <1>p, <1>q, Zenon DEF IsOption
<1>2. \A i \in 1..n : v[i] \in WordsOf(o)
  BY <1>p, <1>q, Zenon DEF WordsOf
<1>3. v \in Seq(WordsOf(o)) /\ Len(v) = n
  <2>1. v = [i \in 1..n |-> v[i]] BY <1>1
  <2> QED BY ONLY <1>2, <2>1, n \in Nat
<1> QED
  BY <1>1, <1>3, <1>p, <1>q, Zenon

LEMMA Spaced ==
  ASSUME NEW S, NEW w \in S, NEW v \in Seq(S)
  PROVE  /\ <<w>> \o v \in Seq(S) /\ Len(<<w>> \o v) = 1 + Len(v) /\ (<<w>> \o v)[1] = w
         /\ \A j \in 1..Len(v) : (<<w>> \o v)[1 + j] = v[j]
  OBVIOUS

LEMMA Joined ==
  ASSUME NEW S, NEW w \in S, NEW v \in Seq(S), Len(v) >= 1
  PROVE  /\ <<w>> \o Tail(v) \in Seq(S) /\ Len(<<w>> \o Tail(v)) = Len(v) /\ (<<w>> \o Tail(v))[1] = w
         /\ \A j \in 1..(Len(v) - 1) : (<<w>> \o Tail(v))[1 + j] = v[j + 1]
<1>0. v # <<>>
  OBVIOUS
<1>p. PICK t \in Seq(S) : t = Tail(v)
  BY <1>0, TailFacts
<1>1. Len(t) = Len(v) - 1 /\ \A j \in 1..(Len(v) - 1) : t[j] = v[j + 1]
  BY <1>0, <1>p, TailFacts
<1>2. /\ <<w>> \o t \in Seq(S) /\ Len(<<w>> \o t) = 1 + Len(t) /\ (<<w>> \o t)[1] = w
      /\ \A j \in 1..Len(t) : (<<w>> \o t)[1 + j] = t[j]
  BY Spaced
<1> QED
  BY <1>1, <1>2, <1>p

LEMMA Writing ==
  ASSUME NEW o, IsOption(o), NEW joined
  PROVE  /\ Written(o, joined) \in Seq(WordsOf(o))
         /\ \E e : WritesOut(Written(o, joined), o, e)
<1>p. PICK v : /\ o = <<o[1], v>> /\ v = o[2] /\ v \in Seq(WordsOf(o)) /\ Len(v) = Arity(o[1])
               /\ v = [i \in 1..Arity(o[1]) |-> v[i]] /\ \A i \in 1..Arity(o[1]) : IsWord(v[i])
  BY OptionParts
<1>q. PICK n \in 0..3 : n = Arity(o[1])
  BY ArityIs
<1>1. CASE joined /\ v # <<>> /\ v[1].eq = None
  <2>1. Written(o, joined) = <<[text |-> o[1], eq |-> v[1].text]>> \o Tail(v)
    BY <1>1, <1>p, Zenon DEF Written
  <2>w. PICK w : w = [text |-> o[1], eq |-> v[1].text]
    OBVIOUS
  <2>3. Len(v) = n /\ n >= 1
    <3>1. Len(v) = n BY <1>p, <1>q
    <3>2. v \in Seq(WordsOf(o)) BY <1>p
    <3> QED BY <1>1, <3>1, <3>2
  <2>2. w \in WordsOf(o)
    <3>1. Arity(o[1]) # 0 BY <1>q, <2>3
    <3> QED BY <1>p, <2>w, <3>1, Zenon DEF WordsOf
  <2>4. /\ <<w>> \o Tail(v) \in Seq(WordsOf(o)) /\ Len(<<w>> \o Tail(v)) = Len(v)
        /\ (<<w>> \o Tail(v))[1] = w
        /\ \A j \in 1..(Len(v) - 1) : (<<w>> \o Tail(v))[1 + j] = v[j + 1]
    <3>s. PICK S : S = WordsOf(o) OBVIOUS
    <3>1. w \in S /\ v \in Seq(S) /\ Len(v) >= 1 BY <1>p, <2>2, <2>3, <3>s
    <3>2. /\ <<w>> \o Tail(v) \in Seq(S) /\ Len(<<w>> \o Tail(v)) = Len(v)
          /\ (<<w>> \o Tail(v))[1] = w
          /\ \A j \in 1..(Len(v) - 1) : (<<w>> \o Tail(v))[1 + j] = v[j + 1]
      BY ONLY <3>1, Joined
    <3> QED BY <3>2, <3>s, Zenon
  <2>e. PICK e : e = v[1].text
    OBVIOUS
  <2>5. e # None /\ v[1] = Word(e)
    <3>1. IsWord(v[1]) BY <1>p, <1>q, <2>3
    <3> QED BY <1>1, <2>e, <3>1, Zenon DEF IsWord, Word
  <2>6. Skipped(e) = 1
    BY <2>5 DEF Skipped
  <2>F. PICK F : F = Written(o, joined)
    OBVIOUS
  <2>7. /\ F \in Seq(WordsOf(o)) /\ Len(F) = n /\ F[1] = w
        /\ \A j \in 1..(n - 1) : F[1 + j] = v[j + 1]
    BY <2>1, <2>3, <2>4, <2>w, <2>F, Zenon
  <2>8. Len(F) = 1 + (n - 1) /\ n >= 1
    BY <2>3, <2>7
  <2>9. WritesOut(F, o, e)
    BY <1>p, <1>q, <2>5, <2>6, <2>7, <2>8, <2>w, <2>e, Zenon DEF WritesOut
  <2> QED BY <2>7, <2>9, <2>F
<1>2. CASE ~(joined /\ v # <<>> /\ v[1].eq = None)
  <2>1. Written(o, joined) = <<Word(o[1])>> \o v
    BY <1>2, <1>p, Zenon DEF Written
  <2>w. PICK w : w = Word(o[1])
    OBVIOUS
  <2>2. w \in WordsOf(o)
    BY <2>w, Zenon DEF WordsOf
  <2>3. Len(v) = n
    BY <1>p, <1>q
  <2>4. /\ <<w>> \o v \in Seq(WordsOf(o)) /\ Len(<<w>> \o v) = 1 + Len(v) /\ (<<w>> \o v)[1] = w
        /\ \A j \in 1..Len(v) : (<<w>> \o v)[1 + j] = v[j]
    <3>s. PICK S : S = WordsOf(o) OBVIOUS
    <3>1. w \in S /\ v \in Seq(S) BY <1>p, <2>2, <3>s
    <3>2. /\ <<w>> \o v \in Seq(S) /\ Len(<<w>> \o v) = 1 + Len(v) /\ (<<w>> \o v)[1] = w
          /\ \A j \in 1..Len(v) : (<<w>> \o v)[1 + j] = v[j]
      BY ONLY <3>1, Spaced
    <3> QED BY <3>2, <3>s, Zenon
  <2>6. Skipped(None) = 0 /\ n - 0 = n /\ n >= 0 /\ \A j \in 1..n : j + 0 = j
    BY DEF Skipped
  <2>F. PICK F : F = Written(o, joined)
    OBVIOUS
  <2>7. /\ F \in Seq(WordsOf(o)) /\ Len(F) = 1 + n /\ F[1] = w
        /\ \A j \in 1..n : F[1 + j] = v[j]
    BY <2>1, <2>3, <2>4, <2>w, <2>F, Zenon
  <2>8. w = [text |-> o[1], eq |-> None]
    BY <2>w, Zenon DEF Word
  <2>a. Len(F) = 1 + (n - 0) /\ \A j \in 1..(n - 0) : F[1 + j] = v[j + 0]
    BY <2>6, <2>7
  <2>9. WritesOut(F, o, None)
    BY <1>p, <1>q, <2>6, <2>7, <2>8, <2>a, Zenon DEF WritesOut
  <2> QED BY <2>7, <2>9, <2>F
<1> QED
  BY <1>1, <1>2

-----------------------------------------------------------------------------
(* One option under normalize_args. *)

Separated(o) == packed_arity(o[1]) # 0 /\ \E k \in DOMAIN o[2] : o[2][k] \in WithSeparator

Form(o, joined) ==
    IF packed_arity(o[1]) # 0 THEN <<[text |-> o[1], packed |-> o[2]]>> ELSE Written(o, joined)

(* F is what args says after the first a words. *)
Stands(F, args, a) == a + Len(F) <= Len(args) /\ \A j \in 1..Len(F) : args[a + j] = F[j]

LEMMA SubSeqIs ==
  ASSUME NEW S, NEW s \in Seq(S), NEW b \in Nat, NEW n \in Nat, b + n <= Len(s)
  PROVE  SubSeq(s, b + 1, b + n) = [j \in 1..n |-> s[b + j]]
<1>1. \A j \in 1..n : b + j \in 1..Len(s)
  OBVIOUS
<1>2. (b + n) - (b + 1) + 1 = n
  OBVIOUS
<1>3. SubSeq(s, b + 1, b + n) = [j \in 1..((b + n) - (b + 1) + 1) |-> s[(b + 1) + j - 1]]
  OBVIOUS
<1>4. \A j \in 1..n : (b + 1) + j - 1 = b + j
  OBVIOUS
<1> QED BY <1>2, <1>3, <1>4

LEMMA OneAndTwo ==
  ASSUME NEW x, NEW y, NEW z
  PROVE  <<x>> \o <<y, z>> = <<x, y, z>>
<1>p. PICK S, u : S = {x, y, z} /\ u = <<y, z>>
  OBVIOUS
<1>1. u \in Seq(S) /\ Len(u) = 2 /\ u[1] = y /\ u[2] = z /\ x \in S
  BY <1>p
<1>w. PICK w : w = <<x>> \o u
  OBVIOUS
<1>2. w \in Seq(S) /\ Len(w) = 3 /\ w[1] = x /\ w[2] = y /\ w[3] = z
  <2>1. w \in Seq(S) /\ Len(w) = 1 + Len(u) /\ w[1] = x /\ \A j \in 1..Len(u) : w[1 + j] = u[j]
    BY <1>1, <1>w, Spaced
  <2>2. 1 \in 1..Len(u) /\ 2 \in 1..Len(u) /\ 1 + 1 = 2 /\ 1 + 2 = 3
    BY <1>1
  <2>3. w[1 + 1] = u[1] /\ w[1 + 2] = u[2]
    BY <2>1, <2>2, Zenon
  <2> QED BY <1>1, <2>1, <2>2, <2>3
<1>3. w = <<w[1], w[2], w[3]>>
  BY <1>2
<1> QED
  BY <1>2, <1>3, <1>p, <1>w, Zenon

LEMMA Collecting ==
  ASSUME NEW S, NEW args \in Seq(S), NEW o, IsOption(o), packed_arity(o[1]) # 0,
         NEW F, NEW e, WritesOut(F, o, e), NEW a \in Nat, Stands(F, args, a)
  PROVE  /\ args[a + 1].text = o[1] /\ a + 1 \in 1..Len(args)
         /\ More(args, a + 1) = Len(F) - 1 /\ Len(F) \in Nat
         /\ collect_packed_values(args, a + 1) = o[2]
<1>v. PICK v : v = o[2] /\ v = [i \in 1..Arity(o[1]) |-> v[i]]
  BY OptionParts
<1>r. PICK r \in {2, 3} : r = Arity(o[1]) /\ r = packed_arity(o[1])
  BY Arities, ArityIs
<1>d. PICK d \in {0, 1} : d = Skipped(e)
  BY DEF Skipped
<1>w. /\ F[1] = [text |-> o[1], eq |-> e] /\ Len(F) = 1 + (r - d)
      /\ \A j \in 1..(r - d) : F[1 + j] = v[j + d]
      /\ e # None => v[1] = Word(e)
  BY <1>v, <1>r, <1>d, Zenon DEF WritesOut
<1>1. Len(F) \in Nat /\ 1 \in 1..Len(F) /\ a + Len(F) <= Len(args) /\ Len(args) \in Nat
  BY <1>w DEF Stands
<1>2. args[a + 1] = F[1]
  BY <1>1, Zenon DEF Stands
<1>3. args[a + 1].text = o[1] /\ args[a + 1].eq = e
  BY <1>2, <1>w
<1>4. a + 1 \in 1..Len(args)
  BY <1>1
<1>5. More(args, a + 1) = r - d
  BY <1>3, <1>r, <1>d DEF More, Skipped
<1> DEFINE first == IF e = None THEN <<>> ELSE <<Word(e)>>
<1>6. Len(first) = d
  BY <1>d DEF Skipped
<1>7. collect_packed_values(args, a + 1) = first \o SubSeq(args, (a + 1) + 1, (a + 1) + r - Len(first))
  BY <1>3, <1>r, Zenon DEF collect_packed_values
<1>8. ASSUME NEW j \in 1..(r - d) PROVE args[(a + 1) + j] = v[j + d]
  <2>1. 1 + j \in 1..Len(F) /\ a + (1 + j) = (a + 1) + j
    BY <1>w
  <2>2. args[a + (1 + j)] = F[1 + j]
    BY <2>1, Zenon DEF Stands
  <2> QED BY <1>w, <2>1, <2>2
<1>p. PICK b \in Nat, n \in Nat : b = a + 1 /\ n = r - d
  OBVIOUS
<1>9. SubSeq(args, b + 1, b + n) = [j \in 1..n |-> v[j + d]]
  <2>1. b + n <= Len(args)
    BY <1>1, <1>w, <1>p
  <2>2. SubSeq(args, b + 1, b + n) = [j \in 1..n |-> args[b + j]]
    BY <2>1, SubSeqIs
  <2>3. \A j \in 1..n : args[b + j] = v[j + d]
    BY <1>8, <1>p
  <2> QED BY <2>2, <2>3, Zenon
<1>10. (a + 1) + r - Len(first) = b + n
  <2>1. (a + 1) + r - d = b + n BY <1>p
  <2> QED BY <1>6, <2>1
<1>11. collect_packed_values(args, a + 1) = first \o [j \in 1..n |-> v[j + d]]
  BY <1>7, <1>9, <1>10, <1>p, Zenon
<1>12. CASE e = None
  <2>1. d = 0 /\ first = <<>> /\ n = r
    BY <1>12, <1>d, <1>p DEF Skipped
  <2>2. [j \in 1..n |-> v[j + d]] = v
    <3>1. \A j \in 1..r : j + 0 = j OBVIOUS
    <3>2. v = [j \in 1..r |-> v[j]] BY <1>v, <1>r
    <3>3. [j \in 1..r |-> v[j + 0]] = [j \in 1..r |-> v[j]] BY <3>1
    <3> QED BY <2>1, <3>2, <3>3, Zenon
  <2>3. <<>> \o v = v
    <3>1. v = [j \in 1..r |-> v[j]] BY <1>v, <1>r
    <3>2. v \in Seq({v[j] : j \in 1..r}) BY ONLY <3>1, r \in {2, 3}, SMTT(30)
    <3>s. PICK T : T = {v[j] : j \in 1..r} OBVIOUS
    <3>3. v \in Seq(T) BY <3>2, <3>s
    <3> QED BY ONLY <3>3
  <2>4. collect_packed_values(args, a + 1) = v
    BY <1>11, <2>1, <2>2, <2>3, Zenon
  <2> QED BY <1>1, <1>3, <1>4, <1>5, <1>v, <1>w, <2>4
<1>13. CASE e # None
  <2>1. d = 1 /\ first = <<v[1]>> /\ n = r - 1
    BY <1>13, <1>d, <1>p, <1>w DEF Skipped
  <2>2. <<v[1]>> \o [j \in 1..(r - 1) |-> v[j + 1]] = v
    <3>1. v = [j \in 1..r |-> v[j]] BY <1>v, <1>r
    <3>2. CASE r = 2
      <4>1. v = <<v[1], v[2]>> BY ONLY <3>1, <3>2
      <4>2. [j \in 1..(r - 1) |-> v[j + 1]] = <<v[2]>> BY ONLY <3>2
      <4> QED BY ONLY <4>1, <4>2
    <3>3. CASE r = 3
      <4>1. v = <<v[1], v[2], v[3]>> BY ONLY <3>1, <3>3
      <4>2. [j \in 1..(r - 1) |-> v[j + 1]] = <<v[2], v[3]>> BY ONLY <3>3
      <4>3. <<v[1]>> \o <<v[2], v[3]>> = <<v[1], v[2], v[3]>> BY OneAndTwo
      <4> QED BY <4>1, <4>2, <4>3, Zenon
    <3> QED BY <3>2, <3>3
  <2>4. collect_packed_values(args, a + 1) = v
    BY <1>11, <2>1, <2>2, Zenon
  <2> QED BY <1>1, <1>3, <1>4, <1>5, <1>v, <1>w, <2>4
<1> QED
  BY <1>12, <1>13

LEMMA NormPacked ==
  ASSUME NEW S, NEW args \in Seq(S), NEW o, IsOption(o), packed_arity(o[1]) # 0,
         NEW F, NEW e, WritesOut(F, o, e), NEW a \in Nat, Stands(F, args, a),
         NEW s, \A i \in 1..(Len(args) + 1) : s[i] = NormEntry(s, args, i)
  PROVE  /\ Separated(o) => s[a + 1] = <<Refused>>
         /\ ~Separated(o) => s[a + 1] = <<[text |-> o[1], packed |-> o[2]]>> \o s[(a + Len(F)) + 1]
<1>1. /\ args[a + 1].text = o[1] /\ a + 1 \in 1..Len(args)
      /\ More(args, a + 1) = Len(F) - 1 /\ Len(F) \in Nat
      /\ collect_packed_values(args, a + 1) = o[2]
  BY Collecting
<1>2. a + Len(F) <= Len(args) /\ Len(args) \in Nat
  BY DEF Stands
<1>p. PICK i \in 1..(Len(args) + 1), m \in Int : i = a + 1 /\ m = Len(F) - 1
  BY <1>1, <1>2, SMTT(30)
<1>3. i # Len(args) + 1 /\ i + m <= Len(args) /\ (i + m) + 1 = (a + Len(F)) + 1
  BY <1>1, <1>2, <1>p
<1>4. pack(o[2]) = IF Separated(o) THEN None ELSE o[2]
  BY Zenon DEF pack, Separated
<1>5. o[2] # None
  BY Zenon DEF IsOption
<1>6. Packs(args, i) <=> ~Separated(o)
  BY <1>1, <1>3, <1>4, <1>5, <1>p, Zenon DEF Packs
<1>7. s[i] = NormEntry(s, args, i)
  BY Zenon
<1>8. CASE Separated(o)
  <2>1. s[i] = <<Refused>>
    BY <1>1, <1>2, <1>3, <1>6, <1>7, <1>8, <1>p, NormCases, ZenonT(60)
  <2> QED BY <1>8, <1>p, <2>1, Zenon
<1>9. CASE ~Separated(o)
  <2>1. s[i] = <<[text |-> args[i].text, packed |-> pack(collect_packed_values(args, i))]>>
                 \o s[i + More(args, i) + 1]
    <3>1. /\ Len(args) \in Nat /\ i # Len(args) + 1
          /\ packed_arity(args[i].text) # 0 /\ Packs(args, i)
      BY <1>1, <1>2, <1>3, <1>6, <1>9, <1>p, Zenon
    <3>2. NormEntry(s, args, i) =
            <<[text |-> args[i].text, packed |-> pack(collect_packed_values(args, i))]>>
              \o s[i + More(args, i) + 1]
      BY <3>1, NormCases, Zenon
    <3> QED BY <1>7, <3>2, Zenon
  <2>2. args[i].text = o[1] /\ pack(collect_packed_values(args, i)) = o[2] /\ More(args, i) = m
    BY <1>1, <1>4, <1>9, <1>p, Zenon
  <2>3. s[i] = <<[text |-> o[1], packed |-> o[2]]>> \o s[i + m + 1]
    BY <2>1, <2>2, Zenon
  <2> QED BY <1>3, <1>9, <1>p, <2>3, Zenon
<1> QED
  BY <1>8, <1>9

LEMMA NormPlain ==
  ASSUME NEW S, NEW args \in Seq(S), NEW o, IsOption(o), packed_arity(o[1]) = 0,
         NEW F, NEW e, WritesOut(F, o, e), F \in Seq(WordsOf(o)), NEW a \in Nat, Stands(F, args, a),
         NEW s, NEW T, \A i \in 1..(Len(args) + 1) : s[i] = NormEntry(s, args, i) /\ s[i] \in Seq(T)
  PROVE  s[a + 1] = F \o s[(a + Len(F)) + 1]
<1>v. PICK v : v = o[2] /\ \A i \in 1..Arity(o[1]) : IsWord(v[i])
  BY OptionParts
<1>r. PICK r \in {0, 1} : r = Arity(o[1])
  BY DEF Arity
<1>d. PICK d \in {0, 1} : d = Skipped(e)
  BY DEF Skipped
<1>w. /\ F[1] = [text |-> o[1], eq |-> e] /\ Len(F) = 1 + (r - d) /\ r >= d
      /\ \A j \in 1..(r - d) : F[1 + j] = v[j + d]
  BY <1>v, <1>r, <1>d, Zenon DEF WritesOut
<1>1. Len(F) \in {1, 2} /\ 1 \in 1..Len(F) /\ a + Len(F) <= Len(args) /\ Len(args) \in Nat
  BY <1>w DEF Stands
<1>2. args[a + 1] = F[1]
  BY <1>1, Zenon DEF Stands
<1>3. args[a + 1].text = o[1]
  BY <1>2, <1>w
<1>p. PICK i \in 1..(Len(args) + 1) : i = a + 1 /\ i # Len(args) + 1
  BY <1>1
<1>4. s[i] = <<args[i]>> \o s[i + 1]
  BY <1>1, <1>3, <1>p, NormCases, ZenonT(60)
<1>u. PICK U : U = T \union WordsOf(o)
  OBVIOUS
<1>5. F \in Seq(U) /\ \A j \in 1..(Len(args) + 1) : s[j] \in Seq(U)
  <2>1. T \subseteq U /\ WordsOf(o) \subseteq U BY <1>u
  <2>2. \A q : q \in Seq(T) \/ q \in Seq(WordsOf(o)) => q \in Seq(U) BY <2>1
  <2> QED BY <2>2
<1>6. CASE Len(F) = 1
  <2>1. i + 1 = (a + Len(F)) + 1 /\ i + 1 \in 1..(Len(args) + 1)
    BY <1>1, <1>6, <1>p
  <2>q. PICK q \in Seq(U) : q = s[i + 1]
    BY <1>5, <2>1
  <2>2. <<F[1]>> \o q = F \o q
    BY <1>5, <1>6, OneBefore
  <2> QED BY <1>2, <1>4, <1>p, <2>1, <2>2, <2>q, Zenon
<1>7. CASE Len(F) = 2
  <2>1. /\ (i + 1) + 1 = (a + Len(F)) + 1 /\ (i + 1) + 1 \in 1..(Len(args) + 1)
        /\ i + 1 \in 1..(Len(args) + 1) /\ i + 1 # Len(args) + 1 /\ 2 \in 1..Len(F) /\ a + 2 = i + 1
    BY <1>1, <1>7, <1>p
  <2>2. r = 1 /\ d = 0
    <3>1. 1 + (r - d) = 2 BY <1>7, <1>w
    <3> QED BY ONLY <3>1, r \in {0, 1}, d \in {0, 1}
  <2>3. F[2] = v[1]
    <3>1. 1 \in 1..(r - d) /\ 1 + 1 = 2 /\ 1 + d = 1 BY <2>2
    <3> QED BY <1>w, <3>1
  <2>4. args[i + 1] = F[2]
    <3>1. args[a + 2] = F[2] BY <2>1, Zenon DEF Stands
    <3>2. a + 2 = i + 1 BY <2>1
    <3> QED BY <3>1, <3>2, Zenon
  <2>5. packed_arity(args[i + 1].text) = 0
    <3>1. 1 \in 1..Arity(o[1]) BY <1>r, <2>2
    <3>2. packed_arity(o[2][1].text) = 0 BY <3>1, Zenon DEF IsOption
    <3> QED BY <1>v, <2>3, <2>4, <3>2, Zenon
  <2>6. s[i + 1] = <<args[i + 1]>> \o s[(i + 1) + 1]
    <3>p. PICK h \in 1..(Len(args) + 1) : h = i + 1 BY <2>1
    <3>1. s[h] = <<args[h]>> \o s[h + 1]
      BY <1>1, <2>1, <2>5, <3>p, NormCases, Zenon
    <3> QED BY <3>1, <3>p, Zenon
  <2>q. PICK q \in Seq(U) : q = s[(i + 1) + 1]
    BY <1>5, <2>1
  <2>7. <<F[1]>> \o (<<F[2]>> \o q) = F \o q
    BY <1>5, <1>7, TwoBefore
  <2> QED BY <1>2, <1>4, <1>p, <2>1, <2>4, <2>6, <2>7, <2>q, Zenon
<1> QED
  BY <1>1, <1>6, <1>7

(* The pieces of a line that mean the options m. *)
LineOf(m, joined) == FlattenSeq([i \in DOMAIN m |-> Written(m[i], joined)])

PackedLine(m, joined) == FlattenSeq([i \in DOMAIN m |-> Form(m[i], joined)])

PiecesOf(o) == WordsOf(o) \union {[text |-> o[1], packed |-> o[2]]}

Pieces(m) == UNION {PiecesOf(m[k]) : k \in 1..Len(m)}

LEMMA IntentParts ==
  ASSUME NEW m, IsIntent(m)
  PROVE  /\ Len(m) \in Nat /\ DOMAIN m = 1..Len(m) /\ \A k \in 1..Len(m) : IsOption(m[k])
         /\ m = [k \in 1..Len(m) |-> m[k]]
<1>1. /\ Len(m) \in Nat /\ m = [i \in 1..Len(m) |-> m[i]]
      /\ \A i \in 1..Len(m) : IsOption(m[i])
  BY Zenon DEF IsIntent
<1>2. DOMAIN [i \in 1..Len(m) |-> m[i]] = 1..Len(m)
  BY Zenon
<1> QED
  BY <1>1, <1>2, Zenon

LEMMA NotRefused ==
  ASSUME NEW m, IsIntent(m)
  PROVE  Refused \notin Pieces(m)
<1>1. ASSUME NEW k \in 1..Len(m) PROVE Refused \notin PiecesOf(m[k])
  <2>p. PICK o : o = m[k]
    OBVIOUS
  <2>1. IsOption(o)
    BY <2>p, IntentParts, Zenon
  <2>2. /\ Word(o[1]) # Refused /\ [text |-> o[1], packed |-> o[2]] # Refused
        /\ Arity(o[1]) # 0 => [text |-> o[1], eq |-> o[2][1].text] # Refused
    BY <2>1, Zenon DEF IsOption
  <2>3. \A i \in 1..Arity(o[1]) : o[2][i] # Refused
    BY <2>1, Zenon DEF IsOption, IsWord
  <2> QED BY <2>2, <2>3, <2>p, Zenon DEF PiecesOf, WordsOf
<1> QED
  BY <1>1, Zenon DEF Pieces

LEMMA WrittenPieces ==
  ASSUME NEW m, IsIntent(m), NEW joined, NEW k \in 1..Len(m)
  PROVE  /\ Written(m[k], joined) \in Seq(WordsOf(m[k]))
         /\ Written(m[k], joined) \in Seq(Pieces(m))
         /\ Form(m[k], joined) \in Seq(Pieces(m))
         /\ WordsOf(m[k]) \subseteq Pieces(m)
<1>p. PICK o : o = m[k]
  OBVIOUS
<1>1. IsOption(o)
  BY <1>p, IntentParts, Zenon
<1>2. Written(o, joined) \in Seq(WordsOf(o))
  BY <1>1, Writing
<1>q. PiecesOf(o) \subseteq Pieces(m)
  <2>1. PiecesOf(m[k]) \in {PiecesOf(m[j]) : j \in 1..Len(m)}
    BY Zenon
  <2>2. \A U, V : U \in V => U \subseteq UNION V
    OBVIOUS
  <2> QED BY <1>p, <2>1, <2>2, Zenon DEF Pieces
<1>3. WordsOf(o) \subseteq Pieces(m)
  BY <1>q DEF PiecesOf
<1>4. Written(o, joined) \in Seq(Pieces(m))
  BY <1>2, <1>3
<1>5. Form(o, joined) \in Seq(Pieces(m))
  <2>1. CASE packed_arity(o[1]) = 0
    BY <1>4, <2>1 DEF Form
  <2>2. CASE packed_arity(o[1]) # 0
    <3>x. PICK x : x = [text |-> o[1], packed |-> o[2]]
      OBVIOUS
    <3>1. Form(o, joined) = <<x>>
      BY <2>2, <3>x, Zenon DEF Form
    <3>2. x \in Pieces(m)
      BY <1>q, <3>x, Zenon DEF PiecesOf
    <3>3. <<x>> \in Seq(Pieces(m))
      BY <3>2, AtMostOne
    <3> QED BY <3>1, <3>3
  <2> QED BY <2>1, <2>2
<1> QED
  BY <1>2, <1>3, <1>4, <1>5, <1>p

LEMMA LineLaid ==
  ASSUME NEW m, IsIntent(m), NEW joined
  PROVE  /\ LineOf(m, joined) \in Seq(Pieces(m)) /\ PackedLine(m, joined) \in Seq(Pieces(m))
         /\ \E off : Laid(LineOf(m, joined), [k \in 1..Len(m) |-> Written(m[k], joined)], off, Len(m))
         /\ \E off : Laid(PackedLine(m, joined), [k \in 1..Len(m) |-> Form(m[k], joined)], off, Len(m))
         /\ [k \in 1..Len(m) |-> Written(m[k], joined)] \in [1..Len(m) -> Seq(Pieces(m))]
         /\ [k \in 1..Len(m) |-> Form(m[k], joined)] \in [1..Len(m) -> Seq(Pieces(m))]
<1>p0. PICK n \in Nat : n = Len(m)
  BY IntentParts
<1>p. PICK S : n = Len(m) /\ S = Pieces(m)
  BY <1>p0
<1>1. \A k \in 1..n : Written(m[k], joined) \in Seq(S) /\ Form(m[k], joined) \in Seq(S)
  BY <1>p, WrittenPieces
<1>f. PICK F, H : /\ F = [k \in 1..n |-> Written(m[k], joined)]
                  /\ H = [k \in 1..n |-> Form(m[k], joined)]
  OBVIOUS
<1>2. F \in [1..n -> Seq(S)] /\ H \in [1..n -> Seq(S)]
  BY <1>1, <1>f
<1>3. LineOf(m, joined) = FlattenSeq(F) /\ PackedLine(m, joined) = FlattenSeq(H)
  <2>1. DOMAIN m = 1..n
    BY <1>p, IntentParts, Zenon
  <2> QED BY <1>f, <2>1, Zenon DEF LineOf, PackedLine
<1>4. FlattenSeq(F) \in Seq(S) /\ \E off : Laid(FlattenSeq(F), F, off, n)
  BY <1>2, Flattened
<1>5. FlattenSeq(H) \in Seq(S) /\ \E off : Laid(FlattenSeq(H), H, off, n)
  BY <1>2, Flattened
<1> QED
  BY <1>2, <1>3, <1>4, <1>5, <1>f, <1>p, Zenon

(* Where the pieces stand in what is laid out. *)
StandsAt(F, W, off, k) ==
    /\ off[k - 1] \in Nat /\ off[k] = off[k - 1] + Len(F[k]) /\ Stands(F[k], W, off[k - 1])
    /\ off[k] \in 0..Len(W)

LEMMA LaidStands ==
  ASSUME NEW S, NEW n \in Nat, NEW W \in Seq(S), NEW F \in [1..n -> Seq(S)], NEW off,
         Laid(W, F, off, n), NEW k \in 1..n
  PROVE  StandsAt(F, W, off, k)
<1>0. k - 1 \in 0..n /\ k \in 0..n
  OBVIOUS
<1>1. /\ off \in [0..n -> 0..Len(W)] /\ off[k] = off[k - 1] + Len(F[k])
      /\ \A j \in 1..Len(F[k]) : W[off[k - 1] + j] = F[k][j]
  BY DEF Laid
<1>2. off[k - 1] \in 0..Len(W) /\ off[k] \in 0..Len(W) /\ Len(W) \in Nat
  BY <1>0, <1>1
<1>3. off[k - 1] + Len(F[k]) <= Len(W)
  BY <1>1, <1>2
<1> QED
  BY <1>1, <1>2, <1>3 DEF Stands, StandsAt

(* normalize_args packs the options and nothing else, or refuses. *)
LEMMA Normalizing ==
  ASSUME NEW m, IsIntent(m), NEW joined
  PROVE  LET norm == normalize_args(LineOf(m, joined))
             bad == \E k \in 1..Len(m) : Separated(m[k])
         IN /\ ~bad => norm = PackedLine(m, joined) /\ \A i \in DOMAIN norm : norm[i] # Refused
            /\ bad => \E i \in DOMAIN norm : norm[i] = Refused
<1>p0. PICK n \in Nat : n = Len(m)
  BY IntentParts
<1>p. PICK S, W, G, F, H :
        /\ n = Len(m) /\ S = Pieces(m) /\ W = LineOf(m, joined) /\ G = PackedLine(m, joined)
        /\ F = [k \in 1..n |-> Written(m[k], joined)] /\ H = [k \in 1..n |-> Form(m[k], joined)]
  BY <1>p0
<1>1. /\ W \in Seq(S) /\ G \in Seq(S) /\ F \in [1..n -> Seq(S)] /\ H \in [1..n -> Seq(S)]
      /\ \E off : Laid(W, F, off, n) /\ \E off2 : Laid(G, H, off2, n)
  BY <1>p, LineLaid, Zenon
<1>o. PICK off : Laid(W, F, off, n)
  BY <1>1, Zenon
<1>h. PICK hof : Laid(G, H, hof, n)
  BY <1>1, Zenon
<1>2. Len(W) \in Nat
  BY <1>1
<1>s. PICK s, T : /\ normalize_args(W) = s[1]
                  /\ \A i \in 1..(Len(W) + 1) : s[i] = NormEntry(s, W, i) /\ s[i] \in Seq(T)
  BY <1>2, NormTable
<1> DEFINE R == [k \in 0..n |-> s[off[k] + 1]]
           Bad == {k \in 1..n : Separated(m[k])}
<1>3. off[0] = 0 /\ off[n] = Len(W) /\ 0 \in 0..n /\ n \in 0..n
  BY <1>o DEF Laid
<1>4. R[n] = <<>>
  <2>1. R[n] = s[Len(W) + 1]
    BY <1>3, Zenon
  <2>2. Len(W) + 1 \in 1..(Len(W) + 1)
    BY <1>2
  <2>3. NormEntry(s, W, Len(W) + 1) = <<>>
    BY <1>2, <2>2, NormCases, Zenon
  <2> QED BY <1>s, <2>1, <2>2, <2>3, Zenon
<1>5. R[0] = normalize_args(W)
  <2>1. R[0] = s[0 + 1]
    BY <1>3, Zenon
  <2>2. 0 + 1 = 1
    OBVIOUS
  <2> QED BY <1>s, <2>1, <2>2, Zenon
<1>6. ASSUME NEW k \in 1..n
      PROVE  /\ k \in Bad => R[k - 1] = <<Refused>>
             /\ k \notin Bad => R[k - 1] = H[k] \o R[k]
  <2>o. PICK o : o = m[k] /\ IsOption(o)
    BY <1>p, IntentParts, Zenon
  <2>1. F[k] = Written(o, joined) /\ H[k] = Form(o, joined)
    BY <1>p, <2>o, Zenon
  <2>2. off[k - 1] \in Nat /\ off[k] = off[k - 1] + Len(F[k]) /\ Stands(F[k], W, off[k - 1])
    <3>1. W \in Seq(S) /\ F \in [1..n -> Seq(S)] /\ n \in Nat /\ k \in 1..n
      BY <1>1, Zenon
    <3>2. StandsAt(F, W, off, k) BY ONLY <3>1, <1>o, LaidStands
    <3> QED BY <3>2, Zenon DEF StandsAt
  <2>3. k - 1 \in 0..n /\ k \in 0..n
    OBVIOUS
  <2>4. R[k - 1] = s[off[k - 1] + 1] /\ R[k] = s[off[k] + 1]
    BY <2>3, Zenon
  <2>5. F[k] \in Seq(WordsOf(o)) /\ \E e : WritesOut(F[k], o, e)
    BY <2>1, <2>o, Writing
  <2>p0. PICK a \in Nat : a = off[k - 1]
    BY <2>2, <2>5
  <2>p. PICK f, e : a = off[k - 1] /\ f = F[k] /\ WritesOut(f, o, e)
    BY <2>p0, <2>5
  <2>6. Stands(f, W, a) /\ f \in Seq(WordsOf(o)) /\ R[k] = s[(a + Len(f)) + 1] /\ R[k - 1] = s[a + 1]
    BY <2>2, <2>4, <2>5, <2>p, Zenon
  <2>7. CASE packed_arity(o[1]) = 0
    <3>0. /\ W \in Seq(S) /\ IsOption(o) /\ packed_arity(o[1]) = 0 /\ WritesOut(f, o, e)
          /\ f \in Seq(WordsOf(o)) /\ a \in Nat /\ Stands(f, W, a)
          /\ \A i \in 1..(Len(W) + 1) : s[i] = NormEntry(s, W, i) /\ s[i] \in Seq(T)
      BY <1>1, <1>s, <2>6, <2>7, <2>o, <2>p, Zenon
    <3>1. s[a + 1] = f \o s[(a + Len(f)) + 1]
      BY ONLY <3>0, NormPlain
    <3>2. H[k] = f /\ k \notin Bad
      BY <2>1, <2>7, <2>o, <2>p, Zenon DEF Form, Separated
    <3> QED BY <2>6, <3>1, <3>2, Zenon
  <2>8. CASE packed_arity(o[1]) # 0
    <3>0. /\ W \in Seq(S) /\ IsOption(o) /\ packed_arity(o[1]) # 0 /\ WritesOut(f, o, e)
          /\ a \in Nat /\ Stands(f, W, a)
          /\ \A i \in 1..(Len(W) + 1) : s[i] = NormEntry(s, W, i)
      BY <1>1, <1>s, <2>6, <2>8, <2>o, <2>p, Zenon
    <3>1. /\ Separated(o) => s[a + 1] = <<Refused>>
          /\ ~Separated(o) => s[a + 1] = <<[text |-> o[1], packed |-> o[2]]>> \o s[(a + Len(f)) + 1]
      BY ONLY <3>0, NormPacked, SMTT(60)
    <3>2. H[k] = <<[text |-> o[1], packed |-> o[2]]>> /\ (k \in Bad <=> Separated(o))
      BY <2>1, <2>8, <2>o, Zenon DEF Form
    <3> QED BY <2>6, <3>1, <3>2, Zenon
  <2> QED BY <2>7, <2>8
<1>q. PICK r, b : r = R /\ b = Bad
  OBVIOUS
<1>7. Refused \notin S /\ Builds(r, H, n, b)
  <2>1. Refused \notin S
    BY <1>p, NotRefused
  <2>2. b \in SUBSET (1..n)
    BY <1>q
  <2> QED BY <1>4, <1>6, <1>q, <2>1, <2>2, Zenon DEF Builds
<1> HIDE DEF R, Bad
<1>8. /\ b = {} => r[0] = G /\ \A i \in DOMAIN G : G[i] # Refused
      /\ b # {} => \E i \in DOMAIN r[0] : r[0][i] = Refused
  <2>1. G \in Seq(S) /\ H \in [1..n -> Seq(S)]
    BY <1>1
  <2> QED BY ONLY <1>7, <1>h, n \in Nat, <2>1, Rebuilt
<1>9. b # {} <=> \E k \in 1..Len(m) : Separated(m[k])
  BY <1>p, <1>q, Zenon DEF Bad
<1>10. r[0] = normalize_args(LineOf(m, joined))
  BY <1>5, <1>p, <1>q, Zenon
<1> QED
  BY <1>8, <1>9, <1>10, <1>p, Zenon

-----------------------------------------------------------------------------
(* The table of the parser. *)

Serves(c) == c \in {"daemon", "worker"}

(* A flag takes one value in every command that has it, or in none. *)
LEMMA FlagSets ==
  \E Ones, Nones :
     /\ \A f \in Ones : f \notin Nones /\ packed_arity(f) = 0
     /\ \A f \in Nones : packed_arity(f) = 0
     /\ \A c \in Kinds : FlagsOf(c).one \subseteq Ones /\ FlagsOf(c).none \subseteq Nones
<1> DEFINE Ones == OneValue \union {"--system", "--attr-prefix", "--socket", "--listen", "--token"}
           Nones == NoValue \union {"--no-daemon", "--replay", "--foreground"}
<1>1. /\ \A f \in Ones : packed_arity(f) = 0 /\ f \notin Nones
      /\ \A f \in Nones : packed_arity(f) = 0
  BY DEF OneValue, NoValue, packed_arity
<1>2. ASSUME NEW c \in Kinds
      PROVE  FlagsOf(c).one \subseteq Ones /\ FlagsOf(c).none \subseteq Nones
  <2>1. CASE c = "eval"
    <3>1. FlagsOf(c) = [one |-> OneValue, none |-> NoValue \union {"--no-daemon", "--replay"}]
      BY <2>1 DEF FlagsOf, Takes
    <3> QED BY <3>1
  <2>2. CASE c = "watch"
    <3>1. FlagsOf(c) = [one |-> OneValue, none |-> NoValue \union {"--no-daemon"}]
      BY <2>2 DEF FlagsOf, Takes
    <3> QED BY <3>1
  <2>3. CASE c = "query"
    <3>1. FlagsOf(c) = [one |-> OneValue \union {"--system", "--attr-prefix"},
                        none |-> NoValue \union {"--no-daemon"}]
      BY <2>3 DEF FlagsOf, Takes
    <3> QED BY <3>1
  <2>4. CASE c = "diff"
    <3>1. FlagsOf(c) = [one |-> OneValue, none |-> NoValue]
      BY <2>4 DEF FlagsOf, Takes
    <3> QED BY <3>1
  <2>5. CASE c = "daemon"
    <3>1. FlagsOf(c) = [one |-> {"--socket"}, none |-> {"--foreground"}]
      BY <2>5 DEF FlagsOf, ServerTakes
    <3> QED BY <3>1
  <2>6. CASE c = "worker"
    <3>1. FlagsOf(c) = [one |-> {"--listen", "--token"}, none |-> {"--insecure-tokenless-remote"}]
      BY <2>6 DEF FlagsOf, ServerTakes
    <3>2. "--insecure-tokenless-remote" \in Nones
      BY DEF NoValue
    <3> QED BY <3>1, <3>2
  <2> QED BY <2>1, <2>2, <2>3, <2>4, <2>5, <2>6 DEF Kinds
<1> HIDE DEF Ones, Nones
<1> QED
  BY <1>1, <1>2, Zenon

IsPacked(w) == "packed" \in DOMAIN w
Bare(c, w) == ~IsPacked(w) /\ w.text \in FlagsOf(c).none /\ w.eq = None

ParseBad(c, ws, i) ==
    \/ ws[i] = Refused
    \/ IsPacked(ws[i]) /\ Serves(c)
    \/ ~IsPacked(ws[i]) /\ ~Bare(c, ws[i]) /\ ws[i].text \notin FlagsOf(c).one
    \/ /\ ~IsPacked(ws[i]) /\ ~Bare(c, ws[i]) /\ ws[i].eq = None
       /\ (i = Len(ws) \/ IsPacked(ws[i + 1]))

ParseOut(c, ws, i) ==
    IF IsPacked(ws[i]) THEN <<ws[i].text, ws[i].packed>>
    ELSE IF Bare(c, ws[i]) THEN <<ws[i].text, <<>>>>
    ELSE IF ws[i].eq # None THEN <<ws[i].text, <<Word(ws[i].eq)>>>>
    ELSE <<ws[i].text, <<ws[i + 1]>>>>

ParseNext(c, ws, i) ==
    IF ~IsPacked(ws[i]) /\ ~Bare(c, ws[i]) /\ ws[i].eq = None THEN i + 2 ELSE i + 1

ParseEntry(s, c, ws, i) ==
    IF i > Len(ws) THEN <<>>
    ELSE IF ws[i] = Refused THEN <<Refused>>
    ELSE IF "packed" \in DOMAIN ws[i]
    THEN IF c \in {"daemon", "worker"} THEN <<Refused>>
         ELSE <<<<ws[i].text, ws[i].packed>>>> \o s[i + 1]
    ELSE CASE ws[i].text \in FlagsOf(c).none /\ ws[i].eq = None ->
                <<<<ws[i].text, <<>>>>>> \o s[i + 1]
           [] ws[i].text \in FlagsOf(c).one /\ ws[i].eq # None ->
                <<<<ws[i].text, <<Word(ws[i].eq)>>>>>> \o s[i + 1]
           [] ws[i].text \in FlagsOf(c).one /\ ws[i].eq = None ->
                IF i = Len(ws) THEN <<Refused>>
                ELSE IF "packed" \in DOMAIN ws[i + 1] THEN <<Refused>>
                ELSE <<<<ws[i].text, <<ws[i + 1]>>>>>> \o s[i + 2]
           [] OTHER -> <<Refused>>

LEMMA ParseCases ==
  ASSUME NEW s, NEW c \in Kinds, NEW ws, NEW i
  PROVE  ParseEntry(s, c, ws, i) =
           IF i > Len(ws) THEN <<>>
           ELSE IF ParseBad(c, ws, i) THEN <<Refused>>
           ELSE <<ParseOut(c, ws, i)>> \o s[ParseNext(c, ws, i)]
<1>p. PICK one, none : /\ one = FlagsOf(c).one /\ none = FlagsOf(c).none
                       /\ \A f \in one : f \notin none
  <2>1. \A f \in FlagsOf(c).one : f \notin FlagsOf(c).none BY FlagSets
  <2> QED BY <2>1, Zenon
<1>1. CASE i > Len(ws)
  BY <1>1, Zenon DEF ParseEntry
<1>2. CASE ~(i > Len(ws)) /\ ws[i] = Refused
  BY <1>2, Zenon DEF ParseEntry, ParseBad
<1>3. CASE ~(i > Len(ws)) /\ ws[i] # Refused /\ IsPacked(ws[i])
  BY <1>3, Zenon DEF ParseEntry, ParseBad, ParseOut, ParseNext, IsPacked, Serves, Bare
<1>4. CASE ~(i > Len(ws)) /\ ws[i] # Refused /\ ~IsPacked(ws[i])
  <2> DEFINE plain == CASE ws[i].text \in none /\ ws[i].eq = None ->
                             <<<<ws[i].text, <<>>>>>> \o s[i + 1]
                        [] ws[i].text \in one /\ ws[i].eq # None ->
                             <<<<ws[i].text, <<Word(ws[i].eq)>>>>>> \o s[i + 1]
                        [] ws[i].text \in one /\ ws[i].eq = None ->
                             IF i = Len(ws) THEN <<Refused>>
                             ELSE IF IsPacked(ws[i + 1]) THEN <<Refused>>
                             ELSE <<<<ws[i].text, <<ws[i + 1]>>>>>> \o s[i + 2]
                        [] OTHER -> <<Refused>>
  <2>1. ParseEntry(s, c, ws, i) = plain
    BY <1>4, <1>p, Zenon DEF ParseEntry, IsPacked
  <2>b. Bare(c, ws[i]) <=> ws[i].text \in none /\ ws[i].eq = None
    BY <1>4, <1>p, Zenon DEF Bare
  <2>2. CASE ws[i].text \in none /\ ws[i].eq = None
    <3>1. ws[i].text \notin one
      BY <1>p, <2>2, Zenon
    <3>2. plain = <<<<ws[i].text, <<>>>>>> \o s[i + 1]
      BY <2>2, <3>1, Zenon
    <3> HIDE DEF plain
    <3> QED BY <1>4, <1>p, <2>1, <2>2, <2>b, <3>2, Zenon DEF ParseBad, ParseOut, ParseNext
  <2>3. CASE ~(ws[i].text \in none /\ ws[i].eq = None) /\ ws[i].text \in one /\ ws[i].eq # None
    <3>2. plain = <<<<ws[i].text, <<Word(ws[i].eq)>>>>>> \o s[i + 1]
      BY <2>3, Zenon
    <3> HIDE DEF plain
    <3> QED BY <1>4, <1>p, <2>1, <2>3, <2>b, <3>2, Zenon DEF ParseBad, ParseOut, ParseNext
  <2>4. CASE ~(ws[i].text \in none /\ ws[i].eq = None) /\ ws[i].text \in one /\ ws[i].eq = None
    <3>2. plain = IF i = Len(ws) THEN <<Refused>>
                  ELSE IF IsPacked(ws[i + 1]) THEN <<Refused>>
                  ELSE <<<<ws[i].text, <<ws[i + 1]>>>>>> \o s[i + 2]
      BY <2>4, Zenon
    <3> HIDE DEF plain
    <3> QED BY <1>4, <1>p, <2>1, <2>4, <2>b, <3>2, Zenon DEF ParseBad, ParseOut, ParseNext
  <2>5. CASE ~(ws[i].text \in none /\ ws[i].eq = None) /\ ws[i].text \notin one
    <3>2. plain = <<Refused>>
      BY <2>5, Zenon
    <3> HIDE DEF plain
    <3> QED BY <1>4, <1>p, <2>1, <2>5, <2>b, <3>2, Zenon DEF ParseBad
  <2> QED BY <2>2, <2>3, <2>4, <2>5, Zenon
<1> QED
  BY <1>1, <1>2, <1>3, <1>4, Zenon

IsParse(s, c, ws) == s = [i \in 1..(Len(ws) + 2) |-> ParseEntry(s, c, ws, i)]

LEMMA ParseTable ==
  ASSUME NEW c \in Kinds, NEW ws, Len(ws) \in Nat
  PROVE  \E s : /\ try_parse_from(c, ws) = s[1]
                /\ \A i \in 1..(Len(ws) + 2) : s[i] = ParseEntry(s, c, ws, i)
<1>p. PICK M \in Nat : M = Len(ws) + 2
  OBVIOUS
<1> DEFINE Stops(i) == i > Len(ws) \/ ParseBad(c, ws, i)
           Pre(i) == IF i > Len(ws) THEN <<>> ELSE IF ParseBad(c, ws, i) THEN <<Refused>>
                     ELSE <<ParseOut(c, ws, i)>>
           stop == [i \in 1..M |-> Stops(i)]
           pre == [i \in 1..M |-> Pre(i)]
           next == [i \in 1..M |-> ParseNext(c, ws, i)]
<1>1. ASSUME NEW i \in 1..M, ~stop[i] PROVE next[i] \in (i + 1)..M
  <2>1. ~Stops(i) /\ next[i] = ParseNext(c, ws, i)
    BY <1>1, Zenon
  <2>2. ~(i > Len(ws))
    BY <2>1
  <2>3. ParseNext(c, ws, i) = i + 1 \/ ParseNext(c, ws, i) = i + 2
    BY Zenon DEF ParseNext
  <2>4. i + 1 \in (i + 1)..M /\ i + 2 \in (i + 1)..M
    BY <1>p, <2>2
  <2> QED BY <2>1, <2>3, <2>4, Zenon
<1>3. ASSUME NEW s, NEW i \in 1..M PROVE RightEntry(s, stop, pre, next, i) = ParseEntry(s, c, ws, i)
  <2>1. stop[i] = Stops(i) /\ pre[i] = Pre(i) /\ next[i] = ParseNext(c, ws, i)
    BY Zenon
  <2>2. RightEntry(s, stop, pre, next, i) = IF Stops(i) THEN Pre(i) ELSE Pre(i) \o s[ParseNext(c, ws, i)]
    BY <2>1, Zenon DEF RightEntry
  <2>3. ParseEntry(s, c, ws, i) =
           IF i > Len(ws) THEN <<>>
           ELSE IF ParseBad(c, ws, i) THEN <<Refused>>
           ELSE <<ParseOut(c, ws, i)>> \o s[ParseNext(c, ws, i)]
    BY ParseCases
  <2>4. CASE i > Len(ws) BY <2>2, <2>3, <2>4, Zenon
  <2>5. CASE ~(i > Len(ws)) /\ ParseBad(c, ws, i) BY <2>2, <2>3, <2>5, Zenon
  <2>6. CASE ~(i > Len(ws)) /\ ~ParseBad(c, ws, i) BY <2>2, <2>3, <2>6, Zenon
  <2> QED BY <2>4, <2>5, <2>6
<1>a. Onward(M, stop, next)
  BY <1>1, Zenon DEF Onward
<1> HIDE DEF stop, pre, next
<1>r. PICK s : Filled(s, M, stop, pre, next)
  BY <1>a, RightTable, Zenon
<1>4. s = [i \in 1..M |-> RightEntry(s, stop, pre, next, i)]
  BY <1>r, Zenon DEF Filled
<1>5. s = [i \in 1..M |-> ParseEntry(s, c, ws, i)]
  BY <1>3, <1>4, Zenon
<1>6. IsParse(s, c, ws)
  BY <1>5, <1>p, Zenon DEF IsParse
<1> DEFINE t == CHOOSE u : IsParse(u, c, ws)
<1>7. IsParse(t, c, ws)
  BY <1>6, Zenon
<1>8. try_parse_from(c, ws) = t[1]
  BY Zenon DEF try_parse_from, IsParse, ParseEntry
<1> HIDE DEF t
<1>9. t = [i \in 1..M |-> ParseEntry(t, c, ws, i)]
  BY <1>7, <1>p, Zenon DEF IsParse
<1>10. \A i \in 1..M : t[i] = ParseEntry(t, c, ws, i)
  BY <1>9, Zenon
<1> QED
  BY <1>8, <1>10, <1>p

KnownOption(c, o) ==
    \/ o[1] \in FlagsOf(c).none \union FlagsOf(c).one
    \/ packed_arity(o[1]) # 0 /\ c \notin {"daemon", "worker"}

LEMMA FlagKinds ==
  ASSUME NEW c \in Kinds, NEW f
  PROVE  /\ f \in FlagsOf(c).one => packed_arity(f) = 0 /\ f \notin FlagsOf(c).none
         /\ f \in FlagsOf(c).none => packed_arity(f) = 0
  BY FlagSets

LEMMA OneArity ==
  ASSUME NEW c \in Commands, c \in Kinds, NEW f
  PROVE  /\ f \in FlagsOf(c).one => Arity(f) = 1
         /\ f \in FlagsOf(c).none => Arity(f) = 0
<1>1. \A d \in Commands : d \in Kinds
  BY CommandLineAssumption DEF Kinds
<1>2. f \in FlagsOf(c).one => packed_arity(f) = 0
  BY FlagKinds
<1>3. ASSUME f \in FlagsOf(c).none PROVE packed_arity(f) = 0 /\ \A d \in Commands : f \notin FlagsOf(d).one
  BY <1>1, <1>3, FlagSets
<1>4. ASSUME f \in FlagsOf(c).one PROVE Arity(f) = 1
  BY <1>2, <1>4, Zenon DEF Arity
<1>5. ASSUME f \in FlagsOf(c).none PROVE Arity(f) = 0
  BY <1>3, <1>5, Zenon DEF Arity
<1> QED
  BY <1>4, <1>5

LEMMA ParsePacked ==
  ASSUME NEW c \in Kinds, NEW ws, Len(ws) \in Nat, NEW o, IsOption(o), packed_arity(o[1]) # 0,
         NEW a \in Nat, a + 1 <= Len(ws), ws[a + 1] = [text |-> o[1], packed |-> o[2]],
         NEW s, \A i \in 1..(Len(ws) + 2) : s[i] = ParseEntry(s, c, ws, i)
  PROVE  /\ ~KnownOption(c, o) => s[a + 1] = <<Refused>>
         /\ KnownOption(c, o) => s[a + 1] = <<o>> \o s[(a + 1) + 1]
<1>p. PICK i \in 1..(Len(ws) + 2) : i = a + 1 /\ ~(i > Len(ws))
  OBVIOUS
<1>w. PICK w : w = ws[i] /\ w = [text |-> o[1], packed |-> o[2]]
  BY <1>p
<1>1. w.text = o[1] /\ w.packed = o[2] /\ IsPacked(w)
  BY <1>w DEF IsPacked
<1>2. w # Refused /\ o = <<o[1], o[2]>>
  BY <1>w, Zenon DEF IsOption
<1>3. s[i] = ParseEntry(s, c, ws, i)
  BY Zenon
<1>4. s[i] = IF ParseBad(c, ws, i) THEN <<Refused>> ELSE <<ParseOut(c, ws, i)>> \o s[ParseNext(c, ws, i)]
  <2>1. ParseEntry(s, c, ws, i) =
           IF i > Len(ws) THEN <<>>
           ELSE IF ParseBad(c, ws, i) THEN <<Refused>>
           ELSE <<ParseOut(c, ws, i)>> \o s[ParseNext(c, ws, i)]
    BY ParseCases
  <2> QED BY <1>3, <1>p, <2>1, Zenon
<1>5. ParseBad(c, ws, i) <=> Serves(c)
  BY <1>1, <1>2, <1>w, Zenon DEF ParseBad
<1>6. ParseOut(c, ws, i) = o /\ ParseNext(c, ws, i) = i + 1
  BY <1>1, <1>2, <1>w, Zenon DEF ParseOut, ParseNext
<1>7. KnownOption(c, o) <=> ~Serves(c)
  BY FlagKinds DEF KnownOption, Serves
<1> QED
  BY <1>4, <1>5, <1>6, <1>7, <1>p, Zenon

LEMMA ParsePlain ==
  ASSUME NEW c \in Kinds, c \in Commands, NEW ws, Len(ws) \in Nat,
         NEW o, IsOption(o), packed_arity(o[1]) = 0, NEW F, NEW e, WritesOut(F, o, e),
         NEW a \in Nat, Stands(F, ws, a),
         NEW s, \A i \in 1..(Len(ws) + 2) : s[i] = ParseEntry(s, c, ws, i)
  PROVE  /\ ~KnownOption(c, o) => s[a + 1] = <<Refused>>
         /\ KnownOption(c, o) => s[a + 1] = <<o>> \o s[(a + Len(F)) + 1]
<1>v. PICK v : /\ v = o[2] /\ o = <<o[1], v>> /\ v = [i \in 1..Arity(o[1]) |-> v[i]]
               /\ \A i \in 1..Arity(o[1]) : IsWord(v[i])
  BY OptionParts
<1>r. PICK r \in {0, 1} : r = Arity(o[1])
  BY DEF Arity
<1>d. PICK d \in {0, 1} : d = Skipped(e)
  BY DEF Skipped
<1>w. /\ F[1] = [text |-> o[1], eq |-> e] /\ Len(F) = 1 + (r - d) /\ r >= d
      /\ \A j \in 1..(r - d) : F[1 + j] = v[j + d]
      /\ e # None => v[1] = Word(e)
  BY <1>v, <1>r, <1>d, Zenon DEF WritesOut
<1>1. Len(F) \in {1, 2} /\ 1 \in 1..Len(F) /\ a + Len(F) <= Len(ws)
  BY <1>w DEF Stands
<1>2. ws[a + 1] = F[1]
  BY <1>1, Zenon DEF Stands
<1>p. PICK i \in 1..(Len(ws) + 2) : i = a + 1 /\ ~(i > Len(ws))
  BY <1>1
<1>x. PICK w : w = ws[i] /\ w = [text |-> o[1], eq |-> e]
  BY <1>2, <1>p, <1>w, Zenon
<1>3. w.text = o[1] /\ w.eq = e /\ ~IsPacked(w)
  BY <1>x DEF IsPacked
<1>4. w # Refused
  <2>1. CASE e = None
    BY <1>x, <2>1, Zenon DEF IsOption, Word
  <2>2. CASE e # None
    <3>1. d = 1 /\ Arity(o[1]) # 0
      BY <1>d, <1>r, <1>w, <2>2 DEF Skipped
    <3>2. v[1].text = e
      BY <1>w, <2>2 DEF Word
    <3>3. [text |-> o[1], eq |-> o[2][1].text] # Refused
      BY <3>1, Zenon DEF IsOption
    <3> QED BY <1>v, <1>x, <3>2, <3>3, Zenon
  <2> QED BY <2>1, <2>2
<1>5. s[i] = IF ParseBad(c, ws, i) THEN <<Refused>> ELSE <<ParseOut(c, ws, i)>> \o s[ParseNext(c, ws, i)]
  <2>1. s[i] = ParseEntry(s, c, ws, i)
    BY Zenon
  <2> QED BY <1>p, <2>1, ParseCases, Zenon
<1>6. Bare(c, w) <=> o[1] \in FlagsOf(c).none /\ e = None
  BY <1>3, Zenon DEF Bare
<1>7. CASE o[1] \in FlagsOf(c).none
  <2>1. r = 0
    BY <1>7, <1>r, OneArity
  <2>2. d = 0 /\ e = None /\ Len(F) = 1
    BY <1>d, <1>w, <2>1 DEF Skipped
  <2>3. Bare(c, w) /\ KnownOption(c, o)
    BY <1>6, <1>7, <2>2, Zenon DEF KnownOption
  <2>4. v = <<>>
    BY <1>v, <1>r, <2>1
  <2>5. ~ParseBad(c, ws, i) /\ ParseOut(c, ws, i) = o /\ ParseNext(c, ws, i) = i + 1
    BY <1>3, <1>4, <1>v, <1>x, <2>3, <2>4, Zenon DEF ParseBad, ParseOut, ParseNext
  <2>6. i + 1 = (a + Len(F)) + 1
    BY <1>p, <2>2
  <2> QED BY <1>5, <1>p, <2>3, <2>5, <2>6, Zenon
<1>8. CASE o[1] \in FlagsOf(c).one
  <2>1. r = 1
    BY <1>8, <1>r, OneArity
  <2>2. ~Bare(c, w) /\ KnownOption(c, o)
    BY <1>6, <1>8, FlagKinds DEF KnownOption
  <2>3. v = <<v[1]>>
    <3>1. v = [j \in 1..1 |-> v[j]] BY <1>v, <1>r, <2>1
    <3> QED BY ONLY <3>1
  <2>4. CASE e # None
    <3>1. d = 1 /\ Len(F) = 1
      BY <1>d, <1>w, <2>1, <2>4 DEF Skipped
    <3>2. ~ParseBad(c, ws, i) /\ ParseNext(c, ws, i) = i + 1
      BY <1>3, <1>4, <1>8, <1>x, <2>2, <2>4, Zenon DEF ParseBad, ParseNext
    <3>3. ParseOut(c, ws, i) = <<o[1], <<Word(e)>>>>
      BY <1>3, <1>x, <2>2, <2>4, Zenon DEF ParseOut
    <3>4. <<o[1], <<Word(e)>>>> = o
      BY <1>v, <1>w, <2>3, <2>4, Zenon
    <3>6. i + 1 = (a + Len(F)) + 1
      BY <1>p, <3>1
    <3> QED BY <1>5, <1>p, <2>2, <3>2, <3>3, <3>4, <3>6, Zenon
  <2>5. CASE e = None
    <3>1. d = 0 /\ Len(F) = 2
      BY <1>d, <1>w, <2>1, <2>5 DEF Skipped
    <3>2. F[2] = v[1]
      <4>1. 1 \in 1..(r - d) /\ 1 + 1 = 2 /\ 1 + d = 1 BY <2>1, <3>1
      <4> QED BY <1>w, <4>1
    <3>3. ws[i + 1] = v[1]
      <4>1. 2 \in 1..Len(F) /\ a + 2 = i + 1 BY <1>p, <3>1
      <4>2. ws[a + 2] = F[2] BY <4>1, Zenon DEF Stands
      <4> QED BY <3>2, <4>1, <4>2, Zenon
    <3>4. ~IsPacked(v[1])
      <4>1. IsWord(v[1])
        <5>1. 1 \in 1..Arity(o[1]) BY <1>r, <2>1
        <5> QED BY <1>v, <5>1
      <4>2. v[1] = [text |-> v[1].text, eq |-> v[1].eq] BY <4>1 DEF IsWord
      <4>p. PICK x, y : v[1] = [text |-> x, eq |-> y] BY <4>2, Zenon
      <4>3. DOMAIN [text |-> x, eq |-> y] = {"text", "eq"} OBVIOUS
      <4>4. DOMAIN v[1] = {"text", "eq"} BY <4>3, <4>p, Zenon
      <4> QED BY <4>4 DEF IsPacked
    <3>5. i # Len(ws)
      BY <1>1, <1>p, <3>1
    <3>6. ~ParseBad(c, ws, i) /\ ParseNext(c, ws, i) = i + 2
      BY <1>3, <1>4, <1>8, <1>x, <2>2, <2>5, <3>3, <3>4, <3>5, Zenon DEF ParseBad, ParseNext
    <3>7. ParseOut(c, ws, i) = <<o[1], <<v[1]>>>>
      BY <1>3, <1>x, <2>2, <2>5, <3>3, Zenon DEF ParseOut
    <3>8. <<o[1], <<v[1]>>>> = o
      BY <1>v, <2>3, Zenon
    <3>9. i + 2 = (a + Len(F)) + 1
      BY <1>p, <3>1
    <3> QED BY <1>5, <1>p, <2>2, <3>6, <3>7, <3>8, <3>9, Zenon
  <2> QED BY <2>4, <2>5
<1>9. CASE o[1] \notin FlagsOf(c).none /\ o[1] \notin FlagsOf(c).one
  <2>1. ParseBad(c, ws, i) /\ ~KnownOption(c, o)
    BY <1>3, <1>6, <1>9, <1>x, Zenon DEF ParseBad, KnownOption
  <2> QED BY <1>5, <1>p, <2>1, Zenon
<1> QED
  BY <1>7, <1>8, <1>9

(* The options themselves are laid out one by one. *)
LEMMA OptionsLaid ==
  ASSUME NEW m, IsIntent(m)
  PROVE  \E S, off : /\ Refused \notin S /\ m \in Seq(S) /\ Laid(m, [k \in 1..Len(m) |-> <<m[k]>>], off, Len(m))
                     /\ [k \in 1..Len(m) |-> <<m[k]>>] \in [1..Len(m) -> Seq(S)]
<1>p. PICK n \in Nat : n = Len(m)
  BY IntentParts
<1>1. m = [k \in 1..n |-> m[k]] /\ \A k \in 1..n : IsOption(m[k])
  BY <1>p, IntentParts, Zenon
<1>s. PICK S : S = {m[k] : k \in 1..n}
  OBVIOUS
<1>2. Refused \notin S
  <2>1. \A k \in 1..n : m[k] # Refused BY <1>1, Zenon DEF IsOption
  <2> QED BY <1>s, <2>1, Zenon
<1>3. \A k \in 1..n : m[k] \in S
  BY <1>s, Zenon
<1>4. m \in Seq(S)
  <2>1. [k \in 1..n |-> m[k]] \in Seq(S) BY ONLY <1>3, n \in Nat
  <2> QED BY <1>1, <2>1, Zenon
<1>F. PICK F : F = [k \in 1..n |-> <<m[k]>>]
  OBVIOUS
<1>5. \A k \in 1..n : F[k] = <<m[k]>> /\ <<m[k]>> \in Seq(S) /\ Len(<<m[k]>>) = 1 /\ <<m[k]>>[1] = m[k]
  BY <1>3, <1>F, AtMostOne
<1>6. F \in [1..n -> Seq(S)]
  BY <1>5, <1>F
<1> DEFINE off == [k \in 0..n |-> k]
<1>7. /\ off \in [0..n -> 0..n] /\ off[0] = 0 /\ off[n] = n
      /\ \A k \in 1..n : off[k] = k /\ off[k - 1] = k - 1 /\ k = (k - 1) + 1
  OBVIOUS
<1> HIDE DEF off
<1>8. ASSUME NEW k \in 1..n
      PROVE  off[k] = off[k - 1] + Len(F[k]) /\ \A j \in 1..Len(F[k]) : m[off[k - 1] + j] = F[k][j]
  <2>1. Len(F[k]) = 1 /\ F[k][1] = m[k]
    BY <1>5, Zenon
  <2>2. off[k] = k /\ off[k - 1] = k - 1 /\ k = (k - 1) + 1
    BY <1>7
  <2> QED BY <2>1, <2>2
<1>9. Laid(m, F, off, n)
  BY <1>7, <1>8, <1>p, Zenon DEF Laid
<1> QED
  BY <1>2, <1>4, <1>6, <1>9, <1>F, <1>p, Zenon

(* The parser finds the options that are meant, or refuses one it does not
   know. *)
LEMMA Parsing ==
  ASSUME NEW m, IsIntent(m), NEW joined, NEW c \in Kinds, c \in Commands
  PROVE  LET found == try_parse_from(c, PackedLine(m, joined))
             bad == \E k \in 1..Len(m) : ~KnownOption(c, m[k])
         IN /\ ~bad => found = m /\ \A i \in DOMAIN found : found[i] # Refused
            /\ bad => \E i \in DOMAIN found : found[i] = Refused
<1>p0. PICK n \in Nat : n = Len(m)
  BY IntentParts
<1>p. PICK U, W, F, H :
        /\ n = Len(m) /\ U = Pieces(m) /\ W = PackedLine(m, joined)
        /\ F = [k \in 1..n |-> Form(m[k], joined)] /\ H = [k \in 1..n |-> <<m[k]>>]
  BY <1>p0
<1>1. W \in Seq(U) /\ F \in [1..n -> Seq(U)] /\ \E off : Laid(W, F, off, n)
  BY <1>p, LineLaid, Zenon
<1>o. PICK off : Laid(W, F, off, n)
  BY <1>1, Zenon
<1>h. PICK S, hof : Refused \notin S /\ m \in Seq(S) /\ Laid(m, H, hof, n) /\ H \in [1..n -> Seq(S)]
  BY <1>p, OptionsLaid, Zenon
<1>2. Len(W) \in Nat
  BY <1>1
<1>s. PICK s : /\ try_parse_from(c, W) = s[1]
               /\ \A i \in 1..(Len(W) + 2) : s[i] = ParseEntry(s, c, W, i)
  BY <1>2, ParseTable
<1> DEFINE R == [k \in 0..n |-> s[off[k] + 1]]
           Bad == {k \in 1..n : ~KnownOption(c, m[k])}
<1>3. off[0] = 0 /\ off[n] = Len(W) /\ 0 \in 0..n /\ n \in 0..n
  BY <1>o DEF Laid
<1>4. R[n] = <<>>
  <2>1. R[n] = s[Len(W) + 1]
    BY <1>3, Zenon
  <2>2. Len(W) + 1 \in 1..(Len(W) + 2) /\ Len(W) + 1 > Len(W)
    BY <1>2
  <2>3. ParseEntry(s, c, W, Len(W) + 1) = <<>>
    BY <2>2, Zenon DEF ParseEntry
  <2> QED BY <1>s, <2>1, <2>2, <2>3, Zenon
<1>5. R[0] = try_parse_from(c, W)
  <2>1. R[0] = s[0 + 1]
    BY <1>3, Zenon
  <2>2. 0 + 1 = 1
    OBVIOUS
  <2> QED BY <1>s, <2>1, <2>2, Zenon
<1>6. ASSUME NEW k \in 1..n
      PROVE  /\ k \in Bad => R[k - 1] = <<Refused>>
             /\ k \notin Bad => R[k - 1] = H[k] \o R[k]
  <2>o. PICK o : o = m[k] /\ IsOption(o)
    BY <1>p, IntentParts, Zenon
  <2>1. F[k] = Form(o, joined) /\ H[k] = <<o>>
    BY <1>p, <2>o, Zenon
  <2>2. off[k - 1] \in Nat /\ off[k] = off[k - 1] + Len(F[k]) /\ Stands(F[k], W, off[k - 1])
    <3>1. W \in Seq(U) /\ F \in [1..n -> Seq(U)] /\ n \in Nat /\ k \in 1..n
      BY <1>1, Zenon
    <3>2. StandsAt(F, W, off, k) BY ONLY <3>1, <1>o, LaidStands
    <3> QED BY <3>2, Zenon DEF StandsAt
  <2>3. k - 1 \in 0..n /\ k \in 0..n
    OBVIOUS
  <2>4. R[k - 1] = s[off[k - 1] + 1] /\ R[k] = s[off[k] + 1]
    BY <2>3, Zenon
  <2>5. k \in Bad <=> ~KnownOption(c, o)
    BY <2>o, Zenon
  <2>p0. PICK a \in Nat : a = off[k - 1]
    BY <2>2
  <2>p. PICK f : a = off[k - 1] /\ f = F[k]
    BY <2>p0
  <2>6. Stands(f, W, a) /\ R[k] = s[(a + Len(f)) + 1] /\ R[k - 1] = s[a + 1]
    BY <2>2, <2>4, <2>p, Zenon
  <2>7. CASE packed_arity(o[1]) = 0
    <3>1. f = Written(o, joined)
      BY <2>1, <2>7, <2>p, Zenon DEF Form
    <3>e. PICK e : WritesOut(f, o, e)
      BY <2>o, <3>1, Writing
    <3>0. /\ c \in Kinds /\ c \in Commands /\ Len(W) \in Nat /\ IsOption(o) /\ packed_arity(o[1]) = 0
          /\ WritesOut(f, o, e) /\ a \in Nat /\ Stands(f, W, a)
          /\ \A i \in 1..(Len(W) + 2) : s[i] = ParseEntry(s, c, W, i)
      BY <1>2, <1>s, <2>6, <2>7, <2>o, <3>e, Zenon
    <3>2. /\ ~KnownOption(c, o) => s[a + 1] = <<Refused>>
          /\ KnownOption(c, o) => s[a + 1] = <<o>> \o s[(a + Len(f)) + 1]
      BY ONLY <3>0, ParsePlain
    <3> QED BY <2>1, <2>5, <2>6, <3>2, Zenon
  <2>8. CASE packed_arity(o[1]) # 0
    <3>x. PICK x : x = [text |-> o[1], packed |-> o[2]]
      OBVIOUS
    <3>1. f = <<x>>
      BY <2>1, <2>8, <2>p, <3>x, Zenon DEF Form
    <3>2. Len(f) = 1 /\ f[1] = x /\ 1 \in 1..Len(f)
      BY <3>1
    <3>3. a + 1 <= Len(W) /\ W[a + 1] = x
      BY <2>6, <3>2 DEF Stands
    <3>4. W[a + 1] = [text |-> o[1], packed |-> o[2]]
      BY <3>3, <3>x, Zenon
    <3>0. /\ c \in Kinds /\ Len(W) \in Nat /\ IsOption(o) /\ packed_arity(o[1]) # 0
          /\ a \in Nat /\ a + 1 <= Len(W) /\ W[a + 1] = [text |-> o[1], packed |-> o[2]]
          /\ \A i \in 1..(Len(W) + 2) : s[i] = ParseEntry(s, c, W, i)
      BY <1>2, <1>s, <2>8, <2>o, <3>3, <3>4, Zenon
    <3>5. /\ ~KnownOption(c, o) => s[a + 1] = <<Refused>>
          /\ KnownOption(c, o) => s[a + 1] = <<o>> \o s[(a + 1) + 1]
      BY ONLY <3>0, ParsePacked
    <3> QED BY <2>1, <2>5, <2>6, <3>2, <3>5, Zenon
  <2> QED BY <2>7, <2>8
<1>q. PICK r, b : r = R /\ b = Bad
  OBVIOUS
<1>7. Builds(r, H, n, b)
  <2>2. b \in SUBSET (1..n)
    BY <1>q
  <2> QED BY <1>4, <1>6, <1>q, <2>2, Zenon DEF Builds
<1> HIDE DEF R, Bad
<1>8. /\ b = {} => r[0] = m /\ \A i \in DOMAIN m : m[i] # Refused
      /\ b # {} => \E i \in DOMAIN r[0] : r[0][i] = Refused
  BY ONLY <1>7, <1>h, n \in Nat, Rebuilt
<1>9. b # {} <=> \E k \in 1..Len(m) : ~KnownOption(c, m[k])
  BY <1>p, <1>q, Zenon DEF Bad
<1>10. r[0] = try_parse_from(c, PackedLine(m, joined))
  BY <1>5, <1>p, <1>q, Zenon
<1> QED
  BY <1>8, <1>9, <1>10, Zenon

-----------------------------------------------------------------------------
(* The options that are found for a flag. *)

Occurs(m, flag, n) == {i \in 1..n : m[i][1] = flag}

FoundEntry(t, opts, flag, i) ==
    IF i = 0 THEN <<>>
    ELSE IF opts[i][1] = flag THEN Append(t[i - 1], opts[i]) ELSE t[i - 1]

IsFound(t, opts, flag) == t = [i \in 0..Len(opts) |-> FoundEntry(t, opts, flag, i)]

LEMMA FoundExists ==
  ASSUME NEW opts, Len(opts) \in Nat, NEW flag
  PROVE  \E t : IsFound(t, opts, flag)
<1> DEFINE Upto(k) == \E t : t = [i \in 0..k |-> FoundEntry(t, opts, flag, i)]
           G == {k \in Nat : Upto(k)}
<1>1. Upto(0)
  <2> DEFINE t == [i \in 0..0 |-> <<>>]
  <2>1. \A i \in 0..0 : i = 0
    OBVIOUS
  <2>2. \A i \in 0..0 : FoundEntry(t, opts, flag, i) = <<>>
    BY <2>1, Zenon DEF FoundEntry
  <2>3. t = [i \in 0..0 |-> FoundEntry(t, opts, flag, i)]
    BY <2>2, Zenon
  <2> QED BY <2>3, Zenon
<1>2. ASSUME NEW k \in Nat, Upto(k) PROVE Upto(k + 1)
  <2>1. PICK t : t = [i \in 0..k |-> FoundEntry(t, opts, flag, i)]
    BY <1>2, Zenon
  <2> DEFINE u == [i \in 0..(k + 1) |-> IF i = k + 1 THEN FoundEntry(t, opts, flag, i) ELSE t[i]]
  <2>2. u = [i \in 0..(k + 1) |-> u[i]] /\ k + 1 \in 0..(k + 1)
    OBVIOUS
  <2>3. \A i \in 0..k : u[i] = t[i]
    OBVIOUS
  <2>4. u[k + 1] = FoundEntry(t, opts, flag, k + 1)
    BY <2>2, Zenon
  <2> HIDE DEF u
  <2>5. ASSUME NEW i \in 0..(k + 1) PROVE u[i] = FoundEntry(u, opts, flag, i)
    <3>1. i # 0 => i - 1 \in 0..k
      OBVIOUS
    <3>2. i # 0 => u[i - 1] = t[i - 1]
      BY <2>3, <3>1
    <3>3. FoundEntry(u, opts, flag, i) = FoundEntry(t, opts, flag, i)
      BY <3>2, Zenon DEF FoundEntry
    <3>4. CASE i = k + 1
      BY <2>4, <3>3, <3>4, Zenon
    <3>5. CASE i # k + 1
      <4>1. i \in 0..k
        BY <3>5
      <4>2. t[i] = FoundEntry(t, opts, flag, i)
        BY <2>1, <4>1, Zenon
      <4> QED BY <2>3, <3>3, <4>1, <4>2, Zenon
    <3> QED BY <3>4, <3>5
  <2>6. u = [i \in 0..(k + 1) |-> FoundEntry(u, opts, flag, i)]
    BY <2>2, <2>5, Zenon
  <2> QED BY <2>6, Zenon
<1> HIDE DEF Upto
<1>3. 0 \in G
  BY <1>1
<1>4. ASSUME NEW k \in Nat, k \in G PROVE k + 1 \in G
  BY <1>2, <1>4
<1>5. Nat \subseteq G
  BY <1>3, <1>4, Induct
<1>6. Upto(Len(opts))
  BY <1>5
<1> QED
  BY <1>6, Zenon DEF Upto, IsFound

(* Which of the options with its flag the one at i is. *)
RankOf(m, flag, i) == Cardinality(Occurs(m, flag, i))

(* What is found so far: as many options as there are, all of them in their
   places and no other. *)
FoundSoFar(q, m, flag, n) ==
    /\ q \in Seq({m[i] : i \in 1..Len(m)}) /\ Len(q) = Cardinality(Occurs(m, flag, n))
    /\ IsFiniteSet(Occurs(m, flag, n))
    /\ \A i \in Occurs(m, flag, n) : \E k \in 1..Len(q) : q[k] = m[i]
    /\ \A k \in 1..Len(q) : \E i \in Occurs(m, flag, n) : q[k] = m[i]
    /\ \A i \in Occurs(m, flag, n) : RankOf(m, flag, i) \in 1..Len(q) /\ q[RankOf(m, flag, i)] = m[i]

LEMMA FoundOne ==
  ASSUME NEW m, NEW flag, Len(m) \in Nat, NEW n \in Nat, n + 1 <= Len(m), NEW q, FoundSoFar(q, m, flag, n)
  PROVE  /\ m[n + 1][1] = flag => FoundSoFar(Append(q, m[n + 1]), m, flag, n + 1)
         /\ m[n + 1][1] # flag => FoundSoFar(q, m, flag, n + 1)
<1>S. PICK S : S = {m[i] : i \in 1..Len(m)}
  OBVIOUS
<1>A. PICK A, B : A = Occurs(m, flag, n) /\ B = Occurs(m, flag, n + 1)
  OBVIOUS
<1>1. /\ q \in Seq(S) /\ Len(q) = Cardinality(A) /\ IsFiniteSet(A)
      /\ \A i \in A : \E k \in 1..Len(q) : q[k] = m[i]
      /\ \A k \in 1..Len(q) : \E i \in A : q[k] = m[i]
      /\ \A i \in A : RankOf(m, flag, i) \in 1..Len(q) /\ q[RankOf(m, flag, i)] = m[i]
  BY <1>S, <1>A, Zenon DEF FoundSoFar
<1>2. CASE m[n + 1][1] = flag
  <2>x. PICK x : x = m[n + 1]
    OBVIOUS
  <2>1. x \in S
    <3>1. n + 1 \in 1..Len(m) OBVIOUS
    <3> QED BY <1>S, <2>x, <3>1, Zenon
  <2>2. B = A \union {n + 1} /\ n + 1 \notin A
    BY <1>2, <1>A DEF Occurs
  <2>p. PICK p : p = Append(q, x)
    OBVIOUS
  <2>3. /\ p \in Seq(S) /\ Len(p) = Len(q) + 1 /\ Len(q) \in Nat /\ p[Len(q) + 1] = x
        /\ \A k \in 1..Len(q) : p[k] = q[k]
    BY <1>1, <2>1, <2>p
  <2>4. Cardinality(B) = Cardinality(A) + 1 /\ IsFiniteSet(B)
    BY <1>1, <2>2, FS_AddElement
  <2>5. ASSUME NEW i \in B PROVE \E k \in 1..Len(p) : p[k] = m[i]
    <3>1. CASE i = n + 1
      <4>1. Len(q) + 1 \in 1..Len(p) BY <2>3
      <4> QED BY <2>3, <2>x, <3>1, <4>1
    <3>2. CASE i # n + 1
      <4>1. i \in A BY <2>2, <3>2
      <4>2. PICK k \in 1..Len(q) : q[k] = m[i] BY <1>1, <4>1
      <4>3. k \in 1..Len(p) BY <2>3
      <4> QED BY <2>3, <4>2, <4>3
    <3> QED BY <3>1, <3>2
  <2>6. ASSUME NEW k \in 1..Len(p) PROVE \E i \in B : p[k] = m[i]
    <3>1. CASE k = Len(q) + 1 BY <2>2, <2>3, <2>x, <3>1
    <3>2. CASE k # Len(q) + 1
      <4>1. k \in 1..Len(q) BY <2>3, <3>2
      <4> QED BY <1>1, <2>2, <2>3, <4>1
    <3> QED BY <3>1, <3>2
  <2>7. Len(p) = Cardinality(B)
    BY <1>1, <2>3, <2>4
  <2>9. ASSUME NEW i \in B PROVE RankOf(m, flag, i) \in 1..Len(p) /\ p[RankOf(m, flag, i)] = m[i]
    <3>1. CASE i = n + 1
      <4>1. RankOf(m, flag, i) = Len(p)
        BY <1>A, <2>7, <3>1, Zenon DEF RankOf
      <4>2. Len(p) \in 1..Len(p) /\ p[Len(p)] = x
        BY <2>3
      <4> QED BY <2>x, <3>1, <4>1, <4>2, Zenon
    <3>2. CASE i # n + 1
      <4>1. i \in A BY <2>2, <3>2
      <4>k. PICK k : k = RankOf(m, flag, i)
        OBVIOUS
      <4>2. k \in 1..Len(q) /\ q[k] = m[i]
        BY <1>1, <4>1, <4>k, Zenon
      <4>3. k \in 1..Len(p) /\ p[k] = q[k]
        BY <2>3, <4>2
      <4> QED BY <4>2, <4>3, <4>k, Zenon
    <3> QED BY <3>1, <3>2
  <2>8. FoundSoFar(p, m, flag, n + 1)
    BY <1>S, <1>A, <2>3, <2>4, <2>5, <2>6, <2>7, <2>9, ZenonT(60) DEF FoundSoFar
  <2> QED BY <1>2, <2>8, <2>p, <2>x, Zenon
<1>3. CASE m[n + 1][1] # flag
  <2>1. B = A
    BY <1>3, <1>A DEF Occurs
  <2>2. FoundSoFar(q, m, flag, n + 1)
    BY <1>1, <1>S, <1>A, <2>1, Zenon DEF FoundSoFar
  <2> QED BY <1>3, <2>2
<1> QED
  BY <1>2, <1>3

LEMMA Finding ==
  ASSUME NEW m, Len(m) \in Nat, NEW flag
  PROVE  FoundSoFar(Of(m, flag), m, flag, Len(m))
<1> DEFINE t == CHOOSE u : IsFound(u, m, flag)
<1>1. IsFound(t, m, flag)
  BY FoundExists, Zenon
<1>2. Of(m, flag) = t[Len(m)]
  BY Zenon DEF Of, IsFound, FoundEntry
<1> HIDE DEF t
<1>3. \A i \in 0..Len(m) : t[i] = FoundEntry(t, m, flag, i)
  BY <1>1, Zenon DEF IsFound
<1> DEFINE G == {n \in Nat : n <= Len(m) => FoundSoFar(t[n], m, flag, n)}
<1>4. 0 \in G
  <2>1. t[0] = <<>>
    <3>1. 0 \in 0..Len(m) OBVIOUS
    <3> QED BY <1>3, <3>1, Zenon DEF FoundEntry
  <2>2. Occurs(m, flag, 0) = {} /\ Cardinality({}) = 0 /\ IsFiniteSet({})
    BY FS_EmptySet DEF Occurs
  <2>3. <<>> \in Seq({m[i] : i \in 1..Len(m)}) /\ Len(<<>>) = 0 /\ 1..0 = {}
    <3>S. PICK S : S = {m[i] : i \in 1..Len(m)} OBVIOUS
    <3>1. <<>> \in Seq(S) /\ Len(<<>>) = 0 /\ 1..0 = {} OBVIOUS
    <3> QED BY <3>S, <3>1, Zenon
  <2>4. FoundSoFar(<<>>, m, flag, 0)
    BY <2>2, <2>3, Zenon DEF FoundSoFar
  <2> QED BY <2>1, <2>4
<1>5. ASSUME NEW n \in Nat, n \in G PROVE n + 1 \in G
  <2>1. SUFFICES ASSUME n + 1 <= Len(m) PROVE FoundSoFar(t[n + 1], m, flag, n + 1)
    OBVIOUS
  <2>2. FoundSoFar(t[n], m, flag, n)
    BY <1>5, <2>1
  <2>3. t[n + 1] = IF m[n + 1][1] = flag THEN Append(t[n], m[n + 1]) ELSE t[n]
    <3>1. n + 1 \in 0..Len(m) /\ n + 1 # 0 /\ (n + 1) - 1 = n
      BY <2>1
    <3> QED BY <1>3, <3>1, Zenon DEF FoundEntry
  <2>q. PICK q : q = t[n]
    OBVIOUS
  <2>4. /\ m[n + 1][1] = flag => FoundSoFar(Append(q, m[n + 1]), m, flag, n + 1)
        /\ m[n + 1][1] # flag => FoundSoFar(q, m, flag, n + 1)
    BY <2>1, <2>2, <2>q, FoundOne
  <2> QED BY <2>3, <2>4, <2>q, Zenon
<1>6. Nat \subseteq G
  BY <1>4, <1>5, Induct
<1>7. FoundSoFar(t[Len(m)], m, flag, Len(m))
  BY <1>6
<1> QED
  BY <1>2, <1>7, Zenon

-----------------------------------------------------------------------------
(* The plan that comes of what is meant. *)

(* A value that is given is no None and no Refused. *)
LEMMA GivenValue ==
  ASSUME NEW m, IsIntent(m), NEW c \in Commands, c \in Kinds, NEW f \in FlagsOf(c).one, Given(m, f)
  PROVE  Value(m, f) \notin {None, Refused}
<1>q. PICK q : q = Of(m, f)
  OBVIOUS
<1>0. Len(m) \in Nat /\ \A i \in 1..Len(m) : IsOption(m[i])
  BY IntentParts, Zenon
<1>1. FoundSoFar(q, m, f, Len(m))
  BY <1>0, <1>q, Finding, Zenon
<1>2. /\ q \in Seq({m[i] : i \in 1..Len(m)})
      /\ \A k \in 1..Len(q) : \E i \in Occurs(m, f, Len(m)) : q[k] = m[i]
  BY <1>1, Zenon DEF FoundSoFar
<1>3. q # <<>>
  BY <1>q, Zenon DEF Given
<1>4. 1 \in 1..Len(q)
  BY <1>2, <1>3
<1>5. PICK i \in 1..Len(m) : q[1] = m[i] /\ m[i][1] = f
  BY <1>2, <1>4, Zenon DEF Occurs
<1>o. PICK o : o = m[i] /\ IsOption(o) /\ o[1] = f
  BY <1>0, <1>5, Zenon
<1>6. Arity(f) = 1
  BY OneArity
<1>7. IsWord(o[2][1])
  <2>1. 1 \in 1..Arity(o[1]) BY <1>6, <1>o
  <2> QED BY <1>o, <2>1, Zenon DEF IsOption
<1>8. Value(m, f) = o[2][1]
  BY <1>5, <1>o, <1>q, Zenon DEF Value
<1> QED
  BY <1>7, <1>8, Zenon DEF IsWord

LEMMA Evaluating4 ==
  ASSUME NEW c \in {"eval", "watch", "query", "diff"}
  PROVE  {"--remote-token", "--item-timeout-seconds"} \subseteq FlagsOf(c).one
<1>1. OneValue \subseteq FlagsOf(c).one
  <2>1. CASE c = "eval"
    <3>1. FlagsOf(c) = [one |-> OneValue, none |-> NoValue \union {"--no-daemon", "--replay"}]
      BY <2>1 DEF FlagsOf, Takes
    <3> QED BY <3>1
  <2>2. CASE c = "watch"
    <3>1. FlagsOf(c) = [one |-> OneValue, none |-> NoValue \union {"--no-daemon"}]
      BY <2>2 DEF FlagsOf, Takes
    <3> QED BY <3>1
  <2>3. CASE c = "query"
    <3>1. FlagsOf(c) = [one |-> OneValue \union {"--system", "--attr-prefix"},
                        none |-> NoValue \union {"--no-daemon"}]
      BY <2>3 DEF FlagsOf, Takes
    <3> QED BY <3>1
  <2>4. CASE c = "diff"
    <3>1. FlagsOf(c) = [one |-> OneValue, none |-> NoValue]
      BY <2>4 DEF FlagsOf, Takes
    <3> QED BY <3>1
  <2> QED BY <2>1, <2>2, <2>3, <2>4
<1> QED
  BY <1>1 DEF OneValue

LEMMA WorkerTakesToken == "--token" \in FlagsOf("worker").one
<1>1. FlagsOf("worker") = [one |-> {"--listen", "--token"}, none |-> {"--insecure-tokenless-remote"}]
  BY DEF FlagsOf, ServerTakes
<1> QED BY <1>1

Chosen(m, f, fromEnv) == IF Given(m, f) THEN Value(m, f) ELSE fromEnv

(* The flag before the environment. *)
LEMMA ChosenToken ==
  ASSUME NEW m, NEW fromEnv, NEW f, fromEnv # Refused, Given(m, f) => Value(m, f) \notin {None, Refused}
  PROVE  /\ remote_token(ValueOr(m, f, None), fromEnv) =
              IF Chosen(m, f, fromEnv) = Empty THEN Refused ELSE Chosen(m, f, fromEnv)
         /\ Chosen(m, f, fromEnv) # Refused
<1>1. CASE Given(m, f)
  <2>1. ValueOr(m, f, None) = Value(m, f) /\ Value(m, f) # None /\ Chosen(m, f, fromEnv) = Value(m, f)
        /\ Value(m, f) # Refused
    BY <1>1, Zenon DEF ValueOr, Chosen
  <2> QED BY <2>1, Zenon DEF remote_token
<1>2. CASE ~Given(m, f)
  <2>1. ValueOr(m, f, None) = None /\ Chosen(m, f, fromEnv) = fromEnv
    BY <1>2, Zenon DEF ValueOr, Chosen
  <2> QED BY <2>1, Zenon DEF remote_token
<1> QED
  BY <1>1, <1>2

(* What NeverRefusedWithoutCause counts as a conflict. *)
Conflicts(c, m, fromEnv) ==
    \/ Cardinality(Inputs(m)) # 1
    \/ Chosen(m, "--remote-token", fromEnv) = Empty
    \/ /\ Chosen(m, "--remote-token", fromEnv) = None /\ Given(m, "--remote")
       /\ ~Given(m, "--insecure-tokenless-remote")
    \/ \E k \in DOMAIN Of(m, "--remote") : ~from_arg(Of(m, "--remote")[k][2])
    \/ \E flag \in {"--workers", "--item-timeout-seconds", "--max-memory"} :
         Given(m, flag) /\ Value(m, flag) \notin DOMAIN Number
    \/ NumberOr(m, "--item-timeout-seconds", 1) = 0
    \/ c = "watch" /\ Given(m, "--expr")
    \/ Given(m, "--replay") /\ Given(m, "--no-daemon")

LEMMA FailsForCause ==
  ASSUME NEW m, IsIntent(m), NEW c \in Commands, c \in {"eval", "watch", "query", "diff"},
         NEW fromEnv, fromEnv # Refused, command_plan_fails(c, m, fromEnv)
  PROVE  Conflicts(c, m, fromEnv)
<1>0. c \in Kinds /\ "--remote-token" \in FlagsOf(c).one
  BY Evaluating4 DEF Kinds
<1>1. Given(m, "--remote-token") => Value(m, "--remote-token") \notin {None, Refused}
  BY <1>0, GivenValue
<1>p. PICK token, tok : /\ token = remote_token(ValueOr(m, "--remote-token", None), fromEnv)
                        /\ tok = Chosen(m, "--remote-token", fromEnv)
  OBVIOUS
<1>2. token = (IF tok = Empty THEN Refused ELSE tok) /\ tok # Refused
  BY <1>1, <1>p, ChosenToken, Zenon
<1>3. ASSUME config_fails(m, fromEnv) PROVE Conflicts(c, m, fromEnv)
  <2>1. \/ \E flag \in {"--workers", "--item-timeout-seconds", "--max-memory"} :
             Given(m, flag) /\ Value(m, flag) \notin DOMAIN Number
        \/ Cardinality(Inputs(m)) # 1
        \/ \E i \in DOMAIN Of(m, "--remote") : ~from_arg(Of(m, "--remote")[i][2])
        \/ token = Refused
        \/ Given(m, "--remote") /\ token = None /\ ~Given(m, "--insecure-tokenless-remote")
        \/ NumberOr(m, "--item-timeout-seconds", DefaultTimeout) = 0
    BY <1>3, <1>p, Zenon DEF config_fails
  <2>2. ASSUME token = Refused PROVE tok = Empty
    BY <1>2, <2>2, Zenon
  <2>3. ASSUME token = None PROVE tok = Empty \/ tok = None
    BY <1>2, <2>3, Zenon
  <2>4. ASSUME NumberOr(m, "--item-timeout-seconds", DefaultTimeout) = 0
        PROVE  NumberOr(m, "--item-timeout-seconds", 1) = 0
    <3>1. DefaultTimeout # 0
      BY CommandLineAssumption
    <3>2. Given(m, "--item-timeout-seconds")
      BY <2>4, <3>1, Zenon DEF NumberOr
    <3> QED BY <2>4, <3>2, Zenon DEF NumberOr
  <2> QED BY <1>p, <2>1, <2>2, <2>3, <2>4, Zenon DEF Conflicts
<1>4. CASE c = "eval"
  <2>1. config_fails(m, fromEnv) \/ (Given(m, "--replay") /\ Given(m, "--no-daemon"))
    BY <1>4 DEF command_plan_fails
  <2> QED BY <1>3, <2>1, Zenon DEF Conflicts
<1>5. CASE c = "watch"
  <2>1. config_fails(m, fromEnv) \/ "--expr" \in Inputs(m)
    BY <1>5 DEF command_plan_fails
  <2>2. "--expr" \in Inputs(m) => Given(m, "--expr")
    BY Zenon DEF Inputs
  <2> QED BY <1>3, <1>5, <2>1, <2>2, Zenon DEF Conflicts
<1>6. CASE c \in {"query", "diff"}
  <2>1. config_fails(m, fromEnv)
    BY <1>6 DEF command_plan_fails
  <2> QED BY <1>3, <2>1
<1> QED
  BY <1>4, <1>5, <1>6

(* What a plan is made of. *)
PlanMade(p, c, m, fromEnv) ==
    /\ p.config = config(m, fromEnv) /\ p.socket = Socket(m)
    /\ c \in {"eval", "watch"} => p.use_daemon = ~Given(m, "--no-daemon")
    /\ c = "eval" => p.replay = Given(m, "--replay")
    /\ c = "query" => p.systems = pairs(m, "--system") /\ p.prefixes = pairs(m, "--attr-prefix")

LEMMA PlanConfig ==
  ASSUME NEW m, NEW c \in {"eval", "watch", "query", "diff"}, NEW fromEnv, ~command_plan_fails(c, m, fromEnv)
  PROVE  /\ PlanMade(command_plan(c, m, fromEnv), c, m, fromEnv) /\ ~config_fails(m, fromEnv)
         /\ command_plan(c, m, fromEnv).config = config(m, fromEnv)
<1>g. PICK g, s, d, r, x, y : /\ g = config(m, fromEnv) /\ s = Socket(m) /\ d = (~Given(m, "--no-daemon"))
                              /\ r = Given(m, "--replay") /\ x = pairs(m, "--system")
                              /\ y = pairs(m, "--attr-prefix")
  OBVIOUS
<1>p. PICK p : p = command_plan(c, m, fromEnv)
  OBVIOUS
<1>m. (p.config = g /\ p.socket = s /\ (c \in {"eval", "watch"} => p.use_daemon = d)
        /\ (c = "eval" => p.replay = r) /\ (c = "query" => p.systems = x /\ p.prefixes = y))
      => PlanMade(p, c, m, fromEnv)
  BY <1>g, Zenon DEF PlanMade
<1>1. CASE c = "eval"
  <2>1. command_plan(c, m, fromEnv) = plan_eval(m, fromEnv) /\ ~config_fails(m, fromEnv)
    BY <1>1 DEF command_plan, command_plan_fails
  <2>2. p = [command |-> "eval", config |-> g, socket |-> s, use_daemon |-> d, replay |-> r]
    BY <1>g, <1>p, <2>1, Zenon DEF plan_eval
  <2>3. p.config = g /\ p.socket = s /\ p.use_daemon = d /\ p.replay = r
    BY ONLY <2>2
  <2>4. PlanMade(p, c, m, fromEnv)
    BY <1>1, <1>m, <2>3
  <2> QED BY <1>g, <1>p, <2>1, <2>3, <2>4, Zenon
<1>2. CASE c = "watch"
  <2>1. command_plan(c, m, fromEnv) = plan_watch(m, fromEnv) /\ ~config_fails(m, fromEnv)
    BY <1>2 DEF command_plan, command_plan_fails
  <2>2. p = [command |-> "watch", config |-> g, socket |-> s, use_daemon |-> d]
    BY <1>g, <1>p, <2>1, Zenon DEF plan_watch
  <2>3. p.config = g /\ p.socket = s /\ p.use_daemon = d
    BY ONLY <2>2
  <2>4. PlanMade(p, c, m, fromEnv)
    BY <1>2, <1>m, <2>3
  <2> QED BY <1>g, <1>p, <2>1, <2>3, <2>4, Zenon
<1>3. CASE c = "query"
  <2>1. command_plan(c, m, fromEnv) = plan_query(m, fromEnv) /\ ~config_fails(m, fromEnv)
    BY <1>3 DEF command_plan, command_plan_fails
  <2>2. p = [command |-> "query", config |-> g, socket |-> s, systems |-> x, prefixes |-> y]
    BY <1>g, <1>p, <2>1, Zenon DEF plan_query
  <2>3. p.config = g /\ p.socket = s /\ p.systems = x /\ p.prefixes = y
    BY ONLY <2>2
  <2>4. PlanMade(p, c, m, fromEnv)
    BY <1>3, <1>m, <2>3
  <2> QED BY <1>g, <1>p, <2>1, <2>3, <2>4, Zenon
<1>4. CASE c = "diff"
  <2>1. command_plan(c, m, fromEnv) = plan_diff(m, fromEnv) /\ ~config_fails(m, fromEnv)
    BY <1>4 DEF command_plan, command_plan_fails
  <2>2. p = [command |-> "diff", config |-> g, socket |-> s]
    BY <1>g, <1>p, <2>1, Zenon DEF plan_diff
  <2>3. p.config = g /\ p.socket = s
    BY ONLY <2>2
  <2>4. PlanMade(p, c, m, fromEnv)
    BY <1>4, <1>m, <2>3
  <2> QED BY <1>g, <1>p, <2>1, <2>3, <2>4, Zenon
<1> QED
  BY <1>1, <1>2, <1>3, <1>4

LEMMA ConfigParts ==
  ASSUME NEW m, NEW fromEnv
  PROVE  LET g == config(m, fromEnv)
             flag == CHOOSE f \in Inputs(m) : TRUE
         IN /\ g.input = <<flag, Value(m, flag)>> /\ g.auto_args = auto_args(m)
            /\ g.override_inputs = pairs(m, "--override-input") /\ g.nix_options = pairs(m, "--option")
            /\ g.remotes = remotes(m, remote_token(ValueOr(m, "--remote-token", None), fromEnv))
            /\ g.meta = Given(m, "--meta") /\ g.show_input_drvs = Given(m, "--show-input-drvs")
            /\ g.force_recurse = Given(m, "--force-recurse")
            /\ g.gc_roots_dir = ValueOr(m, "--gc-roots-dir", None)
            /\ g.workers = NumberOr(m, "--workers", DEFAULT_WORKERS)
            /\ g.max_memory_size = NumberOr(m, "--max-memory", DEFAULT_MAX_MEMORY_MB)
            /\ g.item_timeout_seconds = NumberOr(m, "--item-timeout-seconds", DefaultTimeout)
<1>p. PICK a, b, d, e, f, h, i, j, k, l, n, o :
        /\ a = <<CHOOSE x \in Inputs(m) : TRUE, Value(m, CHOOSE x \in Inputs(m) : TRUE)>>
        /\ b = auto_args(m) /\ d = pairs(m, "--override-input") /\ e = pairs(m, "--option")
        /\ f = remotes(m, remote_token(ValueOr(m, "--remote-token", None), fromEnv))
        /\ h = Given(m, "--meta") /\ k = Given(m, "--show-input-drvs") /\ l = Given(m, "--force-recurse")
        /\ n = ValueOr(m, "--gc-roots-dir", None) /\ i = NumberOr(m, "--workers", DEFAULT_WORKERS)
        /\ o = NumberOr(m, "--max-memory", DEFAULT_MAX_MEMORY_MB)
        /\ j = NumberOr(m, "--item-timeout-seconds", DefaultTimeout)
  OBVIOUS
<1>g. PICK g : g = config(m, fromEnv)
  OBVIOUS
<1>1. g = [input |-> a, auto_args |-> b, override_inputs |-> d, nix_options |-> e, remotes |-> f,
           meta |-> h, show_input_drvs |-> k, force_recurse |-> l, gc_roots_dir |-> n, workers |-> i,
           max_memory_size |-> o, item_timeout_seconds |-> j]
  BY <1>g, <1>p, Zenon DEF config
<1>2. /\ g.input = a /\ g.auto_args = b /\ g.override_inputs = d /\ g.nix_options = e /\ g.remotes = f
      /\ g.meta = h /\ g.show_input_drvs = k /\ g.force_recurse = l /\ g.gc_roots_dir = n
      /\ g.workers = i /\ g.max_memory_size = o /\ g.item_timeout_seconds = j
  BY ONLY <1>1
<1> QED
  BY <1>2, <1>g, <1>p, ZenonT(60)

(* As many as there are, all of them, and nothing else. *)
AllFound(q, m, f) ==
    /\ \E S : q \in Seq(S)
    /\ Len(q) = Cardinality(Occurs(m, f, Len(m))) /\ IsFiniteSet(Occurs(m, f, Len(m)))
    /\ Len(q) \in Nat /\ DOMAIN q = 1..Len(q)
    /\ \A i \in 1..Len(m) : m[i][1] = f => \E k \in 1..Len(q) : q[k] = m[i]
    /\ \A k \in 1..Len(q) : \E i \in 1..Len(m) : m[i][1] = f /\ q[k] = m[i]
    /\ \A i \in 1..Len(m) : m[i][1] = f => RankOf(m, f, i) \in 1..Len(q) /\ q[RankOf(m, f, i)] = m[i]

LEMMA FoundAll ==
  ASSUME NEW m, IsIntent(m), NEW f
  PROVE  AllFound(Of(m, f), m, f)
<1>q. PICK q, S : q = Of(m, f) /\ S = {m[i] : i \in 1..Len(m)}
  OBVIOUS
<1>0. Len(m) \in Nat
  BY IntentParts, Zenon
<1>1. FoundSoFar(q, m, f, Len(m))
  BY <1>0, <1>q, Finding, Zenon
<1>2. /\ q \in Seq(S) /\ Len(q) = Cardinality(Occurs(m, f, Len(m))) /\ IsFiniteSet(Occurs(m, f, Len(m)))
      /\ \A i \in Occurs(m, f, Len(m)) : \E k \in 1..Len(q) : q[k] = m[i]
      /\ \A k \in 1..Len(q) : \E i \in Occurs(m, f, Len(m)) : q[k] = m[i]
      /\ \A i \in Occurs(m, f, Len(m)) : RankOf(m, f, i) \in 1..Len(q) /\ q[RankOf(m, f, i)] = m[i]
  BY <1>1, <1>q, Zenon DEF FoundSoFar
<1>3. /\ \A i \in 1..Len(m) : m[i][1] = f => i \in Occurs(m, f, Len(m))
      /\ \A i \in Occurs(m, f, Len(m)) : i \in 1..Len(m) /\ m[i][1] = f
  BY Zenon DEF Occurs
<1>4. Len(q) \in Nat /\ DOMAIN q = 1..Len(q)
  BY <1>2
<1> QED
  BY <1>2, <1>3, <1>4, <1>q, Zenon DEF AllFound

LEMMA JoinedUp ==
  ASSUME NEW S, NEW T, NEW s \in Seq(S), NEW t \in Seq(T)
  PROVE  /\ Len(s \o t) = Len(s) + Len(t) /\ DOMAIN (s \o t) = 1..(Len(s) + Len(t))
         /\ \A i \in 1..Len(s) : (s \o t)[i] = s[i] /\ i \in DOMAIN (s \o t)
         /\ \A i \in 1..Len(t) : (s \o t)[Len(s) + i] = t[i] /\ Len(s) + i \in DOMAIN (s \o t)
<1>p. PICK U, u, v : U = S \union T /\ u = s /\ v = t
  OBVIOUS
<1>1. u \in Seq(U) /\ v \in Seq(U)
  BY <1>p
<1>2. /\ Len(u \o v) = Len(u) + Len(v) /\ u \o v \in Seq(U)
      /\ \A i \in 1..Len(u) : (u \o v)[i] = u[i]
      /\ \A i \in 1..Len(v) : (u \o v)[Len(u) + i] = v[i]
  BY ONLY <1>1
<1>3. DOMAIN (u \o v) = 1..(Len(u) + Len(v)) /\ Len(u) \in Nat /\ Len(v) \in Nat
  BY <1>1, <1>2
<1>4. /\ \A i \in 1..Len(u) : i \in 1..(Len(u) + Len(v))
      /\ \A i \in 1..Len(v) : Len(u) + i \in 1..(Len(u) + Len(v))
  BY <1>3
<1> QED
  BY <1>2, <1>3, <1>4, <1>p, Zenon

(* A function on 1..n is a sequence. *)
LEMMA Listing ==
  ASSUME NEW n \in Nat, NEW f, f = [i \in 1..n |-> f[i]]
  PROVE  \E S : f \in Seq(S) /\ Len(f) = n
<1>p. PICK S : S = {f[i] : i \in 1..n}
  OBVIOUS
<1>1. \A i \in 1..n : f[i] \in S
  BY <1>p, Zenon
<1>2. f \in Seq(S) /\ Len(f) = n
  BY <1>1
<1> QED BY <1>2

(* Expressions before strings, each kind in its order. *)
LEMMA AutoArgs ==
  ASSUME NEW m, IsIntent(m)
  PROVE  LET c == Cardinality(Occurs(m, "--arg", Len(m)))
         IN /\ Len(auto_args(m)) = c + Cardinality(Occurs(m, "--argstr", Len(m)))
            /\ \A i \in Occurs(m, "--arg", Len(m)) :
                 auto_args(m)[RankOf(m, "--arg", i)] = <<"expr", m[i][2]>>
            /\ \A i \in Occurs(m, "--argstr", Len(m)) :
                 auto_args(m)[c + RankOf(m, "--argstr", i)] = <<"str", m[i][2]>>
<1>n. PICK n \in Nat : n = Len(m) /\ DOMAIN m = 1..n
  BY IntentParts
<1>p. PICK p, q, A, B : /\ p = Of(m, "--arg") /\ q = Of(m, "--argstr")
                        /\ A = Occurs(m, "--arg", n) /\ B = Occurs(m, "--argstr", n)
  OBVIOUS
<1>1. /\ Len(p) = Cardinality(A) /\ Len(p) \in Nat /\ DOMAIN p = 1..Len(p) /\ IsFiniteSet(A)
      /\ \A i \in A : RankOf(m, "--arg", i) \in 1..Len(p) /\ p[RankOf(m, "--arg", i)] = m[i]
  <2>1. AllFound(p, m, "--arg")
    BY <1>p, FoundAll, Zenon
  <2> QED BY <1>n, <1>p, <2>1, Zenon DEF AllFound, Occurs
<1>2. /\ Len(q) = Cardinality(B) /\ Len(q) \in Nat /\ DOMAIN q = 1..Len(q) /\ IsFiniteSet(B)
      /\ \A i \in B : RankOf(m, "--argstr", i) \in 1..Len(q) /\ q[RankOf(m, "--argstr", i)] = m[i]
  <2>1. AllFound(q, m, "--argstr")
    BY <1>p, FoundAll, Zenon
  <2> QED BY <1>n, <1>p, <2>1, Zenon DEF AllFound, Occurs
<1>c. PICK a \in Nat, b \in Nat : a = Len(p) /\ b = Len(q)
  BY <1>1, <1>2
<1>s. PICK s, t : /\ s = [i \in 1..a |-> <<"expr", p[i][2]>>]
                  /\ t = [i \in 1..b |-> <<"str", q[i][2]>>]
  OBVIOUS
<1>3. auto_args(m) = s \o t
  BY <1>1, <1>2, <1>c, <1>p, <1>s, Zenon DEF auto_args
<1>4. /\ \E S : s \in Seq(S) /\ Len(s) = a
      /\ \E T : t \in Seq(T) /\ Len(t) = b
  <2>1. s = [i \in 1..a |-> s[i]] /\ t = [i \in 1..b |-> t[i]]
    BY <1>s
  <2> QED BY <2>1, Listing
<1>5. /\ Len(s \o t) = a + b
      /\ \A i \in 1..a : (s \o t)[i] = s[i] /\ i \in DOMAIN (s \o t)
      /\ \A i \in 1..b : (s \o t)[a + i] = t[i] /\ a + i \in DOMAIN (s \o t)
  <2>S. PICK S : s \in Seq(S) /\ Len(s) = a
    BY <1>4, Zenon
  <2>T. PICK T : t \in Seq(T) /\ Len(t) = b
    BY <1>4, Zenon
  <2>1. /\ Len(s \o t) = Len(s) + Len(t)
        /\ \A i \in 1..Len(s) : (s \o t)[i] = s[i] /\ i \in DOMAIN (s \o t)
        /\ \A i \in 1..Len(t) : (s \o t)[Len(s) + i] = t[i] /\ Len(s) + i \in DOMAIN (s \o t)
    BY ONLY <2>S, <2>T, JoinedUp
  <2> QED BY <2>1, <2>S, <2>T, Zenon
<1>6. Cardinality(A) = a /\ Cardinality(B) = b
  BY <1>1, <1>2, <1>c
<1>7. ASSUME NEW i \in A PROVE (s \o t)[RankOf(m, "--arg", i)] = <<"expr", m[i][2]>>
  <2>k. PICK k : k = RankOf(m, "--arg", i)
    OBVIOUS
  <2>1. k \in 1..a /\ p[k] = m[i]
    BY <1>1, <1>7, <1>c, <2>k, Zenon
  <2>2. s[k] = <<"expr", m[i][2]>>
    BY <1>s, <2>1, Zenon
  <2> QED BY <1>5, <2>1, <2>2, <2>k, Zenon
<1>8. ASSUME NEW i \in B PROVE (s \o t)[a + RankOf(m, "--argstr", i)] = <<"str", m[i][2]>>
  <2>k. PICK k : k = RankOf(m, "--argstr", i)
    OBVIOUS
  <2>1. k \in 1..b /\ q[k] = m[i]
    BY <1>2, <1>8, <1>c, <2>k, Zenon
  <2>2. t[k] = <<"str", m[i][2]>>
    BY <1>s, <2>1, Zenon
  <2> QED BY <1>5, <2>1, <2>2, <2>k, Zenon
<1> QED
  BY <1>3, <1>5, <1>6, <1>7, <1>8, <1>n, <1>p, Zenon

(* One entry for every --remote, in order, with its three values. *)
RemotesRight(r, m, token) ==
    /\ Len(r) = Cardinality(Occurs(m, "--remote", Len(m)))
    /\ DOMAIN r = DOMAIN Of(m, "--remote")
    /\ \A i \in DOMAIN r : r[i].token = token /\ r[i].workers = Number[Of(m, "--remote")[i][2][3]]
    /\ \A i \in Occurs(m, "--remote", Len(m)) :
         /\ r[RankOf(m, "--remote", i)].endpoint = m[i][2][1]
         /\ r[RankOf(m, "--remote", i)].systems = Systems[m[i][2][2]]
         /\ r[RankOf(m, "--remote", i)].workers = Number[m[i][2][3]]
    /\ DOMAIN r # {} => Given(m, "--remote")

LEMMA Remotes ==
  ASSUME NEW m, IsIntent(m), NEW token
  PROVE  RemotesRight(remotes(m, token), m, token)
<1>n. PICK n \in Nat : n = Len(m) /\ DOMAIN m = 1..n
  BY IntentParts
<1>p. PICK p, A, r : p = Of(m, "--remote") /\ A = Occurs(m, "--remote", n) /\ r = remotes(m, token)
  OBVIOUS
<1>1. /\ Len(p) = Cardinality(A) /\ Len(p) \in Nat /\ DOMAIN p = 1..Len(p)
      /\ \A i \in A : RankOf(m, "--remote", i) \in 1..Len(p) /\ p[RankOf(m, "--remote", i)] = m[i]
  <2>1. AllFound(p, m, "--remote")
    BY <1>p, FoundAll, Zenon
  <2> QED BY <1>n, <1>p, <2>1, Zenon DEF AllFound, Occurs
<1>c. PICK a \in Nat : a = Len(p)
  BY <1>1
<1>2. r = [i \in 1..a |-> [endpoint |-> p[i][2][1], systems |-> Systems[p[i][2][2]],
                           workers |-> Number[p[i][2][3]], token |-> token]]
  BY <1>1, <1>c, <1>p, Zenon DEF remotes
<1>3. DOMAIN r = 1..a
  BY <1>2, Zenon
<1>4. r = [i \in 1..a |-> r[i]]
  BY <1>2, Zenon
<1>5. Len(r) = a
  BY <1>4, Listing
<1>7. ASSUME NEW i \in 1..a
      PROVE  /\ r[i].endpoint = p[i][2][1] /\ r[i].systems = Systems[p[i][2][2]]
             /\ r[i].token = token /\ r[i].workers = Number[p[i][2][3]]
  <2>p. PICK x, y, z, w : /\ x = p[i][2][1] /\ y = Systems[p[i][2][2]] /\ z = Number[p[i][2][3]]
                          /\ w = r[i]
    OBVIOUS
  <2>1. w = [endpoint |-> x, systems |-> y, workers |-> z, token |-> token]
    BY <1>2, <2>p, Zenon
  <2>2. w.endpoint = x /\ w.systems = y /\ w.token = token /\ w.workers = z
    BY ONLY <2>1
  <2> QED BY <2>2, <2>p, Zenon
<1>8. ASSUME NEW i \in A
      PROVE  /\ r[RankOf(m, "--remote", i)].endpoint = m[i][2][1]
             /\ r[RankOf(m, "--remote", i)].systems = Systems[m[i][2][2]]
             /\ r[RankOf(m, "--remote", i)].workers = Number[m[i][2][3]]
  <2>k. PICK k : k = RankOf(m, "--remote", i)
    OBVIOUS
  <2>1. k \in 1..a /\ p[k] = m[i]
    BY <1>1, <1>8, <1>c, <2>k, Zenon
  <2> QED BY <1>7, <2>1, <2>k, Zenon
<1>9. ASSUME DOMAIN r # {} PROVE Given(m, "--remote")
  <2>1. p # <<>>
    <3>1. a # 0 BY <1>3, <1>9
    <3>2. Len(<<>>) = 0 OBVIOUS
    <3> QED BY <1>c, <3>1, <3>2
  <2> QED BY <1>p, <2>1, Zenon DEF Given
<1>10. Len(r) = Cardinality(Occurs(m, "--remote", Len(m)))
  BY <1>1, <1>5, <1>c, <1>n, <1>p, Zenon
<1> QED
  <2>1. RemotesRight(r, m, token)
    BY <1>1, <1>3, <1>7, <1>8, <1>9, <1>10, <1>c, <1>n, <1>p, ZenonT(60) DEF RemotesRight
  <2> QED BY <2>1, <1>p, Zenon

(* A list option: all values, in order. *)
ListOf(list, m, f) ==
    /\ Len(list) = Cardinality(Occurs(m, f, Len(m)))
    /\ \A i \in Occurs(m, f, Len(m)) : list[RankOf(m, f, i)] = m[i][2]

LEMMA Paired ==
  ASSUME NEW m, IsIntent(m), NEW f
  PROVE  ListOf(pairs(m, f), m, f)
<1>n. PICK n \in Nat : n = Len(m) /\ DOMAIN m = 1..n
  BY IntentParts
<1>p. PICK p, A, r : p = Of(m, f) /\ A = Occurs(m, f, n) /\ r = pairs(m, f)
  OBVIOUS
<1>1. /\ Len(p) = Cardinality(A) /\ Len(p) \in Nat /\ DOMAIN p = 1..Len(p)
      /\ \A i \in A : RankOf(m, f, i) \in 1..Len(p) /\ p[RankOf(m, f, i)] = m[i]
  <2>1. AllFound(p, m, f)
    BY <1>p, FoundAll, Zenon
  <2> QED BY <1>n, <1>p, <2>1, Zenon DEF AllFound, Occurs
<1>c. PICK a \in Nat : a = Len(p)
  BY <1>1
<1>2. r = [i \in 1..a |-> p[i][2]]
  BY <1>1, <1>c, <1>p, Zenon DEF pairs
<1>3. Len(r) = a
  <2>1. r = [i \in 1..a |-> r[i]]
    BY <1>2, Zenon
  <2> QED BY <2>1, Listing
<1>4. ASSUME NEW i \in A PROVE r[RankOf(m, f, i)] = m[i][2]
  <2>k. PICK k : k = RankOf(m, f, i)
    OBVIOUS
  <2>1. k \in 1..a /\ p[k] = m[i]
    BY <1>1, <1>4, <1>c, <2>k, Zenon
  <2> QED BY <1>2, <2>1, <2>k, Zenon
<1> QED
  BY <1>1, <1>3, <1>4, <1>c, <1>n, <1>p, Zenon DEF ListOf

(* A flag is given when it stands somewhere; one that is no list of the
   parser's has the value that stands there. *)
LEMMA GivenValues ==
  ASSUME NEW m, IsIntent(m), NEW f
  PROVE  /\ Given(m, f) <=> Occurs(m, f, Len(m)) # {}
         /\ Given(m, f) /\ ~Repeats(f) =>
              Value(m, f) = m[CHOOSE i \in Occurs(m, f, Len(m)) : TRUE][2][1]
<1>n. PICK n \in Nat : n = Len(m) /\ DOMAIN m = 1..n
  BY IntentParts
<1>q. PICK q, A, S : q = Of(m, f) /\ A = Occurs(m, f, n) /\ S = {m[i] : i \in 1..n}
  OBVIOUS
<1>1. /\ q \in Seq(S)
      /\ \A i \in A : \E k \in 1..Len(q) : q[k] = m[i]
      /\ \A k \in 1..Len(q) : \E i \in A : q[k] = m[i]
  <2>1. FoundSoFar(q, m, f, n)
    BY <1>n, <1>q, Finding, Zenon
  <2> QED BY <1>n, <1>q, <2>1, Zenon DEF FoundSoFar
<1>2. Given(m, f) <=> q # <<>>
  BY <1>q, Zenon DEF Given
<1>3. q # <<>> <=> A # {}
  <2>1. q # <<>> <=> 1 \in 1..Len(q)
    BY <1>1
  <2>2. \A k \in 1..Len(q) : 1 \in 1..Len(q)
    BY <1>1
  <2> QED BY <1>1, <2>1, <2>2, Zenon
<1>4. ASSUME q # <<>>, ~Repeats(f) PROVE Value(m, f) = m[CHOOSE i \in A : TRUE][2][1]
  <2>1. 1 \in 1..Len(q)
    BY <1>1, <1>4
  <2>2. PICK i \in A : q[1] = m[i]
    BY <1>1, <2>1, Zenon
  <2>j. PICK j : j = CHOOSE k \in A : TRUE
    OBVIOUS
  <2>3. j \in A
    BY <2>2, <2>j, Zenon
  <2>4. /\ i \in 1..n /\ m[i][1] = f
        /\ j \in 1..n /\ m[j][1] = f
    BY <1>q, <2>2, <2>3, Zenon DEF Occurs
  <2>5. i = j
    BY <1>4, <1>n, <2>4, Zenon DEF IsIntent
  <2>6. Value(m, f) = m[i][2][1]
    BY <1>q, <2>2, Zenon DEF Value
  <2> QED BY <2>5, <2>6, <2>j, Zenon
<1> QED
  BY <1>2, <1>3, <1>4, <1>n, <1>q, Zenon

LEMMA TheInput ==
  ASSUME NEW m, IsIntent(m), Cardinality(Inputs(m)) = 1,
         NEW f \in {"--flake", "--expr", "--file"}, Given(m, f)
  PROVE  /\ (CHOOSE x \in Inputs(m) : TRUE) = f
         /\ Value(m, f) = m[CHOOSE i \in Occurs(m, f, Len(m)) : TRUE][2][1]
<1>1. f \in Inputs(m)
  BY Zenon DEF Inputs
<1>2. IsFiniteSet(Inputs(m))
  <2>1. Inputs(m) \subseteq {"--flake", "--expr", "--file"}
    BY DEF Inputs
  <2>2. IsFiniteSet({"--flake", "--expr", "--file"})
    <3>1. IsFiniteSet({"--flake"})
      BY FS_Singleton
    <3>2. IsFiniteSet({"--flake"} \union {"--expr"})
      BY <3>1, FS_AddElement
    <3>3. IsFiniteSet(({"--flake"} \union {"--expr"}) \union {"--file"})
      BY <3>2, FS_AddElement
    <3>4. ({"--flake"} \union {"--expr"}) \union {"--file"} = {"--flake", "--expr", "--file"}
      OBVIOUS
    <3> QED BY <3>3, <3>4
  <2> QED BY <2>1, <2>2, FS_Subset
<1>3. \E x : Inputs(m) = {x}
  BY <1>2, FS_Singleton
<1>4. Inputs(m) = {f}
  BY <1>1, <1>3
<1>5. (CHOOSE x \in Inputs(m) : TRUE) \in Inputs(m)
  BY <1>1, Zenon
<1>6. (CHOOSE x \in Inputs(m) : TRUE) = f
  BY <1>4, <1>5
<1>7. ~Repeats(f)
  BY DEF Repeats, packed_arity
<1> QED
  BY <1>6, <1>7, GivenValues, Zenon

-----------------------------------------------------------------------------
(* The four parts of PlanIsMeant. *)

(* The words of the property. *)
LEMMA SaidIs ==
  ASSUME IsIntent(meant), NEW f
  PROVE  /\ Places(f) = Occurs(meant, f, Len(meant)) /\ \A i : Rank(f, i) = RankOf(meant, f, i)
         /\ Count(f) = Cardinality(Occurs(meant, f, Len(meant)))
         /\ Says(f) = Given(meant, f)
         /\ ~Repeats(f) /\ Says(f) => Said(f) = Value(meant, f)
         /\ ~Repeats(f) => /\ \A d : SaidOr(f, d) = ValueOr(meant, f, d)
                           /\ \A d : SaidNumber(f, d) = NumberOr(meant, f, d)
<1>1. \A i : Until(f, i) = Occurs(meant, f, i)
  BY Zenon DEF Until, Occurs
<1>2. Places(f) = Occurs(meant, f, Len(meant)) /\ \A i : Rank(f, i) = RankOf(meant, f, i)
  BY <1>1, Zenon DEF Places, Rank, RankOf
<1>3. Count(f) = Cardinality(Occurs(meant, f, Len(meant)))
  BY <1>2, Zenon DEF Count
<1>4. Says(f) <=> Given(meant, f)
  BY <1>2, GivenValues, Zenon DEF Says
<1>b. Says(f) \in BOOLEAN /\ Given(meant, f) \in BOOLEAN
  BY DEF Says, Given
<1>5. Says(f) = Given(meant, f)
  BY <1>4, <1>b
<1>6. ASSUME ~Repeats(f), Says(f) PROVE Said(f) = Value(meant, f)
  BY <1>2, <1>4, <1>6, GivenValues, Zenon DEF Said
<1>7. ASSUME ~Repeats(f), NEW d PROVE SaidOr(f, d) = ValueOr(meant, f, d)
  BY <1>4, <1>6, <1>7, Zenon DEF SaidOr, ValueOr
<1>8. ASSUME ~Repeats(f), NEW d PROVE SaidNumber(f, d) = NumberOr(meant, f, d)
  BY <1>4, <1>6, <1>8, Zenon DEF SaidNumber, NumberOr
<1> QED
  BY <1>2, <1>3, <1>5, <1>6, <1>7, <1>8, Zenon

LEMMA PairsList ==
  ASSUME IsIntent(meant), NEW f
  PROVE  Lists(pairs(meant, f), f)
<1>p. PICK p, n : p = pairs(meant, f) /\ n = Len(meant)
  OBVIOUS
<1>1. ListOf(p, meant, f)
  BY <1>p, Paired, Zenon
<1>2. Len(p) = Count(f) /\ \A i \in Places(f) : p[Rank(f, i)] = meant[i][2]
  BY <1>1, SaidIs, Zenon DEF ListOf
<1> QED
  BY <1>2, <1>p, Zenon DEF Lists

NotLists == {"--meta", "--show-input-drvs", "--force-recurse", "--gc-roots-dir", "--workers",
             "--max-memory", "--item-timeout-seconds", "--socket", "--no-daemon", "--replay",
             "--foreground", "--listen"}

LEMMA NoLists == \A f \in NotLists : ~Repeats(f)
  BY DEF NotLists, Repeats, packed_arity

LEMMA ListsFollow ==
  ASSUME IsIntent(meant), plan.config = config(meant, env)
  PROVE  ListsMeant(plan.config)
<1>c. PICK c, token : c = plan.config /\ token = remote_token(ValueOr(meant, "--remote-token", None), env)
  OBVIOUS
<1>1. /\ c.auto_args = auto_args(meant) /\ c.override_inputs = pairs(meant, "--override-input")
      /\ c.nix_options = pairs(meant, "--option") /\ c.remotes = remotes(meant, token)
  BY <1>c, ConfigParts, Zenon
<1>2. Lists(c.override_inputs, "--override-input") /\ Lists(c.nix_options, "--option")
  BY <1>1, PairsList, Zenon
<1>a. PICK a : a = auto_args(meant)
  OBVIOUS
<1>3. /\ Len(a) = Count("--arg") + Count("--argstr")
      /\ \A i \in Places("--arg") : a[Rank("--arg", i)] = <<"expr", meant[i][2]>>
      /\ \A i \in Places("--argstr") : a[Count("--arg") + Rank("--argstr", i)] = <<"str", meant[i][2]>>
  <2>1. LET n == Cardinality(Occurs(meant, "--arg", Len(meant)))
        IN /\ Len(a) = n + Cardinality(Occurs(meant, "--argstr", Len(meant)))
           /\ \A i \in Occurs(meant, "--arg", Len(meant)) :
                a[RankOf(meant, "--arg", i)] = <<"expr", meant[i][2]>>
           /\ \A i \in Occurs(meant, "--argstr", Len(meant)) :
                a[n + RankOf(meant, "--argstr", i)] = <<"str", meant[i][2]>>
    BY <1>a, AutoArgs
  <2>2. \A f \in {"--arg", "--argstr"} :
          /\ Places(f) = Occurs(meant, f, Len(meant)) /\ \A i : Rank(f, i) = RankOf(meant, f, i)
          /\ Count(f) = Cardinality(Occurs(meant, f, Len(meant)))
    BY SaidIs, Zenon
  <2>3. /\ Places("--arg") = Occurs(meant, "--arg", Len(meant))
        /\ \A i : Rank("--arg", i) = RankOf(meant, "--arg", i)
        /\ Count("--arg") = Cardinality(Occurs(meant, "--arg", Len(meant)))
        /\ Places("--argstr") = Occurs(meant, "--argstr", Len(meant))
        /\ \A i : Rank("--argstr", i) = RankOf(meant, "--argstr", i)
        /\ Count("--argstr") = Cardinality(Occurs(meant, "--argstr", Len(meant)))
    BY <2>2
  <2> QED BY <2>1, <2>3, Zenon
<1>r. PICK r : r = remotes(meant, token)
  OBVIOUS
<1>4. /\ Len(r) = Count("--remote")
      /\ \A i \in Places("--remote") :
           /\ r[Rank("--remote", i)].endpoint = meant[i][2][1]
           /\ r[Rank("--remote", i)].systems = Systems[meant[i][2][2]]
           /\ r[Rank("--remote", i)].workers = Number[meant[i][2][3]]
  <2>1. RemotesRight(r, meant, token)
    BY <1>r, Remotes, Zenon
  <2>2. /\ Places("--remote") = Occurs(meant, "--remote", Len(meant))
        /\ \A i : Rank("--remote", i) = RankOf(meant, "--remote", i)
        /\ Count("--remote") = Cardinality(Occurs(meant, "--remote", Len(meant)))
    BY SaidIs, Zenon
  <2>3. /\ Len(r) = Cardinality(Occurs(meant, "--remote", Len(meant)))
        /\ \A i \in Occurs(meant, "--remote", Len(meant)) :
             /\ r[RankOf(meant, "--remote", i)].endpoint = meant[i][2][1]
             /\ r[RankOf(meant, "--remote", i)].systems = Systems[meant[i][2][2]]
             /\ r[RankOf(meant, "--remote", i)].workers = Number[meant[i][2][3]]
    BY <2>1, Zenon DEF RemotesRight
  <2> QED BY <2>2, <2>3, Zenon
<1> QED
  BY <1>1, <1>2, <1>3, <1>4, <1>a, <1>c, <1>r, ZenonT(60) DEF ListsMeant

LEMMA ScalarsFollow ==
  ASSUME IsIntent(meant), ~config_fails(meant, env), plan.config = config(meant, env)
  PROVE  ScalarsMeant(plan.config)
<1>c. PICK c : c = plan.config
  OBVIOUS
<1>1. /\ c.input = <<CHOOSE f \in Inputs(meant) : TRUE, Value(meant, CHOOSE f \in Inputs(meant) : TRUE)>>
      /\ c.meta = Given(meant, "--meta") /\ c.show_input_drvs = Given(meant, "--show-input-drvs")
      /\ c.force_recurse = Given(meant, "--force-recurse")
      /\ c.gc_roots_dir = ValueOr(meant, "--gc-roots-dir", None)
      /\ c.workers = NumberOr(meant, "--workers", DEFAULT_WORKERS)
      /\ c.max_memory_size = NumberOr(meant, "--max-memory", DEFAULT_MAX_MEMORY_MB)
      /\ c.item_timeout_seconds = NumberOr(meant, "--item-timeout-seconds", DefaultTimeout)
  BY <1>c, ConfigParts, Zenon
<1>2. Cardinality(Inputs(meant)) = 1
  BY Zenon DEF config_fails
<1>3. ASSUME NEW flag \in {"--flake", "--expr", "--file"}, Says(flag)
      PROVE  c.input = <<flag, Said(flag)>>
  <2>1. Given(meant, flag) /\ ~Repeats(flag)
    <3>1. ~Repeats(flag)
      BY DEF Repeats, packed_arity
    <3>2. Says(flag) = Given(meant, flag)
      BY SaidIs, Zenon
    <3> QED BY <1>3, <3>1, <3>2
  <2>2. (CHOOSE x \in Inputs(meant) : TRUE) = flag
    BY <1>2, <2>1, TheInput, Zenon
  <2>3. Said(flag) = Value(meant, flag)
    BY <1>3, <2>1, SaidIs, Zenon
  <2> QED BY <1>1, <2>2, <2>3, Zenon
<1>4. /\ \A f \in {"--meta", "--show-input-drvs", "--force-recurse"} : Says(f) = Given(meant, f)
      /\ SaidOr("--gc-roots-dir", None) = ValueOr(meant, "--gc-roots-dir", None)
      /\ \A f \in {"--workers", "--max-memory", "--item-timeout-seconds"} :
           \A d : SaidNumber(f, d) = NumberOr(meant, f, d)
  <2>1. \A f \in {"--meta", "--show-input-drvs", "--force-recurse"} : Says(f) = Given(meant, f)
    BY SaidIs, Zenon
  <2>2. ~Repeats("--gc-roots-dir") /\ \A f \in {"--workers", "--max-memory", "--item-timeout-seconds"} : ~Repeats(f)
    BY NoLists DEF NotLists
  <2> QED BY <2>1, <2>2, SaidIs, Zenon
<1>5. /\ c.meta = Says("--meta") /\ c.show_input_drvs = Says("--show-input-drvs")
      /\ c.force_recurse = Says("--force-recurse")
  <2>1. /\ Says("--meta") = Given(meant, "--meta")
        /\ Says("--show-input-drvs") = Given(meant, "--show-input-drvs")
        /\ Says("--force-recurse") = Given(meant, "--force-recurse")
    BY <1>4
  <2> QED BY <1>1, <2>1, Zenon
<1>6. /\ c.workers = SaidNumber("--workers", DEFAULT_WORKERS)
      /\ c.max_memory_size = SaidNumber("--max-memory", DEFAULT_MAX_MEMORY_MB)
      /\ c.item_timeout_seconds = SaidNumber("--item-timeout-seconds", DefaultTimeout)
  <2>1. /\ \A d : SaidNumber("--workers", d) = NumberOr(meant, "--workers", d)
        /\ \A d : SaidNumber("--max-memory", d) = NumberOr(meant, "--max-memory", d)
        /\ \A d : SaidNumber("--item-timeout-seconds", d) = NumberOr(meant, "--item-timeout-seconds", d)
    BY <1>4
  <2> QED BY <1>1, <2>1, Zenon
<1> QED
  BY <1>1, <1>3, <1>4, <1>5, <1>6, <1>c, ZenonT(60) DEF ScalarsMeant

LEMMA ParsedFollows ==
  ASSUME IsIntent(meant), command \in {"eval", "watch", "query", "diff"},
         ~config_fails(meant, env), PlanMade(plan, command, meant, env)
  PROVE  ParsedAsMeant
<1>1. /\ plan.config = config(meant, env) /\ plan.socket = Socket(meant)
      /\ command \in {"eval", "watch"} => plan.use_daemon = ~Given(meant, "--no-daemon")
      /\ command = "eval" => plan.replay = Given(meant, "--replay")
      /\ command = "query" => /\ plan.systems = pairs(meant, "--system")
                              /\ plan.prefixes = pairs(meant, "--attr-prefix")
  BY Zenon DEF PlanMade
<1>2. ListsMeant(plan.config) /\ ScalarsMeant(plan.config)
  BY <1>1, ListsFollow, ScalarsFollow
<1>3. plan.socket = SaidOr("--socket", None)
  <2>1. ~Repeats("--socket")
    BY NoLists DEF NotLists
  <2> QED BY <1>1, <2>1, SaidIs, Zenon DEF Socket
<1>4. ASSUME command \in {"eval", "watch"} PROVE plan.use_daemon = ~Says("--no-daemon")
  <2>1. Says("--no-daemon") = Given(meant, "--no-daemon")
    BY SaidIs, Zenon
  <2> QED BY <1>1, <1>4, <2>1, Zenon
<1>5. ASSUME command = "eval" PROVE plan.replay = Says("--replay")
  <2>1. Says("--replay") = Given(meant, "--replay")
    BY SaidIs, Zenon
  <2> QED BY <1>1, <1>5, <2>1, Zenon
<1>6. ASSUME command = "query"
      PROVE  Lists(plan.systems, "--system") /\ Lists(plan.prefixes, "--attr-prefix")
  BY <1>1, <1>6, PairsList, Zenon
<1>7. command # "daemon" /\ command # "worker"
  OBVIOUS
<1> QED
  BY <1>2, <1>3, <1>4, <1>5, <1>6, <1>7, Zenon DEF ParsedAsMeant

(* A daemon and a remote worker. *)
LEMMA ServerFollows ==
  ASSUME IsIntent(meant), command \in {"daemon", "worker"}, at = "planned",
         ~command_plan_fails(command, meant, env), plan = command_plan(command, meant, env)
  PROVE  ParsedAsMeant
<1>p. PICK s, l, w, g : /\ s = Socket(meant) /\ l = Value(meant, "--listen")
                        /\ w = worker_token(meant, env) /\ g = Given(meant, "--foreground")
  OBVIOUS
<1>0. ~Evaluates
  BY DEF Evaluates
<1>r. ~Repeats("--socket") /\ ~Repeats("--listen")
  BY NoLists DEF NotLists
<1>1. CASE command = "daemon"
  <2>1. plan = plan_server("daemon", meant, env)
    BY <1>1 DEF command_plan
  <2>2. plan = [command |-> "daemon", socket |-> s, foreground |-> g]
    BY <1>p, <2>1, Zenon DEF plan_server
  <2>3. plan.socket = s /\ plan.foreground = g
    BY ONLY <2>2
  <2>4. Says("--foreground") = Given(meant, "--foreground") /\ SaidOr("--socket", None) = Socket(meant)
    BY <1>r, SaidIs, Zenon DEF Socket
  <2>5. plan.socket = SaidOr("--socket", None) /\ plan.foreground = Says("--foreground")
    BY <1>p, <2>3, <2>4, Zenon
  <2>6. command # "worker"
    BY <1>1
  <2> QED BY <1>0, <2>5, <2>6, Zenon DEF ParsedAsMeant
<1>2. CASE command = "worker"
  <2>1. plan = plan_server("worker", meant, env) /\ Given(meant, "--listen")
    BY <1>2 DEF command_plan, command_plan_fails
  <2>d. "worker" # "daemon"
    OBVIOUS
  <2>2. plan = [command |-> "worker", listen |-> l, token |-> w]
    BY <1>p, <2>1, <2>d, Zenon DEF plan_server
  <2>3. plan.listen = l
    BY ONLY <2>2
  <2>s. Says("--listen") = Given(meant, "--listen")
    BY SaidIs, Zenon
  <2>t. Says("--listen")
    BY <2>1, <2>s
  <2>4. Said("--listen") = l
    BY <1>p, <1>r, <2>t, SaidIs, Zenon
  <2>6. command # "daemon"
    BY <1>2
  <2> QED BY <1>0, <2>3, <2>4, <2>6, Zenon DEF ParsedAsMeant
<1> QED
  BY <1>1, <1>2

LEMMA ValidFollows ==
  ASSUME IsIntent(meant), ~config_fails(meant, env), plan.config = config(meant, env)
  PROVE  AcceptedIsValid
<1>c. PICK c, token : c = plan.config /\ token = remote_token(ValueOr(meant, "--remote-token", None), env)
  OBVIOUS
<1>1. /\ c.remotes = remotes(meant, token)
      /\ c.item_timeout_seconds = NumberOr(meant, "--item-timeout-seconds", DefaultTimeout)
  BY <1>c, ConfigParts, Zenon
<1>2. /\ NumberOr(meant, "--item-timeout-seconds", DefaultTimeout) # 0
      /\ \A i \in DOMAIN Of(meant, "--remote") : from_arg(Of(meant, "--remote")[i][2])
  BY Zenon DEF config_fails
<1>r. PICK r : r = remotes(meant, token)
  OBVIOUS
<1>3. /\ DOMAIN r = DOMAIN Of(meant, "--remote")
      /\ \A i \in DOMAIN r : r[i].workers = Number[Of(meant, "--remote")[i][2][3]]
  <2>1. RemotesRight(r, meant, token)
    BY <1>r, Remotes, Zenon
  <2> QED BY <2>1, Zenon DEF RemotesRight
<1>4. \A i \in DOMAIN r : r[i].workers # 0
  BY <1>2, <1>3, Zenon DEF from_arg
<1> QED
  BY <1>1, <1>2, <1>4, <1>c, <1>r, Zenon DEF AcceptedIsValid

LEMMA TokenFollows ==
  ASSUME IsIntent(meant), command \in Commands, env # Refused, at = "planned",
         ~command_plan_fails(command, meant, env), plan = command_plan(command, meant, env)
  PROVE  TokenRequired
<1>k. command \in Kinds
  BY CommandLineAssumption DEF Kinds
<1>1. ASSUME Evaluates
      PROVE  \A i \in DOMAIN plan.config.remotes :
               /\ plan.config.remotes[i].token = Chosen(meant, "--remote-token", env)
               /\ plan.config.remotes[i].token # Empty
               /\ plan.config.remotes[i].token = None => Given(meant, "--insecure-tokenless-remote")
  <2>0. command \in {"eval", "watch", "query", "diff"}
    BY <1>1, <1>k DEF Evaluates, Kinds
  <2>1. plan.config = config(meant, env) /\ ~config_fails(meant, env)
    BY <2>0, PlanConfig
  <2>c. PICK c, token, tok : /\ c = plan.config
                             /\ token = remote_token(ValueOr(meant, "--remote-token", None), env)
                             /\ tok = Chosen(meant, "--remote-token", env)
    OBVIOUS
  <2>2. c.remotes = remotes(meant, token)
    BY <2>1, <2>c, ConfigParts, Zenon
  <2>3. "--remote-token" \in FlagsOf(command).one
    BY <2>0, Evaluating4
  <2>4. Given(meant, "--remote-token") => Value(meant, "--remote-token") \notin {None, Refused}
    BY <1>k, <2>3, GivenValue
  <2>5. token = (IF tok = Empty THEN Refused ELSE tok) /\ tok # Refused
    BY <2>4, <2>c, ChosenToken, Zenon
  <2>6. /\ token # Refused
        /\ ~(Given(meant, "--remote") /\ token = None /\ ~Given(meant, "--insecure-tokenless-remote"))
    BY <2>1, <2>c, Zenon DEF config_fails
  <2>7. token = tok /\ tok # Empty
    BY <2>5, <2>6, Zenon
  <2>r. PICK r : r = remotes(meant, token)
    OBVIOUS
  <2>8. /\ \A i \in DOMAIN r : r[i].token = token
        /\ DOMAIN r # {} => Given(meant, "--remote")
    <3>1. RemotesRight(r, meant, token)
      BY <2>r, Remotes, Zenon
    <3> QED BY <3>1, Zenon DEF RemotesRight
  <2>9. ASSUME NEW i \in DOMAIN r
        PROVE  /\ r[i].token = tok /\ r[i].token # Empty
               /\ r[i].token = None => Given(meant, "--insecure-tokenless-remote")
    <3>1. DOMAIN r # {}
      OBVIOUS
    <3> QED BY <2>6, <2>7, <2>8, <3>1, Zenon
  <2> QED BY <2>2, <2>9, <2>c, <2>r, Zenon
<1>2. ASSUME command = "worker"
      PROVE  /\ plan.token = Chosen(meant, "--token", env) /\ plan.token # Empty
             /\ plan.token = None => Given(meant, "--insecure-tokenless-remote")
  <2>p. PICK l, w, tok : /\ l = Value(meant, "--listen") /\ w = worker_token(meant, env)
                         /\ tok = Chosen(meant, "--token", env)
    OBVIOUS
  <2>1. w # Refused
    <3>1. worker_token(meant, env) # Refused
      BY <1>2 DEF command_plan_fails
    <3> QED BY <2>p, <3>1
  <2>2. command_plan("worker", meant, env) = plan_server("worker", meant, env)
    BY DEF command_plan
  <2>3. plan_server("worker", meant, env) = [command |-> "worker", listen |-> l, token |-> w]
    BY <2>p, Zenon DEF plan_server
  <2>4. plan = [command |-> "worker", listen |-> l, token |-> w]
    BY <1>2, <2>2, <2>3, Zenon
  <2>5. plan.token = w
    BY <2>4
  <2>6. Given(meant, "--token") => Value(meant, "--token") \notin {None, Refused}
    BY <1>2, <1>k, WorkerTakesToken, GivenValue
  <2>t. PICK token : token = remote_token(ValueOr(meant, "--token", None), env)
    OBVIOUS
  <2>7. token = (IF tok = Empty THEN Refused ELSE tok) /\ tok # Refused
    BY <2>6, <2>p, <2>t, ChosenToken, Zenon
  <2>8. w = IF token = None /\ ~Given(meant, "--insecure-tokenless-remote") THEN Refused ELSE token
    BY <2>p, <2>t, Zenon DEF worker_token, remote_worker_token
  <2>9. token # Refused /\ w = token /\ (token = None => Given(meant, "--insecure-tokenless-remote"))
    BY <2>1, <2>8, Zenon
  <2> QED BY <2>5, <2>7, <2>9, <2>p, Zenon
<1> QED
  BY <1>1, <1>2, Zenon DEF TokenRequired, Chosen

LEMMA CauseFollows ==
  ASSUME \/ \E i \in DOMAIN meant : Separated(meant[i])
         \/ \E i \in DOMAIN meant : ~KnownOption(command, meant[i])
         \/ Conflicts(command, meant, env)
  PROVE  NeverRefusedWithoutCause
<1>1. CASE \E i \in DOMAIN meant : Separated(meant[i])
  BY <1>1, Zenon DEF NeverRefusedWithoutCause, Separated
<1>2. CASE \E i \in DOMAIN meant : ~KnownOption(command, meant[i])
  BY <1>2, Zenon DEF NeverRefusedWithoutCause, KnownOption
<1>3. CASE Conflicts(command, meant, env)
  BY <1>3, Zenon DEF NeverRefusedWithoutCause, Conflicts, Chosen
<1> QED
  BY <1>1, <1>2, <1>3

-----------------------------------------------------------------------------
(* The way of a command line, step by step. *)

(* What refuses a command line of a client that evaluates. *)
Caused(c, m, fromEnv) ==
    \/ \E i \in DOMAIN m : Separated(m[i])
    \/ \E i \in DOMAIN m : ~KnownOption(c, m[i])
    \/ Conflicts(c, m, fromEnv)

(* What the words are on the way, and what comes of them. *)
MeantInv ==
    /\ at \in {"typed", "packed", "parsed", "planned", "refused"} =>
         command \in Commands /\ IsIntent(meant) /\ env # Refused
    /\ at = "typed" => \E joined \in BOOLEAN : words = LineOf(meant, joined)
    /\ at = "packed" => \E joined \in BOOLEAN : words = PackedLine(meant, joined)
    /\ at = "parsed" => words = meant
    /\ at = "planned" => /\ ~command_plan_fails(command, meant, env)
                         /\ plan = command_plan(command, meant, env)
    /\ at = "refused" => command \in {"daemon", "worker"} \/ Caused(command, meant, env)

LEMMA TypeMeans ==
  ASSUME NEW c \in Commands, NEW intent \in Intents, NEW token \in Tokens, NEW joined \in BOOLEAN,
         Type(c, intent, token, joined)
  PROVE  MeantInv'
<1>f. /\ at' = "typed" /\ command' = c /\ env' = token /\ meant' = intent
      /\ words' = FlattenSeq([i \in DOMAIN intent |-> Written(intent[i], joined)])
  BY DEF Type
<1>1. IsIntent(intent) /\ token # Refused
  BY CommandLineAssumption
<1>2. IsIntent(meant') /\ env' # Refused
  BY <1>1, <1>f, Zenon
<1>3. words' = LineOf(meant', joined)
  BY <1>f, Zenon DEF LineOf
<1>4. \E j \in BOOLEAN : words' = LineOf(meant', j)
  BY <1>3, Zenon
<1> QED
  BY ONLY <1>f, <1>2, <1>4, Zenon, c \in Commands DEF MeantInv

LEMMA NormalizeMeans ==
  ASSUME MeantInv, Normalize
  PROVE  MeantInv'
<1>f. /\ at = "typed" /\ words' = normalize_args(words)
      /\ at' = (IF \E i \in DOMAIN words' : words'[i] = Refused THEN "refused" ELSE "packed")
      /\ command' = command /\ env' = env /\ meant' = meant
  BY DEF Normalize
<1>1. command \in Commands /\ IsIntent(meant) /\ env # Refused
  BY <1>f DEF MeantInv
<1>2. PICK joined \in BOOLEAN : words = LineOf(meant, joined)
  BY <1>f DEF MeantInv
<1>n. PICK n \in Nat : n = Len(meant) /\ DOMAIN meant = 1..n
  BY <1>1, IntentParts
<1>3. CASE \E k \in 1..n : Separated(meant[k])
  <2>1. \E i \in DOMAIN words' : words'[i] = Refused
    BY <1>1, <1>2, <1>3, <1>f, <1>n, Normalizing, Zenon
  <2>2. at' = "refused"
    BY <1>f, <2>1
  <2>3. Caused(command, meant, env)
    BY <1>3, <1>n, Zenon DEF Caused
  <2> QED
    BY <1>1, <1>f, <2>2, <2>3 DEF MeantInv
<1>4. CASE ~\E k \in 1..n : Separated(meant[k])
  <2>1. words' = PackedLine(meant, joined) /\ \A i \in DOMAIN words' : words'[i] # Refused
    BY <1>1, <1>2, <1>4, <1>f, <1>n, Normalizing, Zenon
  <2>2. at' = "packed"
    BY <1>f, <2>1
  <2>3. \E j \in BOOLEAN : words' = PackedLine(meant', j)
    BY <1>f, <2>1, Zenon
  <2> QED
    BY <1>1, <1>f, <2>2, <2>3 DEF MeantInv
<1> QED
  BY <1>3, <1>4

LEMMA ParseMeans ==
  ASSUME MeantInv, ParseWords
  PROVE  MeantInv'
<1>f. /\ at = "packed" /\ words' = try_parse_from(command, words)
      /\ at' = (IF \E i \in DOMAIN words' : words'[i] = Refused THEN "refused" ELSE "parsed")
      /\ command' = command /\ env' = env /\ meant' = meant
  BY DEF ParseWords
<1>1. command \in Commands /\ IsIntent(meant) /\ env # Refused
  BY <1>f DEF MeantInv
<1>k. command \in Kinds
  BY <1>1, CommandLineAssumption DEF Kinds
<1>2. PICK joined \in BOOLEAN : words = PackedLine(meant, joined)
  BY <1>f DEF MeantInv
<1>n. PICK n \in Nat : n = Len(meant) /\ DOMAIN meant = 1..n
  BY <1>1, IntentParts
<1>3. CASE \E k \in 1..n : ~KnownOption(command, meant[k])
  <2>1. \E i \in DOMAIN words' : words'[i] = Refused
    BY <1>1, <1>2, <1>3, <1>f, <1>k, <1>n, Parsing, Zenon
  <2>2. at' = "refused"
    BY <1>f, <2>1
  <2>3. Caused(command, meant, env)
    BY <1>3, <1>n, Zenon DEF Caused
  <2> QED
    BY <1>1, <1>f, <2>2, <2>3 DEF MeantInv
<1>4. CASE ~\E k \in 1..n : ~KnownOption(command, meant[k])
  <2>p. PICK found : found = try_parse_from(command, PackedLine(meant, joined))
    OBVIOUS
  <2>a. found = meant /\ \A i \in DOMAIN found : found[i] # Refused
    BY <1>1, <1>4, <1>k, <1>n, <2>p, Parsing, Zenon
  <2>1. words' = meant /\ \A i \in DOMAIN words' : words'[i] # Refused
    BY <1>2, <1>f, <2>a, <2>p, Zenon
  <2>2. at' = "parsed"
    BY <1>f, <2>1
  <2> QED
    BY <1>1, <1>f, <2>1, <2>2 DEF MeantInv
<1> QED
  BY <1>3, <1>4

LEMMA MakePlanMeans ==
  ASSUME MeantInv, MakePlan
  PROVE  MeantInv'
<1>f. /\ at = "parsed"
      /\ IF command_plan_fails(command, words, env) THEN at' = "refused"
         ELSE at' = "planned" /\ plan' = command_plan(command, words, env)
      /\ command' = command /\ env' = env /\ meant' = meant
  BY DEF MakePlan
<1>1. command \in Commands /\ IsIntent(meant) /\ env # Refused /\ words = meant
  BY <1>f DEF MeantInv
<1>2. CASE command_plan_fails(command, meant, env)
  <2>1. at' = "refused"
    BY <1>1, <1>2, <1>f, Zenon
  <2>2. command \in {"eval", "watch", "query", "diff"} \/ command \in {"daemon", "worker"}
    BY <1>1, CommandLineAssumption
  <2>3. command \in {"eval", "watch", "query", "diff"} => Conflicts(command, meant, env)
    BY <1>1, <1>2, FailsForCause
  <2>4. command \in {"daemon", "worker"} \/ Caused(command, meant, env)
    BY <2>2, <2>3 DEF Caused
  <2> QED
    BY <1>1, <1>f, <2>1, <2>4 DEF MeantInv
<1>3. CASE ~command_plan_fails(command, meant, env)
  <2>1. at' = "planned" /\ plan' = command_plan(command, meant, env)
    BY <1>1, <1>3, <1>f, Zenon
  <2> QED
    BY <1>1, <1>3, <1>f, <2>1 DEF MeantInv
<1> QED
  BY <1>2, <1>3

(* What the property says follows from it. *)
LEMMA MeantFollows ==
  ASSUME MeantInv
  PROVE  PlanIsMeant
<1>1. CASE at = "planned"
  <2>1. /\ command \in Commands /\ IsIntent(meant) /\ env # Refused
        /\ ~command_plan_fails(command, meant, env) /\ plan = command_plan(command, meant, env)
    BY <1>1 DEF MeantInv
  <2>2. command \in Kinds
    BY <2>1, CommandLineAssumption DEF Kinds
  <2>3. TokenRequired
    BY <1>1, <2>1, TokenFollows
  <2>4. NeverRefusedWithoutCause
    BY <1>1 DEF NeverRefusedWithoutCause
  <2>5. ASSUME Evaluates PROVE ParsedAsMeant /\ AcceptedIsValid
    <3>1. command \in {"eval", "watch", "query", "diff"}
      BY <2>2, <2>5 DEF Evaluates, Kinds
    <3>2. /\ PlanMade(plan, command, meant, env) /\ plan.config = config(meant, env)
          /\ ~config_fails(meant, env)
      BY <2>1, <3>1, PlanConfig
    <3> QED
      BY <2>1, <3>1, <3>2, ParsedFollows, ValidFollows
  <2>6. CASE Evaluates
    BY <2>3, <2>4, <2>5, <2>6 DEF PlanIsMeant
  <2>7. CASE ~Evaluates
    <3>1. command \in {"daemon", "worker"}
      BY <1>1, <2>7 DEF Evaluates
    <3>2. ParsedAsMeant
      BY <1>1, <2>1, <3>1, ServerFollows
    <3>3. AcceptedIsValid
      BY <2>7 DEF AcceptedIsValid
    <3> QED BY <2>3, <2>4, <3>2, <3>3 DEF PlanIsMeant
  <2> QED
    BY <2>6, <2>7
<1>2. CASE at # "planned"
  <2>1. ParsedAsMeant /\ AcceptedIsValid /\ TokenRequired
    BY <1>2 DEF ParsedAsMeant, AcceptedIsValid, TokenRequired, Evaluates
  <2>2. NeverRefusedWithoutCause
    <3>1. CASE at # "refused" \/ command \in {"daemon", "worker"}
      BY <3>1 DEF NeverRefusedWithoutCause
    <3>2. CASE at = "refused" /\ command \notin {"daemon", "worker"}
      <4>1. Caused(command, meant, env)
        BY <3>2 DEF MeantInv
      <4> QED BY <4>1, CauseFollows DEF Caused
    <3> QED BY <3>1, <3>2
  <2> QED
    BY <2>1, <2>2 DEF PlanIsMeant
<1> QED
  BY <1>1, <1>2

-----------------------------------------------------------------------------
(* The command line in the client. *)

LEMMA PlanShape ==
  ASSUME NEW c \in Commands, NEW opts, NEW fromEnv, ~command_plan_fails(c, opts, fromEnv)
  PROVE  LET p == command_plan(c, opts, fromEnv)
         IN /\ p.command \in Kinds
            /\ p.command = "eval" => /\ p.replay \in BOOLEAN /\ p.use_daemon \in BOOLEAN
                                     /\ p.replay => p.use_daemon
            /\ p.command = "watch" => p.use_daemon \in BOOLEAN
<1>1. c \in Kinds
  BY CommandLineAssumption DEF Kinds
<1>2. CASE c = "eval"
  <2>1. command_plan(c, opts, fromEnv) = plan_eval(opts, fromEnv)
    BY <1>2 DEF command_plan
  <2>2. /\ ~(Given(opts, "--replay") /\ Given(opts, "--no-daemon"))
        /\ plan_eval(opts, fromEnv) =
             [command |-> "eval", config |-> config(opts, fromEnv), socket |-> Socket(opts),
              use_daemon |-> ~Given(opts, "--no-daemon"), replay |-> Given(opts, "--replay")]
    BY <1>2 DEF plan_eval, command_plan_fails
  <2>3. Given(opts, "--replay") \in BOOLEAN /\ Given(opts, "--no-daemon") \in BOOLEAN
    BY DEF Given
  <2> QED
    BY <2>1, <2>2, <2>3 DEF Kinds
<1>3. CASE c = "watch"
  <2>1. command_plan(c, opts, fromEnv) = plan_watch(opts, fromEnv)
    BY <1>3 DEF command_plan
  <2>2. plan_watch(opts, fromEnv) = [command |-> "watch", config |-> config(opts, fromEnv),
                                     socket |-> Socket(opts), use_daemon |-> ~Given(opts, "--no-daemon")]
    BY <2>1 DEF plan_watch
  <2> QED
    BY <2>1, <2>2 DEF Kinds
<1>4. CASE c = "query"
  <2>1. command_plan(c, opts, fromEnv) = plan_query(opts, fromEnv)
    BY <1>4 DEF command_plan
  <2>2. plan_query(opts, fromEnv) = [command |-> "query", config |-> config(opts, fromEnv), socket |-> Socket(opts),
             systems |-> pairs(opts, "--system"), prefixes |-> pairs(opts, "--attr-prefix")]
    BY <2>1 DEF plan_query
  <2> QED
    BY <2>1, <2>2 DEF Kinds
<1>5. CASE c = "diff"
  <2>1. command_plan(c, opts, fromEnv) = plan_diff(opts, fromEnv)
    BY <1>5 DEF command_plan
  <2>2. plan_diff(opts, fromEnv) = [command |-> "diff", config |-> config(opts, fromEnv), socket |-> Socket(opts)]
    BY <2>1 DEF plan_diff
  <2> QED
    BY <2>1, <2>2 DEF Kinds
<1>6. CASE c \in {"daemon", "worker"}
  <2>1. command_plan(c, opts, fromEnv) = plan_server(c, opts, fromEnv)
    BY <1>6 DEF command_plan
  <2>2. plan_server(c, opts, fromEnv).command = c
    BY <1>6, <2>1 DEF plan_server
  <2> QED
    BY <1>6, <2>1, <2>2 DEF Kinds
<1> QED
  BY <1>1, <1>2, <1>3, <1>4, <1>5, <1>6 DEF Kinds

LEMMA ParseKeeps ==
  ASSUME ClientInv, Parse
  PROVE  ClientInv'
<1>f. /\ pc = "parse" /\ CommandLineNext
      /\ UNCHANGED <<request, path, pc, code, ends, unread, chan, handler, stream, made, printed,
                     stdout, evaluated>>
  BY DEF Parse
<1>1. PlanInv'
  <2>1. CASE \E c \in Commands, intent \in Intents, token \in Tokens, joined \in BOOLEAN :
               Type(c, intent, token, joined)
    <3>1. at' = "typed" /\ command' \in Commands
      BY <2>1 DEF Type
    <3> QED
      BY <3>1 DEF PlanInv
  <2>2. CASE Normalize \/ ParseWords
    <3>1. at' \in {"refused", "packed", "parsed"} /\ command' = command /\ command \in Commands
      BY <2>2 DEF Normalize, ParseWords, ClientInv, PlanInv
    <3> QED
      BY <3>1 DEF PlanInv
  <2>3. CASE MakePlan
    <3>1. /\ command \in Commands /\ command' = command
          /\ IF command_plan_fails(command, words, env) THEN at' = "refused"
             ELSE at' = "planned" /\ plan' = command_plan(command, words, env)
      BY <2>3 DEF MakePlan, ClientInv, PlanInv
    <3>2. CASE command_plan_fails(command, words, env)
      BY <3>1, <3>2 DEF PlanInv
    <3>3. CASE ~command_plan_fails(command, words, env)
      <4>1. /\ plan'.command \in Kinds
            /\ plan'.command = "eval" => /\ plan'.replay \in BOOLEAN /\ plan'.use_daemon \in BOOLEAN
                                         /\ plan'.replay => plan'.use_daemon
            /\ plan'.command = "watch" => plan'.use_daemon \in BOOLEAN
        BY <3>1, <3>3, PlanShape
      <4> QED
        BY <3>1, <3>3, <4>1 DEF PlanInv
    <3> QED
      BY <3>2, <3>3
  <2> QED
    BY <1>f, <2>1, <2>2, <2>3 DEF CommandLineNext
<1>2. Typed' /\ PhaseInv' /\ RequestInv'
  BY <1>f DEF ClientInv, Typed, PhaseInv, RequestInv, MayFallBack, Evaluating
<1>3. SocketInv' /\ OutputInv'
  BY <1>f DEF ClientInv, SocketInv, OutputInv, Prefix, Linked, Final
<1> QED
  BY <1>1, <1>2, <1>3 DEF ClientInv

(* Nothing is planned any more. *)
LEMMA ForgetKeeps ==
  ASSUME Forget
  PROVE  PlanInv'
  BY DEF Forget, PlanInv

LEMMA RefuseKeeps ==
  ASSUME ClientInv, Refuse
  PROVE  ClientInv'
<1>f. /\ pc = "parse" /\ pc' = "exited" /\ code' = "failed" /\ ends' = ends \ {"client"} /\ Forget
      /\ UNCHANGED <<request, path, unread, chan, handler, stream, made, evaluated, printed, stdout>>
  BY DEF Refuse, Exit, streamVars
<1>p. ends = {} /\ handler = "none" /\ chan = <<>> /\ stream = "unopened" /\ request = None
  BY <1>f DEF ClientInv, PhaseInv, RequestInv, Early
<1>e. ends' = {}
  BY <1>f, <1>p
<1>1. Typed'
  BY <1>f, <1>e DEF ClientInv, Typed
<1>2. PhaseInv'
  BY <1>f, <1>p, <1>e DEF ClientInv, PhaseInv, Early, Handling
<1>3. RequestInv'
  <2>1. evaluated = {}
    BY <1>p DEF ClientInv, PhaseInv
  <2>2. request \in Requests => MayFallBack \/ request.use_daemon
    BY DEF ClientInv, RequestInv
  <2> QED
    BY <1>f, <1>p, <1>e, <2>1, <2>2 DEF RequestInv, MayFallBack, Evaluating
<1>4. SocketInv' /\ OutputInv'
  BY <1>f DEF ClientInv, SocketInv, OutputInv, Prefix
<1> QED
  BY <1>f, <1>1, <1>2, <1>3, <1>4, ForgetKeeps DEF ClientInv

(* What is planned becomes a request. *)
LEMMA BeginKeeps ==
  ASSUME ClientInv, Begin
  PROVE  ClientInv'
<1>f. /\ pc = "parse" /\ at = "planned" /\ Forget /\ path' \in {"live", "stale", "none"}
      /\ request' = IF plan.command \in {"daemon", "worker"} THEN None
                    ELSE [cmd |-> IF plan.command = "eval" /\ plan.replay THEN "replay" ELSE plan.command,
                          use_daemon |-> plan.command \in {"query", "diff"} \/ plan.use_daemon]
      /\ pc' = IF plan.command \in {"daemon", "worker"} THEN "server" ELSE "prepare"
      /\ UNCHANGED <<code, ends, unread, chan, handler, stream, made, evaluated, printed, stdout>>
  BY DEF Begin, streamVars
<1>p. /\ ends = {} /\ handler = "none" /\ chan = <<>> /\ stream = "unopened" /\ evaluated = {}
      /\ printed = <<>> /\ code = "none" /\ made = <<>>
  BY <1>f DEF ClientInv, PhaseInv, Early
<1>q. /\ plan.command \in Kinds
      /\ plan.command = "eval" => /\ plan.replay \in BOOLEAN /\ plan.use_daemon \in BOOLEAN
                                  /\ plan.replay => plan.use_daemon
      /\ plan.command = "watch" => plan.use_daemon \in BOOLEAN
  BY <1>f DEF ClientInv, PlanInv
<1>1. Typed'
  BY <1>f DEF ClientInv, Typed
<1>2. PhaseInv'
  BY <1>f, <1>p DEF PhaseInv, Early, Handling
<1>3. RequestInv'
  <2>1. CASE plan.command \in {"daemon", "worker"}
    <3>1. request' = None /\ pc' = "server" /\ pc = "parse" /\ request = None
      BY <1>f, <2>1 DEF ClientInv, RequestInv
    <3>2. request \in Requests => MayFallBack \/ request.use_daemon
      BY DEF ClientInv, RequestInv
    <3> QED
      BY <1>f, <1>p, <3>1, <3>2 DEF RequestInv, MayFallBack, Evaluating
  <2>2. CASE plan.command = "eval"
    <3>1. pc' = "prepare" /\ request' = [cmd |-> IF plan.replay THEN "replay" ELSE "eval",
                                         use_daemon |-> plan.use_daemon]
      BY <1>f, <1>q, <2>2
    <3>2. request' \in Requests
      BY <1>q, <2>2, <3>1 DEF Requests
    <3> QED
      BY <1>f, <1>p, <1>q, <2>2, <3>1, <3>2 DEF RequestInv, MayFallBack
  <2>3. CASE plan.command \in {"watch", "query", "diff"}
    <3>1. pc' = "prepare" /\ request' = [cmd |-> plan.command,
                use_daemon |-> plan.command \in {"query", "diff"} \/ plan.use_daemon]
      BY <1>f, <2>3
    <3>2. request' \in Requests
      BY <1>q, <2>3, <3>1 DEF Requests
    <3>3. request'.cmd = plan.command /\ (plan.command \in {"query", "diff"} => request'.use_daemon)
      BY <3>1
    <3>4. MayFallBack' \/ request'.use_daemon
      BY <2>3, <3>3 DEF MayFallBack
    <3> QED
      BY <1>f, <1>p, <3>1, <3>2, <3>4 DEF RequestInv
  <2> QED
    BY <1>q, <2>1, <2>2, <2>3 DEF Kinds
<1>4. SocketInv'
  BY <1>f DEF ClientInv, SocketInv
<1>5. OutputInv'
  BY <1>f, <1>p DEF ClientInv, OutputInv, Prefix
<1> QED
  BY <1>f, <1>1, <1>2, <1>3, <1>4, <1>5, ForgetKeeps DEF ClientInv

-----------------------------------------------------------------------------
(* The client. *)

LEMMA PlanKept ==
  ASSUME ClientInv, UNCHANGED argVars
  PROVE  PlanInv'
  BY DEF ClientInv, PlanInv, argVars

(* The client leaves.  With status 0 it has printed all, or the request is a
   watch, or nobody reads any more. *)
LEMMA ExitKeeps ==
  ASSUME ClientInv, NEW c \in {"ok", "failed"}, Exit(c), pc \notin {"parse", "server", "exited"},
         UNCHANGED <<request, path, unread, handler, evaluated, printed, stdout>>, PlanInv',
         chan' = chan \/ (chan # <<>> /\ chan' = Tail(chan)),
         \/ stream' = stream /\ made' = made
         \/ pc = "local" /\ stream' \in {"live", "ended"} /\ made' \in Seq(Yields) /\ Prefix',
         c = "ok" => \/ request.cmd = "watch" \/ stdout = "closed"
                     \/ stream' = "ended" /\ printed = made'
  PROVE  ClientInv'
<1>t. Typed /\ PhaseInv /\ RequestInv /\ SocketInv /\ OutputInv /\ request \in Requests
  BY DEF ClientInv, RequestInv
<1>f. pc' = "exited" /\ code' = c /\ ends' = ends \ {"client"}
  BY DEF Exit
<1>l. pc = "local" => ends = {} /\ handler = "none" /\ chan = <<>>
  BY <1>t DEF PhaseInv
<1>c. /\ chan' \in Seq(Lines) /\ (Cut \in Range(chan') => Cut \in Range(chan))
      /\ Len(chan') <= Capacity + 1 /\ (Len(chan') <= Capacity \/ Cut \in Range(chan'))
      /\ chan = <<>> => chan' = <<>>
  <2>1. CASE chan' = chan
    BY <1>t, <2>1 DEF Typed, SocketInv
  <2>2. CASE chan # <<>> /\ chan' = Tail(chan)
    <3>1. chan \in Seq(Lines) /\ Len(chan) <= Capacity + 1
      BY <1>t DEF Typed, SocketInv
    <3>2. Tail(chan) \in Seq(Lines) /\ Len(Tail(chan)) = Len(chan) - 1 /\ Len(chan) \in Nat
      BY <2>2, <3>1, TailFacts
    <3>3. Len(chan') <= Capacity /\ Len(chan') <= Capacity + 1
      <4>1. Len(chan') = Len(chan) - 1
        BY <2>2, <3>2, Zenon
      <4> QED
        BY <3>1, <3>2, <4>1, Bounds
    <3>4. Cut \in Range(chan') => Cut \in Range(chan)
      BY <2>2, <3>1, RangeOfTail
    <3> QED
      BY <2>2, <3>2, <3>3, <3>4
  <2> QED
    BY <2>1, <2>2
<1>m. stream' \in {"unopened", "live", "ended", "lost"} /\ made' \in Seq(Yields)
  BY <1>t DEF Typed
<1>1. Typed'
  BY <1>t, <1>f, <1>c, <1>m DEF Typed
<1>2. PhaseInv'
  <2>1. CASE stream' = stream /\ made' = made
    BY <1>t, <1>f, <1>c, <2>1 DEF PhaseInv, Early
  <2>2. CASE pc = "local" /\ stream' \in {"live", "ended"}
    BY <1>t, <1>f, <1>c, <1>l, <2>2 DEF PhaseInv, Early, Handling
  <2> QED
    BY <2>1, <2>2
<1>3. RequestInv'
  BY <1>t, <1>f DEF RequestInv, MayFallBack, Evaluating
<1>4. SocketInv'
  BY <1>t, <1>c DEF SocketInv
<1>5. OutputInv'
  <2>1. Prefix'
    BY <1>t DEF OutputInv, Prefix
  <2> QED
    BY <1>f, <2>1 DEF OutputInv
<1> QED
  BY <1>1, <1>2, <1>3, <1>4, <1>5 DEF ClientInv

LEMMA PrepareKeeps ==
  ASSUME ClientInv, Prepare
  PROVE  ClientInv'
<1>t. Typed /\ PhaseInv /\ RequestInv /\ SocketInv /\ OutputInv
  BY DEF ClientInv
<1>f. /\ pc = "prepare"
      /\ UNCHANGED <<argVars, request, path, unread, chan, handler, stream, made, evaluated, printed,
                     stdout>>
  BY DEF Prepare, streamVars
<1>p. /\ request \in Requests /\ stream = "unopened" /\ printed = <<>> /\ ends = {} /\ code = "none"
      /\ handler = "none" /\ chan = <<>> /\ made = <<>> /\ evaluated = {}
      /\ MayFallBack \/ request.use_daemon
  BY <1>t, <1>f DEF PhaseInv, RequestInv, Early
<1>1. CASE Exit("failed")
  BY <1>f, <1>1, ExitKeeps, PlanKept
<1>2. ASSUME NEW l \in {"connect", "local"}, Goto(l), l = "local" => ~request.use_daemon
      PROVE  ClientInv'
  <2>1. pc' = l /\ code' = code /\ ends' = ends
    BY <1>2 DEF Goto
  <2>2. Typed'
    BY <1>t, <1>f, <2>1 DEF Typed
  <2>3. PhaseInv'
    BY <1>f, <1>p, <2>1 DEF PhaseInv, Early, Handling
  <2>4. RequestInv'
    BY <1>t, <1>f, <1>p, <1>2, <2>1 DEF RequestInv, MayFallBack, Evaluating
  <2>5. SocketInv' /\ OutputInv'
    BY <1>t, <1>f, <1>p, <2>1 DEF SocketInv, OutputInv, Prefix
  <2> QED
    BY <1>f, <2>2, <2>3, <2>4, <2>5, PlanKept DEF ClientInv
<1> QED
  BY <1>1, <1>2 DEF Prepare

(* Without a daemon only eval and watch go on, and nothing was sent. *)
LEMMA ConnectKeeps ==
  ASSUME ClientInv, Connect
  PROVE  ClientInv'
<1>t. Typed /\ PhaseInv /\ RequestInv /\ SocketInv /\ OutputInv
  BY DEF ClientInv
<1>f. /\ pc = "connect"
      /\ UNCHANGED <<argVars, request, path, unread, chan, handler, stream, made, evaluated, printed,
                     stdout>>
  BY DEF Connect, streamVars
<1>p. /\ request \in Requests /\ stream = "unopened" /\ printed = <<>> /\ ends = {} /\ code = "none"
      /\ handler = "none" /\ chan = <<>> /\ made = <<>> /\ evaluated = {}
      /\ MayFallBack \/ request.use_daemon
  BY <1>t, <1>f DEF PhaseInv, RequestInv, Early
<1>1. CASE Exit("failed")
  BY <1>f, <1>1, ExitKeeps, PlanKept
<1>2. ASSUME MayFallBack, Goto("local") PROVE ClientInv'
  <2>1. pc' = "local" /\ code' = code /\ ends' = ends
    BY <1>2 DEF Goto
  <2>2. Typed'
    BY <1>t, <1>f, <2>1 DEF Typed
  <2>3. PhaseInv'
    BY <1>f, <1>p, <2>1 DEF PhaseInv, Early, Handling
  <2>4. RequestInv'
    BY <1>t, <1>f, <1>p, <1>2, <2>1 DEF RequestInv, MayFallBack, Evaluating
  <2>5. SocketInv' /\ OutputInv'
    BY <1>t, <1>f, <1>p, <2>1 DEF SocketInv, OutputInv, Prefix
  <2> QED
    BY <1>f, <2>2, <2>3, <2>4, <2>5, PlanKept DEF ClientInv
<1>3. ASSUME pc' = "write", code' = code, ends' = {"client", "daemon"} PROVE ClientInv'
  <2>2. Typed'
    BY <1>t, <1>f, <1>3 DEF Typed
  <2>3. PhaseInv'
    BY <1>f, <1>p, <1>3 DEF PhaseInv, Early, Handling
  <2>4. RequestInv'
    BY <1>t, <1>f, <1>p, <1>3 DEF RequestInv, MayFallBack, Evaluating
  <2>5. Linked'
    <3>1. Len(<<>>) = 0
      OBVIOUS
    <3>2. chan' = <<>> /\ printed' = <<>> /\ made' = <<>>
      BY <1>f, <1>p
    <3>3. \A i \in 1..0 : FALSE
      OBVIOUS
    <3> QED
      BY <3>1, <3>2, <3>3 DEF Linked
  <2>6. SocketInv' /\ OutputInv'
    BY <1>t, <1>f, <1>p, <1>3, <2>5 DEF SocketInv, OutputInv, Prefix
  <2> QED
    BY <1>f, <2>2, <2>3, <2>4, <2>6, PlanKept DEF ClientInv
<1> QED
  BY <1>1, <1>2, <1>3 DEF Connect, run_client_or_local, run_daemon_only

LEMMA WriteRequestKeeps ==
  ASSUME ClientInv, WriteRequest
  PROVE  ClientInv'
<1>t. Typed /\ PhaseInv /\ RequestInv /\ SocketInv /\ OutputInv
  BY DEF ClientInv
<1>f. /\ pc = "write"
      /\ UNCHANGED <<argVars, request, path, chan, handler, stream, made, evaluated, printed, stdout>>
  BY DEF WriteRequest, streamVars
<1>1. CASE Exit("failed") /\ UNCHANGED unread
  BY <1>f, <1>1, ExitKeeps, PlanKept
<1>2. CASE Goto("read") /\ unread' = TRUE
  <2>1. pc' = "read" /\ code' = code /\ ends' = ends
    BY <1>2 DEF Goto
  <2>2. Typed'
    BY <1>t, <1>f, <1>2, <2>1 DEF Typed
  <2>3. PhaseInv'
    BY <1>t, <1>f, <2>1 DEF PhaseInv, Early, Handling
  <2>4. RequestInv'
    BY <1>t, <1>f, <2>1 DEF RequestInv, MayFallBack, Evaluating
  <2>5. SocketInv' /\ OutputInv'
    BY <1>t, <1>f, <2>1 DEF SocketInv, OutputInv, Prefix, Linked, Final
  <2> QED
    BY <1>f, <2>2, <2>3, <2>4, <2>5, PlanKept DEF ClientInv
<1> QED
  BY <1>1, <1>2 DEF WriteRequest

(* The next line is the next item that was yielded. *)
LEMMA ReadItemKeeps ==
  ASSUME ClientInv, ReadItem
  PROVE  ClientInv'
<1>t. Typed /\ PhaseInv /\ RequestInv /\ SocketInv /\ OutputInv
  BY DEF ClientInv
<1>f. /\ pc = "read" /\ chan # <<>> /\ Head(chan)[1] = "Item" /\ chan' = Tail(chan)
      /\ UNCHANGED <<argVars, request, path, unread, handler, stream, made, evaluated, stdout>>
  BY DEF ReadItem, streamVars
<1>1. CASE printed' = printed /\ (Exit("ok") \/ Exit("failed")) /\ (Exit("ok") => stdout = "closed")
  BY <1>f, <1>1, ExitKeeps, PlanKept
<1>2. ASSUME printed' = Append(printed, Head(chan)), Goto("read")
      PROVE  ClientInv'
  <2>1. pc' = "read" /\ code' = code /\ ends' = ends
    BY <1>2 DEF Goto
  <2>c. /\ chan \in Seq(Lines) /\ made \in Seq(Yields) /\ printed \in Seq(Responses)
        /\ Len(chan) \in Nat /\ Len(made) \in Nat /\ Len(printed) \in Nat
    BY <1>t, Lengths DEF Typed
  <2>h. /\ chan' \in Seq(Lines) /\ Len(chan') = Len(chan) - 1 /\ Len(chan) >= 1
        /\ Head(chan) = chan[1] /\ chan[1] \in Lines
        /\ \A i \in 1..(Len(chan) - 1) : chan'[i] = chan[i + 1]
    BY <1>f, <2>c, TailFacts
  <2>r. chan[1] \in Responses
    BY <1>f, <2>h, LineFacts
  <2>p. /\ printed' \in Seq(Responses) /\ Len(printed') = Len(printed) + 1 /\ printed' # <<>>
        /\ \A i \in 1..Len(printed) : printed'[i] = printed[i]
        /\ printed'[Len(printed) + 1] = chan[1]
    BY <1>2, <2>c, <2>h, <2>r, AppendFacts
  <2>l. Linked
    BY <1>t, <1>f DEF OutputInv
  <2>m. Len(printed) + 1 <= Len(made)
    <3>1. Len(printed) + Len(chan) = Len(made) + 1 /\ Len(chan) = 1 => chan[1] \in {Done, Failure, Cut}
      BY <2>l, <2>c DEF Linked, Final
    <3>2. chan[1] \notin {Done, Failure, Cut}
      BY <2>r, LineFacts
    <3>3. \/ Len(printed) + Len(chan) = Len(made)
          \/ Len(printed) + Len(chan) = Len(made) + 1
      BY <2>l DEF Linked
    <3> QED
      BY <2>c, <2>h, <3>1, <3>2, <3>3
  <2>2. Typed'
    BY <1>t, <1>f, <2>1, <2>h, <2>p DEF Typed
  <2>3. PhaseInv'
    BY <1>t, <1>f, <2>1 DEF PhaseInv, Early, Handling
  <2>4. RequestInv'
    BY <1>t, <1>f, <2>1 DEF RequestInv, MayFallBack, Evaluating
  <2>5. SocketInv'
    <3>1. Len(chan') <= Capacity /\ Len(chan') <= Capacity + 1
      BY <1>t, <2>c, <2>h, Bounds DEF SocketInv
    <3>2. Cut \in Range(chan') => Cut \in Range(chan)
      BY <1>f, <2>c, RangeOfTail
    <3> QED
      BY <1>t, <1>f, <3>1, <3>2 DEF SocketInv
  <2>6. Prefix'
    <3>1. chan[1] = made[Len(printed) + 1]
      BY <2>c, <2>h, <2>l, <2>m DEF Linked
    <3>2. \A i \in 1..Len(printed) : printed[i] = made[i]
      BY <1>t DEF OutputInv, Prefix
    <3>3. \A i \in 1..(Len(printed) + 1) : i \in 1..Len(printed) \/ i = Len(printed) + 1
      BY <2>c
    <3> QED
      BY <1>f, <2>m, <2>p, <3>1, <3>2, <3>3 DEF Prefix
  <2>7. Linked'
    <3>1. ASSUME NEW i \in 1..Len(chan'), Len(printed') + i <= Len(made')
          PROVE  chan'[i] = made'[Len(printed') + i]
      <4>1. i \in 1..(Len(chan) - 1) /\ i + 1 \in 1..Len(chan) /\ Len(printed) + (i + 1) <= Len(made)
            /\ Len(printed') + i = Len(printed) + (i + 1)
        BY <1>f, <2>c, <2>h, <2>p, <3>1
      <4> QED
        BY <1>f, <2>h, <2>l, <4>1 DEF Linked
    <3>2. Len(printed') + Len(chan') = Len(printed) + Len(chan)
      BY <2>c, <2>h, <2>p
    <3>3. Len(printed) + Len(chan) = Len(made) + 1 /\ Final => Final'
      <4> SUFFICES ASSUME Len(printed) + Len(chan) = Len(made) + 1, Final PROVE Final'
        OBVIOUS
      <4>1. Len(chan') >= 1 /\ Len(chan') \in 1..(Len(chan) - 1) /\ Len(chan') + 1 = Len(chan)
        BY <2>c, <2>h, <2>m
      <4>2. chan'[Len(chan')] = chan[Len(chan)]
        BY <2>h, <4>1
      <4>3. chan' # <<>>
        BY <4>1
      <4> QED
        BY <1>f, <4>2, <4>3 DEF Final
    <3> QED
      BY <1>f, <2>l, <3>1, <3>2, <3>3 DEF Linked
  <2>8. OutputInv'
    BY <1>t, <1>f, <2>1, <2>6, <2>7 DEF OutputInv, PhaseInv
  <2> QED
    BY <1>f, <2>2, <2>3, <2>4, <2>5, <2>8, PlanKept DEF ClientInv
<1>3. (Exit("ok") => code' = "ok") /\ (Exit("failed") => code' = "failed")
  BY DEF Exit
<1> QED
  BY <1>1, <1>2, <1>3 DEF ReadItem, write_output_line

LEMMA OneMore ==
  ASSUME NEW p \in Nat, NEW m \in Nat, NEW c \in Nat,
         p <= m, ~(p + 1 <= m), c >= 1, p + c = m \/ p + c = m + 1
  PROVE  p = m /\ p + c = m + 1 /\ c = 1
  OBVIOUS

(* Done comes after everything that was yielded. *)
LEMMA DoneIsLast ==
  ASSUME ClientInv, pc = "read", chan # <<>>, Head(chan) = Done
  PROVE  stream = "ended" /\ printed = made
<1>t. Typed /\ OutputInv /\ Linked /\ Prefix
  BY DEF ClientInv, OutputInv
<1>c. /\ chan \in Seq(Lines) /\ made \in Seq(Yields) /\ printed \in Seq(Responses)
      /\ Len(chan) \in Nat /\ Len(made) \in Nat /\ Len(printed) \in Nat
  BY <1>t, Lengths DEF Typed
<1>h. Len(chan) >= 1 /\ chan[1] = Done
  BY <1>c, TailFacts
<1>1. ~(Len(printed) + 1 <= Len(made))
  <2> SUFFICES ASSUME Len(printed) + 1 <= Len(made) PROVE FALSE
    OBVIOUS
  <2>1. chan[1] = made[Len(printed) + 1] /\ Len(printed) + 1 \in 1..Len(made)
    BY <1>t, <1>c, <1>h DEF Linked
  <2>2. made[Len(printed) + 1] \in Yields
    BY <1>c, <2>1
  <2> QED
    BY <1>h, <2>1, <2>2, LineFacts
<1>2. Len(printed) = Len(made) /\ Len(printed) + Len(chan) = Len(made) + 1 /\ Len(chan) = 1
  <2>1. Len(printed) <= Len(made)
    BY <1>t DEF Prefix
  <2>2. Len(printed) + Len(chan) = Len(made) \/ Len(printed) + Len(chan) = Len(made) + 1
    BY <1>t DEF Linked
  <2>3. Len(chan) >= 1
    BY <1>h
  <2> QED
    BY <1>c, <1>1, <2>1, <2>2, <2>3, OneMore
<1>3. Final
  BY <1>t, <1>c, <1>2 DEF Linked
<1>4. stream = "ended"
  BY <1>h, <1>2, <1>3 DEF Final
<1>5. printed = made
  <2>1. \A i \in 1..Len(printed) : printed[i] = made[i]
    BY <1>t DEF Prefix
  <2>2. printed = [i \in 1..Len(printed) |-> printed[i]] /\ made = [i \in 1..Len(made) |-> made[i]]
    BY <1>c
  <2> QED
    BY <1>2, <2>1, <2>2
<1> QED
  BY <1>4, <1>5

LEMMA ReadLastKeeps ==
  ASSUME ClientInv, ReadLast
  PROVE  ClientInv'
<1>f. /\ pc = "read" /\ chan # <<>> /\ chan' = Tail(chan)
      /\ UNCHANGED <<argVars, request, path, unread, handler, stream, made, evaluated, printed, stdout>>
  BY DEF ReadLast, streamVars
<1>1. CASE Head(chan) = Done /\ Exit("ok")
  BY <1>f, <1>1, DoneIsLast, ExitKeeps, PlanKept
<1>2. CASE Exit("failed")
  BY <1>f, <1>2, ExitKeeps, PlanKept
<1> QED
  BY <1>1, <1>2 DEF ReadLast

LEMMA ReadEofKeeps ==
  ASSUME ClientInv, ReadEof
  PROVE  ClientInv'
<1>f. /\ pc = "read"
      /\ UNCHANGED <<argVars, request, path, unread, chan, handler, stream, made, evaluated, printed,
                     stdout>>
  BY DEF ReadEof, streamVars
<1>1. PICK c \in {"ok", "failed"} : Exit(c) /\ (c = "ok" => request.cmd = "watch")
  BY DEF ReadEof
<1> QED
  BY <1>f, <1>1, ExitKeeps, PlanKept

-----------------------------------------------------------------------------
(* What is yielded. *)

LEMMA YieldItemEffect ==
  ASSUME Typed, YieldItem
  PROVE  /\ stream = "live" /\ stream' = stream
         /\ \E l \in Responses : made' = Append(made, l)
<1>1. stream = "live" /\ stream' = stream /\ made' = Append(made, Item(Len(made) + 1))
  BY DEF YieldItem
<1>2. Len(made) + 1 \in 1..Items
  <2>1. Len(made) \in Nat /\ (Len(made) < 1 \/ Len(made) < Items)
    BY Lengths DEF YieldItem
  <2> QED
    BY <2>1, Bounds
<1> QED
  BY <1>1, <1>2, LineFacts

(* What was yielded stays where it is. *)
LEMMA YieldKeepsPrefix ==
  ASSUME ClientInv, NEW l \in Yields, made' = Append(made, l), printed' = printed
  PROVE  /\ Prefix' /\ made' \in Seq(Yields) /\ Len(made') = Len(made) + 1 /\ made' # <<>>
         /\ made'[Len(made')] = l /\ \A i \in 1..Len(made) : made'[i] = made[i]
<1>t. Typed /\ Prefix /\ made \in Seq(Yields) /\ Len(made) \in Nat /\ Len(printed) \in Nat
  BY Lengths DEF ClientInv, OutputInv, Typed
<1>1. /\ made' \in Seq(Yields) /\ Len(made') = Len(made) + 1 /\ made' # <<>>
      /\ made'[Len(made) + 1] = l /\ \A i \in 1..Len(made) : made'[i] = made[i]
  BY <1>t, AppendFacts
<1>2. Prefix'
  <2>1. \A i \in 1..Len(printed) : i \in 1..Len(made)
    BY <1>t DEF Prefix
  <2>2. Len(printed) <= Len(made')
    BY <1>t, <1>1 DEF Prefix
  <2> QED
    BY <1>t, <1>1, <2>1, <2>2 DEF Prefix
<1> QED
  BY <1>1, <1>2

-----------------------------------------------------------------------------
(* The evaluation in the client. *)

(* The client goes on evaluating: everything yielded so far is printed. *)
LEMMA LocalKeeps ==
  ASSUME ClientInv, pc = "local", Goto("local"),
         UNCHANGED <<argVars, request, path, unread, chan, handler, stdout>>,
         stream' \in {"live", "ended"}, made' \in Seq(Yields), printed' \in Seq(Responses),
         evaluated' = evaluated \/ (evaluated' = {"client"} /\ Evaluating),
         printed' = made'
  PROVE  ClientInv'
<1>t. Typed /\ PhaseInv /\ RequestInv /\ SocketInv /\ OutputInv
  BY DEF ClientInv
<1>f. pc' = "local" /\ code' = code /\ ends' = ends
  BY DEF Goto
<1>p. ends = {} /\ handler = "none" /\ chan = <<>> /\ code = "none" /\ request \in Requests /\ MayFallBack
  BY <1>t DEF PhaseInv, RequestInv
<1>1. Typed'
  BY <1>t, <1>f DEF Typed
<1>2. PhaseInv'
  BY <1>f, <1>p DEF PhaseInv, Early, Handling
<1>3. RequestInv'
  BY <1>t, <1>f, <1>p DEF RequestInv, MayFallBack, Evaluating
<1>4. SocketInv'
  BY <1>t DEF SocketInv
<1>5. OutputInv'
  <2>1. Prefix'
    <3>1. Len(made') \in Nat
      BY <1>1, Lengths DEF Typed
    <3> QED
      BY <3>1 DEF Prefix
  <2> QED
    BY <1>f, <1>p, <2>1 DEF OutputInv
<1> QED
  BY <1>1, <1>2, <1>3, <1>4, <1>5, PlanKept DEF ClientInv

LEMMA LocalOpenKeeps ==
  ASSUME ClientInv, LocalOpen
  PROVE  ClientInv'
<1>f. /\ pc = "local" /\ stream = "unopened"
      /\ UNCHANGED <<argVars, request, path, unread, chan, handler, printed, stdout>>
  BY DEF LocalOpen
<1>1. CASE Exit("failed") /\ UNCHANGED streamVars
  BY <1>f, <1>1, ExitKeeps, PlanKept DEF streamVars
<1>2. CASE Opened("client") /\ Goto("local")
  <2>1. /\ evaluated = {} /\ printed = made /\ made \in Seq(Yields) /\ printed \in Seq(Responses)
    BY <1>f DEF ClientInv, PhaseInv, OutputInv, Typed
  <2>2. stream' = "live" /\ made' = made
        /\ evaluated' = IF Evaluating THEN evaluated \union {"client"} ELSE evaluated
    BY <1>2 DEF Opened
  <2>3. evaluated' = evaluated \/ (evaluated' = {"client"} /\ Evaluating)
    BY <2>1, <2>2
  <2> QED
    BY <1>f, <1>2, <2>1, <2>2, <2>3, LocalKeeps
<1> QED
  BY <1>1, <1>2 DEF LocalOpen

LEMMA LocalItemKeeps ==
  ASSUME ClientInv, LocalItem
  PROVE  ClientInv'
<1>t. Typed /\ printed \in Seq(Responses) /\ made \in Seq(Yields)
  BY DEF ClientInv, Typed
<1>f. /\ pc = "local" /\ YieldItem
      /\ UNCHANGED <<argVars, request, path, unread, chan, handler, stdout, evaluated>>
  BY DEF LocalItem
<1>p. printed = made
  BY <1>f DEF ClientInv, OutputInv
<1>y. stream = "live" /\ stream' = stream
  BY <1>t, <1>f, YieldItemEffect
<1>l. PICK l \in Responses : made' = Append(made, l)
  BY <1>t, <1>f, YieldItemEffect
<1>m. l \in Yields /\ made' \in Seq(Yields) /\ made'[Len(made')] = l
  <2>1. l \in Yields
    BY LineFacts
  <2> QED
    BY <1>t, <1>l, <2>1, AppendFacts
<1>1. CASE printed' = printed /\ (Exit("ok") \/ Exit("failed")) /\ (Exit("ok") => stdout = "closed")
  <2>1. Prefix'
    BY <1>l, <1>m, <1>1, YieldKeepsPrefix
  <2> QED
    BY <1>f, <1>y, <1>m, <1>1, <2>1, ExitKeeps, PlanKept
<1>2. CASE printed' = Append(printed, Last(made')) /\ Goto("local")
  <2>1. Last(made') = l
    BY <1>m DEF Last
  <2>2. printed' = made' /\ printed' \in Seq(Responses)
    BY <1>t, <1>p, <1>l, <1>2, <2>1, AppendFacts
  <2> QED
    BY <1>f, <1>y, <1>m, <1>2, <2>2, LocalKeeps
<1>3. (Exit("ok") => code' = "ok") /\ (Exit("failed") => code' = "failed")
  BY DEF Exit
<1> QED
  BY <1>1, <1>2, <1>3 DEF LocalItem, write_output_line

LEMMA LocalErrorKeeps ==
  ASSUME ClientInv, LocalError
  PROVE  ClientInv'
<1>f. /\ pc = "local" /\ Exit("failed") /\ Forget /\ made' = Append(made, Failure)
      /\ stream' \in {"live", "ended"}
      /\ UNCHANGED <<request, path, unread, chan, handler, printed, stdout, evaluated>>
  BY DEF LocalError, YieldError
<1>1. Prefix' /\ made' \in Seq(Yields)
  BY <1>f, LineFacts, YieldKeepsPrefix
<1> QED
  BY <1>f, <1>1, ForgetKeeps, ExitKeeps

LEMMA LocalEndKeeps ==
  ASSUME ClientInv, LocalEnd
  PROVE  ClientInv'
<1>f. /\ pc = "local" /\ Exit("ok") /\ stream' = "ended" /\ made' = made
      /\ UNCHANGED <<argVars, request, path, unread, chan, handler, printed, stdout, evaluated>>
  BY DEF LocalEnd, YieldEnd
<1>1. printed = made' /\ Prefix' /\ made' \in Seq(Yields)
  BY <1>f DEF ClientInv, OutputInv, Prefix, Typed
<1> QED
  BY <1>f, <1>1, PlanKept, ExitKeeps

-----------------------------------------------------------------------------
(* The daemon's handler. *)

(* Before the handler closes, the client has read or will read exactly what
   was yielded. *)
LEMMA NothingLost ==
  ASSUME Linked, handler \notin {"close", "over"}
  PROVE  Len(printed) + Len(chan) = Len(made)
  BY DEF Linked, Final

(* A line is yielded and written. *)
LEMMA LinkYield ==
  ASSUME ClientInv, Linked, Len(printed) + Len(chan) = Len(made), NEW l \in Yields,
         made' = Append(made, l), chan' = Append(chan, l), printed' = printed
  PROVE  Linked'
<1>t. chan \in Seq(Lines) /\ made \in Seq(Yields) /\ l \in Lines
  BY LineFacts DEF ClientInv, Typed
<1>n. Len(chan) \in Nat /\ Len(made) \in Nat /\ Len(printed) \in Nat
  BY Lengths DEF ClientInv
<1>1. /\ Len(chan') = Len(chan) + 1 /\ chan'[Len(chan) + 1] = l
      /\ \A i \in 1..Len(chan) : chan'[i] = chan[i]
  BY <1>t, AppendFacts
<1>2. /\ Len(made') = Len(made) + 1 /\ made'[Len(made) + 1] = l
      /\ \A i \in 1..Len(made) : made'[i] = made[i]
  BY <1>t, AppendFacts
<1>3. Len(printed') + Len(chan') = Len(made')
  <2>1. Len(printed') = Len(printed) /\ Len(chan') = Len(chan) + 1 /\ Len(made') = Len(made) + 1
    BY <1>1, <1>2
  <2> QED
    BY <1>n, <2>1
<1>4. ASSUME NEW i \in 1..Len(chan') PROVE chan'[i] = made'[Len(printed') + i]
  <2>1. CASE i \in 1..Len(chan)
    <3>1. Len(printed) + i \in 1..Len(made) /\ Len(printed) + i <= Len(made)
      BY <1>n, <2>1
    <3>2. chan[i] = made[Len(printed) + i]
      BY <2>1, <3>1 DEF Linked
    <3> QED
      BY <1>1, <1>2, <2>1, <3>1, <3>2
  <2>2. CASE i = Len(chan) + 1
    <3>1. Len(printed) + i = Len(made) + 1
      BY <1>n, <2>2
    <3> QED
      BY <1>1, <1>2, <2>2, <3>1
  <2> QED
    BY <1>n, <1>1, <2>1, <2>2, SMTT(40)
<1> QED
  BY <1>3, <1>4 DEF Linked

(* The line that ends the answer is written. *)
LEMMA LinkFinal ==
  ASSUME ClientInv, Linked, Len(printed) + Len(chan) = Len(made), NEW l \in {Done, Failure, Cut},
         chan' = Append(chan, l), made' = made, printed' = printed,
         handler' \in {"close", "over"}, l = Done => stream' = "ended"
  PROVE  Linked'
<1>t. chan \in Seq(Lines) /\ made \in Seq(Yields) /\ l \in Lines
  BY DEF ClientInv, Typed, Lines
<1>n. Len(chan) \in Nat /\ Len(made) \in Nat /\ Len(printed) \in Nat
  BY Lengths DEF ClientInv
<1>1. /\ Len(chan') = Len(chan) + 1 /\ chan'[Len(chan) + 1] = l /\ chan' # <<>>
      /\ \A i \in 1..Len(chan) : chan'[i] = chan[i]
  BY <1>t, AppendFacts
<1>2. Final'
  BY <1>1 DEF Final
<1>3. Len(printed') + Len(chan') = Len(made') + 1
  <2>1. Len(printed') = Len(printed) /\ Len(chan') = Len(chan) + 1 /\ Len(made') = Len(made)
    BY <1>1
  <2> QED
    BY <1>n, <2>1
<1>4. ASSUME NEW i \in 1..Len(chan'), Len(printed') + i <= Len(made')
      PROVE  chan'[i] = made'[Len(printed') + i]
  <2>1. i \in 1..Len(chan) /\ Len(printed) + i <= Len(made)
    BY <1>n, <1>1, <1>4
  <2> QED
    BY <1>1, <2>1 DEF Linked
<1> QED
  BY <1>2, <1>3, <1>4 DEF Linked

LEMMA LinkKept ==
  ASSUME Linked, UNCHANGED <<chan, made, printed>>,
         handler \in {"close", "over"} => handler' \in {"close", "over"},
         stream = "ended" => stream' = "ended"
  PROVE  Linked'
<1>1. Final => Final'
  BY DEF Final
<1> QED
  BY <1>1 DEF Linked

(* While the connection is open at the daemon's end, the request was sent or
   is about to be. *)
LEMMA Connected ==
  ASSUME ClientInv, "daemon" \in ends
  PROVE  /\ pc \in {"write", "read", "exited"} /\ request \in Requests
         /\ pc = "exited" <=> Gone
<1>1. pc \notin Early \union {"local"}
  BY DEF ClientInv, PhaseInv
<1>2. pc \in {"write", "read", "exited"}
  BY <1>1 DEF ClientInv, Typed, Early
<1>3. request \in Requests
  BY <1>2 DEF ClientInv, RequestInv
<1>4. Gone <=> pc \notin {"write", "read"}
  BY DEF ClientInv, PhaseInv, Gone
<1> QED
  BY <1>2, <1>3, <1>4

LEMMA HandlerPhase ==
  ASSUME ClientInv, "daemon" \in ends, UNCHANGED <<pc, code, printed>>,
         ends' = ends \/ ends' = ends \ {"daemon"},
         handler' \in Handling => ends' = ends,
         handler' # "none",
         handler' \in {"request", "open"} => stream' = "unopened",
         handler' = "settle" => stream' = "ended",
         stream' = "unopened" => stream = "unopened" /\ made' = made /\ evaluated' = evaluated
  PROVE  PhaseInv'
<1>1. PhaseInv /\ pc \in {"write", "read", "exited"}
  BY Connected DEF ClientInv
<1>2. "client" \in ends' <=> "client" \in ends
  OBVIOUS
<1> QED
  BY <1>1, <1>2 DEF PhaseInv, Early, Handling

LEMMA HandlerKeeps ==
  ASSUME ClientInv, "daemon" \in ends,
         UNCHANGED <<argVars, request, pc, code, printed, stdout>>,
         Typed', PhaseInv', SocketInv', Prefix',
         ~Gone => Linked',
         evaluated' = evaluated \/ (evaluated' = {"daemon"} /\ Evaluating),
         stream = "ended" => stream' = "ended" /\ made' = made
  PROVE  ClientInv'
<1>t. RequestInv /\ OutputInv
  BY DEF ClientInv
<1>c. pc \in {"write", "read", "exited"} /\ request \in Requests /\ (pc = "exited" <=> Gone)
  BY Connected
<1>1. RequestInv'
  BY <1>t, <1>c DEF RequestInv, MayFallBack, Evaluating
<1>2. OutputInv'
  BY <1>t, <1>c DEF OutputInv
<1> QED
  BY <1>1, <1>2, PlanKept DEF ClientInv

LEMMA AcceptKeeps ==
  ASSUME ClientInv, Accept
  PROVE  ClientInv'
<1>t. Typed /\ PhaseInv /\ SocketInv /\ OutputInv /\ Prefix
  BY DEF ClientInv, OutputInv
<1>f. /\ "daemon" \in ends /\ handler = "none"
      /\ UNCHANGED <<argVars, request, path, pc, code, printed, unread, stream, made, evaluated, stdout>>
  BY DEF Accept, clientVars, streamVars
<1>p. stream = "unopened" /\ chan = <<>> /\ made = <<>>
  BY <1>t, <1>f DEF PhaseInv
<1>l. ~Gone => Linked
  BY <1>f, Connected DEF ClientInv, OutputInv
<1>1. Prefix'
  BY <1>t, <1>f DEF Prefix
<1>2. /\ handler' \in {"request", "over"}
      /\ \/ ends' = ends
         \/ ends' = ends \ {"daemon"} /\ handler' = "over"
      /\ \/ chan' = chan
         \/ ~Gone /\ chan' = Append(chan, Failure) /\ handler' = "over"
  BY DEF Accept, Close
<1>3. Failure \in Lines /\ chan \in Seq(Lines)
  BY <1>t DEF Lines, Typed
<1>4. Typed'
  <2>1. chan' \in Seq(Lines)
    BY <1>2, <1>3, AppendFacts
  <2>2. ends' \subseteq {"client", "daemon"}
    BY <1>t, <1>2 DEF Typed
  <2>3. handler' \in Handling \union {"none", "over"}
    BY <1>2 DEF Handling
  <2> QED
    BY <1>t, <1>f, <2>1, <2>2, <2>3 DEF Typed
<1>5. PhaseInv'
  BY <1>f, <1>p, <1>2, HandlerPhase DEF Handling
<1>6. SocketInv'
  <2>1. CASE chan' = chan
    <3>1. ~(Cut \in Range(chan))
      BY <1>t, <1>f DEF SocketInv
    <3> QED
      BY <1>t, <2>1, <3>1 DEF SocketInv
  <2>2. CASE chan' = Append(chan, Failure) /\ handler' = "over"
    <3>1. Len(chan') = 1
      BY <1>p, <2>2
    <3> QED
      BY <2>2, <3>1, Bounds DEF SocketInv
  <2> QED
    BY <1>2, <2>1, <2>2
<1>7. ~Gone => Linked'
  <2> SUFFICES ASSUME ~Gone PROVE Linked'
    OBVIOUS
  <2>1. CASE chan' = chan
    BY <1>f, <1>l, <2>1, LinkKept
  <2>2. CASE chan' = Append(chan, Failure) /\ handler' = "over"
    <3>1. Len(printed) + Len(chan) = Len(made)
      BY <1>f, <1>l, NothingLost
    <3> QED
      BY <1>f, <1>l, <2>2, <3>1, LinkFinal, LineFacts
  <2> QED
    BY <1>2, <2>1, <2>2
<1> QED
  BY <1>f, <1>p, <1>1, <1>4, <1>5, <1>6, <1>7, HandlerKeeps

LEMMA ReadRequestKeeps ==
  ASSUME ClientInv, ReadRequest
  PROVE  ClientInv'
<1>t. Typed /\ PhaseInv /\ SocketInv /\ OutputInv /\ Prefix
  BY DEF ClientInv, OutputInv
<1>f. /\ handler = "request"
      /\ UNCHANGED <<argVars, request, path, pc, code, printed, chan, stream, made, evaluated, stdout>>
  BY DEF ReadRequest, clientVars, streamVars
<1>p. "daemon" \in ends /\ stream = "unopened"
  BY <1>t, <1>f DEF PhaseInv, Handling
<1>l. ~Gone => Linked
  BY <1>p, Connected DEF ClientInv, OutputInv
<1>2. /\ handler' \in {"open", "failed", "over"} /\ unread' \in BOOLEAN
      /\ \/ ends' = ends
         \/ ends' = ends \ {"daemon"} /\ handler' = "over"
  BY <1>t DEF ReadRequest, Close, Typed
<1>1. Prefix'
  BY <1>t, <1>f DEF Prefix
<1>4. Typed'
  <2>2. ends' \subseteq {"client", "daemon"}
    BY <1>t, <1>2 DEF Typed
  <2>3. handler' \in Handling \union {"none", "over"}
    BY <1>2 DEF Handling
  <2> QED
    BY <1>t, <1>f, <1>2, <2>2, <2>3 DEF Typed
<1>5. PhaseInv'
  BY <1>f, <1>p, <1>2, HandlerPhase DEF Handling
<1>6. SocketInv'
  <2>1. ~(Cut \in Range(chan))
    BY <1>t, <1>f DEF SocketInv
  <2> QED
    BY <1>t, <1>f, <2>1 DEF SocketInv
<1>7. ~Gone => Linked'
  BY <1>f, <1>l, LinkKept
<1> QED
  BY <1>f, <1>p, <1>1, <1>4, <1>5, <1>6, <1>7, HandlerKeeps

LEMMA HandlerOpenKeeps ==
  ASSUME ClientInv, HandlerOpen
  PROVE  ClientInv'
<1>t. Typed /\ PhaseInv /\ SocketInv /\ OutputInv /\ Prefix
  BY DEF ClientInv, OutputInv
<1>f. /\ handler = "open"
      /\ UNCHANGED <<argVars, request, path, pc, code, printed, ends, unread, chan, stdout>>
  BY DEF HandlerOpen, clientVars
<1>p. "daemon" \in ends /\ stream = "unopened" /\ evaluated = {}
  BY <1>t, <1>f DEF PhaseInv, Handling
<1>l. ~Gone => Linked
  BY <1>p, Connected DEF ClientInv, OutputInv
<1>2. /\ handler' \in {"stream", "failed"} /\ made' = made
      /\ \/ stream' = stream /\ evaluated' = evaluated
         \/ stream' = "live" /\ evaluated' = IF Evaluating THEN evaluated \union {"daemon"} ELSE evaluated
  BY DEF HandlerOpen, Opened, streamVars
<1>3. stream' \in {"unopened", "live"} /\ (stream' = "unopened" => evaluated' = evaluated)
      /\ (evaluated' = evaluated \/ (evaluated' = {"daemon"} /\ Evaluating))
  BY <1>p, <1>2
<1>1. Prefix'
  BY <1>t, <1>f, <1>2 DEF Prefix
<1>4. Typed'
  BY <1>t, <1>f, <1>2, <1>3 DEF Typed, Handling
<1>5. PhaseInv'
  BY <1>f, <1>p, <1>2, <1>3, HandlerPhase DEF Handling
<1>6. SocketInv'
  <2>1. ~(Cut \in Range(chan))
    BY <1>t, <1>f DEF SocketInv
  <2> QED
    BY <1>t, <1>f, <2>1 DEF SocketInv
<1>7. ~Gone => Linked'
  BY <1>f, <1>p, <1>2, <1>l, LinkKept
<1> QED
  BY <1>f, <1>p, <1>1, <1>3, <1>4, <1>5, <1>6, <1>7, HandlerKeeps

(* What the handler yields is written, or there is no client. *)
LEMMA YieldWritten ==
  ASSUME ClientInv, handler = "stream", stream = "live", NEW l \in Yields, made' = Append(made, l),
         Write(l, "stream"), stream' \in {"live", "ended"},
         UNCHANGED <<argVars, request, path, pc, code, printed, ends, unread, stdout, evaluated>>
  PROVE  ClientInv'
<1>t. Typed /\ PhaseInv /\ SocketInv /\ OutputInv /\ chan \in Seq(Lines) /\ l \in Lines
  BY LineFacts DEF ClientInv, Typed
<1>p. "daemon" \in ends
  BY <1>t DEF PhaseInv, Handling
<1>l. ~Gone => Linked
  BY <1>p, Connected DEF ClientInv, OutputInv
<1>1. Prefix' /\ made' \in Seq(Yields)
  BY YieldKeepsPrefix
<1>2. /\ handler' \in {"stream", "failed"}
      /\ \/ ~Gone /\ Room /\ chan' = Append(chan, l)
         \/ Gone /\ chan' = chan
  BY DEF Write
<1>4. Typed'
  <2>1. chan' \in Seq(Lines)
    BY <1>t, <1>2, AppendFacts
  <2>3. handler' \in Handling \union {"none", "over"}
    BY <1>2 DEF Handling
  <2> QED
    BY <1>t, <1>1, <2>1, <2>3 DEF Typed
<1>5. PhaseInv'
  BY <1>p, <1>2, HandlerPhase DEF Handling
<1>6. SocketInv'
  <2>0. ~(Cut \in Range(chan)) /\ Len(chan) \in Nat
    BY <1>t, Lengths DEF SocketInv
  <2>1. CASE chan' = chan
    BY <1>t, <2>0, <2>1 DEF SocketInv
  <2>2. CASE Room /\ chan' = Append(chan, l)
    <3>1. Len(chan') = Len(chan) + 1 /\ Len(chan) < Capacity
      BY <1>t, <2>2, AppendFacts DEF Room
    <3>2. Len(chan') <= Capacity /\ Len(chan') <= Capacity + 1
      BY <2>0, <3>1, Bounds
    <3>3. ~(Cut \in Range(chan'))
      BY <1>t, <2>0, <2>2, RangeOfAppend, LineFacts
    <3> QED
      BY <3>2, <3>3 DEF SocketInv
  <2> QED
    BY <1>2, <2>1, <2>2
<1>7. ~Gone => Linked'
  <2> SUFFICES ASSUME ~Gone PROVE Linked'
    OBVIOUS
  <2>1. Len(printed) + Len(chan) = Len(made)
    BY <1>l, NothingLost
  <2> QED
    BY <1>2, <1>l, <2>1, LinkYield
<1> QED
  BY <1>p, <1>1, <1>4, <1>5, <1>6, <1>7, HandlerKeeps

LEMMA HandlerItemKeeps ==
  ASSUME ClientInv, HandlerItem
  PROVE  ClientInv'
<1>f. /\ handler = "stream" /\ YieldItem /\ Write(Last(made'), "stream")
      /\ UNCHANGED <<argVars, request, path, pc, code, printed, ends, unread, stdout, evaluated>>
  BY DEF HandlerItem, clientVars
<1>t. Typed /\ made \in Seq(Yields)
  BY DEF ClientInv, Typed
<1>y. stream = "live" /\ stream' = stream
  BY <1>t, <1>f, YieldItemEffect
<1>l. PICK l \in Responses : made' = Append(made, l)
  BY <1>t, <1>f, YieldItemEffect
<1>1. l \in Yields
  BY LineFacts
<1>2. Last(made') = l
  <2>1. made'[Len(made')] = l
    BY <1>t, <1>l, <1>1, AppendFacts
  <2> QED
    BY <2>1 DEF Last
<1>3. Write(l, "stream")
  BY <1>f, <1>2
<1> QED
  BY <1>f, <1>y, <1>l, <1>1, <1>3, YieldWritten

LEMMA HandlerErrorKeeps ==
  ASSUME ClientInv, HandlerError
  PROVE  ClientInv'
<1>f. /\ handler = "stream" /\ Write(Failure, "stream") /\ stream = "live"
      /\ made' = Append(made, Failure) /\ stream' \in {"live", "ended"}
      /\ UNCHANGED <<argVars, request, path, pc, code, printed, ends, unread, stdout, evaluated>>
  BY DEF HandlerError, YieldError, clientVars
<1> QED
  BY <1>f, YieldWritten, LineFacts

LEMMA HandlerEndKeeps ==
  ASSUME ClientInv, HandlerEnd
  PROVE  ClientInv'
<1>t. Typed /\ PhaseInv /\ SocketInv /\ OutputInv /\ Prefix
  BY DEF ClientInv, OutputInv
<1>f. /\ handler = "stream" /\ handler' = "settle" /\ stream' = "ended" /\ made' = made
      /\ UNCHANGED <<argVars, request, path, pc, code, printed, ends, unread, chan, stdout, evaluated>>
  BY DEF HandlerEnd, YieldEnd, clientVars
<1>p. "daemon" \in ends
  BY <1>t, <1>f DEF PhaseInv, Handling
<1>l. ~Gone => Linked
  BY <1>p, Connected DEF ClientInv, OutputInv
<1>1. Prefix'
  BY <1>t, <1>f DEF Prefix
<1>4. Typed'
  BY <1>t, <1>f DEF Typed, Handling
<1>5. PhaseInv'
  BY <1>f, <1>p, HandlerPhase DEF Handling
<1>6. SocketInv'
  <2>1. ~(Cut \in Range(chan))
    BY <1>t, <1>f DEF SocketInv
  <2> QED
    BY <1>t, <1>f, <2>1 DEF SocketInv
<1>7. ~Gone => Linked'
  BY <1>f, <1>l, LinkKept
<1> QED
  BY <1>f, <1>p, <1>1, <1>4, <1>5, <1>6, <1>7, HandlerKeeps

(* The answer is ended, and with it perhaps the connection. *)
LEMMA FinalKeeps ==
  ASSUME ClientInv, handler \in {"settle", "close", "failed"},
         UNCHANGED <<argVars, request, path, pc, code, printed, unread, stream, made, evaluated, stdout>>,
         NEW l \in {Done, Failure}, l = Done => stream = "ended",
         handler' \in {"close", "failed", "over"},
         handler = "close" => handler' = "over" /\ chan' = chan,
         IF handler' = "over" THEN ends' = ends \ {"daemon"} ELSE ends' = ends,
         \/ chan' = chan
         \/ ~Gone /\ Room /\ chan' = Append(chan, l) /\ handler' \in {"close", "over"}
  PROVE  ClientInv'
<1>t. Typed /\ PhaseInv /\ SocketInv /\ OutputInv /\ Prefix /\ chan \in Seq(Lines) /\ l \in Lines
  BY DEF ClientInv, OutputInv, Typed, Lines
<1>p. "daemon" \in ends /\ handler # "over"
  BY <1>t DEF PhaseInv, Handling
<1>l. ~Gone => Linked
  BY <1>p, Connected DEF ClientInv, OutputInv
<1>1. Prefix'
  BY <1>t DEF Prefix
<1>4. Typed'
  <2>1. chan' \in Seq(Lines)
    BY <1>t, AppendFacts
  <2>2. ends' \subseteq {"client", "daemon"}
    BY <1>t DEF Typed
  <2>3. handler' \in Handling \union {"none", "over"}
    BY DEF Handling
  <2> QED
    BY <1>t, <2>1, <2>2, <2>3 DEF Typed
<1>5. PhaseInv'
  BY <1>p, HandlerPhase DEF Handling
<1>6. SocketInv'
  <2>0. ~(Cut \in Range(chan)) /\ Len(chan) \in Nat
    BY <1>t, <1>p, Lengths DEF SocketInv
  <2>1. CASE chan' = chan
    BY <1>t, <2>0, <2>1 DEF SocketInv
  <2>2. CASE Room /\ chan' = Append(chan, l)
    <3>1. Len(chan') = Len(chan) + 1 /\ Len(chan) < Capacity
      BY <1>t, <2>2, AppendFacts DEF Room
    <3>2. Len(chan') <= Capacity /\ Len(chan') <= Capacity + 1
      BY <2>0, <3>1, Bounds
    <3>3. ~(Cut \in Range(chan'))
      BY <1>t, <2>0, <2>2, RangeOfAppend, LineFacts
    <3> QED
      BY <3>2, <3>3 DEF SocketInv
  <2> QED
    BY <2>1, <2>2
<1>7. ~Gone => Linked'
  <2> SUFFICES ASSUME ~Gone PROVE Linked'
    OBVIOUS
  <2>1. CASE chan' = chan
    BY <1>p, <1>l, <2>1, LinkKept
  <2>2. CASE chan' # chan
    <3>1. chan' = Append(chan, l) /\ handler' \in {"close", "over"} /\ handler \notin {"close", "over"}
      BY <1>p, <2>2
    <3>2. Len(printed) + Len(chan) = Len(made)
      BY <1>l, <3>1, NothingLost
    <3> QED
      BY <1>l, <3>1, <3>2, LinkFinal
  <2> QED
    BY <2>1, <2>2
<1> QED
  BY <1>p, <1>1, <1>4, <1>5, <1>6, <1>7, HandlerKeeps

LEMMA HandlerSettleKeeps ==
  ASSUME ClientInv, HandlerSettle
  PROVE  ClientInv'
<1>f. /\ handler = "settle" /\ handler' \in {"close", "failed"}
      /\ \/ chan' = chan
         \/ ~Gone /\ Room /\ chan' = Append(chan, Done) /\ handler' \in {"close", "over"}
      /\ UNCHANGED <<argVars, request, path, pc, code, printed, ends, unread, stream, made, evaluated,
                     stdout>>
  BY DEF HandlerSettle, Write, clientVars, streamVars
<1>1. stream = "ended"
  BY <1>f DEF ClientInv, PhaseInv
<1> QED
  BY <1>f, <1>1, FinalKeeps

LEMMA HandlerCloseKeeps ==
  ASSUME ClientInv, HandlerClose
  PROVE  ClientInv'
<1>f. /\ handler \in {"close", "failed"} /\ handler' = "over" /\ ends' = ends \ {"daemon"}
      /\ \/ chan' = chan
         \/ handler = "failed" /\ ~Gone /\ Room /\ chan' = Append(chan, Failure)
      /\ UNCHANGED <<argVars, request, path, pc, code, printed, unread, stream, made, evaluated, stdout>>
  BY DEF HandlerClose, Close, clientVars, streamVars
<1>1. CASE chan' = chan
  BY <1>f, <1>1, FinalKeeps, LineFacts
<1>2. CASE handler = "failed" /\ ~Gone /\ Room /\ chan' = Append(chan, Failure)
  BY <1>f, <1>2, FinalKeeps, LineFacts
<1> QED
  BY <1>f, <1>1, <1>2

-----------------------------------------------------------------------------
(* The environment. *)

LEMMA SurroundingsKeep ==
  ASSUME ClientInv, path' \in {"live", "stale", "none"}, stdout' \in {"open", "closed", "failing"},
         stdout' = stdout \/ pc # "exited",
         UNCHANGED <<argVars, request, pc, code, printed, ends, unread, chan, handler, stream, made,
                     evaluated>>
  PROVE  ClientInv'
<1>t. Typed /\ PhaseInv /\ RequestInv /\ SocketInv /\ OutputInv
  BY DEF ClientInv
<1>1. Typed'
  BY <1>t DEF Typed
<1>2. PhaseInv'
  BY <1>t DEF PhaseInv
<1>3. RequestInv'
  BY <1>t DEF RequestInv, MayFallBack, Evaluating
<1>4. SocketInv'
  BY <1>t DEF SocketInv
<1>5. OutputInv'
  <2>1. stdout' = stdout \/ code = "none"
    BY <1>t DEF PhaseInv
  <2>2. Prefix' /\ (Linked => Linked')
    BY <1>t DEF OutputInv, Prefix, Linked, Final
  <2> QED
    BY <1>t, <2>1, <2>2 DEF OutputInv
<1> QED
  BY <1>1, <1>2, <1>3, <1>4, <1>5, PlanKept DEF ClientInv

(* A daemon that stops takes its handler with it; the last line may be cut. *)
LEMMA DaemonStopsKeeps ==
  ASSUME ClientInv, DaemonStops
  PROVE  ClientInv'
<1>t. Typed /\ PhaseInv /\ SocketInv /\ OutputInv /\ Prefix /\ chan \in Seq(Lines) /\ Cut \in Lines
  BY DEF ClientInv, OutputInv, Typed, Lines
<1>f. /\ path' \in {"none", "stale"} /\ ends' = ends \ {"daemon"}
      /\ handler' = (IF "daemon" \in ends THEN "over" ELSE handler)
      /\ stream' = (IF handler = "stream" /\ stream = "live" THEN "lost" ELSE stream)
      /\ \/ chan' = chan
         \/ handler \in {"stream", "settle", "failed"} /\ ~Gone /\ chan' = Append(chan, Cut)
      /\ UNCHANGED <<argVars, request, pc, code, printed, unread, made, stdout, evaluated>>
  BY DEF DaemonStops, clientVars
<1>1. CASE "daemon" \notin ends
  <2>1. handler \notin Handling
    BY <1>t, <1>1 DEF PhaseInv
  <2>2. handler' = handler /\ stream' = stream /\ chan' = chan /\ ends' = ends
    BY <1>f, <1>1, <2>1 DEF Handling
  <2>3. path' \in {"live", "stale", "none"} /\ stdout' \in {"open", "closed", "failing"}
    BY <1>t, <1>f DEF Typed
  <2> QED
    BY <1>f, <2>2, <2>3, SurroundingsKeep
<1>2. CASE "daemon" \in ends
  <2>h. handler' = "over"
    BY <1>f, <1>2
  <2>s. /\ stream = "ended" => stream' = "ended"
        /\ stream' = "unopened" => stream = "unopened"
        /\ stream' \in {"unopened", "live", "ended", "lost"}
    BY <1>t, <1>f DEF Typed
  <2>l. ~Gone => Linked
    BY <1>2, Connected DEF ClientInv, OutputInv
  <2>1. Prefix'
    BY <1>t, <1>f DEF Prefix
  <2>4. Typed'
    <3>1. chan' \in Seq(Lines)
      BY <1>t, <1>f, AppendFacts
    <3>2. ends' \subseteq {"client", "daemon"}
      BY <1>t, <1>f DEF Typed
    <3> QED
      BY <1>t, <1>f, <2>h, <2>s, <3>1, <3>2 DEF Typed
  <2>5. PhaseInv'
    BY <1>f, <1>2, <2>h, <2>s, HandlerPhase DEF Handling
  <2>6. SocketInv'
    <3>1. CASE chan' = chan
      BY <1>t, <2>h, <3>1 DEF SocketInv
    <3>2. CASE handler \in {"stream", "settle", "failed"} /\ chan' = Append(chan, Cut)
      <4>1. Len(chan) <= Capacity /\ Len(chan) \in Nat
        BY <1>t, <3>2, Lengths DEF SocketInv
      <4>2. Len(chan') = Len(chan) + 1
        BY <1>t, <3>2, AppendFacts
      <4>3. Len(chan') <= Capacity + 1
        BY <4>1, <4>2, Bounds
      <4>4. Cut \in Range(chan')
        BY <1>t, <3>2, RangeOfAppend
      <4> QED
        BY <2>h, <4>3, <4>4 DEF SocketInv
    <3> QED
      BY <1>f, <3>1, <3>2
  <2>7. ~Gone => Linked'
    <3> SUFFICES ASSUME ~Gone PROVE Linked'
      OBVIOUS
    <3>1. CASE chan' = chan
      BY <1>f, <2>h, <2>s, <2>l, <3>1, LinkKept
    <3>2. CASE handler \in {"stream", "settle", "failed"} /\ chan' = Append(chan, Cut)
      <4>1. Len(printed) + Len(chan) = Len(made)
        BY <2>l, <3>2, NothingLost
      <4> QED
        BY <1>f, <2>h, <2>l, <3>2, <4>1, LinkFinal, LineFacts
    <3> QED
      BY <1>f, <3>1, <3>2
  <2> QED
    BY <1>f, <1>2, <2>s, <2>1, <2>4, <2>5, <2>6, <2>7, HandlerKeeps
<1> QED
  BY <1>1, <1>2

LEMMA EnvironmentKeeps ==
  ASSUME ClientInv, DaemonStarts \/ StdoutGoes
  PROVE  ClientInv'
<1>t. path \in {"live", "stale", "none"} /\ stdout \in {"open", "closed", "failing"}
  BY DEF ClientInv, Typed
<1>1. CASE DaemonStarts
  BY <1>t, <1>1, SurroundingsKeep DEF DaemonStarts, clientVars, streamVars
<1>2. CASE StdoutGoes
  BY <1>t, <1>2, SurroundingsKeep DEF StdoutGoes, clientVars, streamVars
<1> QED
  BY <1>1, <1>2

LEMMA StutterKeeps ==
  ASSUME ClientInv, UNCHANGED vars
  PROVE  ClientInv'
<1>1. path \in {"live", "stale", "none"} /\ stdout \in {"open", "closed", "failing"}
  BY DEF ClientInv, Typed
<1> QED
  BY <1>1, SurroundingsKeep DEF vars

-----------------------------------------------------------------------------
(* The invariant, and what follows from it. *)

LEMMA InitHolds == Init => ClientInv
<1> SUFFICES ASSUME Init PROVE ClientInv
  OBVIOUS
<1>f. /\ at = "shell" /\ request = None /\ path = "none" /\ pc = "parse" /\ code = "none" /\ ends = {}
      /\ unread = FALSE /\ chan = <<>> /\ handler = "none" /\ stream = "unopened" /\ made = <<>>
      /\ printed = <<>> /\ stdout = "open" /\ evaluated = {}
  BY DEF Init, CommandLineInit
<1>s. Len(<<>>) = 0 /\ \A v : v \notin Range(<<>>)
  BY DEF Range
<1>1. Typed
  <2>1. chan \in Seq(Lines) /\ made \in Seq(Yields) /\ printed \in Seq(Responses)
    BY <1>f
  <2>2. ends \subseteq {"client", "daemon"} /\ evaluated \in {{}, {"client"}, {"daemon"}}
    BY <1>f
  <2> QED
    BY <1>f, <2>1, <2>2 DEF Typed
<1>2. PlanInv /\ PhaseInv
  BY <1>f DEF PlanInv, PhaseInv, Early, Handling
<1>3. RequestInv
  BY <1>f, ClientAssumption DEF RequestInv, Requests
<1>4. SocketInv
  BY <1>f, <1>s, Bounds DEF SocketInv
<1>5. OutputInv
  BY <1>f, <1>s DEF OutputInv, Prefix
<1> QED
  BY <1>1, <1>2, <1>3, <1>4, <1>5 DEF ClientInv

LEMMA InvariantHolds == Spec => []ClientInv
<1>1. ClientInv /\ [Next]_vars => ClientInv'
  BY ParseKeeps, BeginKeeps, RefuseKeeps, PrepareKeeps, ConnectKeeps, WriteRequestKeeps, ReadItemKeeps,
     ReadLastKeeps, ReadEofKeeps, LocalOpenKeeps, LocalItemKeeps, LocalErrorKeeps, LocalEndKeeps,
     AcceptKeeps, ReadRequestKeeps, HandlerOpenKeeps, HandlerItemKeeps, HandlerErrorKeeps,
     HandlerEndKeeps, HandlerSettleKeeps, HandlerCloseKeeps, DaemonStopsKeeps, EnvironmentKeeps,
     StutterKeeps DEF Next, ClientStep, LocalStep, HandlerStep
<1> QED
  BY <1>1, InitHolds, PTL DEF Spec

(* Types, and the capacity of the socket. *)
LEMMA TypesFollow ==
  ASSUME ClientInv
  PROVE  TypeOK
<1>t. Typed /\ RequestInv /\ SocketInv
  BY DEF ClientInv
<1>1. request \in {None} \union Requests
  BY <1>t DEF RequestInv
<1>2. Range(chan) \subseteq Lines /\ Range(made) \subseteq Yields /\ Range(printed) \subseteq Responses
  BY <1>t, RangeFacts DEF Typed
<1>3. Len(chan) <= Capacity + (IF Cut \in Range(chan) THEN 1 ELSE 0)
  <2>1. Len(chan) \in Nat /\ Capacity \in Nat
    BY <1>t, Lengths, Bounds
  <2>2. CASE Cut \in Range(chan)
    BY <1>t, <2>2 DEF SocketInv
  <2>3. CASE Cut \notin Range(chan)
    <3>1. Len(chan) <= Capacity
      BY <1>t, <2>3 DEF SocketInv
    <3> QED
      BY <2>1, <2>3, <3>1
  <2> QED
    BY <2>2, <2>3
<1>4. evaluated \subseteq {"client", "daemon"}
  BY <1>t DEF Typed
<1> QED
  BY <1>t, <1>1, <1>2, <1>3, <1>4 DEF TypeOK, Typed, Handling, Lines, Yields

LEMMA PrefixFollows ==
  ASSUME ClientInv
  PROVE  PrintedIsPrefix
<1>t. /\ Prefix /\ made \in Seq(Yields) /\ printed \in Seq(Responses)
      /\ Len(printed) \in Nat /\ Len(made) \in Nat
  BY Lengths DEF ClientInv, OutputInv, Typed
<1>1. Len(printed) <= Len(made) /\ \A i \in 1..Len(printed) : printed[i] = made[i]
  BY <1>t DEF Prefix
<1>2. /\ SubSeq(printed, 1, Len(printed)) = [i \in 1..Len(printed) |-> printed[i]]
      /\ SubSeq(made, 1, Len(printed)) = [i \in 1..Len(printed) |-> made[i]]
  BY <1>t, <1>1
<1>3. SubSeq(printed, 1, Len(printed)) = SubSeq(made, 1, Len(printed))
  BY <1>1, <1>2
<1> QED
  BY <1>1, <1>3 DEF PrintedIsPrefix, IsPrefix

LEMMA SuccessFollows ==
  ASSUME ClientInv
  PROVE  SuccessIsWhole
<1> SUFFICES ASSUME code = "ok", request.cmd # "watch", stdout # "closed"
             PROVE  stream = "ended" /\ Failure \notin Range(made) /\ printed = made
  BY DEF SuccessIsWhole
<1>1. stream = "ended" /\ printed = made
  BY DEF ClientInv, OutputInv
<1>2. Range(printed) \subseteq Responses
  BY RangeFacts DEF ClientInv, Typed
<1>3. Failure \notin Range(made)
  BY <1>1, <1>2, LineFacts
<1> QED
  BY <1>1, <1>3

LEMMA OneFollows ==
  ASSUME ClientInv
  PROVE  EvaluatedOnce
<1>t. Typed /\ RequestInv
  BY DEF ClientInv
<1>1. Cardinality(evaluated) <= 1
  <2>1. Cardinality({}) = 0 /\ Cardinality({"client"}) = 1 /\ Cardinality({"daemon"}) = 1
    BY FS_EmptySet, FS_Singleton
  <2>2. evaluated = {} \/ evaluated = {"client"} \/ evaluated = {"daemon"}
    BY <1>t DEF Typed
  <2> QED
    BY <2>1, <2>2
<1>2. request # None => request \in Requests
  BY <1>t DEF RequestInv, Typed
<1>3. ASSUME request # None, request.cmd \in {"replay", "query"} PROVE evaluated = {}
  BY <1>t, <1>2, <1>3 DEF RequestInv, Evaluating
<1>4. ASSUME request # None, ~MayFallBack PROVE pc # "local" /\ "client" \notin evaluated
  BY <1>t, <1>2, <1>4 DEF RequestInv
<1> QED
  BY <1>1, <1>3, <1>4 DEF EvaluatedOnce

(* Whatever becomes of the daemon, of the connection and of standard output,
   what the client prints is a beginning of what the stream yielded, and an
   exit with status 0 of anything but a watch means that all of it was
   yielded without an error and printed, unless its reader left
   (run_daemon_request, write_output_line, run_local_eval); the socket never
   holds more than its capacity and a cut line (write_response). *)
THEOREM OutputIsSound == Spec => []OutputSound
<1>1. ClientInv => OutputSound
  BY TypesFollow, PrefixFollows, SuccessFollows DEF OutputSound
<1> QED
  BY <1>1, InvariantHolds, PTL

(* A request is evaluated in at most one place, in none if it is a replay or
   a query, and by the client only if it may fall back: an eval or a watch
   whose socket was missing (run_client_or_local, run_daemon_only). *)
THEOREM EvaluationIsSingle == Spec => []EvaluatedOnce
<1>1. ClientInv => EvaluatedOnce
  BY OneFollows
<1> QED
  BY <1>1, InvariantHolds, PTL

(* The command line is only looked at by the steps of CommandLine, and is
   forgotten when it has been refused or has become a request. *)
LEMMA MeantHolds == Spec => []MeantInv
<1>1. Init => MeantInv
  BY DEF Init, CommandLineInit, MeantInv
<1>2. ASSUME MeantInv, [Next]_vars PROVE MeantInv'
  <2>1. CASE Parse
    BY <1>2, <2>1, TypeMeans, NormalizeMeans, ParseMeans, MakePlanMeans DEF Parse, CommandLineNext
  <2>2. CASE Refuse \/ Begin \/ LocalError
    BY <2>2 DEF Refuse, Begin, LocalError, Forget, MeantInv
  <2>k. ASSUME UNCHANGED argVars PROVE MeantInv'
    BY <1>2, <2>k DEF argVars, MeantInv
  <2>3. CASE Prepare \/ Connect \/ WriteRequest \/ ReadItem \/ ReadLast \/ ReadEof
    BY <2>3, <2>k DEF Prepare, Connect, WriteRequest, ReadItem, ReadLast, ReadEof
  <2>4. CASE LocalOpen \/ LocalItem \/ LocalEnd
    BY <2>4, <2>k DEF LocalOpen, LocalItem, LocalEnd
  <2>5. CASE HandlerStep
    BY <2>5, <2>k DEF HandlerStep, Accept, ReadRequest, HandlerOpen, HandlerItem, HandlerError,
                      HandlerEnd, HandlerSettle, HandlerClose
  <2>6. CASE DaemonStops \/ DaemonStarts \/ StdoutGoes
    BY <2>6, <2>k DEF DaemonStops, DaemonStarts, StdoutGoes
  <2>7. CASE UNCHANGED vars
    BY <2>7, <2>k DEF vars
  <2> QED
    BY <1>2, <2>1, <2>2, <2>3, <2>4, <2>5, <2>6, <2>7 DEF Next, ClientStep, LocalStep
<1> QED
  BY <1>1, <1>2, PTL DEF Spec

(* A command line becomes the plan its user means, however long it is and in
   whichever way its options are written: packing and parsing lose and invent
   no option, the configuration has each with its values (normalize_args,
   parse_plan_from, command_plan of args.rs); the master accepts what is
   accepted here (validate_config); no remote is used or served without a
   token unless the user says so (remote_token, remote_worker_token); and
   nothing is refused without a cause. *)
THEOREM PlanIsTheOneMeant == Spec => []PlanIsMeant
<1>1. MeantInv => PlanIsMeant
  BY MeantFollows
<1> QED
  BY <1>1, MeantHolds, PTL
==============================================================================

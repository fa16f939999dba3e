---------------------------- MODULE DataPathProofs ----------------------------
(***************************************************************************)
(* Theorems about the data of an evaluation, for all values, limits,       *)
(* configurations and numbers of workers.                                  *)
(*                                                                         *)
(* Induction is stated once, for sets of numbers, from the least element   *)
(* of a set.  A recursive function of the model is a function chosen to    *)
(* satisfy its equation: each one is shown to exist, so that the chosen    *)
(* one satisfies it, and then used through its entries.                    *)
(***************************************************************************)
EXTENDS DataPath, TLAPS, WellFoundedInduction, FiniteSetTheorems

------------------------------------------------------------------------------
(* Induction, and the wildcards of a query. *)

(* A set of numbers has a least one. *)
LEMMA Least ==
  ASSUME NEW T, T \subseteq Nat, T # {}
  PROVE \E n \in T : \A m \in T : n <= m
<1> DEFINE R == {ss \in Nat \X Nat : ss[1] < ss[2]}
<1>1. IsWellFoundedOn(R, Nat)
  BY NatLessThanWellFounded, Zenon DEF OpToRel
<1> HIDE DEF R
<1>2. PICK n \in T : \A y \in T : ~(<<y, n>> \in R)
  BY <1>1, WFMin, Zenon
<1>3. ASSUME NEW m \in T PROVE n <= m
  <2>1. m \in Nat /\ n \in Nat OBVIOUS
  <2>2. SUFFICES ASSUME m < n PROVE FALSE BY <2>1
  <2>3. <<m, n>> \in Nat \X Nat /\ <<m, n>>[1] < <<m, n>>[2] BY <2>1, <2>2
  <2>4. <<m, n>> \in R BY <2>3, Zenon DEF R
  <2> QED BY <2>4, <1>2, Zenon
<1>. QED BY <1>2, <1>3

(* Induction over the numbers, for a set. *)
LEMMA Induct ==
  ASSUME NEW S, 0 \in S, \A n \in Nat : n \in S => n + 1 \in S
  PROVE Nat \subseteq S
<1>1. SUFFICES ASSUME Nat \ S # {} PROVE FALSE OBVIOUS
<1>2. PICK n \in Nat \ S : \A m \in Nat \ S : n <= m BY <1>1, Least
<1>3. n # 0 /\ n - 1 \in Nat /\ n = (n-1)+1 BY <1>2
<1>4. n - 1 \in S BY <1>2, <1>3
<1> QED BY <1>2, <1>3, <1>4

------------------------------------------------------------------------------

Entry(M, p, v, i, j) ==
    CASE i = 0 -> j = 0
      [] i > 0 /\ j = 0 -> p[i] = "*" /\ M[<<i - 1, 0>>]
      [] OTHER -> CASE p[i] = "*" -> M[<<i - 1, j>>] \/ M[<<i, j - 1>>]
                    [] p[i] = "?" -> M[<<i - 1, j - 1>>]
                    [] OTHER -> p[i] = v[j] /\ M[<<i - 1, j - 1>>]

IsTable(M, p, v) == M = [ij \in (0..Len(p)) \X (0..Len(v)) |-> Entry(M, p, v, ij[1], ij[2])]

Piece(cut, p, v, k) ==
    /\ cut[k - 1] <= cut[k]
    /\ p[k] # "*" => cut[k] = cut[k - 1] + 1
    /\ p[k] \notin {"*", "?"} => v[cut[k]] = p[k]

Fits(p, v, i, j) ==
    \E cut \in [0..i -> 0..Len(v)] :
        cut[0] = 0 /\ cut[i] = j /\ \A k \in 1..i : Piece(cut, p, v, k)

(* wildcard_matches computes its table. *)
LEMMA TableChosen ==
  ASSUME NEW p, NEW v, \E M : IsTable(M, p, v)
  PROVE \E N : /\ PA!wildcard_matches(p, v) = N[<<Len(p), Len(v)>>]
               /\ IsTable(N, p, v)
<1>1. PICK M : IsTable(M, p, v) OBVIOUS
<1> DEFINE C == CHOOSE N : IsTable(N, p, v)
<1>2. IsTable(C, p, v) BY <1>1, Zenon
<1>3. PA!wildcard_matches(p, v) = C[<<Len(p), Len(v)>>] BY Zenon DEF PA!wildcard_matches, IsTable, Entry
<1> QED BY <1>2, <1>3

(* Means, for the whole pattern and the whole value. *)
LEMMA FitsMeans ==
  ASSUME NEW p, NEW v
  PROVE Fits(p, v, Len(p), Len(v)) = PA!Means(p, v)
  BY Zenon DEF Fits, Piece, PA!Means

(* Nothing fits before the first cut but nothing. *)
LEMMA FitsStart ==
  ASSUME NEW p, NEW v, Len(v) \in Nat, NEW j \in 0..Len(v)
  PROVE Fits(p, v, 0, j) <=> j = 0
<1>1. ASSUME Fits(p, v, 0, j) PROVE j = 0 BY <1>1 DEF Fits
<1>2. ASSUME j = 0 PROVE Fits(p, v, 0, j)
  <2> DEFINE cut == [k \in 0..0 |-> 0]
  <2>1. cut \in [0..0 -> 0..Len(v)] /\ cut[0] = 0 /\ 1..0 = {} OBVIOUS
  <2> HIDE DEF cut
  <2> QED BY <2>1, <1>2 DEF Fits
<1> QED BY <1>1, <1>2

(* What fits one character more than a piece, and *)
LEMMA FitsShorter ==
  ASSUME NEW p, NEW v, Len(p) \in Nat, Len(v) \in Nat, NEW i \in 1..Len(p),
         NEW cut \in [0..i -> 0..Len(v)], cut[0] = 0, \A k \in 1..i : Piece(cut, p, v, k)
  PROVE Fits(p, v, i - 1, cut[i - 1])
<1> DEFINE c == [k \in 0..(i - 1) |-> cut[k]]
<1>1. c \in [0..(i - 1) -> 0..Len(v)] /\ c[0] = 0 /\ c[i - 1] = cut[i - 1] OBVIOUS
<1>2. ASSUME NEW k \in 1..(i - 1) PROVE Piece(c, p, v, k)
  <2>1. c[k] = cut[k] /\ c[k - 1] = cut[k - 1] /\ k \in 1..i OBVIOUS
  <2> QED BY <2>1, Zenon DEF Piece
<1> HIDE DEF c
<1> QED BY <1>1, <1>2 DEF Fits

(* what fits with one piece more. *)
LEMMA FitsLonger ==
  ASSUME NEW p, NEW v, Len(p) \in Nat, Len(v) \in Nat, NEW i \in 1..Len(p),
         NEW j \in 0..Len(v), NEW l \in 0..Len(v), Fits(p, v, i - 1, l),
         l <= j, p[i] # "*" => j = l + 1, p[i] \notin {"*", "?"} => v[j] = p[i]
  PROVE Fits(p, v, i, j)
<1>1. PICK cut \in [0..(i - 1) -> 0..Len(v)] :
        cut[0] = 0 /\ cut[i - 1] = l /\ \A k \in 1..(i - 1) : Piece(cut, p, v, k)
  BY DEF Fits
<1> DEFINE c == [k \in 0..i |-> IF k = i THEN j ELSE cut[k]]
<1>2. c \in [0..i -> 0..Len(v)] /\ c[0] = 0 /\ c[i] = j /\ c[i - 1] = l BY <1>1
<1>3. ASSUME NEW k \in 1..(i - 1) PROVE Piece(c, p, v, k)
  <2>1. c[k] = cut[k] /\ c[k - 1] = cut[k - 1] OBVIOUS
  <2> QED BY <2>1, <1>1, Zenon DEF Piece
<1> HIDE DEF c
<1>4. Piece(c, p, v, i) BY <1>2 DEF Piece
<1>5. \A k \in 1..i : Piece(c, p, v, k) BY <1>3, <1>4
<1> QED BY <1>2, <1>5 DEF Fits

(* One more piece. *)
LEMMA FitsStep ==
  ASSUME NEW p, NEW v, Len(p) \in Nat, Len(v) \in Nat, NEW i \in 1..Len(p), NEW j \in 0..Len(v)
  PROVE Fits(p, v, i, j) <=>
          \E l \in 0..Len(v) : /\ Fits(p, v, i - 1, l) /\ l <= j
                               /\ p[i] # "*" => j = l + 1
                               /\ p[i] \notin {"*", "?"} => v[j] = p[i]
<1> DEFINE From(l) == /\ Fits(p, v, i - 1, l) /\ l <= j
                      /\ p[i] # "*" => j = l + 1
                      /\ p[i] \notin {"*", "?"} => v[j] = p[i]
<1>1. ASSUME Fits(p, v, i, j) PROVE \E l \in 0..Len(v) : From(l)
  <2>1. PICK cut \in [0..i -> 0..Len(v)] :
        cut[0] = 0 /\ cut[i] = j /\ \A k \in 1..i : Piece(cut, p, v, k)
    BY <1>1 DEF Fits
  <2>2. Fits(p, v, i - 1, cut[i - 1]) BY <2>1, FitsShorter
  <2>3. Piece(cut, p, v, i) /\ cut[i - 1] \in 0..Len(v) BY <2>1
  <2> QED BY <2>1, <2>2, <2>3 DEF Piece
<1>2. ASSUME NEW l \in 0..Len(v), From(l) PROVE Fits(p, v, i, j)
  BY <1>2, FitsLonger
<1> HIDE DEF From
<1>3. Fits(p, v, i, j) <=> \E l \in 0..Len(v) : From(l) BY <1>1, <1>2
<1> QED BY <1>3, Zenon DEF From

(* An entry of the table says whether the pieces so far fit. *)
LEMMA FitsEntry ==
  ASSUME NEW p, NEW v, Len(p) \in Nat, Len(v) \in Nat,
         NEW M, NEW i \in 0..Len(p), NEW j \in 0..Len(v),
         \A k \in 0..Len(p), l \in 0..Len(v) : k + l < i + j => M[<<k, l>>] = Fits(p, v, k, l)
  PROVE Entry(M, p, v, i, j) = Fits(p, v, i, j)
<1>0. Fits(p, v, i, j) \in BOOLEAN BY Zenon DEF Fits
<1>1. CASE i = 0
  <2>1. Entry(M, p, v, i, j) = (j = 0) BY <1>1 DEF Entry
  <2> QED BY <2>1, <1>1, <1>0, FitsStart
<1>2. CASE i # 0 /\ j = 0
  <2>1. i > 0 /\ i - 1 \in 0..Len(p) /\ (i - 1) + 0 < i + j BY <1>2
  <2>2. M[<<i - 1, 0>>] = Fits(p, v, i - 1, 0) BY <2>1
  <2>3. Entry(M, p, v, i, j) = (p[i] = "*" /\ Fits(p, v, i - 1, 0)) BY <1>2, <2>1, <2>2, Zenon DEF Entry
  <2>4. Fits(p, v, i, j) <=> (p[i] = "*" /\ Fits(p, v, i - 1, 0))
    BY <1>2, FitsStep
  <2> QED BY <2>3, <2>4, <1>0
<1>3. CASE i # 0 /\ j # 0
  <2>1. i > 0 /\ ~(i > 0 /\ j = 0) /\ i - 1 \in 0..Len(p) /\ j - 1 \in 0..Len(v) /\ (i - 1) + j < i + j
        /\ i + (j - 1) < i + j /\ (i - 1) + (j - 1) < i + j /\ i \in 1..Len(p) BY <1>3
  <2>2. /\ M[<<i - 1, j>>] = Fits(p, v, i - 1, j)
        /\ M[<<i, j - 1>>] = Fits(p, v, i, j - 1)
        /\ M[<<i - 1, j - 1>>] = Fits(p, v, i - 1, j - 1) BY <2>1
  <2>3. CASE p[i] = "*"
    <3>1. Entry(M, p, v, i, j) = (Fits(p, v, i - 1, j) \/ Fits(p, v, i, j - 1))
      BY <1>3, <2>2, <2>3, Zenon DEF Entry
    <3>2. ASSUME Fits(p, v, i, j) PROVE Fits(p, v, i - 1, j) \/ Fits(p, v, i, j - 1)
      <4>1. PICK l \in 0..Len(v) : Fits(p, v, i - 1, l) /\ l <= j BY <2>1, <3>2, FitsStep
      <4>2. CASE l = j BY <4>1, <4>2
      <4>3. CASE l # j
        <5>1. l <= j - 1 BY <4>1, <4>3
        <5> QED BY <2>1, <2>3, <4>1, <5>1, FitsLonger
      <4> QED BY <4>2, <4>3
    <3>3. ASSUME Fits(p, v, i - 1, j) PROVE Fits(p, v, i, j)
      BY <2>1, <2>3, <3>3, FitsLonger
    <3>4. ASSUME Fits(p, v, i, j - 1) PROVE Fits(p, v, i, j)
      <4>1. PICK l \in 0..Len(v) : Fits(p, v, i - 1, l) /\ l <= j - 1 BY <2>1, <3>4, FitsStep
      <4> QED BY <2>1, <2>3, <4>1, FitsLonger
    <3> QED BY <3>1, <3>2, <3>3, <3>4, <1>0
  <2>4. CASE p[i] # "*"
    <3>1. Fits(p, v, i, j) <=> Fits(p, v, i - 1, j - 1) /\ (p[i] \notin {"*", "?"} => v[j] = p[i])
      BY <2>1, <2>4, FitsStep
    <3>2. CASE p[i] = "?"
      <4>1. Entry(M, p, v, i, j) = Fits(p, v, i - 1, j - 1) BY <1>3, <2>2, <3>2, Zenon DEF Entry
      <4>2. Fits(p, v, i - 1, j - 1) \in BOOLEAN BY Zenon DEF Fits
      <4> QED BY <3>1, <3>2, <4>1, <4>2, <1>0
    <3>3. CASE p[i] # "?"
      <4>1. Entry(M, p, v, i, j) = (p[i] = v[j] /\ Fits(p, v, i - 1, j - 1)) BY <1>3, <2>2, <2>4, <3>3, Zenon DEF Entry
      <4> QED BY <3>1, <3>3, <2>4, <4>1, <1>0
    <3> QED BY <3>2, <3>3
  <2> QED BY <2>3, <2>4
<1> QED BY <1>1, <1>2, <1>3

(* A wildcard means what it says: the table of wildcard_matches holds at its
   corner exactly if the value can be cut into pieces that fit the pattern. *)
THEOREM WildcardMeans ==
  ASSUME NEW p, NEW v, Len(p) \in Nat, Len(v) \in Nat
  PROVE PA!wildcard_matches(p, v) = PA!Means(p, v)
<1> DEFINE D == (0..Len(p)) \X (0..Len(v))
           F == [ij \in D |-> Fits(p, v, ij[1], ij[2])]
<1>1. IsTable(F, p, v)
  <2>1. \A k \in 0..Len(p), l \in 0..Len(v) : F[<<k, l>>] = Fits(p, v, k, l) OBVIOUS
  <2> HIDE DEF F
  <2>2. \A i \in 0..Len(p), j \in 0..Len(v) : Entry(F, p, v, i, j) = Fits(p, v, i, j)
    BY <2>1, FitsEntry
  <2>3. \A ij \in D : Entry(F, p, v, ij[1], ij[2]) = Fits(p, v, ij[1], ij[2])
    BY <2>2
  <2> QED BY <2>3, Zenon DEF IsTable, F
<1>2. PICK N : /\ PA!wildcard_matches(p, v) = N[<<Len(p), Len(v)>>]
               /\ IsTable(N, p, v)
  BY <1>1, TableChosen
<1> HIDE DEF F
<1>3. \A i \in 0..Len(p), j \in 0..Len(v) : N[<<i, j>>] = Entry(N, p, v, i, j)
  <2>1. N = [ij \in D |-> Entry(N, p, v, ij[1], ij[2])] BY <1>2, Zenon DEF IsTable
  <2> SUFFICES ASSUME NEW i \in 0..Len(p), NEW j \in 0..Len(v) PROVE N[<<i, j>>] = Entry(N, p, v, i, j)
    OBVIOUS
  <2>2. <<i, j>> \in D /\ <<i, j>>[1] = i /\ <<i, j>>[2] = j OBVIOUS
  <2> HIDE DEF D
  <2>3. [ij \in D |-> Entry(N, p, v, ij[1], ij[2])][<<i, j>>] = Entry(N, p, v, <<i, j>>[1], <<i, j>>[2])
    BY <2>2, Zenon
  <2> QED BY <2>1, <2>2, <2>3, Zenon
<1> DEFINE S == {n \in Nat : \A i \in 0..Len(p), j \in 0..Len(v) : i + j < n => N[<<i, j>>] = Fits(p, v, i, j)}
<1>4. Nat \subseteq S
  <2>1. 0 \in S OBVIOUS
  <2>2. ASSUME NEW n \in Nat, n \in S PROVE n + 1 \in S
    <3>1. ASSUME NEW i \in 0..Len(p), NEW j \in 0..Len(v), i + j < n + 1
          PROVE N[<<i, j>>] = Fits(p, v, i, j)
      <4>1. \A k \in 0..Len(p), l \in 0..Len(v) : k + l < i + j => N[<<k, l>>] = Fits(p, v, k, l)
        BY <2>2, <3>1
      <4> QED BY <4>1, <1>3, FitsEntry
    <3> QED BY <3>1
  <2> HIDE DEF S
  <2> QED BY <2>1, <2>2, Induct
<1>5. N[<<Len(p), Len(v)>>] = Fits(p, v, Len(p), Len(v))
  <2>1. Len(p) + Len(v) + 1 \in S BY <1>4
  <2> QED BY <2>1
<1> QED BY <1>2, <1>5, FitsMeans

------------------------------------------------------------------------------
(* The warm graph. *)

(* The bounds of the warm graph are numbers. *)
LEMMA WarmTypes ==
    /\ MaxEvents \in Nat /\ MaxEvals \in Nat
    /\ \A q \in Paths \union AttrPrefixes : q \in Seq(STRING)
  BY DataPathAssumption, Zenon DEF WG!WarmGraphAssumption

OnePerPath(g) == \A d, e \in g : d.attr_path = e.attr_path => d = e

(* Get finds the one derivation of a path. *)
LEMMA OneIsGet ==
  ASSUME NEW g
  PROVE OnePerPath(g) <=> \A d \in g : WG!Get(g, d.attr_path) = {d}
  BY DEF OnePerPath, WG!Get

WarmInv ==
    /\ warm \subseteq WG!Derivations /\ acc \subseteq WG!Derivations /\ mirror \subseteq WG!Derivations
    /\ OnePerPath(warm) /\ OnePerPath(acc) /\ OnePerPath(mirror)
    /\ errors \in Nat /\ errors <= MaxEvents /\ evals \in Nat /\ evals <= MaxEvals
    /\ recorded \in Seq(WG!Derivations) /\ Len(recorded) <= MaxEvents
    /\ WG!Builds(mirror) = WG!Builds(warm)
    /\ WG!LastReportWins

SameBuild(d, e) == d.attr_path = e.attr_path /\ d.drv_path = e.drv_path

(* Graphs with the same builds. *)
LEMMA BuildsSame ==
  ASSUME NEW g, NEW h
  PROVE WG!Builds(g) = WG!Builds(h) <=>
          /\ \A d \in g : \E e \in h : SameBuild(d, e)
          /\ \A e \in h : \E d \in g : SameBuild(d, e)
<1>1. ASSUME NEW d, NEW k PROVE <<d.attr_path, d.drv_path>> \in WG!Builds(k) <=> \E e \in k : SameBuild(d, e)
  BY DEF WG!Builds, SameBuild
<1>2. ASSUME NEW b, NEW k PROVE b \in WG!Builds(k) <=> \E e \in k : b = <<e.attr_path, e.drv_path>>
  BY DEF WG!Builds
<1>3. ASSUME WG!Builds(g) = WG!Builds(h)
      PROVE /\ \A d \in g : \E e \in h : SameBuild(d, e)
            /\ \A e \in h : \E d \in g : SameBuild(d, e)
  <2>1. ASSUME NEW d \in g PROVE \E e \in h : SameBuild(d, e)
    BY <1>1, <1>2, <1>3, Zenon
  <2>2. ASSUME NEW e \in h PROVE \E d \in g : SameBuild(d, e)
    <3>1. \E d \in g : SameBuild(e, d) BY <1>1, <1>2, <1>3, Zenon
    <3> QED BY <3>1 DEF SameBuild
  <2> QED BY <2>1, <2>2
<1>4. ASSUME \A d \in g : \E e \in h : SameBuild(d, e), \A e \in h : \E d \in g : SameBuild(d, e)
      PROVE WG!Builds(g) = WG!Builds(h)
  <2>1. ASSUME NEW b \in WG!Builds(g) PROVE b \in WG!Builds(h)
    BY <1>1, <1>2, <1>4
  <2>2. ASSUME NEW b \in WG!Builds(h) PROVE b \in WG!Builds(g)
    <3>1. PICK e \in h : b = <<e.attr_path, e.drv_path>> BY <1>2, <2>2
    <3>2. PICK d \in g : SameBuild(d, e) BY <1>4
    <3> QED BY <1>2, <3>1, <3>2 DEF SameBuild
  <2> QED BY <2>1, <2>2
<1> QED BY <1>3, <1>4

(* What a client makes of a diff. *)
LEMMA DiffApplied ==
  ASSUME NEW old \in SUBSET WG!Derivations, NEW new \in SUBSET WG!Derivations,
         NEW copy \in SUBSET WG!Derivations, NEW errs,
         OnePerPath(old), OnePerPath(new), OnePerPath(copy),
         WG!Builds(copy) = WG!Builds(old)
  PROVE LET after == WG!apply_diff(copy, WG!diff_graphs(old, new, errs))
        IN /\ after \subseteq WG!Derivations /\ OnePerPath(after)
           /\ WG!Builds(after) = WG!Builds(new)
<1> DEFINE removed == WG!diff_removed(old, new)
           added == WG!diff_added(old, new)
           after == WG!apply_diff(copy, WG!diff_graphs(old, new, errs))
<1>1. \A d : d \in removed <=> d \in old /\ \A e \in new : ~SameBuild(e, d)
  BY DEF WG!diff_removed, WG!Get, SameBuild
<1>2. \A d : d \in added <=> d \in new /\ \A e \in old : ~SameBuild(e, d)
  BY DEF WG!diff_added, WG!Get, SameBuild
<1>3. \A d : d \in after <=> (d \in copy /\ \A r \in removed : r.attr_path # d.attr_path) \/ d \in added
  BY DEF WG!apply_diff, WG!diff_graphs
<1>4. /\ \A d \in copy : \E e \in old : SameBuild(d, e)
      /\ \A e \in old : \E d \in copy : SameBuild(d, e)
  BY BuildsSame, Zenon
<1> HIDE DEF removed, added, after
<1>5. after \subseteq WG!Derivations BY <1>2, <1>3
<1>6. ASSUME NEW d \in after PROVE \E e \in new : SameBuild(d, e)
  <2>1. CASE d \in added BY <2>1, <1>2 DEF SameBuild
  <2>2. CASE d \in copy /\ \A r \in removed : r.attr_path # d.attr_path
    <3>1. PICK o \in old : SameBuild(d, o) BY <1>4, <2>2
    <3>2. o \notin removed BY <2>2, <3>1 DEF SameBuild
    <3>3. PICK e \in new : SameBuild(e, o) BY <1>1, <3>1, <3>2
    <3> QED BY <3>1, <3>3 DEF SameBuild
  <2> QED BY <1>3, <1>6, <2>1, <2>2
<1>7. ASSUME NEW e \in new PROVE \E d \in after : SameBuild(d, e)
  <2>1. CASE e \in added BY <2>1, <1>3 DEF SameBuild
  <2>2. CASE e \notin added
    <3>1. PICK o \in old : SameBuild(o, e) BY <1>2, <2>2
    <3>2. PICK d \in copy : SameBuild(d, o) BY <1>4
    <3>3. ASSUME NEW r \in removed PROVE r.attr_path # d.attr_path
      <4>1. r \in old /\ \A x \in new : ~SameBuild(x, r) BY <1>1, <3>3
      <4>2. SUFFICES ASSUME r.attr_path = d.attr_path PROVE FALSE OBVIOUS
      <4>3. r = o BY <4>1, <4>2, <3>1, <3>2 DEF OnePerPath, SameBuild
      <4> QED BY <4>1, <4>3, <3>1 DEF SameBuild
    <3>4. d \in after BY <1>3, <3>2, <3>3
    <3> QED BY <3>1, <3>2, <3>4 DEF SameBuild
  <2> QED BY <2>1, <2>2
<1>8. ASSUME NEW d \in after, NEW e \in after, d.attr_path = e.attr_path PROVE d = e
  <2>1. PICK dn \in new : SameBuild(d, dn) BY <1>6
  <2>2. PICK en \in new : SameBuild(e, en) BY <1>6
  <2>3. dn = en BY <1>8, <2>1, <2>2 DEF SameBuild, OnePerPath
  <2>4. SameBuild(d, e) BY <2>1, <2>2, <2>3 DEF SameBuild
  <2>5. CASE d \in added /\ e \in added BY <2>5, <1>2, <1>8 DEF OnePerPath
  <2>6. CASE d \in copy /\ e \in copy BY <2>6, <1>8 DEF OnePerPath
  <2>7. CASE d \in added /\ e \in copy
    <3>1. PICK o \in old : SameBuild(e, o) BY <1>4, <2>7
    <3> QED BY <3>1, <2>4, <2>7, <1>2 DEF SameBuild
  <2>8. CASE d \in copy /\ e \in added
    <3>1. PICK o \in old : SameBuild(d, o) BY <1>4, <2>8
    <3>2. SameBuild(o, e) BY <3>1, <2>4 DEF SameBuild
    <3> QED BY <3>1, <3>2, <2>8, <1>2, Zenon
  <2>9. (d \in copy \/ d \in added) /\ (e \in copy \/ e \in added) BY <1>3, <1>8
  <2> QED BY <2>5, <2>6, <2>7, <2>8, <2>9, Zenon
<1>9. OnePerPath(after) BY <1>8, Zenon DEF OnePerPath
<1>10. WG!Builds(after) = WG!Builds(new) BY <1>6, <1>7, BuildsSame, Zenon
<1> QED BY <1>5, <1>9, <1>10 DEF after

(* A session starts with nothing. *)
LEMMA WarmStart ==
  ASSUME WG!Init PROVE WarmInv
  BY WarmTypes DEF WG!Init, WarmInv, OnePerPath, WG!Builds, WG!LastReportWins

(* An event replaces the one of its path. *)
LEMMA RecordKeeps ==
  ASSUME WarmInv, NEW d \in WG!Derivations, WG!Record(d)
  PROVE WarmInv'
<1> USE DEF WarmInv
<1>1. /\ recorded' = Append(recorded, d) /\ Len(recorded) < MaxEvents
      /\ warm' = warm /\ errors' = errors /\ evals' = evals /\ mirror' = mirror
      /\ \A e : e \in acc' <=> (e \in acc /\ e.attr_path # d.attr_path) \/ e = d
  BY DEF WG!Record, WG!record, WG!Get
<1>2. recorded' \in Seq(WG!Derivations) /\ Len(recorded') = Len(recorded) + 1
      /\ (\A i \in 1..Len(recorded) : recorded'[i] = recorded[i])
      /\ recorded'[Len(recorded) + 1] = d
  BY <1>1
<1>3. acc' \subseteq WG!Derivations /\ OnePerPath(acc') BY <1>1 DEF OnePerPath
<1>r. ASSUME NEW i \in 1..Len(recorded') PROVE \E e \in acc' : e.attr_path = recorded'[i].attr_path
  <2>1. CASE i = Len(recorded) + 1 BY <2>1, <1>1, <1>2
  <2>2. CASE i # Len(recorded) + 1
    <3>1. i \in 1..Len(recorded) /\ recorded'[i] = recorded[i] BY <2>2, <1>2, <1>r
    <3>2. PICK e \in acc : e.attr_path = recorded[i].attr_path BY <3>1, Zenon DEF WG!LastReportWins
    <3>3. CASE e.attr_path = d.attr_path BY <3>1, <3>2, <3>3, <1>1
    <3>4. CASE e.attr_path # d.attr_path BY <3>1, <3>2, <3>4, <1>1
    <3> QED BY <3>3, <3>4
  <2> QED BY <2>1, <2>2
<1>4. WG!LastReportWins'
  <2> SUFFICES ASSUME NEW e \in acc'
               PROVE \E i \in 1..Len(recorded') :
                       /\ recorded'[i] = e
                       /\ \A j \in i + 1..Len(recorded') : recorded'[j].attr_path # e.attr_path
    BY <1>r, Zenon DEF WG!LastReportWins
  <2>1. CASE e = d
    <3>1. Len(recorded') \in 1..Len(recorded') /\ (Len(recorded') + 1)..Len(recorded') = {} BY <1>2
    <3> QED BY <1>2, <2>1, <3>1
  <2>2. CASE e # d
    <3>1. e \in acc /\ e.attr_path # d.attr_path BY <1>1, <2>2
    <3>2. PICK i \in 1..Len(recorded) :
            /\ recorded[i] = e
            /\ \A j \in i + 1..Len(recorded) : recorded[j].attr_path # e.attr_path
      BY <3>1 DEF WG!LastReportWins
    <3>3. ASSUME NEW j \in i + 1..Len(recorded') PROVE recorded'[j].attr_path # e.attr_path
      <4>1. CASE j = Len(recorded) + 1 BY <4>1, <1>2, <3>1
      <4>2. CASE j # Len(recorded) + 1
        <5>1. j \in i + 1..Len(recorded) /\ j \in 1..Len(recorded) BY <4>2, <1>2
        <5> QED BY <5>1, <3>2, <1>2
      <4> QED BY <4>1, <4>2
    <3>4. i \in 1..Len(recorded') /\ recorded'[i] = e BY <1>2, <3>2
    <3> QED BY <3>3, <3>4
  <2> QED BY <2>1, <2>2
<1>5. MaxEvents \in Nat BY WarmTypes
<1>6. Len(recorded') <= MaxEvents BY <1>1, <1>2, <1>5
<1> QED BY <1>1, <1>2, <1>3, <1>4, <1>6

(* Every step of a session keeps the invariant. *)
LEMMA WarmKeeps ==
  ASSUME WarmInv, [WG!Next]_(WG!vars)
  PROVE WarmInv'
<1>1. CASE \E d \in WG!Derivations : WG!Record(d) BY <1>1, RecordKeeps
<1>2. CASE WG!RecordError
  <2>1. errors' = errors + 1 /\ warm' = warm /\ acc' = acc /\ recorded' = recorded /\ evals' = evals
        /\ mirror' = mirror /\ Len(recorded) + errors < MaxEvents
    BY <1>2 DEF WG!RecordError
  <2>2. errors' \in Nat /\ errors' <= MaxEvents BY <2>1, WarmTypes DEF WarmInv
  <2> QED BY <2>1, <2>2 DEF WarmInv, WG!LastReportWins
<1>3. CASE WG!Complete
  <2>1. /\ mirror' = WG!apply_diff(mirror, WG!diff_graphs(warm, acc, errors))
        /\ warm' = acc /\ acc' = {} /\ errors' = 0 /\ recorded' = <<>> /\ evals' = evals + 1 /\ evals < MaxEvals
    BY <1>3 DEF WG!Complete
  <2>2. mirror' \subseteq WG!Derivations /\ OnePerPath(mirror') /\ WG!Builds(mirror') = WG!Builds(warm')
    BY <2>1, DiffApplied DEF WarmInv
  <2>3. WG!LastReportWins' BY <2>1 DEF WG!LastReportWins
  <2> QED BY <2>1, <2>2, <2>3, WarmTypes DEF WarmInv, OnePerPath
<1>4. CASE UNCHANGED WG!vars
  BY <1>4 DEF WG!vars, WarmInv, WG!LastReportWins
<1> QED BY <1>1, <1>2, <1>3, <1>4 DEF WG!Next

(* Under, by its names. *)
LEMMA PrefixStarts ==
  ASSUME NEW S, NEW q \in Seq(S), NEW T, NEW r \in Seq(T)
  PROVE WG!Under(r, q) <=> WG!attr_path_starts_with(r, q)
<1>1. CASE Len(q) <= Len(r)
  <2>1. SubSeq(q, 1, Len(q)) = [i \in 1..Len(q) |-> q[i]] BY <1>1
  <2>2. SubSeq(r, 1, Len(q)) = [i \in 1..Len(q) |-> r[i]] BY <1>1
  <2> QED BY <1>1, <2>1, <2>2 DEF WG!Under, WG!attr_path_starts_with
<1>2. CASE ~(Len(q) <= Len(r)) BY <1>2 DEF WG!Under, WG!attr_path_starts_with
<1> QED BY <1>1, <1>2

(* Cardinality means the same in WarmGraph. *)
LEMMA WarmCardinality ==
  ASSUME NEW S
  PROVE (WG!IsFiniteSet(S) <=> IsFiniteSet(S)) /\ WG!Cardinality(S) = Cardinality(S)
<1>1. WG!IsFiniteSet(S) <=> IsFiniteSet(S) BY Zenon DEF WG!IsFiniteSet, IsFiniteSet
<1>2. WG!Cardinality(S) = Cardinality(S) BY Zenon DEF WG!Cardinality, Cardinality
<1> QED BY <1>1, <1>2

(* A split prefix is a sequence. *)
LEMMA SplitPrefix ==
  ASSUME NEW p \in AttrPrefixes
  PROVE \E S : WG!split_attr_prefix(p) \in Seq(S)
<1> DEFINE names == {i \in 1..Len(p) : ~WG!is_empty(p[i])}
           name(k) == p[CHOOSE i \in names : WG!Cardinality({j \in names : j <= i}) = k]
           n == WG!Cardinality(names)
<1>1. n \in Nat
  <2>1. Len(p) \in Nat BY WarmTypes
  <2>2. names \in SUBSET (1..Len(p)) /\ IsFiniteSet(1..Len(p))
    <3>1. IsFiniteSet(1..Len(p)) BY ONLY <2>1, FS_Interval
    <3> QED BY <3>1
  <2>3. IsFiniteSet(names) BY <2>2, FS_Subset
  <2> QED BY <2>3, FS_CardinalityType, WarmCardinality
<1>2. WG!split_attr_prefix(p) = [k \in 1..n |-> name(k)] BY Zenon DEF WG!split_attr_prefix
<1> HIDE DEF names, name, n
<1>3. [k \in 1..n |-> name(k)] \in Seq({name(k) : k \in 1..n}) BY <1>1
<1> QED BY <1>2, <1>3

(* A prefix without empty names is split into itself. *)
LEMMA PrefixTaken ==
  ASSUME NEW p \in AttrPrefixes, \A i \in 1..Len(p) : ~WG!is_empty(p[i])
  PROVE WG!split_attr_prefix(p) = p
<1> DEFINE names == {i \in 1..Len(p) : ~WG!is_empty(p[i])}
           nth(k) == CHOOSE i \in names : WG!Cardinality({j \in names : j <= i}) = k
<1>1. p \in Seq(STRING) /\ Len(p) \in Nat
  <2>1. p \in Seq(STRING) BY WarmTypes, Zenon
  <2>2. Len(p) \in Nat BY ONLY <2>1
  <2> QED BY <2>1, <2>2
<1>n. IsFiniteSet(1..Len(p)) /\ \A i \in Nat : Cardinality(1..i) = i
  <2>1. ASSUME NEW i \in Nat PROVE IsFiniteSet(1..i) /\ Cardinality(1..i) = i
    <3>1. i \in Int /\ 1 \in Int BY <2>1
    <3>2. IsFiniteSet(1..i) /\ Cardinality(1..i) = IF 1 > i THEN 0 ELSE i - 1 + 1 BY ONLY FS_Interval, <3>1
    <3>3. (IF 1 > i THEN 0 ELSE i - 1 + 1) = i BY ONLY <2>1
    <3> QED BY <3>2, <3>3
  <2> QED BY <1>1, <2>1
<1>2. names = 1..Len(p) OBVIOUS
<1>3. WG!Cardinality(names) = Len(p)
  BY <1>1, <1>2, <1>n, WarmCardinality
<1>4. ASSUME NEW k \in 1..Len(p) PROVE nth(k) = k
  <2>1. ASSUME NEW i \in names PROVE WG!Cardinality({j \in names : j <= i}) = i
    <3>1. i \in 1..Len(p) BY <1>2, <2>1
    <3>2. i \in Nat /\ {j \in 1..Len(p) : j <= i} = 1..i
      <4>1. Len(p) \in Nat BY <1>1
      <4> QED BY ONLY <4>1, <3>1
    <3> QED BY <1>2, <1>n, <3>2, WarmCardinality
  <2>2. k \in names BY <1>2
  <2> QED BY <2>1, <2>2
<1>5. WG!split_attr_prefix(p) = [k \in 1..WG!Cardinality(names) |-> p[nth(k)]] BY Zenon DEF WG!split_attr_prefix
<1> HIDE DEF names, nth
<1>6. WG!split_attr_prefix(p) = [k \in 1..Len(p) |-> p[k]] BY <1>3, <1>4, <1>5
<1>7. p = [k \in 1..Len(p) |-> p[k]] BY ONLY <1>1
<1> QED BY <1>6, <1>7

(* The filter of a command line selects what it names. *)
LEMMA QuerySelects ==
  ASSUME WarmInv, NEW systems \in SUBSET Systems, NEW prefixes \in SUBSET AttrPrefixes, IsFiniteSet(prefixes)
  PROVE WG!query(WG!cli_filter(systems, prefixes)) =
            {d \in warm : /\ systems = {} \/ d.system \in systems
                          /\ prefixes = {} \/ \E p \in prefixes :
                                               WG!Under(d.attr_path, WG!split_attr_prefix(p))}
<1> DEFINE f == WG!cli_filter(systems, prefixes)
<1>0. Cardinality(prefixes) \in Nat /\ (Cardinality(prefixes) = 0 <=> prefixes = {})
  BY FS_CardinalityType, FS_EmptySet
<1> DEFINE split == {WG!split_attr_prefix(p) : p \in prefixes}
<1>1. /\ f.systems = (IF systems = {} THEN {} ELSE {systems})
      /\ f.attr_prefix = (IF Cardinality(prefixes) = 1 THEN {split} ELSE {})
      /\ f.attr_prefixes = (IF Cardinality(prefixes) > 1 THEN {split} ELSE {})
      /\ f.attrs = {} /\ f.names = {} /\ f.drv_paths = {} /\ f.include_patterns = {} /\ f.exclude_patterns = {}
  <2> DEFINE s == IF systems = {} THEN {} ELSE {systems}
             o == IF WG!Cardinality(prefixes) = 1 THEN {split} ELSE {}
             m == IF WG!Cardinality(prefixes) > 1 THEN {split} ELSE {}
             none == [systems |-> {}, attr_prefix |-> {}, attr_prefixes |-> {}, attrs |-> {}, names |-> {},
                      drv_paths |-> {}, include_patterns |-> {}, exclude_patterns |-> {}]
  <2>1. f = [none EXCEPT !.systems = s, !.attr_prefix = o, !.attr_prefixes = m]
    BY Zenon DEF WG!cli_filter, WG!AnyValue, WG!NoFilter
  <2> HIDE DEF f, s, o, m
  <2>2. f.systems = s /\ f.attr_prefix = o /\ f.attr_prefixes = m
        /\ f.attrs = {} /\ f.names = {} /\ f.drv_paths = {} /\ f.include_patterns = {} /\ f.exclude_patterns = {}
    BY <2>1
  <2>3. WG!Cardinality(prefixes) = Cardinality(prefixes) BY WarmCardinality
  <2> QED BY <2>2, <2>3, Zenon DEF s, o, m
<1> HIDE DEF f, split
<1>2. ASSUME NEW d \in warm
      PROVE WG!matches_filter(d, f) <=>
              /\ systems = {} \/ d.system \in systems
              /\ prefixes = {} \/ \E q \in split : WG!attr_path_starts_with(d.attr_path, q)
  <2>1. WG!matches_filter(d, f) <=>
          /\ \A alternatives \in f.systems : \E s \in alternatives : s = d.system
          /\ \A alternatives \in f.attr_prefix : \E q \in alternatives : WG!attr_path_starts_with(d.attr_path, q)
          /\ \A alternatives \in f.attr_prefixes : \E q \in alternatives : WG!attr_path_starts_with(d.attr_path, q)
    BY <1>1, Zenon DEF WG!matches_filter, WG!Allows
  <2>2. (\A alternatives \in f.systems : \E s \in alternatives : s = d.system) <=> (systems = {} \/ d.system \in systems)
    BY <1>1
  <2>3. CASE prefixes = {}
    <3>1. f.attr_prefix = {} /\ f.attr_prefixes = {} BY <2>3, <1>0, <1>1
    <3> QED BY <2>1, <2>2, <2>3, <3>1, Zenon
  <2>4. CASE prefixes # {}
    <3>1. \/ f.attr_prefix = {split} /\ f.attr_prefixes = {}
          \/ f.attr_prefix = {} /\ f.attr_prefixes = {split}
      BY <2>4, <1>0, <1>1
    <3> QED BY <2>1, <2>2, <2>4, <3>1
  <2> QED BY <2>3, <2>4
<1>3. ASSUME NEW d \in warm, NEW p \in prefixes
      PROVE WG!attr_path_starts_with(d.attr_path, WG!split_attr_prefix(p))
              <=> WG!Under(d.attr_path, WG!split_attr_prefix(p))
  <2>1. d.attr_path \in Paths BY DEF WarmInv, WG!Derivations
  <2>2. d.attr_path \in Seq(STRING) BY <2>1, WarmTypes
  <2>3. PICK S : WG!split_attr_prefix(p) \in Seq(S) BY SplitPrefix
  <2> QED BY <2>2, <2>3, PrefixStarts
<1>p. ASSUME NEW d \in warm
      PROVE (\E q \in split : WG!attr_path_starts_with(d.attr_path, q))
              <=> \E p \in prefixes : WG!attr_path_starts_with(d.attr_path, WG!split_attr_prefix(p))
  BY DEF split
<1>4. WG!query(f) = {d \in warm : WG!matches_filter(d, f)} BY Zenon DEF WG!query
<1>5. ASSUME NEW d \in warm
      PROVE WG!matches_filter(d, f) <=>
              /\ systems = {} \/ d.system \in systems
              /\ prefixes = {} \/ \E p \in prefixes : WG!Under(d.attr_path, WG!split_attr_prefix(p))
  BY <1>2, <1>3, <1>p, Zenon
<1>6. WG!query(f) = {d \in warm : /\ systems = {} \/ d.system \in systems
                                  /\ prefixes = {} \/ \E p \in prefixes :
                                                       WG!Under(d.attr_path, WG!split_attr_prefix(p))}
  BY <1>4, <1>5, Zenon
<1> QED BY <1>6, Zenon DEF f

Fields == {"systems", "attr_prefix", "attr_prefixes", "attrs", "names", "drv_paths",
           "include_patterns", "exclude_patterns"}

(* What one field of a filter asks of a derivation. *)
Passes(d, field, v) ==
    CASE field = "systems" -> \A a \in v : \E x \in a : x = d.system
      [] field \in {"attr_prefix", "attr_prefixes"} ->
           \A a \in v : \E x \in a : WG!attr_path_starts_with(d.attr_path, x)
      [] field = "attrs" -> \A a \in v : \E x \in a : x = d.attr_path
      [] field = "names" -> \A a \in v : \E x \in a : x = d.name
      [] field = "drv_paths" -> \A a \in v : \E x \in a : x = d.drv_path
      [] field = "include_patterns" ->
           \A a \in v : \E x \in a : WG!wildcard_matches(x, WG!Attr(d.attr_path))
      [] field = "exclude_patterns" ->
           \A a \in v : ~\E x \in a : WG!wildcard_matches(x, WG!Attr(d.attr_path))

(* A filter selects what passes all its fields. *)
LEMMA MatchesFields ==
  ASSUME NEW d, NEW f
  PROVE WG!matches_filter(d, f) <=> \A field \in Fields : Passes(d, field, f[field])
<1>1. WG!matches_filter(d, f) <=>
        /\ Passes(d, "systems", f.systems) /\ Passes(d, "attr_prefix", f.attr_prefix)
        /\ Passes(d, "attr_prefixes", f.attr_prefixes) /\ Passes(d, "attrs", f.attrs)
        /\ Passes(d, "names", f.names) /\ Passes(d, "drv_paths", f.drv_paths)
        /\ Passes(d, "include_patterns", f.include_patterns)
        /\ Passes(d, "exclude_patterns", f.exclude_patterns)
  BY DEF WG!matches_filter, WG!Allows, Passes
<1> QED BY <1>1 DEF Fields

(* The fields of a filter are combined as intersections. *)
LEMMA FieldsMeet ==
  ASSUME NEW q \in Queries
  PROVE WG!query(q) = {d \in warm : \A field \in DOMAIN q : d \in WG!query(WG!Only(q, field))}
<1>1. DOMAIN q = Fields
  <2>1. q = [systems |-> q.systems, attr_prefix |-> q.attr_prefix, attr_prefixes |-> q.attr_prefixes,
             attrs |-> q.attrs, names |-> q.names, drv_paths |-> q.drv_paths,
             include_patterns |-> q.include_patterns, exclude_patterns |-> q.exclude_patterns]
    BY DataPathAssumption, Zenon DEF WG!WarmGraphAssumption
  <2> QED BY ONLY <2>1 DEF Fields
<1>2. ASSUME NEW h \in Fields, NEW g \in Fields
      PROVE WG!Only(q, h)[g] = IF g = h THEN q[g] ELSE {}
  <2>1. DOMAIN WG!NoFilter = Fields /\ \A k \in Fields : WG!NoFilter[k] = {}
    BY DEF WG!NoFilter, WG!AnyValue, Fields
  <2>2. WG!Only(q, h) = [WG!NoFilter EXCEPT ![h] = q[h]] BY Zenon DEF WG!Only
  <2> QED BY <2>1, <2>2
<1>3. ASSUME NEW d, NEW g \in Fields PROVE Passes(d, g, {}) BY DEF Passes, Fields
<1>4. ASSUME NEW d, NEW h \in Fields
      PROVE WG!matches_filter(d, WG!Only(q, h)) <=> Passes(d, h, q[h])
  <2>1. \A g \in Fields : Passes(d, g, WG!Only(q, h)[g]) <=> (g = h => Passes(d, g, q[g]))
    <3> SUFFICES ASSUME NEW g \in Fields
                 PROVE Passes(d, g, WG!Only(q, h)[g]) <=> (g = h => Passes(d, g, q[g]))
      OBVIOUS
    <3>1. CASE g = h
      <4>1. WG!Only(q, h)[g] = q[g] BY <1>2, <3>1
      <4> QED BY <3>1, <4>1, Zenon
    <3>2. CASE g # h
      <4>1. WG!Only(q, h)[g] = {} BY <1>2, <3>2
      <4> QED BY <1>3, <3>2, <4>1, Zenon
    <3> QED BY <3>1, <3>2
  <2> QED BY <2>1, MatchesFields
<1>5. ASSUME NEW d \in warm
      PROVE WG!matches_filter(d, q) <=> \A h \in Fields : WG!matches_filter(d, WG!Only(q, h))
  BY <1>4, MatchesFields
<1>6. ASSUME NEW f PROVE WG!query(f) = {d \in warm : WG!matches_filter(d, f)} BY Zenon DEF WG!query
<1>7. ASSUME NEW d \in warm, NEW f PROVE d \in WG!query(f) <=> WG!matches_filter(d, f) BY <1>6, Zenon
<1>8. ASSUME NEW d
      PROVE d \in WG!query(q) <=> d \in {e \in warm : \A field \in Fields : e \in WG!query(WG!Only(q, field))}
  <2>1. d \in {e \in warm : \A field \in Fields : e \in WG!query(WG!Only(q, field))}
          <=> d \in warm /\ \A field \in Fields : d \in WG!query(WG!Only(q, field))
    BY Zenon
  <2>2. d \in WG!query(q) <=> d \in warm /\ WG!matches_filter(d, q) BY <1>6
  <2> QED BY <1>5, <1>7, <2>1, <2>2
<1> QED BY <1>1, <1>8

------------------------------------------------------------------------------
(* The input and its locked graph. *)

(* The kinds of inputs and overrides. *)
LEMMA FlakeTypes ==
    /\ Inputs \subseteq FI!References \union FI!FileInputs \union FI!ExprInputs
    /\ Overrides \subseteq FI!References \union {None}
    /\ Revisions \in Nat
    /\ None \notin FI!Places /\ \A a, b, c \in FI!Places : None # {a, b, c}
  BY DataPathAssumption, Zenon DEF FI!FlakeInputsAssumption

(* What a reference, a file or an expression becomes on its way. *)
ReadAs(i, s, base) ==
    /\ s.kind = i.kind
    /\ i.kind = "file" => FI!Resolve(s, base) = FI!Resolve(i, "cwd") /\ FI!Resolve(s, base) \in FI!Places
                          /\ s = [kind |-> "file", form |-> s.form, place |-> s.place]
    /\ i.kind = "flake" => FI!IsPath(s) = FI!IsPath(i) /\ s.fragment = i.fragment
    /\ i.kind = "flake" /\ FI!IsPath(i) =>
         /\ FI!Resolve(s, base) = FI!Resolve(i, "cwd") /\ FI!Resolve(s, base) \in FI!Places
         /\ FI!is_local_flake_reference(s)
         /\ s.form \in {"empty", "dot", "dotdot", "absolute", "dotslash"}
    /\ i.kind = "flake" /\ ~FI!IsPath(i) => s.form \in {"bare", "url"} /\ ~s.prefix /\ s.form = i.form

(* A place has a path. *)
LEMMA PlaceIsPlace ==
  ASSUME NEW b \in {"cwd", "root directory"}
  PROVE /\ <<b, "">> \in FI!Places /\ <<b, "x">> \in FI!Places /\ <<"/", "x">> \in FI!Places
        /\ <<b, "">> # None /\ <<b, "x">> # None /\ <<"/", "x">> # None
<1>1. <<b, "">> \in FI!Places /\ <<b, "x">> \in FI!Places /\ <<"/", "x">> \in FI!Places BY DEF FI!Places
<1> QED BY <1>1, FlakeTypes

(* What the client asks for is what the user means. *)
LEMMA AskedIsRead ==
  ASSUME NEW i \in FI!UsualInputs
  PROVE ReadAs(i, i, "cwd")
<1> USE PlaceIsPlace
<1>1. CASE i \in FI!UsualPaths
  <2>1. i.kind = "flake" /\ i.form \in {"empty", "dot", "dotslash", "absolute"} /\ i.place = None /\ i.fragment
    BY <1>1 DEF FI!UsualPaths
  <2>2. FI!Resolve(i, "cwd") \in FI!Places BY <2>1 DEF FI!Resolve
  <2> QED BY <2>1, <2>2 DEF ReadAs, FI!is_local_flake_reference, FI!IsPath
<1>2. CASE i \in FI!UsualNames
  BY <1>2 DEF FI!UsualNames, ReadAs, FI!IsPath
<1>3. CASE i \in FI!FileInputs
  <2>1. i.kind = "file" /\ i.form \in {"bare", "absolute"} /\ i.place = None
        /\ i = [kind |-> "file", form |-> i.form, place |-> i.place]
    BY <1>3 DEF FI!FileInputs
  <2>2. FI!Resolve(i, "cwd") \in FI!Places BY <2>1 DEF FI!Resolve
  <2> QED BY <2>1, <2>2 DEF ReadAs
<1>4. CASE i \in FI!ExprInputs BY <1>4 DEF FI!ExprInputs, ReadAs
<1> QED BY <1>1, <1>2, <1>3, <1>4 DEF FI!UsualInputs

(* The daemon reads what the client reads. *)
LEMMA SentIsRead ==
  ASSUME NEW i \in FI!UsualInputs
  PROVE ReadAs(i, FI!daemon_config(i), "root directory")
<1>0. ReadAs(i, i, "cwd") BY AskedIsRead
<1>1. CASE i \in FI!UsualPaths
  <2>1. i.kind = "flake" /\ i.form \in {"empty", "dot", "dotslash", "absolute"} /\ i.place = None /\ i.fragment
        /\ i \in [kind : {"flake"}, prefix : BOOLEAN, form : {"empty", "dot", "dotslash", "absolute"}, place : {None}, fragment : {TRUE}]
    BY <1>1 DEF FI!UsualPaths
  <2>2. PICK p \in FI!Places : p = FI!Resolve(i, "cwd") BY <1>0, <2>1 DEF ReadAs, FI!IsPath
  <2>3. p # None BY <2>2, FlakeTypes
  <2>4. FI!daemon_config(i) = [i EXCEPT !.form = "absolute", !.place = p, !.prefix = TRUE]
    BY <2>1, <2>2 DEF FI!daemon_config, FI!daemon_flake_ref, FI!Absolute, FI!is_relative_flake_path
  <2>5. PICK s : s = [i EXCEPT !.form = "absolute", !.place = p, !.prefix = TRUE] OBVIOUS
  <2>6. s.kind = "flake" /\ s.form = "absolute" /\ s.place = p /\ s.prefix = TRUE /\ s.fragment = TRUE
    BY <2>1, <2>5
  <2>7. ReadAs(i, s, "root directory")
    BY <2>1, <2>2, <2>3, <2>6 DEF ReadAs, FI!IsPath, FI!is_local_flake_reference, FI!Resolve
  <2> QED BY <2>4, <2>5, <2>7, Zenon
<1>2. CASE i \in FI!UsualNames
  <2>1. i.kind = "flake" /\ i.form \in {"bare", "url"} /\ i.prefix = FALSE BY <1>2 DEF FI!UsualNames
  <2>2. FI!daemon_config(i) = i BY <2>1 DEF FI!daemon_config, FI!daemon_flake_ref, FI!is_relative_flake_path
  <2>3. ReadAs(i, i, "root directory") BY <2>1 DEF ReadAs, FI!IsPath
  <2> QED BY <2>2, <2>3
<1>3. CASE i \in FI!FileInputs
  <2>1. i.kind = "file" /\ i \in [kind : {"file"}, form : {"bare", "absolute"}, place : {None}] BY <1>3 DEF FI!FileInputs
  <2>2. PICK p \in FI!Places : p = FI!Resolve(i, "cwd") BY <1>0, <2>1 DEF ReadAs
  <2>3. p # None BY <2>2, FlakeTypes
  <2>4. FI!daemon_config(i) = [i EXCEPT !.form = "absolute", !.place = p]
    BY <2>1, <2>2 DEF FI!daemon_config, FI!Absolute
  <2>5. PICK s : s = [i EXCEPT !.form = "absolute", !.place = p] OBVIOUS
  <2>6. s.kind = "file" /\ s.place = p /\ s = [kind |-> "file", form |-> s.form, place |-> s.place] BY <2>1, <2>5
  <2>7. ReadAs(i, s, "root directory") BY <2>1, <2>2, <2>3, <2>6 DEF ReadAs, FI!Resolve
  <2> QED BY <2>4, <2>5, <2>7, Zenon
<1>4. CASE i \in FI!ExprInputs
  <2>1. i.kind = "expr" BY <1>4 DEF FI!ExprInputs
  <2>2. FI!daemon_config(i) = i BY <2>1 DEF FI!daemon_config
  <2> QED BY <2>1, <2>2 DEF ReadAs
<1> QED BY <1>1, <1>2, <1>3, <1>4 DEF FI!UsualInputs

(* A file is found from wherever the worker runs. *)
LEMMA FileIsRead ==
  ASSUME NEW i, NEW s, NEW base, ReadAs(i, s, base), i.kind = "file"
  PROVE ReadAs(i, FI!Absolute(s, base), base)
<1>1. PICK p \in FI!Places : p = FI!Resolve(s, base) /\ p = FI!Resolve(i, "cwd") BY DEF ReadAs
<1>2. p # None BY FlakeTypes
<1>3. s = [kind |-> "file", form |-> s.form, place |-> s.place] BY DEF ReadAs
<1>4. PICK t : t = [s EXCEPT !.form = "absolute", !.place = p] OBVIOUS
<1>5. t = FI!Absolute(s, base) BY <1>1, <1>4 DEF FI!Absolute
<1>6. t = [kind |-> "file", form |-> "absolute", place |-> p]
  <2>1. PICK f, q : s = [kind |-> "file", form |-> f, place |-> q] BY <1>3, Zenon
  <2> QED BY <2>1, <1>4
<1>7. ReadAs(i, t, base) BY <1>1, <1>2, <1>6 DEF ReadAs, FI!Resolve
<1> QED BY <1>5, <1>7

(* What every worker of a run evaluates. *)
Import == IF sent.kind = "flake" THEN FI!Outputs(graph, sent.fragment)
          ELSE [of |-> IF sent.kind = "file" THEN FI!Resolve(sent, FI!Base) ELSE <<"expression">>]

Readable == {p[1] : p \in FI!nodePaths}

(* What holds for every input. *)
RunInv ==
    /\ asked \in Inputs /\ override \in Overrides /\ via \in {"local", "daemon"}
    /\ stale \in BOOLEAN /\ exists \in BOOLEAN /\ upstream \in Nat
    /\ phase \in {"asked", "prepare", "run", "error", "not watchable"}
    /\ used = [w \in Workers |-> used[w]] /\ allowed = [w \in Workers |-> allowed[w]]
    /\ phase = "prepare" => sent.kind \in {"file", "expr", "flake"}
    /\ phase \in {"asked", "prepare"} => \A w \in Workers : used[w] = None
    /\ \A w \in Workers : used[w] \in {None, Import}
    /\ \A w \in Workers : used[w] # None /\ sent.kind = "flake" => allowed[w] = Readable

(* No run has started. *)
LEMMA RunStart == ASSUME FI!Init PROVE RunInv
  BY DEF FI!Init, RunInv

(* Within a run the kind of the input does not change. *)
LEMMA KindStays ==
  ASSUME NEW i \in Inputs
  PROVE i.kind \in {"file", "expr", "flake"} /\ FI!daemon_config(i).kind \in {"file", "expr", "flake"}
<1>1. CASE i \in FI!References
  <2>1. i.kind = "flake" /\ i \in [kind : {"flake"}, prefix : BOOLEAN, form : FI!Forms, place : {None}, fragment : BOOLEAN]
    BY <1>1 DEF FI!References
  <2>2. FI!daemon_config(i) = FI!daemon_flake_ref(i) BY <2>1 DEF FI!daemon_config
  <2>3. PICK p : p = FI!Resolve(i, "cwd") OBVIOUS
  <2>4. [i EXCEPT !.form = "absolute", !.place = p, !.prefix = TRUE].kind = "flake" BY <2>1
  <2>5. FI!daemon_flake_ref(i).kind = "flake" BY <2>1, <2>3, <2>4 DEF FI!daemon_flake_ref, FI!Absolute
  <2> QED BY <2>1, <2>2, <2>5
<1>2. CASE i \in FI!FileInputs
  <2>1. i.kind = "file" /\ i \in [kind : {"file"}, form : {"bare", "absolute"}, place : {None}]
    BY <1>2 DEF FI!FileInputs
  <2>2. FI!daemon_config(i) = FI!Absolute(i, "cwd") BY <2>1 DEF FI!daemon_config
  <2>3. PICK p : p = FI!Resolve(i, "cwd") OBVIOUS
  <2>4. [i EXCEPT !.form = "absolute", !.place = p].kind = "file" BY <2>1
  <2> QED BY <2>1, <2>2, <2>3, <2>4 DEF FI!Absolute
<1>3. CASE i \in FI!ExprInputs BY <1>3 DEF FI!ExprInputs, FI!daemon_config
<1> QED BY <1>1, <1>2, <1>3, FlakeTypes

(* No step gives a worker another graph. *)
LEMMA RunKeeps ==
  ASSUME RunInv, [FI!Next]_(FI!vars)
  PROVE RunInv'
<1> USE DEF FI!given
<1>1. CASE FI!Submit
  <2>1. phase = "asked" /\ phase' \in {"prepare", "error"} /\ UNCHANGED <<asked, override, via, stale, exists, upstream, used, allowed>>
    BY <1>1 DEF FI!Submit
  <2>2. phase' = "prepare" => sent' \in {asked, FI!daemon_config(asked)} BY <1>1 DEF FI!Submit
  <2>3. asked.kind \in {"file", "expr", "flake"} /\ FI!daemon_config(asked).kind \in {"file", "expr", "flake"}
    BY KindStays DEF RunInv
  <2> QED BY <2>1, <2>2, <2>3 DEF RunInv
<1>2. CASE FI!Prepare
  <2>1. phase = "prepare" /\ UNCHANGED <<asked, override, via, stale, exists, upstream, used, allowed>>
    BY <1>2 DEF FI!Prepare
  <2>2. phase' \in {"run", "error"}
    <3>1. sent.kind \in {"file", "expr", "flake"} BY <2>1 DEF RunInv
    <3>2. PICK l : l = FI!lock_flake(sent) OBVIOUS
    <3> QED BY <1>2, <3>1, <3>2 DEF FI!Prepare
  <2> QED BY <2>1, <2>2 DEF RunInv
<1>3. CASE FI!Watch
  <2>1. phase = "run" /\ phase' \in {"run", "not watchable"} /\ UNCHANGED <<asked, override, via, stale, exists, upstream, used, allowed, sent, graph>>
    BY <1>3 DEF FI!Watch
  <2>2. Import' = Import BY <2>1 DEF Import, FI!Base
  <2> QED BY <2>1, <2>2 DEF RunInv
<1>4. CASE FI!Upstream
  <2>1. UNCHANGED <<asked, override, via, stale, exists, phase, used, allowed, sent, graph>>
    BY <1>4 DEF FI!Upstream
  <2>2. Import' = Import BY <2>1 DEF Import, FI!Base
  <2>3. upstream' \in Nat
    <3>1. upstream \in Nat BY DEF RunInv
    <3>2. upstream' = upstream + 1 BY <1>4, Zenon DEF FI!Upstream
    <3> QED BY <3>1, <3>2
  <2> QED BY <2>1, <2>2, <2>3 DEF RunInv
<1>5. CASE FI!ArgumentFails
  <2>1. phase = "run" /\ phase' = "error" /\ UNCHANGED <<asked, override, via, stale, exists, upstream, used, allowed, sent, graph>>
    BY <1>5 DEF FI!ArgumentFails
  <2>2. Import' = Import BY <2>1 DEF Import, FI!Base
  <2> QED BY <2>1, <2>2 DEF RunInv
<1>9. CASE FI!StartFails
  <2>1. phase = "run" /\ phase' = "error" /\ UNCHANGED <<asked, override, via, stale, exists, upstream, used, allowed, sent, graph>>
    BY <1>9 DEF FI!StartFails
  <2>2. Import' = Import BY <2>1 DEF Import, FI!Base
  <2> QED BY <2>1, <2>2 DEF RunInv
<1>6. ASSUME NEW w \in Workers, FI!StartWorker(w) PROVE RunInv'
  <2>1. phase = "run" /\ sent.kind = "flake" /\ UNCHANGED <<asked, override, via, stale, exists, upstream, sent, graph>>
        /\ allowed' = [allowed EXCEPT ![w] = Readable]
        /\ \/ phase' = "error" /\ used' = used
           \/ used' = [used EXCEPT ![w] = FI!Outputs(graph, sent.fragment)] /\ phase' = phase
    BY <1>6 DEF FI!StartWorker, FI!allow_imported_flake_paths, Readable
  <2>2. Import' = Import /\ Import = FI!Outputs(graph, sent.fragment) BY <2>1, Zenon DEF Import, FI!Base
  <2>3. PICK o : o = FI!Outputs(graph, sent.fragment) OBVIOUS
  <2> QED BY <2>1, <2>2, <2>3 DEF RunInv
<1>7. ASSUME NEW w \in Workers, FI!EvalRoot(w) PROVE RunInv'
  <2>1. phase = "run" /\ sent.kind # "flake" /\ UNCHANGED <<asked, override, via, stale, exists, upstream, sent, graph, allowed>>
        /\ \/ phase' = "error" /\ used' = used
           \/ used' = [used EXCEPT ![w] = Import] /\ phase' = phase
    BY <1>7 DEF FI!EvalRoot, Import
  <2>2. Import' = Import BY <2>1 DEF Import, FI!Base
  <2> QED BY <2>1, <2>2 DEF RunInv
<1>8. CASE UNCHANGED FI!vars
  <2>1. Import' = Import BY <1>8 DEF Import, FI!Base, FI!vars
  <2> QED BY <1>8, <2>1 DEF RunInv, FI!vars
<1> QED BY <1>1, <1>2, <1>3, <1>4, <1>5, <1>6, <1>7, <1>8, <1>9 DEF FI!Next

(* All workers have the graph of the run. *)
LEMMA RunAgrees == ASSUME RunInv PROVE FI!WorkersAgree /\ FI!NodesReadable
<1>1. FI!WorkersAgree BY DEF RunInv, FI!WorkersAgree
<1>2. FI!NodesReadable BY DEF RunInv, FI!NodesReadable, Readable
<1> QED BY <1>1, <1>2

(* What holds for the references that are read alike. *)
MeantInv ==
    /\ asked \in FI!UsualInputs
    /\ phase = "asked" => watched = None
    /\ phase \in {"prepare", "run", "not watchable"} => ReadAs(asked, sent, FI!Base)
    /\ phase = "prepare" => watched = None
    /\ FI!Started /\ sent.kind = "flake" =>
         /\ graph.of = FI!Meant
         /\ override # None /\ (via = "local" \/ FI!Portable(override)) => graph.override = FI!Place(override, "cwd")
         /\ FI!IsPath(asked) => graph.mode = "Check" /\ ~stale
    /\ FI!WatchesInput /\ FI!LocalIsWatchable

(* Nothing is asked for at first. *)
LEMMA MeantStart ==
  ASSUME FI!Init, Inputs \subseteq FI!UsualInputs
  PROVE MeantInv
  BY DEF FI!Init, MeantInv, FI!Started, FI!WatchesInput, FI!LocalIsWatchable

(* The request keeps the meaning. *)
LEMMA MeantSubmit ==
  ASSUME MeantInv, RunInv, FI!Submit
  PROVE MeantInv'
<1>1. phase = "asked" /\ UNCHANGED <<asked, override, via, stale, exists, upstream, graph, watched>>
  BY DEF FI!Submit, FI!given
<1>2. \/ via = "local" /\ sent' = asked /\ phase' = "prepare"
      \/ via # "local" /\ sent' = FI!daemon_config(asked) /\ phase' = "prepare"
      \/ phase' = "error"
  BY DEF FI!Submit
<1>3. FI!Base' = FI!Base /\ FI!Base = IF via = "local" THEN "cwd" ELSE "root directory"
  BY <1>1 DEF FI!Base, RunInv
<1>4. phase' = "prepare" => ReadAs(asked, sent', FI!Base)
  BY <1>1, <1>2, <1>3, AskedIsRead, SentIsRead DEF MeantInv
<1> QED BY <1>1, <1>2, <1>3, <1>4 DEF MeantInv, FI!Started, FI!WatchesInput, FI!LocalIsWatchable, FI!Meant

(* A portable override is read alike by client and daemon, and any by the client. *)
LEMMA OverrideMeant ==
  ASSUME NEW r \in FI!References, via = "local" \/ FI!Portable(r)
  PROVE FI!Place(r, FI!Base) = FI!Place(r, "cwd")
<1>1. CASE via = "local" BY <1>1 DEF FI!Base
<1>2. CASE ~FI!IsPath(r) BY <1>2 DEF FI!Place
<1>3. CASE r.form = "absolute" BY <1>3 DEF FI!Place, FI!Resolve
<1> QED BY <1>1, <1>2, <1>3 DEF FI!Portable

(* Locking keeps the meaning. *)
LEMMA MeantPrepare ==
  ASSUME MeantInv, RunInv, FI!Prepare
  PROVE MeantInv'
<1>1. phase = "prepare" /\ UNCHANGED <<asked, override, via, stale, exists, upstream, watched>>
  BY DEF FI!Prepare, FI!given
<1>2. FI!Base' = FI!Base /\ FI!Meant' = FI!Meant /\ ReadAs(asked, sent, FI!Base) /\ watched = None
  BY <1>1 DEF FI!Base, FI!Meant, MeantInv
<1>3. sent.kind = asked.kind /\ sent.kind \in {"file", "expr", "flake"}
  BY <1>2 DEF ReadAs, MeantInv, FI!UsualInputs, FI!UsualPaths, FI!UsualNames, FI!FileInputs, FI!ExprInputs
<1>4. CASE sent.kind = "file"
  <2>1. sent' = FI!Absolute(sent, FI!Base) /\ phase' = "run" BY <1>4 DEF FI!Prepare
  <2>2. ReadAs(asked, sent', FI!Base) BY <1>2, <1>3, <1>4, <2>1, FileIsRead
  <2>3. sent'.kind = "file" BY <1>3, <1>4, <2>2 DEF ReadAs
  <2> QED BY <1>1, <1>2, <2>1, <2>2, <2>3 DEF MeantInv, FI!Started, FI!WatchesInput, FI!LocalIsWatchable
<1>5. CASE sent.kind = "expr"
  <2>1. sent' = sent /\ phase' = "run" BY <1>5 DEF FI!Prepare
  <2> QED BY <1>1, <1>2, <1>5, <2>1 DEF MeantInv, FI!Started, FI!WatchesInput, FI!LocalIsWatchable
<1>6. CASE sent.kind = "flake"
  <2>1. sent' = sent /\ graph' = FI!lock_flake(sent)
        /\ phase' = IF FI!lock_flake(sent) = None \/ (FI!IsPath(sent) /\ ~exists) THEN "error" ELSE "run"
    BY <1>6 DEF FI!Prepare
  <2>2. CASE FI!lock_flake(sent) = None BY <1>1, <1>2, <2>1, <2>2 DEF MeantInv, FI!Started, FI!WatchesInput, FI!LocalIsWatchable
  <2>3. CASE FI!lock_flake(sent) # None
    <3>1. ~(FI!flake_lock_mode(sent) = "Check" /\ stale) BY <2>3 DEF FI!lock_flake
    <3>2. FI!lock_flake(sent) = [of |-> FI!Place(sent, FI!Base),
            override |-> IF override = None THEN None ELSE FI!Place(override, FI!Base),
            revision |-> IF stale \/ ~FI!IsPath(sent) THEN upstream ELSE 0,
            mode |-> FI!flake_lock_mode(sent)]
      BY <3>1, Zenon DEF FI!lock_flake
    <3>3. /\ graph'.of = FI!Place(sent, FI!Base)
          /\ graph'.override = IF override = None THEN None ELSE FI!Place(override, FI!Base)
          /\ graph'.mode = FI!flake_lock_mode(sent)
      BY <2>1, <3>2
    <3>4. graph'.of = FI!Meant
      <4>1. FI!Meant = FI!Place(asked, "cwd") BY <1>3, <1>6 DEF FI!Meant
      <4>2. FI!Place(sent, FI!Base) = FI!Place(asked, "cwd") BY <1>2, <1>3, <1>6 DEF ReadAs, FI!Place
      <4> QED BY <3>3, <4>1, <4>2
    <3>5. override # None /\ (via = "local" \/ FI!Portable(override)) => graph'.override = FI!Place(override, "cwd")
      <4>1. override # None => override \in FI!References BY FlakeTypes DEF RunInv
      <4> QED BY <3>3, <4>1, OverrideMeant
    <3>6. FI!IsPath(asked) => graph'.mode = "Check" /\ ~stale
      BY <1>2, <1>3, <1>6, <3>1, <3>3 DEF ReadAs, FI!flake_lock_mode
    <3>7. phase' \in {"run", "error"} BY <2>1
    <3> QED BY <1>1, <1>2, <2>1, <3>4, <3>5, <3>6, <3>7 DEF MeantInv, FI!Started, FI!WatchesInput, FI!LocalIsWatchable
  <2> QED BY <2>2, <2>3
<1> QED BY <1>3, <1>4, <1>5, <1>6

(* The watched directory is the one evaluated. *)
LEMMA MeantWatch ==
  ASSUME MeantInv, RunInv, FI!Watch
  PROVE MeantInv'
<1>1. /\ phase = "run" /\ UNCHANGED <<asked, override, via, stale, exists, upstream, sent, graph>>
      /\ watched' = FI!watched_paths(sent)
      /\ phase' = IF FI!watched_paths(sent) = None THEN "not watchable" ELSE "run"
  BY DEF FI!Watch, FI!given
<1>2. FI!Base' = FI!Base /\ FI!Meant' = FI!Meant /\ ReadAs(asked, sent, FI!Base)
  BY <1>1 DEF FI!Base, FI!Meant, MeantInv
<1>3. sent.kind = asked.kind /\ sent.kind \in {"file", "expr", "flake"}
  BY <1>2 DEF ReadAs, MeantInv, FI!UsualInputs, FI!UsualPaths, FI!UsualNames, FI!FileInputs, FI!ExprInputs
<1>4. /\ watched' # None => FI!Meant \in watched'
      /\ watched' = None => asked.kind = "expr" \/ (asked.kind = "flake" /\ ~FI!IsPath(asked))
  <2>1. CASE sent.kind = "expr"
    <3>1. watched' = None BY <1>1, <2>1 DEF FI!watched_paths
    <3> QED BY <3>1, <2>1, <1>3
  <2>2. CASE sent.kind = "file"
    <3>1. watched' = {FI!Resolve(sent, FI!Base)} BY <1>1, <2>2 DEF FI!watched_paths
    <3>2. FI!Resolve(sent, FI!Base) = FI!Meant /\ FI!Meant \in FI!Places
      BY <1>2, <1>3, <2>2 DEF ReadAs, FI!Meant
    <3>3. watched' = {FI!Meant, FI!Meant, FI!Meant} BY <3>1, <3>2
    <3> QED BY <3>2, <3>3, FlakeTypes
  <2>3. CASE sent.kind = "flake" /\ ~FI!IsPath(asked)
    <3>1. FI!local_flake_root(sent) = None BY <1>2, <1>3, <2>3 DEF ReadAs, FI!local_flake_root
    <3>2. watched' = None BY <1>1, <2>3, <3>1 DEF FI!watched_paths
    <3> QED BY <3>2, <2>3, <1>3
  <2>4. CASE sent.kind = "flake" /\ FI!IsPath(asked)
    <3>1. FI!local_flake_root(sent) = FI!Resolve(sent, FI!Base)
      BY <1>2, <1>3, <2>4 DEF ReadAs, FI!local_flake_root
    <3>2. FI!Resolve(sent, FI!Base) = FI!Meant /\ FI!Meant \in FI!Places
      BY <1>2, <1>3, <2>4 DEF ReadAs, FI!Meant, FI!Place
    <3>3. FI!Meant # None BY <3>2, FlakeTypes
    <3>4. watched' = {FI!Meant, <<"/", "locked input">>, <<FI!Meant[1], "locked input">>}
      BY <1>1, <2>4, <3>1, <3>2, <3>3 DEF FI!watched_paths
    <3>5. <<"/", "locked input">> \in FI!Places /\ <<FI!Meant[1], "locked input">> \in FI!Places
      BY <3>2 DEF FI!Places
    <3> QED BY <3>2, <3>4, <3>5, FlakeTypes
  <2> QED BY <1>3, <2>1, <2>2, <2>3, <2>4
<1> QED BY <1>1, <1>2, <1>4 DEF MeantInv, FI!Started, FI!WatchesInput, FI!LocalIsWatchable

(* Every step keeps the meaning. *)
LEMMA MeantKeeps ==
  ASSUME MeantInv, RunInv, [FI!Next]_(FI!vars)
  PROVE MeantInv'
<1>1. CASE FI!Submit BY <1>1, MeantSubmit
<1>2. CASE FI!Prepare BY <1>2, MeantPrepare
<1>3. CASE FI!Watch BY <1>3, MeantWatch
<1>4. ASSUME UNCHANGED <<asked, override, via, stale, exists, sent, graph, watched>>, phase' = phase \/ phase' = "error"
      PROVE MeantInv'
  <2>1. FI!Base' = FI!Base /\ FI!Meant' = FI!Meant BY <1>4 DEF FI!Base, FI!Meant
  <2> QED BY <1>4, <2>1 DEF MeantInv, FI!Started, FI!WatchesInput, FI!LocalIsWatchable
<1>5. CASE FI!Upstream BY <1>4, <1>5 DEF FI!Upstream, FI!given
<1>6. CASE FI!ArgumentFails BY <1>4, <1>6 DEF FI!ArgumentFails, FI!given
<1>7. CASE FI!StartFails \/ \E w \in Workers : FI!StartWorker(w) \/ FI!EvalRoot(w)
  BY <1>4, <1>7 DEF FI!StartFails, FI!StartWorker, FI!EvalRoot, FI!given
<1>8. CASE UNCHANGED FI!vars BY <1>4, <1>8 DEF FI!vars
<1> QED BY <1>1, <1>2, <1>3, <1>5, <1>6, <1>7, <1>8 DEF FI!Next

(* What InputAgrees says follows. *)
LEMMA MeantAgrees ==
  ASSUME MeantInv, RunInv
  PROVE /\ FI!SameInput /\ FI!WatchesInput /\ FI!LocalIsWatchable
        /\ FI!LocalLockChecked /\ FI!WorkersAgree /\ FI!NodesReadable
<1>1. FI!WorkersAgree /\ FI!NodesReadable BY RunAgrees
<1>2. FI!WatchesInput /\ FI!LocalIsWatchable BY DEF MeantInv
<1>3. FI!LocalLockChecked BY DEF MeantInv, FI!LocalLockChecked
<1>4. ASSUME FI!Started, sent.kind = "file", NEW w \in Workers, used[w] # None
      PROVE used[w].of = FI!Meant
  <2>1. used[w] = [of |-> FI!Resolve(sent, FI!Base)] BY <1>4 DEF RunInv, Import
  <2>2. FI!Resolve(sent, FI!Base) = FI!Meant BY <1>4 DEF MeantInv, ReadAs, FI!Meant, FI!Started
  <2> QED BY <2>1, <2>2
<1>6. ASSUME FI!Started, sent.kind = "flake", NEW w \in Workers, used[w] # None
      PROVE used[w].narrowed = asked.fragment
  <2>1. used[w] = [graph |-> graph, narrowed |-> sent.fragment] BY <1>6 DEF RunInv, Import, FI!Outputs
  <2>2. sent.fragment = asked.fragment BY <1>6 DEF MeantInv, ReadAs, FI!Started
  <2> QED BY <2>1, <2>2
<1>5. FI!SameInput BY <1>4, <1>6 DEF FI!SameInput, MeantInv
<1> QED BY <1>1, <1>2, <1>3, <1>5

------------------------------------------------------------------------------
(* The directory of the GC roots. *)

(* Names are neither dots nor the root. *)
LEMMA DirectoryTypes ==
    /\ GcRootsDir \in Seq(DirectoryNames) /\ MaxLen \in Nat
    /\ "." \notin DirectoryNames /\ ".." \notin DirectoryNames /\ "nowhere" \notin DirectoryNames
<1>1. GcRootsDir \in Seq(DirectoryNames) /\ MaxLen \in Nat /\ {".", "..", "nowhere"} \intersect DirectoryNames = {}
  BY DataPathAssumption, Zenon DEF GC!GcRootsPathAssumption
<1> QED BY <1>1

Components == DirectoryNames \union {".", ".."}

(* Cardinality means the same in GcRootsPath. *)
LEMMA DirectoryCardinality ==
  ASSUME NEW S
  PROVE GC!Cardinality(S) = Cardinality(S)
  BY Zenon DEF GC!Cardinality, Cardinality

Count(T, p, i, j) == Cardinality({k \in i..j : p[k] \in T})

(* Counting one component more. *)
LEMMA CountLonger ==
  ASSUME NEW i \in Nat, NEW j \in Nat, i <= j + 1, NEW p, NEW T
  PROVE /\ Count(T, p, i, j) \in Nat
        /\ Count(T, p, i, j + 1) = Count(T, p, i, j) + (IF p[j + 1] \in T THEN 1 ELSE 0)
<1> DEFINE few == {k \in i..j : p[k] \in T}
           more == {k \in i..(j + 1) : p[k] \in T}
<1>1. IsFiniteSet(few)
  <2>1. IsFiniteSet(i..j) BY FS_Interval
  <2> QED BY <2>1, FS_Subset
<1>2. j + 1 \notin few OBVIOUS
<1>3. Cardinality(few) \in Nat BY <1>1, FS_CardinalityType
<1>4. CASE p[j + 1] \in T
  <2>1. more = few \union {j + 1} BY <1>4
  <2>2. Cardinality(more) = Cardinality(few) + 1 BY <1>1, <1>2, <2>1, FS_AddElement
  <2> QED BY <1>3, <1>4, <2>2 DEF Count
<1>5. CASE p[j + 1] \notin T
  <2>1. more = few BY <1>5
  <2> QED BY <1>3, <1>5, <2>1 DEF Count
<1> QED BY <1>4, <1>5

(* The depth after one component more, ... *)
LEMMA DepthStep ==
  ASSUME NEW i \in Nat, NEW j \in Nat, i <= j + 1, NEW p
  PROVE /\ GC!Depth(p, i, j) \in Int
        /\ GC!Depth(p, i, j + 1) = GC!Depth(p, i, j)
             + (IF p[j + 1] \in DirectoryNames THEN 1 ELSE IF p[j + 1] = ".." THEN -1 ELSE 0)
<1>1. \A m : GC!Depth(p, i, m) = Count(DirectoryNames, p, i, m) - Count({".."}, p, i, m)
  <2> TAKE m
  <2>1. {k \in i..m : p[k] = ".."} = {k \in i..m : p[k] \in {".."}} OBVIOUS
  <2> QED BY <2>1, DirectoryCardinality, Zenon DEF GC!Depth, Count
<1>6. ~(p[j + 1] \in DirectoryNames /\ p[j + 1] = "..") BY DirectoryTypes
<1>2. p[j + 1] = ".." <=> p[j + 1] \in {".."} OBVIOUS
<1> QED BY <1>1, <1>2, <1>6, CountLonger

(* ... a name, ... *)
LEMMA DepthName ==
  ASSUME NEW i \in Nat, NEW j \in Nat, i <= j + 1, NEW p, p[j + 1] \in DirectoryNames
  PROVE GC!Depth(p, i, j + 1) = GC!Depth(p, i, j) + 1
  BY DepthStep

(* ... "..", ... *)
LEMMA DepthUp ==
  ASSUME NEW i \in Nat, NEW j \in Nat, i <= j + 1, NEW p, p[j + 1] = ".."
  PROVE GC!Depth(p, i, j + 1) = GC!Depth(p, i, j) - 1
<1>1. p[j + 1] \notin DirectoryNames BY DirectoryTypes
<1> QED BY <1>1, DepthStep

(* ... and ".". *)
LEMMA DepthDot ==
  ASSUME NEW i \in Nat, NEW j \in Nat, i <= j + 1, NEW p, p[j + 1] = "."
  PROVE GC!Depth(p, i, j + 1) = GC!Depth(p, i, j)
<1>1. p[j + 1] \notin DirectoryNames /\ p[j + 1] # ".." BY DirectoryTypes
<1> QED BY <1>1, DepthStep

(* The depth of nothing. *)
LEMMA DepthEmpty ==
  ASSUME NEW i \in Nat, NEW p
  PROVE GC!Depth(p, i + 1, i) = 0
<1>1. {k \in (i + 1)..i : p[k] \in DirectoryNames} = {} /\ {k \in (i + 1)..i : p[k] = ".."} = {} OBVIOUS
<1>2. Cardinality({}) = 0 BY FS_EmptySet
<1>3. GC!Depth(p, i + 1, i) = Cardinality({}) - Cardinality({}) BY <1>1, DirectoryCardinality, Zenon DEF GC!Depth
<1> QED BY <1>2, <1>3

------------------------------------------------------------------------------
(* The stack that normalize_absolute keeps. *)

IsStack(s, p) ==
    s = [i \in 0..Len(p) |->
           IF i = 0 THEN <<>> ELSE IF s[i - 1] = GC!Nowhere THEN GC!Nowhere ELSE GC!Component(s[i - 1], p[i])]

(* The stack is defined for every path. *)
LEMMA StackExists ==
  ASSUME NEW p, Len(p) \in Nat
  PROVE \E s : IsStack(s, p)
<1> DEFINE Upto(s, m) == s = [i \in 0..m |->
             IF i = 0 THEN <<>> ELSE IF s[i - 1] = GC!Nowhere THEN GC!Nowhere ELSE GC!Component(s[i - 1], p[i])]
           S == {m \in Nat : \E s : Upto(s, m)}
<1>1. 0 \in S
  <2> DEFINE z == [i \in 0..0 |-> <<>>]
  <2>1. Upto(z, 0) OBVIOUS
  <2> QED BY <2>1
<1>2. ASSUME NEW m \in Nat, m \in S PROVE m + 1 \in S
  <2>1. PICK s : Upto(s, m) BY <1>2
  <2>2. PICK last : last = IF s[m] = GC!Nowhere THEN GC!Nowhere ELSE GC!Component(s[m], p[m + 1]) OBVIOUS
  <2> DEFINE t == [i \in 0..(m + 1) |-> IF i = m + 1 THEN last ELSE s[i]]
             Body(f, i) == IF i = 0 THEN <<>> ELSE IF f[i - 1] = GC!Nowhere THEN GC!Nowhere ELSE GC!Component(f[i - 1], p[i])
  <2>3. ASSUME NEW i \in 0..(m + 1) PROVE t[i] = Body(t, i)
    <3>1. CASE i = m + 1
      <4>1. t[m + 1] = last /\ t[m] = s[m] /\ (m + 1) - 1 = m /\ m + 1 # 0 OBVIOUS
      <4> HIDE DEF t
      <4> QED BY <3>1, <4>1, <2>2, Zenon
    <3>2. CASE i # m + 1
      <4>1. i \in 0..m /\ t[i] = s[i] BY <3>2
      <4>2. s[i] = Body(s, i)
        <5>1. [k \in 0..m |-> Body(s, k)][i] = Body(s, i) BY <4>1, Zenon
        <5>2. s = [k \in 0..m |-> Body(s, k)] BY <2>1, Zenon
        <5> HIDE DEF Body
        <5> QED BY <5>1, <5>2, Zenon
      <4>3. CASE i = 0 BY <4>1, <4>2, <4>3, Zenon
      <4>4. CASE i # 0
        <5>1. t[i - 1] = s[i - 1] BY <4>1, <4>4
        <5> HIDE DEF t
        <5> QED BY <4>1, <4>2, <4>4, <5>1, Zenon
      <4> QED BY <4>3, <4>4
    <3> QED BY <3>1, <3>2
  <2>4. t = [i \in 0..(m + 1) |-> t[i]] OBVIOUS
  <2> HIDE DEF t
  <2>5. Upto(t, m + 1)
    <3>1. [i \in 0..(m + 1) |-> t[i]] = [i \in 0..(m + 1) |-> Body(t, i)] BY <2>3, Zenon
    <3> QED BY <2>4, <3>1, Zenon
  <2> QED BY <2>5
<1> HIDE DEF S
<1>3. Nat \subseteq S BY <1>1, <1>2, Induct
<1>4. Len(p) \in S BY <1>3
<1> QED BY <1>4, Zenon DEF S, IsStack

(* normalize_absolute computes it. *)
LEMMA NormalizeStack ==
  ASSUME NEW p, Len(p) \in Nat
  PROVE \E s : /\ IsStack(s, p)
               /\ GC!normalize_absolute(TRUE, p) = s[Len(p)]
<1> DEFINE C == CHOOSE s : IsStack(s, p)
<1>1. IsStack(C, p) BY StackExists, Zenon
<1>2. GC!normalize_absolute(TRUE, p) = C[Len(p)] BY Zenon DEF GC!normalize_absolute, IsStack
<1> QED BY <1>1, <1>2

(* One component more. *)
LEMMA StackStep ==
  ASSUME NEW p, Len(p) \in Nat, NEW s, IsStack(s, p)
  PROVE /\ s[0] = <<>>
        /\ \A i \in 1..Len(p) : s[i] = IF s[i - 1] = GC!Nowhere THEN GC!Nowhere ELSE GC!Component(s[i - 1], p[i])
<1> DEFINE Body(i) == IF i = 0 THEN <<>> ELSE IF s[i - 1] = GC!Nowhere THEN GC!Nowhere ELSE GC!Component(s[i - 1], p[i])
<1>1. \A i \in 0..Len(p) : s[i] = Body(i)
  <2> TAKE i \in 0..Len(p)
  <2>1. s = [k \in 0..Len(p) |-> Body(k)] BY Zenon DEF IsStack
  <2>2. [k \in 0..Len(p) |-> Body(k)][i] = Body(i) BY Zenon
  <2> QED BY <2>1, <2>2, Zenon
<1>2. 0 \in 0..Len(p) /\ \A i \in 1..Len(p) : i \in 0..Len(p) /\ i # 0 OBVIOUS
<1> QED BY <1>1, <1>2, Zenon

------------------------------------------------------------------------------
(* What is on the stack. *)

KeptOf(p, n) ==
    {i \in 1..n : p[i] \in DirectoryNames /\ \A j \in i..n : GC!Depth(p, i, j) >= 1}

Placed(pos, s, p, n) ==
    /\ pos \in [1..Len(s) -> 1..n]
    /\ \A k, l \in 1..Len(s) : k < l => pos[k] < pos[l]
    /\ \A i : i \in KeptOf(p, n) <=> \E k \in 1..Len(s) : pos[k] = i
    /\ \A k \in 1..Len(s) : s[k] = p[pos[k]] /\ GC!Depth(p, pos[k], n) = Len(s) - k + 1

Inside(p, n) == \A j \in 1..n : GC!Depth(p, 1, j) >= 0

StackAt(s, p, n) ==
    \/ /\ Inside(p, n) /\ s \in Seq(DirectoryNames) /\ Len(s) = GC!Depth(p, 1, n)
       /\ \E pos : Placed(pos, s, p, n)
    \/ ~Inside(p, n) /\ s = GC!Nowhere

(* A path is not Nowhere. *)
LEMMA SeqNotNowhere ==
  ASSUME NEW s \in Seq(DirectoryNames)
  PROVE s # GC!Nowhere
<1>1. SUFFICES ASSUME s = <<"nowhere">> PROVE FALSE BY DEF GC!Nowhere
<1>2. Len(s) = 1 /\ s[1] = "nowhere" BY <1>1
<1>3. s[1] \in DirectoryNames BY <1>2
<1> QED BY <1>2, <1>3, DirectoryTypes

(* A component that is dropped later is not kept. *)
LEMMA KeptGrows ==
  ASSUME NEW p, NEW n \in Nat, NEW i \in 1..n
  PROVE i \in KeptOf(p, n + 1) <=> i \in KeptOf(p, n) /\ GC!Depth(p, i, n + 1) >= 1
<1>1. \A j : j \in i..(n + 1) <=> j \in i..n \/ j = n + 1 OBVIOUS
<1>2. i \in 1..(n + 1) OBVIOUS
<1> QED BY <1>1, <1>2, Zenon DEF KeptOf

(* The last component is kept if it is a name. *)
LEMMA KeptNew ==
  ASSUME NEW p, NEW n \in Nat
  PROVE n + 1 \in KeptOf(p, n + 1) <=> p[n + 1] \in DirectoryNames
<1>1. GC!Depth(p, n + 1, n) = 0 BY DepthEmpty
<1>2. p[n + 1] \in DirectoryNames => GC!Depth(p, n + 1, n + 1) = 1
  BY <1>1, DepthStep
<1>3. \A j : j \in (n + 1)..(n + 1) <=> j = n + 1 OBVIOUS
<1>4. ASSUME p[n + 1] \in DirectoryNames PROVE \A j \in (n + 1)..(n + 1) : GC!Depth(p, n + 1, j) >= 1
  BY <1>2, <1>3, <1>4
<1>5. n + 1 \in 1..(n + 1) OBVIOUS
<1> QED BY <1>4, <1>5, Zenon DEF KeptOf

(* Staying inside, for one component more. *)
LEMMA InsideLonger ==
  ASSUME NEW p, NEW n \in Nat
  PROVE Inside(p, n + 1) <=> Inside(p, n) /\ GC!Depth(p, 1, n + 1) >= 0
<1>1. \A j : j \in 1..(n + 1) <=> j \in 1..n \/ j = n + 1 OBVIOUS
<1> QED BY <1>1, Zenon DEF Inside

(* What is kept when nothing is dropped. *)
LEMMA KeptAll ==
  ASSUME NEW p, NEW n \in Nat, NEW i
  PROVE i \in KeptOf(p, n + 1) <=>
          \/ i \in KeptOf(p, n) /\ GC!Depth(p, i, n + 1) >= 1
          \/ i = n + 1 /\ p[n + 1] \in DirectoryNames
<1>1. i \in KeptOf(p, n) => i \in 1..n BY Zenon DEF KeptOf
<1>2. i \in KeptOf(p, n + 1) => i \in 1..(n + 1) BY Zenon DEF KeptOf
<1>3. CASE i \in 1..n
  <2>1. i # n + 1 BY <1>3
  <2> QED BY <1>3, <2>1, KeptGrows, Zenon
<1>4. CASE i = n + 1
  <2>1. i \notin 1..n BY <1>4
  <2> QED BY <1>1, <1>4, <2>1, KeptNew, Zenon
<1>5. CASE i \notin 1..n /\ i # n + 1
  <2>1. i \notin 1..(n + 1) BY <1>5
  <2> QED BY <1>1, <1>2, <1>5, <2>1, Zenon
<1> QED BY <1>3, <1>4, <1>5, Zenon

(* A name is pushed. *)
LEMMA StackPush ==
  ASSUME NEW p, NEW n \in Nat, NEW s \in Seq(DirectoryNames), p[n + 1] \in DirectoryNames,
         Inside(p, n), Len(s) = GC!Depth(p, 1, n), NEW pos, Placed(pos, s, p, n)
  PROVE StackAt(Append(s, p[n + 1]), p, n + 1)
<1> DEFINE t == Append(s, p[n + 1])
           q == [k \in 1..(Len(s) + 1) |-> IF k = Len(s) + 1 THEN n + 1 ELSE pos[k]]
<1>1. /\ t \in Seq(DirectoryNames) /\ Len(s) \in Nat /\ Len(t) = Len(s) + 1 /\ t[Len(s) + 1] = p[n + 1]
      /\ \A k \in 1..Len(s) : t[k] = s[k]
  OBVIOUS
<1>2. GC!Depth(p, 1, n + 1) = Len(s) + 1
  <2>1. 1 \in Nat /\ 1 <= n + 1 OBVIOUS
  <2>2. GC!Depth(p, 1, n + 1) = GC!Depth(p, 1, n) + 1 BY <2>1, DepthName, Zenon
  <2> QED BY <2>2
<1>3. Inside(p, n + 1) BY <1>1, <1>2, InsideLonger
<1>4. /\ pos \in [1..Len(s) -> 1..n]
      /\ \A k, l \in 1..Len(s) : k < l => pos[k] < pos[l]
      /\ \A i : i \in KeptOf(p, n) <=> \E k \in 1..Len(s) : pos[k] = i
      /\ \A k \in 1..Len(s) : s[k] = p[pos[k]] /\ GC!Depth(p, pos[k], n) = Len(s) - k + 1
  BY Zenon DEF Placed
<1>5. ASSUME NEW k \in 1..Len(s) PROVE GC!Depth(p, pos[k], n + 1) = Len(s) + 1 - k + 1
  <2>1. pos[k] \in Nat /\ pos[k] <= n + 1 /\ GC!Depth(p, pos[k], n) = Len(s) - k + 1 BY <1>4
  <2>2. GC!Depth(p, pos[k], n + 1) = GC!Depth(p, pos[k], n) + 1 BY <2>1, DepthName, Zenon
  <2> QED BY <2>1, <2>2, <1>1
<1>6. GC!Depth(p, n + 1, n + 1) = 1
  <2>1. n + 1 \in Nat /\ n + 1 <= n + 1 OBVIOUS
  <2>2. GC!Depth(p, n + 1, n + 1) = GC!Depth(p, n + 1, n) + 1 BY <2>1, DepthName, Zenon
  <2> QED BY <2>2, DepthEmpty
<1>7. /\ \A k \in 1..Len(s) : q[k] = pos[k] /\ k \in 1..Len(t) /\ k # Len(s) + 1 /\ q[k] \in 1..n
      /\ q[Len(s) + 1] = n + 1 /\ Len(s) + 1 \in 1..Len(t)
      /\ \A k \in 1..Len(t) : k \in 1..Len(s) \/ k = Len(s) + 1
      /\ q \in [1..Len(t) -> 1..(n + 1)]
  <2>1. 1..Len(t) = 1..(Len(s) + 1) /\ \A k \in 1..Len(t) : k \in 1..Len(s) \/ k = Len(s) + 1 BY <1>1
  <2>2. \A k \in 1..Len(s) : k \in 1..(Len(s) + 1) /\ k # Len(s) + 1 /\ pos[k] \in 1..n
    <3>1. \A k \in 1..Len(s) : k \in 1..(Len(s) + 1) /\ k # Len(s) + 1 BY <1>1
    <3>2. \A k \in 1..Len(s) : pos[k] \in 1..n BY <1>4, Zenon
    <3> QED BY <3>1, <3>2, Zenon
  <2>3. Len(s) + 1 \in 1..(Len(s) + 1) BY <1>1
  <2>4. n + 1 \in 1..(n + 1) /\ \A k \in 1..n : k \in 1..(n + 1) OBVIOUS
  <2> HIDE DEF t
  <2>5. \A k \in 1..Len(s) : q[k] = pos[k] BY <2>2, Zenon
  <2>6. q[Len(s) + 1] = n + 1 BY <2>3, Zenon
  <2>7. q \in [1..Len(t) -> 1..(n + 1)] BY <2>1, <2>2, <2>4
  <2> QED BY <2>1, <2>2, <2>3, <2>5, <2>6, <2>7, Zenon
<1> HIDE DEF q, t
<1>8. \A k, l \in 1..Len(t) : k < l => q[k] < q[l]
  <2> TAKE k, l \in 1..Len(t)
  <2>1. CASE l \in 1..Len(s)
    <3>1. k < l => k \in 1..Len(s) BY <1>1, <2>1
    <3> QED BY <1>4, <1>7, <2>1, <3>1, Zenon
  <2>2. CASE l = Len(s) + 1
    <3>1. k < l => k \in 1..Len(s) BY <1>1, <2>2
    <3>2. \A i \in 1..n : i < n + 1 OBVIOUS
    <3> QED BY <1>7, <2>2, <3>1, <3>2, Zenon
  <2> QED BY <1>7, <2>1, <2>2
<1>9. \A i : i \in KeptOf(p, n + 1) <=> \E k \in 1..Len(t) : q[k] = i
  <2> TAKE i
  <2>1. ASSUME i \in KeptOf(p, n) PROVE GC!Depth(p, i, n + 1) >= 1
    <3>1. PICK k \in 1..Len(s) : pos[k] = i BY <1>4, <2>1, Zenon
    <3>2. GC!Depth(p, i, n + 1) = Len(s) + 1 - k + 1 BY <1>5, <3>1, Zenon
    <3> QED BY <3>1, <3>2, <1>1
  <2>2. i \in KeptOf(p, n + 1) <=> i \in KeptOf(p, n) \/ i = n + 1 BY <2>1, KeptAll, Zenon
  <2> QED BY <2>2, <1>4, <1>7, Zenon
<1>10. \A k \in 1..Len(t) : t[k] = p[q[k]] /\ GC!Depth(p, q[k], n + 1) = Len(t) - k + 1
  <2> TAKE k \in 1..Len(t)
  <2>1. CASE k \in 1..Len(s) BY <1>1, <1>4, <1>5, <1>7, <2>1
  <2>2. CASE k = Len(s) + 1 BY <1>1, <1>6, <1>7, <2>2
  <2> QED BY <1>7, <2>1, <2>2
<1>11. Placed(q, t, p, n + 1) BY <1>7, <1>8, <1>9, <1>10, Zenon DEF Placed
<1>12. StackAt(t, p, n + 1) BY <1>1, <1>2, <1>3, <1>11, Zenon DEF StackAt
<1> QED BY <1>12 DEF t

(* The last name is dropped. *)
LEMMA StackPop ==
  ASSUME NEW p, NEW n \in Nat, NEW s \in Seq(DirectoryNames), p[n + 1] = "..",
         Inside(p, n), Len(s) = GC!Depth(p, 1, n), NEW pos, Placed(pos, s, p, n)
  PROVE /\ s = <<>> => ~Inside(p, n + 1)
        /\ s # <<>> => StackAt(SubSeq(s, 1, Len(s) - 1), p, n + 1)
<1> DEFINE t == SubSeq(s, 1, Len(s) - 1)
           q == [k \in 1..(Len(s) - 1) |-> pos[k]]
<1>1. p[n + 1] \notin DirectoryNames BY DirectoryTypes
<1>2. Len(s) \in Nat /\ GC!Depth(p, 1, n + 1) = Len(s) - 1
  <2>1. 1 \in Nat /\ 1 <= n + 1 /\ Len(s) \in Nat OBVIOUS
  <2>2. GC!Depth(p, 1, n + 1) = GC!Depth(p, 1, n) - 1 BY <2>1, DepthUp, Zenon
  <2> QED BY <2>1, <2>2
<1>3. CASE s = <<>>
  <2>1. ~(GC!Depth(p, 1, n + 1) >= 0) BY <1>2, <1>3
  <2> QED BY <1>3, <2>1, InsideLonger
<1>4. CASE s # <<>>
  <2>1. /\ t \in Seq(DirectoryNames) /\ Len(t) = Len(s) - 1 /\ Len(t) \in Nat
        /\ \A k \in 1..Len(t) : t[k] = s[k] /\ k \in 1..Len(s) /\ k # Len(s)
    BY <1>4
  <2>3. Inside(p, n + 1) BY <1>2, <2>1, InsideLonger
  <2>4. /\ pos \in [1..Len(s) -> 1..n]
        /\ \A k, l \in 1..Len(s) : k < l => pos[k] < pos[l]
        /\ \A i : i \in KeptOf(p, n) <=> \E k \in 1..Len(s) : pos[k] = i
        /\ \A k \in 1..Len(s) : s[k] = p[pos[k]] /\ GC!Depth(p, pos[k], n) = Len(s) - k + 1
    BY Zenon DEF Placed
  <2>5. ASSUME NEW k \in 1..Len(s) PROVE GC!Depth(p, pos[k], n + 1) = Len(s) - k
    <3>1. pos[k] \in Nat /\ pos[k] <= n + 1 /\ GC!Depth(p, pos[k], n) = Len(s) - k + 1 BY <2>4
    <3>2. GC!Depth(p, pos[k], n + 1) = GC!Depth(p, pos[k], n) - 1 BY <3>1, DepthUp, Zenon
    <3> QED BY <3>1, <3>2, <1>2
  <2>7. /\ \A k \in 1..Len(t) : q[k] = pos[k]
        /\ \A k \in 1..Len(s) : k \in 1..Len(t) <=> Len(s) - k >= 1
        /\ q \in [1..Len(t) -> 1..(n + 1)]
    BY <2>1, <1>2, <2>4
  <2> HIDE DEF q, t
  <2>8. \A k, l \in 1..Len(t) : k < l => q[k] < q[l] BY <2>1, <2>4, <2>7
  <2>9. \A i : i \in KeptOf(p, n + 1) <=> \E k \in 1..Len(t) : q[k] = i
    <3> TAKE i
    <3>1. i \in KeptOf(p, n + 1) <=> i \in KeptOf(p, n) /\ GC!Depth(p, i, n + 1) >= 1 BY <1>1, KeptAll, Zenon
    <3>2. ASSUME i \in KeptOf(p, n + 1) PROVE \E k \in 1..Len(t) : q[k] = i
      <4>1. PICK k \in 1..Len(s) : pos[k] = i BY <2>4, <3>1, <3>2, Zenon
      <4>2. Len(s) - k >= 1 BY <2>5, <3>1, <3>2, <4>1, Zenon
      <4> QED BY <2>7, <4>1, <4>2, Zenon
    <3>3. ASSUME NEW k \in 1..Len(t), q[k] = i PROVE i \in KeptOf(p, n + 1)
      <4>1. k \in 1..Len(s) /\ pos[k] = i /\ Len(s) - k >= 1 BY <2>1, <2>7, <3>3, Zenon
      <4>2. GC!Depth(p, i, n + 1) >= 1 BY <2>5, <4>1, Zenon
      <4> QED BY <2>4, <3>1, <4>1, <4>2, Zenon
    <3> QED BY <3>2, <3>3, Zenon
  <2>10. \A k \in 1..Len(t) : t[k] = p[q[k]] /\ GC!Depth(p, q[k], n + 1) = Len(t) - k + 1
    BY <2>1, <2>4, <2>5, <2>7, <1>2
  <2>11. Placed(q, t, p, n + 1) BY <2>7, <2>8, <2>9, <2>10, Zenon DEF Placed
  <2>12. StackAt(t, p, n + 1) BY <1>2, <2>1, <2>3, <2>11, Zenon DEF StackAt
  <2> QED BY <1>4, <2>12 DEF t
<1> QED BY <1>3, <1>4

(* "." changes nothing. *)
LEMMA StackStays ==
  ASSUME NEW p, NEW n \in Nat, NEW s \in Seq(DirectoryNames), p[n + 1] = ".",
         Inside(p, n), Len(s) = GC!Depth(p, 1, n), NEW pos, Placed(pos, s, p, n)
  PROVE StackAt(s, p, n + 1)
<1>1. p[n + 1] \notin DirectoryNames /\ p[n + 1] # ".." BY DirectoryTypes
<1>2. Len(s) \in Nat /\ GC!Depth(p, 1, n + 1) = Len(s)
  <2>1. 1 \in Nat /\ 1 <= n + 1 /\ Len(s) \in Nat OBVIOUS
  <2> QED BY <2>1, DepthDot, Zenon
<1>3. Inside(p, n + 1) BY <1>2, InsideLonger
<1>4. /\ pos \in [1..Len(s) -> 1..n]
      /\ \A k, l \in 1..Len(s) : k < l => pos[k] < pos[l]
      /\ \A i : i \in KeptOf(p, n) <=> \E k \in 1..Len(s) : pos[k] = i
      /\ \A k \in 1..Len(s) : s[k] = p[pos[k]] /\ GC!Depth(p, pos[k], n) = Len(s) - k + 1
  BY Zenon DEF Placed
<1>5. \A k \in 1..Len(s) : GC!Depth(p, pos[k], n + 1) = Len(s) - k + 1
  <2> TAKE k \in 1..Len(s)
  <2>1. pos[k] \in Nat /\ pos[k] <= n + 1 /\ GC!Depth(p, pos[k], n) = Len(s) - k + 1 BY <1>4
  <2>2. GC!Depth(p, pos[k], n + 1) = GC!Depth(p, pos[k], n) BY <2>1, DepthDot, Zenon
  <2> QED BY <2>1, <2>2
<1>6. pos \in [1..Len(s) -> 1..(n + 1)] BY <1>4
<1>7. \A i : i \in KeptOf(p, n + 1) <=> i \in KeptOf(p, n)
  <2> TAKE i
  <2>1. ASSUME i \in KeptOf(p, n) PROVE GC!Depth(p, i, n + 1) >= 1
    <3>1. PICK k \in 1..Len(s) : pos[k] = i BY <1>4, <2>1, Zenon
    <3>2. GC!Depth(p, i, n + 1) = Len(s) - k + 1 BY <1>5, <3>1, Zenon
    <3> QED BY <3>1, <3>2, <1>2
  <2> QED BY <1>1, <2>1, KeptAll, Zenon
<1>8. Placed(pos, s, p, n + 1) BY <1>4, <1>5, <1>6, <1>7, Zenon DEF Placed
<1> QED BY <1>2, <1>3, <1>8, Zenon DEF StackAt

(* After every component the stack has the names that are kept. *)
LEMMA StackAlong ==
  ASSUME NEW p \in Seq(Components), NEW s, IsStack(s, p)
  PROVE StackAt(s[Len(p)], p, Len(p))
<1>0. Len(p) \in Nat OBVIOUS
<1> DEFINE S == {n \in Nat : n <= Len(p) => StackAt(s[n], p, n)}
<1>1. 0 \in S
  <2>1. s[0] = <<>> BY <1>0, StackStep
  <2>2. Inside(p, 0) BY DEF Inside
  <2>3. GC!Depth(p, 1, 0) = 0
    <3>1. 0 + 1 = 1 OBVIOUS
    <3>2. GC!Depth(p, 0 + 1, 0) = 0 BY DepthEmpty
    <3> QED BY <3>1, <3>2, Zenon
  <2> DEFINE pos == [k \in 1..0 |-> 1]
  <2>4. Placed(pos, <<>>, p, 0)
    <3>1. Len(<<>>) = 0 /\ 1..0 = {} OBVIOUS
    <3>2. KeptOf(p, 0) = {} BY <3>1, Zenon DEF KeptOf
    <3>3. pos \in [1..Len(<<>>) -> 1..0] BY <3>1
    <3> HIDE DEF pos
    <3> QED BY <3>1, <3>2, <3>3 DEF Placed
  <2>5. <<>> \in Seq(DirectoryNames) /\ Len(<<>>) = 0 OBVIOUS
  <2> HIDE DEF pos
  <2>6. StackAt(<<>>, p, 0) BY <2>2, <2>3, <2>4, <2>5, Zenon DEF StackAt
  <2> QED BY <2>1, <2>6
<1>2. ASSUME NEW n \in Nat, n \in S PROVE n + 1 \in S
  <2>1. SUFFICES ASSUME n + 1 <= Len(p) PROVE StackAt(s[n + 1], p, n + 1) BY <1>2
  <2>2. n <= Len(p) /\ n + 1 \in 1..Len(p) /\ (n + 1) - 1 = n BY <1>0, <2>1
  <2>3. StackAt(s[n], p, n) BY <1>2, <2>2
  <2>4. s[n + 1] = IF s[n] = GC!Nowhere THEN GC!Nowhere ELSE GC!Component(s[n], p[n + 1])
    BY <1>0, <2>2, StackStep, Zenon
  <2>5. CASE ~Inside(p, n) /\ s[n] = GC!Nowhere
    <3>1. ~Inside(p, n + 1) BY <2>5, InsideLonger
    <3> QED BY <2>4, <2>5, <3>1, Zenon DEF StackAt
  <2>6. CASE /\ Inside(p, n) /\ s[n] \in Seq(DirectoryNames) /\ Len(s[n]) = GC!Depth(p, 1, n)
             /\ \E pos : Placed(pos, s[n], p, n)
    <3>1. PICK pos : Placed(pos, s[n], p, n) BY <2>6
    <3>2. s[n + 1] = GC!Component(s[n], p[n + 1]) BY <2>4, <2>6, SeqNotNowhere, Zenon
    <3>3. p[n + 1] \in Components BY <2>2
    <3>4. CASE p[n + 1] \in DirectoryNames
      <4>1. p[n + 1] # "." /\ p[n + 1] # ".." BY <3>4, DirectoryTypes
      <4>2. s[n + 1] = Append(s[n], p[n + 1]) BY <3>2, <4>1, Zenon DEF GC!Component
      <4>3. StackAt(Append(s[n], p[n + 1]), p, n + 1) BY <2>6, <3>1, <3>4, StackPush, Zenon
      <4> QED BY <4>2, <4>3, Zenon
    <3>5. CASE p[n + 1] = "."
      <4>2. s[n + 1] = s[n] BY <3>2, <3>5, Zenon DEF GC!Component
      <4>3. StackAt(s[n], p, n + 1) BY <2>6, <3>1, <3>5, StackStays, Zenon
      <4> QED BY <4>2, <4>3, Zenon
    <3>6. CASE p[n + 1] = ".."
      <4>1. ".." # "." OBVIOUS
      <4>2. s[n + 1] = IF s[n] = <<>> THEN GC!Nowhere ELSE SubSeq(s[n], 1, Len(s[n]) - 1)
        BY <3>2, <3>6, <4>1, Zenon DEF GC!Component
      <4>3. /\ s[n] = <<>> => ~Inside(p, n + 1)
            /\ s[n] # <<>> => StackAt(SubSeq(s[n], 1, Len(s[n]) - 1), p, n + 1)
        BY <2>6, <3>1, <3>6, StackPop, Zenon
      <4> QED BY <4>2, <4>3, Zenon DEF StackAt
    <3> QED BY <3>3, <3>4, <3>5, <3>6 DEF Components
  <2> QED BY <2>3, <2>5, <2>6, Zenon DEF StackAt
<1> HIDE DEF S
<1>3. Nat \subseteq S BY <1>1, <1>2, Induct
<1>4. Len(p) \in S BY <1>0, <1>3
<1> QED BY <1>0, <1>4 DEF S

(* How many names are kept. *)
LEMMA Counted ==
  ASSUME NEW m \in Nat, NEW pos, NEW S,
         \A k \in 1..m : pos[k] \in S,
         \A x \in S : \E k \in 1..m : pos[k] = x,
         \A k, l \in 1..m : pos[k] = pos[l] => k = l
  PROVE Cardinality(S) = m
<1> DEFINE f == [k \in 1..m |-> pos[k]]
<1>1. f \in [1..m -> S] OBVIOUS
<1>2. f \in Injection(1..m, S) BY <1>1 DEF Injection, IsInjective
<1>3. f \in Surjection(1..m, S) BY <1>1 DEF Surjection
<1>4. ExistsBijection(1..m, S) BY <1>2, <1>3, Zenon DEF ExistsBijection, Bijection
<1> QED BY <1>4, FS_CountingElements

(* The stack at the end is the path with its dots resolved. *)
LEMMA ResolvedIsStack ==
  ASSUME NEW p, Len(p) \in Nat, NEW s \in Seq(DirectoryNames), NEW pos, Placed(pos, s, p, Len(p))
  PROVE GC!Resolved(p) = s
<1> DEFINE kept == KeptOf(p, Len(p))
           Nth(k) == CHOOSE i \in kept : Cardinality({j \in kept : j <= i}) = k
<1>1. /\ pos \in [1..Len(s) -> 1..Len(p)]
      /\ \A k, l \in 1..Len(s) : k < l => pos[k] < pos[l]
      /\ \A i : i \in kept <=> \E k \in 1..Len(s) : pos[k] = i
      /\ \A k \in 1..Len(s) : s[k] = p[pos[k]]
  BY Zenon DEF Placed
<1>2. GC!Resolved(p) = [k \in 1..Cardinality(kept) |-> p[Nth(k)]]
  BY Zenon DEF GC!Resolved, GC!Kept, KeptOf, GC!Cardinality, Cardinality
<1> HIDE DEF kept
<1>3. Len(s) \in Nat OBVIOUS
<1>4. \A k, l \in 1..Len(s) : pos[k] = pos[l] => k = l
  <2> TAKE k, l \in 1..Len(s)
  <2>1. pos[k] \in Nat /\ pos[l] \in Nat BY <1>1
  <2>2. (k < l => pos[k] < pos[l]) /\ (l < k => pos[l] < pos[k]) BY <1>1
  <2> QED BY <2>1, <2>2, <1>3
<1>5. Cardinality(kept) = Len(s)
  <2>1. \A k \in 1..Len(s) : pos[k] \in kept BY <1>1, Zenon
  <2>2. \A x \in kept : \E k \in 1..Len(s) : pos[k] = x BY <1>1, Zenon
  <2>3. PICK m \in Nat : m = Len(s) BY <1>3
  <2>4. \A k \in 1..m : pos[k] \in kept BY ONLY <2>1, <2>3, Zenon
  <2>5. \A x \in kept : \E k \in 1..m : pos[k] = x BY ONLY <2>2, <2>3, Zenon
  <2>6. \A k, l \in 1..m : pos[k] = pos[l] => k = l BY ONLY <1>4, <2>3, Zenon
  <2>7. Cardinality(kept) = m BY ONLY m \in Nat, <2>4, <2>5, <2>6, Counted
  <2> QED BY ONLY <2>3, <2>7, Zenon
<1>6. ASSUME NEW k \in 1..Len(s) PROVE Cardinality({j \in kept : j <= pos[k]}) = k
  <2> DEFINE T == {j \in kept : j <= pos[k]}
  <2>1. \A l \in 1..k : l \in 1..Len(s) /\ (l < k \/ l = k) BY <1>3
  <2>2. \A l \in 1..k : pos[l] \in T
    <3> TAKE l \in 1..k
    <3>1. pos[l] \in kept BY <1>1, <2>1
    <3>0. \A i \in 1..Len(s) : pos[i] \in 1..Len(p) BY <1>1, Zenon
    <3>2. pos[l] \in Nat /\ pos[k] \in Nat BY <3>0, <2>1
    <3>3. pos[l] <= pos[k] BY <1>1, <2>1, <3>2
    <3> QED BY <3>1, <3>3
  <2>3. \A x \in T : \E l \in 1..k : pos[l] = x
    <3> TAKE x \in T
    <3>1. PICK l \in 1..Len(s) : pos[l] = x BY <1>1
    <3>2. pos[l] \in Nat /\ pos[k] \in Nat /\ pos[l] <= pos[k] BY <1>1, <3>1
    <3>3. ~(k < l) BY <1>1, <3>2
    <3>4. l \in 1..k BY <3>1, <3>3
    <3> QED BY <3>1, <3>4
  <2>4. \A l, m \in 1..k : pos[l] = pos[m] => l = m BY <2>1, <1>4
  <2>5. k \in Nat OBVIOUS
  <2> HIDE DEF T
  <2>6. Cardinality(T) = k BY <2>2, <2>3, <2>4, <2>5, Counted
  <2> QED BY <2>6 DEF T
<1>7. ASSUME NEW k \in 1..Len(s) PROVE Nth(k) = pos[k]
  <2>1. pos[k] \in kept /\ Cardinality({j \in kept : j <= pos[k]}) = k BY <1>1, <1>6
  <2>2. Nth(k) \in kept /\ Cardinality({j \in kept : j <= Nth(k)}) = k BY <2>1, Zenon
  <2> HIDE DEF Nth
  <2>3. PICK l \in 1..Len(s) : pos[l] = Nth(k) BY <1>1, <2>2, Zenon
  <2>4. Cardinality({j \in kept : j <= Nth(k)}) = l BY <1>6, <2>3, Zenon
  <2>5. l = k BY <2>2, <2>4, Zenon
  <2> QED BY <2>3, <2>5, Zenon
<1> HIDE DEF Nth
<1>8. [k \in 1..Len(s) |-> p[Nth(k)]] = [k \in 1..Len(s) |-> s[k]]
  <2>1. \A k \in 1..Len(s) : p[Nth(k)] = s[k] BY <1>1, <1>7, Zenon
  <2> QED BY <2>1, Zenon
<1>9. s = [k \in 1..Len(s) |-> s[k]] OBVIOUS
<1> QED BY <1>2, <1>5, <1>8, <1>9, Zenon

(* validate_gc_roots_dir_path accepts a path inside the root and resolves it. *)
LEMMA ValidateResolves ==
  ASSUME NEW p \in Seq(Components)
  PROVE LET v == GC!validate_gc_roots_dir_path(TRUE, p)
        IN /\ v # GC!Nowhere => v = GC!Resolved(p) /\ GC!IsUnder(v)
           /\ GC!IsUnder(GC!Resolved(p)) /\ Inside(p, Len(p)) => v = GC!Resolved(p)
<1> DEFINE v == GC!validate_gc_roots_dir_path(TRUE, p)
<1>1. Len(p) \in Nat OBVIOUS
<1>2. PICK s : IsStack(s, p) /\ GC!normalize_absolute(TRUE, p) = s[Len(p)] BY <1>1, NormalizeStack
<1>3. StackAt(s[Len(p)], p, Len(p)) BY <1>2, StackAlong
<1>4. PICK n : n = s[Len(p)] OBVIOUS
<1>5. v = IF n # GC!Nowhere /\ GC!IsUnder(n) THEN n ELSE GC!Nowhere
  BY <1>2, <1>4, Zenon DEF GC!validate_gc_roots_dir_path
<1> HIDE DEF v
<1>6. CASE ~Inside(p, Len(p)) /\ n = GC!Nowhere BY <1>5, <1>6, Zenon DEF v
<1>7. CASE Inside(p, Len(p)) /\ n \in Seq(DirectoryNames) /\ \E pos : Placed(pos, n, p, Len(p))
  <2>1. GC!Resolved(p) = n BY <1>1, <1>7, ResolvedIsStack
  <2>2. n # GC!Nowhere BY <1>7, SeqNotNowhere
  <2> QED BY <1>5, <2>1, <2>2, Zenon DEF v
<1> QED BY <1>3, <1>4, <1>6, <1>7, Zenon DEF StackAt

(* A relative path is refused. *)
LEMMA RelativeRefused ==
  ASSUME NEW p PROVE GC!validate_gc_roots_dir_path(FALSE, p) = GC!Nowhere
  BY Zenon DEF GC!validate_gc_roots_dir_path, GC!normalize_absolute

DirectoryInv ==
    /\ absolute \in BOOLEAN /\ path \in Seq(Components)
    /\ made # GC!Nowhere => made = GC!validate_gc_roots_dir_path(absolute, path)

(* No directory is made at first. *)
LEMMA DirectoryStart == GC!Init => DirectoryInv
<1>1. <<>> \in Seq(Components) OBVIOUS
<1> QED BY <1>1, Zenon DEF GC!Init, DirectoryInv

(* A directory is made only for a path that was validated. *)
LEMMA DirectoryKeeps ==
  ASSUME DirectoryInv, [GC!Next]_(GC!vars) PROVE DirectoryInv'
<1>1. CASE UNCHANGED GC!vars
  <2>1. absolute' = absolute /\ path' = path /\ made' = made BY <1>1 DEF GC!vars
  <2>2. GC!validate_gc_roots_dir_path(absolute', path') = GC!validate_gc_roots_dir_path(absolute, path)
    BY <2>1
  <2>3. absolute' \in BOOLEAN /\ path' \in Seq(Components) BY <2>1, Zenon DEF DirectoryInv
  <2>4. made' # GC!Nowhere => made' = GC!validate_gc_roots_dir_path(absolute', path')
    BY <2>1, <2>2, Zenon DEF DirectoryInv
  <2> QED BY <2>3, <2>4, Zenon DEF DirectoryInv
<1>2. CASE GC!Ensure BY <1>2, Zenon DEF GC!Ensure, DirectoryInv
<1>3. ASSUME NEW c \in DirectoryNames \union {".", ".."}, GC!Write(c) PROVE DirectoryInv'
  <2>1. path' = Append(path, c) /\ absolute' = absolute /\ made' = made /\ made = GC!Nowhere
    BY <1>3, Zenon DEF GC!Write
  <2>2. c \in Components BY DEF Components
  <2>3. Append(path, c) \in Seq(Components) BY <2>2 DEF DirectoryInv
  <2> QED BY <2>1, <2>3, Zenon DEF DirectoryInv
<1> QED BY <1>1, <1>2, <1>3 DEF GC!Next

(* It is the one the path names. *)
LEMMA DirectoryMade == DirectoryInv => GC!MadeWhereNamed
<1>1. SUFFICES ASSUME DirectoryInv PROVE GC!MadeWhereNamed OBVIOUS
<1>2. absolute = TRUE \/ absolute = FALSE BY <1>1, Zenon DEF DirectoryInv
<1>3. path \in Seq(Components) BY <1>1 DEF DirectoryInv
<1>4. CASE absolute = TRUE
  <2>1. LET v == GC!validate_gc_roots_dir_path(TRUE, path)
        IN /\ v # GC!Nowhere => v = GC!Resolved(path) /\ GC!IsUnder(v)
           /\ GC!IsUnder(GC!Resolved(path)) /\ Inside(path, Len(path)) => v = GC!Resolved(path)
    BY <1>3, ValidateResolves, Zenon
  <2> QED BY <1>1, <1>4, <2>1, Zenon DEF GC!MadeWhereNamed, DirectoryInv, Inside
<1>5. CASE absolute = FALSE
  BY <1>1, <1>5, RelativeRefused, Zenon DEF GC!MadeWhereNamed, DirectoryInv
<1> QED BY <1>2, <1>4, <1>5

(* A behaviour follows one part. *)
LEMMA PartStays == [Next]_vars => part' = part
<1>1. Next => part' = part
  BY Zenon DEF Next, EvaluateAttributes, NameDirectory, LockFlake, CarryMessages, KeepGraph, MatchPattern
<1>2. UNCHANGED vars => part' = part BY DEF vars
<1> QED BY <1>1, <1>2

(* A step of the roots directory is one of GcRootsPath. *)
LEMMA DirectoryStep ==
  ASSUME part = "roots directory", [Next]_vars
  PROVE [GC!Next]_(GC!vars)
<1>1. CASE UNCHANGED vars BY <1>1 DEF vars, DirectoryVars, GC!vars
<1>2. CASE NameDirectory BY <1>2, Zenon DEF NameDirectory
<1>3. CASE EvaluateAttributes \/ LockFlake \/ CarryMessages \/ KeepGraph \/ MatchPattern
  <2>1. part # "roots directory"
    BY <1>3 DEF EvaluateAttributes, LockFlake, CarryMessages, KeepGraph, MatchPattern
  <2> QED BY <2>1
<1> QED BY <1>1, <1>2, <1>3, Zenon DEF Next

------------------------------------------------------------------------------
(* Recursive functions as fixpoints: Follow, filter_keys and Lookup. *)

IsFollow(s, step, start, q) ==
    s = [i \in 0..Len(q) |-> IF i = 0 THEN start ELSE step[s[i - 1]][q[i]]]

(* The table of Follow exists; ... *)
LEMMA FollowExists ==
  ASSUME NEW step, NEW start, NEW q, Len(q) \in Nat
  PROVE \E s : IsFollow(s, step, start, q)
<1> DEFINE Body(s, i) == IF i = 0 THEN start ELSE step[s[i - 1]][q[i]]
           Upto(s, m) == s = [i \in 0..m |-> Body(s, i)]
           S == {m \in Nat : \E s : Upto(s, m)}
<1>1. 0 \in S
  <2> DEFINE z == [i \in 0..0 |-> start]
  <2>1. Upto(z, 0)
    <3>1. \A i : i \in 0..0 <=> i = 0 OBVIOUS
    <3> QED BY <3>1, Zenon
  <2> QED BY <2>1
<1>2. ASSUME NEW m \in Nat, m \in S PROVE m + 1 \in S
  <2>1. PICK r : Upto(r, m) BY <1>2
  <2>2. PICK last : last = Body(r, m + 1) OBVIOUS
  <2> DEFINE t == [i \in 0..(m + 1) |-> IF i = m + 1 THEN last ELSE r[i]]
  <2>3. ASSUME NEW i \in 0..(m + 1) PROVE t[i] = Body(t, i)
    <3>1. CASE i = m + 1
      <4>1. t[m + 1] = last /\ t[m] = r[m] /\ (m + 1) - 1 = m /\ m + 1 # 0 OBVIOUS
      <4> HIDE DEF t
      <4> QED BY <3>1, <4>1, <2>2, Zenon
    <3>2. CASE i # m + 1
      <4>1. i \in 0..m /\ t[i] = r[i] BY <3>2
      <4>2. r[i] = Body(r, i)
        <5>1. [k \in 0..m |-> Body(r, k)][i] = Body(r, i) BY <4>1, Zenon
        <5>2. r = [k \in 0..m |-> Body(r, k)] BY <2>1, Zenon
        <5> HIDE DEF Body
        <5> QED BY <5>1, <5>2, Zenon
      <4>3. CASE i = 0 BY <4>1, <4>2, <4>3, Zenon
      <4>4. CASE i # 0
        <5>1. t[i - 1] = r[i - 1] BY <4>1, <4>4
        <5> HIDE DEF t
        <5> QED BY <4>1, <4>2, <4>4, <5>1, Zenon
      <4> QED BY <4>3, <4>4
    <3> QED BY <3>1, <3>2
  <2>4. t = [i \in 0..(m + 1) |-> t[i]] OBVIOUS
  <2> HIDE DEF t
  <2>5. Upto(t, m + 1)
    <3>1. [i \in 0..(m + 1) |-> t[i]] = [i \in 0..(m + 1) |-> Body(t, i)] BY <2>3, Zenon
    <3> QED BY <2>4, <3>1, Zenon
  <2> QED BY <2>5
<1> HIDE DEF S
<1>3. Nat \subseteq S BY <1>1, <1>2, Induct
<1>4. Len(q) \in S BY <1>3
<1> QED BY <1>4, Zenon DEF S, IsFollow

(* ... each entry ... *)
LEMMA FollowAt ==
  ASSUME NEW step, NEW start, NEW q, Len(q) \in Nat, NEW s, IsFollow(s, step, start, q), NEW i \in 0..Len(q)
  PROVE s[i] = IF i = 0 THEN start ELSE step[s[i - 1]][q[i]]
<1> DEFINE Body(k) == IF k = 0 THEN start ELSE step[s[k - 1]][q[k]]
<1>1. s = [k \in 0..Len(q) |-> Body(k)] BY Zenon DEF IsFollow
<1>2. [k \in 0..Len(q) |-> Body(k)][i] = Body(i) BY Zenon
<1> QED BY <1>1, <1>2, Zenon

(* ... is the start ... *)
LEMMA FollowStarts ==
  ASSUME NEW step, NEW start, NEW q, Len(q) \in Nat, NEW s, IsFollow(s, step, start, q)
  PROVE s[0] = start
<1> DEFINE Body(k) == IF k = 0 THEN start ELSE step[s[k - 1]][q[k]]
<1>1. s = [k \in 0..Len(q) |-> Body(k)] BY Zenon DEF IsFollow
<1>2. 0 \in 0..Len(q) OBVIOUS
<1>3. [k \in 0..Len(q) |-> Body(k)][0] = Body(0) BY <1>2, Zenon
<1> QED BY <1>1, <1>3, Zenon

(* ... or a step from the one before. *)
LEMMA FollowSteps ==
  ASSUME NEW step, NEW start, NEW q, Len(q) \in Nat, NEW s, IsFollow(s, step, start, q), NEW i \in 1..Len(q)
  PROVE s[i] = step[s[i - 1]][q[i]]
<1> DEFINE Body(k) == IF k = 0 THEN start ELSE step[s[k - 1]][q[k]]
<1>1. s = [k \in 0..Len(q) |-> Body(k)] BY Zenon DEF IsFollow
<1>2. i \in 0..Len(q) /\ i # 0 OBVIOUS
<1>3. [k \in 0..Len(q) |-> Body(k)][i] = Body(i) BY <1>2, Zenon
<1> QED BY <1>1, <1>2, <1>3, Zenon


IsFilter(s, q) ==
    s = [i \in 0..Len(q) |-> IF i = 0 THEN <<>> ELSE (IF q[i] = "recurseForDerivations" THEN s[i - 1] ELSE Append(s[i - 1], q[i]))]

(* The table of filter_keys exists; ... *)
LEMMA FilterExists ==
  ASSUME NEW q, Len(q) \in Nat
  PROVE \E s : IsFilter(s, q)
<1> DEFINE Body(s, i) == IF i = 0 THEN <<>> ELSE (IF q[i] = "recurseForDerivations" THEN s[i - 1] ELSE Append(s[i - 1], q[i]))
           Upto(s, m) == s = [i \in 0..m |-> Body(s, i)]
           S == {m \in Nat : \E s : Upto(s, m)}
<1>1. 0 \in S
  <2> DEFINE z == [i \in 0..0 |-> <<>>]
  <2>1. Upto(z, 0)
    <3>1. \A i : i \in 0..0 <=> i = 0 OBVIOUS
    <3> QED BY <3>1, Zenon
  <2> QED BY <2>1
<1>2. ASSUME NEW m \in Nat, m \in S PROVE m + 1 \in S
  <2>1. PICK r : Upto(r, m) BY <1>2
  <2>2. PICK last : last = Body(r, m + 1) OBVIOUS
  <2> DEFINE t == [i \in 0..(m + 1) |-> IF i = m + 1 THEN last ELSE r[i]]
  <2>3. ASSUME NEW i \in 0..(m + 1) PROVE t[i] = Body(t, i)
    <3>1. CASE i = m + 1
      <4>1. t[m + 1] = last /\ t[m] = r[m] /\ (m + 1) - 1 = m /\ m + 1 # 0 OBVIOUS
      <4> HIDE DEF t
      <4> QED BY <3>1, <4>1, <2>2, Zenon
    <3>2. CASE i # m + 1
      <4>1. i \in 0..m /\ t[i] = r[i] BY <3>2
      <4>2. r[i] = Body(r, i)
        <5>1. [k \in 0..m |-> Body(r, k)][i] = Body(r, i) BY <4>1, Zenon
        <5>2. r = [k \in 0..m |-> Body(r, k)] BY <2>1, Zenon
        <5> HIDE DEF Body
        <5> QED BY <5>1, <5>2, Zenon
      <4>3. CASE i = 0 BY <4>1, <4>2, <4>3, Zenon
      <4>4. CASE i # 0
        <5>1. t[i - 1] = r[i - 1] BY <4>1, <4>4
        <5> HIDE DEF t
        <5> QED BY <4>1, <4>2, <4>4, <5>1, Zenon
      <4> QED BY <4>3, <4>4
    <3> QED BY <3>1, <3>2
  <2>4. t = [i \in 0..(m + 1) |-> t[i]] OBVIOUS
  <2> HIDE DEF t
  <2>5. Upto(t, m + 1)
    <3>1. [i \in 0..(m + 1) |-> t[i]] = [i \in 0..(m + 1) |-> Body(t, i)] BY <2>3, Zenon
    <3> QED BY <2>4, <3>1, Zenon
  <2> QED BY <2>5
<1> HIDE DEF S
<1>3. Nat \subseteq S BY <1>1, <1>2, Induct
<1>4. Len(q) \in S BY <1>3
<1> QED BY <1>4, Zenon DEF S, IsFilter

(* ... each entry ... *)
LEMMA FilterAt ==
  ASSUME NEW q, Len(q) \in Nat, NEW s, IsFilter(s, q), NEW i \in 0..Len(q)
  PROVE s[i] = IF i = 0 THEN <<>> ELSE (IF q[i] = "recurseForDerivations" THEN s[i - 1] ELSE Append(s[i - 1], q[i]))
<1> DEFINE Body(k) == IF k = 0 THEN <<>> ELSE (IF q[k] = "recurseForDerivations" THEN s[k - 1] ELSE Append(s[k - 1], q[k]))
<1>1. s = [k \in 0..Len(q) |-> Body(k)] BY Zenon DEF IsFilter
<1>2. [k \in 0..Len(q) |-> Body(k)][i] = Body(i) BY Zenon
<1> QED BY <1>1, <1>2, Zenon

(* ... is empty ... *)
LEMMA FilterStarts ==
  ASSUME NEW q, Len(q) \in Nat, NEW s, IsFilter(s, q)
  PROVE s[0] = <<>>
<1> DEFINE Body(k) == IF k = 0 THEN <<>> ELSE (IF q[k] = "recurseForDerivations" THEN s[k - 1] ELSE Append(s[k - 1], q[k]))
<1>1. s = [k \in 0..Len(q) |-> Body(k)] BY Zenon DEF IsFilter
<1>2. 0 \in 0..Len(q) OBVIOUS
<1>3. [k \in 0..Len(q) |-> Body(k)][0] = Body(0) BY <1>2, Zenon
<1> QED BY <1>1, <1>3, Zenon

(* ... or the one before, with one key more if it is looked into. *)
LEMMA FilterSteps ==
  ASSUME NEW q, Len(q) \in Nat, NEW s, IsFilter(s, q), NEW i \in 1..Len(q)
  PROVE s[i] = (IF q[i] = "recurseForDerivations" THEN s[i - 1] ELSE Append(s[i - 1], q[i]))
<1> DEFINE Body(k) == IF k = 0 THEN <<>> ELSE (IF q[k] = "recurseForDerivations" THEN s[k - 1] ELSE Append(s[k - 1], q[k]))
<1>1. s = [k \in 0..Len(q) |-> Body(k)] BY Zenon DEF IsFilter
<1>2. i \in 0..Len(q) /\ i # 0 OBVIOUS
<1>3. [k \in 0..Len(q) |-> Body(k)][i] = Body(i) BY <1>2, Zenon
<1> QED BY <1>1, <1>2, <1>3, Zenon


IsLookup(s, json, q) ==
    s = [i \in 0..Len(q) |-> IF i = 0 THEN json ELSE AE!Entry(s[i - 1], q[i])]

(* The table of Lookup exists; ... *)
LEMMA LookupExists ==
  ASSUME NEW json, NEW q, Len(q) \in Nat
  PROVE \E s : IsLookup(s, json, q)
<1> DEFINE Body(s, i) == IF i = 0 THEN json ELSE AE!Entry(s[i - 1], q[i])
           Upto(s, m) == s = [i \in 0..m |-> Body(s, i)]
           S == {m \in Nat : \E s : Upto(s, m)}
<1>1. 0 \in S
  <2> DEFINE z == [i \in 0..0 |-> json]
  <2>1. Upto(z, 0)
    <3>1. \A i : i \in 0..0 <=> i = 0 OBVIOUS
    <3> QED BY <3>1, Zenon
  <2> QED BY <2>1
<1>2. ASSUME NEW m \in Nat, m \in S PROVE m + 1 \in S
  <2>1. PICK r : Upto(r, m) BY <1>2
  <2>2. PICK last : last = Body(r, m + 1) OBVIOUS
  <2> DEFINE t == [i \in 0..(m + 1) |-> IF i = m + 1 THEN last ELSE r[i]]
  <2>3. ASSUME NEW i \in 0..(m + 1) PROVE t[i] = Body(t, i)
    <3>1. CASE i = m + 1
      <4>1. t[m + 1] = last /\ t[m] = r[m] /\ (m + 1) - 1 = m /\ m + 1 # 0 OBVIOUS
      <4> HIDE DEF t
      <4> QED BY <3>1, <4>1, <2>2, Zenon
    <3>2. CASE i # m + 1
      <4>1. i \in 0..m /\ t[i] = r[i] BY <3>2
      <4>2. r[i] = Body(r, i)
        <5>1. [k \in 0..m |-> Body(r, k)][i] = Body(r, i) BY <4>1, Zenon
        <5>2. r = [k \in 0..m |-> Body(r, k)] BY <2>1, Zenon
        <5> HIDE DEF Body
        <5> QED BY <5>1, <5>2, Zenon
      <4>3. CASE i = 0 BY <4>1, <4>2, <4>3, Zenon
      <4>4. CASE i # 0
        <5>1. t[i - 1] = r[i - 1] BY <4>1, <4>4
        <5> HIDE DEF t
        <5> QED BY <4>1, <4>2, <4>4, <5>1, Zenon
      <4> QED BY <4>3, <4>4
    <3> QED BY <3>1, <3>2
  <2>4. t = [i \in 0..(m + 1) |-> t[i]] OBVIOUS
  <2> HIDE DEF t
  <2>5. Upto(t, m + 1)
    <3>1. [i \in 0..(m + 1) |-> t[i]] = [i \in 0..(m + 1) |-> Body(t, i)] BY <2>3, Zenon
    <3> QED BY <2>4, <3>1, Zenon
  <2> QED BY <2>5
<1> HIDE DEF S
<1>3. Nat \subseteq S BY <1>1, <1>2, Induct
<1>4. Len(q) \in S BY <1>3
<1> QED BY <1>4, Zenon DEF S, IsLookup

(* ... each entry ... *)
LEMMA LookupAt ==
  ASSUME NEW json, NEW q, Len(q) \in Nat, NEW s, IsLookup(s, json, q), NEW i \in 0..Len(q)
  PROVE s[i] = IF i = 0 THEN json ELSE AE!Entry(s[i - 1], q[i])
<1> DEFINE Body(k) == IF k = 0 THEN json ELSE AE!Entry(s[k - 1], q[k])
<1>1. s = [k \in 0..Len(q) |-> Body(k)] BY Zenon DEF IsLookup
<1>2. [k \in 0..Len(q) |-> Body(k)][i] = Body(i) BY Zenon
<1> QED BY <1>1, <1>2, Zenon

(* ... is the whole JSON ... *)
LEMMA LookupStarts ==
  ASSUME NEW json, NEW q, Len(q) \in Nat, NEW s, IsLookup(s, json, q)
  PROVE s[0] = json
<1> DEFINE Body(k) == IF k = 0 THEN json ELSE AE!Entry(s[k - 1], q[k])
<1>1. s = [k \in 0..Len(q) |-> Body(k)] BY Zenon DEF IsLookup
<1>2. 0 \in 0..Len(q) OBVIOUS
<1>3. [k \in 0..Len(q) |-> Body(k)][0] = Body(0) BY <1>2, Zenon
<1> QED BY <1>1, <1>3, Zenon

(* ... or what the one before has under a name. *)
LEMMA LookupSteps ==
  ASSUME NEW json, NEW q, Len(q) \in Nat, NEW s, IsLookup(s, json, q), NEW i \in 1..Len(q)
  PROVE s[i] = AE!Entry(s[i - 1], q[i])
<1> DEFINE Body(k) == IF k = 0 THEN json ELSE AE!Entry(s[k - 1], q[k])
<1>1. s = [k \in 0..Len(q) |-> Body(k)] BY Zenon DEF IsLookup
<1>2. i \in 0..Len(q) /\ i # 0 OBVIOUS
<1>3. [k \in 0..Len(q) |-> Body(k)][i] = Body(i) BY <1>2, Zenon
<1> QED BY <1>1, <1>2, <1>3, Zenon

(* Follow is the last entry of its table, ... *)
LEMMA FollowIs ==
  ASSUME NEW step, NEW start, NEW q, Len(q) \in Nat
  PROVE \E s : IsFollow(s, step, start, q) /\ AE!Follow(step, start, q) = s[Len(q)]
<1> DEFINE C == CHOOSE s : IsFollow(s, step, start, q)
<1>1. IsFollow(C, step, start, q) BY FollowExists, Zenon
<1>2. AE!Follow(step, start, q) = C[Len(q)] BY Zenon DEF AE!Follow, IsFollow
<1> QED BY <1>1, <1>2

(* ... filter_keys of its, ... *)
LEMMA FilterIs ==
  ASSUME NEW q, Len(q) \in Nat
  PROVE \E s : IsFilter(s, q) /\ AE!filter_keys(q) = s[Len(q)]
<1> DEFINE C == CHOOSE s : IsFilter(s, q)
<1>1. IsFilter(C, q) BY FilterExists, Zenon
<1>2. AE!filter_keys(q) = C[Len(q)] BY Zenon DEF AE!filter_keys, IsFilter
<1> QED BY <1>1, <1>2

(* ... and Lookup of its. *)
LEMMA LookupIs ==
  ASSUME NEW json, NEW q, Len(q) \in Nat
  PROVE \E s : IsLookup(s, json, q) /\ AE!Lookup(json, q) = s[Len(q)]
<1> DEFINE C == CHOOSE s : IsLookup(s, json, q)
<1>1. IsLookup(C, json, q) BY LookupExists, Zenon
<1>2. AE!Lookup(json, q) = C[Len(q)] BY Zenon DEF AE!Lookup, IsLookup
<1> QED BY <1>1, <1>2

------------------------------------------------------------------------------
(* Values and their children. *)

(* What is assumed of values and options. *)
LEMMA AttrTypes ==
    /\ Root \in Node /\ None \notin Node
    /\ MaxAttrDepth \in Nat /\ MaxMetaDepth \in Nat
    /\ ForceRecurse \subseteq BOOLEAN
    /\ \A n \in Node :
         /\ Children[n] \in Seq(STRING \X Node)
         /\ \A i, j \in DOMAIN Children[n] : Children[n][i][1] = Children[n][j][1] => i = j
         /\ Kind[n] \notin {"attrs", "drv", "baddrv", "list"} => Children[n] = <<>>
         /\ Kind[n] = "function" => Result[n] \in Node
  BY DataPathAssumption, Zenon DEF AE!AttrEvalAssumption

(* A sequence that is not empty has a last element. *)
LEMMA SeqSplit ==
  ASSUME NEW T, NEW q \in Seq(T), NEW m \in Nat, Len(q) = m + 1
  PROVE /\ SubSeq(q, 1, m) \in Seq(T) /\ Len(SubSeq(q, 1, m)) = m /\ q[m + 1] \in T
        /\ q = Append(SubSeq(q, 1, m), q[m + 1])
<1>1. SubSeq(q, 1, m) \in Seq(T) /\ Len(SubSeq(q, 1, m)) = m /\ q[m + 1] \in T OBVIOUS
<1>2. q = Append(SubSeq(q, 1, m), q[m + 1]) BY <1>1
<1> QED BY <1>1, <1>2

(* The empty path leads nowhere else. *)
LEMMA FollowEmpty ==
  ASSUME NEW step, NEW start
  PROVE AE!Follow(step, start, <<>>) = start
<1>1. Len(<<>>) = 0 /\ Len(<<>>) \in Nat OBVIOUS
<1>2. PICK s : IsFollow(s, step, start, <<>>) /\ AE!Follow(step, start, <<>>) = s[0] BY <1>1, FollowIs, Zenon
<1>3. s[0] = start BY <1>1, <1>2, FollowStarts
<1> QED BY <1>2, <1>3, Zenon

(* One name more is one step more. *)
LEMMA FollowAppend ==
  ASSUME NEW T, NEW q \in Seq(T), NEW x, NEW step, NEW start
  PROVE AE!Follow(step, start, Append(q, x)) = step[AE!Follow(step, start, q)][x]
<1> DEFINE r == Append(q, x)
<1>1. Len(q) \in Nat /\ Len(r) \in Nat /\ Len(r) = Len(q) + 1 /\ r[Len(q) + 1] = x /\ \A i \in 1..Len(q) : r[i] = q[i] OBVIOUS
<1> HIDE DEF r
<1>2. PICK f : IsFollow(f, step, start, q) /\ AE!Follow(step, start, q) = f[Len(q)] BY <1>1, FollowIs
<1>3. PICK g : IsFollow(g, step, start, r) /\ AE!Follow(step, start, r) = g[Len(r)] BY <1>1, FollowIs
<1>4. f[0] = start /\ \A i \in 1..Len(q) : f[i] = step[f[i - 1]][q[i]] BY <1>1, <1>2, FollowStarts, FollowSteps
<1>5. g[0] = start /\ \A i \in 1..Len(r) : g[i] = step[g[i - 1]][r[i]]
  <2>1. g[0] = start BY <1>1, <1>3, FollowStarts
  <2>2. ASSUME NEW i \in 1..Len(r) PROVE g[i] = step[g[i - 1]][r[i]]
    <3>1. Len(r) \in Nat /\ IsFollow(g, step, start, r) BY <1>1, <1>3
    <3> HIDE <1>1, <1>2, <1>4
    <3> QED BY <3>1, FollowSteps
  <2> QED BY <2>1, <2>2
<1> DEFINE S == {i \in Nat : i <= Len(q) => g[i] = f[i]}
<1>6. 0 \in S BY <1>4, <1>5
<1>7. ASSUME NEW i \in Nat, i \in S PROVE i + 1 \in S
  <2>1. SUFFICES ASSUME i + 1 <= Len(q) PROVE g[i + 1] = f[i + 1] BY <1>7
  <2>2. i + 1 \in 1..Len(q) /\ i + 1 \in 1..Len(r) /\ (i + 1) - 1 = i BY <1>1, <2>1
  <2>3. g[i] = f[i] BY <1>1, <1>7, <2>1
  <2>4. f[i + 1] = step[f[i]][q[i + 1]] BY <1>4, <2>2, Zenon
  <2>5. g[i + 1] = step[g[i]][r[i + 1]] BY <1>5, <2>2, Zenon
  <2>6. r[i + 1] = q[i + 1] BY <1>1, <2>2
  <2> QED BY <2>3, <2>4, <2>5, <2>6, Zenon
<1> HIDE DEF S
<1>8. Nat \subseteq S BY <1>6, <1>7, Induct
<1>9. g[Len(q)] = f[Len(q)]
  <2>1. Len(q) \in S BY <1>1, <1>8
  <2> QED BY <1>1, <2>1 DEF S
<1>10. g[Len(r)] = step[g[Len(q)]][x]
  <2>1. Len(q) + 1 \in 1..Len(r) /\ (Len(q) + 1) - 1 = Len(q) BY <1>1
  <2>2. g[Len(q) + 1] = step[g[Len(q)]][r[Len(q) + 1]] BY <1>5, <2>1, Zenon
  <2> QED BY <1>1, <2>2, Zenon
<1>11. AE!Follow(step, start, r) = step[AE!Follow(step, start, q)][x] BY <1>2, <1>3, <1>9, <1>10, Zenon
<1> QED BY <1>11 DEF r

------------------------------------------------------------------------------
(* Children. *)

(* The names of children are distinct. *)
LEMMA ChildIs ==
  ASSUME NEW n \in Node, NEW i \in DOMAIN Children[n]
  PROVE AE!Child(n, Children[n][i][1]) = Children[n][i][2]
<1> DEFINE found == {j \in DOMAIN Children[n] : Children[n][j][1] = Children[n][i][1]}
<1>1. found = {i} BY AttrTypes
<1>2. found # {} /\ (CHOOSE j \in found : TRUE) = i BY <1>1
<1> QED BY <1>2, Zenon DEF AE!Child

(* Child finds the child of a name, if there is one. *)
LEMMA ChildType ==
  ASSUME NEW n \in Node, NEW name
  PROVE /\ AE!Child(n, name) \in Node \union {None}
        /\ AE!Child(n, name) # None <=> \E i \in DOMAIN Children[n] : Children[n][i][1] = name
        /\ \A i \in DOMAIN Children[n] : Children[n][i][1] = name => AE!Child(n, name) = Children[n][i][2]
<1> DEFINE found == {i \in DOMAIN Children[n] : Children[n][i][1] = name}
<1>0. \A i \in DOMAIN Children[n] : Children[n][i][2] \in Node
  <2> TAKE i \in DOMAIN Children[n]
  <2>1. Children[n] \in Seq(STRING \X Node) BY AttrTypes
  <2>2. Children[n][i] \in STRING \X Node BY <2>1
  <2> QED BY <2>2
<1>1. CASE found = {}
  <2>1. AE!Child(n, name) = None BY <1>1, Zenon DEF AE!Child
  <2> QED BY <1>1, <2>1
<1>2. CASE found # {}
  <2>1. PICK i \in DOMAIN Children[n] : Children[n][i][1] = name BY <1>2
  <2>2. AE!Child(n, name) = Children[n][i][2] BY <2>1, ChildIs, Zenon
  <2>3. \A j \in DOMAIN Children[n] : Children[n][j][1] = name => AE!Child(n, name) = Children[n][j][2]
    BY ChildIs, Zenon
  <2> QED BY <1>0, <2>1, <2>2, <2>3, AttrTypes
<1> QED BY <1>1, <1>2

Forced(n) == IF n = None \/ Kind[n] = "throw" THEN None ELSE n

(* get_attr is Child, forced. *)
LEMMA GetAttrIs ==
  ASSUME NEW n \in Node, NEW name
  PROVE AE!get_attr(n, name) =
          IF Kind[n] \notin {"attrs", "drv", "baddrv"} THEN None ELSE Forced(AE!Child(n, name))
<1> DEFINE found == {Children[n][i][2] : i \in {j \in DOMAIN Children[n] : Children[n][j][1] = name}}
<1>1. CASE AE!Child(n, name) = None
  <2>1. found = {} BY <1>1, ChildType
  <2> QED BY <1>1, <2>1, Zenon DEF AE!get_attr, Forced
<1>2. CASE AE!Child(n, name) # None
  <2>1. PICK c : c = AE!Child(n, name) OBVIOUS
  <2>2. found = {c} BY <1>2, <2>1, ChildType
  <2>3. found # {} /\ (CHOOSE d \in found : TRUE) = c BY <2>2
  <2>4. AE!get_attr(n, name) = IF Kind[n] \notin {"attrs", "drv", "baddrv"} \/ found = {} THEN None
       ELSE LET d == CHOOSE d \in found : TRUE IN IF Kind[d] = "throw" THEN None ELSE d
    BY Zenon DEF AE!get_attr
  <2> HIDE DEF found
  <2> QED BY <1>2, <2>1, <2>3, <2>4, Zenon DEF Forced
<1> QED BY <1>1, <1>2

(* The name of a child is a name. *)
LEMMA NameOfChild ==
  ASSUME NEW n \in Node, NEW i \in DOMAIN Children[n]
  PROVE Children[n][i][1] \in AE!Names
<1>1. Children[n][i][1] \in {Children[n][j][1] : j \in DOMAIN Children[n]} BY Zenon
<1>2. AE!Names = UNION {{Children[m][j][1] : j \in DOMAIN Children[m]} : m \in Node} BY Zenon DEF AE!Names
<1>3. {Children[n][j][1] : j \in DOMAIN Children[n]} \in {{Children[m][j][1] : j \in DOMAIN Children[m]} : m \in Node}
  BY Zenon
<1> QED BY <1>1, <1>2, <1>3, Zenon

------------------------------------------------------------------------------
(* Paths and values. *)

(* Calling a function gives a value. *)
LEMMA CalledType ==
  ASSUME NEW n \in Node \union {None} PROVE AE!Called(n) \in Node \union {None} /\ (AE!Called(n) = None <=> n = None)
  BY AttrTypes DEF AE!Called

(* What Plain and Calling find. *)
LEMMA CallingIs ==
  ASSUME NEW n \in Node \union {None}, NEW k \in AE!Names
  PROVE /\ AE!Plain[n][k] = (IF n = None THEN None ELSE AE!Child(n, k))
        /\ AE!Calling[n][k] = AE!Called(IF n = None THEN None ELSE AE!Child(n, k))
        /\ AE!Plain[n][k] \in Node \union {None} /\ AE!Calling[n][k] \in Node \union {None}
<1>1. AE!Plain[n][k] = (IF n = None THEN None ELSE AE!Child(n, k)) BY Zenon DEF AE!Plain
<1>2. AE!Calling[n][k] = AE!Called(AE!Plain[n][k]) BY Zenon DEF AE!Calling
<1>3. AE!Plain[n][k] \in Node \union {None} BY <1>1, ChildType
<1>4. AE!Calling[n][k] \in Node \union {None} BY <1>2, <1>3, CalledType, Zenon
<1> QED BY <1>1, <1>2, <1>3, <1>4, Zenon

(* The value of the empty path, ... *)
LEMMA ValueEmpty == AE!ValueAt(<<>>) = AE!Called(Root)
  BY FollowEmpty, Zenon DEF AE!ValueAt

(* ... of one name more, ... *)
LEMMA ValueAppend ==
  ASSUME NEW q \in Seq(AE!Names), NEW k
  PROVE AE!ValueAt(Append(q, k)) = AE!Calling[AE!ValueAt(q)][k]
  BY FollowAppend, Zenon DEF AE!ValueAt

(* ... and of every path. *)
LEMMA ValueType ==
  ASSUME NEW q \in Seq(AE!Names)
  PROVE AE!ValueAt(q) \in Node \union {None}
<1> DEFINE S == {m \in Nat : \A r \in Seq(AE!Names) : Len(r) = m => AE!ValueAt(r) \in Node \union {None}}
<1>1. 0 \in S
  <2>1. ASSUME NEW r \in Seq(AE!Names), Len(r) = 0 PROVE AE!ValueAt(r) \in Node \union {None}
    <3>1. r = <<>> BY <2>1
    <3>2. Root \in Node \union {None} BY AttrTypes
    <3>3. AE!Called(Root) \in Node \union {None} BY <3>2, CalledType
    <3> QED BY <3>1, <3>3, ValueEmpty, Zenon
  <2> QED BY <2>1
<1>2. ASSUME NEW m \in Nat, m \in S PROVE m + 1 \in S
  <2>1. ASSUME NEW r \in Seq(AE!Names), Len(r) = m + 1 PROVE AE!ValueAt(r) \in Node \union {None}
    <3>1. PICK h \in Seq(AE!Names), k \in AE!Names : Len(h) = m /\ r = Append(h, k)
      <4>1. /\ SubSeq(r, 1, m) \in Seq(AE!Names) /\ Len(SubSeq(r, 1, m)) = m /\ r[m + 1] \in AE!Names
            /\ r = Append(SubSeq(r, 1, m), r[m + 1])
        BY <2>1, SeqSplit
      <4> QED BY <4>1, Zenon
    <3>2. AE!ValueAt(h) \in Node \union {None} BY <1>2, <3>1
    <3>3. AE!ValueAt(r) = AE!Calling[AE!ValueAt(h)][k] BY <3>1, ValueAppend, Zenon
    <3> QED BY <3>2, <3>3, CallingIs, Zenon
  <2>2. m + 1 \in Nat OBVIOUS
  <2> QED BY <2>1, <2>2, Zenon
<1> HIDE DEF S
<1>3. Nat \subseteq S BY <1>1, <1>2, Induct
<1>4. Len(q) \in S BY <1>3
<1> QED BY <1>4 DEF S

------------------------------------------------------------------------------
(* Paths the recursion rules reach. *)

Elems(s) == {s[j] : j \in 1..Len(s)}
Once(s) == \A j, k \in 1..Len(s) : s[j] = s[k] => j = k

(* What Append adds. *)
LEMMA AppendElems ==
  ASSUME NEW T, NEW s \in Seq(T), NEW x \in T
  PROVE /\ Append(s, x) \in Seq(T)
        /\ Elems(Append(s, x)) = Elems(s) \union {x}
        /\ Once(s) /\ x \notin Elems(s) => Once(Append(s, x))
<1> DEFINE t == Append(s, x)
<1>1. t \in Seq(T) /\ Len(s) \in Nat /\ Len(t) = Len(s) + 1 /\ t[Len(s) + 1] = x /\ \A i \in 1..Len(s) : t[i] = s[i] OBVIOUS
<1>2. \A i : i \in 1..Len(t) <=> i \in 1..Len(s) \/ i = Len(s) + 1 BY <1>1
<1> HIDE DEF t
<1>3. Elems(t) = Elems(s) \union {x}
  <2>1. ASSUME NEW y \in Elems(t) PROVE y \in Elems(s) \union {x} BY <1>1, <1>2, <2>1 DEF Elems
  <2>2. ASSUME NEW y \in Elems(s) PROVE y \in Elems(t) BY <1>1, <1>2, <2>2 DEF Elems
  <2>3. x \in Elems(t) BY <1>1, <1>2 DEF Elems
  <2> QED BY <2>1, <2>2, <2>3
<1>4. ASSUME Once(s), x \notin Elems(s) PROVE Once(t)
  <2>1. \A i \in 1..Len(s) : s[i] # x BY <1>4 DEF Elems
  <2> QED BY <1>1, <1>2, <1>4, <2>1 DEF Once
<1> QED BY <1>1, <1>3, <1>4 DEF t

(* filter_keys drops recurseForDerivations and nothing else. *)
LEMMA FilterFacts ==
  ASSUME NEW T, NEW q \in Seq(T)
  PROVE /\ AE!filter_keys(q) \in Seq(T)
        /\ Elems(AE!filter_keys(q)) = Elems(q) \ {"recurseForDerivations"}
        /\ Once(q) => Once(AE!filter_keys(q))
<1>1. Len(q) \in Nat OBVIOUS
<1>2. PICK s : IsFilter(s, q) /\ AE!filter_keys(q) = s[Len(q)] BY <1>1, FilterIs
<1> DEFINE First(n) == {q[k] : k \in 1..n}
           Good(n) == /\ s[n] \in Seq(T)
                      /\ Elems(s[n]) = First(n) \ {"recurseForDerivations"}
                      /\ Once(q) => Once(s[n])
           S == {n \in Nat : n <= Len(q) => Good(n)}
<1>3. 0 \in S
  <2>1. s[0] = <<>> BY <1>1, <1>2, FilterStarts
  <2>2. First(0) = {} /\ Elems(<<>>) = {} BY DEF Elems
  <2>3. Once(<<>>) /\ <<>> \in Seq(T) BY DEF Once
  <2>4. Good(0) BY <2>1, <2>2, <2>3
  <2> QED BY <2>4
<1>4. ASSUME NEW n \in Nat, n \in S PROVE n + 1 \in S
  <2>1. SUFFICES ASSUME n + 1 <= Len(q) PROVE Good(n + 1) BY <1>4
  <2>2. n + 1 \in 1..Len(q) /\ (n + 1) - 1 = n /\ n <= Len(q) BY <1>1, <2>1
  <2>3. Good(n) BY <1>4, <2>2
  <2>4. s[n + 1] = (IF q[n + 1] = "recurseForDerivations" THEN s[n] ELSE Append(s[n], q[n + 1]))
    <3>1. s[n + 1] = (IF q[n + 1] = "recurseForDerivations" THEN s[(n + 1) - 1] ELSE Append(s[(n + 1) - 1], q[n + 1]))
      BY <1>1, <1>2, <2>2, FilterSteps
    <3> QED BY <2>2, <3>1, Zenon
  <2>5. First(n + 1) = First(n) \union {q[n + 1]}
    <3>1. \A k : k \in 1..(n + 1) <=> k \in 1..n \/ k = n + 1 OBVIOUS
    <3>2. ASSUME NEW y \in First(n + 1) PROVE y \in First(n) \union {q[n + 1]} BY <3>1
    <3>3. ASSUME NEW y \in First(n) PROVE y \in First(n + 1) BY <3>1
    <3>4. q[n + 1] \in First(n + 1) BY <3>1
    <3> HIDE DEF First
    <3> QED BY <3>2, <3>3, <3>4
  <2>6. Once(q) => q[n + 1] \notin First(n)
    <3>1. \A k \in 1..n : k \in 1..Len(q) /\ k # n + 1 BY <1>1, <2>2
    <3> QED BY <2>2, <3>1 DEF Once
  <2>7. q[n + 1] \in T BY <2>2
  <2> HIDE DEF First
  <2>8. CASE q[n + 1] = "recurseForDerivations"
    BY <2>3, <2>4, <2>5, <2>8
  <2>9. CASE q[n + 1] # "recurseForDerivations"
    <3>1. s[n + 1] = Append(s[n], q[n + 1]) BY <2>4, <2>9
    <3>2. /\ Append(s[n], q[n + 1]) \in Seq(T)
          /\ Elems(Append(s[n], q[n + 1])) = Elems(s[n]) \union {q[n + 1]}
          /\ Once(s[n]) /\ q[n + 1] \notin Elems(s[n]) => Once(Append(s[n], q[n + 1]))
      BY <2>3, <2>7, AppendElems
    <3>3. Elems(s[n + 1]) = First(n + 1) \ {"recurseForDerivations"} BY <2>3, <2>5, <2>9, <3>1, <3>2
    <3>4. Once(q) => Once(s[n + 1]) BY <2>3, <2>6, <3>1, <3>2
    <3> QED BY <3>1, <3>2, <3>3, <3>4
  <2> QED BY <2>8, <2>9
<1> HIDE DEF S
<1>5. Nat \subseteq S BY <1>3, <1>4, Induct
<1>6. Good(Len(q))
  <2>1. Len(q) \in S BY <1>1, <1>5
  <2> HIDE DEF Good
  <2> QED BY <1>1, <2>1 DEF S
<1> QED BY <1>2, <1>6, Zenon DEF Elems

------------------------------------------------------------------------------
(* Reachable, one name at a time. *)

Recurses(n, m) ==
    \/ m = 0 \/ force_recurse
    \/ /\ AE!Child(n, "recurseForDerivations") # None
       /\ Kind[AE!Child(n, "recurseForDerivations")] = "true"

Opens(q, k) ==
    /\ AE!ValueAt(q) # None /\ Kind[AE!ValueAt(q)] = "attrs" /\ k # "recurseForDerivations"
    /\ AE!Child(AE!ValueAt(q), k) # None
    /\ Recurses(AE!ValueAt(q), Len(q))

(* The empty path is reachable. *)
LEMMA ReachableEmpty == AE!Reachable(<<>>)
<1>1. 0..(Len(<<>>) - 1) = {} OBVIOUS
<1> QED BY <1>1, Zenon DEF AE!Reachable

(* A path is reachable if the one before is, and opens it. *)
LEMMA ReachableAppend ==
  ASSUME NEW T, NEW q \in Seq(T), NEW k \in T
  PROVE AE!Reachable(Append(q, k)) <=> AE!Reachable(q) /\ Opens(q, k)
<1> DEFINE r == Append(q, k)
           At(u, i) == LET n == AE!ValueAt(SubSeq(u, 1, i))
                       IN /\ n # None /\ Kind[n] = "attrs" /\ u[i + 1] # "recurseForDerivations"
                          /\ AE!Child(n, u[i + 1]) # None
                          /\ i = 0 \/ force_recurse \/ (AE!Child(n, "recurseForDerivations") # None
                                         /\ Kind[AE!Child(n, "recurseForDerivations")] = "true")
<1>1. \A u : AE!Reachable(u) <=> \A i \in 0..(Len(u) - 1) : At(u, i) BY Zenon DEF AE!Reachable
<1>2. Len(q) \in Nat /\ Len(r) = Len(q) + 1 /\ r[Len(q) + 1] = k OBVIOUS
<1>3. \A i : i \in 0..(Len(r) - 1) <=> i \in 0..(Len(q) - 1) \/ i = Len(q) BY <1>2
<1>4. ASSUME NEW i \in 0..(Len(q) - 1) PROVE At(r, i) <=> At(q, i)
  <2>1. SubSeq(r, 1, i) = SubSeq(q, 1, i) /\ r[i + 1] = q[i + 1] BY <1>2
  <2> HIDE DEF r
  <2> QED BY <2>1, Zenon
<1>5. At(r, Len(q)) <=> Opens(q, k)
  <2>1. SubSeq(r, 1, Len(q)) = q BY <1>2
  <2> HIDE DEF r
  <2> QED BY <1>2, <2>1, Zenon DEF Opens, Recurses
<1> HIDE DEF At, r
<1>6. AE!Reachable(r) <=> AE!Reachable(q) /\ Opens(q, k) BY <1>1, <1>3, <1>4, <1>5, Zenon
<1> QED BY <1>6 DEF r

(* Step is Calling, forced. *)
LEMMA StepIs ==
  ASSUME NEW n \in Node, NEW k \in AE!Names, Kind[n] = "attrs"
  PROVE AE!Step[n][k] = Forced(AE!Called(AE!Child(n, k)))
<1>1. AE!Step[n][k] = IF n = None \/ AE!get_attr(n, k) = None THEN None
       ELSE LET called == AE!auto_call_function(AE!get_attr(n, k))
            IN IF Kind[called] = "throw" THEN None ELSE called
  BY Zenon DEF AE!Step
<1>2. n # None BY AttrTypes
<1>3. AE!get_attr(n, k) = Forced(AE!Child(n, k)) BY GetAttrIs
<1>4. PICK c : c = AE!Child(n, k) OBVIOUS
<1>5. c \in Node \union {None} BY <1>4, ChildType
<1>6. CASE c = None BY <1>1, <1>3, <1>4, <1>6, Zenon DEF Forced, AE!Called
<1>7. CASE c # None /\ Kind[c] = "throw"
  <2>1. AE!Called(c) = c BY <1>7 DEF AE!Called
  <2> QED BY <1>1, <1>3, <1>4, <1>7, <2>1, Zenon DEF Forced
<1>8. CASE c # None /\ Kind[c] # "throw"
  <2>1. AE!get_attr(n, k) = c BY <1>3, <1>4, <1>8, Zenon DEF Forced
  <2>2. AE!Called(c) = AE!auto_call_function(c) BY <1>8, Zenon DEF AE!Called, AE!auto_call_function
  <2>3. AE!Called(c) # None BY <1>5, <1>8, CalledType
  <2> QED BY <1>1, <1>2, <1>4, <1>8, <2>1, <2>2, <2>3, Zenon DEF Forced
<1> QED BY <1>6, <1>7, <1>8

(* What navigate finds is what walking the value finds, forced. *)
LEMMA NavigateIs ==
  ASSUME Kind[Root] # "function", NEW q \in Seq(AE!Names), AE!Reachable(q)
  PROVE AE!navigate(q) = Forced(AE!ValueAt(q))
<1> DEFINE S == {m \in Nat : \A r \in Seq(AE!Names) : Len(r) = m /\ AE!Reachable(r) => AE!navigate(r) = Forced(AE!ValueAt(r))}
<1>0. Root \in Node /\ Root # None BY AttrTypes
<1>1. AE!navigate(<<>>) = Forced(AE!ValueAt(<<>>))
  <2>1. AE!Called(Root) = Root /\ AE!auto_call_function(Root) = Root BY Zenon DEF AE!Called, AE!auto_call_function
  <2> QED BY <1>0, <2>1, ValueEmpty, Zenon DEF AE!navigate, Forced
<1>2. 0 \in S
  <2>1. ASSUME NEW r \in Seq(AE!Names), Len(r) = 0 PROVE r = <<>> BY <2>1
  <2> QED BY <1>1, <2>1, Zenon
<1>3. ASSUME NEW m \in Nat, m \in S PROVE m + 1 \in S
  <2>1. ASSUME NEW r \in Seq(AE!Names), Len(r) = m + 1, AE!Reachable(r) PROVE AE!navigate(r) = Forced(AE!ValueAt(r))
    <3>1. PICK h \in Seq(AE!Names), k \in AE!Names : Len(h) = m /\ r = Append(h, k)
      <4>1. /\ SubSeq(r, 1, m) \in Seq(AE!Names) /\ Len(SubSeq(r, 1, m)) = m /\ r[m + 1] \in AE!Names
            /\ r = Append(SubSeq(r, 1, m), r[m + 1])
        BY <2>1, SeqSplit
      <4> QED BY <4>1, Zenon
    <3>2. AE!Reachable(h) /\ Opens(h, k)
      <4>1. AE!Reachable(Append(h, k)) BY <2>1, <3>1, Zenon
      <4> QED BY <4>1, ReachableAppend
    <3>3. AE!navigate(h) = Forced(AE!ValueAt(h)) BY <1>3, <3>1, <3>2
    <3>4. PICK n : n = AE!ValueAt(h) OBVIOUS
    <3>5. n \in Node \union {None} /\ n # None /\ Kind[n] = "attrs" BY <3>2, <3>4, ValueType DEF Opens
    <3>6. AE!navigate(h) = n BY <3>3, <3>4, <3>5 DEF Forced
    <3>7. AE!Follow(AE!Step, Root, h) = n
      <4>1. CASE h = <<>>
        <5>1. n = Root BY <3>4, <4>1, ValueEmpty, Zenon DEF AE!Called
        <5> QED BY <4>1, <5>1, FollowEmpty, Zenon
      <4>2. CASE h # <<>> BY <3>6, <4>2, Zenon DEF AE!navigate
      <4> QED BY <4>1, <4>2
    <3>8. r # <<>> BY <2>1
    <3>9. AE!navigate(r) = AE!Follow(AE!Step, Root, Append(h, k)) BY <3>1, <3>8, Zenon DEF AE!navigate
    <3>10. AE!Follow(AE!Step, Root, Append(h, k)) = AE!Step[n][k] BY <3>7, FollowAppend, Zenon
    <3>11. AE!Step[n][k] = Forced(AE!Called(AE!Child(n, k))) BY <3>5, StepIs
    <3>12. AE!ValueAt(r) = AE!Calling[n][k] BY <3>1, <3>4, ValueAppend, Zenon
    <3>13. AE!Calling[n][k] = AE!Called(AE!Child(n, k)) BY <3>5, CallingIs, Zenon
    <3> QED BY <3>9, <3>10, <3>11, <3>12, <3>13, Zenon
  <2>2. m + 1 \in Nat OBVIOUS
  <2> QED BY <2>1, <2>2, Zenon
<1> HIDE DEF S
<1>4. Nat \subseteq S BY <1>2, <1>3, Induct
<1>5. Len(q) \in S BY <1>4
<1> QED BY <1>5 DEF S

------------------------------------------------------------------------------
(* Answers and GC roots. *)

(* What make_job reports. *)
LEMMA JobFields ==
  ASSUME NEW n
  PROVE /\ AE!make_job(n).kind = "Derivation" /\ AE!make_job(n).node = n
        /\ AE!make_job(n).outputs = (IF Drv[n].throws THEN AE!output_paths(n) ELSE AE!value_output_paths(n))
        /\ AE!make_job(n).meta = (IF Meta THEN AE!read_meta(n) ELSE AE!JsonNone)
        /\ AE!make_job(n).gcRootError = FALSE
<1>1. PICK a, b, c, d : /\ a = (IF Drv[n].throws THEN AE!output_paths(n) ELSE AE!value_output_paths(n))
                        /\ b = (IF Meta THEN AE!read_meta(n) ELSE AE!JsonNone)
                        /\ c = (IF ShowInputDrvs THEN AE!read_input_drvs(n) ELSE {})
                        /\ d = AE!read_constituents(n)
  OBVIOUS
<1>2. AE!make_job(n) = [kind |-> "Derivation", node |-> n, outputs |-> a, meta |-> b, inputDrvs |-> c,
                        constituents |-> d, gcRootError |-> FALSE]
  BY <1>1, Zenon DEF AE!make_job
<1>3. PICK j : j = AE!make_job(n) OBVIOUS
<1>4. j = [kind |-> "Derivation", node |-> n, outputs |-> a, meta |-> b, inputDrvs |-> c,
           constituents |-> d, gcRootError |-> FALSE]
  BY <1>2, <1>3, Zenon
<1>5. j.kind = "Derivation" /\ j.node = n /\ j.outputs = a /\ j.meta = b /\ j.gcRootError = FALSE
  BY <1>4
<1> QED BY <1>1, <1>3, <1>5, Zenon

(* The answers of process_attr, and when it gives them. *)
LEMMA ProcessShape ==
  ASSUME NEW q
  PROVE LET n == AE!navigate(q)
            e == AE!process_attr(q)
        IN \/ /\ e.kind = "Error"
              /\ \/ n = None \/ Kind[n] = "baddrv"
                 \/ Kind[n] = "drv" /\ (~Drv[n].named \/ AE!make_job(n).meta = AE!JsonFail)
                 \/ Kind[n] = "attrs" /\ Len(q) >= MaxAttrDepth
                 \/ Kind[n] \notin AE!Kinds
           \/ e = AE!make_job(n) /\ n # None /\ Kind[n] = "drv" /\ AE!make_job(n).meta # AE!JsonFail
           \/ e = [kind |-> "AttrSet", attrs |-> <<>>] /\ n # None /\ Kind[n] \notin {"attrs", "drv", "baddrv"}
           \/ /\ e = [kind |-> "AttrSet", attrs |-> AE!collect_recurse(n, q)]
              /\ n # None /\ Kind[n] = "attrs" /\ ~(Len(q) >= MaxAttrDepth)
<1>1. PICK n : n = AE!navigate(q) OBVIOUS
<1>2. AE!process_attr(q) =
       IF n = None THEN AE!Error("navigate")
       ELSE IF Kind[n] \notin {"attrs", "drv", "baddrv"} THEN [kind |-> "AttrSet", attrs |-> <<>>]
       ELSE IF Kind[n] = "baddrv" THEN AE!Error("derivation")
       ELSE IF Kind[n] = "drv"
       THEN IF ~Drv[n].named \/ AE!make_job(n).meta = AE!JsonFail THEN AE!Error("job") ELSE AE!make_job(n)
       ELSE IF Len(q) >= MaxAttrDepth THEN AE!Error("depth")
       ELSE [kind |-> "AttrSet", attrs |-> AE!collect_recurse(n, q)]
  BY <1>1, Zenon DEF AE!process_attr
<1>3. \A why : AE!Error(why).kind = "Error" BY DEF AE!Error
<1>4. Kind[n] \in {"attrs", "drv", "baddrv"} /\ Kind[n] # "baddrv" /\ Kind[n] # "drv" => Kind[n] = "attrs" OBVIOUS
<1>5. "attrs" # "drv" /\ "attrs" # "baddrv" /\ "drv" # "baddrv" OBVIOUS
<1> QED BY <1>1, <1>2, <1>3, <1>4, <1>5, Zenon

(* Only a derivation is reported as one. *)
LEMMA ProcessKinds ==
  ASSUME NEW q
  PROVE /\ AE!process_attr(q).kind \in {"Derivation", "AttrSet", "Error"}
        /\ AE!process_attr(q).kind = "Derivation" =>
             /\ AE!process_attr(q) = AE!make_job(AE!navigate(q)) /\ AE!navigate(q) # None /\ Kind[AE!navigate(q)] = "drv"
             /\ AE!make_job(AE!navigate(q)).meta # AE!JsonFail
<1>1. \A n : AE!make_job(n).kind = "Derivation" BY JobFields
<1>2. \A a : [kind |-> "AttrSet", attrs |-> a].kind = "AttrSet" OBVIOUS
<1>3. "AttrSet" # "Derivation" /\ "Error" # "Derivation" OBVIOUS
<1> QED BY <1>1, <1>2, <1>3, ProcessShape, Zenon

(* What is on record for a path. *)
Fit(q, e) ==
    \/ e = AE!process_attr(q)
    \/ /\ AE!process_attr(q).kind = "Derivation"
       /\ \E b \in BOOLEAN : e = [AE!process_attr(q) EXCEPT !.gcRootError = b]

(* The answer for a path does not change while others are evaluated. *)
LEMMA ProcessStays ==
  ASSUME NEW q, force_recurse' = force_recurse PROVE AE!process_attr(q)' = AE!process_attr(q)
  BY Zenon DEF AE!process_attr, AE!collect_recurse

(* Neither does what may be on record. *)
LEMMA FitStays ==
  ASSUME NEW q, NEW e, force_recurse' = force_recurse PROVE Fit(q, e)' <=> Fit(q, e)
<1>1. AE!process_attr(q)' = AE!process_attr(q) BY ProcessStays
<1> QED BY <1>1 DEF Fit

(* What is on record for a path is the answer for it, but for gcRootError. *)
LEMMA FitFacts ==
  ASSUME NEW q, NEW e, Fit(q, e)
  PROVE /\ e.kind = AE!process_attr(q).kind
        /\ e.kind = "Derivation" =>
             /\ AE!navigate(q) # None /\ Kind[AE!navigate(q)] = "drv"
             /\ e.node = AE!navigate(q) /\ e.outputs = AE!make_job(e.node).outputs
             /\ e.meta = AE!make_job(e.node).meta /\ e.meta # AE!JsonFail
        /\ e.kind # "Derivation" => e = AE!process_attr(q)
<1>1. CASE e = AE!process_attr(q)
  <2>1. CASE e.kind = "Derivation"
    <3>1. PICK n : n = AE!navigate(q) OBVIOUS
    <3>2. n # None /\ Kind[n] = "drv" /\ e = AE!make_job(n) /\ AE!make_job(n).meta # AE!JsonFail BY <1>1, <2>1, <3>1, ProcessKinds, Zenon
    <3>3. e.node = n BY <3>2, JobFields, Zenon
    <3> QED BY <1>1, <2>1, <3>1, <3>2, <3>3, Zenon
  <2>2. CASE e.kind # "Derivation" BY <1>1, <2>2, Zenon
  <2> QED BY <2>1, <2>2
<1>2. CASE /\ AE!process_attr(q).kind = "Derivation"
           /\ \E b \in BOOLEAN : e = [AE!process_attr(q) EXCEPT !.gcRootError = b]
  <2>1. PICK b \in BOOLEAN : e = [AE!process_attr(q) EXCEPT !.gcRootError = b] BY <1>2
  <2>2. PICK n : n = AE!navigate(q) OBVIOUS
  <2>3. n # None /\ Kind[n] = "drv" /\ AE!process_attr(q) = AE!make_job(n) /\ AE!make_job(n).meta # AE!JsonFail BY <1>2, <2>2, ProcessKinds, Zenon
  <2>4. PICK j : j = AE!make_job(n) OBVIOUS
  <2>5. e = [j EXCEPT !.gcRootError = b] BY <2>1, <2>3, <2>4, Zenon
  <2>6. j.kind = "Derivation" /\ j.node = n BY <2>4, JobFields, Zenon
  <2>7. e.kind = j.kind /\ e.node = j.node /\ e.outputs = j.outputs /\ e.meta = j.meta
    <3>1. PICK a, m, c, d : j = [kind |-> "Derivation", node |-> n, outputs |-> a, meta |-> m, inputDrvs |-> c,
                                 constituents |-> d, gcRootError |-> FALSE]
      BY <2>4, Zenon DEF AE!make_job
    <3> QED BY <2>5, <3>1
  <2> QED BY <2>2, <2>3, <2>4, <2>6, <2>7, Zenon
<1> QED BY <1>1, <1>2, Zenon DEF Fit

RootsInv ==
    /\ at \in [Workers -> {"idle", "evaluate", "root", "link"}]
    /\ item = [w \in Workers |-> item[w]]
    /\ \A w \in Workers : at[w] \in {"root", "link"} => AE!process_attr(item[w]).kind = "Derivation" /\ GcRoots
    /\ \A q \in DOMAIN events : Fit(q, events[q])
    /\ AE!RootsRegistered

(* Nothing is on record at first. *)
LEMMA RootsStart == AE!Init => RootsInv
<1>1. SUFFICES ASSUME AE!Init PROVE RootsInv OBVIOUS
<1>2. /\ at = [w \in Workers |-> "idle"] /\ item = [w \in Workers |-> <<>>] /\ events = <<>>
  BY <1>1, Zenon DEF AE!Init
<1>3. DOMAIN events = {} BY <1>2
<1> QED BY <1>2, <1>3 DEF RootsInv, AE!RootsRegistered

(* What a step does: a path is taken, a worker goes on, or it answers. *)
Taken(w) ==
    /\ at[w] = "idle" /\ queue # <<>>
    /\ item' = [item EXCEPT ![w] = Head(queue)] /\ queue' = Tail(queue)
    /\ at' = [at EXCEPT ![w] = "evaluate"]
    /\ events' = events /\ links' = links

GoneOn(w) ==
    /\ \/ at[w] = "evaluate" /\ at' = [at EXCEPT ![w] = "root"]
             /\ AE!process_attr(item[w]).kind = "Derivation" /\ GcRoots
       \/ at[w] = "root" /\ at' = [at EXCEPT ![w] = "link"]
    /\ item' = item /\ queue' = queue /\ events' = events /\ links' = links

Answered(w, e) ==
    /\ at[w] # "idle" /\ AE!Answer(w, e) /\ item' = item
    /\ \/ /\ at[w] = "evaluate" /\ e = AE!process_attr(item[w]) /\ links' = links
          /\ ~(e.kind = "Derivation" /\ GcRoots)
       \/ /\ at[w] = "root" /\ e = AE!process_attr(item[w]) /\ links' = links
          /\ AE!LinkOf(w) \in links
       \/ /\ at[w] = "link" /\ links' = links \union {AE!LinkOf(w)}
          /\ \E b \in BOOLEAN : e = [AE!process_attr(item[w]) EXCEPT !.gcRootError = b]
       \/ /\ at[w] = "root" /\ e = [AE!process_attr(item[w]) EXCEPT !.gcRootError = TRUE]
          /\ links' = links

(* A derivation whose root failed says so. *)
LEMMA FailureShows ==
  ASSUME NEW q, AE!process_attr(q).kind = "Derivation"
  PROVE [AE!process_attr(q) EXCEPT !.gcRootError = TRUE].gcRootError = TRUE
<1>1. PICK n : AE!process_attr(q) = AE!make_job(n) BY ProcessKinds, Zenon
<1>2. PICK a, m, c, d, o : AE!make_job(n) = [kind |-> "Derivation", node |-> n, outputs |-> o, meta |-> m,
                                             inputDrvs |-> c, constituents |-> d, gcRootError |-> a]
  BY Zenon DEF AE!make_job
<1>3. PICK j : j = AE!process_attr(q) OBVIOUS
<1>4. j = [kind |-> "Derivation", node |-> n, outputs |-> o, meta |-> m,
           inputDrvs |-> c, constituents |-> d, gcRootError |-> a]
  BY <1>1, <1>2, <1>3, Zenon
<1>5. [j EXCEPT !.gcRootError = TRUE].gcRootError = TRUE BY <1>4
<1> QED BY <1>3, <1>5, Zenon

(* Every step takes a path, goes on with one or answers. *)
LEMMA AttributeSteps ==
  ASSUME AE!Next
  PROVE /\ force_recurse' = force_recurse
        /\ \E w \in Workers : Taken(w) \/ GoneOn(w) \/ \E e : Answered(w, e)
<1>1. PICK w \in Workers : AE!Take(w) \/ AE!Evaluate(w) \/ AE!EnsureFails(w) \/ AE!CheckLink(w) \/ AE!MakeLink(w)
  BY Zenon DEF AE!Next
<1>2. CASE AE!Take(w) BY <1>2, Zenon DEF AE!Take, Taken
<1>0. "evaluate" # "idle" /\ "root" # "idle" /\ "link" # "idle" OBVIOUS
<1>3. CASE AE!Evaluate(w)
  <2>1. CASE AE!process_attr(item[w]).kind = "Derivation" /\ GcRoots
    <3>1. GoneOn(w) /\ force_recurse' = force_recurse BY <1>3, <2>1, Zenon DEF AE!Evaluate, GoneOn
    <3> QED BY <3>1
  <2>2. CASE ~(AE!process_attr(item[w]).kind = "Derivation" /\ GcRoots)
    <3>1. Answered(w, AE!process_attr(item[w])) /\ force_recurse' = force_recurse
      BY <1>0, <1>3, <2>2, Zenon DEF AE!Evaluate, Answered
    <3> QED BY <3>1
  <2> QED BY <2>1, <2>2
<1>4. CASE AE!CheckLink(w)
  <2>1. CASE AE!LinkOf(w) \in links
    <3>1. Answered(w, AE!process_attr(item[w])) /\ force_recurse' = force_recurse
      BY <1>0, <1>4, <2>1, Zenon DEF AE!CheckLink, Answered
    <3> QED BY <3>1
  <2>2. CASE AE!LinkOf(w) \notin links
    <3>1. GoneOn(w) /\ force_recurse' = force_recurse BY <1>4, <2>2, Zenon DEF AE!CheckLink, GoneOn
    <3> QED BY <3>1
  <2> QED BY <2>1, <2>2
<1>6. CASE AE!EnsureFails(w)
  <2>1. Answered(w, [AE!process_attr(item[w]) EXCEPT !.gcRootError = TRUE]) /\ force_recurse' = force_recurse
    BY <1>0, <1>6, Zenon DEF AE!EnsureFails, Answered
  <2> QED BY <2>1
<1>5. CASE AE!MakeLink(w)
  <2>1. (AE!LinkOf(w) \in links) \in BOOLEAN OBVIOUS
  <2>2. Answered(w, [AE!process_attr(item[w]) EXCEPT !.gcRootError = AE!LinkOf(w) \in links]) /\ force_recurse' = force_recurse
    BY <1>0, <1>5, <2>1, Zenon DEF AE!MakeLink, Answered
  <2> QED BY <2>2
<1> QED BY <1>1, <1>2, <1>3, <1>4, <1>5, <1>6

(* Every step keeps the answers and the roots right, ... *)
LEMMA RootsKeep ==
  ASSUME RootsInv, AE!Next
  PROVE RootsInv'
<1>1. PICK w \in Workers : Taken(w) \/ GoneOn(w) \/ \E e : Answered(w, e) BY AttributeSteps
<1>2. force_recurse' = force_recurse BY AttributeSteps
<1>3. \A q, e : Fit(q, e) => Fit(q, e)' BY <1>2, FitStays
<1>4. \A q : AE!process_attr(q)' = AE!process_attr(q) BY <1>2, ProcessStays
<1>5. ASSUME at' \in [Workers -> {"idle", "evaluate", "root", "link"}], item' = [v \in Workers |-> item'[v]],
             \A v \in Workers : at'[v] \in {"root", "link"} => AE!process_attr(item'[v]).kind = "Derivation" /\ GcRoots,
             \A q \in DOMAIN events' : Fit(q, events'[q]),
             AE!RootsRegistered'
      PROVE RootsInv'
  <2>1. \A v \in Workers : at'[v] \in {"root", "link"} => AE!process_attr(item[v])'.kind = "Derivation" /\ GcRoots
    BY <1>4, <1>5, Zenon
  <2>2. \A q \in DOMAIN events' : Fit(q, events[q])' BY <1>3, <1>5, Zenon
  <2> QED BY <1>5, <2>1, <2>2, Zenon DEF RootsInv
<1>6. CASE Taken(w)
  <2>1. /\ at' = [at EXCEPT ![w] = "evaluate"] /\ item' = [item EXCEPT ![w] = Head(queue)]
        /\ events' = events /\ links' = links
    BY <1>6, Zenon DEF Taken
  <2>2. at' \in [Workers -> {"idle", "evaluate", "root", "link"}] BY <2>1 DEF RootsInv
  <2>3. item' = [v \in Workers |-> item'[v]] /\ \A v \in Workers : v # w => item'[v] = item[v] BY <2>1 DEF RootsInv
  <2>4. \A v \in Workers : at'[v] \in {"root", "link"} => v # w /\ at'[v] = at[v] BY <2>1 DEF RootsInv
  <2>5. \A v \in Workers : at'[v] \in {"root", "link"} => AE!process_attr(item'[v]).kind = "Derivation" /\ GcRoots
    BY <2>3, <2>4, Zenon DEF RootsInv
  <2>6. AE!RootsRegistered' BY <2>1, Zenon DEF RootsInv, AE!RootsRegistered
  <2>7. \A q \in DOMAIN events' : Fit(q, events'[q]) BY <2>1, Zenon DEF RootsInv
  <2> QED BY <1>5, <2>2, <2>3, <2>5, <2>6, <2>7
<1>7. CASE GoneOn(w)
  <2>1. /\ item' = item /\ events' = events /\ links' = links
        /\ \/ at' = [at EXCEPT ![w] = "root"] \/ at' = [at EXCEPT ![w] = "link"]
        /\ AE!process_attr(item[w]).kind = "Derivation" /\ GcRoots
    <3>1. at[w] = "root" => AE!process_attr(item[w]).kind = "Derivation" /\ GcRoots BY DEF RootsInv
    <3> QED BY <1>7, <3>1, Zenon DEF GoneOn
  <2>2. at' \in [Workers -> {"idle", "evaluate", "root", "link"}] BY <2>1 DEF RootsInv
  <2>3. \A v \in Workers : v # w => at'[v] = at[v] BY <2>1 DEF RootsInv
  <2>5. \A v \in Workers : at'[v] \in {"root", "link"} => AE!process_attr(item'[v]).kind = "Derivation" /\ GcRoots
    BY <2>1, <2>3, Zenon DEF RootsInv
  <2>6. AE!RootsRegistered' BY <2>1, Zenon DEF RootsInv, AE!RootsRegistered
  <2>7. \A q \in DOMAIN events' : Fit(q, events'[q]) BY <2>1, Zenon DEF RootsInv
  <2>8. item' = [v \in Workers |-> item'[v]] BY <2>1, Zenon DEF RootsInv
  <2> QED BY <1>5, <2>2, <2>5, <2>6, <2>7, <2>8
<1>8. ASSUME NEW e, Answered(w, e) PROVE RootsInv'
  <2>1. /\ item' = item /\ at' = [at EXCEPT ![w] = "idle"]
        /\ events' = [q \in DOMAIN events \union {item[w]} |-> IF q = item[w] THEN e ELSE events[q]]
        /\ links \subseteq links'
    BY <1>8, Zenon DEF Answered, AE!Answer
  <2>2. at' \in [Workers -> {"idle", "evaluate", "root", "link"}] BY <2>1 DEF RootsInv
  <2>3. \A v \in Workers : at'[v] \in {"root", "link"} => v # w /\ at'[v] = at[v] BY <2>1 DEF RootsInv
  <2>4. item' = [v \in Workers |-> item'[v]] BY <2>1, Zenon DEF RootsInv
  <2>5. \A v \in Workers : at'[v] \in {"root", "link"} => AE!process_attr(item'[v]).kind = "Derivation" /\ GcRoots
    BY <2>1, <2>3, Zenon DEF RootsInv
  <2>6. Fit(item[w], e)
    <3>1. at[w] \in {"root", "link"} => AE!process_attr(item[w]).kind = "Derivation" BY DEF RootsInv
    <3>2. TRUE \in BOOLEAN /\ "root" \in {"root", "link"} /\ "link" \in {"root", "link"} OBVIOUS
    <3> QED BY <1>8, <3>1, <3>2, Zenon DEF Answered, Fit
  <2>7. \A q \in DOMAIN events' : (q = item[w] /\ events'[q] = e) \/ (q \in DOMAIN events /\ events'[q] = events[q])
    BY <2>1, Zenon
  <2>8. \A q \in DOMAIN events' : Fit(q, events'[q]) BY <2>6, <2>7, Zenon DEF RootsInv
  <2>9. AE!RootsRegistered'
    <3>1. ASSUME GcRoots, e.kind = "Derivation", ~e.gcRootError PROVE Drv[e.node].drvPath \in links'
      <4>1. e.node = AE!navigate(item[w]) BY <2>6, <3>1, FitFacts, Zenon
      <4>2. AE!LinkOf(w) = Drv[e.node].drvPath BY <4>1, Zenon DEF AE!LinkOf
      <4>4. e # [AE!process_attr(item[w]) EXCEPT !.gcRootError = TRUE] \/ at[w] # "root"
        <5>1. at[w] = "root" => AE!process_attr(item[w]).kind = "Derivation" BY DEF RootsInv
        <5> QED BY <3>1, <5>1, FailureShows, Zenon
      <4>3. AE!LinkOf(w) \in links' BY <1>8, <3>1, <4>4, Zenon DEF Answered
      <4> QED BY <4>2, <4>3, Zenon
    <3>2. ASSUME GcRoots, NEW q \in DOMAIN events', events'[q].kind = "Derivation", ~events'[q].gcRootError
          PROVE Drv[events'[q].node].drvPath \in links'
      <4>1. CASE q = item[w] /\ events'[q] = e BY <3>1, <3>2, <4>1, Zenon
      <4>2. CASE q \in DOMAIN events /\ events'[q] = events[q]
        <5>1. Drv[events[q].node].drvPath \in links BY <3>2, <4>2, Zenon DEF RootsInv, AE!RootsRegistered
        <5> QED BY <2>1, <4>2, <5>1, Zenon
      <4> QED BY <2>7, <4>1, <4>2, Zenon
    <3> QED BY <3>2, Zenon DEF AE!RootsRegistered
  <2> QED BY <1>5, <2>2, <2>4, <2>5, <2>8, <2>9
<1> QED BY <1>1, <1>6, <1>7, <1>8

(* ... and so does a step of nobody. *)
LEMMA RootsStay ==
  ASSUME RootsInv, UNCHANGED AE!vars
  PROVE RootsInv'
<1>1. /\ force_recurse' = force_recurse /\ at' = at /\ item' = item /\ events' = events /\ links' = links
  BY DEF AE!vars
<1>2. \A q, e : Fit(q, e) => Fit(q, e)' BY <1>1, FitStays
<1>3. \A q : AE!process_attr(q)' = AE!process_attr(q) BY <1>1, ProcessStays
<1>4. \A v \in Workers : at'[v] \in {"root", "link"} => AE!process_attr(item[v])'.kind = "Derivation" /\ GcRoots
  BY <1>1, <1>3, Zenon DEF RootsInv
<1>5. \A q \in DOMAIN events' : Fit(q, events[q])' BY <1>1, <1>2, Zenon DEF RootsInv
<1>6. AE!RootsRegistered' BY <1>1, Zenon DEF RootsInv, AE!RootsRegistered
<1> QED BY <1>1, <1>4, <1>5, <1>6, Zenon DEF RootsInv

(* The outputs from the value and from the .drv. *)
LEMMA OutputsSame ==
  ASSUME NEW d, Drv[d].readable
  PROVE AE!make_job(d).outputs = [o \in DOMAIN Drv[d].outputs |->
                                    IF Drv[d].outputs[o] = "floating" THEN None ELSE AE!StorePath(o)]
<1> DEFINE Right(o) == IF Drv[d].outputs[o] = "floating" THEN None ELSE AE!StorePath(o)
           FromValue(o) == IF AE!OutPath(d, o).dir = "store" THEN AE!OutPath(d, o) ELSE None
           FromDrv(o) == IF AE!JsonPath(d, o) # None THEN AE!absolute_store_path(AE!JsonPath(d, o))
                         ELSE IF AE!OutPath(d, o).dir = "store" THEN AE!OutPath(d, o) ELSE None
<1>1. \A o : AE!StorePath(o).dir = "store" /\ AE!Placeholder(o).dir # "store" BY DEF AE!StorePath, AE!Placeholder
<1>2. ASSUME NEW o PROVE FromValue(o) = Right(o) BY <1>1, Zenon DEF AE!OutPath
<1>3. \A o : AE!absolute_store_path([dir |-> "relative", of |-> o]) = AE!StorePath(o)
  <2> TAKE o
  <2>1. [[dir |-> "relative", of |-> o] EXCEPT !.dir = "store"] = [dir |-> "store", of |-> o] OBVIOUS
  <2>2. [dir |-> "relative", of |-> o].dir = "relative" OBVIOUS
  <2> QED BY <2>1, <2>2, Zenon DEF AE!absolute_store_path, AE!StorePath
<1>4. ASSUME NEW o PROVE FromDrv(o) = Right(o)
  <2>1. "input" # "floating" OBVIOUS
  <2>2. CASE Drv[d].outputs[o] = "input"
    <3>1. AE!JsonPath(d, o) = [dir |-> "relative", of |-> o] BY <2>2, Zenon DEF AE!JsonPath
    <3>2. AE!absolute_store_path(AE!JsonPath(d, o)) = AE!StorePath(o) BY <1>3, <3>1, Zenon
    <3>3. Right(o) = AE!StorePath(o) BY <2>1, <2>2, Zenon
    <3> QED BY <1>2, <3>2, <3>3, Zenon
  <2>3. CASE Drv[d].outputs[o] # "input"
    <3>1. AE!JsonPath(d, o) = None BY <2>3, Zenon DEF AE!JsonPath
    <3> QED BY <1>2, <3>1, Zenon
  <2> QED BY <2>2, <2>3
<1>5. AE!value_output_paths(d) = [o \in DOMAIN Drv[d].outputs |-> FromValue(o)] BY Zenon DEF AE!value_output_paths
<1>6. AE!output_paths(d) = [o \in DOMAIN Drv[d].outputs |-> FromDrv(o)] BY Zenon DEF AE!output_paths
<1> HIDE DEF FromValue, FromDrv, Right
<1>7. AE!value_output_paths(d) = [o \in DOMAIN Drv[d].outputs |-> Right(o)] BY <1>2, <1>5, Zenon
<1>8. AE!output_paths(d) = [o \in DOMAIN Drv[d].outputs |-> Right(o)] BY <1>4, <1>6, Zenon
<1>9. AE!make_job(d).outputs = [o \in DOMAIN Drv[d].outputs |-> Right(o)] BY <1>7, <1>8, JobFields, Zenon
<1> QED BY <1>9 DEF Right

(* The outputs on record are those. *)
LEMMA OutputsRight == RootsInv => AE!OutputsAgree
<1>1. SUFFICES ASSUME RootsInv, NEW q \in DOMAIN events, events[q].kind = "Derivation", Drv[events[q].node].readable
               PROVE events[q].outputs = [o \in DOMAIN Drv[events[q].node].outputs |->
                                    IF Drv[events[q].node].outputs[o] = "floating" THEN None ELSE AE!StorePath(o)]
  BY Zenon DEF AE!OutputsAgree
<1>2. Fit(q, events[q]) BY <1>1 DEF RootsInv
<1>3. events[q].outputs = AE!make_job(events[q].node).outputs BY <1>1, <1>2, FitFacts, Zenon
<1> QED BY <1>1, <1>3, OutputsSame, Zenon

(* A step of the attributes is one of AttrEval. *)
LEMMA AttributeStep ==
  ASSUME [Next]_vars, part = "attributes"
  PROVE [AE!Next]_(AE!vars)
<1>1. CASE UNCHANGED vars BY <1>1 DEF vars, AttributeVars, AE!vars
<1>2. CASE EvaluateAttributes BY <1>2, Zenon DEF EvaluateAttributes
<1>4. CASE NameDirectory \/ LockFlake \/ CarryMessages \/ KeepGraph \/ MatchPattern
  <2>1. part # "attributes"
    BY <1>4 DEF NameDirectory, LockFlake, CarryMessages, KeepGraph, MatchPattern
  <2> QED BY <2>1
<1> QED BY <1>1, <1>2, <1>4, Zenon DEF Next

------------------------------------------------------------------------------
(* The names an answer opens. *)

(* Names in attribute sets are names. *)
LEMMA AttrNamesAreNames == AE!AttrNames \subseteq AE!Names
  BY DEF AE!AttrNames, AE!Names

(* The name of a child of an attribute set is one. *)
LEMMA AttrNameOfChild ==
  ASSUME NEW n \in Node, Kind[n] = "attrs", NEW i \in DOMAIN Children[n]
  PROVE Children[n][i][1] \in AE!AttrNames
<1>1. Children[n][i][1] \in {Children[n][j][1] : j \in DOMAIN Children[n]} BY Zenon
<1>2. n \in {m \in Node : Kind[m] = "attrs"} BY Zenon
<1>3. {Children[n][j][1] : j \in DOMAIN Children[n]} \in {{Children[m][j][1] : j \in DOMAIN Children[m]} : m \in {m \in Node : Kind[m] = "attrs"}}
  BY <1>2, Zenon
<1> QED BY <1>1, <1>3, Zenon DEF AE!AttrNames

(* The keys of an attribute set, each once. *)
LEMMA KeysFacts ==
  ASSUME NEW n \in Node, Kind[n] = "attrs"
  PROVE /\ AE!attr_keys(n) \in Seq(AE!AttrNames) /\ Once(AE!attr_keys(n))
        /\ \A k : k \in Elems(AE!attr_keys(n)) <=> AE!Child(n, k) # None
<1> DEFINE keys == AE!attr_keys(n)
<1>1. Children[n] \in Seq(STRING \X Node) BY AttrTypes
<1>2. keys = [i \in DOMAIN Children[n] |-> Children[n][i][1]] BY Zenon DEF AE!attr_keys
<1>3. DOMAIN Children[n] = 1..Len(Children[n]) /\ Len(Children[n]) \in Nat BY <1>1
<1>4. \A i \in DOMAIN Children[n] : keys[i] = Children[n][i][1] /\ keys[i] \in AE!AttrNames BY <1>2, AttrNameOfChild, Zenon
<1>5. keys \in Seq(AE!AttrNames) /\ Len(keys) = Len(Children[n])
  <2>1. keys \in [1..Len(Children[n]) -> AE!AttrNames] BY <1>2, <1>3, <1>4
  <2> HIDE DEF keys
  <2> QED BY <1>3, <2>1
<1> HIDE DEF keys
<1>6. Once(keys) BY <1>3, <1>4, <1>5, AttrTypes DEF Once
<1>7. ASSUME NEW k PROVE k \in Elems(keys) <=> AE!Child(n, k) # None
  <2>1. k \in Elems(keys) <=> \E i \in DOMAIN Children[n] : Children[n][i][1] = k BY <1>3, <1>4, <1>5 DEF Elems
  <2> QED BY <2>1, ChildType
<1> QED BY <1>5, <1>6, <1>7 DEF keys

(* collect_recurse has the names the rules open, each once. *)
LEMMA CollectFacts ==
  ASSUME NEW q \in Seq(AE!Names), NEW n \in Node, Kind[n] = "attrs", AE!ValueAt(q) = n
  PROVE /\ AE!collect_recurse(n, q) \in Seq(AE!AttrNames) /\ Once(AE!collect_recurse(n, q))
        /\ \A k : k \in Elems(AE!collect_recurse(n, q)) <=> Opens(q, k)
<1> DEFINE flag == AE!get_attr(n, "recurseForDerivations")
<1>0. n # None BY AttrTypes
<1>1. flag = Forced(AE!Child(n, "recurseForDerivations")) BY GetAttrIs
<1>2. (flag # None /\ Kind[flag] = "true") <=> (AE!Child(n, "recurseForDerivations") # None
                                         /\ Kind[AE!Child(n, "recurseForDerivations")] = "true")
  <2>1. "true" # "throw" OBVIOUS
  <2> HIDE DEF flag
  <2> QED BY <1>1, <2>1, Zenon DEF Forced
<1>3. q = <<>> <=> Len(q) = 0 OBVIOUS
<1>4. AE!collect_recurse(n, q) = IF Recurses(n, Len(q)) THEN AE!filter_keys(AE!attr_keys(n)) ELSE <<>>
  BY <1>2, <1>3, Zenon DEF AE!collect_recurse, Recurses
<1>5. \A k : Opens(q, k) <=> /\ k # "recurseForDerivations" /\ AE!Child(n, k) # None /\ Recurses(n, Len(q))
  BY <1>0, Zenon DEF Opens
<1>6. CASE Recurses(n, Len(q))
  <2>1. AE!collect_recurse(n, q) = AE!filter_keys(AE!attr_keys(n)) BY <1>4, <1>6, Zenon
  <2>2. /\ AE!filter_keys(AE!attr_keys(n)) \in Seq(AE!AttrNames)
        /\ Elems(AE!filter_keys(AE!attr_keys(n))) = Elems(AE!attr_keys(n)) \ {"recurseForDerivations"}
        /\ Once(AE!filter_keys(AE!attr_keys(n)))
    <3>1. AE!attr_keys(n) \in Seq(AE!AttrNames) /\ Once(AE!attr_keys(n)) BY KeysFacts
    <3> QED BY <3>1, FilterFacts
  <2>3. \A k : k \in Elems(AE!attr_keys(n)) <=> AE!Child(n, k) # None BY KeysFacts
  <2>4. \A k : k \in Elems(AE!collect_recurse(n, q)) <=> Opens(q, k) BY <1>5, <1>6, <2>1, <2>2, <2>3, Zenon
  <2> QED BY <2>1, <2>2, <2>4, Zenon
<1>7. CASE ~Recurses(n, Len(q))
  <2>1. AE!collect_recurse(n, q) = <<>> BY <1>4, <1>7, Zenon
  <2>2. <<>> \in Seq(AE!AttrNames) /\ Once(<<>>) /\ Elems(<<>>) = {} BY DEF Once, Elems
  <2> QED BY <1>5, <1>7, <2>1, <2>2, Zenon
<1> QED BY <1>6, <1>7

Good(q) ==
    /\ q \in Seq(AE!AttrNames) /\ Len(q) <= MaxAttrDepth /\ AE!Reachable(q)

(* navigate finds the value of a good path. *)
LEMMA GoodFacts ==
  ASSUME Kind[Root] # "function", NEW q, Good(q)
  PROVE /\ q \in Seq(AE!Names) /\ Len(q) \in Nat
        /\ AE!ValueAt(q) \in Node \union {None}
        /\ AE!navigate(q) = Forced(AE!ValueAt(q))
<1>1. q \in Seq(AE!AttrNames) /\ AE!Reachable(q) BY Zenon DEF Good
<1>2. q \in Seq(AE!Names) BY <1>1, AttrNamesAreNames
<1> QED BY <1>1, <1>2, ValueType, NavigateIs

(* An answer has the names the rules open, unless the path is too long. *)
LEMMA KidsFacts ==
  ASSUME Kind[Root] # "function", NEW q, Good(q)
  PROVE LET e == AE!process_attr(q)
        IN /\ e.kind = "AttrSet" =>
                /\ e.attrs \in Seq(AE!AttrNames) /\ Once(e.attrs)
                /\ \A k \in Elems(e.attrs) : Opens(q, k) /\ Len(q) < MaxAttrDepth
           /\ \A k : Opens(q, k) /\ Len(q) < MaxAttrDepth => e.kind = "AttrSet" /\ k \in Elems(e.attrs)
<1>1. PICK e : e = AE!process_attr(q) OBVIOUS
<1>2. PICK n : n = AE!navigate(q) OBVIOUS
<1>3. PICK v : v = AE!ValueAt(q) OBVIOUS
<1>4. q \in Seq(AE!Names) /\ Len(q) \in Nat /\ v \in Node \union {None} /\ n = Forced(v)
  BY <1>2, <1>3, GoodFacts
<1>5. \A k : Opens(q, k) => v # None /\ Kind[v] = "attrs" BY <1>3, Zenon DEF Opens
<1>6. \A k : Opens(q, k) => n = v /\ n # None /\ Kind[n] = "attrs" BY <1>4, <1>5 DEF Forced
<1>7. CASE e.kind = "Error"
  <2>1. "Error" # "AttrSet" OBVIOUS
  <2>2. \A k : ~(Opens(q, k) /\ Len(q) < MaxAttrDepth)
    <3>1. SUFFICES ASSUME NEW k, Opens(q, k), Len(q) < MaxAttrDepth PROVE FALSE OBVIOUS
    <3>2. n # None /\ Kind[n] = "attrs" BY <1>6, <3>1
    <3>3. ~(Len(q) >= MaxAttrDepth) BY <1>4, <3>1, AttrTypes
    <3>4. "attrs" # "baddrv" /\ "attrs" # "drv" /\ "attrs" \in AE!Kinds /\ "attrs" \in {"attrs", "drv", "baddrv"} BY DEF AE!Kinds
    <3>5. \A m : AE!make_job(m).kind # "Error" BY JobFields
    <3>6. \A a : [kind |-> "AttrSet", attrs |-> a].kind # "Error" OBVIOUS
    <3> QED BY <1>1, <1>2, <1>7, <3>2, <3>3, <3>4, <3>5, <3>6, ProcessShape, Zenon
  <2> QED BY <1>1, <1>7, <2>1, <2>2, Zenon
<1>8. CASE e = AE!make_job(n) /\ n # None /\ Kind[n] = "drv"
  <2>1. e.kind = "Derivation" BY <1>8, JobFields, Zenon
  <2>2. \A k : ~Opens(q, k) BY <1>6, <1>8
  <2> QED BY <1>1, <2>1, <2>2
<1>9. CASE e = [kind |-> "AttrSet", attrs |-> <<>>] /\ n # None /\ Kind[n] \notin {"attrs", "drv", "baddrv"}
  <2>1. \A k : ~Opens(q, k) BY <1>6, <1>9
  <2>2. e.attrs = <<>> BY <1>9
  <2>3. <<>> \in Seq(AE!AttrNames) /\ Once(<<>>) /\ Elems(<<>>) = {} BY DEF Once, Elems
  <2> QED BY <1>1, <2>1, <2>2, <2>3, Zenon
<1>10. CASE /\ e = [kind |-> "AttrSet", attrs |-> AE!collect_recurse(n, q)]
            /\ n # None /\ Kind[n] = "attrs" /\ ~(Len(q) >= MaxAttrDepth)
  <2>1. n = v /\ n \in Node BY <1>4, <1>10 DEF Forced
  <2>2. /\ AE!collect_recurse(n, q) \in Seq(AE!AttrNames) /\ Once(AE!collect_recurse(n, q))
        /\ \A k : k \in Elems(AE!collect_recurse(n, q)) <=> Opens(q, k)
    BY <1>3, <1>4, <1>10, <2>1, CollectFacts, Zenon
  <2>3. e.kind = "AttrSet" /\ e.attrs = AE!collect_recurse(n, q) BY <1>10
  <2>4. Len(q) < MaxAttrDepth BY <1>4, <1>10, AttrTypes
  <2> QED BY <1>1, <2>2, <2>3, <2>4, Zenon
<1> QED BY <1>1, <1>2, <1>7, <1>8, <1>9, <1>10, ProcessShape, Zenon

(* They are good again. *)
LEMMA GoodChild ==
  ASSUME NEW q, Good(q), NEW k \in AE!AttrNames, Opens(q, k), Len(q) < MaxAttrDepth
  PROVE Good(Append(q, k))
<1>1. q \in Seq(AE!AttrNames) /\ AE!Reachable(q) BY Zenon DEF Good
<1>2. AE!Reachable(Append(q, k)) BY <1>1, ReachableAppend
<1>3. Append(q, k) \in Seq(AE!AttrNames) /\ Len(Append(q, k)) <= MaxAttrDepth BY <1>1, AttrTypes
<1> QED BY <1>2, <1>3, Zenon DEF Good

(* What concatenation adds. *)
LEMMA ConcatElems ==
  ASSUME NEW T, NEW s \in Seq(T), NEW t \in Seq(T)
  PROVE /\ s \o t \in Seq(T)
        /\ Elems(s \o t) = Elems(s) \union Elems(t)
        /\ Once(s) /\ Once(t) /\ (\A x \in Elems(t) : x \notin Elems(s)) => Once(s \o t)
<1> DEFINE u == s \o t
<1>1. /\ u \in Seq(T) /\ Len(s) \in Nat /\ Len(t) \in Nat /\ Len(u) = Len(s) + Len(t)
      /\ \A i \in 1..Len(s) : u[i] = s[i]
      /\ \A i \in 1..Len(t) : u[Len(s) + i] = t[i]
  OBVIOUS
<1>2. ASSUME NEW i \in 1..Len(u)
      PROVE \/ i \in 1..Len(s) /\ u[i] = s[i]
            \/ i - Len(s) \in 1..Len(t) /\ i = Len(s) + (i - Len(s)) /\ u[i] = t[i - Len(s)]
  <2>1. CASE i <= Len(s)
    <3>1. i \in 1..Len(s) BY <1>1, <2>1
    <3> QED BY <1>1, <3>1
  <2>2. CASE ~(i <= Len(s))
    <3>1. i - Len(s) \in 1..Len(t) /\ Len(s) + (i - Len(s)) = i BY <1>1, <2>2
    <3>2. u[Len(s) + (i - Len(s))] = t[i - Len(s)] BY <1>1, <3>1
    <3> QED BY <3>1, <3>2
  <2> QED BY <2>1, <2>2
<1>3. /\ \A i \in 1..Len(s) : i \in 1..Len(u)
      /\ \A i \in 1..Len(t) : Len(s) + i \in 1..Len(u)
  BY <1>1
<1> HIDE DEF u
<1>4. Elems(u) = Elems(s) \union Elems(t)
  <2>1. ASSUME NEW x \in Elems(u) PROVE x \in Elems(s) \union Elems(t)
    <3>1. PICK i \in 1..Len(u) : x = u[i] BY DEF Elems
    <3> QED BY <1>2, <3>1 DEF Elems
  <2>2. ASSUME NEW x \in Elems(s) PROVE x \in Elems(u) BY <1>1, <1>3, <2>2 DEF Elems
  <2>3. ASSUME NEW x \in Elems(t) PROVE x \in Elems(u)
    <3>1. PICK i \in 1..Len(t) : x = t[i] BY DEF Elems
    <3>2. x = u[Len(s) + i] BY <1>1, <3>1
    <3> QED BY <1>3, <3>1, <3>2 DEF Elems
  <2> QED BY <2>1, <2>2, <2>3
<1>5. ASSUME Once(s), Once(t), \A x \in Elems(t) : x \notin Elems(s) PROVE Once(u)
  <2>1. SUFFICES ASSUME NEW i \in 1..Len(u), NEW j \in 1..Len(u), u[i] = u[j] PROVE i = j BY DEF Once
  <2>2. \A k \in 1..Len(s) : s[k] \in Elems(s) BY DEF Elems
  <2>3. \A k \in 1..Len(t) : t[k] \in Elems(t) BY DEF Elems
  <2>4. CASE i \in 1..Len(s) /\ u[i] = s[i]
    <3>1. j \in 1..Len(s) /\ u[j] = s[j] BY <1>2, <1>5, <2>1, <2>2, <2>3, <2>4
    <3> QED BY <1>5, <2>1, <2>4, <3>1 DEF Once
  <2>5. CASE i - Len(s) \in 1..Len(t) /\ i = Len(s) + (i - Len(s)) /\ u[i] = t[i - Len(s)]
    <3>1. j - Len(s) \in 1..Len(t) /\ j = Len(s) + (j - Len(s)) /\ u[j] = t[j - Len(s)] BY <1>2, <1>5, <2>1, <2>2, <2>3, <2>5
    <3>2. i - Len(s) = j - Len(s) BY <1>5, <2>1, <2>5, <3>1 DEF Once
    <3> QED BY <2>5, <3>1, <3>2, Zenon
  <2> QED BY <1>2, <2>4, <2>5
<1> QED BY <1>1, <1>4, <1>5 DEF u

------------------------------------------------------------------------------
(* The work: no path is lost and none is taken twice. *)

(* What Tail drops. *)
LEMMA TailElems ==
  ASSUME NEW T, NEW s \in Seq(T), s # <<>>, Once(s)
  PROVE /\ Tail(s) \in Seq(T) /\ Once(Tail(s)) /\ Head(s) \in Elems(s)
        /\ Elems(Tail(s)) = Elems(s) \ {Head(s)}
<1> DEFINE t == Tail(s)
<1>1. /\ t \in Seq(T) /\ Len(s) \in Nat /\ Len(s) # 0 /\ Len(t) = Len(s) - 1 /\ Head(s) = s[1]
      /\ \A i \in 1..Len(t) : t[i] = s[i + 1]
  OBVIOUS
<1> HIDE DEF t
<1>2. /\ 1 \in 1..Len(s) /\ \A i \in 1..Len(t) : i + 1 \in 1..Len(s) /\ i + 1 # 1
      /\ \A j \in 1..Len(s) : j # 1 => j - 1 \in 1..Len(t) /\ (j - 1) + 1 = j
  BY <1>1
<1>3. Once(t)
  <2>1. SUFFICES ASSUME NEW i \in 1..Len(t), NEW j \in 1..Len(t), t[i] = t[j] PROVE i = j BY DEF Once
  <2>2. i + 1 = j + 1 BY <1>1, <1>2, <2>1 DEF Once
  <2> QED BY <2>2
<1>4. Head(s) \in Elems(s) BY <1>1, <1>2 DEF Elems
<1>5. ASSUME NEW x \in Elems(t) PROVE x \in Elems(s) /\ x # Head(s)
  <2>1. PICK i \in 1..Len(t) : x = t[i] BY DEF Elems
  <2>2. x = s[i + 1] /\ i + 1 \in 1..Len(s) /\ i + 1 # 1 BY <1>1, <1>2, <2>1
  <2> QED BY <1>1, <1>2, <2>2 DEF Elems, Once
<1>6. ASSUME NEW x \in Elems(s), x # Head(s) PROVE x \in Elems(t)
  <2>1. PICK j \in 1..Len(s) : x = s[j] BY DEF Elems
  <2>2. j # 1 BY <1>1, <1>6, <2>1
  <2>3. t[j - 1] = s[j] BY <1>1, <1>2, <2>2
  <2> QED BY <1>2, <2>1, <2>2, <2>3 DEF Elems
<1>7. Elems(t) = Elems(s) \ {Head(s)} BY <1>5, <1>6
<1> QED BY <1>1, <1>3, <1>4, <1>7 DEF t

(* The paths an answer adds, each once. *)
LEMMA ChildrenPaths ==
  ASSUME NEW T, NEW q \in Seq(T), NEW keys \in Seq(T), Once(keys)
  PROVE LET more == [i \in DOMAIN keys |-> Append(q, keys[i])]
        IN /\ more \in Seq(Seq(T)) /\ Once(more)
           /\ \A r : r \in Elems(more) <=> \E k \in Elems(keys) : r = Append(q, k)
<1> DEFINE more == [i \in DOMAIN keys |-> Append(q, keys[i])]
<1>1. DOMAIN keys = 1..Len(keys) /\ Len(keys) \in Nat OBVIOUS
<1>2. \A i \in 1..Len(keys) : more[i] = Append(q, keys[i]) /\ keys[i] \in T BY <1>1
<1>3. \A k \in T : Append(q, k) \in Seq(T) OBVIOUS
<1>4. more \in [1..Len(keys) -> Seq(T)] BY <1>1, <1>2, <1>3
<1> HIDE DEF more
<1>5. more \in Seq(Seq(T)) /\ Len(more) = Len(keys) BY <1>1, <1>4
<1>6. \A k, l \in T : Append(q, k) = Append(q, l) => k = l
  <2>1. Len(q) \in Nat /\ \A k \in T : Append(q, k)[Len(q) + 1] = k OBVIOUS
  <2> QED BY <2>1, Zenon
<1>7. Once(more) BY <1>2, <1>5, <1>6 DEF Once
<1>8. ASSUME NEW r PROVE r \in Elems(more) <=> \E k \in Elems(keys) : r = Append(q, k)
  BY <1>2, <1>5 DEF Elems
<1> QED BY <1>5, <1>7, <1>8 DEF more

(* A path has one parent. *)
LEMMA AppendDistinct ==
  ASSUME NEW T, NEW q \in Seq(T), NEW k \in T, NEW r \in Seq(T), NEW l \in T, Append(q, k) = Append(r, l)
  PROVE q = r /\ k = l
<1>1. Len(q) \in Nat /\ Len(r) \in Nat /\ Len(Append(q, k)) = Len(q) + 1 /\ Len(Append(r, l)) = Len(r) + 1 OBVIOUS
<1>2. Len(q) = Len(r) BY <1>1
<1>3. Append(q, k)[Len(q) + 1] = k /\ Append(r, l)[Len(r) + 1] = l OBVIOUS
<1>4. k = l BY <1>2, <1>3, Zenon
<1>5. SubSeq(Append(q, k), 1, Len(q)) = q /\ SubSeq(Append(r, l), 1, Len(r)) = r OBVIOUS
<1> QED BY <1>2, <1>4, <1>5, Zenon

------------------------------------------------------------------------------
(* The work. *)

Held(q) == \E w \in Workers : at[w] # "idle" /\ item[w] = q
Known(q) == q \in DOMAIN events \/ q \in Elems(queue) \/ Held(q)

WorkInv ==
    /\ queue \in Seq(Seq(AE!AttrNames)) /\ Once(queue)
    /\ \A q : Known(q) => Good(q)
    /\ \A q \in Elems(queue) : q \notin DOMAIN events /\ ~Held(q)
    /\ \A w \in Workers : at[w] # "idle" => item[w] \notin DOMAIN events
    /\ \A v, w \in Workers : at[v] # "idle" /\ at[w] # "idle" /\ item[v] = item[w] => v = w
    /\ Known(<<>>)
    /\ \A q \in Seq(AE!AttrNames) : \A k \in AE!AttrNames : Known(Append(q, k)) => q \in DOMAIN events
    /\ \A q \in DOMAIN events : events[q].kind = "AttrSet" => \A k \in Elems(events[q].attrs) : Known(Append(q, k))
    /\ links \subseteq {Drv[d].drvPath : d \in {n \in Node : Kind[n] = "drv"}}

(* Good paths stay good. *)
LEMMA GoodStays ==
  ASSUME force_recurse' = force_recurse, NEW q PROVE Good(q)' <=> Good(q)
  BY Zenon DEF Good, AE!Reachable

(* At first only the empty path is known. *)
LEMMA WorkStart == AE!Init => WorkInv
<1>1. SUFFICES ASSUME AE!Init PROVE WorkInv OBVIOUS
<1>2. /\ at = [w \in Workers |-> "idle"] /\ events = <<>> /\ queue = <<<<>>>> /\ links = {}
  BY <1>1, Zenon DEF AE!Init
<1>3. DOMAIN events = {} BY <1>2
<1>4. queue \in Seq(Seq(AE!AttrNames)) /\ Len(queue) = 1 /\ queue[1] = <<>> BY <1>2
<1>5. Elems(queue) = {<<>>} BY <1>4 DEF Elems
<1>6. Once(queue) BY <1>4 DEF Once
<1>7. \A q : ~Held(q) BY <1>2 DEF Held
<1>8. Good(<<>>)
  <2>1. <<>> \in Seq(AE!AttrNames) /\ Len(<<>>) <= MaxAttrDepth BY AttrTypes
  <2> QED BY <2>1, ReachableEmpty, Zenon DEF Good
<1>9. \A q : Known(q) <=> q = <<>> BY <1>3, <1>5, <1>7, Zenon DEF Known
<1>10. ASSUME NEW q \in Seq(AE!AttrNames), NEW k \in AE!AttrNames PROVE Append(q, k) # <<>>
  <2>1. Len(Append(q, k)) = Len(q) + 1 /\ Len(q) \in Nat /\ Len(<<>>) = 0 OBVIOUS
  <2>2. Len(Append(q, k)) # Len(<<>>) BY <2>1
  <2> QED BY <2>2, Zenon
<1>11. \A w \in Workers : at[w] = "idle" BY <1>2
<1> QED BY <1>2, <1>3, <1>4, <1>5, <1>6, <1>7, <1>8, <1>9, <1>10, <1>11, Zenon DEF WorkInv

(* A step of nobody keeps the work. *)
LEMMA WorkStay ==
  ASSUME WorkInv, UNCHANGED AE!vars PROVE WorkInv'
<1>1. /\ force_recurse' = force_recurse /\ at' = at /\ item' = item /\ queue' = queue /\ events' = events
      /\ links' = links
  BY DEF AE!vars
<1>2. \A q : Good(q) => Good(q)' BY <1>1, GoodStays
<1>3. \A q : Held(q)' <=> Held(q) BY <1>1, Zenon DEF Held
<1>4. \A q : Known(q)' <=> Known(q) BY <1>1, <1>3, Zenon DEF Known
<1> QED BY <1>1, <1>2, <1>3, <1>4, Zenon DEF WorkInv

(* Taking a path only moves it. *)
LEMMA WorkTaken ==
  ASSUME RootsInv, WorkInv, NEW w \in Workers, Taken(w), force_recurse' = force_recurse
  PROVE WorkInv'
<1>1. /\ at[w] = "idle" /\ queue # <<>>
      /\ item' = [item EXCEPT ![w] = Head(queue)] /\ queue' = Tail(queue)
      /\ at' = [at EXCEPT ![w] = "evaluate"]
      /\ events' = events /\ links' = links
  BY Zenon DEF Taken
<1> DEFINE h == Head(queue)
<1>2. /\ queue' \in Seq(Seq(AE!AttrNames)) /\ Once(queue') /\ h \in Elems(queue)
      /\ Elems(queue') = Elems(queue) \ {h}
  <2>1. queue \in Seq(Seq(AE!AttrNames)) /\ Once(queue) BY Zenon DEF WorkInv
  <2> QED BY <1>1, <2>1, TailElems
<1>3. /\ item'[w] = h /\ at'[w] # "idle"
      /\ \A v \in Workers : v # w => item'[v] = item[v] /\ at'[v] = at[v]
  BY <1>1 DEF RootsInv
<1> HIDE DEF h
<1>4. \A q : Held(q)' <=> Held(q) \/ q = h BY <1>1, <1>3, Zenon DEF Held
<1>5. \A q : Known(q)' <=> Known(q) BY <1>1, <1>2, <1>4 DEF Known
<1>6. \A q : Good(q) => Good(q)' BY GoodStays
<1>7. \A q : Known(q)' => Good(q)' BY <1>5, <1>6, Zenon DEF WorkInv
<1>8. h \notin DOMAIN events /\ ~Held(h) BY <1>2, Zenon DEF WorkInv
<1>9. \A q \in Elems(queue') : q \notin DOMAIN events' /\ ~Held(q)'
  <2>1. ASSUME NEW q \in Elems(queue') PROVE q \notin DOMAIN events' /\ ~Held(q)'
    <3>1. q \in Elems(queue) /\ q # h BY <1>2, <2>1
    <3> QED BY <1>1, <1>4, <3>1, Zenon DEF WorkInv
  <2> QED BY <2>1
<1>10. \A v \in Workers : at'[v] # "idle" => item'[v] \notin DOMAIN events'
  BY <1>1, <1>3, <1>8, Zenon DEF WorkInv
<1>11. \A u, v \in Workers : at'[u] # "idle" /\ at'[v] # "idle" /\ item'[u] = item'[v] => u = v
  BY <1>3, <1>8, Zenon DEF WorkInv, Held
<1> QED BY <1>1, <1>2, <1>5, <1>7, <1>9, <1>10, <1>11, Zenon DEF WorkInv

(* Going on with one moves nothing. *)
LEMMA WorkGoneOn ==
  ASSUME RootsInv, WorkInv, NEW w \in Workers, GoneOn(w), force_recurse' = force_recurse
  PROVE WorkInv'
<1>1. /\ item' = item /\ queue' = queue /\ events' = events /\ links' = links
      /\ at[w] # "idle" /\ \/ at' = [at EXCEPT ![w] = "root"] \/ at' = [at EXCEPT ![w] = "link"]
  <2>1. "evaluate" # "idle" /\ "root" # "idle" OBVIOUS
  <2> QED BY <2>1, Zenon DEF GoneOn
<1>2. \A v \in Workers : at'[v] # "idle" <=> at[v] # "idle" BY <1>1 DEF RootsInv
<1>3. \A q : Held(q)' <=> Held(q) BY <1>1, <1>2, Zenon DEF Held
<1>4. \A q : Known(q)' <=> Known(q) BY <1>1, <1>3, Zenon DEF Known
<1>5. \A q : Good(q) => Good(q)' BY GoodStays
<1> QED BY <1>1, <1>2, <1>3, <1>4, <1>5, Zenon DEF WorkInv

(* An answer moves a path to the record and adds its children, which nobody knew. *)
LEMMA WorkAnswered ==
  ASSUME Kind[Root] # "function", RootsInv, WorkInv, NEW w \in Workers, NEW e, Answered(w, e),
         force_recurse' = force_recurse
  PROVE WorkInv'
<1>0. PICK p : p = item[w] OBVIOUS
<1>1. /\ at[w] # "idle" /\ item' = item /\ at' = [at EXCEPT ![w] = "idle"]
      /\ events' = [q \in DOMAIN events \union {p} |-> IF q = p THEN e ELSE events[q]]
      /\ queue' = IF e.kind = "AttrSet" THEN queue \o [i \in DOMAIN e.attrs |-> Append(p, e.attrs[i])] ELSE queue
  BY <1>0, Zenon DEF Answered, AE!Answer
<1>2. /\ p \in DOMAIN events' /\ events'[p] = e
      /\ \A q : q \in DOMAIN events' <=> q = p \/ q \in DOMAIN events
      /\ \A q \in DOMAIN events : q # p => events'[q] = events[q]
  BY <1>1, Zenon
<1>3. at'[w] = "idle" /\ \A v \in Workers : v # w => at'[v] = at[v] BY <1>1 DEF RootsInv
<1>4. Held(p) BY <1>0, <1>1, Zenon DEF Held
<1>5. Known(p) /\ p \notin DOMAIN events /\ p \notin Elems(queue) BY <1>0, <1>1, <1>4, Zenon DEF WorkInv, Known
<1>6. Good(p) BY <1>5, Zenon DEF WorkInv
<1>7. p \in Seq(AE!AttrNames) BY <1>6, Zenon DEF Good
<1>8. \A q : Held(q)' <=> Held(q) /\ q # p BY <1>0, <1>1, <1>3, Zenon DEF WorkInv, Held
<1>9. e.kind = "AttrSet" => e = AE!process_attr(p)
  <2>1. Fit(p, e)
    <3>1. at[w] \in {"root", "link"} => AE!process_attr(p).kind = "Derivation" BY <1>0 DEF RootsInv
    <3>2. TRUE \in BOOLEAN /\ "root" \in {"root", "link"} /\ "link" \in {"root", "link"} OBVIOUS
    <3> QED BY <1>0, <3>1, <3>2, Zenon DEF Answered, Fit
  <2>2. "AttrSet" # "Derivation" OBVIOUS
  <2> QED BY <2>1, <2>2, FitFacts, Zenon
<1> DEFINE Kids == IF e.kind = "AttrSet" THEN Elems(e.attrs) ELSE {}
<1>10. /\ e.kind = "AttrSet" => e.attrs \in Seq(AE!AttrNames) /\ Once(e.attrs)
       /\ \A k \in Kids : k \in AE!AttrNames /\ Opens(p, k) /\ Len(p) < MaxAttrDepth
  <2>1. CASE e.kind = "AttrSet"
    <3>1. /\ e.attrs \in Seq(AE!AttrNames) /\ Once(e.attrs)
          /\ \A k \in Elems(e.attrs) : Opens(p, k) /\ Len(p) < MaxAttrDepth
      BY <1>6, <1>9, <2>1, KidsFacts, Zenon
    <3>2. \A k \in Elems(e.attrs) : k \in AE!AttrNames BY <3>1 DEF Elems
    <3> QED BY <2>1, <3>1, <3>2, Zenon
  <2>2. CASE e.kind # "AttrSet" BY <2>2
  <2> QED BY <2>1, <2>2
<1>11. \A k \in Kids : Append(p, k) \in Seq(AE!AttrNames) /\ Good(Append(p, k)) /\ ~Known(Append(p, k))
  <2> TAKE k \in Kids
  <2>1. k \in AE!AttrNames BY <1>10
  <2>2. Good(Append(p, k)) BY <1>6, <1>10, GoodChild
  <2>3. ~Known(Append(p, k)) BY <1>5, <1>7, <2>1, Zenon DEF WorkInv
  <2> QED BY <2>2, <2>3, Zenon DEF Good
<1>12. /\ queue' \in Seq(Seq(AE!AttrNames)) /\ Once(queue')
       /\ \A q : q \in Elems(queue') <=> q \in Elems(queue) \/ \E k \in Kids : q = Append(p, k)
  <2>0. queue \in Seq(Seq(AE!AttrNames)) /\ Once(queue) BY Zenon DEF WorkInv
  <2>1. CASE e.kind = "AttrSet"
    <3> DEFINE more == [i \in DOMAIN e.attrs |-> Append(p, e.attrs[i])]
    <3>1. e.attrs \in Seq(AE!AttrNames) /\ Once(e.attrs) BY <1>10, <2>1
    <3>2. PICK keys : keys = e.attrs OBVIOUS
    <3>3. /\ more \in Seq(Seq(AE!AttrNames)) /\ Once(more)
          /\ \A r : r \in Elems(more) <=> \E k \in Elems(keys) : r = Append(p, k)
      <4>1. more = [i \in DOMAIN keys |-> Append(p, keys[i])] BY <3>2, Zenon
      <4>2. keys \in Seq(AE!AttrNames) /\ Once(keys) BY <3>1, <3>2, Zenon
      <4>3. LET them == [i \in DOMAIN keys |-> Append(p, keys[i])]
            IN /\ them \in Seq(Seq(AE!AttrNames)) /\ Once(them)
               /\ \A r : r \in Elems(them) <=> \E k \in Elems(keys) : r = Append(p, k)
        <5> HIDE DEF more
        <5> QED BY ONLY <1>7, <4>2, ChildrenPaths
      <4> HIDE DEF more
      <4> QED BY <4>1, <4>3, Zenon
    <3>4. queue' = queue \o more BY <1>1, <2>1, Zenon
    <3>5. Kids = Elems(keys) BY <2>1, <3>2, Zenon
    <3> HIDE DEF more, Kids
    <3>6. \A x \in Elems(more) : x \notin Elems(queue)
      BY <1>11, <3>3, <3>5, Zenon DEF Known
    <3>7. /\ queue \o more \in Seq(Seq(AE!AttrNames)) /\ Elems(queue \o more) = Elems(queue) \union Elems(more)
          /\ Once(queue \o more)
      BY <2>0, <3>3, <3>6, ConcatElems
    <3> QED BY <3>3, <3>4, <3>5, <3>7, Zenon
  <2>2. CASE e.kind # "AttrSet"
    <3>1. queue' = queue /\ Kids = {} BY <1>1, <2>2, Zenon
    <3> HIDE DEF Kids
    <3> QED BY <2>0, <3>1, Zenon
  <2> QED BY <2>1, <2>2
<1>13. e.kind = "AttrSet" => Kids = Elems(e.attrs) BY Zenon
<1> HIDE DEF Kids
<1>14. \A q : Known(q)' <=> Known(q) \/ \E k \in Kids : q = Append(p, k)
  BY <1>2, <1>5, <1>8, <1>12, Zenon DEF Known
<1>15. \A q : Good(q) => Good(q)' BY GoodStays
<1>16. \A q : Known(q)' => Good(q)' BY <1>11, <1>14, <1>15, Zenon DEF WorkInv
<1>17. \A q \in Elems(queue') : q \notin DOMAIN events' /\ ~Held(q)'
  <2>1. ASSUME NEW q, q \in Elems(queue) PROVE q \notin DOMAIN events' /\ ~Held(q)'
    BY <1>2, <1>5, <1>8, <2>1, Zenon DEF WorkInv
  <2>2. ASSUME NEW k \in Kids PROVE Append(p, k) \notin DOMAIN events' /\ ~Held(Append(p, k))'
    <3>1. ~Known(Append(p, k)) BY <1>11
    <3>2. Append(p, k) # p BY <1>5, <3>1, Zenon
    <3> QED BY <1>2, <1>8, <3>1, <3>2, Zenon DEF Known
  <2> QED BY <1>12, <2>1, <2>2, Zenon
<1>18. \A v \in Workers : at'[v] # "idle" => item'[v] \notin DOMAIN events'
  BY <1>0, <1>1, <1>2, <1>3, Zenon DEF WorkInv
<1>19. \A u, v \in Workers : at'[u] # "idle" /\ at'[v] # "idle" /\ item'[u] = item'[v] => u = v
  BY <1>1, <1>3, Zenon DEF WorkInv
<1>20. Known(<<>>)' BY <1>14, Zenon DEF WorkInv
<1>21. ASSUME NEW q \in Seq(AE!AttrNames), NEW k \in AE!AttrNames, Known(Append(q, k))' PROVE q \in DOMAIN events'
  <2>1. CASE Known(Append(q, k)) BY <1>2, <2>1, Zenon DEF WorkInv
  <2>2. CASE \E l \in Kids : Append(q, k) = Append(p, l)
    <3>1. PICK l \in Kids : Append(q, k) = Append(p, l) BY <2>2
    <3>2. l \in AE!AttrNames BY <1>10
    <3>3. q = p BY <1>7, <3>1, <3>2, AppendDistinct
    <3> QED BY <1>2, <3>3
  <2> QED BY <1>14, <1>21, <2>1, <2>2, Zenon
<1>22. ASSUME NEW q \in DOMAIN events', events'[q].kind = "AttrSet", NEW k \in Elems(events'[q].attrs)
       PROVE Known(Append(q, k))'
  <2>1. CASE q = p BY <1>2, <1>13, <1>14, <1>22, <2>1, Zenon
  <2>2. CASE q # p
    <3>1. q \in DOMAIN events /\ events'[q] = events[q] BY <1>2, <2>2, Zenon
    <3> QED BY <1>14, <1>22, <3>1, Zenon DEF WorkInv
  <2> QED BY <2>1, <2>2
<1>23. links' \subseteq {Drv[d].drvPath : d \in {n \in Node : Kind[n] = "drv"}}
  <2>1. CASE at[w] # "link"
    <3>1. links' = links BY <2>1, Zenon DEF Answered
    <3> QED BY <3>1, Zenon DEF WorkInv
  <2>2. CASE at[w] = "link"
    <3>1. AE!process_attr(p).kind = "Derivation" BY <1>0, <2>2 DEF RootsInv
    <3>2. AE!navigate(p) # None /\ Kind[AE!navigate(p)] = "drv" BY <3>1, ProcessKinds, Zenon
    <3>3. AE!navigate(p) = Forced(AE!ValueAt(p)) /\ AE!ValueAt(p) \in Node \union {None} BY <1>6, GoodFacts
    <3>4. AE!navigate(p) \in Node BY <3>2, <3>3 DEF Forced
    <3>5. AE!LinkOf(w) = Drv[AE!navigate(p)].drvPath BY <1>0, Zenon DEF AE!LinkOf
    <3>6. AE!LinkOf(w) \in {Drv[d].drvPath : d \in {n \in Node : Kind[n] = "drv"}} BY <3>2, <3>4, <3>5, Zenon
    <3>7. links' = links \union {AE!LinkOf(w)}
      <4>1. "link" # "evaluate" /\ "link" # "root" OBVIOUS
      <4> QED BY <2>2, <4>1, Zenon DEF Answered
    <3>8. links \subseteq {Drv[d].drvPath : d \in {n \in Node : Kind[n] = "drv"}} BY Zenon DEF WorkInv
    <3> QED BY <3>6, <3>7, <3>8, Zenon
  <2> QED BY <2>1, <2>2
<1> QED BY <1>12, <1>16, <1>17, <1>18, <1>19, <1>20, <1>21, <1>22, <1>23, Zenon DEF WorkInv

(* Every step keeps the work. *)
LEMMA WorkKeep ==
  ASSUME Kind[Root] # "function", RootsInv, WorkInv, AE!Next
  PROVE WorkInv'
<1>1. PICK w \in Workers : Taken(w) \/ GoneOn(w) \/ \E e : Answered(w, e) BY AttributeSteps
<1>2. force_recurse' = force_recurse BY AttributeSteps
<1>3. CASE Taken(w) BY <1>2, <1>3, WorkTaken
<1>4. CASE GoneOn(w) BY <1>2, <1>4, WorkGoneOn
<1>5. ASSUME NEW e, Answered(w, e) PROVE WorkInv' BY <1>2, <1>5, WorkAnswered
<1> QED BY <1>1, <1>3, <1>4, <1>5

------------------------------------------------------------------------------
(* What holds when the work is done. *)

(* PathsOver has the sequences up to the bound. *)
LEMMA PathsAre ==
  ASSUME NEW T, NEW m \in Nat, NEW q
  PROVE q \in AE!PathsOver(T, m) <=> q \in Seq(T) /\ Len(q) <= m
<1>1. q \in AE!PathsOver(T, m) <=> \E k \in 0..m : q \in [1..k -> T] BY Zenon DEF AE!PathsOver
<1>2. ASSUME NEW k \in 0..m, q \in [1..k -> T] PROVE q \in Seq(T) /\ Len(q) <= m
  <2>1. k \in Nat OBVIOUS
  <2>2. q \in Seq(T) /\ Len(q) = k BY <1>2, <2>1
  <2> QED BY <2>2
<1>3. ASSUME q \in Seq(T), Len(q) <= m PROVE \E k \in 0..m : q \in [1..k -> T]
  <2>1. Len(q) \in 0..m /\ q \in [1..Len(q) -> T] BY <1>3
  <2> QED BY <2>1
<1> QED BY <1>1, <1>2, <1>3

(* The types, and nobody works on what is on record or waits. *)
LEMMA WorkTyped == RootsInv /\ WorkInv => AE!TypeOK
<1>1. SUFFICES ASSUME RootsInv, WorkInv PROVE AE!TypeOK OBVIOUS
<1>2. \A w \in Workers : at[w] \in {"idle", "evaluate", "root", "link"} BY <1>1 DEF RootsInv
<1>3. \A q \in DOMAIN events : events[q].kind \in {"Derivation", "AttrSet", "Error"}
  BY <1>1, FitFacts, ProcessKinds, Zenon DEF RootsInv
<1>4. {queue[i] : i \in DOMAIN queue} = Elems(queue)
  <2>1. DOMAIN queue = 1..Len(queue) BY <1>1 DEF WorkInv
  <2> QED BY <2>1, Zenon DEF Elems
<1>5. \A w \in Workers : at[w] # "idle" => item[w] \notin DOMAIN events \union {queue[i] : i \in DOMAIN queue}
  <2>1. \A w \in Workers : at[w] # "idle" => Held(item[w]) BY Zenon DEF Held
  <2> QED BY <1>1, <1>4, <2>1, Zenon DEF WorkInv
<1>6. links \subseteq {Drv[d].drvPath : d \in {n \in Node : Kind[n] = "drv"}} BY <1>1, Zenon DEF WorkInv
<1> QED BY <1>2, <1>3, <1>5, <1>6, Zenon DEF AE!TypeOK

(* No path is too long. *)
LEMMA WorkBounded == WorkInv => AE!DepthBounded
<1>1. SUFFICES ASSUME WorkInv, NEW i \in DOMAIN queue PROVE Len(queue[i]) <= MaxAttrDepth BY Zenon DEF AE!DepthBounded
<1>2. queue[i] \in Elems(queue) BY <1>1 DEF WorkInv, Elems
<1>3. Good(queue[i]) BY <1>1, <1>2, Zenon DEF WorkInv, Known
<1> QED BY <1>3, Zenon DEF Good

(* When the work is done what is known is on record. *)
LEMMA WorkDone ==
  ASSUME WorkInv, AE!Complete, NEW q PROVE Known(q) <=> q \in DOMAIN events
<1>1. queue = <<>> /\ \A w \in Workers : at[w] = "idle" BY Zenon DEF AE!Complete
<1>2. Elems(queue) = {} BY <1>1 DEF Elems
<1>3. ~Held(q) BY <1>1, Zenon DEF Held
<1> QED BY <1>2, <1>3, Zenon DEF Known

(* Then every good path is on record: by induction along the path. *)
LEMMA ReachedAnswered ==
  ASSUME Kind[Root] # "function", RootsInv, WorkInv, AE!Complete, NEW q, Good(q)
  PROVE q \in DOMAIN events
<1> DEFINE S == {m \in Nat : \A r : Good(r) /\ Len(r) = m => r \in DOMAIN events}
<1>0. \A r : Known(r) => r \in DOMAIN events BY WorkDone
<1>1. 0 \in S
  <2>1. ASSUME NEW r, Good(r), Len(r) = 0 PROVE r \in DOMAIN events
    <3>1. r \in Seq(AE!AttrNames) BY <2>1, Zenon DEF Good
    <3>2. r = <<>> BY <2>1, <3>1
    <3> QED BY <1>0, <3>2, Zenon DEF WorkInv
  <2> QED BY <2>1
<1>2. ASSUME NEW m \in Nat, m \in S PROVE m + 1 \in S
  <2>1. ASSUME NEW r, Good(r), Len(r) = m + 1 PROVE r \in DOMAIN events
    <3>0. r \in Seq(AE!AttrNames) /\ Len(r) <= MaxAttrDepth /\ AE!Reachable(r) BY <2>1, Zenon DEF Good
    <3>1. PICK h \in Seq(AE!AttrNames), k \in AE!AttrNames : Len(h) = m /\ r = Append(h, k)
      <4>1. /\ SubSeq(r, 1, m) \in Seq(AE!AttrNames) /\ Len(SubSeq(r, 1, m)) = m /\ r[m + 1] \in AE!AttrNames
            /\ r = Append(SubSeq(r, 1, m), r[m + 1])
        BY <2>1, <3>0, SeqSplit
      <4> QED BY <4>1, Zenon
    <3>2. AE!Reachable(h) /\ Opens(h, k)
      <4>1. AE!Reachable(Append(h, k)) BY <3>0, <3>1, Zenon
      <4> QED BY <4>1, ReachableAppend
    <3>3. Len(h) < MaxAttrDepth /\ Len(h) <= MaxAttrDepth BY <2>1, <3>0, <3>1, AttrTypes
    <3>4. Good(h) BY <3>1, <3>2, <3>3, Zenon DEF Good
    <3>5. h \in DOMAIN events BY <1>2, <3>1, <3>4
    <3>6. AE!process_attr(h).kind = "AttrSet" /\ k \in Elems(AE!process_attr(h).attrs)
      BY <3>2, <3>3, <3>4, KidsFacts, Zenon
    <3>7. events[h] = AE!process_attr(h)
      <4>1. Fit(h, events[h]) BY <3>5, Zenon DEF RootsInv
      <4>2. "AttrSet" # "Derivation" OBVIOUS
      <4> QED BY <3>6, <4>1, <4>2, FitFacts, Zenon
    <3>8. Known(Append(h, k)) BY <3>5, <3>6, <3>7, Zenon DEF WorkInv
    <3> QED BY <1>0, <3>1, <3>8, Zenon
  <2>2. m + 1 \in Nat OBVIOUS
  <2> QED BY <2>1, <2>2, Zenon
<1> HIDE DEF S
<1>3. Nat \subseteq S BY <1>1, <1>2, Induct
<1>4. Len(q) \in Nat BY GoodFacts
<1>5. Len(q) \in S BY <1>3, <1>4
<1> QED BY <1>5 DEF S

(* A derivation on record is reported as one. *)
LEMMA DerivationReported ==
  ASSUME Kind[Root] # "function", RootsInv, WorkInv, NEW q \in DOMAIN events,
         AE!ValueAt(q) # None, Kind[AE!ValueAt(q)] = "drv", Drv[AE!ValueAt(q)].named,
         ~(Meta /\ AE!read_meta(AE!ValueAt(q)) = AE!JsonFail)
  PROVE events[q].kind = "Derivation" /\ events[q].node = AE!ValueAt(q)
<1>1. PICK n : n = AE!ValueAt(q) OBVIOUS
<1>2. Good(q) BY Zenon DEF WorkInv, Known
<1>3. AE!navigate(q) = n
  <2>1. AE!navigate(q) = Forced(n) BY <1>1, <1>2, GoodFacts, Zenon
  <2>2. n # None /\ Kind[n] # "throw" BY <1>1
  <2> QED BY <2>1, <2>2, Zenon DEF Forced
<1>4. AE!make_job(n).meta # AE!JsonFail
  <2>1. AE!JsonNone # AE!JsonFail BY DEF AE!JsonNone, AE!JsonFail
  <2> QED BY <1>1, <2>1, JobFields, Zenon
<1>5. AE!process_attr(q) = AE!make_job(n)
  <2>1. "drv" # "baddrv" /\ "drv" # "attrs" /\ "drv" \in AE!Kinds /\ "drv" \in {"attrs", "drv", "baddrv"} BY DEF AE!Kinds
  <2> QED BY <1>1, <1>3, <1>4, <2>1, ProcessShape, Zenon
<1>6. AE!process_attr(q).kind = "Derivation"
  <2>1. AE!make_job(n).kind = "Derivation" BY ONLY JobFields
  <2> QED BY ONLY <1>5, <2>1, Zenon
<1>7. Fit(q, events[q]) BY Zenon DEF RootsInv
<1>8. PICK e : e = events[q] OBVIOUS
<1>9. e.kind = AE!process_attr(q).kind /\ (e.kind = "Derivation" => e.node = AE!navigate(q))
  <2>1. Fit(q, e) BY <1>7, <1>8, Zenon
  <2> QED BY ONLY <2>1, FitFacts
<1> QED BY ONLY <1>1, <1>3, <1>6, <1>8, <1>9, Zenon

(* So the record is exhaustive. *)
LEMMA WorkExhaustive == Kind[Root] # "function" /\ RootsInv /\ WorkInv => AE!Exhaustive
<1>1. SUFFICES ASSUME Kind[Root] # "function", RootsInv, WorkInv, AE!Complete
               PROVE /\ DOMAIN events = {p \in AE!PathsOver(AE!AttrNames, MaxAttrDepth) : AE!Reachable(p)}
                     /\ \A p \in DOMAIN events :
                          LET n == AE!ValueAt(p)
                          IN (n # None /\ Kind[n] = "drv" /\ Drv[n].named /\ ~(Meta /\ AE!read_meta(n) = AE!JsonFail)) =>
                               events[p].kind = "Derivation" /\ events[p].node = n
  BY Zenon DEF AE!Exhaustive
<1>2. \A q : q \in DOMAIN events => Good(q) BY <1>1, Zenon DEF WorkInv, Known
<1>3. \A q : Good(q) => q \in DOMAIN events BY <1>1, ReachedAnswered
<1>4. \A q : Good(q) <=> q \in AE!PathsOver(AE!AttrNames, MaxAttrDepth) /\ AE!Reachable(q)
  BY PathsAre, AttrTypes, Zenon DEF Good
<1>5. DOMAIN events = {p \in AE!PathsOver(AE!AttrNames, MaxAttrDepth) : AE!Reachable(p)} BY <1>2, <1>3, <1>4, Zenon
<1>6. \A p \in DOMAIN events :
        (AE!ValueAt(p) # None /\ Kind[AE!ValueAt(p)] = "drv" /\ Drv[AE!ValueAt(p)].named
         /\ ~(Meta /\ AE!read_meta(AE!ValueAt(p)) = AE!JsonFail)) =>
            events[p].kind = "Derivation" /\ events[p].node = AE!ValueAt(p)
  BY <1>1, DerivationReported
<1> QED BY <1>5, <1>6, Zenon

------------------------------------------------------------------------------
(* meta as JSON: the table of value_to_json. *)

(* meta as JSON. *)
JsonChild(prev, n, i) == prev[Children[n][i][2]]
Present(n) == {i \in DOMAIN Children[n] : Kind[Children[n][i][2]] # "throw"}
JsonElement(prev, n, i) == IF JsonChild(prev, n, i) = AE!JsonNone THEN <<"scalar", "null">> ELSE JsonChild(prev, n, i)
JsonFails(prev, n, i) == i \in Present(n) /\ JsonChild(prev, n, i) = AE!JsonFail
JsonList(prev, n) ==
    IF \E i \in DOMAIN Children[n] : JsonFails(prev, n, i) /\ 1..i \subseteq Present(n) THEN AE!JsonFail
    ELSE IF Present(n) # DOMAIN Children[n] THEN AE!JsonNone
    ELSE <<"array", {<<Children[n][i][1], JsonElement(prev, n, i)>> : i \in DOMAIN Children[n]}>>
JsonObject(prev, n) ==
    IF \E i \in DOMAIN Children[n] : JsonFails(prev, n, i) THEN AE!JsonFail
    ELSE <<"object", {<<Children[n][i][1], JsonChild(prev, n, i)>> :
                        i \in {k \in Present(n) : JsonChild(prev, n, k) # AE!JsonNone}}>>
JsonStep(prev, depth, n) ==
    IF depth = 0 \/ Kind[n] \in {"throw", "function", "nan"} THEN AE!JsonNone
    ELSE CASE Kind[n] \in {"null", "true", "scalar", "path"} -> <<"scalar", Kind[n]>>
           [] Kind[n] = "badpath" -> AE!JsonFail
           [] Kind[n] = "list" -> JsonList(prev, n)
           [] OTHER -> JsonObject(prev, n)

IsJson(s, limit) == s = [depth \in 0..limit |-> [n \in Node |-> JsonStep(s[depth - 1], depth, n)]]

(* value_to_json computes its table. *)
LEMMA JsonChosen ==
  ASSUME NEW root, NEW limit, \E s : IsJson(s, limit)
  PROVE \E s : IsJson(s, limit) /\ AE!value_to_json(root, limit) = s[limit][root]
<1> DEFINE C == CHOOSE s : IsJson(s, limit)
<1>1. IsJson(C, limit) BY Zenon
<1>2. AE!value_to_json(root, limit) = C[limit][root]
  BY Zenon DEF AE!value_to_json, IsJson, JsonStep, JsonList, JsonObject, JsonElement, JsonFails, JsonChild, Present
<1> QED BY <1>1, <1>2

(* Too deep is no JSON. *)
LEMMA JsonZero == ASSUME NEW prev, NEW n PROVE JsonStep(prev, 0, n) = AE!JsonNone
  BY Zenon DEF JsonStep

(* The table exists for every limit. *)
LEMMA JsonExists ==
  ASSUME NEW limit \in Nat
  PROVE \E s : IsJson(s, limit)
<1> DEFINE Body(s, i) == [n \in Node |-> JsonStep(s[i - 1], i, n)]
           Upto(s, m) == s = [i \in 0..m |-> Body(s, i)]
           S == {m \in Nat : \E s : Upto(s, m)}
<1>0. \A s, t : Body(s, 0) = Body(t, 0)
  BY JsonZero, Zenon
<1>1. 0 \in S
  <2> DEFINE z == [i \in 0..0 |-> [n \in Node |-> AE!JsonNone]]
  <2>1. \A i : i \in 0..0 <=> i = 0 OBVIOUS
  <2>2. Body(z, 0) = [n \in Node |-> AE!JsonNone] BY JsonZero, Zenon
  <2> HIDE DEF Body
  <2>3. Upto(z, 0)
    <3>1. [i \in 0..0 |-> Body(z, i)] = [i \in 0..0 |-> [n \in Node |-> AE!JsonNone]] BY <2>1, <2>2, Zenon
    <3> QED BY <3>1, Zenon
  <2> QED BY <2>3
<1>2. ASSUME NEW m \in Nat, m \in S PROVE m + 1 \in S
  <2>1. PICK r : Upto(r, m) BY <1>2
  <2>2. PICK last : last = Body(r, m + 1) OBVIOUS
  <2> DEFINE t == [i \in 0..(m + 1) |-> IF i = m + 1 THEN last ELSE r[i]]
  <2>3. ASSUME NEW i \in 0..(m + 1) PROVE t[i] = Body(t, i)
    <3>1. CASE i = m + 1
      <4>0. m + 1 \in 0..(m + 1) /\ m \in 0..(m + 1) /\ m # m + 1 /\ (m + 1) - 1 = m OBVIOUS
      <4>1. t[m + 1] = last /\ t[m] = r[m] /\ (m + 1) - 1 = m BY <4>0, Zenon
      <4> HIDE DEF t
      <4> QED BY <3>1, <4>1, <2>2, Zenon
    <3>2. CASE i # m + 1
      <4>1. i \in 0..m /\ t[i] = r[i]
        <5>1. i \in 0..m BY <3>2
        <5> QED BY <3>2, <5>1, Zenon
      <4>2. r[i] = Body(r, i)
        <5>1. [k \in 0..m |-> Body(r, k)][i] = Body(r, i) BY <4>1, Zenon
        <5>2. r = [k \in 0..m |-> Body(r, k)] BY <2>1, Zenon
        <5> HIDE DEF Body
        <5> QED BY <5>1, <5>2, Zenon
      <4>3. CASE i = 0
        <5>1. Body(r, 0) = Body(t, 0) BY <1>0
        <5> HIDE DEF Body, t
        <5> QED BY <4>1, <4>2, <4>3, <5>1, Zenon
      <4>4. CASE i # 0
        <5>0. i - 1 \in 0..(m + 1) /\ i - 1 # m + 1 BY <4>1, <4>4
        <5>1. t[i - 1] = r[i - 1] BY <5>0, Zenon
        <5> HIDE DEF t
        <5> QED BY <4>1, <4>2, <4>4, <5>1, Zenon
      <4> QED BY <4>3, <4>4
    <3> QED BY <3>1, <3>2
  <2>4. t = [i \in 0..(m + 1) |-> t[i]]
    <3> HIDE DEF Body
    <3> QED OBVIOUS
  <2> HIDE DEF t
  <2>5. Upto(t, m + 1)
    <3>1. [i \in 0..(m + 1) |-> t[i]] = [i \in 0..(m + 1) |-> Body(t, i)] BY <2>3, Zenon
    <3> QED BY <2>4, <3>1, Zenon
  <2> QED BY <2>5
<1> HIDE DEF S
<1>3. Nat \subseteq S BY <1>1, <1>2, Induct
<1>4. limit \in S BY <1>3
<1> QED BY <1>4, Zenon DEF S, IsJson

(* Each entry follows from those one level down. *)
LEMMA JsonAt ==
  ASSUME NEW limit \in Nat, NEW s, IsJson(s, limit), NEW d \in 0..limit, NEW n \in Node
  PROVE s[d][n] = JsonStep(s[d - 1], d, n)
<1> DEFINE Body(k) == [m \in Node |-> JsonStep(s[k - 1], k, m)]
<1>1. s = [k \in 0..limit |-> Body(k)] BY Zenon DEF IsJson
<1>2. [k \in 0..limit |-> Body(k)][d] = Body(d) BY Zenon
<1>3. Body(d)[n] = JsonStep(s[d - 1], d, n) BY Zenon
<1> HIDE DEF Body
<1> QED BY <1>1, <1>2, <1>3, Zenon

------------------------------------------------------------------------------
(* What the JSON of a value has under a name. *)

Nulled == <<"scalar", "null">>

(* What an object or array has under a name, ... *)
LEMMA EntryAt ==
  ASSUME NEW tag \in {"array", "object"}, NEW S, NEW name, NEW x, <<name, x>> \in S,
         \A e \in S : e[1] = name => e = <<name, x>>
  PROVE AE!Entry(<<tag, S>>, name) = x
<1>1. <<tag, S>>[1] \in {"array", "object"} /\ <<tag, S>>[2] = S OBVIOUS
<1>2. <<name, x>>[1] = name /\ <<name, x>>[2] = x OBVIOUS
<1>3. (CHOOSE e \in S : e[1] = name) = <<name, x>> BY <1>2, Zenon
<1>4. \E e \in S : e[1] = name BY <1>2, Zenon
<1>5. AE!Entry(<<tag, S>>, name) = (CHOOSE e \in <<tag, S>>[2] : e[1] = name)[2] BY <1>1, <1>4, Zenon DEF AE!Entry
<1>6. AE!Entry(<<tag, S>>, name) = (CHOOSE e \in S : e[1] = name)[2] BY <1>1, <1>5, Zenon
<1> QED BY <1>2, <1>3, <1>6, Zenon

(* ... that it lacks a name, ... *)
LEMMA EntryMissing ==
  ASSUME NEW tag, NEW S, NEW name, \A e \in S : e[1] # name
  PROVE AE!Entry(<<tag, S>>, name) = AE!JsonNone
<1>1. <<tag, S>>[2] = S OBVIOUS
<1> QED BY <1>1, Zenon DEF AE!Entry

(* ... and that other JSON has nothing under any. *)
LEMMA EntryLeaf ==
  ASSUME NEW name
  PROVE /\ AE!Entry(AE!JsonNone, name) = AE!JsonNone
        /\ \A k : AE!Entry(<<"scalar", k>>, name) = AE!JsonNone
<1>1. AE!JsonNone[1] \notin {"array", "object"} BY DEF AE!JsonNone
<1>2. \A k : <<"scalar", k>>[1] \notin {"array", "object"} OBVIOUS
<1> QED BY <1>1, <1>2, Zenon DEF AE!Entry

(* JSON, no JSON and failure are distinct. *)
LEMMA JsonDistinct ==
    /\ AE!JsonNone # AE!JsonFail
    /\ \A k : <<"scalar", k>> # AE!JsonNone /\ <<"scalar", k>> # AE!JsonFail
    /\ \A tag, S : <<tag, S>> # AE!JsonNone /\ <<tag, S>> # AE!JsonFail
<1>1. Len(AE!JsonNone) = 1 /\ Len(AE!JsonFail) = 1 /\ AE!JsonNone[1] = "none" /\ AE!JsonFail[1] = "fail" BY DEF AE!JsonNone, AE!JsonFail
<1>2. \A a, b : Len(<<a, b>>) = 2 OBVIOUS
<1>3. AE!JsonNone # AE!JsonFail BY DEF AE!JsonNone, AE!JsonFail
<1>4. \A a, b : <<a, b>> # AE!JsonNone /\ <<a, b>> # AE!JsonFail BY <1>1, <1>2
<1> QED BY <1>3, <1>4, Zenon

(* The arms of JsonStep. *)
LEMMA JsonArms ==
  ASSUME NEW prev, NEW d, d # 0, NEW n
  PROVE /\ Kind[n] \in {"throw", "function", "nan"} => JsonStep(prev, d, n) = AE!JsonNone
        /\ Kind[n] \in {"null", "true", "scalar", "path"} => JsonStep(prev, d, n) = <<"scalar", Kind[n]>>
        /\ Kind[n] = "badpath" => JsonStep(prev, d, n) = AE!JsonFail
        /\ Kind[n] = "list" => JsonStep(prev, d, n) = JsonList(prev, n)
        /\ Kind[n] \in {"attrs", "drv", "baddrv"} => JsonStep(prev, d, n) = JsonObject(prev, n)
<1>1. PICK k, a, b, c, e, f : /\ k = Kind[n] /\ a = AE!JsonNone /\ b = <<"scalar", Kind[n]>> /\ c = AE!JsonFail
                              /\ e = JsonList(prev, n) /\ f = JsonObject(prev, n)
  OBVIOUS
<1>2. JsonStep(prev, d, n) =
        IF d = 0 \/ k \in {"throw", "function", "nan"} THEN a
        ELSE CASE k \in {"null", "true", "scalar", "path"} -> b
               [] k = "badpath" -> c
               [] k = "list" -> e
               [] OTHER -> f
  BY <1>1, Zenon DEF JsonStep
<1>3. PICK j : j = JsonStep(prev, d, n) OBVIOUS
<1>4. /\ k \in {"throw", "function", "nan"} => j = a
      /\ k \in {"null", "true", "scalar", "path"} => j = b
      /\ k = "badpath" => j = c
      /\ k = "list" => j = e
      /\ k \in {"attrs", "drv", "baddrv"} => j = f
  <2>1. j = IF d = 0 \/ k \in {"throw", "function", "nan"} THEN a
            ELSE CASE k \in {"null", "true", "scalar", "path"} -> b
               [] k = "badpath" -> c
               [] k = "list" -> e
               [] OTHER -> f
    BY <1>2, <1>3, Zenon
  <2> HIDE <1>1, <1>2, <1>3
  <2> QED BY <2>1
<1> QED BY <1>1, <1>3, <1>4, Zenon

(* What the JSON of a list holds. *)
LEMMA ListEntry ==
  ASSUME NEW n \in Node, NEW prev, JsonList(prev, n) # AE!JsonFail, AE!Convertible(n), Kind[n] = "list", NEW name
  PROVE /\ JsonList(prev, n) # AE!JsonNone
        /\ AE!Child(n, name) = None => AE!Entry(JsonList(prev, n), name) = AE!JsonNone
        /\ AE!Child(n, name) # None =>
             /\ prev[AE!Child(n, name)] # AE!JsonFail
             /\ AE!Entry(JsonList(prev, n), name) =
                  IF prev[AE!Child(n, name)] = AE!JsonNone THEN Nulled ELSE prev[AE!Child(n, name)]
<1> DEFINE all == DOMAIN Children[n]
           arr == {<<Children[n][i][1], JsonElement(prev, n, i)>> : i \in all}
<1>1. Children[n] \in Seq(STRING \X Node) BY AttrTypes
<1>2. all = 1..Len(Children[n]) /\ Len(Children[n]) \in Nat BY <1>1
<1>3. Present(n) = all BY Zenon DEF AE!Convertible, Present
<1>4. \A i \in all : 1..i \subseteq all BY <1>2
<1>5. JsonList(prev, n) =
        IF \E i \in all : JsonFails(prev, n, i) /\ 1..i \subseteq Present(n) THEN AE!JsonFail
        ELSE IF Present(n) # all THEN AE!JsonNone ELSE <<"array", arr>>
  BY Zenon DEF JsonList
<1>6. \A i \in all : ~JsonFails(prev, n, i) BY <1>3, <1>4, <1>5, Zenon
<1>7. JsonList(prev, n) = <<"array", arr>> BY <1>3, <1>5, <1>6, Zenon
<1>8. \A i \in all : prev[Children[n][i][2]] # AE!JsonFail BY <1>3, <1>6, Zenon DEF JsonFails, JsonChild
<1>9. ASSUME AE!Child(n, name) = None PROVE AE!Entry(JsonList(prev, n), name) = AE!JsonNone
  <2>1. \A i \in all : Children[n][i][1] # name BY <1>9, ChildType
  <2>2. \A e \in arr : e[1] # name
    <3>1. ASSUME NEW i \in all PROVE <<Children[n][i][1], JsonElement(prev, n, i)>>[1] # name BY <2>1
    <3> QED BY <3>1, Zenon
  <2> HIDE DEF arr
  <2> QED BY <1>7, <2>2, EntryMissing, Zenon
<1>10. ASSUME AE!Child(n, name) # None
       PROVE /\ prev[AE!Child(n, name)] # AE!JsonFail
             /\ AE!Entry(JsonList(prev, n), name) =
                  IF prev[AE!Child(n, name)] = AE!JsonNone THEN Nulled ELSE prev[AE!Child(n, name)]
  <2>1. PICK i \in all : Children[n][i][1] = name BY <1>10, ChildType
  <2>2. AE!Child(n, name) = Children[n][i][2] BY <2>1, ChildIs, Zenon
  <2>3. PICK x : x = JsonElement(prev, n, i) OBVIOUS
  <2>4. <<name, x>> \in arr BY <2>1, <2>3, Zenon
  <2>5. \A e \in arr : e[1] = name => e = <<name, x>>
    <3>1. ASSUME NEW j \in all, <<Children[n][j][1], JsonElement(prev, n, j)>>[1] = name PROVE j = i
      <4>1. Children[n][j][1] = name BY <3>1
      <4> QED BY <2>1, <4>1, AttrTypes
    <3> QED BY <2>1, <2>3, <3>1, Zenon
  <2>6. "array" \in {"array", "object"} OBVIOUS
  <2> HIDE DEF arr
  <2>7. AE!Entry(<<"array", arr>>, name) = x BY <2>4, <2>5, <2>6, EntryAt
  <2> QED BY <1>7, <1>8, <2>1, <2>2, <2>3, <2>7, Zenon DEF JsonElement, JsonChild, Nulled
<1>11. JsonList(prev, n) # AE!JsonNone BY <1>7, JsonDistinct, Zenon
<1> QED BY <1>9, <1>10, <1>11

(* What the JSON of an attribute set holds. *)
LEMMA ObjectEntry ==
  ASSUME NEW n \in Node, NEW prev, JsonObject(prev, n) # AE!JsonFail, NEW name,
         \A c \in Node : Kind[c] = "throw" => prev[c] = AE!JsonNone
  PROVE /\ JsonObject(prev, n) # AE!JsonNone
        /\ AE!Child(n, name) = None => AE!Entry(JsonObject(prev, n), name) = AE!JsonNone
        /\ AE!Child(n, name) # None =>
             /\ prev[AE!Child(n, name)] # AE!JsonFail
             /\ AE!Entry(JsonObject(prev, n), name) = prev[AE!Child(n, name)]
<1> DEFINE all == DOMAIN Children[n]
           shown == {k \in Present(n) : JsonChild(prev, n, k) # AE!JsonNone}
           obj == {<<Children[n][i][1], JsonChild(prev, n, i)>> : i \in shown}
<1>1. Children[n] \in Seq(STRING \X Node) BY AttrTypes
<1>2. \A i \in all : Children[n][i][2] \in Node
  <2> TAKE i \in all
  <2>1. Children[n][i] \in STRING \X Node BY <1>1
  <2> QED BY <2>1
<1>3. \A i \in shown : i \in all BY Zenon DEF Present
<1>5. JsonObject(prev, n) = IF \E i \in all : JsonFails(prev, n, i) THEN AE!JsonFail ELSE <<"object", obj>>
  BY Zenon DEF JsonObject
<1>6. \A i \in all : ~JsonFails(prev, n, i) BY <1>5, Zenon
<1>7. JsonObject(prev, n) = <<"object", obj>> BY <1>5, <1>6, Zenon
<1>8. \A i \in all : prev[Children[n][i][2]] # AE!JsonFail
  BY <1>2, <1>6, JsonDistinct, Zenon DEF JsonFails, JsonChild, Present
<1>9. ASSUME AE!Child(n, name) = None PROVE AE!Entry(JsonObject(prev, n), name) = AE!JsonNone
  <2>1. \A i \in all : Children[n][i][1] # name BY <1>9, ChildType
  <2>2. \A e \in obj : e[1] # name
    <3>1. ASSUME NEW i \in shown PROVE <<Children[n][i][1], JsonChild(prev, n, i)>>[1] # name
      <4>1. i \in all BY <1>3, Zenon
      <4>2. Children[n][i][1] # name BY <2>1, <4>1
      <4> HIDE DEF shown
      <4> QED BY <4>2
    <3> QED BY <3>1, Zenon
  <2> HIDE DEF obj
  <2> QED BY <1>7, <2>2, EntryMissing, Zenon
<1>10. ASSUME AE!Child(n, name) # None
       PROVE /\ prev[AE!Child(n, name)] # AE!JsonFail
             /\ AE!Entry(JsonObject(prev, n), name) = prev[AE!Child(n, name)]
  <2>1. PICK i \in all : Children[n][i][1] = name BY <1>10, ChildType
  <2>2. AE!Child(n, name) = Children[n][i][2] BY <2>1, ChildIs, Zenon
  <2>3. PICK x : x = prev[Children[n][i][2]] OBVIOUS
  <2>4. \A j \in all : Children[n][j][1] = name => j = i BY <2>1, AttrTypes
  <2>5. CASE x = AE!JsonNone
    <3>1. i \notin shown BY <2>3, <2>5, Zenon DEF JsonChild
    <3>2. \A e \in obj : e[1] # name
      <4>1. ASSUME NEW j \in shown PROVE <<Children[n][j][1], JsonChild(prev, n, j)>>[1] # name
        <5>1. j \in all /\ j # i BY <1>3, <3>1, Zenon
        <5>2. Children[n][j][1] # name BY <2>4, <5>1
        <5> HIDE DEF shown
        <5> QED BY <5>2
      <4> QED BY <4>1, Zenon
    <3> HIDE DEF obj, shown
    <3>3. AE!Entry(<<"object", obj>>, name) = AE!JsonNone BY <3>2, EntryMissing, Zenon
    <3> QED BY <1>7, <1>8, <2>1, <2>2, <2>3, <2>5, <3>3, Zenon
  <2>6. CASE x # AE!JsonNone
    <3>1. i \in shown BY <1>2, <2>1, <2>3, <2>6, Zenon DEF JsonChild, Present
    <3>2. <<name, x>> \in obj BY <2>1, <2>3, <3>1, Zenon DEF JsonChild
    <3>3. \A e \in obj : e[1] = name => e = <<name, x>>
      <4>1. ASSUME NEW j \in shown, <<Children[n][j][1], JsonChild(prev, n, j)>>[1] = name PROVE j = i
        <5>1. j \in all BY <1>3, Zenon
        <5>2. Children[n][j][1] = name
          <6> HIDE DEF shown
          <6> QED BY <4>1
        <5> QED BY <2>4, <5>1, <5>2
      <4> QED BY <2>1, <2>3, <4>1, Zenon DEF JsonChild
    <3>4. "object" \in {"array", "object"} OBVIOUS
    <3> HIDE DEF obj, shown
    <3>5. AE!Entry(<<"object", obj>>, name) = x BY <3>2, <3>3, <3>4, EntryAt
    <3> QED BY <1>7, <1>8, <2>1, <2>2, <2>3, <3>5, Zenon
  <2> QED BY <2>5, <2>6
<1>11. JsonObject(prev, n) # AE!JsonNone BY <1>7, JsonDistinct, Zenon
<1> QED BY <1>9, <1>10, <1>11

------------------------------------------------------------------------------
(* Following a path through meta and through its JSON. *)

(* Looking up nothing. *)
LEMMA LookupEmpty == ASSUME NEW json PROVE AE!Lookup(json, <<>>) = json
<1>1. Len(<<>>) = 0 /\ Len(<<>>) \in Nat OBVIOUS
<1>2. PICK s : IsLookup(s, json, <<>>) /\ AE!Lookup(json, <<>>) = s[0] BY <1>1, LookupIs, Zenon
<1>3. s[0] = json BY <1>1, <1>2, LookupStarts
<1> QED BY <1>2, <1>3, Zenon

(* Looking up one name more. *)
LEMMA LookupAppend ==
  ASSUME NEW T, NEW q \in Seq(T), NEW x, NEW json
  PROVE AE!Lookup(json, Append(q, x)) = AE!Entry(AE!Lookup(json, q), x)
<1> DEFINE r == Append(q, x)
<1>1. Len(q) \in Nat /\ Len(r) \in Nat /\ Len(r) = Len(q) + 1 /\ r[Len(q) + 1] = x /\ \A i \in 1..Len(q) : r[i] = q[i] OBVIOUS
<1> HIDE DEF r
<1>2. PICK f : IsLookup(f, json, q) /\ AE!Lookup(json, q) = f[Len(q)] BY <1>1, LookupIs
<1>3. PICK g : IsLookup(g, json, r) /\ AE!Lookup(json, r) = g[Len(r)] BY <1>1, LookupIs
<1>4. f[0] = json /\ \A i \in 1..Len(q) : f[i] = AE!Entry(f[i - 1], q[i])
  <2>1. f[0] = json BY <1>1, <1>2, LookupStarts
  <2>2. ASSUME NEW i \in 1..Len(q) PROVE f[i] = AE!Entry(f[i - 1], q[i]) BY <1>1, <1>2, LookupSteps
  <2> QED BY <2>1, <2>2
<1>5. g[0] = json /\ \A i \in 1..Len(r) : g[i] = AE!Entry(g[i - 1], r[i])
  <2>1. g[0] = json BY <1>1, <1>3, LookupStarts
  <2>2. ASSUME NEW i \in 1..Len(r) PROVE g[i] = AE!Entry(g[i - 1], r[i])
    <3>1. Len(r) \in Nat /\ IsLookup(g, json, r) BY <1>1, <1>3
    <3> HIDE <1>1, <1>2, <1>4
    <3> QED BY <3>1, LookupSteps
  <2> QED BY <2>1, <2>2
<1> DEFINE S == {i \in Nat : i <= Len(q) => g[i] = f[i]}
<1>6. 0 \in S BY <1>4, <1>5
<1>7. ASSUME NEW i \in Nat, i \in S PROVE i + 1 \in S
  <2>1. SUFFICES ASSUME i + 1 <= Len(q) PROVE g[i + 1] = f[i + 1] BY <1>7
  <2>2. i + 1 \in 1..Len(q) /\ i + 1 \in 1..Len(r) /\ (i + 1) - 1 = i BY <1>1, <2>1
  <2>3. g[i] = f[i] BY <1>1, <1>7, <2>1
  <2>4. f[i + 1] = AE!Entry(f[i], q[i + 1]) BY <1>4, <2>2, Zenon
  <2>5. g[i + 1] = AE!Entry(g[i], r[i + 1]) BY <1>5, <2>2, Zenon
  <2>6. r[i + 1] = q[i + 1] BY <1>1, <2>2
  <2> QED BY <2>3, <2>4, <2>5, <2>6, Zenon
<1> HIDE DEF S
<1>8. Nat \subseteq S BY <1>6, <1>7, Induct
<1>9. g[Len(q)] = f[Len(q)]
  <2>1. Len(q) \in S BY <1>1, <1>8
  <2> QED BY <1>1, <2>1 DEF S
<1>10. g[Len(r)] = AE!Entry(g[Len(q)], x)
  <2>1. Len(q) + 1 \in 1..Len(r) /\ (Len(q) + 1) - 1 = Len(q) BY <1>1
  <2>2. g[Len(q) + 1] = AE!Entry(g[Len(q)], r[Len(q) + 1]) BY <1>5, <2>1, Zenon
  <2> QED BY <1>1, <2>2, Zenon
<1>11. AE!Lookup(json, r) = AE!Entry(AE!Lookup(json, q), x) BY <1>2, <1>3, <1>9, <1>10, Zenon
<1> QED BY <1>11 DEF r

(* Whether meta itself is visible. *)
LEMMA VisibleEmpty ==
  ASSUME NEW meta
  PROVE AE!Visible(meta, <<>>) <=> 0 < MaxMetaDepth /\ AE!Convertible(meta)
<1>1. Len(<<>>) = 0 /\ \A i : i \in 0..Len(<<>>) <=> i = 0 OBVIOUS
<1>2. SubSeq(<<>>, 1, 0) = <<>> OBVIOUS
<1>3. AE!Walk(meta, <<>>) = meta BY FollowEmpty, Zenon DEF AE!Walk
<1> QED BY <1>1, <1>2, <1>3, Zenon DEF AE!Visible

(* Whether one name more is. *)
LEMMA VisibleAppend ==
  ASSUME NEW meta, NEW T, NEW q \in Seq(T), NEW k \in T
  PROVE AE!Visible(meta, Append(q, k)) <=>
          AE!Visible(meta, q) /\ Len(q) + 1 < MaxMetaDepth /\ AE!Convertible(AE!Walk(meta, Append(q, k)))
<1> DEFINE r == Append(q, k)
           At(u, i) == AE!Convertible(AE!Walk(meta, SubSeq(u, 1, i)))
<1>1. Len(q) \in Nat /\ Len(r) = Len(q) + 1 OBVIOUS
<1>2. \A i : i \in 0..Len(r) <=> i \in 0..Len(q) \/ i = Len(q) + 1 BY <1>1
<1>3. \A u : AE!Visible(meta, u) <=> Len(u) < MaxMetaDepth /\ \A i \in 0..Len(u) : At(u, i) BY Zenon DEF AE!Visible
<1>4. ASSUME NEW i \in 0..Len(q) PROVE At(r, i) <=> At(q, i)
  <2>1. SubSeq(r, 1, i) = SubSeq(q, 1, i) BY <1>1
  <2> HIDE DEF r
  <2> QED BY <2>1, Zenon
<1>5. At(r, Len(q) + 1) <=> AE!Convertible(AE!Walk(meta, r))
  <2>1. SubSeq(r, 1, Len(q) + 1) = r BY <1>1
  <2> HIDE DEF r
  <2> QED BY <2>1, Zenon
<1>6. Len(r) < MaxMetaDepth <=> Len(q) < MaxMetaDepth /\ Len(q) + 1 < MaxMetaDepth BY <1>1, AttrTypes
<1> HIDE DEF At, r
<1>7. AE!Visible(meta, r) <=>
          AE!Visible(meta, q) /\ Len(q) + 1 < MaxMetaDepth /\ AE!Convertible(AE!Walk(meta, r))
  BY <1>1, <1>2, <1>3, <1>4, <1>5, <1>6, Zenon
<1> QED BY <1>7 DEF r

(* Parent drops the last name. *)
LEMMA ParentAppend ==
  ASSUME NEW T, NEW q \in Seq(T), NEW k \in T
  PROVE AE!Parent(Append(q, k)) = q
<1>1. Len(q) \in Nat /\ Len(Append(q, k)) - 1 = Len(q) OBVIOUS
<1>2. SubSeq(Append(q, k), 1, Len(q)) = q OBVIOUS
<1> QED BY <1>1, <1>2, Zenon DEF AE!Parent

(* A value has JSON if it can be converted and is not too deep. *)
LEMMA JsonOfNode ==
  ASSUME NEW s, IsJson(s, MaxMetaDepth), NEW d \in 0..MaxMetaDepth, NEW n \in Node, s[d][n] # AE!JsonFail
  PROVE s[d][n] = AE!JsonNone <=> d = 0 \/ ~AE!Convertible(n)
<1>1. s[d][n] = JsonStep(s[d - 1], d, n) BY AttrTypes, JsonAt
<1>2. n # None BY AttrTypes
<1>3. CASE d = 0 BY <1>1, <1>3, JsonZero, Zenon
<1>4. CASE d # 0
  <2>0. Kind[n] \in AE!Kinds BY DataPathAssumption, Zenon DEF AE!AttrEvalAssumption
  <2>1. CASE Kind[n] \in {"throw", "function", "nan"}
    <3>1. s[d][n] = AE!JsonNone BY <1>1, <1>4, <2>1, JsonArms, Zenon
    <3> QED BY <2>1, <3>1, Zenon DEF AE!Convertible
  <2>2. CASE Kind[n] \in {"null", "true", "scalar", "path"}
    <3>1. s[d][n] = <<"scalar", Kind[n]>> BY <1>1, <1>4, <2>2, JsonArms, Zenon
    <3>2. s[d][n] # AE!JsonNone BY <3>1, JsonDistinct, Zenon
    <3>3. Kind[n] # "list" /\ Kind[n] \notin {"throw", "function", "nan"} BY <2>2
    <3> QED BY <1>2, <1>4, <3>2, <3>3, Zenon DEF AE!Convertible
  <2>3. CASE Kind[n] = "badpath"
    <3>1. s[d][n] = AE!JsonFail BY <1>1, <1>4, <2>3, JsonArms, Zenon
    <3> QED BY <3>1
  <2>4. CASE Kind[n] = "list"
    <3>1. s[d][n] = JsonList(s[d - 1], n) BY <1>1, <1>4, <2>4, JsonArms, Zenon
    <3>2. CASE AE!Convertible(n)
      <4>1. s[d][n] # AE!JsonNone BY <2>4, <3>1, <3>2, ListEntry
      <4> QED BY <1>4, <3>2, <4>1
    <3>3. CASE ~AE!Convertible(n)
      <4>1. "list" \notin {"throw", "function", "nan"} OBVIOUS
      <4>2. Present(n) # DOMAIN Children[n] BY <1>2, <2>4, <3>3, <4>1, Zenon DEF AE!Convertible, Present
      <4>3. s[d][n] = AE!JsonNone BY <3>1, <4>2, Zenon DEF JsonList
      <4> QED BY <3>3, <4>3
    <3> QED BY <3>2, <3>3
  <2>5. CASE Kind[n] \in {"attrs", "drv", "baddrv"}
    <3>1. s[d][n] = JsonObject(s[d - 1], n) BY <1>1, <1>4, <2>5, JsonArms, Zenon
    <3>2. s[d][n] # AE!JsonNone BY <3>1, JsonDistinct, Zenon DEF JsonObject
    <3>3. Kind[n] # "list" /\ Kind[n] \notin {"throw", "function", "nan"} BY <2>5
    <3> QED BY <1>2, <1>4, <3>2, <3>3, Zenon DEF AE!Convertible
  <2> QED BY <2>0, <2>1, <2>2, <2>3, <2>4, <2>5 DEF AE!Kinds
<1> QED BY <1>3, <1>4

(* What its JSON has under a name. *)
LEMMA JsonEntry ==
  ASSUME NEW s, IsJson(s, MaxMetaDepth), NEW d \in 1..MaxMetaDepth, NEW n \in Node, s[d][n] # AE!JsonFail,
         AE!Convertible(n), NEW name
  PROVE /\ AE!Child(n, name) = None => AE!Entry(s[d][n], name) = AE!JsonNone
        /\ AE!Child(n, name) # None =>
             /\ s[d - 1][AE!Child(n, name)] # AE!JsonFail
             /\ AE!Entry(s[d][n], name) =
                  IF Kind[n] = "list" /\ s[d - 1][AE!Child(n, name)] = AE!JsonNone THEN Nulled
                  ELSE s[d - 1][AE!Child(n, name)]
<1>0. d \in 0..MaxMetaDepth /\ d # 0 /\ d - 1 \in 0..MaxMetaDepth BY AttrTypes
<1>1. s[d][n] = JsonStep(s[d - 1], d, n) BY <1>0, AttrTypes, JsonAt
<1>2. Kind[n] \in AE!Kinds BY DataPathAssumption, Zenon DEF AE!AttrEvalAssumption
<1>3. Kind[n] \notin {"throw", "function", "nan"} BY Zenon DEF AE!Convertible
<1>4. CASE Kind[n] \in {"null", "true", "scalar", "path"}
  <2>1. s[d][n] = <<"scalar", Kind[n]>> BY <1>0, <1>1, <1>4, JsonArms, Zenon
  <2>2. AE!Entry(s[d][n], name) = AE!JsonNone BY <2>1, EntryLeaf, Zenon
  <2>3. Children[n] = <<>> BY <1>4, AttrTypes
  <2>4. AE!Child(n, name) = None BY <2>3, ChildType
  <2> QED BY <2>2, <2>4
<1>5. CASE Kind[n] = "badpath" BY <1>0, <1>1, <1>5, JsonArms, Zenon
<1>6. CASE Kind[n] = "list"
  <2>1. s[d][n] = JsonList(s[d - 1], n) BY <1>0, <1>1, <1>6, JsonArms, Zenon
  <2>2. PICK prev : prev = s[d - 1] OBVIOUS
  <2>3. JsonList(prev, n) # AE!JsonFail BY <2>1, <2>2, Zenon
  <2>4. /\ AE!Child(n, name) = None => AE!Entry(JsonList(prev, n), name) = AE!JsonNone
        /\ AE!Child(n, name) # None =>
             /\ prev[AE!Child(n, name)] # AE!JsonFail
             /\ AE!Entry(JsonList(prev, n), name) =
                  IF prev[AE!Child(n, name)] = AE!JsonNone THEN Nulled ELSE prev[AE!Child(n, name)]
    BY <1>6, <2>3, ListEntry, Zenon
  <2> QED BY <1>6, <2>1, <2>2, <2>4, Zenon
<1>7. CASE Kind[n] \in {"attrs", "drv", "baddrv"}
  <2>1. s[d][n] = JsonObject(s[d - 1], n) BY <1>0, <1>1, <1>7, JsonArms, Zenon
  <2>2. PICK prev : prev = s[d - 1] OBVIOUS
  <2>3. JsonObject(prev, n) # AE!JsonFail BY <2>1, <2>2, Zenon
  <2>4. \A c \in Node : Kind[c] = "throw" => prev[c] = AE!JsonNone
    <3> TAKE c \in Node
    <3>1. s[d - 1][c] = JsonStep(s[(d - 1) - 1], d - 1, c) BY <1>0, AttrTypes, JsonAt
    <3>2. Kind[c] = "throw" => JsonStep(s[(d - 1) - 1], d - 1, c) = AE!JsonNone BY Zenon DEF JsonStep
    <3> QED BY <2>2, <3>1, <3>2, Zenon
  <2>5. /\ AE!Child(n, name) = None => AE!Entry(JsonObject(prev, n), name) = AE!JsonNone
        /\ AE!Child(n, name) # None =>
             /\ prev[AE!Child(n, name)] # AE!JsonFail
             /\ AE!Entry(JsonObject(prev, n), name) = prev[AE!Child(n, name)]
    BY <2>3, <2>4, ObjectEntry, Zenon
  <2>6. Kind[n] # "list" BY <1>7
  <2> QED BY <2>1, <2>2, <2>5, <2>6, Zenon
<1> QED BY <1>2, <1>3, <1>4, <1>5, <1>6, <1>7 DEF AE!Kinds

------------------------------------------------------------------------------
(* meta is kept. *)

(* An element of a list shown as null. *)
NullAt(meta, q) ==
    /\ q # <<>> /\ AE!Visible(meta, AE!Parent(q)) /\ AE!Walk(meta, q) # None
    /\ Kind[AE!Walk(meta, AE!Parent(q))] = "list"

Shown(s, meta, q) ==
    LET found == AE!Lookup(s[MaxMetaDepth][meta], q)
    IN /\ AE!Visible(meta, q) =>
            /\ AE!Walk(meta, q) \in Node
            /\ found = s[MaxMetaDepth - Len(q)][AE!Walk(meta, q)]
            /\ found # AE!JsonFail /\ found # AE!JsonNone
       /\ ~AE!Visible(meta, q) => found = IF NullAt(meta, q) THEN Nulled ELSE AE!JsonNone

(* The JSON at the empty path, ... *)
LEMMA ShownEmpty ==
  ASSUME NEW s, IsJson(s, MaxMetaDepth), NEW meta \in Node, s[MaxMetaDepth][meta] # AE!JsonFail
  PROVE Shown(s, meta, <<>>)
<1>1. AE!Lookup(s[MaxMetaDepth][meta], <<>>) = s[MaxMetaDepth][meta] BY LookupEmpty
<1>2. AE!Walk(meta, <<>>) = meta BY FollowEmpty, Zenon DEF AE!Walk
<1>3. Len(<<>>) = 0 /\ MaxMetaDepth - Len(<<>>) = MaxMetaDepth /\ MaxMetaDepth \in 0..MaxMetaDepth
      /\ (0 < MaxMetaDepth <=> MaxMetaDepth # 0)
  BY AttrTypes
<1>4. s[MaxMetaDepth][meta] = AE!JsonNone <=> MaxMetaDepth = 0 \/ ~AE!Convertible(meta) BY <1>3, JsonOfNode
<1>5. AE!Visible(meta, <<>>) <=> s[MaxMetaDepth][meta] # AE!JsonNone BY <1>3, <1>4, VisibleEmpty, Zenon
<1>6. ~NullAt(meta, <<>>) BY Zenon DEF NullAt
<1> QED BY <1>1, <1>2, <1>3, <1>5, <1>6, Zenon DEF Shown

(* ... at one name more, ... *)
LEMMA ShownAppend ==
  ASSUME NEW s, IsJson(s, MaxMetaDepth), NEW meta \in Node, NEW q \in Seq(AE!Names), NEW k \in AE!Names,
         Len(q) + 1 <= MaxMetaDepth, Shown(s, meta, q)
  PROVE Shown(s, meta, Append(q, k))
<1>1. PICK r : r = Append(q, k) OBVIOUS
<1>2. Len(q) \in Nat /\ Len(r) = Len(q) + 1 /\ r # <<>> BY <1>1
<1>3. PICK d : d = MaxMetaDepth - Len(q) OBVIOUS
<1>4. d \in 1..MaxMetaDepth /\ d - 1 = MaxMetaDepth - Len(r) /\ d - 1 \in 0..MaxMetaDepth
      /\ (d - 1 # 0 <=> Len(q) + 1 < MaxMetaDepth)
  BY <1>2, <1>3, AttrTypes
<1>5. PICK j : j = AE!Lookup(s[MaxMetaDepth][meta], q) OBVIOUS
<1>6. PICK g : g = AE!Lookup(s[MaxMetaDepth][meta], r) OBVIOUS
<1>7. g = AE!Entry(j, k) BY <1>1, <1>5, <1>6, LookupAppend, Zenon
<1>8. AE!Parent(r) = q BY <1>1, ParentAppend
<1>9. PICK n : n = AE!Walk(meta, q) OBVIOUS
<1>10. PICK c : c = AE!Walk(meta, r) OBVIOUS
<1>11. c = AE!Plain[n][k] BY <1>1, <1>9, <1>10, FollowAppend, Zenon DEF AE!Walk
<1>12. AE!Visible(meta, r) <=> AE!Visible(meta, q) /\ Len(q) + 1 < MaxMetaDepth /\ AE!Convertible(c)
  BY <1>1, <1>10, VisibleAppend, Zenon
<1>13. NullAt(meta, r) <=> AE!Visible(meta, q) /\ c # None /\ Kind[n] = "list"
  BY <1>2, <1>8, <1>9, <1>10, Zenon DEF NullAt
<1>14. CASE ~AE!Visible(meta, q)
  <2>1. j = Nulled \/ j = AE!JsonNone BY <1>5, <1>14, Zenon DEF Shown
  <2>2. g = AE!JsonNone BY <1>7, <2>1, EntryLeaf, Zenon DEF Nulled
  <2>3. Shown(s, meta, r) BY <1>6, <1>12, <1>13, <1>14, <2>2, Zenon DEF Shown
  <2> QED BY <1>1, <2>3, Zenon
<1>15. CASE AE!Visible(meta, q)
  <2>1. n \in Node /\ j = s[d][n] /\ j # AE!JsonFail /\ j # AE!JsonNone
    BY <1>3, <1>5, <1>9, <1>15, Zenon DEF Shown
  <2>2. AE!Convertible(n)
    <3>1. d \in 0..MaxMetaDepth BY <1>4
    <3>2. s[d][n] # AE!JsonFail BY <2>1, Zenon
    <3>3. s[d][n] = AE!JsonNone <=> d = 0 \/ ~AE!Convertible(n) BY <2>1, <3>1, <3>2, JsonOfNode
    <3> QED BY <2>1, <3>3, Zenon
  <2>3. c = AE!Child(n, k)
    <3>1. n \in Node \union {None} /\ n # None BY <2>1, AttrTypes
    <3> QED BY <1>11, <3>1, CallingIs, Zenon
  <2>4. /\ c = None => g = AE!JsonNone
        /\ c # None =>
             /\ s[d - 1][c] # AE!JsonFail
             /\ g = IF Kind[n] = "list" /\ s[d - 1][c] = AE!JsonNone THEN Nulled ELSE s[d - 1][c]
    <3>1. s[d][n] # AE!JsonFail BY <2>1, Zenon
    <3>2. /\ AE!Child(n, k) = None => AE!Entry(s[d][n], k) = AE!JsonNone
          /\ AE!Child(n, k) # None =>
               /\ s[d - 1][AE!Child(n, k)] # AE!JsonFail
               /\ AE!Entry(s[d][n], k) =
                    IF Kind[n] = "list" /\ s[d - 1][AE!Child(n, k)] = AE!JsonNone THEN Nulled
                    ELSE s[d - 1][AE!Child(n, k)]
      BY <1>4, <2>1, <2>2, <3>1, JsonEntry
    <3> QED BY <1>7, <2>1, <2>3, <3>2, Zenon
  <2>5. CASE c = None
    <3>1. ~AE!Convertible(c) BY <2>5, Zenon DEF AE!Convertible
    <3>2. Shown(s, meta, r) BY <1>6, <1>12, <1>13, <2>4, <2>5, <3>1, Zenon DEF Shown
    <3> QED BY <1>1, <3>2, Zenon
  <2>6. CASE c # None
    <3>1. c \in Node BY <2>1, <2>3, <2>6, ChildType
    <3>2. s[d - 1][c] = AE!JsonNone <=> d - 1 = 0 \/ ~AE!Convertible(c) BY <1>4, <2>4, <2>6, <3>1, JsonOfNode
    <3>3. AE!Visible(meta, r) <=> s[d - 1][c] # AE!JsonNone BY <1>4, <1>12, <1>15, <3>2, Zenon
    <3>4. Shown(s, meta, r)
      BY <1>4, <1>6, <1>10, <1>13, <1>15, <2>4, <2>6, <3>1, <3>3, Zenon DEF Shown
    <3> QED BY <1>1, <3>4, Zenon
  <2> QED BY <2>5, <2>6
<1> QED BY <1>14, <1>15

(* ... and at every path. *)
LEMMA ShownAll ==
  ASSUME NEW s, IsJson(s, MaxMetaDepth), NEW meta \in Node, s[MaxMetaDepth][meta] # AE!JsonFail,
         NEW q \in Seq(AE!Names), Len(q) <= MaxMetaDepth
  PROVE Shown(s, meta, q)
<1> DEFINE S == {m \in Nat : \A r \in Seq(AE!Names) : Len(r) = m /\ m <= MaxMetaDepth => Shown(s, meta, r)}
<1>1. 0 \in S
  <2>1. ASSUME NEW r \in Seq(AE!Names), Len(r) = 0 PROVE r = <<>> BY <2>1
  <2>2. Shown(s, meta, <<>>) BY ShownEmpty
  <2> QED BY <2>1, <2>2, Zenon
<1>2. ASSUME NEW m \in Nat, m \in S PROVE m + 1 \in S
  <2>1. ASSUME NEW r \in Seq(AE!Names), Len(r) = m + 1, m + 1 <= MaxMetaDepth PROVE Shown(s, meta, r)
    <3>1. PICK h \in Seq(AE!Names), k \in AE!Names : Len(h) = m /\ r = Append(h, k)
      <4>1. /\ SubSeq(r, 1, m) \in Seq(AE!Names) /\ Len(SubSeq(r, 1, m)) = m /\ r[m + 1] \in AE!Names
            /\ r = Append(SubSeq(r, 1, m), r[m + 1])
        BY <2>1, SeqSplit
      <4> QED BY <4>1, Zenon
    <3>2. m <= MaxMetaDepth BY <2>1, AttrTypes
    <3>3. Shown(s, meta, h) BY <1>2, <3>1, <3>2
    <3>4. Len(h) + 1 <= MaxMetaDepth BY <2>1, <3>1
    <3>5. Shown(s, meta, Append(h, k)) BY <3>3, <3>4, ShownAppend
    <3> QED BY <3>1, <3>5, Zenon
  <2>2. m + 1 \in Nat OBVIOUS
  <2> QED BY <2>1, <2>2, Zenon
<1> HIDE DEF S
<1>3. Nat \subseteq S BY <1>1, <1>2, Induct
<1>4. Len(q) \in S BY <1>3
<1> QED BY <1>4 DEF S

(* read_meta has exactly the visible parts, and null in lists. *)
LEMMA MetaShown ==
  ASSUME NEW n \in Node, Kind[n] = "drv", AE!read_meta(n) # AE!JsonFail, AE!Child(n, "meta") # None,
         NEW q \in Seq(AE!Names), Len(q) <= MaxMetaDepth
  PROVE AE!Lookup(AE!read_meta(n), q) # AE!JsonNone <=>
          AE!Visible(AE!Child(n, "meta"), q) \/ NullAt(AE!Child(n, "meta"), q)
<1>1. PICK meta : meta = AE!Child(n, "meta") OBVIOUS
<1>2. meta \in Node BY <1>1, ChildType
<1>3. MaxMetaDepth \in Nat BY AttrTypes
<1>4. PICK s : IsJson(s, MaxMetaDepth) /\ AE!value_to_json(meta, MaxMetaDepth) = s[MaxMetaDepth][meta]
  BY <1>3, JsonExists, JsonChosen
<1>5. AE!read_meta(n) = s[MaxMetaDepth][meta]
  <2>1. AE!get_attr(n, "meta") = Forced(meta)
    <3>1. Kind[n] \in {"attrs", "drv", "baddrv"} OBVIOUS
    <3> QED BY <1>1, <3>1, GetAttrIs, Zenon
  <2>2. AE!has_attr(n, "meta") BY ChildType DEF AE!has_attr
  <2>3. meta # None BY <1>1
  <2>4. CASE Kind[meta] = "throw"
    <3>1. AE!read_meta(n) = AE!JsonNone BY <2>1, <2>4, Zenon DEF AE!read_meta, Forced
    <3>2. s[MaxMetaDepth][meta] = JsonStep(s[MaxMetaDepth - 1], MaxMetaDepth, meta)
      <4>1. MaxMetaDepth \in 0..MaxMetaDepth BY <1>3
      <4> QED BY <1>2, <1>3, <1>4, <4>1, JsonAt
    <3>3. JsonStep(s[MaxMetaDepth - 1], MaxMetaDepth, meta) = AE!JsonNone BY <2>4, Zenon DEF JsonStep
    <3> QED BY <3>1, <3>2, <3>3, Zenon
  <2>5. CASE Kind[meta] # "throw"
    <3>1. AE!get_attr(n, "meta") = meta BY <2>1, <2>3, <2>5, Zenon DEF Forced
    <3> QED BY <1>4, <2>2, <2>3, <3>1, Zenon DEF AE!read_meta
  <2> QED BY <2>4, <2>5
<1>6. s[MaxMetaDepth][meta] # AE!JsonFail BY <1>5, Zenon
<1>7. Shown(s, meta, q) BY <1>2, <1>4, <1>6, ShownAll
<1>8. Nulled # AE!JsonNone BY JsonDistinct, Zenon DEF Nulled
<1> QED BY <1>1, <1>5, <1>7, <1>8, Zenon DEF Shown

(* So has every derivation on record. *)
LEMMA MetaKept == Kind[Root] # "function" /\ RootsInv /\ WorkInv => AE!MetaMeaning
<1> DEFINE Ok(m, n) == LET meta == AE!Child(n, "meta")
                       IN Meta /\ meta # None =>
                          \A q \in AE!PathsOver(AE!Names, MaxMetaDepth) :
                          (AE!Lookup(m, q) # AE!JsonNone) <=>
                            \/ AE!Visible(meta, q)
                            \/ /\ q # <<>> /\ AE!Visible(meta, AE!Parent(q)) /\ AE!Walk(meta, q) # None
                               /\ Kind[AE!Walk(meta, AE!Parent(q))] = "list"
           Reported == {events[p] : p \in {q \in DOMAIN events : events[q].kind = "Derivation"}}
<1>1. SUFFICES ASSUME Kind[Root] # "function", RootsInv, WorkInv, NEW p \in DOMAIN events, events[p].kind = "Derivation",
                      Meta, AE!Child(events[p].node, "meta") # None, NEW q \in AE!PathsOver(AE!Names, MaxMetaDepth)
               PROVE AE!Lookup(events[p].meta, q) # AE!JsonNone <=>
                       AE!Visible(AE!Child(events[p].node, "meta"), q) \/ NullAt(AE!Child(events[p].node, "meta"), q)
  <2>1. (\A p \in DOMAIN events : events[p].kind = "Derivation" => Ok(events[p].meta, events[p].node)) => AE!MetaMeaning
    <3>1. SUFFICES ASSUME \A p \in DOMAIN events : events[p].kind = "Derivation" => Ok(events[p].meta, events[p].node),
                          NEW d \in {[meta |-> e.meta, node |-> e.node] : e \in Reported}
                   PROVE Ok(d.meta, d.node)
      BY Zenon DEF AE!MetaMeaning
    <3> HIDE DEF Ok
    <3>2. PICK e \in Reported : d = [meta |-> e.meta, node |-> e.node] BY Zenon
    <3>3. d.meta = e.meta /\ d.node = e.node
      <4>1. \A a, b : [meta |-> a, node |-> b].meta = a /\ [meta |-> a, node |-> b].node = b OBVIOUS
      <4> QED BY <3>2, <4>1, Zenon
    <3>4. Ok(e.meta, e.node) BY <3>1, Zenon
    <3> QED BY <3>3, <3>4, Zenon
  <2> QED BY <2>1, Zenon DEF NullAt
<1>2. PICK n : n = events[p].node OBVIOUS
<1>3. Fit(p, events[p]) /\ Good(p) BY <1>1, Zenon DEF RootsInv, WorkInv, Known
<1>4. /\ n = AE!navigate(p) /\ AE!navigate(p) # None /\ Kind[n] = "drv"
      /\ events[p].meta = AE!make_job(n).meta /\ events[p].meta # AE!JsonFail
  BY <1>1, <1>2, <1>3, FitFacts, Zenon
<1>5. n \in Node
  <2>1. AE!navigate(p) = Forced(AE!ValueAt(p)) /\ AE!ValueAt(p) \in Node \union {None} BY <1>1, <1>3, GoodFacts
  <2> QED BY <1>4, <2>1 DEF Forced
<1>6. events[p].meta = AE!read_meta(n) BY <1>1, <1>4, JobFields, Zenon
<1>7. q \in Seq(AE!Names) /\ Len(q) <= MaxMetaDepth BY <1>1, PathsAre, AttrTypes
<1>8. AE!read_meta(n) # AE!JsonFail BY <1>4, <1>6, Zenon
<1>9. AE!Child(n, "meta") # None BY <1>1, <1>2, Zenon
<1>10. AE!Lookup(AE!read_meta(n), q) # AE!JsonNone <=>
          AE!Visible(AE!Child(n, "meta"), q) \/ NullAt(AE!Child(n, "meta"), q)
  BY <1>4, <1>5, <1>7, <1>8, <1>9, MetaShown, Zenon
<1> QED BY <1>2, <1>6, <1>10, Zenon

------------------------------------------------------------------------------
(* The configuration through Cap'n Proto. *)

(* What the types of configurations and events say. *)
LEMMA WireTypes ==
  /\ None # Null
  /\ \A c \in Configs : WF!IsConfig(c)
  /\ \A c \in Configs : Words[c] \in Nat
  /\ \A e \in Answers : WF!IsEvent(e) /\ e # None /\ Words[e] \in Nat
  /\ RemoteLimit \in Nat /\ LocalLimit \in Nat /\ RemoteLimit <= LocalLimit
  BY DataPathAssumption, Zenon DEF WF!WireFormatAssumption

(* An object has the fields that are not omitted. *)
LEMMA ObjectKeeps ==
  ASSUME NEW all, NEW omitted
  PROVE /\ DOMAIN WF!Object(all, omitted) = DOMAIN all \ omitted
        /\ \A k \in DOMAIN all \ omitted : WF!Object(all, omitted)[k] = all[k]
  BY DEF WF!Object, WF!Restrict

(* An input is read as it was written, ... *)
LEMMA InputReads ==
  ASSUME NEW i, i = [kind |-> i.kind, value |-> i.value]
  PROVE /\ WF!input_deserialize(WF!input_serialize(i)) = i
        /\ WF!read_input(WF!set_input(i)) = i
<1>1. WF!read_input(WF!set_input(i)) = i
  BY DEF WF!read_input, WF!set_input
<1>2. CASE i.kind = "file"
  <2>1. WF!input_serialize(i) = [type |-> i.kind, path |-> i.value] BY <1>2, Zenon DEF WF!input_serialize
  <2>2. WF!input_deserialize(WF!input_serialize(i)) = [kind |-> i.kind, value |-> i.value]
    BY <2>1, <1>2 DEF WF!input_deserialize
  <2> QED BY <2>2, <1>1, Zenon
<1>3. CASE i.kind # "file"
  <2>1. WF!input_serialize(i) = [type |-> i.kind, value |-> i.value] BY <1>3, Zenon DEF WF!input_serialize
  <2>2. WF!input_deserialize(WF!input_serialize(i)) = [kind |-> i.kind, value |-> i.value]
    BY <2>1, <1>3 DEF WF!input_deserialize
  <2> QED BY <2>2, <1>1, Zenon
<1> QED BY <1>2, <1>3

(* ... arguments are, ... *)
LEMMA ArgsRead ==
  ASSUME NEW args, args = [i \in DOMAIN args |-> <<args[i][1], args[i][2], args[i][3]>>]
  PROVE /\ WF!auto_args_deserialize(WF!auto_args_serialize(args)) = args
        /\ WF!read_auto_args(WF!set_auto_args(args)) = args
<1>1. WF!auto_args_deserialize(WF!auto_args_serialize(args)) = args
  BY DEF WF!auto_args_deserialize, WF!auto_args_serialize
<1>2. WF!read_auto_args(WF!set_auto_args(args)) = args
  BY DEF WF!read_auto_args, WF!set_auto_args
<1> QED BY <1>1, <1>2

(* ... lists of pairs, ... *)
LEMMA PairsRead ==
  ASSUME NEW pairs, WF!IsPairs(pairs)
  PROVE WF!read_pairs(WF!set_pairs(pairs)) = pairs
  BY DEF WF!read_pairs, WF!set_pairs, WF!IsPairs

(* ... optional texts ... *)
LEMMA OptionReads ==
  ASSUME NEW v
  PROVE /\ WF!read_text_opt(WF!set_text_opt(v)) = v
        /\ v # Null => WF!Optional(WF!Nullable(v)) = v
  BY WireTypes DEF WF!read_text_opt, WF!set_text_opt, WF!Optional, WF!Nullable

(* ... and remotes, with a token or without. *)
LEMMA RemoteReads ==
  ASSUME NEW r, r = [endpoint |-> r.endpoint, systems |-> r.systems, workers |-> r.workers, token |-> r.token]
  PROVE WF!remote_deserialize(WF!remote_serialize(r)) = r
<1>0. DOMAIN r = {"endpoint", "systems", "workers", "token"} OBVIOUS
<1> DEFINE om == IF r.token = None THEN {"token"} ELSE {}
<1>1. PICK j : j = WF!remote_serialize(r) OBVIOUS
<1>2. j = WF!Object(r, om) BY <1>1, Zenon DEF WF!remote_serialize
<1> HIDE DEF om
<1>3. DOMAIN j = DOMAIN r \ om /\ \A k \in DOMAIN r \ om : j[k] = r[k]
  <2>1. DOMAIN WF!Object(r, om) = DOMAIN r \ om /\ \A k \in DOMAIN r \ om : WF!Object(r, om)[k] = r[k]
    BY ONLY ObjectKeeps
  <2> QED BY ONLY <1>2, <2>1, Zenon
<1> USE DEF om
<1>4. j["endpoint"] = r.endpoint /\ j["systems"] = r.systems /\ j["workers"] = r.workers
  BY <1>0, <1>3
<1>5. (IF "token" \in DOMAIN j THEN j["token"] ELSE None) = r.token
  BY <1>0, <1>3
<1>6. WF!remote_deserialize(j) = [endpoint |-> r.endpoint, systems |-> r.systems, workers |-> r.workers, token |-> r.token]
  BY <1>4, <1>5, Zenon DEF WF!remote_deserialize
<1> QED BY <1>6, <1>1, Zenon

(* A worker reads the configuration its master wrote. *)
LEMMA WorkerConfigReads ==
  ASSUME NEW c \in Configs, c.item_timeout_seconds # 0
  PROVE WF!read_worker_config(WF!set_worker_config(WF!worker_config(c))) = WF!worker_config(c)
<1> DEFINE w == WF!worker_config(c)
           r == WF!set_worker_config(w)
           lock == IF c.input.kind = "flake" THEN <<"lock", c.input.value>> ELSE None
<1>1. WF!IsConfig(c) BY WireTypes
<1>2. w = [input |-> c.input, auto_args |-> c.auto_args, force_recurse |-> c.force_recurse,
     gc_roots_dir |-> c.gc_roots_dir, max_memory_size |-> c.max_memory_size,
     item_timeout_seconds |-> c.item_timeout_seconds, meta |-> c.meta,
     show_input_drvs |-> c.show_input_drvs, override_inputs |-> c.override_inputs,
     nix_options |-> c.nix_options, locked_flake_json |-> lock]
  BY Zenon DEF WF!worker_config
<1> HIDE DEF w, lock
<1>3. r = [input |-> WF!set_input(c.input), autoArgs |-> WF!set_auto_args(c.auto_args),
     forceRecurse |-> c.force_recurse, gcRootsDir |-> WF!set_text_opt(c.gc_roots_dir),
     maxMemorySize |-> c.max_memory_size, itemTimeoutSeconds |-> c.item_timeout_seconds,
     meta |-> c.meta, showInputDrvs |-> c.show_input_drvs,
     overrideInputs |-> WF!set_pairs(c.override_inputs), nixOptions |-> WF!set_pairs(c.nix_options),
     lockedFlakeJson |-> WF!set_text_opt(lock)]
  <2>1. w.input = c.input /\ w.auto_args = c.auto_args /\ w.force_recurse = c.force_recurse
        /\ w.gc_roots_dir = c.gc_roots_dir /\ w.max_memory_size = c.max_memory_size
        /\ w.item_timeout_seconds = c.item_timeout_seconds /\ w.meta = c.meta
        /\ w.show_input_drvs = c.show_input_drvs /\ w.override_inputs = c.override_inputs
        /\ w.nix_options = c.nix_options /\ w.locked_flake_json = lock
    BY <1>2
  <2> QED BY <2>1, Zenon DEF WF!set_worker_config
<1> HIDE DEF r
<1>4. r.input = WF!set_input(c.input) /\ r.autoArgs = WF!set_auto_args(c.auto_args)
      /\ r.forceRecurse = c.force_recurse /\ r.gcRootsDir = WF!set_text_opt(c.gc_roots_dir)
      /\ r.maxMemorySize = c.max_memory_size /\ r.itemTimeoutSeconds = c.item_timeout_seconds
      /\ r.meta = c.meta /\ r.showInputDrvs = c.show_input_drvs
      /\ r.overrideInputs = WF!set_pairs(c.override_inputs) /\ r.nixOptions = WF!set_pairs(c.nix_options)
      /\ r.lockedFlakeJson = WF!set_text_opt(lock)
  BY <1>3
<1>5. WF!read_input(r.input) = c.input /\ WF!read_auto_args(r.autoArgs) = c.auto_args
  <2>1. c.input = [kind |-> c.input.kind, value |-> c.input.value]
        /\ c.auto_args = [i \in DOMAIN c.auto_args |->
                        <<c.auto_args[i][1], c.auto_args[i][2], c.auto_args[i][3]>>]
    BY <1>1, Zenon DEF WF!IsConfig
  <2>2. WF!read_input(WF!set_input(c.input)) = c.input BY <2>1, InputReads
  <2>3. WF!read_auto_args(WF!set_auto_args(c.auto_args)) = c.auto_args BY <2>1, ArgsRead
  <2> QED BY <2>2, <2>3, <1>4, Zenon
<1>6. WF!read_pairs(r.overrideInputs) = c.override_inputs /\ WF!read_pairs(r.nixOptions) = c.nix_options
  BY <1>1, <1>4, PairsRead, Zenon DEF WF!IsConfig
<1>7. WF!read_text_opt(r.gcRootsDir) = c.gc_roots_dir /\ WF!read_text_opt(r.lockedFlakeJson) = lock
  BY <1>4, OptionReads, Zenon
<1>8. WF!read_item_timeout_seconds(r.itemTimeoutSeconds) = c.item_timeout_seconds
  BY <1>4, Zenon DEF WF!read_item_timeout_seconds
<1>9. WF!read_worker_config(r) = w
  BY <1>2, <1>4, <1>5, <1>6, <1>7, <1>8, Zenon DEF WF!read_worker_config
<1> QED BY <1>9, Zenon DEF r, w

------------------------------------------------------------------------------
(* The configuration through JSON, with fields left out. *)

(* A field that may be left out has its default value. *)
LEMMA OmittedDefault ==
  ASSUME NEW c
  PROVE /\ WF!Omittable(c) \subseteq WF!Defaulted
        /\ "forceRecurse" \in WF!Omittable(c) => c.force_recurse = FALSE
        /\ "gcRootsDir" \in WF!Omittable(c) => WF!Nullable(c.gc_roots_dir) = Null
        /\ "itemTimeoutSeconds" \in WF!Omittable(c) => c.item_timeout_seconds = DefaultTimeout
        /\ "meta" \in WF!Omittable(c) => c.meta = FALSE
        /\ "showInputDrvs" \in WF!Omittable(c) => c.show_input_drvs = FALSE
        /\ "overrideInputs" \in WF!Omittable(c) => c.override_inputs = <<>>
        /\ "nixOptions" \in WF!Omittable(c) => c.nix_options = <<>>
        /\ "remotes" \in WF!Omittable(c) => [i \in DOMAIN c.remotes |-> WF!remote_serialize(c.remotes[i])] = <<>>
<1>1. PICK j : j = WF!config_serialize(c) OBVIOUS
<1>2. PICK default : default = [forceRecurse |-> FALSE, gcRootsDir |-> Null, itemTimeoutSeconds |-> DefaultTimeout,
                    meta |-> FALSE, showInputDrvs |-> FALSE, overrideInputs |-> <<>>,
                    nixOptions |-> <<>>, remotes |-> <<>>]
  OBVIOUS
<1>3. WF!Omittable(c) = {k \in WF!Defaulted : j[k] = default[k]}
  BY <1>1, <1>2, Zenon DEF WF!Omittable
<1>4. default["forceRecurse"] = FALSE /\ default["gcRootsDir"] = Null /\ default["itemTimeoutSeconds"] = DefaultTimeout
      /\ default["meta"] = FALSE /\ default["showInputDrvs"] = FALSE /\ default["overrideInputs"] = <<>>
      /\ default["nixOptions"] = <<>> /\ default["remotes"] = <<>>
  BY <1>2
<1>5. j["forceRecurse"] = c.force_recurse /\ j["gcRootsDir"] = WF!Nullable(c.gc_roots_dir)
      /\ j["itemTimeoutSeconds"] = c.item_timeout_seconds
      /\ j["meta"] = c.meta /\ j["showInputDrvs"] = c.show_input_drvs /\ j["overrideInputs"] = c.override_inputs
      /\ j["nixOptions"] = c.nix_options
      /\ j["remotes"] = [i \in DOMAIN c.remotes |-> WF!remote_serialize(c.remotes[i])]
  BY <1>1 DEF WF!config_serialize
<1> QED BY <1>3, <1>4, <1>5, Zenon

(* The fields of a configuration in JSON. *)
LEMMA ConfigFields ==
  ASSUME NEW c, NEW omitted \in SUBSET WF!Defaulted, NEW j, j = WF!Object(WF!config_serialize(c), omitted)
  PROVE /\ \A k \in WF!Defaulted : k \in DOMAIN j <=> k \notin omitted
        /\ j["input"] = WF!input_serialize(c.input) /\ j["autoArgs"] = WF!auto_args_serialize(c.auto_args)
        /\ j["workers"] = c.workers /\ j["maxMemorySize"] = c.max_memory_size
        /\ "forceRecurse" \notin omitted => j["forceRecurse"] = c.force_recurse
        /\ "gcRootsDir" \notin omitted => j["gcRootsDir"] = WF!Nullable(c.gc_roots_dir)
        /\ "itemTimeoutSeconds" \notin omitted => j["itemTimeoutSeconds"] = c.item_timeout_seconds
        /\ "meta" \notin omitted => j["meta"] = c.meta
        /\ "showInputDrvs" \notin omitted => j["showInputDrvs"] = c.show_input_drvs
        /\ "overrideInputs" \notin omitted => j["overrideInputs"] = c.override_inputs
        /\ "nixOptions" \notin omitted => j["nixOptions"] = c.nix_options
        /\ "remotes" \notin omitted =>
             j["remotes"] = [i \in DOMAIN c.remotes |-> WF!remote_serialize(c.remotes[i])]
<1>1. PICK a : a = WF!config_serialize(c) OBVIOUS
<1>2. DOMAIN a = {"input", "autoArgs", "workers", "maxMemorySize"} \union WF!Defaulted
  BY <1>1 DEF WF!config_serialize, WF!Defaulted
<1>3. /\ a["input"] = WF!input_serialize(c.input) /\ a["autoArgs"] = WF!auto_args_serialize(c.auto_args)
      /\ a["workers"] = c.workers /\ a["maxMemorySize"] = c.max_memory_size
      /\ a["forceRecurse"] = c.force_recurse /\ a["gcRootsDir"] = WF!Nullable(c.gc_roots_dir)
      /\ a["itemTimeoutSeconds"] = c.item_timeout_seconds
      /\ a["meta"] = c.meta /\ a["showInputDrvs"] = c.show_input_drvs /\ a["overrideInputs"] = c.override_inputs
      /\ a["nixOptions"] = c.nix_options
      /\ a["remotes"] = [i \in DOMAIN c.remotes |-> WF!remote_serialize(c.remotes[i])]
  BY <1>1 DEF WF!config_serialize
<1>4. DOMAIN j = DOMAIN a \ omitted /\ \A k \in DOMAIN a \ omitted : j[k] = a[k] BY <1>1, ObjectKeeps, Zenon
<1>5. {"input", "autoArgs", "workers", "maxMemorySize"} \cap WF!Defaulted = {} BY DEF WF!Defaulted
<1>6. {"forceRecurse", "gcRootsDir", "itemTimeoutSeconds", "meta", "showInputDrvs",
              "overrideInputs", "nixOptions", "remotes"} \subseteq WF!Defaulted BY DEF WF!Defaulted
<1> QED BY <1>2, <1>3, <1>4, <1>5, <1>6

(* The daemon reads the configuration its client wrote, whatever was left out. *)
LEMMA ConfigReads ==
  ASSUME NEW c \in Configs, NEW omitted \in SUBSET WF!Omittable(c)
  PROVE WF!config_deserialize(WF!Object(WF!config_serialize(c), omitted)) = c
<1>1. WF!IsConfig(c) BY WireTypes
<1>2. PICK j : j = WF!Object(WF!config_serialize(c), omitted) OBVIOUS
<1>3. omitted \in SUBSET WF!Defaulted BY OmittedDefault
<1> DEFINE has(k) == k \in DOMAIN j
           flag(k) == has(k) /\ j[k]
           list(k) == IF has(k) THEN j[k] ELSE <<>>
<1>4. /\ \A k \in WF!Defaulted : k \in DOMAIN j <=> k \notin omitted
      /\ j["input"] = WF!input_serialize(c.input) /\ j["autoArgs"] = WF!auto_args_serialize(c.auto_args)
      /\ j["workers"] = c.workers /\ j["maxMemorySize"] = c.max_memory_size
      /\ "forceRecurse" \notin omitted => j["forceRecurse"] = c.force_recurse
      /\ "gcRootsDir" \notin omitted => j["gcRootsDir"] = WF!Nullable(c.gc_roots_dir)
      /\ "itemTimeoutSeconds" \notin omitted => j["itemTimeoutSeconds"] = c.item_timeout_seconds
      /\ "meta" \notin omitted => j["meta"] = c.meta
      /\ "showInputDrvs" \notin omitted => j["showInputDrvs"] = c.show_input_drvs
      /\ "overrideInputs" \notin omitted => j["overrideInputs"] = c.override_inputs
      /\ "nixOptions" \notin omitted => j["nixOptions"] = c.nix_options
      /\ "remotes" \notin omitted =>
           j["remotes"] = [i \in DOMAIN c.remotes |-> WF!remote_serialize(c.remotes[i])]
  BY <1>2, <1>3, ConfigFields
<1>5. has("forceRecurse") <=> "forceRecurse" \notin omitted BY <1>4 DEF WF!Defaulted
<1>6. has("gcRootsDir") <=> "gcRootsDir" \notin omitted BY <1>4 DEF WF!Defaulted
<1>7. has("itemTimeoutSeconds") <=> "itemTimeoutSeconds" \notin omitted BY <1>4 DEF WF!Defaulted
<1>8. has("meta") <=> "meta" \notin omitted BY <1>4 DEF WF!Defaulted
<1>9. has("showInputDrvs") <=> "showInputDrvs" \notin omitted BY <1>4 DEF WF!Defaulted
<1>10. has("overrideInputs") <=> "overrideInputs" \notin omitted BY <1>4 DEF WF!Defaulted
<1>11. has("nixOptions") <=> "nixOptions" \notin omitted BY <1>4 DEF WF!Defaulted
<1>12. has("remotes") <=> "remotes" \notin omitted BY <1>4 DEF WF!Defaulted
<1>13. c.force_recurse \in BOOLEAN /\ c.meta \in BOOLEAN /\ c.show_input_drvs \in BOOLEAN BY <1>1 DEF WF!IsConfig
<1>14. flag("forceRecurse") = c.force_recurse
  <2>1. "forceRecurse" \in omitted => c.force_recurse = FALSE BY OmittedDefault
  <2>2. "forceRecurse" \notin omitted => j["forceRecurse"] = c.force_recurse BY <1>4
  <2> QED BY <2>1, <2>2, <1>5, <1>13
<1>15. flag("meta") = c.meta
  <2>1. "meta" \in omitted => c.meta = FALSE BY OmittedDefault
  <2>2. "meta" \notin omitted => j["meta"] = c.meta BY <1>4
  <2> QED BY <2>1, <2>2, <1>8, <1>13
<1>16. flag("showInputDrvs") = c.show_input_drvs
  <2>1. "showInputDrvs" \in omitted => c.show_input_drvs = FALSE BY OmittedDefault
  <2>2. "showInputDrvs" \notin omitted => j["showInputDrvs"] = c.show_input_drvs BY <1>4
  <2> QED BY <2>1, <2>2, <1>9, <1>13
<1>17. (IF has("gcRootsDir") THEN WF!Optional(j["gcRootsDir"]) ELSE None) = c.gc_roots_dir
  <2>1. "gcRootsDir" \in omitted => WF!Nullable(c.gc_roots_dir) = Null BY OmittedDefault
  <2>2. "gcRootsDir" \notin omitted => j["gcRootsDir"] = WF!Nullable(c.gc_roots_dir) BY <1>4
  <2>3. c.gc_roots_dir # Null BY <1>1, Zenon DEF WF!IsConfig
  <2>4. WF!Optional(WF!Nullable(c.gc_roots_dir)) = c.gc_roots_dir BY <2>3, OptionReads
  <2>5. WF!Nullable(c.gc_roots_dir) = Null => c.gc_roots_dir = None BY <2>3 DEF WF!Nullable
  <2> QED BY <2>1, <2>2, <2>4, <2>5, <1>6, Zenon
<1>18. (IF has("itemTimeoutSeconds") THEN j["itemTimeoutSeconds"] ELSE WF!default_item_timeout_seconds)
         = c.item_timeout_seconds
  <2>1. "itemTimeoutSeconds" \in omitted => c.item_timeout_seconds = DefaultTimeout BY OmittedDefault
  <2>2. "itemTimeoutSeconds" \notin omitted => j["itemTimeoutSeconds"] = c.item_timeout_seconds
    BY <1>4
  <2> QED BY <2>1, <2>2, <1>7, Zenon DEF WF!default_item_timeout_seconds
<1>19. list("overrideInputs") = c.override_inputs
  <2>1. "overrideInputs" \in omitted => c.override_inputs = <<>> BY OmittedDefault
  <2>2. "overrideInputs" \notin omitted => j["overrideInputs"] = c.override_inputs BY <1>4
  <2> QED BY <2>1, <2>2, <1>10, Zenon
<1>20. list("nixOptions") = c.nix_options
  <2>1. "nixOptions" \in omitted => c.nix_options = <<>> BY OmittedDefault
  <2>2. "nixOptions" \notin omitted => j["nixOptions"] = c.nix_options BY <1>4
  <2> QED BY <2>1, <2>2, <1>11, Zenon
<1>21. list("remotes") = [i \in DOMAIN c.remotes |-> WF!remote_serialize(c.remotes[i])]
  <2>1. "remotes" \in omitted => [i \in DOMAIN c.remotes |-> WF!remote_serialize(c.remotes[i])] = <<>> BY OmittedDefault
  <2>2. "remotes" \notin omitted => j["remotes"] = [i \in DOMAIN c.remotes |-> WF!remote_serialize(c.remotes[i])]
    BY <1>4
  <2> QED BY <2>1, <2>2, <1>12, Zenon
<1>22. [i \in DOMAIN list("remotes") |-> WF!remote_deserialize(list("remotes")[i])] = c.remotes
  <2>1. PICK q : q = list("remotes") OBVIOUS
  <2>2. PICK r : r = c.remotes OBVIOUS
  <2>3. q = [i \in DOMAIN r |-> WF!remote_serialize(r[i])] BY <1>21, <2>1, <2>2, Zenon
  <2>4. r = [i \in DOMAIN r |->
                      [endpoint |-> r[i].endpoint, systems |-> r[i].systems,
                       workers |-> r[i].workers, token |-> r[i].token]]
    BY <1>1, <2>2, Zenon DEF WF!IsConfig
  <2>5. ASSUME NEW i \in DOMAIN r PROVE WF!remote_deserialize(q[i]) = r[i]
    <3>1. r[i] = [endpoint |-> r[i].endpoint, systems |-> r[i].systems,
                       workers |-> r[i].workers, token |-> r[i].token] BY <2>4, Zenon
    <3>2. WF!remote_deserialize(WF!remote_serialize(r[i])) = r[i] BY <3>1, RemoteReads
    <3>3. q[i] = WF!remote_serialize(r[i]) BY <2>3, Zenon
    <3> QED BY <3>2, <3>3, Zenon
  <2>6. DOMAIN q = DOMAIN r BY <2>3, Zenon
  <2>7. r = [i \in DOMAIN r |-> r[i]] BY <2>4
  <2>8. [i \in DOMAIN q |-> WF!remote_deserialize(q[i])] = r BY <2>5, <2>6, <2>7
  <2> QED BY <2>8, <2>1, <2>2, Zenon
<1>23. WF!input_deserialize(j["input"]) = c.input
  <2>1. c.input = [kind |-> c.input.kind, value |-> c.input.value] BY <1>1, Zenon DEF WF!IsConfig
  <2>2. WF!input_deserialize(WF!input_serialize(c.input)) = c.input BY <2>1, InputReads
  <2> QED BY <2>2, <1>4, Zenon
<1>24. WF!auto_args_deserialize(j["autoArgs"]) = c.auto_args
  <2>1. c.auto_args = [i \in DOMAIN c.auto_args |->
                        <<c.auto_args[i][1], c.auto_args[i][2], c.auto_args[i][3]>>]
    BY <1>1, Zenon DEF WF!IsConfig
  <2>2. WF!auto_args_deserialize(WF!auto_args_serialize(c.auto_args)) = c.auto_args BY <2>1, ArgsRead
  <2> QED BY <2>2, <1>4, Zenon
<1>25. WF!config_deserialize(j) =
       [input |-> WF!input_deserialize(j["input"]), auto_args |-> WF!auto_args_deserialize(j["autoArgs"]),
        force_recurse |-> flag("forceRecurse"),
        gc_roots_dir |-> IF has("gcRootsDir") THEN WF!Optional(j["gcRootsDir"]) ELSE None,
        workers |-> j["workers"], max_memory_size |-> j["maxMemorySize"],
        item_timeout_seconds |->
            IF has("itemTimeoutSeconds") THEN j["itemTimeoutSeconds"]
            ELSE WF!default_item_timeout_seconds,
        meta |-> flag("meta"), show_input_drvs |-> flag("showInputDrvs"),
        override_inputs |-> list("overrideInputs"), nix_options |-> list("nixOptions"),
        remotes |-> [i \in DOMAIN list("remotes") |-> WF!remote_deserialize(list("remotes")[i])]]
  BY Zenon DEF WF!config_deserialize
<1>26. WF!config_deserialize(j) =
       [input |-> c.input, auto_args |-> c.auto_args, force_recurse |-> c.force_recurse,
            gc_roots_dir |-> c.gc_roots_dir, workers |-> c.workers,
            max_memory_size |-> c.max_memory_size, item_timeout_seconds |-> c.item_timeout_seconds,
            meta |-> c.meta, show_input_drvs |-> c.show_input_drvs,
            override_inputs |-> c.override_inputs, nix_options |-> c.nix_options,
            remotes |-> c.remotes]
  <2> HIDE DEF has, flag, list
  <2> QED BY <1>4, <1>14, <1>15, <1>16, <1>17, <1>18, <1>19, <1>20, <1>22, <1>23, <1>24, <1>25, Zenon
<1> QED BY <1>26, <1>1, <1>2, Zenon DEF WF!IsConfig

(* From copies every field, and there is no other. *)
LEMMA FromCopies ==
  ASSUME NEW c \in Configs
  PROVE WF!to_wire(c) = c /\ WF!from_wire(c) = c
<1>1. WF!IsConfig(c) BY WireTypes
<1>2. c = [input |-> c.input, auto_args |-> c.auto_args, force_recurse |-> c.force_recurse,
            gc_roots_dir |-> c.gc_roots_dir, workers |-> c.workers,
            max_memory_size |-> c.max_memory_size, item_timeout_seconds |-> c.item_timeout_seconds,
            meta |-> c.meta, show_input_drvs |-> c.show_input_drvs,
            override_inputs |-> c.override_inputs, nix_options |-> c.nix_options,
            remotes |-> c.remotes]
  BY <1>1, Zenon DEF WF!IsConfig
<1>3. DOMAIN c = WF!Fields BY ONLY <1>2 DEF WF!Fields
<1>4. c = [field \in DOMAIN c |-> c[field]] BY ONLY <1>2
<1>5. [field \in WF!Fields |-> c[field]] = c BY ONLY <1>3, <1>4, Zenon
<1> QED BY <1>5, Zenon DEF WF!to_wire, WF!from_wire

(* Two configurations never share a session. *)
LEMMA KeysDiffer ==
  ASSUME NEW c \in Configs, NEW d \in Configs, WF!session_key(c) = WF!session_key(d)
  PROVE c = d
<1>1. \A e \in Configs : WF!config_deserialize(WF!Object(WF!config_serialize(e), {})) = e
  BY ConfigReads
<1> QED BY <1>1, Zenon DEF WF!session_key

------------------------------------------------------------------------------
(* Maps through lists. *)

(* Cardinality means the same in WireFormat. *)
LEMMA WireCardinality ==
  ASSUME NEW S
  PROVE (WF!IsFiniteSet(S) <=> IsFiniteSet(S)) /\ WF!Cardinality(S) = Cardinality(S)
<1>1. WF!IsFiniteSet(S) <=> IsFiniteSet(S) BY Zenon DEF WF!IsFiniteSet, IsFiniteSet
<1>2. WF!Cardinality(S) = Cardinality(S) BY Zenon DEF WF!Cardinality, Cardinality
<1> QED BY <1>1, <1>2

(* SetToSeq lists every element of a finite set once. *)
LEMMA SetListed ==
  ASSUME NEW S, WF!IsFiniteSet(S)
  PROVE \E n \in Nat : \E s \in [1..n -> S] :
          /\ s = WF!SetToSeq(S)
          /\ \A i, j \in 1..n : s[i] = s[j] => i = j
          /\ \A x \in S : \E i \in 1..n : s[i] = x
<1>1. IsFiniteSet(S) BY WireCardinality
<1>2. PICK n : n = Cardinality(S) OBVIOUS
<1>3. n \in Nat BY <1>1, <1>2, FS_CardinalityType
<1>4. \E f \in [1..n -> S] : WF!IsInjective(f)
  <2>1. ExistsBijection(1..n, S) BY <1>1, <1>2, FS_CardinalityType
  <2>2. PICK f : f \in Bijection(1..n, S) BY <2>1, Zenon DEF ExistsBijection
  <2>3. f \in [1..n -> S] /\ IsInjective(f) BY <2>2, Zenon DEF Bijection, Injection, Surjection
  <2>4. WF!IsInjective(f) BY <2>3, Zenon DEF IsInjective, WF!IsInjective
  <2> QED BY <2>3, <2>4
<1>5. PICK s : s = WF!SetToSeq(S) OBVIOUS
<1>6. s = CHOOSE f \in [1..n -> S] : WF!IsInjective(f)
  <2>1. WF!Cardinality(S) = n BY <1>2, WireCardinality
  <2> QED BY <2>1, <1>5, Zenon DEF WF!SetToSeq
<1>7. s \in [1..n -> S] /\ WF!IsInjective(s) BY <1>4, <1>6, Zenon
<1>8. \A i, j \in 1..n : s[i] = s[j] => i = j BY <1>7 DEF WF!IsInjective
<1>9. s \in Surjection(1..n, S)
  <2>1. s \in Injection(1..n, S) BY <1>7, <1>8, Zenon DEF Injection, IsInjective, WF!IsInjective
  <2>2. Cardinality(1..n) = n
    <3>1. 1 \in Int /\ n \in Int BY <1>3
    <3>2. Cardinality(1..n) = IF 1 > n THEN 0 ELSE n - 1 + 1 BY <3>1, FS_Interval
    <3> QED BY <3>2, <1>3
  <2> QED BY <2>1, <2>2, <1>1, <1>2, FS_Injection
<1>10. \A x \in S : \E i \in 1..n : s[i] = x BY <1>9 DEF Surjection
<1> QED BY <1>3, <1>5, <1>7, <1>8, <1>10

(* A map of outputs survives being a list, ... *)
LEMMA OutputsRead ==
  ASSUME NEW o, WF!IsMap(o)
  PROVE WF!read_outputs(WF!set_outputs(o)) = o
<1>1. o = [k \in DOMAIN o |-> o[k]] /\ WF!IsFiniteSet(DOMAIN o) BY Zenon DEF WF!IsMap
<1>2. PICK n \in Nat : \E s \in [1..n -> DOMAIN o] :
          /\ s = WF!SetToSeq(DOMAIN o)
          /\ \A i, j \in 1..n : s[i] = s[j] => i = j
          /\ \A x \in DOMAIN o : \E i \in 1..n : s[i] = x
  BY <1>1, SetListed
<1>3. PICK s \in [1..n -> DOMAIN o] :
          /\ s = WF!SetToSeq(DOMAIN o)
          /\ \A i, j \in 1..n : s[i] = s[j] => i = j
          /\ \A x \in DOMAIN o : \E i \in 1..n : s[i] = x
  BY <1>2
<1>4. PICK list : list = WF!set_outputs(o) OBVIOUS
<1>5. list = [i \in DOMAIN s |->
          IF o[s[i]] = None THEN [name |-> s[i], which |-> "absent"]
          ELSE [name |-> s[i], which |-> "path", path |-> o[s[i]]]]
  BY <1>3, <1>4, Zenon DEF WF!set_outputs
<1>6. DOMAIN list = 1..n /\ Len(list) = n BY <1>3, <1>5
<1>7. \A i \in 1..n : list[i].name = s[i] /\ list[i].which = (IF o[s[i]] = None THEN "absent" ELSE "path")
                      /\ (o[s[i]] # None => list[i].path = o[s[i]])
  BY <1>3, <1>5
<1>8. {list[i].name : i \in DOMAIN list} = DOMAIN o
  <2>1. \A i \in 1..n : list[i].name \in DOMAIN o BY <1>3, <1>7
  <2>2. \A x \in DOMAIN o : \E i \in 1..n : list[i].name = x BY <1>3, <1>7
  <2> QED BY <2>1, <2>2, <1>6, Zenon
<1>9. ASSUME NEW k \in DOMAIN o
      PROVE LET last == list[CHOOSE i \in DOMAIN list :
                          list[i].name = k /\ \A j \in (i + 1)..Len(list) : list[j].name # k]
            IN (IF last.which = "absent" THEN None ELSE last.path) = o[k]
  <2>1. PICK m \in 1..n : s[m] = k BY <1>3
  <2>2. m \in DOMAIN list /\ list[m].name = k /\ \A j \in (m + 1)..Len(list) : list[j].name # k
    <3>1. ASSUME NEW j \in (m + 1)..n PROVE list[j].name # k
      <4>1. j \in 1..n /\ j # m OBVIOUS
      <4>2. s[j] # s[m] BY <4>1, <1>3
      <4> QED BY <4>1, <4>2, <2>1, <1>7
    <3>2. list[m].name = k BY <2>1, <1>7
    <3> QED BY <3>1, <3>2, <1>6
  <2>3. PICK z : z = CHOOSE i \in DOMAIN list :
                          list[i].name = k /\ \A j \in (i + 1)..Len(list) : list[j].name # k
    OBVIOUS
  <2>4. z \in DOMAIN list /\ list[z].name = k BY <2>2, <2>3, Zenon
  <2>5. z \in 1..n /\ s[z] = k BY <2>4, <1>6, <1>7
  <2>6. (IF list[z].which = "absent" THEN None ELSE list[z].path) = o[k] BY <2>5, <1>7
  <2> QED BY <2>3, <2>6, Zenon
<1>10. WF!read_outputs(list) = [k \in DOMAIN o |->
           LET last == list[CHOOSE i \in DOMAIN list :
                          list[i].name = k /\ \A j \in (i + 1)..Len(list) : list[j].name # k]
           IN IF last.which = "absent" THEN None ELSE last.path]
  BY <1>8, Zenon DEF WF!read_outputs
<1> DEFINE Last(k) == list[CHOOSE i \in DOMAIN list :
                          list[i].name = k /\ \A j \in (i + 1)..Len(list) : list[j].name # k]
           Kept(k) == IF Last(k).which = "absent" THEN None ELSE Last(k).path
<1>11. WF!read_outputs(list) = [k \in DOMAIN o |-> o[k]]
  <2>1. WF!read_outputs(list) = [k \in DOMAIN o |-> Kept(k)] BY <1>10, Zenon
  <2>2. \A k \in DOMAIN o : Kept(k) = o[k] BY <1>9, Zenon
  <2> HIDE DEF Kept
  <2> QED BY <2>1, <2>2
<1> QED BY <1>1, <1>4, <1>11, Zenon

(* ... and so does one of input derivations. *)
LEMMA InputDrvsRead ==
  ASSUME NEW o, WF!IsMap(o)
  PROVE WF!read_input_drvs(WF!set_input_drvs(o)) = o
<1>1. o = [k \in DOMAIN o |-> o[k]] /\ WF!IsFiniteSet(DOMAIN o) BY Zenon DEF WF!IsMap
<1>2. PICK n \in Nat : \E s \in [1..n -> DOMAIN o] :
          /\ s = WF!SetToSeq(DOMAIN o)
          /\ \A i, j \in 1..n : s[i] = s[j] => i = j
          /\ \A x \in DOMAIN o : \E i \in 1..n : s[i] = x
  BY <1>1, SetListed
<1>3. PICK s \in [1..n -> DOMAIN o] :
          /\ s = WF!SetToSeq(DOMAIN o)
          /\ \A i, j \in 1..n : s[i] = s[j] => i = j
          /\ \A x \in DOMAIN o : \E i \in 1..n : s[i] = x
  BY <1>2
<1>4. PICK list : list = WF!set_input_drvs(o) OBVIOUS
<1>5. list = [i \in DOMAIN s |-> [drvPath |-> s[i], valueJson |-> WF!to_string(o[s[i]])]]
  BY <1>3, <1>4, Zenon DEF WF!set_input_drvs
<1>6. DOMAIN list = 1..n BY <1>3, <1>5
<1>7. \A i \in 1..n : list[i].drvPath = s[i] /\ WF!from_str(list[i].valueJson) = o[s[i]]
  BY <1>3, <1>5 DEF WF!from_str, WF!to_string
<1>8. {list[i].drvPath : i \in DOMAIN list} = DOMAIN o
  <2>1. \A i \in 1..n : list[i].drvPath \in DOMAIN o BY <1>3, <1>7
  <2>2. \A x \in DOMAIN o : \E i \in 1..n : list[i].drvPath = x BY <1>3, <1>7
  <2> QED BY <2>1, <2>2, <1>6, Zenon
<1>9. ASSUME NEW k \in DOMAIN o
      PROVE WF!from_str(list[CHOOSE i \in DOMAIN list : list[i].drvPath = k].valueJson) = o[k]
  <2>1. PICK m \in 1..n : s[m] = k BY <1>3
  <2>2. m \in DOMAIN list /\ list[m].drvPath = k BY <2>1, <1>6, <1>7
  <2>3. PICK z : z = CHOOSE i \in DOMAIN list : list[i].drvPath = k OBVIOUS
  <2>4. z \in DOMAIN list /\ list[z].drvPath = k BY <2>2, <2>3, Zenon
  <2>5. WF!from_str(list[z].valueJson) = o[k] BY <2>4, <1>6, <1>7
  <2> QED BY <2>3, <2>5, Zenon
<1>10. WF!read_input_drvs(list) = [k \in DOMAIN o |->
           WF!from_str(list[CHOOSE i \in DOMAIN list : list[i].drvPath = k].valueJson)]
  BY <1>8, Zenon DEF WF!read_input_drvs
<1>11. WF!read_input_drvs(list) = [k \in DOMAIN o |-> o[k]] BY <1>9, <1>10, Zenon
<1> QED BY <1>1, <1>4, <1>11, Zenon

------------------------------------------------------------------------------
(* Events through Cap'n Proto. *)

(* A list of texts is copied. *)
LEMMA ListKept ==
  ASSUME NEW s, WF!IsList(s)
  PROVE WF!set_text_list(s) = s
  BY Zenon DEF WF!set_text_list, WF!IsList

(* A derivation is read as it was written. *)
LEMMA DerivationReads ==
  ASSUME NEW d, WF!IsDerivation(d)
  PROVE WF!read_derivation(WF!set_derivation(d)) = d
<1>1. PICK r : r = WF!set_derivation(d) OBVIOUS
<1>2. /\ r.attr = d.attr /\ r.attrPath = WF!set_text_list(d.attr_path) /\ r.name = d.name
      /\ r.system = d.system /\ r.drvPath = d.drv_path /\ r.outputs = WF!set_outputs(d.outputs)
      /\ r.metaJson = WF!set_text_opt(WF!map_opt(d.meta)) /\ r.inputDrvs = WF!set_input_drvs(d.input_drvs)
      /\ r.constituents = WF!set_text_list_opt(d.constituents)
      /\ r.gcRootError = WF!set_text_opt(d.gc_root_error)
  BY <1>1 DEF WF!set_derivation
<1>3. WF!set_text_list(r.attrPath) = d.attr_path
  <2>1. WF!IsList(d.attr_path) BY Zenon DEF WF!IsDerivation
  <2> QED BY <2>1, <1>2, ListKept, Zenon
<1>4. WF!read_outputs(r.outputs) = d.outputs /\ WF!read_input_drvs(r.inputDrvs) = d.input_drvs
  <2>1. WF!IsMap(d.outputs) /\ WF!IsMap(d.input_drvs) BY Zenon DEF WF!IsDerivation
  <2> QED BY <2>1, <1>2, OutputsRead, InputDrvsRead, Zenon
<1>5. WF!read_text_opt(r.constituents) = d.constituents
  <2>1. CASE d.constituents = None
    BY <2>1, <1>2 DEF WF!set_text_list_opt, WF!read_text_opt
  <2>2. CASE d.constituents # None
    <3>1. WF!IsList(d.constituents) BY <2>2, Zenon DEF WF!IsDerivation
    <3>2. r.constituents = [which |-> "some", some |-> d.constituents]
      BY <3>1, <2>2, <1>2, ListKept, Zenon DEF WF!set_text_list_opt
    <3> QED BY <3>2 DEF WF!read_text_opt
  <2> QED BY <2>1, <2>2
<1>6. WF!read_text_opt(r.gcRootError) = d.gc_root_error BY <1>2, OptionReads, Zenon
<1>7. (IF WF!read_text_opt(r.metaJson) = None THEN None ELSE WF!from_str(WF!read_text_opt(r.metaJson))) = d.meta
  <2>1. WF!read_text_opt(r.metaJson) = WF!map_opt(d.meta) BY <1>2, OptionReads, Zenon
  <2>2. CASE d.meta = None BY <2>1, <2>2 DEF WF!map_opt
  <2>3. CASE d.meta # None
    <3>1. WF!map_opt(d.meta) = WF!to_string(d.meta) BY <2>3 DEF WF!map_opt
    <3>2. WF!from_str(WF!to_string(d.meta)) = d.meta BY DEF WF!to_string, WF!from_str
    <3>3. WF!to_string(d.meta) # None BY Zenon DEF WF!IsDerivation
    <3> QED BY <2>1, <3>1, <3>2, <3>3, Zenon
  <2> QED BY <2>2, <2>3
<1>8. WF!read_derivation(r) =
       [kind |-> "derivation", attr |-> d.attr, attr_path |-> d.attr_path, name |-> d.name,
            system |-> d.system, drv_path |-> d.drv_path, outputs |-> d.outputs, meta |-> d.meta,
            input_drvs |-> d.input_drvs, constituents |-> d.constituents,
            gc_root_error |-> d.gc_root_error]
  BY <1>2, <1>3, <1>4, <1>5, <1>6, <1>7, Zenon DEF WF!read_derivation
<1> QED BY <1>1, <1>8, Zenon DEF WF!IsDerivation

(* The three kinds of events. *)
LEMMA EventIs ==
  ASSUME NEW e, WF!IsEvent(e)
  PROVE \/ e.kind = "derivation" /\ WF!IsDerivation(e)
        \/ /\ e.kind = "attr_set"
           /\ e = [kind |-> "attr_set", attr |-> e.attr, attr_path |-> e.attr_path, attrs |-> e.attrs]
           /\ WF!IsList(e.attr_path) /\ WF!IsList(e.attrs)
        \/ /\ e.kind = "error"
           /\ e = [kind |-> "error", attr |-> e.attr, attr_path |-> e.attr_path, error |-> e.error,
                   fatal |-> e.fatal]
           /\ WF!IsList(e.attr_path) /\ e.fatal \in BOOLEAN
  BY DEF WF!IsEvent

(* An event is read as it was written. *)
LEMMA EventReads ==
  ASSUME NEW e, WF!IsEvent(e)
  PROVE WF!read_event(WF!set_event(e)) = e
<1>1. PICK r : r = WF!set_event(e) OBVIOUS
<1>2. CASE e.kind = "derivation" /\ WF!IsDerivation(e)
  <2>1. r = [which |-> "derivation", body |-> WF!set_derivation(e)] BY <1>1, <1>2 DEF WF!set_event
  <2>2. r.which = "derivation" /\ r.body = WF!set_derivation(e) BY <2>1
  <2>3. WF!read_event(r) = WF!read_derivation(r.body) BY <2>2 DEF WF!read_event
  <2> QED BY <1>1, <1>2, <2>2, <2>3, DerivationReads, Zenon
<1>3. CASE /\ e.kind = "attr_set"
           /\ e = [kind |-> "attr_set", attr |-> e.attr, attr_path |-> e.attr_path, attrs |-> e.attrs]
           /\ WF!IsList(e.attr_path) /\ WF!IsList(e.attrs)
  <2>1. PICK b : b = [attr |-> e.attr, attrPath |-> WF!set_text_list(e.attr_path), attrs |-> WF!set_text_list(e.attrs)]
    OBVIOUS
  <2>2. r = [which |-> "attrSet", body |-> b] BY <1>1, <1>3, <2>1 DEF WF!set_event
  <2>3. r.which = "attrSet" /\ r.body = b BY <2>2
  <2>4. b.attr = e.attr /\ b.attrPath = e.attr_path /\ b.attrs = e.attrs
    <3>1. b.attr = e.attr /\ b.attrPath = WF!set_text_list(e.attr_path) /\ b.attrs = WF!set_text_list(e.attrs) BY <2>1
    <3> QED BY <3>1, <1>3, ListKept, Zenon
  <2>5. WF!read_event(r) = [kind |-> "attr_set", attr |-> r.body.attr,
            attr_path |-> WF!set_text_list(r.body.attrPath), attrs |-> WF!set_text_list(r.body.attrs)]
    BY <2>3 DEF WF!read_event
  <2>6. WF!set_text_list(e.attr_path) = e.attr_path /\ WF!set_text_list(e.attrs) = e.attrs BY <1>3, ListKept, Zenon
  <2>7. WF!read_event(r) = [kind |-> "attr_set", attr |-> e.attr, attr_path |-> e.attr_path, attrs |-> e.attrs]
    BY <2>3, <2>4, <2>5, <2>6, Zenon
  <2> QED BY <1>1, <1>3, <2>7, Zenon
<1>4. CASE /\ e.kind = "error"
           /\ e = [kind |-> "error", attr |-> e.attr, attr_path |-> e.attr_path, error |-> e.error,
                   fatal |-> e.fatal]
           /\ WF!IsList(e.attr_path) /\ e.fatal \in BOOLEAN
  <2>1. PICK b : b = [attr |-> e.attr, attrPath |-> WF!set_text_list(e.attr_path), error |-> e.error, fatal |-> e.fatal]
    OBVIOUS
  <2>2. r = [which |-> "error", body |-> b] BY <1>1, <1>4, <2>1 DEF WF!set_event, WF!set_eval_error
  <2>3. r.which = "error" /\ r.body = b BY <2>2
  <2>4. b.attr = e.attr /\ b.attrPath = e.attr_path /\ b.error = e.error /\ b.fatal = e.fatal
    <3>1. b.attr = e.attr /\ b.attrPath = WF!set_text_list(e.attr_path) /\ b.error = e.error /\ b.fatal = e.fatal BY <2>1
    <3> QED BY <3>1, <1>4, ListKept, Zenon
  <2>5. WF!read_event(r) = WF!read_eval_error(b) BY <2>3 DEF WF!read_event
  <2>6. WF!set_text_list(e.attr_path) = e.attr_path BY <1>4, ListKept, Zenon
  <2>7. WF!read_event(r) = [kind |-> "error", attr |-> e.attr, attr_path |-> e.attr_path, error |-> e.error,
                   fatal |-> e.fatal]
    BY <2>4, <2>5, <2>6, Zenon DEF WF!read_eval_error
  <2> QED BY <1>1, <1>4, <2>7, Zenon
<1> QED BY <1>2, <1>3, <1>4, EventIs

------------------------------------------------------------------------------
(* Derivations through JSON. *)

(* There is one empty map. *)
LEMMA EmptyMap ==
  ASSUME NEW f, WF!IsMap(f), DOMAIN f = {}
  PROVE f = <<>>
  BY DEF WF!IsMap

(* Outputs without a path are null in JSON. *)
LEMMA OutputsJson ==
  ASSUME NEW o, WF!IsMap(o), Null \notin {o[n] : n \in DOMAIN o},
         NEW j, j = [n \in DOMAIN o |-> WF!Nullable(o[n])]
  PROVE [n \in DOMAIN j |-> WF!Optional(j[n])] = o
<1>1. o = [k \in DOMAIN o |-> o[k]] BY Zenon DEF WF!IsMap
<1>2. DOMAIN j = DOMAIN o /\ \A n \in DOMAIN o : j[n] = WF!Nullable(o[n]) OBVIOUS
<1>3. \A n \in DOMAIN o : WF!Optional(j[n]) = o[n]
  <2> TAKE n \in DOMAIN o
  <2>1. o[n] # Null OBVIOUS
  <2>2. WF!Optional(WF!Nullable(o[n])) = o[n] BY <2>1, OptionReads
  <2> QED BY <1>2, <2>2, Zenon
<1> QED BY <1>1, <1>2, <1>3

(* A derivation survives a response, unless its meta is null. *)
LEMMA DerivationJson ==
  ASSUME NEW d, WF!IsDerivation(d), d.meta # Null
  PROVE WF!derivation_deserialize(WF!derivation_serialize(d)) = d
<1> DEFINE outs == [n \in DOMAIN d.outputs |-> WF!Nullable(d.outputs[n])]
<1>1. PICK a : a = [attr |-> d.attr, attr_path |-> d.attr_path, name |-> d.name, system |-> d.system,
            drv_path |-> d.drv_path, outputs |-> outs,
            meta |-> d.meta, input_drvs |-> d.input_drvs, constituents |-> d.constituents,
            gc_root_error |-> d.gc_root_error]
  OBVIOUS
<1>2. PICK om : om = {k \in {"meta", "constituents", "gc_root_error"} : d[k] = None}
             \union (IF DOMAIN d.input_drvs = {} THEN {"input_drvs"} ELSE {})
  OBVIOUS
<1>3. PICK j : j = WF!derivation_serialize(d) OBVIOUS
<1>4. j = WF!Object(a, om) BY <1>1, <1>2, <1>3, Zenon DEF WF!derivation_serialize
<1>5. DOMAIN j = DOMAIN a \ om /\ \A k \in DOMAIN a \ om : j[k] = a[k]
  <2>1. DOMAIN WF!Object(a, om) = DOMAIN a \ om /\ \A k \in DOMAIN a \ om : WF!Object(a, om)[k] = a[k]
    BY ONLY ObjectKeeps
  <2> QED BY ONLY <1>4, <2>1, Zenon
<1>6. PICK o : o = outs OBVIOUS
<1> HIDE DEF outs
<1>7. DOMAIN a = {"attr", "attr_path", "name", "system", "drv_path", "outputs", "meta", "input_drvs",
                  "constituents", "gc_root_error"}
  BY ONLY <1>1
<1>8. /\ a["attr"] = d.attr /\ a["attr_path"] = d.attr_path /\ a["name"] = d.name /\ a["system"] = d.system
      /\ a["drv_path"] = d.drv_path /\ a["outputs"] = o /\ a["meta"] = d.meta /\ a["input_drvs"] = d.input_drvs
      /\ a["constituents"] = d.constituents /\ a["gc_root_error"] = d.gc_root_error
  BY ONLY <1>1, <1>6
<1>9. /\ "attr" \notin om /\ "attr_path" \notin om /\ "name" \notin om /\ "system" \notin om
      /\ "drv_path" \notin om /\ "outputs" \notin om
      /\ "meta" \in om <=> d.meta = None
      /\ "constituents" \in om <=> d.constituents = None
      /\ "gc_root_error" \in om <=> d.gc_root_error = None
      /\ "input_drvs" \in om <=> DOMAIN d.input_drvs = {}
  BY ONLY <1>2
<1>10. /\ j["attr"] = d.attr /\ j["attr_path"] = d.attr_path /\ j["name"] = d.name /\ j["system"] = d.system
       /\ j["drv_path"] = d.drv_path /\ j["outputs"] = o
  BY ONLY <1>5, <1>7, <1>8, <1>9
<1> DEFINE opt(k) == IF k \in DOMAIN j THEN WF!Optional(j[k]) ELSE None
<1>11. d.constituents # Null /\ d.gc_root_error # Null BY Zenon DEF WF!IsDerivation
<1>12. \A v : v # Null => WF!Optional(v) = v BY DEF WF!Optional
<1>13. opt("meta") = d.meta BY ONLY <1>5, <1>7, <1>8, <1>9, <1>12, d.meta # Null
<1>14. opt("constituents") = d.constituents BY ONLY <1>5, <1>7, <1>8, <1>9, <1>11, <1>12
<1>15. opt("gc_root_error") = d.gc_root_error BY ONLY <1>5, <1>7, <1>8, <1>9, <1>11, <1>12
<1>16. (IF "input_drvs" \in DOMAIN j THEN j["input_drvs"] ELSE <<>>) = d.input_drvs
  <2>1. "input_drvs" \in DOMAIN j <=> DOMAIN d.input_drvs # {} BY ONLY <1>5, <1>7, <1>9
  <2>2. "input_drvs" \in DOMAIN j => j["input_drvs"] = d.input_drvs BY ONLY <1>5, <1>8
  <2>3. WF!IsMap(d.input_drvs) BY Zenon DEF WF!IsDerivation
  <2>4. DOMAIN d.input_drvs = {} => d.input_drvs = <<>> BY <2>3, EmptyMap, Zenon
  <2> QED BY ONLY <2>1, <2>2, <2>4, Zenon
<1>17. [n \in DOMAIN j["outputs"] |-> WF!Optional(j["outputs"][n])] = d.outputs
  <2>1. PICK q : q = d.outputs OBVIOUS
  <2>2. WF!IsMap(q) /\ Null \notin {q[n] : n \in DOMAIN q} BY <2>1, Zenon DEF WF!IsDerivation
  <2>3. o = [n \in DOMAIN q |-> WF!Nullable(q[n])] BY <1>6, <2>1, Zenon DEF outs
  <2>4. [n \in DOMAIN o |-> WF!Optional(o[n])] = q BY ONLY <2>2, <2>3, OutputsJson
  <2> QED BY ONLY <2>1, <2>4, <1>10, Zenon
<1>18. WF!derivation_deserialize(j) =
       [kind |-> "derivation", attr |-> j["attr"], attr_path |-> j["attr_path"], name |-> j["name"],
        system |-> j["system"], drv_path |-> j["drv_path"],
        outputs |-> [n \in DOMAIN j["outputs"] |-> WF!Optional(j["outputs"][n])],
        meta |-> opt("meta"),
        input_drvs |-> IF "input_drvs" \in DOMAIN j THEN j["input_drvs"] ELSE <<>>,
        constituents |-> opt("constituents"), gc_root_error |-> opt("gc_root_error")]
  BY Zenon DEF WF!derivation_deserialize
<1> HIDE DEF opt
<1>19. WF!derivation_deserialize(j) =
       [kind |-> "derivation", attr |-> d.attr, attr_path |-> d.attr_path, name |-> d.name,
            system |-> d.system, drv_path |-> d.drv_path, outputs |-> d.outputs, meta |-> d.meta,
            input_drvs |-> d.input_drvs, constituents |-> d.constituents,
            gc_root_error |-> d.gc_root_error]
  BY ONLY <1>10, <1>13, <1>14, <1>15, <1>16, <1>17, <1>18, Zenon
<1> QED BY <1>3, <1>19, Zenon DEF WF!IsDerivation

(* It survives a line, ... *)
LEMMA DerivationLine ==
  ASSUME NEW d, WF!IsDerivation(d)
  PROVE /\ WF!parse_derivation(WF!derivation_value(d)) = d
        /\ "drvPath" \in DOMAIN WF!derivation_value(d)
<1> DEFINE outs == [n \in DOMAIN d.outputs |-> WF!Nullable(d.outputs[n])]
<1>1. PICK a : a = [attr |-> d.attr, attrPath |-> d.attr_path, name |-> d.name, system |-> d.system,
            drvPath |-> d.drv_path, outputs |-> outs,
            meta |-> d.meta, inputDrvs |-> d.input_drvs, constituents |-> d.constituents,
            gcRootError |-> d.gc_root_error]
  OBVIOUS
<1>2. PICK om : om = {k \in {"meta", "constituents"} : d[k] = None}
             \union (IF d.gc_root_error = None THEN {"gcRootError"} ELSE {})
             \union (IF DOMAIN d.input_drvs = {} THEN {"inputDrvs"} ELSE {})
  OBVIOUS
<1>3. PICK j : j = WF!derivation_value(d) OBVIOUS
<1>4. j = WF!Object(a, om) BY <1>1, <1>2, <1>3, Zenon DEF WF!derivation_value
<1>5. DOMAIN j = DOMAIN a \ om /\ \A k \in DOMAIN a \ om : j[k] = a[k]
  <2>1. DOMAIN WF!Object(a, om) = DOMAIN a \ om /\ \A k \in DOMAIN a \ om : WF!Object(a, om)[k] = a[k]
    BY ONLY ObjectKeeps
  <2> QED BY ONLY <1>4, <2>1, Zenon
<1>6. PICK o : o = outs OBVIOUS
<1> HIDE DEF outs
<1>7. DOMAIN a = {"attr", "attrPath", "name", "system", "drvPath", "outputs", "meta", "inputDrvs",
                  "constituents", "gcRootError"}
  BY ONLY <1>1
<1>8. /\ a["attr"] = d.attr /\ a["attrPath"] = d.attr_path /\ a["name"] = d.name /\ a["system"] = d.system
      /\ a["drvPath"] = d.drv_path /\ a["outputs"] = o /\ a["meta"] = d.meta /\ a["inputDrvs"] = d.input_drvs
      /\ a["constituents"] = d.constituents /\ a["gcRootError"] = d.gc_root_error
  BY ONLY <1>1, <1>6
<1>9. /\ "attr" \notin om /\ "attrPath" \notin om /\ "name" \notin om /\ "system" \notin om
      /\ "drvPath" \notin om /\ "outputs" \notin om
      /\ "meta" \in om <=> d.meta = None
      /\ "constituents" \in om <=> d.constituents = None
      /\ "gcRootError" \in om <=> d.gc_root_error = None
      /\ "inputDrvs" \in om <=> DOMAIN d.input_drvs = {}
  BY ONLY <1>2
<1>10. /\ j["attr"] = d.attr /\ j["attrPath"] = d.attr_path /\ j["name"] = d.name /\ j["system"] = d.system
       /\ j["drvPath"] = d.drv_path /\ j["outputs"] = o
       /\ "drvPath" \in DOMAIN j
  BY ONLY <1>5, <1>7, <1>8, <1>9
<1> DEFINE field(k) == IF k \in DOMAIN j THEN j[k] ELSE None
<1>13. field("meta") = d.meta BY ONLY <1>5, <1>7, <1>8, <1>9
<1>14. field("constituents") = d.constituents BY ONLY <1>5, <1>7, <1>8, <1>9
<1>15. field("gcRootError") = d.gc_root_error BY ONLY <1>5, <1>7, <1>8, <1>9
<1>16. (IF "inputDrvs" \in DOMAIN j THEN j["inputDrvs"] ELSE <<>>) = d.input_drvs
  <2>1. "inputDrvs" \in DOMAIN j <=> DOMAIN d.input_drvs # {} BY ONLY <1>5, <1>7, <1>9
  <2>2. "inputDrvs" \in DOMAIN j => j["inputDrvs"] = d.input_drvs BY ONLY <1>5, <1>8
  <2>3. WF!IsMap(d.input_drvs) BY Zenon DEF WF!IsDerivation
  <2>4. DOMAIN d.input_drvs = {} => d.input_drvs = <<>> BY <2>3, EmptyMap, Zenon
  <2> QED BY ONLY <2>1, <2>2, <2>4, Zenon
<1>17. [n \in DOMAIN j["outputs"] |-> WF!Optional(j["outputs"][n])] = d.outputs
  <2>1. PICK q : q = d.outputs OBVIOUS
  <2>2. WF!IsMap(q) /\ Null \notin {q[n] : n \in DOMAIN q} BY <2>1, Zenon DEF WF!IsDerivation
  <2>3. o = [n \in DOMAIN q |-> WF!Nullable(q[n])] BY <1>6, <2>1, Zenon DEF outs
  <2>4. [n \in DOMAIN o |-> WF!Optional(o[n])] = q BY ONLY <2>2, <2>3, OutputsJson
  <2> QED BY ONLY <2>1, <2>4, <1>10, Zenon
<1>18. WF!parse_derivation(j) =
       [kind |-> "derivation", attr |-> j["attr"], attr_path |-> j["attrPath"], name |-> j["name"],
        system |-> j["system"], drv_path |-> j["drvPath"],
        outputs |-> [n \in DOMAIN j["outputs"] |-> WF!Optional(j["outputs"][n])],
        meta |-> field("meta"),
        input_drvs |-> IF "inputDrvs" \in DOMAIN j THEN j["inputDrvs"] ELSE <<>>,
        constituents |-> field("constituents"), gc_root_error |-> field("gcRootError")]
  BY Zenon DEF WF!parse_derivation
<1> HIDE DEF field
<1>19. WF!parse_derivation(j) =
       [kind |-> "derivation", attr |-> d.attr, attr_path |-> d.attr_path, name |-> d.name,
            system |-> d.system, drv_path |-> d.drv_path, outputs |-> d.outputs, meta |-> d.meta,
            input_drvs |-> d.input_drvs, constituents |-> d.constituents,
            gc_root_error |-> d.gc_root_error]
  BY ONLY <1>10, <1>13, <1>14, <1>15, <1>16, <1>17, <1>18, Zenon
<1> QED BY <1>3, <1>10, <1>19, Zenon DEF WF!IsDerivation

------------------------------------------------------------------------------
(* Lines, responses and options files. *)

(* ... as every event does: the keys show which kind it is. *)
LEMMA LineReads ==
  ASSUME NEW e, WF!IsEvent(e)
  PROVE WF!parse_event_value(WF!event_value(e)) = e
<1>1. PICK v : v = WF!event_value(e) OBVIOUS
<1>2. CASE e.kind = "derivation" /\ WF!IsDerivation(e)
  <2>1. v = WF!derivation_value(e) BY <1>1, <1>2 DEF WF!event_value
  <2>2. WF!parse_derivation(v) = e /\ "drvPath" \in DOMAIN v BY <2>1, <1>2, DerivationLine, Zenon
  <2> QED BY <2>2, <1>1, Zenon DEF WF!parse_event_value
<1>3. CASE /\ e.kind = "attr_set"
           /\ e = [kind |-> "attr_set", attr |-> e.attr, attr_path |-> e.attr_path, attrs |-> e.attrs]
           /\ WF!IsList(e.attr_path) /\ WF!IsList(e.attrs)
  <2>1. v = [attr |-> e.attr, attrPath |-> e.attr_path, attrs |-> e.attrs] BY <1>1, <1>3 DEF WF!event_value
  <2>2. "drvPath" \notin DOMAIN v /\ "error" \notin DOMAIN v /\ "attrs" \in DOMAIN v
        /\ v["attr"] = e.attr /\ v["attrPath"] = e.attr_path /\ v["attrs"] = e.attrs
    BY ONLY <2>1
  <2>3. WF!parse_event_value(v) = [kind |-> "attr_set", attr |-> e.attr, attr_path |-> e.attr_path, attrs |-> e.attrs]
    BY ONLY <2>2, Zenon DEF WF!parse_event_value
  <2> QED BY ONLY <2>3, <1>1, <1>3, Zenon
<1>4. CASE /\ e.kind = "error"
           /\ e = [kind |-> "error", attr |-> e.attr, attr_path |-> e.attr_path, error |-> e.error,
                   fatal |-> e.fatal]
           /\ WF!IsList(e.attr_path) /\ e.fatal \in BOOLEAN
  <2>1. v = [attr |-> e.attr, attrPath |-> e.attr_path, error |-> e.error, fatal |-> e.fatal]
    BY <1>1, <1>4 DEF WF!event_value
  <2>2. "drvPath" \notin DOMAIN v /\ "error" \in DOMAIN v /\ "fatal" \in DOMAIN v
        /\ v["attr"] = e.attr /\ v["attrPath"] = e.attr_path /\ v["error"] = e.error /\ v["fatal"] = e.fatal
    BY ONLY <2>1
  <2>3. ("fatal" \in DOMAIN v /\ v["fatal"]) = e.fatal BY <2>2, <1>4
  <2>4. WF!parse_event_value(v) = [kind |-> "error", attr |-> e.attr, attr_path |-> e.attr_path, error |-> e.error,
                   fatal |-> e.fatal]
    BY ONLY <2>2, <2>3, Zenon DEF WF!parse_event_value
  <2> QED BY ONLY <2>4, <1>1, <1>4, Zenon
<1> QED BY <1>2, <1>3, <1>4, EventIs

(* An event survives a response. *)
LEMMA ResponseReads ==
  ASSUME NEW e, WF!IsEvent(e), e.kind = "derivation" => e.meta # Null
  PROVE WF!event_deserialize(WF!event_serialize(e)) = e
<1>1. PICK j : j = WF!event_serialize(e) OBVIOUS
<1>2. CASE e.kind = "derivation" /\ WF!IsDerivation(e)
  <2>1. j = [tag |-> e.kind, body |-> WF!derivation_serialize(e)] BY <1>1, <1>2, Zenon DEF WF!event_serialize
  <2>2. j.tag = "derivation" /\ j.body = WF!derivation_serialize(e) BY ONLY <2>1, <1>2
  <2>3. WF!event_deserialize(j) = WF!derivation_deserialize(j.body) BY ONLY <2>2 DEF WF!event_deserialize
  <2>4. WF!derivation_deserialize(WF!derivation_serialize(e)) = e BY <1>2, DerivationJson
  <2> QED BY ONLY <1>1, <2>2, <2>3, <2>4, Zenon
<1>3. ASSUME e.kind # "derivation"
      PROVE j.tag = e.kind /\ j.body = WF!Object(e, {"kind"})
  <2>1. j = [tag |-> e.kind, body |-> WF!Object(e, {"kind"})] BY <1>1, <1>3, Zenon DEF WF!event_serialize
  <2> QED BY ONLY <2>1
<1>4. CASE /\ e.kind = "attr_set"
           /\ e = [kind |-> "attr_set", attr |-> e.attr, attr_path |-> e.attr_path, attrs |-> e.attrs]
           /\ WF!IsList(e.attr_path) /\ WF!IsList(e.attrs)
  <2>1. PICK b : b = WF!Object(e, {"kind"}) OBVIOUS
  <2>2. \A k \in DOMAIN e \ {"kind"} : b[k] = e[k] BY ONLY <2>1, ObjectKeeps
  <2>3. DOMAIN e = {"kind", "attr", "attr_path", "attrs"} BY ONLY <1>4
  <2>4. b["attr"] = e.attr /\ b["attr_path"] = e.attr_path /\ b["attrs"] = e.attrs BY ONLY <2>2, <2>3
  <2>5. j.tag = "attr_set" /\ j.body = b BY <1>3, <1>4, <2>1
  <2>6. WF!event_deserialize(j) = [kind |-> "attr_set", attr |-> j.body["attr"],
                                attr_path |-> j.body["attr_path"], attrs |-> j.body["attrs"]]
    BY ONLY <2>5 DEF WF!event_deserialize
  <2>7. WF!event_deserialize(j) = [kind |-> "attr_set", attr |-> e.attr, attr_path |-> e.attr_path, attrs |-> e.attrs]
    BY ONLY <2>4, <2>5, <2>6, Zenon
  <2> QED BY ONLY <1>1, <1>4, <2>7, Zenon
<1>5. CASE /\ e.kind = "error"
           /\ e = [kind |-> "error", attr |-> e.attr, attr_path |-> e.attr_path, error |-> e.error,
                   fatal |-> e.fatal]
           /\ WF!IsList(e.attr_path) /\ e.fatal \in BOOLEAN
  <2>1. PICK b : b = WF!Object(e, {"kind"}) OBVIOUS
  <2>2. \A k \in DOMAIN e \ {"kind"} : b[k] = e[k] BY ONLY <2>1, ObjectKeeps
  <2>3. DOMAIN e = {"kind", "attr", "attr_path", "error", "fatal"} BY ONLY <1>5
  <2>4. b["attr"] = e.attr /\ b["attr_path"] = e.attr_path /\ b["error"] = e.error /\ b["fatal"] = e.fatal
    BY ONLY <2>2, <2>3
  <2>5. j.tag = "error" /\ j.body = b BY <1>3, <1>5, <2>1
  <2>6. WF!event_deserialize(j) = [kind |-> "error", attr |-> j.body["attr"],
                             attr_path |-> j.body["attr_path"], error |-> j.body["error"],
                             fatal |-> j.body["fatal"]]
    BY ONLY <2>5 DEF WF!event_deserialize
  <2>7. WF!event_deserialize(j) = [kind |-> "error", attr |-> e.attr, attr_path |-> e.attr_path, error |-> e.error,
                   fatal |-> e.fatal]
    BY ONLY <2>4, <2>5, <2>6, Zenon
  <2> QED BY ONLY <1>1, <1>5, <2>7, Zenon
<1> QED BY <1>2, <1>4, <1>5, EventIs

(* A diff that came through the daemon is printed as one that did not. *)
LEMMA DiffReads ==
  ASSUME NEW e, WF!IsEvent(e), e.kind = "derivation" => e.meta # Null
  PROVE WF!response_line(WF!response_serialize("diff", e)) = WF!diff_value(WF!DiffOf(e))
<1>1. PICK d : d = WF!DiffOf(e) OBVIOUS
<1>2. d.added = (IF e.kind = "derivation" THEN <<e>> ELSE <<>>) /\ d.removed = <<>>
      /\ d = [added |-> d.added, removed |-> d.removed, errors |-> d.errors]
  BY <1>1 DEF WF!DiffOf
<1>3. PICK r : r = WF!response_serialize("diff", e) OBVIOUS
<1>4. r = [type |-> "diff", added |-> [i \in DOMAIN d.added |-> WF!derivation_serialize(d.added[i])],
           removed |-> <<>>, errors |-> d.errors]
  BY <1>1, <1>3 DEF WF!response_serialize
<1>5. r.type = "diff" /\ r.added = [i \in DOMAIN d.added |-> WF!derivation_serialize(d.added[i])]
      /\ r.removed = <<>> /\ r.errors = d.errors
  BY ONLY <1>4
<1>6. \A i \in DOMAIN d.added : WF!derivation_deserialize(WF!derivation_serialize(d.added[i])) = d.added[i]
  <2>1. CASE e.kind = "derivation"
    <3>1. WF!IsDerivation(e) /\ e.meta # Null BY <2>1, EventIs
    <3>2. WF!derivation_deserialize(WF!derivation_serialize(e)) = e BY <3>1, DerivationJson
    <3>3. \A i \in DOMAIN d.added : d.added[i] = e BY <2>1, <1>2
    <3> QED BY ONLY <3>2, <3>3, Zenon
  <2>2. CASE e.kind # "derivation" BY <2>2, <1>2
  <2> QED BY <2>1, <2>2
<1>7. d.added = [i \in DOMAIN d.added |-> d.added[i]] BY <1>2
<1>8. [i \in DOMAIN r.added |-> WF!derivation_deserialize(r.added[i])] = d.added
  <2>1. PICK q : q = d.added OBVIOUS
  <2>2. PICK t : t = r.added OBVIOUS
  <2>3. t = [i \in DOMAIN q |-> WF!derivation_serialize(q[i])] BY ONLY <2>1, <2>2, <1>5, Zenon
  <2>4. \A i \in DOMAIN q : WF!derivation_deserialize(WF!derivation_serialize(q[i])) = q[i]
    BY ONLY <2>1, <1>6, Zenon
  <2>5. q = [i \in DOMAIN q |-> q[i]] BY ONLY <2>1, <1>7, Zenon
  <2>6. [i \in DOMAIN t |-> WF!derivation_deserialize(t[i])] = q BY ONLY <2>3, <2>4, <2>5
  <2> QED BY ONLY <2>1, <2>2, <2>6, Zenon
<1>9. WF!response_line(r) = WF!diff_value([added |-> [i \in DOMAIN r.added |-> WF!derivation_deserialize(r.added[i])],
                     removed |-> r.removed, errors |-> r.errors])
  <2>1. r.type # "event" BY ONLY <1>5
  <2> QED BY ONLY <2>1, Zenon DEF WF!response_line
<1>10. [added |-> [i \in DOMAIN r.added |-> WF!derivation_deserialize(r.added[i])],
                     removed |-> r.removed, errors |-> r.errors] = d
  BY ONLY <1>2, <1>5, <1>8, Zenon
<1> QED BY ONLY <1>1, <1>3, <1>9, <1>10, Zenon

(* So is an event. *)
LEMMA EvalReads ==
  ASSUME NEW e, WF!IsEvent(e), e.kind = "derivation" => e.meta # Null
  PROVE WF!response_line(WF!response_serialize("eval", e)) = WF!event_value(e)
<1>1. PICK r : r = WF!response_serialize("eval", e) OBVIOUS
<1>2. r = [type |-> "event", event |-> WF!event_serialize(e)] BY <1>1 DEF WF!response_serialize
<1>3. r.type = "event" /\ r.event = WF!event_serialize(e) BY ONLY <1>2
<1>4. WF!event_deserialize(WF!event_serialize(e)) = e BY ResponseReads
<1> QED BY ONLY <1>1, <1>3, <1>4, Zenon DEF WF!response_line

(* The last line of a key is the one that counts in a file ... *)
LEMMA LastLine ==
  ASSUME NEW n \in Nat, NEW file, DOMAIN file = 1..n, Len(file) = n, NEW i, NEW key, WF!IsLast(i, file, key)
  PROVE WF!InFile(file, key) = file[i][2]
<1>1. i \in DOMAIN file /\ file[i][1] = key /\ \A j \in (i + 1)..n : file[j][1] # key
  BY Zenon DEF WF!IsLast
<1>2. ASSUME NEW k \in DOMAIN file, WF!IsLast(k, file, key) PROVE k = i
  <2>1. file[k][1] = key /\ \A j \in (k + 1)..n : file[j][1] # key BY <1>2, Zenon DEF WF!IsLast
  <2>2. k \in 1..n /\ i \in 1..n BY <1>1, <1>2, Zenon
  <2>3. ~(k \in (i + 1)..n) /\ ~(i \in (k + 1)..n) BY <1>1, <2>1, Zenon
  <2> QED BY ONLY <2>2, <2>3, n \in Nat
<1> QED BY <1>1, <1>2, Zenon DEF WF!InFile

(* ... and the first file with the key. *)
LEMMA FirstFile ==
  ASSUME NEW S, NEW files \in Seq(S), NEW f, NEW key, WF!IsFirst(f, files, key)
  PROVE WF!Effective(files, key) = WF!InFile(files[f], key)
<1>1. f \in DOMAIN files /\ WF!Sets(files[f], key) /\ \A g \in 1..(f - 1) : ~WF!Sets(files[g], key)
  BY Zenon DEF WF!IsFirst
<1>2. ASSUME NEW k \in DOMAIN files, WF!IsFirst(k, files, key) PROVE k = f
  <2>1. WF!Sets(files[k], key) /\ \A g \in 1..(k - 1) : ~WF!Sets(files[g], key) BY <1>2, Zenon DEF WF!IsFirst
  <2>2. k \in 1..Len(files) /\ f \in 1..Len(files) /\ Len(files) \in Nat BY <1>1
  <2>3. ~(k \in 1..(f - 1)) /\ ~(f \in 1..(k - 1)) BY <1>1, <2>1, Zenon
  <2> QED BY ONLY <2>2, <2>3
<1> QED BY <1>1, <1>2, Zenon DEF WF!Effective

(* The generated file comes before the files of the environment. *)
LEMMA Prepared ==
  ASSUME NEW env \in Environments, NEW options, options # <<>>
  PROVE \E S, rest :
          /\ rest \in Seq(S)
          /\ WF!prepare_nix_options_env(options, env) = <<WF!options_file(options)>> \o rest
          /\ DOMAIN WF!NixFinds(env) = {} \/ rest = WF!NixFinds(env)
<1>1. env.previous # None => env.previous \in Seq(WF!Range(env.previous))
  BY DataPathAssumption, Zenon DEF WF!WireFormatAssumption
<1>2. PICK S : S = WF!Range(env.previous) \union {env.default} OBVIOUS
<1>3. PICK rest : rest = IF env.previous \notin {None, <<>>} THEN env.previous
                         ELSE WF!default_nix_user_conf_file(env)
  OBVIOUS
<1>4. WF!prepare_nix_options_env(options, env) = <<WF!options_file(options)>> \o rest
  BY <1>3, Zenon DEF WF!prepare_nix_options_env, WF!nix_user_conf_files
<1>5. WF!default_nix_user_conf_file(env) \in Seq(S)
  <2>1. PICK d : d = env.default OBVIOUS
  <2>2. d \in S BY ONLY <1>2, <2>1, Zenon
  <2>3. <<>> \in Seq(S) /\ <<d>> \in Seq(S) BY ONLY <2>2
  <2> QED BY ONLY <2>1, <2>3, Zenon DEF WF!default_nix_user_conf_file
<1>6. env.previous # None => env.previous \in Seq(S)
  <2>1. PICK T : T = WF!Range(env.previous) OBVIOUS
  <2>2. T \subseteq S BY ONLY <1>2, <2>1
  <2>3. env.previous # None => env.previous \in Seq(T) BY <1>1, <2>1, Zenon
  <2> QED BY ONLY <2>2, <2>3
<1>7. rest \in Seq(S) BY <1>3, <1>5, <1>6
<1>8. CASE env.previous = None
  <2>1. WF!NixFinds(env) = WF!default_nix_user_conf_file(env) BY <1>8, Zenon DEF WF!NixFinds
  <2>2. rest = WF!default_nix_user_conf_file(env) BY <1>3, <1>8
  <2> QED BY <1>4, <1>7, <2>1, <2>2, Zenon
<1>9. CASE env.previous # None
  <2>1. WF!NixFinds(env) = env.previous BY <1>9, Zenon DEF WF!NixFinds
  <2>2. env.previous # <<>> => rest = env.previous BY <1>3, <1>9
  <2>3. env.previous = <<>> => DOMAIN env.previous = {} OBVIOUS
  <2> QED BY <1>4, <1>7, <2>1, <2>2, <2>3, Zenon
<1> QED BY <1>8, <1>9

(* The last option of a key is in force. *)
LEMMA LastOption ==
  ASSUME NEW env \in Environments, NEW options, NEW n \in Nat, DOMAIN options = 1..n,
         NEW i, NEW key, WF!IsLast(i, WF!options_file(options), key)
  PROVE WF!Effective(WF!prepare_nix_options_env(options, env), key) = WF!options_file(options)[i][2]
<1>1. PICK lines : lines = WF!options_file(options) OBVIOUS
<1>2. DOMAIN lines = 1..n /\ Len(lines) = n BY <1>1 DEF WF!options_file
<1>3. i \in 1..n /\ lines[i][1] = key BY <1>1, <1>2, Zenon DEF WF!IsLast
<1>4. options # <<>> BY <1>3
<1>5. PICK S, rest : rest \in Seq(S) /\ WF!prepare_nix_options_env(options, env) = <<lines>> \o rest
  BY <1>1, <1>4, Prepared, Zenon
<1>6. PICK files : files = <<lines>> \o rest OBVIOUS
<1>7. files \in Seq(S \union {lines}) /\ 1 \in DOMAIN files /\ files[1] = lines BY ONLY <1>5, <1>6
<1>8. WF!IsFirst(1, files, key)
  <2>1. WF!Sets(lines, key) BY <1>2, <1>3, Zenon DEF WF!Sets
  <2>2. \A g \in 1..(1 - 1) : FALSE OBVIOUS
  <2> QED BY <1>7, <2>1, <2>2, Zenon DEF WF!IsFirst
<1>9. PICK T : T = S \union {lines} OBVIOUS
<1>10. files \in Seq(T) BY ONLY <1>7, <1>9, Zenon
<1>11. WF!Effective(files, key) = WF!InFile(files[1], key) BY <1>8, <1>10, FirstFile
<1>12. WF!IsLast(i, lines, key) BY <1>1, Zenon
<1>13. WF!InFile(lines, key) = lines[i][2] BY <1>2, <1>12, LastLine
<1> QED BY ONLY <1>1, <1>5, <1>6, <1>7, <1>11, <1>13, Zenon

(* Another setting has the value it has in the environment. *)
LEMMA OthersStay ==
  ASSUME NEW env \in Environments, NEW options, NEW key, ~WF!Sets(WF!options_file(options), key),
         NEW f \in DOMAIN WF!NixFinds(env), WF!Sets(WF!NixFinds(env)[f], key)
  PROVE WF!Effective(WF!prepare_nix_options_env(options, env), key) = WF!Effective(WF!NixFinds(env), key)
<1>1. CASE options = <<>> BY <1>1, Zenon DEF WF!prepare_nix_options_env
<1>2. CASE options # <<>>
  <2>1. PICK lines : lines = WF!options_file(options) OBVIOUS
  <2>2. PICK S, rest : /\ rest \in Seq(S) /\ WF!prepare_nix_options_env(options, env) = <<lines>> \o rest
                       /\ DOMAIN WF!NixFinds(env) = {} \/ rest = WF!NixFinds(env)
    BY <1>2, <2>1, Prepared, Zenon
  <2>3. rest = WF!NixFinds(env) BY <2>2, Zenon
  <2>4. f \in DOMAIN rest /\ WF!Sets(rest[f], key) BY <2>3, Zenon
  <2>5. PICK files : files = <<lines>> \o rest OBVIOUS
  <2>6. PICK T : T = S \union {lines} OBVIOUS
  <2>7. files \in Seq(T) /\ files[1] = lines /\ \A k \in DOMAIN rest : k + 1 \in DOMAIN files /\ files[k + 1] = rest[k]
    BY ONLY <2>2, <2>5, <2>6
  <2> DEFINE With == {k \in DOMAIN rest : WF!Sets(rest[k], key)}
  <2>8. With \subseteq Nat /\ With # {}
    <3>1. DOMAIN rest \subseteq Nat BY ONLY <2>2
    <3> QED BY <3>1, <2>4, Zenon
  <2>9. PICK m \in With : \A k \in With : m <= k
    <3> HIDE DEF With
    <3> QED BY <2>8, Least
  <2>10. m \in 1..Len(rest) /\ Len(rest) \in Nat /\ WF!Sets(rest[m], key) BY <2>2
  <2>11. ASSUME NEW g \in 1..(m - 1) PROVE ~WF!Sets(rest[g], key)
    <3>1. g \in DOMAIN rest /\ ~(m <= g) BY <2>2, <2>10
    <3>2. g \notin With BY <2>9, <3>1, Zenon
    <3> QED BY <3>1, <3>2, Zenon
  <2>12. WF!IsFirst(m, rest, key) BY <2>2, <2>10, <2>11, Zenon DEF WF!IsFirst
  <2>13. PICK h : h = m + 1 OBVIOUS
  <2>14. h \in DOMAIN files /\ files[h] = rest[m] BY <2>7, <2>13, Zenon
  <2>15. ASSUME NEW g \in 1..(h - 1) PROVE ~WF!Sets(files[g], key)
    <3>1. g = 1 \/ g - 1 \in 1..(m - 1) BY <2>10, <2>13
    <3>2. CASE g = 1 BY <3>2, <2>1, <2>7, Zenon
    <3>3. CASE g - 1 \in 1..(m - 1)
      <4>1. PICK e : e = g - 1 OBVIOUS
      <4>2. e \in 1..(m - 1) /\ g = e + 1 BY <3>3, <4>1
      <4>3. e \in DOMAIN rest BY <4>2, <2>2, <2>10
      <4>4. files[g] = rest[e] BY <4>2, <4>3, <2>7, Zenon
      <4> QED BY <4>2, <4>4, <2>11, Zenon
    <3> QED BY <3>1, <3>2, <3>3
  <2>16. WF!IsFirst(h, files, key) BY <2>10, <2>14, <2>15, Zenon DEF WF!IsFirst
  <2>17. WF!Effective(files, key) = WF!InFile(files[h], key) BY <2>7, <2>16, FirstFile
  <2>18. WF!Effective(rest, key) = WF!InFile(rest[m], key) BY <2>2, <2>12, FirstFile
  <2> QED BY ONLY <2>2, <2>3, <2>5, <2>14, <2>17, <2>18, Zenon
<1> QED BY <1>1, <1>2


------------------------------------------------------------------------------
(* What is known of a request wherever it is. *)

(* A configuration that can be written down, and one without a remote that has
   no workers. *)
Writable(c) == WF!utf8(c.gc_roots_dir) /\ WF!utf8(c.input.value)
Staffed(c) == \A i \in DOMAIN c.remotes : c.remotes[i].workers # 0

Remotely == <<"remote", "local">>
Setup(c, version) == WF!write_setup(WF!worker_config(c), version)

(* Where a request is, and what is known of it there. *)
Asking ==
    /\ wireAsked \in Configs
    /\ DOMAIN client = {"command", "daemon", "version", "master"}
    /\ client.command \in {"eval", "diff"} /\ client.daemon \in BOOLEAN
    /\ client.daemon \/ client.command = "eval"

(* A session was opened for the configuration. *)
Opened(ss, c) == \E key \in DOMAIN ss : ss[key] = c

Serving ==
    /\ Asking /\ wireUsed = wireAsked /\ client.version = DaemonVersion
    /\ client.command = "diff" => Opened(sessions, wireAsked)

Started == Serving /\ WF!validate_config(wireAsked) /\ Writable(wireAsked)

Running ==
    /\ Started /\ client.master = WorkerVersion
    /\ route = <<"local">> \/ route = Remotely
    /\ route = Remotely =>
         /\ Words[wireAsked] <= RemoteLimit
         /\ \A i \in DOMAIN wireAsked.nix_options : wireAsked.nix_options[i][1] \in RemoteOptions

Validated == Running /\ WF!validate_nix_option_part(wireAsked.nix_options)

SetupFits == Words[wireAsked] <= (IF Len(route) = 2 THEN RemoteLimit ELSE LocalLimit)

Configured == Validated /\ SetupFits /\ ~WF!NixRefuses(wireAsked.nix_options)

(* The files Nix reads in some environment. *)
Files(options, env) == [before |-> WF!NixFinds(env), files |-> WF!prepare_nix_options_env(options, env)]

WithinLimit == Words[answer] <= (IF Len(route) = 2 THEN RemoteLimit ELSE LocalLimit)

Idle == wireAt = "idle" /\ wireUsed = None /\ route = <<>> /\ answer = None

Requested ==
    /\ wireAt = "request" /\ Asking /\ wireUsed = None /\ route = <<>> /\ answer = None
    /\ client.daemon /\ client.master = WorkerVersion /\ Writable(wireAsked)
    /\ \E omitted \in SUBSET WF!Omittable(wireAsked) :
         carried = [protocolVersion |-> client.version,
                    config |-> WF!Object(WF!config_serialize(wireAsked), omitted)]

Served == wireAt = "master" /\ Serving /\ route = <<>> /\ answer = None /\ client.master = WorkerVersion

SentAway ==
    /\ wireAt = "setup" /\ Started /\ route = Remotely /\ hops = Remotely /\ answer = None
    /\ carried = Setup(wireAsked, client.master)

Arrived ==
    /\ wireAt = "spawn" /\ Running /\ hops = <<"local">> /\ answer = None
    /\ carried = Setup(wireAsked, WorkerVersion)

Spawned ==
    /\ wireAt = "setup" /\ Validated /\ hops = <<"local">> /\ answer = None
    /\ carried = Setup(wireAsked, WorkerVersion)
    /\ \E env \in Environments : settings = Files(wireAsked.nix_options, env)

Working ==
    /\ wireAt = "worker" /\ Configured /\ answer = None
    /\ carried = WF!worker_config(wireAsked)
    /\ \E env \in Environments : settings = Files(wireAsked.nix_options, env)

Reporting ==
    /\ wireAt = "event" /\ Configured /\ answer \in Answers /\ carried = WF!set_event(answer)
    /\ \/ hops = <<"local">> /\ route = <<"local">>
       \/ hops = <<"local", "remote">> /\ route = Remotely
       \/ hops = <<"remote">> /\ route = Remotely

Found == wireAt = "found" /\ Configured /\ answer \in Answers /\ WithinLimit /\ carried = answer

Responded ==
    /\ wireAt = "response" /\ Configured /\ answer \in Answers /\ WithinLimit
    /\ client.daemon /\ carried = WF!response_serialize(client.command, answer)

Printed ==
    /\ wireAt = "line" /\ Configured /\ answer \in Answers /\ WithinLimit
    /\ client.daemon => carried = WF!response_line(WF!response_serialize(client.command, answer))
    /\ ~client.daemon => carried = WF!event_value(answer)

Cause ==
    \/ ~Writable(wireAsked) \/ ~Staffed(wireAsked) \/ wireAsked.item_timeout_seconds = 0
    \/ ~WF!validate_nix_option_part(wireAsked.nix_options) \/ WF!NixRefuses(wireAsked.nix_options)
    \/ route # <<>> /\ Words[wireAsked] > (IF Len(route) = 2 THEN RemoteLimit ELSE LocalLimit)
    \/ route # <<>> /\ answer # None /\ Words[answer] > (IF Len(route) = 2 THEN RemoteLimit ELSE LocalLimit)
    \/ client.command = "diff" /\ ~Opened(sessions, wireAsked)
    \/ client.version # DaemonVersion \/ client.master # WorkerVersion
    \/ /\ Len(route) = 2
       /\ \E i \in DOMAIN wireAsked.nix_options : wireAsked.nix_options[i][1] \notin RemoteOptions

Refused ==
    /\ wireAt = "failed" /\ Cause
    /\ wireUsed = None \/ wireUsed = wireAsked

Somewhere ==
    \/ Idle \/ Requested \/ Served \/ SentAway \/ Arrived \/ Spawned \/ Working \/ Reporting
    \/ Found \/ Responded \/ Printed \/ Refused

Keyed ==
    \A k \in DOMAIN sessions : sessions[k] \in Configs /\ k = WF!session_key(sessions[k])

WireInv == Somewhere /\ Keyed

(* A request is in one place. *)
LEMMA PlaceIs ==
  ASSUME Somewhere
  PROVE /\ wireAt = "idle" => Idle
        /\ wireAt = "request" => Requested
        /\ wireAt = "master" => Served
        /\ wireAt = "spawn" => Arrived
        /\ wireAt = "setup" => SentAway \/ Spawned
        /\ wireAt = "worker" => Working
        /\ wireAt = "event" => Reporting
        /\ wireAt = "found" => Found
        /\ wireAt = "response" => Responded
        /\ wireAt = "line" => Printed
        /\ wireAt = "failed" => Refused

<1>2. /\ Idle => wireAt = "idle"
      /\ Requested => wireAt = "request"
      /\ Served => wireAt = "master"
      /\ SentAway => wireAt = "setup"
      /\ Arrived => wireAt = "spawn"
      /\ Spawned => wireAt = "setup"
      /\ Working => wireAt = "worker"
      /\ Reporting => wireAt = "event"
      /\ Found => wireAt = "found"
      /\ Responded => wireAt = "response"
      /\ Printed => wireAt = "line"
      /\ Refused => wireAt = "failed"
  BY Zenon DEF Idle, Requested, Served, SentAway, Arrived, Spawned, Working, Reporting, Found, Responded, Printed, Refused
<1> QED BY <1>2 DEF Somewhere

(* No request is made at first. *)
LEMMA WireStart == WF!Init => WireInv
<1>1. WF!Init => Idle BY Zenon DEF WF!Init, Idle
<1>2. WF!Init => Keyed
  <2>1. WF!Init => sessions = <<>> BY Zenon DEF WF!Init
  <2> QED BY <2>1 DEF Keyed
<1> QED BY <1>1, <1>2 DEF WireInv, Somewhere

------------------------------------------------------------------------------
(* The client and the daemon. *)

(* Asking writes the request or fails. *)
LEMMA AskKeeps ==
  ASSUME WireInv, NEW c \in Configs, NEW command \in {"eval", "diff"}, NEW daemon \in BOOLEAN,
         NEW lazy \in BOOLEAN, NEW version \in Versions, WF!Ask(c, command, daemon, version, lazy)
  PROVE WireInv'
<1>1. Idle BY PlaceIs, Zenon DEF WireInv, WF!Ask
<1>2. PICK om : om = IF lazy THEN WF!Omittable(c) ELSE {} OBVIOUS
<1>3. /\ command = "diff" => daemon
      /\ ~daemon => version = DaemonVersion
      /\ wireAsked' = c
      /\ client' = [command |-> command, daemon |-> daemon, version |-> version, master |-> WorkerVersion]
      /\ route' = route /\ answer' = answer /\ sessions' = sessions
      /\ ~daemon => wireUsed' = c /\ wireAt' = "master"
      /\ daemon => wireUsed' = None
      /\ daemon /\ Writable(c) => /\ wireAt' = "request"
                                  /\ carried' = [protocolVersion |-> version,
                                                 config |-> WF!Object(WF!config_serialize(c), om)]
      /\ daemon /\ ~Writable(c) => wireAt' = "failed"
  BY <1>2, FromCopies, Zenon DEF WF!Ask, WF!Go, WF!Fail, Writable
<1>4. /\ DOMAIN client' = {"command", "daemon", "version", "master"}
      /\ client'.command = command /\ client'.daemon = daemon /\ client'.version = version
      /\ client'.master = WorkerVersion
  BY ONLY <1>3
<1>5. route' = <<>> /\ answer' = None BY <1>1, <1>3, Zenon DEF Idle
<1>6. Asking' BY <1>3, <1>4 DEF Asking
<1>7. Keyed' BY <1>3, Zenon DEF WireInv, Keyed
<1>8. CASE ~daemon
  <2>1. Served' BY <1>8, <1>3, <1>4, <1>5, <1>6, Zenon DEF Served, Serving
  <2> QED BY <2>1, <1>7, Zenon DEF WireInv, Somewhere
<1>9. CASE daemon /\ Writable(c)
  <2>1. om \in SUBSET WF!Omittable(c) BY ONLY <1>2
  <2>2. Requested'
    BY <1>9, <1>3, <1>4, <1>5, <1>6, <2>1, Zenon DEF Requested
  <2> QED BY <2>2, <1>7, Zenon DEF WireInv, Somewhere
<1>10. CASE daemon /\ ~Writable(c)
  <2>1. Cause' BY <1>10, <1>3, Zenon DEF Cause
  <2>2. Refused' BY <1>10, <1>3, <2>1, Zenon DEF Refused
  <2> QED BY <2>2, <1>7, Zenon DEF WireInv, Somewhere
<1> QED BY <1>8, <1>9, <1>10

(* The daemon reads what was asked, and finds its session. *)
LEMMA ReadRequestKeeps ==
  ASSUME WireInv, WF!ReadRequest PROVE WireInv'
<1>1. Requested BY PlaceIs, Zenon DEF WireInv, WF!ReadRequest
<1>2. wireAsked \in Configs BY <1>1, Zenon DEF Requested, Asking
<1>3. PICK om \in SUBSET WF!Omittable(wireAsked) :
         carried = [protocolVersion |-> client.version,
                    config |-> WF!Object(WF!config_serialize(wireAsked), om)]
  BY <1>1, Zenon DEF Requested
<1>4. carried.protocolVersion = client.version /\ carried.config = WF!Object(WF!config_serialize(wireAsked), om)
  BY ONLY <1>3
<1>5. PICK c : c = wireAsked OBVIOUS
<1>6. WF!from_wire(WF!config_deserialize(carried.config)) = c
  <2>1. WF!config_deserialize(WF!Object(WF!config_serialize(wireAsked), om)) = wireAsked
    BY <1>2, <1>3, ConfigReads
  <2>2. WF!from_wire(c) = c BY <1>2, <1>5, FromCopies
  <2> QED BY ONLY <2>1, <2>2, <1>4, <1>5, Zenon
<1>7. PICK key : key = WF!session_key(c) OBVIOUS
<1>8. /\ route' = route /\ wireAsked' = wireAsked /\ client' = client /\ answer' = answer
      /\ client.version # DaemonVersion =>
           wireAt' = "failed" /\ wireUsed' = wireUsed /\ sessions' = sessions
      /\ client.version = DaemonVersion /\ client.command = "eval" =>
           /\ wireUsed' = c /\ wireAt' = "master"
           /\ sessions' = [k \in DOMAIN sessions \union {key} |-> IF k = key THEN c ELSE sessions[k]]
      /\ client.version = DaemonVersion /\ client.command # "eval" =>
           /\ sessions' = sessions
           /\ key \in DOMAIN sessions => wireUsed' = sessions[key] /\ wireAt' = "master"
           /\ key \notin DOMAIN sessions => wireUsed' = None /\ wireAt' = "failed"
  BY <1>4, <1>6, <1>7, Zenon DEF WF!ReadRequest, WF!validate_protocol, WF!Go, WF!Fail
<1>9. Asking' /\ route' = <<>> /\ answer' = None /\ client'.master = WorkerVersion
  BY <1>1, <1>8, Zenon DEF Requested, Asking
<1>10. wireUsed = None BY <1>1, Zenon DEF Requested
<1>11. CASE client.version # DaemonVersion
  <2>1. Refused' BY <1>11, <1>8, <1>10, Zenon DEF Refused, Cause
  <2>2. Keyed' BY <1>11, <1>8, Zenon DEF WireInv, Keyed
  <2> QED BY <2>1, <2>2, Zenon DEF WireInv, Somewhere
<1>12. CASE client.version = DaemonVersion /\ client.command = "eval"
  <2>1. client'.command # "diff" BY ONLY <1>8, <1>12
  <2>3. Served' BY <1>12, <1>5, <1>8, <1>9, <2>1, Zenon DEF Served, Serving
  <2>2. Keyed'
    <3>1. ASSUME NEW k \in DOMAIN sessions' PROVE sessions'[k] \in Configs /\ k = WF!session_key(sessions'[k])
      <4>1. sessions' = [h \in DOMAIN sessions \union {key} |-> IF h = key THEN c ELSE sessions[h]]
        BY <1>12, <1>8, Zenon
      <4>2. k \in DOMAIN sessions \union {key} /\ sessions'[k] = (IF k = key THEN c ELSE sessions[k])
        BY ONLY <3>1, <4>1
      <4>3. CASE k = key BY <4>2, <4>3, <1>2, <1>5, <1>7, Zenon
      <4>4. CASE k # key
        <5>1. k \in DOMAIN sessions BY ONLY <4>2, <4>4
        <5> QED BY <4>2, <4>4, <5>1, Zenon DEF WireInv, Keyed
      <4> QED BY <4>3, <4>4
    <3> QED BY <3>1, Zenon DEF Keyed
  <2> QED BY <2>3, <2>2, Zenon DEF WireInv, Somewhere
<1>13. CASE client.version = DaemonVersion /\ client.command # "eval"
  <2>1. Keyed' BY <1>13, <1>8, Zenon DEF WireInv, Keyed
  <2>2. CASE key \in DOMAIN sessions
    <3>1. sessions[key] = c
      <4>1. sessions[key] \in Configs /\ key = WF!session_key(sessions[key]) BY <2>2, Zenon DEF WireInv, Keyed
      <4>2. PICK d \in Configs : d = sessions[key] BY <4>1
      <4>3. WF!session_key(c) = WF!session_key(d) BY ONLY <4>1, <4>2, <1>7, Zenon
      <4>4. c \in Configs BY <1>2, <1>5, Zenon
      <4>5. c = d BY <4>3, <4>4, KeysDiffer
      <4> QED BY <4>2, <4>5, Zenon
    <3>2. Opened(sessions', wireAsked')
      <4>1. Opened(sessions, c) BY <2>2, <3>1, Zenon DEF Opened
      <4> QED BY ONLY <4>1, <1>5, <1>8, <1>13, Zenon
    <3>3. Served' BY <1>13, <2>2, <3>1, <3>2, <1>5, <1>8, <1>9, Zenon DEF Served, Serving
    <3> QED BY <3>3, <2>1, Zenon DEF WireInv, Somewhere
  <2>3. CASE key \notin DOMAIN sessions
    <3>1. client.command = "diff" BY <1>13, <1>1, Zenon DEF Requested, Asking
    <3>2. ~Opened(sessions', wireAsked')
      <4>1. ASSUME NEW k \in DOMAIN sessions, sessions[k] = c PROVE FALSE
        <5>1. k = WF!session_key(sessions[k]) BY <4>1, Zenon DEF WireInv, Keyed
        <5> QED BY <4>1, <5>1, <1>7, <2>3, Zenon
      <4>2. ~Opened(sessions, c) BY <4>1, Zenon DEF Opened
      <4> QED BY ONLY <4>2, <1>5, <1>8, <1>13, Zenon
    <3>3. Refused' BY <3>1, <3>2, <1>13, <2>3, <1>8, Zenon DEF Refused, Cause
    <3> QED BY <3>3, <2>1, Zenon DEF WireInv, Somewhere
  <2> QED BY <2>2, <2>3
<1> QED BY <1>11, <1>12, <1>13

------------------------------------------------------------------------------
(* From the master to the worker. *)

(* The hops of the two ways. *)
LEMMA Lengths ==
  /\ Len(Remotely) = 2 /\ Len(<<"local">>) = 1
  /\ Len(<<"local", "remote">>) = 2 /\ Len(<<"remote">>) = 1
  /\ Head(<<"local">>) = "local" /\ Head(<<"local", "remote">>) = "local" /\ Head(<<"remote">>) = "remote"
  /\ Tail(<<"local", "remote">>) = <<"remote">>
  BY DEF Remotely

(* The setup message has the configuration and the version. *)
LEMMA SetupReads ==
  ASSUME NEW c, NEW version
  PROVE /\ Setup(c, version).config = WF!set_worker_config(WF!worker_config(c))
        /\ Setup(c, version).protocolVersion = version
<1>1. Setup(c, version) = [config |-> WF!set_worker_config(WF!worker_config(c)), protocolVersion |-> version]
  BY Zenon DEF Setup, WF!write_setup
<1> QED BY ONLY <1>1

(* The options of a worker are those that were asked for. *)
LEMMA WorkerOptions ==
  ASSUME NEW c PROVE WF!worker_config(c).nix_options = c.nix_options
  BY DEF WF!worker_config

(* Steps that leave the sessions alone. *)
LEMMA StaysKeyed ==
  ASSUME WireInv, UNCHANGED sessions PROVE Keyed'
  BY Zenon DEF WireInv, Keyed

(* A worker starts with a valid configuration. *)
LEMMA StartWorkerKeeps ==
  ASSUME WireInv, NEW remote \in BOOLEAN, NEW version \in Versions, WF!StartWorker(remote, version)
  PROVE WireInv'
<1>1. Served BY PlaceIs, Zenon DEF WireInv, WF!StartWorker
<1>2. wireUsed = wireAsked /\ wireAsked \in Configs /\ client.version = DaemonVersion
  BY <1>1, Zenon DEF Served, Serving, Asking
<1>3. PICK c : c = wireAsked OBVIOUS
<1>4. /\ ~remote => version = WorkerVersion
      /\ client' = [client EXCEPT !.master = version]
      /\ wireAsked' = wireAsked /\ answer' = answer /\ sessions' = sessions /\ wireUsed' = wireUsed
      /\ WF!validate_config(c) =>
           /\ route' = IF remote THEN Remotely ELSE <<"local">>
           /\ hops' = route'
           /\ wireAt' = IF remote THEN "setup" ELSE "spawn"
           /\ carried' = Setup(c, version)
      /\ ~WF!validate_config(c) => wireAt' = "failed" /\ route' = route
  BY <1>2, <1>3, Zenon DEF WF!StartWorker, WF!Go, WF!Fail, Setup, Remotely
<1>5. /\ DOMAIN client' = DOMAIN client /\ client'.command = client.command /\ client'.daemon = client.daemon
      /\ client'.version = client.version /\ client'.master = version
  <2>1. DOMAIN client = {"command", "daemon", "version", "master"} BY <1>1, Zenon DEF Served, Serving, Asking
  <2> QED BY ONLY <2>1, <1>4
<1>6. Serving'
  BY <1>1, <1>4, <1>5, Zenon DEF Served, Serving, Asking
<1>7. Keyed' BY <1>4, StaysKeyed
<1>8. c.input.kind # "file" => WF!utf8(c.input.value)
  <2>1. WF!IsConfig(c) BY <1>2, <1>3, WireTypes
  <2> QED BY <2>1, Zenon DEF WF!IsConfig
<1>9. CASE WF!validate_config(c)
  <2>1. Writable(c) BY <1>8, <1>9, Zenon DEF Writable, WF!validate_config
  <2>2. Started' BY <1>3, <1>4, <1>6, <1>9, <2>1, Zenon DEF Started
  <2>3. answer' = None BY <1>1, <1>4, Zenon DEF Served
  <2>4. CASE remote
    <3>1. SentAway' BY <2>2, <2>3, <2>4, <1>3, <1>4, <1>5, <1>9, Zenon DEF SentAway
    <3> QED BY <3>1, <1>7, Zenon DEF WireInv, Somewhere
  <2>5. CASE ~remote
    <3>1. Running'
      <4>1. route' = <<"local">> BY <2>5, <1>4, <1>9, Zenon
      <4>2. route' # Remotely BY ONLY <4>1 DEF Remotely
      <4>3. client'.master = WorkerVersion BY <2>5, <1>4, <1>5, Zenon
      <4> QED BY <4>1, <4>2, <4>3, <2>2, Zenon DEF Running
    <3>2. Arrived' BY <3>1, <2>3, <2>5, <1>3, <1>4, <1>9, Zenon DEF Arrived
    <3> QED BY <3>2, <1>7, Zenon DEF WireInv, Somewhere
  <2> QED BY <2>4, <2>5
<1>10. CASE ~WF!validate_config(c)
  <2>1. Cause'
    <3>1. ~Writable(c) \/ ~Staffed(c) \/ c.item_timeout_seconds = 0
      BY <1>10, Zenon DEF WF!validate_config, Writable, Staffed
    <3> QED BY <3>1, <1>3, <1>4, Zenon DEF Cause
  <2>2. Refused' BY <2>1, <1>2, <1>4, <1>10, Zenon DEF Refused
  <2> QED BY <2>2, <1>7, Zenon DEF WireInv, Somewhere
<1> QED BY <1>9, <1>10

(* The remote server hands it on. *)
LEMMA ServerSetupKeeps ==
  ASSUME WireInv, WF!ServerSetup PROVE WireInv'
<1>1. SentAway
  <2>1. SentAway \/ Spawned BY PlaceIs, Zenon DEF WireInv, WF!ServerSetup
  <2>2. Head(hops) = "remote" BY Zenon DEF WF!ServerSetup
  <2>3. ASSUME Spawned PROVE FALSE
    <3>1. hops = <<"local">> BY <2>3, Zenon DEF Spawned
    <3> QED BY ONLY <3>1, <2>2
  <2> QED BY <2>1, <2>3
<1>2. wireAsked \in Configs /\ wireUsed = wireAsked /\ Started /\ answer = None /\ route = Remotely /\ hops = Remotely
      /\ carried = Setup(wireAsked, client.master)
  BY <1>1, Zenon DEF SentAway, Started, Serving, Asking
<1>3. PICK c : c = wireAsked OBVIOUS
<1>4. WF!read_worker_config(carried.config) = WF!worker_config(c) /\ carried.protocolVersion = client.master
  <2>1. c \in Configs /\ c.item_timeout_seconds # 0
    BY <1>2, <1>3, Zenon DEF Started, WF!validate_config
  <2>2. WF!read_worker_config(WF!set_worker_config(WF!worker_config(c))) = WF!worker_config(c)
    BY <2>1, WorkerConfigReads
  <2>3. Setup(c, client.master).config = WF!set_worker_config(WF!worker_config(c))
        /\ Setup(c, client.master).protocolVersion = client.master
    BY SetupReads
  <2> QED BY ONLY <2>2, <2>3, <1>2, <1>3, Zenon
<1> DEFINE Allowed == \A i \in DOMAIN c.nix_options : c.nix_options[i][1] \in RemoteOptions
           Small == Words[c] <= RemoteLimit
<1>5. WF!validate_remote_config(WF!worker_config(c)) <=> Allowed
  <2>1. WF!worker_config(c).nix_options = c.nix_options BY WorkerOptions
  <2> QED BY ONLY <2>1, Zenon DEF WF!validate_remote_config
<1>6. /\ client' = client /\ wireAsked' = wireAsked /\ answer' = answer /\ sessions' = sessions
      /\ wireUsed' = wireUsed /\ route' = route
      /\ client.master = WorkerVersion /\ Allowed /\ Small =>
           hops' = Tail(hops) /\ wireAt' = "spawn" /\ carried' = Setup(c, WorkerVersion)
      /\ ~(client.master = WorkerVersion /\ Allowed /\ Small) => wireAt' = "failed"
  <2>1. WF!Readable(wireUsed, "remote") <=> Small BY <1>2, <1>3, Zenon DEF WF!Readable
  <2> HIDE DEF Small, Allowed
  <2> QED BY <1>4, <1>5, <2>1, Zenon DEF WF!ServerSetup, WF!Go, WF!Fail, WF!validate_worker_protocol, Setup
<1>7. Keyed' BY <1>6, StaysKeyed
<1>8. CASE client.master = WorkerVersion /\ Allowed /\ Small
  <2>1. Running'
    <3>1. Started' BY <1>2, <1>6, Zenon DEF Started, Serving, Asking
    <3> QED BY <3>1, <1>2, <1>3, <1>6, <1>8, Zenon DEF Running
  <2>2. hops' = <<"local">>
    <3>1. hops' = Tail(hops) /\ hops = <<"remote", "local">> BY <1>2, <1>6, <1>8, Zenon DEF Remotely
    <3> QED BY ONLY <3>1
  <2>3. Arrived' BY <2>1, <2>2, <1>2, <1>3, <1>6, <1>8, Zenon DEF Arrived
  <2> QED BY <2>3, <1>7, Zenon DEF WireInv, Somewhere
<1>9. CASE ~(client.master = WorkerVersion /\ Allowed /\ Small)
  <2>1. Len(route') = 2 /\ route' # <<>>
    <3>1. route' = <<"remote", "local">> BY <1>2, <1>6, Zenon DEF Remotely
    <3> QED BY ONLY <3>1
  <2>4. ~Small => Words[c] > RemoteLimit BY <1>2, <1>3, WireTypes
  <2>2. Cause' BY <2>1, <2>4, <1>3, <1>6, <1>9, Zenon DEF Cause
  <2>3. Refused' BY <2>2, <1>2, <1>6, <1>9, Zenon DEF Refused
  <2> QED BY <2>3, <1>7, Zenon DEF WireInv, Somewhere
<1> QED BY <1>8, <1>9

(* The options file has the options. *)
LEMMA SpawnKeeps ==
  ASSUME WireInv, NEW env \in Environments, WF!Spawn(env) PROVE WireInv'
<1>1. Arrived BY PlaceIs, Zenon DEF WireInv, WF!Spawn
<1>2. wireAsked \in Configs /\ wireUsed = wireAsked /\ Running /\ answer = None /\ hops = <<"local">>
      /\ carried = Setup(wireAsked, WorkerVersion)
  BY <1>1, Zenon DEF Arrived, Running, Started, Serving, Asking
<1>3. PICK c : c = wireAsked OBVIOUS
<1>4. WF!read_worker_config(carried.config).nix_options = c.nix_options
  <2>1. c \in Configs /\ c.item_timeout_seconds # 0
    BY <1>2, <1>3, Zenon DEF Running, Started, WF!validate_config
  <2>2. WF!read_worker_config(WF!set_worker_config(WF!worker_config(c))) = WF!worker_config(c)
    BY <2>1, WorkerConfigReads
  <2>3. Setup(c, WorkerVersion).config = WF!set_worker_config(WF!worker_config(c))
    BY SetupReads
  <2>4. WF!worker_config(c).nix_options = c.nix_options BY WorkerOptions
  <2> QED BY ONLY <2>2, <2>3, <2>4, <1>2, <1>3, Zenon
<1>5. /\ client' = client /\ wireAsked' = wireAsked /\ answer' = answer /\ sessions' = sessions
      /\ wireUsed' = wireUsed /\ route' = route /\ hops' = hops
      /\ WF!validate_nix_option_part(c.nix_options) =>
           /\ settings' = Files(c.nix_options, env)
           /\ wireAt' = "setup" /\ carried' = carried
      /\ ~WF!validate_nix_option_part(c.nix_options) => wireAt' = "failed"
  BY <1>4, Zenon DEF WF!Spawn, WF!Go, WF!Fail, Files
<1>6. Keyed' BY <1>5, StaysKeyed
<1>7. CASE WF!validate_nix_option_part(c.nix_options)
  <2>1. Running' BY <1>2, <1>5, Zenon DEF Running, Started, Serving, Asking
  <2>2. Validated' BY <2>1, <1>3, <1>5, <1>7, Zenon DEF Validated
  <2>3. Spawned' BY <2>2, <1>2, <1>3, <1>5, <1>7, Zenon DEF Spawned
  <2> QED BY <2>3, <1>6, Zenon DEF WireInv, Somewhere
<1>8. CASE ~WF!validate_nix_option_part(c.nix_options)
  <2>1. Cause' BY <1>3, <1>5, <1>8, Zenon DEF Cause
  <2>2. Refused' BY <2>1, <1>2, <1>5, <1>8, Zenon DEF Refused
  <2> QED BY <2>2, <1>6, Zenon DEF WireInv, Somewhere
<1> QED BY <1>7, <1>8

(* The worker reads its configuration. *)
LEMMA WorkerSetupKeeps ==
  ASSUME WireInv, WF!WorkerSetup PROVE WireInv'
<1>1. Spawned
  <2>1. SentAway \/ Spawned BY PlaceIs, Zenon DEF WireInv, WF!WorkerSetup
  <2>2. hops = <<"local">> BY Zenon DEF WF!WorkerSetup
  <2>3. ASSUME SentAway PROVE FALSE
    <3>1. hops = <<"remote", "local">> BY <2>3, Zenon DEF SentAway, Remotely
    <3> QED BY ONLY <3>1, <2>2
  <2> QED BY <2>1, <2>3
<1>2. wireAsked \in Configs /\ wireUsed = wireAsked /\ Validated /\ answer = None
      /\ carried = Setup(wireAsked, WorkerVersion)
      /\ \E env \in Environments : settings = Files(wireAsked.nix_options, env)
  BY <1>1, Zenon DEF Spawned, Configured, Validated, SetupFits, Running, Started, Serving, Asking
<1>3. PICK c : c = wireAsked OBVIOUS
<1>4. WF!read_worker_config(carried.config) = WF!worker_config(c) /\ carried.protocolVersion = WorkerVersion
  <2>1. c \in Configs /\ c.item_timeout_seconds # 0
    BY <1>2, <1>3, Zenon DEF Configured, Validated, SetupFits, Running, Started, WF!validate_config
  <2>2. WF!read_worker_config(WF!set_worker_config(WF!worker_config(c))) = WF!worker_config(c)
    BY <2>1, WorkerConfigReads
  <2>3. Setup(c, WorkerVersion).config = WF!set_worker_config(WF!worker_config(c))
        /\ Setup(c, WorkerVersion).protocolVersion = WorkerVersion
    BY SetupReads
  <2> QED BY ONLY <2>2, <2>3, <1>2, <1>3, Zenon
<1>5. /\ client' = client /\ wireAsked' = wireAsked /\ answer' = answer /\ sessions' = sessions
      /\ wireUsed' = wireUsed /\ route' = route /\ hops' = hops /\ settings' = settings
      /\ Words[c] <= LocalLimit /\ ~WF!NixRefuses(c.nix_options) =>
           wireAt' = "worker" /\ carried' = WF!worker_config(c)
      /\ ~(Words[c] <= LocalLimit) \/ WF!NixRefuses(c.nix_options) => wireAt' = "failed"
  <2>1. WF!worker_config(c).nix_options = c.nix_options BY WorkerOptions
  <2>2. WF!Readable(wireUsed, "local") <=> Words[c] <= LocalLimit BY <1>2, <1>3 DEF WF!Readable
  <2> QED BY <1>4, <2>1, <2>2, Zenon DEF WF!WorkerSetup, WF!Go, WF!Fail, WF!validate_worker_protocol
<1>6. Keyed' BY <1>5, StaysKeyed
<1>7. Validated' BY <1>2, <1>5, Zenon DEF Validated, Running, Started, Serving, Asking
<1>8. (route = <<"local">> /\ Len(route) = 1) \/ (route = Remotely /\ Len(route) = 2 /\ Words[c] <= RemoteLimit)
  <2>1. route = <<"local">> \/ (route = Remotely /\ Words[c] <= RemoteLimit)
    BY <1>2, <1>3, Zenon DEF Validated, Running
  <2> QED BY <2>1, Lengths, Zenon
<1>9. route # <<>> BY ONLY <1>8 DEF Remotely
<1>10. CASE Words[c] <= LocalLimit /\ ~WF!NixRefuses(c.nix_options)
  <2>1. SetupFits'
    <3>1. Words[c] <= (IF Len(route) = 2 THEN RemoteLimit ELSE LocalLimit) BY ONLY <1>8, <1>10
    <3> QED BY <3>1, <1>3, <1>5, Zenon DEF SetupFits
  <2>2. Configured' BY <2>1, <1>3, <1>5, <1>7, <1>10, Zenon DEF Configured
  <2>3. Working' BY <2>2, <1>2, <1>3, <1>5, <1>10, Zenon DEF Working
  <2> QED BY <2>3, <1>6, Zenon DEF WireInv, Somewhere
<1>11. CASE ~(Words[c] <= LocalLimit) \/ WF!NixRefuses(c.nix_options)
  <2>1. ~(Words[c] <= LocalLimit) => Words[c] > (IF Len(route) = 2 THEN RemoteLimit ELSE LocalLimit)
    BY <1>2, <1>3, WireTypes
  <2>2. Cause' BY <2>1, <1>3, <1>5, <1>9, <1>11, Zenon DEF Cause
  <2>3. Refused' BY <2>2, <1>2, <1>5, <1>11, Zenon DEF Refused
  <2> QED BY <2>3, <1>6, Zenon DEF WireInv, Somewhere
<1> QED BY <1>10, <1>11

------------------------------------------------------------------------------
(* From the worker to the line. *)

(* It answers along the way the request came. *)
LEMMA EvaluateKeeps ==
  ASSUME WireInv, NEW e \in Answers, WF!Evaluate(e) PROVE WireInv'
<1>1. Working BY PlaceIs, Zenon DEF WireInv, WF!Evaluate
<1>2. /\ client' = client /\ wireAsked' = wireAsked /\ sessions' = sessions
      /\ wireUsed' = wireUsed /\ route' = route
      /\ answer' = e /\ hops' = WF!Reverse(route) /\ wireAt' = "event" /\ carried' = WF!set_event(e)
  BY Zenon DEF WF!Evaluate, WF!Go
<1>3. Configured' BY <1>1, <1>2, Zenon DEF Working, Configured, Validated, SetupFits, Running, Started, Serving, Asking
<1>4. route = <<"local">> \/ route = <<"remote", "local">>
  BY <1>1, Zenon DEF Working, Configured, Validated, SetupFits, Running, Remotely
<1>5. \/ hops' = <<"local">> /\ route' = <<"local">>
      \/ hops' = <<"local", "remote">> /\ route' = <<"remote", "local">>
  <2>1. CASE route = <<"local">>
    <3>1. WF!Reverse(<<"local">>) = <<"local">> BY DEF WF!Reverse
    <3> QED BY ONLY <2>1, <3>1, <1>2, Zenon
  <2>2. CASE route = <<"remote", "local">>
    <3>1. WF!Reverse(<<"remote", "local">>) = <<"local", "remote">> BY DEF WF!Reverse
    <3> QED BY ONLY <2>2, <3>1, <1>2, Zenon
  <2> QED BY <2>1, <2>2, <1>4
<1>6. Reporting' BY <1>2, <1>3, <1>5, Zenon DEF Reporting, Remotely
<1>7. Keyed' BY <1>2, StaysKeyed
<1> QED BY <1>6, <1>7, Zenon DEF WireInv, Somewhere

(* Each reader checks its limit and hands the event on. *)
LEMMA ReadEventKeeps ==
  ASSUME WireInv, WF!ReadEvent PROVE WireInv'
<1>1. Reporting BY PlaceIs, Zenon DEF WireInv, WF!ReadEvent
<1>2. wireUsed = wireAsked /\ Configured /\ answer \in Answers /\ carried = WF!set_event(answer)
  BY <1>1, Zenon DEF Reporting, Configured, Validated, SetupFits, Running, Started, Serving
<1>3. WF!read_event(carried) = answer
  <2>1. WF!IsEvent(answer) BY <1>2, WireTypes
  <2>2. WF!read_event(WF!set_event(answer)) = answer BY <2>1, EventReads
  <2> QED BY ONLY <2>2, <1>2, Zenon
<1>4. answer # None /\ Words[answer] \in Nat BY <1>2, WireTypes
<1> DEFINE Limit == IF Head(hops) = "remote" THEN RemoteLimit ELSE LocalLimit
<1>5. /\ client' = client /\ wireAsked' = wireAsked /\ answer' = answer /\ sessions' = sessions
      /\ wireUsed' = wireUsed /\ route' = route /\ hops' = Tail(hops)
      /\ ~(Words[answer] <= Limit) => wireAt' = "failed"
      /\ Words[answer] <= Limit /\ Len(hops) > 1 => wireAt' = "event" /\ carried' = WF!set_event(answer)
      /\ Words[answer] <= Limit /\ ~(Len(hops) > 1) => wireAt' = "found" /\ carried' = answer
  BY <1>3, Zenon DEF WF!ReadEvent, WF!Go, WF!Fail, WF!Readable
<1>6. Keyed' BY <1>5, StaysKeyed
<1>7. Configured' BY <1>2, <1>5, Zenon DEF Configured, Validated, SetupFits, Running, Started, Serving, Asking
<1>8. \/ hops = <<"local">> /\ route = <<"local">>
      \/ hops = <<"local", "remote">> /\ route = Remotely
      \/ hops = <<"remote">> /\ route = Remotely
  BY <1>1, Zenon DEF Reporting
<1>9. CASE ~(Words[answer] <= Limit)
  <2>1. Words[answer] > (IF Len(route) = 2 THEN RemoteLimit ELSE LocalLimit)
    <3>1. CASE hops = <<"local">> /\ route = <<"local">>
      <4>1. Len(route) = 1 /\ Head(hops) = "local" BY ONLY <3>1, Lengths
      <4> QED BY <4>1, <1>4, <1>9, WireTypes
    <3>2. CASE hops = <<"local", "remote">> /\ route = Remotely
      <4>1. Len(route) = 2 /\ Head(hops) = "local" BY ONLY <3>2, Lengths, Zenon
      <4> QED BY <4>1, <1>4, <1>9, WireTypes
    <3>3. CASE hops = <<"remote">> /\ route = Remotely
      <4>1. Len(route) = 2 /\ Head(hops) = "remote" BY ONLY <3>3, Lengths, Zenon
      <4> QED BY <4>1, <1>4, <1>9, WireTypes
    <3> QED BY <3>1, <3>2, <3>3, <1>8
  <2>4. route # <<>> BY ONLY <1>8 DEF Remotely
  <2>2. Cause' BY <2>1, <2>4, <1>4, <1>5, Zenon DEF Cause
  <2>3. Refused' BY <2>2, <1>2, <1>5, <1>9, Zenon DEF Refused
  <2> QED BY <2>3, <1>6, Zenon DEF WireInv, Somewhere
<1>10. CASE Words[answer] <= Limit
  <2>1. CASE hops = <<"local">> /\ route = <<"local">>
    <3>1. Len(route) = 1 /\ Head(hops) = "local" /\ ~(Len(hops) > 1) BY ONLY <2>1, Lengths
    <3>2. WithinLimit' BY <3>1, <1>5, <1>10 DEF WithinLimit
    <3>3. Found' BY <3>1, <3>2, <1>2, <1>5, <1>7, <1>10, Zenon DEF Found
    <3> QED BY <3>3, <1>6, Zenon DEF WireInv, Somewhere
  <2>2. CASE hops = <<"local", "remote">> /\ route = Remotely
    <3>1. Len(hops) > 1 /\ Tail(hops) = <<"remote">> BY ONLY <2>2, Lengths
    <3>2. Reporting' BY <3>1, <2>2, <1>2, <1>5, <1>7, <1>10, Zenon DEF Reporting
    <3> QED BY <3>2, <1>6, Zenon DEF WireInv, Somewhere
  <2>3. CASE hops = <<"remote">> /\ route = Remotely
    <3>1. Len(route) = 2 /\ Head(hops) = "remote" BY ONLY <2>3, Lengths, Zenon
    <3>2. ~(Len(hops) > 1) BY ONLY <2>3, Lengths
    <3>3. WithinLimit' BY <3>1, <1>5, <1>10, Zenon DEF WithinLimit
    <3>4. Found' BY <3>2, <3>3, <1>2, <1>5, <1>7, <1>10, Zenon DEF Found
    <3> QED BY <3>4, <1>6, Zenon DEF WireInv, Somewhere
  <2> QED BY <2>1, <2>2, <2>3, <1>8
<1> QED BY <1>9, <1>10

(* The daemon responds, a local evaluation prints. *)
LEMMA RespondKeeps ==
  ASSUME WireInv, WF!Respond PROVE WireInv'
<1>1. Found BY PlaceIs, Zenon DEF WireInv, WF!Respond
<1>2. carried = answer BY <1>1, Zenon DEF Found
<1>3. /\ client' = client /\ wireAsked' = wireAsked /\ answer' = answer /\ sessions' = sessions
      /\ wireUsed' = wireUsed /\ route' = route
      /\ client.daemon => wireAt' = "response" /\ carried' = WF!response_serialize(client.command, answer)
      /\ ~client.daemon => wireAt' = "line" /\ carried' = WF!event_value(answer)
  BY <1>2, Zenon DEF WF!Respond, WF!Go
<1>4. Configured' BY <1>1, <1>3, Zenon DEF Found, Configured, Validated, SetupFits, Running, Started, Serving, Asking
<1>5. answer' \in Answers /\ WithinLimit' BY <1>1, <1>3, Zenon DEF Found, WithinLimit
<1>6. Keyed' BY <1>3, StaysKeyed
<1>7. CASE client.daemon
  <2>1. Responded' BY <1>3, <1>4, <1>5, <1>7, Zenon DEF Responded
  <2> QED BY <2>1, <1>6, Zenon DEF WireInv, Somewhere
<1>8. CASE ~client.daemon
  <2>1. Printed' BY <1>3, <1>4, <1>5, <1>8, Zenon DEF Printed
  <2> QED BY <2>1, <1>6, Zenon DEF WireInv, Somewhere
<1> QED BY <1>7, <1>8

(* The client prints. *)
LEMMA PrintLineKeeps ==
  ASSUME WireInv, WF!PrintLine PROVE WireInv'
<1>1. Responded BY PlaceIs, Zenon DEF WireInv, WF!PrintLine
<1>2. /\ client' = client /\ wireAsked' = wireAsked /\ answer' = answer /\ sessions' = sessions
      /\ wireUsed' = wireUsed /\ route' = route
      /\ wireAt' = "line" /\ carried' = WF!response_line(carried)
  BY Zenon DEF WF!PrintLine, WF!Go
<1>3. Configured' BY <1>1, <1>2, Zenon DEF Responded, Configured, Validated, SetupFits, Running, Started, Serving, Asking
<1>4. answer' \in Answers /\ WithinLimit' BY <1>1, <1>2, Zenon DEF Responded, WithinLimit
<1>5. Keyed' BY <1>2, StaysKeyed
<1>6. Printed' BY <1>1, <1>2, <1>3, <1>4, Zenon DEF Responded, Printed
<1> QED BY <1>5, <1>6, Zenon DEF WireInv, Somewhere

(* The next request. *)
LEMMA AgainKeeps ==
  ASSUME WireInv, WF!Again PROVE WireInv'
<1>1. wireAt' = "idle" /\ route' = <<>> /\ answer' = None /\ wireUsed' = None /\ sessions' = sessions
  BY Zenon DEF WF!Again, WF!Go
<1>2. Idle' BY <1>1, Zenon DEF Idle
<1>3. Keyed' BY <1>1, StaysKeyed
<1> QED BY <1>2, <1>3, Zenon DEF WireInv, Somewhere

(* A step of nobody. *)
LEMMA WireStays ==
  ASSUME WireInv, UNCHANGED WF!vars PROVE WireInv'
<1>1. /\ wireAt' = wireAt /\ carried' = carried /\ hops' = hops /\ route' = route /\ wireAsked' = wireAsked
      /\ client' = client /\ answer' = answer /\ settings' = settings /\ sessions' = sessions
      /\ wireUsed' = wireUsed
  BY DEF WF!vars
<1>2. Keyed' BY <1>1, StaysKeyed
<1>3. Configured' <=> Configured
  BY <1>1, Zenon DEF Configured, Validated, SetupFits, Running, Started, Serving, Asking
<1>7. Validated' <=> Validated BY <1>1, Zenon DEF Validated, Running, Started, Serving, Asking
<1>4. CASE Idle \/ Requested \/ Served \/ SentAway \/ Arrived
  <2>1. (Idle \/ Requested \/ Served \/ SentAway \/ Arrived)'
    BY <1>1, <1>4, Zenon DEF Idle, Requested, Served, SentAway, Arrived, Running, Started, Serving, Asking
  <2> QED BY <2>1, <1>2, Zenon DEF WireInv, Somewhere
<1>5. CASE Spawned \/ Working \/ Reporting \/ Found \/ Responded \/ Printed
  <2>1. (Spawned \/ Working \/ Reporting \/ Found \/ Responded \/ Printed)'
    BY <1>1, <1>3, <1>5, <1>7, Zenon DEF Spawned, Working, Reporting, Found, Responded, Printed, WithinLimit
  <2> QED BY <2>1, <1>2, Zenon DEF WireInv, Somewhere
<1>6. CASE Refused
  <2>1. Refused' BY <1>1, <1>6, Zenon DEF Refused, Cause
  <2> QED BY <2>1, <1>2, Zenon DEF WireInv, Somewhere
<1> QED BY <1>4, <1>5, <1>6, Zenon DEF WireInv, Somewhere

(* Every step keeps the invariant. *)
LEMMA WireKeeps ==
  ASSUME WireInv, [WF!Next]_(WF!vars) PROVE WireInv'
<1>1. CASE UNCHANGED WF!vars BY <1>1, WireStays
<1>2. CASE WF!Next
  BY <1>2, AskKeeps, ReadRequestKeeps, StartWorkerKeeps, ServerSetupKeeps, SpawnKeeps, WorkerSetupKeeps,
     EvaluateKeeps, ReadEventKeeps, RespondKeeps, PrintLineKeeps, AgainKeeps DEF WF!Next
<1> QED BY <1>1, <1>2

------------------------------------------------------------------------------
(* What follows from it. *)

(* The worker sees the configuration. *)
LEMMA SeesConfig == WireInv => WF!WorkerSeesConfig
<1>1. SUFFICES ASSUME WireInv, wireAt = "worker",
                      NEW f \in DOMAIN carried \ {"locked_flake_json"}
               PROVE carried[f] = wireAsked[f]
  BY Zenon DEF WF!WorkerSeesConfig
<1>2. Working BY <1>1, PlaceIs, Zenon DEF WireInv
<1>3. PICK c : c = wireAsked OBVIOUS
<1>4. c \in Configs /\ carried = WF!worker_config(c)
  BY <1>2, <1>3, Zenon DEF Working, Configured, Validated, SetupFits, Running, Started, Serving, Asking
<1>5. c = [input |-> c.input, auto_args |-> c.auto_args, force_recurse |-> c.force_recurse,
            gc_roots_dir |-> c.gc_roots_dir, workers |-> c.workers,
            max_memory_size |-> c.max_memory_size, item_timeout_seconds |-> c.item_timeout_seconds,
            meta |-> c.meta, show_input_drvs |-> c.show_input_drvs,
            override_inputs |-> c.override_inputs, nix_options |-> c.nix_options,
            remotes |-> c.remotes]
  <2>1. WF!IsConfig(c) BY <1>4, WireTypes
  <2> QED BY <2>1, Zenon DEF WF!IsConfig
<1>6. PICK lock : carried = [input |-> c.input, auto_args |-> c.auto_args, force_recurse |-> c.force_recurse,
     gc_roots_dir |-> c.gc_roots_dir, max_memory_size |-> c.max_memory_size,
     item_timeout_seconds |-> c.item_timeout_seconds, meta |-> c.meta,
     show_input_drvs |-> c.show_input_drvs, override_inputs |-> c.override_inputs,
     nix_options |-> c.nix_options, locked_flake_json |-> lock]
  BY <1>4, Zenon DEF WF!worker_config
<1>7. f \in {"input", "auto_args", "force_recurse", "gc_roots_dir", "max_memory_size", "item_timeout_seconds",
             "meta", "show_input_drvs", "override_inputs", "nix_options"}
  BY ONLY <1>6, f \in DOMAIN carried \ {"locked_flake_json"}
<1>8. carried[f] = c[f] BY ONLY <1>6, <1>7
<1> QED BY ONLY <1>3, <1>8, Zenon

(* The options are in force. *)
LEMMA InForce == WireInv => WF!SettingsInForce
<1>1. SUFFICES ASSUME WireInv, wireAt = "worker" PROVE WF!SettingsInForce BY Zenon DEF WF!SettingsInForce
<1>2. Working BY <1>1, PlaceIs, Zenon DEF WireInv
<1>3. PICK options : options = wireAsked.nix_options OBVIOUS
<1>4. PICK env \in Environments : settings = Files(options, env) BY <1>2, <1>3, Zenon DEF Working
<1>5. settings.before = WF!NixFinds(env) /\ settings.files = WF!prepare_nix_options_env(options, env)
  BY <1>4 DEF Files
<1>6. PICK lines : lines = WF!options_file(options) OBVIOUS
<1>7. PICK n \in Nat : DOMAIN options = 1..n
  <2>1. wireAsked \in Configs
    BY <1>2, Zenon DEF Working, Configured, Validated, SetupFits, Running, Started, Serving, Asking
  <2>2. WF!IsConfig(wireAsked) BY <2>1, WireTypes
  <2>3. options \in Seq(WF!Range(options)) BY <1>3, <2>2, Zenon DEF WF!IsConfig
  <2> QED BY ONLY <2>3
<1>8. ASSUME NEW i \in DOMAIN options, WF!IsLast(i, lines, options[i][1]), options[i][2] \notin DOMAIN ValueAs
      PROVE WF!Effective(settings.files, options[i][1]) = options[i][2]
  <2>1. WF!Effective(WF!prepare_nix_options_env(options, env), options[i][1]) = WF!options_file(options)[i][2]
    <3>1. PICK key : key = options[i][1] OBVIOUS
    <3>2. WF!IsLast(i, WF!options_file(options), key) BY <1>6, <1>8, <3>1, Zenon
    <3>3. WF!Effective(WF!prepare_nix_options_env(options, env), key) = WF!options_file(options)[i][2]
      BY <1>4, <1>7, <3>2, LastOption
    <3> QED BY ONLY <3>1, <3>3, Zenon
  <2>2. WF!options_file(options)[i] = <<WF!NixKey(options[i][1]), WF!NixValue(options[i][2])>>
    BY <1>8, Zenon DEF WF!options_file
  <2>3. WF!options_file(options)[i][2] = WF!NixValue(options[i][2]) BY ONLY <2>2
  <2>4. WF!NixValue(options[i][2]) = options[i][2] BY <1>8, Zenon DEF WF!NixValue
  <2> QED BY ONLY <2>1, <2>3, <2>4, <1>5, Zenon
<1>9. ASSUME NEW f \in DOMAIN settings.before, NEW i \in DOMAIN settings.before[f],
             ~WF!Sets(lines, settings.before[f][i][1])
      PROVE WF!Effective(settings.files, settings.before[f][i][1])
              = WF!Effective(settings.before, settings.before[f][i][1])
  <2>1. PICK key : key = settings.before[f][i][1] OBVIOUS
  <2>2. f \in DOMAIN WF!NixFinds(env) /\ WF!Sets(WF!NixFinds(env)[f], key)
    <3>1. WF!Sets(settings.before[f], key) BY <1>9, <2>1, Zenon DEF WF!Sets
    <3> QED BY ONLY <3>1, <1>5, <1>9, Zenon
  <2>3. ~WF!Sets(WF!options_file(options), key) BY ONLY <1>6, <1>9, <2>1, Zenon
  <2>4. WF!Effective(WF!prepare_nix_options_env(options, env), key) = WF!Effective(WF!NixFinds(env), key)
    BY <1>4, <2>2, <2>3, OthersStay
  <2> QED BY ONLY <2>1, <2>4, <1>5, Zenon
<1> QED BY <1>3, <1>6, <1>8, <1>9, Zenon DEF WF!SettingsInForce

(* The session is the right one. *)
LEMMA SessionIs == WireInv => WF!SessionMatches
<1>1. SUFFICES ASSUME WireInv, wireUsed # None PROVE wireUsed = wireAsked BY Zenon DEF WF!SessionMatches
<1>2. CASE Idle \/ Requested BY <1>1, <1>2, Zenon DEF Idle, Requested
<1>3. CASE Served \/ SentAway \/ Arrived
  BY <1>3, Zenon DEF Served, SentAway, Arrived, Running, Started, Serving
<1>4. CASE Spawned \/ Working \/ Reporting \/ Found \/ Responded \/ Printed
  BY <1>4, Zenon DEF Spawned, Working, Reporting, Found, Responded, Printed, Configured, Validated, SetupFits, Running, Started, Serving
<1>5. CASE Refused BY <1>1, <1>5, Zenon DEF Refused
<1> QED BY <1>1, <1>2, <1>3, <1>4, <1>5, Zenon DEF WireInv, Somewhere

(* The line says what was found. *)
LEMMA LineSays == WireInv => WF!LineSurvives
<1>1. SUFFICES ASSUME WireInv, wireAt = "line",
                      answer.kind = "derivation" /\ client.daemon => answer.meta # Null
               PROVE IF client.command = "eval" THEN WF!parse_event_value(carried) = answer
                     ELSE carried = WF!diff_value(WF!DiffOf(answer))
  BY Zenon DEF WF!LineSurvives
<1>2. Printed BY <1>1, PlaceIs, Zenon DEF WireInv
<1>3. WF!IsEvent(answer)
  <2>1. answer \in Answers BY <1>2, Zenon DEF Printed
  <2> QED BY <2>1, WireTypes
<1>4. WF!parse_event_value(WF!event_value(answer)) = answer BY <1>3, LineReads
<1>5. client.command \in {"eval", "diff"} /\ (client.daemon \/ client.command = "eval")
  BY <1>2, Zenon DEF Printed, Configured, Validated, SetupFits, Running, Started, Serving, Asking
<1>6. CASE ~client.daemon
  <2>1. carried = WF!event_value(answer) /\ client.command = "eval" BY <1>2, <1>5, <1>6, Zenon DEF Printed
  <2> QED BY ONLY <2>1, <1>4, Zenon
<1>7. CASE client.daemon
  <2>1. carried = WF!response_line(WF!response_serialize(client.command, answer)) BY <1>2, <1>7, Zenon DEF Printed
  <2>2. answer.kind = "derivation" => answer.meta # Null BY <1>1, <1>7
  <2>3. CASE client.command = "eval"
    <3>1. WF!response_line(WF!response_serialize("eval", answer)) = WF!event_value(answer)
      BY <1>3, <2>2, EvalReads
    <3> QED BY ONLY <3>1, <2>1, <2>3, <1>4, Zenon
  <2>4. CASE client.command = "diff"
    <3>1. WF!response_line(WF!response_serialize("diff", answer)) = WF!diff_value(WF!DiffOf(answer))
      BY <1>3, <2>2, DiffReads
    <3>2. client.command # "eval" BY ONLY <2>4
    <3> QED BY ONLY <3>1, <3>2, <2>1, <2>4, Zenon
  <2> QED BY <2>3, <2>4, <1>5
<1> QED BY <1>6, <1>7

(* A request fails only for a cause, and always then. *)
LEMMA ForCause == WireInv => WF!RefusedForCause
<1>1. ASSUME WireInv, wireAt = "failed" PROVE Cause BY <1>1, PlaceIs, Zenon DEF WireInv, Refused
<1>2. ASSUME WireInv, wireAt = "line"
      PROVE /\ Writable(wireAsked) /\ Staffed(wireAsked)
            /\ WF!validate_nix_option_part(wireAsked.nix_options) /\ ~WF!NixRefuses(wireAsked.nix_options)
            /\ ~(Words[wireAsked] > (IF Len(route) = 2 THEN RemoteLimit ELSE LocalLimit))
            /\ client.command = "diff" => Opened(sessions, wireAsked)
            /\ ~(answer # None /\ Words[answer] > (IF Len(route) = 2 THEN RemoteLimit ELSE LocalLimit))
            /\ wireAsked.item_timeout_seconds # 0
            /\ client.version = DaemonVersion /\ client.master = WorkerVersion
            /\ Len(route) = 2 => \A i \in DOMAIN wireAsked.nix_options : wireAsked.nix_options[i][1] \in RemoteOptions
  <2>1. Printed BY <1>2, PlaceIs, Zenon DEF WireInv
  <2>2. WithinLimit /\ answer \in Answers /\ Configured BY <2>1, Zenon DEF Printed
  <2>3. ~(Words[answer] > (IF Len(route) = 2 THEN RemoteLimit ELSE LocalLimit))
    BY <2>2, WireTypes DEF WithinLimit
  <2>6. ~(Words[wireAsked] > (IF Len(route) = 2 THEN RemoteLimit ELSE LocalLimit))
    <3>1. SetupFits /\ wireAsked \in Configs
      BY <2>2, Zenon DEF Configured, Validated, Running, Started, Serving, Asking
    <3> QED BY <3>1, WireTypes DEF SetupFits
  <2>4. Len(route) = 2 => route = Remotely
    <3>1. route = <<"local">> \/ route = Remotely BY <2>2, Zenon DEF Configured, Validated, Running
    <3>2. route = <<"local">> => Len(route) = 1 BY ONLY Lengths, Zenon
    <3> QED BY <3>1, <3>2
  <2>5. WF!validate_config(wireAsked) /\ Writable(wireAsked) BY <2>2, Zenon DEF Configured, Validated, SetupFits, Running, Started
  <2> QED BY <2>2, <2>3, <2>4, <2>5, <2>6, Zenon
           DEF Configured, Validated, SetupFits, Running, Started, Serving, WF!validate_config, Staffed
<1>3. WF!Evaluated(wireAsked) <=> Opened(sessions, wireAsked) BY Zenon DEF WF!Evaluated, Opened
<1> QED BY <1>1, <1>2, <1>3, Zenon DEF WF!RefusedForCause, Cause, Writable, Staffed

(* A step of the wire is one of WireFormat. *)
LEMMA WireStep ==
  ASSUME [Next]_vars, part = "wire"
  PROVE [WF!Next]_(WF!vars)
<1>1. CASE UNCHANGED vars BY <1>1 DEF vars, WireVars, WF!vars
<1>2. CASE CarryMessages BY <1>2, Zenon DEF CarryMessages
<1>4. CASE EvaluateAttributes \/ NameDirectory \/ LockFlake \/ KeepGraph \/ MatchPattern
  <2>1. part # "wire"
    BY <1>4 DEF EvaluateAttributes, NameDirectory, LockFlake, KeepGraph, MatchPattern
  <2> QED BY <2>1
<1> QED BY <1>1, <1>2, <1>4, Zenon DEF Next

------------------------------------------------------------------------------
(* The theorems about queries, flakes, directories and attributes. *)

(* The invariant of the warm graph gives its properties. *)
LEMMA WarmMeans ==
  ASSUME WarmInv
  PROVE WG!TypeOK /\ WG!MirrorBuilds /\ WG!LastReportWins /\ WG!QueryMeansUnion
        /\ WG!PrefixMeant /\ WG!FieldsIntersect
<1>1. WG!TypeOK
  <2>1. \A g \in {warm, acc} :
          g \subseteq WG!Derivations /\ \A d \in g : WG!Get(g, d.attr_path) = {d}
    BY OneIsGet DEF WarmInv
  <2>2. errors \in 0..MaxEvents /\ evals \in 0..MaxEvals BY WarmTypes DEF WarmInv
  <2>3. recorded \in Seq(WG!Derivations) /\ Len(recorded) <= MaxEvents
    BY WarmTypes DEF WarmInv
  <2> QED BY <2>1, <2>2, <2>3, Zenon DEF WG!TypeOK, WarmInv
<1>2. WG!MirrorBuilds BY OneIsGet, Zenon DEF WarmInv, WG!MirrorBuilds
<1>3. WG!QueryMeansUnion
  <2>1. ASSUME NEW systems \in SUBSET Systems, NEW prefixes \in {q \in SUBSET AttrPrefixes : WG!IsFiniteSet(q)}
        PROVE WG!query(WG!cli_filter(systems, prefixes)) =
            {d \in warm : /\ systems = {} \/ d.system \in systems
                          /\ prefixes = {} \/ \E p \in prefixes :
                                               WG!Under(d.attr_path, WG!split_attr_prefix(p))}
    <3>1. prefixes \in SUBSET AttrPrefixes /\ IsFiniteSet(prefixes) BY WarmCardinality
    <3> QED BY <3>1, QuerySelects
  <2> QED BY <2>1, Zenon DEF WG!QueryMeansUnion
<1>4. WG!PrefixMeant BY PrefixTaken, Zenon DEF WG!PrefixMeant
<1>5. WG!FieldsIntersect BY FieldsMeet, Zenon DEF WG!FieldsIntersect
<1> QED BY <1>1, <1>2, <1>3, <1>4, <1>5 DEF WarmInv

Letters == Characters \union {"*", "?"}

WordsInv == pattern \in Seq(Letters) /\ value \in Seq(Letters)

(* Pattern and value are words at first ... *)
LEMMA WordsStart == PA!Init => WordsInv
  BY DEF PA!Init, WordsInv

(* ... and stay words. *)
LEMMA WordsKeep ==
  ASSUME WordsInv, [PA!Next]_(PA!vars) PROVE WordsInv'
<1>1. CASE UNCHANGED PA!vars BY <1>1 DEF PA!vars, WordsInv
<1>2. ASSUME NEW c \in Characters \union {"*", "?"}, PA!GrowPattern(c) PROVE WordsInv'
  <2>1. c \in Letters BY Zenon DEF Letters
  <2>2. pattern' = Append(pattern, c) /\ value' = value BY <1>2, Zenon DEF PA!GrowPattern
  <2> QED BY <2>1, <2>2 DEF WordsInv
<1>3. ASSUME NEW c \in Characters, PA!GrowValue(c) PROVE WordsInv'
  <2>1. c \in Letters BY Zenon DEF Letters
  <2>2. value' = Append(value, c) /\ pattern' = pattern BY <1>3, Zenon DEF PA!GrowValue
  <2> QED BY <2>1, <2>2 DEF WordsInv
<1> QED BY <1>1, <1>2, <1>3 DEF PA!Next

(* Steps of the warm graph and of patterns. *)
LEMMA GraphStep ==
  ASSUME [Next]_vars
  PROVE /\ part = "warm graph" => [WG!Next]_(WG!vars)
        /\ part = "pattern" => [PA!Next]_(PA!vars)
<1>1. CASE UNCHANGED vars BY <1>1 DEF vars, WarmVars, PatternVars, WG!vars, PA!vars
<1>2. CASE KeepGraph
  <2>1. part = "warm graph" /\ WG!Next BY <1>2, Zenon DEF KeepGraph
  <2> QED BY <2>1
<1>3. CASE MatchPattern
  <2>1. part = "pattern" /\ PA!Next BY <1>3, Zenon DEF MatchPattern
  <2> QED BY <2>1
<1>4. CASE EvaluateAttributes \/ NameDirectory \/ LockFlake \/ CarryMessages
  <2>1. part \in {"attributes", "roots directory", "flake", "wire"}
    BY <1>4 DEF EvaluateAttributes, NameDirectory, LockFlake, CarryMessages
  <2> QED BY <2>1
<1> QED BY <1>1, <1>2, <1>3, <1>4, Zenon DEF Next

(* For every stream of events: whoever applies all diffs of diff_once has the
   builds of the warm graph, which has the last report of each path, and a query
   answers with what its systems and prefixes name. *)
THEOREM GraphIsMeant == Spec => []GraphMeans
<1> DEFINE I == /\ part = "warm graph" => WarmInv
                /\ part = "pattern" => WordsInv
<1>1. Init => I
  BY WarmStart, WordsStart DEF Init
<1>2. I /\ [Next]_vars => I'
  BY PartStays, GraphStep, WarmKeeps, WordsKeep, Zenon
<1>3. I => GraphMeans
  <2>1. WordsInv => PA!WildcardMeaning
    <3>1. SUFFICES ASSUME WordsInv PROVE PA!WildcardMeaning OBVIOUS
    <3>2. Len(pattern) \in Nat /\ Len(value) \in Nat BY <3>1 DEF WordsInv
    <3>3. PA!wildcard_matches(pattern, value) = PA!Means(pattern, value) BY <3>2, WildcardMeans
    <3> QED BY <3>3, Zenon DEF PA!WildcardMeaning
  <2> QED BY <2>1, WarmMeans, Zenon DEF GraphMeans
<1> HIDE DEF I
<1> QED BY <1>1, <1>2, <1>3, PTL DEF Spec

(* A step of the flake is one of FlakeInputs. *)
LEMMA FlakeStep ==
  ASSUME [Next]_vars, part = "flake"
  PROVE [FI!Next]_(FI!vars)
<1>1. CASE UNCHANGED vars BY <1>1 DEF vars, FlakeVars, FI!vars
<1>2. CASE LockFlake BY <1>2, Zenon DEF LockFlake
<1>4. CASE EvaluateAttributes \/ NameDirectory \/ CarryMessages \/ KeepGraph \/ MatchPattern
  <2>1. part # "flake"
    BY <1>4 DEF EvaluateAttributes, NameDirectory, CarryMessages, KeepGraph, MatchPattern
  <2> QED BY <2>1
<1> QED BY <1>1, <1>2, <1>4, Zenon DEF Next

(* For every input: all workers of a run, restarted ones too, import the one
   graph that prepare_input locked, and may read every node of it. *)
THEOREM OneGraphPerRun == Spec => [](part = "flake" => FI!WorkersAgree /\ FI!NodesReadable)
<1> DEFINE I == part = "flake" => RunInv
<1>1. Init => I BY RunStart DEF Init
<1>2. I /\ [Next]_vars => I' BY PartStays, FlakeStep, RunKeeps, Zenon
<1>3. I => (part = "flake" => FI!WorkersAgree /\ FI!NodesReadable) BY RunAgrees
<1> HIDE DEF I
<1> QED BY <1>1, <1>2, <1>3, PTL DEF Spec

(* For the references that are read alike everywhere: what is evaluated and
   watched is what the user means, in the client and in the daemon. *)
THEOREM InputIsTheOneMeant ==
  ASSUME Inputs \subseteq FI!UsualInputs
  PROVE Spec => []InputAgrees
<1> DEFINE I == part = "flake" => RunInv /\ MeantInv
<1>1. Init => I BY RunStart, MeantStart DEF Init
<1>2. I /\ [Next]_vars => I' BY PartStays, FlakeStep, RunKeeps, MeantKeeps, Zenon
<1>3. I => InputAgrees BY MeantAgrees DEF InputAgrees
<1> HIDE DEF I
<1> QED BY <1>1, <1>2, <1>3, PTL DEF Spec

(* For every value that is no function, with any cycles, any number of workers
   and any limits: process_attr reaches every attribute once, and reports its
   outputs and its meta.  A root that is a function is called for the empty
   path only, so that nothing is found under it. *)
THEOREM AttributesAreRight ==
  ASSUME Kind[Root] # "function" PROVE Spec => []AttributesRight
<1> DEFINE I == part = "attributes" => RootsInv /\ WorkInv
<1>1. Init => I
  <2>1. SUFFICES ASSUME Init, part = "attributes" PROVE RootsInv /\ WorkInv OBVIOUS
  <2>2. AE!Init BY <2>1 DEF Init
  <2> QED BY <2>2, RootsStart, WorkStart
<1>2. I /\ [Next]_vars => I'
  <2>1. SUFFICES ASSUME I, [Next]_vars, part' = "attributes" PROVE (RootsInv /\ WorkInv)' OBVIOUS
  <2>2. part = "attributes" BY <2>1, PartStays
  <2>3. [AE!Next]_(AE!vars) BY <2>1, <2>2, AttributeStep
  <2>4. CASE AE!Next
    <3>1. RootsInv' BY <2>1, <2>2, <2>4, RootsKeep
    <3>2. WorkInv' BY <2>1, <2>2, <2>4, WorkKeep
    <3> QED BY <3>1, <3>2
  <2>5. CASE UNCHANGED AE!vars
    <3>1. RootsInv' BY <2>1, <2>2, <2>5, RootsStay
    <3>2. WorkInv' BY <2>1, <2>2, <2>5, WorkStay
    <3> QED BY <3>1, <3>2
  <2> QED BY <2>3, <2>4, <2>5
<1>3. I => AttributesRight
  BY WorkTyped, WorkExhaustive, WorkBounded, OutputsRight, MetaKept, Zenon DEF AttributesRight
<1> QED BY <1>1, <1>2, <1>3, PTL DEF Spec

(* For every value and any number of workers: what is reported without
   gcRootError has its link, and the directory made for the links is the one
   that was named. *)
THEOREM RootsAreKept == Spec => []RootsKept
<1> DEFINE I == (part = "attributes" => RootsInv) /\ (part = "roots directory" => DirectoryInv)
<1>1. Init => I
  <2>1. SUFFICES ASSUME Init PROVE I OBVIOUS
  <2>2. part = "attributes" => AE!Init BY <2>1 DEF Init
  <2>3. part = "roots directory" => GC!Init BY <2>1 DEF Init
  <2> QED BY <2>2, <2>3, RootsStart, DirectoryStart
<1>2. I /\ [Next]_vars => I'
  <2>1. SUFFICES ASSUME I, [Next]_vars PROVE I' OBVIOUS
  <2>2. part' = part BY <2>1, PartStays
  <2>3. CASE part = "attributes"
    <3>1. [AE!Next]_(AE!vars) BY <2>1, <2>3, AttributeStep
    <3>2. RootsInv' BY <2>1, <2>3, <3>1, RootsKeep, RootsStay
    <3> QED BY <2>2, <2>3, <3>2
  <2>4. CASE part = "roots directory"
    <3>1. [GC!Next]_(GC!vars) BY <2>1, <2>4, DirectoryStep
    <3>2. DirectoryInv' BY <2>1, <2>4, <3>1, DirectoryKeeps
    <3> QED BY <2>2, <2>4, <3>2
  <2> QED BY <2>2, <2>3, <2>4
<1>3. I => RootsKept
  <2>1. RootsInv => AE!RootsRegistered BY DEF RootsInv
  <2> QED BY <2>1, DirectoryMade, Zenon DEF RootsKept
<1> QED BY <1>1, <1>2, <1>3, PTL DEF Spec

(* For every configuration, answer and protocol version, through a daemon and a
   remote server or not, with any fields left out: the worker evaluates what was
   asked, the line says what it found, and only what must be refused is. *)
THEOREM WireIsFaithful == Spec => []WireFaithful
<1> DEFINE I == part = "wire" => WireInv
<1>1. Init => I BY WireStart DEF Init
<1>2. I /\ [Next]_vars => I' BY PartStays, WireStep, WireKeeps, Zenon
<1>3. I => WireFaithful
  BY SeesConfig, InForce, SessionIs, LineSays, ForCause, Zenon DEF WireFaithful
<1> HIDE DEF I
<1> QED BY <1>1, <1>2, <1>3, PTL DEF Spec

==============================================================================

-------------------------- MODULE SdeRmSearchProofs --------------------------
(***************************************************************************)
(* Proofs about the search of SdeRm for mixers and compression blocks, for *)
(* every number asked for and every list of blocks: what a search finds    *)
(* and, for blocks in pairs, that it finds as many again as long as those  *)
(* it found stay free.                                                     *)
(***************************************************************************)
EXTENDS SdeRm, SequenceTheorems, FiniteSetTheorems, TLAPS

\* A set of ids that is not empty has a least one.
LEMMA Least ==
    ASSUME NEW S, S \subseteq Nat, S # {}
    PROVE  \E n \in S : \A m \in S : n <= m
<1>1. PICK n \in S : \A m \in S : <<m, n>> \notin OpToRel(<, Nat)
  BY NatLessThanWellFounded, WFMin
<1>2. ASSUME NEW m \in S PROVE n <= m
  <2>1. m \in Nat /\ n \in Nat /\ <<m, n>> \in Nat \X Nat
    OBVIOUS
  <2>2. <<m, n>> \notin OpToRel(<, Nat)
    BY <1>1
  <2>3. ~(m < n)
    BY <2>1, <2>2, Zenon DEF OpToRel
  <2> QED
    BY <2>1, <2>3
<1> QED
  BY <1>2

\* The first block of a list that is not empty is on the list.
LEMMA MinIn ==
    ASSUME NEW S, S \subseteq Nat, S # {}
    PROVE  Min(S) \in S
BY Least, Zenon DEF Min

\* The ids a search may find.
Ids(fits) == {c[2] : c \in fits}

-----------------------------------------------------------------------------
(* One round.                                                              *)

\* the parts of Round, s being what was found before it
Left(s, pin, k, x) == /\ x \notin Range(s.got)
                      /\ pin.on => k \in DOMAIN pin.ids /\ pin.ids[k] = x
Peers(s, fits, pairs, pin, c) ==
    {y \in pairs[c[2]] \ {c[2]} : <<c[1], y>> \in fits /\ Left(s, pin, Len(s.got) + 2, y)}
Past(c, s) == c[1] > s.pass \/ (c[1] = s.pass /\ c[2] > s.at)
Ahead(s, num, fits, pairs, pin) ==
    {c \in fits : /\ Past(c, s)
                  /\ Left(s, pin, Len(s.got) + 1, c[2])
                  /\ Len(s.got) + 1 = num \/ Peers(s, fits, pairs, pin, c) # {}}

\* c comes no later than d
NotAfter(c, d) == c[1] < d[1] \/ (c[1] = d[1] /\ c[2] <= d[2])

\* there is no further round
Stuck(s, num, fits, pairs, pin) == Len(s.got) >= num \/ Ahead(s, num, fits, pairs, pin) = {}

\* a round takes c, the first block ahead, and its peer y if two are missing
TakesLast(s, t, num, c) == Len(s.got) + 1 = num /\ t.got = s.got \o <<c[2]>>
TakesPair(s, t, num, c, y) == Len(s.got) + 1 # num /\ t.got = s.got \o <<c[2], y>>
Takes(s, t, num, fits, pairs, pin, c) ==
    /\ ~(Len(s.got) >= num)
    /\ c \in Ahead(s, num, fits, pairs, pin)
    /\ \A d \in Ahead(s, num, fits, pairs, pin) : NotAfter(c, d)
    /\ t.pass = c[1] /\ t.at = c[2]
    /\ \/ TakesLast(s, t, num, c)
       \/ \E y \in Peers(s, fits, pairs, pin, c) : TakesPair(s, t, num, c, y)

\* One round finds nothing, or takes the first block ahead and, if two or more
\* are missing, one of its peers.
LEMMA RoundTakes ==
    ASSUME NEW num \in Nat, NEW I, I \subseteq Nat, NEW fits, fits \subseteq Nat \X I,
           NEW pairs, \A x \in I : pairs[x] \subseteq I, NEW pin, NEW s
    PROVE  LET t == Round(s, num, fits, pairs, pin)
           IN  \/ Stuck(s, num, fits, pairs, pin) /\ t = s
               \/ \E c \in fits : Takes(s, t, num, fits, pairs, pin, c)
<1> DEFINE t == Round(s, num, fits, pairs, pin)
           n == Len(s.got)
           A == Ahead(s, num, fits, pairs, pin)
           First(S) == CHOOSE c \in S : \A d \in S :
                           c[1] < d[1] \/ (c[1] = d[1] /\ c[2] <= d[2])
           Take(c) == [got  |-> s.got \o (IF n + 1 = num THEN <<c[2]>>
                                          ELSE <<c[2], Min(Peers(s, fits, pairs, pin, c))>>),
                       pass |-> c[1], at |-> c[2]]
<1>1. t = IF n >= num \/ A = {} THEN s ELSE Take(First(A))
  BY Zenon DEF Round, Ahead, Past, Peers, Left
<1>2. CASE n >= num \/ A = {}
  BY <1>1, <1>2 DEF Stuck
<1>3. CASE ~(n >= num \/ A = {})
  <2>0. \A c \in A : c \in fits /\ c \in Nat \X I
    BY DEF Ahead
  <2>1. \E c \in A : \A d \in A : NotAfter(c, d)
    <3> HIDE DEF A
    <3> DEFINE P == {c[1] : c \in A}
    <3>1. P # {} /\ P \subseteq Nat
      BY <1>3, <2>0
    <3>2. PICK p \in P : \A m \in P : p <= m
      BY <3>1, Least
    <3> DEFINE Q == {c[2] : c \in {d \in A : d[1] = p}}
    <3>3. Q # {} /\ Q \subseteq Nat
      BY <2>0, <3>2
    <3>4. PICK q \in Q : \A m \in Q : q <= m
      BY <3>3, Least
    <3>5. PICK c \in A : c[1] = p /\ c[2] = q
      BY <3>4
    <3>6. ASSUME NEW d \in A PROVE NotAfter(c, d)
      <4>1. d[1] \in Nat /\ c[1] \in Nat /\ c[1] <= d[1]
        BY <2>0, <3>2, <3>5
      <4>2. CASE d[1] = p
        <5>1. d[2] \in Q
          BY <4>2
        <5> QED
          BY <3>4, <3>5, <4>2, <5>1 DEF NotAfter
      <4> QED
        BY <3>5, <4>1, <4>2 DEF NotAfter
    <3> QED
      BY <3>6
  <2>2. First(A) \in A /\ \A d \in A : NotAfter(First(A), d)
    <3> HIDE DEF A
    <3> QED
      BY <2>1, Zenon DEF NotAfter
  <2>3. PICK c \in A : c = First(A)
    BY <2>2
  <2>4. t = Take(c)
    BY <1>1, <1>3, <2>3, Zenon
  <2>5. t.pass = c[1] /\ t.at = c[2]
    BY <2>4
  <2>6. CASE n + 1 = num
    <3>1. t.got = s.got \o <<c[2]>>
      BY <2>4, <2>6
    <3> QED
      BY <1>3, <2>0, <2>2, <2>3, <2>5, <2>6, <3>1, Zenon DEF Takes, TakesLast, Stuck
  <2>7. CASE n + 1 # num
    <3> DEFINE Y == Peers(s, fits, pairs, pin, c)
    <3>1. Y # {}
      BY <2>7 DEF Ahead
    <3>2. Y \subseteq Nat
      BY <2>0 DEF Peers
    <3>3. Min(Y) \in Y
      BY <3>1, <3>2, MinIn
    <3>4. t.got = s.got \o <<c[2], Min(Y)>>
      BY <2>4, <2>7
    <3>5. \E y \in Y : TakesPair(s, t, num, c, y)
      <4> HIDE DEF Y, t
      <4> QED
        BY <2>7, <3>3, <3>4, Zenon DEF TakesPair
    <3> QED
      BY <1>3, <2>0, <2>2, <2>3, <2>5, <3>5, Zenon DEF Takes
  <2> QED
    BY <2>6, <2>7
<1> QED
  BY <1>2, <1>3

-----------------------------------------------------------------------------
(* All rounds.                                                             *)

\* what is known before the first round
Nothing == [got |-> <<>>, pass |-> 1, at |-> 0]

\* The rounds of a search follow each other, however many blocks it looks for.
LEMMA RoundsDefined ==
    ASSUME NEW num \in Nat, NEW fits, NEW pairs, NEW pin
    PROVE  Rounds(num, fits, pairs, pin) =
             [i \in 0 .. num |-> IF i = 0 THEN Nothing
                                 ELSE Round(Rounds(num, fits, pairs, pin)[i - 1],
                                            num, fits, pairs, pin)]
<1> DEFINE step(x) == Round(x, num, fits, pairs, pin)
           Defines(f, m) == f = [i \in 0 .. m |-> IF i = 0 THEN Nothing ELSE step(f[i - 1])]
           Bad == {m \in Nat : ~\E f : Defines(f, m)}
<1>1. Bad = {}
  <2> SUFFICES ASSUME Bad # {} PROVE FALSE
    OBVIOUS
  <2>1. PICK m \in Bad : \A k \in Bad : m <= k
    <3>1. Bad \subseteq Nat
      OBVIOUS
    <3> HIDE DEF Bad
    <3> QED
      BY <3>1, Least
  <2>2. m # 0
    <3>1. Defines([i \in 0 .. 0 |-> Nothing], 0)
      <4>1. \A i \in 0 .. 0 : i = 0
        OBVIOUS
      <4> QED
        BY <4>1, Zenon
    <3> QED
      BY <3>1
  <2>3. m \in Nat /\ m - 1 \in Nat /\ m - 1 \notin Bad
    <3>1. m \in Nat
      BY <2>1
    <3> HIDE DEF Bad
    <3> QED
      BY <2>1, <2>2, <3>1
  <2>4. PICK f : Defines(f, m - 1)
    BY <2>3
  <2> DEFINE g == [i \in 0 .. m |-> IF i = m THEN step(f[m - 1]) ELSE f[i]]
  <2>5. Defines(g, m)
    <3> HIDE DEF step
    <3>1. \A i \in 0 .. m - 1 : f[i] = IF i = 0 THEN Nothing ELSE step(f[i - 1])
      BY <2>4
    <3>2. \A i \in 0 .. m - 1 : i \in 0 .. m /\ i # m /\ (i # 0 => i - 1 \in 0 .. m - 1)
      BY <2>3
    <3>3. \A i \in 0 .. m - 1 : g[i] = f[i]
      BY <3>2
    <3>4. \A i \in 0 .. m : i = m \/ i \in 0 .. m - 1
      BY <2>3
    <3>5. m \in 0 .. m /\ m - 1 \in 0 .. m - 1
      BY <2>3
    <3>6. ASSUME NEW i \in 0 .. m PROVE g[i] = IF i = 0 THEN Nothing ELSE step(g[i - 1])
      <4>1. CASE i = m
        BY <2>2, <3>3, <3>5, <4>1
      <4>2. CASE i \in 0 .. m - 1
        <5>1. CASE i = 0
          BY <3>1, <3>3, <4>2, <5>1
        <5>2. CASE i # 0
          BY <3>1, <3>2, <3>3, <4>2, <5>2
        <5> QED
          BY <5>1, <5>2
      <4> QED
        BY <3>4, <4>1, <4>2
    <3> QED
      BY <3>6, Zenon
  <2> QED
    BY <2>1, <2>5
<1>2. PICK f : Defines(f, num)
  BY <1>1
<1> QED
  BY <1>2, Zenon DEF Rounds, Nothing

\* Each round starts from what the one before it found.
LEMMA RoundsFollow ==
    ASSUME NEW num \in Nat, NEW fits, NEW pairs, NEW pin
    PROVE  LET after == Rounds(num, fits, pairs, pin)
           IN  /\ after[0] = Nothing
               /\ \A i \in 1 .. num : after[i] = Round(after[i - 1], num, fits, pairs, pin)
<1> DEFINE after == Rounds(num, fits, pairs, pin)
           h == [i \in 0 .. num |-> IF i = 0 THEN Nothing
                                    ELSE Round(after[i - 1], num, fits, pairs, pin)]
<1>1. after = h
  BY RoundsDefined
<1>2. h[0] = Nothing /\ \A i \in 1 .. num : h[i] = Round(after[i - 1], num, fits, pairs, pin)
  <2>1. 0 \in 0 .. num /\ \A i \in 1 .. num : i \in 0 .. num /\ i # 0
    OBVIOUS
  <2> HIDE DEF after
  <2> QED
    BY <2>1
<1> HIDE DEF after, h
<1> QED
  BY <1>1, <1>2 DEF after

\* What holds at first and is kept by each round holds at the end.
LEMMA RoundsInduct ==
    ASSUME NEW num \in Nat, NEW J, 0 \in J, \A i \in 1 .. num : i - 1 \in J => i \in J
    PROVE  \A i \in 0 .. num : i \in J
<1> DEFINE Bad == {i \in 0 .. num : i \notin J}
<1> SUFFICES ASSUME Bad # {} PROVE FALSE
  OBVIOUS
<1>1. PICK m \in Bad : \A k \in Bad : m <= k
  <2>1. Bad \subseteq Nat
    OBVIOUS
  <2> HIDE DEF Bad
  <2> QED
    BY <2>1, Least
<1>2. m \in 1 .. num /\ m - 1 \in 0 .. num
  <2>1. m \in 0 .. num /\ m # 0
    OBVIOUS
  <2> QED
    BY <2>1
<1>3. m - 1 \notin Bad
  <2>1. m \in Nat
    BY <1>2
  <2> HIDE DEF Bad
  <2> QED
    BY <1>1, <2>1
<1> QED
  BY <1>2, <1>3

-----------------------------------------------------------------------------
(* What a search finds.                                                    *)

\* What was found grows at its end.
LEMMA Grows ==
    ASSUME NEW S, NEW got \in Seq(S), NEW u \in Seq(S)
    PROVE  /\ got \o u \in Seq(S) /\ Len(got \o u) = Len(got) + Len(u)
           /\ Range(got \o u) = Range(got) \cup Range(u)
           /\ Len(got) \in Nat
           /\ \A i \in 1 .. Len(got) + Len(u) :
                (got \o u)[i] = IF i <= Len(got) THEN got[i] ELSE u[i - Len(got)]
BY ConcatProperties, RangeConcatenation

\* one more block, or two
Single(u, x) == u = <<x>>
Double(u, x, y) == u = <<x, y>>

\* One block makes the list one longer.
LEMMA GrowsOne ==
    ASSUME NEW S, NEW got \in Seq(S), NEW x \in S, NEW u, Single(u, x)
    PROVE  /\ got \o u \in Seq(S) /\ Len(got \o u) = Len(got) + 1
           /\ Range(got \o u) = Range(got) \cup {x}
           /\ \A k \in 1 .. Len(got) : (got \o u)[k] = got[k]
           /\ (got \o u)[Len(got) + 1] = x
<1>1. u \in Seq(S) /\ Len(u) = 1 /\ u[1] = x
  BY DEF Single
<1>2. Range(u) = {x}
  BY DEF Single, Range
<1>3. Range(got \o u) = Range(got) \cup {x}
  BY <1>1, <1>2, Grows
<1>4. /\ got \o u \in Seq(S) /\ Len(got \o u) = Len(got) + Len(u)
      /\ \A i \in 1 .. Len(got) + Len(u) :
           (got \o u)[i] = IF i <= Len(got) THEN got[i] ELSE u[i - Len(got)]
      /\ Len(got) \in Nat
  BY <1>1, Grows
<1>5. (\A k \in 1 .. Len(got) : (got \o u)[k] = got[k]) /\ (got \o u)[Len(got) + 1] = x
  BY <1>1, <1>4
<1> QED
  BY <1>1, <1>3, <1>4, <1>5

\* A block and its peer make it two longer.
LEMMA GrowsTwo ==
    ASSUME NEW S, NEW got \in Seq(S), NEW x \in S, NEW y \in S, NEW u, Double(u, x, y)
    PROVE  /\ got \o u \in Seq(S) /\ Len(got \o u) = Len(got) + 2
           /\ Range(got \o u) = (Range(got) \cup {x}) \cup {y}
           /\ \A k \in 1 .. Len(got) : (got \o u)[k] = got[k]
           /\ (got \o u)[Len(got) + 1] = x /\ (got \o u)[Len(got) + 2] = y
<1>1. u \in Seq(S) /\ Len(u) = 2 /\ u[1] = x /\ u[2] = y
  BY DEF Double
<1>2. Range(u) = {x} \cup {y}
  BY DEF Double, Range
<1>3. Range(got \o u) = (Range(got) \cup {x}) \cup {y}
  BY <1>1, <1>2, Grows
<1>4. /\ got \o u \in Seq(S) /\ Len(got \o u) = Len(got) + Len(u)
      /\ \A i \in 1 .. Len(got) + Len(u) :
           (got \o u)[i] = IF i <= Len(got) THEN got[i] ELSE u[i - Len(got)]
      /\ Len(got) \in Nat
  BY <1>1, Grows
<1>5. /\ \A k \in 1 .. Len(got) : (got \o u)[k] = got[k]
      /\ (got \o u)[Len(got) + 1] = x /\ (got \o u)[Len(got) + 2] = y
  BY <1>1, <1>4
<1> QED
  BY <1>1, <1>3, <1>4, <1>5

\* blocks that fit, each found once, no more than asked for, and those of the boot
\* loader if they are fixed
Fixed(got, pin) == pin.on => \A k \in 1 .. Len(got) : k \in DOMAIN pin.ids /\ got[k] = pin.ids[k]
Distinct(got, S, num) ==
    /\ got \in Seq(S) /\ Len(got) <= num
    /\ IsFiniteSet(Range(got)) /\ Cardinality(Range(got)) = Len(got)
Sound(s, num, fits, pin) ==
    /\ Distinct(s.got, Ids(fits), num) /\ Fixed(s.got, pin)
    /\ s.pass \in Nat /\ s.at \in Nat

\* The last block is not one found before.
LEMMA LastDistinct ==
    ASSUME NEW num \in Nat, NEW S, NEW got, Distinct(got, S, num), NEW x \in S,
           x \notin Range(got), Len(got) + 1 = num, NEW u, Single(u, x)
    PROVE  Distinct(got \o u, S, num)
<1>0. got \in Seq(S) /\ Len(got) \in Nat
  BY DEF Distinct
<1>1. IsFiniteSet(Range(got) \cup {x}) /\ Cardinality(Range(got) \cup {x}) = Len(got) + 1
  BY FS_AddElement DEF Distinct
<1>2. /\ got \o u \in Seq(S) /\ Len(got \o u) = Len(got) + 1
      /\ Range(got \o u) = Range(got) \cup {x}
  BY <1>0, GrowsOne
<1> QED
  BY <1>0, <1>1, <1>2 DEF Distinct

\* Nor are a block and its peer.
LEMMA PairDistinct ==
    ASSUME NEW num \in Nat, NEW S, NEW got, Distinct(got, S, num), NEW x \in S, NEW y \in S,
           x \notin Range(got), y \notin Range(got), x # y, Len(got) + 2 <= num,
           NEW u, Double(u, x, y)
    PROVE  Distinct(got \o u, S, num)
<1>0. got \in Seq(S) /\ Len(got) \in Nat
  BY DEF Distinct
<1> DEFINE T == Range(got) \cup {x}
<1>1. IsFiniteSet(T) /\ Cardinality(T) = Len(got) + 1
  BY FS_AddElement DEF Distinct
<1>2. y \notin T
  OBVIOUS
<1>3. /\ got \o u \in Seq(S) /\ Len(got \o u) = Len(got) + 2
      /\ Range(got \o u) = T \cup {y}
  BY <1>0, GrowsTwo
<1> HIDE DEF T
<1>4. IsFiniteSet(T \cup {y}) /\ Cardinality(T \cup {y}) = Cardinality(T) + 1
  BY <1>1, <1>2, FS_AddElement
<1>5. Cardinality(T \cup {y}) = Len(got) + 2
  BY <1>0, <1>1, <1>4
<1> QED
  BY <1>3, <1>4, <1>5 DEF Distinct

\* Fixed blocks stay fixed.
LEMMA LastFixed ==
    ASSUME NEW S, NEW got \in Seq(S), NEW x \in S, NEW pin, Fixed(got, pin),
           pin.on => Len(got) + 1 \in DOMAIN pin.ids /\ pin.ids[Len(got) + 1] = x,
           NEW u, Single(u, x)
    PROVE  Fixed(got \o u, pin)
<1>1. Len(got) \in Nat /\ \A k \in 1 .. Len(got) + 1 : k \in 1 .. Len(got) \/ k = Len(got) + 1
  OBVIOUS
<1>2. /\ Len(got \o u) = Len(got) + 1
      /\ \A k \in 1 .. Len(got) : (got \o u)[k] = got[k]
      /\ (got \o u)[Len(got) + 1] = x
  BY GrowsOne
<1>3. ASSUME pin.on, NEW k \in 1 .. Len(got \o u)
      PROVE  k \in DOMAIN pin.ids /\ (got \o u)[k] = pin.ids[k]
  BY <1>1, <1>2, <1>3, Zenon DEF Fixed
<1> QED
  BY <1>3, Zenon DEF Fixed

\* And so with a block and its peer.
LEMMA PairFixed ==
    ASSUME NEW S, NEW got \in Seq(S), NEW x \in S, NEW y \in S, NEW pin, Fixed(got, pin),
           pin.on => Len(got) + 1 \in DOMAIN pin.ids /\ pin.ids[Len(got) + 1] = x,
           pin.on => Len(got) + 2 \in DOMAIN pin.ids /\ pin.ids[Len(got) + 2] = y,
           NEW u, Double(u, x, y)
    PROVE  Fixed(got \o u, pin)
<1>1. \A k \in 1 .. Len(got) + 2 :
        k \in 1 .. Len(got) \/ k = Len(got) + 1 \/ k = Len(got) + 2
  OBVIOUS
<1>2. /\ Len(got \o u) = Len(got) + 2
      /\ \A k \in 1 .. Len(got) : (got \o u)[k] = got[k]
      /\ (got \o u)[Len(got) + 1] = x /\ (got \o u)[Len(got) + 2] = y
  BY GrowsTwo
<1>3. ASSUME pin.on, NEW k \in 1 .. Len(got \o u)
      PROVE  k \in DOMAIN pin.ids /\ (got \o u)[k] = pin.ids[k]
  BY <1>1, <1>2, <1>3, Zenon DEF Fixed
<1> QED
  BY <1>3, Zenon DEF Fixed

\* What a round takes is sound.
LEMMA TakesSound ==
    ASSUME NEW num \in Nat, NEW fits, fits \subseteq Nat \X Nat, NEW pairs, NEW pin,
           NEW s, Sound(s, num, fits, pin), NEW t, NEW c \in fits,
           Takes(s, t, num, fits, pairs, pin, c)
    PROVE  Sound(t, num, fits, pin)
<1>1. /\ Distinct(s.got, Ids(fits), num) /\ Fixed(s.got, pin)
      /\ s.got \in Seq(Ids(fits)) /\ Len(s.got) \in Nat /\ Len(s.got) < num
  BY DEF Sound, Takes, Distinct
<1>2. c[2] \in Ids(fits) /\ c[2] \notin Range(s.got)
      /\ (pin.on => Len(s.got) + 1 \in DOMAIN pin.ids /\ pin.ids[Len(s.got) + 1] = c[2])
  BY Zenon DEF Takes, Ahead, Left, Ids
<1>3. t.pass \in Nat /\ t.at \in Nat
  BY DEF Takes
<1>4. CASE TakesLast(s, t, num, c)
  <2>1. PICK u : Single(u, c[2]) /\ t.got = s.got \o u /\ Len(s.got) + 1 = num
    BY <1>4, Zenon DEF TakesLast, Single
  <2>2. Distinct(t.got, Ids(fits), num)
    BY <1>1, <1>2, <2>1, LastDistinct
  <2>3. Fixed(t.got, pin)
    BY <1>1, <1>2, <2>1, LastFixed
  <2> QED
    BY <1>3, <2>2, <2>3 DEF Sound
<1>5. ASSUME NEW y \in Peers(s, fits, pairs, pin, c), TakesPair(s, t, num, c, y)
      PROVE  Sound(t, num, fits, pin)
  <2>0. Len(s.got) + 2 <= num
    BY <1>1, <1>5 DEF TakesPair
  <2>1. PICK u : Double(u, c[2], y) /\ t.got = s.got \o u
    BY <1>5, Zenon DEF TakesPair, Double
  <2>2. <<c[1], y>> \in fits /\ <<c[1], y>>[2] = y /\ y # c[2] /\ y \notin Range(s.got)
        /\ (pin.on => Len(s.got) + 2 \in DOMAIN pin.ids /\ pin.ids[Len(s.got) + 2] = y)
    BY DEF Peers, Left
  <2>3. y \in Ids(fits)
    BY <2>2, Zenon DEF Ids
  <2>4. Distinct(t.got, Ids(fits), num)
    BY <1>1, <1>2, <2>0, <2>1, <2>2, <2>3, PairDistinct
  <2>5. Fixed(t.got, pin)
    BY <1>1, <1>2, <2>1, <2>2, <2>3, PairFixed
  <2> QED
    BY <1>3, <2>4, <2>5 DEF Sound
<1> QED
  BY <1>4, <1>5 DEF Takes

-----------------------------------------------------------------------------
(* Blocks in pairs.                                                        *)

\* those found without a peer
Lonely(S, pairs) == {x \in S : pairs[x] \cap S = {}}

InPairs(got, pairs) == Len(got) % 2 = 0 /\ Lonely(Range(got), pairs) = {}

\* the blocks that fit, in whatever pass, are on the list, and so are all peers;
\* passes and ids are counted from 1
Listed(I, fits) == I \subseteq Nat \ {0} /\ fits \subseteq (Nat \ {0}) \X I
Mutual(I, pairs) == DOMAIN pairs = I /\ (\A x \in I : pairs[x] \subseteq I) /\ Matching(pairs)

\* A block has at most one peer, whose peer it is.
LEMMA Peer ==
    ASSUME NEW I, NEW pairs, Mutual(I, pairs), NEW x \in I, NEW y \in pairs[x]
    PROVE  y \in I /\ x # y /\ pairs[x] = {y} /\ pairs[y] = {x}
<1>1. y \in I /\ x # y /\ pairs[y] = {x}
  BY DEF Mutual, Matching
<1>2. pairs[x] = {y}
  BY <1>1 DEF Mutual, Matching
<1> QED
  BY <1>1, <1>2

\* A block and its peer leave no block without a peer.
LEMMA PairAdded ==
    ASSUME NEW I, NEW pairs, Mutual(I, pairs), NEW S, S \subseteq I, Lonely(S, pairs) = {},
           NEW x \in I, NEW y \in pairs[x]
    PROVE  Lonely((S \cup {x}) \cup {y}, pairs) = {}
<1>1. y \in I /\ x # y /\ pairs[x] = {y} /\ pairs[y] = {x}
  BY Peer
<1> QED
  BY <1>1 DEF Lonely

\* A block added to pairs is alone.
LEMMA LastAdded ==
    ASSUME NEW I, NEW pairs, Mutual(I, pairs), NEW S, S \subseteq I, Lonely(S, pairs) = {},
           NEW x \in I, x \notin S
    PROVE  Lonely(S \cup {x}, pairs) = {x}
<1>1. ASSUME NEW y \in pairs[x], y \in S \cup {x} PROVE FALSE
  <2>1. y \in I /\ x # y /\ pairs[y] = {x}
    BY Peer
  <2>2. pairs[y] \cap S # {}
    BY <1>1, <2>1 DEF Lonely
  <2> QED
    BY <2>1, <2>2
<1>2. \A z \in S : pairs[z] \cap (S \cup {x}) # {}
  BY DEF Lonely
<1> QED
  BY <1>1, <1>2 DEF Lonely

\* a block that fits together with its peer
Pairable(c, fits, pairs) == c \in fits /\ \E y \in pairs[c[2]] : <<c[1], y>> \in fits
Before(c, s) == c[1] < s.pass \/ (c[1] = s.pass /\ c[2] < s.at)

\* Up to the place the search has reached, it took all pairs, each where its first
\* block came, the one at this place last.
Swept(s, fits, pairs) ==
    /\ \A c \in fits : Pairable(c, fits, pairs) /\ ~Past(c, s) => c[2] \in Range(s.got)
    /\ \A x \in Range(s.got) : \E c \in fits :
           Pairable(c, fits, pairs) /\ ~Past(c, s) /\ c[2] \in {x} \cup pairs[x]
    /\ \A c \in fits : Pairable(c, fits, pairs) /\ Before(c, s) =>
           c[2] \notin {s.at} \cup pairs[s.at]
    /\ (s.pass = 1 /\ s.at = 0) \/ s.at \in Range(s.got)

\* The blocks found so far are pairs, and all pairs unless the boot loader chose.
Base(s, num, fits, pairs, pin) ==
    /\ Sound(s, num, fits, pin)
    /\ InPairs(s.got, pairs)
    /\ ~pin.on => Swept(s, fits, pairs)

\* c and its peer were added
PairTaken(s, t, pairs, c, y) ==
    InPairs(t.got, pairs) /\ Range(t.got) = (Range(s.got) \cup {c[2]}) \cup {y}

\* A pair taken leaves pairs only.
LEMMA TakesPairInPairs ==
    ASSUME NEW num \in Nat, NEW I, NEW fits, Listed(I, fits), NEW pairs, Mutual(I, pairs),
           NEW pin, NEW s, Base(s, num, fits, pairs, pin), NEW t, NEW c \in fits,
           NEW y \in Peers(s, fits, pairs, pin, c), TakesPair(s, t, num, c, y)
    PROVE  PairTaken(s, t, pairs, c, y)
<1>1. s.got \in Seq(I) /\ Len(s.got) \in Nat
  <2>1. Ids(fits) \subseteq I
    BY DEF Ids, Listed
  <2>2. s.got \in Seq(Ids(fits))
    BY DEF Base, Sound, Distinct
  <2> QED
    BY <2>1, <2>2, SeqMonotonic
<1>2. c[2] \in I /\ y \in pairs[c[2]] /\ y \in I
  BY DEF Peers, Listed, Mutual
<1>3. PICK u : Double(u, c[2], y) /\ t.got = s.got \o u
  BY Zenon DEF TakesPair, Double
<1>4. Len(t.got) = Len(s.got) + 2 /\ Range(t.got) = (Range(s.got) \cup {c[2]}) \cup {y}
  <2>1. PICK x \in I, got \in Seq(I) : x = c[2] /\ got = s.got
    BY <1>1, <1>2
  <2>2. Double(u, x, y) /\ t.got = got \o u
    BY <1>3, <2>1
  <2>3. Len(t.got) = Len(got) + 2 /\ Range(t.got) = (Range(got) \cup {x}) \cup {y}
    BY <1>2, <2>2, GrowsTwo
  <2> QED
    BY <2>1, <2>3
<1>5. Range(s.got) \subseteq I
  BY <1>1, RangeOfSeq
<1>6. Lonely(Range(s.got), pairs) = {} /\ Len(s.got) % 2 = 0
  BY DEF Base, InPairs
<1>7. Lonely((Range(s.got) \cup {c[2]}) \cup {y}, pairs) = {}
  BY <1>2, <1>5, <1>6, PairAdded
<1>8. Len(t.got) % 2 = 0
  <2>1. \A n \in Nat : n % 2 = 0 => (n + 2) % 2 = 0
    OBVIOUS
  <2> QED
    BY <1>1, <1>4, <1>6, <2>1
<1> QED
  BY <1>4, <1>7, <1>8 DEF InPairs, PairTaken

\* All pairs that come before the first block ahead are taken.
LEMMA EarlierTaken ==
    ASSUME NEW num \in Nat, NEW I, NEW fits, Listed(I, fits), NEW pairs, Mutual(I, pairs),
           NEW pin, ~pin.on, NEW s, Lonely(Range(s.got), pairs) = {},
           Swept(s, fits, pairs), NEW d \in fits, Pairable(d, fits, pairs),
           Len(s.got) + 1 # num, d \notin Ahead(s, num, fits, pairs, pin)
    PROVE  d[2] \in Range(s.got)
<1>1. CASE ~Past(d, s)
  BY <1>1 DEF Swept
<1>2. CASE Past(d, s) /\ d[2] \notin Range(s.got)
  <2>1. PICK y \in pairs[d[2]] : <<d[1], y>> \in fits
    BY DEF Pairable
  <2>2. d[2] \in I /\ y # d[2] /\ pairs[y] = {d[2]}
    BY Peer DEF Listed
  <2>3. Peers(s, fits, pairs, pin, d) = {}
    BY <1>2, Zenon DEF Ahead, Left
  <2>4. y \in Range(s.got)
    BY <2>1, <2>2, <2>3, Zenon DEF Peers, Left
  <2>5. pairs[y] \cap Range(s.got) # {}
    BY <2>4, Zenon DEF Lonely
  <2> QED
    BY <2>2, <2>5
<1> QED
  BY <1>1, <1>2

\* The search has swept the list up to the pair it takes.
LEMMA TakesPairSwept ==
    ASSUME NEW num \in Nat, NEW I, NEW fits, Listed(I, fits), NEW pairs, Mutual(I, pairs),
           NEW pin, ~pin.on, NEW s, Base(s, num, fits, pairs, pin), NEW t, NEW c \in fits,
           Takes(s, t, num, fits, pairs, pin, c),
           NEW y \in Peers(s, fits, pairs, pin, c), TakesPair(s, t, num, c, y)
    PROVE  Swept(t, fits, pairs)
<1>1. /\ Range(t.got) = (Range(s.got) \cup {c[2]}) \cup {y}
      /\ t.pass = c[1] /\ t.at = c[2]
  <2>1. PairTaken(s, t, pairs, c, y)
    BY TakesPairInPairs
  <2> QED
    BY <2>1, Zenon DEF Takes, PairTaken
<1>2. /\ Swept(s, fits, pairs) /\ Lonely(Range(s.got), pairs) = {}
      /\ s.pass \in Nat /\ s.at \in Nat /\ Len(s.got) + 1 # num
  BY DEF Base, InPairs, Sound, TakesPair
<1>3. /\ c[1] \in Nat /\ c[2] \in I /\ c[2] \in Nat /\ y \in pairs[c[2]] /\ <<c[1], y>> \in fits
      /\ Past(c, s) /\ c[2] \notin Range(s.got)
      /\ \A d \in Ahead(s, num, fits, pairs, pin) : NotAfter(c, d)
  BY DEF Peers, Takes, Ahead, Left, Listed
<1>4. pairs[c[2]] = {y} /\ pairs[y] = {c[2]}
  <2>1. PICK x \in I : x = c[2]
    BY <1>3
  <2>2. y \in pairs[x]
    BY <1>3, <2>1, Zenon
  <2>3. pairs[x] = {y} /\ pairs[y] = {x}
    BY <2>2, Peer
  <2> QED
    BY <2>1, <2>3
<1>5. \A d \in fits : d[1] \in Nat /\ d[2] \in Nat /\ d[2] \in I
  BY DEF Listed
<1>6. ASSUME NEW d \in fits, Pairable(d, fits, pairs), Before(d, t)
      PROVE  d[2] \in Range(s.got)
  <2>1. ~NotAfter(c, d)
    BY <1>1, <1>3, <1>5, <1>6 DEF NotAfter, Before
  <2>2. d \notin Ahead(s, num, fits, pairs, pin)
    BY <1>3, <2>1
  <2> QED
    BY <1>2, <1>6, <2>2, EarlierTaken
<1>7. ASSUME NEW d \in fits, Pairable(d, fits, pairs), ~Past(d, t)
      PROVE  d[2] \in Range(t.got)
  <2>1. Before(d, t) \/ d[2] = c[2]
    BY <1>1, <1>3, <1>5, <1>7 DEF Before, Past
  <2> QED
    BY <1>1, <1>6, <1>7, <2>1
<1>8. ASSUME NEW x \in Range(t.got)
      PROVE  \E d \in fits : Pairable(d, fits, pairs) /\ ~Past(d, t) /\ d[2] \in {x} \cup pairs[x]
  <2>1. CASE x \in Range(s.got)
    <3>1. PICK d \in fits : Pairable(d, fits, pairs) /\ ~Past(d, s) /\ d[2] \in {x} \cup pairs[x]
      BY <1>2, <2>1 DEF Swept
    <3>2. ~Past(d, t)
      BY <1>1, <1>2, <1>3, <1>5, <3>1 DEF Past
    <3> QED
      BY <3>1, <3>2
  <2>2. CASE x \in {c[2], y}
    <3>1. Pairable(c, fits, pairs)
      BY <1>3 DEF Pairable
    <3>2. ~Past(c, t)
      BY <1>1, <1>3 DEF Past
    <3>3. c[2] \in {x} \cup pairs[x]
      BY <1>4, <2>2
    <3> QED
      BY <3>1, <3>2, <3>3
  <2> QED
    BY <1>1, <2>1, <2>2
<1>9. ASSUME NEW d \in fits, Pairable(d, fits, pairs), Before(d, t)
      PROVE  d[2] \notin {t.at} \cup pairs[t.at]
  <2>1. d[2] \in Range(s.got) /\ d[2] # c[2]
    BY <1>3, <1>6, <1>9
  <2>2. ASSUME d[2] = y PROVE FALSE
    <3>1. pairs[y] \cap Range(s.got) # {}
      BY <1>2, <2>1, <2>2, Zenon DEF Lonely
    <3> QED
      BY <1>3, <1>4, <3>1
  <2> QED
    BY <1>1, <1>4, <2>1, <2>2
<1>10. t.at \in Range(t.got)
  BY <1>1
<1> QED
  BY <1>7, <1>8, <1>9, <1>10, Zenon DEF Swept

-----------------------------------------------------------------------------
(* Where a search ends.                                                    *)

\* one block c more than the pairs of p, at a later place
Ended(s, num, fits, pairs, pin) ==
    /\ Sound(s, num, fits, pin) /\ Len(s.got) = num
    /\ \E p : \E c \in fits :
           /\ Base(p, num, fits, pairs, pin) /\ Len(p.got) + 1 = num
           /\ Past(c, p) /\ c[2] \notin Range(p.got)
           /\ Range(s.got) = Range(p.got) \cup {c[2]}

Reached(s, num, fits, pairs, pin) ==
    Base(s, num, fits, pairs, pin) \/ Ended(s, num, fits, pairs, pin)

\* Before the first round nothing is found and nothing has been looked at.
LEMMA NothingSound ==
    ASSUME NEW num \in Nat, NEW fits, NEW pin
    PROVE  Sound(Nothing, num, fits, pin)
<1>1. Nothing.got = <<>> /\ Len(Nothing.got) = 0 /\ Nothing.pass = 1 /\ Nothing.at = 0
  BY DEF Nothing
<1>2. Range(Nothing.got) = {}
  BY <1>1 DEF Range
<1>3. Distinct(Nothing.got, Ids(fits), num)
  <2>1. Nothing.got \in Seq(Ids(fits)) /\ 0 <= num
    BY <1>1
  <2>2. IsFiniteSet(Range(Nothing.got)) /\ Cardinality(Range(Nothing.got)) = 0
    BY <1>2, FS_EmptySet
  <2> QED
    BY <1>1, <2>1, <2>2 DEF Distinct
<1>4. Fixed(Nothing.got, pin)
  BY <1>1 DEF Fixed
<1> QED
  BY <1>1, <1>3, <1>4 DEF Sound

\* The search starts with no pairs, and none was passed over.
LEMMA NothingBase ==
    ASSUME NEW num \in Nat, NEW I, NEW fits, Listed(I, fits), NEW pairs, NEW pin
    PROVE  Base(Nothing, num, fits, pairs, pin)
<1>1. Nothing.got = <<>> /\ Len(Nothing.got) = 0 /\ Nothing.pass = 1 /\ Nothing.at = 0
  BY DEF Nothing
<1>2. Range(Nothing.got) = {}
  BY <1>1 DEF Range
<1>3. Sound(Nothing, num, fits, pin)
  BY NothingSound
<1>4. InPairs(Nothing.got, pairs)
  BY <1>1, <1>2 DEF InPairs, Lonely
<1>5. \A c \in fits : c[1] \in Nat /\ c[2] \in Nat /\ c[1] # 0 /\ c[2] # 0
  BY DEF Listed
<1>6. \A c \in fits : Past(c, Nothing) /\ ~Before(c, Nothing)
  BY <1>1, <1>5 DEF Past, Before
<1>7. Swept(Nothing, fits, pairs)
  BY <1>1, <1>2, <1>6, Zenon DEF Swept
<1> QED
  BY <1>3, <1>4, <1>7 DEF Base

\* A round adds a pair to the pairs, or the last block.
LEMMA TakesReaches ==
    ASSUME NEW num \in Nat, NEW I, NEW fits, Listed(I, fits), NEW pairs, Mutual(I, pairs),
           NEW pin, NEW s, Base(s, num, fits, pairs, pin), NEW t, NEW c \in fits,
           Takes(s, t, num, fits, pairs, pin, c)
    PROVE  Reached(t, num, fits, pairs, pin)
<1>1. Sound(s, num, fits, pin) /\ Sound(t, num, fits, pin)
  <2>1. fits \subseteq Nat \X Nat
    BY DEF Listed
  <2>2. Sound(s, num, fits, pin)
    BY DEF Base
  <2> QED
    BY <2>1, <2>2, TakesSound
<1>2. Past(c, s) /\ c[2] \notin Range(s.got)
  BY Zenon DEF Takes, Ahead, Left
<1>3. CASE TakesLast(s, t, num, c)
  <2>1. s.got \in Seq(Ids(fits)) /\ c[2] \in Ids(fits)
    BY <1>1 DEF Sound, Distinct, Ids
  <2>2. PICK u : Single(u, c[2]) /\ t.got = s.got \o u /\ Len(s.got) + 1 = num
    BY <1>3, Zenon DEF TakesLast, Single
  <2>3. PICK x \in Ids(fits), got \in Seq(Ids(fits)) : x = c[2] /\ got = s.got
    BY <2>1
  <2>4. Single(u, x) /\ t.got = got \o u
    BY <2>2, <2>3
  <2>5. Len(t.got) = Len(got) + 1 /\ Range(t.got) = Range(got) \cup {x}
    BY <2>4, GrowsOne
  <2>6. Len(t.got) = num /\ Range(t.got) = Range(s.got) \cup {c[2]}
    BY <2>2, <2>3, <2>5
  <2> QED
    BY <1>1, <1>2, <2>2, <2>6, Zenon DEF Reached, Ended
<1>4. ASSUME NEW y \in Peers(s, fits, pairs, pin, c), TakesPair(s, t, num, c, y)
      PROVE  Reached(t, num, fits, pairs, pin)
  <2>1. InPairs(t.got, pairs)
    <3>1. PairTaken(s, t, pairs, c, y)
      BY <1>4, TakesPairInPairs
    <3> QED
      BY <3>1 DEF PairTaken
  <2>2. ASSUME ~pin.on PROVE Swept(t, fits, pairs)
    BY <1>4, <2>2, TakesPairSwept
  <2> QED
    BY <1>1, <2>1, <2>2 DEF Base, Reached
<1> QED
  BY <1>3, <1>4 DEF Takes

\* a list of pairs, and blocks on it that fit
Paired(num, I, fits, pairs) == num \in Nat /\ Listed(I, fits) /\ Mutual(I, pairs)

\* What a round finds, in the terms above.
LEMMA RoundReaches ==
    ASSUME NEW num, NEW I, NEW fits, NEW pairs, Paired(num, I, fits, pairs), NEW pin,
           NEW s, Reached(s, num, fits, pairs, pin)
    PROVE  Reached(Round(s, num, fits, pairs, pin), num, fits, pairs, pin)
<1>1. num \in Nat /\ Listed(I, fits) /\ Mutual(I, pairs)
  BY DEF Paired
<1> DEFINE t == Round(s, num, fits, pairs, pin)
<1>2. \/ Stuck(s, num, fits, pairs, pin) /\ t = s
      \/ \E c \in fits : Takes(s, t, num, fits, pairs, pin, c)
  <2>1. I \subseteq Nat /\ fits \subseteq Nat \X I /\ \A x \in I : pairs[x] \subseteq I
    BY <1>1 DEF Listed, Mutual
  <2> QED
    BY <1>1, <2>1, RoundTakes
<1> HIDE DEF t
<1>3. ASSUME NEW c \in fits, Takes(s, t, num, fits, pairs, pin, c)
      PROVE  Reached(t, num, fits, pairs, pin)
  <2>1. ~Ended(s, num, fits, pairs, pin)
    BY <1>1, <1>3 DEF Takes, Ended
  <2>2. Base(s, num, fits, pairs, pin)
    BY <2>1 DEF Reached
  <2> QED
    BY <1>1, <1>3, <2>2, TakesReaches
<1> QED
  BY <1>2, <1>3 DEF t

\* Every round leaves pairs, and the last block at most after them.
LEMMA RoundsReach ==
    ASSUME NEW num, NEW I, NEW fits, NEW pairs, Paired(num, I, fits, pairs), NEW pin
    PROVE  Reached(Rounds(num, fits, pairs, pin)[num], num, fits, pairs, pin)
<1>1. num \in Nat /\ Listed(I, fits) /\ Mutual(I, pairs)
  BY DEF Paired
<1> DEFINE after == Rounds(num, fits, pairs, pin)
           J == {i \in 0 .. num : Reached(after[i], num, fits, pairs, pin)}
<1>2. after[0] = Nothing /\ \A i \in 1 .. num : after[i] = Round(after[i - 1], num, fits, pairs, pin)
  BY <1>1, RoundsFollow
<1>3. 0 \in J
  <2>1. Reached(Nothing, num, fits, pairs, pin)
    BY <1>1, NothingBase DEF Reached
  <2>2. 0 \in 0 .. num
    BY <1>1
  <2> HIDE DEF after
  <2> QED
    BY <1>2, <2>1, <2>2
<1>4. ASSUME NEW i \in 1 .. num, i - 1 \in J PROVE i \in J
  <2>1. Reached(after[i - 1], num, fits, pairs, pin)
    BY <1>4
  <2>2. Reached(Round(after[i - 1], num, fits, pairs, pin), num, fits, pairs, pin)
    BY <2>1, RoundReaches
  <2>3. i \in 0 .. num
    BY <1>1
  <2> HIDE DEF after
  <2> QED
    BY <1>2, <2>2, <2>3
<1>5. num \in J
  <2>1. num \in 0 .. num
    BY <1>1
  <2> HIDE DEF J
  <2> QED
    BY <1>1, <1>3, <1>4, <2>1, RoundsInduct
<1> QED
  BY <1>5
\* what was found, if all that was asked for
LEMMA SearchLast ==
    ASSUME NEW num, NEW fits, NEW pairs, NEW pin
    PROVE  LET s == Rounds(num, fits, pairs, pin)[num]
           IN  /\ \A S \in Search(num, fits, pairs, pin) : Len(s.got) = num /\ S = Range(s.got)
               /\ Len(s.got) = num => Search(num, fits, pairs, pin) # {}
BY Zenon DEF Search

\* A search finds as many blocks as it was asked for, all of them fit, and in pairs
\* but for one if their number is odd.
THEOREM SearchFinds ==
    ASSUME NEW num, NEW I, NEW fits, NEW pairs, Paired(num, I, fits, pairs), NEW pin,
           NEW S \in Search(num, fits, pairs, pin)
    PROVE  /\ S \subseteq Ids(fits) /\ IsFiniteSet(S) /\ Cardinality(S) = num
           /\ Cardinality(Lonely(S, pairs)) = num % 2
<1>1. num \in Nat /\ Listed(I, fits) /\ Mutual(I, pairs)
  BY DEF Paired
<1>2. PICK s : /\ Reached(s, num, fits, pairs, pin) /\ Len(s.got) = num /\ S = Range(s.got)
  BY RoundsReach, SearchLast
<1>3. Sound(s, num, fits, pin)
  BY <1>2 DEF Reached, Base, Ended
<1>4. S \subseteq Ids(fits) /\ IsFiniteSet(S) /\ Cardinality(S) = num
  <2>1. s.got \in Seq(Ids(fits)) /\ IsFiniteSet(S) /\ Cardinality(S) = Len(s.got)
    BY <1>2, <1>3 DEF Sound, Distinct
  <2> QED
    BY <1>2, <2>1, RangeOfSeq
<1>5. CASE Base(s, num, fits, pairs, pin)
  <2>1. Lonely(S, pairs) = {} /\ num % 2 = 0
    BY <1>2, <1>5 DEF Base, InPairs
  <2> QED
    BY <1>4, <2>1, FS_EmptySet
<1>6. CASE Ended(s, num, fits, pairs, pin)
  <2>0. PICK p : \E c \in fits :
          /\ Base(p, num, fits, pairs, pin) /\ Len(p.got) + 1 = num
          /\ c[2] \notin Range(p.got) /\ Range(s.got) = Range(p.got) \cup {c[2]}
    BY <1>6, Zenon DEF Ended
  <2>1. PICK c \in fits :
          /\ Base(p, num, fits, pairs, pin) /\ Len(p.got) + 1 = num
          /\ c[2] \notin Range(p.got) /\ S = Range(p.got) \cup {c[2]}
    BY <1>2, <2>0
  <2>2. /\ Lonely(Range(p.got), pairs) = {} /\ Len(p.got) % 2 = 0
        /\ p.got \in Seq(Ids(fits))
    BY <2>1 DEF Base, InPairs, Sound, Distinct
  <2>3. Ids(fits) \subseteq I /\ c[2] \in I
    BY <1>1 DEF Listed, Ids
  <2>4. Range(p.got) \subseteq I
    BY <2>2, <2>3, RangeOfSeq
  <2>5. Lonely(S, pairs) = {c[2]}
    <3>1. PICK x \in I : x = c[2]
      BY <2>3
    <3>2. Lonely(Range(p.got) \cup {x}, pairs) = {x}
      BY <1>1, <2>1, <2>2, <2>4, <3>1, LastAdded
    <3> QED
      BY <2>1, <3>1, <3>2
  <2>6. num % 2 = 1
    <3>1. \A n \in Nat : n % 2 = 0 => (n + 1) % 2 = 1
      OBVIOUS
    <3>2. Len(p.got) \in Nat
      BY <2>2
    <3> QED
      BY <2>1, <2>2, <3>1, <3>2
  <2> QED
    BY <1>4, <2>5, <2>6, FS_Singleton
<1> QED
  BY <1>2, <1>4, <1>5, <1>6 DEF Reached
-----------------------------------------------------------------------------
(* Searching again, when some of what fitted no longer does, and some else *)
(* does.                                                                   *)

\* A search goes on as long as there is something ahead.
LEMMA RoundsProgress ==
    ASSUME NEW num, NEW I, NEW fits, NEW pairs, Paired(num, I, fits, pairs), NEW pin
    PROVE  LET after == Rounds(num, fits, pairs, pin)
           IN  /\ \A i \in 0 .. num : Sound(after[i], num, fits, pin)
               /\ Stuck(after[num], num, fits, pairs, pin)
<1>1. num \in Nat /\ Listed(I, fits) /\ Mutual(I, pairs)
  BY DEF Paired
<1> DEFINE after == Rounds(num, fits, pairs, pin)
           Far(i) == /\ Sound(after[i], num, fits, pin)
                     /\ Len(after[i].got) >= i \/ Stuck(after[i], num, fits, pairs, pin)
           J == {i \in 0 .. num : Far(i)}
<1>2. after[0] = Nothing /\ \A i \in 1 .. num : after[i] = Round(after[i - 1], num, fits, pairs, pin)
  BY <1>1, RoundsFollow
<1>3. 0 \in J
  <2>1. Sound(Nothing, num, fits, pin)
    BY <1>1, NothingSound
  <2>2. Len(Nothing.got) >= 0
    BY DEF Nothing
  <2>3. 0 \in 0 .. num
    BY <1>1
  <2> HIDE DEF after
  <2> QED
    BY <1>2, <2>1, <2>2, <2>3
<1>4. ASSUME NEW i \in 1 .. num, i - 1 \in J PROVE i \in J
  <2>1. PICK s : s = after[i - 1]
    OBVIOUS
  <2>2. PICK t : t = after[i]
    OBVIOUS
  <2>3. Far(i - 1) /\ t = Round(s, num, fits, pairs, pin)
    BY <1>2, <1>4, <2>1, <2>2
  <2>4. /\ Sound(s, num, fits, pin)
        /\ Len(s.got) >= i - 1 \/ Stuck(s, num, fits, pairs, pin)
    BY <2>1, <2>3
  <2>5. \/ Stuck(s, num, fits, pairs, pin) /\ t = s
        \/ \E c \in fits : Takes(s, t, num, fits, pairs, pin, c)
    <3>1. I \subseteq Nat /\ fits \subseteq Nat \X I /\ \A x \in I : pairs[x] \subseteq I
      BY <1>1 DEF Listed, Mutual
    <3> QED
      BY <1>1, <2>3, <3>1, RoundTakes
  <2>6. Sound(t, num, fits, pin) /\ (Len(t.got) >= i \/ Stuck(t, num, fits, pairs, pin))
    <3>1. CASE Stuck(s, num, fits, pairs, pin) /\ t = s
      BY <2>4, <3>1
    <3>2. ASSUME NEW c \in fits, Takes(s, t, num, fits, pairs, pin, c)
          PROVE  Sound(t, num, fits, pin) /\ Len(t.got) >= i
      <4>1. Sound(t, num, fits, pin)
        <5>1. fits \subseteq Nat \X Nat
          BY <1>1 DEF Listed
        <5> QED
          BY <1>1, <2>4, <3>2, <5>1, TakesSound
      <4>2. ~Stuck(s, num, fits, pairs, pin)
        BY <3>2, Zenon DEF Takes, Stuck
      <4>3. s.got \in Seq(Ids(fits)) /\ c[2] \in Ids(fits) /\ Len(s.got) >= i - 1
        BY <2>4, <4>2 DEF Sound, Distinct, Ids
      <4>4. Len(t.got) \in Nat /\ Len(s.got) \in Nat /\ Len(t.got) >= Len(s.got) + 1
        <5>1. \E u : t.got = s.got \o u /\ u \in Seq(Ids(fits)) /\ Len(u) \in {1, 2}
          <6>1. CASE TakesLast(s, t, num, c)
            <7>1. t.got = s.got \o <<c[2]>>
              BY <6>1 DEF TakesLast
            <7>2. <<c[2]>> \in Seq(Ids(fits)) /\ Len(<<c[2]>>) = 1
              BY <4>3
            <7> QED
              BY <7>1, <7>2
          <6>2. ASSUME NEW y \in Peers(s, fits, pairs, pin, c), TakesPair(s, t, num, c, y)
                PROVE  \E u : t.got = s.got \o u /\ u \in Seq(Ids(fits)) /\ Len(u) \in {1, 2}
            <7>1. t.got = s.got \o <<c[2], y>>
              BY <6>2 DEF TakesPair
            <7>2. <<c[1], y>> \in fits /\ <<c[1], y>>[2] = y
              BY DEF Peers
            <7>3. y \in Ids(fits)
              BY <7>2, Zenon DEF Ids
            <7>4. <<c[2], y>> \in Seq(Ids(fits)) /\ Len(<<c[2], y>>) = 2
              BY <4>3, <7>3
            <7> QED
              BY <7>1, <7>4
          <6> QED
            BY <3>2, <6>1, <6>2 DEF Takes
        <5>2. PICK u \in Seq(Ids(fits)) : t.got = s.got \o u /\ Len(u) \in {1, 2}
          BY <5>1
        <5>3. Len(t.got) = Len(s.got) + Len(u) /\ Len(s.got) \in Nat
          BY <4>3, <5>2, ConcatProperties
        <5>4. CASE Len(u) = 1
          BY <5>3, <5>4
        <5>5. CASE Len(u) = 2
          BY <5>3, <5>5
        <5> QED
          BY <5>2, <5>4, <5>5
      <4> QED
        BY <4>1, <4>3, <4>4
    <3> QED
      BY <2>5, <3>1, <3>2
  <2>7. i \in 0 .. num
    BY <1>1
  <2> HIDE DEF after
  <2> QED
    BY <2>2, <2>6, <2>7
<1>5. \A i \in 0 .. num : i \in J
  <2> HIDE DEF J
  <2> QED
    BY <1>1, <1>3, <1>4, RoundsInduct
<1>6. num \in 0 .. num
  BY <1>1
<1> HIDE DEF after
<1> QED
  BY <1>5, <1>6 DEF Stuck, after

\* A pair that fits is taken, first block and peer, once the search is stuck.
LEMMA StuckTaken ==
    ASSUME NEW num, NEW I, NEW fits, NEW pairs, Paired(num, I, fits, pairs),
           NEW pin, ~pin.on, NEW t, Base(t, num, fits, pairs, pin),
           Ahead(t, num, fits, pairs, pin) = {},
           NEW d \in fits, Pairable(d, fits, pairs)
    PROVE  {d[2]} \cup pairs[d[2]] \subseteq Range(t.got)
<1>1. /\ num \in Nat /\ Listed(I, fits) /\ Mutual(I, pairs)
      /\ Swept(t, fits, pairs) /\ Lonely(Range(t.got), pairs) = {}
  BY DEF Paired, Base, InPairs
<1>2. PICK x \in I : x = d[2]
  BY <1>1 DEF Listed
<1>3. PICK y \in pairs[x] : <<d[1], y>> \in fits
  BY <1>2 DEF Pairable
<1>4. x # y /\ pairs[x] = {y} /\ pairs[y] = {x}
  BY <1>1, Peer
<1>5. x \in Range(t.got)
  <2>1. CASE ~Past(d, t)
    BY <1>1, <1>2, <2>1 DEF Swept
  <2>2. CASE Past(d, t) /\ x \notin Range(t.got)
    <3>1. y \notin Range(t.got)
      <4>1. y \in Range(t.got) => pairs[y] \cap Range(t.got) # {}
        BY <1>1, Zenon DEF Lonely
      <4> QED
        BY <1>4, <2>2, <4>1
    <3>2. y \in Peers(t, fits, pairs, pin, d)
      BY <1>2, <1>3, <1>4, <3>1, Zenon DEF Peers, Left
    <3>3. d \in Ahead(t, num, fits, pairs, pin)
      BY <1>2, <2>2, <3>2, Zenon DEF Ahead, Left
    <3> QED
      BY <3>3
  <2> QED
    BY <2>1, <2>2
<1>6. y \in Range(t.got)
  <2>1. pairs[x] \cap Range(t.got) # {}
    BY <1>1, <1>5, Zenon DEF Lonely
  <2> QED
    BY <1>4, <2>1
<1> QED
  BY <1>2, <1>4, <1>5, <1>6
\* of the blocks that fit as they are wired, those that are free
Those(wired, A) == {c \in wired : c[2] \in A}

\* Those of a list of pairs that are free are on a list of pairs.
LEMMA ThosePaired ==
    ASSUME NEW num, NEW I, NEW wired, NEW pairs, Paired(num, I, wired, pairs), NEW A
    PROVE  Paired(num, I, Those(wired, A), pairs)
BY DEF Paired, Listed, Those

\* A pair that was found fits as long as both blocks are free.
LEMMA PairKept ==
    ASSUME NEW num, NEW I, NEW wired, NEW pairs, Paired(num, I, wired, pairs),
           NEW A, NEW B, NEW got, Range(got) \subseteq I \cap B, Lonely(Range(got), pairs) = {},
           NEW x \in Range(got), NEW d \in Those(wired, A),
           Pairable(d, Those(wired, A), pairs), d[2] \in {x} \cup pairs[x]
    PROVE  /\ d \in Those(wired, B) /\ Pairable(d, Those(wired, B), pairs)
           /\ x \in {d[2]} \cup pairs[d[2]]
<1>1. Listed(I, wired) /\ Mutual(I, pairs) /\ x \in I
  BY DEF Paired
<1>2. PICK y \in pairs[x] : y \in Range(got)
  BY Zenon DEF Lonely
<1>3. y \in I /\ x # y /\ pairs[x] = {y} /\ pairs[y] = {x}
  BY <1>1, Peer
<1>4. x \in B /\ y \in B
  BY <1>2
<1>5. d[2] = x \/ d[2] = y
  BY <1>3
<1>6. PICK z \in pairs[d[2]] : <<d[1], z>> \in Those(wired, A)
  BY DEF Pairable
<1>7. z \in {x, y}
  BY <1>3, <1>5, <1>6
<1>8. z \in B /\ d[2] \in B
  BY <1>4, <1>5, <1>7
<1>9. d \in wired /\ <<d[1], z>> \in wired /\ <<d[1], z>>[2] = z
  BY <1>6 DEF Those
<1>10. d \in Those(wired, B) /\ <<d[1], z>> \in Those(wired, B)
  BY <1>8, <1>9, Zenon DEF Those
<1>11. x \in {d[2]} \cup pairs[d[2]]
  BY <1>3, <1>5
<1> QED
  BY <1>6, <1>10, <1>11 DEF Pairable

\* Pairs that were found are found again once the search is stuck, if the boot
\* loader has not chosen.
LEMMA PairsKept ==
    ASSUME NEW num, NEW I, NEW wired, NEW pairs, Paired(num, I, wired, pairs),
           NEW A, NEW B, NEW pin, ~pin.on,
           NEW p, Base(p, num, Those(wired, A), pairs, pin), Range(p.got) \subseteq B,
           NEW t, Base(t, num, Those(wired, B), pairs, pin),
           Ahead(t, num, Those(wired, B), pairs, pin) = {}
    PROVE  Range(p.got) \subseteq I /\ Range(p.got) \subseteq Range(t.got)
<1> DEFINE f == Those(wired, A)
           g == Those(wired, B)
<1>1. Paired(num, I, f, pairs) /\ Paired(num, I, g, pairs)
  BY ThosePaired
<1> HIDE DEF f, g
<1>2. Swept(p, f, pairs) /\ Lonely(Range(p.got), pairs) = {} /\ p.got \in Seq(Ids(f))
  BY DEF Base, InPairs, Sound, Distinct, f
<1>3. Range(p.got) \subseteq I
  <2>1. Ids(f) \subseteq I
    BY <1>1 DEF Paired, Listed, Ids
  <2> QED
    BY <1>2, <2>1, RangeOfSeq
<1>4. ASSUME NEW x \in Range(p.got) PROVE x \in Range(t.got)
  <2>1. PICK d \in f : Pairable(d, f, pairs) /\ d[2] \in {x} \cup pairs[x]
    BY <1>2 DEF Swept
  <2>2. d \in g /\ Pairable(d, g, pairs) /\ x \in {d[2]} \cup pairs[d[2]]
    <3>1. PICK got : got = p.got
      OBVIOUS
    <3>2. Range(got) \subseteq I \cap B /\ Lonely(Range(got), pairs) = {} /\ x \in Range(got)
      BY <1>2, <1>3, <3>1
    <3> QED
      BY <2>1, <3>2, PairKept DEF f, g
  <2>3. Base(t, num, g, pairs, pin) /\ Ahead(t, num, g, pairs, pin) = {}
    BY DEF g
  <2>4. {d[2]} \cup pairs[d[2]] \subseteq Range(t.got)
    BY <1>1, <2>2, <2>3, StuckTaken
  <2> QED
    BY <2>2, <2>4
<1> QED
  BY <1>3, <1>4
\* A last block found after p is still ahead of a search that found no other pairs.
LEMMA LastKept ==
    ASSUME NEW num, NEW I, NEW wired, NEW pairs, Paired(num, I, wired, pairs),
           NEW A, NEW B, NEW pin,
           NEW p, Base(p, num, Those(wired, A), pairs, pin), Range(p.got) \subseteq B,
           NEW t, Base(t, num, Those(wired, B), pairs, pin), ~pin.on,
           Range(t.got) = Range(p.got), NEW c \in Those(wired, A), Past(c, p)
    PROVE  Past(c, t)
<1> DEFINE f == Those(wired, A)
           g == Those(wired, B)
<1>1. Paired(num, I, f, pairs) /\ Paired(num, I, g, pairs)
  BY ThosePaired
<1>2. /\ Listed(I, f) /\ c \in f
      /\ Base(p, num, f, pairs, pin) /\ Base(t, num, g, pairs, pin)
  BY <1>1 DEF Paired
<1> HIDE DEF f, g
<1>3. /\ Swept(p, f, pairs) /\ Swept(t, g, pairs)
      /\ Lonely(Range(p.got), pairs) = {} /\ p.got \in Seq(Ids(f))
      /\ p.pass \in Nat /\ p.at \in Nat /\ t.pass \in Nat /\ t.at \in Nat
  BY <1>2 DEF Base, InPairs, Sound, Distinct
<1>4. \A d \in f : d[1] \in Nat /\ d[2] \in Nat /\ d[1] # 0 /\ d[2] # 0 /\ d[2] \in I
  BY <1>2 DEF Listed
<1>5. CASE t.pass = 1 /\ t.at = 0
  <2>1. c[1] \in Nat /\ c[2] \in Nat /\ c[1] # 0 /\ c[2] # 0
    BY <1>2, <1>4
  <2> QED
    BY <1>5, <2>1 DEF Past
<1>6. CASE t.at \in Range(t.got)
  <2> SUFFICES ASSUME ~Past(c, t) PROVE FALSE
    OBVIOUS
  <2>1. PICK x \in Range(p.got) : x = t.at
    BY <1>6
  <2>2. PICK d \in f : Pairable(d, f, pairs) /\ ~Past(d, p) /\ d[2] \in {x} \cup pairs[x]
    BY <1>3 DEF Swept
  <2>3. Range(p.got) \subseteq I
    <3>1. Ids(f) \subseteq I
      BY <1>4 DEF Ids
    <3> QED
      BY <1>3, <3>1, RangeOfSeq
  <2>4. d \in g /\ Pairable(d, g, pairs)
    <3>1. PICK got : got = p.got
      OBVIOUS
    <3>2. Range(got) \subseteq I \cap B /\ Lonely(Range(got), pairs) = {} /\ x \in Range(got)
      BY <1>3, <2>3, <3>1
    <3> QED
      BY <2>2, <3>2, PairKept DEF f, g
  <2>5. Before(d, t)
    <3>1. d[1] \in Nat /\ d[2] \in Nat /\ c[1] \in Nat /\ c[2] \in Nat
      BY <1>2, <1>4
    <3> QED
      BY <1>3, <2>2, <3>1 DEF Before, Past
  <2> QED
    BY <1>3, <2>1, <2>2, <2>4, <2>5 DEF Swept
<1> QED
  BY <1>3, <1>5, <1>6 DEF Swept

\* A search of the lists finds as many blocks again, if those it found are free.
LEMMA AgainFree ==
    ASSUME NEW num, NEW I, NEW wired, NEW pairs, Paired(num, I, wired, pairs),
           NEW A, NEW B, NEW pin, ~pin.on,
           NEW S \in Search(num, Those(wired, A), pairs, pin), S \subseteq B
    PROVE  Search(num, Those(wired, B), pairs, pin) # {}
<1> DEFINE f == Those(wired, A)
           g == Those(wired, B)
<1>1. Paired(num, I, f, pairs) /\ Paired(num, I, g, pairs) /\ num \in Nat
  BY ThosePaired DEF Paired
<1> DEFINE t == Rounds(num, g, pairs, pin)[num]
<1>2. /\ Reached(t, num, g, pairs, pin) /\ Stuck(t, num, g, pairs, pin)
      /\ Len(t.got) = num => Search(num, g, pairs, pin) # {}
  <2> HIDE DEF f, g
  <2> QED
    BY <1>1, RoundsReach, RoundsProgress, SearchLast
<1> SUFFICES ASSUME Len(t.got) # num PROVE FALSE
  BY <1>2
<1> HIDE DEF t
<1>3. /\ Base(t, num, g, pairs, pin) /\ Len(t.got) \in Nat /\ Len(t.got) < num
      /\ IsFiniteSet(Range(t.got)) /\ Cardinality(Range(t.got)) = Len(t.got)
  <2>1. Base(t, num, g, pairs, pin)
    BY <1>2 DEF Reached, Ended
  <2>2. Distinct(t.got, Ids(g), num)
    BY <2>1 DEF Base, Sound
  <2> QED
    BY <1>1, <2>1, <2>2 DEF Distinct
<1>4. Ahead(t, num, g, pairs, pin) = {}
  BY <1>1, <1>2, <1>3 DEF Stuck
<1>5. PICK s : Reached(s, num, f, pairs, pin) /\ Len(s.got) = num /\ S = Range(s.got)
  <2> HIDE DEF f
  <2> QED
    BY <1>1, RoundsReach, SearchLast DEF f
<1>6. S \subseteq Ids(f) /\ IsFiniteSet(S) /\ Cardinality(S) = num
  <2> HIDE DEF f
  <2> QED
    BY <1>1, SearchFinds DEF f
<1>7. ASSUME NEW p, Base(p, num, f, pairs, pin), Range(p.got) \subseteq B
      PROVE  Range(p.got) \subseteq Range(t.got)
  BY <1>3, <1>4, <1>7, PairsKept
<1> HIDE DEF f, g
<1>8. CASE Base(s, num, f, pairs, pin)
  <2>1. S \subseteq Range(t.got)
    BY <1>5, <1>7, <1>8
  <2>2. Cardinality(S) <= Cardinality(Range(t.got))
    BY <1>3, <2>1, FS_Subset
  <2> QED
    BY <1>1, <1>3, <1>6, <2>2
<1>9. CASE Ended(s, num, f, pairs, pin)
  <2>0. PICK p : \E c \in f :
          /\ Base(p, num, f, pairs, pin) /\ Len(p.got) + 1 = num
          /\ Past(c, p) /\ c[2] \notin Range(p.got)
          /\ Range(s.got) = Range(p.got) \cup {c[2]}
    BY <1>9, Zenon DEF Ended
  <2>1. PICK c \in f :
          /\ Base(p, num, f, pairs, pin) /\ Len(p.got) + 1 = num
          /\ Past(c, p) /\ c[2] \notin Range(p.got) /\ S = Range(p.got) \cup {c[2]}
    BY <1>5, <2>0
  <2>2. /\ Len(p.got) \in Nat /\ IsFiniteSet(Range(p.got))
        /\ Cardinality(Range(p.got)) = Len(p.got)
    BY <2>1 DEF Base, Sound, Distinct
  <2>3. Range(p.got) \subseteq B /\ c[2] \in B
    BY <2>1
  <2>4. Range(p.got) \subseteq Range(t.got)
    BY <1>7, <2>1, <2>3
  <2>5. Cardinality(Range(p.got)) <= Cardinality(Range(t.got))
    BY <1>3, <2>4, FS_Subset
  <2>6. Cardinality(Range(p.got)) = Cardinality(Range(t.got)) /\ Len(t.got) + 1 = num
    BY <1>1, <1>3, <2>1, <2>2, <2>5
  <2>7. Range(t.got) = Range(p.got)
    BY <1>3, <2>4, <2>6, FS_Subset
  <2>8. Past(c, t)
    BY <1>3, <2>1, <2>3, <2>7, LastKept DEF f, g
  <2>9. c \in g
    BY <2>3 DEF f, g, Those
  <2>10. c[2] \notin Range(t.got)
    BY <2>1, <2>7
  <2>11. c \in Ahead(t, num, g, pairs, pin)
    BY <2>6, <2>8, <2>9, <2>10, Zenon DEF Ahead, Left
  <2> QED
    BY <1>4, <2>11
<1> QED
  BY <1>5, <1>8, <1>9 DEF Reached
\* A round that may only take the boot loader's blocks takes the same of two lists
\* that both have them.
LEMMA PinnedRound ==
    ASSUME NEW num \in Nat, NEW wired, NEW A, NEW B, NEW pairs, NEW pin, pin.on,
           \A k \in 1 .. num : pin.ids[k] \in A /\ pin.ids[k] \in B,
           NEW s, Len(s.got) \in Nat
    PROVE  Round(s, num, Those(wired, A), pairs, pin) = Round(s, num, Those(wired, B), pairs, pin)
<1> DEFINE f == Those(wired, A)
           g == Those(wired, B)
           n == Len(s.got)
           Af == Ahead(s, num, f, pairs, pin)
           Ag == Ahead(s, num, g, pairs, pin)
           Pf(c) == Peers(s, f, pairs, pin, c)
           Pg(c) == Peers(s, g, pairs, pin, c)
           First(S) == CHOOSE c \in S : \A d \in S :
                           c[1] < d[1] \/ (c[1] = d[1] /\ c[2] <= d[2])
           One(c) == [got |-> s.got \o <<c[2]>>, pass |-> c[1], at |-> c[2]]
           Two(c, P) == [got |-> s.got \o <<c[2], Min(P)>>, pass |-> c[1], at |-> c[2]]
<1>1. ASSUME NEW h
      PROVE  LET H == Ahead(s, num, h, pairs, pin)
             IN  Round(s, num, h, pairs, pin) =
                   IF n >= num \/ H = {} THEN s
                   ELSE [got  |-> s.got \o (IF n + 1 = num THEN <<First(H)[2]>>
                                            ELSE <<First(H)[2], Min(Peers(s, h, pairs, pin, First(H)))>>),
                         pass |-> First(H)[1], at |-> First(H)[2]]
  BY Zenon DEF Round, Ahead, Past, Peers, Left
<1>2. CASE n >= num
  <2>1. \A h : Round(s, num, h, pairs, pin) = s
    BY <1>1, <1>2, Zenon
  <2> QED
    BY <2>1
<1>3. CASE ~(n >= num)
  <2>1. n + 1 \in 1 .. num /\ (n + 1 # num => n + 2 \in 1 .. num)
    BY <1>3
  <2>2. \A k, x : k \in 1 .. num /\ Left(s, pin, k, x) => x \in A /\ x \in B
    BY Zenon DEF Left
  <2>3. ASSUME n + 1 # num, NEW c PROVE Pf(c) = Pg(c)
    <3>1. \A y : Left(s, pin, n + 2, y) => y \in A /\ y \in B
      BY <2>1, <2>2, <2>3
    <3>2. \A y : <<c[1], y>>[2] = y
      OBVIOUS
    <3>3. \A y : Left(s, pin, n + 2, y) => (<<c[1], y>> \in f <=> <<c[1], y>> \in g)
      BY <3>1, <3>2, Zenon DEF Those
    <3> QED
      BY <3>3, Zenon DEF Peers
  <2>4. \A c \in wired : Left(s, pin, n + 1, c[2]) => (c \in f <=> c \in g)
    BY <2>1, <2>2, Zenon DEF Those
  <2>5. f \subseteq wired /\ g \subseteq wired
    BY DEF Those
  <2>6. Af = Ag
    <3>1. CASE n + 1 = num
      BY <2>4, <2>5, <3>1, Zenon DEF Ahead
    <3>2. CASE n + 1 # num
      BY <2>3, <2>4, <2>5, <3>2, Zenon DEF Ahead
    <3> QED
      BY <3>1, <3>2
  <2> HIDE DEF f, g
  <2>7. PICK d : d = First(Af)
    OBVIOUS
  <2>8. PICK e : e = First(Ag)
    OBVIOUS
  <2>9. d = e
    BY <2>6, <2>7, <2>8, Zenon
  <2> HIDE DEF First
  <2>10. CASE Af = {}
    <3>1. Round(s, num, f, pairs, pin) = s /\ Round(s, num, g, pairs, pin) = s
      BY <1>1, <2>6, <2>10
    <3> QED
      BY <3>1, Zenon DEF f, g
  <2>11. CASE Af # {} /\ n + 1 = num
    <3>1. Round(s, num, f, pairs, pin) = One(d)
      BY <1>1, <1>3, <2>7, <2>11
    <3>2. Round(s, num, g, pairs, pin) = One(e)
      BY <1>1, <1>3, <2>6, <2>8, <2>11
    <3> QED
      BY <2>9, <3>1, <3>2, Zenon DEF f, g
  <2>12. CASE Af # {} /\ n + 1 # num
    <3>1. Round(s, num, f, pairs, pin) = Two(d, Pf(d))
      BY <1>1, <1>3, <2>7, <2>12
    <3>2. Round(s, num, g, pairs, pin) = Two(e, Pg(e))
      BY <1>1, <1>3, <2>6, <2>8, <2>12
    <3>3. Pf(d) = Pg(e)
      BY <2>3, <2>9, <2>12
    <3> HIDE DEF Pf, Pg
    <3> QED
      BY <2>9, <3>1, <3>2, <3>3, Zenon DEF f, g
  <2> QED
    BY <2>10, <2>11, <2>12
<1> QED
  BY <1>2, <1>3

\* A search for the boot loader's blocks finds them again, if they are free.
LEMMA AgainPinned ==
    ASSUME NEW num, NEW I, NEW wired, NEW pairs, Paired(num, I, wired, pairs),
           NEW A, NEW B, NEW pin, pin.on,
           NEW S \in Search(num, Those(wired, A), pairs, pin), S \subseteq B
    PROVE  Search(num, Those(wired, B), pairs, pin) # {}
<1> DEFINE f == Those(wired, A)
           g == Those(wired, B)
           af == Rounds(num, f, pairs, pin)
           ag == Rounds(num, g, pairs, pin)
<1>1. Paired(num, I, f, pairs) /\ num \in Nat
  BY ThosePaired DEF Paired
<1>2. \A x \in Ids(f) : x \in A
  BY Zenon DEF Ids, Those
<1> HIDE DEF f, g
<1>3. \A i \in 0 .. num : Sound(af[i], num, f, pin)
  BY <1>1, RoundsProgress
<1>4. Len(af[num].got) = num /\ S = Range(af[num].got)
  BY SearchLast DEF f
<1>5. \A k \in 1 .. num : pin.ids[k] \in A /\ pin.ids[k] \in B
  <2> HIDE DEF af
  <2>1. num \in 0 .. num
    BY <1>1
  <2>2. PICK got : got = af[num].got
    OBVIOUS
  <2>3. got \in Seq(Ids(f)) /\ Fixed(got, pin) /\ Len(got) = num /\ S = Range(got)
    BY <1>3, <1>4, <2>1, <2>2 DEF Sound, Distinct
  <2>4. ASSUME NEW k \in 1 .. num PROVE pin.ids[k] \in A /\ pin.ids[k] \in B
    <3>1. got[k] = pin.ids[k]
      BY <2>3 DEF Fixed
    <3>2. got[k] \in Ids(f) /\ k \in DOMAIN got
      BY <2>3
    <3>3. got[k] \in S
      BY <2>3, <3>2 DEF Range
    <3> QED
      BY <1>2, <3>1, <3>2, <3>3
  <2> QED
    BY <2>4
<1> DEFINE J == {i \in 0 .. num : af[i] = ag[i]}
<1>6. /\ af[0] = Nothing /\ ag[0] = Nothing
      /\ \A i \in 1 .. num : af[i] = Round(af[i - 1], num, f, pairs, pin)
      /\ \A i \in 1 .. num : ag[i] = Round(ag[i - 1], num, g, pairs, pin)
  BY <1>1, RoundsFollow
<1> HIDE DEF af, ag
<1>7. 0 \in J
  <2>1. 0 \in 0 .. num
    BY <1>1
  <2> QED
    BY <1>6, <2>1
<1>8. ASSUME NEW i \in 1 .. num, i - 1 \in J PROVE i \in J
  <2>1. i - 1 \in 0 .. num /\ i \in 0 .. num /\ af[i - 1] = ag[i - 1]
    BY <1>1, <1>8
  <2>2. PICK s : s = af[i - 1]
    OBVIOUS
  <2>3. Len(s.got) \in Nat
    <3>1. s.got \in Seq(Ids(f))
      BY <1>3, <2>1, <2>2 DEF Sound, Distinct
    <3> QED
      BY <3>1
  <2>4. Round(s, num, f, pairs, pin) = Round(s, num, g, pairs, pin)
    BY <1>1, <1>5, <2>3, PinnedRound DEF f, g
  <2> QED
    BY <1>6, <2>1, <2>2, <2>4
<1>9. af[num] = ag[num]
  <2>1. num \in 0 .. num
    BY <1>1
  <2>2. \A i \in 0 .. num : i \in J
    <3> HIDE DEF J
    <3> QED
      BY <1>1, <1>7, <1>8, RoundsInduct
  <2> QED
    BY <2>1, <2>2
<1>10. Len(ag[num].got) = num
  BY <1>4, <1>9
<1> QED
  BY <1>10, SearchLast DEF ag, g

\* A search of a list on which the blocks found before are still free succeeds
\* again, whatever else was given back or taken since: it may find others, but it
\* does not find fewer.
THEOREM SearchAgain ==
    ASSUME NEW num, NEW I, NEW wired, NEW pairs, Paired(num, I, wired, pairs),
           NEW A, NEW B, NEW pin,
           NEW S \in Search(num, Those(wired, A), pairs, pin), S \subseteq B
    PROVE  Search(num, Those(wired, B), pairs, pin) # {}
<1>1. CASE pin.on
  BY <1>1, AgainPinned
<1>2. CASE ~pin.on
  BY <1>2, AgainFree
<1> QED
  BY <1>1, <1>2
=============================================================================

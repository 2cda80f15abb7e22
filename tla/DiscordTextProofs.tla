-------------------------- MODULE DiscordTextProofs --------------------------
(***************************************************************************)
(* DiscordText for every limit and names of any length.  The reference     *)
(* takes the name as a whole: its values are defined by recursion over the *)
(* runes.  That such functions exist, and what is true of all their        *)
(* values, follows by induction over sets of numbers (UpTo), from the      *)
(* well-foundedness of the naturals.                                       *)
(***************************************************************************)
EXTENDS DiscordText, SequenceTheorems, WellFoundedInduction, TLAPS

-----------------------------------------------------------------------------
(* Induction, and recursion over the numbers up to a bound.                *)

LEMMA LeastNumber ==
  ASSUME NEW T \in SUBSET Nat, T # {}
  PROVE  \E m \in T : \A n \in T : m <= n
<1> DEFINE R == {p \in Nat \X Nat : p[1] < p[2]}
<1>1. R = OpToRel(<, Nat)
  BY DEF OpToRel
<1>2. IsWellFoundedOn(R, Nat)
  BY <1>1, NatLessThanWellFounded, Zenon
<1>3. \E m \in T : \A n \in T : ~(<<n, m>> \in R)
  BY <1>2, WFMin, Zenon
<1>4. \A m, n \in T : ~(<<n, m>> \in R) => m <= n
  OBVIOUS
<1>5. QED
  BY <1>3, <1>4

\* A set with lo that goes up by one has all numbers from lo on.
LEMMA UpTo ==
  ASSUME NEW lo \in Nat, NEW N \in Nat, NEW T,
         lo \in T, \A n \in (lo + 1)..N : n - 1 \in T => n \in T
  PROVE  lo..N \subseteq T
<1> DEFINE Out == (lo..N) \ T
<1>1. SUFFICES ASSUME Out # {} PROVE FALSE
  OBVIOUS
<1>2. PICK m \in Out : \A n \in Out : m <= n
  <2>1. Out \in SUBSET Nat
    OBVIOUS
  <2> HIDE DEF Out
  <2>2. QED
    BY <1>1, <2>1, LeastNumber
<1>3. m \in lo..N /\ m \notin T /\ m # lo
  BY <1>2
<1>4. m \in (lo + 1)..N /\ m - 1 \in lo..N
  BY <1>3
<1>5. m - 1 \notin Out
  BY <1>2, <1>4
<1>6. QED
  BY <1>3, <1>4, <1>5

-----------------------------------------------------------------------------
(* Runes, their fragments, and the running values of a name.               *)

Name == Seq(Runes)

\* Bytes of the runes of the name.
Pieces == (1..Len(s)) \X (1..6)

LEMMA RuneSizes ==
  ASSUME s \in Name, NEW i \in 1..Len(s)
  PROVE  /\ s[i] \in Runes
         /\ Bytes(s[i]) \in 1..6 /\ Units(s[i]) \in 1..6
         /\ Len(Fragment(i)) = Bytes(s[i]) /\ Fragment(i) \in Seq(Pieces)
         /\ Fragment(i) # <<>>
         /\ \A k \in 1..Len(Fragment(i)) : Fragment(i)[k] = <<i, k>>
         /\ UnitsWritten(i) = Units(s[i])
<1>1. s[i] \in Runes
  BY DEF Name
<1>2. Bytes(s[i]) \in 1..6 /\ Units(s[i]) \in 1..6
  BY <1>1 DEF Runes, Bytes, Units, RuneUTF16Units, Escaped
<1>3. /\ Fragment(i) \in Seq(Pieces) /\ Len(Fragment(i)) = Bytes(s[i])
      /\ \A k \in 1..Bytes(s[i]) : Fragment(i)[k] = <<i, k>>
  <2>1. \A k \in 1..Bytes(s[i]) : <<i, k>> \in Pieces
    BY <1>2 DEF Pieces
  <2> DEFINE c == Bytes(s[i])
  <2>2. c \in Nat /\ Fragment(i) = [k \in 1..c |-> <<i, k>>]
    BY <1>2 DEF Fragment
  <2> HIDE DEF c
  <2>3. Fragment(i) \in [1..c -> Pieces]
    BY <2>1, <2>2 DEF c
  <2>4. Fragment(i) \in Seq(Pieces) /\ Len(Fragment(i)) = c
    BY <2>2, <2>3
  <2>5. QED
    BY <2>2, <2>4 DEF c
<1>4. UnitsWritten(i) = Units(s[i])
  BY <1>1, <1>3 DEF UnitsWritten, Units, Bytes, RuneUTF16Units, Runes
<1>5. QED
  BY <1>1, <1>2, <1>3, <1>4

\* What the two recursive definitions ask of a function, up to the rune n.
Counts(f, n)  == f[0] = 0    /\ \A i \in 1..n : f[i] = f[i - 1] + UnitsWritten(i)
Collects(g, n) == g[0] = <<>> /\ \A i \in 1..n : g[i] = g[i - 1] \o Fragment(i)

\* There are such functions.
LEMMA RecursionWorks ==
  ASSUME s \in Name
  PROVE  \E f \in [0..Len(s) -> Nat], g \in [0..Len(s) -> Seq(Pieces)] :
             Counts(f, Len(s)) /\ Collects(g, Len(s))
<1> DEFINE N == Len(s)
           T == {m \in 0..N : \E f \in [0..m -> Nat], g \in [0..m -> Seq(Pieces)] :
                                  Counts(f, m) /\ Collects(g, m)}
<1>1. N \in Nat
  BY DEF Name
<1>2. 0 \in T
  <2> DEFINE f == [n \in 0..0 |-> 0]
             g == [n \in 0..0 |-> <<>>]
  <2>1. /\ f \in [0..0 -> Nat] /\ f[0] = 0 /\ 1..0 = {}
        /\ g \in [0..0 -> Seq(Pieces)] /\ g[0] = <<>>
    OBVIOUS
  <2> HIDE DEF f, g
  <2>2. Counts(f, 0) /\ Collects(g, 0)
    BY <2>1 DEF Counts, Collects
  <2>3. QED
    BY <1>1, <2>1, <2>2
<1>3. ASSUME NEW m \in 1..N, m - 1 \in T
      PROVE  m \in T
  <2>1. PICK f \in [0..(m - 1) -> Nat], g \in [0..(m - 1) -> Seq(Pieces)] :
                 Counts(f, m - 1) /\ Collects(g, m - 1)
    BY <1>3
  <2> DEFINE v == f[m - 1] + UnitsWritten(m)
             w == g[m - 1] \o Fragment(m)
  <2>2. v \in Nat /\ w \in Seq(Pieces)
    <3>1. UnitsWritten(m) \in 1..6 /\ Fragment(m) \in Seq(Pieces)
      BY RuneSizes
    <3>2. m - 1 \in 0..(m - 1) /\ UnitsWritten(m) \in Nat
      BY <1>1, <3>1
    <3>3. f[m - 1] \in Nat /\ g[m - 1] \in Seq(Pieces)
      BY <2>1, <3>2
    <3>4. QED
      BY <3>1, <3>2, <3>3
  <2> HIDE DEF v, w
  <2> DEFINE f2 == [n \in 0..m |-> IF n = m THEN v ELSE f[n]]
             g2 == [n \in 0..m |-> IF n = m THEN w ELSE g[n]]
  <2>3. /\ f2 \in [0..m -> Nat] /\ f2[m] = v /\ \A n \in 0..(m - 1) : f2[n] = f[n]
        /\ g2 \in [0..m -> Seq(Pieces)] /\ g2[m] = w /\ \A n \in 0..(m - 1) : g2[n] = g[n]
    BY <2>1, <2>2
  <2> HIDE DEF f2, g2
  <2>4. f2[0] = 0 /\ g2[0] = <<>>
    BY <2>1, <2>3 DEF Counts, Collects
  <2>5. ASSUME NEW i \in 1..m
        PROVE  f2[i] = f2[i - 1] + UnitsWritten(i) /\ g2[i] = g2[i - 1] \o Fragment(i)
    <3>1. i - 1 \in 0..(m - 1) /\ f2[i - 1] = f[i - 1] /\ g2[i - 1] = g[i - 1]
      BY <2>3
    <3>2. CASE i = m
      BY <2>3, <3>1, <3>2 DEF v, w
    <3>3. CASE i # m
      <4>1. i \in 1..(m - 1) /\ i \in 0..(m - 1)
        BY <3>3
      <4>2. f2[i] = f[i] /\ g2[i] = g[i]
        BY <2>3, <4>1
      <4>3. f[i] = f[i - 1] + UnitsWritten(i) /\ g[i] = g[i - 1] \o Fragment(i)
        BY <2>1, <4>1 DEF Counts, Collects
      <4>4. QED
        BY <3>1, <4>2, <4>3
    <3>4. QED
      BY <3>2, <3>3
  <2>6. Counts(f2, m) /\ Collects(g2, m)
    BY <2>4, <2>5 DEF Counts, Collects
  <2>7. \E p \in [0..m -> Nat], q \in [0..m -> Seq(Pieces)] : Counts(p, m) /\ Collects(q, m)
    BY <2>3, <2>6
  <2>8. m \in 0..N
    BY <1>1
  <2>9. QED
    BY <2>7, <2>8, Zenon
<1> HIDE DEF T
<1>4. N \in T
  <2>1. 0 + 1 = 1
    OBVIOUS
  <2>2. 0..N \subseteq T
    BY <1>1, <1>2, <1>3, <2>1, UpTo
  <2>3. QED
    BY <1>1, <2>2
<1>5. QED
  BY <1>4 DEF T

\* The running values as the code of the loop makes them, rune by rune.
LEMMA RunningValues ==
  ASSUME s \in Name
  PROVE  /\ UnitsOf[0] = 0 /\ Fragments[0] = <<>>
         /\ \A n \in 0..Len(s) : UnitsOf[n] \in Nat /\ Fragments[n] \in Seq(Pieces)
         /\ \A n \in 1..Len(s) : /\ UnitsOf[n] = UnitsOf[n - 1] + Units(s[n])
                                 /\ Fragments[n] = Fragments[n - 1] \o Fragment(n)
<1> DEFINE N == Len(s)
           count(f)   == [n \in 0..N |-> IF n = 0 THEN 0 ELSE f[n - 1] + UnitsWritten(n)]
           collect(g) == [n \in 0..N |-> IF n = 0 THEN <<>> ELSE g[n - 1] \o Fragment(n)]
<1>1. N \in Nat
  BY DEF Name
<1>2. PICK f \in [0..N -> Nat], g \in [0..N -> Seq(Pieces)] : Counts(f, N) /\ Collects(g, N)
  BY RecursionWorks
<1>3. f = count(f) /\ g = collect(g)
  <2>1. \A n \in 0..N : n # 0 => n \in 1..N
    BY <1>1
  <2>2. \A n \in 0..N : f[n] = IF n = 0 THEN 0 ELSE f[n - 1] + UnitsWritten(n)
    BY <1>2, <2>1, Zenon DEF Counts
  <2>3. \A n \in 0..N : g[n] = IF n = 0 THEN <<>> ELSE g[n - 1] \o Fragment(n)
    BY <1>2, <2>1, Zenon DEF Collects
  <2>4. f = [n \in 0..N |-> f[n]] /\ g = [n \in 0..N |-> g[n]]
    BY Zenon
  <2> HIDE DEF N
  <2>5. f = count(f)
    BY <2>2, <2>4, Zenon
  <2>6. g = collect(g)
    BY <2>3, <2>4, Zenon
  <2>7. QED
    BY <2>5, <2>6
<1>4. UnitsOf = count(UnitsOf) /\ Fragments = collect(Fragments)
  <2>1. UnitsOf = (CHOOSE x : x = count(x)) /\ Fragments = (CHOOSE x : x = collect(x))
    BY DEF UnitsOf, Fragments
  <2> HIDE DEF count, collect
  <2>2. QED
    BY <1>3, <2>1
<1>5. /\ UnitsOf[0] = 0 /\ Fragments[0] = <<>>
      /\ \A n \in 1..N : /\ UnitsOf[n] = UnitsOf[n - 1] + UnitsWritten(n)
                         /\ Fragments[n] = Fragments[n - 1] \o Fragment(n)
  <2> DEFINE u == count(UnitsOf)
             v == collect(Fragments)
  <2>1. /\ u[0] = 0 /\ \A n \in 1..N : u[n] = UnitsOf[n - 1] + UnitsWritten(n)
        /\ v[0] = <<>> /\ \A n \in 1..N : v[n] = Fragments[n - 1] \o Fragment(n)
    BY <1>1
  <2>2. UnitsOf = u /\ Fragments = v
    BY <1>4
  <2> HIDE DEF u, v
  <2>3. QED
    BY <2>1, <2>2, Zenon
<1> HIDE DEF count, collect
<1>6. \A n \in 0..N : UnitsOf[n] \in Nat /\ Fragments[n] \in Seq(Pieces)
  <2> DEFINE T == {n \in 0..N : UnitsOf[n] \in Nat /\ Fragments[n] \in Seq(Pieces)}
  <2>1. 0 \in T
    <3>1. <<>> \in Seq(Pieces) /\ 0 \in Nat /\ 0 \in 0..N
      BY <1>1
    <3>2. QED
      BY <1>5, <3>1, Zenon
  <2>2. ASSUME NEW n \in 1..N, n - 1 \in T
        PROVE  n \in T
    <3>1. UnitsWritten(n) \in 1..6 /\ Fragment(n) \in Seq(Pieces)
      BY RuneSizes
    <3>2. UnitsOf[n - 1] \in Nat /\ Fragments[n - 1] \in Seq(Pieces)
      BY <2>2
    <3>3. /\ UnitsOf[n - 1] + UnitsWritten(n) \in Nat
          /\ Fragments[n - 1] \o Fragment(n) \in Seq(Pieces)
      <4> DEFINE a == UnitsOf[n - 1]
                 c == UnitsWritten(n)
                 sofar == Fragments[n - 1]
                 piece == Fragment(n)
                 P == Pieces
      <4>1. a \in Nat /\ c \in 1..6 /\ sofar \in Seq(P) /\ piece \in Seq(P)
        BY <3>1, <3>2
      <4> HIDE DEF a, c, sofar, piece, P
      <4>2. a + c \in Nat /\ sofar \o piece \in Seq(P)
        BY <4>1
      <4>3. QED
        BY <4>2 DEF a, c, sofar, piece, P
    <3>4. UnitsOf[n] \in Nat /\ Fragments[n] \in Seq(Pieces)
      BY <1>5, <3>3
    <3>5. QED
      BY <1>1, <3>4
  <2> HIDE DEF T, N
  <2>3. 0..N \subseteq T
    <3>1. 0 + 1 = 1
      OBVIOUS
    <3>2. QED
      BY <1>1, <2>1, <2>2, <3>1, UpTo
  <2>4. QED
    BY <2>3 DEF T
<1>7. \A n \in 1..N : UnitsWritten(n) = Units(s[n])
  BY RuneSizes
<1>8. QED
  BY <1>5, <1>6, <1>7

\* A longer part of a name takes no fewer units.
LEMMA UnitsGrow ==
  ASSUME s \in Name, NEW m \in 0..Len(s), NEW n \in m..Len(s)
  PROVE  UnitsOf[m] <= UnitsOf[n]
<1> DEFINE N == Len(s)
           T == {i \in m..N : UnitsOf[m] <= UnitsOf[i]}
<1>1. N \in Nat /\ m \in Nat /\ \A i \in 0..N : UnitsOf[i] \in Nat
  BY RunningValues DEF Name
<1>2. m \in T
  BY <1>1
<1>3. ASSUME NEW i \in (m + 1)..N, i - 1 \in T
      PROVE  i \in T
  <2>1. i \in 1..N /\ i \in 0..N /\ i - 1 \in 0..N
    BY <1>1
  <2>2. UnitsOf[i] = UnitsOf[i - 1] + Units(s[i]) /\ Units(s[i]) \in 1..6
    BY <2>1, RunningValues, RuneSizes
  <2>3. UnitsOf[m] <= UnitsOf[i - 1] /\ UnitsOf[m] \in Nat /\ UnitsOf[i - 1] \in Nat
    BY <1>1, <1>3, <2>1
  <2>4. UnitsOf[m] <= UnitsOf[i]
    BY <2>2, <2>3
  <2>5. QED
    BY <1>1, <2>1, <2>4
<1> HIDE DEF T, N
<1>4. m..N \subseteq T
  BY <1>1, <1>2, <1>3, UpTo
<1>5. QED
  BY <1>4 DEF T, N

-----------------------------------------------------------------------------
(* The loop: what is in the builder is the rendering so far, and the cut   *)
(* is behind the most runes that still leave room for an ellipsis.         *)

\* The first c runes fit with an ellipsis, and no more of those taken do.
FitsWithEllipsis(c) ==
    /\ UnitsOf[c] <= Room - 1
    /\ \A n \in (c + 1)..(at - 1) : UnitsOf[n] > Room - 1

LoopInv ==
    /\ s \in Name /\ at \in 1..(Len(s) + 1)
    /\ units = UnitsOf[at - 1] /\ units <= Room
    /\ b = Mark \o Fragments[at - 1]
    /\ cut \in 0..Len(b)
    /\ \E c \in 0..(at - 1) :
           FitsWithEllipsis(c) /\ SubSeq(b, 1, cut) = Mark \o Fragments[c]

IInv == LoopInv /\ ShowsTheMost

\* Everything that stands in a field.
Signs == Pieces \cup {<<0, 1>>, <<-1, 1>>, <<-1, 2>>, <<-1, 3>>}

LEMMA Surroundings ==
  /\ Mark \in Seq(Signs) /\ Len(Mark) = (IF Safe THEN 1 ELSE 0) /\ Room = Limit - 2 * Len(Mark)
  /\ Room \in Nat /\ Room >= 6
  /\ Ellipsis \in Seq(Signs) /\ Ellipsis # <<>>
<1>1. /\ <<0, 1>> \in Signs /\ <<-1, 1>> \in Signs /\ <<-1, 2>> \in Signs
      /\ <<-1, 3>> \in Signs
  BY DEF Signs
<1>2. Ellipsis \in Seq(Signs) /\ Ellipsis # <<>>
  BY <1>1 DEF Ellipsis
<1>3. Mark \in Seq(Signs) /\ Len(Mark) = (IF Safe THEN 1 ELSE 0)
  BY <1>1 DEF Mark
<1>4. QED
  BY <1>2, <1>3, LimitAssumption DEF Room, LimitAssumption

LEMMA ShownIsNumber ==
  ASSUME s \in Name, NEW n \in 0..Len(s)
  PROVE  UnitsShown(n) \in Int /\ Limit \in Int
<1>1. UnitsOf[n] \in Nat /\ Len(Mark) \in Nat
  BY RunningValues, Surroundings
<1>2. UnitsShown(n) \in Int
  BY ONLY <1>1 DEF UnitsShown
<1>3. QED
  BY <1>2, LimitAssumption DEF LimitAssumption

\* How much of a name is most: k runes fit, and of more none.
LEMMA MostRunesIs ==
  ASSUME s \in Name, NEW k \in 0..Len(s), UnitsShown(k) <= Limit,
         \A n \in (k + 1)..Len(s) : UnitsShown(n) > Limit
  PROVE  MostRunes = k
<1> DEFINE S == {n \in 0..Len(s) : UnitsShown(n) <= Limit}
<1>1. k \in S
  OBVIOUS
<1>2. ASSUME NEW n \in S PROVE n <= k
  <2>1. UnitsShown(n) \in Int /\ Limit \in Int /\ Len(s) \in Nat
    BY ShownIsNumber DEF Name
  <2>2. CASE n \in (k + 1)..Len(s)
    BY <2>1, <2>2
  <2>3. CASE n \notin (k + 1)..Len(s)
    BY <2>1, <2>3
  <2>4. QED
    BY <2>2, <2>3
<1>3. \A x \in S : (\A y \in S : x >= y) => x = k
  BY <1>1, <1>2
<1>4. \A y \in S : k >= y
  BY <1>2
<1> HIDE DEF S
<1>5. Max(S) = k
  BY <1>1, <1>3, <1>4 DEF Max
<1>6. QED
  BY <1>5 DEF MostRunes, S

\* What is shown within the limit, in terms of the room the runes have.
LEMMA ShownWithin ==
  ASSUME s \in Name, NEW n \in 0..Len(s)
  PROVE  /\ n = Len(s) => (UnitsShown(n) <= Limit <=> UnitsOf[n] <= Room)
         /\ n < Len(s) => (UnitsShown(n) <= Limit <=> UnitsOf[n] <= Room - 1)
<1>1. UnitsOf[n] \in Nat /\ Limit \in Nat
  BY RunningValues, LimitAssumption DEF LimitAssumption
<1>2. Room = Limit - 2 * Len(Mark) /\ Len(Mark) \in 0..1
  BY Surroundings
<1> DEFINE u == UnitsOf[n]
           m == Len(Mark)
<1>3. UnitsShown(n) = u + 2 * m + (IF n = Len(s) THEN 0 ELSE 1)
  BY DEF UnitsShown
<1>4. n \in Nat /\ Len(s) \in Nat
  BY DEF Name
<1> HIDE DEF u, m
<1>5. QED
  BY <1>1, <1>2, <1>3, <1>4 DEF u, m

\* A rendering of whole runes shows nothing that could break the field.
LEMMA RenderingIsSafe ==
  ASSUME s \in Name, NEW k \in 0..Len(s), NEW j \in 1..Len(Rendering(k)),
         Rendering(k)[j][1] \in 1..Len(s), Breaking(s[Rendering(k)[j][1]])
  PROVE  Rendering(k)[1] # <<0, 1>> /\ Bytes(s[Rendering(k)[j][1]]) > 1
<1> DEFINE r == Rendering(k)
           i == r[j][1]
           rest == IF k = Len(s) THEN <<>> ELSE Ellipsis
           Plain == Pieces \cup {<<-1, 1>>, <<-1, 2>>, <<-1, 3>>}
<1>1. ~Safe /\ s[i] \in {"tick", "newline", "control"}
  BY DEF Safe, Breaking
<1>2. Bytes(s[i]) > 1
  BY <1>1 DEF Bytes, Escaped
<1>3. Mark = <<>>
  BY <1>1 DEF Mark
<1>4. Fragments[k] \in Seq(Plain) /\ rest \in Seq(Plain)
  <2>1. Fragments[k] \in Seq(Pieces)
    BY RunningValues
  <2>2. /\ <<-1, 1>> \in Plain /\ <<-1, 2>> \in Plain /\ <<-1, 3>> \in Plain
        /\ Pieces \subseteq Plain
    OBVIOUS
  <2> HIDE DEF Plain
  <2>3. QED
    BY <2>1, <2>2 DEF Ellipsis
<1>5. r \in Seq(Plain)
  <2> HIDE DEF Plain
  <2>1. r = Fragments[k] \o rest
    <3>1. \A x \in Seq(Plain) : <<>> \o x = x /\ x \o <<>> = x
      OBVIOUS
    <3>2. Fragments[k] \o rest \in Seq(Plain)
      BY <1>4
    <3>3. QED
      BY <1>3, <1>4, <3>1, <3>2 DEF Rendering
  <2>2. QED
    BY <1>4, <2>1
<1>6. <<0, 1>> \notin Plain
  BY DEF Pieces
<1>7. r[1] # <<0, 1>>
  <2> HIDE DEF Plain, r
  <2>1. 1 \in 1..Len(r)
    BY <1>5 DEF r
  <2>2. r[1] \in Plain
    BY <1>5, <2>1
  <2>3. QED
    BY <1>6, <2>2, Zenon
<1>8. QED
  BY <1>2, <1>7

-----------------------------------------------------------------------------
(* The invariant.                                                          *)

LEMMA LoopType ==
  ASSUME LoopInv
  PROVE  /\ s \in Name /\ Len(s) \in Nat /\ at \in 1..(Len(s) + 1) /\ at - 1 \in 0..Len(s)
         /\ b \in Seq(Signs) /\ units \in Nat /\ cut \in 0..Len(b)
         /\ Room \in Nat /\ Room >= 6
<1>1. s \in Name /\ Len(s) \in Nat /\ at \in 1..(Len(s) + 1) /\ at - 1 \in 0..Len(s)
  BY DEF LoopInv, Name
<1>2. UnitsOf[at - 1] \in Nat /\ Fragments[at - 1] \in Seq(Pieces)
  BY <1>1, RunningValues
<1>3. Fragments[at - 1] \in Seq(Signs) /\ Mark \in Seq(Signs) /\ Room \in Nat /\ Room >= 6
  BY <1>2, Surroundings DEF Signs
<1>4. Mark \o Fragments[at - 1] \in Seq(Signs)
  BY <1>3
<1>5. QED
  BY <1>1, <1>2, <1>3, <1>4 DEF LoopInv

LEMMA InitIInv == Init => IInv
<1> SUFFICES ASSUME Init PROVE IInv
  OBVIOUS
<1>1. s \in Name /\ Len(s) \in Nat
  <2>1. PICK n \in 1..MaxRunes : s \in [1..n -> Runes]
    BY DEF Init
  <2>2. QED
    BY <2>1, LimitAssumption DEF Name, LimitAssumption
<1>2. at = 1 /\ b = Mark /\ units = 0 /\ cut = Len(Mark) /\ text = <<>>
  BY DEF Init
<1>3. /\ UnitsOf[0] = 0 /\ Fragments[0] = <<>> /\ Mark \in Seq(Signs)
      /\ Room \in Nat /\ Room >= 6
  BY <1>1, RunningValues, Surroundings
<1>4. Mark \o Fragments[0] = Mark /\ SubSeq(Mark, 1, Len(Mark)) = Mark /\ Len(Mark) \in Nat
  BY <1>3
<1>5. FitsWithEllipsis(0)
  BY <1>2, <1>3 DEF FitsWithEllipsis
<1>6. LoopInv
  BY <1>1, <1>2, <1>3, <1>4, <1>5 DEF LoopInv
<1>7. QED
  BY <1>2, <1>6 DEF IInv, ShowsTheMost

\* The reference depends on nothing but the name.
LEMMA SameName ==
  ASSUME s' = s
  PROVE  /\ Name' = Name /\ Mark' = Mark /\ Room' = Room
         /\ UnitsOf' = UnitsOf /\ Fragments' = Fragments /\ MostRunes' = MostRunes
         /\ \A n : Rendering(n)' = Rendering(n)
  BY DEF Name, Mark, Room, UnitsOf, Fragments, MostRunes, Rendering, UnitsShown,
     UnitsWritten, Fragment, Bytes, Escaped, Safe

LEMMA WriteKeeps == ASSUME IInv, Write PROVE IInv'
<1>1. /\ s \in Name /\ Len(s) \in Nat /\ at \in 1..(Len(s) + 1)
      /\ b \in Seq(Signs) /\ units \in Nat /\ cut \in 0..Len(b) /\ Room \in Nat
  BY LoopType DEF IInv
<1>2. /\ text = <<>> /\ text' = text /\ s' = s /\ at \in 1..Len(s) /\ at' = at + 1
      /\ units + Units(s[at]) <= Room
      /\ b' = b \o Fragment(at) /\ units' = units + Units(s[at])
      /\ cut' = IF units' <= Room - 1 THEN Len(b') ELSE cut
  BY <1>1 DEF Write
<1>3. /\ UnitsOf[at] = UnitsOf[at - 1] + Units(s[at])
      /\ Fragments[at] = Fragments[at - 1] \o Fragment(at)
      /\ Fragments[at - 1] \in Seq(Pieces) /\ Fragment(at) \in Seq(Pieces)
      /\ Units(s[at]) \in 1..6 /\ at - 1 \in 0..Len(s)
  <2>1. at \in 1..Len(s) /\ at - 1 \in 0..Len(s)
    BY <1>1, <1>2
  <2>2. /\ UnitsOf[at] = UnitsOf[at - 1] + Units(s[at])
        /\ Fragments[at] = Fragments[at - 1] \o Fragment(at)
        /\ Fragments[at - 1] \in Seq(Pieces)
    BY <1>1, <2>1, RunningValues
  <2>3. Fragment(at) \in Seq(Pieces) /\ Units(s[at]) \in 1..6
    BY <1>1, <2>1, RuneSizes
  <2>4. QED
    BY <2>1, <2>2, <2>3
<1>4. b = Mark \o Fragments[at - 1] /\ units = UnitsOf[at - 1]
  BY DEF IInv, LoopInv
<1>5. units' = UnitsOf[at] /\ units' <= Room
  BY <1>2, <1>3, <1>4
<1>6. b' = Mark \o Fragments[at] /\ b' \in Seq(Signs) /\ Len(b') >= Len(b)
  <2>1. Mark \in Seq(Signs) /\ Fragments[at - 1] \in Seq(Signs) /\ Fragment(at) \in Seq(Signs)
    <3>1. Pieces \subseteq Signs
      BY DEF Signs
    <3>2. Fragments[at - 1] \in Seq(Signs) /\ Fragment(at) \in Seq(Signs)
      BY <1>3, <3>1
    <3>3. QED
      BY <3>2, Surroundings
  <2>2. \A x, y, z \in Seq(Signs) : (x \o y) \o z = x \o (y \o z)
    OBVIOUS
  <2>3. b' = b \o Fragment(at)
    BY <1>2, Zenon
  <2> DEFINE f == Fragments[at - 1]
             g == Fragments[at]
             h == Fragment(at)
             m == Mark
  <2>4. b = m \o f /\ b' = b \o h /\ g = f \o h
    BY <1>3, <1>4, <2>3, Zenon
  <2>5. m \in Seq(Signs) /\ f \in Seq(Signs) /\ h \in Seq(Signs)
    BY <2>1
  <2> HIDE DEF f, g, h, m
  <2>6. b' = m \o g
    BY <2>2, <2>4, <2>5
  <2>7. b \o h \in Seq(Signs) /\ Len(b \o h) >= Len(b)
    BY <1>1, <2>1 DEF h
  <2>8. QED
    BY <2>4, <2>6, <2>7 DEF g, m
<1>7. cut' \in 0..Len(b')
  <2>1. Len(b) \in Nat /\ Len(b') \in Nat /\ Len(b') >= Len(b)
    BY <1>1, <1>6
  <2>2. cut' = cut \/ cut' = Len(b')
    BY <1>2
  <2>3. QED
    BY <1>1, <2>1, <2>2
<1>8. \E c \in 0..at : /\ UnitsOf[c] <= Room - 1
                       /\ \A n \in (c + 1)..at : UnitsOf[n] > Room - 1
                       /\ SubSeq(b', 1, cut') = Mark \o Fragments[c]
  <2>1. CASE units' <= Room - 1
    <3>1. SubSeq(b', 1, Len(b')) = b'
      BY <1>6
    <3>2. cut' = Len(b') /\ at \in 0..at /\ (at + 1)..at = {}
      BY <1>1, <1>2, <2>1
    <3>3. QED
      BY <1>5, <1>6, <2>1, <3>1, <3>2
  <2>2. CASE ~(units' <= Room - 1)
    <3>1. PICK c \in 0..(at - 1) :
              FitsWithEllipsis(c) /\ SubSeq(b, 1, cut) = Mark \o Fragments[c]
      BY DEF IInv, LoopInv
    <3>2. cut' = cut /\ SubSeq(b', 1, cut) = SubSeq(b, 1, cut)
      <4>1. Fragment(at) \in Seq(Signs)
        BY <1>3 DEF Signs
      <4>2. QED
        BY <1>1, <1>2, <2>2, <4>1
    <3>3. UnitsOf[at] > Room - 1
      <4>1. units' \in Nat
        <5>1. at \in 0..Len(s)
          BY <1>1, <1>2
        <5>2. QED
          BY <1>1, <1>5, <5>1, RunningValues
      <4>2. units' > Room - 1
        BY <1>1, <2>2, <4>1
      <4>3. QED
        BY <1>5, <4>2
    <3>4. \A n \in (c + 1)..at : UnitsOf[n] > Room - 1
      BY <1>1, <3>1, <3>3 DEF FitsWithEllipsis
    <3>5. c \in 0..at
      BY <1>1
    <3>6. UnitsOf[c] <= Room - 1
      BY <3>1 DEF FitsWithEllipsis
    <3>7. SubSeq(b', 1, cut') = Mark \o Fragments[c]
      BY <3>1, <3>2
    <3>8. QED
      BY <3>4, <3>5, <3>6, <3>7
  <2>3. QED
    BY <2>1, <2>2
<1>9. LoopInv'
  <2>1. at' - 1 = at /\ at' \in 1..(Len(s) + 1)
    BY <1>1, <1>2
  <2>2. \E c \in 0..(at' - 1) :
            FitsWithEllipsis(c)' /\ SubSeq(b', 1, cut') = Mark \o Fragments[c]
    BY <1>2, <1>8, <2>1, SameName DEF FitsWithEllipsis
  <2>3. QED
    BY <1>1, <1>2, <1>5, <1>6, <1>7, <2>1, <2>2, SameName DEF LoopInv
<1>10. ShowsTheMost'
  BY <1>2 DEF ShowsTheMost
<1>11. QED
  BY <1>9, <1>10 DEF IInv

\* A text that is the rendering of the most runes has all that is asked of it.
LEMMA MostIsShown ==
  ASSUME LoopInv, NEW k \in 0..Len(s), k = MostRunes, text' = Rendering(k),
         UNCHANGED <<s, at, b, units, cut>>
  PROVE  IInv'
<1>1. s \in Name
  BY DEF LoopInv
<1>2. LoopInv'
  BY SameName DEF LoopInv, FitsWithEllipsis
<1>3. \A j \in 1..Len(text') :
          text'[j][1] \in 1..Len(s) /\ Breaking(s[text'[j][1]])
              => text'[1] # <<0, 1>> /\ Bytes(s[text'[j][1]]) > 1
  BY <1>1, RenderingIsSafe
<1>4. ShowsTheMost'
  BY <1>3, SameName DEF ShowsTheMost, Bytes, Escaped, Safe
<1>5. QED
  BY <1>2, <1>4 DEF IInv

LEMMA FinishKeeps == ASSUME IInv, Finish PROVE IInv'
<1>1. /\ s \in Name /\ Len(s) \in Nat /\ at = Len(s) + 1 /\ at - 1 = Len(s)
      /\ text' = b \o Mark /\ UNCHANGED <<s, at, b, units, cut>>
  BY LoopType DEF IInv, Finish
<1>2. b = Mark \o Fragments[Len(s)] /\ UnitsOf[Len(s)] <= Room
  BY <1>1 DEF IInv, LoopInv
<1>3. MostRunes = Len(s)
  <2>1. UnitsShown(Len(s)) <= Limit
    <3>1. Len(s) \in 0..Len(s)
      BY <1>1
    <3>2. QED
      BY <1>1, <1>2, <3>1, ShownWithin
  <2>2. (Len(s) + 1)..Len(s) = {} /\ Len(s) \in 0..Len(s)
    BY <1>1
  <2>3. QED
    BY <1>1, <2>1, <2>2, MostRunesIs
<1>4. text' = Rendering(Len(s))
  <2>1. Mark \in Seq(Signs) /\ Fragments[Len(s)] \in Seq(Signs)
    <3>1. Len(s) \in 0..Len(s)
      BY <1>1
    <3>2. Fragments[Len(s)] \in Seq(Pieces)
      BY <1>1, <3>1, RunningValues
    <3>3. QED
      BY <3>2, Surroundings DEF Signs
  <2>2. (Mark \o Fragments[Len(s)]) \o <<>> = Mark \o Fragments[Len(s)]
    BY <2>1
  <2>3. QED
    BY <1>1, <1>2, <2>2 DEF Rendering
<1>5. Len(s) \in 0..Len(s) /\ LoopInv
  BY <1>1 DEF IInv
<1>6. QED
  BY <1>1, <1>3, <1>4, <1>5, MostIsShown

LEMMA CutKeeps == ASSUME IInv, Cut PROVE IInv'
<1>1. /\ s \in Name /\ Len(s) \in Nat /\ at \in 1..Len(s) /\ Room \in Nat
      /\ units + Units(s[at]) > Room
      /\ text' = SubSeq(b, 1, cut) \o Ellipsis \o Mark
      /\ UNCHANGED <<s, at, b, units, cut>>
  BY LoopType DEF IInv, Cut
<1>2. PICK c \in 0..(at - 1) :
          FitsWithEllipsis(c) /\ SubSeq(b, 1, cut) = Mark \o Fragments[c]
  BY DEF IInv, LoopInv
<1>3. c \in 0..Len(s) /\ c < Len(s)
  BY <1>1
<1>4. UnitsOf[at] > Room
  <2>1. UnitsOf[at] = UnitsOf[at - 1] + Units(s[at])
    BY <1>1, RunningValues
  <2>2. QED
    BY <1>1, <2>1 DEF IInv, LoopInv
<1>5. UnitsShown(c) <= Limit
  BY <1>1, <1>2, <1>3, ShownWithin DEF FitsWithEllipsis
<1>6. ASSUME NEW n \in (c + 1)..Len(s)
      PROVE  UnitsShown(n) > Limit
  <2>1. n \in 0..Len(s) /\ UnitsOf[n] \in Nat /\ UnitsOf[at] \in Nat
    BY <1>1, RunningValues
  <2>2. CASE n <= at - 1
    <3>1. n < Len(s) /\ UnitsOf[n] > Room - 1
      BY <1>1, <1>2, <2>2 DEF FitsWithEllipsis
    <3>2. ~(UnitsShown(n) <= Limit)
      BY <1>1, <2>1, <3>1, ShownWithin
    <3>3. QED
      BY <1>1, <2>1, <3>2, ShownIsNumber
  <2>3. CASE ~(n <= at - 1)
    <3>1. at \in 0..Len(s) /\ n \in at..Len(s)
      BY <1>1, <2>3
    <3>2. UnitsOf[n] > Room
      <4>1. UnitsOf[at] <= UnitsOf[n]
        BY <1>1, <3>1, UnitsGrow
      <4>2. QED
        BY <1>1, <1>4, <2>1, <4>1
    <3>3. ~(UnitsShown(n) <= Limit)
      <4>1. n \in Nat /\ Len(s) \in Nat /\ n <= Len(s)
        BY <1>1, <2>1
      <4>2. ~(UnitsOf[n] <= Room) /\ ~(UnitsOf[n] <= Room - 1)
        BY <1>1, <2>1, <3>2
      <4>3. CASE n = Len(s)
        BY <1>1, <2>1, <4>2, <4>3, ShownWithin
      <4>4. CASE n < Len(s)
        BY <1>1, <2>1, <4>2, <4>4, ShownWithin
      <4>5. QED
        BY <4>1, <4>3, <4>4
    <3>4. QED
      BY <1>1, <2>1, <3>3, ShownIsNumber
  <2>4. QED
    BY <2>2, <2>3
<1>7. MostRunes = c
  BY <1>1, <1>3, <1>5, <1>6, MostRunesIs
<1>8. text' = Rendering(c)
  <2>1. c # Len(s) /\ text' = (Mark \o Fragments[c]) \o Ellipsis \o Mark
    <3>1. c # Len(s)
      BY <1>1, <1>3
    <3>2. QED
      BY <1>1, <1>2, <3>1, Zenon
  <2>2. QED
    BY <2>1 DEF Rendering
<1>9. LoopInv
  BY DEF IInv
<1>10. QED
  BY <1>1, <1>3, <1>7, <1>8, <1>9, MostIsShown

\* The inductive invariant, for names of every length and every limit with room for an
\* escape (the loop of renderBounded).
THEOREM Invariance == Spec => []IInv
<1>1. IInv /\ [Next]_vars => IInv'
  <2> SUFFICES ASSUME IInv, [Next]_vars PROVE IInv'
    OBVIOUS
  <2>1. CASE UNCHANGED vars
    <3>1. s' = s /\ at' = at /\ b' = b /\ units' = units /\ cut' = cut /\ text' = text
      BY <2>1 DEF vars
    <3>2. LoopInv'
      BY <3>1, SameName DEF IInv, LoopInv, FitsWithEllipsis
    <3>3. ShowsTheMost'
      BY <3>1, SameName DEF IInv, ShowsTheMost, Bytes, Escaped, Safe
    <3>4. QED
      BY <3>2, <3>3 DEF IInv
  <2>2. QED
    BY <2>1, WriteKeeps, FinishKeeps, CutKeeps DEF Next
<1>2. QED
  BY <1>1, InitIInv, PTL DEF Spec

\* A field shows the most whole characters of a name that Discord allows, with an
\* ellipsis exactly when some are missing, and nothing in it can break the field
\* (renderBounded).
THEOREM ShowsTheMostHolds == Spec => []ShowsTheMost
<1>1. IInv => ShowsTheMost
  BY DEF IInv
<1>2. QED
  BY <1>1, Invariance, PTL
=============================================================================

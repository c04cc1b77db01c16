---------------------------- MODULE WidgetsProofs ----------------------------
(***************************************************************************)
(* The elements and their style sheets, for any sheets, any elements and   *)
(* buttons in any order of rendering, any declarations and values: an      *)
(* element whose rules are well written looks in every drawn frame as the  *)
(* last rule for its event says, a button that is left looks as if it had  *)
(* never been entered, and such a sheet does not end the program.  First   *)
(* the text of a sheet (what its author writes, what a search for an id    *)
(* finds in it, which piece goes to which event and what parsing a piece   *)
(* starts), then the frames that work with it.                             *)
(***************************************************************************)
EXTENDS Widgets, SequenceTheorems, WellFoundedInduction, TLAPS

(***************************************************************************)
(* Induction, with a set in place of a predicate.                          *)
(***************************************************************************)
LEMMA SetInduction ==
  ASSUME NEW T \in SUBSET Nat, 0 \in T, \A n \in T : n + 1 \in T
  PROVE  T = Nat
<1> SUFFICES ASSUME Nat \ T # {} PROVE FALSE  OBVIOUS
<1> DEFINE S == {p \in Nat \X Nat : p[1] < p[2]}
<1>1. IsWellFoundedOn(S, Nat)
  <2>1. OpToRel(<, Nat) = S  BY Zenon DEF OpToRel
  <2> QED  BY <2>1, NatLessThanWellFounded, Zenon
<1>2. PICK m \in Nat \ T : \A k \in Nat \ T : ~ (<<k, m>> \in S)
  <2> HIDE DEF S
  <2>1. Nat \ T \subseteq Nat  OBVIOUS
  <2> QED  BY <1>1, <2>1, WFMin, Zenon
<1>3. m # 0 /\ m - 1 \in Nat  OBVIOUS
<1>4. <<m - 1, m>> \in S  BY <1>3
<1>5. m - 1 \in T  BY <1>2, <1>3, <1>4
<1>6. m - 1 + 1 \in T  BY <1>5
<1> QED  BY <1>2, <1>6, <1>3

-----------------------------------------------------------------------------
(* What FlattenSeq lays out, one sequence behind the other.                 *)

\* The function FlattenSeq computes, up to n.
Joins(f, seqs, n) ==
  f = [i \in 1 .. n |-> IF i = 1 THEN seqs[i] ELSE f[i - 1] \o seqs[i]]

(* There is such a function, for every n.                                  *)
LEMMA JoinsExists ==
  ASSUME NEW seqs, NEW n \in Nat
  PROVE  \E f : Joins(f, seqs, n)
<1> DEFINE T == {m \in Nat : \E f : Joins(f, seqs, m)}
<1>1. 0 \in T
  <2>1. Joins([i \in 1 .. 0 |-> <<>>], seqs, 0)
    <3>1. \A i \in 1 .. 0 : FALSE  OBVIOUS
    <3> QED  BY <3>1, Zenon DEF Joins
  <2> QED  BY <2>1
<1>2. ASSUME NEW m \in T PROVE m + 1 \in T
  <2>1. PICK f : Joins(f, seqs, m)  BY <1>2
  <2> DEFINE g == [i \in 1 .. m + 1 |->
                     IF i = 1 THEN seqs[i] ELSE f[i - 1] \o seqs[i]]
  <2>2. ASSUME NEW i \in 1 .. m, i # 1 PROVE f[i] = f[i - 1] \o seqs[i]
    BY <2>1, <2>2, Zenon DEF Joins
  <2>3. ASSUME NEW i \in 1 .. m PROVE g[i] = f[i]
    <3>0. i \in 1 .. m + 1  BY <1>2, <2>3
    <3>1. CASE i = 1
      <4>1. f[i] = seqs[i]  BY <2>1, <3>1, Zenon DEF Joins
      <4> QED  BY <3>0, <3>1, <4>1, Zenon
    <3>2. CASE i # 1
      <4>1. f[i] = f[i - 1] \o seqs[i]  BY <2>2, <3>2
      <4> QED  BY <3>0, <3>2, <4>1, Zenon
    <3> QED  BY <3>1, <3>2
  <2>4. ASSUME NEW i \in 1 .. m + 1
        PROVE  g[i] = IF i = 1 THEN seqs[i] ELSE g[i - 1] \o seqs[i]
    <3>1. CASE i = 1  BY <3>1, Zenon
    <3>2. CASE i # 1
      <4>1. i - 1 \in 1 .. m  BY <1>2, <2>4, <3>2
      <4>2. g[i - 1] = f[i - 1]  BY <2>3, <4>1
      <4> QED  BY <3>2, <4>2, Zenon
    <3> QED  BY <3>1, <3>2
  <2>5. Joins(g, seqs, m + 1)
    <3>1. g = [i \in 1 .. m + 1 |-> g[i]]  BY Zenon
    <3> HIDE DEF g
    <3>2. [i \in 1 .. m + 1 |-> g[i]] =
          [i \in 1 .. m + 1 |-> IF i = 1 THEN seqs[i] ELSE g[i - 1] \o seqs[i]]
      BY <2>4, Zenon
    <3> QED  BY <3>1, <3>2, Zenon DEF Joins
  <2> HIDE DEF g
  <2>6. m + 1 \in Nat  BY <1>2
  <2> QED  BY <2>5, <2>6
<1>3. T = Nat
  <2>1. T \in SUBSET Nat  OBVIOUS
  <2> HIDE DEF T
  <2> QED  BY <1>1, <1>2, <2>1, SetInduction
<1> QED  BY <1>3

\* The text so far: g[k] are the first k sequences.
Beginnings(g, seqs) ==
  /\ g[0] = <<>>
  /\ \A k \in 1 .. Len(seqs) : g[k] = g[k - 1] \o seqs[k]

(* FlattenSeq is the last of the beginnings.                                 *)
LEMMA FlattenIsPrefix ==
  ASSUME NEW S, NEW seqs, seqs \in Seq(Seq(S))
  PROVE  \E g : /\ Beginnings(g, seqs)
                /\ seqs # <<>> => FlattenSeq(seqs) = g[Len(seqs)]
                /\ seqs = <<>> => FlattenSeq(seqs) = <<>>
<1> DEFINE n == Len(seqs)
<1>1. n \in Nat /\ (seqs = <<>> <=> n = 0)  BY LenProperties, EmptySeq
<1>2. \A k \in 1 .. n : seqs[k] \in Seq(S)  BY ElementOfSeq
<1>3. \E f : Joins(f, seqs, n)  BY <1>1, JoinsExists
<1> DEFINE f == CHOOSE h : Joins(h, seqs, n)
<1>4. Joins(f, seqs, n)  BY <1>3, Zenon
<1>5. seqs # <<>> => FlattenSeq(seqs) = f[n]
  <2>1. n # 0 => FlattenSeq(seqs) = f[n]  BY Zenon DEF FlattenSeq, Joins
  <2> QED  BY <1>1, <2>1
<1>6. seqs = <<>> => FlattenSeq(seqs) = <<>>
  <2>1. n = 0 => FlattenSeq(seqs) = seqs  BY Zenon DEF FlattenSeq
  <2> QED  BY <1>1, <2>1
<1> HIDE DEF f
<1>7. ASSUME NEW i \in 1 .. n
      PROVE  f[i] = IF i = 1 THEN seqs[i] ELSE f[i - 1] \o seqs[i]
  BY <1>4, Zenon DEF Joins
<1> HIDE DEF n
<1> DEFINE g == [k \in 0 .. n |-> IF k = 0 THEN <<>> ELSE f[k]]
<1>8. g[0] = <<>> /\ (n # 0 => g[n] = f[n])  BY <1>1
<1>9. ASSUME NEW k \in 1 .. n PROVE g[k] = g[k - 1] \o seqs[k]
  <2>1. k \in 0 .. n /\ k # 0 /\ k - 1 \in 0 .. n  BY <1>1
  <2>2. g[k] = f[k]  BY <2>1
  <2>3. CASE k = 1
    <3>1. f[k] = seqs[k]  BY <1>7, <2>3, Zenon
    <3>2. g[k - 1] = <<>>  BY <1>8, <2>3
    <3>3. seqs[k] \in Seq(S)  BY <1>2 DEF n
    <3>4. <<>> \o seqs[k] = seqs[k]  BY <3>3, ConcatEmptySeq
    <3> QED  BY <2>2, <3>1, <3>2, <3>4
  <2>4. CASE k # 1
    <3>1. f[k] = f[k - 1] \o seqs[k]  BY <1>7, <2>4, Zenon
    <3>2. g[k - 1] = f[k - 1]  BY <2>1, <2>4
    <3> QED  BY <2>2, <3>1, <3>2, Zenon
  <2> QED  BY <2>3, <2>4
<1> HIDE DEF g
<1>10. Beginnings(g, seqs)  BY <1>8, <1>9 DEF Beginnings, n
<1> QED  BY <1>1, <1>5, <1>6, <1>8, <1>10 DEF n

\* The first m sequences lie in g[m], each at its place, and nothing else does.
LiesIn(g, seqs, m) ==
  /\ \A k \in 1 .. m :
       /\ Len(g[k - 1]) + Len(seqs[k]) <= Len(g[m])
       /\ \A j \in 1 .. Len(seqs[k]) : g[m][Len(g[k - 1]) + j] = seqs[k][j]
  /\ \A i \in 1 .. Len(g[m]) :
       \E k \in 1 .. m : \E j \in 1 .. Len(seqs[k]) : i = Len(g[k - 1]) + j

\* u is s and then t.
IsConcat(u, s, t) ==
  /\ Len(s) \in Nat /\ Len(t) \in Nat /\ Len(u) = Len(s) + Len(t)
  /\ \A i \in 1 .. Len(s) : u[i] = s[i]
  /\ \A j \in 1 .. Len(t) : u[Len(s) + j] = t[j]

(* Where the elements of a concatenation are.                              *)
LEMMA ConcatPlaces ==
  ASSUME NEW S, NEW s, NEW t, s \in Seq(S), t \in Seq(S)
  PROVE  IsConcat(s \o t, s, t)
BY LenProperties, ConcatProperties DEF IsConcat

(* The beginnings are sequences of the same set.                             *)
LEMMA BeginningsTyped ==
  ASSUME NEW S, NEW seqs, seqs \in Seq(Seq(S)), NEW g, Beginnings(g, seqs)
  PROVE  \A m \in 0 .. Len(seqs) : g[m] \in Seq(S)
<1> DEFINE n == Len(seqs)
           T == {m \in Nat : m <= n => g[m] \in Seq(S)}
<1>1. n \in Nat /\ \A k \in 1 .. n : seqs[k] \in Seq(S)  BY LenProperties, ElementOfSeq
<1>2. g[0] = <<>> /\ \A k \in 1 .. n : g[k] = g[k - 1] \o seqs[k]
  BY DEF Beginnings
<1> HIDE DEF n
<1>3. 0 \in T  BY <1>2, EmptySeq
<1>4. ASSUME NEW m \in T PROVE m + 1 \in T
  <2> SUFFICES ASSUME m + 1 <= n PROVE g[m + 1] \in Seq(S)
    BY <1>4
  <2>1. PICK l : l = m + 1  OBVIOUS
  <2>2. m \in Nat /\ l \in 1 .. n /\ l - 1 = m /\ m <= n  BY <1>1, <1>4, <2>1
  <2>3. g[m] \in Seq(S) /\ g[l] = g[m] \o seqs[l] /\ seqs[l] \in Seq(S)
    BY <1>1, <1>2, <1>4, <2>2
  <2> QED  BY <2>1, <2>3, ConcatProperties
<1>5. T = Nat
  <2>1. T \in SUBSET Nat  OBVIOUS
  <2> HIDE DEF T
  <2> QED  BY <1>3, <1>4, <2>1, SetInduction
<1> QED  BY <1>1, <1>5 DEF n

(* By induction on the number of sequences, each lies at its place.        *)
LEMMA BeginningsLie ==
  ASSUME NEW S, NEW seqs, seqs \in Seq(Seq(S)), NEW g, Beginnings(g, seqs)
  PROVE  \A m \in 0 .. Len(seqs) : LiesIn(g, seqs, m)
<1> DEFINE n == Len(seqs)
           T == {m \in Nat : m <= n => LiesIn(g, seqs, m)}
<1>1. n \in Nat /\ \A k \in 1 .. n : seqs[k] \in Seq(S)  BY LenProperties, ElementOfSeq
<1>2. g[0] = <<>> /\ \A k \in 1 .. n : g[k] = g[k - 1] \o seqs[k]
  BY DEF Beginnings
<1>3. \A m \in 0 .. n : g[m] \in Seq(S) /\ Len(g[m]) \in Nat
  BY BeginningsTyped, LenProperties
<1>4. \A k \in 1 .. n : Len(seqs[k]) \in Nat  BY <1>1, LenProperties
<1> HIDE DEF n
<1>5. 0 \in T
  <2>1. Len(g[0]) = 0  BY <1>2, EmptySeq
  <2>2. LiesIn(g, seqs, 0)  BY <2>1 DEF LiesIn
  <2> QED  BY <2>2
<1>6. ASSUME NEW m \in T PROVE m + 1 \in T
  <2> SUFFICES ASSUME m + 1 <= n PROVE LiesIn(g, seqs, m + 1)
    BY <1>6
  <2>1. PICK l : l = m + 1  OBVIOUS
  <2>2. m \in Nat /\ l \in 1 .. n /\ l - 1 = m /\ m <= n /\ m \in 0 .. n  BY <1>1, <1>6, <2>1
  <2>3. LiesIn(g, seqs, m)  BY <1>6, <2>2
  <2>4. g[l] = g[m] \o seqs[l] /\ seqs[l] \in Seq(S) /\ g[m] \in Seq(S)
    BY <1>1, <1>2, <1>3, <2>2
  <2>5. Len(g[m]) \in Nat /\ Len(seqs[l]) \in Nat
        /\ Len(g[l]) = Len(g[m]) + Len(seqs[l])
        /\ (\A i \in 1 .. Len(g[m]) : g[l][i] = g[m][i])
        /\ (\A j \in 1 .. Len(seqs[l]) : g[l][Len(g[m]) + j] = seqs[l][j])
    <3>1. IsConcat(g[m] \o seqs[l], g[m], seqs[l])  BY <2>4, ConcatPlaces
    <3>2. IsConcat(g[l], g[m], seqs[l])  BY <2>4, <3>1
    <3> QED  BY <3>2, Zenon DEF IsConcat
  <2>6. ASSUME NEW k \in 1 .. m
        PROVE  /\ Len(g[k - 1]) + Len(seqs[k]) <= Len(g[l])
               /\ \A j \in 1 .. Len(seqs[k]) : g[l][Len(g[k - 1]) + j] = seqs[k][j]
    <3>1. Len(g[k - 1]) \in Nat /\ Len(seqs[k]) \in Nat
      BY <1>3, <1>4, <2>2
    <3>2. Len(g[k - 1]) + Len(seqs[k]) <= Len(g[m])
          /\ \A j \in 1 .. Len(seqs[k]) : g[m][Len(g[k - 1]) + j] = seqs[k][j]
      BY <2>3, Zenon DEF LiesIn
    <3>3. \A a, b, c \in Nat : a + b <= c => \A j \in 1 .. b : a + j \in 1 .. c
      OBVIOUS
    <3>4. \A j \in 1 .. Len(seqs[k]) : Len(g[k - 1]) + j \in 1 .. Len(g[m])
      BY <2>5, <3>1, <3>2, <3>3, Zenon
    <3>6. \A j \in 1 .. Len(seqs[k]) :
            g[l][Len(g[k - 1]) + j] = g[m][Len(g[k - 1]) + j]
      BY <2>5, <3>4, Zenon
    <3>7. ASSUME NEW j \in 1 .. Len(seqs[k])
          PROVE  g[l][Len(g[k - 1]) + j] = seqs[k][j]
      BY <3>2, <3>6
    <3>5. Len(g[k - 1]) + Len(seqs[k]) <= Len(g[l])
      <4> DEFINE a == Len(g[k - 1])  b == Len(seqs[k])  c == Len(g[m])  d == Len(seqs[l])
      <4>1. a \in Nat /\ b \in Nat /\ c \in Nat /\ d \in Nat  BY <2>5, <3>1, Zenon
      <4>2. a + b <= c /\ Len(g[l]) = c + d  BY <2>5, <3>2, Zenon
      <4> HIDE DEF a, b, c, d
      <4>3. a + b <= c + d  BY <4>1, <4>2
      <4>4. a + b <= Len(g[l])  BY <4>2, <4>3, Zenon
      <4> QED  BY <4>4 DEF a, b
    <3> QED  BY <3>5, <3>7
  <2>7. /\ Len(g[l - 1]) + Len(seqs[l]) <= Len(g[l])
        /\ \A j \in 1 .. Len(seqs[l]) : g[l][Len(g[l - 1]) + j] = seqs[l][j]
    BY <2>2, <2>5
  <2>8. ASSUME NEW i \in 1 .. Len(g[l])
        PROVE  \E k \in 1 .. l : \E j \in 1 .. Len(seqs[k]) : i = Len(g[k - 1]) + j
    <3>1. CASE i <= Len(g[m])
      <4>1. i \in 1 .. Len(g[m])  BY <2>5, <3>1
      <4>2. \E k \in 1 .. m : \E j \in 1 .. Len(seqs[k]) : i = Len(g[k - 1]) + j
        BY <2>3, <4>1, Zenon DEF LiesIn
      <4>3. 1 .. m \subseteq 1 .. l  BY <2>2
      <4> QED  BY <4>2, <4>3, Zenon
    <3>2. CASE i > Len(g[m])
      <4> DEFINE a == Len(g[m])  b == Len(seqs[l])
      <4>0. a \in Nat /\ b \in Nat /\ i \in 1 .. a + b /\ i > a /\ Len(g[l - 1]) = a
        BY <2>2, <2>5, <3>2, Zenon
      <4> HIDE DEF a, b
      <4>3. i - a \in 1 .. b /\ i = Len(g[l - 1]) + (i - a)  BY <4>0
      <4>1. i - Len(g[m]) \in 1 .. Len(seqs[l]) /\ i = Len(g[l - 1]) + (i - Len(g[m]))
        BY <4>3 DEF a, b
      <4>2. l \in 1 .. l  BY <2>2
      <4> QED  BY <4>1, <4>2, Zenon
    <3> QED  BY <2>5, <3>1, <3>2
  <2>9. \A k \in 1 .. l : k \in 1 .. m \/ k = l  BY <2>2
  <2> QED  BY <2>1, <2>6, <2>7, <2>8, <2>9, Zenon DEF LiesIn
<1>7. T = Nat
  <2>1. T \in SUBSET Nat  OBVIOUS
  <2> HIDE DEF T
  <2> QED  BY <1>5, <1>6, <2>1, SetInduction
<1> QED  BY <1>1, <1>7 DEF n

\* full is the sequences seqs one behind the other, the k-th behind off[k].
Lies(seqs, off, full) ==
  /\ \A k \in 1 .. Len(seqs) :
       /\ off[k] \in Nat /\ off[k] + Len(seqs[k]) <= Len(full)
       /\ \A j \in 1 .. Len(seqs[k]) : full[off[k] + j] = seqs[k][j]
       /\ \A l \in 1 .. Len(seqs) : l < k => off[l] + Len(seqs[l]) <= off[k]
  /\ \A i \in 1 .. Len(full) :
       \E k \in 1 .. Len(seqs) : \E j \in 1 .. Len(seqs[k]) : i = off[k] + j

\* Nothing is between them.
EndToEnd(seqs, off) ==
  \A k \in 1 .. Len(seqs) : off[k] = IF k = 1 THEN 0 ELSE off[k - 1] + Len(seqs[k - 1])

(***************************************************************************)
(* FlattenSeq lays sequences out one behind the other.                     *)
(***************************************************************************)
LEMMA Flattened ==
  ASSUME NEW S, NEW seqs, seqs \in Seq(Seq(S))
  PROVE  /\ FlattenSeq(seqs) \in Seq(S)
         /\ \E off : Lies(seqs, off, FlattenSeq(seqs)) /\ EndToEnd(seqs, off)
<1>1. PICK g : /\ Beginnings(g, seqs)
               /\ seqs # <<>> => FlattenSeq(seqs) = g[Len(seqs)]
               /\ seqs = <<>> => FlattenSeq(seqs) = <<>>
  BY FlattenIsPrefix
<1> DEFINE n == Len(seqs)
           full == FlattenSeq(seqs)
           off == [k \in 1 .. n |-> Len(g[k - 1])]
<1>2. n \in Nat /\ \A k \in 1 .. n : seqs[k] \in Seq(S)  BY LenProperties, ElementOfSeq
<1>3. \A m \in 0 .. n : g[m] \in Seq(S) /\ LiesIn(g, seqs, m)
  BY <1>1, BeginningsTyped, BeginningsLie
<1>4. \A m \in 0 .. n : Len(g[m]) \in Nat  BY <1>3, LenProperties
<1>5. full = g[n]
  <2>1. CASE seqs = <<>>
    <3>1. g[0] = <<>> /\ n = 0  BY <1>1, <2>1 DEF Beginnings
    <3> QED  BY <1>1, <2>1, <3>1
  <2>2. CASE seqs # <<>>  BY <1>1, <2>2
  <2> QED  BY <2>1, <2>2
<1>6. \A k \in 1 .. n : Len(seqs[k]) \in Nat  BY <1>2, LenProperties
<1> HIDE DEF full, n
<1>7. \A k \in 1 .. n : off[k] = Len(g[k - 1]) /\ off[k] \in Nat
  <2>1. \A k \in 1 .. n : k - 1 \in 0 .. n  BY <1>2
  <2> QED  BY <1>4, <2>1
<1> HIDE DEF off
<1>8. ASSUME NEW k \in 1 .. n
      PROVE  /\ off[k] \in Nat /\ off[k] + Len(seqs[k]) <= Len(full)
             /\ \A j \in 1 .. Len(seqs[k]) : full[off[k] + j] = seqs[k][j]
             /\ \A l \in 1 .. n : l < k => off[l] + Len(seqs[l]) <= off[k]
  <2>1. n \in 0 .. n  BY <1>2
  <2>2. /\ off[k] + Len(seqs[k]) <= Len(full)
        /\ \A j \in 1 .. Len(seqs[k]) : full[off[k] + j] = seqs[k][j]
    BY <1>3, <1>5, <1>7, <2>1 DEF LiesIn
  <2>3. ASSUME NEW l \in 1 .. n, l < k PROVE off[l] + Len(seqs[l]) <= off[k]
    <3>1. k - 1 \in 0 .. n /\ l \in 1 .. k - 1  BY <1>2, <2>3
    <3>2. LiesIn(g, seqs, k - 1)  BY <1>3, <3>1
    <3>3. Len(g[l - 1]) + Len(seqs[l]) <= Len(g[k - 1])  BY <3>1, <3>2, Zenon DEF LiesIn
    <3> QED  BY <1>7, <3>3
  <2> QED  BY <1>7, <2>2, <2>3
<1>9. ASSUME NEW i \in 1 .. Len(full)
      PROVE  \E k \in 1 .. n : \E j \in 1 .. Len(seqs[k]) : i = off[k] + j
  <2>1. n \in 0 .. n  BY <1>2
  <2>2. \E k \in 1 .. n : \E j \in 1 .. Len(seqs[k]) : i = Len(g[k - 1]) + j
    BY <1>3, <1>5, <1>9, <2>1, Zenon DEF LiesIn
  <2> QED  BY <1>7, <2>2
<1>10. Lies(seqs, off, full)  BY <1>8, <1>9 DEF Lies, n
<1>11. full \in Seq(S)
  <2>1. n \in 0 .. n  BY <1>2
  <2> QED  BY <1>3, <1>5, <2>1
<1>12. ASSUME NEW k \in 1 .. n
       PROVE  off[k] = IF k = 1 THEN 0 ELSE off[k - 1] + Len(seqs[k - 1])
  <2>1. CASE k = 1
    <3>1. g[0] = <<>>  BY <1>1, Zenon DEF Beginnings
    <3> QED  BY <1>7, <2>1, <3>1
  <2>2. CASE k # 1
    <3>1. PICK l : l = k - 1  OBVIOUS
    <3>2. l \in 1 .. n /\ k - 1 \in 1 .. n /\ l - 1 \in 0 .. n  BY <1>2, <2>2, <3>1
    <3>3. g[l] = g[l - 1] \o seqs[l]  BY <1>1, <3>2, Zenon DEF Beginnings, n
    <3>4. g[l - 1] \in Seq(S) /\ seqs[l] \in Seq(S)  BY <1>2, <1>3, <3>2
    <3>5. Len(g[l]) = Len(g[l - 1]) + Len(seqs[l])
      BY <3>3, <3>4, ConcatProperties
    <3>6. off[k] = Len(g[l]) /\ off[l] = Len(g[l - 1])  BY <1>7, <3>1, <3>2
    <3> QED  BY <2>2, <3>1, <3>5, <3>6
  <2> QED  BY <2>1, <2>2
<1>13. EndToEnd(seqs, off)  BY <1>12 DEF EndToEnd, n
<1> QED  BY <1>10, <1>11, <1>13 DEF full

-----------------------------------------------------------------------------
(* What an author writes: rules, bodies and declarations as tokens.        *)

\* What a body is made of.
BodyTokens(r) == {r.decls[j] : j \in DOMAIN r.decls} \cup {Space, ";"}
BodyOf(r)     == WrittenBody(r.decls, r.layout)

(* A rule of a sheet and the fields it has.                                *)
LEMMA RuleTyped ==
  ASSUME NEW r, r \in Rule
  PROVE  /\ r.id \in Ids /\ r.event \in Events /\ r.layout \in Layouts
         /\ r.decls \in Seq(DOMAIN Declares) /\ Len(r.decls) \in Nat
         /\ DOMAIN r.decls = 1 .. Len(r.decls)
         /\ \A j \in 1 .. Len(r.decls) : r.decls[j] \in DOMAIN Declares /\ r.decls[j] \in Words
<1>1. r.id \in Ids /\ r.event \in Events /\ r.layout \in Layouts
      /\ r.decls \in Seq(DOMAIN Declares)
  BY DEF Rule
<1>2. Len(r.decls) \in Nat /\ DOMAIN r.decls = 1 .. Len(r.decls)  BY <1>1, LenProperties
<1>3. \A j \in 1 .. Len(r.decls) : r.decls[j] \in DOMAIN Declares
  BY <1>1, ElementOfSeq
<1> QED  BY <1>1, <1>2, <1>3, DeclaresAssumption

\* The marks, by name.
OpenBrace  == "{"
CloseBrace == "}"
Semicolon  == ";"

(* Texts of one, two and three tokens.                                     *)
LEMMA OneToken ==
  ASSUME NEW S, NEW a, a \in S
  PROVE  <<a>> \in Seq(S) /\ Len(<<a>>) = 1 /\ <<a>>[1] = a
OBVIOUS

LEMMA TwoTokens ==
  ASSUME NEW S, NEW a, a \in S, NEW b, b \in S
  PROVE  <<a, b>> \in Seq(S)
<1>1. <<a, b>> \in [1 .. 2 -> S]  OBVIOUS
<1> QED  BY <1>1, SeqDef

LEMMA ThreeTokens ==
  ASSUME NEW S, NEW a, a \in S, NEW b, b \in S, NEW c, c \in S
  PROVE  <<a, b, c>> \in Seq(S)
<1>1. <<a, b, c>> \in [1 .. 3 -> S]  OBVIOUS
<1> QED  BY <1>1, SeqDef

(* A declaration is three tokens, unless the author glued it to its        *)
(* neighbours.                                                             *)
LEMMA DeclarationWritten ==
  ASSUME NEW S, NEW d, d \in S, Space \in S, Semicolon \in S, NEW layout
  PROVE  /\ WrittenDeclaration(d, layout) \in Seq(S)
         /\ layout # "glued" =>
              /\ Len(WrittenDeclaration(d, layout)) = 3
              /\ WrittenDeclaration(d, layout)[1] = Space
              /\ WrittenDeclaration(d, layout)[2] = d
              /\ WrittenDeclaration(d, layout)[3] = Semicolon
<1> DEFINE sp == Space  sc == Semicolon
<1>1. sp \in S /\ sc \in S  OBVIOUS
<1>2. WrittenDeclaration(d, layout) = IF layout = "glued" THEN <<d, sc>> ELSE <<sp, d, sc>>
  BY Zenon DEF WrittenDeclaration, Semicolon
<1> HIDE DEF sp, sc
<1>3. <<d, sc>> \in Seq(S)  BY <1>1, TwoTokens, Zenon
<1>4. <<sp, d, sc>> \in Seq(S)  BY <1>1, ThreeTokens, Zenon
<1>5. Len(<<sp, d, sc>>) = 3  OBVIOUS
<1>6. <<sp, d, sc>>[1] = sp /\ <<sp, d, sc>>[2] = d /\ <<sp, d, sc>>[3] = sc  OBVIOUS
<1>7. CASE layout = "glued"  BY <1>2, <1>3, <1>7, Zenon
<1>8. CASE layout # "glued"  BY <1>2, <1>4, <1>5, <1>6, <1>8, Zenon DEF sp, sc
<1> QED  BY <1>7, <1>8

(* The declarations of a rule are texts.                                   *)
LEMMA LinesTyped ==
  ASSUME NEW r, r \in Rule
  PROVE  [k \in DOMAIN r.decls |-> WrittenDeclaration(r.decls[k], r.layout)]
           \in Seq(Seq(BodyTokens(r)))
<1> DEFINE B == BodyTokens(r)
<1>1. ASSUME NEW k, k \in DOMAIN r.decls
      PROVE  WrittenDeclaration(r.decls[k], r.layout) \in Seq(B)
  <2>1. r.decls[k] \in B /\ Space \in B /\ Semicolon \in B
    BY <1>1, Zenon DEF BodyTokens, Semicolon
  <2> HIDE DEF B
  <2> QED  BY <2>1, DeclarationWritten
<1>2. DOMAIN r.decls = 1 .. Len(r.decls) /\ Len(r.decls) \in Nat  BY RuleTyped
<1> HIDE DEF B
<1> QED  BY <1>1, <1>2 DEF B

(* A body is made of the declarations of its rule, spaces and semicolons.  *)
LEMMA BodyTyped ==
  ASSUME NEW r, r \in Rule
  PROVE  BodyOf(r) \in Seq(BodyTokens(r)) /\ Len(BodyOf(r)) \in Nat
<1> DEFINE lines == [k \in DOMAIN r.decls |-> WrittenDeclaration(r.decls[k], r.layout)]
           B == BodyTokens(r)
<1>1. FlattenSeq(lines) \in Seq(B)  BY LinesTyped, Flattened
<1>2. Front(FlattenSeq(lines)) \in Seq(B)
  <2> DEFINE f == FlattenSeq(lines)
  <2> HIDE DEF lines, B
  <2>1. Len(f) \in Nat /\ \A i \in 1 .. Len(f) : f[i] \in B
    BY <1>1, LenProperties, ElementOfSeq
  <2>2. 1 \in Int /\ Len(f) - 1 \in Int /\ \A i \in 1 .. Len(f) - 1 : f[i] \in B
    BY <2>1
  <2> HIDE DEF f
  <2>3. SubSeq(f, 1, Len(f) - 1) \in Seq(B)  BY <2>2, SubSeqProperties
  <2> QED  BY <2>3 DEF Front, f
<1>3. BodyOf(r) \in Seq(B)
  BY <1>1, <1>2, Zenon DEF BodyOf, WrittenBody
<1> QED  BY <1>3, LenProperties

\* How long the part before the opening brace is, without the id.
Colon(r) == IF r.event = "none" THEN 0 ELSE 1

\* The text of a rule.
IsRule(w, r) ==
  /\ w \in Seq(Tokens) /\ Len(w) = Colon(r) + Len(BodyOf(r)) + 3
  /\ w[1] = Hash[r.id]
  /\ r.event = "hover" => w[2] = ":hover"
  /\ r.event = "active" => w[2] = ":active"
  /\ w[Colon(r) + 2] = OpenBrace
  /\ \A j \in 1 .. Len(BodyOf(r)) : w[Colon(r) + 2 + j] = BodyOf(r)[j]
  /\ w[Len(w)] = CloseBrace

(* A body is a text.                                                       *)
LEMMA BodyTokensAreTokens ==
  ASSUME NEW r, r \in Rule
  PROVE  BodyTokens(r) \subseteq Tokens
<1>1. ASSUME NEW j, j \in DOMAIN r.decls PROVE r.decls[j] \in Tokens
  <2>1. j \in 1 .. Len(r.decls)  BY <1>1, RuleTyped, Zenon
  <2>2. r.decls[j] \in Words  BY <2>1, RuleTyped, Zenon
  <2> QED  BY <2>2 DEF Tokens
<1>2. Space \in Tokens /\ ";" \in Tokens  BY DEF Tokens, Marks
<1> QED  BY <1>1, <1>2, Zenon DEF BodyTokens

(* The token between the id of a rule and its opening brace.               *)
LEMMA PseudoTyped ==
  ASSUME NEW ev, ev \in Events
  PROVE  /\ Pseudo(ev) \in Seq(Tokens)
         /\ Len(Pseudo(ev)) = IF ev = "none" THEN 0 ELSE 1
         /\ ev = "hover" => Pseudo(ev)[1] = ":hover"
         /\ ev = "active" => Pseudo(ev)[1] = ":active"
<1>1. ":hover" \in Tokens /\ ":active" \in Tokens  BY DEF Tokens, Marks
<1>2. CASE ev = "none"
  <2>1. Pseudo(ev) = <<>>  BY <1>2 DEF Pseudo
  <2> QED  BY <1>2, <2>1, EmptySeq
<1>3. CASE ev = "hover"
  <2>1. Pseudo(ev) = <<":hover">>  BY <1>3 DEF Pseudo
  <2>2. <<":hover">> \in Seq(Tokens) /\ Len(<<":hover">>) = 1 /\ <<":hover">>[1] = ":hover"
    BY <1>1, OneToken
  <2> QED  BY <1>3, <2>1, <2>2, Zenon
<1>4. CASE ev = "active"
  <2>1. Pseudo(ev) = <<":active">>  BY <1>4 DEF Pseudo
  <2>2. <<":active">> \in Seq(Tokens) /\ Len(<<":active">>) = 1 /\ <<":active">>[1] = ":active"
    BY <1>1, OneToken
  <2> QED  BY <1>4, <2>1, <2>2, Zenon
<1> QED  BY <1>2, <1>3, <1>4 DEF Events

(* A written rule is its id, its event if it has one, and its body         *)
(* between braces.                                                         *)
LEMMA RuleIsWritten ==
  ASSUME NEW r, r \in Rule
  PROVE  IsRule(WrittenRule(r), r)
<1> DEFINE b == BodyOf(r)
           h == <<Hash[r.id]>>
           p == Pseudo(r.event)
           open == <<"{">>
           close == <<"}">>
           t == h \o p
           q == t \o open
           u == q \o b
           w == u \o close
           c == Colon(r)
           n == Len(b)
<1>1. WrittenRule(r) = w  BY DEF WrittenRule, BodyOf
<1>2. r.event \in Events  BY RuleTyped
<1>3. h \in Seq(Tokens) /\ Len(h) = 1 /\ h[1] = Hash[r.id]
  <2>1. Hash[r.id] \in Tokens  BY RuleTyped, HashAssumption DEF Tokens
  <2> QED  BY <2>1, OneToken
<1>4. open \in Seq(Tokens) /\ Len(open) = 1 /\ open[1] = "{"
  <2>1. "{" \in Tokens  BY DEF Tokens, Marks
  <2> QED  BY <2>1, OneToken
<1>5. close \in Seq(Tokens) /\ Len(close) = 1 /\ close[1] = "}"
  <2>1. "}" \in Tokens  BY DEF Tokens, Marks
  <2> QED  BY <2>1, OneToken
<1>6. p \in Seq(Tokens) /\ Len(p) = c /\ c \in {0, 1}
      /\ (r.event = "hover" => c = 1 /\ p[1] = ":hover")
      /\ (r.event = "active" => c = 1 /\ p[1] = ":active")
  BY <1>2, PseudoTyped DEF Colon
<1>7. b \in Seq(Tokens) /\ n \in Nat
  BY BodyTyped, BodyTokensAreTokens, SeqMonotonic
<1> HIDE DEF b, h, p, open, close, c
<1>8. IsConcat(t, h, p) /\ t \in Seq(Tokens)  BY <1>3, <1>6, ConcatPlaces, ConcatProperties
<1> HIDE DEF t
<1>9. IsConcat(q, t, open) /\ q \in Seq(Tokens)  BY <1>4, <1>8, ConcatPlaces, ConcatProperties
<1> HIDE DEF q
<1>10. IsConcat(u, q, b) /\ u \in Seq(Tokens)  BY <1>7, <1>9, ConcatPlaces, ConcatProperties
<1> HIDE DEF u
<1>11. IsConcat(w, u, close) /\ w \in Seq(Tokens)  BY <1>5, <1>10, ConcatPlaces, ConcatProperties
<1> HIDE DEF w
<1>12. Len(t) = 1 + c  BY <1>3, <1>6, <1>8 DEF IsConcat
<1>13. Len(q) = c + 2
  <2>1. Len(q) = Len(t) + Len(open)  BY <1>9, Zenon DEF IsConcat
  <2>2. Len(open) = 1 /\ c \in {0, 1}  BY <1>4, <1>6, Zenon
  <2> QED  BY <1>12, <2>1, <2>2
<1> HIDE DEF n
<1>14. Len(u) = c + 2 + n
  <2>1. Len(u) = Len(q) + n  BY <1>10, Zenon DEF IsConcat, n
  <2> QED  BY <1>13, <2>1
<1>15. Len(w) = c + n + 3
  <2>1. Len(w) = Len(u) + Len(close)  BY <1>11, Zenon DEF IsConcat
  <2>2. Len(close) = 1  BY <1>5
  <2> QED  BY <1>6, <1>7, <1>14, <2>1, <2>2
<1>16. \A i \in 1 .. c + 2 + n : w[i] = u[i]  BY <1>11, <1>14, Zenon DEF IsConcat
<1>17. \A i \in 1 .. c + 2 : w[i] = q[i]
  <2>1. \A i \in 1 .. c + 2 : u[i] = q[i]  BY <1>10, <1>13, Zenon DEF IsConcat
  <2>2. 1 .. c + 2 \subseteq 1 .. c + 2 + n  BY <1>6, <1>7
  <2> QED  BY <1>16, <2>1, <2>2, Zenon
<1>18. \A i \in 1 .. 1 + c : w[i] = t[i]
  <2>1. \A i \in 1 .. 1 + c : q[i] = t[i]  BY <1>9, <1>12, Zenon DEF IsConcat
  <2>2. 1 .. 1 + c \subseteq 1 .. c + 2  BY <1>6
  <2> QED  BY <1>17, <2>1, <2>2, Zenon
<1>19. w[1] = Hash[r.id]
  <2>1. t[1] = h[1]  BY <1>3, <1>8 DEF IsConcat
  <2>2. 1 \in 1 .. 1 + c  BY <1>6
  <2> QED  BY <1>3, <1>18, <2>1, <2>2, Zenon
<1>20. c = 1 => w[2] = p[1]
  <2> SUFFICES ASSUME c = 1 PROVE w[2] = p[1]  OBVIOUS
  <2>1. t[1 + 1] = p[1]  BY <1>3, <1>6, <1>8 DEF IsConcat
  <2>2. 2 \in 1 .. 1 + c  OBVIOUS
  <2>3. w[2] = t[2]  BY <1>18, <2>2
  <2> QED  BY <2>1, <2>3
<1>21. w[c + 2] = "{"
  <2>1. \A j \in 1 .. Len(open) : q[1 + c + j] = open[j]  BY <1>9, <1>12, Zenon DEF IsConcat
  <2>2. q[1 + c + 1] = "{"
    <3>1. Len(open) = 1  BY <1>4, Zenon
    <3>2. 1 \in 1 .. Len(open)  BY <3>1
    <3>3. q[1 + c + 1] = open[1]  BY <2>1, <3>2
    <3> QED  BY <1>4, <3>3, Zenon
  <2>3. c + 2 \in 1 .. c + 2 /\ 1 + c + 1 = c + 2  BY <1>6
  <2> QED  BY <1>17, <2>2, <2>3, Zenon
<1>22. \A j \in 1 .. n : w[c + 2 + j] = b[j]
  <2>1. \A j \in 1 .. n : u[c + 2 + j] = b[j]  BY <1>10, <1>13, Zenon DEF IsConcat, n
  <2>2. \A j \in 1 .. n : c + 2 + j \in 1 .. c + 2 + n  BY <1>6, <1>7
  <2> QED  BY <1>16, <2>1, <2>2, Zenon
<1>23. w[Len(w)] = "}"
  <2>1. \A j \in 1 .. Len(close) : w[c + 2 + n + j] = close[j]
    BY <1>11, <1>14, Zenon DEF IsConcat
  <2>2. w[c + 2 + n + 1] = "}"
    <3>1. Len(close) = 1  BY <1>5, Zenon
    <3>2. 1 \in 1 .. Len(close)  BY <3>1
    <3>3. w[c + 2 + n + 1] = close[1]  BY <2>1, <3>2
    <3> QED  BY <1>5, <3>3, Zenon
  <2>3. c + 2 + n + 1 = Len(w)  BY <1>6, <1>7, <1>15
  <2> QED  BY <2>2, <2>3, Zenon
<1>24. /\ r.event = "hover" => w[2] = ":hover"
       /\ r.event = "active" => w[2] = ":active"
  BY <1>6, <1>20, Zenon
<1>25. IsRule(w, r)
  BY <1>11, <1>15, <1>19, <1>21, <1>22, <1>23, <1>24, Zenon
  DEF IsRule, b, c, n, OpenBrace, CloseBrace
<1> QED  BY <1>1, <1>25

(* The marks can be told apart, and no word is one of them.                *)
LEMMA MarksDiffer ==
  /\ OpenBrace # CloseBrace /\ OpenBrace # Semicolon /\ CloseBrace # Semicolon
  /\ Space # OpenBrace /\ Space # CloseBrace /\ Space # Semicolon
  /\ \A t \in {":hover", ":active"} : t # OpenBrace /\ t # CloseBrace
  /\ {OpenBrace, CloseBrace, Semicolon, Space, ":hover", ":active"} = Marks
<1>1. OpenBrace # CloseBrace /\ OpenBrace # Semicolon /\ CloseBrace # Semicolon
  BY Zenon DEF OpenBrace, CloseBrace, Semicolon
<1>2. Space # OpenBrace /\ Space # CloseBrace /\ Space # Semicolon
  BY Zenon DEF OpenBrace, CloseBrace, Semicolon, Space
<1>3. \A t \in {":hover", ":active"} : t # OpenBrace /\ t # CloseBrace
  BY Zenon DEF OpenBrace, CloseBrace
<1>4. {OpenBrace, CloseBrace, Semicolon, Space, ":hover", ":active"} = Marks
  BY Zenon DEF OpenBrace, CloseBrace, Semicolon, Marks
<1> QED  BY <1>1, <1>2, <1>3, <1>4, Zenon

(* A word is none of the marks.                                            *)
LEMMA WordsAreNoMarks ==
  /\ \A t \in Words : t # OpenBrace /\ t # CloseBrace /\ t # Semicolon /\ t # Space
                      /\ t # ":hover" /\ t # ":active"
<1>1. Words \cap Marks = {}  BY WordsAssumption, Zenon
<1>2. OpenBrace \in Marks /\ CloseBrace \in Marks /\ Semicolon \in Marks /\ Space \in Marks
      /\ ":hover" \in Marks /\ ":active" \in Marks
  BY Zenon DEF Marks, OpenBrace, CloseBrace, Semicolon
<1> QED  BY <1>1, <1>2, Zenon

(* No token of a body is a brace, and its words are declarations of the    *)
(* rule.                                                                   *)
LEMMA InBody ==
  ASSUME NEW r, r \in Rule, NEW i, i \in 1 .. Len(BodyOf(r))
  PROVE  /\ BodyOf(r)[i] # OpenBrace /\ BodyOf(r)[i] # CloseBrace
         /\ BodyOf(r)[i] \in Words => \E m \in DOMAIN r.decls : BodyOf(r)[i] = r.decls[m]
<1> DEFINE t == BodyOf(r)[i]
<1>1. t \in BodyTokens(r)  BY BodyTyped, ElementOfSeq
<1> HIDE DEF t
<1>2. CASE t \in {Space, Semicolon}
  <2>1. t \notin Words  BY <1>2, WordsAreNoMarks, Zenon
  <2> QED  BY <1>2, <2>1, MarksDiffer, Zenon DEF t
<1>3. CASE \E m \in DOMAIN r.decls : t = r.decls[m]
  <2>1. PICK m \in DOMAIN r.decls : t = r.decls[m]  BY <1>3, Zenon
  <2>2. m \in 1 .. Len(r.decls)  BY RuleTyped, <2>1, Zenon
  <2>3. t \in Words  BY <2>1, <2>2, RuleTyped, Zenon
  <2> QED  BY <1>3, <2>3, WordsAreNoMarks, Zenon DEF t
<1> QED  BY <1>1, <1>2, <1>3, Zenon DEF BodyTokens, Semicolon

\* The places of a rule's text.
LEMMA PlacesOfRule ==
  ASSUME NEW r, r \in Rule, NEW w, IsRule(w, r), NEW j, j \in 1 .. Len(w)
  PROVE  \/ j = 1
         \/ j = 2 /\ r.event \in {"hover", "active"}
         \/ j = Colon(r) + 2
         \/ \E i \in 1 .. Len(BodyOf(r)) : j = Colon(r) + 2 + i
         \/ j = Len(w)
<1> DEFINE n == Len(BodyOf(r))
           c == Colon(r)
<1>1. n \in Nat  BY BodyTyped, Zenon
<1>2. Len(w) = c + n + 3  BY Zenon DEF IsRule
<1>3. c \in {0, 1} /\ (c = 1 => r.event \in {"hover", "active"})
  BY RuleTyped DEF Colon, Events
<1> HIDE DEF n, c
<1>4. j \in 1 .. c + n + 3  BY <1>2
<1>5. j = 1 \/ (j = 2 /\ c = 1) \/ j = c + 2 \/ j - (c + 2) \in 1 .. n \/ j = c + n + 3
  BY <1>1, <1>3, <1>4
<1>6. j = c + 2 + (j - (c + 2))  BY <1>3, <1>4
<1>7. j - (c + 2) \in 1 .. n => \E i \in 1 .. n : j = c + 2 + i  BY <1>6, Zenon
<1> QED  BY <1>2, <1>3, <1>5, <1>7, Zenon DEF c, n

(***************************************************************************)
(* The text of a rule has one brace of each kind, and no word but its      *)
(* selector and its declarations.                                          *)
(***************************************************************************)
LEMMA BracesOfRule ==
  ASSUME NEW r, r \in Rule, NEW w, IsRule(w, r), NEW j, j \in 1 .. Len(w)
  PROVE  /\ w[j] = OpenBrace => j = Colon(r) + 2
         /\ w[j] = CloseBrace => j = Len(w)
         /\ w[j] \in Words => j = 1 \/ \E m \in DOMAIN r.decls : w[j] = r.decls[m]
<1>1. CASE j = 1
  <2>1. w[j] \in Words
    <3>1. w[j] = Hash[r.id]  BY <1>1, Zenon DEF IsRule
    <3>2. r.id \in Ids  BY RuleTyped, Zenon
    <3>3. Hash[r.id] \in Words  BY <3>2, HashAssumption
    <3> QED  BY <3>1, <3>3, Zenon
  <2> QED  BY <1>1, <2>1, WordsAreNoMarks, Zenon
<1>2. CASE j = 2 /\ r.event \in {"hover", "active"}
  <2>1. w[j] \in {":hover", ":active"}  BY <1>2, Zenon DEF IsRule
  <2> QED  BY <2>1, WordsAreNoMarks, MarksDiffer, Zenon
<1>3. CASE j = Colon(r) + 2
  <2>1. w[j] = OpenBrace  BY <1>3, Zenon DEF IsRule
  <2> QED  BY <1>3, <2>1, WordsAreNoMarks, MarksDiffer, Zenon
<1>4. CASE \E i \in 1 .. Len(BodyOf(r)) : j = Colon(r) + 2 + i
  <2>1. PICK i \in 1 .. Len(BodyOf(r)) : j = Colon(r) + 2 + i  BY <1>4, Zenon
  <2>2. w[j] = BodyOf(r)[i]  BY <2>1, Zenon DEF IsRule
  <2>3. /\ BodyOf(r)[i] # OpenBrace /\ BodyOf(r)[i] # CloseBrace
        /\ BodyOf(r)[i] \in Words => \E m \in DOMAIN r.decls : BodyOf(r)[i] = r.decls[m]
    BY <2>1, InBody, Zenon
  <2>4. BodyOf(r)[i] = w[j]  BY <2>2, Zenon
  <2> QED  BY <2>3, <2>4
<1>5. CASE j = Len(w)
  <2>1. w[j] = CloseBrace  BY <1>5, Zenon DEF IsRule
  <2> QED  BY <1>5, <2>1, WordsAreNoMarks, MarksDiffer, Zenon
<1> QED  BY <1>1, <1>2, <1>3, <1>4, <1>5, PlacesOfRule, Zenon

\* What FirstAfter finds, if there is one.
LEMMA FirstAfterIs ==
  ASSUME NEW s, NEW i, NEW t, NEW k, i \in Nat, Len(s) \in Nat,
         k \in i + 1 .. Len(s), s[k] = t,
         \A j \in i + 1 .. Len(s) : s[j] = t => k <= j
  PROVE  FirstAfter(s, i, t) = k
<1> DEFINE at == {j \in i + 1 .. Len(s) : s[j] = t}
           found == CHOOSE j \in at : IsFirst(j, at)
<1>1. k \in at /\ IsFirst(k, at)  BY Zenon DEF IsFirst
<1>2. FirstAfter(s, i, t) = found
  <2>1. at # {}  BY <1>1, Zenon
  <2> QED  BY <2>1, Zenon DEF FirstAfter
<1>3. found \in at /\ IsFirst(found, at)  BY <1>1, Zenon
<1>4. found <= k /\ k <= found  BY <1>1, <1>3, Zenon DEF IsFirst
<1>5. found \in Int /\ k \in Int
  <2>1. at \subseteq Int  OBVIOUS
  <2> QED  BY <1>1, <1>3, <2>1, Zenon
<1> HIDE DEF found
<1>6. found = k  BY <1>4, <1>5
<1> QED  BY <1>2, <1>6, Zenon

(* FirstAfter is a place of the text, or 0.                                *)
LEMMA FirstAfterTyped ==
  ASSUME NEW s, NEW i, NEW t, i \in Nat, Len(s) \in Nat
  PROVE  FirstAfter(s, i, t) \in Nat /\ FirstAfter(s, i, t) <= Len(s)
<1> DEFINE at == {j \in i + 1 .. Len(s) : s[j] = t}
           found == CHOOSE j \in at : IsFirst(j, at)
<1>1. CASE at = {}  BY <1>1 DEF FirstAfter
<1>2. CASE at # {}
  <2> DEFINE T == {m \in Nat : \A j \in at : j > m}
  <2>1. FirstAfter(s, i, t) = found  BY <1>2, Zenon DEF FirstAfter
  <2>2. \E j \in at : IsFirst(j, at)
    <3>1. PICK a \in at : TRUE  BY <1>2, Zenon
    <3>2. a \in Nat /\ at \subseteq Nat  OBVIOUS
    <3>3. a \notin T  BY <3>1, <3>2
    <3>4. 0 \in T  OBVIOUS
    <3> HIDE DEF at
    <3>5. PICK m \in T : m + 1 \notin T
      <4>1. T \in SUBSET Nat  OBVIOUS
      <4> HIDE DEF T
      <4> QED  BY <3>2, <3>3, <3>4, <4>1, SetInduction
    <3>6. PICK j \in at : ~ (j > m + 1)  BY <3>5
    <3>7. j = m + 1 /\ \A l \in at : j <= l  BY <3>2, <3>5, <3>6
    <3> QED  BY <3>7 DEF IsFirst
  <2>3. found \in at  BY <2>2, Zenon
  <2>4. at \subseteq Nat /\ \A j \in at : j <= Len(s)  OBVIOUS
  <2> QED  BY <2>1, <2>3, <2>4, Zenon
<1> QED  BY <1>1, <1>2

-----------------------------------------------------------------------------
(* The piece of a rule.                                                    *)

\* The piece of a rule: its text without the id.
Text(r) == Tail(WrittenRule(r))

IsText(t, r) ==
  /\ t \in Seq(Tokens) /\ Len(t) = Colon(r) + Len(BodyOf(r)) + 2
  /\ r.event = "hover" => t[1] = ":hover"
  /\ r.event = "active" => t[1] = ":active"
  /\ t[Colon(r) + 1] = OpenBrace
  /\ \A j \in 1 .. Len(BodyOf(r)) : t[Colon(r) + 1 + j] = BodyOf(r)[j]
  /\ t[Len(t)] = CloseBrace
  /\ \A j \in 1 .. Len(t) : t[j] = OpenBrace => j = Colon(r) + 1

(* How far the opening brace is behind the id.                             *)
LEMMA ColonOf ==
  ASSUME NEW r, r \in Rule
  PROVE  /\ Colon(r) \in {0, 1} /\ (r.event \in {"hover", "active"} <=> Colon(r) = 1)
         /\ r.event \in Events /\ Len(BodyOf(r)) \in Nat
BY RuleTyped, BodyTyped DEF Colon, Events

(* What is behind the id of a written rule is the text of the rule.        *)
LEMMA TextOfRule ==
  ASSUME NEW r, r \in Rule
  PROVE  IsText(Text(r), r)
<1> DEFINE w == WrittenRule(r)
           t == Text(r)
           b == BodyOf(r)
           n == Len(b)
           c == Colon(r)
<1>1. IsRule(w, r)  BY RuleIsWritten
<1>2. c \in {0, 1} /\ (r.event \in {"hover", "active"} <=> c = 1) /\ n \in Nat
  BY ColonOf, Zenon
<1>3. w \in Seq(Tokens) /\ Len(w) = c + n + 3  BY <1>1, Zenon DEF IsRule
<1> HIDE DEF c, n
<1>4. t \in Seq(Tokens) /\ Len(t) = c + n + 2 /\ \A i \in 1 .. c + n + 2 : t[i] = w[i + 1]
  <2>1. Len(w) # 0  BY <1>2, <1>3
  <2>2. w # <<>>  BY <2>1, EmptySeq
  <2>3. t \in Seq(Tokens) /\ Len(t) = Len(w) - 1 /\ \A i \in 1 .. Len(t) : t[i] = w[i + 1]
    BY <1>3, <2>2, HeadTailProperties DEF Text
  <2>4. Len(t) = c + n + 2  BY <1>2, <1>3, <2>3
  <2> QED  BY <2>3, <2>4
<1> HIDE DEF t, w
<1>5. r.event \in {"hover", "active"} => t[1] = w[2]
  <2>1. 1 \in 1 .. c + n + 2  BY <1>2
  <2>2. t[1] = w[1 + 1]  BY <1>4, <2>1
  <2> QED  BY <2>2
<1>6. t[c + 1] = OpenBrace
  <2>1. c + 1 \in 1 .. c + n + 2 /\ c + 1 + 1 = c + 2  BY <1>2
  <2>2. w[c + 2] = OpenBrace  BY <1>1, Zenon DEF IsRule, c
  <2> QED  BY <1>4, <2>1, <2>2, Zenon
<1>7. ASSUME NEW j \in 1 .. n PROVE t[c + 1 + j] = b[j]
  <2>1. c + 1 + j \in 1 .. c + n + 2 /\ c + 1 + j + 1 = c + 2 + j  BY <1>2
  <2>2. w[c + 2 + j] = b[j]  BY <1>1, Zenon DEF IsRule, c, n
  <2> QED  BY <1>4, <2>1, <2>2, Zenon
<1>8. t[Len(t)] = CloseBrace
  <2>1. w[Len(w)] = CloseBrace  BY <1>1, Zenon DEF IsRule
  <2>2. Len(t) \in 1 .. c + n + 2 /\ Len(t) + 1 = Len(w)  BY <1>2, <1>3, <1>4
  <2> QED  BY <1>4, <2>1, <2>2, Zenon
<1>9. ASSUME NEW j \in 1 .. Len(t), t[j] = OpenBrace PROVE j = c + 1
  <2>1. j + 1 \in 1 .. Len(w) /\ j \in 1 .. c + n + 2  BY <1>2, <1>3, <1>4
  <2>2. w[j + 1] = OpenBrace  BY <1>4, <1>9, <2>1, Zenon
  <2>3. j + 1 = c + 2  BY <1>1, <2>1, <2>2, BracesOfRule, Zenon DEF c
  <2> QED  BY <1>2, <2>1, <2>3
<1>10. /\ r.event = "hover" => t[1] = ":hover"
       /\ r.event = "active" => t[1] = ":active"
  <2>1. /\ r.event = "hover" => w[2] = ":hover"
        /\ r.event = "active" => w[2] = ":active"
    BY <1>1, Zenon DEF IsRule
  <2> QED  BY <1>5, <2>1, Zenon
<1>11. IsText(t, r)
  BY <1>4, <1>6, <1>7, <1>8, <1>9, <1>10, Zenon DEF IsText, b, c, n
<1> QED  BY <1>11 DEF t

(***************************************************************************)
(* What a piece of a rule is taken for: the event it was written for.      *)
(***************************************************************************)
LEMMA TextIsOpened ==
  ASSUME NEW r, r \in Rule, NEW t, IsText(t, r)
  PROVE  /\ Opened(t) /\ t # NoPiece
         /\ FirstAfter(t, 0, "{") = Colon(r) + 1
<1> DEFINE n == Len(BodyOf(r))
           c == Colon(r)
<1>1. c \in {0, 1} /\ n \in Nat  BY ColonOf, Zenon
<1>2. t \in Seq(Tokens) /\ Len(t) = c + n + 2 /\ t[c + 1] = OpenBrace
      /\ \A j \in 1 .. Len(t) : t[j] = OpenBrace => j = c + 1
  BY Zenon DEF IsText
<1> HIDE DEF c, n
<1>3. c + 1 \in 1 .. Len(t) /\ Len(t) \in Nat  BY <1>1, <1>2
<1>4. Opened(t)
  <2>1. DOMAIN t = 1 .. Len(t)  BY <1>2, LenProperties
  <2> QED  BY <1>2, <1>3, <2>1, Zenon DEF Opened, OpenBrace
<1>5. t # NoPiece
  <2>1. Len(t) # 0  BY <1>3
  <2> QED  BY <2>1, EmptySeq DEF NoPiece
<1>6. FirstAfter(t, 0, OpenBrace) = c + 1
  <2>1. 0 \in Nat /\ c + 1 \in 0 + 1 .. Len(t) /\ 0 + 1 .. Len(t) = 1 .. Len(t)  BY <1>1, <1>3
  <2>2. \A j \in 0 + 1 .. Len(t) : t[j] = OpenBrace => c + 1 <= j
    <3>1. \A j \in 0 + 1 .. Len(t) : t[j] = OpenBrace => j = c + 1  BY <1>2, <2>1
    <3>2. c + 1 <= c + 1  BY <1>1
    <3> QED  BY <3>1, <3>2, Zenon
  <2>3. t[c + 1] = OpenBrace /\ Len(t) \in Nat  BY <1>2, <1>3, Zenon
  <2>4. c + 1 \in 0 + 1 .. Len(t)  BY <2>1, Zenon
  <2> QED  BY <2>1, <2>2, <2>3, <2>4, FirstAfterIs
<1> QED  BY <1>4, <1>5, <1>6, Zenon DEF OpenBrace, c

(* The separator puts the piece of a rule under the event of that rule.    *)
LEMMA SelectsItsEvent ==
  ASSUME NEW r, r \in Rule, NEW t, IsText(t, r)
  PROVE  Selects(t) = r.event
<1> DEFINE c == Colon(r)
           n == Len(BodyOf(r))
           s == Selector(t)
<1>1. c \in {0, 1} /\ n \in Nat /\ (r.event \in {"hover", "active"} <=> c = 1) /\ r.event \in Events
  BY ColonOf, Zenon
<1>2. t \in Seq(Tokens) /\ Len(t) = c + n + 2 /\ t[c + 1] = OpenBrace
  BY Zenon DEF IsText
<1>3. s = SubSeq(t, 1, c + 1)  BY TextIsOpened, Zenon DEF Selector
<1> HIDE DEF c, n, s
<1>4. Len(s) = c + 1 /\ DOMAIN s = 1 .. c + 1 /\ \A j \in 1 .. c + 1 : s[j] = t[j]
  <2>1. \A i \in 1 .. c + 1 : t[i] \in Tokens
    <3>1. \A i \in 1 .. Len(t) : t[i] \in Tokens  BY <1>2, ElementOfSeq
    <3>2. \A i \in 1 .. c + 1 : i \in 1 .. Len(t)  BY <1>1, <1>2
    <3> QED  BY <3>1, <3>2, Zenon
  <2>2. 1 \in Int /\ c + 1 \in Int /\ 1 <= c + 1 /\ c + 1 - 1 + 1 = c + 1  BY <1>1
  <2>3. s \in Seq(Tokens) /\ Len(s) = c + 1 - 1 + 1
        /\ \A i \in 1 .. c + 1 - 1 + 1 : s[i] = t[1 + i - 1]
    BY <1>3, <2>1, <2>2, SubSeqProperties
  <2>4. \A i \in 1 .. c + 1 : 1 + i - 1 = i  BY <1>1
  <2> QED  BY <2>2, <2>3, <2>4, LenProperties
<1>5. \A j \in 1 .. c + 1 : j = c + 1 \/ (j = 1 /\ c = 1)  BY <1>1
<1>6. s[c + 1] = OpenBrace
  <2>1. c + 1 \in 1 .. c + 1  BY <1>1
  <2> QED  BY <1>2, <1>4, <2>1, Zenon
<1>7. c = 1 => 1 \in 1 .. c + 1 /\ s[1] = t[1]  BY <1>4
<1>8. OpenBrace # ":hover" /\ OpenBrace # ":active"  BY MarksDiffer
<1>9. CASE r.event = "none"
  <2>1. c # 1  BY <1>1, <1>9
  <2>2. \A j \in DOMAIN s : s[j] = OpenBrace  BY <1>4, <1>5, <1>6, <2>1, Zenon
  <2>3. ~ Names(":hover", t) /\ ~ Names(":active", t)
    BY <1>8, <2>2, Zenon DEF Names, s
  <2> QED  BY <1>9, <2>3 DEF Selects
<1>10. CASE r.event = "hover"
  <2>1. c = 1  BY <1>1, <1>10
  <2>2. 1 \in DOMAIN s /\ s[1] = ":hover"  BY <1>4, <1>7, <1>10, <2>1, Zenon DEF IsText
  <2>3. Names(":hover", t)  BY <2>2, Zenon DEF Names, s
  <2> QED  BY <1>10, <2>3 DEF Selects
<1>11. CASE r.event = "active"
  <2>1. c = 1  BY <1>1, <1>11
  <2>2. 1 \in DOMAIN s /\ s[1] = ":active"  BY <1>4, <1>7, <1>11, <2>1, Zenon DEF IsText
  <2>3. Names(":active", t)  BY <2>2, Zenon DEF Names, s
  <2>4. \A j \in DOMAIN s : s[j] # ":hover"
    <3>1. \A j \in DOMAIN s : s[j] = OpenBrace \/ s[j] = ":active"
      BY <1>4, <1>5, <1>6, <2>2, Zenon
    <3> QED  BY <1>8, <3>1
  <2>5. ~ Names(":hover", t)  BY <2>4, Zenon DEF Names, s
  <2> QED  BY <1>11, <2>3, <2>5 DEF Selects
<1> QED  BY <1>1, <1>9, <1>10, <1>11 DEF Events

-----------------------------------------------------------------------------
(* Searching a sheet for an id.                                            *)

\* full is the sheet rs, with the k-th rule behind off[k].
IsSheet(rs, off, full) ==
  /\ full \in Seq(Tokens)
  /\ \A k \in 1 .. Len(rs) :
       /\ off[k] \in Nat /\ off[k] + Len(WrittenRule(rs[k])) <= Len(full)
       /\ \A j \in 1 .. Len(WrittenRule(rs[k])) : full[off[k] + j] = WrittenRule(rs[k])[j]
       /\ \A l \in 1 .. Len(rs) : l < k => off[l] + Len(WrittenRule(rs[l])) <= off[k]
  /\ \A i \in 1 .. Len(full) :
       \E k \in 1 .. Len(rs) : \E j \in 1 .. Len(WrittenRule(rs[k])) : i = off[k] + j

(* A written sheet is its rules one behind the other.                      *)
LEMMA SheetIsWritten ==
  ASSUME NEW rs, rs \in Seq(Rule)
  PROVE  Written(rs) \in Seq(Tokens) /\ \E off : IsSheet(rs, off, Written(rs))
<1> DEFINE seqs == [k \in DOMAIN rs |-> WrittenRule(rs[k])]
           full == FlattenSeq(seqs)
<1>1. Len(rs) \in Nat /\ DOMAIN rs = 1 .. Len(rs) /\ \A k \in 1 .. Len(rs) : rs[k] \in Rule
  BY LenProperties, ElementOfSeq
<1>2. \A k \in 1 .. Len(rs) : WrittenRule(rs[k]) \in Seq(Tokens)
  BY <1>1, RuleIsWritten, Zenon DEF IsRule
<1>3. seqs \in Seq(Seq(Tokens)) /\ Len(seqs) = Len(rs)
      /\ \A k \in 1 .. Len(rs) : seqs[k] = WrittenRule(rs[k])
  BY <1>1, <1>2
<1>4. Written(rs) = full  BY DEF Written
<1> HIDE DEF seqs, full
<1>5. full \in Seq(Tokens) /\ \E off : Lies(seqs, off, full)
  BY <1>3, Flattened DEF full
<1>6. PICK off : Lies(seqs, off, full)  BY <1>5
<1>7. IsSheet(rs, off, full)
  <2> DEFINE n == Len(rs)
  <2>1. n = Len(seqs) /\ \A k \in 1 .. n : seqs[k] = WrittenRule(rs[k])  BY <1>3, Zenon
  <2> HIDE DEF n
  <2>2. ASSUME NEW k \in 1 .. n
        PROVE  /\ off[k] \in Nat /\ off[k] + Len(WrittenRule(rs[k])) <= Len(full)
               /\ \A j \in 1 .. Len(WrittenRule(rs[k])) : full[off[k] + j] = WrittenRule(rs[k])[j]
               /\ \A l \in 1 .. n : l < k => off[l] + Len(WrittenRule(rs[l])) <= off[k]
    <3>1. /\ off[k] \in Nat /\ off[k] + Len(seqs[k]) <= Len(full)
          /\ \A j \in 1 .. Len(seqs[k]) : full[off[k] + j] = seqs[k][j]
          /\ \A l \in 1 .. n : l < k => off[l] + Len(seqs[l]) <= off[k]
      BY <1>6, <2>1, Zenon DEF Lies
    <3> QED  BY <2>1, <3>1, Zenon
  <2>3. ASSUME NEW i \in 1 .. Len(full)
        PROVE  \E k \in 1 .. n : \E j \in 1 .. Len(WrittenRule(rs[k])) : i = off[k] + j
    <3>1. PICK k \in 1 .. n : \E j \in 1 .. Len(seqs[k]) : i = off[k] + j
      BY <1>6, <2>1, Zenon DEF Lies
    <3>2. seqs[k] = WrittenRule(rs[k])  BY <2>1
    <3> QED  BY <3>1, <3>2
  <2> QED  BY <1>5, <2>2, <2>3, Zenon DEF IsSheet, n
<1> QED  BY <1>4, <1>5, <1>7, Zenon

(* Where a rule of a sheet starts and ends.                                *)
LEMMA RuleLength ==
  ASSUME NEW r, r \in Rule
  PROVE  /\ Len(WrittenRule(r)) \in Nat /\ Len(WrittenRule(r)) >= 3
         /\ WrittenRule(r) \in Seq(Tokens)
         /\ WrittenRule(r)[1] = Hash[r.id]
         /\ WrittenRule(r)[Len(WrittenRule(r))] = CloseBrace
<1>1. IsRule(WrittenRule(r), r)  BY RuleIsWritten
<1>2. Len(WrittenRule(r)) = Colon(r) + Len(BodyOf(r)) + 3 /\ WrittenRule(r) \in Seq(Tokens)
      /\ WrittenRule(r)[1] = Hash[r.id]
      /\ WrittenRule(r)[Len(WrittenRule(r))] = CloseBrace
  BY <1>1, Zenon DEF IsRule
<1>3. Colon(r) \in {0, 1} /\ Len(BodyOf(r)) \in Nat  BY ColonOf, Zenon
<1> DEFINE m == Len(WrittenRule(r))  n == Len(BodyOf(r))  c == Colon(r)
<1>4. m = c + n + 3 /\ c \in {0, 1} /\ n \in Nat  BY <1>2, <1>3, Zenon
<1> HIDE DEF m, n, c
<1>5. m \in Nat /\ m >= 3  BY <1>4
<1> QED  BY <1>2, <1>5, Zenon DEF m

(***************************************************************************)
(* The piece that starts behind the id of a rule is that rule's text.      *)
(***************************************************************************)
LEMMA PieceOfRule ==
  ASSUME NEW rs, rs \in Seq(Rule), NEW off, NEW full, IsSheet(rs, off, full),
         NEW k, k \in 1 .. Len(rs)
  PROVE  /\ off[k] + 1 \in DOMAIN full /\ off[k] + 1 \in Nat
         /\ full[off[k] + 1] = Hash[rs[k].id]
         /\ Piece(full, off[k] + 1) = Text(rs[k])
<1> DEFINE r == rs[k]
           w == WrittenRule(r)
           m == Len(w)
           o == off[k]
           N == Len(full)
<1>1. r \in Rule  BY ElementOfSeq
<1>2. w \in Seq(Tokens) /\ m \in Nat /\ m >= 3 /\ w[1] = Hash[r.id] /\ w[m] = CloseBrace
  BY <1>1, RuleLength, Zenon
<1>3. o \in Nat /\ o + m <= N /\ \A j \in 1 .. m : full[o + j] = w[j]
  BY Zenon DEF IsSheet
<1>4. full \in Seq(Tokens)  BY DEF IsSheet
<1>5. N \in Nat /\ DOMAIN full = 1 .. N  BY <1>4, LenProperties
<1>6. ASSUME NEW j, j \in 1 .. m, w[j] = CloseBrace PROVE j = m
  <2>1. IsRule(w, r)  BY <1>1, RuleIsWritten, Zenon
  <2> HIDE DEF w, r
  <2> QED  BY <1>1, <1>6, <2>1, BracesOfRule, Zenon
<1>7. Text(r) \in Seq(Tokens) /\ Len(Text(r)) = m - 1
      /\ \A i \in 1 .. m - 1 : Text(r)[i] = w[i + 1]
  <2> HIDE DEF r, w
  <2>1. w # <<>>
    <3>1. m # 0  BY <1>2
    <3> QED  BY <3>1, EmptySeq
  <2>2. Text(r) = Tail(w)  BY DEF Text, w
  <2> HIDE DEF m
  <2>3. Tail(w) \in Seq(Tokens) /\ Len(Tail(w)) = Len(w) - 1
        /\ \A i \in 1 .. Len(Tail(w)) : Tail(w)[i] = w[i + 1]
    BY <1>2, <2>1, HeadTailProperties
  <2>4. Len(w) = m  BY DEF m
  <2> QED  BY <2>2, <2>3, <2>4
<1> HIDE DEF r, w, m, o, N
<1>8. o + 1 \in 1 .. N /\ full[o + 1] = Hash[r.id]
  <2>1. 1 \in 1 .. m /\ o + 1 \in 1 .. N  BY <1>2, <1>3, <1>5
  <2>2. full[o + 1] = w[1]  BY <1>3, <2>1
  <2> QED  BY <1>2, <2>1, <2>2, Zenon
<1>9. FirstAfter(full, o + 1, CloseBrace) = o + m
  <2>1. o + 1 \in Nat /\ o + m \in o + 1 + 1 .. N /\ m \in 1 .. m  BY <1>2, <1>3, <1>5
  <2>2. full[o + m] = CloseBrace  BY <1>2, <1>3, <2>1, Zenon
  <2>3. ASSUME NEW j \in o + 1 + 1 .. N, full[j] = CloseBrace PROVE o + m <= j
    <3> SUFFICES ASSUME j < o + m PROVE FALSE  BY <1>2, <1>3, <2>3
    <3>1. j - o \in 1 .. m /\ j = o + (j - o) /\ j - o # m  BY <1>2, <1>3, <2>3
    <3>2. full[j] = w[j - o]  BY <1>3, <3>1, Zenon
    <3> QED  BY <1>6, <2>3, <3>1, <3>2, Zenon
  <2>4. Len(full) \in Nat /\ N = Len(full)  BY <1>5 DEF N
  <2>5. o + m \in o + 1 + 1 .. Len(full)
        /\ \A j \in o + 1 + 1 .. Len(full) : full[j] = CloseBrace => o + m <= j
    BY <2>1, <2>3, <2>4
  <2> QED  BY <2>1, <2>2, <2>4, <2>5, FirstAfterIs
<1>10. Piece(full, o + 1) = SubSeq(full, o + 1 + 1, o + m)
  BY <1>9, Zenon DEF Piece, CloseBrace
<1>11. Piece(full, o + 1) = Text(r)
  <2> DEFINE p == Piece(full, o + 1)
  <2>1. \A i \in o + 1 + 1 .. o + m : i \in 1 .. N  BY <1>2, <1>3, <1>5
  <2>2. \A i \in o + 1 + 1 .. o + m : full[i] \in Tokens
    <3>1. \A i \in 1 .. N : full[i] \in Tokens  BY <1>4, ElementOfSeq DEF N
    <3> QED  BY <2>1, <3>1, Zenon
  <2>3. o + 1 + 1 \in Int /\ o + m \in Int /\ o + 1 + 1 <= o + m
        /\ (o + m) - (o + 1 + 1) + 1 = m - 1
    BY <1>2, <1>3
  <2>4. p \in Seq(Tokens)
        /\ Len(p) = (o + m) - (o + 1 + 1) + 1
        /\ \A i \in 1 .. (o + m) - (o + 1 + 1) + 1 : p[i] = full[o + 1 + 1 + i - 1]
    <3> DEFINE a == o + 1 + 1  z == o + m
    <3>1. a \in Int /\ z \in Int /\ a <= z /\ \A i \in a .. z : full[i] \in Tokens
      BY <2>2, <2>3, Zenon
    <3>2. p = SubSeq(full, a, z)  BY <1>10, Zenon
    <3> HIDE DEF a, z, p
    <3>3. p \in Seq(Tokens) /\ Len(p) = z - a + 1
          /\ \A i \in 1 .. z - a + 1 : p[i] = full[a + i - 1]
      BY <3>1, <3>2, SubSeqProperties
    <3> QED  BY <3>3 DEF a, z
  <2> HIDE DEF p
  <2>5. ASSUME NEW i \in 1 .. m - 1 PROVE p[i] = Text(r)[i]
    <3>1. p[i] = full[o + 1 + 1 + i - 1]  BY <2>3, <2>4
    <3>2. o + 1 + 1 + i - 1 = o + (i + 1) /\ i + 1 \in 1 .. m  BY <1>2, <1>3
    <3>3. full[o + (i + 1)] = w[i + 1]  BY <1>3, <3>2, Zenon
    <3>4. Text(r)[i] = w[i + 1]  BY <1>7
    <3> QED  BY <3>1, <3>2, <3>3, <3>4, Zenon
  <2>6. Len(p) = m - 1  BY <2>3, <2>4, Zenon
  <2>7. p = Text(r)
    <3>1. Len(p) = Len(Text(r)) /\ \A i \in 1 .. Len(p) : p[i] = Text(r)[i]
      BY <1>7, <2>5, <2>6, Zenon
    <3> QED  BY <1>7, <2>4, <3>1, SeqEqual
  <2> QED  BY <2>7 DEF p
<1>12. o + 1 \in DOMAIN full /\ o + 1 \in Nat  BY <1>3, <1>5, <1>8
<1> QED  BY <1>8, <1>11, <1>12, Zenon DEF r, o

(***************************************************************************)
(* Searching the sheet for an id finds the rules of that id and no other   *)
(* place, if the id is apart from what is written around it.               *)
(***************************************************************************)
LEMMA FoundPieces ==
  ASSUME NEW rs, rs \in Seq(Rule), NEW off, NEW full, IsSheet(rs, off, full),
         NEW e, e \in Ids, Apart(rs, e)
  PROVE  FindAllFromString(full, e) =
           {off[k] + 1 : k \in {l \in DOMAIN rs : rs[l].id = e}}
<1> DEFINE F == FindAllFromString(full, e)
           G == {off[k] + 1 : k \in {l \in DOMAIN rs : rs[l].id = e}}
<1>1. DOMAIN rs = 1 .. Len(rs) /\ \A k \in 1 .. Len(rs) : rs[k] \in Rule
  BY LenProperties, ElementOfSeq
<1>2. full \in Seq(Tokens) /\ DOMAIN full = 1 .. Len(full)
  <2>1. full \in Seq(Tokens)  BY DEF IsSheet
  <2> QED  BY <2>1, LenProperties
<1>3. ASSUME NEW i \in F PROVE i \in G
  <2>1. i \in 1 .. Len(full) /\ full[i] \in Words /\ e \in Within[full[i]]
    BY <1>2, <1>3, Zenon DEF FindAllFromString
  <2>2. PICK k \in 1 .. Len(rs) : \E j \in 1 .. Len(WrittenRule(rs[k])) : i = off[k] + j
    BY <2>1, Zenon DEF IsSheet
  <2> DEFINE r == rs[k]
             w == WrittenRule(r)
  <2>3. PICK j \in 1 .. Len(w) : i = off[k] + j  BY <2>2, Zenon
  <2>4. r \in Rule /\ k \in DOMAIN rs  BY <1>1
  <2>5. full[i] = w[j]  BY <2>3, Zenon DEF IsSheet
  <2>6. IsRule(w, r)  BY <2>4, RuleIsWritten, Zenon
  <2>7. w[j] \in Words /\ e \in Within[w[j]]  BY <2>1, <2>5, Zenon
  <2>8. j = 1 \/ \E m \in DOMAIN r.decls : w[j] = r.decls[m]
    <3> HIDE DEF w, r
    <3> QED  BY <2>3, <2>4, <2>6, <2>7, BracesOfRule
  <2>9. CASE j = 1
    <3>1. w[1] = Hash[r.id]  BY <2>6, Zenon DEF IsRule
    <3>2. e \in Within[Hash[r.id]]  BY <2>7, <2>9, <3>1, Zenon
    <3>3. r.id = e  BY <2>4, <3>2, Zenon DEF Apart
    <3> HIDE DEF w
    <3>4. k \in {l \in DOMAIN rs : rs[l].id = e}  BY <2>4, <3>3
    <3> QED  BY <2>3, <2>9, <3>4
  <2>10. CASE \E m \in DOMAIN r.decls : w[j] = r.decls[m]
    <3>1. PICK m \in DOMAIN r.decls : w[j] = r.decls[m]  BY <2>10, Zenon
    <3>2. e \in Within[r.decls[m]]  BY <2>7, <3>1, Zenon
    <3> QED  BY <2>4, <3>1, <3>2, Zenon DEF Apart
  <2> QED  BY <2>8, <2>9, <2>10
<1>4. ASSUME NEW i \in G PROVE i \in F
  <2>1. PICK k \in DOMAIN rs : rs[k].id = e /\ i = off[k] + 1  BY <1>4, Zenon
  <2>2. i \in DOMAIN full /\ full[i] = Hash[e]  BY <1>1, <2>1, PieceOfRule
  <2>3. Hash[e] \in Words /\ e \in Within[Hash[e]]  BY HashAssumption
  <2> QED  BY <2>2, <2>3, Zenon DEF FindAllFromString
<1> QED  BY <1>3, <1>4, Zenon

(***************************************************************************)
(* Giving an element its pieces of the sheet gives it, for each event, the *)
(* text of the last rule its author wrote for that event, and leaves the   *)
(* events without a rule alone (findCssById, cssSelectorSepreator).        *)
(***************************************************************************)
LEMMA PiecesGiven ==
  ASSUME NEW rs, rs \in Seq(Rule), NEW e, e \in Ids, Apart(rs, e),
         NEW old, NEW ev, ev \in Events
  PROVE  LET given == CssSelectorSeparator(FindCssById(Written(rs), e), old)
         IN  /\ RulesFor(rs, e, ev) = {} => given[ev] = old[ev]
             /\ \A r \in RulesFor(rs, e, ev) : given[ev] = Text(r)
<1> DEFINE full == Written(rs)
           found == FindCssById(full, e)
           given == CssSelectorSeparator(found, old)
           of == {i \in DOMAIN found : Selects(found[i]) = ev}
           K == {k \in DOMAIN rs : rs[k].id = e /\ rs[k].event = ev}
<1>1. PICK off : IsSheet(rs, off, full)  BY SheetIsWritten
<1>2. DOMAIN rs = 1 .. Len(rs) /\ \A k \in 1 .. Len(rs) : rs[k] \in Rule
  BY LenProperties, ElementOfSeq
<1>3. DOMAIN found = {off[k] + 1 : k \in {l \in DOMAIN rs : rs[l].id = e}}
  <2>1. DOMAIN found = FindAllFromString(full, e)  BY Zenon DEF FindCssById
  <2> QED  BY <1>1, <2>1, FoundPieces
<1>4. ASSUME NEW k \in DOMAIN rs, rs[k].id = e
      PROVE  /\ off[k] + 1 \in DOMAIN found
             /\ found[off[k] + 1] = Text(rs[k]) /\ Selects(Text(rs[k])) = rs[k].event
  <2>1. off[k] + 1 \in DOMAIN found  BY <1>3, <1>4, Zenon
  <2>2. found[off[k] + 1] = Piece(full, off[k] + 1)  BY <2>1, Zenon DEF FindCssById
  <2>3. Piece(full, off[k] + 1) = Text(rs[k])  BY <1>1, <1>2, PieceOfRule
  <2>4. Selects(Text(rs[k])) = rs[k].event
    <3>1. rs[k] \in Rule  BY <1>2, Zenon
    <3>2. IsText(Text(rs[k]), rs[k])  BY <3>1, TextOfRule, Zenon
    <3> QED  BY <3>1, <3>2, SelectsItsEvent, Zenon
  <2> QED  BY <2>1, <2>2, <2>3, <2>4, Zenon
<1>5. \A k, l \in DOMAIN rs : off[k] \in Nat /\ (k < l => off[k] < off[l])
  <2> SUFFICES ASSUME NEW k \in DOMAIN rs, NEW l \in DOMAIN rs
               PROVE  off[k] \in Nat /\ (k < l => off[k] < off[l])
    BY Zenon
  <2> DEFINE m == Len(WrittenRule(rs[k]))
  <2>1. off[k] \in Nat /\ off[l] \in Nat  BY <1>1, <1>2, Zenon DEF IsSheet
  <2>2. k < l => off[k] + m <= off[l]  BY <1>1, <1>2, Zenon DEF IsSheet
  <2>3. m \in Nat /\ m >= 3
    <3>1. rs[k] \in Rule  BY <1>2, Zenon
    <3> QED  BY <3>1, RuleLength, Zenon
  <2> HIDE DEF m
  <2> QED  BY <2>1, <2>2, <2>3
<1>6. \A i : i \in of <=> \E k \in K : i = off[k] + 1
  <2>1. ASSUME NEW i \in of PROVE \E k \in K : i = off[k] + 1
    <3>1. i \in DOMAIN found /\ Selects(found[i]) = ev  BY <2>1, Zenon
    <3>2. PICK k \in DOMAIN rs : rs[k].id = e /\ i = off[k] + 1  BY <1>3, <3>1, Zenon
    <3>3. rs[k].event = ev  BY <1>4, <3>1, <3>2, Zenon
    <3> QED  BY <3>2, <3>3, Zenon
  <2>2. ASSUME NEW k \in K PROVE off[k] + 1 \in of
    <3>1. k \in DOMAIN rs /\ rs[k].id = e /\ rs[k].event = ev  BY <2>2, Zenon
    <3>2. off[k] + 1 \in DOMAIN found /\ Selects(found[off[k] + 1]) = ev
      BY <1>4, <3>1, Zenon
    <3> QED  BY <3>2, Zenon
  <2> QED  BY <2>1, <2>2, Zenon
<1>7. given[ev] = IF \E i \in of : Prevails(i, of) THEN found[CHOOSE i \in of : Prevails(i, of)]
                                                  ELSE old[ev]
  BY Zenon DEF CssSelectorSeparator
<1>8. K \subseteq DOMAIN rs /\ DOMAIN rs \subseteq Nat
      /\ \A k \in K : rs[k].id = e
  BY <1>2
<1>9. RulesFor(rs, e, ev) = {rs[k] : k \in {j \in K : IsLast(j, K)}}
  BY Zenon DEF RulesFor
<1> HIDE DEF of, K, found, given, full
<1>10. ASSUME NEW k \in K PROVE IsLast(k, K) <=> Prevails(off[k] + 1, of)
  <2>1. ASSUME IsLast(k, K), NEW i \in of PROVE i <= off[k] + 1
    <3>1. PICK l \in K : i = off[l] + 1  BY <1>6, <2>1, Zenon
    <3>2. l <= k  BY <2>1, Zenon DEF IsLast
    <3>3. k \in DOMAIN rs /\ l \in DOMAIN rs /\ k \in Nat /\ l \in Nat  BY <1>8
    <3>4. off[k] \in Nat /\ off[l] \in Nat /\ (l < k => off[l] < off[k])  BY <1>5, <3>3, Zenon
    <3>5. l = k \/ l < k  BY <3>2, <3>3
    <3> QED  BY <3>1, <3>4, <3>5
  <2>2. ASSUME Prevails(off[k] + 1, of), NEW l \in K PROVE l <= k
    <3>1. off[l] + 1 \in of  BY <1>6, Zenon
    <3>2. off[l] + 1 <= off[k] + 1  BY <2>2, <3>1, Zenon DEF Prevails, IsLast
    <3>3. k \in DOMAIN rs /\ l \in DOMAIN rs /\ k \in Nat /\ l \in Nat  BY <1>8
    <3>4. off[k] \in Nat /\ off[l] \in Nat /\ (k < l => off[k] < off[l])  BY <1>5, <3>3, Zenon
    <3> QED  BY <3>2, <3>3, <3>4
  <2> QED  BY <2>1, <2>2, Zenon DEF IsLast, Prevails
<1>11. ASSUME RulesFor(rs, e, ev) = {} PROVE given[ev] = old[ev]
  <2>1. \A k \in K : ~ IsLast(k, K)  BY <1>9, <1>11, Zenon
  <2>2. ~ \E i \in of : Prevails(i, of)  BY <1>6, <1>10, <2>1, Zenon
  <2> QED  BY <1>7, <2>2, Zenon
<1>12. ASSUME NEW r \in RulesFor(rs, e, ev) PROVE given[ev] = Text(r)
  <2>1. PICK k \in K : IsLast(k, K) /\ r = rs[k]  BY <1>9, <1>12, Zenon
  <2> DEFINE c == CHOOSE i \in of : Prevails(i, of)
  <2>2. off[k] + 1 \in of /\ Prevails(off[k] + 1, of)  BY <1>6, <1>10, <2>1, Zenon
  <2>3. c \in of /\ Prevails(c, of)  BY <2>2, Zenon
  <2>4. given[ev] = found[c]  BY <1>7, <2>2, Zenon
  <2> HIDE DEF c
  <2>5. PICK l \in K : c = off[l] + 1  BY <1>6, <2>3, Zenon
  <2>6. c <= off[k] + 1 /\ off[k] + 1 <= c  BY <2>2, <2>3, Zenon DEF Prevails, IsLast
  <2>7. off[k] \in Nat /\ off[l] \in Nat  BY <1>5, <1>8, Zenon
  <2>8. c = off[k] + 1  BY <2>5, <2>6, <2>7
  <2>9. found[off[k] + 1] = Text(rs[k])  BY <1>4, <1>8, <2>1, Zenon
  <2> QED  BY <2>1, <2>4, <2>8, <2>9, Zenon
<1> QED  BY <1>11, <1>12 DEF given, found, full

-----------------------------------------------------------------------------
(* Parsing a piece.                                                        *)

\* The body of a rule that is laid out tidily: three tokens for a declaration.
IsTidyBody(b, r) ==
  /\ b \in Seq(BodyTokens(r)) /\ Len(b) = 3 * Len(r.decls)
  /\ \A k \in 1 .. Len(r.decls) :
       b[3 * k - 2] = Space /\ b[3 * k - 1] = r.decls[k] /\ b[3 * k] = Semicolon

(* The body of a tidy rule is laid out tidily.                             *)
LEMMA TidyBody ==
  ASSUME NEW r, r \in Rule, r.layout = "tidy"
  PROVE  IsTidyBody(BodyOf(r), r)
<1> DEFINE seqs == [k \in DOMAIN r.decls |-> WrittenDeclaration(r.decls[k], r.layout)]
           full == FlattenSeq(seqs)
           n == Len(r.decls)
<1>1. n \in Nat /\ DOMAIN r.decls = 1 .. n  BY RuleTyped, Zenon
<1>2. ASSUME NEW k \in 1 .. n
      PROVE  /\ Len(seqs[k]) = 3 /\ seqs[k][1] = Space /\ seqs[k][2] = r.decls[k]
             /\ seqs[k][3] = Semicolon
  <2>1. r.decls[k] \in BodyTokens(r) /\ Space \in BodyTokens(r) /\ Semicolon \in BodyTokens(r)
    BY <1>1, Zenon DEF BodyTokens, Semicolon
  <2>2. r.layout # "glued"  OBVIOUS
  <2>3. seqs[k] = WrittenDeclaration(r.decls[k], r.layout)  BY <1>1, Zenon
  <2>4. LET d == WrittenDeclaration(r.decls[k], r.layout)
        IN  Len(d) = 3 /\ d[1] = Space /\ d[2] = r.decls[k] /\ d[3] = Semicolon
    BY <2>1, <2>2, DeclarationWritten
  <2> HIDE DEF seqs
  <2> QED  BY <2>3, <2>4, Zenon
<1>3. BodyOf(r) = full  BY DEF BodyOf, WrittenBody
<1>4. seqs \in Seq(Seq(BodyTokens(r)))  BY LinesTyped
<1>5. Len(seqs) = n
  <2>1. DOMAIN seqs = 1 .. n  BY <1>1, Zenon
  <2> HIDE DEF seqs, n
  <2>2. DOMAIN seqs = 1 .. Len(seqs) /\ Len(seqs) \in Nat  BY <1>4, LenProperties
  <2> QED  BY <1>1, <2>1, <2>2
<1> HIDE DEF seqs, full, n
<1>6. full \in Seq(BodyTokens(r)) /\ \E off : Lies(seqs, off, full) /\ EndToEnd(seqs, off)
  BY <1>4, Flattened DEF full
<1>7. PICK off : Lies(seqs, off, full) /\ EndToEnd(seqs, off)  BY <1>6
<1>8. \A k \in 1 .. n : off[k] = IF k = 1 THEN 0 ELSE off[k - 1] + 3
  <2> SUFFICES ASSUME NEW k \in 1 .. n PROVE off[k] = IF k = 1 THEN 0 ELSE off[k - 1] + 3
    OBVIOUS
  <2>1. off[k] = IF k = 1 THEN 0 ELSE off[k - 1] + Len(seqs[k - 1])
    BY <1>5, <1>7, Zenon DEF EndToEnd
  <2>2. CASE k = 1  BY <2>1, <2>2, Zenon
  <2>3. CASE k # 1
    <3>1. k - 1 \in 1 .. n  BY <1>1, <2>3
    <3>2. Len(seqs[k - 1]) = 3  BY <1>2, <3>1, Zenon
    <3> QED  BY <2>1, <2>3, <3>2, Zenon
  <2> QED  BY <2>2, <2>3
<1>9. \A k \in 1 .. n : off[k] = 3 * k - 3
  <2> DEFINE T == {m \in Nat : \A k \in 1 .. n : k = m + 1 => off[k] = 3 * k - 3}
  <2>1. 0 \in T  BY <1>8
  <2>2. ASSUME NEW m \in T PROVE m + 1 \in T
    <3> SUFFICES ASSUME NEW k \in 1 .. n, k = m + 1 + 1 PROVE off[k] = 3 * k - 3
      BY <2>2
    <3>1. PICK l : l = m + 1  OBVIOUS
    <3>2. l \in 1 .. n /\ k - 1 = l /\ k # 1  BY <1>1, <2>2, <3>1
    <3>3. off[l] = 3 * l - 3  BY <2>2, <3>1, <3>2
    <3>4. off[k] = off[k - 1] + 3  BY <1>8, <3>2, Zenon
    <3> QED  BY <3>1, <3>2, <3>3, <3>4
  <2>3. T = Nat
    <3>1. T \in SUBSET Nat  OBVIOUS
    <3> HIDE DEF T
    <3> QED  BY <2>1, <2>2, <3>1, SetInduction
  <2>4. ASSUME NEW k \in 1 .. n PROVE off[k] = 3 * k - 3
    <3>1. PICK m : m = k - 1  OBVIOUS
    <3>2. m \in Nat /\ k = m + 1  BY <1>1, <3>1
    <3> QED  BY <2>3, <3>2
  <2> QED  BY <2>4
<1>10. Len(full) \in Nat  BY <1>6, LenProperties
<1>11. \A k \in 1 .. n : off[k] + 3 <= Len(full)
  <2>1. \A k \in 1 .. n : off[k] + Len(seqs[k]) <= Len(full)  BY <1>5, <1>7, Zenon DEF Lies
  <2>2. \A k \in 1 .. n : Len(seqs[k]) = 3  BY <1>2, Zenon
  <2> QED  BY <2>1, <2>2
<1>12. Len(full) = 3 * n
  <2>1. 3 * n <= Len(full)
    <3>1. CASE n = 0  BY <1>10, <3>1
    <3>2. CASE n # 0
      <4>1. n \in 1 .. n  BY <1>1, <3>2
      <4>2. off[n] = 3 * n - 3 /\ off[n] + 3 <= Len(full)  BY <1>9, <1>11, <4>1, Zenon
      <4> QED  BY <1>1, <1>10, <4>2
    <3> QED  BY <3>1, <3>2
  <2>2. ASSUME NEW i \in 1 .. Len(full) PROVE i <= 3 * n
    <3>1. PICK k \in 1 .. n : \E j \in 1 .. Len(seqs[k]) : i = off[k] + j
      BY <1>5, <1>7, Zenon DEF Lies
    <3>2. Len(seqs[k]) = 3 /\ off[k] = 3 * k - 3  BY <1>2, <1>9, Zenon
    <3>3. PICK j \in 1 .. 3 : i = off[k] + j  BY <3>1, <3>2, Zenon
    <3>4. k <= n /\ k \in Nat  BY <1>1
    <3> QED  BY <1>1, <3>2, <3>3, <3>4
  <2>3. Len(full) = 0 \/ Len(full) \in 1 .. Len(full)  BY <1>10
  <2> QED  BY <1>1, <1>10, <2>1, <2>2, <2>3
<1>13. ASSUME NEW k \in 1 .. n
       PROVE  /\ full[3 * k - 2] = Space /\ full[3 * k - 1] = r.decls[k]
              /\ full[3 * k] = Semicolon
  <2>1. \A j \in 1 .. Len(seqs[k]) : full[off[k] + j] = seqs[k][j]
    BY <1>5, <1>7, Zenon DEF Lies
  <2>2. Len(seqs[k]) = 3  BY <1>2
  <2>3. \A j \in 1 .. 3 : full[off[k] + j] = seqs[k][j]  BY <2>1, <2>2, Zenon
  <2>4. 1 \in 1 .. 3 /\ 2 \in 1 .. 3 /\ 3 \in 1 .. 3  OBVIOUS
  <2>5. off[k] = 3 * k - 3  BY <1>9, Zenon
  <2>6. off[k] + 1 = 3 * k - 2 /\ off[k] + 2 = 3 * k - 1 /\ off[k] + 3 = 3 * k
    BY <1>1, <2>5
  <2>7. full[3 * k - 2] = seqs[k][1] /\ full[3 * k - 1] = seqs[k][2] /\ full[3 * k] = seqs[k][3]
    BY <2>3, <2>4, <2>6, Zenon
  <2> QED  BY <1>2, <2>7, Zenon
<1> QED  BY <1>3, <1>6, <1>12, <1>13, Zenon DEF IsTidyBody, n

(* ParseCss takes the body out of a piece of a tidy rule.                  *)
LEMMA BodyOfText ==
  ASSUME NEW r, r \in Rule, NEW t, IsText(t, r)
  PROVE  Body(t) = BodyOf(r)
<1> DEFINE b == BodyOf(r)
           n == Len(b)
           c == Colon(r)
           N == Len(t)
           B == SubSeq(t, c + 2, N - 1)
<1>1. c \in {0, 1} /\ n \in Nat  BY ColonOf, Zenon
<1>2. N = c + n + 2 /\ t[N] = CloseBrace /\ \A j \in 1 .. n : t[c + 1 + j] = b[j]
  BY Zenon DEF IsText
<1>3. b \in Seq(Tokens)  BY BodyTyped, BodyTokensAreTokens, SeqMonotonic
<1>4. t \in Seq(Tokens)  BY DEF IsText
<1>5. Body(t) = SubSeq(t, c + 1 + 1, N - 1)
  <2>1. FirstAfter(t, 0, "{") = c + 1  BY TextIsOpened, Zenon
  <2>2. t[N] = "}"  BY <1>2, Zenon DEF CloseBrace
  <2> QED  BY <2>1, <2>2, Zenon DEF Body
<1>6. c + 1 + 1 = c + 2  BY <1>1
<1>7. Body(t) = B  BY <1>5, <1>6, Zenon
<1>8. \A i \in 1 .. N : t[i] \in Tokens  BY <1>4, ElementOfSeq
<1>9. \A j \in 1 .. n : b[j] \in Tokens  BY <1>3, ElementOfSeq
<1>10. n = Len(b)  OBVIOUS
<1> HIDE DEF b, n, c, N
<1>11. \A i \in c + 2 .. N - 1 : t[i] \in Tokens
  <2>1. \A i \in c + 2 .. N - 1 : i \in 1 .. N  BY <1>1, <1>2
  <2> QED  BY <1>8, <2>1, Zenon
<1>12. c + 2 \in Int /\ N - 1 \in Int /\ (N - 1) - (c + 2) + 1 = n
       /\ (c + 2 <= N - 1 <=> n > 0)
  BY <1>1, <1>2
<1>13. B \in Seq(Tokens)
       /\ Len(B) = (IF c + 2 <= N - 1 THEN (N - 1) - (c + 2) + 1 ELSE 0)
       /\ \A i \in 1 .. (N - 1) - (c + 2) + 1 : B[i] = t[c + 2 + (i - 1)]
  <2> DEFINE x == c + 2  z == N - 1
  <2> HIDE DEF x, z
  <2>1. x \in Int /\ z \in Int /\ \A i \in x .. z : t[i] \in Tokens
    BY <1>11, <1>12 DEF x, z
  <2>2. SubSeq(t, x, z) \in Seq(Tokens)
        /\ Len(SubSeq(t, x, z)) = (IF x <= z THEN z - x + 1 ELSE 0)
        /\ \A i \in 1 .. z - x + 1 : SubSeq(t, x, z)[i] = t[x + i - 1]
    BY <2>1, SubSeqProperties
  <2> QED  BY <2>2 DEF x, z
<1> HIDE DEF B
<1>14. Len(B) = n  BY <1>1, <1>12, <1>13
<1>15. ASSUME NEW i \in 1 .. n PROVE B[i] = b[i]
  <2>1. B[i] = t[c + 2 + (i - 1)]  BY <1>12, <1>13
  <2>2. c + 2 + (i - 1) = c + 1 + i  BY <1>1
  <2> QED  BY <1>2, <2>1, <2>2, Zenon
<1>16. B = b
  <2>1. Len(B) = Len(b) /\ \A i \in 1 .. Len(B) : B[i] = b[i]  BY <1>10, <1>14, <1>15, Zenon
  <2> QED  BY <1>3, <1>13, <2>1, SeqEqual
<1> QED  BY <1>7, <1>16 DEF b

\* The threads of a tidy rule, one for each declaration.
ThreadOf(r, j) == [line |-> 3 * j, decl |-> r.decls[j]]
Threads(r)     == {ThreadOf(r, j) : j \in DOMAIN r.decls}

(* The semicolons of a tidy body are every third token.                    *)
LEMMA SemicolonsOfTidyBody ==
  ASSUME NEW r, r \in Rule, NEW b, IsTidyBody(b, r)
  PROVE  Semicolons(b) = {3 * k : k \in 1 .. Len(r.decls)}
<1> DEFINE n == Len(r.decls)
<1>1. n \in Nat /\ \A k \in 1 .. n : r.decls[k] \in Words  BY RuleTyped, Zenon
<1>2. Len(b) = 3 * n /\ \A k \in 1 .. n :
        b[3 * k - 2] = Space /\ b[3 * k - 1] = r.decls[k] /\ b[3 * k] = Semicolon
  BY Zenon DEF IsTidyBody
<1>3. DOMAIN b = 1 .. 3 * n
  <2>1. b \in Seq(BodyTokens(r))  BY Zenon DEF IsTidyBody
  <2> QED  BY <1>2, <2>1, LenProperties
<1> HIDE DEF n
<1>4. Semicolons(b) = {j \in 1 .. 3 * n : b[j] = Semicolon}
  BY <1>3, Zenon DEF Semicolons, Semicolon
<1>5. ASSUME NEW j \in 1 .. 3 * n, b[j] = Semicolon PROVE \E k \in 1 .. n : j = 3 * k
  <2>1. \E k \in 1 .. n : j = 3 * k - 2 \/ j = 3 * k - 1 \/ j = 3 * k
    <3>1. /\ (j + 2) \div 3 \in 1 .. n
          /\ j \in {3 * ((j + 2) \div 3) - 2, 3 * ((j + 2) \div 3) - 1, 3 * ((j + 2) \div 3)}
      BY <1>1
    <3> QED  BY <3>1
  <2>2. PICK k \in 1 .. n : j = 3 * k - 2 \/ j = 3 * k - 1 \/ j = 3 * k  BY <2>1
  <2>3. b[3 * k - 2] # Semicolon  BY <1>2, MarksDiffer
  <2>4. b[3 * k - 1] # Semicolon  BY <1>1, <1>2, WordsAreNoMarks
  <2> QED  BY <1>5, <2>2, <2>3, <2>4, Zenon
<1>6. ASSUME NEW k \in 1 .. n PROVE 3 * k \in 1 .. 3 * n /\ b[3 * k] = Semicolon
  <2>1. 3 * k \in 1 .. 3 * n  BY <1>1
  <2> QED  BY <1>2, <2>1, Zenon
<1> QED  BY <1>4, <1>5, <1>6, Zenon DEF n

(* The declaration read before a semicolon of a tidy body is the one       *)
(* written there.                                                          *)
LEMMA LineOfTidyBody ==
  ASSUME NEW r, r \in Rule, NEW b, IsTidyBody(b, r), NEW k, k \in 1 .. Len(r.decls)
  PROVE  Declaration(Line(b, 3 * k)) = r.decls[k]
<1> DEFINE n == Len(r.decls)
           before == {j \in Semicolons(b) : j < 3 * k}
           start == IF before = {} THEN 1 ELSE 1 + CHOOSE j \in before : IsLast(j, before)
           line == SubSeq(b, 3 * k - 2, 3 * k - 1)
           words == {j \in DOMAIN line : line[j] # Space}
<1>1. n \in Nat /\ \A i \in 1 .. n : r.decls[i] \in Words  BY RuleTyped, Zenon
<1>2. Len(b) = 3 * n /\ b \in Seq(BodyTokens(r)) /\ \A i \in 1 .. n :
        b[3 * i - 2] = Space /\ b[3 * i - 1] = r.decls[i] /\ b[3 * i] = Semicolon
  BY Zenon DEF IsTidyBody
<1>3. Semicolons(b) = {3 * i : i \in 1 .. n}  BY SemicolonsOfTidyBody
<1>4. k \in 1 .. n  OBVIOUS
<1> HIDE DEF n
<1>5. start = 3 * k - 2
  <2>1. \A j : j \in before <=> \E i \in 1 .. n : j = 3 * i /\ i < k
    <3>1. \A j : j \in before <=> (\E i \in 1 .. n : j = 3 * i) /\ j < 3 * k  BY <1>3, Zenon
    <3>2. \A i \in 1 .. n : 3 * i < 3 * k <=> i < k  BY <1>1, <1>4
    <3> QED  BY <3>1, <3>2, Zenon
  <2> HIDE DEF before
  <2>2. CASE k = 1
    <3>1. before = {}  BY <1>1, <2>1, <2>2
    <3> QED  BY <2>2, <3>1
  <2>3. CASE k # 1
    <3> DEFINE last == CHOOSE j \in before : IsLast(j, before)
    <3>0. PICK l : l = k - 1  OBVIOUS
    <3>1. l \in 1 .. n /\ l < k /\ k \in Nat  BY <1>1, <1>4, <2>3, <3>0
    <3>2. 3 * l \in before  BY <2>1, <3>1, Zenon
    <3>3. \A j \in before : j \in Nat /\ j <= 3 * l
      <4> SUFFICES ASSUME NEW j \in before PROVE j \in Nat /\ j <= 3 * l  OBVIOUS
      <4>1. PICK i \in 1 .. n : j = 3 * i /\ i < k  BY <2>1, Zenon
      <4> QED  BY <1>1, <1>4, <3>0, <4>1
    <3>4. IsLast(3 * l, before)  BY <3>3, Zenon DEF IsLast
    <3>5. last \in before /\ IsLast(last, before)  BY <3>2, <3>4, Zenon
    <3> HIDE DEF last
    <3>6. last = 3 * l
      <4>1. last <= 3 * l /\ 3 * l <= last  BY <3>2, <3>3, <3>5, Zenon DEF IsLast
      <4>2. last \in Nat /\ l \in Nat  BY <1>1, <3>1, <3>3, <3>5
      <4> QED  BY <4>1, <4>2
    <3>7. start = 1 + last  BY <3>2, Zenon DEF last
    <3> QED  BY <3>0, <3>1, <3>6, <3>7
  <2> QED  BY <2>2, <2>3
<1>6. Line(b, 3 * k) = SubSeq(b, LineFrom(b, start), 3 * k - 1)
  BY Zenon DEF Line
<1> HIDE DEF start
<1>7. LineFrom(b, start) = 3 * k - 2
  <2>1. b[start] = Space  BY <1>2, <1>4, <1>5, Zenon
  <2> QED  BY <1>5, <2>1, Zenon DEF LineFrom
<1>8. Line(b, 3 * k) = line  BY <1>6, <1>7, Zenon
<1>9. Len(line) = 2 /\ DOMAIN line = 1 .. 2 /\ line[1] = b[3 * k - 2] /\ line[2] = b[3 * k - 1]
  <2> DEFINE x == 3 * k - 2  z == 3 * k - 1
  <2>1. x \in Int /\ z \in Int /\ x <= z /\ z - x + 1 = 2 /\ x + (1 - 1) = x /\ x + (2 - 1) = z
    BY <1>1, <1>4
  <2>2. \A i \in x .. z : b[i] \in BodyTokens(r)
    <3>1. \A i \in x .. z : i \in 1 .. Len(b)  BY <1>1, <1>2, <1>4
    <3>2. \A i \in 1 .. Len(b) : b[i] \in BodyTokens(r)  BY <1>2, ElementOfSeq
    <3> QED  BY <3>1, <3>2, Zenon
  <2> HIDE DEF x, z
  <2> DEFINE s == SubSeq(b, x, z)
  <2>3. s \in Seq(BodyTokens(r)) /\ Len(s) = z - x + 1
        /\ \A i \in 1 .. z - x + 1 : s[i] = b[x + i - 1]
    BY <2>1, <2>2, SubSeqProperties
  <2> HIDE DEF s
  <2>4. Len(s) = 2 /\ \A i \in 1 .. 2 : s[i] = b[x + (i - 1)]  BY <2>1, <2>3, Zenon
  <2>5. s[1] = b[x] /\ s[2] = b[z]
    <3>1. s[1] = b[x + (1 - 1)] /\ s[2] = b[x + (2 - 1)]  BY <2>4
    <3> QED  BY <2>1, <3>1, Zenon
  <2>6. DOMAIN s = 1 .. 2  BY <2>3, <2>4, LenProperties
  <2> QED  BY <2>4, <2>5, <2>6 DEF s, x, z
<1>10. line[1] = Space /\ line[2] = r.decls[k] /\ r.decls[k] # Space
  <2>1. b[3 * k - 2] = Space /\ b[3 * k - 1] = r.decls[k]  BY <1>2, <1>4, Zenon
  <2>2. r.decls[k] # Space  BY <1>1, <1>4, WordsAreNoMarks, Zenon
  <2> QED  BY <1>9, <2>1, <2>2, Zenon
<1> HIDE DEF line
<1>11. words = {2}
  <2>1. 1 .. 2 = {1, 2}  OBVIOUS
  <2> QED  BY <1>9, <1>10, <2>1, Zenon
<1>12. Declaration(line) = line[CHOOSE j \in words : IsFirst(j, words)]
  BY <1>11, Zenon DEF Declaration
<1> HIDE DEF words
<1>13. (CHOOSE j \in words : IsFirst(j, words)) = 2
  <2>1. IsFirst(2, words)  BY <1>11 DEF IsFirst
  <2> QED  BY <1>11, <2>1, Zenon
<1> QED  BY <1>8, <1>10, <1>12, <1>13, Zenon

(***************************************************************************)
(* Parsing the piece of a rule that is laid out tidily starts one thread   *)
(* for each of its declarations (ParseCss).                                *)
(***************************************************************************)
LEMMA CallbacksOfTidyRule ==
  ASSUME NEW r, r \in Rule, r.layout = "tidy"
  PROVE  Callbacks(Text(r)) = Threads(r)
<1> DEFINE b == Body(Text(r))
           n == Len(r.decls)
           Decl(c) == Declaration(Line(b, c))
           C == {k \in Semicolons(b) : Decl(k) \in DOMAIN Declares}
<1>1. IsTidyBody(b, r)
  <2>1. b = BodyOf(r)  BY TextOfRule, BodyOfText
  <2> QED  BY <2>1, TidyBody
<1>2. DOMAIN r.decls = 1 .. n /\ \A k \in 1 .. n : r.decls[k] \in DOMAIN Declares
  BY RuleTyped, Zenon
<1>3. Callbacks(Text(r)) = {[line |-> c, decl |-> Decl(c)] : c \in C}
  BY Zenon DEF Callbacks
<1> HIDE DEF b
<1>4. Semicolons(b) = {3 * k : k \in 1 .. n}  BY <1>1, SemicolonsOfTidyBody
<1>5. \A k \in 1 .. n : Decl(3 * k) = r.decls[k]  BY <1>1, LineOfTidyBody
<1> HIDE DEF n, Decl
<1>6. C = {3 * k : k \in 1 .. n}  BY <1>2, <1>4, <1>5, Zenon
<1> HIDE DEF C
<1>7. {[line |-> c, decl |-> Decl(c)] : c \in C} =
      {[line |-> 3 * k, decl |-> r.decls[k]] : k \in 1 .. n}
  BY <1>5, <1>6, Zenon
<1>8. Threads(r) = {[line |-> 3 * k, decl |-> r.decls[k]] : k \in 1 .. n}
  BY <1>2, Zenon DEF Threads, ThreadOf
<1> QED  BY <1>3, <1>7, <1>8, Zenon

-----------------------------------------------------------------------------
(* Type correctness.                                                       *)

\* What surrounds the pieces, the looks and the threads.
Shapes ==
  /\ rules \in Sheets /\ FullCss = Written(rules)
  /\ DOMAIN css = Elements /\ DOMAIN cssEvents = Elements
  /\ then \in {"render", "parsed"}
  /\ pc = "drawn" => turn = Len(Turn)
  /\ pc = "parsed" \/ (pc = "parsing" /\ then = "parsed") => El \in Buttons

(* Who has a turn in a frame: the screen and then every element that was   *)
(* added.                                                                  *)
LEMMA TurnTyped ==
  /\ Len(Turn) \in Nat /\ Len(Turn) >= 1 /\ DOMAIN Turn = 1 .. Len(Turn) /\ Turn[1] = Screen
  /\ \A k \in DOMAIN Turn : Turn[k] \in Elements
  /\ \A e \in Elements : \E k \in DOMAIN Turn : Turn[k] = e
  /\ Elements \subseteq Ids /\ Screen \notin Added /\ Buttons \subseteq Added
<1> DEFINE n == Len(Order)
           s == <<Screen>>
<1>1. Order \in Seq(Ids) /\ Screen \in Ids /\ Screen \notin Added  BY OrderAssumption
<1>2. n \in Nat /\ DOMAIN Order = 1 .. n /\ \A k \in 1 .. n : Order[k] \in Ids
  BY <1>1, LenProperties, ElementOfSeq
<1>3. s \in Seq(Ids) /\ Len(s) = 1 /\ s[1] = Screen  BY <1>1, OneToken
<1>4. IsConcat(Turn, s, Order)
  <2> HIDE DEF s
  <2>1. IsConcat(s \o Order, s, Order)  BY <1>1, <1>3, ConcatPlaces
  <2> QED  BY <2>1, Zenon DEF Turn, s
<1>5. Turn \in Seq(Ids)
  <2> HIDE DEF s
  <2>1. s \o Order \in Seq(Ids)  BY <1>1, <1>3, ConcatProperties
  <2> QED  BY <2>1, Zenon DEF Turn, s
<1> HIDE DEF s
<1>6. Len(Turn) = 1 + n  BY <1>3, <1>4, Zenon DEF IsConcat
<1>7. Turn[1] = Screen /\ \A j \in 1 .. n : Turn[1 + j] = Order[j]
  <2>1. \A i \in 1 .. 1 : Turn[i] = s[i]  BY <1>3, <1>4, Zenon DEF IsConcat
  <2>2. \A j \in 1 .. n : Turn[1 + j] = Order[j]  BY <1>3, <1>4, Zenon DEF IsConcat
  <2>3. 1 \in 1 .. 1  OBVIOUS
  <2> QED  BY <1>3, <2>1, <2>2, <2>3, Zenon
<1> HIDE DEF n
<1>8. DOMAIN Turn = 1 .. 1 + n  BY <1>5, <1>6, LenProperties
<1>9. \A k \in 1 .. 1 + n : k = 1 \/ \E j \in 1 .. n : k = 1 + j
  <2> SUFFICES ASSUME NEW k \in 1 .. 1 + n, k # 1 PROVE \E j \in 1 .. n : k = 1 + j  OBVIOUS
  <2>1. k - 1 \in 1 .. n /\ k = 1 + (k - 1)  BY <1>2
  <2> QED  BY <2>1, Zenon
<1>10. Added = {Order[k] : k \in 1 .. n}  BY <1>2, Zenon DEF Added
<1>11. \A k \in DOMAIN Turn : Turn[k] \in Elements
  <2> SUFFICES ASSUME NEW k, k \in 1 .. 1 + n PROVE Turn[k] \in Elements
    BY <1>8, Zenon
  <2>1. CASE k = 1  BY <1>7, <2>1, Zenon DEF Elements
  <2>2. CASE \E j \in 1 .. n : k = 1 + j
    <3>1. PICK j \in 1 .. n : k = 1 + j  BY <2>2, Zenon
    <3>2. Turn[k] = Order[j]  BY <1>7, <3>1, Zenon
    <3> QED  BY <1>10, <3>2, Zenon DEF Elements
  <2> QED  BY <1>9, <2>1, <2>2, Zenon
<1>12. \A e \in Elements : \E k \in DOMAIN Turn : Turn[k] = e
  <2>1. 1 \in 1 .. 1 + n /\ \A j \in 1 .. n : 1 + j \in 1 .. 1 + n  BY <1>2
  <2>2. \E k \in DOMAIN Turn : Turn[k] = Screen  BY <1>7, <1>8, <2>1, Zenon
  <2>3. \A e \in Added : \E k \in DOMAIN Turn : Turn[k] = e
    BY <1>7, <1>8, <1>10, <2>1, Zenon
  <2> QED  BY <2>2, <2>3, Zenon DEF Elements
<1>13. Elements \subseteq Ids  BY <1>1, <1>2, <1>10, Zenon DEF Elements
<1>14. 1 + n \in Nat /\ 1 + n >= 1  BY <1>2
<1> QED  BY <1>1, <1>6, <1>7, <1>8, <1>11, <1>12, <1>13, <1>14, ButtonsAssumption, Zenon

(* A piece of a text is a text.                                            *)
LEMMA PieceTyped ==
  ASSUME NEW full, full \in Seq(Tokens), NEW i, i \in DOMAIN full
  PROVE  Piece(full, i) \in Seq(Tokens)
<1> DEFINE z == FirstAfter(full, i, "}")
           a == i + 1
<1>1. Len(full) \in Nat /\ i \in Nat  BY LenProperties
<1>2. z \in Nat /\ z <= Len(full)  BY <1>1, FirstAfterTyped, Zenon
<1>3. Piece(full, i) = SubSeq(full, a, z)  BY Zenon DEF Piece
<1> HIDE DEF z
<1>4. a \in Int /\ z \in Int /\ \A j \in a .. z : j \in 1 .. Len(full)  BY <1>1, <1>2
<1>5. \A j \in 1 .. Len(full) : full[j] \in Tokens  BY ElementOfSeq
<1>6. \A j \in a .. z : full[j] \in Tokens  BY <1>4, <1>5, Zenon
<1> HIDE DEF a
<1> QED  BY <1>3, <1>4, <1>6, SubSeqProperties

(* The threads a text starts have known declarations.                      *)
LEMMA CallbacksTyped ==
  ASSUME NEW t, t \in Seq(Tokens)
  PROVE  Callbacks(t) \subseteq Thread
<1> DEFINE f == FirstAfter(t, 0, "{")
           a == f + 1
           z == IF t[Len(t)] = "}" THEN Len(t) - 1 ELSE Len(t)
           body == SubSeq(t, a, z)
<1>1. Len(t) \in Nat  BY LenProperties
<1>2. FirstAfter(t, 0, "{") \in Nat
  <2>1. 0 \in Nat  OBVIOUS
  <2>2. FirstAfter(t, 0, OpenBrace) \in Nat  BY <1>1, <2>1, FirstAfterTyped
  <2> QED  BY <2>2, Zenon DEF OpenBrace
<1>3. Body(t) = body  BY Zenon DEF Body
<1> HIDE DEF f
<1>4. a \in Nat /\ a >= 1
  <2>1. f \in Nat  BY <1>2, Zenon DEF f
  <2> QED  BY <2>1
<1>5. z = Len(t) - 1 \/ z = Len(t)  BY Zenon
<1> HIDE DEF a, z
<1>6. a \in Int /\ z \in Int /\ \A j \in a .. z : j \in 1 .. Len(t)  BY <1>1, <1>4, <1>5
<1>7. \A j \in 1 .. Len(t) : t[j] \in Tokens  BY ElementOfSeq
<1>8. \A j \in a .. z : t[j] \in Tokens  BY <1>6, <1>7, Zenon
<1>9. body \in Seq(Tokens)  BY <1>6, <1>8, SubSeqProperties
<1> HIDE DEF body
<1>10. DOMAIN body \subseteq Nat  BY <1>9, LenProperties
<1>11. Semicolons(Body(t)) \subseteq Nat  BY <1>3, <1>10, Zenon DEF Semicolons
<1>12. ASSUME NEW c \in Callbacks(t) PROVE c \in Thread
  <2>1. PICK k \in Semicolons(Body(t)) :
          /\ Declaration(Line(Body(t), k)) \in DOMAIN Declares
          /\ c = [line |-> k, decl |-> Declaration(Line(Body(t), k))]
    BY <1>12, Zenon DEF Callbacks
  <2>2. k \in Nat  BY <1>11, <2>1
  <2> DEFINE d == Declaration(Line(Body(t), k))
  <2>3. d \in DOMAIN Declares /\ c = [line |-> k, decl |-> d]  BY <2>1, Zenon
  <2> HIDE DEF d
  <2> QED  BY <2>2, <2>3 DEF Thread
<1> QED  BY <1>12

(* The three ways ParseCss goes on.                                        *)
LEMMA ParseCssCases ==
  ASSUME NEW piece, NEW return, return \in {"render", "parsed"}, ParseCss(piece, return)
  PROVE  \/ /\ piece = NoPiece /\ pc' = return /\ UNCHANGED <<then, threads>>
         \/ /\ piece # NoPiece /\ ~ Opened(piece)
            /\ pc' = "aborted" /\ UNCHANGED <<then, threads>>
         \/ /\ piece # NoPiece /\ Opened(piece)
            /\ pc' = "parsing" /\ then' = return /\ threads' = Callbacks(piece)
<1>1. CASE piece = NoPiece  BY <1>1 DEF ParseCss
<1>2. CASE piece # NoPiece /\ ~ Opened(piece)  BY <1>2 DEF ParseCss
<1>3. CASE piece # NoPiece /\ Opened(piece)  BY <1>3 DEF ParseCss
<1> QED  BY <1>1, <1>2, <1>3

(* What is found in the sheet, and what the separator keeps of it, is a    *)
(* piece of the sheet.                                                     *)
LEMMA PiecesTyped ==
  ASSUME FullCss \in Seq(Tokens)
  PROVE  Pieces \subseteq Seq(Tokens)
BY PieceTyped DEF Pieces

(* What is found by an id is a piece of the sheet.                         *)
LEMMA FoundTyped ==
  ASSUME NEW e
  PROVE  \A i \in DOMAIN FindCssById(FullCss, e) : FindCssById(FullCss, e)[i] \in Pieces
<1>1. DOMAIN FindCssById(FullCss, e) \subseteq DOMAIN FullCss
  BY Zenon DEF FindCssById, FindAllFromString
<1>2. \A i \in DOMAIN FindCssById(FullCss, e) :
         FindCssById(FullCss, e)[i] = Piece(FullCss, i)
  BY Zenon DEF FindCssById
<1> QED  BY <1>1, <1>2, Zenon DEF Pieces

(* The separator gives an event a found piece or leaves it its old one.    *)
LEMMA SeparatorTyped ==
  ASSUME NEW P, NEW found, \A i \in DOMAIN found : found[i] \in P, NEW old,
         NEW ev, ev \in Events, old[ev] \in P
  PROVE  CssSelectorSeparator(found, old)[ev] \in P
<1> DEFINE of == {i \in DOMAIN found : Selects(found[i]) = ev}
<1>1. CssSelectorSeparator(found, old)[ev] =
        IF \E k \in of : Prevails(k, of) THEN found[CHOOSE k \in of : Prevails(k, of)] ELSE old[ev]
  BY Zenon DEF CssSelectorSeparator
<1>2. CASE \E k \in of : Prevails(k, of)
  <2>1. (CHOOSE k \in of : Prevails(k, of)) \in of  BY <1>2, Zenon
  <2> QED  BY <1>1, <1>2, <2>1, Zenon
<1>3. CASE ~ \E k \in of : Prevails(k, of)  BY <1>1, <1>3, Zenon
<1> QED  BY <1>2, <1>3

(* A declared value is converted to one of the values a property has.      *)
LEMMA ValuesTyped ==
  ASSUME NEW d, d \in DOMAIN Declares
  PROVE  /\ Converted(Declares[d].value) \in {Unset, Nothing} \cup Values
         /\ Declares[d].prop \in Props
<1>1. CASE Declares[d].value.kind = "bare"  BY <1>1, DeclaresAssumption DEF Converted
<1>2. CASE Declares[d].value.kind # "bare"  BY <1>2, DeclaresAssumption DEF Converted, Values
<1> QED  BY <1>1, <1>2

TypeInv == TypeOK /\ Shapes

(* The element whose turn it is.                                           *)
LEMMA ElTyped ==
  ASSUME TypeOK
  PROVE  El \in Elements /\ El \in Ids
<1>1. turn \in DOMAIN Turn  BY DEF TypeOK
<1> QED  BY <1>1, TurnTyped DEF El

(* How a turn ends.                                                        *)
LEMMA TurnEndsCases ==
  ASSUME TypeInv, NEW size, TurnEnds(size)
  PROVE  /\ turn' \in DOMAIN Turn /\ pc' \in {"style", "drawn", "aborted"}
         /\ pc' = "drawn" => turn' = Len(Turn)
         /\ pc' = "aborted" => El # Screen /\ Flat(size)
         /\ turn' = turn \/ (turn' = turn + 1 /\ pc' = "style")
         /\ pc' = "style" => turn' = turn + 1
BY TurnTyped DEF TypeInv, TypeOK, TurnEnds

(* A value of whole cells comes to whole cells, and so do sizes.           *)
LEMMA AbsoluteTyped ==
  ASSUME NEW v, v.n \in Nat, NEW n, n \in Nat
  PROVE  Absolute(v, n) \in Nat
<1> DEFINE m == 2 * v.n * n + 100
<1>1. m \in Nat  OBVIOUS
<1> HIDE DEF m
<1>2. m \div 200 \in Nat  BY <1>1
<1>3. Absolute(v, n) = IF v.kind = "%" THEN m \div 200 ELSE v.n  BY Zenon DEF Absolute, m
<1> QED  BY <1>2, <1>3

LEMMA SizeTyped ==
  ASSUME TypeOK, NEW e, e \in Elements
  PROVE  Size(e) \in [Lengths -> Nat]
<1>1. \A v \in {Unset, Nothing} \cup Values : v.n \in Nat
  <2>1. Nothing.n = 0  BY DEF Nothing
  <2>2. \A v \in Values : v.n \in Nat  BY NumbersAssumption DEF Values
  <2> QED  BY <2>1, <2>2, NumbersAssumption
<1>2. \A f \in Elements, p \in Lengths : style[f][p].n \in Nat
  <2>1. \A f \in Elements, p \in Props : style[f][p] \in {Unset, Nothing} \cup Values
    BY DEF TypeOK
  <2> QED  BY <1>1, <2>1, SizesAssumption
<1>3. \A p \in Lengths : terminal[p] \in Nat  BY TerminalsAssumption DEF TypeOK
<1>4. Screen \in Elements  BY DEF Elements
<1>5. \A p \in Lengths : WindowSize[p] \in Nat
  <2> SUFFICES ASSUME NEW p \in Lengths PROVE WindowSize[p] \in Nat  OBVIOUS
  <2>1. WindowSize[p] = Absolute(style[Screen][p], terminal[p])  BY DEF WindowSize, SizeOf
  <2> QED  BY <1>2, <1>3, <1>4, <2>1, AbsoluteTyped
<1>6. \A p \in Lengths : Absolute(style[e][p], WindowSize[p]) \in Nat
  BY <1>2, <1>5, AbsoluteTyped
<1> QED  BY <1>6 DEF Size, SizeOf

(* The types hold at the start, and every action keeps them.               *)
LEMMA TypesInitially ==
  ASSUME Init
  PROVE  TypeInv
<1>1. rules \in Sheets /\ FullCss = Written(rules)  BY DEF Init
<1>2. FullCss \in Seq(Tokens)
  <2>1. rules \in Seq(Rule)  BY <1>1, SheetsAssumption
  <2> QED  BY <1>1, <2>1, SheetIsWritten
<1>3. \A p \in Props : Initial(p) \in {Unset, Nothing} \cup Values  BY DEF Initial
<1>4. style \in [Elements -> [Props -> {Unset, Nothing} \cup Values]]
  BY <1>3 DEF Init
<1>5. \A e \in Elements : \A i \in DOMAIN css[e] : css[e][i] \in Pieces
  BY DEF Init
<1>6. \A e \in Elements, ev \in Events : cssEvents[e][ev] \in Pieces \cup {NoPiece}
  BY DEF Init
<1>7. upToDate \in [Elements -> BOOLEAN]  BY DEF Init
<1>8. lastEvent \in [Buttons -> Events \cup {"beginning"}]  BY DEF Init
<1>9. /\ cursor \subseteq Buttons /\ mouseBtn \in BOOLEAN /\ mouseKey \in BOOLEAN
      /\ turn \in DOMAIN Turn /\ pc \in InFrame \cup {"drawn", "aborted"}
      /\ event \in Events /\ then \in InFrame /\ threads \subseteq Thread
  <2>1. 1 \in DOMAIN Turn  BY TurnTyped
  <2>2. /\ cursor = {} /\ mouseBtn = FALSE /\ mouseKey = FALSE
        /\ turn = 1 /\ pc = "style" /\ event = "none" /\ then = "render" /\ threads = {}
    BY DEF Init
  <2> QED  BY <2>1, <2>2 DEF Events, InFrame
<1>10. terminal \in Terminals /\ siz \in [Lengths -> Nat]  BY DEF Init, NoSize
<1>11. TypeOK  BY <1>2, <1>4, <1>5, <1>6, <1>7, <1>8, <1>9, <1>10 DEF TypeOK
<1>12. Shapes  BY <1>1 DEF Init, Shapes
<1> QED  BY <1>11, <1>12 DEF TypeInv

(* The mouse thread.                                                       *)
LEMMA MouseKeepsTypes ==
  ASSUME TypeInv, MoveMouse \/ PressOrRelease
  PROVE  TypeInv'
<1>1. cursor' \subseteq Buttons /\ mouseBtn' \in BOOLEAN
  BY DEF MoveMouse, PressOrRelease, TypeInv, TypeOK
<1>2. UNCHANGED <<sheetVars, elementVars, frameVars>>  BY DEF MoveMouse, PressOrRelease
<1> QED  BY <1>1, <1>2 DEF TypeInv, TypeOK, Shapes, sheetVars, elementVars, frameVars, Pieces, El

(* A thread writes a converted value of a known property.                  *)
LEMMA ThreadKeepsTypes ==
  ASSUME TypeInv, NEW t, t \in threads, RunThread(t)
  PROVE  TypeInv'
<1> DEFINE d == Declares[t.decl]
<1>1. t \in Thread /\ t.decl \in DOMAIN Declares
  <2>1. t \in Thread  BY DEF TypeInv, TypeOK
  <2> QED  BY <2>1 DEF Thread
<1>2. Converted(d.value) \in {Unset, Nothing} \cup Values /\ d.prop \in Props
  BY <1>1, ValuesTyped
<1>3. El \in Elements  BY ElTyped DEF TypeInv
<1>4. style \in [Elements -> [Props -> {Unset, Nothing} \cup Values]]  BY DEF TypeInv, TypeOK
<1>5. style' \in {style, With(El, d.prop, Converted(d.value))} /\ pc' \in {pc, "aborted"}
  BY DEF RunThread
<1>6. With(El, d.prop, Converted(d.value)) \in [Elements -> [Props -> {Unset, Nothing} \cup Values]]
  <2> DEFINE v == Converted(d.value)  V == {Unset, Nothing} \cup Values  p == d.prop
  <2>1. v \in V /\ p \in Props  BY <1>2
  <2>2. style \in [Elements -> [Props -> V]]  BY <1>4
  <2> HIDE DEF v, V, p
  <2>3. [style EXCEPT ![El][p] = v] \in [Elements -> [Props -> V]]  BY <1>3, <2>1, <2>2
  <2> QED  BY <2>3 DEF With, v, V, p
<1>7. style' \in [Elements -> [Props -> {Unset, Nothing} \cup Values]]
  BY <1>4, <1>5, <1>6
<1>8. pc = "parsing" /\ threads' \subseteq Thread
      /\ UNCHANGED <<sheetVars, css, cssEvents, upToDate, lastEvent, mouseVars, mouseKey,
                     terminal, turn, siz, event, then>>
  BY DEF RunThread, TypeInv, TypeOK
<1> QED  BY <1>5, <1>7, <1>8
         DEF TypeInv, TypeOK, Shapes, Pieces, sheetVars, mouseVars, InFrame, El

(* Joining the threads.                                                    *)
LEMMA JoinKeepsTypes ==
  ASSUME TypeInv, Join
  PROVE  TypeInv'
<1>1. El \in Elements  BY ElTyped DEF TypeInv
<1>2. upToDate' \in [Elements -> BOOLEAN]  BY <1>1 DEF Join, TypeInv, TypeOK
<1>3. pc = "parsing" /\ pc' = then /\ then \in {"render", "parsed"}
      /\ UNCHANGED <<sheetVars, css, cssEvents, style, lastEvent, mouseVars,
                 mouseKey, terminal, turn, siz, event, then, threads>>
  BY DEF Join, TypeInv, Shapes
<1> QED  BY <1>2, <1>3
         DEF TypeInv, TypeOK, Shapes, Pieces, sheetVars, mouseVars, InFrame, El

\* After ParseCss the frame's variables have their types, if it was given a piece.
LEMMA ParseCssTyped ==
  ASSUME TypeInv, NEW piece, piece \in Pieces \cup {NoPiece},
         NEW return, return \in {"render", "parsed"}, ParseCss(piece, return)
  PROVE  /\ pc' \in {return, "aborted", "parsing"}
         /\ then' \in {"render", "parsed"} /\ threads' \subseteq Thread
         /\ pc' = "parsing" => then' = return
<1>1. threads \subseteq Thread /\ then \in {"render", "parsed"} /\ FullCss \in Seq(Tokens)
  BY DEF TypeInv, TypeOK, Shapes
<1>2. piece # NoPiece => Callbacks(piece) \subseteq Thread
  <2> SUFFICES ASSUME piece # NoPiece PROVE Callbacks(piece) \subseteq Thread  OBVIOUS
  <2>1. piece \in Seq(Tokens)  BY <1>1, PiecesTyped
  <2> QED  BY <2>1, CallbacksTyped
<1> QED  BY <1>1, <1>2, ParseCssCases

(* Giving an element its pieces.                                           *)
LEMMA RestyleKeepsTypes ==
  ASSUME TypeInv, Restyle
  PROVE  TypeInv'
<1>1. El \in Elements /\ DOMAIN css = Elements /\ DOMAIN cssEvents = Elements
  BY ElTyped DEF TypeInv, Shapes
<1>2. pc = "style" /\ UNCHANGED <<sheetVars, upToDate, style, lastEvent, mouseVars,
                                  mouseKey, terminal, turn, siz, event>>
  BY DEF Restyle
<1>3. CASE upToDate[El]
  <2>1. pc' = "render" /\ UNCHANGED <<css, cssEvents, then, threads>>  BY <1>3 DEF Restyle
  <2> QED  BY <1>2, <2>1 DEF TypeInv, TypeOK, Shapes, Pieces, sheetVars, mouseVars, InFrame, El
<1>4. CASE ~ upToDate[El]
  <2> DEFINE found == FindCssById(FullCss, El)
             given == CssSelectorSeparator(found, cssEvents[El])
             P == Pieces \cup {NoPiece}
  <2>1. css' = [css EXCEPT ![El] = found]
        /\ cssEvents' = [cssEvents EXCEPT ![El] = CssSelectorSeparator(css'[El], @)]
        /\ ParseCss(cssEvents'[El]["none"], "render")
    BY <1>4 DEF Restyle
  <2>2. css'[El] = found  BY <1>1, <2>1
  <2>3. cssEvents'[El] = given  BY <1>1, <2>1, <2>2
  <2>4. \A i \in DOMAIN found : found[i] \in Pieces  BY FoundTyped
  <2>5. \A e \in Elements, ev \in Events : cssEvents[e][ev] \in P
    BY DEF TypeInv, TypeOK
  <2>6. \A ev \in Events : given[ev] \in P
    <3>1. \A i \in DOMAIN found : found[i] \in P  BY <2>4
    <3> HIDE DEF found, P
    <3>2. \A ev \in Events : cssEvents[El][ev] \in P  BY <1>1, <2>5
    <3> QED  BY <3>1, <3>2, SeparatorTyped
  <2> HIDE DEF found, given, P
  <2>7. \A e \in Elements : \A i \in DOMAIN css'[e] : css'[e][i] \in Pieces
    BY <1>1, <2>1, <2>2, <2>4 DEF TypeInv, TypeOK
  <2>8. \A e \in Elements, ev \in Events : cssEvents'[e][ev] \in P
    <3> SUFFICES ASSUME NEW e \in Elements, NEW ev \in Events PROVE cssEvents'[e][ev] \in P
      OBVIOUS
    <3>1. CASE e = El  BY <2>3, <2>6, <3>1
    <3>2. CASE e # El
      <4>1. cssEvents'[e] = cssEvents[e]  BY <1>1, <2>1, <3>2
      <4> QED  BY <2>5, <4>1
    <3> QED  BY <3>1, <3>2
  <2>9. DOMAIN css' = Elements /\ DOMAIN cssEvents' = Elements  BY <1>1, <2>1
  <2>10. /\ pc' \in {"render", "aborted", "parsing"}
         /\ then' \in {"render", "parsed"} /\ threads' \subseteq Thread
         /\ pc' = "parsing" => then' = "render"
    <3>1. cssEvents'[El]["none"] \in P  BY <1>1, <2>8 DEF Events
    <3> QED  BY <2>1, <3>1, ParseCssTyped DEF P
  <2>11. Pieces' = Pieces  BY <1>2 DEF Pieces, sheetVars
  <2> QED  BY <1>2, <2>7, <2>8, <2>9, <2>10, <2>11
           DEF TypeInv, TypeOK, Shapes, sheetVars, mouseVars, InFrame, El, P
<1> QED  BY <1>3, <1>4

(* A turn without a new event.                                             *)
LEMMA RenderKeepsTypes ==
  ASSUME TypeInv, RenderPlain \/ SameEvent
  PROVE  TypeInv'
<1>1. TurnEnds(Size(El)) /\ UNCHANGED <<sheetVars, elementVars, mouseVars, mouseKey,
                                         terminal, siz, event, then, threads>>
  BY DEF RenderPlain, SameEvent
<1>2. /\ turn' \in DOMAIN Turn /\ pc' \in {"style", "drawn", "aborted"}
      /\ pc' = "drawn" => turn' = Len(Turn)
  BY <1>1, TurnEndsCases
<1> QED  BY <1>1, <1>2
         DEF TypeInv, TypeOK, Shapes, Pieces, sheetVars, elementVars, mouseVars, InFrame

(* A button's new event.                                                   *)
LEMMA NewEventKeepsTypes ==
  ASSUME TypeInv, NewEvent
  PROVE  TypeInv'
<1>1. El \in Elements /\ El \in Buttons  BY ElTyped DEF TypeInv, NewEvent
<1>2. event' = Event(El) /\ event' \in Events  BY DEF NewEvent, Event, Events
<1>3. ParseCss(cssEvents[El][event'], "parsed")  BY DEF NewEvent, PieceFor
<1>4. cssEvents[El][event'] \in Pieces \cup {NoPiece}  BY <1>1, <1>2 DEF TypeInv, TypeOK
<1>5. /\ pc' \in {"parsed", "aborted", "parsing"}
      /\ then' \in {"render", "parsed"} /\ threads' \subseteq Thread
  BY <1>3, <1>4, ParseCssTyped
<1>6. UNCHANGED <<sheetVars, elementVars, mouseVars, mouseKey, terminal, turn>>
  BY DEF NewEvent
<1>7. El' = El  BY <1>6 DEF El
<1>8. siz' \in [Lengths -> Nat]  BY <1>1, SizeTyped DEF NewEvent, TypeInv
<1> QED  BY <1>1, <1>2, <1>5, <1>6, <1>7, <1>8
         DEF TypeInv, TypeOK, Shapes, Pieces, sheetVars, elementVars, mouseVars, InFrame

(* The new event is remembered.                                            *)
LEMMA EventParsedKeepsTypes ==
  ASSUME TypeInv, EventParsed
  PROVE  TypeInv'
<1>1. El \in Buttons  BY DEF TypeInv, Shapes, EventParsed
<1>2. TurnEnds(siz) /\ UNCHANGED <<sheetVars, css, cssEvents, upToDate, style, mouseVars,
                                    mouseKey, terminal, event, then, threads>>
  BY DEF EventParsed
<1>3. /\ turn' \in DOMAIN Turn /\ pc' \in {"style", "drawn", "aborted"}
      /\ pc' = "drawn" => turn' = Len(Turn)
  BY <1>2, TurnEndsCases
<1>4. lastEvent' \in [Buttons -> Events \cup {"beginning"}]
  BY <1>1 DEF EventParsed, TypeInv, TypeOK
<1>5. siz' \in [Lengths -> Nat]  BY DEF EventParsed, NoSize
<1> QED  BY <1>2, <1>3, <1>4, <1>5
         DEF TypeInv, TypeOK, Shapes, Pieces, sheetVars, mouseVars, InFrame

(* The end of a frame.                                                     *)
LEMMA TickKeepsTypes ==
  ASSUME TypeInv, Tick
  PROVE  TypeInv'
<1>1. 1 \in DOMAIN Turn  BY TurnTyped
<1> QED  BY <1>1 DEF Tick, TypeInv, TypeOK, Shapes, Pieces, sheetVars, elementVars, mouseVars, InFrame

(* Every step keeps the types.                                             *)
LEMMA TypesPreserved ==
  ASSUME TypeInv, [Next]_vars
  PROVE  TypeInv'
<1>1. CASE Next
  BY <1>1, MouseKeepsTypes, ThreadKeepsTypes, JoinKeepsTypes, RestyleKeepsTypes,
     RenderKeepsTypes, NewEventKeepsTypes, EventParsedKeepsTypes, TickKeepsTypes, Zenon
  DEF Next, MainLoop
<1>2. CASE UNCHANGED vars
  BY <1>2 DEF vars, sheetVars, elementVars, mouseVars, frameVars, TypeInv, TypeOK, Shapes,
              Pieces, El
<1> QED  BY <1>1, <1>2

(***************************************************************************)
(* The variables have their types: what an element holds of the sheet is   *)
(* always a piece of it, and a thread always has a known property.         *)
(***************************************************************************)
THEOREM WidgetsTypeCorrect == Spec => []TypeOK
<1>1. Init => TypeInv  BY TypesInitially
<1>2. TypeInv /\ [Next]_vars => TypeInv'  BY TypesPreserved
<1>3. TypeInv => TypeOK  BY DEF TypeInv
<1> QED  BY <1>1, <1>2, <1>3, PTL DEF Spec

(* An element has at most one rule for an event that counts, the last      *)
(* one.                                                                    *)
LEMMA RulesForTyped ==
  ASSUME NEW rs, rs \in Seq(Rule), NEW e, NEW ev
  PROVE  /\ \A r \in RulesFor(rs, e, ev) : r \in Rule /\ r.id = e /\ r.event = ev
         /\ \A r, q \in RulesFor(rs, e, ev) : r = q
<1> DEFINE K == {k \in DOMAIN rs : rs[k].id = e /\ rs[k].event = ev}
<1>1. DOMAIN rs \subseteq Nat /\ \A k \in DOMAIN rs : rs[k] \in Rule
  BY LenProperties, ElementOfSeq
<1>2. RulesFor(rs, e, ev) = {rs[k] : k \in {j \in K : IsLast(j, K)}}  BY Zenon DEF RulesFor
<1>3. \A k \in K : k \in Nat /\ rs[k] \in Rule /\ rs[k].id = e /\ rs[k].event = ev
  BY <1>1
<1> HIDE DEF K
<1>4. \A k, l \in K : IsLast(k, K) /\ IsLast(l, K) => k = l
  BY <1>3 DEF IsLast
<1> QED  BY <1>2, <1>3, <1>4

(* A tidy rule declares a property once, so it is worth what it declares.  *)
LEMMA TidyValues ==
  ASSUME NEW r, r \in Rule, Tidy(r), NEW j, j \in DOMAIN r.decls
  PROVE  ValueIn(r, Declares[r.decls[j]].prop) = Converted(Declares[r.decls[j]].value)
<1> DEFINE p == Declares[r.decls[j]].prop
           i == CHOOSE l \in DOMAIN r.decls : Declares[r.decls[l]].prop = p
<1>1. i \in DOMAIN r.decls /\ Declares[r.decls[i]].prop = p  BY Zenon
<1>2. i = j  BY <1>1, Zenon DEF Tidy
<1> QED  BY <1>2, Zenon DEF ValueIn

(* The piece of a tidy rule is opened and starts the threads of that       *)
(* rule, each with a value that can be read.                               *)
LEMMA TextFacts ==
  ASSUME NEW r, r \in Rule
  PROVE  /\ Text(r) # NoPiece /\ Opened(Text(r))
         /\ Tidy(r) => /\ Callbacks(Text(r)) = Threads(r)
                       /\ \A t \in Threads(r) : t.decl \notin Unreadable
<1>1. Text(r) # NoPiece /\ Opened(Text(r))  BY TextOfRule, TextIsOpened
<1>2. ASSUME Tidy(r) PROVE Callbacks(Text(r)) = Threads(r)
  <2>1. r.layout = "tidy"  BY <1>2 DEF Tidy
  <2> QED  BY <2>1, CallbacksOfTidyRule
<1>3. ASSUME Tidy(r), NEW t \in Threads(r) PROVE t.decl \notin Unreadable
  BY <1>3 DEF Tidy, Threads, ThreadOf
<1> QED  BY <1>1, <1>2, <1>3

-----------------------------------------------------------------------------
(* The inductive invariant.                                                 *)

R(e, ev) == RulesFor(rules, e, ev)
Applied(e, r) == \A p \in Declared(r) : Takes(e, p) => style[e][p] = ValueIn(r, p)

\* The rules that may have been parsed for it.
Fires(e) == IF e \in Buttons THEN RulesOf(e) ELSE R(e, "none")

\* The pieces of an element are those of its rules.
GivenPieces(e) ==
  \A ev \in Events : cssEvents[e][ev] = NoPiece \/ \E r \in R(e, ev) : cssEvents[e][ev] = Text(r)
AllPieces(e) == \A ev \in Events : \A r \in R(e, ev) : cssEvents[e][ev] = Text(r)

\* Once it was given them it has all of them.
Restyled(e) ==
  \/ upToDate[e]
  \/ e = El /\ pc \in {"render", "parsing", "parsed"}
  \/ e \in Buttons /\ lastEvent[e] # "beginning"

\* Once it had its turn it is up to date, if it has a normal rule.
Passed(e) ==
  \/ e \in Buttons /\ lastEvent[e] # "beginning"
  \/ \E k \in DOMAIN Turn :
       /\ Turn[k] = e
       /\ \/ k < turn
          \/ k = turn /\ pc \in {"render", "parsed", "drawn"}
          \/ k = turn /\ pc = "parsing" /\ then = "parsed"
PiecesInv(e) ==
  /\ GivenPieces(e) /\ (Restyled(e) => AllPieces(e))
  /\ Passed(e) /\ R(e, "none") # {} => upToDate[e]

\* It looks as its rule says, but while it is parsed.
LooksInv(e) ==
  ~ (e = El /\ pc \in {"parsing", "parsed"}) /\ (e \in Buttons \/ upToDate[e]) =>
    \A r \in R(e, LastEvent(e)) : Applied(e, r)
Untouched(e) ==
  \A p \in Props : (\A r \in Fires(e) : p \notin Declared(r)) => style[e][p] = Initial(p)
SizeInv(e) ==
  upToDate[e] /\ Sized(e) /\ (\E r \in RulesOf(e) : Declared(r) \cap Lengths # {}) =>
    \A p \in Lengths : Visible(style[e][p], p)
ElementInv(e) == PiecesInv(e) /\ LooksInv(e) /\ Untouched(e) /\ SizeInv(e)

\* The threads that run are those of one rule, and those that ended did their part.
Ev == IF then = "render" THEN "none" ELSE event
Applies(r, j) ==
  LET d == Declares[r.decls[j]]
  IN  Takes(El, d.prop) => style[El][d.prop] = Converted(d.value)
ParsingInv ==
  pc = "parsing" /\ WellWritten(El) =>
    \E r \in R(El, Ev) :
      /\ threads \subseteq Threads(r)
      /\ \A j \in DOMAIN r.decls : ThreadOf(r, j) \notin threads => Applies(r, j)
BeginInv ==
  pc = "parsing" /\ then = "render" /\ El \in Buttons /\ WellWritten(El) =>
    lastEvent[El] = "beginning"
ParsedInv == pc = "parsed" /\ WellWritten(El) => \A r \in R(El, event) : Applied(El, r)

\* The size a button was about to be drawn in is kept while its event's rule is parsed.
SizInv ==
  /\ pc = "parsed" \/ (pc = "parsing" /\ then = "parsed")
  /\ WellWritten(Screen) /\ WellWritten(El) /\ Sized(El)
  => ~ Flat(siz)

LooksInvs == \A e \in Elements : WellWritten(e) => ElementInv(e)
ParseInv  == ParsingInv /\ BeginInv /\ ParsedInv
IInv == TypeInv /\ LooksInvs /\ ParseInv /\ SizInv /\ NeverAborts

-----------------------------------------------------------------------------
LEMMA RuleFacts ==
  ASSUME TypeInv, NEW e, NEW ev, NEW r, r \in R(e, ev)
  PROVE  /\ r \in Rule /\ r.id = e /\ r.event = ev /\ ev \in Events /\ r \in RulesOf(e)
         /\ \A q \in R(e, ev) : q = r
         /\ Text(r) # NoPiece /\ Opened(Text(r))
         /\ WellWritten(e) => /\ Tidy(r) /\ Callbacks(Text(r)) = Threads(r)
                              /\ \A t \in Threads(r) : t.decl \notin Unreadable
<1>1. rules \in Seq(Rule)  BY SheetsAssumption DEF TypeInv, Shapes
<1>2. r \in Rule /\ r.id = e /\ r.event = ev /\ \A q \in R(e, ev) : q = r
  BY <1>1, RulesForTyped DEF R
<1>3. ev \in Events  BY <1>2, RuleTyped
<1>4. r \in RulesOf(e)  BY <1>3 DEF RulesOf, R
<1>5. WellWritten(e) => Tidy(r)  BY <1>4 DEF WellWritten
<1> QED  BY <1>2, <1>3, <1>4, <1>5, TextFacts

\* A rule is applied when each of its declarations is.
LEMMA AppliedIs ==
  ASSUME TypeInv, NEW e, NEW r, r \in Rule, Tidy(r)
  PROVE  Applied(e, r) <=>
           \A j \in DOMAIN r.decls :
             LET d == Declares[r.decls[j]]
             IN  Takes(e, d.prop) => style[e][d.prop] = Converted(d.value)
<1>1. \A j \in DOMAIN r.decls :
        ValueIn(r, Declares[r.decls[j]].prop) = Converted(Declares[r.decls[j]].value)
  BY TidyValues
<1> QED  BY <1>1, Zenon DEF Applied, Declared

(* The rules of an element are those of the sheet, which no step changes.  *)
LEMMA SheetKept ==
  ASSUME UNCHANGED rules
  PROVE  /\ \A e, ev : R(e, ev)' = R(e, ev)
         /\ \A e : RulesOf(e)' = RulesOf(e) /\ (WellWritten(e)' <=> WellWritten(e))
                   /\ (Sized(e)' <=> Sized(e)) /\ Fires(e)' = Fires(e)
         /\ \A v, p : Visible(v, p)' <=> Visible(v, p)
<1>1. \A p : Meant(Screen, p)' = Meant(Screen, p)  BY DEF Meant
<1>2. \A v, p : Visible(v, p)' <=> Visible(v, p)  BY <1>1 DEF Visible
<1>3. \A e : RulesOf(e)' = RulesOf(e)  BY DEF RulesOf
<1>4. \A e : Sized(e)' <=> Sized(e)  BY <1>2, <1>3 DEF Sized
<1> QED  BY <1>2, <1>3, <1>4 DEF R, WellWritten, Fires

\* An element whose style is kept looks as before.
LEMMA LooksKept ==
  ASSUME UNCHANGED rules, NEW e, style'[e] = style[e]
  PROVE  /\ \A r : Applied(e, r)' <=> Applied(e, r)
         /\ Untouched(e)' <=> Untouched(e)
<1>1. \A r : Applied(e, r)' <=> Applied(e, r)  BY DEF Applied
<1>2. Untouched(e)' <=> Untouched(e)  BY SheetKept DEF Untouched
<1> QED  BY <1>1, <1>2

(* An element whose pieces are kept holds as many of its rules as before.  *)
LEMMA PiecesKept ==
  ASSUME UNCHANGED rules, NEW e, cssEvents'[e] = cssEvents[e]
  PROVE  (GivenPieces(e)' <=> GivenPieces(e)) /\ (AllPieces(e)' <=> AllPieces(e))
BY SheetKept DEF GivenPieces, AllPieces

-----------------------------------------------------------------------------
(* The steps keep the invariant.                                           *)

(* Nothing is parsed and no piece is given at the start.                   *)
LEMMA LooksInitially ==
  ASSUME Init
  PROVE  IInv
<1>1. TypeInv  BY TypesInitially
<1>2. pc = "style" /\ turn = 1 /\ (\A b \in Buttons : lastEvent[b] = "beginning")
      /\ (\A e \in Elements : /\ upToDate[e] = FALSE
                              /\ \A ev \in Events : cssEvents[e][ev] = NoPiece
                              /\ \A p \in Props : style[e][p] = Initial(p))
  BY DEF Init
<1>3. ASSUME NEW e \in Elements PROVE ElementInv(e)
  <2>1. GivenPieces(e) /\ ~ Restyled(e)
    BY <1>2, <1>3 DEF GivenPieces, Restyled
  <2>2. ~ Passed(e)
    <3>1. \A k \in DOMAIN Turn : ~ (k < 1)  BY TurnTyped
    <3> QED  BY <1>2, <3>1 DEF Passed
  <2>3. PiecesInv(e)  BY <2>1, <2>2 DEF PiecesInv
  <2>4. LooksInv(e)
    <3>1. CASE e \in Buttons
      <4>1. LastEvent(e) = "beginning"  BY <1>2, <3>1 DEF LastEvent
      <4>2. "beginning" \notin Events  BY DEF Events
      <4>3. R(e, "beginning") = {}  BY <1>1, <4>2, RuleFacts
      <4> QED  BY <4>1, <4>3 DEF LooksInv
    <3>2. CASE e \notin Buttons  BY <1>2, <1>3, <3>2 DEF LooksInv
    <3> QED  BY <3>1, <3>2
  <2>5. Untouched(e)  BY <1>2, <1>3 DEF Untouched
  <2>6. SizeInv(e)  BY <1>2, <1>3 DEF SizeInv
  <2> QED  BY <2>3, <2>4, <2>5, <2>6 DEF ElementInv
<1>4. ParseInv /\ SizInv /\ NeverAborts
  BY <1>2 DEF ParseInv, ParsingInv, BeginInv, ParsedInv, SizInv, NeverAborts
<1> QED  BY <1>1, <1>3, <1>4 DEF IInv, LooksInvs

-----------------------------------------------------------------------------
(* An element is not flat when it is drawn.                                 *)

\* A rule that has been parsed is one of the element's.
LEMMA FiresIsOf ==
  ASSUME NEW e
  PROVE  Fires(e) \subseteq RulesOf(e) /\ R(e, "none") \subseteq Fires(e)
<1>1. R(e, "none") \subseteq RulesOf(e)  BY DEF R, RulesOf, Events
<1> QED  BY <1>1 DEF Fires

(* After its turn the window has the size its normal rule gives it.        *)
LEMMA WindowIsMeant ==
  ASSUME IInv, El # Screen, WellWritten(Screen)
  PROVE  \A p \in Lengths : WindowSize[p] = Absolute(Meant(Screen, p), terminal[p])
<1>1. Screen \in Elements /\ Screen \notin Buttons /\ TypeInv
  BY TurnTyped, ButtonsAssumption DEF Elements, IInv
<1>2. ElementInv(Screen)  BY <1>1 DEF IInv, LooksInvs
<1>3. Passed(Screen)
  <2>1. 1 \in DOMAIN Turn /\ Turn[1] = Screen /\ DOMAIN Turn = 1 .. Len(Turn)
    BY TurnTyped
  <2>2. turn \in DOMAIN Turn /\ turn # 1  BY <1>1, <2>1 DEF TypeInv, TypeOK, El
  <2>3. Len(Turn) \in Nat  BY TurnTyped
  <2>4. 1 < turn  BY <2>1, <2>2, <2>3
  <2> QED  BY <2>1, <2>4 DEF Passed
<1>4. LastEvent(Screen) = "none"  BY <1>1 DEF LastEvent
<1>5. \A r \in R(Screen, "none") : Applied(Screen, r)
  <2> SUFFICES ASSUME NEW r \in R(Screen, "none") PROVE Applied(Screen, r)  OBVIOUS
  <2>1. upToDate[Screen]  BY <1>2, <1>3 DEF ElementInv, PiecesInv
  <2> QED  BY <1>2, <1>4, <2>1 DEF ElementInv, LooksInv
<1>6. ASSUME NEW p \in Lengths PROVE style[Screen][p] = Meant(Screen, p)
  <2> DEFINE of == {r \in R(Screen, "none") : p \in Declared(r)}
  <2>1. Meant(Screen, p) = IF of = {} THEN Initial(p) ELSE ValueIn(CHOOSE r \in of : TRUE, p)
    BY Zenon DEF Meant, R
  <2>2. CASE of = {}
    <3>1. \A r \in Fires(Screen) : p \notin Declared(r)  BY <1>1, <2>2 DEF Fires
    <3>2. p \in Props  BY SizesAssumption
    <3> QED  BY <1>2, <2>1, <2>2, <3>1, <3>2 DEF ElementInv, Untouched
  <2>3. CASE of # {}
    <3> DEFINE r == CHOOSE r \in of : TRUE
    <3>1. r \in of  BY <2>3, Zenon
    <3>2. Takes(Screen, p)
      <4>1. p # "background-color"  BY Zenon DEF Lengths
      <4> QED  BY <4>1, Zenon DEF Takes
    <3>3. Applied(Screen, r) /\ p \in Declared(r)  BY <1>5, <3>1
    <3>4. style[Screen][p] = ValueIn(r, p)  BY <3>2, <3>3, Zenon DEF Applied
    <3> QED  BY <2>1, <2>3, <3>4, Zenon
  <2> QED  BY <2>2, <2>3
<1> QED  BY <1>6 DEF WindowSize, SizeOf

LEMMA NotFlat ==
  ASSUME IInv, pc = "render", El # Screen, WellWritten(Screen), WellWritten(El), Sized(El)
  PROVE  ~ Flat(Size(El))
<1> DEFINE sized == {r \in RulesOf(El) : Declared(r) \cap Lengths # {}}
<1>1. El \in Elements /\ ElementInv(El)  BY ElTyped DEF IInv, LooksInvs, TypeInv
<1>2. Passed(El)
  <2>1. turn \in DOMAIN Turn  BY DEF IInv, TypeInv, TypeOK
  <2> QED  BY <2>1 DEF Passed, El
<1>3. \A p \in Lengths : Size(El)[p] = Absolute(style[El][p], WindowSize[p])
  BY DEF Size, SizeOf
<1>4. "width" \in Lengths /\ "height" \in Lengths  BY DEF Lengths
<1>5. CASE sized = {}
  <2>1. \A p \in Lengths : \A r \in Fires(El) : p \notin Declared(r)  BY <1>5, FiresIsOf
  <2>2. \A p \in Lengths : style[El][p] = Initial(p)
    BY <1>1, <2>1, SizesAssumption DEF ElementInv, Untouched
  <2>3. Initial("width") = Nothing /\ Initial("height") = Nothing
    BY Zenon DEF Initial
  <2>4. \A n : Absolute(Nothing, n) = 0  BY DEF Absolute, Nothing
  <2>5. Size(El)["width"] = 0 /\ Size(El)["height"] = 0  BY <1>3, <1>4, <2>2, <2>3, <2>4
  <2> QED  BY <2>5 DEF Flat
<1>6. CASE sized # {}
  <2>1. R(El, "none") # {}  BY <1>6 DEF Sized, R
  <2>2. upToDate[El]  BY <1>1, <1>2, <2>1 DEF ElementInv, PiecesInv
  <2>3. \A p \in Lengths : Visible(style[El][p], p)
    BY <1>1, <1>6, <2>2 DEF ElementInv, SizeInv
  <2>4. terminal \in Terminals  BY DEF IInv, TypeInv, TypeOK
  <2>5. \A p \in Lengths : Absolute(style[El][p], WindowSize[p]) # 0
    BY <2>3, <2>4, WindowIsMeant DEF Visible
  <2> QED  BY <1>3, <1>4, <2>5 DEF Flat
<1> QED  BY <1>5, <1>6

-----------------------------------------------------------------------------
(* The steps.                                                               *)

(* The mouse thread changes nothing the looks depend on.                   *)
LEMMA MouseKeepsLooks ==
  ASSUME IInv, TypeInv', UNCHANGED <<sheetVars, elementVars, turn, pc, siz, event, then, threads>>
  PROVE  IInv'
<1>1. /\ rules' = rules /\ css' = css /\ cssEvents' = cssEvents /\ upToDate' = upToDate
      /\ style' = style /\ lastEvent' = lastEvent /\ turn' = turn /\ pc' = pc
      /\ siz' = siz /\ event' = event /\ then' = then /\ threads' = threads
  BY DEF sheetVars, elementVars
<1>2. El' = El /\ Ev' = Ev  BY <1>1 DEF El, Ev
<1>3. ASSUME NEW e \in Elements, WellWritten(e)' PROVE ElementInv(e)'
  <2>1. ElementInv(e)  BY <1>1, <1>3, SheetKept DEF IInv, LooksInvs
  <2>2. PiecesInv(e)'
    BY <1>1, <1>2, <2>1, SheetKept, PiecesKept
    DEF ElementInv, PiecesInv, Restyled, Passed
  <2>3. LooksInv(e)'
    BY <1>1, <1>2, <2>1, SheetKept, LooksKept DEF ElementInv, LooksInv, LastEvent
  <2>4. Untouched(e)' /\ SizeInv(e)'
    BY <1>1, <2>1, SheetKept, LooksKept DEF ElementInv, SizeInv
  <2> QED  BY <2>2, <2>3, <2>4 DEF ElementInv
<1>4. ParseInv'
  BY <1>1, <1>2, SheetKept, LooksKept
  DEF IInv, ParseInv, ParsingInv, BeginInv, ParsedInv, Applies
<1>5. NeverAborts'  BY <1>1, SheetKept DEF IInv, NeverAborts
<1>6. SizInv'  BY <1>1, <1>2, SheetKept DEF IInv, SizInv, Flat
<1> QED  BY <1>3, <1>4, <1>5, <1>6 DEF IInv, LooksInvs

(* A turn that ends without a rule to apply, or with one that is applied.  *)
LEMMA TurnKeepsLooks ==
  ASSUME IInv, TypeInv', TurnEnds(IF pc = "render" THEN Size(El) ELSE siz),
         UNCHANGED <<sheetVars, css, cssEvents, upToDate, style>>,
         \/ pc = "render" /\ lastEvent' = lastEvent
         \/ /\ pc = "parsed" /\ El \in Buttons
            /\ lastEvent' = [lastEvent EXCEPT ![El] = event]
  PROVE  IInv'
<1>1. /\ rules' = rules /\ cssEvents' = cssEvents /\ upToDate' = upToDate /\ style' = style
  BY DEF sheetVars
<1>2. TypeInv /\ turn \in DOMAIN Turn /\ turn \in Nat /\ DOMAIN Turn \subseteq Nat
      /\ lastEvent \in [Buttons -> Events \cup {"beginning"}]
  BY TurnTyped DEF IInv, TypeInv, TypeOK
<1>3. /\ turn' \in DOMAIN Turn /\ pc' \in {"style", "drawn", "aborted"}
      /\ pc' = "aborted" => El # Screen /\ Flat(IF pc = "render" THEN Size(El) ELSE siz)
      /\ turn' = turn \/ (turn' = turn + 1 /\ pc' = "style")
      /\ pc' = "style" => turn' = turn + 1
  BY <1>2, TurnEndsCases
<1>4. \A b \in Buttons : lastEvent'[b] = lastEvent[b] \/ (b = El /\ pc = "parsed" /\ lastEvent'[b] = event)
  BY <1>2
<1>5. ASSUME NEW e \in Elements, WellWritten(e)' PROVE ElementInv(e)'
  <2>1. WellWritten(e) /\ ElementInv(e)  BY <1>1, <1>5, SheetKept DEF IInv, LooksInvs
  <2>2. Restyled(e)' => Restyled(e)
    BY <1>1, <1>3, <1>4 DEF Restyled
  <2>3. Passed(e)' => Passed(e)
    <3>1. CASE e \in Buttons /\ lastEvent'[e] # "beginning"
      <4>1. lastEvent[e] # "beginning" \/ e = El  BY <1>4, <3>1
      <4>2. CASE e = El
        <5>1. Turn[turn] = e /\ turn \in DOMAIN Turn  BY <1>2, <4>2 DEF El
        <5> QED  BY <5>1 DEF Passed
      <4> QED  BY <3>1, <4>1, <4>2 DEF Passed
    <3>2. ASSUME NEW k \in DOMAIN Turn, Turn[k] = e, k < turn' \/ (k = turn' /\ pc' = "drawn")
          PROVE  Passed(e)
      <4>1. k < turn \/ k = turn  BY <1>2, <1>3, <3>2
      <4> QED  BY <3>2, <4>1 DEF Passed
    <3> QED  BY <1>3, <3>1, <3>2 DEF Passed
  <2>4. PiecesInv(e)'
    BY <1>1, <2>1, <2>2, <2>3, SheetKept, PiecesKept DEF ElementInv, PiecesInv
  <2>5. LooksInv(e)'
    <3> SUFFICES ASSUME e \in Buttons \/ upToDate'[e], NEW r, r \in R(e, LastEvent(e))'
                 PROVE  Applied(e, r)'
      BY DEF LooksInv
    <3>1. r \in R(e, LastEvent(e)')  BY <1>1 DEF R
    <3>2. CASE e = El /\ pc = "parsed"
      <4>1. El \in Buttons /\ LastEvent(e)' = event  BY <1>2, <3>2 DEF LastEvent
      <4>2. Applied(e, r)
        BY <2>1, <3>1, <3>2, <4>1 DEF IInv, ParseInv, ParsedInv
      <4> QED  BY <1>1, <4>2, LooksKept
    <3>3. CASE ~ (e = El /\ pc = "parsed")
      <4>1. LastEvent(e)' = LastEvent(e)  BY <1>4, <3>3 DEF LastEvent
      <4>2. Applied(e, r)
        BY <1>1, <2>1, <3>1, <3>3, <4>1 DEF ElementInv, LooksInv
      <4> QED  BY <1>1, <4>2, LooksKept
    <3> QED  BY <3>2, <3>3
  <2>6. Untouched(e)' /\ SizeInv(e)'
    BY <1>1, <2>1, SheetKept, LooksKept DEF ElementInv, SizeInv
  <2> QED  BY <2>4, <2>5, <2>6 DEF ElementInv
<1>6. ParseInv'  BY <1>3 DEF ParseInv, ParsingInv, BeginInv, ParsedInv
<1>7. NeverAborts'
  <2> SUFFICES ASSUME \A e \in Elements : WellWritten(e) /\ (e # Screen => Sized(e)),
                      pc' = "aborted"
               PROVE  FALSE
    BY <1>1, SheetKept DEF NeverAborts
  <2>1. El \in Elements /\ Screen \in Elements  BY <1>2, ElTyped DEF TypeInv, Elements
  <2>2. WellWritten(Screen) /\ WellWritten(El) /\ El # Screen /\ Sized(El)
    BY <1>3, <2>1
  <2>3. CASE pc = "render"  BY <1>3, <2>2, <2>3, NotFlat
  <2>4. CASE pc = "parsed"
    <3>1. Flat(siz)  BY <1>3, <2>4
    <3> QED  BY <2>2, <2>4, <3>1 DEF IInv, SizInv
  <2> QED  BY <2>3, <2>4
<1>8. SizInv'  BY <1>3 DEF SizInv
<1> QED  BY <1>5, <1>6, <1>7, <1>8 DEF IInv, LooksInvs

(* The next frame begins with everything as it was.                        *)
LEMMA TickKeepsLooks ==
  ASSUME IInv, TypeInv', Tick
  PROVE  IInv'
<1>1. /\ rules' = rules /\ cssEvents' = cssEvents /\ upToDate' = upToDate
      /\ style' = style /\ lastEvent' = lastEvent /\ turn' = 1 /\ pc = "drawn" /\ pc' = "style"
  BY DEF Tick, sheetVars, elementVars
<1>2. ASSUME NEW e \in Elements, WellWritten(e)' PROVE ElementInv(e)'
  <2>1. ElementInv(e)  BY <1>1, <1>2, SheetKept DEF IInv, LooksInvs
  <2>2. (Restyled(e)' => Restyled(e)) /\ (Passed(e)' => Passed(e))
    <3>1. Restyled(e)' => Restyled(e)  BY <1>1 DEF Restyled
    <3>2. \A k \in DOMAIN Turn : ~ (k < 1)  BY TurnTyped
    <3>3. Passed(e)' => Passed(e)  BY <1>1, <3>2 DEF Passed
    <3> QED  BY <3>1, <3>3
  <2>3. PiecesInv(e)'
    BY <1>1, <2>1, <2>2, SheetKept, PiecesKept DEF ElementInv, PiecesInv
  <2>4. LooksInv(e)'
    BY <1>1, <2>1, SheetKept, LooksKept DEF ElementInv, LooksInv, LastEvent
  <2>5. Untouched(e)' /\ SizeInv(e)'
    BY <1>1, <2>1, SheetKept, LooksKept DEF ElementInv, SizeInv
  <2> QED  BY <2>3, <2>4, <2>5 DEF ElementInv
<1>3. ParseInv' /\ SizInv' /\ NeverAborts'
  BY <1>1 DEF ParseInv, ParsingInv, BeginInv, ParsedInv, SizInv, NeverAborts
<1> QED  BY <1>2, <1>3 DEF IInv, LooksInvs

\* When no thread is left the rule has been applied.
LEMMA ThreadsDone ==
  ASSUME IInv, pc = "parsing", threads = {}, WellWritten(El)
  PROVE  R(El, Ev) # {} /\ \A r \in R(El, Ev) : Applied(El, r)
<1>1. PICK r \in R(El, Ev) : \A j \in DOMAIN r.decls : Applies(r, j)
  BY DEF IInv, ParseInv, ParsingInv
<1>2. TypeInv  BY DEF IInv
<1>3. r \in Rule /\ Tidy(r) /\ \A q \in R(El, Ev) : q = r  BY <1>1, <1>2, RuleFacts
<1>4. Applied(El, r)  BY <1>1, <1>2, <1>3, AppliedIs, Zenon DEF Applies
<1> QED  BY <1>1, <1>3, <1>4

(* The threads are joined: the rule they came from is applied.             *)
LEMMA JoinKeepsLooks ==
  ASSUME IInv, TypeInv', Join
  PROVE  IInv'
<1>1. /\ rules' = rules /\ cssEvents' = cssEvents /\ style' = style /\ lastEvent' = lastEvent
      /\ turn' = turn /\ siz' = siz /\ event' = event /\ then' = then
      /\ pc = "parsing" /\ threads = {} /\ pc' = then
      /\ upToDate' = [upToDate EXCEPT ![El] = TRUE]
  BY DEF Join, sheetVars
<1>2. TypeInv /\ El \in Elements /\ then \in {"render", "parsed"} /\ El' = El
      /\ (then = "parsed" => El \in Buttons)
  BY <1>1, ElTyped DEF IInv, TypeInv, Shapes, El
<1>3. upToDate'[El] = TRUE /\ \A e \in Elements : e # El => upToDate'[e] = upToDate[e]
  BY <1>1, <1>2 DEF TypeInv, TypeOK
<1>4. turn \in DOMAIN Turn  BY <1>2 DEF TypeInv, TypeOK
<1>5. ASSUME NEW e \in Elements, WellWritten(e)' PROVE ElementInv(e)'
  <2>1. WellWritten(e) /\ ElementInv(e)  BY <1>1, <1>5, SheetKept DEF IInv, LooksInvs
  <2>2. Restyled(e)' => Restyled(e)
    BY <1>1, <1>2, <1>3 DEF Restyled
  <2>3. Passed(e)' => e = El \/ Passed(e)
    BY <1>1, <1>2 DEF Passed, El
  <2>4. PiecesInv(e)'
    BY <1>1, <1>3, <2>1, <2>2, <2>3, SheetKept, PiecesKept DEF ElementInv, PiecesInv
  <2>5. LooksInv(e)'
    <3>1. CASE e # El
      BY <1>1, <1>2, <1>3, <2>1, <3>1, SheetKept, LooksKept
      DEF ElementInv, LooksInv, LastEvent
    <3>2. CASE e = El /\ then = "parsed"  BY <1>1, <1>2, <3>2 DEF LooksInv
    <3>3. CASE e = El /\ then = "render"
      <4> SUFFICES ASSUME NEW r, r \in R(e, LastEvent(e))' PROVE Applied(e, r)'
        BY DEF LooksInv
      <4>1. r \in R(e, LastEvent(e))  BY <1>1 DEF R, LastEvent
      <4>2. LastEvent(e) \in Events  BY <1>2, <4>1, RuleFacts
      <4>3. LastEvent(e) = "none"
        <5>1. CASE e \in Buttons
          <6>1. lastEvent[e] = "beginning"
            BY <1>1, <2>1, <3>3, <5>1 DEF IInv, ParseInv, BeginInv
          <6> QED  BY <4>2, <5>1, <6>1 DEF LastEvent, Events
        <5>2. CASE e \notin Buttons  BY <5>2 DEF LastEvent
        <5> QED  BY <5>1, <5>2
      <4>4. Applied(e, r)  BY <1>1, <2>1, <3>3, <4>1, <4>3, ThreadsDone DEF Ev
      <4> QED  BY <1>1, <4>4, LooksKept
    <3> QED  BY <1>2, <3>1, <3>2, <3>3
  <2>6. Untouched(e)'  BY <1>1, <2>1, LooksKept DEF ElementInv
  <2>7. SizeInv(e)'
    <3> SUFFICES ASSUME upToDate'[e], Sized(e), NEW q \in RulesOf(e), Declared(q) \cap Lengths # {},
                        NEW p \in Lengths
                 PROVE  Visible(style[e][p], p)
      BY <1>1, SheetKept DEF SizeInv
    <3>1. CASE upToDate[e]  BY <2>1, <3>1 DEF ElementInv, SizeInv
    <3>2. CASE ~ upToDate[e]
      <4>1. e = El  BY <1>3, <3>2
      <4>2. PICK r \in R(e, "none") : Lengths \subseteq Declared(r)
        BY DEF Sized, R
      <4>3. then = "render"
        <5> SUFFICES ASSUME then = "parsed" PROVE FALSE  BY <1>2
        <5>1. Passed(e)  BY <1>1, <1>4, <4>1 DEF Passed, El
        <5> QED  BY <2>1, <3>2, <4>2, <5>1 DEF ElementInv, PiecesInv
      <4>4. Applied(e, r)  BY <1>1, <2>1, <4>1, <4>2, <4>3, ThreadsDone DEF Ev
      <4>5. p \in Declared(r) /\ r \in RulesOf(e)  BY <1>2, <4>2, RuleFacts
      <4>6. Visible(ValueIn(r, p), p)  BY <4>5 DEF Sized
      <4>7. Takes(e, p)
        <5>1. p # "background-color"  BY Zenon DEF Lengths
        <5> QED  BY <5>1, Zenon DEF Takes
      <4> QED  BY <4>4, <4>5, <4>6, <4>7 DEF Applied
    <3> QED  BY <3>1, <3>2
  <2> QED  BY <2>4, <2>5, <2>6, <2>7 DEF ElementInv
<1>6. ParsedInv'
  <2> SUFFICES ASSUME then = "parsed", WellWritten(El), NEW r, r \in R(El, event)
               PROVE  Applied(El, r)
    BY <1>1, <1>2, SheetKept, LooksKept DEF ParsedInv
  <2>1. Ev = event  BY DEF Ev
  <2> QED  BY <1>1, <2>1, ThreadsDone
<1>7. ParseInv'  BY <1>1, <1>2, <1>6 DEF ParseInv, ParsingInv, BeginInv
<1>8. NeverAborts'  BY <1>1, <1>2 DEF NeverAborts
<1>9. SizInv'  BY <1>1, <1>2, SheetKept DEF IInv, SizInv, Flat
<1> QED  BY <1>5, <1>7, <1>8, <1>9 DEF IInv, LooksInvs

(* A thread writes its own declaration, and no other thread of the rule    *)
(* writes the same property.                                               *)
LEMMA ThreadKeepsLooks ==
  ASSUME IInv, TypeInv', NEW t, t \in threads, RunThread(t)
  PROVE  IInv'
<1> DEFINE d == Declares[t.decl]
<1>1. /\ rules' = rules /\ cssEvents' = cssEvents /\ upToDate' = upToDate
      /\ lastEvent' = lastEvent /\ turn' = turn /\ siz' = siz /\ event' = event /\ then' = then
      /\ pc = "parsing" /\ pc' \in {"parsing", "aborted"} /\ threads' = threads \ {t}
      /\ (pc' = "aborted" <=> t.decl \in Unreadable)
      /\ (pc' = "aborted" => style' = style)
      /\ pc' # "aborted" => style' = IF Takes(El, d.prop)
                                    THEN With(El, d.prop, Converted(d.value)) ELSE style
  BY DEF RunThread, sheetVars
<1>2. TypeInv /\ El \in Elements /\ El' = El /\ Ev' = Ev
  BY <1>1, ElTyped DEF IInv, TypeInv, El, Ev
<1>3. t.decl \in DOMAIN Declares /\ d.prop \in Props
  <2>1. t \in Thread  BY <1>2 DEF TypeInv, TypeOK
  <2>2. t.decl \in DOMAIN Declares  BY <2>1 DEF Thread
  <2> QED  BY <2>2, ValuesTyped
<1>4. style \in [Elements -> [Props -> {Unset, Nothing} \cup Values]]
  BY <1>2 DEF TypeInv, TypeOK
<1>5. \A e \in Elements : e # El => style'[e] = style[e]
  BY <1>1, <1>4 DEF With
<1>6. \A p \in Props : style'[El][p] = style[El][p]
        \/ (p = d.prop /\ style'[El][p] = Converted(d.value))
  <2> DEFINE v == Converted(d.value)  q == d.prop
  <2>1. style' = style \/ style' = [style EXCEPT ![El][q] = v]  BY <1>1 DEF With
  <2>2. q \in Props  BY <1>3
  <2> HIDE DEF v, q
  <2>3. \A p \in Props : style'[El][p] = style[El][p] \/ (p = q /\ style'[El][p] = v)
    BY <1>2, <1>4, <2>1, <2>2
  <2> QED  BY <2>3 DEF v, q
<1>7. pc' # "aborted" /\ Takes(El, d.prop) => style'[El][d.prop] = Converted(d.value)
  <2> DEFINE v == Converted(d.value)  q == d.prop
  <2> SUFFICES ASSUME pc' # "aborted", Takes(El, q) PROVE style'[El][q] = v  OBVIOUS
  <2>1. style' = [style EXCEPT ![El][q] = v]  BY <1>1 DEF With
  <2>2. q \in Props  BY <1>3
  <2> HIDE DEF v, q
  <2> QED  BY <1>2, <1>4, <2>1, <2>2
<1> HIDE DEF d
<1>8. ASSUME WellWritten(El)
      PROVE  \E r \in R(El, Ev) :
               /\ threads \subseteq Threads(r)
               /\ \A j \in DOMAIN r.decls : ThreadOf(r, j) \notin threads => Applies(r, j)
               /\ r \in Rule /\ Tidy(r) /\ r \in RulesOf(El)
               /\ t.decl \notin Unreadable
               /\ \E j \in DOMAIN r.decls : t = ThreadOf(r, j) /\ d = Declares[r.decls[j]]
  <2>1. PICK r \in R(El, Ev) :
          /\ threads \subseteq Threads(r)
          /\ \A j \in DOMAIN r.decls : ThreadOf(r, j) \notin threads => Applies(r, j)
    BY <1>1, <1>8 DEF IInv, ParseInv, ParsingInv
  <2>2. r \in Rule /\ Tidy(r) /\ r \in RulesOf(El) /\ \A s \in Threads(r) : s.decl \notin Unreadable
    BY <1>2, <1>8, <2>1, RuleFacts
  <2>3. t \in Threads(r)  BY <2>1
  <2>4. PICK j \in DOMAIN r.decls : t = ThreadOf(r, j)  BY <2>3 DEF Threads
  <2>5. d = Declares[r.decls[j]]  BY <2>4 DEF ThreadOf, d
  <2> QED  BY <2>1, <2>2, <2>3, <2>4, <2>5
<1>9. ASSUME NEW e \in Elements, WellWritten(e)' PROVE ElementInv(e)'
  <2>1. WellWritten(e) /\ ElementInv(e)  BY <1>1, <1>9, SheetKept DEF IInv, LooksInvs
  <2>2. (Restyled(e)' => Restyled(e)) /\ (Passed(e)' => Passed(e))
    BY <1>1, <1>2 DEF Restyled, Passed
  <2>3. PiecesInv(e)'
    BY <1>1, <2>1, <2>2, SheetKept, PiecesKept DEF ElementInv, PiecesInv
  <2>4. CASE e # El
    <3>1. style'[e] = style[e]  BY <1>5, <2>4
    <3>2. LooksInv(e)'
      BY <1>1, <1>2, <2>1, <2>4, <3>1, SheetKept, LooksKept DEF ElementInv, LooksInv, LastEvent
    <3>3. Untouched(e)' /\ SizeInv(e)'
      BY <1>1, <2>1, <3>1, SheetKept, LooksKept DEF ElementInv, SizeInv
    <3> QED  BY <2>3, <3>2, <3>3 DEF ElementInv
  <2>5. CASE e = El
    <3>1. PICK r \in R(El, Ev) :
            /\ r \in Rule /\ Tidy(r) /\ r \in RulesOf(El) /\ t.decl \notin Unreadable
            /\ \E j \in DOMAIN r.decls : t = ThreadOf(r, j) /\ d = Declares[r.decls[j]]
      BY <1>8, <2>1, <2>5
    <3>2. PICK j \in DOMAIN r.decls : d = Declares[r.decls[j]]  BY <3>1
    <3>3. d.prop \in Declared(r)  BY <3>2 DEF Declared
    <3>4. LooksInv(e)'  BY <1>1, <1>2, <2>5, <3>1 DEF LooksInv
    <3>5. Untouched(e)'
      <4> SUFFICES ASSUME NEW p \in Props, \A q \in Fires(e) : p \notin Declared(q)
                   PROVE  style'[e][p] = Initial(p)
        BY <1>1, SheetKept DEF Untouched
      <4>1. r \in Fires(El)
        <5>1. El \in Buttons \/ Ev = "none"  BY <1>1, <1>2 DEF TypeInv, Shapes, Ev
        <5> QED  BY <3>1, <5>1, FiresIsOf DEF Fires
      <4>2. p # d.prop  BY <2>5, <3>3, <4>1
      <4>3. style'[e][p] = style[e][p]  BY <1>6, <2>5, <4>2
      <4> QED  BY <2>1, <4>3 DEF ElementInv, Untouched
    <3>6. SizeInv(e)'
      <4> SUFFICES ASSUME upToDate[e], Sized(e), NEW q \in RulesOf(e), Declared(q) \cap Lengths # {},
                          NEW p \in Lengths
                   PROVE  Visible(style'[e][p], p)
        BY <1>1, SheetKept DEF SizeInv
      <4>1. p \in Props  BY SizesAssumption
      <4>2. Visible(style[e][p], p)  BY <2>1 DEF ElementInv, SizeInv
      <4>3. CASE style'[e][p] = style[e][p]  BY <4>2, <4>3
      <4>4. CASE p = d.prop /\ style'[e][p] = Converted(d.value)
        <5>1. ValueIn(r, p) = Converted(d.value)  BY <3>1, <3>2, <4>4, TidyValues
        <5>2. Visible(ValueIn(r, p), p)
          BY <2>5, <3>1, <3>3, <4>4 DEF Sized
        <5> QED  BY <4>4, <5>1, <5>2
      <4> QED  BY <1>6, <2>5, <4>1, <4>3, <4>4
    <3> QED  BY <2>3, <3>4, <3>5, <3>6 DEF ElementInv
  <2> QED  BY <2>4, <2>5
<1>10. ParsingInv'
  <2> SUFFICES ASSUME pc' = "parsing", WellWritten(El)
               PROVE  \E r \in R(El, Ev) :
                        /\ threads' \subseteq Threads(r)
                        /\ \A j \in DOMAIN r.decls : ThreadOf(r, j) \notin threads' => Applies(r, j)'
    BY <1>1, <1>2, SheetKept DEF ParsingInv, R
  <2>1. PICK r \in R(El, Ev) :
          /\ threads \subseteq Threads(r)
          /\ \A j \in DOMAIN r.decls : ThreadOf(r, j) \notin threads => Applies(r, j)
          /\ r \in Rule /\ Tidy(r)
          /\ \E j \in DOMAIN r.decls : t = ThreadOf(r, j) /\ d = Declares[r.decls[j]]
    BY <1>8
  <2>2. PICK i \in DOMAIN r.decls : t = ThreadOf(r, i) /\ d = Declares[r.decls[i]]  BY <2>1
  <2>3. ASSUME NEW j \in DOMAIN r.decls, ThreadOf(r, j) \notin threads' PROVE Applies(r, j)'
    <3> DEFINE c == Declares[r.decls[j]]
    <3> SUFFICES ASSUME Takes(El, c.prop) PROVE style'[El][c.prop] = Converted(c.value)
      BY <1>2 DEF Applies
    <3>1. c.prop \in Props
      <4>1. r.decls[j] \in DOMAIN Declares  BY <2>1, RuleTyped
      <4> QED  BY <4>1, ValuesTyped
    <3>2. CASE c.prop = d.prop
      <4>1. i = j  BY <2>1, <2>2, <3>2 DEF Tidy
      <4>2. c = d  BY <2>2, <4>1
      <4> QED  BY <1>1, <1>7, <4>2
    <3>3. CASE c.prop # d.prop
      <4>1. ThreadOf(r, j) # t  BY <2>2, <3>3 DEF ThreadOf
      <4>2. ThreadOf(r, j) \notin threads  BY <1>1, <2>3, <4>1
      <4>3. style[El][c.prop] = Converted(c.value)  BY <2>1, <4>2 DEF Applies
      <4> QED  BY <1>6, <3>1, <3>3, <4>3
    <3> QED  BY <3>2, <3>3
  <2>4. threads' \subseteq Threads(r)  BY <1>1, <2>1
  <2> QED  BY <2>3, <2>4
<1>11. ParseInv'
  BY <1>1, <1>2, <1>10, SheetKept DEF IInv, ParseInv, BeginInv, ParsedInv
<1>12. NeverAborts'
  <2> SUFFICES ASSUME \A e \in Elements : WellWritten(e), pc' = "aborted" PROVE FALSE
    BY <1>1, SheetKept DEF NeverAborts
  <2> QED  BY <1>1, <1>2, <1>8
<1>13. SizInv'  BY <1>1, <1>2, SheetKept DEF IInv, SizInv, Flat
<1> QED  BY <1>9, <1>11, <1>12, <1>13 DEF IInv, LooksInvs

-----------------------------------------------------------------------------
(* Restyling, a new event, and what follows.                               *)

\* Giving a well written element its pieces.
LEMMA PiecesOfElement ==
  ASSUME TypeInv, NEW e, e \in Elements, WellWritten(e), NEW old,
         \A ev \in Events : old[ev] = NoPiece \/ \E r \in R(e, ev) : old[ev] = Text(r),
         NEW ev, ev \in Events
  PROVE  LET given == CssSelectorSeparator(FindCssById(FullCss, e), old)
         IN  /\ R(e, ev) = {} => given[ev] = NoPiece
             /\ \A r \in R(e, ev) : given[ev] = Text(r)
<1> DEFINE given == CssSelectorSeparator(FindCssById(FullCss, e), old)
<1>1. rules \in Seq(Rule) /\ FullCss = Written(rules)  BY SheetsAssumption DEF TypeInv, Shapes
<1>2. e \in Ids /\ Apart(rules, e)  BY TurnTyped DEF WellWritten
<1>3. /\ RulesFor(rules, e, ev) = {} => given[ev] = old[ev]
      /\ \A r \in RulesFor(rules, e, ev) : given[ev] = Text(r)
  BY <1>1, <1>2, PiecesGiven
<1> HIDE DEF given
<1>4. R(e, ev) = {} => given[ev] = NoPiece  BY <1>3 DEF R
<1> QED  BY <1>3, <1>4 DEF R, given

\* A piece of a well written rule starts the threads of that rule.
LEMMA ParsePiece ==
  ASSUME TypeInv, NEW e, WellWritten(e), NEW ev, NEW piece, NEW return,
         return \in {"render", "parsed"}, ParseCss(piece, return),
         piece = NoPiece \/ \E r \in R(e, ev) : piece = Text(r)
  PROVE  \/ piece = NoPiece /\ pc' = return /\ UNCHANGED <<then, threads>>
         \/ /\ pc' = "parsing" /\ then' = return
            /\ \E r \in R(e, ev) : piece = Text(r) /\ threads' = Threads(r)
<1>1. CASE piece = NoPiece  BY <1>1, ParseCssCases
<1>2. CASE \E r \in R(e, ev) : piece = Text(r)
  <2>1. PICK r \in R(e, ev) : piece = Text(r)  BY <1>2
  <2>2. Text(r) # NoPiece /\ Opened(Text(r)) /\ Callbacks(Text(r)) = Threads(r)
    BY <2>1, RuleFacts
  <2>3. pc' = "parsing" /\ then' = return /\ threads' = Callbacks(piece)
    BY <2>1, <2>2, ParseCssCases
  <2> QED  BY <2>1, <2>2, <2>3
<1> QED  BY <1>1, <1>2

\* No thread has ended yet.
LEMMA ParsingBegins ==
  ASSUME NEW r, threads' = Threads(r)
  PROVE  \A j \in DOMAIN r.decls : ThreadOf(r, j) \in threads'
BY DEF Threads

(* An element that is up to date is left alone.                            *)
LEMMA UpToDateKeepsLooks ==
  ASSUME IInv, TypeInv', Restyle, upToDate[El]
  PROVE  IInv'
<1>1. /\ rules' = rules /\ cssEvents' = cssEvents /\ upToDate' = upToDate /\ style' = style
      /\ lastEvent' = lastEvent /\ turn' = turn /\ event' = event /\ then' = then
      /\ threads' = threads /\ pc = "style" /\ pc' = "render"
  BY DEF Restyle, sheetVars
<1>2. El' = El /\ Ev' = Ev  BY <1>1 DEF El, Ev
<1>3. ASSUME NEW e \in Elements, WellWritten(e)' PROVE ElementInv(e)'
  <2>1. ElementInv(e)  BY <1>1, <1>3, SheetKept DEF IInv, LooksInvs
  <2>2. (Restyled(e)' => Restyled(e)) /\ (Passed(e)' => Passed(e) \/ e = El)
    BY <1>1, <1>2 DEF Restyled, Passed, El
  <2>3. PiecesInv(e)'
    BY <1>1, <2>1, <2>2, SheetKept, PiecesKept DEF ElementInv, PiecesInv
  <2>4. LooksInv(e)'
    BY <1>1, <1>2, <2>1, SheetKept, LooksKept DEF ElementInv, LooksInv, LastEvent
  <2>5. Untouched(e)' /\ SizeInv(e)'
    BY <1>1, <2>1, SheetKept, LooksKept DEF ElementInv, SizeInv
  <2> QED  BY <2>3, <2>4, <2>5 DEF ElementInv
<1>4. ParseInv' /\ SizInv' /\ NeverAborts'
  BY <1>1 DEF ParseInv, ParsingInv, BeginInv, ParsedInv, SizInv, NeverAborts
<1> QED  BY <1>3, <1>4 DEF IInv, LooksInvs

(* An element that is not is given its pieces, and its normal rule is      *)
(* parsed.                                                                 *)
LEMMA RestyleKeepsLooks ==
  ASSUME IInv, TypeInv', Restyle, ~ upToDate[El]
  PROVE  IInv'
<1> DEFINE found == FindCssById(FullCss, El)
           given == CssSelectorSeparator(found, cssEvents[El])
<1>1. /\ rules' = rules /\ upToDate' = upToDate /\ style' = style
      /\ lastEvent' = lastEvent /\ turn' = turn /\ event' = event /\ pc = "style"
  BY DEF Restyle, sheetVars
<1>2. TypeInv /\ El \in Elements /\ El' = El /\ DOMAIN css = Elements /\ DOMAIN cssEvents = Elements
  BY <1>1, ElTyped DEF IInv, TypeInv, Shapes, El
<1>3. css' = [css EXCEPT ![El] = found]
      /\ cssEvents' = [cssEvents EXCEPT ![El] = CssSelectorSeparator(css'[El], @)]
      /\ ParseCss(cssEvents'[El]["none"], "render")
  BY DEF Restyle
<1>4. css'[El] = found  BY <1>2, <1>3
<1>5. cssEvents'[El] = given /\ \A e \in Elements : e # El => cssEvents'[e] = cssEvents[e]
  BY <1>2, <1>3, <1>4
<1>6. pc' \in {"render", "parsing", "aborted"} /\ (pc' = "parsing" => then' = "render")
      /\ ParseCss(given["none"], "render")
  BY <1>3, <1>5, ParseCssCases
<1> HIDE DEF given
<1>7. ASSUME WellWritten(El), NEW ev \in Events
      PROVE  /\ R(El, ev) = {} => given[ev] = NoPiece
             /\ \A r \in R(El, ev) : given[ev] = Text(r)
  <2>1. \A w \in Events :
          cssEvents[El][w] = NoPiece \/ \E r \in R(El, w) : cssEvents[El][w] = Text(r)
    BY <1>2, <1>7 DEF IInv, LooksInvs, ElementInv, PiecesInv, GivenPieces
  <2> QED  BY <1>2, <1>7, <2>1, PiecesOfElement DEF given
<1>8. ASSUME WellWritten(El)
      PROVE  \/ given["none"] = NoPiece /\ R(El, "none") = {} /\ pc' = "render"
             \/ /\ pc' = "parsing" /\ then' = "render"
                /\ \E r \in R(El, "none") : threads' = Threads(r)
  <2>1. "none" \in Events  BY DEF Events
  <2>2. given["none"] = NoPiece \/ \E r \in R(El, "none") : given["none"] = Text(r)
    BY <1>7, <1>8, <2>1
  <2>3. \/ given["none"] = NoPiece /\ pc' = "render"
        \/ /\ pc' = "parsing" /\ then' = "render"
           /\ \E r \in R(El, "none") : threads' = Threads(r)
    BY <1>2, <1>6, <1>8, <2>2, ParsePiece
  <2>4. given["none"] = NoPiece => R(El, "none") = {}
    BY <1>2, <1>7, <1>8, <2>1, RuleFacts
  <2> QED  BY <2>3, <2>4
<1>9. ASSUME NEW e \in Elements, WellWritten(e)' PROVE ElementInv(e)'
  <2>1. WellWritten(e) /\ ElementInv(e)  BY <1>1, <1>9, SheetKept DEF IInv, LooksInvs
  <2>2. PiecesInv(e)'
    <3>1. CASE e = El
      <4>1. \A ev \in Events : given[ev] = NoPiece \/ \E r \in R(El, ev) : given[ev] = Text(r)
        BY <1>7, <2>1, <3>1
      <4>2. GivenPieces(e)'
        BY <1>1, <1>5, <3>1, <4>1 DEF GivenPieces, R
      <4>3. AllPieces(e)'
        <5>1. \A ev \in Events : \A r \in R(El, ev) : given[ev] = Text(r)  BY <1>7, <2>1, <3>1
        <5> QED  BY <1>1, <1>5, <3>1, <5>1 DEF AllPieces, R
      <4>4. Passed(e)' => Passed(e) \/ pc' = "render"
        BY <1>1, <1>6 DEF Passed
      <4>5. Passed(e)' /\ R(e, "none")' # {} => upToDate'[e]
        BY <1>1, <1>8, <2>1, <3>1, <4>4 DEF ElementInv, PiecesInv, R
      <4> QED  BY <4>2, <4>3, <4>5 DEF PiecesInv
    <3>2. CASE e # El
      <4>1. Restyled(e)' => Restyled(e)  BY <1>1, <1>2, <3>2 DEF Restyled
      <4>2. Passed(e)' => Passed(e)
        BY <1>1, <1>2, <1>6, <3>2 DEF Passed, El
      <4> QED  BY <1>1, <1>5, <2>1, <3>2, <4>1, <4>2, SheetKept, PiecesKept DEF ElementInv, PiecesInv
    <3> QED  BY <3>1, <3>2
  <2>3. LooksInv(e)'
    BY <1>1, <1>2, <2>1, SheetKept, LooksKept DEF ElementInv, LooksInv, LastEvent
  <2>4. Untouched(e)' /\ SizeInv(e)'
    BY <1>1, <2>1, SheetKept, LooksKept DEF ElementInv, SizeInv
  <2> QED  BY <2>2, <2>3, <2>4 DEF ElementInv
<1>10. ParsingInv'
  <2> SUFFICES ASSUME pc' = "parsing", WellWritten(El)
               PROVE  \E r \in R(El, "none") :
                        /\ threads' \subseteq Threads(r)
                        /\ \A j \in DOMAIN r.decls : ThreadOf(r, j) \notin threads' => Applies(r, j)'
    BY <1>1, <1>2, <1>6, SheetKept DEF ParsingInv, R, Ev
  <2>1. PICK r \in R(El, "none") : threads' = Threads(r)  BY <1>8
  <2> QED  BY <2>1, ParsingBegins
<1>11. BeginInv'
  <2> SUFFICES ASSUME pc' = "parsing", El \in Buttons, WellWritten(El)
               PROVE  lastEvent[El] = "beginning"
    BY <1>1, <1>2, SheetKept DEF BeginInv
  <2>1. R(El, "none") # {}  BY <1>8
  <2>2. ~ Passed(El)  BY <1>2, <2>1 DEF IInv, LooksInvs, ElementInv, PiecesInv
  <2> QED  BY <2>2 DEF Passed
<1>12. ParsedInv'  BY <1>6 DEF ParsedInv
<1>13. NeverAborts'
  <2> SUFFICES ASSUME \A e \in Elements : WellWritten(e), pc' = "aborted" PROVE FALSE
    BY <1>1, SheetKept DEF NeverAborts
  <2> QED  BY <1>2, <1>8
<1>14. SizInv'  BY <1>6 DEF SizInv
<1> QED  BY <1>9, <1>10, <1>11, <1>12, <1>13, <1>14 DEF IInv, LooksInvs, ParseInv

(* A button whose event changed parses the rule of the new event.          *)
LEMMA NewEventKeepsLooks ==
  ASSUME IInv, TypeInv', NewEvent
  PROVE  IInv'
<1> DEFINE piece == cssEvents[El][event']
<1>1. /\ rules' = rules /\ cssEvents' = cssEvents /\ upToDate' = upToDate /\ style' = style
      /\ lastEvent' = lastEvent /\ turn' = turn /\ pc = "render"
  BY DEF NewEvent, sheetVars, elementVars
<1>2. TypeInv /\ El \in Elements /\ El' = El  BY <1>1, ElTyped DEF IInv, TypeInv, El
<1>3. event' \in Events /\ ParseCss(piece, "parsed")
  BY DEF NewEvent, Event, Events, PieceFor
<1>4. pc' \in {"parsed", "parsing", "aborted"} /\ (pc' = "parsing" => then' = "parsed")
  BY <1>3, ParseCssCases
<1>5. ASSUME WellWritten(El)
      PROVE  \/ R(El, event') = {} /\ pc' = "parsed"
             \/ /\ pc' = "parsing" /\ then' = "parsed"
                /\ \E r \in R(El, event') : threads' = Threads(r)
  <2>1. ElementInv(El) /\ Restyled(El)  BY <1>1, <1>2, <1>5 DEF IInv, LooksInvs, Restyled
  <2>2. piece = NoPiece \/ \E r \in R(El, event') : piece = Text(r)
    BY <1>3, <2>1 DEF ElementInv, PiecesInv, GivenPieces
  <2>3. \A r \in R(El, event') : piece = Text(r)
    BY <1>3, <2>1 DEF ElementInv, PiecesInv, AllPieces
  <2> HIDE DEF piece
  <2>4. piece = NoPiece => R(El, event') = {}  BY <1>2, <2>3, RuleFacts
  <2>5. \/ piece = NoPiece /\ pc' = "parsed"
        \/ /\ pc' = "parsing" /\ then' = "parsed"
           /\ \E r \in R(El, event') : threads' = Threads(r)
    BY <1>2, <1>3, <1>5, <2>2, ParsePiece
  <2> QED  BY <2>4, <2>5
<1> HIDE DEF piece
<1>6. ASSUME NEW e \in Elements, WellWritten(e)' PROVE ElementInv(e)'
  <2>1. ElementInv(e)  BY <1>1, <1>6, SheetKept DEF IInv, LooksInvs
  <2>2. (Restyled(e)' => Restyled(e)) /\ (Passed(e)' => Passed(e))
    BY <1>1, <1>2, <1>4 DEF Restyled, Passed
  <2>3. PiecesInv(e)'
    BY <1>1, <2>1, <2>2, SheetKept, PiecesKept DEF ElementInv, PiecesInv
  <2>4. LooksInv(e)'
    BY <1>1, <1>2, <2>1, SheetKept, LooksKept DEF ElementInv, LooksInv, LastEvent
  <2>5. Untouched(e)' /\ SizeInv(e)'
    BY <1>1, <2>1, SheetKept, LooksKept DEF ElementInv, SizeInv
  <2> QED  BY <2>3, <2>4, <2>5 DEF ElementInv
<1>7. ParsingInv'
  <2> SUFFICES ASSUME pc' = "parsing", WellWritten(El)
               PROVE  \E r \in R(El, event') :
                        /\ threads' \subseteq Threads(r)
                        /\ \A j \in DOMAIN r.decls : ThreadOf(r, j) \notin threads' => Applies(r, j)'
    BY <1>1, <1>2, <1>4, SheetKept DEF ParsingInv, R, Ev
  <2>1. PICK r \in R(El, event') : threads' = Threads(r)  BY <1>5
  <2> QED  BY <2>1, ParsingBegins
<1>8. BeginInv'  BY <1>4 DEF BeginInv
<1>9. ParsedInv'
  <2> SUFFICES ASSUME pc' = "parsed", WellWritten(El), NEW r, r \in R(El, event')
               PROVE  Applied(El, r)'
    BY <1>1, <1>2, SheetKept DEF ParsedInv, R
  <2> QED  BY <1>5
<1>10. NeverAborts'
  <2> SUFFICES ASSUME \A e \in Elements : WellWritten(e), pc' = "aborted" PROVE FALSE
    BY <1>1, SheetKept DEF NeverAborts
  <2> QED  BY <1>2, <1>5
<1>11. SizInv'
  <2>1. El # Screen /\ siz' = Size(El)  BY TurnTyped, ButtonsAssumption DEF NewEvent
  <2>2. WellWritten(Screen) /\ WellWritten(El) /\ Sized(El) => ~ Flat(siz')
    BY <1>1, <2>1, NotFlat
  <2> QED  BY <1>1, <1>2, <2>2, SheetKept DEF SizInv, Flat
<1> QED  BY <1>6, <1>7, <1>8, <1>9, <1>10, <1>11 DEF IInv, LooksInvs, ParseInv

(* Every step keeps the inductive invariant.                               *)
LEMMA LooksPreserved ==
  ASSUME IInv, [Next]_vars
  PROVE  IInv'
<1>1. TypeInv'  BY TypesPreserved DEF IInv
<1>2. CASE MoveMouse \/ PressOrRelease \/ UNCHANGED vars
  <2>1. UNCHANGED <<sheetVars, elementVars, turn, pc, siz, event, then, threads>>
    BY <1>2 DEF MoveMouse, PressOrRelease, vars, frameVars
  <2> QED  BY <1>1, <2>1, MouseKeepsLooks
<1>3. CASE RenderPlain \/ SameEvent
  BY <1>1, <1>3, TurnKeepsLooks DEF RenderPlain, SameEvent, elementVars
<1>4. CASE EventParsed
  <2>1. El \in Buttons  BY <1>4 DEF IInv, TypeInv, Shapes, EventParsed
  <2> QED  BY <1>1, <1>4, <2>1, TurnKeepsLooks DEF EventParsed
<1>5. CASE Restyle  BY <1>1, <1>5, UpToDateKeepsLooks, RestyleKeepsLooks
<1>6. CASE Join  BY <1>1, <1>6, JoinKeepsLooks
<1>7. CASE NewEvent  BY <1>1, <1>7, NewEventKeepsLooks
<1>8. CASE Tick  BY <1>1, <1>8, TickKeepsLooks
<1>9. CASE \E t \in threads : RunThread(t)  BY <1>1, <1>9, ThreadKeepsLooks
<1> QED  BY <1>2, <1>3, <1>4, <1>5, <1>6, <1>7, <1>8, <1>9 DEF Next, MainLoop

\* When a frame is drawn every element had its turn.
LEMMA Drawn ==
  ASSUME IInv, pc = "drawn", NEW e \in Elements, WellWritten(e)
  PROVE  /\ ElementInv(e)
         /\ \A r \in R(e, LastEvent(e)) : Applied(e, r)
<1>1. ElementInv(e)  BY DEF IInv, LooksInvs
<1>2. turn = Len(Turn) /\ turn \in Nat  BY TurnTyped DEF IInv, TypeInv, Shapes
<1>3. Passed(e)
  <2>1. PICK k \in DOMAIN Turn : Turn[k] = e  BY TurnTyped
  <2>2. k < turn \/ k = turn  BY <1>2, TurnTyped
  <2> QED  BY <2>1, <2>2 DEF Passed
<1>4. ASSUME NEW r \in R(e, LastEvent(e)) PROVE Applied(e, r)
  <2>1. e \in Buttons \/ upToDate[e]
    <3>1. CASE e \notin Buttons
      <4>1. LastEvent(e) = "none"  BY <3>1 DEF LastEvent
      <4>2. R(e, "none") # {}  BY <1>4, <4>1
      <4> QED  BY <1>1, <1>3, <4>2 DEF ElementInv, PiecesInv
    <3> QED  BY <3>1
  <2> QED  BY <1>1, <1>4, <2>1 DEF ElementInv, LooksInv
<1> QED  BY <1>1, <1>4

(* The inductive invariant implies the properties.                         *)
LEMMA IInvImplies ==
  ASSUME IInv
  PROVE  StyleAsWritten /\ BackToNormal /\ NeverAborts
<1>1. StyleAsWritten
  BY Drawn DEF StyleAsWritten, R, Applied
<1>2. BackToNormal
  <2> SUFFICES ASSUME pc = "drawn", NEW e \in Added, WellWritten(e), NormalCovers(e),
                      LastEvent(e) = "none", NEW r \in RulesFor(rules, e, "none"), NEW p \in Props
               PROVE  style[e][p] = IF p \in Declared(r) THEN ValueIn(r, p) ELSE Initial(p)
    BY DEF BackToNormal
  <2>1. e \in Elements /\ TypeInv  BY DEF Elements, IInv
  <2>2. ElementInv(e) /\ Applied(e, r)  BY <2>1, Drawn DEF R
  <2>3. CASE p \in Declared(r)
    <3>1. e # Screen  BY TurnTyped
    <3>2. Takes(e, p)  BY <3>1, Zenon DEF Takes
    <3> QED  BY <2>2, <2>3, <3>2 DEF Applied
  <2>4. CASE p \notin Declared(r)
    <3>1. \A q \in RulesFor(rules, e, "none") : q = r  BY <2>1, RuleFacts DEF R
    <3>2. \A q \in RulesOf(e) : Declared(q) \subseteq Declared(r)
      BY <3>1 DEF NormalCovers
    <3>3. \A q \in Fires(e) : p \notin Declared(q)  BY <2>4, <3>2, FiresIsOf
    <3> QED  BY <2>2, <2>4, <3>3 DEF ElementInv, Untouched
  <2> QED  BY <2>3, <2>4
<1> QED  BY <1>1, <1>2 DEF IInv

(* The inductive invariant holds in every reachable state.                 *)
THEOREM WidgetsInvariant == Spec => []IInv
<1>1. Init => IInv  BY LooksInitially
<1>2. IInv /\ [Next]_vars => IInv'  BY LooksPreserved
<1> QED  BY <1>1, <1>2, PTL DEF Spec

(***************************************************************************)
(* In every drawn frame an element whose rules are well written looks as   *)
(* its last rule for the event it is in says, whatever else is in the      *)
(* sheet and in whatever order the threads of a rule ran (findCssById,     *)
(* cssSelectorSepreator, ParseCss, Button::Render).                        *)
(***************************************************************************)
THEOREM WidgetsLookAsWritten == Spec => []StyleAsWritten
BY WidgetsInvariant, IInvImplies, PTL

(***************************************************************************)
(* A button that is left looks as if it had never been entered, if its     *)
(* normal rule declares what its other rules declare (Button::Render).     *)
(***************************************************************************)
THEOREM WidgetsBackToNormal == Spec => []BackToNormal
BY WidgetsInvariant, IInvImplies, PTL

(***************************************************************************)
(* A well written sheet does not end the program if its sized elements     *)
(* have both parts of their size, and each comes to a cell or more in the  *)
(* window on every terminal (ParseCss, ConvertToAbsolute, RenderElement).  *)
(***************************************************************************)
THEOREM WidgetsNeverAbort == Spec => []NeverAborts
BY WidgetsInvariant, IInvImplies, PTL
=============================================================================

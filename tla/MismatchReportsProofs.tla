----------------------- MODULE MismatchReportsProofs -----------------------
(***************************************************************************)
(* What the files of the report pipeline say of each other, for any number  *)
(* of tasks, layers, captures and runs of its stages.                       *)
(***************************************************************************)
EXTENDS MismatchReports, FiniteSetTheorems, WellFoundedInduction, TLAPS

----------------------------------------------------------------------------
\* Sequences of sequences, put together.

LessThan == {p \in Nat \X Nat : p[1] < p[2]}

\* A set of natural numbers that is not empty has a least element.
LEMMA LeastNatural ==
  ASSUME NEW T \in SUBSET Nat, T # {}
  PROVE  \E n \in T : \A m \in T : n <= m
<1>1. IsWellFoundedOn(LessThan, Nat)
  BY NatLessThanWellFounded DEF OpToRel, LessThan
<1>2. PICK n \in T : \A m \in T : ~ (<<m, n>> \in LessThan)
  BY <1>1, WFMin, Zenon
<1>3. ASSUME NEW m \in T PROVE n <= m
  <2>1. m \in Nat /\ n \in Nat
    OBVIOUS
  <2>2. m < n => <<m, n>> \in LessThan
    BY <2>1 DEF LessThan
  <2> QED
    BY <1>2, <2>1, <2>2
<1> QED
  BY <1>3

\* f has the first k sequences put together, for every k up to n.
PutsTogether(f, ss, n) ==
  /\ DOMAIN f = 1 .. n
  /\ \A k \in 1 .. n : f[k] = IF k = 1 THEN ss[k] ELSE f[k - 1] \o ss[k]

LEMMA PutTogether ==
  ASSUME NEW ss, NEW n \in Nat \ {0}
  PROVE  \E f : PutsTogether(f, ss, n)
<1> DEFINE bad == {k \in Nat \ {0} : ~ \E f : PutsTogether(f, ss, k)}
<1> SUFFICES ASSUME bad # {} PROVE FALSE
  OBVIOUS
<1>1. PICK k \in bad : \A m \in bad : k <= m
  <2>1. bad \in SUBSET Nat
    OBVIOUS
  <2> HIDE DEF bad
  <2> QED
    BY <2>1, LeastNatural
<1>2. CASE k = 1
  <2> DEFINE f == [i \in 1 .. 1 |-> ss[i]]
  <2>1. PutsTogether(f, ss, 1)
    BY DEF PutsTogether
  <2> QED
    BY <1>2, <2>1
<1>3. CASE k # 1
  <2>1. k - 1 \in Nat \ {0} /\ k \in Nat /\ k - 1 \notin bad
    BY <1>1, <1>3
  <2>2. PICK f : PutsTogether(f, ss, k - 1)
    BY <2>1
  <2> DEFINE g == [i \in 1 .. k |-> IF i = k THEN f[k - 1] \o ss[k] ELSE f[i]]
  <2>3. ASSUME NEW i \in 1 .. k
        PROVE  g[i] = IF i = 1 THEN ss[i] ELSE g[i - 1] \o ss[i]
    <3>1. CASE i = k
      <4>1. k - 1 \in 1 .. k /\ k - 1 # k /\ k \in 1 .. k
        BY <1>3, <2>1
      <4>2. g[k - 1] = f[k - 1] /\ g[k] = f[k - 1] \o ss[k]
        BY <4>1
      <4> QED
        BY <1>3, <3>1, <4>2
    <3>2. CASE i # k
      <4>1. i \in 1 .. k - 1 /\ (i # 1 => i - 1 \in 1 .. k /\ i - 1 # k)
        BY <2>1, <3>2
      <4>2. g[i] = f[i] /\ (i # 1 => g[i - 1] = f[i - 1])
        BY <3>2, <4>1
      <4> QED
        BY <2>2, <4>1, <4>2 DEF PutsTogether
    <3> QED
      BY <3>1, <3>2
  <2>4. PutsTogether(g, ss, k)
    <3>1. DOMAIN g = 1 .. k
      OBVIOUS
    <3> HIDE DEF g
    <3> QED
      BY <2>3, <3>1 DEF PutsTogether
  <2> QED
    BY <2>4
<1> QED
  BY <1>2, <1>3

\* FlattenSeq puts all of them together.
LEMMA FlattenInOrder ==
  ASSUME NEW S, NEW ss \in Seq(Seq(S)), ss # <<>>
  PROVE  \E f : PutsTogether(f, ss, Len(ss)) /\ FlattenSeq(ss) = f[Len(ss)]
<1> DEFINE n == Len(ss)
           IsFold(f) == f = [i \in 1 .. n |-> IF i = 1 THEN ss[i] ELSE f[i - 1] \o ss[i]]
           fold == CHOOSE f : IsFold(f)
<1>1. n \in Nat \ {0}
  OBVIOUS
<1>2. PICK f : PutsTogether(f, ss, n)
  BY <1>1, PutTogether
<1>3. IsFold([i \in 1 .. n |-> f[i]])
  <2> DEFINE g == [i \in 1 .. n |-> f[i]]
  <2>1. \A i \in 1 .. n : i # 1 => i - 1 \in 1 .. n
    BY <1>1
  <2>2. \A i \in 1 .. n : g[i] = IF i = 1 THEN ss[i] ELSE g[i - 1] \o ss[i]
    BY <1>2, <2>1 DEF PutsTogether
  <2> QED
    BY <2>2
<1>4. IsFold(fold)
  <2> HIDE DEF IsFold
  <2> QED
    BY <1>3
<1>5. FlattenSeq(ss) = fold[n]
  BY <1>1 DEF FlattenSeq
<1>6. PutsTogether(fold, ss, n)
  <2> HIDE DEF fold
  <2> QED
    BY <1>4 DEF PutsTogether
<1> QED
  BY <1>5, <1>6

\* Elements of sequences at different places are different.
Distinct(ss, n) ==
  \A i, j \in 1 .. n : \A a \in DOMAIN ss[i], b \in DOMAIN ss[j] :
    ss[i][a] = ss[j][b] => i = j /\ a = b

\* flat is what the first n sequences are together.
IsFlat(flat, ss, n, S) ==
  /\ flat \in Seq(S)
  /\ \A k \in DOMAIN flat : \E i \in 1 .. n : \E a \in DOMAIN ss[i] : flat[k] = ss[i][a]
  /\ \A i \in 1 .. n : \A a \in DOMAIN ss[i] : \E k \in DOMAIN flat : flat[k] = ss[i][a]
  /\ Distinct(ss, n) => \A k, l \in DOMAIN flat : flat[k] = flat[l] => k = l
  /\ (\A i \in 1 .. n : Len(ss[i]) <= 1) =>
       /\ Len(flat) <= n
       /\ Len(flat) = n => \A i \in 1 .. n : Len(ss[i]) = 1 /\ flat[i] = ss[i][1]

LEMMA FlatOne ==
  ASSUME NEW S, NEW ss \in Seq(Seq(S)), ss # <<>>
  PROVE  IsFlat(ss[1], ss, 1, S)
<1>1. 1 \in DOMAIN ss /\ 1 .. 1 = {1} /\ ss[1] \in Seq(S)
  OBVIOUS
<1>2. Len(ss[1]) = 1 => DOMAIN ss[1] = {1}
  BY <1>1
<1> QED
  BY <1>1, <1>2 DEF IsFlat, Distinct

LEMMA FlatNext ==
  ASSUME NEW S, NEW ss \in Seq(Seq(S)), NEW n \in Nat, n + 1 \in DOMAIN ss, n # 0,
         NEW flat, IsFlat(flat, ss, n, S)
  PROVE  IsFlat(flat \o ss[n + 1], ss, n + 1, S)
<1> DEFINE more == ss[n + 1]
           new == flat \o more
           p == Len(flat)
           q == Len(more)
<1>1. /\ flat \in Seq(S) /\ more \in Seq(S) /\ p \in Nat /\ q \in Nat
      /\ DOMAIN flat = 1 .. p /\ DOMAIN more = 1 .. q
  BY DEF IsFlat
<1>2. /\ new \in Seq(S) /\ Len(new) = p + q /\ DOMAIN new = 1 .. p + q
      /\ \A k \in 1 .. p : new[k] = flat[k]
      /\ \A a \in 1 .. q : new[p + a] = more[a]
  BY <1>1
<1>3. /\ \A k \in 1 .. p : \E i \in 1 .. n : \E a \in DOMAIN ss[i] : flat[k] = ss[i][a]
      /\ \A i \in 1 .. n : \A a \in DOMAIN ss[i] : \E k \in 1 .. p : flat[k] = ss[i][a]
      /\ Distinct(ss, n) => \A k, l \in 1 .. p : flat[k] = flat[l] => k = l
      /\ (\A i \in 1 .. n : Len(ss[i]) <= 1) =>
           /\ p <= n
           /\ p = n => \A i \in 1 .. n : Len(ss[i]) = 1 /\ flat[i] = ss[i][1]
  <2>1. /\ \A k \in DOMAIN flat : \E i \in 1 .. n : \E a \in DOMAIN ss[i] : flat[k] = ss[i][a]
        /\ \A i \in 1 .. n : \A a \in DOMAIN ss[i] : \E k \in DOMAIN flat : flat[k] = ss[i][a]
        /\ Distinct(ss, n) => \A k, l \in DOMAIN flat : flat[k] = flat[l] => k = l
        /\ (\A i \in 1 .. n : Len(ss[i]) <= 1) =>
             /\ p <= n
             /\ p = n => \A i \in 1 .. n : Len(ss[i]) = 1 /\ flat[i] = ss[i][1]
    BY Zenon DEF IsFlat
  <2>2. DOMAIN flat = 1 .. p
    BY <1>1
  <2>3. /\ \A k \in 1 .. p : \E i \in 1 .. n : \E a \in DOMAIN ss[i] : flat[k] = ss[i][a]
        /\ \A i \in 1 .. n : \A a \in DOMAIN ss[i] : \E k \in 1 .. p : flat[k] = ss[i][a]
    <3> HIDE DEF p
    <3>1. \A k \in 1 .. p : \E i \in 1 .. n : \E a \in DOMAIN ss[i] : flat[k] = ss[i][a]
      <4> TAKE k \in 1 .. p
      <4>1. k \in DOMAIN flat
        BY <2>2
      <4> QED
        BY <2>1, <4>1, Zenon
    <3>2. \A i \in 1 .. n : \A a \in DOMAIN ss[i] : \E k \in 1 .. p : flat[k] = ss[i][a]
      <4> TAKE i \in 1 .. n
      <4> TAKE a \in DOMAIN ss[i]
      <4>1. \E k \in DOMAIN flat : flat[k] = ss[i][a]
        BY <2>1, Zenon
      <4> QED
        BY <2>2, <4>1
    <3> QED
      BY <3>1, <3>2
  <2>4. Distinct(ss, n) => \A k, l \in 1 .. p : flat[k] = flat[l] => k = l
    BY <2>1, <2>2
  <2> HIDE DEF p
  <2> QED
    BY <2>1, <2>3, <2>4, Zenon
<1>4. /\ \A i \in 1 .. n + 1 : i \in 1 .. n \/ i = n + 1
      /\ \A i \in 1 .. n : i \in 1 .. n + 1 /\ i # n + 1
      /\ n + 1 \in 1 .. n + 1
  OBVIOUS
<1>5. \A k \in 1 .. p + q : k \in 1 .. p \/ \E a \in 1 .. q : k = p + a
  <2>1. \A k \in 1 .. p + q : k \notin 1 .. p => k - p \in 1 .. q /\ k = p + (k - p)
    BY <1>1
  <2> QED
    BY <2>1
<1>6. \A k \in 1 .. p, a \in 1 .. q : k \in 1 .. p + q /\ p + a \in 1 .. p + q
  BY <1>1
<1> HIDE DEF more, new, p, q
<1>7. ASSUME NEW k \in DOMAIN new
      PROVE  \E i \in 1 .. n + 1 : \E a \in DOMAIN ss[i] : new[k] = ss[i][a]
  <2>1. CASE k \in 1 .. p
    <3>1. PICK i \in 1 .. n : \E a \in DOMAIN ss[i] : flat[k] = ss[i][a]
      BY <1>3, <2>1
    <3>2. i \in 1 .. n + 1 /\ new[k] = flat[k]
      BY <1>2, <1>4, <2>1
    <3> QED
      BY <3>1, <3>2
  <2>2. CASE \E a \in 1 .. q : k = p + a
    <3>1. PICK a \in 1 .. q : k = p + a
      BY <2>2
    <3>2. new[k] = ss[n + 1][a] /\ a \in DOMAIN ss[n + 1]
      BY <1>1, <1>2, <3>1 DEF more
    <3> QED
      BY <1>4, <3>2, Zenon
  <2> QED
    BY <1>2, <1>5, <2>1, <2>2
<1>8. ASSUME NEW i \in 1 .. n + 1, NEW a \in DOMAIN ss[i]
      PROVE  \E k \in DOMAIN new : new[k] = ss[i][a]
  <2>1. CASE i \in 1 .. n
    <3>1. PICK k \in 1 .. p : flat[k] = ss[i][a]
      BY <1>3, <2>1
    <3>2. k \in DOMAIN new
      BY <1>1, <1>2
    <3> QED
      BY <1>2, <3>1, <3>2
  <2>2. CASE i = n + 1
    <3>1. a \in 1 .. q
      BY <1>1, <2>2 DEF more
    <3>2. p + a \in DOMAIN new
      BY <1>1, <1>2, <3>1
    <3> QED
      BY <1>2, <2>2, <3>1, <3>2 DEF more
  <2> QED
    BY <1>4, <2>1, <2>2
<1>9. ASSUME Distinct(ss, n + 1), NEW k \in DOMAIN new, NEW l \in DOMAIN new,
             new[k] = new[l]
      PROVE  k = l
  <2>1. Distinct(ss, n)
    BY <1>4, <1>9 DEF Distinct
  <2>2. \A c \in 1 .. p, a \in 1 .. q : flat[c] # more[a]
    <3> SUFFICES ASSUME NEW c \in 1 .. p, NEW a \in 1 .. q, flat[c] = more[a] PROVE FALSE
      OBVIOUS
    <3>1. PICK i \in 1 .. n : \E b \in DOMAIN ss[i] : flat[c] = ss[i][b]
      BY <1>3
    <3>2. PICK b \in DOMAIN ss[i] : flat[c] = ss[i][b]
      BY <3>1
    <3>3. a \in DOMAIN ss[n + 1] /\ ss[i][b] = ss[n + 1][a]
      BY <1>1, <3>2 DEF more
    <3>4. i = n + 1
      BY <1>4, <1>9, <3>3 DEF Distinct
    <3> QED
      BY <1>4, <3>4
  <2>3. \A a, b \in 1 .. q : more[a] = more[b] => a = b
    <3>1. \A a, b \in DOMAIN ss[n + 1] : ss[n + 1][a] = ss[n + 1][b] => a = b
      BY <1>4, <1>9 DEF Distinct
    <3> QED
      BY <1>1, <3>1 DEF more
  <2>4. CASE k \in 1 .. p /\ l \in 1 .. p
    <3>1. \A c, d \in 1 .. p : flat[c] = flat[d] => c = d
      BY <1>3, <2>1
    <3> QED
      BY <1>2, <1>9, <2>4, <3>1
  <2>5. CASE k \in 1 .. p /\ \E a \in 1 .. q : l = p + a
    <3>1. PICK a \in 1 .. q : l = p + a
      BY <2>5
    <3> QED
      BY <1>2, <1>9, <2>2, <2>5, <3>1
  <2>6. CASE l \in 1 .. p /\ \E a \in 1 .. q : k = p + a
    <3>1. PICK a \in 1 .. q : k = p + a
      BY <2>6
    <3> QED
      BY <1>2, <1>9, <2>2, <2>6, <3>1
  <2>7. CASE (\E a \in 1 .. q : k = p + a) /\ (\E a \in 1 .. q : l = p + a)
    BY <1>2, <1>9, <2>3, <2>7
  <2> QED
    BY <1>2, <1>5, <2>4, <2>5, <2>6, <2>7
<1>10. ASSUME \A i \in 1 .. n + 1 : Len(ss[i]) <= 1
       PROVE  /\ Len(new) <= n + 1
              /\ Len(new) = n + 1 =>
                   \A i \in 1 .. n + 1 : Len(ss[i]) = 1 /\ new[i] = ss[i][1]
  <2>1. q <= 1
    BY <1>4, <1>10 DEF more, q
  <2>2. p <= n /\ (p = n => \A i \in 1 .. n : Len(ss[i]) = 1 /\ flat[i] = ss[i][1])
    BY <1>3, <1>4, <1>10
  <2>3. Len(new) <= n + 1 /\ (Len(new) = n + 1 => p = n /\ q = 1)
    BY <1>1, <1>2, <2>1, <2>2
  <2>4. ASSUME p = n, q = 1, NEW i \in 1 .. n + 1
        PROVE  Len(ss[i]) = 1 /\ new[i] = ss[i][1]
    <3>1. CASE i \in 1 .. n
      BY <1>2, <2>2, <2>4, <3>1
    <3>2. CASE i = n + 1
      <4>1. new[p + 1] = more[1]
        BY <1>2, <2>4
      <4> QED
        BY <2>4, <3>2, <4>1 DEF more, q
    <3> QED
      BY <1>4, <3>1, <3>2
  <2> QED
    BY <2>3, <2>4
<1>11. IsFlat(new, ss, n + 1, S)
  BY <1>2, <1>7, <1>8, <1>9, <1>10 DEF IsFlat
<1> QED
  BY <1>11 DEF new, more

LEMMA Flattened ==
  ASSUME NEW S, NEW ss \in Seq(Seq(S))
  PROVE  IsFlat(FlattenSeq(ss), ss, Len(ss), S)
<1>1. CASE ss = <<>>
  <2>1. FlattenSeq(ss) = <<>> /\ Len(ss) = 0 /\ 1 .. 0 = {}
    BY <1>1 DEF FlattenSeq
  <2>2. <<>> \in Seq(S) /\ DOMAIN <<>> = {} /\ Len(<<>>) = 0
    OBVIOUS
  <2> QED
    BY <2>1, <2>2 DEF IsFlat
<1>2. CASE ss # <<>>
  <2> DEFINE n == Len(ss)
  <2>1. n \in Nat /\ n # 0 /\ DOMAIN ss = 1 .. n
    BY <1>2
  <2>2. PICK f : PutsTogether(f, ss, n) /\ FlattenSeq(ss) = f[n]
    BY <1>2, FlattenInOrder
  <2> DEFINE bad == {k \in 1 .. n : ~ IsFlat(f[k], ss, k, S)}
  <2>3. bad = {}
    <3> SUFFICES ASSUME bad # {} PROVE FALSE
      OBVIOUS
    <3>1. PICK k \in bad : \A m \in bad : k <= m
      <4>1. bad \in SUBSET Nat
        OBVIOUS
      <4> HIDE DEF bad
      <4> QED
        BY <4>1, LeastNatural
    <3>2. CASE k = 1
      <4>1. f[1] = ss[1]
        BY <2>1, <2>2 DEF PutsTogether
      <4> QED
        BY <1>2, <3>2, <4>1, FlatOne
    <3>3. CASE k # 1
      <4>1. k - 1 \in 1 .. n /\ k - 1 \in Nat /\ k - 1 # 0 /\ k - 1 + 1 = k /\ k \in 1 .. n
        BY <2>1, <3>3
      <4>2. k - 1 \notin bad
        BY <2>1, <3>1, <4>1
      <4>3. IsFlat(f[k - 1], ss, k - 1, S) /\ f[k] = f[k - 1] \o ss[k]
        BY <2>2, <3>3, <4>1, <4>2 DEF PutsTogether
      <4>4. IsFlat(f[k - 1] \o ss[k - 1 + 1], ss, k - 1 + 1, S)
        BY <2>1, <4>1, <4>3, FlatNext
      <4> QED
        BY <4>1, <4>3, <4>4
    <3> QED
      BY <3>2, <3>3
  <2>4. n \in 1 .. n /\ n \notin bad
    BY <2>1, <2>3
  <2> QED
    BY <2>2, <2>4
<1> QED
  BY <1>1, <1>2

\* The members of a sequence that are in a set, all of them, each as often and
\* in no other number.
LEMMA Selected ==
  ASSUME NEW S, NEW s \in Seq(S), NEW T
  PROVE  LET sel == SelectIn(s, T)
         IN  /\ sel \in Seq(S)
             /\ \A k \in DOMAIN sel : sel[k] \in T /\ \E i \in DOMAIN s : sel[k] = s[i]
             /\ \A i \in DOMAIN s : s[i] \in T => \E k \in DOMAIN sel : sel[k] = s[i]
             /\ (\A i, j \in DOMAIN s : s[i] = s[j] => i = j) =>
                  \A k, l \in DOMAIN sel : sel[k] = sel[l] => k = l
             /\ Len(sel) = Len(s) => sel = s
<1> DEFINE n == Len(s)
           ss == [i \in 1 .. n |-> IF s[i] \in T THEN <<s[i]>> ELSE <<>>]
           sel == FlattenSeq(ss)
<1>1. n \in Nat /\ DOMAIN s = 1 .. n /\ \A i \in 1 .. n : s[i] \in S
  OBVIOUS
<1>2. \A i \in 1 .. n : ss[i] \in Seq(S)
  BY <1>1
<1>3. ss \in Seq(Seq(S)) /\ Len(ss) = n
  BY <1>1, <1>2
<1>4. IsFlat(sel, ss, n, S)
  <2> HIDE DEF ss, n
  <2>1. IsFlat(FlattenSeq(ss), ss, Len(ss), S)
    BY <1>3, Flattened
  <2> QED
    BY <1>3, <2>1
<1>5. \A i \in 1 .. n : /\ s[i] \in T => DOMAIN ss[i] = {1} /\ ss[i][1] = s[i] /\ Len(ss[i]) = 1
                        /\ s[i] \notin T => DOMAIN ss[i] = {} /\ Len(ss[i]) = 0
  <2> TAKE i \in 1 .. n
  <2>1. CASE s[i] \in T
    <3>1. ss[i] = <<s[i]>>
      BY <2>1
    <3> HIDE DEF ss
    <3> QED
      BY <2>1, <3>1
  <2>2. CASE s[i] \notin T
    <3>1. ss[i] = <<>>
      BY <2>2
    <3> HIDE DEF ss
    <3> QED
      BY <2>2, <3>1
  <2> QED
    BY <2>1, <2>2
<1>6. SelectIn(s, T) = sel
  BY DEF SelectIn
<1> HIDE DEF ss, sel
<1>7. sel \in Seq(S)
  BY <1>4 DEF IsFlat
<1>8. ASSUME NEW k \in DOMAIN sel
      PROVE  sel[k] \in T /\ \E i \in DOMAIN s : sel[k] = s[i]
  <2>1. PICK i \in 1 .. n : \E a \in DOMAIN ss[i] : sel[k] = ss[i][a]
    BY <1>4 DEF IsFlat
  <2> QED
    BY <1>1, <1>5, <2>1
<1>9. ASSUME NEW i \in DOMAIN s, s[i] \in T
      PROVE  \E k \in DOMAIN sel : sel[k] = s[i]
  <2>1. 1 \in DOMAIN ss[i] /\ ss[i][1] = s[i] /\ i \in 1 .. n
    BY <1>1, <1>5, <1>9
  <2>2. \E k \in DOMAIN sel : sel[k] = ss[i][1]
    BY <1>4, <2>1, Zenon DEF IsFlat
  <2> QED
    BY <2>1, <2>2
<1>10. ASSUME \A i, j \in DOMAIN s : s[i] = s[j] => i = j
       PROVE  \A k, l \in DOMAIN sel : sel[k] = sel[l] => k = l
  <2>1. Distinct(ss, n)
    <3> SUFFICES ASSUME NEW i \in 1 .. n, NEW j \in 1 .. n, NEW a \in DOMAIN ss[i],
                        NEW b \in DOMAIN ss[j], ss[i][a] = ss[j][b]
                 PROVE  i = j /\ a = b
      BY DEF Distinct
    <3>1. a = 1 /\ b = 1 /\ ss[i][1] = s[i] /\ ss[j][1] = s[j]
      BY <1>5
    <3> QED
      BY <1>1, <1>10, <3>1
  <2> QED
    BY <1>4, <2>1 DEF IsFlat
<1>11. ASSUME Len(sel) = n PROVE sel = s
  <2>1. \A i \in 1 .. n : Len(ss[i]) <= 1
    <3> TAKE i \in 1 .. n
    <3> DEFINE m == Len(ss[i])
    <3>1. m \in {0, 1}
      BY <1>5
    <3> HIDE DEF m
    <3>2. m <= 1
      BY <3>1
    <3> QED
      BY <3>2 DEF m
  <2>2. \A i \in 1 .. n : Len(ss[i]) = 1 /\ sel[i] = ss[i][1]
    BY <1>4, <1>11, <2>1, Zenon DEF IsFlat
  <2>3. \A i \in 1 .. n : sel[i] = s[i]
    BY <1>5, <2>2
  <2> QED
    BY <1>1, <1>7, <1>11, <2>3
<1> QED
  BY <1>6, <1>7, <1>8, <1>9, <1>10, <1>11

----------------------------------------------------------------------------
\* Turns

IsSteps(steps) == Len(steps) \in Nat /\ DOMAIN steps = 1 .. Len(steps)

\* The turns of a trajectory are its assistant steps, each once.
LEMMA Turns ==
  ASSUME NEW steps, IsSteps(steps)
  PROVE  LET turns == AssistantSteps(steps)
         IN  /\ turns \in Seq(DOMAIN steps)
             /\ \A k \in DOMAIN turns : steps[turns[k]].role = "assistant"
             /\ \A j \in DOMAIN steps : steps[j].role = "assistant" =>
                  \E k \in DOMAIN turns : turns[k] = j
<1> DEFINE s == [j \in 1 .. Len(steps) |-> j]
           T == {j \in DOMAIN steps : steps[j].role = "assistant"}
<1>1. s \in Seq(DOMAIN steps) /\ DOMAIN s = DOMAIN steps
  BY DEF IsSteps
<1>2. \A j \in DOMAIN steps : s[j] = j
  BY DEF IsSteps
<1>3. AssistantSteps(steps) = SelectIn(s, T)
  BY DEF AssistantSteps
<1> HIDE DEF s
<1>4. LET sel == SelectIn(s, T)
      IN  /\ sel \in Seq(DOMAIN steps)
          /\ \A k \in DOMAIN sel : sel[k] \in T
          /\ \A j \in DOMAIN s : s[j] \in T => \E k \in DOMAIN sel : sel[k] = s[j]
  <2> HIDE DEF T
  <2> QED
    BY <1>1, Selected
<1> QED
  BY <1>1, <1>2, <1>3, <1>4

\* Which steps are turns depends on who spoke.
LEMMA SameTurns ==
  ASSUME NEW steps, NEW others, IsSteps(steps), IsSteps(others), Len(others) = Len(steps),
         \A j \in DOMAIN steps : others[j].role = steps[j].role
  PROVE  AssistantSteps(others) = AssistantSteps(steps)
<1>1. /\ [j \in 1 .. Len(others) |-> j] = [j \in 1 .. Len(steps) |-> j]
      /\ {j \in DOMAIN others : others[j].role = "assistant"}
           = {j \in DOMAIN steps : steps[j].role = "assistant"}
  BY DEF IsSteps
<1> QED
  BY <1>1 DEF AssistantSteps

\* The turns of a directory.
TurnsOfDir(dir) ==
  {tk \in Tasks \X Nat : /\ dir[tk[1]] # None
                         /\ tk[2] \in DOMAIN AssistantSteps(dir[tk[1]].steps)}

\* Every turn of the directory is listed once.
LEMMA TurnsListed ==
  ASSUME NEW dir, \A t \in Tasks : dir[t] # None => IsSteps(dir[t].steps)
  PROVE  LET all == AllTurns(dir)
         IN  /\ all \in Seq(TurnsOfDir(dir))
             /\ ToSet(all) = TurnsOfDir(dir)
             /\ \A k, l \in DOMAIN all : all[k] = all[l] => k = l
<1> DEFINE S == TurnsOfDir(dir)
           Of(t) == AssistantSteps(dir[t].steps)
           ss == [t \in Tasks |-> IF dir[t] = None THEN <<>>
                                 ELSE [k \in 1 .. Len(Of(t)) |-> <<t, k>>]]
           all == FlattenSeq(ss)
<1>1. NTasks \in Nat /\ Tasks = 1 .. NTasks
  BY ReportsAssumption DEF Tasks
<1>2. ASSUME NEW t \in Tasks, dir[t] # None
      PROVE  Len(Of(t)) \in Nat /\ DOMAIN Of(t) = 1 .. Len(Of(t))
  BY <1>2, Turns
<1>3. ASSUME NEW t \in Tasks
      PROVE  /\ ss[t] \in Seq(S)
             /\ dir[t] = None => DOMAIN ss[t] = {}
             /\ dir[t] # None => /\ DOMAIN ss[t] = DOMAIN Of(t)
                                /\ \A k \in DOMAIN Of(t) : ss[t][k] = <<t, k>>
  <2>1. CASE dir[t] = None
    <3>1. ss[t] = <<>>
      BY <2>1
    <3> HIDE DEF ss, S
    <3> QED
      BY <2>1, <3>1
  <2>2. CASE dir[t] # None
    <3>1. ss[t] = [k \in 1 .. Len(Of(t)) |-> <<t, k>>]
      BY <2>2
    <3>2. \A k \in 1 .. Len(Of(t)) : <<t, k>> \in S
      BY <1>2, <2>2 DEF TurnsOfDir
    <3>3. [k \in 1 .. Len(Of(t)) |-> <<t, k>>] \in Seq(S)
      <4> HIDE DEF S, Of
      <4> QED
        BY <1>2, <2>2, <3>2
    <3> HIDE DEF ss, S, Of
    <3> QED
      BY <1>2, <2>2, <3>1, <3>3
  <2> QED
    BY <2>1, <2>2
<1>4. ss \in Seq(Seq(S)) /\ Len(ss) = NTasks
  <2>1. DOMAIN ss = 1 .. NTasks /\ ss = [t \in 1 .. NTasks |-> ss[t]]
    BY <1>1
  <2> HIDE DEF ss, S
  <2> QED
    BY <1>1, <1>3, <2>1
<1>5. IsFlat(all, ss, NTasks, S)
  <2> HIDE DEF ss, S
  <2>1. IsFlat(FlattenSeq(ss), ss, Len(ss), S)
    BY <1>4, Flattened
  <2> QED
    BY <1>4, <2>1
<1>6. AllTurns(dir) = all
  BY DEF AllTurns
<1> HIDE DEF ss, all
<1>7. all \in Seq(S)
  BY <1>5 DEF IsFlat
<1>8. ToSet(all) = S
  <2>1. ToSet(all) \subseteq S
    BY <1>7 DEF ToSet
  <2>2. ASSUME NEW tk \in S PROVE tk \in ToSet(all)
    <3>1. /\ tk[1] \in 1 .. NTasks /\ tk[2] \in DOMAIN ss[tk[1]]
          /\ ss[tk[1]][tk[2]] = tk
      <4>1. /\ tk[1] \in Tasks /\ tk = <<tk[1], tk[2]>> /\ dir[tk[1]] # None
            /\ tk[2] \in DOMAIN Of(tk[1])
        BY DEF TurnsOfDir
      <4> HIDE DEF Of, S
      <4> QED
        BY <1>1, <1>3, <4>1
    <3>2. \E k \in DOMAIN all : all[k] = ss[tk[1]][tk[2]]
      BY <1>5, <3>1, Zenon DEF IsFlat
    <3> QED
      BY <3>1, <3>2 DEF ToSet
  <2> QED
    BY <2>1, <2>2
<1>9. Distinct(ss, NTasks)
  <2> SUFFICES ASSUME NEW i \in 1 .. NTasks, NEW j \in 1 .. NTasks, NEW a \in DOMAIN ss[i],
                      NEW b \in DOMAIN ss[j], ss[i][a] = ss[j][b]
               PROVE  i = j /\ a = b
    BY DEF Distinct
  <2>1. ss[i][a] = <<i, a>> /\ ss[j][b] = <<j, b>>
    BY <1>1, <1>3
  <2>2. <<i, a>> = <<j, b>>
    BY <2>1
  <2> QED
    BY <2>2
<1>10. \A k, l \in DOMAIN all : all[k] = all[l] => k = l
  BY <1>5, <1>9 DEF IsFlat
<1> QED
  BY <1>6, <1>7, <1>8, <1>10

----------------------------------------------------------------------------
\* Tokens and what was predicted from them

Prior(t, g, j) == [i \in 1 .. j |-> Message(t, g, i - 1)]
Full(t, g, j) == <<Header>> \o Prior(t, g, j)

LEMMA Shaped ==
  ASSUME NEW t \in Nat, NEW g \in Nat, NEW j \in Nat \ {0}, NEW r \in Nat \ {0}
  PROVE  /\ Prior(t, g, j) \in Seq(Tokens) \ {<<>>} /\ Len(Prior(t, g, j)) = j
         /\ Full(t, g, j) \in Seq(Tokens) \ {<<>>} /\ Len(Full(t, g, j)) = j + 1
         /\ Response(t, g, j, r) \in Seq(Tokens) \ {<<>>} /\ Len(Response(t, g, j, r)) = r
         /\ <<Header>> \in Seq(Tokens)
<1>1. \A a, b, c, d \in Nat : <<a, b, c, d>> \in Tokens
  BY DEF Tokens
<1>2. Header \in Tokens
  BY <1>1 DEF Header
<1>3. Prior(t, g, j) \in Seq(Tokens) /\ Len(Prior(t, g, j)) = j
  <2>1. \A i \in 1 .. j : Message(t, g, i - 1) \in Tokens
    BY <1>1 DEF Message
  <2> QED
    BY <2>1 DEF Prior
<1>4. Response(t, g, j, r) \in Seq(Tokens) /\ Len(Response(t, g, j, r)) = r
  BY <1>1 DEF Response
<1>5. Full(t, g, j) \in Seq(Tokens) /\ Len(Full(t, g, j)) = j + 1
  BY <1>2, <1>3 DEF Full
<1> QED
  BY <1>2, <1>3, <1>4, <1>5

\* The logits of the i-th prediction have seen prompt and response up to there.
LEMMA SeenBefore ==
  ASSUME NEW S, NEW a \in Seq(S), NEW b \in Seq(S), NEW i \in 1 .. Len(b)
  PROVE  Seen(a \o b, Len(a) - 1 + (i - 1)) = a \o SubSeq(b, 1, i - 1)
<1> DEFINE n == Len(a)
           x == SubSeq(a \o b, 1, n + i - 1)
           y == a \o SubSeq(b, 1, i - 1)
<1>1. /\ n \in Nat /\ Len(b) \in Nat /\ i \in Nat /\ i - 1 \in 0 .. Len(b)
      /\ a \o b \in Seq(S) /\ Len(a \o b) = n + Len(b)
      /\ n - 1 + (i - 1) + 1 = n + i - 1
  OBVIOUS
<1>2. /\ SubSeq(b, 1, i - 1) \in Seq(S) /\ Len(SubSeq(b, 1, i - 1)) = i - 1
      /\ \A k \in 1 .. i - 1 : SubSeq(b, 1, i - 1)[k] = b[k]
  BY <1>1
<1>3. y \in Seq(S) /\ Len(y) = n + i - 1
  BY <1>1, <1>2
<1>4. x \in Seq(S) /\ Len(x) = n + i - 1 /\ \A k \in 1 .. n + i - 1 : x[k] = (a \o b)[k]
  BY <1>1
<1>5. ASSUME NEW k \in 1 .. n + i - 1 PROVE x[k] = y[k]
  <2>1. x[k] = (a \o b)[k]
    BY <1>4
  <2>2. CASE k <= n
    BY <1>1, <1>2, <2>1, <2>2
  <2>3. CASE k > n
    <3>1. k - n \in 1 .. i - 1 /\ k - n \in 1 .. Len(b)
      BY <1>1, <2>3
    <3>2. (a \o b)[k] = b[k - n]
      BY <1>1, <2>3, <3>1
    <3>3. y[k] = SubSeq(b, 1, i - 1)[k - n]
      BY <1>1, <1>2, <2>3, <3>1
    <3> QED
      BY <1>2, <2>1, <3>1, <3>2, <3>3
  <2> QED
    BY <1>1, <2>2, <2>3
<1>6. x = y
  <2> HIDE DEF x, y, n
  <2> QED
    BY <1>3, <1>4, <1>5
<1> QED
  BY <1>1, <1>6 DEF Seen

\* A trainer sees what the rollout saw, or that without the header.
LEMMA Alike ==
  ASSUME NEW t \in Nat, NEW g \in Nat, NEW j \in Nat \ {0}, NEW x \in Seq(Tokens),
         NEW prompt \in {Full(t, g, j), Prior(t, g, j)}
  PROVE  AlikeContexts(Full(t, g, j) \o x, prompt \o x)
<1>1. Prior(t, g, j) \in Seq(Tokens) /\ <<Header>> \in Seq(Tokens)
  BY Shaped
<1>2. (<<Header>> \o Prior(t, g, j)) \o x = <<Header>> \o (Prior(t, g, j) \o x)
  BY <1>1
<1> QED
  BY <1>2 DEF Full, AlikeContexts

\* Scores are of the response's tokens, each predicted from all before it.
ScoresAre(scored, prompt, response) ==
  /\ scored \in Seq([token : Tokens, context : Seq(Tokens)])
  /\ Len(scored) = Len(response)
  /\ \A i \in 1 .. Len(response) :
       scored[i] = [token |-> response[i], context |-> prompt \o SubSeq(response, 1, i - 1)]

LEMMA ScoresFit ==
  ASSUME NEW prompt \in Seq(Tokens), NEW response \in Seq(Tokens)
  PROVE  ScoresAre(ScoresOf(prompt, response), prompt, response)
<1> DEFINE scored == ScoresOf(prompt, response)
           n == Len(response)
           m == Len(prompt)
<1>1. n \in Nat /\ m \in Nat
  OBVIOUS
<1>2. \A i \in 1 .. n : response_prediction_positions(m, n)[i] = m - 1 + (i - 1)
  BY DEF response_prediction_positions
<1>3. \A i \in 1 .. n :
        Seen(prompt \o response, m - 1 + (i - 1)) = prompt \o SubSeq(response, 1, i - 1)
  BY SeenBefore
<1> DEFINE of(i) == [token |-> response[i], context |-> prompt \o SubSeq(response, 1, i - 1)]
           T == [token : Tokens, context : Seq(Tokens)]
<1>4. scored = [i \in 1 .. n |-> of(i)]
  BY <1>2, <1>3 DEF ScoresOf, Scored
<1>5. \A i \in 1 .. n : of(i) \in T
  BY <1>1
<1>6. /\ scored \in Seq(T) /\ Len(scored) = n
      /\ \A i \in 1 .. n : scored[i] = of(i)
  <2> HIDE DEF scored, of, T, n
  <2> QED
    BY <1>1, <1>4, <1>5
<1> QED
  BY <1>6 DEF ScoresAre

\* Routing decisions of the response's positions, layer by layer.
RoutesAre(trace, prompt, response, layers) ==
  /\ Len(trace) = Len(response) /\ DOMAIN trace = 1 .. Len(response)
  /\ \A i \in 1 .. Len(response) :
       /\ Len(trace[i]) = Len(layers)
       /\ \A l \in 1 .. Len(layers) :
            trace[i][l] = <<prompt \o SubSeq(response, 1, i - 1), layers[l]>>

LEMMA RoutesFit ==
  ASSUME NEW prompt \in Seq(Tokens), NEW response \in Seq(Tokens), NEW L,
         NEW layers \in Seq(L)
  PROVE  RoutesAre(RoutesAt(response_prediction_positions(Len(prompt), Len(response)),
                            prompt, response, layers), prompt, response, layers)
<1> DEFINE n == Len(response)
           m == Len(prompt)
           pos == response_prediction_positions(m, n)
           trace == RoutesAt(pos, prompt, response, layers)
<1>1. n \in Nat /\ m \in Nat /\ Len(layers) \in Nat
  OBVIOUS
<1>2. pos = [i \in 1 .. n |-> m - 1 + (i - 1)] /\ Len(pos) = n
  BY <1>1 DEF response_prediction_positions
<1>3. \A i \in 1 .. n :
        Seen(prompt \o response, m - 1 + (i - 1)) = prompt \o SubSeq(response, 1, i - 1)
  BY SeenBefore
<1>4. trace = [i \in 1 .. n |-> Routed(prompt \o response, m - 1 + (i - 1), layers)]
  BY <1>2 DEF RoutesAt
<1> DEFINE row(i, l) == <<prompt \o SubSeq(response, 1, i - 1), layers[l]>>
<1>5. \A i \in 1 .. n : Routed(prompt \o response, m - 1 + (i - 1), layers)
                          = [l \in 1 .. Len(layers) |-> row(i, l)]
  BY <1>3 DEF Routed
<1>6. /\ Len(trace) = n /\ DOMAIN trace = 1 .. n
  BY <1>1, <1>4
<1>7. \A i \in 1 .. n : trace[i] = [l \in 1 .. Len(layers) |-> row(i, l)]
  BY <1>4, <1>5
<1>8. ASSUME NEW i \in 1 .. n
      PROVE  Len(trace[i]) = Len(layers) /\ \A l \in 1 .. Len(layers) : trace[i][l] = row(i, l)
  <2> DEFINE k == Len(layers)
  <2> HIDE DEF trace, n, m, row
  <2>1. trace[i] = [l \in 1 .. k |-> row(i, l)] /\ k \in Nat
    BY <1>1, <1>7
  <2> HIDE DEF k
  <2>2. Len([l \in 1 .. k |-> row(i, l)]) = k
    BY <2>1
  <2>3. \A l \in 1 .. k : trace[i][l] = row(i, l)
    BY <2>1
  <2> QED
    BY <2>1, <2>2, <2>3 DEF k
<1> QED
  BY <1>6, <1>8 DEF RoutesAre

\* Of a trace of all positions the last ones are the response's.
LEMMA LastRoutes ==
  ASSUME NEW prompt \in Seq(Tokens) \ {<<>>}, NEW response \in Seq(Tokens), NEW layers
  PROVE  LET trace == RoutesAt(routed_position_indices(Len(prompt), Len(response)),
                               prompt, response, layers)
             n == Len(response)
         IN  /\ Len(trace) >= n
             /\ LastOf(trace, n)
                  = RoutesAt(response_prediction_positions(Len(prompt), n),
                             prompt, response, layers)
             /\ Window(trace, n) = LastOf(trace, n)
<1> DEFINE n == Len(response)
           m == Len(prompt)
           at(q) == Routed(prompt \o response, q, layers)
           trace == RoutesAt(routed_position_indices(m, n), prompt, response, layers)
           last == RoutesAt(response_prediction_positions(m, n), prompt, response, layers)
<1>1. n \in Nat /\ m \in Nat \ {0}
  OBVIOUS
<1>2. trace = [q \in 1 .. m + n - 1 |-> at(q - 1)]
  <2>1. routed_position_indices(m, n) = [q \in 1 .. m + n - 1 |-> q - 1]
    BY DEF routed_position_indices
  <2>2. Len(routed_position_indices(m, n)) = m + n - 1
    BY <1>1, <2>1
  <2> QED
    BY <2>1, <2>2 DEF RoutesAt
<1>3. last = [i \in 1 .. n |-> at(m - 1 + (i - 1))]
  <2>1. response_prediction_positions(m, n) = [i \in 1 .. n |-> m - 1 + (i - 1)]
    BY DEF response_prediction_positions
  <2>2. Len(response_prediction_positions(m, n)) = n
    BY <1>1, <2>1
  <2> QED
    BY <2>1, <2>2 DEF RoutesAt
<1> DEFINE S == {at(q) : q \in Int}
<1> HIDE DEF n, m, trace, last, at
<1>4. trace \in Seq(S) /\ Len(trace) = m + n - 1 /\ \A q \in 1 .. m + n - 1 : trace[q] = at(q - 1)
  BY <1>1, <1>2
<1>5. last \in Seq(S) /\ Len(last) = n /\ \A i \in 1 .. n : last[i] = at(m - 1 + (i - 1))
  <2>1. \A i \in 1 .. n : m - 1 + (i - 1) \in Int
    BY <1>1
  <2>2. \A i \in 1 .. n : at(m - 1 + (i - 1)) \in S
    BY <2>1
  <2> HIDE DEF S
  <2> QED
    BY <1>1, <1>3, <2>2
<1> HIDE DEF S
<1>6. Len(trace) >= n
  BY <1>1, <1>4
<1>7. LastOf(trace, n) = last
  <2>1. Len(trace) - n + 1 = m /\ m \in 1 .. Len(trace) + 1 /\ Len(trace) \in 0 .. Len(trace)
    BY <1>1, <1>4
  <2> DEFINE x == SubSeq(trace, m, Len(trace))
  <2>2. x \in Seq(S) /\ Len(x) = n /\ \A i \in 1 .. n : x[i] = trace[m + i - 1]
    BY <1>1, <1>4, <2>1
  <2>3. \A i \in 1 .. n : m + i - 1 \in 1 .. m + n - 1 /\ m + i - 1 - 1 = m - 1 + (i - 1)
    BY <1>1
  <2>4. \A i \in 1 .. n : x[i] = last[i]
    <3> TAKE i \in 1 .. n
    <3> DEFINE q == m + i - 1
    <3>1. q \in 1 .. m + n - 1 /\ q - 1 = m - 1 + (i - 1)
      BY <1>1
    <3> HIDE DEF x
    <3>2. x[i] = trace[q] /\ last[i] = at(m - 1 + (i - 1))
      BY <1>5, <2>2
    <3> HIDE DEF q
    <3>3. trace[q] = at(q - 1)
      BY <1>4, <3>1
    <3> QED
      BY <3>1, <3>2, <3>3
  <2>5. x = last
    <3> HIDE DEF x
    <3> QED
      BY <1>5, <2>2, <2>4
  <2> QED
    BY <2>1, <2>5 DEF LastOf
<1>8. Window(trace, n) = LastOf(trace, n)
  <2>1. CASE Len(trace) > n
    BY <2>1 DEF Window
  <2>2. CASE ~ (Len(trace) > n)
    <3>1. Len(trace) = n
      BY <1>1, <1>4, <1>6, <2>2
    <3>2. m = 1
      BY <1>1, <1>4, <3>1
    <3>3. \A i \in 1 .. n : trace[i] = last[i]
      BY <1>1, <1>4, <1>5, <3>2
    <3>4. trace = last
      BY <1>4, <1>5, <3>1, <3>3
    <3> QED
      BY <1>7, <2>2, <3>4 DEF Window
  <2> QED
    BY <2>1, <2>2
<1> QED
  BY <1>6, <1>7, <1>8 DEF n, m, trace, last

\* Any selection of as many layers as there are is all of them.
LEMMA EveryLayer ==
  /\ AllLayers \in Seq(1 .. Layers) /\ Len(AllLayers) = Layers
  /\ \A l \in 1 .. Layers : AllLayers[l] = l
  /\ \A heard : /\ SelectIn(AllLayers, heard) \in Seq(1 .. Layers)
                /\ Len(SelectIn(AllLayers, heard)) = Layers =>
                     SelectIn(AllLayers, heard) = AllLayers
<1>1. Layers \in Nat
  BY ReportsAssumption
<1>2. /\ AllLayers \in Seq(1 .. Layers) /\ Len(AllLayers) = Layers
      /\ \A l \in 1 .. Layers : AllLayers[l] = l
  BY <1>1 DEF AllLayers
<1> QED
  BY <1>2, Selected

----------------------------------------------------------------------------
\* Trajectories.  taken is the list of captures: what each of them left of each
\* task.

\* A step as it was captured, or with a prompt filled in.
CapturedOrFilled(t, g, j, shape, step) ==
  LET captured == CapturedStep(t, g, j, shape)
  IN  \/ step = captured
      \/ Fillable(captured) /\ step = [captured EXCEPT !.prompt = Prior(t, g, j)]

TrajectoryOf(taken, t, traj) ==
  LET shapes == taken[traj.gen][t]
  IN  /\ traj = [gen |-> traj.gen, steps |-> traj.steps]
      /\ traj.gen \in DOMAIN taken
      /\ shapes \in Seq(Shapes)
      /\ IsSteps(traj.steps) /\ Len(traj.steps) = Len(shapes)
      /\ \A j \in DOMAIN traj.steps :
           CapturedOrFilled(t, traj.gen, j, shapes[j], traj.steps[j])

DirectoryOf(taken, dir) ==
  \A t \in Tasks : dir[t] # None => TrajectoryOf(taken, t, dir[t])

\* The model answered and its answer was captured.
Answered(shape) == shape.role = "assistant" /\ shape.probes # "none" /\ shape.r # 0

Logprobs(t, g, j, r) ==
  [i \in 1 .. r |-> [token |-> Response(t, g, j, r)[i],
                     context |-> Full(t, g, j) \o SubSeq(Response(t, g, j, r), 1, i - 1)]]

Routing(t, g, j, r) ==
  RoutesAt(response_prediction_positions(j + 1, r), Full(t, g, j), Response(t, g, j, r),
           AllLayers)

\* What a step has follows from its shape, but for the prompt.
StepHas(t, g, j, shape, step) ==
  /\ step.role = shape.role
  /\ step.response # <<>> <=> Answered(shape)
  /\ Answered(shape) =>
       /\ step.response = Response(t, g, j, shape.r)
       /\ step.prompt \in IF shape.probes = "full" THEN {Full(t, g, j)}
                          ELSE {<<>>, Prior(t, g, j)}
       /\ step.logprobs = Logprobs(t, g, j, shape.r)
       /\ step.routed \in {<<>>, Routing(t, g, j, shape.r)}

LEMMA StepFits ==
  ASSUME NEW t \in Nat, NEW g \in Nat, NEW j \in Nat \ {0}, NEW shape \in Shapes,
         NEW step, CapturedOrFilled(t, g, j, shape, step)
  PROVE  StepHas(t, g, j, shape, step)
<1> DEFINE r == shape.r
           captured == CapturedStep(t, g, j, shape)
           probed == shape.role = "assistant" /\ shape.probes # "none"
           response == Response(t, g, j, r)
           buffer == RoutesAt(routed_position_indices(Len(Full(t, g, j)), r),
                              Full(t, g, j), response, AllLayers)
<1>1. r \in Nat /\ shape.role \in {"assistant", "tool"}
      /\ shape.probes \in {"full", "response", "none"} /\ shape.routed \in BOOLEAN
  BY DEF Shapes
<1>2. captured = [role |-> shape.role,
                  prompt |-> IF probed /\ shape.probes = "full" THEN Full(t, g, j) ELSE <<>>,
                  response |-> IF probed THEN response ELSE <<>>,
                  logprobs |-> IF ~probed THEN <<>> ELSE
                    [i \in 1 .. r |-> [token |-> response[i],
                                       context |-> Full(t, g, j) \o SubSeq(response, 1, i - 1)]],
                  routed |-> IF probed /\ shape.routed THEN LastOf(buffer, r) ELSE <<>>]
  BY Zenon DEF CapturedStep, Full, Prior
<1>3. ASSUME r # 0
      PROVE  /\ Full(t, g, j) \in Seq(Tokens) \ {<<>>} /\ Len(Full(t, g, j)) = j + 1
             /\ response \in Seq(Tokens) \ {<<>>} /\ Len(response) = r
  <2>1. r \in Nat \ {0}
    BY <1>1, <1>3
  <2>2. PICK q \in Nat \ {0} : q = r
    BY <2>1
  <2>3. Full(t, g, j) \in Seq(Tokens) \ {<<>>}
    BY Shaped
  <2>4. Len(Full(t, g, j)) = j + 1
    BY Shaped
  <2>5. Response(t, g, j, q) \in Seq(Tokens) \ {<<>>}
    BY Shaped
  <2>6. Len(Response(t, g, j, q)) = q
    BY Shaped
  <2> QED
    BY <2>2, <2>3, <2>4, <2>5, <2>6
<1>4. r = 0 => response = <<>>
  BY DEF Response
<1>5. ASSUME r # 0 PROVE LastOf(buffer, r) = Routing(t, g, j, r)
  <2>1. /\ Full(t, g, j) \in Seq(Tokens) \ {<<>>} /\ Len(Full(t, g, j)) = j + 1
        /\ response \in Seq(Tokens) /\ Len(response) = r
    BY <1>3, <1>5
  <2> HIDE DEF response, r
  <2> QED
    BY <2>1, LastRoutes DEF Routing, response, r
<1> HIDE DEF captured, buffer, response
<1>6. /\ captured.role = shape.role
      /\ captured.prompt = IF probed /\ shape.probes = "full" THEN Full(t, g, j) ELSE <<>>
      /\ captured.response = IF probed THEN response ELSE <<>>
      /\ probed => captured.logprobs =
                     [i \in 1 .. r |-> [token |-> response[i],
                                        context |-> Full(t, g, j) \o SubSeq(response, 1, i - 1)]]
      /\ captured.routed = IF probed /\ shape.routed THEN LastOf(buffer, r) ELSE <<>>
      /\ DOMAIN captured = {"role", "prompt", "response", "logprobs", "routed"}
  BY <1>2
<1>7. probed => captured.logprobs = Logprobs(t, g, j, r)
  BY <1>6, Zenon DEF Logprobs, response
<1>8. /\ step.role = captured.role /\ step.response = captured.response
      /\ step.logprobs = captured.logprobs /\ step.routed = captured.routed
      /\ \/ step.prompt = captured.prompt
         \/ Fillable(captured) /\ step.prompt = Prior(t, g, j)
  <2>1. CASE step = captured
    BY <2>1
  <2>2. CASE Fillable(captured) /\ step = [captured EXCEPT !.prompt = Prior(t, g, j)]
    BY <1>6, <2>2
  <2> QED
    BY <2>1, <2>2 DEF CapturedOrFilled, captured
<1>9. Answered(shape) <=> probed /\ r # 0
  BY DEF Answered
<1>10. step.response # <<>> <=> Answered(shape)
  BY <1>3, <1>4, <1>6, <1>8, <1>9
<1>11. ASSUME Answered(shape)
       PROVE  /\ step.response = response
              /\ step.logprobs = Logprobs(t, g, j, r)
              /\ step.routed \in {<<>>, Routing(t, g, j, r)}
  BY <1>5, <1>6, <1>7, <1>8, <1>9, <1>11
<1>12. ASSUME Answered(shape)
       PROVE  step.prompt \in IF shape.probes = "full" THEN {Full(t, g, j)}
                              ELSE {<<>>, Prior(t, g, j)}
  <2>1. Full(t, g, j) # <<>>
    BY <1>3, <1>9, <1>12
  <2> QED
    BY <1>6, <1>8, <1>9, <1>12, <2>1 DEF Fillable
<1> QED
  BY <1>6, <1>8, <1>10, <1>11, <1>12 DEF response, StepHas

----------------------------------------------------------------------------
\* Turns and entries.  An entry names its turn; the rest follows from taken.

StepNumber(taken, g, t, k) == AssistantSteps(taken[g][t])[k]
ShapeOf(taken, g, t, k) == taken[g][t][StepNumber(taken, g, t, k)]

\* The k-th turn of a task was captured.
Turn(taken, g, t, k) ==
  /\ t \in Tasks /\ g \in DOMAIN taken
  /\ taken[g][t] \in Seq(Shapes)
  /\ k \in DOMAIN AssistantSteps(taken[g][t])

\* The step of a turn.
LEMMA TurnsNumbered ==
  ASSUME NEW taken, DOMAIN taken \in SUBSET Nat, NEW g, NEW t, NEW k, Turn(taken, g, t, k)
  PROVE  /\ t \in Nat /\ g \in Nat /\ k \in Nat
         /\ StepNumber(taken, g, t, k) \in Nat \ {0}
         /\ StepNumber(taken, g, t, k) \in DOMAIN taken[g][t]
         /\ ShapeOf(taken, g, t, k) \in Shapes
         /\ ShapeOf(taken, g, t, k).role = "assistant"
         /\ ShapeOf(taken, g, t, k).r \in Nat
<1> DEFINE shapes == taken[g][t]
           turns == AssistantSteps(shapes)
<1>1. /\ t \in Nat /\ g \in Nat
  BY ReportsAssumption DEF Turn, Tasks
<1>2. shapes \in Seq(Shapes) /\ k \in DOMAIN turns
  BY DEF Turn
<1>3. IsSteps(shapes)
  BY <1>2 DEF IsSteps
<1>4. turns \in Seq(DOMAIN shapes) /\ shapes[turns[k]].role = "assistant"
  BY <1>2, <1>3, Turns
<1> HIDE DEF turns, shapes
<1>5. turns[k] \in DOMAIN shapes /\ k \in Nat
  BY <1>2, <1>4
<1>6. turns[k] \in Nat \ {0} /\ shapes[turns[k]] \in Shapes
  BY <1>2, <1>5
<1>7. shapes[turns[k]].r \in Nat
  BY <1>6 DEF Shapes
<1> QED
  BY <1>1, <1>4, <1>5, <1>6, <1>7 DEF StepNumber, ShapeOf, turns, shapes

\* What a trajectory has for a turn.
LEMMA TurnFits ==
  ASSUME NEW taken, DOMAIN taken \in SUBSET Nat, NEW t \in Tasks, NEW traj,
         TrajectoryOf(taken, t, traj)
  PROVE  LET g == traj.gen
             turns == AssistantSteps(traj.steps)
         IN  /\ turns = AssistantSteps(taken[g][t])
             /\ \A k \in DOMAIN turns :
                  /\ Turn(taken, g, t, k)
                  /\ turns[k] = StepNumber(taken, g, t, k)
                  /\ turns[k] \in DOMAIN traj.steps
                  /\ CapturedOrFilled(t, g, turns[k], ShapeOf(taken, g, t, k),
                                      traj.steps[turns[k]])
             /\ \A k : Turn(taken, g, t, k) => k \in DOMAIN turns
<1> DEFINE g == traj.gen
           shapes == taken[g][t]
           turns == AssistantSteps(traj.steps)
<1>1. /\ g \in DOMAIN taken /\ shapes \in Seq(Shapes)
      /\ IsSteps(traj.steps) /\ Len(traj.steps) = Len(shapes)
      /\ \A j \in DOMAIN traj.steps : CapturedOrFilled(t, g, j, shapes[j], traj.steps[j])
  BY Zenon DEF TrajectoryOf
<1>2. t \in Nat /\ g \in Nat
  BY <1>1, ReportsAssumption DEF Tasks
<1>3. DOMAIN shapes = DOMAIN traj.steps /\ DOMAIN shapes = 1 .. Len(shapes) /\ IsSteps(shapes)
  BY <1>1 DEF IsSteps
<1>4. \A j \in DOMAIN shapes : traj.steps[j].role = shapes[j].role
  <2> TAKE j \in DOMAIN shapes
  <2>1. j \in Nat \ {0} /\ shapes[j] \in Shapes
    BY <1>1, <1>3
  <2>2. CapturedOrFilled(t, g, j, shapes[j], traj.steps[j])
    BY <1>1, <1>3
  <2> HIDE DEF g, shapes
  <2>3. StepHas(t, g, j, shapes[j], traj.steps[j])
    BY <1>2, <2>1, <2>2, StepFits
  <2> QED
    BY <2>3 DEF StepHas
<1>5. turns = AssistantSteps(shapes)
  <2> HIDE DEF shapes
  <2> QED
    BY <1>1, <1>3, <1>4, SameTurns
<1>6. ASSUME NEW k \in DOMAIN turns
      PROVE  /\ Turn(taken, g, t, k)
             /\ turns[k] = StepNumber(taken, g, t, k)
             /\ turns[k] \in DOMAIN traj.steps
             /\ CapturedOrFilled(t, g, turns[k], ShapeOf(taken, g, t, k),
                                 traj.steps[turns[k]])
  <2>1. Turn(taken, g, t, k)
    BY <1>1, <1>5 DEF Turn
  <2>2. turns[k] = StepNumber(taken, g, t, k)
    BY <1>5 DEF StepNumber
  <2>3. turns[k] \in DOMAIN traj.steps
    BY <1>3, <2>1, <2>2, TurnsNumbered
  <2> QED
    BY <1>1, <2>1, <2>2, <2>3 DEF ShapeOf
<1>7. \A k : Turn(taken, g, t, k) => k \in DOMAIN turns
  BY <1>5 DEF Turn
<1> QED
  BY <1>5, <1>6, <1>7

PromptOf(taken, g, t, k) ==
  LET j == StepNumber(taken, g, t, k)
  IN  IF ShapeOf(taken, g, t, k).probes = "full" THEN Full(t, g, j) ELSE Prior(t, g, j)

ResponseOf(taken, g, t, k) ==
  Response(t, g, StepNumber(taken, g, t, k), ShapeOf(taken, g, t, k).r)

LogprobsOf(taken, g, t, k) ==
  Logprobs(t, g, StepNumber(taken, g, t, k), ShapeOf(taken, g, t, k).r)

RoutingOf(taken, g, t, k) ==
  Routing(t, g, StepNumber(taken, g, t, k), ShapeOf(taken, g, t, k).r)

\* What the step of a turn has, now and later.
HasTurn(taken, g, t, k, step) ==
  /\ Turn(taken, g, t, k)
  /\ step.response # <<>> <=> Answered(ShapeOf(taken, g, t, k))
  /\ step.response # <<>> =>
       /\ step.response = ResponseOf(taken, g, t, k)
       /\ step.prompt # <<>> => step.prompt = PromptOf(taken, g, t, k)
       /\ step.prompt = <<>> =>
            PromptOf(taken, g, t, k) = Prior(t, g, StepNumber(taken, g, t, k))
       /\ step.logprobs = LogprobsOf(taken, g, t, k)
       /\ step.routed \in {<<>>, RoutingOf(taken, g, t, k)}

LEMMA TurnHas ==
  ASSUME NEW taken, DOMAIN taken \in SUBSET Nat, NEW t \in Tasks, NEW traj,
         TrajectoryOf(taken, t, traj), NEW k \in DOMAIN AssistantSteps(traj.steps)
  PROVE  HasTurn(taken, traj.gen, t, k, traj.steps[AssistantSteps(traj.steps)[k]])
<1> DEFINE g == traj.gen
           j == AssistantSteps(traj.steps)[k]
           step == traj.steps[j]
           shape == ShapeOf(taken, g, t, k)
<1>1. /\ Turn(taken, g, t, k) /\ j = StepNumber(taken, g, t, k)
      /\ CapturedOrFilled(t, g, j, shape, step)
  BY TurnFits
<1>2. t \in Nat /\ g \in Nat /\ j \in Nat \ {0} /\ shape \in Shapes /\ shape.r \in Nat
  BY <1>1, TurnsNumbered
<1> HIDE DEF g, j, step, shape
<1>3. /\ step.response # <<>> <=> Answered(shape)
      /\ Answered(shape) =>
           /\ step.response = Response(t, g, j, shape.r)
           /\ step.prompt \in IF shape.probes = "full" THEN {Full(t, g, j)}
                              ELSE {<<>>, Prior(t, g, j)}
           /\ step.logprobs = Logprobs(t, g, j, shape.r)
           /\ step.routed \in {<<>>, Routing(t, g, j, shape.r)}
  <2>1. StepHas(t, g, j, shape, step)
    BY <1>1, <1>2, StepFits
  <2> QED
    BY <2>1, Zenon DEF StepHas
<1>4. Full(t, g, j) # <<>>
  <2>1. \A r \in Nat \ {0} : Full(t, g, j) \in Seq(Tokens) \ {<<>>}
    BY <1>2, Shaped
  <2> QED
    BY <2>1
<1>5. /\ PromptOf(taken, g, t, k) =
           IF shape.probes = "full" THEN Full(t, g, j) ELSE Prior(t, g, j)
      /\ ResponseOf(taken, g, t, k) = Response(t, g, j, shape.r)
      /\ LogprobsOf(taken, g, t, k) = Logprobs(t, g, j, shape.r)
      /\ RoutingOf(taken, g, t, k) = Routing(t, g, j, shape.r)
  BY <1>1 DEF PromptOf, ResponseOf, LogprobsOf, RoutingOf, shape
<1>6. /\ step.response # <<>> <=> Answered(shape)
      /\ step.response # <<>> =>
           /\ step.response = ResponseOf(taken, g, t, k)
           /\ step.prompt # <<>> => step.prompt = PromptOf(taken, g, t, k)
           /\ step.prompt = <<>> =>
                PromptOf(taken, g, t, k) = Prior(t, g, StepNumber(taken, g, t, k))
           /\ step.logprobs = LogprobsOf(taken, g, t, k)
           /\ step.routed \in {<<>>, RoutingOf(taken, g, t, k)}
  BY <1>1, <1>3, <1>4, <1>5
<1> QED
  BY <1>1, <1>6 DEF g, j, step, shape, HasTurn

----------------------------------------------------------------------------
\* The turns a build keeps, and their entries

\* A list without repetition is as long as the set of its members is large.
LEMMA NoRepetition ==
  ASSUME NEW S, NEW s \in Seq(S), \A i, j \in DOMAIN s : s[i] = s[j] => i = j
  PROVE  Cardinality(ToSet(s)) = Len(s)
<1>1. Len(s) \in Nat /\ DOMAIN s = 1 .. Len(s)
  OBVIOUS
<1>2. s \in Bijection(1 .. Len(s), ToSet(s))
  <2>1. s \in [1 .. Len(s) -> ToSet(s)]
    BY <1>1 DEF ToSet
  <2>2. s \in Surjection(1 .. Len(s), ToSet(s))
    BY <1>1, <2>1 DEF Surjection, ToSet
  <2>3. s \in Injection(1 .. Len(s), ToSet(s))
    BY <1>1, <2>1 DEF Injection, IsInjective
  <2> QED
    BY <2>2, <2>3 DEF Bijection
<1> QED
  BY <1>1, <1>2, FS_CountingElements DEF ExistsBijection

\* Which turns are kept and which are skipped.
KeepsSome(dir) ==
  LET kept == KeptTurns(dir)
      skipped == SkippedTurns(dir)
  IN  /\ kept \in Seq(TurnsOfDir(dir)) /\ skipped \in Seq(TurnsOfDir(dir))
      /\ ToSet(kept) = {tk \in TurnsOfDir(dir) : Kept(dir, tk)}
      /\ ToSet(skipped) = {tk \in TurnsOfDir(dir) : ~Kept(dir, tk)}
      /\ Cardinality(ToSet(kept)) = Len(kept)

LEMMA KeepsTurns ==
  ASSUME NEW dir, \A t \in Tasks : dir[t] # None => IsSteps(dir[t].steps)
  PROVE  KeepsSome(dir)
<1> DEFINE all == AllTurns(dir)
           S == TurnsOfDir(dir)
           K == {tk \in ToSet(all) : Kept(dir, tk)}
           N == {tk \in ToSet(all) : ~Kept(dir, tk)}
           kept == SelectIn(all, K)
           skipped == SelectIn(all, N)
<1>1. /\ all \in Seq(S) /\ ToSet(all) = S
      /\ \A k, l \in DOMAIN all : all[k] = all[l] => k = l
  BY TurnsListed
<1>2. KeptTurns(dir) = kept /\ SkippedTurns(dir) = skipped
  BY DEF KeptTurns, SkippedTurns
<1>3. K \in SUBSET S /\ N \in SUBSET S
  BY <1>1
<1>4. /\ K = {tk \in S : Kept(dir, tk)}
      /\ N = {tk \in S : ~Kept(dir, tk)}
  BY <1>1
<1> HIDE DEF all, S, K, N
<1>5. ASSUME NEW T \in SUBSET S
      PROVE  LET sel == SelectIn(all, T)
             IN  /\ sel \in Seq(S)
                 /\ ToSet(sel) = T
                 /\ \A k, l \in DOMAIN sel : sel[k] = sel[l] => k = l
  <2> DEFINE sel == SelectIn(all, T)
  <2>1. /\ sel \in Seq(S)
        /\ \A k \in DOMAIN sel : sel[k] \in T /\ \E i \in DOMAIN all : sel[k] = all[i]
        /\ \A i \in DOMAIN all : all[i] \in T => \E k \in DOMAIN sel : sel[k] = all[i]
        /\ (\A i, j \in DOMAIN all : all[i] = all[j] => i = j) =>
             \A k, l \in DOMAIN sel : sel[k] = sel[l] => k = l
    BY <1>1, Selected
  <2> HIDE DEF sel
  <2>2. \A x \in T : \E i \in DOMAIN all : x = all[i]
    BY <1>1, <1>5 DEF ToSet
  <2>3. ToSet(sel) = T
    <3>1. ToSet(sel) \subseteq T
      BY <2>1 DEF ToSet
    <3>2. T \subseteq ToSet(sel)
      BY <2>1, <2>2 DEF ToSet
    <3> QED
      BY <3>1, <3>2
  <2>4. \A k, l \in DOMAIN sel : sel[k] = sel[l] => k = l
    BY <1>1, <2>1
  <2> QED
    BY <2>1, <2>3, <2>4 DEF sel
<1>6. /\ kept \in Seq(S) /\ ToSet(kept) = K /\ skipped \in Seq(S) /\ ToSet(skipped) = N
      /\ \A k, l \in DOMAIN kept : kept[k] = kept[l] => k = l
  BY <1>3, <1>5
<1> HIDE DEF kept, skipped
<1>7. Cardinality(ToSet(kept)) = Len(kept)
  BY <1>6, NoRepetition
<1> QED
  BY <1>2, <1>4, <1>6, <1>7 DEF KeepsSome, S

\* Entry i of index and rollouts mean the same turn and have its data.
EntryFits(taken, i, x, y) ==
  /\ x.idx = i /\ y.idx = i
  /\ y.task = x.task /\ y.turn = x.turn /\ y.gen = x.gen
  /\ Turn(taken, x.gen, x.task, x.turn)
  /\ Answered(ShapeOf(taken, x.gen, x.task, x.turn))
  /\ x.logprobs = LogprobsOf(taken, x.gen, x.task, x.turn)
  /\ y.prompt = PromptOf(taken, x.gen, x.task, x.turn)
  /\ y.response = ResponseOf(taken, x.gen, x.task, x.turn)

EntriesFit(taken, dir) ==
  LET kept == KeptTurns(dir)
      x == IndexEntries(dir)
      y == RolloutEntries(dir)
  IN  /\ Len(x) = Len(kept) /\ DOMAIN x = 1 .. Len(kept)
      /\ Len(y) = Len(kept) /\ DOMAIN y = 1 .. Len(kept)
      /\ \A i \in 1 .. Len(kept) :
           /\ EntryFits(taken, i, x[i], y[i])
           /\ x[i].task = kept[i][1] /\ x[i].turn = kept[i][2]
           /\ x[i].gen = dir[x[i].task].gen

LEMMA EntriesMade ==
  ASSUME NEW taken, DOMAIN taken \in SUBSET Nat, NEW dir, DirectoryOf(taken, dir)
  PROVE  EntriesFit(taken, dir) /\ KeepsSome(dir)
<1> DEFINE kept == KeptTurns(dir)
           n == Len(kept)
           xs == IndexEntries(dir)
           ys == RolloutEntries(dir)
<1>1. \A t \in Tasks : dir[t] # None => IsSteps(dir[t].steps)
  BY Zenon DEF DirectoryOf, TrajectoryOf
<1>2. KeepsSome(dir)
  BY <1>1, KeepsTurns
<1>3. /\ kept \in Seq(TurnsOfDir(dir)) /\ n \in Nat /\ DOMAIN kept = 1 .. n
      /\ \A i \in 1 .. n : kept[i] \in TurnsOfDir(dir) /\ Kept(dir, kept[i])
  BY <1>2 DEF KeepsSome, ToSet
<1>4. xs = [i \in 1 .. n |->
              [idx |-> i, task |-> kept[i][1], turn |-> kept[i][2],
               gen |-> dir[kept[i][1]].gen, logprobs |-> StepOf(dir, kept[i]).logprobs]]
  BY DEF IndexEntries
<1>5. ys = [i \in 1 .. n |->
              [idx |-> i, task |-> kept[i][1], turn |-> kept[i][2],
               gen |-> dir[kept[i][1]].gen, prompt |-> StepOf(dir, kept[i]).prompt,
               response |-> StepOf(dir, kept[i]).response]]
  BY DEF RolloutEntries
<1>6. /\ Len(xs) = n /\ DOMAIN xs = 1 .. n /\ Len(ys) = n /\ DOMAIN ys = 1 .. n
  <2> HIDE DEF xs, ys, n
  <2> QED
    BY <1>3, <1>4, <1>5
<1>7. ASSUME NEW i \in 1 .. n
      PROVE  /\ EntryFits(taken, i, xs[i], ys[i])
             /\ xs[i].task = kept[i][1] /\ xs[i].turn = kept[i][2]
             /\ xs[i].gen = dir[xs[i].task].gen
  <2> DEFINE t == kept[i][1]
             k == kept[i][2]
             g == dir[t].gen
             step == StepOf(dir, kept[i])
  <2>1. /\ t \in Tasks /\ dir[t] # None /\ k \in DOMAIN AssistantSteps(dir[t].steps)
        /\ Kept(dir, kept[i])
    BY <1>3 DEF TurnsOfDir
  <2>2. TrajectoryOf(taken, t, dir[t])
    BY <2>1 DEF DirectoryOf
  <2>3. /\ step = dir[t].steps[AssistantSteps(dir[t].steps)[k]]
        /\ step.prompt # <<>> /\ step.response # <<>>
    BY <2>1 DEF StepOf, Kept
  <2>4. /\ xs[i] = [idx |-> i, task |-> t, turn |-> k, gen |-> g, logprobs |-> step.logprobs]
        /\ ys[i] = [idx |-> i, task |-> t, turn |-> k, gen |-> g, prompt |-> step.prompt,
                    response |-> step.response]
    BY <1>4, <1>5
  <2> HIDE DEF xs, ys, step, t, k, kept
  <2>5. HasTurn(taken, g, t, k, step)
    BY <2>1, <2>2, <2>3, TurnHas
  <2> HIDE DEF g
  <2>6. /\ Turn(taken, g, t, k) /\ Answered(ShapeOf(taken, g, t, k))
        /\ step.logprobs = LogprobsOf(taken, g, t, k)
        /\ step.prompt = PromptOf(taken, g, t, k)
        /\ step.response = ResponseOf(taken, g, t, k)
    BY <2>3, <2>5, Zenon DEF HasTurn
  <2>7. /\ xs[i].idx = i /\ xs[i].task = t /\ xs[i].turn = k /\ xs[i].gen = g
        /\ xs[i].logprobs = step.logprobs
        /\ ys[i].idx = i /\ ys[i].task = t /\ ys[i].turn = k /\ ys[i].gen = g
        /\ ys[i].prompt = step.prompt /\ ys[i].response = step.response
    BY <2>4
  <2>8. EntryFits(taken, i, xs[i], ys[i])
    BY <2>6, <2>7 DEF EntryFits
  <2> QED
    BY <2>7, <2>8 DEF t, k, g
<1> QED
  BY <1>2, <1>6, <1>7 DEF EntriesFit

----------------------------------------------------------------------------
\* The two sides of a report, for a turn that was captured and answered

AnsweredTurn(taken, g, t, k) ==
  Turn(taken, g, t, k) /\ Answered(ShapeOf(taken, g, t, k))

\* What the trainer is given has tokens.
LEMMA TokensGiven ==
  ASSUME NEW taken, DOMAIN taken \in SUBSET Nat, NEW g, NEW t, NEW k,
         AnsweredTurn(taken, g, t, k)
  PROVE  LET j == StepNumber(taken, g, t, k)
             r == ShapeOf(taken, g, t, k).r
         IN  /\ t \in Nat /\ g \in Nat /\ j \in Nat \ {0} /\ r \in Nat \ {0}
             /\ PromptOf(taken, g, t, k) \in {Full(t, g, j), Prior(t, g, j)}
             /\ PromptOf(taken, g, t, k) \in Seq(Tokens) /\ PromptOf(taken, g, t, k) # <<>>
             /\ ResponseOf(taken, g, t, k) = Response(t, g, j, r)
             /\ ResponseOf(taken, g, t, k) \in Seq(Tokens)
             /\ ResponseOf(taken, g, t, k) # <<>>
             /\ Len(ResponseOf(taken, g, t, k)) = r
             /\ Full(t, g, j) \in Seq(Tokens) /\ Full(t, g, j) # <<>>
             /\ Len(Full(t, g, j)) = j + 1
<1> DEFINE j == StepNumber(taken, g, t, k)
           r == ShapeOf(taken, g, t, k).r
<1>1. t \in Nat /\ g \in Nat /\ j \in Nat \ {0} /\ r \in Nat
  BY TurnsNumbered DEF AnsweredTurn
<1>2. r # 0
  BY DEF AnsweredTurn, Answered
<1>3. PromptOf(taken, g, t, k) \in {Full(t, g, j), Prior(t, g, j)}
  BY DEF PromptOf
<1>4. ResponseOf(taken, g, t, k) = Response(t, g, j, r)
  BY DEF ResponseOf
<1> HIDE DEF j, r
<1>5. PICK q \in Nat \ {0} : q = r
  BY <1>1, <1>2
<1>6. PICK i \in Nat \ {0} : i = j
  BY <1>1
<1>7. Full(t, g, i) \in Seq(Tokens) \ {<<>>}
  BY <1>1, <1>5, Shaped
<1>8. Prior(t, g, i) \in Seq(Tokens) \ {<<>>}
  BY <1>1, <1>5, Shaped
<1>9. Response(t, g, i, q) \in Seq(Tokens) \ {<<>>}
  BY <1>1, <1>5, Shaped
<1>10. Len(Response(t, g, i, q)) = q
  BY <1>1, <1>5, Shaped
<1>11. Len(Full(t, g, i)) = i + 1
  BY <1>1, <1>5, Shaped
<1>12. PromptOf(taken, g, t, k) \in Seq(Tokens) /\ PromptOf(taken, g, t, k) # <<>>
  BY <1>3, <1>6, <1>7, <1>8
<1>13. ResponseOf(taken, g, t, k) \in Seq(Tokens) /\ ResponseOf(taken, g, t, k) # <<>>
       /\ Len(ResponseOf(taken, g, t, k)) = r
  BY <1>4, <1>5, <1>6, <1>9, <1>10
<1> QED
  BY <1>1, <1>3, <1>4, <1>5, <1>6, <1>7, <1>11, <1>12, <1>13 DEF j, r

\* The log-probabilities of the rollout and those of the trainer.
ComparesScores(mine, trainers) ==
  /\ mine # <<>> /\ Len(mine) = Len(trainers)
  /\ \A i \in 1 .. Len(mine) : /\ mine[i].token = trainers[i].token
                               /\ AlikeContexts(mine[i].context, trainers[i].context)

LEMMA ScoresCompare ==
  ASSUME NEW taken, DOMAIN taken \in SUBSET Nat, NEW g, NEW t, NEW k,
         AnsweredTurn(taken, g, t, k)
  PROVE  /\ ComparesScores(LogprobsOf(taken, g, t, k),
                           ScoresOf(PromptOf(taken, g, t, k), ResponseOf(taken, g, t, k)))
         /\ \A x \in ToSet(LogprobsOf(taken, g, t, k)) : ScoreType(x)
         /\ [n \in 1 .. Len(LogprobsOf(taken, g, t, k)) |-> LogprobsOf(taken, g, t, k)[n].token]
              = ResponseOf(taken, g, t, k)
<1> DEFINE j == StepNumber(taken, g, t, k)
           r == ShapeOf(taken, g, t, k).r
           prompt == PromptOf(taken, g, t, k)
           response == ResponseOf(taken, g, t, k)
           mine == LogprobsOf(taken, g, t, k)
           trainers == ScoresOf(prompt, response)
           full == Full(t, g, j)
           before(i) == SubSeq(response, 1, i - 1)
<1>1. /\ t \in Nat /\ g \in Nat /\ j \in Nat \ {0} /\ r \in Nat \ {0}
      /\ prompt \in {full, Prior(t, g, j)}
      /\ prompt \in Seq(Tokens) /\ response = Response(t, g, j, r)
      /\ response \in Seq(Tokens) /\ Len(response) = r
      /\ full \in Seq(Tokens) /\ full # <<>>
  BY TokensGiven
<1>2. mine = [i \in 1 .. r |-> [token |-> response[i], context |-> full \o before(i)]]
  BY <1>1 DEF LogprobsOf, Logprobs
<1> HIDE DEF j, r, prompt, response, mine, full
<1>3. /\ Len(trainers) = r
      /\ \A i \in 1 .. r : trainers[i] = [token |-> response[i], context |-> prompt \o before(i)]
  <2>1. ScoresAre(trainers, prompt, response)
    BY <1>1, ScoresFit
  <2> HIDE DEF trainers
  <2> QED
    BY <1>1, <2>1 DEF ScoresAre
<1> HIDE DEF trainers
<1>4. Len(mine) = r /\ mine # <<>> /\ DOMAIN mine = 1 .. r
  <2> DEFINE of(i) == [token |-> response[i], context |-> full \o before(i)]
  <2>1. mine = [i \in 1 .. r |-> of(i)]
    BY <1>2
  <2> HIDE DEF of
  <2>2. Len(mine) = r /\ DOMAIN mine = 1 .. r
    BY <1>1, <2>1
  <2> QED
    BY <1>1, <2>2
<1>5. \A i \in 1 .. r : mine[i].token = response[i] /\ mine[i].context = full \o before(i)
  BY <1>2
<1>6. \A i \in 1 .. r : before(i) \in Seq(Tokens)
  BY <1>1
<1>7. ASSUME NEW i \in 1 .. r
      PROVE  /\ mine[i].token = trainers[i].token
             /\ AlikeContexts(mine[i].context, trainers[i].context)
  <2>1. AlikeContexts(full \o before(i), prompt \o before(i))
    <3> HIDE DEF before
    <3> QED
      BY <1>1, <1>6, Alike DEF full
  <2>2. trainers[i].token = response[i] /\ trainers[i].context = prompt \o before(i)
    <3> HIDE DEF before
    <3> QED
      BY <1>3
  <2> HIDE DEF before
  <2> QED
    BY <1>5, <2>1, <2>2
<1>8. ASSUME NEW i \in 1 .. r PROVE ScoreType(mine[i])
  <2>1. response[i] \in Tokens
    BY <1>1
  <2>2. full \o before(i) \in Seq(Tokens) /\ full \o before(i) # <<>>
    <3> HIDE DEF before
    <3> QED
      BY <1>1, <1>6
  <2> QED
    BY <1>5, <2>1, <2>2 DEF ScoreType
<1>9. ComparesScores(mine, trainers)
  BY <1>3, <1>4, <1>7 DEF ComparesScores
<1>10. \A x \in ToSet(mine) : ScoreType(x)
  BY <1>4, <1>8 DEF ToSet
<1>11. [n \in 1 .. Len(mine) |-> mine[n].token] = response
  BY <1>1, <1>4, <1>5
<1> QED
  BY <1>9, <1>10, <1>11 DEF trainers, mine, prompt, response

\* The routing of the rollout and that of the trainer.
ComparesRoutes(mine, trainers) ==
  \A i \in 1 .. Len(mine) : \A l \in 1 .. Layers :
    /\ mine[i][l][2] = l /\ trainers[i][l][2] = l
    /\ AlikeContexts(mine[i][l][1], trainers[i][l][1])

LEMMA RoutesCompare ==
  ASSUME NEW taken, DOMAIN taken \in SUBSET Nat, NEW g, NEW t, NEW k,
         AnsweredTurn(taken, g, t, k)
  PROVE  LET prompt == PromptOf(taken, g, t, k)
             response == ResponseOf(taken, g, t, k)
         IN  /\ Len(RoutingOf(taken, g, t, k)) = Len(response)
             /\ ComparesRoutes(RoutingOf(taken, g, t, k),
                  RoutesAt(response_prediction_positions(Len(prompt), Len(response)),
                           prompt, response, AllLayers))
<1> DEFINE j == StepNumber(taken, g, t, k)
           r == ShapeOf(taken, g, t, k).r
           prompt == PromptOf(taken, g, t, k)
           response == ResponseOf(taken, g, t, k)
           full == Full(t, g, j)
           mine == RoutesAt(response_prediction_positions(Len(full), Len(response)),
                            full, response, AllLayers)
           trainers == RoutesAt(response_prediction_positions(Len(prompt), Len(response)),
                                prompt, response, AllLayers)
           before(i) == SubSeq(response, 1, i - 1)
<1>1. /\ t \in Nat /\ g \in Nat /\ j \in Nat \ {0} /\ r \in Nat \ {0}
      /\ prompt \in {full, Prior(t, g, j)}
      /\ prompt \in Seq(Tokens) /\ response = Response(t, g, j, r)
      /\ response \in Seq(Tokens) /\ Len(response) = r
      /\ full \in Seq(Tokens) /\ Len(full) = j + 1
  BY TokensGiven
<1>2. RoutingOf(taken, g, t, k) = mine
  <2>1. RoutingOf(taken, g, t, k) = Routing(t, g, j, r)
    BY DEF RoutingOf
  <2> HIDE DEF j, r, response
  <2> QED
    BY <1>1, <2>1 DEF Routing
<1> HIDE DEF j, r, prompt, response, full
<1>3. /\ AllLayers \in Seq(1 .. Layers) /\ Len(AllLayers) = Layers
      /\ \A l \in 1 .. Layers : AllLayers[l] = l
  BY EveryLayer
<1>4. /\ Len(mine) = r
      /\ \A i \in 1 .. r : \A l \in 1 .. Layers : mine[i][l] = <<full \o before(i), l>>
  <2>1. RoutesAre(mine, full, response, AllLayers)
    BY <1>1, <1>3, RoutesFit
  <2> HIDE DEF mine
  <2>2. /\ Len(mine) = Len(response)
        /\ \A i \in 1 .. Len(response) : \A l \in 1 .. Len(AllLayers) :
             mine[i][l] = <<full \o before(i), AllLayers[l]>>
    BY <2>1, Zenon DEF RoutesAre
  <2> HIDE DEF before
  <2>3. ASSUME NEW i \in 1 .. r, NEW l \in 1 .. Layers
        PROVE  mine[i][l] = <<full \o before(i), l>>
    <3>1. i \in 1 .. Len(response) /\ l \in 1 .. Len(AllLayers) /\ AllLayers[l] = l
      BY <1>1, <1>3
    <3>2. mine[i][l] = <<full \o before(i), AllLayers[l]>>
      BY <2>2, <3>1, Zenon
    <3> QED
      BY <3>1, <3>2
  <2> QED
    BY <1>1, <2>2, <2>3
<1>5. \A i \in 1 .. r : \A l \in 1 .. Layers : trainers[i][l] = <<prompt \o before(i), l>>
  <2>1. RoutesAre(trainers, prompt, response, AllLayers)
    BY <1>1, <1>3, RoutesFit
  <2> HIDE DEF trainers
  <2>2. /\ Len(trainers) = Len(response)
        /\ \A i \in 1 .. Len(response) : \A l \in 1 .. Len(AllLayers) :
             trainers[i][l] = <<prompt \o before(i), AllLayers[l]>>
    BY <2>1, Zenon DEF RoutesAre
  <2> HIDE DEF before
  <2>3. ASSUME NEW i \in 1 .. r, NEW l \in 1 .. Layers
        PROVE  trainers[i][l] = <<prompt \o before(i), l>>
    <3>1. i \in 1 .. Len(response) /\ l \in 1 .. Len(AllLayers) /\ AllLayers[l] = l
      BY <1>1, <1>3
    <3>2. trainers[i][l] = <<prompt \o before(i), AllLayers[l]>>
      BY <2>2, <3>1, Zenon
    <3> QED
      BY <3>1, <3>2
  <2> QED
    BY <1>1, <2>2, <2>3
<1> HIDE DEF mine, trainers
<1>6. \A i \in 1 .. r : before(i) \in Seq(Tokens)
  BY <1>1
<1>7. ASSUME NEW i \in 1 .. r, NEW l \in 1 .. Layers
      PROVE  /\ mine[i][l][2] = l /\ trainers[i][l][2] = l
             /\ AlikeContexts(mine[i][l][1], trainers[i][l][1])
  <2>1. AlikeContexts(full \o before(i), prompt \o before(i))
    <3> HIDE DEF before
    <3> QED
      BY <1>1, <1>6, Alike DEF full
  <2>2. mine[i][l] = <<full \o before(i), l>> /\ trainers[i][l] = <<prompt \o before(i), l>>
    BY <1>4, <1>5
  <2> HIDE DEF before
  <2>3. /\ mine[i][l][1] = full \o before(i) /\ mine[i][l][2] = l
        /\ trainers[i][l][1] = prompt \o before(i) /\ trainers[i][l][2] = l
    BY <2>2
  <2> QED
    BY <2>1, <2>3
<1>8. ComparesRoutes(mine, trainers)
  BY <1>4, <1>7 DEF ComparesRoutes
<1>9. Len(mine) = Len(response)
  BY <1>1, <1>4
<1> QED
  BY <1>2, <1>8, <1>9 DEF trainers, prompt, response

----------------------------------------------------------------------------
\* Files.  made is the list of builds: the directory each of them read.  Every
\* file is what a stage computes of the directory of one build.

History(taken, made) ==
  /\ DOMAIN taken \in SUBSET Nat
  /\ DOMAIN made \in SUBSET Nat
  /\ \A b \in DOMAIN made : DirectoryOf(taken, made[b])

RolloutsFile(made, file) ==
  \E b \in DOMAIN made : file = [build |-> b, entries |-> RolloutEntries(made[b])]

IndexFile(made, p, file) ==
  \E b \in DOMAIN made :
    file = [p |-> p, build |-> b, entries |-> IndexEntries(made[b]),
            skipped |-> SkippedTurns(made[b]), gens |-> [t \in Tasks |-> GenOf(made[b][t])]]

ScoresFile(made, file) ==
  \E b \in DOMAIN made :
    file = [build |-> b, entries |-> ScorePayloads(RolloutEntries(made[b]))]

RoutesFile(made, script, file) ==
  \E b \in DOMAIN made : \E heard \in {1 .. Layers, 2 .. Layers} :
    file = [build |-> b, entries |-> RoutePayloads(script, RolloutEntries(made[b]), heard)]

\* What every report has to be.
GoodReport(d) ==
  /\ d.rollout # <<>> /\ Len(d.rollout) = Len(d.trainer)
  /\ d.kind = "dense" /\ d.build = d.scored => ComparesScores(d.rollout, d.trainer)
  /\ d.kind = "moe" /\ d.build = d.scored /\ d.indexed = d.gen =>
       ComparesRoutes(d.rollout, d.trainer)

\* An entry of an index, with the entry of the rollouts of its build.
LEMMA IndexHas ==
  ASSUME NEW taken, NEW made, History(taken, made), NEW b \in DOMAIN made,
         NEW e \in ToSet(IndexEntries(made[b]))
  PROVE  LET y == RolloutEntries(made[b])
         IN  /\ e.idx \in DOMAIN y /\ e.idx \in Nat
             /\ EntryFits(taken, e.idx, e, y[e.idx])
             /\ \A i \in DOMAIN y : y[i].idx = i
<1> DEFINE x == IndexEntries(made[b])
           y == RolloutEntries(made[b])
           n == Len(KeptTurns(made[b]))
<1>1. EntriesFit(taken, made[b]) /\ KeepsSome(made[b])
  BY EntriesMade DEF History
<1>2. n \in Nat
  BY <1>1 DEF KeepsSome
<1>3. /\ DOMAIN x = 1 .. n /\ DOMAIN y = 1 .. n
      /\ \A i \in 1 .. n : EntryFits(taken, i, x[i], y[i])
  BY <1>1, Zenon DEF EntriesFit
<1> HIDE DEF x, y, n
<1>4. PICK i \in 1 .. n : e = x[i]
  BY <1>3 DEF ToSet, x
<1>5. \A m \in 1 .. n : x[m].idx = m /\ y[m].idx = m
  BY <1>3 DEF EntryFits
<1>6. e.idx = i
  BY <1>4, <1>5
<1>7. /\ e.idx \in DOMAIN y /\ e.idx \in Nat
      /\ EntryFits(taken, e.idx, e, y[e.idx])
      /\ \A m \in DOMAIN y : y[m].idx = m
  BY <1>2, <1>3, <1>4, <1>5, <1>6
<1> QED
  BY <1>7 DEF y

\* The payload for an entry is one with its number.
LEMMA PayloadFound ==
  ASSUME NEW file, NEW e, Payloads(file, e) # {}
  PROVE  /\ PayloadFor(file, e) \in ToSet(file.entries)
         /\ PayloadFor(file, e).idx = e.idx
<1>1. PayloadFor(file, e) \in Payloads(file, e)
  BY DEF PayloadFor
<1> QED
  BY <1>1 DEF Payloads

LEMMA DenseReportIsGood ==
  ASSUME NEW taken, NEW made, History(taken, made), NEW p, NEW script, NEW file,
         IndexFile(made, p, index[p]), ScoresFile(made, file),
         NEW e \in ToSet(index[p].entries), DensePairs(p, file, e)
  PROVE  GoodReport(DenseReport(p, script, file, e))
<1> DEFINE d == DenseReport(p, script, file, e)
           payload == PayloadFor(file, e)
<1>1. /\ d.kind = "dense" /\ d.build = index[p].build /\ d.scored = file.build
      /\ d.rollout = e.logprobs /\ d.trainer = payload.scores
  BY DEF DenseReport
<1>2. /\ e.logprobs # <<>> /\ Len(e.logprobs) = Len(payload.scores)
      /\ payload \in ToSet(file.entries) /\ payload.idx = e.idx
  BY PayloadFound DEF DensePairs, Comparable
<1>3. PICK b \in DOMAIN made : /\ index[p].build = b
                              /\ index[p].entries = IndexEntries(made[b])
  BY DEF IndexFile
<1>4. PICK c \in DOMAIN made :
        file.build = c /\ file.entries = ScorePayloads(RolloutEntries(made[c]))
  BY DEF ScoresFile
<1> HIDE DEF d, payload
<1>5. ASSUME b = c PROVE ComparesScores(e.logprobs, payload.scores)
  <2> DEFINE y == RolloutEntries(made[b])
             i == e.idx
  <2>1. /\ i \in DOMAIN y /\ i \in Nat /\ EntryFits(taken, i, e, y[i])
        /\ \A m \in DOMAIN y : y[m].idx = m
    BY <1>3, IndexHas
  <2>2. DOMAIN y = 1 .. Len(y)
    <3>1. EntriesFit(taken, made[b])
      BY EntriesMade DEF History
    <3> QED
      BY <3>1 DEF EntriesFit
  <2> HIDE DEF y, i
  <2>3. file.entries = [m \in 1 .. Len(y) |->
                          [idx |-> y[m].idx, scores |-> ScoresOf(y[m].prompt, y[m].response)]]
    BY <1>4, <1>5 DEF ScorePayloads, y
  <2>4. PICK m \in 1 .. Len(y) :
          payload = [idx |-> y[m].idx, scores |-> ScoresOf(y[m].prompt, y[m].response)]
    BY <1>2, <2>3 DEF ToSet
  <2>5. payload.scores = ScoresOf(y[i].prompt, y[i].response)
    <3>1. y[m].idx = i
      BY <1>2, <2>4 DEF i
    <3>2. m = i
      BY <2>1, <2>2, <3>1
    <3> QED
      BY <2>4, <3>2
  <2>6. /\ AnsweredTurn(taken, e.gen, e.task, e.turn)
        /\ e.logprobs = LogprobsOf(taken, e.gen, e.task, e.turn)
        /\ y[i].prompt = PromptOf(taken, e.gen, e.task, e.turn)
        /\ y[i].response = ResponseOf(taken, e.gen, e.task, e.turn)
    BY <2>1 DEF EntryFits, AnsweredTurn
  <2> QED
    BY <2>5, <2>6, ScoresCompare DEF History
<1>6. d.build = d.scored => ComparesScores(d.rollout, d.trainer)
  BY <1>1, <1>3, <1>4, <1>5
<1>7. GoodReport(d)
  BY <1>1, <1>2, <1>6 DEF GoodReport
<1> QED
  BY <1>7 DEF d

\* The trace a trainer writes.
Traces(experts, script, heard, prompt, response) ==
  experts = IF script = "fsdp_moe"
    THEN RoutesAt(routed_position_indices(Len(prompt), Len(response)), prompt,
                  response, AllLayers)
    ELSE RoutesAt(response_prediction_positions(Len(prompt), Len(response)), prompt,
                  response, SelectIn(AllLayers, heard))

\* Cut to the response and of all layers it is that of the response's positions.
LEMMA WindowFits ==
  ASSUME NEW prompt \in Seq(Tokens) \ {<<>>}, NEW response \in Seq(Tokens) \ {<<>>},
         NEW script, NEW heard, NEW experts,
         Traces(experts, script, heard, prompt, response),
         ValidTrace(Window(experts, Len(response)), Layers)
  PROVE  Window(experts, Len(response))
           = RoutesAt(response_prediction_positions(Len(prompt), Len(response)),
                      prompt, response, AllLayers)
<1>1. CASE script = "fsdp_moe"
  BY <1>1, LastRoutes DEF Traces
<1>2. CASE script # "fsdp_moe"
  <2> DEFINE n == Len(response)
             layers == SelectIn(AllLayers, heard)
  <2>1. n \in Nat /\ n # 0
    OBVIOUS
  <2>2. layers \in Seq(1 .. Layers) /\ (Len(layers) = Layers => layers = AllLayers)
    BY EveryLayer
  <2>3. RoutesAre(experts, prompt, response, layers)
    <3>1. experts = RoutesAt(response_prediction_positions(Len(prompt), Len(response)), prompt,
                             response, layers)
      BY <1>2 DEF Traces
    <3> HIDE DEF layers
    <3> QED
      BY <2>2, <3>1, RoutesFit
  <2> HIDE DEF layers
  <2>4. Len(experts) = n /\ DOMAIN experts = 1 .. n /\ Len(experts[1]) = Len(layers)
    BY <2>1, <2>3 DEF RoutesAre
  <2>5. Window(experts, n) = experts
    BY <2>1, <2>4 DEF Window
  <2>6. Len(experts[1]) = Layers
    BY <2>1, <2>4, <2>5 DEF ValidTrace, ToSet
  <2>7. experts = RoutesAt(response_prediction_positions(Len(prompt), Len(response)), prompt,
                           response, layers)
    BY <1>2 DEF Traces, layers
  <2>8. layers = AllLayers
    BY <2>2, <2>4, <2>6
  <2> QED
    BY <2>5, <2>7, <2>8
<1> QED
  BY <1>1, <1>2

LEMMA MoeReportIsGood ==
  ASSUME NEW taken, NEW made, History(taken, made), NEW p, NEW script, NEW file,
         DirectoryOf(taken, trajs[p]),
         IndexFile(made, p, index[p]), RoutesFile(made, script, file),
         NEW e \in ToSet(index[p].entries), MoePairs(p, file, e)
  PROVE  GoodReport(MoeReport(p, script, file, e))
<1> DEFINE d == MoeReport(p, script, file, e)
           payload == PayloadFor(file, e)
           mine == RolloutRoute(p, e)
           window == Window(payload.experts, Len(mine))
           g == e.gen
           t == e.task
           k == e.turn
<1>1. /\ d.kind = "moe" /\ d.build = index[p].build /\ d.scored = file.build
      /\ d.indexed = g /\ d.gen = trajs[p][t].gen
      /\ d.rollout = mine /\ d.trainer = window
  BY DEF MoeReport
<1>2. /\ mine # <<>> /\ Len(mine) = Len(window)
      /\ payload \in ToSet(file.entries) /\ payload.idx = e.idx
      /\ trajs[p][t] # None /\ ValidTrace(window, payload.layers)
  BY PayloadFound DEF MoePairs, Comparable
<1>3. PICK b \in DOMAIN made : /\ index[p].build = b
                              /\ index[p].entries = IndexEntries(made[b])
  BY DEF IndexFile
<1>4. PICK c \in DOMAIN made : \E heard \in {1 .. Layers, 2 .. Layers} :
        /\ file.build = c
        /\ file.entries = RoutePayloads(script, RolloutEntries(made[c]), heard)
  BY DEF RoutesFile
<1>5. PICK heard \in {1 .. Layers, 2 .. Layers} :
        /\ file.build = c
        /\ file.entries = RoutePayloads(script, RolloutEntries(made[c]), heard)
  BY <1>4
<1> HIDE DEF d, payload, mine
<1>6. ASSUME b = c, g = trajs[p][t].gen PROVE ComparesRoutes(mine, window)
  <2> DEFINE y == RolloutEntries(made[b])
             i == e.idx
             prompt == y[i].prompt
             response == y[i].response
  <2>1. /\ i \in DOMAIN y /\ i \in Nat /\ EntryFits(taken, i, e, y[i])
        /\ \A m \in DOMAIN y : y[m].idx = m
    BY <1>3, IndexHas
  <2>2. DOMAIN y = 1 .. Len(y)
    <3>1. EntriesFit(taken, made[b])
      BY EntriesMade DEF History
    <3> QED
      BY <3>1 DEF EntriesFit
  <2>3. /\ AnsweredTurn(taken, g, t, k)
        /\ prompt = PromptOf(taken, g, t, k)
        /\ response = ResponseOf(taken, g, t, k)
    BY <2>1 DEF EntryFits, AnsweredTurn
  <2>4. /\ prompt \in Seq(Tokens) \ {<<>>} /\ response \in Seq(Tokens) \ {<<>>}
    BY <2>3, TokensGiven DEF History
  <2>5. /\ Len(RoutingOf(taken, g, t, k)) = Len(response)
        /\ ComparesRoutes(RoutingOf(taken, g, t, k),
             RoutesAt(response_prediction_positions(Len(prompt), Len(response)),
                      prompt, response, AllLayers))
    BY <2>3, RoutesCompare DEF History
  <2>6. mine = RoutingOf(taken, g, t, k)
    <3> DEFINE traj == trajs[p][t]
               turns == AssistantSteps(traj.steps)
               step == traj.steps[turns[k]]
    <3>1. t \in Tasks /\ Turn(taken, g, t, k) /\ Answered(ShapeOf(taken, g, t, k))
      BY <2>3 DEF AnsweredTurn, Turn
    <3>2. TrajectoryOf(taken, t, traj)
      BY <1>2, <3>1 DEF DirectoryOf
    <3>3. k \in DOMAIN turns
      <4>1. \A q : Turn(taken, traj.gen, t, q) => q \in DOMAIN turns
        BY <3>1, <3>2, TurnFits DEF History
      <4> QED
        BY <1>6, <3>1, <4>1
    <3>4. HasTurn(taken, g, t, k, step)
      BY <1>6, <3>1, <3>2, <3>3, TurnHas DEF History
    <3>5. mine = step.routed
      BY DEF mine, RolloutRoute, StepOf
    <3> HIDE DEF step, g, t, k
    <3> QED
      BY <1>2, <3>1, <3>4, <3>5, Zenon DEF HasTurn
  <2> HIDE DEF y, i
  <2>7. PICK m \in 1 .. Len(y) : payload = RoutePayloads(script, y, heard)[m]
    <3>1. file.entries = RoutePayloads(script, y, heard)
      BY <1>5, <1>6 DEF y
    <3>2. DOMAIN RoutePayloads(script, y, heard) = 1 .. Len(y)
      BY DEF RoutePayloads
    <3> QED
      BY <1>2, <3>1, <3>2 DEF ToSet
  <2>8. RoutePayloads(script, y, heard)[m] =
          [idx |-> y[m].idx, layers |-> Layers,
           experts |-> IF script = "fsdp_moe"
             THEN RoutesAt(routed_position_indices(Len(y[m].prompt), Len(y[m].response)),
                           y[m].prompt, y[m].response, AllLayers)
             ELSE RoutesAt(response_prediction_positions(Len(y[m].prompt), Len(y[m].response)),
                           y[m].prompt, y[m].response, SelectIn(AllLayers, heard))]
    BY DEF RoutePayloads
  <2>9. m = i
    <3>1. payload.idx = y[m].idx
      BY <2>7, <2>8
    <3> QED
      BY <1>2, <2>1, <2>2, <3>1 DEF i
  <2>10. payload.layers = Layers /\ Traces(payload.experts, script, heard, prompt, response)
    BY <2>7, <2>8, <2>9 DEF Traces
  <2> HIDE DEF prompt, response
  <2>11. Len(mine) = Len(response)
    BY <2>5, <2>6
  <2>12. window = RoutesAt(response_prediction_positions(Len(prompt), Len(response)),
                           prompt, response, AllLayers)
    <3>1. /\ window = Window(payload.experts, Len(response))
          /\ ValidTrace(Window(payload.experts, Len(response)), Layers)
      BY <1>2, <2>10, <2>11
    <3>2. PICK x : x = payload.experts
      OBVIOUS
    <3>3. Window(x, Len(response))
            = RoutesAt(response_prediction_positions(Len(prompt), Len(response)),
                       prompt, response, AllLayers)
      BY <2>4, <2>10, <3>1, <3>2, WindowFits
    <3> QED
      BY <3>1, <3>2, <3>3
  <2> QED
    BY <2>5, <2>6, <2>12
<1> HIDE DEF window
<1>7. d.build = d.scored /\ d.indexed = d.gen => ComparesRoutes(d.rollout, d.trainer)
  BY <1>1, <1>3, <1>5, <1>6
<1>8. GoodReport(d)
  BY <1>1, <1>2, <1>7 DEF GoodReport
<1> QED
  BY <1>8 DEF d

----------------------------------------------------------------------------
\* Histories grow at their end, and what was true of an entry stays true.

Grows(s, longer) ==
  /\ DOMAIN s \subseteq DOMAIN longer
  /\ \A n \in DOMAIN s : longer[n] = s[n]

LEMMA Appended ==
  ASSUME NEW S, NEW s \in Seq(S), NEW x
  PROVE  LET longer == Append(s, x)
         IN  /\ longer \in Seq(S \cup {x})
             /\ Len(longer) = Len(s) + 1
             /\ DOMAIN longer = 1 .. Len(s) + 1
             /\ longer[Len(s) + 1] = x
             /\ Grows(s, longer)
<1>1. Len(s) \in Nat /\ DOMAIN s = 1 .. Len(s) /\ s \in Seq(S \cup {x})
  OBVIOUS
<1>2. /\ Append(s, x) \in Seq(S \cup {x}) /\ Len(Append(s, x)) = Len(s) + 1
      /\ DOMAIN Append(s, x) = 1 .. Len(s) + 1
  BY <1>1
<1>3. Append(s, x)[Len(s) + 1] = x
  BY <1>1
<1>4. \A n \in DOMAIN s : Append(s, x)[n] = s[n]
  BY <1>1
<1>5. DOMAIN s \subseteq DOMAIN Append(s, x)
  BY <1>1, <1>2
<1> QED
  BY <1>2, <1>3, <1>4, <1>5 DEF Grows

LEMMA DirectoryStays ==
  ASSUME NEW taken, NEW longer, Grows(taken, longer), NEW dir, DirectoryOf(taken, dir)
  PROVE  DirectoryOf(longer, dir)
<1>1. SUFFICES ASSUME NEW t \in Tasks, dir[t] # None PROVE TrajectoryOf(longer, t, dir[t])
  BY DEF DirectoryOf
<1>2. TrajectoryOf(taken, t, dir[t])
  BY <1>1 DEF DirectoryOf
<1>3. dir[t].gen \in DOMAIN longer /\ longer[dir[t].gen] = taken[dir[t].gen]
  BY <1>2 DEF TrajectoryOf, Grows
<1> QED
  BY <1>2, <1>3, Zenon DEF TrajectoryOf

LEMMA FilesStay ==
  ASSUME NEW made, NEW longer, Grows(made, longer), NEW p, NEW script, NEW file
  PROVE  /\ RolloutsFile(made, file) => RolloutsFile(longer, file)
         /\ IndexFile(made, p, file) => IndexFile(longer, p, file)
         /\ ScoresFile(made, file) => ScoresFile(longer, file)
         /\ RoutesFile(made, script, file) => RoutesFile(longer, script, file)
<1>1. RolloutsFile(made, file) => RolloutsFile(longer, file)
  BY Zenon DEF Grows, RolloutsFile
<1>2. ASSUME IndexFile(made, p, file) PROVE IndexFile(longer, p, file)
  <2>1. PICK b \in DOMAIN made :
          file = [p |-> p, build |-> b, entries |-> IndexEntries(made[b]),
                  skipped |-> SkippedTurns(made[b]),
                  gens |-> [t \in Tasks |-> GenOf(made[b][t])]]
    BY <1>2 DEF IndexFile
  <2>2. b \in DOMAIN longer /\ longer[b] = made[b]
    BY DEF Grows
  <2> QED
    BY <2>1, <2>2 DEF IndexFile
<1>3. ScoresFile(made, file) => ScoresFile(longer, file)
  BY Zenon DEF Grows, ScoresFile
<1>4. RoutesFile(made, script, file) => RoutesFile(longer, script, file)
  BY Zenon DEF Grows, RoutesFile
<1> QED
  BY <1>1, <1>2, <1>3, <1>4

----------------------------------------------------------------------------
\* A capture leaves a trajectory of its own number, and filling one in keeps it so.

LEMMA CaptureLeaves ==
  ASSUME NEW taken, NEW g \in DOMAIN taken, NEW t \in Tasks, taken[g][t] \in Seq(Shapes)
  PROVE  TrajectoryOf(taken, t,
           [gen |-> g, steps |-> [j \in 1 .. Len(taken[g][t]) |->
                                    CapturedStep(t, g, j, taken[g][t][j])]])
<1> DEFINE shapes == taken[g][t]
           steps == [j \in 1 .. Len(shapes) |-> CapturedStep(t, g, j, shapes[j])]
           traj == [gen |-> g, steps |-> steps]
<1>1. Len(shapes) \in Nat
  OBVIOUS
<1>2. traj.gen = g /\ traj.steps = steps
  OBVIOUS
<1>3. IsSteps(steps) /\ Len(steps) = Len(shapes)
  <2> DEFINE of(j) == CapturedStep(t, g, j, shapes[j])
  <2> HIDE DEF of, shapes
  <2> QED
    BY <1>1 DEF IsSteps, of
<1>4. \A j \in DOMAIN steps : steps[j] = CapturedStep(t, g, j, shapes[j])
  OBVIOUS
<1> HIDE DEF steps
<1>5. \A j \in DOMAIN steps : CapturedOrFilled(t, g, j, shapes[j], steps[j])
  BY <1>4 DEF CapturedOrFilled
<1> QED
  BY <1>2, <1>3, <1>5 DEF TrajectoryOf, steps

LEMMA FillKeeps ==
  ASSUME NEW taken, DOMAIN taken \in SUBSET Nat, NEW t \in Tasks, NEW traj,
         TrajectoryOf(taken, t, traj)
  PROVE  TrajectoryOf(taken, t, [traj EXCEPT !.steps = FilledSteps(t, traj)])
<1> DEFINE g == traj.gen
           shapes == taken[g][t]
           steps == traj.steps
           turns == AssistantSteps(steps)
           filled == FilledSteps(t, traj)
           next == [traj EXCEPT !.steps = filled]
<1>1. /\ traj = [gen |-> g, steps |-> steps] /\ g \in DOMAIN taken
      /\ shapes \in Seq(Shapes) /\ IsSteps(steps) /\ Len(steps) = Len(shapes)
      /\ \A j \in DOMAIN steps : CapturedOrFilled(t, g, j, shapes[j], steps[j])
  BY DEF TrajectoryOf
<1>2. next.gen = g /\ next.steps = filled /\ next = [gen |-> g, steps |-> filled]
  BY <1>1
<1>3. /\ Len(filled) = Len(steps) /\ DOMAIN filled = DOMAIN steps
      /\ \A j \in DOMAIN steps : ~Fillable(steps[j]) => filled[j] = steps[j]
  BY <1>1 DEF FilledSteps, IsSteps
<1>4. ASSUME NEW j \in DOMAIN steps
      PROVE  CapturedOrFilled(t, g, j, shapes[j], filled[j])
  <2>1. CASE ~Fillable(steps[j])
    BY <1>1, <1>3, <2>1
  <2>2. CASE Fillable(steps[j])
    <3> DEFINE k == CHOOSE n \in 1 .. Len(turns) : turns[n] = j
               captured == CapturedStep(t, g, j, shapes[j])
    <3>1. filled[j] = [steps[j] EXCEPT !.prompt = PriorMessages(t, traj, k)]
      BY <1>1, <2>2 DEF FilledSteps, IsSteps
    <3>2. t \in Nat /\ g \in Nat /\ j \in Nat \ {0} /\ shapes[j] \in Shapes
      BY <1>1, ReportsAssumption DEF IsSteps, Tasks
    <3>3. CapturedOrFilled(t, g, j, shapes[j], steps[j])
      BY <1>1
    <3>4. StepHas(t, g, j, shapes[j], steps[j])
      <4> HIDE DEF g, shapes, steps
      <4> QED
        BY <3>2, <3>3, StepFits
    <3>5. steps[j].role = "assistant"
      BY <2>2, <3>4 DEF StepHas, Fillable, Answered
    <3>6. turns \in Seq(DOMAIN steps) /\ \E n \in DOMAIN turns : turns[n] = j
      <4>1. LET all == AssistantSteps(steps)
            IN  /\ all \in Seq(DOMAIN steps)
                /\ \A i \in DOMAIN steps : steps[i].role = "assistant" =>
                     \E n \in DOMAIN all : all[n] = i
        BY <1>1, Turns
      <4> QED
        BY <3>5, <4>1
    <3> HIDE DEF turns
    <3>7. \E n \in 1 .. Len(turns) : turns[n] = j
      BY <3>6
    <3>8. turns[k] = j
      BY <3>7
    <3> HIDE DEF k
    <3>9. PriorMessages(t, traj, k) = Prior(t, g, j)
      BY <3>8 DEF PriorMessages, Prior, turns
    <3>10. \/ steps[j] = captured
           \/ Fillable(captured) /\ steps[j] = [captured EXCEPT !.prompt = Prior(t, g, j)]
      BY <3>3 DEF CapturedOrFilled
    <3> DEFINE prior == Prior(t, g, j)
    <3>11. captured = [role |-> captured.role, prompt |-> captured.prompt,
                       response |-> captured.response, logprobs |-> captured.logprobs,
                       routed |-> captured.routed]
      BY DEF CapturedStep
    <3>12. filled[j] = [steps[j] EXCEPT !.prompt = prior]
      BY <3>1, <3>9
    <3> HIDE DEF captured, prior
    <3>13. [[captured EXCEPT !.prompt = prior] EXCEPT !.prompt = prior]
             = [captured EXCEPT !.prompt = prior]
      BY <3>11
    <3>14. /\ Fillable(captured) /\ filled[j] = [captured EXCEPT !.prompt = prior]
      BY <2>2, <3>10, <3>12, <3>13 DEF prior
    <3> QED
      BY <3>14 DEF CapturedOrFilled, captured, prior
  <2> QED
    BY <2>1, <2>2
<1>5. IsSteps(filled) /\ Len(filled) = Len(shapes)
  BY <1>1, <1>3 DEF IsSteps
<1> HIDE DEF filled
<1>6. \A j \in DOMAIN filled : CapturedOrFilled(t, g, j, shapes[j], filled[j])
  BY <1>3, <1>4
<1> QED
  BY <1>1, <1>2, <1>5, <1>6 DEF TrajectoryOf, filled

----------------------------------------------------------------------------
\* The inductive invariant: there is a list of captures and one of builds that
\* explain every file.

Made(taken, made) ==
  /\ taken \in Seq(Captures) /\ Len(taken) = count.captures
  /\ \E D : made \in Seq(D)
  /\ Len(made) = count.builds
  /\ \A b \in DOMAIN made : DirectoryOf(taken, made[b])

Counted ==
  count \in [captures : 0 .. MaxCaptures, builds : 0 .. MaxBuilds,
             jobs : 0 .. MaxJobs, pairings : 0 .. MaxPairings]

Trajectories(taken) ==
  /\ trajs = [p \in Precisions |-> trajs[p]]
  /\ \A p \in Precisions : /\ trajs[p] = [t \in Tasks |-> trajs[p][t]]
                           /\ DirectoryOf(taken, trajs[p])

\* What a build has written.
BuildFiles(made) ==
  /\ DOMAIN rollouts = Precisions /\ DOMAIN index = Precisions
  /\ \A p \in Precisions : rollouts[p] # None => RolloutsFile(made, rollouts[p])
  /\ \A p \in Precisions :
       index[p] # None =>
         IndexFile(made, p, index[p]) /\ RolloutsFile(made, rollouts[p])
  /\ building # None =>
       /\ building.p \in Precisions
       /\ IndexFile(made, building.p, building) /\ RolloutsFile(made, rollouts[building.p])
  /\ input # None => RolloutsFile(made, input)

\* What a trainer reads and has written.
TrainerFiles(made) ==
  /\ DOMAIN scores = Scripts /\ DOMAIN routes = Scripts
  /\ job # None =>
       /\ job = [script |-> job.script, file |-> job.file, scored |-> job.scored]
       /\ job.script \in Scripts /\ RolloutsFile(made, job.file)
  /\ \A s \in Scripts : /\ scores[s] # None => ScoresFile(made, scores[s])
                        /\ routes[s] # None => RoutesFile(made, s, routes[s])

Reported ==
  /\ \E D : pairing \in Seq(D)
  /\ \A i \in DOMAIN pairing : GoodReport(pairing[i])
  /\ \A d \in reports : GoodReport(d)

Explained(taken, made) ==
  /\ Made(taken, made) /\ Trajectories(taken)
  /\ BuildFiles(made) /\ TrainerFiles(made)

ReportsInv == Counted /\ Reported /\ \E taken, made : Explained(taken, made)

LEMMA HistoryOf ==
  ASSUME NEW taken, NEW made, Made(taken, made)
  PROVE  /\ History(taken, made)
         /\ DOMAIN taken = 1 .. count.captures /\ DOMAIN made = 1 .. count.builds
         /\ count.captures \in Nat /\ count.builds \in Nat
<1>1. taken \in Seq(Captures) /\ Len(taken) = count.captures
  BY DEF Made
<1>2. PICK D : made \in Seq(D)
  BY DEF Made
<1>3. Len(made) = count.builds
  BY DEF Made
<1>4. /\ DOMAIN taken = 1 .. count.captures /\ DOMAIN made = 1 .. count.builds
      /\ count.captures \in Nat /\ count.builds \in Nat
  BY <1>1, <1>2, <1>3
<1>5. DOMAIN taken \in SUBSET Nat /\ DOMAIN made \in SUBSET Nat
  BY <1>4
<1> QED
  BY <1>4, <1>5 DEF Made, History

LEMMA InitExplained ==
  ASSUME Init
  PROVE  ReportsInv
<1>1. Counted
  BY ReportsAssumption DEF Init, Counted
<1>2. Reported
  <2>1. pairing \in Seq({}) /\ DOMAIN pairing = {} /\ reports = {}
    BY DEF Init
  <2> QED
    BY <2>1 DEF Reported
<1>3. Made(<<>>, <<>>)
  <2>1. count.captures = 0 /\ count.builds = 0
    BY DEF Init
  <2>2. <<>> \in Seq(Captures) /\ Len(<<>>) = 0 /\ <<>> \in Seq({}) /\ DOMAIN <<>> = {}
    OBVIOUS
  <2> QED
    BY <2>1, <2>2 DEF Made
<1>4. Trajectories(<<>>)
  <2>1. trajs = [p \in Precisions |-> [t \in Tasks |-> None]]
    BY DEF Init
  <2> QED
    BY <2>1, Zenon DEF Trajectories, DirectoryOf
<1>5. BuildFiles(<<>>)
  BY DEF Init, BuildFiles
<1>6. TrainerFiles(<<>>)
  BY DEF Init, TrainerFiles
<1> QED
  BY <1>1, <1>2, <1>3, <1>4, <1>5, <1>6 DEF ReportsInv, Explained

LEMMA CaptureExplained ==
  ASSUME NEW taken, NEW made, Explained(taken, made), Counted,
         NEW p \in Precisions, NEW choice \in Captures, Capture(p, choice)
  PROVE  Counted' /\ Explained(Append(taken, choice), made)'
<1> DEFINE longer == Append(taken, choice)
           g == count.captures + 1
           new(t) == [gen |-> g, steps |-> [j \in 1 .. Len(choice[t]) |->
                                              CapturedStep(t, g, j, choice[t][j])]]
<1>1. /\ count' = [count EXCEPT !.captures = @ + 1] /\ count.captures < MaxCaptures
      /\ trajs' = [trajs EXCEPT ![p] =
           [t \in Tasks |-> IF choice[t] = None THEN @[t] ELSE new(t)]]
      /\ UNCHANGED <<rollouts, index, building, input, job, scores, routes, pairing, reports>>
  BY DEF Capture
<1>2. Made(taken, made) /\ Trajectories(taken) /\ BuildFiles(made) /\ TrainerFiles(made)
  BY DEF Explained
<1>3. /\ taken \in Seq(Captures) /\ Len(taken) = count.captures
      /\ DOMAIN taken = 1 .. count.captures /\ count.captures \in Nat
  BY <1>2, HistoryOf DEF Made
<1>4. Counted'
  <2>1. count'.captures = count.captures + 1
    BY <1>1 DEF Counted
  <2> QED
    BY <1>1, <1>3, ReportsAssumption DEF Counted
<1>5. /\ longer \in Seq(Captures) /\ Len(longer) = g /\ longer[g] = choice
      /\ g \in DOMAIN longer /\ Grows(taken, longer)
  <2>1. /\ longer \in Seq(Captures \cup {choice}) /\ Len(longer) = Len(taken) + 1
        /\ DOMAIN longer = 1 .. Len(taken) + 1 /\ longer[Len(taken) + 1] = choice
        /\ Grows(taken, longer)
    BY <1>3, Appended
  <2>2. Captures \cup {choice} = Captures
    OBVIOUS
  <2> HIDE DEF longer
  <2> QED
    BY <1>3, <2>1, <2>2
<1>6. count'.captures = g /\ count'.builds = count.builds
  BY <1>1 DEF Counted
<1> HIDE DEF longer
<1>7. Made(longer, made)'
  <2>1. \A b \in DOMAIN made : DirectoryOf(longer, made[b])
    BY <1>2, <1>5, DirectoryStays DEF Made
  <2> QED
    BY <1>2, <1>5, <1>6, <2>1 DEF Made
<1>8. Trajectories(longer)'
  <2> HIDE DEF new
  <2>1. /\ trajs' = [q \in Precisions |-> trajs'[q]]
        /\ trajs'[p] = [t \in Tasks |-> IF choice[t] = None THEN trajs[p][t] ELSE new(t)]
        /\ \A q \in Precisions \ {p} : trajs'[q] = trajs[q]
    BY <1>1, <1>2 DEF Trajectories
  <2>2. ASSUME NEW q \in Precisions \ {p}
        PROVE  trajs'[q] = [t \in Tasks |-> trajs'[q][t]] /\ DirectoryOf(longer, trajs'[q])
    BY <1>2, <1>5, <2>1, DirectoryStays DEF Trajectories
  <2>3. trajs'[p] = [t \in Tasks |-> trajs'[p][t]]
    BY <2>1
  <2>4. ASSUME NEW t \in Tasks, trajs'[p][t] # None
        PROVE  TrajectoryOf(longer, t, trajs'[p][t])
    <3>1. CASE choice[t] = None
      <4>1. trajs'[p][t] = trajs[p][t]
        BY <2>1, <3>1
      <4>2. DirectoryOf(longer, trajs[p])
        BY <1>2, <1>5, DirectoryStays DEF Trajectories
      <4> QED
        BY <2>4, <4>1, <4>2 DEF DirectoryOf
    <3>2. CASE choice[t] # None
      <4>1. trajs'[p][t] = new(t)
        BY <2>1, <3>2
      <4>2. longer[g][t] = choice[t] /\ choice[t] \in Seq(Shapes)
        BY <1>5, <3>2, ReportsAssumption
      <4>3. TrajectoryOf(longer, t,
              [gen |-> g, steps |-> [j \in 1 .. Len(longer[g][t]) |->
                                       CapturedStep(t, g, j, longer[g][t][j])]])
        <5> HIDE DEF g
        <5> QED
          BY <1>5, <4>2, CaptureLeaves
      <4> QED
        BY <4>1, <4>2, <4>3 DEF new
    <3> QED
      BY <3>1, <3>2
  <2>5. DirectoryOf(longer, trajs'[p])
    BY <2>4 DEF DirectoryOf
  <2> QED
    BY <2>1, <2>2, <2>3, <2>5 DEF Trajectories
<1>9. BuildFiles(made)' /\ TrainerFiles(made)'
  BY <1>1, <1>2 DEF BuildFiles, TrainerFiles
<1> QED
  BY <1>4, <1>7, <1>8, <1>9 DEF Explained, longer

LEMMA FillExplained ==
  ASSUME NEW taken, NEW made, Explained(taken, made), Counted,
         NEW p \in Precisions, NEW t \in Tasks, Fill(p, t)
  PROVE  Counted' /\ Explained(taken, made)'
<1>1. /\ trajs[p][t] # None
      /\ trajs' = [trajs EXCEPT ![p][t].steps = FilledSteps(t, trajs[p][t])]
      /\ UNCHANGED <<count, rollouts, index, building, input, job, scores, routes,
                     pairing, reports>>
  BY DEF Fill
<1>2. Made(taken, made) /\ Trajectories(taken) /\ BuildFiles(made) /\ TrainerFiles(made)
  BY DEF Explained
<1>3. Counted' /\ Made(taken, made)' /\ BuildFiles(made)' /\ TrainerFiles(made)'
  BY <1>1, <1>2 DEF Counted, Made, BuildFiles, TrainerFiles
<1>4. Trajectories(taken)'
  <2> DEFINE traj == trajs[p][t]
             filled == [traj EXCEPT !.steps = FilledSteps(t, traj)]
  <2>1. TrajectoryOf(taken, t, traj)
    BY <1>1, <1>2 DEF Trajectories, DirectoryOf
  <2>2. DOMAIN taken \in SUBSET Nat
    BY <1>2, HistoryOf DEF History
  <2>3. TrajectoryOf(taken, t, filled)
    <3> HIDE DEF traj
    <3> QED
      BY <2>1, <2>2, FillKeeps
  <2>4. trajs' = [trajs EXCEPT ![p] = [@ EXCEPT ![t] = filled]]
    BY <1>1
  <2> HIDE DEF filled
  <2>5. /\ trajs' = [q \in Precisions |-> trajs'[q]]
        /\ trajs'[p] = [trajs[p] EXCEPT ![t] = filled]
        /\ \A q \in Precisions \ {p} : trajs'[q] = trajs[q]
    BY <1>2, <2>4 DEF Trajectories
  <2>6. trajs[p] = [u \in Tasks |-> trajs[p][u]] /\ DirectoryOf(taken, trajs[p])
    BY <1>2 DEF Trajectories
  <2>7. /\ trajs'[p] = [u \in Tasks |-> trajs'[p][u]]
        /\ trajs'[p][t] = filled
        /\ \A u \in Tasks \ {t} : trajs'[p][u] = trajs[p][u]
    BY <2>5, <2>6
  <2>8. DirectoryOf(taken, trajs'[p])
    BY <2>3, <2>6, <2>7 DEF DirectoryOf
  <2>9. ASSUME NEW q \in Precisions \ {p}
        PROVE  trajs'[q] = [u \in Tasks |-> trajs'[q][u]] /\ DirectoryOf(taken, trajs'[q])
    BY <1>2, <2>5 DEF Trajectories
  <2> QED
    BY <2>5, <2>7, <2>8, <2>9 DEF Trajectories
<1> QED
  BY <1>3, <1>4 DEF Explained

LEMMA BuildExplained ==
  ASSUME NEW taken, NEW made, Explained(taken, made), Counted,
         NEW p \in Precisions, Build(p)
  PROVE  Counted' /\ \E longer : Explained(taken, longer)'
<1> DEFINE dir == trajs[p]
           b == count.builds + 1
           file == [build |-> b, entries |-> RolloutEntries(dir)]
           ix == [p |-> p, build |-> b, entries |-> IndexEntries(dir),
                  skipped |-> SkippedTurns(dir), gens |-> [t \in Tasks |-> GenOf(dir[t])]]
<1>1. /\ count.builds < MaxBuilds
      /\ rollouts' = [rollouts EXCEPT ![p] = file]
      /\ building' = ix
      /\ count' = [count EXCEPT !.builds = b]
      /\ UNCHANGED <<trajs, index, input, job, scores, routes, pairing, reports>>
  BY DEF Build
<1>2. Made(taken, made) /\ Trajectories(taken) /\ BuildFiles(made) /\ TrainerFiles(made)
  BY DEF Explained
<1>3. count.builds \in Nat /\ DOMAIN made = 1 .. count.builds
  BY <1>2, HistoryOf
<1>4. count'.captures = count.captures /\ count'.builds = b
  BY <1>1 DEF Counted
<1>5. Counted'
  BY <1>1, <1>3, ReportsAssumption DEF Counted
<1>6. DirectoryOf(taken, dir)
  BY <1>2 DEF Trajectories
<1> HIDE DEF dir
<1>7. PICK D : made \in Seq(D)
  BY <1>2 DEF Made
<1>8. Len(made) = count.builds
  BY <1>2 DEF Made
<1>9. PICK longer :
        /\ longer \in Seq(D \cup {dir}) /\ Len(longer) = b /\ longer[b] = dir
        /\ DOMAIN longer = 1 .. b /\ Grows(made, longer)
  <2> DEFINE l == Append(made, dir)
  <2>1. /\ l \in Seq(D \cup {dir}) /\ Len(l) = Len(made) + 1
        /\ DOMAIN l = 1 .. Len(made) + 1 /\ l[Len(made) + 1] = dir /\ Grows(made, l)
    BY <1>7, Appended
  <2> HIDE DEF l
  <2> QED
    BY <1>8, <2>1
<1>10. Made(taken, longer)'
  <2>1. \A c \in DOMAIN longer : DirectoryOf(taken, longer[c])
    <3>1. SUFFICES ASSUME NEW c \in 1 .. b PROVE DirectoryOf(taken, longer[c])
      BY <1>9
    <3>2. CASE c = b
      BY <1>6, <1>9, <3>2
    <3>3. CASE c # b
      <4>1. c \in DOMAIN made
        BY <1>3, <3>3
      <4> QED
        BY <1>2, <1>9, <4>1 DEF Made, Grows
    <3> QED
      BY <3>2, <3>3
  <2>2. taken \in Seq(Captures) /\ Len(taken) = count'.captures
    BY <1>2, <1>4 DEF Made
  <2>3. Len(longer) = count'.builds
    BY <1>4, <1>9
  <2> QED
    BY <1>9, <2>1, <2>2, <2>3 DEF Made
<1>11. Trajectories(taken)'
  BY <1>1, <1>2 DEF Trajectories
<1>12. RolloutsFile(longer, file) /\ IndexFile(longer, p, ix)
  <2>1. b \in DOMAIN longer
    BY <1>3, <1>9
  <2>2. RolloutsFile(longer, file)
    BY <1>9, <2>1 DEF RolloutsFile
  <2>3. IndexFile(longer, p, ix)
    BY <1>9, <2>1 DEF IndexFile
  <2> QED
    BY <2>2, <2>3
<1>13. ix.p = p
  OBVIOUS
<1> HIDE DEF ix, file
<1>14. /\ rollouts'[p] = file /\ DOMAIN rollouts' = Precisions
       /\ \A q \in Precisions \ {p} : rollouts'[q] = rollouts[q]
  BY <1>1, <1>2 DEF BuildFiles
<1>15. BuildFiles(longer)'
  <2>1. \A q \in Precisions : rollouts'[q] # None => RolloutsFile(longer, rollouts'[q])
    BY <1>2, <1>9, <1>12, <1>14, FilesStay DEF BuildFiles
  <2>2. ASSUME NEW q \in Precisions, index[q] # None
        PROVE  IndexFile(longer, q, index[q]) /\ RolloutsFile(longer, rollouts'[q])
    <3>1. IndexFile(made, q, index[q]) /\ RolloutsFile(made, rollouts[q])
      BY <1>2, <2>2 DEF BuildFiles
    <3>2. IndexFile(longer, q, index[q]) /\ RolloutsFile(longer, rollouts[q])
      BY <1>9, <3>1, FilesStay
    <3> QED
      BY <1>12, <1>14, <3>2
  <2>3. /\ building'.p \in Precisions /\ IndexFile(longer, building'.p, building')
        /\ RolloutsFile(longer, rollouts'[building'.p])
    BY <1>1, <1>12, <1>13, <1>14
  <2>4. input # None => RolloutsFile(longer, input)
    BY <1>2, <1>9, FilesStay DEF BuildFiles
  <2>5. DOMAIN index = Precisions
    BY <1>2 DEF BuildFiles
  <2> QED
    BY <1>1, <1>14, <2>1, <2>2, <2>3, <2>4, <2>5 DEF BuildFiles
<1>16. TrainerFiles(longer)'
  <2>1. TrainerFiles(made)
    BY <1>2
  <2>2. TrainerFiles(longer)
    BY <1>9, <2>1, FilesStay DEF TrainerFiles
  <2> QED
    BY <1>1, <2>2 DEF TrainerFiles
<1> QED
  BY <1>5, <1>10, <1>11, <1>15, <1>16 DEF Explained

\* The other stages that write files leave the histories alone.
Unmoved == UNCHANGED <<count, trajs, pairing, reports>>

LEMMA WriteIndexExplained ==
  ASSUME NEW taken, NEW made, Explained(taken, made), WriteIndex
  PROVE  Unmoved /\ Explained(taken, made)'
<1>1. /\ building # None /\ index' = [index EXCEPT ![building.p] = building]
      /\ building' = None
      /\ UNCHANGED <<count, trajs, rollouts, input, job, scores, routes, pairing, reports>>
  BY DEF WriteIndex
<1>2. Made(taken, made) /\ Trajectories(taken) /\ BuildFiles(made) /\ TrainerFiles(made)
  BY DEF Explained
<1>3. Made(taken, made)' /\ Trajectories(taken)' /\ TrainerFiles(made)'
  BY <1>1, <1>2 DEF Made, Trajectories, TrainerFiles
<1>4. BuildFiles(made)'
  <2>1. PICK p \in Precisions : p = building.p
    BY <1>1, <1>2 DEF BuildFiles
  <2>2. /\ index'[p] = building /\ DOMAIN index' = Precisions
        /\ \A q \in Precisions \ {p} : index'[q] = index[q]
    BY <1>1, <1>2, <2>1 DEF BuildFiles
  <2>3. IndexFile(made, p, index'[p]) /\ RolloutsFile(made, rollouts[p])
    BY <1>1, <1>2, <2>1, <2>2 DEF BuildFiles
  <2>4. ASSUME NEW q \in Precisions, index'[q] # None
        PROVE  IndexFile(made, q, index'[q]) /\ RolloutsFile(made, rollouts[q])
    <3>1. CASE q = p
      BY <2>3, <3>1
    <3>2. CASE q # p
      BY <1>2, <2>2, <2>4, <3>2 DEF BuildFiles
    <3> QED
      BY <3>1, <3>2
  <2> QED
    BY <1>1, <1>2, <2>2, <2>4 DEF BuildFiles
<1> QED
  BY <1>1, <1>3, <1>4 DEF Explained, Unmoved

LEMMA CopyOrCrashExplained ==
  ASSUME NEW taken, NEW made, Explained(taken, made),
         BuildCrash \/ JobCrash \/ \E p \in Precisions : CopyInput(p)
  PROVE  Unmoved /\ Explained(taken, made)'
<1>2. Made(taken, made) /\ Trajectories(taken) /\ BuildFiles(made) /\ TrainerFiles(made)
  BY DEF Explained
<1>3. UNCHANGED <<count, trajs, rollouts, index, scores, routes, pairing, reports>>
  BY Zenon DEF BuildCrash, JobCrash, CopyInput
<1>4. /\ building' \in {building, None} /\ job' \in {job, None}
      /\ input' = input \/ \E p \in Precisions : input' = rollouts[p] /\ rollouts[p] # None
  BY DEF BuildCrash, JobCrash, CopyInput
<1>5. Made(taken, made)' /\ Trajectories(taken)'
  BY <1>2, <1>3 DEF Made, Trajectories
<1>6. TrainerFiles(made)'
  <2>1. job' # None => job' = job
    BY <1>4
  <2> QED
    BY <1>2, <1>3, <2>1 DEF TrainerFiles
<1>7. BuildFiles(made)'
  <2>1. building' # None => building' = building
    BY <1>4
  <2>2. input' # None => RolloutsFile(made, input')
    BY <1>2, <1>4 DEF BuildFiles
  <2> QED
    BY <1>2, <1>3, <2>1, <2>2 DEF BuildFiles
<1> QED
  BY <1>3, <1>5, <1>6, <1>7 DEF Explained, Unmoved

LEMMA StartJobExplained ==
  ASSUME NEW taken, NEW made, Explained(taken, made), Counted, NEW script \in Scripts,
         NEW file, StartJob(script, file)
  PROVE  Counted' /\ Explained(taken, made)'
<1>1. /\ count.jobs < MaxJobs /\ file # None
      /\ script = "megatron_moe" => \E p \in Precisions : file = rollouts[p]
      /\ script # "megatron_moe" => file = input
      /\ count' = [count EXCEPT !.jobs = @ + 1]
      /\ job' = [script |-> script, file |-> file, scored |-> FALSE]
      /\ routes' \in {routes, [routes EXCEPT ![script] = None]}
      /\ UNCHANGED <<trajs, rollouts, index, building, input, scores, pairing, reports>>
  BY DEF StartJob
<1>2. Made(taken, made) /\ Trajectories(taken) /\ BuildFiles(made) /\ TrainerFiles(made)
  BY DEF Explained
<1>3. count'.captures = count.captures /\ count'.builds = count.builds
  BY <1>1 DEF Counted
<1>4. Counted'
  BY <1>1, ReportsAssumption DEF Counted
<1>5. Made(taken, made)' /\ Trajectories(taken)' /\ BuildFiles(made)'
  BY <1>1, <1>2, <1>3 DEF Made, Trajectories, BuildFiles
<1>6. RolloutsFile(made, file)
  BY <1>1, <1>2 DEF BuildFiles
<1>7. DOMAIN routes' = Scripts /\ \A s \in Scripts : routes'[s] \in {routes[s], None}
  BY <1>1, <1>2 DEF TrainerFiles
<1>8. /\ job' = [script |-> job'.script, file |-> job'.file, scored |-> job'.scored]
      /\ job'.script = script /\ job'.file = file
  BY <1>1
<1>9. \A s \in Scripts : routes'[s] # None => RoutesFile(made, s, routes'[s])
  BY <1>2, <1>7 DEF TrainerFiles
<1>10. TrainerFiles(made)'
  BY <1>1, <1>2, <1>6, <1>7, <1>8, <1>9 DEF TrainerFiles
<1> QED
  BY <1>4, <1>5, <1>10 DEF Explained

LEMMA WriteScoresExplained ==
  ASSUME NEW taken, NEW made, Explained(taken, made), WriteScores
  PROVE  Unmoved /\ Explained(taken, made)'
<1> DEFINE file == [build |-> job.file.build, entries |-> ScorePayloads(job.file.entries)]
<1>1. /\ job # None
      /\ scores' = [scores EXCEPT ![job.script] = file]
      /\ job' \in {[job EXCEPT !.scored = TRUE], None}
      /\ UNCHANGED <<count, trajs, rollouts, index, building, input, routes, pairing, reports>>
  BY DEF WriteScores
<1>2. Made(taken, made) /\ Trajectories(taken) /\ BuildFiles(made) /\ TrainerFiles(made)
  BY DEF Explained
<1>3. Made(taken, made)' /\ Trajectories(taken)' /\ BuildFiles(made)'
  BY <1>1, <1>2 DEF Made, Trajectories, BuildFiles
<1>4. /\ job = [script |-> job.script, file |-> job.file, scored |-> job.scored]
      /\ job.script \in Scripts /\ RolloutsFile(made, job.file)
  BY <1>1, <1>2 DEF TrainerFiles
<1>5. ScoresFile(made, file)
  <2>1. PICK b \in DOMAIN made : job.file = [build |-> b, entries |-> RolloutEntries(made[b])]
    BY <1>4 DEF RolloutsFile
  <2>2. job.file.build = b /\ job.file.entries = RolloutEntries(made[b])
    BY <2>1
  <2> QED
    BY <2>2 DEF ScoresFile
<1> HIDE DEF file
<1>6. PICK script \in Scripts : script = job.script
  BY <1>4
<1>7. /\ DOMAIN scores' = Scripts /\ scores'[script] = file
      /\ \A s \in Scripts \ {script} : scores'[s] = scores[s]
  BY <1>1, <1>2, <1>6 DEF TrainerFiles
<1>8. \A s \in Scripts : scores'[s] # None => ScoresFile(made, scores'[s])
  BY <1>2, <1>5, <1>7 DEF TrainerFiles
<1>9. job' # None =>
        /\ job' = [script |-> job'.script, file |-> job'.file, scored |-> job'.scored]
        /\ job'.script = job.script /\ job'.file = job.file
  BY <1>1, <1>4
<1>10. TrainerFiles(made)'
  BY <1>1, <1>2, <1>4, <1>7, <1>8, <1>9 DEF TrainerFiles
<1> QED
  BY <1>1, <1>3, <1>10 DEF Explained, Unmoved

LEMMA WriteRoutesExplained ==
  ASSUME NEW taken, NEW made, Explained(taken, made),
         NEW heard \in {1 .. Layers, 2 .. Layers}, WriteRoutes(heard)
  PROVE  Unmoved /\ Explained(taken, made)'
<1> DEFINE file == [build |-> job.file.build,
                    entries |-> RoutePayloads(job.script, job.file.entries, heard)]
<1>1. /\ job # None
      /\ routes' = [routes EXCEPT ![job.script] = file]
      /\ job' = None
      /\ UNCHANGED <<count, trajs, rollouts, index, building, input, scores, pairing, reports>>
  BY DEF WriteRoutes
<1>2. Made(taken, made) /\ Trajectories(taken) /\ BuildFiles(made) /\ TrainerFiles(made)
  BY DEF Explained
<1>3. Made(taken, made)' /\ Trajectories(taken)' /\ BuildFiles(made)'
  BY <1>1, <1>2 DEF Made, Trajectories, BuildFiles
<1>4. job.script \in Scripts /\ RolloutsFile(made, job.file)
  BY <1>1, <1>2 DEF TrainerFiles
<1>5. RoutesFile(made, job.script, file)
  <2>1. PICK b \in DOMAIN made : job.file = [build |-> b, entries |-> RolloutEntries(made[b])]
    BY <1>4 DEF RolloutsFile
  <2>2. job.file.build = b /\ job.file.entries = RolloutEntries(made[b])
    BY <2>1
  <2> QED
    BY <2>2 DEF RoutesFile
<1> HIDE DEF file
<1>6. PICK script \in Scripts : script = job.script
  BY <1>4
<1>7. /\ DOMAIN routes' = Scripts /\ routes'[script] = file
      /\ \A s \in Scripts \ {script} : routes'[s] = routes[s]
  BY <1>1, <1>2, <1>6 DEF TrainerFiles
<1>8. \A s \in Scripts : routes'[s] # None => RoutesFile(made, s, routes'[s])
  BY <1>2, <1>5, <1>6, <1>7 DEF TrainerFiles
<1>9. TrainerFiles(made)'
  BY <1>1, <1>2, <1>7, <1>8 DEF TrainerFiles
<1> QED
  BY <1>1, <1>3, <1>9 DEF Explained, Unmoved

----------------------------------------------------------------------------
\* A pairing reports what belongs together, and its reports stay what they are.

LEMMA StartPairingExplained ==
  ASSUME NEW taken, NEW made, Explained(taken, made), Counted, Reported,
         NEW p, NEW file, NEW paired, NEW n \in Nat, NEW new,
         DOMAIN new = 1 .. n, \E D : new \in Seq(D),
         \A i \in 1 .. n : GoodReport(new[i]),
         StartPairing(p, file, paired, new)
  PROVE  Counted' /\ Reported' /\ Explained(taken, made)'
<1>1. /\ count.pairings < MaxPairings
      /\ pairing' = new
      /\ count' = [count EXCEPT !.pairings = @ + 1]
      /\ UNCHANGED <<trajs, rollouts, index, building, input, job, scores, routes, reports>>
  BY DEF StartPairing
<1>2. Made(taken, made) /\ Trajectories(taken) /\ BuildFiles(made) /\ TrainerFiles(made)
  BY DEF Explained
<1>3. count'.captures = count.captures /\ count'.builds = count.builds
  BY <1>1 DEF Counted
<1>4. Counted'
  BY <1>1, ReportsAssumption DEF Counted
<1>5. Made(taken, made)' /\ Trajectories(taken)' /\ BuildFiles(made)' /\ TrainerFiles(made)'
  BY <1>1, <1>2, <1>3 DEF Made, Trajectories, BuildFiles, TrainerFiles
<1>6. Reported'
  BY <1>1 DEF Reported
<1> QED
  BY <1>4, <1>5, <1>6 DEF Explained

\* The entries of the index a pairing reads.
LEMMA IndexListed ==
  ASSUME NEW taken, NEW made, Explained(taken, made), NEW p \in Precisions, index[p] # None
  PROVE  /\ IndexFile(made, p, index[p]) /\ History(taken, made)
         /\ DirectoryOf(taken, trajs[p])
         /\ Len(index[p].entries) \in Nat
         /\ DOMAIN index[p].entries = 1 .. Len(index[p].entries)
         /\ \A i \in 1 .. Len(index[p].entries) :
              index[p].entries[i] \in ToSet(index[p].entries)
<1>1. IndexFile(made, p, index[p]) /\ DirectoryOf(taken, trajs[p])
  BY DEF Explained, BuildFiles, Trajectories
<1>2. History(taken, made)
  BY HistoryOf DEF Explained
<1>3. PICK b \in DOMAIN made : index[p].entries = IndexEntries(made[b])
  BY <1>1 DEF IndexFile
<1>4. EntriesFit(taken, made[b]) /\ KeepsSome(made[b])
  BY <1>2, EntriesMade DEF History
<1>5. /\ Len(index[p].entries) \in Nat
      /\ DOMAIN index[p].entries = 1 .. Len(index[p].entries)
  BY <1>3, <1>4 DEF EntriesFit, KeepsSome
<1>6. \A i \in 1 .. Len(index[p].entries) :
        index[p].entries[i] \in ToSet(index[p].entries)
  BY <1>5 DEF ToSet
<1> QED
  BY <1>1, <1>2, <1>5, <1>6

LEMMA PairDenseExplained ==
  ASSUME NEW taken, NEW made, Explained(taken, made), Counted, Reported,
         NEW p \in Precisions, NEW script \in Scripts, PairDense(p, script)
  PROVE  Counted' /\ Reported' /\ Explained(taken, made)'
<1> DEFINE file == scores[script]
           entries == index[p].entries
           n == Len(entries)
           of(i) == DenseReport(p, script, file, entries[i])
           new == [i \in 1 .. n |-> of(i)]
           paired == \A e \in ToSet(entries) : DensePairs(p, file, e)
<1>1. StartPairing(p, file, paired, new)
  BY DEF PairDense
<1>2. index[p] # None /\ file # None /\ paired
  BY <1>1 DEF StartPairing
<1>3. /\ IndexFile(made, p, index[p]) /\ History(taken, made)
      /\ n \in Nat /\ \A i \in 1 .. n : entries[i] \in ToSet(entries)
  BY <1>2, IndexListed
<1>4. ScoresFile(made, file)
  BY <1>2 DEF Explained, TrainerFiles
<1>5. \A i \in 1 .. n : GoodReport(of(i))
  <2>1. TAKE i \in 1 .. n
  <2>2. entries[i] \in ToSet(index[p].entries) /\ DensePairs(p, file, entries[i])
    BY <1>2, <1>3
  <2> HIDE DEF file, entries
  <2> QED
    BY <1>3, <1>4, <2>2, DenseReportIsGood
<1> HIDE DEF of, n, entries, file, paired
<1>6. /\ DOMAIN new = 1 .. n /\ \E D : new \in Seq(D)
      /\ \A i \in 1 .. n : new[i] = of(i)
  <2>1. n \in Nat
    BY <1>3
  <2>2. DOMAIN new = 1 .. n /\ \A i \in 1 .. n : new[i] = of(i)
    OBVIOUS
  <2> DEFINE D == {of(i) : i \in 1 .. n}
  <2>3. new \in Seq(D)
    BY <2>1
  <2> HIDE DEF D
  <2> QED
    BY <2>2, <2>3
<1> HIDE DEF new
<1>7. \A i \in 1 .. n : GoodReport(new[i])
  BY <1>5, <1>6
<1> QED
  BY <1>1, <1>3, <1>6, <1>7, StartPairingExplained

LEMMA PairMoeExplained ==
  ASSUME NEW taken, NEW made, Explained(taken, made), Counted, Reported,
         NEW p \in Precisions, NEW script \in Scripts, PairMoe(p, script)
  PROVE  Counted' /\ Reported' /\ Explained(taken, made)'
<1> DEFINE file == routes[script]
           entries == index[p].entries
           n == Len(entries)
           of(i) == MoeReport(p, script, file, entries[i])
           new == [i \in 1 .. n |-> of(i)]
           paired == \A e \in ToSet(entries) : MoePairs(p, file, e)
<1>1. StartPairing(p, file, paired, new)
  BY DEF PairMoe
<1>2. index[p] # None /\ file # None /\ paired
  BY <1>1 DEF StartPairing
<1>3. /\ IndexFile(made, p, index[p]) /\ History(taken, made)
      /\ DirectoryOf(taken, trajs[p])
      /\ n \in Nat /\ \A i \in 1 .. n : entries[i] \in ToSet(entries)
  BY <1>2, IndexListed
<1>4. RoutesFile(made, script, file)
  BY <1>2 DEF Explained, TrainerFiles
<1>5. \A i \in 1 .. n : GoodReport(of(i))
  <2>1. TAKE i \in 1 .. n
  <2>2. entries[i] \in ToSet(index[p].entries) /\ MoePairs(p, file, entries[i])
    BY <1>2, <1>3
  <2> HIDE DEF file, entries
  <2> QED
    BY <1>3, <1>4, <2>2, MoeReportIsGood
<1> HIDE DEF of, n, entries, file, paired
<1>6. /\ DOMAIN new = 1 .. n /\ \E D : new \in Seq(D)
      /\ \A i \in 1 .. n : new[i] = of(i)
  <2>1. n \in Nat
    BY <1>3
  <2>2. DOMAIN new = 1 .. n /\ \A i \in 1 .. n : new[i] = of(i)
    OBVIOUS
  <2> DEFINE D == {of(i) : i \in 1 .. n}
  <2>3. new \in Seq(D)
    BY <2>1
  <2> HIDE DEF D
  <2> QED
    BY <2>2, <2>3
<1> HIDE DEF new
<1>7. \A i \in 1 .. n : GoodReport(new[i])
  BY <1>5, <1>6
<1> QED
  BY <1>1, <1>3, <1>6, <1>7, StartPairingExplained

LEMMA ReportsWritten ==
  ASSUME NEW taken, NEW made, Explained(taken, made), Counted, Reported,
         WriteReport \/ PairingCrash
  PROVE  Counted' /\ Reported' /\ Explained(taken, made)'
<1>1. UNCHANGED <<count, trajs, rollouts, index, building, input, job, scores, routes>>
  BY DEF WriteReport, PairingCrash
<1>2. Counted' /\ Explained(taken, made)'
  BY <1>1 DEF Counted, Explained, Made, Trajectories, BuildFiles, TrainerFiles
<1>3. CASE WriteReport
  <2>1. /\ pairing # <<>> /\ pairing' = Tail(pairing)
        /\ reports' \subseteq reports \cup {Head(pairing)}
    BY <1>3 DEF WriteReport
  <2>2. PICK D : pairing \in Seq(D)
    BY DEF Reported
  <2>3. 1 \in DOMAIN pairing /\ Head(pairing) = pairing[1]
    BY <2>1, <2>2
  <2>4. GoodReport(Head(pairing))
    BY <2>3 DEF Reported
  <2>5. /\ Tail(pairing) \in Seq(D)
        /\ \A i \in DOMAIN Tail(pairing) : i + 1 \in DOMAIN pairing
                                           /\ Tail(pairing)[i] = pairing[i + 1]
    BY <2>1, <2>2
  <2>6. \A i \in DOMAIN Tail(pairing) : GoodReport(Tail(pairing)[i])
    BY <2>5 DEF Reported
  <2>7. \A d \in reports' : GoodReport(d)
    BY <2>1, <2>4 DEF Reported
  <2> QED
    BY <1>2, <2>1, <2>5, <2>6, <2>7 DEF Reported
<1>4. CASE PairingCrash
  <2>1. pairing' = <<>> /\ reports' = reports
    BY <1>4 DEF PairingCrash
  <2>2. <<>> \in Seq({}) /\ DOMAIN <<>> = {}
    OBVIOUS
  <2> QED
    BY <1>2, <2>1, <2>2 DEF Reported
<1> QED
  BY <1>3, <1>4

LEMMA NextExplained ==
  ASSUME ReportsInv, [Next]_vars
  PROVE  ReportsInv'
<1> USE DEF ReportsInv
<1>1. PICK taken, made : Explained(taken, made)
  OBVIOUS
<1>2. ASSUME Unmoved PROVE Counted' /\ Reported'
  BY <1>2 DEF Unmoved, Counted, Reported
<1>3. ASSUME UNCHANGED pairing, UNCHANGED reports PROVE Reported'
  BY <1>3 DEF Reported
<1>4. ASSUME NEW p \in Precisions, NEW c \in Captures, Capture(p, c) PROVE ReportsInv'
  BY <1>1, <1>3, <1>4, CaptureExplained DEF Capture
<1>5. ASSUME NEW p \in Precisions, NEW t \in Tasks, Fill(p, t) PROVE ReportsInv'
  BY <1>1, <1>3, <1>5, FillExplained DEF Fill
<1>6. ASSUME NEW p \in Precisions, Build(p) PROVE ReportsInv'
  BY <1>1, <1>3, <1>6, BuildExplained DEF Build
<1>7. ASSUME WriteIndex PROVE ReportsInv'
  BY <1>1, <1>2, <1>7, WriteIndexExplained
<1>8. ASSUME BuildCrash \/ JobCrash \/ \E p \in Precisions : CopyInput(p) PROVE ReportsInv'
  BY <1>1, <1>2, <1>8, CopyOrCrashExplained
<1>9. ASSUME NEW s \in Scripts, NEW f, StartJob(s, f) PROVE ReportsInv'
  BY <1>1, <1>3, <1>9, StartJobExplained DEF StartJob
<1>10. ASSUME WriteScores PROVE ReportsInv'
  BY <1>1, <1>2, <1>10, WriteScoresExplained
<1>11. ASSUME NEW heard \in {1 .. Layers, 2 .. Layers}, WriteRoutes(heard) PROVE ReportsInv'
  BY <1>1, <1>2, <1>11, WriteRoutesExplained
<1>12. ASSUME NEW p \in Precisions, NEW s \in Scripts, PairDense(p, s) PROVE ReportsInv'
  BY <1>1, <1>12, PairDenseExplained
<1>13. ASSUME NEW p \in Precisions, NEW s \in Scripts, PairMoe(p, s) PROVE ReportsInv'
  BY <1>1, <1>13, PairMoeExplained
<1>14. ASSUME WriteReport \/ PairingCrash PROVE ReportsInv'
  BY <1>1, <1>14, ReportsWritten
<1>15. CASE UNCHANGED vars
  BY <1>1, <1>15 DEF vars, Counted, Reported, Explained, Made, Trajectories, BuildFiles,
                     TrainerFiles
<1>16. CASE Next
  <2> HIDE DEF ReportsInv
  <2> QED
    BY <1>4, <1>5, <1>6, <1>7, <1>8, <1>9, <1>10, <1>11, <1>12, <1>13, <1>14, <1>16, Zenon
       DEF Next
<1> QED
  BY <1>15, <1>16

\* Every file is explained by the captures and builds there have been.
THEOREM EveryFileIsExplained == Spec => []ReportsInv
<1>1. Init => ReportsInv
  BY InitExplained
<1>2. ReportsInv /\ [Next]_vars => ReportsInv'
  BY NextExplained
<1> QED
  BY <1>1, <1>2, PTL DEF Spec

----------------------------------------------------------------------------
\* What follows for the reports.

\* A dense report of one build compares the same tokens after the same tokens,
\* whatever was captured, filled in, copied and crashed in between.
THEOREM DenseReportsAreAlike == Spec => []DenseReportsCompareAlike
<1>1. ReportsInv => DenseReportsCompareAlike
  BY Zenon DEF ReportsInv, Reported, GoodReport, ComparesScores, DenseReportsCompareAlike
<1> QED
  BY <1>1, EveryFileIsExplained, PTL

\* A router report of one build and one capture compares the decisions of the
\* same layer at the same position, for either trainer.
THEOREM RoutingReportsAreAlike == Spec => []RoutingReportsCompareAlike
<1>1. ReportsInv => RoutingReportsCompareAlike
  BY Zenon DEF ReportsInv, Reported, GoodReport, ComparesRoutes, RoutingReportsCompareAlike
<1> QED
  BY <1>1, EveryFileIsExplained, PTL

----------------------------------------------------------------------------
\* What follows for the entries of a build.

EntryTold(x, y) ==
  /\ {y.prompt, y.response} \subseteq Seq(Tokens) \ {<<>>}
  /\ x.logprobs # <<>> /\ \A s \in ToSet(x.logprobs) : ScoreType(s)
  /\ [n \in 1 .. Len(x.logprobs) |-> x.logprobs[n].token] = y.response

EntriesTold(xs, ys) ==
  /\ Len(xs) \in Nat /\ Len(ys) = Len(xs)
  /\ DOMAIN xs = 1 .. Len(xs) /\ DOMAIN ys = 1 .. Len(xs)
  /\ \A i \in 1 .. Len(xs) : EntryTold(xs[i], ys[i])

LEMMA BuildTold ==
  ASSUME NEW taken, NEW made, History(taken, made), NEW b \in DOMAIN made
  PROVE  EntriesTold(IndexEntries(made[b]), RolloutEntries(made[b]))
<1> DEFINE xs == IndexEntries(made[b])
           ys == RolloutEntries(made[b])
           n == Len(KeptTurns(made[b]))
<1>1. DOMAIN taken \in SUBSET Nat
  BY DEF History
<1>2. EntriesFit(taken, made[b]) /\ KeepsSome(made[b])
  BY EntriesMade DEF History
<1>3. n \in Nat
  BY <1>2 DEF KeepsSome
<1>4. /\ Len(xs) = n /\ DOMAIN xs = 1 .. n /\ Len(ys) = n /\ DOMAIN ys = 1 .. n
      /\ \A i \in 1 .. n : EntryFits(taken, i, xs[i], ys[i])
  BY <1>2, Zenon DEF EntriesFit
<1> HIDE DEF xs, ys, n
<1>5. ASSUME NEW i \in 1 .. n PROVE EntryTold(xs[i], ys[i])
  <2> DEFINE g == xs[i].gen
             t == xs[i].task
             k == xs[i].turn
  <2>1. /\ AnsweredTurn(taken, g, t, k)
        /\ xs[i].logprobs = LogprobsOf(taken, g, t, k)
        /\ ys[i].prompt = PromptOf(taken, g, t, k)
        /\ ys[i].response = ResponseOf(taken, g, t, k)
    BY <1>4 DEF EntryFits, AnsweredTurn
  <2> HIDE DEF g, t, k
  <2>2. /\ PromptOf(taken, g, t, k) \in Seq(Tokens) /\ PromptOf(taken, g, t, k) # <<>>
        /\ ResponseOf(taken, g, t, k) \in Seq(Tokens) /\ ResponseOf(taken, g, t, k) # <<>>
    BY <1>1, <2>1, TokensGiven
  <2>3. /\ LogprobsOf(taken, g, t, k) # <<>>
        /\ \A x \in ToSet(LogprobsOf(taken, g, t, k)) : ScoreType(x)
        /\ [m \in 1 .. Len(LogprobsOf(taken, g, t, k)) |-> LogprobsOf(taken, g, t, k)[m].token]
             = ResponseOf(taken, g, t, k)
    BY <1>1, <2>1, ScoresCompare DEF ComparesScores
  <2> QED
    BY <2>1, <2>2, <2>3 DEF EntryTold
<1> QED
  BY <1>3, <1>4, <1>5 DEF EntriesTold, xs, ys

LEMMA TypesFollow == ReportsInv => TypeOK
<1> SUFFICES ASSUME ReportsInv PROVE TypeOK
  OBVIOUS
<1>1. Counted /\ Reported
  BY DEF ReportsInv
<1>2. PICK taken, made : Explained(taken, made)
  BY DEF ReportsInv
<1>3. /\ History(taken, made) /\ DOMAIN made = 1 .. count.builds /\ count.builds \in Nat
      /\ BuildFiles(made) /\ TrainerFiles(made)
  BY <1>2, HistoryOf DEF Explained
<1>4. ASSUME NEW p \in Precisions, rollouts[p] # None, NEW e \in ToSet(rollouts[p].entries)
      PROVE  {e.prompt, e.response} \subseteq Seq(Tokens) \ {<<>>}
  <2>1. PICK b \in DOMAIN made : rollouts[p].entries = RolloutEntries(made[b])
    BY <1>3, <1>4 DEF BuildFiles, RolloutsFile
  <2>2. EntriesTold(IndexEntries(made[b]), RolloutEntries(made[b]))
    BY <1>3, BuildTold
  <2>3. PICK i \in DOMAIN RolloutEntries(made[b]) : e = RolloutEntries(made[b])[i]
    BY <1>4, <2>1 DEF ToSet
  <2>4. EntryTold(IndexEntries(made[b])[i], e)
    BY <2>2, <2>3 DEF EntriesTold
  <2> QED
    BY <2>4 DEF EntryTold
<1>5. ASSUME NEW p \in Precisions, index[p] # None, NEW e \in ToSet(index[p].entries)
      PROVE  e.logprobs # <<>> /\ \A x \in ToSet(e.logprobs) : ScoreType(x)
  <2>1. PICK b \in DOMAIN made : index[p].entries = IndexEntries(made[b])
    BY <1>3, <1>5 DEF BuildFiles, IndexFile
  <2>2. EntriesTold(IndexEntries(made[b]), RolloutEntries(made[b]))
    BY <1>3, BuildTold
  <2>3. PICK i \in DOMAIN IndexEntries(made[b]) : e = IndexEntries(made[b])[i]
    BY <1>5, <2>1 DEF ToSet
  <2>4. EntryTold(e, RolloutEntries(made[b])[i])
    BY <2>2, <2>3 DEF EntriesTold
  <2> QED
    BY <2>4 DEF EntryTold
<1>6. ASSUME input # None PROVE input.build \in 1 .. MaxBuilds
  <2>1. PICK b \in DOMAIN made : input.build = b
    BY <1>3, <1>6 DEF BuildFiles, RolloutsFile
  <2>2. count.builds \in 0 .. MaxBuilds
    BY <1>1 DEF Counted
  <2> QED
    BY <1>3, <2>1, <2>2, ReportsAssumption
<1>7. job # None => job.script \in Scripts
  BY <1>3 DEF TrainerFiles
<1>8. \A d \in reports : d.rollout # <<>> /\ Len(d.rollout) = Len(d.trainer)
  BY <1>1 DEF Reported, GoodReport
<1>9. count \in [captures : 0 .. MaxCaptures, builds : 0 .. MaxBuilds,
                 jobs : 0 .. MaxJobs, pairings : 0 .. MaxPairings]
  BY <1>1 DEF Counted
<1> QED
  BY <1>4, <1>5, <1>6, <1>7, <1>8, <1>9, Zenon DEF TypeOK

\* What a stage reads is what it needs: token ids in every entry of a rollouts
\* file, a log-probability with its token in every entry of an index, and two
\* sides of one length in every report.
THEOREM ReportTypesCorrect == Spec => []TypeOK
  BY TypesFollow, EveryFileIsExplained, PTL

----------------------------------------------------------------------------
\* The turns an index tells are those of the directory it was built from.

\* Task, turn pairs are written as they are read.
LEMMA TurnsNamed ==
  ASSUME NEW taken, NEW dir, EntriesFit(taken, dir), KeepsSome(dir)
  PROVE  /\ TurnsOf(IndexEntries(dir)) = ToSet(KeptTurns(dir))
         /\ Cardinality(TurnsOf(IndexEntries(dir))) = Len(IndexEntries(dir))
         /\ TurnsOf(IndexEntries(dir)) \cap ToSet(SkippedTurns(dir)) = {}
         /\ TurnsOf(IndexEntries(dir)) \cup ToSet(SkippedTurns(dir)) = TurnsOfDir(dir)
<1> DEFINE xs == IndexEntries(dir)
           kept == KeptTurns(dir)
           skipped == SkippedTurns(dir)
           n == Len(kept)
           S == TurnsOfDir(dir)
<1>1. /\ kept \in Seq(S)
      /\ ToSet(kept) = {tk \in S : Kept(dir, tk)}
      /\ ToSet(skipped) = {tk \in S : ~Kept(dir, tk)}
      /\ Cardinality(ToSet(kept)) = n
  BY DEF KeepsSome
<1>2. /\ Len(xs) = n /\ DOMAIN xs = 1 .. n
      /\ \A i \in 1 .. n : xs[i].task = kept[i][1] /\ xs[i].turn = kept[i][2]
  BY Zenon DEF EntriesFit
<1>3. S \subseteq Tasks \X Nat
  BY DEF TurnsOfDir
<1> HIDE DEF xs, kept, skipped, n, S
<1>4. n = Len(kept) /\ DOMAIN kept = 1 .. n
  BY <1>1 DEF n
<1>5. \A i \in 1 .. n : kept[i] = <<xs[i].task, xs[i].turn>>
  <2>1. TAKE i \in 1 .. n
  <2>2. kept[i] \in Tasks \X Nat
    BY <1>1, <1>3, <1>4
  <2>3. kept[i] = <<kept[i][1], kept[i][2]>>
    BY <2>2
  <2> QED
    BY <1>2, <2>3
<1>6. TurnsOf(xs) = {<<xs[i].task, xs[i].turn>> : i \in 1 .. n}
  BY <1>2 DEF TurnsOf, ToSet
<1>7. ToSet(kept) = {kept[i] : i \in 1 .. n}
  BY <1>4 DEF ToSet
<1>8. TurnsOf(xs) = ToSet(kept)
  BY <1>5, <1>6, <1>7
<1>9. ToSet(kept) \cap ToSet(skipped) = {} /\ ToSet(kept) \cup ToSet(skipped) = S
  BY <1>1
<1> QED
  BY <1>1, <1>2, <1>8, <1>9 DEF xs, kept, skipped, S

\* The turns of a task are a matter of its capture.
TurnsOfTask(dir, t) == {tk \in TurnsOfDir(dir) : tk[1] = t}

SameTask(taken, dir, other, t) ==
  /\ DirectoryOf(taken, dir) /\ DirectoryOf(taken, other)
  /\ dir[t] # None /\ other[t] # None /\ dir[t].gen = other[t].gen

LEMMA SameTurnsOfTask ==
  ASSUME NEW taken, DOMAIN taken \in SUBSET Nat, NEW dir, NEW other, NEW t \in Tasks,
         SameTask(taken, dir, other, t)
  PROVE  TurnsOfTask(dir, t) = TurnsOfTask(other, t)
<1>1. TrajectoryOf(taken, t, dir[t]) /\ TrajectoryOf(taken, t, other[t])
  BY DEF SameTask, DirectoryOf
<1>2. AssistantSteps(dir[t].steps) = AssistantSteps(taken[dir[t].gen][t])
  BY <1>1, TurnFits
<1>3. AssistantSteps(other[t].steps) = AssistantSteps(taken[other[t].gen][t])
  BY <1>1, TurnFits
<1>4. AssistantSteps(dir[t].steps) = AssistantSteps(other[t].steps)
  BY <1>2, <1>3 DEF SameTask
<1>5. dir[t] # None /\ other[t] # None
  BY DEF SameTask
<1>6. \A tk \in Tasks \X Nat : tk[1] = t =>
        (tk \in TurnsOfDir(dir) <=> tk \in TurnsOfDir(other))
  BY <1>4, <1>5 DEF TurnsOfDir
<1> QED
  BY <1>6 DEF TurnsOfTask, TurnsOfDir

LEMMA TurnsFollow == ReportsInv => IndexTellsTheTurns
<1> SUFFICES ASSUME ReportsInv, NEW p \in Precisions, index[p] # None
             PROVE  LET ix == index[p]
                    IN  /\ Cardinality(TurnsOf(ix.entries)) = Len(ix.entries)
                        /\ TurnsOf(ix.entries) \cap ToSet(ix.skipped) = {}
                        /\ \A t \in Tasks : ix.gens[t] > 0 /\ GenOf(trajs[p][t]) = ix.gens[t] =>
                             {tk \in ToSet(AllTurns(trajs[p])) : tk[1] = t} =
                             {tk \in TurnsOf(ix.entries) \cup ToSet(ix.skipped) : tk[1] = t}
                        /\ rollouts[p].build = ix.build =>
                             \A i \in 1 .. Len(ix.entries) :
                               [n \in 1 .. Len(ix.entries[i].logprobs) |->
                                  ix.entries[i].logprobs[n].token]
                               = rollouts[p].entries[i].response
  BY Zenon DEF IndexTellsTheTurns
<1>1. PICK taken, made : Explained(taken, made)
  BY DEF ReportsInv
<1>2. /\ History(taken, made) /\ IndexFile(made, p, index[p])
      /\ RolloutsFile(made, rollouts[p]) /\ DirectoryOf(taken, trajs[p])
  BY <1>1, HistoryOf DEF Explained, BuildFiles, Trajectories
<1>3. DOMAIN taken \in SUBSET Nat /\ DOMAIN taken = 1 .. count.captures
  BY <1>1, HistoryOf DEF Explained, History
<1> DEFINE ix == index[p]
<1>4. PICK b \in DOMAIN made :
        /\ ix.build = b /\ ix.entries = IndexEntries(made[b])
        /\ ix.skipped = SkippedTurns(made[b])
        /\ \A t \in Tasks : ix.gens[t] = GenOf(made[b][t])
  BY <1>2 DEF IndexFile
<1>5. DirectoryOf(taken, made[b]) /\ EntriesFit(taken, made[b]) /\ KeepsSome(made[b])
  BY <1>2, EntriesMade DEF History
<1>6. /\ Cardinality(TurnsOf(ix.entries)) = Len(ix.entries)
      /\ TurnsOf(ix.entries) \cap ToSet(ix.skipped) = {}
      /\ TurnsOf(ix.entries) \cup ToSet(ix.skipped) = TurnsOfDir(made[b])
  BY <1>4, <1>5, TurnsNamed
<1>7. ToSet(AllTurns(trajs[p])) = TurnsOfDir(trajs[p])
  <2>1. \A t \in Tasks : trajs[p][t] # None => IsSteps(trajs[p][t].steps)
    BY <1>2, Zenon DEF DirectoryOf, TrajectoryOf
  <2> QED
    BY <2>1, TurnsListed
<1>8. ASSUME NEW t \in Tasks, ix.gens[t] > 0, GenOf(trajs[p][t]) = ix.gens[t]
      PROVE  {tk \in ToSet(AllTurns(trajs[p])) : tk[1] = t} =
             {tk \in TurnsOf(ix.entries) \cup ToSet(ix.skipped) : tk[1] = t}
  <2>1. GenOf(made[b][t]) > 0 /\ GenOf(trajs[p][t]) = GenOf(made[b][t])
    BY <1>4, <1>8
  <2>2. made[b][t] # None /\ trajs[p][t] # None /\ made[b][t].gen = trajs[p][t].gen
    BY <2>1 DEF GenOf
  <2>3. TurnsOfTask(made[b], t) = TurnsOfTask(trajs[p], t)
    <3>1. SameTask(taken, made[b], trajs[p], t)
      BY <1>2, <1>5, <2>2 DEF SameTask
    <3>2. t \in Tasks
      OBVIOUS
    <3>3. DOMAIN taken \in SUBSET Nat
      BY <1>3
    <3>4. ASSUME NEW dir, NEW other, SameTask(taken, dir, other, t)
          PROVE TurnsOfTask(dir, t) = TurnsOfTask(other, t)
      BY <3>2, <3>3, <3>4, SameTurnsOfTask
    <3> QED
      BY <3>1, <3>4
  <2> QED
    BY <1>6, <1>7, <2>3 DEF TurnsOfTask
<1>9. ASSUME rollouts[p].build = ix.build, NEW i \in 1 .. Len(ix.entries)
      PROVE  [n \in 1 .. Len(ix.entries[i].logprobs) |-> ix.entries[i].logprobs[n].token]
               = rollouts[p].entries[i].response
  <2>1. PICK c \in DOMAIN made :
          rollouts[p].build = c /\ rollouts[p].entries = RolloutEntries(made[c])
    BY <1>2 DEF RolloutsFile
  <2>2. rollouts[p].entries = RolloutEntries(made[b])
    BY <1>4, <1>9, <2>1
  <2>3. EntriesTold(IndexEntries(made[b]), RolloutEntries(made[b]))
    BY <1>2, BuildTold
  <2>4. EntryTold(ix.entries[i], rollouts[p].entries[i])
    BY <1>4, <1>9, <2>2, <2>3 DEF EntriesTold
  <2> QED
    BY <2>4 DEF EntryTold
<1> QED
  BY <1>6, <1>8, <1>9

\* An index says of every turn of its directory once that it is an entry or was
\* skipped, and speaks of a later trajectory of the same capture just as well.
THEOREM TheIndexTellsTheTurns == Spec => []IndexTellsTheTurns
  BY TurnsFollow, EveryFileIsExplained, PTL

----------------------------------------------------------------------------
\* The three ways to the tokens of a turn.

\* What the extractor gives of a turn depends on the capture alone.
PairOf(taken, g, t, k) ==
  LET j == StepNumber(taken, g, t, k)
      shape == ShapeOf(taken, g, t, k)
  IN  <<IF Answered(shape) THEN PromptOf(taken, g, t, k) ELSE Prior(t, g, j),
        IF Answered(shape) THEN ResponseOf(taken, g, t, k) ELSE <<Message(t, g, j)>>>>

PairsAre(taken, t, traj) ==
  LET turns == AssistantSteps(taken[traj.gen][t])
  IN  /\ ExtractedPairs(t, traj)
           = [k \in 1 .. Len(turns) |-> PairOf(taken, traj.gen, t, k)]
      /\ DOMAIN turns = 1 .. Len(turns)

LEMMA PairsFit ==
  ASSUME NEW taken, DOMAIN taken \in SUBSET Nat, NEW t \in Tasks, NEW traj,
         TrajectoryOf(taken, t, traj)
  PROVE  PairsAre(taken, t, traj)
<1> DEFINE g == traj.gen
           turns == AssistantSteps(taken[g][t])
<1>1. /\ AssistantSteps(traj.steps) = turns
      /\ \A k \in DOMAIN turns : turns[k] = StepNumber(taken, g, t, k)
  BY TurnFits
<1>2. DOMAIN turns = 1 .. Len(turns)
  <2>1. IsSteps(traj.steps)
    BY DEF TrajectoryOf
  <2>2. turns \in Seq(DOMAIN traj.steps)
    BY <1>1, <2>1, Turns
  <2> HIDE DEF turns
  <2> QED
    BY <2>2
<1>3. ASSUME NEW k \in DOMAIN turns PROVE ExtractedPair(t, traj, k) = PairOf(taken, g, t, k)
  <2> DEFINE j == turns[k]
             step == traj.steps[j]
             shape == ShapeOf(taken, g, t, k)
  <2>1. HasTurn(taken, g, t, k, step)
    BY <1>1, TurnHas
  <2>2. j = StepNumber(taken, g, t, k)
    BY <1>1
  <2>3. PriorMessages(t, traj, k) = Prior(t, g, j)
    BY <1>1 DEF PriorMessages, Prior
  <2>4. ExtractedPair(t, traj, k)
          = <<IF step.prompt # <<>> /\ step.response # <<>>
              THEN step.prompt ELSE Prior(t, g, j),
              IF step.response # <<>> THEN step.response ELSE <<Message(t, g, j)>>>>
    BY <1>1, <2>3 DEF ExtractedPair
  <2> HIDE DEF g, turns, j, step, shape
  <2>5. CASE Answered(shape)
    <3>1. step.response # <<>> /\ step.response = ResponseOf(taken, g, t, k)
      BY <2>1, <2>5 DEF HasTurn, shape
    <3>2. IF step.prompt # <<>> THEN step.prompt = PromptOf(taken, g, t, k)
          ELSE Prior(t, g, j) = PromptOf(taken, g, t, k)
      BY <2>1, <2>2, <3>1 DEF HasTurn
    <3> QED
      BY <2>4, <2>5, <3>1, <3>2 DEF PairOf, shape
  <2>6. CASE ~Answered(shape)
    <3>1. step.response = <<>>
      BY <2>1, <2>6 DEF HasTurn, shape
    <3> QED
      BY <2>2, <2>4, <2>6, <3>1 DEF PairOf, shape
  <2> QED
    BY <2>5, <2>6
<1>4. ExtractedPairs(t, traj) = [k \in 1 .. Len(turns) |-> ExtractedPair(t, traj, k)]
  BY <1>1 DEF ExtractedPairs
<1> HIDE DEF turns
<1>5. ExtractedPairs(t, traj) = [k \in 1 .. Len(turns) |-> PairOf(taken, g, t, k)]
  BY <1>2, <1>3, <1>4
<1> QED
  BY <1>2, <1>5 DEF PairsAre, turns

LEMMA ExtractionFollows == ReportsInv => ExtractionAgrees
<1> SUFFICES ASSUME ReportsInv, NEW p \in Precisions
             PROVE  /\ \A t \in Tasks : trajs[p][t] # None =>
                         ExtractedPairs(t, trajs[p][t]) =
                         ExtractedPairs(t, [trajs[p][t] EXCEPT
                                              !.steps = FilledSteps(t, trajs[p][t])])
                    /\ rollouts[p] # None => \A e \in ToSet(rollouts[p].entries) :
                         GenOf(trajs[p][e.task]) = e.gen =>
                           ExtractedPairs(e.task, trajs[p][e.task])[e.turn]
                             = <<e.prompt, e.response>>
  BY DEF ExtractionAgrees
<1>1. PICK taken, made : Explained(taken, made)
  BY DEF ReportsInv
<1>2. History(taken, made) /\ DirectoryOf(taken, trajs[p])
  BY <1>1, HistoryOf DEF Explained, Trajectories
<1>3. DOMAIN taken \in SUBSET Nat /\ DOMAIN taken = 1 .. count.captures
  BY <1>1, HistoryOf DEF Explained, History
<1>4. ASSUME NEW t \in Tasks, trajs[p][t] # None
      PROVE  ExtractedPairs(t, trajs[p][t]) =
             ExtractedPairs(t, [trajs[p][t] EXCEPT !.steps = FilledSteps(t, trajs[p][t])])
  <2> DEFINE traj == trajs[p][t]
             filled == [traj EXCEPT !.steps = FilledSteps(t, traj)]
  <2>1. TrajectoryOf(taken, t, traj)
    BY <1>2, <1>4 DEF DirectoryOf
  <2>2. filled.gen = traj.gen
    BY <2>1 DEF TrajectoryOf
  <2> HIDE DEF traj
  <2>3. TrajectoryOf(taken, t, filled)
    BY <1>3, <2>1, FillKeeps
  <2> HIDE DEF filled
  <2>4. PairsAre(taken, t, traj) /\ PairsAre(taken, t, filled)
    BY <1>3, <2>1, <2>3, PairsFit
  <2>5. ExtractedPairs(t, filled) = ExtractedPairs(t, traj)
    BY <2>2, <2>4, Zenon DEF PairsAre
  <2> QED
    BY <2>5 DEF traj, filled
<1>5. ASSUME rollouts[p] # None, NEW e \in ToSet(rollouts[p].entries),
             GenOf(trajs[p][e.task]) = e.gen
      PROVE  ExtractedPairs(e.task, trajs[p][e.task])[e.turn] = <<e.prompt, e.response>>
  <2> DEFINE g == e.gen
             t == e.task
             k == e.turn
  <2>1. PICK b \in DOMAIN made : rollouts[p].entries = RolloutEntries(made[b])
    BY <1>1, <1>5 DEF Explained, BuildFiles, RolloutsFile
  <2>2. EntriesFit(taken, made[b])
    BY <1>2, EntriesMade DEF History
  <2>3. PICK i \in DOMAIN RolloutEntries(made[b]) : e = RolloutEntries(made[b])[i]
    BY <1>5, <2>1 DEF ToSet
  <2>4. EntryFits(taken, i, IndexEntries(made[b])[i], e)
    BY <2>2, <2>3 DEF EntriesFit
  <2>5. /\ Turn(taken, g, t, k) /\ Answered(ShapeOf(taken, g, t, k))
        /\ e.prompt = PromptOf(taken, g, t, k) /\ e.response = ResponseOf(taken, g, t, k)
    BY <2>4 DEF EntryFits
  <2> HIDE DEF g, t, k
  <2>6. t \in Tasks /\ g \in DOMAIN taken /\ k \in DOMAIN AssistantSteps(taken[g][t])
    BY <2>5 DEF Turn
  <2>7. trajs[p][t] # None /\ trajs[p][t].gen = g
    <3>1. g # 0 /\ GenOf(trajs[p][t]) = g
      BY <1>3, <1>5, <2>6 DEF g, t
    <3> QED
      BY <3>1 DEF GenOf
  <2>8. TrajectoryOf(taken, t, trajs[p][t])
    BY <1>2, <2>6, <2>7 DEF DirectoryOf
  <2>9. PairsAre(taken, t, trajs[p][t])
    BY <1>3, <2>6, <2>8, PairsFit
  <2>10. /\ ExtractedPairs(t, trajs[p][t])
              = [n \in 1 .. Len(AssistantSteps(taken[g][t])) |-> PairOf(taken, g, t, n)]
         /\ k \in 1 .. Len(AssistantSteps(taken[g][t]))
    BY <2>6, <2>7, <2>9 DEF PairsAre
  <2>11. ExtractedPairs(t, trajs[p][t])[k] = PairOf(taken, g, t, k)
    BY <2>10
  <2> QED
    BY <2>5, <2>11 DEF PairOf, g, t, k
<1> QED
  BY <1>4, <1>5

\* The extractor gives the same tokens of a trajectory before and after its prompts
\* were filled in, and the same as the trainers were given of its capture.
THEOREM TokensAgree == Spec => []ExtractionAgrees
  BY ExtractionFollows, EveryFileIsExplained, PTL
=============================================================================

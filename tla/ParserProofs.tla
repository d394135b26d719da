------------------------------ MODULE ParserProofs ------------------------------
(***************************************************************************)
(* The parser reads every text by the rules.  OpsByRules is proved with       *)
(* what the kinds and case labels of ops and constructs have to do with the   *)
(* text (PInv).  What a token means is a recursive function of the text, so   *)
(* its facts are proved by least counterexamples: that a construct stays      *)
(* around every position from its start to its end (Nested), from which an    *)
(* op list is complete when its construct ends.  Tokens do one of four        *)
(* things: another part of the construct (Retops), an op (Plain), a new       *)
(* construct (Begin) or the end of one (Closes).  CallsByRules is proved from *)
(* that and the kind of what a "]" closed.                                    *)
(***************************************************************************)
EXTENDS Parser, SequenceTheorems, WellFoundedInduction, TLAPS

--------------------------------------------------------------------------------
(* Sequences and least numbers.                                              *)

LEMMA Appended ==
    ASSUME NEW S, NEW s \in Seq(S), NEW x \in S
    PROVE  /\ Append(s, x) \in Seq(S) /\ Append(s, x) # <<>>
           /\ Len(Append(s, x)) = Len(s) + 1 /\ Len(s) \in Nat
           /\ \A i \in 1 .. Len(s) : Append(s, x)[i] = s[i]
           /\ Append(s, x)[Len(s) + 1] = x
OBVIOUS

LEMMA Ended ==
    ASSUME NEW S, NEW s \in Seq(S), s # <<>>
    PROVE  /\ Front(s) \in Seq(S) /\ Len(Front(s)) = Len(s) - 1
           /\ \A i \in 1 .. Len(s) - 1 : Front(s)[i] = s[i]
           /\ Last(s) = s[Len(s)] /\ Last(s) \in S
           /\ Len(s) \in Nat /\ Len(s) > 0
<1>1. Len(s) \in Nat /\ Len(s) > 0 /\ Last(s) = s[Len(s)] /\ Last(s) \in S
  BY DEF Last
<1> DEFINE n == Len(s) - 1
<1>2. n \in Nat /\ n <= Len(s)
  BY <1>1
<1>3. /\ SubSeq(s, 1, n) \in Seq(S) /\ Len(SubSeq(s, 1, n)) = n
      /\ \A i \in 1 .. n : SubSeq(s, 1, n)[i] = s[i]
  <2>1. \A i \in 1 .. n : s[i] \in S
    BY <1>2
  <2> HIDE DEF n
  <2>2. /\ SubSeq(s, 1, n) \in Seq(S)
        /\ Len(SubSeq(s, 1, n)) = IF 1 <= n THEN n - 1 + 1 ELSE 0
        /\ \A i \in 1 .. n - 1 + 1 : SubSeq(s, 1, n)[i] = s[1 + i - 1]
    BY <1>2, <2>1, SubSeqProperties
  <2>3. n - 1 + 1 = n /\ \A i \in 1 .. n : 1 + i - 1 = i
    BY <1>2
  <2> QED BY <1>2, <2>2, <2>3
<1> QED BY <1>1, <1>3 DEF Front

\* The last element is exchanged.
LEMMA Exchanged ==
    ASSUME NEW S, NEW s \in Seq(S), s # <<>>, NEW x \in S
    PROVE  LET r == Append(Front(s), x) IN
           /\ r \in Seq(S) /\ r # <<>> /\ Len(r) = Len(s) /\ Len(s) \in Nat
           /\ \A i \in 1 .. Len(s) - 1 : r[i] = s[i]
           /\ r[Len(s)] = x
<1>1. /\ Front(s) \in Seq(S) /\ Len(Front(s)) = Len(s) - 1
      /\ \A i \in 1 .. Len(s) - 1 : Front(s)[i] = s[i]
      /\ Len(s) \in Nat /\ Len(s) > 0
  BY Ended
<1> DEFINE f == Front(s)
<1> HIDE DEF f
<1>2. /\ Append(f, x) \in Seq(S) /\ Append(f, x) # <<>>
      /\ Len(Append(f, x)) = Len(f) + 1
      /\ \A i \in 1 .. Len(f) : Append(f, x)[i] = f[i]
      /\ Append(f, x)[Len(f) + 1] = x
  BY <1>1, Appended DEF f
<1>3. Len(f) = Len(s) - 1
  BY <1>1 DEF f
<1>4. Append(f, x)[Len(s)] = x /\ Len(Append(f, x)) = Len(s)
  BY <1>1, <1>2, <1>3
<1>5. \A i \in 1 .. Len(s) - 1 : Append(f, x)[i] = s[i]
  BY <1>1, <1>2, <1>3 DEF f
<1> QED BY <1>1, <1>2, <1>4, <1>5 DEF f

LEMMA Minimal ==
    \A R, T : /\ IsWellFoundedOn(R, Nat)
              /\ T \subseteq Nat /\ T # {}
              => \E x \in T : \A y \in T : ~(<<y, x>> \in R)
<1> TAKE R, T
<1> HAVE IsWellFoundedOn(R, Nat) /\ T \subseteq Nat /\ T # {}
<1> QED BY WFMin

LEMMA Least ==
    ASSUME NEW B, B \subseteq Nat, B # {}
    PROVE  \E k \in B : \A y \in B : k <= y
<1>1. \E R : IsWellFoundedOn(R, Nat) /\ \A x, y \in Nat : x < y => <<x, y>> \in R
  <2>1. IsWellFoundedOn(OpToRel(<, Nat), Nat)
    BY NatLessThanWellFounded
  <2>2. \A x, y \in Nat : x < y => <<x, y>> \in OpToRel(<, Nat)
    BY DEF OpToRel
  <2> QED BY <2>1, <2>2
<1>2. PICK R : IsWellFoundedOn(R, Nat) /\ \A x, y \in Nat : x < y => <<x, y>> \in R
  BY <1>1
<1>3. PICK k \in B : \A y \in B : ~(<<y, k>> \in R)
  BY <1>2, Minimal
<1>4. \A y \in B : y \in Nat /\ k \in Nat
  OBVIOUS
<1>5. \A y \in B : ~(y < k)
  BY <1>2, <1>3, <1>4
<1> QED BY <1>4, <1>5

--------------------------------------------------------------------------------
(* The rules of the text.                                                    *)

Entries == [kind : Kinds, at : Nat, part : Nat \ {0}]

LEMMA ReadingsExist ==
    ASSUME NEW txt, NEW n \in Nat
    PROVE  \E a : a = [j \in 1 .. n + 1 |->
               IF j = 1 THEN <<Entry("main", 0, 1)>> ELSE Meaning(a[j - 1], txt[j - 1], j - 1)]
<1> DEFINE Good(k) ==
             \E a : a = [j \in 1 .. k + 1 |->
               IF j = 1 THEN <<Entry("main", 0, 1)>> ELSE Meaning(a[j - 1], txt[j - 1], j - 1)]
           Bad == {k \in Nat : ~Good(k)}
<1>1. Good(0)
  <2> DEFINE a == [j \in 1 .. 0 + 1 |-> <<Entry("main", 0, 1)>>]
  <2>1. a = [j \in 1 .. 0 + 1 |->
               IF j = 1 THEN <<Entry("main", 0, 1)>> ELSE Meaning(a[j - 1], txt[j - 1], j - 1)]
    OBVIOUS
  <2> QED BY <2>1
<1>2. ASSUME NEW k \in Nat, Good(k) PROVE Good(k + 1)
  <2>1. PICK a : a = [j \in 1 .. k + 1 |->
               IF j = 1 THEN <<Entry("main", 0, 1)>> ELSE Meaning(a[j - 1], txt[j - 1], j - 1)]
    BY <1>2
  <2> DEFINE last == Meaning(a[k + 1], txt[k + 1], k + 1)
             f == [j \in 1 .. (k + 1) + 1 |-> IF j <= k + 1 THEN a[j] ELSE last]
  <2> HIDE DEF last
  <2>2. \A j \in 1 .. k + 1 : f[j] = a[j]
    OBVIOUS
  <2>3. ASSUME NEW j \in 1 .. (k + 1) + 1
        PROVE  f[j] = IF j = 1 THEN <<Entry("main", 0, 1)>>
                      ELSE Meaning(f[j - 1], txt[j - 1], j - 1)
    <3>1. CASE j = 1
      BY <2>1, <2>2, <3>1
    <3>2. CASE j # 1 /\ j <= k + 1
      <4>1. j - 1 \in 1 .. k + 1 /\ j \in 1 .. k + 1
        BY <3>2
      <4>2. a[j] = Meaning(a[j - 1], txt[j - 1], j - 1)
        BY <2>1, <3>2, <4>1
      <4> HIDE DEF f
      <4> QED BY <2>2, <3>2, <4>1, <4>2
    <3>3. CASE j = k + 2
      <4>1. f[j] = last /\ j - 1 = k + 1 /\ j # 1
        BY <3>3
      <4> HIDE DEF f
      <4> QED BY <2>2, <3>3, <4>1 DEF last
    <3> QED BY <3>1, <3>2, <3>3
  <2>4. f = [j \in 1 .. (k + 1) + 1 |->
               IF j = 1 THEN <<Entry("main", 0, 1)>> ELSE Meaning(f[j - 1], txt[j - 1], j - 1)]
    <3>1. f = [j \in 1 .. (k + 1) + 1 |-> f[j]]
      OBVIOUS
    <3> HIDE DEF f
    <3> QED BY <2>3, <3>1
  <2> QED BY <2>4
<1> HIDE DEF Good
<1>3. ASSUME Bad # {} PROVE FALSE
  <2>1. PICK k \in Bad : \A y \in Bad : k <= y
    BY <1>3, Least
  <2>2. k # 0
    BY <1>1
  <2>3. k - 1 \in Nat /\ k - 1 \notin Bad
    BY <2>1, <2>2
  <2>4. Good((k - 1) + 1)
    BY <1>2, <2>3
  <2>5. (k - 1) + 1 = k
    BY <2>1
  <2>6. Good(k)
    BY <2>4, <2>5
  <2> QED BY <2>1, <2>6
<1> QED BY <1>3 DEF Good

\* Readings is what its recursion says.
LEMMA ReadingsDef ==
    ASSUME NEW S, NEW txt \in Seq(S)
    PROVE  /\ Readings(txt)[1] = <<Entry("main", 0, 1)>>
           /\ \A j \in 1 .. Len(txt) :
                 Readings(txt)[j + 1] = Meaning(Readings(txt)[j], txt[j], j)
<1>1. Len(txt) \in Nat
  OBVIOUS
<1> DEFINE Is(a) == a = [j \in 1 .. Len(txt) + 1 |->
               IF j = 1 THEN <<Entry("main", 0, 1)>> ELSE Meaning(a[j - 1], txt[j - 1], j - 1)]
<1>2. \E a : Is(a)
  BY <1>1, ReadingsExist
<1>3. Is(Readings(txt))
  BY <1>2, Zenon DEF Readings
<1> DEFINE r == Readings(txt)
<1> HIDE DEF r
<1>4. r[1] = <<Entry("main", 0, 1)>>
  BY <1>1, <1>3 DEF r
<1>5. ASSUME NEW j \in 1 .. Len(txt) PROVE r[j + 1] = Meaning(r[j], txt[j], j)
  <2>1. j + 1 \in 1 .. Len(txt) + 1 /\ j + 1 # 1 /\ (j + 1) - 1 = j
    BY <1>1
  <2> QED BY <1>3, <2>1 DEF r
<1> QED BY <1>4, <1>5 DEF r

\* What a token does to the constructs around it.
LEMMA MeaningCases ==
    ASSUME NEW around \in Seq(Entries), around # <<>>, NEW t, NEW j \in Nat \ {0}
    PROVE  LET m == Meaning(around, t, j) IN
           \/ t \in Opening /\ m = Append(around, Entry(t, j, 1))
           \/ Len(around) > 1 /\ m = Front(around)
           \/ m = around
           \/ \E e \in Entries : /\ e.at = Last(around).at /\ e.part >= Last(around).part
                                 /\ m = Append(Front(around), e)
<1>1. Last(around) \in Entries
  BY Ended
<1> DEFINE top == Last(around)
<1>2. top.kind \in Kinds /\ top.at \in Nat /\ top.part \in Nat \ {0}
  BY <1>1 DEF Entries
<1>3. ASSUME NEW k \in Kinds, NEW p \in Nat, p >= top.part
      PROVE  /\ Entry(k, top.at, p) \in Entries
             /\ Entry(k, top.at, p).at = top.at /\ Entry(k, top.at, p).part >= top.part
  BY <1>2, <1>3 DEF Entries, Entry
<1>4. {"20", "a=", "switch {"} \subseteq Kinds
  BY DEF Kinds, Opening, Bodies, Values
<1>5. top.part + 1 \in Nat /\ top.part + 1 >= top.part /\ top.part >= top.part /\ top.part \in Nat
  BY <1>2
<1>6. CASE t \in Opening /\ (t = "/1" => Len(around) = 1)
  BY <1>6 DEF Meaning
<1>7. CASE ~(t \in Opening /\ (t = "/1" => Len(around) = 1)) /\ Len(around) > 1 /\ t \in Ends(top.kind)
  BY <1>7 DEF Meaning
<1> DEFINE m == Meaning(around, t, j)
           Now(k, p) == Append(Front(around), Entry(k, top.at, p))
<1>8. CASE /\ ~(t \in Opening /\ (t = "/1" => Len(around) = 1))
           /\ ~(Len(around) > 1 /\ t \in Ends(top.kind))
  <2>1. \/ m = around
        \/ m = Now("20", 2) /\ top.part = 1
        \/ m = Now(top.kind, top.part + 1)
        \/ m = Now("a=", top.part + 1)
        \/ m = Now("switch {", top.part)
    BY <1>8 DEF Meaning
  <2>2. ASSUME NEW k \in Kinds, NEW p \in Nat, p >= top.part, m = Now(k, p)
        PROVE  \E e \in Entries : /\ e.at = top.at /\ e.part >= top.part
                                  /\ m = Append(Front(around), e)
    BY <1>3, <2>2
  <2> HIDE DEF m, Now, top
  <2>3. m = Now("20", 2) /\ top.part = 1 => 2 \in Nat /\ 2 >= top.part
    OBVIOUS
  <2>4. \/ m = around
        \/ \E e \in Entries : /\ e.at = top.at /\ e.part >= top.part
                                  /\ m = Append(Front(around), e)
    BY <1>2, <1>4, <1>5, <2>1, <2>2, <2>3
  <2> QED BY <2>4 DEF m, top
<1> QED BY <1>6, <1>7, <1>8

\* A construct stays around until it is left, its part only grows, and what is
\* around it does not change.
Nests(txt, j) ==
    LET r == Readings(txt)
        a == r[j]
    IN  /\ a \in Seq(Entries) /\ a # <<>> /\ a[1].at = 0
        /\ \A i \in 2 .. Len(a) :
             /\ a[i].at \in 1 .. j - 1 /\ txt[a[i].at] \in Opening
             /\ Len(r[a[i].at]) = i - 1
             /\ \A m \in 1 .. i - 1 : r[a[i].at][m] = a[m]
        /\ \A i \in 1 .. Len(a) : \A p \in a[i].at + 1 .. j :
             Len(r[p]) >= i /\ r[p][i].at = a[i].at /\ r[p][i].part <= a[i].part

LEMMA MeaningKeeps ==
    ASSUME NEW a \in Seq(Entries), a # <<>>, NEW t, NEW j \in Nat \ {0}
    PROVE  LET b == Meaning(a, t, j) IN
           /\ b \in Seq(Entries) /\ b # <<>> /\ Len(b) \in Nat
           /\ \A i \in 1 .. Len(b) :
                /\ i <= Len(a) => b[i].at = a[i].at /\ b[i].part >= a[i].part
                /\ i > Len(a) => i = Len(a) + 1 /\ b[i] = Entry(t, j, 1) /\ t \in Opening
                /\ \A m \in 1 .. i - 1 : m <= Len(a) /\ b[m] = a[m]
<1> DEFINE b == Meaning(a, t, j)
           n == Len(a)
<1>0. n \in Nat /\ n > 0 /\ \A i \in 1 .. n : a[i] \in Entries
  BY Ended
<1>a. \A i \in 1 .. n : a[i].part >= a[i].part
  BY <1>0 DEF Entries
<1>c. /\ Last(a) = a[n] /\ Front(a) \in Seq(Entries) /\ Len(Front(a)) = n - 1
      /\ \A i \in 1 .. n - 1 : Front(a)[i] = a[i]
  BY Ended
<1>1. CASE t \in Opening /\ b = Append(a, Entry(t, j, 1))
  <2>1. Entry(t, j, 1) \in Entries
    <3> HIDE DEF b
    <3>1. t \in Opening
      BY <1>1
    <3>2. t \in Kinds
      BY <3>1, Zenon DEF Kinds
    <3>3. j \in Nat /\ 1 \in Nat \ {0}
      OBVIOUS
    <3> QED BY <3>2, <3>3 DEF Entries, Entry
  <2> DEFINE e == Entry(t, j, 1)
  <2>0. e \in Entries /\ b = Append(a, e)
    BY <1>1, <2>1
  <2> HIDE DEF b, n, e
  <2>2. /\ b \in Seq(Entries) /\ b # <<>> /\ Len(b) = n + 1
        /\ (\A i \in 1 .. n : b[i] = a[i]) /\ b[n + 1] = e
    BY <2>0, Appended DEF n
  <2>3. ASSUME NEW i \in 1 .. Len(b)
        PROVE  /\ i <= n => b[i].at = a[i].at /\ b[i].part >= a[i].part
               /\ i > n => i = n + 1 /\ b[i] = e /\ t \in Opening
               /\ \A m \in 1 .. i - 1 : m <= n /\ b[m] = a[m]
    <3>1. i \in Nat /\ i > 0 /\ i <= n + 1
      BY <1>0, <2>2
    <3>2. i <= n => b[i].at = a[i].at /\ b[i].part >= a[i].part
      BY <1>0, <1>a, <2>2, <3>1
    <3>3. i > n => i = n + 1 /\ b[i] = e /\ t \in Opening
      BY <1>0, <1>1, <2>2, <3>1
    <3>4. \A m \in 1 .. i - 1 : m <= n /\ b[m] = a[m]
      BY <1>0, <2>2, <3>1
    <3> QED BY <3>2, <3>3, <3>4
  <2>4. Len(b) \in Nat
    BY <1>0, <2>2
  <2> QED BY <2>2, <2>3, <2>4 DEF b, n, e
<1>2. CASE Len(a) > 1 /\ b = Front(a)
  <2> HIDE DEF b, n
  <2>1. b \in Seq(Entries) /\ Len(b) = n - 1 /\ n > 1 /\ \A i \in 1 .. n - 1 : b[i] = a[i]
    BY <1>2, <1>c DEF n
  <2>2. b # <<>> /\ Len(b) \in Nat
    BY <1>0, <2>1
  <2>3. ASSUME NEW i \in 1 .. Len(b)
        PROVE  /\ i <= n => b[i].at = a[i].at /\ b[i].part >= a[i].part
               /\ i > n => i = n + 1 /\ b[i] = Entry(t, j, 1) /\ t \in Opening
               /\ \A m \in 1 .. i - 1 : m <= n /\ b[m] = a[m]
    <3>1. i \in 1 .. n - 1 /\ i \in 1 .. n /\ ~(i > n)
      BY <1>0, <2>1
    <3>2. \A m \in 1 .. i - 1 : m <= n /\ b[m] = a[m]
      BY <1>0, <2>1, <3>1
    <3> QED BY <1>a, <2>1, <3>1, <3>2
  <2> QED BY <2>1, <2>2, <2>3 DEF b, n
<1>3. CASE b = a
  <2> HIDE DEF b, n
  <2>1. ASSUME NEW i \in 1 .. Len(b)
        PROVE  /\ i <= n => b[i].at = a[i].at /\ b[i].part >= a[i].part
               /\ i > n => i = n + 1 /\ b[i] = Entry(t, j, 1) /\ t \in Opening
               /\ \A m \in 1 .. i - 1 : m <= n /\ b[m] = a[m]
    <3>1. i \in 1 .. n /\ ~(i > n)
      BY <1>0, <1>3 DEF n
    <3>2. \A m \in 1 .. i - 1 : m <= n /\ b[m] = a[m]
      BY <1>0, <1>3, <3>1
    <3> QED BY <1>3, <1>a, <3>1, <3>2
  <2>2. b \in Seq(Entries) /\ b # <<>> /\ Len(b) \in Nat
    BY <1>0, <1>3 DEF n
  <2> QED BY <2>1, <2>2 DEF b, n
<1>4. ASSUME NEW e \in Entries, e.at = Last(a).at, e.part >= Last(a).part,
             b = Append(Front(a), e)
      PROVE  /\ b \in Seq(Entries) /\ b # <<>> /\ Len(b) \in Nat
             /\ \A i \in 1 .. Len(b) :
                  /\ i <= n => b[i].at = a[i].at /\ b[i].part >= a[i].part
                  /\ i > n => i = n + 1 /\ b[i] = Entry(t, j, 1) /\ t \in Opening
                  /\ \A m \in 1 .. i - 1 : m <= n /\ b[m] = a[m]
  <2>0. e.at = a[n].at /\ e.part >= a[n].part
    BY <1>4, <1>c
  <2> HIDE DEF b, n
  <2>1. /\ b \in Seq(Entries) /\ b # <<>> /\ Len(b) = n
        /\ (\A i \in 1 .. n - 1 : b[i] = a[i]) /\ b[n] = e
    BY <1>4, Exchanged DEF n
  <2>2. ASSUME NEW i \in 1 .. Len(b)
        PROVE  /\ i <= n => b[i].at = a[i].at /\ b[i].part >= a[i].part
               /\ i > n => i = n + 1 /\ b[i] = Entry(t, j, 1) /\ t \in Opening
               /\ \A m \in 1 .. i - 1 : m <= n /\ b[m] = a[m]
    <3>1. i \in 1 .. n /\ ~(i > n) /\ (i \in 1 .. n - 1 \/ i = n)
      BY <1>0, <2>1
    <3>2. \A m \in 1 .. i - 1 : m <= n /\ b[m] = a[m]
      BY <1>0, <2>1, <3>1
    <3>3. b[i].at = a[i].at /\ b[i].part >= a[i].part
      BY <1>a, <2>0, <2>1, <3>1
    <3> QED BY <3>1, <3>2, <3>3
  <2> QED BY <1>0, <2>1, <2>2
<1>5. \/ t \in Opening /\ b = Append(a, Entry(t, j, 1))
      \/ Len(a) > 1 /\ b = Front(a)
      \/ b = a
      \/ \E e \in Entries : e.at = Last(a).at /\ e.part >= Last(a).part /\ b = Append(Front(a), e)
  BY MeaningCases
<1> HIDE DEF b, n
<1> QED BY <1>1, <1>2, <1>3, <1>4, <1>5 DEF b, n

LEMMA NestsNext ==
    ASSUME NEW S, NEW txt \in Seq(S), NEW j \in 1 .. Len(txt),
           \A p \in 1 .. j : Nests(txt, p)
    PROVE  Nests(txt, j + 1)
<1> DEFINE r == Readings(txt)
           a == r[j]
           b == r[j + 1]
           t == txt[j]
<1>0. Len(txt) \in Nat /\ j \in Nat /\ j > 0
  OBVIOUS
<1>1. b = Meaning(a, t, j)
  BY ReadingsDef
<1>n. Nests(txt, j)
  BY <1>0
<1>2. a \in Seq(Entries) /\ a # <<>> /\ a[1].at = 0
  BY <1>n DEF Nests
<1>p. ASSUME NEW p \in 1 .. j PROVE r[p] \in Seq(Entries) /\ Len(r[p]) \in Nat
  <2>1. Nests(txt, p)
    OBVIOUS
  <2> QED BY <2>1 DEF Nests
<1>3. ASSUME NEW i \in 2 .. Len(a)
      PROVE  /\ a[i].at \in 1 .. j - 1 /\ txt[a[i].at] \in Opening
             /\ Len(r[a[i].at]) = i - 1
             /\ \A m \in 1 .. i - 1 : r[a[i].at][m] = a[m]
  BY <1>n DEF Nests
<1>4. ASSUME NEW i \in 1 .. Len(a), NEW p \in a[i].at + 1 .. j
      PROVE  Len(r[p]) >= i /\ r[p][i].at = a[i].at /\ r[p][i].part <= a[i].part
  BY <1>n DEF Nests
<1> HIDE DEF r, a, b, t
<1>5. /\ b \in Seq(Entries) /\ b # <<>> /\ Len(b) \in Nat
      /\ \A i \in 1 .. Len(b) :
           /\ i <= Len(a) => b[i].at = a[i].at /\ b[i].part >= a[i].part
           /\ i > Len(a) => i = Len(a) + 1 /\ b[i] = Entry(t, j, 1) /\ t \in Opening
           /\ \A m \in 1 .. i - 1 : m <= Len(a) /\ b[m] = a[m]
  BY <1>0, <1>1, <1>2, MeaningKeeps
<1>6. Len(a) \in Nat /\ Len(a) > 0 /\ Len(b) > 0 /\ 1 \in 1 .. Len(b)
  BY <1>2, <1>5
<1>7. b[1].at = 0
  BY <1>2, <1>5, <1>6
<1>8. ASSUME NEW i \in 2 .. Len(b)
      PROVE  /\ b[i].at \in 1 .. j /\ txt[b[i].at] \in Opening
             /\ Len(r[b[i].at]) = i - 1
             /\ \A m \in 1 .. i - 1 : r[b[i].at][m] = b[m]
  <2>1. i \in 1 .. Len(b)
    BY <1>6
  <2>2. \A m \in 1 .. i - 1 : m <= Len(a) /\ b[m] = a[m]
    BY <1>5, <2>1
  <2>3. CASE i <= Len(a)
    <3>1. i \in 2 .. Len(a) /\ b[i].at = a[i].at
      BY <1>5, <1>6, <2>1, <2>3
    <3>2. a[i].at \in 1 .. j
      BY <1>0, <1>3, <3>1
    <3> QED BY <1>3, <2>2, <3>1, <3>2
  <2>4. CASE i > Len(a)
    <3>1. i = Len(a) + 1 /\ b[i] = Entry(t, j, 1) /\ t \in Opening
      BY <1>5, <2>1, <2>4
    <3>2. b[i].at = j /\ j \in 1 .. j /\ txt[j] \in Opening
      BY <1>0, <3>1 DEF Entry, t
    <3>3. r[j] = a /\ Len(a) = i - 1
      BY <1>6, <3>1 DEF a
    <3> QED BY <2>2, <3>2, <3>3
  <2> QED BY <1>6, <2>3, <2>4
<1>9. ASSUME NEW i \in 1 .. Len(b), NEW p \in b[i].at + 1 .. j + 1
      PROVE  Len(r[p]) >= i /\ r[p][i].at = b[i].at /\ r[p][i].part <= b[i].part
  <2>0. b[i] \in Entries /\ b[i].part \in Nat /\ b[i].at \in Nat
    <3>1. b[i] \in Entries
      BY <1>5
    <3> QED BY <3>1 DEF Entries
  <2>1. CASE p = j + 1
    <3>1. r[p] = b
      BY <2>1 DEF b
    <3>2. Len(b) >= i /\ b[i].part <= b[i].part
      BY <1>5, <2>0
    <3> QED BY <3>1, <3>2
  <2>2. CASE p # j + 1 /\ i <= Len(a)
    <3>1. b[i].at = a[i].at /\ b[i].part >= a[i].part /\ i \in 1 .. Len(a)
      BY <1>5, <1>6, <2>2
    <3>2. p \in a[i].at + 1 .. j
      BY <1>0, <2>0, <2>2, <3>1
    <3>3. Len(r[p]) >= i /\ r[p][i].at = a[i].at /\ r[p][i].part <= a[i].part
      BY <1>4, <3>1, <3>2
    <3>4. a[i] \in Entries
      BY <1>2, <3>1
    <3>5. p \in 1 .. j
      BY <2>0, <3>1, <3>2
    <3>6. r[p][i] \in Entries
      BY <1>p, <1>6, <3>3, <3>5
    <3>7. a[i].part \in Nat /\ r[p][i].part \in Nat
      BY <3>4, <3>6 DEF Entries
    <3>8. \A x, y, z \in Nat : x <= y /\ y <= z => x <= z
      OBVIOUS
    <3>9. b[i].part >= a[i].part => a[i].part <= b[i].part
      BY <2>0, <3>7
    <3>10. r[p][i].part <= b[i].part
      BY <2>0, <3>1, <3>3, <3>7, <3>8, <3>9, Zenon
    <3> QED BY <3>1, <3>3, <3>10, Zenon
  <2>3. CASE p # j + 1 /\ i > Len(a)
    <3>1. b[i].at = j
      BY <1>5, <2>3 DEF Entry
    <3> QED BY <1>0, <2>3, <3>1
  <2> QED BY <1>6, <2>1, <2>2, <2>3
<1>10. (j + 1) - 1 = j
  BY <1>0
<1> QED BY <1>5, <1>7, <1>8, <1>9, <1>10 DEF Nests, r, b

LEMMA Nested ==
    ASSUME NEW S, NEW txt \in Seq(S), NEW j \in 1 .. Len(txt) + 1
    PROVE  Nests(txt, j)
<1>0. Len(txt) \in Nat
  OBVIOUS
<1>1. Nests(txt, 1)
  <2> DEFINE a == Readings(txt)[1]
  <2>1. a = <<Entry("main", 0, 1)>>
    BY ReadingsDef
  <2>2. Entry("main", 0, 1) \in Entries
    BY DEF Entry, Entries, Kinds
  <2>3. a \in Seq(Entries) /\ a # <<>> /\ Len(a) = 1 /\ a[1] = Entry("main", 0, 1)
    BY <2>1, <2>2
  <2>4. a[1].at = 0 /\ a[1].part = 1
    BY <2>3 DEF Entry
  <2> HIDE DEF a
  <2>5. \A i \in 1 .. Len(a) : i = 1
    BY <2>3
  <2>6. ASSUME NEW i \in 1 .. Len(a), NEW p \in a[i].at + 1 .. 1
        PROVE  p = 1 /\ i = 1 /\ Len(a) >= i /\ a[i].part <= a[i].part
    <3>1. i = 1
      BY <2>5
    <3> QED BY <2>3, <2>4, <3>1
  <2>7. 2 .. Len(a) = {}
    BY <2>3
  <2> QED BY <2>3, <2>4, <2>6, <2>7 DEF Nests, a
<1> DEFINE Bad == {k \in Nat : k \in 1 .. Len(txt) + 1 /\ ~Nests(txt, k)}
<1>2. ASSUME Bad # {} PROVE FALSE
  <2>1. PICK k \in Bad : \A y \in Bad : k <= y
    BY <1>2, Least
  <2>2. k \in Nat /\ k \in 1 .. Len(txt) + 1 /\ k # 1 /\ ~Nests(txt, k)
    BY <1>1, <2>1
  <2>3. k - 1 \in 1 .. Len(txt) /\ (k - 1) + 1 = k
    BY <1>0, <2>2
  <2>4. ASSUME NEW p \in 1 .. k - 1 PROVE Nests(txt, p)
    <3>1. p \in Nat /\ p \in 1 .. Len(txt) + 1 /\ ~(k <= p)
      BY <1>0, <2>2
    <3> QED BY <2>1, <3>1
  <2>5. Nests(txt, (k - 1) + 1)
    BY <2>3, <2>4, NestsNext
  <2> QED BY <2>2, <2>3, <2>5
<1> QED BY <1>0, <1>2

\* The constructs around a position, as facts to use.
LEMMA ReadingsAppend ==
    ASSUME NEW S, NEW txt \in Seq(S), NEW t \in S
    PROVE  LET new == Append(txt, t) IN
           /\ \A j \in 1 .. Len(txt) + 1 : Readings(new)[j] = Readings(txt)[j]
           /\ Readings(new)[Len(txt) + 2] = Meaning(Readings(txt)[Len(txt) + 1], t, Len(txt) + 1)
<1> DEFINE new == Append(txt, t)
           n == Len(txt)
           r == Readings(txt)
           q == Readings(new)
           Bad == {k \in Nat : k \in 1 .. n + 1 /\ q[k] # r[k]}
<1>1. /\ new \in Seq(S) /\ n \in Nat /\ Len(new) = n + 1
      /\ (\A j \in 1 .. n : new[j] = txt[j]) /\ new[n + 1] = t
  BY Appended
<1>2. r[1] = <<Entry("main", 0, 1)>> /\ \A j \in 1 .. n : r[j + 1] = Meaning(r[j], txt[j], j)
  BY ReadingsDef
<1>3. /\ q[1] = <<Entry("main", 0, 1)>>
      /\ \A j \in 1 .. Len(new) : q[j + 1] = Meaning(q[j], new[j], j)
  <2> HIDE DEF new
  <2> QED BY <1>1, ReadingsDef
<1> HIDE DEF new, n, r, q
<1>4. ASSUME Bad # {} PROVE FALSE
  <2>1. PICK k \in Bad : \A y \in Bad : k <= y
    BY <1>4, Least
  <2>2. k # 1 /\ k \in 1 .. n + 1 /\ k \in Nat
    BY <1>2, <1>3, <2>1
  <2>3. k - 1 \in 1 .. n /\ k - 1 \in 1 .. Len(new) /\ (k - 1) + 1 = k
    BY <1>1, <2>2
  <2>4. q[k - 1] = r[k - 1]
    <3>1. k - 1 \in Nat /\ k - 1 \in 1 .. n + 1 /\ ~(k <= k - 1)
      BY <1>1, <2>2, <2>3
    <3> QED BY <2>1, <3>1
  <2>5. r[(k - 1) + 1] = Meaning(r[k - 1], txt[k - 1], k - 1)
    BY <1>2, <2>3
  <2>6. q[(k - 1) + 1] = Meaning(q[k - 1], new[k - 1], k - 1)
    BY <1>3, <2>3
  <2>7. new[k - 1] = txt[k - 1]
    BY <1>1, <2>3
  <2>8. q[k] = r[k]
    BY <2>3, <2>4, <2>5, <2>6, <2>7
  <2> QED BY <2>1, <2>8
<1>5. \A j \in 1 .. n + 1 : q[j] = r[j]
  BY <1>1, <1>4
<1>6. n + 1 \in 1 .. Len(new) /\ n + 1 \in 1 .. n + 1 /\ (n + 1) + 1 = n + 2
  BY <1>1
<1>7. q[n + 2] = Meaning(r[n + 1], t, n + 1)
  BY <1>1, <1>3, <1>5, <1>6
<1> QED BY <1>5, <1>7 DEF new, n, q, r

--------------------------------------------------------------------------------
(* The invariant: besides the properties, kinds and case labels are those of   *)
(* the text.                                                                 *)

\* The kind a construct began with, and what became of it.
Became(kind, now) ==
    kind = now \/ (kind = "a[" /\ now = "a=") \/ (kind = "switch" /\ now = "switch {")

Childless(p) == text[p] \in Plain \/ (text[p] = "/1" /\ p \notin Definitions)

KindsKept ==
    status # "error" =>
        /\ \A p \in DOMAIN ops : /\ Became(text[p], ops[p].kind)
                                 /\ ops[p].subs = <<>> <=> Childless(p)
        /\ \A i \in 2 .. Len(open) : Became(text[open[i].at], open[i].kind)
        /\ \A j \in 1 .. Here : \A i \in 2 .. Len(Around(j)) :
             LET e == Around(j)[i] IN
             /\ e.at \in DOMAIN ops => Became(e.kind, ops[e.at].kind)
             /\ \A m \in 2 .. Len(open) : open[m].at = e.at => Became(e.kind, open[m].kind)
             /\ j \in Starts /\ e.kind = "switch {" => e.part > 1
             /\ j \in Starts /\ e.kind = "switch" => e.part = 1
        /\ \A m \in 1 .. Len(open) - 1 : open[m].kind = "switch {" => open[m].labels # <<>>

\* Labels are those of the case groups they begin.
Labelled(at, labels) ==
    /\ \A j \in DOMAIN text :
         text[j] \in Labels /\ Innermost(j).at = at =>
             /\ Innermost(j).part \in DOMAIN labels
             /\ labels[Innermost(j).part] = text[j]
    /\ \A k \in DOMAIN labels : \E j \in DOMAIN text :
         text[j] = labels[k] /\ Innermost(j).at = at /\ Innermost(j).part = k

LabelsKept ==
    status # "error" =>
        /\ \A p \in DOMAIN ops : Labelled(p, ops[p].labels)
        /\ \A i \in DOMAIN open : Labelled(open[i].at, open[i].labels)

PInv == ParserTypeOK /\ OpsByRules /\ KindsKept /\ LabelsKept

--------------------------------------------------------------------------------
(* What the invariant says of the constructs that are open.                   *)

LEMMA Positions ==
    ASSUME ParserTypeOK, NEW j \in 1 .. Here
    PROVE  /\ Len(text) \in Nat /\ Here \in Nat /\ Here = Len(text) + 1
           /\ DOMAIN text = 1 .. Len(text)
           /\ Around(j) \in Seq(Entries) /\ Around(j) # <<>> /\ Len(Around(j)) \in Nat
           /\ Len(Around(j)) > 0 /\ Around(j)[1].at = 0
           /\ Innermost(j) = Around(j)[Len(Around(j))]
           /\ \A i \in 1 .. Len(Around(j)) :
                Around(j)[i].at \in Nat /\ Around(j)[i].part \in Nat \ {0}
           /\ \A i \in 2 .. Len(Around(j)) :
                LET q == Around(j)[i].at IN
                /\ q \in 1 .. j - 1 /\ q \in DOMAIN text /\ q \in 1 .. Here
                /\ text[q] \in Opening
                /\ Len(Around(q)) = i - 1
                /\ \A m \in 1 .. i - 1 : Around(q)[m] = Around(j)[m]
           /\ \A i \in 1 .. Len(Around(j)) : \A p \in Around(j)[i].at + 1 .. j :
                /\ Len(Around(p)) >= i /\ Around(p)[i].at = Around(j)[i].at
                /\ Around(p)[i].part <= Around(j)[i].part
<1>1. text \in Seq(Tokens) /\ Len(text) \in Nat /\ Here = Len(text) + 1 /\ DOMAIN text = 1 .. Len(text)
  BY DEF ParserTypeOK, Here
<1>2. Nests(text, j)
  BY <1>1, Nested
<1> DEFINE a == Around(j)
<1>3. a \in Seq(Entries) /\ a # <<>> /\ a[1].at = 0
  BY <1>2 DEF Nests, Around
<1>4. \A i \in 2 .. Len(a) :
         LET q == a[i].at IN
         /\ q \in 1 .. j - 1 /\ text[q] \in Opening /\ Len(Around(q)) = i - 1
         /\ \A m \in 1 .. i - 1 : Around(q)[m] = a[m]
  BY <1>2 DEF Nests, Around
<1>5. \A i \in 1 .. Len(a) : \A p \in a[i].at + 1 .. j :
         Len(Around(p)) >= i /\ Around(p)[i].at = a[i].at /\ Around(p)[i].part <= a[i].part
  BY <1>2 DEF Nests, Around
<1> HIDE DEF a
<1>6. Len(a) \in Nat /\ Len(a) > 0 /\ Last(a) = a[Len(a)] /\ \A i \in 1 .. Len(a) : a[i] \in Entries
  <2>1. \A i \in 1 .. Len(a) : a[i] \in Entries
    BY <1>3
  <2> QED BY <1>3, <2>1, Ended
<1>7. \A i \in 1 .. Len(a) : a[i].at \in Nat /\ a[i].part \in Nat \ {0}
  BY <1>6 DEF Entries
<1>8. ASSUME NEW q \in 1 .. j - 1 PROVE q \in DOMAIN text /\ q \in 1 .. Here
  BY <1>1
<1>9. \A i \in 2 .. Len(a) :
         LET q == a[i].at IN
         /\ q \in 1 .. j - 1 /\ q \in DOMAIN text /\ q \in 1 .. Here
         /\ text[q] \in Opening /\ Len(Around(q)) = i - 1
         /\ \A m \in 1 .. i - 1 : Around(q)[m] = a[m]
  BY <1>4, <1>8
<1>10. Innermost(j) = a[Len(a)]
  BY <1>6 DEF Innermost, a
<1>11. Here \in Nat
  BY <1>1
<1> QED BY <1>1, <1>3, <1>5, <1>6, <1>7, <1>9, <1>10, <1>11 DEF a

\* The constructs around a position began one after the other.
LEMMA Outward ==
    ASSUME ParserTypeOK, NEW j \in 1 .. Here,
           NEW i \in 1 .. Len(Around(j)), NEW m \in 1 .. i - 1
    PROVE  Around(j)[m].at < Around(j)[i].at
<1>1. i \in 2 .. Len(Around(j)) /\ m \in Nat /\ i \in Nat
  BY Positions
<1> DEFINE q == Around(j)[i].at
<1>2. q \in 1 .. Here /\ q \in Nat /\ q > 0 /\ Len(Around(q)) = i - 1 /\ Around(q)[m] = Around(j)[m]
  <2>1. /\ q \in 1 .. Here /\ Len(Around(q)) = i - 1
        /\ \A k \in 1 .. i - 1 : Around(q)[k] = Around(j)[k]
    BY <1>1, Positions
  <2> QED BY <2>1
<1> HIDE DEF q
<1>3. CASE m = 1
  <2>1. Around(q)[1].at = 0
    BY <1>2, Positions
  <2> QED BY <1>2, <1>3, <2>1 DEF q
<1>4. CASE m # 1
  <2>1. m \in 2 .. Len(Around(q))
    BY <1>1, <1>2, <1>4
  <2>2. Around(q)[m].at \in 1 .. q - 1
    BY <1>2, <2>1, Positions
  <2>3. Around(q)[m].at < q
    BY <1>2, <2>2
  <2> QED BY <1>2, <2>3 DEF q
<1> QED BY <1>3, <1>4

LEMMA OpenFacts ==
    ASSUME PInv, status # "error"
    PROVE  /\ Len(open) \in Nat /\ Len(open) > 0 /\ DOMAIN open = 1 .. Len(open)
           /\ Len(open) <= Len(Around(Here)) /\ Here \in 1 .. Here
           /\ \A i \in 1 .. Len(open) :
                /\ open[i] \in Constructs
                /\ Around(Here)[i] = Entry(open[i].kind, open[i].at, Len(open[i].lists))
                /\ open[i].at \in Nat /\ Len(open[i].lists) \in Nat
                /\ \A p \in open[i].at + 1 .. Here :
                     /\ Len(Around(p)) >= i /\ Around(p)[i].at = open[i].at
                     /\ Around(p)[i].part <= Len(open[i].lists)
                /\ \A m \in 1 .. i - 1 : open[m].at < open[i].at
           /\ open[1].at = 0
           /\ \A i \in 2 .. Len(open) :
                LET q == open[i].at IN
                /\ q \in 1 .. Len(text) /\ q \in Starts /\ text[q] \in Opening
                /\ Len(Around(q)) = i - 1
                /\ \A m \in 1 .. i - 1 : Around(q)[m] = Around(Here)[m]
<1> DEFINE n == Len(open)
           a == Around(Here)
<1>0. ParserTypeOK /\ OpsByRules
  BY DEF PInv
<1>1. open \in Seq(Constructs) /\ open # <<>>
  BY <1>0 DEF ParserTypeOK
<1>2. n \in Nat /\ n > 0 /\ DOMAIN open = 1 .. n /\ \A i \in 1 .. n : open[i] \in Constructs
  BY <1>1
<1>3. Here \in 1 .. Here
  BY <1>0 DEF ParserTypeOK, Here
<1>4. n <= Len(a) /\ \A i \in 1 .. n : a[i] = Entry(open[i].kind, open[i].at, Len(open[i].lists))
  BY <1>0, <1>2 DEF OpsByRules
<1> HIDE DEF n, a
<1>5. ASSUME NEW i \in 1 .. n PROVE a[i].at = open[i].at /\ a[i].part = Len(open[i].lists)
  <2>1. a[i] = Entry(open[i].kind, open[i].at, Len(open[i].lists))
    BY <1>4
  <2> QED BY <2>1 DEF Entry
<1>6. \A i \in 1 .. n : open[i].at \in Nat /\ Len(open[i].lists) \in Nat
  <2>1. \A i \in 1 .. n : open[i].at \in Nat /\ open[i].lists \in Parts
    BY <1>2 DEF Constructs
  <2> QED BY <2>1 DEF Parts
<1>7. Len(a) \in Nat
  BY <1>0, <1>3, Positions DEF a
<1>8. 1 .. n \subseteq 1 .. Len(a) /\ 2 .. n \subseteq 2 .. Len(a) /\ 2 .. n \subseteq 1 .. n
  BY <1>2, <1>4, <1>7
<1>9. ASSUME NEW i \in 1 .. n, NEW p \in open[i].at + 1 .. Here
      PROVE  /\ Len(Around(p)) >= i /\ Around(p)[i].at = open[i].at
             /\ Around(p)[i].part <= Len(open[i].lists)
  <2>1. i \in 1 .. Len(a) /\ a[i].at = open[i].at /\ a[i].part = Len(open[i].lists)
    BY <1>5, <1>8
  <2> QED BY <1>0, <1>3, <2>1, Positions DEF a
<1>10. ASSUME NEW i \in 1 .. n, NEW m \in 1 .. i - 1
       PROVE  open[m].at < open[i].at
  <2>1. i \in 1 .. Len(a) /\ m \in 1 .. n
    BY <1>2, <1>8
  <2>2. a[m].at < a[i].at
    BY <1>0, <1>3, <2>1, Outward DEF a
  <2> QED BY <1>5, <2>1, <2>2
<1>11. open[1].at = 0
  <2>1. a[1].at = 0 /\ 1 \in 1 .. n
    BY <1>0, <1>2, <1>3, Positions DEF a
  <2> QED BY <1>5, <2>1
<1>12. ASSUME NEW i \in 2 .. n
       PROVE  LET q == open[i].at IN
              /\ q \in 1 .. Len(text) /\ q \in Starts /\ text[q] \in Opening
              /\ Len(Around(q)) = i - 1
              /\ \A m \in 1 .. i - 1 : Around(q)[m] = a[m]
  <2>1. i \in 2 .. Len(a) /\ a[i].at = open[i].at
    BY <1>5, <1>8
  <2> DEFINE q == open[i].at
  <2>2. /\ q \in DOMAIN text /\ DOMAIN text = 1 .. Len(text) /\ text[q] \in Opening
        /\ Len(Around(q)) = i - 1 /\ \A m \in 1 .. i - 1 : Around(q)[m] = a[m]
    <3>1. DOMAIN text = 1 .. Len(text)
      BY <1>0, <1>3, Positions
    <3>2. /\ a[i].at \in DOMAIN text /\ text[a[i].at] \in Opening
          /\ Len(Around(a[i].at)) = i - 1
          /\ \A m \in 1 .. i - 1 : Around(a[i].at)[m] = a[m]
      <4>1. i \in 2 .. Len(Around(Here))
        BY <2>1 DEF a
      <4> QED BY <1>0, <1>3, <4>1, Positions, Zenon DEF a
    <3> QED BY <2>1, <3>1, <3>2, Zenon
  <2> HIDE DEF q
  <2>3. text[q] # "28"
    BY <2>2 DEF Opening, Bodies, Values, Objects
  <2>4. q \in Starts
    BY <2>2, <2>3 DEF Starts
  <2> QED BY <2>2, <2>4 DEF q
<1> HIDE DEF n, a
<1>13. \A i \in 1 .. n : \A m \in 1 .. i - 1 : open[m].at < open[i].at
  BY <1>10
<1> QED BY <1>2, <1>3, <1>4, <1>6, <1>9, <1>13, <1>11, <1>12 DEF n, a

--------------------------------------------------------------------------------
(* What reading a token changes.                                             *)

LEMMA ReadFacts ==
    ASSUME ParserTypeOK, NEW t \in Tokens, Read(t)
    PROVE  /\ status = "parsing" /\ status' = "parsing"
           /\ text' = Append(text, t) /\ text' \in Seq(Tokens)
           /\ Len(text') = Here /\ Here' = Here + 1 /\ Here \in Nat /\ Here > 0
           /\ DOMAIN text = 1 .. Here - 1 /\ (DOMAIN text)' = 1 .. Here
           /\ \A j \in 1 .. Here - 1 : text'[j] = text[j]
           /\ text'[Here] = t
           /\ \A j \in 1 .. Here : Around(j)' = Around(j) /\ Innermost(j)' = Innermost(j)
           /\ Around(Here)' = Meaning(Around(Here), t, Here)
<1>1. text \in Seq(Tokens) /\ Len(text) \in Nat /\ Here = Len(text) + 1
  BY DEF ParserTypeOK, Here
<1>2. text' = Append(text, t) /\ status' = status /\ status = "parsing"
  BY DEF Read, Available
<1>3. /\ Append(text, t) \in Seq(Tokens) /\ Len(Append(text, t)) = Len(text) + 1
      /\ (\A j \in 1 .. Len(text) : Append(text, t)[j] = text[j])
      /\ Append(text, t)[Len(text) + 1] = t
  BY <1>1, Appended
<1>4. /\ \A j \in 1 .. Len(text) + 1 : Readings(Append(text, t))[j] = Readings(text)[j]
      /\ Readings(Append(text, t))[Len(text) + 2] = Meaning(Readings(text)[Len(text) + 1], t, Len(text) + 1)
  BY <1>1, ReadingsAppend
<1>5. \A j \in 1 .. Here : Around(j)' = Around(j)
  BY <1>1, <1>2, <1>4 DEF Around
<1>6. \A j \in 1 .. Here : Innermost(j)' = Innermost(j)
  BY <1>5 DEF Innermost
<1>7. Here' = Here + 1 /\ Here + 1 = Len(text) + 2
  BY <1>1, <1>2, <1>3 DEF Here
<1>8. Around(Here)' = Meaning(Around(Here), t, Here)
  <2>1. Around(Here)' = Readings(text')[Len(text) + 2]
    BY <1>7 DEF Around
  <2> QED BY <1>1, <1>2, <1>4, <2>1 DEF Around
<1>10. (DOMAIN text)' = 1 .. Here /\ DOMAIN text = 1 .. Here - 1
  BY <1>1, <1>2, <1>3
<1> QED BY <1>1, <1>2, <1>3, <1>5, <1>6, <1>7, <1>8, <1>10

\* The token begins an op, or is one.
NewOp(t) ==
    /\ t \in Plain \cup Opening
    /\ ~(t = "28" /\ Innermost(Here).kind = "20" /\ Innermost(Here).part = 1)

LEMMA StartsInText == ASSUME ParserTypeOK
    PROVE  /\ Starts \subseteq DOMAIN text /\ Definitions \subseteq Starts
           /\ DOMAIN text = 1 .. Here - 1 /\ Here \in Nat /\ Here > 0
           /\ Here \notin Starts
           /\ \A a, k : Under(a, k) \subseteq Starts
<1>1. text \in Seq(Tokens) /\ Len(text) \in Nat /\ Here = Len(text) + 1
  BY DEF ParserTypeOK, Here
<1>2. DOMAIN text = 1 .. Here - 1 /\ Here \in Nat /\ Here > 0 /\ Here \notin DOMAIN text
  BY <1>1
<1>3. Starts \subseteq DOMAIN text
  BY DEF Starts
<1>4. Definitions \subseteq Starts /\ \A a, k : Under(a, k) \subseteq Starts
  BY DEF Definitions, Under
<1> QED BY <1>2, <1>3, <1>4

LEMMA Growth ==
    ASSUME ParserTypeOK, NEW t \in Tokens, Read(t)
    PROVE  /\ Starts' = IF NewOp(t) THEN Starts \cup {Here} ELSE Starts
           /\ Definitions' = IF NewOp(t) /\ t = "/1" /\ Len(Around(Here)) = 1
                             THEN Definitions \cup {Here} ELSE Definitions
           /\ \A a, k : Under(a, k)' =
                 IF NewOp(t) /\ ~(t = "/1" /\ Len(Around(Here)) = 1)
                    /\ Innermost(Here).at = a /\ Innermost(Here).part = k
                 THEN Under(a, k) \cup {Here} ELSE Under(a, k)
<1> DEFINE H == Here
<1>0. /\ H \in Nat /\ H > 0 /\ DOMAIN text = 1 .. H - 1 /\ (DOMAIN text)' = 1 .. H
      /\ \A j \in 1 .. H - 1 : text'[j] = text[j]
      /\ text'[H] = t
      /\ \A j \in 1 .. H : Around(j)' = Around(j) /\ Innermost(j)' = Innermost(j)
  BY ReadFacts
<1>1. H \notin Starts /\ Starts \subseteq 1 .. H - 1
  BY StartsInText, <1>0
<1> HIDE DEF H
<1>2. 1 .. H = (1 .. H - 1) \cup {H} /\ 1 .. H - 1 \subseteq 1 .. H /\ H \in 1 .. H /\ H \notin 1 .. H - 1
  BY <1>0
<1> DEFINE St(x, j) == /\ x \in Plain \cup Opening
                       /\ ~(x = "28" /\ Innermost(j).kind = "20" /\ Innermost(j).part = 1)
<1>3. \A j \in 1 .. H - 1 : j \in Starts <=> St(text[j], j)
  BY <1>0 DEF Starts
<1>4. Starts' = {j \in 1 .. H : St(text'[j], j)}
  BY <1>0 DEF Starts
<1>5. NewOp(t) <=> St(t, H)
  BY DEF NewOp, H
<1> HIDE DEF St
<1>6. Starts' = IF NewOp(t) THEN Starts \cup {H} ELSE Starts
  BY <1>0, <1>1, <1>2, <1>3, <1>4, <1>5
<1>7. /\ \A j \in 1 .. H - 1 : j \in Definitions <=> j \in Starts /\ text[j] = "/1" /\ Len(Around(j)) = 1
      /\ \A j \in 1 .. H : j \in Definitions' <=> j \in Starts' /\ text'[j] = "/1" /\ Len(Around(j)) = 1
      /\ Definitions \subseteq Starts /\ Definitions' \subseteq Starts'
  BY <1>0 DEF Definitions
<1>8. Definitions' = IF NewOp(t) /\ t = "/1" /\ Len(Around(H)) = 1
                     THEN Definitions \cup {H} ELSE Definitions
  BY <1>0, <1>1, <1>2, <1>6, <1>7
<1>9. ASSUME NEW a, NEW k
      PROVE  Under(a, k)' =
                 IF NewOp(t) /\ ~(t = "/1" /\ Len(Around(H)) = 1)
                    /\ Innermost(H).at = a /\ Innermost(H).part = k
                 THEN Under(a, k) \cup {H} ELSE Under(a, k)
  <2>1. Under(a, k) = {j \in Starts \ Definitions : Innermost(j).at = a /\ Innermost(j).part = k}
    BY DEF Under
  <2>2. Under(a, k)' = {j \in Starts' \ Definitions' : Innermost(j).at = a /\ Innermost(j).part = k}
    <3>1. Under(a, k)' = {j \in Starts' \ Definitions' : Innermost(j)'.at = a /\ Innermost(j)'.part = k}
      BY DEF Under
    <3>2. Starts' \subseteq 1 .. H
      BY <1>1, <1>2, <1>6
    <3> QED BY <1>0, <3>1, <3>2
  <2> QED BY <1>1, <1>2, <1>6, <1>8, <2>1, <2>2, <1>7
<1> QED BY <1>6, <1>8, <1>9 DEF H

\* An op is behind the construct it is directly in, and no other of the
\* constructs around it began there.
LEMMA UnderFacts ==
    ASSUME ParserTypeOK, NEW a, NEW k, NEW j \in Under(a, k)
    PROVE  /\ j \in 1 .. Here /\ j \in 1 .. Here - 1 /\ j \in Starts \ Definitions
           /\ a \in Nat /\ a < j /\ k \in Nat \ {0}
           /\ Len(Around(j)) \in Nat /\ Len(Around(j)) > 0
           /\ Around(j)[Len(Around(j))].at = a
           /\ \A i \in 1 .. Len(Around(j)) :
                /\ Around(j)[i].at <= a
                /\ Around(j)[i].at = a => i = Len(Around(j)) /\ Around(j)[i].part = k
<1>1. j \in Starts \ Definitions /\ Innermost(j).at = a /\ Innermost(j).part = k
  BY DEF Under
<1>2. j \in 1 .. Here - 1 /\ Here \in Nat
  BY <1>1, StartsInText
<1>3. j \in 1 .. Here
  BY <1>2
<1> DEFINE n == Len(Around(j))
<1>4. /\ n \in Nat /\ n > 0 /\ Innermost(j) = Around(j)[n] /\ Around(j)[1].at = 0
      /\ \A i \in 1 .. n : Around(j)[i].at \in Nat /\ Around(j)[i].part \in Nat \ {0}
      /\ \A i \in 2 .. n : Around(j)[i].at \in 1 .. j - 1
  <2> HIDE DEF n
  <2> QED BY <1>3, Positions DEF n
<1>5. \A i \in 1 .. n : \A m \in 1 .. i - 1 : Around(j)[m].at < Around(j)[i].at
  BY <1>3, Outward
<1> HIDE DEF n
<1>6. a \in Nat /\ k \in Nat \ {0} /\ Around(j)[n].at = a /\ Around(j)[n].part = k
  BY <1>1, <1>4
<1>7. a < j
  <2>1. CASE n = 1
    BY <1>2, <1>4, <1>6, <2>1
  <2>2. CASE n # 1
    <3>1. n \in 2 .. n
      BY <1>4, <2>2
    <3>2. Around(j)[n].at \in 1 .. j - 1
      BY <1>4, <3>1
    <3> QED BY <1>2, <1>6, <3>2
  <2> QED BY <2>1, <2>2
<1>8. ASSUME NEW i \in 1 .. n
      PROVE  /\ Around(j)[i].at <= a
             /\ Around(j)[i].at = a => i = n /\ Around(j)[i].part = k
  <2>1. CASE i = n
    BY <1>6, <2>1
  <2>2. CASE i # n
    <3>1. i \in 1 .. n - 1 /\ n \in 1 .. n
      BY <1>4, <2>2
    <3>2. Around(j)[i].at < Around(j)[n].at /\ Around(j)[i].at \in Nat
      BY <1>4, <1>5, <3>1
    <3> QED BY <1>6, <3>2
  <2> QED BY <2>1, <2>2
<1> QED BY <1>1, <1>2, <1>3, <1>4, <1>6, <1>7, <1>8 DEF n

\* Nothing is in a part that has not begun.
LEMMA UnderFuture ==
    ASSUME PInv, status # "error", NEW i \in 1 .. Len(open),
           NEW k \in Nat, k > Len(open[i].lists)
    PROVE  Under(open[i].at, k) = {}
<1>1. SUFFICES ASSUME NEW j \in Under(open[i].at, k) PROVE FALSE
  OBVIOUS
<1>2. ParserTypeOK
  BY DEF PInv
<1> DEFINE a == open[i].at
<1>3. /\ j \in 1 .. Here /\ a < j /\ a \in Nat /\ Here \in Nat
      /\ Len(Around(j)) \in Nat
      /\ \A m \in 1 .. Len(Around(j)) :
           Around(j)[m].at = a => m = Len(Around(j)) /\ Around(j)[m].part = k
  BY <1>1, <1>2, UnderFacts, StartsInText
<1>4. \A p \in a + 1 .. Here :
        /\ Len(Around(p)) >= i /\ Around(p)[i].at = a
        /\ Around(p)[i].part <= Len(open[i].lists)
  BY OpenFacts
<1>5. Len(open[i].lists) \in Nat /\ Len(open) \in Nat
  BY OpenFacts
<1> HIDE DEF a
<1>6. j \in a + 1 .. Here
  BY <1>3
<1>7. i \in 1 .. Len(Around(j)) /\ Around(j)[i].at = a /\ Around(j)[i].part <= Len(open[i].lists)
  BY <1>3, <1>4, <1>5, <1>6
<1>8. Around(j)[i].part = k
  BY <1>3, <1>7
<1> QED BY <1>5, <1>7, <1>8

\* While tokens are read, what is open is what the text leaves open.
LEMMA AtTop ==
    ASSUME PInv, status = "parsing"
    PROVE  /\ Len(open) \in Nat /\ Len(open) > 0 /\ Len(Around(Here)) = Len(open)
           /\ Top = open[Len(open)] /\ Top \in Constructs /\ Len(open) \in 1 .. Len(open)
           /\ Innermost(Here) = Entry(Top.kind, Top.at, Len(Top.lists))
           /\ Around(Here) \in Seq(Entries) /\ Around(Here) # <<>>
<1>1. status # "error" /\ ParserTypeOK /\ OpsByRules
  BY DEF PInv
<1>2. /\ Len(open) \in Nat /\ Len(open) > 0 /\ Here \in 1 .. Here
      /\ \A i \in 1 .. Len(open) :
           /\ open[i] \in Constructs
           /\ Around(Here)[i] = Entry(open[i].kind, open[i].at, Len(open[i].lists))
  BY <1>1, OpenFacts
<1>3. Len(Around(Here)) = Len(open)
  BY <1>1 DEF OpsByRules
<1>4. Top = open[Len(open)]
  BY DEF Top, Last
<1>5. Len(open) \in 1 .. Len(open)
  BY <1>2
<1>6. /\ Innermost(Here) = Around(Here)[Len(Around(Here))]
      /\ Around(Here) \in Seq(Entries) /\ Around(Here) # <<>>
  BY <1>1, <1>2, Positions
<1> QED BY <1>2, <1>3, <1>4, <1>5, <1>6

--------------------------------------------------------------------------------
(* A token that is no op: the construct it is in, the last of those open, has   *)
(* another kind, one more part or one more label.                             *)

Retops(t, c) ==
    /\ Read(t) /\ ~NewOp(t)
    /\ c \in Constructs /\ c.at = Top.at /\ Became(Top.kind, c.kind)
    /\ Shaped(c.kind, c.labels, c.lists)
    /\ c.lists = Top.lists \/ c.lists = Append(Top.lists, <<>>)
    /\ \/ t \notin Labels /\ c.labels = Top.labels
       \/ t \in Labels /\ c.labels = Append(Top.labels, t) /\ Len(Top.lists) = Len(c.labels)
    /\ open' \in Seq(Constructs) /\ Len(open') = Len(open)
    /\ \A i \in 1 .. Len(open) - 1 : open'[i] = open[i]
    /\ open'[Len(open)] = c
    /\ ops' = ops /\ functions' = functions
    /\ Len(Around(Here)') = Len(open)
    /\ \A i \in 1 .. Len(open) - 1 : Around(Here)'[i] = Around(Here)[i]
    /\ Around(Here)'[Len(open)] = Entry(c.kind, c.at, Len(c.lists))

LEMMA BecameFacts ==
    /\ \A k : Became(k, k)
    /\ \A k, l, m : Became(k, l) /\ Became(l, m) => Became(k, m)
    /\ \A k, l : Became(k, l) =>
         /\ k = "main" <=> l = "main"
         /\ k = "/1" <=> l = "/1"
         /\ k \in Opening => l \in Kinds
BY DEF Became, Kinds, Opening, Bodies, Values, Objects

LEMMA RetopsOpen ==
    ASSUME PInv, NEW t \in Tokens, NEW c, Retops(t, c)
    PROVE  /\ open' # <<>> /\ DOMAIN open' = 1 .. Len(open) /\ DOMAIN open = 1 .. Len(open)
           /\ Len(open) \in Nat /\ Len(open) > 0 /\ Len(open) \in 1 .. Len(open)
           /\ \A i \in 1 .. Len(open) :
                /\ open'[i].at = open[i].at /\ Became(open[i].kind, open'[i].kind)
                /\ i # Len(open) => open'[i] = open[i] /\ Around(Here)'[i] = Around(Here)[i]
           /\ open[Len(open)] = Top /\ open'[Len(open)] = c
           /\ Unfinished' = Unfinished
           /\ Starts' = Starts /\ Definitions' = Definitions
           /\ \A a, k : Under(a, k)' = Under(a, k)
<1> DEFINE n == Len(open)
<1>1. status = "parsing" /\ ParserTypeOK
  BY DEF PInv, Retops, Read, Available
<1>2. n \in Nat /\ n > 0 /\ n \in 1 .. n /\ Top = open[n] /\ DOMAIN open = 1 .. n
  <2>1. n \in Nat /\ n > 0 /\ n \in 1 .. n /\ Top = open[n]
    BY <1>1, AtTop
  <2>2. open \in Seq(Constructs)
    BY <1>1 DEF ParserTypeOK
  <2> QED BY <2>1, <2>2
<1>3. /\ open' \in Seq(Constructs) /\ Len(open') = n
      /\ \A i \in 1 .. n - 1 : open'[i] = open[i] /\ Around(Here)'[i] = Around(Here)[i]
      /\ open'[n] = c /\ c.at = Top.at /\ Became(Top.kind, c.kind)
  BY DEF Retops
<1> HIDE DEF n
<1>4. DOMAIN open' = 1 .. n /\ open' # <<>>
  BY <1>2, <1>3
<1>5. ASSUME NEW i \in 1 .. n
      PROVE  /\ open'[i].at = open[i].at /\ Became(open[i].kind, open'[i].kind)
             /\ i # n => open'[i] = open[i] /\ Around(Here)'[i] = Around(Here)[i]
  <2>1. CASE i = n
    BY <1>2, <1>3, <2>1
  <2>2. CASE i # n
    <3>1. i \in 1 .. n - 1
      BY <1>2, <2>2
    <3> QED BY <1>3, <3>1, BecameFacts
  <2> QED BY <2>1, <2>2
<1>6. Unfinished' = Unfinished
  <2>1. Unfinished = {open[i].at : i \in 1 .. n}
    BY <1>2 DEF Unfinished
  <2>2. Unfinished' = {open'[i].at : i \in 1 .. n}
    BY <1>4 DEF Unfinished
  <2> QED BY <1>5, <2>1, <2>2
<1>7. Starts' = Starts /\ Definitions' = Definitions /\ \A a, k : Under(a, k)' = Under(a, k)
  <2>1. Read(t) /\ ~NewOp(t)
    BY DEF Retops
  <2> QED BY <1>1, <2>1, Growth
<1> QED BY <1>2, <1>3, <1>4, <1>5, <1>6, <1>7 DEF n

LEMMA RetopsType ==
    ASSUME PInv, NEW t \in Tokens, NEW c, Retops(t, c)
    PROVE  ParserTypeOK'
<1>0. ParserTypeOK
  BY DEF PInv
<1>1. Read(t)
  BY DEF Retops
<1>2. text' \in Seq(Tokens) /\ status' = "parsing"
  BY <1>0, <1>1, ReadFacts
<1>3. open' \in Seq(Constructs) /\ open' # <<>>
  BY RetopsOpen DEF Retops
<1>4. ASSUME NEW i \in DOMAIN open'
      PROVE  /\ Shaped(open'[i].kind, open'[i].labels, open'[i].lists)
             /\ open'[i].kind = "main" <=> i = 1
             /\ open'[i].kind = "/1" => i = 2
  <2>1. /\ i \in DOMAIN open /\ Became(open[i].kind, open'[i].kind)
        /\ i # Len(open) => open'[i] = open[i]
        /\ open'[Len(open)] = c
    BY RetopsOpen
  <2>2. /\ Shaped(open[i].kind, open[i].labels, open[i].lists)
        /\ open[i].kind = "main" <=> i = 1
        /\ open[i].kind = "/1" => i = 2
    BY <1>0, <2>1 DEF ParserTypeOK
  <2>3. Shaped(open'[i].kind, open'[i].labels, open'[i].lists)
    BY <2>1, <2>2 DEF Retops
  <2> QED BY <2>1, <2>2, <2>3, BecameFacts
<1>5. ops' = ops /\ functions' = functions
  BY DEF Retops
<1>6. /\ ops \in [DOMAIN ops -> Ops]
      /\ \A p \in DOMAIN ops : ops[p].subs # <<>> => Shaped(ops[p].kind, ops[p].labels, ops[p].subs)
      /\ functions \in Seq(DOMAIN ops)
      /\ \A f \in DOMAIN functions : ops[functions[f]].kind = "/1" /\ ops[functions[f]].subs # <<>>
  BY <1>0 DEF ParserTypeOK
<1> QED BY <1>2, <1>3, <1>4, <1>5, <1>6 DEF ParserTypeOK

LEMMA RetopsRules ==
    ASSUME PInv, NEW t \in Tokens, NEW c, Retops(t, c)
    PROVE  OpsByRules'
<1> DEFINE n == Len(open)
<1>0. ParserTypeOK /\ OpsByRules /\ status = "parsing" /\ Read(t)
  BY DEF PInv, Retops, Read, Available
<1>1. /\ n \in Nat /\ n > 0 /\ n \in 1 .. n /\ DOMAIN open' = 1 .. n /\ DOMAIN open = 1 .. n
      /\ open[n] = Top /\ open'[n] = c
      /\ \A i \in 1 .. n :
           /\ open'[i].at = open[i].at
           /\ i # n => open'[i] = open[i] /\ Around(Here)'[i] = Around(Here)[i]
      /\ Unfinished' = Unfinished /\ Starts' = Starts /\ Definitions' = Definitions
      /\ \A a, k : Under(a, k)' = Under(a, k)
  BY RetopsOpen
<1>2. /\ \A i \in 1 .. n :
           /\ Around(Here)[i] = Entry(open[i].kind, open[i].at, Len(open[i].lists))
           /\ \A k \in DOMAIN open[i].lists : Lists(open[i].lists[k], open[i].at, k)
      /\ DOMAIN ops = Starts \ Unfinished
      /\ \A p \in DOMAIN ops : \A k \in DOMAIN ops[p].subs : Lists(ops[p].subs[k], p, k)
      /\ Ascending(functions) /\ Range(functions) = Definitions \ Unfinished
  BY <1>0, <1>1 DEF OpsByRules
<1>3. /\ ops' = ops /\ functions' = functions
      /\ Len(open') = n /\ Len(Around(Here)') = n
      /\ Around(Here)'[n] = Entry(c.kind, c.at, Len(c.lists))
      /\ c.lists = Top.lists \/ c.lists = Append(Top.lists, <<>>)
      /\ c.at = Top.at
  BY DEF Retops
<1> HIDE DEF n
<1>4. \A l, a, k : Lists(l, a, k)' <=> Lists(l, a, k)
  BY <1>1 DEF Lists
<1>5. ASSUME NEW i \in 1 .. n
      PROVE  /\ Around(Here)'[i] = Entry(open'[i].kind, open'[i].at, Len(open'[i].lists))
             /\ \A k \in DOMAIN open'[i].lists : Lists(open[i].lists[k], open[i].at, k)'
  <2>1. CASE i # n
    <3>1. open'[i] = open[i] /\ Around(Here)'[i] = Around(Here)[i]
      BY <1>1, <2>1
    <3>2. \A k \in DOMAIN open[i].lists : Lists(open[i].lists[k], open[i].at, k)
      BY <1>2
    <3>3. ASSUME NEW k \in DOMAIN open[i].lists PROVE Lists(open[i].lists[k], open[i].at, k)'
      <4>1. PICK l, a : l = open[i].lists[k] /\ a = open[i].at
        OBVIOUS
      <4>2. Lists(l, a, k)'
        BY <1>4, <3>2, <4>1
      <4>3. l = open'[i].lists[k] /\ a = open'[i].at
        BY <3>1, <4>1
      <4> QED BY <4>2, <4>3
    <3> QED BY <1>2, <3>1, <3>3
  <2>2. CASE i = n
    <3>1. open'[i] = c /\ open[i] = Top /\ open'[i].at = open[i].at
      BY <1>1, <2>2
    <3>2. \A k \in DOMAIN Top.lists : Lists(Top.lists[k], Top.at, k)
      BY <1>2, <3>1
    <3>3. Top.lists \in Parts /\ Len(Top.lists) \in Nat /\ DOMAIN Top.lists = 1 .. Len(Top.lists)
      <4>1. Top \in Constructs
        BY <1>0, AtTop
      <4>2. Top.lists \in Seq(Seq(Nat))
        BY <4>1 DEF Constructs, Parts
      <4> QED BY <4>2 DEF Parts
    <3>4. ASSUME NEW k \in DOMAIN c.lists PROVE Lists(c.lists[k], c.at, k)'
      <4>1. PICK l, a : l = c.lists[k] /\ a = c.at
        OBVIOUS
      <4>2. CASE k \in DOMAIN Top.lists
        <5>1. c.lists[k] = Top.lists[k]
          <6>1. DOMAIN Top.lists = 1 .. Len(Top.lists) /\ \A m \in 1 .. Len(Top.lists) : Append(Top.lists, <<>>)[m] = Top.lists[m]
            BY <3>3, Appended DEF Parts
          <6> QED BY <1>3, <4>2, <6>1
        <5> QED BY <1>3, <1>4, <3>2, <4>1, <4>2, <5>1
      <4>3. CASE k \notin DOMAIN Top.lists
        <5>1. <<>> \in Seq(Nat)
          OBVIOUS
        <5>2. /\ Len(Append(Top.lists, <<>>)) = Len(Top.lists) + 1
              /\ Append(Top.lists, <<>>)[Len(Top.lists) + 1] = <<>>
              /\ Append(Top.lists, <<>>) \in Seq(Seq(Nat))
          BY <3>3, <5>1, Appended DEF Parts
        <5>3. k = Len(Top.lists) + 1 /\ l = <<>>
          <6>1. c.lists = Append(Top.lists, <<>>)
            BY <1>3, <4>3, Zenon
          <6>2. DOMAIN c.lists = 1 .. Len(Top.lists) + 1
            BY <5>2, <6>1
          <6>3. k \in 1 .. Len(Top.lists) + 1 /\ k \notin 1 .. Len(Top.lists)
            BY <3>3, <4>3, <6>2, Zenon
          <6>4. k = Len(Top.lists) + 1
            BY <3>3, <6>3
          <6> QED BY <4>1, <5>2, <6>1, <6>4, Zenon
        <5>4. Under(Top.at, k) = {}
          <6>1. k \in Nat /\ k > Len(Top.lists)
            BY <3>3, <5>3
          <6>2. status # "error"
            BY <1>0
          <6> QED BY <1>1, <6>1, <6>2, UnderFuture DEF n
        <5>5. Lists(l, a, k)
          <6>1. Ascending(l) /\ Range(l) = {}
            BY <5>3 DEF Ascending, Range
          <6> QED BY <1>3, <4>1, <5>4, <6>1 DEF Lists
        <5> QED BY <1>4, <4>1, <5>5
      <4> QED BY <4>2, <4>3
    <3> QED BY <1>3, <2>2, <3>1, <3>4
  <2> QED BY <2>1, <2>2
<1>6. \A p \in DOMAIN ops : \A k \in DOMAIN ops[p].subs : Lists(ops[p].subs[k], p, k)'
  <2> SUFFICES ASSUME NEW p \in DOMAIN ops, NEW k \in DOMAIN ops[p].subs
               PROVE  Lists(ops[p].subs[k], p, k)'
    BY <1>3
  <2>1. PICK l : l = ops[p].subs[k]
    OBVIOUS
  <2> QED BY <1>2, <1>3, <1>4, <2>1
<1> QED BY <1>1, <1>2, <1>3, <1>5, <1>6 DEF OpsByRules

\* The entries around the end of the text are those of what is open.
LEMMA OpenOnce ==
    ASSUME PInv, status # "error", NEW i \in 1 .. Len(open), NEW m \in 1 .. Len(open),
           open[m].at = open[i].at
    PROVE  m = i
<1>1. /\ Len(open) \in Nat
      /\ \A j \in 1 .. Len(open) : open[j].at \in Nat /\ \A k \in 1 .. j - 1 : open[k].at < open[j].at
  BY OpenFacts
<1>2. m \in Nat /\ i \in Nat
  OBVIOUS
<1>3. CASE m < i
  <2>1. m \in 1 .. i - 1
    BY <1>2, <1>3
  <2> QED BY <1>1, <2>1
<1>4. CASE i < m
  <2>1. i \in 1 .. m - 1
    BY <1>2, <1>4
  <2> QED BY <1>1, <2>1
<1> QED BY <1>2, <1>3, <1>4

LEMMA RetopsKinds ==
    ASSUME PInv, NEW t \in Tokens, NEW c, Retops(t, c)
    PROVE  KindsKept'
<1> DEFINE n == Len(open)
           H == Here
<1>0. ParserTypeOK /\ OpsByRules /\ KindsKept /\ status = "parsing" /\ Read(t) /\ status # "error"
  BY DEF PInv, Retops, Read, Available
<1>1. /\ n \in Nat /\ n > 0 /\ n \in 1 .. n /\ DOMAIN open' = 1 .. n /\ DOMAIN open = 1 .. n
      /\ open[n] = Top /\ open'[n] = c
      /\ \A i \in 1 .. n :
           /\ open'[i].at = open[i].at /\ Became(open[i].kind, open'[i].kind)
           /\ i # n => open'[i] = open[i] /\ Around(Here)'[i] = Around(Here)[i]
      /\ Unfinished' = Unfinished /\ Starts' = Starts /\ Definitions' = Definitions
  BY RetopsOpen
<1>2. ops' = ops /\ Len(open') = n /\ Len(Around(Here)') = n
  BY DEF Retops
<1>3. /\ H \in Nat /\ H > 0 /\ Here' = H + 1
      /\ \A j \in 1 .. H - 1 : text'[j] = text[j]
      /\ \A j \in 1 .. H : Around(j)' = Around(j)
  BY <1>0, ReadFacts
<1>4. Starts \subseteq 1 .. H - 1 /\ DOMAIN ops = Starts \ Unfinished
  BY <1>0, StartsInText DEF OpsByRules
<1>5. /\ \A p \in DOMAIN ops : /\ Became(text[p], ops[p].kind)
                               /\ ops[p].subs = <<>> <=> Childless(p)
      /\ \A i \in 2 .. n : Became(text[open[i].at], open[i].kind)
      /\ \A j \in 1 .. H : \A i \in 2 .. Len(Around(j)) :
             LET e == Around(j)[i] IN
             /\ e.at \in DOMAIN ops => Became(e.kind, ops[e.at].kind)
             /\ \A m \in 2 .. n : open[m].at = e.at => Became(e.kind, open[m].kind)
             /\ j \in Starts /\ e.kind = "switch {" => e.part > 1
             /\ j \in Starts /\ e.kind = "switch" => e.part = 1
      /\ \A m \in 1 .. n - 1 : open[m].kind = "switch {" => open[m].labels # <<>>
  BY <1>0 DEF KindsKept
<1> HIDE DEF n, H
<1>6. ASSUME NEW p \in DOMAIN ops
      PROVE  /\ Became(text'[p], ops[p].kind)
             /\ ops[p].subs = <<>> <=> Childless(p)'
  <2>1. text'[p] = text[p]
    BY <1>3, <1>4
  <2> QED BY <1>1, <1>5, <2>1 DEF Childless
<1>7. ASSUME NEW i \in 2 .. n PROVE Became(text'[open'[i].at], open'[i].kind)
  <2>1. open[i].at \in 1 .. H - 1 /\ i \in 1 .. n
    <3>1. open[i].at \in 1 .. Len(text) /\ Len(text) = H - 1
      <4>1. Len(text) = H - 1
        BY <1>0 DEF ParserTypeOK, Here, H
      <4> QED BY <1>0, <4>1, OpenFacts DEF n
    <3> QED BY <1>1, <3>1
  <2>2. text'[open'[i].at] = text[open[i].at] /\ Became(open[i].kind, open'[i].kind)
    BY <1>1, <1>3, <2>1
  <2> QED BY <1>5, <2>2, BecameFacts
<1>8. ASSUME NEW j \in 1 .. H + 1, NEW i \in 2 .. Len(Around(j)')
      PROVE  LET e == Around(j)'[i] IN
             /\ e.at \in DOMAIN ops => Became(e.kind, ops[e.at].kind)
             /\ \A m \in 2 .. n : open'[m].at = e.at => Became(e.kind, open'[m].kind)
             /\ j \in Starts /\ e.kind = "switch {" => e.part > 1
             /\ j \in Starts /\ e.kind = "switch" => e.part = 1
  <2>1. CASE j \in 1 .. H
    <3>1. Around(j)' = Around(j) /\ i \in 2 .. Len(Around(j))
      BY <1>3, <2>1
    <3> DEFINE e == Around(j)[i]
    <3>2. /\ e.at \in DOMAIN ops => Became(e.kind, ops[e.at].kind)
          /\ \A m \in 2 .. n : open[m].at = e.at => Became(e.kind, open[m].kind)
          /\ j \in Starts /\ e.kind = "switch {" => e.part > 1
          /\ j \in Starts /\ e.kind = "switch" => e.part = 1
      BY <1>5, <2>1, <3>1
    <3> HIDE DEF e
    <3>3. ASSUME NEW m \in 2 .. n, open'[m].at = e.at PROVE Became(e.kind, open'[m].kind)
      <4>1. m \in 1 .. n
        BY <1>1
      <4>2. open[m].at = e.at /\ Became(open[m].kind, open'[m].kind)
        BY <1>1, <3>3, <4>1
      <4> QED BY <3>2, <4>2, BecameFacts
    <3> QED BY <3>1, <3>2, <3>3 DEF e
  <2>2. CASE j \notin 1 .. H
    <3>1. j = H + 1 /\ j \notin Starts
      BY <1>3, <1>4, <2>2
    <3>2. Around(j)' = Around(Here)'
      BY <1>3, <3>1
    <3>3. i \in 1 .. n /\ i \in 2 .. n
      BY <1>1, <1>2, <3>2
    <3>4. Around(j)'[i] = Entry(open'[i].kind, open'[i].at, Len(open'[i].lists))
      <4>1. OpsByRules' /\ status' # "error"
        BY <1>0, RetopsRules, ReadFacts
      <4>2. \A m \in DOMAIN open' : Around(Here)'[m] = Entry(open'[m].kind, open'[m].at, Len(open'[m].lists))
        BY <4>1 DEF OpsByRules
      <4> QED BY <1>1, <3>2, <3>3, <4>2
    <3>5. Around(j)'[i].kind = open'[i].kind /\ Around(j)'[i].at = open[i].at
      BY <1>1, <3>3, <3>4 DEF Entry
    <3>6. open[i].at \notin DOMAIN ops
      BY <1>1, <1>4, <3>3 DEF Unfinished
    <3>7. ASSUME NEW m \in 2 .. n, open'[m].at = open[i].at PROVE m = i
      <4>1. m \in 1 .. n /\ open[m].at = open[i].at
        BY <1>1, <3>7
      <4> QED BY <1>0, <3>3, <4>1, OpenOnce DEF n
    <3> DEFINE e == Around(j)'[i]
    <3>8. e.at = open[i].at /\ e.kind = open'[i].kind
      BY <3>5
    <3> HIDE DEF e
    <3>9. e.at \in DOMAIN ops => Became(e.kind, ops[e.at].kind)
      BY <3>6, <3>8
    <3>10. ASSUME NEW m \in 2 .. n, open'[m].at = e.at PROVE Became(e.kind, open'[m].kind)
      BY <3>7, <3>8, <3>10, BecameFacts
    <3> QED BY <3>1, <3>9, <3>10 DEF e
  <2> QED BY <2>1, <2>2
<1>9. \A m \in 1 .. n - 1 : open'[m].kind = "switch {" => open'[m].labels # <<>>
  <2> SUFFICES ASSUME NEW m \in 1 .. n - 1 PROVE open'[m].kind = "switch {" => open'[m].labels # <<>>
    OBVIOUS
  <2>1. m \in 1 .. n /\ m # n
    BY <1>1
  <2> QED BY <1>1, <1>5, <2>1
<1> QED BY <1>1, <1>2, <1>3, <1>6, <1>7, <1>8, <1>9 DEF KindsKept

LEMMA LabelledSame ==
    ASSUME ParserTypeOK, NEW t \in Tokens, Read(t), NEW at, NEW labels,
           t \notin Labels \/ Innermost(Here).at # at
    PROVE  Labelled(at, labels) => Labelled(at, labels)'
<1> DEFINE H == Here
<1>1. /\ H \in Nat /\ H > 0 /\ DOMAIN text = 1 .. H - 1 /\ (DOMAIN text)' = 1 .. H
      /\ \A j \in 1 .. H - 1 : text'[j] = text[j]
      /\ text'[H] = t
      /\ \A j \in 1 .. H : Innermost(j)' = Innermost(j)
  BY ReadFacts
<1>2. t \notin Labels \/ Innermost(H).at # at
  OBVIOUS
<1> HIDE DEF H
<1> SUFFICES ASSUME Labelled(at, labels) PROVE Labelled(at, labels)'
  OBVIOUS
<1>3. /\ \A j \in 1 .. H - 1 :
         text[j] \in Labels /\ Innermost(j).at = at =>
             /\ Innermost(j).part \in DOMAIN labels
             /\ labels[Innermost(j).part] = text[j]
      /\ \A k \in DOMAIN labels : \E j \in 1 .. H - 1 :
         text[j] = labels[k] /\ Innermost(j).at = at /\ Innermost(j).part = k
  BY <1>1 DEF Labelled
<1>4. ASSUME NEW j \in 1 .. H, text'[j] \in Labels, Innermost(j)'.at = at
      PROVE  /\ Innermost(j)'.part \in DOMAIN labels
             /\ labels[Innermost(j)'.part] = text'[j]
  <2>1. j # H
    BY <1>1, <1>2, <1>4
  <2>2. j \in 1 .. H - 1
    BY <1>1, <2>1
  <2> QED BY <1>1, <1>3, <1>4, <2>2
<1>5. ASSUME NEW k \in DOMAIN labels
      PROVE  \E j \in 1 .. H :
               text'[j] = labels[k] /\ Innermost(j)'.at = at /\ Innermost(j)'.part = k
  <2>1. PICK j \in 1 .. H - 1 : text[j] = labels[k] /\ Innermost(j).at = at /\ Innermost(j).part = k
    BY <1>3
  <2>2. j \in 1 .. H
    BY <1>1
  <2> QED BY <1>1, <2>1, <2>2
<1> QED BY <1>1, <1>4, <1>5 DEF Labelled

LEMMA LabelledMore ==
    ASSUME ParserTypeOK, NEW t \in Labels, t \in Tokens, Read(t), NEW labels \in Seq(Labels),
           Innermost(Here).part = Len(labels) + 1, NEW at, at = Innermost(Here).at,
           Labelled(at, labels)
    PROVE  Labelled(at, Append(labels, t))'
<1> DEFINE H == Here
           n == Len(labels) + 1
           new == Append(labels, t)
<1>1. /\ H \in Nat /\ H > 0 /\ DOMAIN text = 1 .. H - 1 /\ (DOMAIN text)' = 1 .. H
      /\ \A j \in 1 .. H - 1 : text'[j] = text[j]
      /\ text'[H] = t
      /\ \A j \in 1 .. H : Innermost(j)' = Innermost(j)
  BY ReadFacts
<1>2. Innermost(H).at = at /\ Innermost(H).part = n
  OBVIOUS
<1>3. /\ n \in Nat /\ DOMAIN labels = 1 .. n - 1 /\ DOMAIN new = 1 .. n /\ new[n] = t /\ n \in 1 .. n
      /\ \A k \in 1 .. n - 1 : new[k] = labels[k]
  OBVIOUS
<1> HIDE DEF H, n, new
<1>4. /\ \A j \in 1 .. H - 1 :
         text[j] \in Labels /\ Innermost(j).at = at =>
             /\ Innermost(j).part \in DOMAIN labels
             /\ labels[Innermost(j).part] = text[j]
      /\ \A k \in DOMAIN labels : \E j \in 1 .. H - 1 :
         text[j] = labels[k] /\ Innermost(j).at = at /\ Innermost(j).part = k
  BY <1>1 DEF Labelled
<1>5. ASSUME NEW j \in 1 .. H, text'[j] \in Labels, Innermost(j)'.at = at
      PROVE  /\ Innermost(j)'.part \in DOMAIN new
             /\ new[Innermost(j)'.part] = text'[j]
  <2>1. CASE j = H
    <3>1. Innermost(j)' = Innermost(H)
      BY <1>1, <2>1
    <3> QED BY <1>1, <1>2, <1>3, <2>1, <3>1
  <2>2. CASE j # H
    <3>1. j \in 1 .. H - 1
      BY <1>1, <2>2
    <3>2. text[j] = text'[j] /\ Innermost(j)' = Innermost(j)
      BY <1>1, <3>1
    <3>3. Innermost(j).part \in 1 .. n - 1 /\ labels[Innermost(j).part] = text[j]
      BY <1>3, <1>4, <1>5, <3>1, <3>2
    <3>4. Innermost(j).part \in 1 .. n
      BY <1>3, <3>3
    <3> QED BY <1>3, <3>2, <3>3, <3>4
  <2> QED BY <2>1, <2>2
<1>6. ASSUME NEW k \in DOMAIN new
      PROVE  \E j \in 1 .. H :
               text'[j] = new[k] /\ Innermost(j)'.at = at /\ Innermost(j)'.part = k
  <2>1. CASE k = n
    <3>1. H \in 1 .. H
      BY <1>1
    <3> QED BY <1>1, <1>2, <1>3, <2>1, <3>1
  <2>2. CASE k # n
    <3>1. k \in 1 .. n - 1
      BY <1>3, <2>2
    <3>2. PICK j \in 1 .. H - 1 : text[j] = labels[k] /\ Innermost(j).at = at /\ Innermost(j).part = k
      BY <1>3, <1>4, <3>1
    <3>3. j \in 1 .. H
      BY <1>1
    <3> QED BY <1>1, <1>3, <3>1, <3>2, <3>3
  <2> QED BY <2>1, <2>2
<1>7. Labelled(at, new)'
  BY <1>1, <1>5, <1>6 DEF Labelled, new
<1> QED BY <1>7 DEF new

LEMMA RetopsLabels ==
    ASSUME PInv, NEW t \in Tokens, NEW c, Retops(t, c)
    PROVE  LabelsKept'
<1> DEFINE n == Len(open)
<1>0. ParserTypeOK /\ OpsByRules /\ LabelsKept /\ status = "parsing" /\ Read(t)
  BY DEF PInv, Retops, Read, Available
<1>1. /\ n \in Nat /\ n \in 1 .. n /\ DOMAIN open' = 1 .. n /\ DOMAIN open = 1 .. n
      /\ open[n] = Top /\ open'[n] = c
      /\ \A i \in 1 .. n :
           /\ open'[i].at = open[i].at
           /\ i # n => open'[i] = open[i]
  BY RetopsOpen
<1>2. /\ ops' = ops /\ c.at = Top.at
      /\ \/ t \notin Labels /\ c.labels = Top.labels
         \/ t \in Labels /\ c.labels = Append(Top.labels, t) /\ Len(Top.lists) = Len(c.labels)
  BY DEF Retops
<1>3. /\ \A p \in DOMAIN ops : Labelled(p, ops[p].labels)
      /\ \A i \in 1 .. n : Labelled(open[i].at, open[i].labels)
      /\ DOMAIN ops = Starts \ Unfinished
  BY <1>0, <1>1 DEF LabelsKept, OpsByRules
<1>4. Innermost(Here) = Entry(Top.kind, Top.at, Len(Top.lists)) /\ Top \in Constructs
  BY <1>0, AtTop
<1>5. Innermost(Here).at = Top.at /\ Innermost(Here).part = Len(Top.lists) /\ Top.labels \in Seq(Labels)
  BY <1>4 DEF Entry, Constructs
<1> HIDE DEF n
<1>6. ASSUME NEW p \in DOMAIN ops PROVE Labelled(p, ops[p].labels)'
  <2>1. p # Innermost(Here).at
    BY <1>1, <1>3, <1>5 DEF Unfinished
  <2>2. PICK l : l = ops[p].labels
    OBVIOUS
  <2>3. Labelled(p, l)'
    BY <1>0, <1>3, <2>1, <2>2, LabelledSame
  <2> QED BY <1>2, <2>2, <2>3
<1>7. ASSUME NEW i \in 1 .. n PROVE Labelled(open[i].at, open[i].labels)'
  <2>1. PICK at, l, m : at = open[i].at /\ l = open[i].labels /\ m = open'[i].labels
    OBVIOUS
  <2>2. Labelled(at, l)
    BY <1>3, <2>1
  <2>3. CASE i # n
    <3>1. at # Innermost(Here).at
      <4>1. open[n].at # open[i].at
        BY <1>0, <1>1, <2>3, OpenOnce DEF n
      <4> QED BY <1>1, <1>5, <2>1, <4>1
    <3>2. Labelled(at, l)'
      BY <1>0, <2>2, <3>1, LabelledSame
    <3> QED BY <1>1, <2>1, <2>3, <3>2
  <2>4. CASE i = n /\ t \notin Labels
    <3>1. Labelled(at, l)'
      BY <1>0, <2>2, <2>4, LabelledSame
    <3>2. at = open'[i].at /\ l = open'[i].labels
      BY <1>1, <1>2, <2>1, <2>4
    <3> QED BY <3>1, <3>2
  <2>5. CASE i = n /\ t \in Labels
    <3>1. m = Append(l, t) /\ at = Innermost(Here).at /\ l \in Seq(Labels) /\ at = open'[i].at
      BY <1>1, <1>2, <1>5, <2>1, <2>5
    <3>2. Innermost(Here).part = Len(l) + 1
      <4>1. Len(Append(l, t)) = Len(l) + 1
        BY <2>5, <3>1
      <4> QED BY <1>1, <1>2, <1>5, <2>1, <2>5, <3>1, <4>1
    <3>3. Labelled(at, Append(l, t))'
      BY <1>0, <2>2, <2>5, <3>1, <3>2, LabelledMore
    <3> QED BY <2>1, <3>1, <3>3
  <2> QED BY <2>3, <2>4, <2>5
<1> QED BY <1>1, <1>2, <1>6, <1>7 DEF LabelsKept

LEMMA TopFacts ==
    ASSUME PInv, status = "parsing"
    PROVE  /\ Top.kind \in Kinds /\ Top.at \in Nat /\ Top.labels \in Seq(Labels)
           /\ Top.lists \in Seq(Seq(Nat)) /\ Top.lists # <<>>
           /\ Len(Top.lists) \in Nat /\ Len(Top.lists) > 0
           /\ Shaped(Top.kind, Top.labels, Top.lists)
           /\ Top.kind = "main" <=> Len(open) = 1
           /\ Top.kind = "/1" => Len(open) = 2
<1>1. /\ Len(open) \in Nat /\ Len(open) > 0 /\ Len(open) \in 1 .. Len(open)
      /\ Top = open[Len(open)] /\ Top \in Constructs
  BY AtTop
<1>2. DOMAIN open = 1 .. Len(open)
  BY <1>1 DEF PInv, ParserTypeOK
<1>3. /\ Shaped(Top.kind, Top.labels, Top.lists)
      /\ Top.kind = "main" <=> Len(open) = 1
      /\ Top.kind = "/1" => Len(open) = 2
  BY <1>1, <1>2 DEF PInv, ParserTypeOK
<1>4. Top.kind \in Kinds /\ Top.at \in Nat /\ Top.labels \in Seq(Labels) /\ Top.lists \in Seq(Seq(Nat))
  BY <1>1 DEF Constructs, Parts
<1>5. Top.lists # <<>>
  BY <1>3 DEF Shaped
<1>6. Len(Top.lists) \in Nat /\ Len(Top.lists) > 0
  BY <1>4, <1>5
<1> QED BY <1>3, <1>4, <1>5, <1>6

LEMMA RetopsShape ==
    ASSUME PInv, NEW t \in Tokens, Read(t), NEW c \in Constructs,
           Around(Here)' = Append(Front(Around(Here)), Entry(c.kind, c.at, Len(c.lists))),
           c.lists # <<>>, open' = Append(Outer, c)
    PROVE  /\ open' \in Seq(Constructs) /\ Len(open') = Len(open)
           /\ \A i \in 1 .. Len(open) - 1 : open'[i] = open[i]
           /\ open'[Len(open)] = c
           /\ Len(Around(Here)') = Len(open)
           /\ \A i \in 1 .. Len(open) - 1 : Around(Here)'[i] = Around(Here)[i]
           /\ Around(Here)'[Len(open)] = Entry(c.kind, c.at, Len(c.lists))
<1>1. status = "parsing" /\ ParserTypeOK
  BY DEF PInv, Read, Available
<1>2. open \in Seq(Constructs) /\ open # <<>>
  BY <1>1 DEF ParserTypeOK
<1>3. /\ open' \in Seq(Constructs) /\ Len(open') = Len(open)
      /\ \A i \in 1 .. Len(open) - 1 : open'[i] = open[i]
      /\ open'[Len(open)] = c
  BY <1>2, Exchanged DEF Outer
<1> DEFINE a == Around(Here)
           e == Entry(c.kind, c.at, Len(c.lists))
<1>4. a \in Seq(Entries) /\ a # <<>> /\ Len(a) = Len(open)
  BY <1>1, AtTop
<1>5. e \in Entries
  <2>1. c.kind \in Kinds /\ c.at \in Nat /\ c.lists \in Seq(Seq(Nat))
    BY DEF Constructs, Parts
  <2>2. Len(c.lists) \in Nat \ {0}
    BY <2>1
  <2> QED BY <2>1, <2>2 DEF Entry, Entries
<1> HIDE DEF e, a
<1>6. LET r == Append(Front(a), e) IN
      /\ Len(r) = Len(a)
      /\ \A i \in 1 .. Len(a) - 1 : r[i] = a[i]
      /\ r[Len(a)] = e
  BY <1>4, <1>5, Exchanged
<1> QED BY <1>3, <1>4, <1>6 DEF a, e

LEMMA MoreLists ==
    ASSUME PInv, status = "parsing"
    PROVE  /\ NextList \in Constructs /\ NextList.lists = Append(Top.lists, <<>>)
           /\ NextList.kind = Top.kind /\ NextList.at = Top.at /\ NextList.labels = Top.labels
           /\ NextList.lists # <<>> /\ Len(NextList.lists) = Len(Top.lists) + 1
<1>1. /\ Top \in Constructs /\ Top.lists \in Seq(Seq(Nat)) /\ <<>> \in Seq(Nat)
  BY TopFacts, AtTop
<1> DEFINE l == Append(Top.lists, <<>>)
<1>2. l \in Seq(Seq(Nat)) /\ l # <<>> /\ Len(l) = Len(Top.lists) + 1
  <2>1. ASSUME NEW S, NEW s \in Seq(S), NEW x \in S
        PROVE  Append(s, x) \in Seq(S) /\ Append(s, x) # <<>> /\ Len(Append(s, x)) = Len(s) + 1
    BY Appended
  <2> DEFINE S == Seq(Nat)
  <2>2. Top.lists \in Seq(S) /\ <<>> \in S
    BY <1>1
  <2> HIDE DEF S
  <2>3. l \in Seq(S) /\ l # <<>> /\ Len(l) = Len(Top.lists) + 1
    BY <2>1, <2>2
  <2> QED BY <2>3 DEF S
<1>3. NextList = [Top EXCEPT !.lists = l]
  BY DEF NextList
<1> HIDE DEF l
<1>4. /\ NextList \in Constructs /\ NextList.lists = l
      /\ NextList.kind = Top.kind /\ NextList.at = Top.at /\ NextList.labels = Top.labels
  BY <1>1, <1>2, <1>3 DEF Constructs, Parts
<1> QED BY <1>2, <1>4 DEF l

\* A token that begins nothing and ends nothing.
LEMMA TopRules ==
    ASSUME PInv, NEW t \in Tokens, Read(t),
           t \notin Opening \/ (t = "/1" /\ Top.kind # "main"),
           t \in Ends(Top.kind) => Top.kind = "main"
    PROVE  LET f == Front(Around(Here))
               n == Len(Top.lists)
           IN
           /\ t = "28" /\ Top.kind = "20" /\ n = 1 => Around(Here)' = Append(f, Entry("20", Top.at, 2))
           /\ t = "][" \/ t \in Labels => Around(Here)' = Append(f, Entry(Top.kind, Top.at, n + 1))
           /\ t = "]=" => Around(Here)' = Append(f, Entry("a=", Top.at, n + 1))
           /\ t = "{" => Around(Here)' = Append(f, Entry("switch {", Top.at, n))
           /\ t \notin {"28", "][", "]=", "{"} \cup Labels => Around(Here)' = Around(Here)
           /\ t = "28" /\ ~(Top.kind = "20" /\ n = 1) => Around(Here)' = Around(Here)
<1>1. status = "parsing" /\ ParserTypeOK
  BY DEF PInv, Read, Available
<1>2. Around(Here)' = Meaning(Around(Here), t, Here)
  BY <1>1, ReadFacts
<1>3. PICK around, kind, at, part, j :
        around = Around(Here) /\ kind = Top.kind /\ at = Top.at /\ part = Len(Top.lists) /\ j = Here
  OBVIOUS
<1>4. Last(around) = Entry(kind, at, part)
  BY <1>1, <1>3, AtTop DEF Innermost
<1>5. Len(around) = Len(open) /\ (kind = "main" <=> Len(open) = 1)
  BY <1>1, <1>3, AtTop, TopFacts
<1>6. t \notin Opening \/ (t = "/1" /\ Len(around) # 1)
  BY <1>3, <1>5
<1>7. Len(around) > 1 => t \notin Ends(kind)
  BY <1>1, <1>3, <1>5, AtTop
<1>8. LET m == Meaning(around, t, j)
          f == Front(around)
      IN
      /\ t = "28" /\ kind = "20" /\ part = 1 => m = Append(f, Entry("20", at, 2))
      /\ t = "][" \/ t \in Labels => m = Append(f, Entry(kind, at, part + 1))
      /\ t = "]=" => m = Append(f, Entry("a=", at, part + 1))
      /\ t = "{" => m = Append(f, Entry("switch {", at, part))
      /\ t \notin {"28", "][", "]=", "{"} \cup Labels => m = around
      /\ t = "28" /\ ~(kind = "20" /\ part = 1) => m = around
  <2> DEFINE top == Last(around)
             f == Front(around)
             m == Meaning(around, t, j)
  <2>1. top.kind = kind /\ top.at = at /\ top.part = part
    BY <1>4 DEF Entry
  <2>2. m = IF t = "28" /\ kind = "20" /\ part = 1 THEN Append(f, Entry("20", at, 2))
            ELSE IF t = "][" \/ t \in Labels THEN Append(f, Entry(kind, at, part + 1))
            ELSE IF t = "]=" THEN Append(f, Entry("a=", at, part + 1))
            ELSE IF t = "{" THEN Append(f, Entry("switch {", at, part))
            ELSE around
    <3> HIDE DEF top, f
    <3>1. ~(t \in Opening /\ (t = "/1" => Len(around) = 1)) /\ ~(Len(around) > 1 /\ t \in Ends(top.kind))
      BY <1>6, <1>7, <2>1
    <3> QED BY <2>1, <3>1, Zenon DEF Meaning, top, f
  <2> HIDE DEF m, f, top
  <2>3. "28" \notin Labels /\ "]=" \notin Labels /\ "{" \notin Labels
    BY DEF Labels
  <2> QED BY <2>2, <2>3 DEF m, f
<1> QED BY <1>2, <1>3, <1>8

LEMMA ElseRetops ==
    ASSUME PInv, Else
    PROVE  Retops("28", NextList) /\ "28" \in Tokens
<1>1. /\ Read("28") /\ Top.kind = "20" /\ Len(Top.lists) = 1
      /\ open' = Append(Outer, NextList) /\ ops' = ops /\ functions' = functions
  BY DEF Else, Separator
<1>2. "28" \in Tokens /\ status = "parsing" /\ ParserTypeOK
  BY <1>1 DEF Read, Available, Tokens, PInv
<1>3. Innermost(Here) = Entry("20", Top.at, 1)
  BY <1>1, <1>2, AtTop
<1>4. ~NewOp("28")
  BY <1>3 DEF NewOp, Entry
<1>5. /\ NextList \in Constructs /\ NextList.lists = Append(Top.lists, <<>>)
      /\ NextList.kind = "20" /\ NextList.at = Top.at /\ NextList.labels = Top.labels
      /\ NextList.lists # <<>> /\ Len(NextList.lists) = 2
  BY <1>1, <1>2, MoreLists
<1>6. "28" \notin Labels /\ "28" \notin Opening
  BY DEF Labels, Opening, Bodies, Values, Objects
<1>7. Shaped("20", NextList.labels, NextList.lists)
  <2>1. Shaped("20", Top.labels, Top.lists)
    BY <1>1, <1>2, TopFacts
  <2> QED BY <1>5, <2>1 DEF Shaped, Objects
<1>8. Around(Here)' = Append(Front(Around(Here)), Entry("20", Top.at, 2))
  <2>1. "28" \notin Ends("20")
    BY DEF Ends, Bodies
  <2> QED BY <1>1, <1>2, <1>6, <2>1, TopRules
<1>9. Became(Top.kind, NextList.kind)
  BY <1>1, <1>5, BecameFacts
<1> DEFINE c == NextList
<1>10. c.kind = "20" /\ c.at = Top.at /\ Len(c.lists) = 2 /\ c.lists # <<>> /\ c \in Constructs
  BY <1>5
<1> HIDE DEF c
<1>11. Around(Here)' = Append(Front(Around(Here)), Entry(c.kind, c.at, Len(c.lists)))
  BY <1>8, <1>10
<1>12. open' = Append(Outer, c)
  BY <1>1 DEF c
<1>13. /\ open' \in Seq(Constructs) /\ Len(open') = Len(open)
       /\ \A i \in 1 .. Len(open) - 1 : open'[i] = open[i]
       /\ open'[Len(open)] = c
       /\ Len(Around(Here)') = Len(open)
       /\ \A i \in 1 .. Len(open) - 1 : Around(Here)'[i] = Around(Here)[i]
       /\ Around(Here)'[Len(open)] = Entry(c.kind, c.at, Len(c.lists))
  BY <1>1, <1>2, <1>10, <1>11, <1>12, RetopsShape
<1> QED BY <1>1, <1>2, <1>4, <1>5, <1>6, <1>7, <1>9, <1>13 DEF Retops, c

\* Tokens that neither are an op nor end in the names of an operation.
Other == {";", ")", "]", "][", "]=", "]()", "{", "}"} \cup Labels

LEMMA OtherNew == ASSUME NEW t \in Other PROVE ~NewOp(t) /\ t \notin Opening
BY DEF Other, NewOp, Labels, Plain, Opening, Bodies, Values, Objects

LEMMA EndIndexRetops ==
    ASSUME PInv, NEW t \in Tokens, EndIndex(t)
    PROVE  \E c : Retops(t, c)
<1> DEFINE c == [NextList EXCEPT !.kind = IF t = "]=" THEN "a=" ELSE @]
<1>1. /\ t \in {"][", "]="} /\ Read(t) /\ open' = Append(Outer, c) /\ ops' = ops /\ functions' = functions
      /\ Fits(t)
  BY DEF EndIndex, Read
<1>2. status = "parsing" /\ ParserTypeOK /\ t \in Other /\ t \notin Labels
  BY <1>1 DEF Read, Available, PInv, Other, Labels
<1>3. Top.kind \in Objects /\ (t = "]=" => Top.kind = "a[")
  BY <1>1 DEF Fits, Objects
<1>4. /\ NextList \in Constructs /\ NextList.lists = Append(Top.lists, <<>>)
      /\ NextList.kind = Top.kind /\ NextList.at = Top.at /\ NextList.labels = Top.labels
      /\ NextList.lists # <<>> /\ Len(NextList.lists) = Len(Top.lists) + 1
  BY <1>2, MoreLists
<1>5. "a=" \in Kinds /\ Objects \subseteq Kinds
  BY DEF Kinds, Opening, Values
<1>6. /\ c \in Constructs /\ c.lists = Append(Top.lists, <<>>) /\ c.lists # <<>>
      /\ Len(c.lists) = Len(Top.lists) + 1
      /\ c.kind = (IF t = "]=" THEN "a=" ELSE Top.kind) /\ c.at = Top.at /\ c.labels = Top.labels
  BY <1>4, <1>5 DEF Constructs
<1> HIDE DEF c
<1>7. Shaped(c.kind, c.labels, c.lists) /\ Became(Top.kind, c.kind)
  <2>1. Shaped(Top.kind, Top.labels, Top.lists)
    BY <1>2, TopFacts
  <2> QED BY <1>3, <1>6, <2>1 DEF Shaped, Objects, Became
<1>8. Around(Here)' = Append(Front(Around(Here)), Entry(c.kind, c.at, Len(c.lists)))
  <2>1. t \notin Opening
    BY <1>2, OtherNew
  <2>2. t \notin Ends(Top.kind)
    BY <1>1, <1>3 DEF Ends, Objects, Bodies, Values
  <2>3. /\ t = "][" \/ t \in Labels => Around(Here)' = Append(Front(Around(Here)), Entry(Top.kind, Top.at, Len(Top.lists) + 1))
        /\ t = "]=" => Around(Here)' = Append(Front(Around(Here)), Entry("a=", Top.at, Len(Top.lists) + 1))
    BY <1>1, <2>1, <2>2, TopRules
  <2> QED BY <1>1, <1>6, <2>3
<1>9. /\ open' \in Seq(Constructs) /\ Len(open') = Len(open)
      /\ \A i \in 1 .. Len(open) - 1 : open'[i] = open[i]
      /\ open'[Len(open)] = c
      /\ Len(Around(Here)') = Len(open)
      /\ \A i \in 1 .. Len(open) - 1 : Around(Here)'[i] = Around(Here)[i]
      /\ Around(Here)'[Len(open)] = Entry(c.kind, c.at, Len(c.lists))
  BY <1>1, <1>2, <1>6, <1>8, RetopsShape
<1>10. Retops(t, c)
  BY <1>1, <1>2, <1>6, <1>7, <1>9, OtherNew DEF Retops
<1> QED BY <1>10

LEMMA OpenSwitchRetops ==
    ASSUME PInv, OpenSwitch
    PROVE  \E t \in Tokens : \E c : Retops(t, c)
<1> DEFINE c == [Top EXCEPT !.kind = "switch {"]
           t == "{"
<1>1. Read(t) /\ open' = Append(Outer, c) /\ ops' = ops /\ functions' = functions /\ Fits(t)
  BY DEF OpenSwitch, Read
<1>2. t \in Tokens /\ status = "parsing" /\ ParserTypeOK /\ t \in Other /\ t \notin Labels
  BY <1>1 DEF Read, Available, PInv, Other, Labels, Tokens
<1>3. Top.kind = "switch"
  BY <1>1 DEF Fits
<1>4. Top \in Constructs /\ "switch {" \in Kinds
  BY <1>2, AtTop DEF Kinds
<1>5. /\ c \in Constructs /\ c.lists = Top.lists
      /\ c.kind = "switch {" /\ c.at = Top.at /\ c.labels = Top.labels
  BY <1>4 DEF Constructs
<1> HIDE DEF c
<1>6. c.lists # <<>>
  BY <1>2, <1>5, TopFacts
<1>7. Shaped(c.kind, c.labels, c.lists) /\ Became(Top.kind, c.kind)
  <2>1. Shaped(Top.kind, Top.labels, Top.lists)
    BY <1>2, TopFacts
  <2>2. Top.labels = <<>> /\ Len(Top.lists) = 1
    BY <1>3, <2>1 DEF Shaped, Objects
  <2>3. c.labels = <<>> /\ Len(c.lists) = 1 /\ Len(<<>>) = 0
    BY <1>5, <2>2
  <2>4. Len(c.lists) = Len(c.labels) + 1
    <3>1. \A x : x = <<>> => Len(x) = 0
      OBVIOUS
    <3>2. Len(c.labels) = 0
      BY <2>3, <3>1, Zenon
    <3> QED BY <2>3, <3>2
  <2>6. Shaped(c.kind, c.labels, c.lists)
    BY <1>5, <1>6, <2>3, <2>4 DEF Shaped, Objects
  <2>5. Became(Top.kind, c.kind)
    BY <1>3, <1>5 DEF Became
  <2> QED BY <2>5, <2>6
<1>8. Around(Here)' = Append(Front(Around(Here)), Entry(c.kind, c.at, Len(c.lists)))
  <2>1. t \notin Opening
    BY <1>2, OtherNew
  <2>2. t \notin Ends(Top.kind)
    BY <1>3 DEF Ends, Objects, Bodies, Values
  <2>3. Around(Here)' = Append(Front(Around(Here)), Entry("switch {", Top.at, Len(Top.lists)))
    BY <1>1, <1>2, <2>1, <2>2, TopRules
  <2> QED BY <1>5, <2>3
<1>9. /\ open' \in Seq(Constructs) /\ Len(open') = Len(open)
      /\ \A i \in 1 .. Len(open) - 1 : open'[i] = open[i]
      /\ open'[Len(open)] = c
      /\ Len(Around(Here)') = Len(open)
      /\ \A i \in 1 .. Len(open) - 1 : Around(Here)'[i] = Around(Here)[i]
      /\ Around(Here)'[Len(open)] = Entry(c.kind, c.at, Len(c.lists))
  BY <1>1, <1>2, <1>5, <1>6, <1>8, RetopsShape
<1>10. Retops(t, c)
  BY <1>1, <1>2, <1>5, <1>7, <1>9, OtherNew DEF Retops
<1> QED BY <1>2, <1>10

LEMMA CaseLabelRetops ==
    ASSUME PInv, NEW t \in Tokens, CaseLabel(t)
    PROVE  \E c : Retops(t, c)
<1> DEFINE c == [NextList EXCEPT !.labels = Append(@, t)]
<1>1. /\ t \in Labels /\ Read(t) /\ open' = Append(Outer, c) /\ ops' = ops /\ functions' = functions
      /\ Fits(t)
  BY DEF CaseLabel, Read
<1>2. status = "parsing" /\ ParserTypeOK /\ t \in Other
  BY <1>1 DEF Read, Available, PInv, Other
<1>3. Top.kind = "switch {"
  BY <1>1 DEF Fits
<1>4. /\ NextList \in Constructs /\ NextList.lists = Append(Top.lists, <<>>)
      /\ NextList.kind = Top.kind /\ NextList.at = Top.at /\ NextList.labels = Top.labels
      /\ NextList.lists # <<>> /\ Len(NextList.lists) = Len(Top.lists) + 1
  BY <1>2, MoreLists
<1> DEFINE l == Append(Top.labels, t)
<1>5. l \in Seq(Labels) /\ Len(l) = Len(Top.labels) + 1
  <2>1. Top.labels \in Seq(Labels)
    BY <1>2, TopFacts
  <2> QED BY <1>1, <2>1
<1>6. /\ c \in Constructs /\ c.lists = Append(Top.lists, <<>>) /\ c.lists # <<>>
      /\ Len(c.lists) = Len(Top.lists) + 1
      /\ c.kind = Top.kind /\ c.at = Top.at /\ c.labels = l
  <2>1. c = [NextList EXCEPT !.labels = l]
    BY <1>4
  <2> HIDE DEF c, l
  <2> QED BY <1>4, <1>5, <2>1 DEF Constructs
<1> HIDE DEF c
<1>7. /\ Shaped(c.kind, c.labels, c.lists) /\ Became(Top.kind, c.kind)
      /\ Len(Top.lists) = Len(c.labels)
  <2>1. Shaped(Top.kind, Top.labels, Top.lists)
    BY <1>2, TopFacts
  <2>2. Len(Top.lists) = Len(Top.labels) + 1
    BY <1>3, <2>1 DEF Shaped
  <2> HIDE DEF l
  <2> QED BY <1>3, <1>5, <1>6, <2>2 DEF Shaped, Objects, Became
<1>8. Around(Here)' = Append(Front(Around(Here)), Entry(c.kind, c.at, Len(c.lists)))
  <2>1. t \notin Opening
    BY <1>2, OtherNew
  <2>2. t \notin Ends(Top.kind)
    BY <1>1, <1>3 DEF Ends, Objects, Bodies, Values, Labels
  <2>3. t = "][" \/ t \in Labels => Around(Here)' = Append(Front(Around(Here)), Entry(Top.kind, Top.at, Len(Top.lists) + 1))
    BY <1>1, <2>1, <2>2, TopRules
  <2> QED BY <1>1, <1>6, <2>3
<1>9. /\ open' \in Seq(Constructs) /\ Len(open') = Len(open)
      /\ \A i \in 1 .. Len(open) - 1 : open'[i] = open[i]
      /\ open'[Len(open)] = c
      /\ Len(Around(Here)') = Len(open)
      /\ \A i \in 1 .. Len(open) - 1 : Around(Here)'[i] = Around(Here)[i]
      /\ Around(Here)'[Len(open)] = Entry(c.kind, c.at, Len(c.lists))
  BY <1>1, <1>2, <1>6, <1>8, RetopsShape
<1>10. Retops(t, c)
  BY <1>1, <1>2, <1>6, <1>7, <1>9, OtherNew DEF Retops
<1> QED BY <1>10

LEMMA SkippedRetops ==
    ASSUME PInv, Semicolon, Top.kind \notin Bodies \cup Values
    PROVE  \E t \in Tokens : \E c : Retops(t, c)
<1> DEFINE t == ";"
           n == Len(open)
<1>1. Read(t) /\ open' = open /\ ops' = ops /\ functions' = functions
  BY DEF Semicolon
<1>2. t \in Tokens /\ status = "parsing" /\ ParserTypeOK /\ t \in Other /\ t \notin Labels
  BY <1>1 DEF Read, Available, PInv, Other, Labels, Tokens
<1>3. /\ Top \in Constructs /\ n \in Nat /\ n > 0 /\ Len(Around(Here)) = n /\ Top = open[n]
      /\ Innermost(Here) = Entry(Top.kind, Top.at, Len(Top.lists))
      /\ Innermost(Here) = Around(Here)[n]
      /\ open \in Seq(Constructs)
  <2>1. Here \in 1 .. Here
    BY <1>2, OpenFacts
  <2>2. Innermost(Here) = Around(Here)[Len(Around(Here))]
    BY <1>2, <2>1, Positions
  <2> QED BY <1>2, <2>2, AtTop DEF ParserTypeOK
<1>4. Shaped(Top.kind, Top.labels, Top.lists) /\ Became(Top.kind, Top.kind)
  BY <1>2, TopFacts, BecameFacts
<1>5. Around(Here)' = Around(Here)
  <2>1. t \notin Opening
    BY <1>2, OtherNew
  <2>2. t \notin Ends(Top.kind)
    BY DEF Ends
  <2>3. t \notin {"28", "][", "]=", "{"} \cup Labels
    BY <1>2
  <2> HIDE DEF t
  <2> QED BY <1>1, <1>2, <2>1, <2>2, <2>3, TopRules
<1>6. Retops(t, Top)
  BY <1>1, <1>2, <1>3, <1>4, <1>5, OtherNew DEF Retops
<1> QED BY <1>2, <1>6

--------------------------------------------------------------------------------
(* An op joins a list.                                                       *)

LEMMA AppendOpFacts ==
    ASSUME NEW f \in Constructs, f.lists # <<>>, NEW at \in Nat
    PROVE  LET c == AppendOp(f, at)
               n == Len(f.lists)
           IN
           /\ c \in Constructs /\ c.kind = f.kind /\ c.at = f.at /\ c.labels = f.labels
           /\ n \in Nat /\ n > 0 /\ n \in 1 .. n
           /\ DOMAIN f.lists = 1 .. n /\ DOMAIN c.lists = 1 .. n /\ Len(c.lists) = n /\ c.lists # <<>>
           /\ \A k \in 1 .. n : f.lists[k] \in Seq(Nat) /\ (k # n => c.lists[k] = f.lists[k])
           /\ c.lists[n] = Append(f.lists[n], at)
<1> DEFINE c == AppendOp(f, at)
           n == Len(f.lists)
           l == f.lists
           new == [l EXCEPT ![n] = Append(l[n], at)]
<1>1. l \in Seq(Seq(Nat))
  BY DEF Constructs, Parts
<1>2. n \in Nat /\ n > 0 /\ DOMAIN l = 1 .. n /\ n \in 1 .. n /\ \A k \in 1 .. n : l[k] \in Seq(Nat)
  BY <1>1
<1>3. Append(l[n], at) \in Seq(Nat)
  <2>1. l[n] \in Seq(Nat)
    BY <1>2
  <2> HIDE DEF l, n
  <2> QED BY <2>1
<1>4. c = [f EXCEPT !.lists = new]
  BY DEF AppendOp
<1> HIDE DEF c
<1>5. /\ DOMAIN new = 1 .. n /\ \A k \in 1 .. n : k # n => new[k] = l[k]
      /\ new[n] = Append(l[n], at)
  <2> HIDE DEF l, n
  <2> QED BY <1>2
<1>6. new \in Seq(Seq(Nat)) /\ Len(new) = n
  <2> DEFINE S == Seq(Nat)
  <2>1. \A k \in 1 .. n : new[k] \in S
    BY <1>2, <1>3, <1>5
  <2>2. new = [k \in 1 .. n |-> new[k]]
    <3> HIDE DEF l, n
    <3> QED BY <1>2
  <2> HIDE DEF new, n, S
  <2>3. new \in Seq(S) /\ Len(new) = n
    BY <1>2, <2>1, <2>2
  <2> QED BY <2>3 DEF S
<1> HIDE DEF new
<1>7. c \in Constructs /\ c.kind = f.kind /\ c.at = f.at /\ c.labels = f.labels /\ c.lists = new
  BY <1>4, <1>6 DEF Constructs, Parts
<1>8. c.lists # <<>>
  <2>1. Len(c.lists) # 0
    BY <1>2, <1>6, <1>7
  <2>2. \A x : x = <<>> => Len(x) = 0
    OBVIOUS
  <2> QED BY <2>1, <2>2, Zenon
<1> HIDE DEF l
<1> QED BY <1>2, <1>5, <1>6, <1>7, <1>8 DEF l, c

LEMMA ListGrows ==
    ASSUME NEW l \in Seq(Nat), NEW S, Ascending(l), Range(l) = S, NEW x \in Nat, \A y \in S : y < x
    PROVE  Ascending(Append(l, x)) /\ Range(Append(l, x)) = S \cup {x}
<1> DEFINE new == Append(l, x)
           n == Len(l)
<1>1. /\ n \in Nat /\ DOMAIN l = 1 .. n /\ DOMAIN new = 1 .. n + 1
      /\ new[n + 1] = x /\ \A i \in 1 .. n : new[i] = l[i] /\ l[i] \in Nat
  OBVIOUS
<1> HIDE DEF new, n
<1>2. \A i \in 1 .. n : l[i] \in S
  BY <1>1 DEF Range
<1>3. ASSUME NEW i \in 1 .. n + 1, NEW j \in 1 .. n + 1, i < j PROVE new[i] < new[j]
  <2>1. i \in 1 .. n
    BY <1>1, <1>3
  <2>2. CASE j \in 1 .. n
    <3>1. l[i] < l[j]
      BY <1>1, <1>3, <2>1, <2>2 DEF Ascending
    <3> QED BY <1>1, <2>1, <2>2, <3>1
  <2>3. CASE j \notin 1 .. n
    <3>1. j = n + 1
      BY <1>1, <2>3
    <3> QED BY <1>1, <1>2, <2>1, <3>1
  <2> QED BY <2>2, <2>3
<1>4. Ascending(new)
  BY <1>1, <1>3 DEF Ascending
<1>5. Range(new) = {new[i] : i \in 1 .. n + 1} /\ S = {l[i] : i \in 1 .. n}
  BY <1>1 DEF Range
<1>6. 1 .. n + 1 = (1 .. n) \cup {n + 1}
  BY <1>1
<1>7. Range(new) = S \cup {x}
  BY <1>1, <1>5, <1>6
<1> QED BY <1>4, <1>7 DEF new

LEMMA UnfinishedFacts ==
    ASSUME PInv, status # "error"
    PROVE  /\ Unfinished = {open[i].at : i \in 1 .. Len(open)}
           /\ Here \notin Unfinished /\ \A p \in Unfinished : p \in Nat /\ p < Here
           /\ DOMAIN ops = Starts \ Unfinished /\ DOMAIN ops \subseteq 1 .. Here - 1
<1>1. /\ Len(open) \in Nat /\ DOMAIN open = 1 .. Len(open) /\ open[1].at = 0
      /\ \A i \in 2 .. Len(open) : open[i].at \in 1 .. Len(text)
  BY OpenFacts
<1>2. Here = Len(text) + 1 /\ Len(text) \in Nat
  BY DEF PInv, ParserTypeOK, Here
<1>3. Unfinished = {open[i].at : i \in 1 .. Len(open)}
  BY <1>1 DEF Unfinished
<1>4. ASSUME NEW i \in 1 .. Len(open) PROVE open[i].at \in Nat /\ open[i].at < Here
  <2>1. CASE i = 1
    BY <1>1, <1>2, <2>1
  <2>2. CASE i # 1
    <3>1. i \in 2 .. Len(open)
      BY <1>1, <2>2
    <3>2. open[i].at \in 1 .. Len(text)
      BY <1>1, <3>1
    <3> QED BY <1>2, <3>2
  <2> QED BY <2>1, <2>2
<1>5. DOMAIN ops = Starts \ Unfinished /\ Starts \subseteq 1 .. Here - 1
  BY StartsInText DEF PInv, OpsByRules
<1>6. \A p \in Unfinished : p \in Nat /\ p < Here
  BY <1>3, <1>4
<1>7. Here \notin Unfinished
  BY <1>2, <1>6
<1> QED BY <1>3, <1>5, <1>6, <1>7

LEMMA Recorded ==
    ASSUME NEW at, NEW op, Record(at, op)
    PROVE  /\ DOMAIN ops' = DOMAIN ops \cup {at} /\ ops'[at] = op
           /\ \A p \in DOMAIN ops : p # at => ops'[p] = ops[p]
           /\ ops' = [p \in DOMAIN ops' |-> ops'[p]]
BY DEF Record

LEMMA PlainShape ==
    ASSUME PInv, NEW t \in Tokens, PlainOp(t)
    PROVE  LET c == AppendOp(Top, Here)
               n == Len(open)
           IN
           /\ status = "parsing" /\ Read(t) /\ t \in Plain \cup {"/1"} /\ t \notin Labels
           /\ t = "/1" => Len(Around(Here)) # 1
           /\ Around(Here)' = Around(Here)
           /\ Starts' = Starts \cup {Here} /\ Definitions' = Definitions
           /\ \A a, k : Under(a, k)' = IF a = Top.at /\ k = Len(Top.lists)
                                       THEN Under(a, k) \cup {Here} ELSE Under(a, k)
           /\ Unfinished' = Unfinished
           /\ n \in Nat /\ n \in 1 .. n /\ DOMAIN open = 1 .. n /\ open[n] = Top
           /\ open' \in Seq(Constructs) /\ open' # <<>> /\ Len(open') = n /\ DOMAIN open' = 1 .. n
           /\ \A i \in 1 .. n :
                /\ i # n => open'[i] = open[i]
                /\ open'[i].at = open[i].at /\ open'[i].kind = open[i].kind
                /\ open'[i].labels = open[i].labels /\ Len(open'[i].lists) = Len(open[i].lists)
                /\ open'[i].lists # <<>>
           /\ open'[n] = c
           /\ DOMAIN ops' = DOMAIN ops \cup {Here} /\ Here \notin DOMAIN ops
           /\ ops' = [p \in DOMAIN ops' |-> ops'[p]]
           /\ \A p \in DOMAIN ops : ops'[p] = ops[p]
           /\ ops'[Here] = Op(t, <<>>, <<>>)
           /\ functions' = functions
<1> DEFINE c == AppendOp(Top, Here)
           n == Len(open)
<1>1. /\ Read(t) /\ t \in Plain \cup {"/1"} /\ ~(t = "28" /\ Separator)
      /\ t = "/1" => ~(Len(open) = 1)
      /\ Record(Here, Op(t, <<>>, <<>>))
      /\ open' = Append(Outer, c) /\ functions' = functions
  BY DEF PlainOp, Defines, Plain
<1>2. status = "parsing" /\ status # "error" /\ ParserTypeOK
  BY <1>1 DEF Read, Available, PInv
<1>3. /\ n \in Nat /\ n > 0 /\ n \in 1 .. n /\ Len(Around(Here)) = n
      /\ Top = open[n] /\ Top \in Constructs
      /\ Innermost(Here) = Entry(Top.kind, Top.at, Len(Top.lists))
  BY <1>2, AtTop
<1>4. Top.lists # <<>> /\ (Top.kind = "main" <=> n = 1) /\ Here \in Nat /\ Here > 0
  BY <1>2, TopFacts, StartsInText
<1>5. t \notin Labels /\ t \notin {"][", "]=", "{"} /\ (t \notin Opening \/ t = "/1") /\ t \in Plain \cup Opening
  BY <1>1 DEF Labels, Opening, Plain, Bodies, Values, Objects
<1>6. Innermost(Here).at = Top.at /\ Innermost(Here).part = Len(Top.lists) /\ Innermost(Here).kind = Top.kind
  BY <1>3 DEF Entry
<1>7. NewOp(t)
  BY <1>1, <1>5, <1>6 DEF NewOp, Separator
<1>8. Around(Here)' = Around(Here)
  <2>1. t \notin Ends(Top.kind)
    BY <1>1 DEF Ends, Plain
  <2>2. t \notin Opening \/ (t = "/1" /\ Top.kind # "main")
    BY <1>1, <1>4, <1>5
  <2>3. /\ t \notin {"28", "][", "]=", "{"} \cup Labels => Around(Here)' = Around(Here)
        /\ t = "28" /\ ~(Top.kind = "20" /\ Len(Top.lists) = 1) => Around(Here)' = Around(Here)
    BY <1>1, <2>1, <2>2, TopRules
  <2> QED BY <1>1, <1>5, <2>3 DEF Separator
<1>9. /\ Starts' = Starts \cup {Here} /\ Definitions' = Definitions
      /\ \A a, k : Under(a, k)' = IF a = Top.at /\ k = Len(Top.lists)
                                  THEN Under(a, k) \cup {Here} ELSE Under(a, k)
  BY <1>1, <1>2, <1>3, <1>6, <1>7, Growth
<1>10. /\ c \in Constructs /\ c.kind = Top.kind /\ c.at = Top.at /\ c.labels = Top.labels
       /\ Len(c.lists) = Len(Top.lists) /\ c.lists # <<>>
  BY <1>3, <1>4, AppendOpFacts
<1> HIDE DEF c
<1>11. open \in Seq(Constructs) /\ open # <<>>
  BY <1>2 DEF ParserTypeOK
<1>12. /\ open' \in Seq(Constructs) /\ open' # <<>> /\ Len(open') = n
       /\ \A i \in 1 .. n - 1 : open'[i] = open[i]
       /\ open'[n] = c
  BY <1>1, <1>10, <1>11, Exchanged DEF Outer
<1>13. DOMAIN open = 1 .. n /\ DOMAIN open' = 1 .. n
  BY <1>11, <1>12
<1> HIDE DEF n
<1>14. \A i \in 1 .. n : open[i].lists # <<>>
  BY <1>2, <1>13 DEF ParserTypeOK, Shaped
<1>15. ASSUME NEW i \in 1 .. n
       PROVE  /\ i # n => open'[i] = open[i]
              /\ open'[i].at = open[i].at /\ open'[i].kind = open[i].kind
              /\ open'[i].labels = open[i].labels /\ Len(open'[i].lists) = Len(open[i].lists)
              /\ open'[i].lists # <<>>
  <2>1. CASE i = n
    BY <1>3, <1>10, <1>12, <2>1
  <2>2. CASE i # n
    <3>1. i \in 1 .. n - 1
      BY <1>3, <2>2
    <3> QED BY <1>12, <1>14, <2>2, <3>1
  <2> QED BY <2>1, <2>2
<1>16. Unfinished' = Unfinished
  <2>1. Unfinished = {open[i].at : i \in 1 .. n}
    BY <1>13 DEF Unfinished
  <2>2. Unfinished' = {open'[i].at : i \in 1 .. n}
    BY <1>13 DEF Unfinished
  <2> QED BY <1>15, <2>1, <2>2
<1>17. Here \notin DOMAIN ops
  <2>1. DOMAIN ops \subseteq 1 .. Here - 1
    BY <1>2, UnfinishedFacts
  <2> QED BY <1>4, <2>1
<1>18. /\ DOMAIN ops' = DOMAIN ops \cup {Here}
       /\ ops' = [p \in DOMAIN ops' |-> ops'[p]]
       /\ \A p \in DOMAIN ops : ops'[p] = ops[p]
       /\ ops'[Here] = Op(t, <<>>, <<>>)
  BY <1>1, <1>17, Recorded
<1> QED BY <1>1, <1>2, <1>3, <1>5, <1>8, <1>9, <1>12, <1>13, <1>15, <1>16, <1>17, <1>18 DEF n, c

LEMMA SeqWider == ASSUME NEW S, NEW T, S \subseteq T, NEW s \in Seq(S) PROVE s \in Seq(T)
OBVIOUS

LEMMA PlainType ==
    ASSUME PInv, NEW t \in Tokens, PlainOp(t)
    PROVE  ParserTypeOK'
<1>0. ParserTypeOK
  BY DEF PInv
<1>1. /\ Read(t) /\ t \in Plain \cup {"/1"}
      /\ open' \in Seq(Constructs) /\ open' # <<>> /\ DOMAIN open' = DOMAIN open
      /\ DOMAIN ops' = DOMAIN ops \cup {Here} /\ Here \notin DOMAIN ops
      /\ ops' = [p \in DOMAIN ops' |-> ops'[p]]
      /\ \A p \in DOMAIN ops : ops'[p] = ops[p]
      /\ ops'[Here] = Op(t, <<>>, <<>>)
      /\ functions' = functions
  BY PlainShape
<1>2. text' \in Seq(Tokens) /\ status' = "parsing"
  BY <1>0, <1>1, ReadFacts
<1>3. ASSUME NEW i \in DOMAIN open'
      PROVE  /\ Shaped(open'[i].kind, open'[i].labels, open'[i].lists)
             /\ open'[i].kind = "main" <=> i = 1
             /\ open'[i].kind = "/1" => i = 2
  <2>1. /\ i \in DOMAIN open
        /\ open'[i].kind = open[i].kind /\ open'[i].labels = open[i].labels
        /\ Len(open'[i].lists) = Len(open[i].lists) /\ open'[i].lists # <<>>
    BY <1>3, PlainShape
  <2>2. /\ Shaped(open[i].kind, open[i].labels, open[i].lists)
        /\ open[i].kind = "main" <=> i = 1
        /\ open[i].kind = "/1" => i = 2
    BY <1>0, <2>1 DEF ParserTypeOK
  <2>3. Shaped(open'[i].kind, open'[i].labels, open'[i].lists)
    BY <2>1, <2>2 DEF Shaped
  <2> QED BY <2>1, <2>2, <2>3
<1>4. /\ ops \in [DOMAIN ops -> Ops]
      /\ \A p \in DOMAIN ops : ops[p].subs # <<>> => Shaped(ops[p].kind, ops[p].labels, ops[p].subs)
      /\ functions \in Seq(DOMAIN ops)
      /\ \A f \in DOMAIN functions : ops[functions[f]].kind = "/1" /\ ops[functions[f]].subs # <<>>
  BY <1>0 DEF ParserTypeOK
<1>5. Op(t, <<>>, <<>>) \in Ops /\ Op(t, <<>>, <<>>).subs = <<>>
  <2>1. t \in Kinds \cup Plain
    BY <1>1 DEF Kinds, Opening, Bodies
  <2>2. <<>> \in Seq(Labels) /\ <<>> \in Seq(Seq(Nat))
    OBVIOUS
  <2> QED BY <2>1, <2>2 DEF Op, Ops, Parts
<1>6. ops' \in [DOMAIN ops' -> Ops]
  <2>1. \A p \in DOMAIN ops' : ops'[p] \in Ops
    BY <1>1, <1>4, <1>5
  <2> QED BY <1>1, <2>1
<1>7. \A p \in DOMAIN ops' : ops'[p].subs # <<>> => Shaped(ops'[p].kind, ops'[p].labels, ops'[p].subs)
  BY <1>1, <1>4, <1>5
<1>8. functions \in Seq(DOMAIN ops')
  <2>1. DOMAIN ops \subseteq DOMAIN ops'
    BY <1>1
  <2> QED BY <1>4, <2>1, SeqWider
<1>9. ASSUME NEW f \in DOMAIN functions PROVE ops'[functions[f]].kind = "/1" /\ ops'[functions[f]].subs # <<>>
  <2>1. functions[f] \in DOMAIN ops
    BY <1>4
  <2> QED BY <1>1, <1>4, <2>1
<1> QED BY <1>1, <1>2, <1>3, <1>6, <1>7, <1>8, <1>9 DEF ParserTypeOK

LEMMA PlainRules ==
    ASSUME PInv, NEW t \in Tokens, PlainOp(t)
    PROVE  OpsByRules'
<1> DEFINE n == Len(open)
           c == AppendOp(Top, Here)
           m == Len(Top.lists)
           H == Here
<1>0. ParserTypeOK /\ OpsByRules /\ status = "parsing" /\ status # "error"
  BY PlainShape DEF PInv
<1>1. /\ n \in Nat /\ n \in 1 .. n /\ DOMAIN open' = 1 .. n /\ DOMAIN open = 1 .. n /\ Len(open') = n
      /\ open[n] = Top /\ open'[n] = c
      /\ Around(Here)' = Around(Here)
      /\ Unfinished' = Unfinished /\ Definitions' = Definitions
      /\ Starts' = Starts \cup {H}
      /\ \A a, k : Under(a, k)' = IF a = Top.at /\ k = m THEN Under(a, k) \cup {H} ELSE Under(a, k)
      /\ functions' = functions
      /\ DOMAIN ops' = DOMAIN ops \cup {H} /\ H \notin DOMAIN ops
      /\ \A p \in DOMAIN ops : ops'[p] = ops[p]
      /\ ops'[H] = Op(t, <<>>, <<>>)
  BY PlainShape
<1>2. ASSUME NEW i \in 1 .. n
      PROVE  /\ i # n => open'[i] = open[i]
             /\ open'[i].at = open[i].at /\ open'[i].kind = open[i].kind
             /\ Len(open'[i].lists) = Len(open[i].lists)
  BY PlainShape
<1>3. /\ \A i \in 1 .. n :
           /\ Around(Here)[i] = Entry(open[i].kind, open[i].at, Len(open[i].lists))
           /\ \A k \in DOMAIN open[i].lists : Lists(open[i].lists[k], open[i].at, k)
      /\ DOMAIN ops = Starts \ Unfinished
      /\ \A p \in DOMAIN ops : \A k \in DOMAIN ops[p].subs : Lists(ops[p].subs[k], p, k)
      /\ Ascending(functions) /\ Range(functions) = Definitions \ Unfinished
      /\ Len(Around(Here)) = n
  BY <1>0, <1>1 DEF OpsByRules
<1>4. /\ Unfinished = {open[i].at : i \in 1 .. n}
      /\ H \notin Unfinished
  BY <1>0, UnfinishedFacts
<1>5. /\ c.at = Top.at /\ m \in Nat /\ m \in 1 .. m /\ DOMAIN c.lists = 1 .. m /\ DOMAIN Top.lists = 1 .. m
      /\ \A k \in 1 .. m : Top.lists[k] \in Seq(Nat) /\ (k # m => c.lists[k] = Top.lists[k])
      /\ c.lists[m] = Append(Top.lists[m], H)
  BY <1>0, TopFacts, AtTop, AppendOpFacts, StartsInText
<1>6. H \in Nat /\ \A a, k : Under(a, k) \subseteq 1 .. H - 1
  BY <1>0, StartsInText
<1> HIDE DEF n, c, m, H
<1>7. \A l, a, k : a # Top.at \/ k # m => (Lists(l, a, k)' <=> Lists(l, a, k))
  BY <1>1 DEF Lists
<1>8. \A p \in DOMAIN ops : p # Top.at
  BY <1>1, <1>3, <1>4
<1>9. ASSUME NEW i \in 1 .. n, NEW k \in DOMAIN open'[i].lists
      PROVE  Lists(open[i].lists[k], open[i].at, k)'
  <2>1. PICK l, a : l = open'[i].lists[k] /\ a = open[i].at
    OBVIOUS
  <2>2. CASE i # n
    <3>1. open'[i] = open[i]
      BY <1>2, <2>2
    <3>2. Lists(l, a, k)
      BY <1>3, <2>1, <3>1
    <3>3. a # Top.at
      <4>1. open[n].at # open[i].at
        BY <1>0, <1>1, <2>2, OpenOnce DEF n
      <4> QED BY <1>1, <2>1, <4>1
    <3>4. Lists(l, a, k)'
      BY <1>7, <3>2, <3>3
    <3> QED BY <2>1, <3>1, <3>4
  <2>3. CASE i = n /\ k # m
    <3>1. k \in 1 .. m /\ l = Top.lists[k] /\ a = Top.at
      BY <1>1, <1>5, <2>1, <2>3
    <3>2. Lists(Top.lists[k], Top.at, k)
      BY <1>1, <1>3, <1>5, <3>1
    <3>3. Lists(l, a, k)'
      BY <1>7, <2>3, <3>1, <3>2
    <3> QED BY <1>1, <1>2, <2>1, <2>3, <3>3
  <2>4. CASE i = n /\ k = m
    <3>1. l = Append(Top.lists[m], H) /\ a = Top.at /\ m \in DOMAIN Top.lists
      BY <1>1, <1>5, <2>1, <2>4
    <3>2. Lists(Top.lists[m], Top.at, m)
      BY <1>1, <1>3, <3>1
    <3>3. Ascending(Top.lists[m]) /\ Range(Top.lists[m]) = Under(Top.at, m) \ Unfinished
      BY <3>2 DEF Lists
    <3>4. \A y \in Under(Top.at, m) \ Unfinished : y < H
      BY <1>6
    <3>5. Top.lists[m] \in Seq(Nat)
      BY <1>5
    <3>6. Ascending(l) /\ Range(l) = (Under(Top.at, m) \ Unfinished) \cup {H}
      BY <1>6, <3>1, <3>3, <3>4, <3>5, ListGrows
    <3>7. Under(a, k)' = Under(Top.at, m) \cup {H}
      BY <1>1, <2>4, <3>1
    <3>8. Lists(l, a, k)'
      BY <1>1, <1>4, <3>6, <3>7 DEF Lists
    <3> QED BY <1>2, <2>1, <2>4, <3>8
  <2> QED BY <2>2, <2>3, <2>4
<1>10. ASSUME NEW p \in DOMAIN ops', NEW k \in DOMAIN ops'[p].subs
       PROVE  Lists(ops[p].subs[k], p, k)'
  <2>1. p # H
    <3>1. Op(t, <<>>, <<>>).subs = <<>>
      BY DEF Op
    <3>2. DOMAIN Op(t, <<>>, <<>>).subs = {}
      BY <3>1
    <3> QED BY <1>1, <1>10, <3>2
  <2>2. p \in DOMAIN ops /\ ops'[p] = ops[p]
    BY <1>1, <2>1
  <2>3. PICK l : l = ops'[p].subs[k]
    OBVIOUS
  <2>4. Lists(l, p, k)
    BY <1>3, <2>2, <2>3
  <2>5. Lists(l, p, k)'
    BY <1>7, <1>8, <2>2, <2>4
  <2> QED BY <2>3, <2>5
<1>11. DOMAIN ops' = Starts' \ Unfinished'
  BY <1>1, <1>3, <1>4
<1>12. \A i \in 1 .. n : Around(Here)'[i] = Entry(open'[i].kind, open'[i].at, Len(open'[i].lists))
  BY <1>1, <1>2, <1>3
<1>13. \A i \in 1 .. n : \A k \in DOMAIN open'[i].lists : Lists(open[i].lists[k], open[i].at, k)'
  <2> SUFFICES ASSUME NEW i \in 1 .. n, NEW k \in DOMAIN open'[i].lists
               PROVE  Lists(open[i].lists[k], open[i].at, k)'
    OBVIOUS
  <2> QED BY <1>9
<1>14. n <= n /\ Len(Around(Here)') = n
  BY <1>1, <1>3
<1> QED BY <1>1, <1>3, <1>10, <1>11, <1>12, <1>13, <1>14 DEF OpsByRules

\* An op of a switch is in one of its groups, or in the expression it is about.
Grouping == Labels \cup {"}"}

LEMMA OpenParts ==
    ASSUME PInv, NEW t \in Tokens, Read(t), t \notin Grouping
    PROVE  \A i \in 1 .. Len(open) :
             /\ open[i].kind = "switch {" => open[i].labels # <<>> /\ Len(open[i].lists) > 1
             /\ open[i].kind = "switch" => Len(open[i].lists) = 1
             /\ Around(Here)[i].kind = open[i].kind /\ Around(Here)[i].at = open[i].at
             /\ Around(Here)[i].part = Len(open[i].lists)
<1> DEFINE n == Len(open)
<1>0. status = "parsing" /\ status # "error" /\ ParserTypeOK /\ KindsKept /\ Fits(t)
  BY DEF PInv, Read, Available
<1>1. /\ n \in Nat /\ n > 0 /\ DOMAIN open = 1 .. n /\ Top = open[n]
      /\ \A i \in 1 .. n :
           /\ open[i] \in Constructs
           /\ Around(Here)[i] = Entry(open[i].kind, open[i].at, Len(open[i].lists))
  BY <1>0, OpenFacts, AtTop
<1>2. \A m \in 1 .. n - 1 : open[m].kind = "switch {" => open[m].labels # <<>>
  BY <1>0 DEF KindsKept
<1>3. Top.kind = "switch {" => Top.labels # <<>>
  BY <1>0 DEF Fits, Grouping
<1>4. \A i \in 1 .. n : Shaped(open[i].kind, open[i].labels, open[i].lists)
  BY <1>0, <1>1 DEF ParserTypeOK
<1> HIDE DEF n
<1>5. ASSUME NEW i \in 1 .. n
      PROVE  /\ open[i].kind = "switch {" => open[i].labels # <<>> /\ Len(open[i].lists) > 1
             /\ open[i].kind = "switch" => Len(open[i].lists) = 1
  <2>1. open[i].kind = "switch {" => open[i].labels # <<>>
    <3>1. CASE i = n
      <4>1. open[i] = Top
        BY <1>1, <3>1
      <4> QED BY <1>3, <4>1
    <3>2. CASE i # n
      <4>1. i \in 1 .. n - 1
        BY <1>1, <3>2
      <4> QED BY <1>2, <4>1
    <3> QED BY <3>1, <3>2
  <2>2. open[i].labels \in Seq(Labels)
    <3>1. open[i] \in Constructs
      BY <1>1
    <3> QED BY <3>1 DEF Constructs
  <2>3. open[i].labels # <<>> => Len(open[i].labels) > 0 /\ Len(open[i].labels) \in Nat
    BY <2>2
  <2>4. /\ open[i].kind = "switch {" => Len(open[i].lists) = Len(open[i].labels) + 1
        /\ open[i].kind = "switch" => Len(open[i].lists) = 1
    <3>1. Shaped(open[i].kind, open[i].labels, open[i].lists)
      BY <1>4
    <3> QED BY <3>1 DEF Shaped, Objects
  <2>5. ASSUME open[i].kind = "switch {" PROVE Len(open[i].lists) > 1
    <3> DEFINE d == Len(open[i].labels)
               e == Len(open[i].lists)
    <3>1. d > 0 /\ d \in Nat /\ e = d + 1
      BY <2>1, <2>3, <2>4, <2>5
    <3> HIDE DEF d, e
    <3>2. e > 1
      BY <3>1
    <3> QED BY <3>2 DEF e
  <2> QED BY <2>1, <2>4, <2>5
<1>6. ASSUME NEW i \in 1 .. n
      PROVE  /\ Around(Here)[i].kind = open[i].kind /\ Around(Here)[i].at = open[i].at
             /\ Around(Here)[i].part = Len(open[i].lists)
  <2>1. Around(Here)[i] = Entry(open[i].kind, open[i].at, Len(open[i].lists))
    BY <1>1
  <2> QED BY <2>1 DEF Entry
<1> QED BY <1>5, <1>6 DEF n

LEMMA PlainKinds ==
    ASSUME PInv, NEW t \in Tokens, PlainOp(t)
    PROVE  KindsKept'
<1> DEFINE n == Len(open)
           H == Here
<1>0. ParserTypeOK /\ KindsKept /\ status = "parsing" /\ Read(t) /\ status # "error"
  BY PlainShape DEF PInv
<1>1. /\ n \in Nat /\ n \in 1 .. n /\ Len(open') = n
      /\ Around(Here)' = Around(Here)
      /\ Definitions' = Definitions /\ Starts' = Starts \cup {H}
      /\ DOMAIN ops' = DOMAIN ops \cup {H} /\ H \notin DOMAIN ops
      /\ \A p \in DOMAIN ops : ops'[p] = ops[p]
      /\ ops'[H] = Op(t, <<>>, <<>>)
      /\ t \in Plain \cup {"/1"} /\ t \notin Labels
  BY PlainShape
<1>2. /\ \A i \in 1 .. n :
           /\ i # n => open'[i] = open[i]
           /\ open'[i].at = open[i].at /\ open'[i].kind = open[i].kind
           /\ open'[i].labels = open[i].labels
  BY PlainShape
<1>3. /\ H \in Nat /\ H > 0 /\ Here' = H + 1
      /\ \A j \in 1 .. H - 1 : text'[j] = text[j]
      /\ text'[H] = t
      /\ \A j \in 1 .. H : Around(j)' = Around(j)
  BY <1>0, ReadFacts
<1>4. Starts \subseteq 1 .. H - 1 /\ DOMAIN ops \subseteq 1 .. H - 1 /\ DOMAIN ops = Starts \ Unfinished
      /\ Definitions \subseteq 1 .. H - 1
  BY <1>0, StartsInText, UnfinishedFacts
<1>5. /\ \A p \in DOMAIN ops : /\ Became(text[p], ops[p].kind)
                               /\ ops[p].subs = <<>> <=> Childless(p)
      /\ \A i \in 2 .. n : Became(text[open[i].at], open[i].kind)
      /\ \A j \in 1 .. H : \A i \in 2 .. Len(Around(j)) :
             LET e == Around(j)[i] IN
             /\ e.at \in DOMAIN ops => Became(e.kind, ops[e.at].kind)
             /\ \A m \in 2 .. n : open[m].at = e.at => Became(e.kind, open[m].kind)
             /\ j \in Starts /\ e.kind = "switch {" => e.part > 1
             /\ j \in Starts /\ e.kind = "switch" => e.part = 1
      /\ \A m \in 1 .. n - 1 : open[m].kind = "switch {" => open[m].labels # <<>>
  BY <1>0 DEF KindsKept
<1>6. \A i \in 1 .. n :
             /\ open[i].kind = "switch {" => Len(open[i].lists) > 1
             /\ open[i].kind = "switch" => Len(open[i].lists) = 1
             /\ Around(Here)[i].kind = open[i].kind /\ Around(Here)[i].at = open[i].at
             /\ Around(Here)[i].part = Len(open[i].lists)
  <2>1. t \notin Grouping
    BY <1>1 DEF Plain, Grouping
  <2> QED BY <1>0, <2>1, OpenParts
<1>7. \A j \in 1 .. H : \A i \in 2 .. Len(Around(j)) : Around(j)[i].at \in 1 .. j - 1
  BY <1>0, Positions
<1>8. Len(Around(Here)) = n /\ H \in 1 .. H
  BY <1>0, <1>3, AtTop
<1>9. \A i \in 2 .. n : open[i].at \in 1 .. H - 1
  <2>1. Len(text) = H - 1
    BY <1>0 DEF ParserTypeOK, Here
  <2> QED BY <1>0, <2>1, OpenFacts
<1> HIDE DEF n, H
<1>10. ASSUME NEW p \in DOMAIN ops'
       PROVE  /\ Became(text'[p], ops'[p].kind)
              /\ ops'[p].subs = <<>> <=> Childless(p)'
  <2>1. CASE p = H
    <3>1. text'[p] = t /\ ops'[p].kind = t /\ ops'[p].subs = <<>>
      BY <1>1, <1>3, <2>1 DEF Op
    <3>2. Childless(p)'
      <4>1. H \notin Definitions
        BY <1>3, <1>4
      <4> QED BY <1>1, <2>1, <3>1, <4>1 DEF Childless
    <3> QED BY <3>1, <3>2, BecameFacts
  <2>2. CASE p # H
    <3>1. p \in DOMAIN ops /\ text'[p] = text[p] /\ ops'[p] = ops[p]
      BY <1>1, <1>3, <1>4, <2>2
    <3> QED BY <1>1, <1>5, <3>1 DEF Childless
  <2> QED BY <2>1, <2>2
<1>11. ASSUME NEW i \in 2 .. n PROVE Became(text'[open'[i].at], open'[i].kind)
  <2>1. i \in 1 .. n
    BY <1>1
  <2>2. open'[i].at = open[i].at /\ open'[i].kind = open[i].kind
    BY <1>2, <2>1
  <2>3. text'[open[i].at] = text[open[i].at]
    BY <1>3, <1>9
  <2> QED BY <1>5, <2>2, <2>3
<1>12. ASSUME NEW j \in 1 .. H + 1, NEW i \in 2 .. Len(Around(j)')
       PROVE  LET e == Around(j)'[i] IN
              /\ e.at \in DOMAIN ops' => Became(e.kind, ops'[e.at].kind)
              /\ \A m \in 2 .. n : open'[m].at = e.at => Became(e.kind, open'[m].kind)
              /\ j \in Starts' /\ e.kind = "switch {" => e.part > 1
              /\ j \in Starts' /\ e.kind = "switch" => e.part = 1
  <2> DEFINE g == IF j = H + 1 THEN H ELSE j
  <2>1. g \in 1 .. H /\ Around(j)' = Around(g) /\ i \in 2 .. Len(Around(g))
    <3>1. CASE j = H + 1
      <4>1. Around(j)' = Around(Here)'
        BY <1>3, <3>1
      <4> QED BY <1>1, <1>8, <3>1, <4>1 DEF H
    <3>2. CASE j # H + 1
      BY <1>3, <3>2
    <3> QED BY <3>1, <3>2
  <2> DEFINE e == Around(g)[i]
  <2>2. /\ e.at \in DOMAIN ops => Became(e.kind, ops[e.at].kind)
        /\ \A m \in 2 .. n : open[m].at = e.at => Became(e.kind, open[m].kind)
        /\ g \in Starts /\ e.kind = "switch {" => e.part > 1
        /\ g \in Starts /\ e.kind = "switch" => e.part = 1
    BY <1>5, <2>1
  <2>3. e.at \in 1 .. g - 1
    BY <1>7, <2>1
  <2>4. e.at # H
    BY <1>3, <2>1, <2>3
  <2>5. g = H => /\ e.kind = "switch {" => e.part > 1
                 /\ e.kind = "switch" => e.part = 1
    <3> SUFFICES ASSUME g = H
                 PROVE  /\ e.kind = "switch {" => e.part > 1
                        /\ e.kind = "switch" => e.part = 1
      OBVIOUS
    <3>1. i \in 1 .. n /\ e = Around(Here)[i]
      BY <1>1, <1>8, <2>1 DEF H
    <3> HIDE DEF e, g
    <3> QED BY <1>6, <3>1
  <2>6. j \in Starts' => g = H \/ (g = j /\ g \in Starts)
    BY <1>1, <1>3, <1>4
  <2> HIDE DEF e, g
  <2>7. e.at \in DOMAIN ops' => Became(e.kind, ops'[e.at].kind)
    BY <1>1, <2>2, <2>4
  <2>8. ASSUME NEW m \in 2 .. n, open'[m].at = e.at PROVE Became(e.kind, open'[m].kind)
    <3>1. m \in 1 .. n
      BY <1>1
    <3> QED BY <1>2, <2>2, <2>8, <3>1
  <2>9. Around(j)'[i] = e
    BY <2>1 DEF e
  <2> QED BY <2>2, <2>5, <2>6, <2>7, <2>8, <2>9
<1>13. \A m \in 1 .. n - 1 : open'[m].kind = "switch {" => open'[m].labels # <<>>
  <2> SUFFICES ASSUME NEW m \in 1 .. n - 1 PROVE open'[m].kind = "switch {" => open'[m].labels # <<>>
    OBVIOUS
  <2>1. m \in 1 .. n
    BY <1>1
  <2> QED BY <1>2, <1>5, <2>1
<1> QED BY <1>1, <1>3, <1>10, <1>11, <1>12, <1>13 DEF KindsKept

LEMMA Unlabelled ==
    ASSUME ParserTypeOK, NEW t \in Tokens, Read(t), NEW at, at = Here
    PROVE  Labelled(at, <<>>)'
<1> DEFINE H == Here
<1>1. /\ H \in Nat /\ H > 0 /\ (DOMAIN text)' = 1 .. H
      /\ \A j \in 1 .. H : Innermost(j)' = Innermost(j)
      /\ Here' = H + 1
  BY ReadFacts
<1>2. ASSUME NEW j \in 1 .. H PROVE Innermost(j).at # H
  <2> DEFINE d == Len(Around(j))
  <2>1. /\ Innermost(j) = Around(j)[d] /\ d \in Nat /\ d > 0
        /\ Around(j)[1].at = 0 /\ \A i \in 2 .. d : Around(j)[i].at \in 1 .. j - 1
    BY Positions
  <2> HIDE DEF d, H
  <2>2. CASE d = 1
    BY <1>1, <2>1, <2>2
  <2>3. CASE d # 1
    <3>1. d \in 2 .. d
      BY <2>1, <2>3
    <3>2. Innermost(j).at \in 1 .. j - 1
      BY <2>1, <3>1
    <3> QED BY <1>1, <3>2
  <2> QED BY <2>2, <2>3
<1>3. at = H
  OBVIOUS
<1> HIDE DEF H
<1>4. \A x : x = <<>> => DOMAIN x = {}
  OBVIOUS
<1>5. PICK l : l = <<>>
  OBVIOUS
<1>6. DOMAIN l = {}
  BY <1>4, <1>5
<1>7. Labelled(at, l)'
  BY <1>1, <1>2, <1>3, <1>6 DEF Labelled
<1> QED BY <1>5, <1>7

LEMMA PlainLabels ==
    ASSUME PInv, NEW t \in Tokens, PlainOp(t)
    PROVE  LabelsKept'
<1> DEFINE n == Len(open)
           H == Here
<1>0. ParserTypeOK /\ LabelsKept /\ status = "parsing" /\ Read(t) /\ t \notin Labels
  BY PlainShape DEF PInv
<1>1. /\ n \in Nat /\ DOMAIN open' = 1 .. n /\ DOMAIN open = 1 .. n
      /\ DOMAIN ops' = DOMAIN ops \cup {H} /\ H \notin DOMAIN ops
      /\ \A p \in DOMAIN ops : ops'[p] = ops[p]
      /\ ops'[H] = Op(t, <<>>, <<>>)
  BY PlainShape
<1>2. \A i \in 1 .. n : open'[i].at = open[i].at /\ open'[i].labels = open[i].labels
  BY PlainShape
<1>3. /\ \A p \in DOMAIN ops : Labelled(p, ops[p].labels)
      /\ \A i \in 1 .. n : Labelled(open[i].at, open[i].labels)
  BY <1>0, <1>1 DEF LabelsKept
<1> HIDE DEF n
<1>4. ASSUME NEW p \in DOMAIN ops' PROVE Labelled(p, ops[p].labels)'
  <2>1. CASE p = H
    <3>1. Labelled(p, <<>>)'
      BY <1>0, <2>1, Unlabelled
    <3>2. PICK l : l = ops'[p].labels
      OBVIOUS
    <3>3. l = <<>>
      BY <1>1, <2>1, <3>2 DEF Op
    <3>4. Labelled(p, l)'
      BY <3>1, <3>3
    <3> QED BY <3>2, <3>4
  <2>2. CASE p # H
    <3>1. PICK l : l = ops[p].labels
      OBVIOUS
    <3>2. p \in DOMAIN ops /\ l = ops'[p].labels
      BY <1>1, <2>2, <3>1
    <3>3. Labelled(p, l)'
      BY <1>0, <1>3, <3>1, <3>2, LabelledSame
    <3> QED BY <3>2, <3>3
  <2> QED BY <2>1, <2>2
<1>5. ASSUME NEW i \in 1 .. n PROVE Labelled(open[i].at, open[i].labels)'
  <2>1. PICK at, l : at = open[i].at /\ l = open[i].labels
    OBVIOUS
  <2>2. Labelled(at, l)'
    BY <1>0, <1>3, <2>1, LabelledSame
  <2> QED BY <1>2, <2>1, <2>2
<1> QED BY <1>1, <1>4, <1>5 DEF LabelsKept

--------------------------------------------------------------------------------
(* A construct begins.                                                       *)

LEMMA BeginShape ==
    ASSUME PInv, NEW t \in Tokens, Begin(t)
    PROVE  LET c == Construct(t, <<<<>>>>)
               n == Len(open)
           IN
           /\ status = "parsing" /\ Read(t) /\ t \in Opening /\ t \notin Labels
           /\ t = "/1" => n = 1
           /\ n \in Nat /\ n > 0 /\ n + 1 \in 1 .. n + 1 /\ DOMAIN open = 1 .. n
           /\ c \in Constructs /\ c.kind = t /\ c.at = Here /\ c.labels = <<>> /\ c.lists = <<<<>>>>
           /\ open' \in Seq(Constructs) /\ open' # <<>> /\ Len(open') = n + 1 /\ DOMAIN open' = 1 .. n + 1
           /\ \A i \in 1 .. n : open'[i] = open[i]
           /\ open'[n + 1] = c
           /\ Len(Around(Here)') = n + 1
           /\ \A i \in 1 .. n : Around(Here)'[i] = Around(Here)[i]
           /\ Around(Here)'[n + 1] = Entry(t, Here, 1)
           /\ Starts' = Starts \cup {Here}
           /\ Definitions' = IF t = "/1" THEN Definitions \cup {Here} ELSE Definitions
           /\ \A a, k : Under(a, k)' = IF t # "/1" /\ a = Top.at /\ k = Len(Top.lists)
                                       THEN Under(a, k) \cup {Here} ELSE Under(a, k)
           /\ Unfinished' = Unfinished \cup {Here}
           /\ ops' = ops /\ functions' = functions
<1> DEFINE c == Construct(t, <<<<>>>>)
           n == Len(open)
           a == Around(Here)
           e == Entry(t, Here, 1)
<1>1. /\ Read(t) /\ t \in Opening /\ (t = "/1" => n = 1)
      /\ open' = Append(open, c) /\ ops' = ops /\ functions' = functions
  BY DEF Begin, Defines
<1>2. status = "parsing" /\ status # "error" /\ ParserTypeOK /\ t \notin Labels
  BY <1>1 DEF Read, Available, PInv, Opening, Labels, Bodies, Values, Objects
<1>3. /\ n \in Nat /\ n > 0 /\ Len(a) = n
      /\ Innermost(Here) = Entry(Top.kind, Top.at, Len(Top.lists))
      /\ a \in Seq(Entries) /\ a # <<>>
  BY <1>2, AtTop
<1>4. Innermost(Here).at = Top.at /\ Innermost(Here).part = Len(Top.lists)
  BY <1>3 DEF Entry
<1>5. NewOp(t)
  <2>1. t # "28"
    BY <1>1 DEF Opening, Bodies, Values, Objects
  <2> QED BY <1>1, <2>1 DEF NewOp
<1>6. Here \in Nat /\ Here > 0
  BY <1>2, StartsInText
<1>7. e \in Entries
  <2>1. t \in Kinds
    BY <1>1, Zenon DEF Kinds
  <2> QED BY <1>6, <2>1 DEF Entry, Entries
<1>8. Around(Here)' = Append(a, e)
  <2>1. Around(Here)' = Meaning(Around(Here), t, Here)
    BY <1>1, <1>2, ReadFacts
  <2> QED BY <1>1, <1>3, <2>1 DEF Meaning
<1>9. c \in Constructs /\ c.kind = t /\ c.at = Here /\ c.labels = <<>> /\ c.lists = <<<<>>>>
  <2>1. t \in Kinds
    BY <1>1, Zenon DEF Kinds
  <2>2. <<>> \in Seq(Labels) /\ <<<<>>>> \in Seq(Seq(Nat))
    OBVIOUS
  <2> QED BY <1>6, <2>1, <2>2 DEF Construct, Constructs, Parts
<1> HIDE DEF c, e, a
<1>10. open \in Seq(Constructs) /\ open # <<>>
  BY <1>2 DEF ParserTypeOK
<1>11. /\ open' \in Seq(Constructs) /\ open' # <<>> /\ Len(open') = n + 1
       /\ \A i \in 1 .. n : open'[i] = open[i]
       /\ open'[n + 1] = c
  BY <1>1, <1>9, <1>10, Appended
<1>12. /\ Len(Append(a, e)) = n + 1
       /\ \A i \in 1 .. n : Append(a, e)[i] = a[i]
       /\ Append(a, e)[n + 1] = e
  BY <1>3, <1>7, Appended
<1>13. DOMAIN open = 1 .. n /\ DOMAIN open' = 1 .. n + 1 /\ n + 1 \in 1 .. n + 1
  BY <1>3, <1>10, <1>11
<1> HIDE DEF n
<1>14. Unfinished' = Unfinished \cup {Here}
  <2>1. Unfinished = {open[i].at : i \in 1 .. n}
    BY <1>13 DEF Unfinished
  <2>2. Unfinished' = {open'[i].at : i \in 1 .. n + 1}
    BY <1>13 DEF Unfinished
  <2>3. 1 .. n + 1 = (1 .. n) \cup {n + 1}
    BY <1>3
  <2> QED BY <1>9, <1>11, <2>1, <2>2, <2>3
<1>15. /\ Starts' = Starts \cup {Here}
       /\ Definitions' = IF t = "/1" THEN Definitions \cup {Here} ELSE Definitions
       /\ \A x, k : Under(x, k)' = IF t # "/1" /\ x = Top.at /\ k = Len(Top.lists)
                                   THEN Under(x, k) \cup {Here} ELSE Under(x, k)
  BY <1>1, <1>2, <1>3, <1>4, <1>5, Growth DEF a
<1> QED BY <1>1, <1>2, <1>3, <1>8, <1>9, <1>11, <1>12, <1>13, <1>14, <1>15 DEF n, c, a, e

LEMMA BeginType ==
    ASSUME PInv, NEW t \in Tokens, Begin(t)
    PROVE  ParserTypeOK'
<1> DEFINE n == Len(open)
           c == Construct(t, <<<<>>>>)
<1>0. ParserTypeOK
  BY DEF PInv
<1>1. /\ Read(t) /\ t \in Opening /\ (t = "/1" => n = 1) /\ n \in Nat /\ n > 0
      /\ open' \in Seq(Constructs) /\ open' # <<>> /\ DOMAIN open' = 1 .. n + 1 /\ DOMAIN open = 1 .. n
      /\ \A i \in 1 .. n : open'[i] = open[i]
      /\ open'[n + 1] = c /\ c.kind = t /\ c.labels = <<>> /\ c.lists = <<<<>>>>
      /\ ops' = ops /\ functions' = functions
  BY BeginShape
<1> HIDE DEF n, c
<1>2. text' \in Seq(Tokens) /\ status' = "parsing"
  BY <1>0, <1>1, ReadFacts
<1>3. ASSUME NEW i \in DOMAIN open'
      PROVE  /\ Shaped(open'[i].kind, open'[i].labels, open'[i].lists)
             /\ open'[i].kind = "main" <=> i = 1
             /\ open'[i].kind = "/1" => i = 2
  <2>1. CASE i \in 1 .. n
    <3>1. open'[i] = open[i] /\ i \in DOMAIN open
      BY <1>1, <2>1
    <3> QED BY <1>0, <3>1 DEF ParserTypeOK
  <2>2. CASE i \notin 1 .. n
    <3>1. i = n + 1 /\ i # 1
      BY <1>1, <2>2
    <3>2. open'[i].kind = t /\ open'[i].labels = <<>> /\ open'[i].lists = <<<<>>>>
      BY <1>1, <3>1
    <3>3. t # "main" /\ t # "switch {"
      BY <1>1 DEF Opening, Bodies, Values, Objects
    <3>4. \A x : x = <<<<>>>> => x # <<>> /\ Len(x) = 1
      OBVIOUS
    <3>5. open'[i].lists # <<>> /\ Len(open'[i].lists) = 1
      BY <3>2, <3>4
    <3>6. Shaped(open'[i].kind, open'[i].labels, open'[i].lists)
      <4>1. open'[i].kind # "switch {" /\ open'[i].labels = <<>>
        BY <3>2, <3>3
      <4>2. Len(open'[i].lists) <= 2
        BY <3>5
      <4> QED BY <3>5, <4>1, <4>2 DEF Shaped
    <3>7. open'[i].kind = t /\ (t = "/1" => n + 1 = 2)
      <4>1. t = "/1" => n + 1 = 2
        BY <1>1
      <4> QED BY <3>2, <4>1
    <3> QED BY <3>1, <3>3, <3>6, <3>7
  <2> QED BY <2>1, <2>2
<1>4. /\ ops \in [DOMAIN ops -> Ops]
      /\ \A p \in DOMAIN ops : ops[p].subs # <<>> => Shaped(ops[p].kind, ops[p].labels, ops[p].subs)
      /\ functions \in Seq(DOMAIN ops)
      /\ \A f \in DOMAIN functions : ops[functions[f]].kind = "/1" /\ ops[functions[f]].subs # <<>>
  BY <1>0 DEF ParserTypeOK
<1> QED BY <1>1, <1>2, <1>3, <1>4 DEF ParserTypeOK

LEMMA BeginRules ==
    ASSUME PInv, NEW t \in Tokens, Begin(t)
    PROVE  OpsByRules'
<1> DEFINE n == Len(open)
           c == Construct(t, <<<<>>>>)
           H == Here
<1>0. ParserTypeOK /\ OpsByRules /\ status = "parsing" /\ status # "error"
  BY BeginShape DEF PInv
<1>1. /\ n \in Nat /\ n > 0 /\ DOMAIN open' = 1 .. n + 1 /\ DOMAIN open = 1 .. n /\ Len(open') = n + 1
      /\ \A i \in 1 .. n : open'[i] = open[i] /\ Around(Here)'[i] = Around(Here)[i]
      /\ open'[n + 1] = c /\ c.kind = t /\ c.at = H /\ c.lists = <<<<>>>>
      /\ Len(Around(Here)') = n + 1
      /\ Around(Here)'[n + 1] = Entry(t, H, 1)
      /\ Starts' = Starts \cup {H}
      /\ Definitions' = IF t = "/1" THEN Definitions \cup {H} ELSE Definitions
      /\ \A a, k : Under(a, k)' = IF t # "/1" /\ a = Top.at /\ k = Len(Top.lists)
                                  THEN Under(a, k) \cup {H} ELSE Under(a, k)
      /\ Unfinished' = Unfinished \cup {H}
      /\ ops' = ops /\ functions' = functions
  BY BeginShape
<1>2. /\ \A i \in 1 .. n :
           /\ Around(Here)[i] = Entry(open[i].kind, open[i].at, Len(open[i].lists))
           /\ \A k \in DOMAIN open[i].lists : Lists(open[i].lists[k], open[i].at, k)
      /\ DOMAIN ops = Starts \ Unfinished
      /\ \A p \in DOMAIN ops : \A k \in DOMAIN ops[p].subs : Lists(ops[p].subs[k], p, k)
      /\ Ascending(functions) /\ Range(functions) = Definitions \ Unfinished
  BY <1>0, <1>1 DEF OpsByRules
<1>3. /\ H \in Nat /\ H > 0 /\ H \notin Starts /\ Definitions \subseteq Starts
      /\ \A a, k : Under(a, k) \subseteq Starts
      /\ Starts \subseteq 1 .. H - 1
  BY <1>0, StartsInText
<1>4. \A k : Under(H, k) = {}
  <2> SUFFICES ASSUME NEW k, NEW j \in Under(H, k) PROVE FALSE
    OBVIOUS
  <2>1. H < j /\ j \in 1 .. H - 1
    BY <1>0, UnderFacts
  <2> QED BY <1>3, <2>1
<1>5. Top.at # H
  <2>1. Top.at \in Unfinished /\ H \notin Unfinished
    <3>1. Top = open[n] /\ n \in 1 .. n
      BY <1>0, AtTop
    <3> QED BY <1>0, <3>1, UnfinishedFacts
  <2> QED BY <2>1
<1> HIDE DEF n, c, H
<1>6. \A l, a, k : Lists(l, a, k) => Lists(l, a, k)'
  <2> SUFFICES ASSUME NEW l, NEW a, NEW k, Lists(l, a, k) PROVE Lists(l, a, k)'
    OBVIOUS
  <2>1. Under(a, k)' \ Unfinished' = Under(a, k) \ Unfinished
    BY <1>1, <1>3
  <2> QED BY <2>1 DEF Lists
<1>7. ASSUME NEW i \in 1 .. n + 1
      PROVE  /\ Around(Here)'[i] = Entry(open'[i].kind, open'[i].at, Len(open'[i].lists))
             /\ \A k \in DOMAIN open'[i].lists : Lists(open[i].lists[k], open[i].at, k)'
  <2>1. CASE i \in 1 .. n
    <3>1. open'[i] = open[i] /\ Around(Here)'[i] = Around(Here)[i]
      BY <1>1, <2>1
    <3>2. ASSUME NEW k \in DOMAIN open'[i].lists PROVE Lists(open[i].lists[k], open[i].at, k)'
      <4>1. PICK l, a : l = open[i].lists[k] /\ a = open[i].at
        OBVIOUS
      <4>2. Lists(l, a, k)
        BY <1>2, <2>1, <3>1, <4>1
      <4>3. Lists(l, a, k)'
        BY <1>6, <4>2
      <4> QED BY <3>1, <4>1, <4>3
    <3>3. Around(Here)[i] = Entry(open[i].kind, open[i].at, Len(open[i].lists))
      BY <1>2, <2>1
    <3> QED BY <3>1, <3>2, <3>3
  <2>2. CASE i \notin 1 .. n
    <3>1. i = n + 1
      BY <1>1, <2>2
    <3>2. open'[i].kind = t /\ open'[i].at = H /\ open'[i].lists = <<<<>>>>
      BY <1>1, <3>1
    <3>3. \A x : x = <<<<>>>> => DOMAIN x = {1} /\ x[1] = <<>> /\ Len(x) = 1
      OBVIOUS
    <3>4. DOMAIN open'[i].lists = {1} /\ open'[i].lists[1] = <<>> /\ Len(open'[i].lists) = 1
      BY <3>2, <3>3
    <3>5. open'[i].kind = t /\ open'[i].at = H
      BY <3>2
    <3>6. Around(Here)'[i] = Entry(open'[i].kind, open'[i].at, Len(open'[i].lists))
      BY <1>1, <3>1, <3>4, <3>5
    <3>7. ASSUME NEW k \in DOMAIN open'[i].lists PROVE Lists(open[i].lists[k], open[i].at, k)'
      <4>1. PICK l, a : l = open'[i].lists[k] /\ a = open'[i].at
        OBVIOUS
      <4>2. l = <<>> /\ a = H
        BY <3>4, <3>5, <4>1
      <4>3. Lists(l, a, k)
        <5>1. Ascending(l) /\ Range(l) = {}
          BY <4>2 DEF Ascending, Range
        <5> QED BY <1>4, <4>2, <5>1 DEF Lists
      <4>4. Lists(l, a, k)'
        BY <1>6, <4>3
      <4> QED BY <4>1, <4>4
    <3> QED BY <3>6, <3>7
  <2> QED BY <2>1, <2>2
<1>8. \A p \in DOMAIN ops' : \A k \in DOMAIN ops'[p].subs : Lists(ops[p].subs[k], p, k)'
  <2> SUFFICES ASSUME NEW p \in DOMAIN ops, NEW k \in DOMAIN ops[p].subs
               PROVE  Lists(ops[p].subs[k], p, k)'
    BY <1>1
  <2>1. PICK l : l = ops[p].subs[k]
    OBVIOUS
  <2>2. Lists(l, p, k)'
    BY <1>2, <1>6, <2>1
  <2> QED BY <1>1, <2>1, <2>2
<1>9. DOMAIN ops' = Starts' \ Unfinished' /\ Range(functions') = Definitions' \ Unfinished'
  BY <1>1, <1>2, <1>3
<1>10. n + 1 <= n + 1
  BY <1>1
<1> QED BY <1>1, <1>2, <1>7, <1>8, <1>9, <1>10 DEF OpsByRules

LEMMA BeginLabels ==
    ASSUME PInv, NEW t \in Tokens, Begin(t)
    PROVE  LabelsKept'
<1> DEFINE n == Len(open)
           c == Construct(t, <<<<>>>>)
<1>0. ParserTypeOK /\ LabelsKept /\ status = "parsing" /\ Read(t) /\ t \notin Labels
  BY BeginShape DEF PInv
<1>1. /\ n \in Nat /\ DOMAIN open' = 1 .. n + 1 /\ DOMAIN open = 1 .. n
      /\ \A i \in 1 .. n : open'[i] = open[i]
      /\ open'[n + 1] = c /\ c.at = Here /\ c.labels = <<>>
      /\ ops' = ops
  BY BeginShape
<1>2. /\ \A p \in DOMAIN ops : Labelled(p, ops[p].labels)
      /\ \A i \in 1 .. n : Labelled(open[i].at, open[i].labels)
  BY <1>0, <1>1 DEF LabelsKept
<1> HIDE DEF n, c
<1>3. ASSUME NEW p \in DOMAIN ops' PROVE Labelled(p, ops[p].labels)'
  <2>1. PICK l : l = ops[p].labels
    OBVIOUS
  <2>2. Labelled(p, l)'
    BY <1>0, <1>1, <1>2, <2>1, LabelledSame
  <2> QED BY <1>1, <2>1, <2>2
<1>4. ASSUME NEW i \in 1 .. n + 1 PROVE Labelled(open[i].at, open[i].labels)'
  <2>1. PICK at, l : at = open'[i].at /\ l = open'[i].labels
    OBVIOUS
  <2>2. CASE i \in 1 .. n
    <3>1. at = open[i].at /\ l = open[i].labels
      BY <1>1, <2>1, <2>2
    <3>2. Labelled(at, l)'
      BY <1>0, <1>2, <2>2, <3>1, LabelledSame
    <3> QED BY <2>1, <3>2
  <2>3. CASE i \notin 1 .. n
    <3>1. i = n + 1
      BY <1>1, <2>3
    <3>2. at = Here /\ l = <<>>
      BY <1>1, <2>1, <3>1
    <3>3. Labelled(at, <<>>)'
      BY <1>0, <3>2, Unlabelled
    <3>4. Labelled(at, l)'
      BY <3>2, <3>3
    <3> QED BY <2>1, <3>4
  <2> QED BY <2>2, <2>3
<1> QED BY <1>1, <1>3, <1>4 DEF LabelsKept

LEMMA BeginKinds ==
    ASSUME PInv, NEW t \in Tokens, Begin(t)
    PROVE  KindsKept'
<1> DEFINE n == Len(open)
           c == Construct(t, <<<<>>>>)
           H == Here
<1>0. ParserTypeOK /\ KindsKept /\ status = "parsing" /\ Read(t) /\ status # "error" /\ t \in Opening
  BY BeginShape DEF PInv
<1>1. /\ n \in Nat /\ n > 0 /\ Len(open') = n + 1 /\ n + 1 \in 1 .. n + 1
      /\ \A i \in 1 .. n : open'[i] = open[i] /\ Around(Here)'[i] = Around(Here)[i]
      /\ open'[n + 1] = c /\ c.kind = t /\ c.at = H
      /\ Len(Around(Here)') = n + 1
      /\ Around(Here)'[n + 1] = Entry(t, H, 1)
      /\ Starts' = Starts \cup {H}
      /\ Definitions' = IF t = "/1" THEN Definitions \cup {H} ELSE Definitions
      /\ ops' = ops
  BY BeginShape
<1>2. /\ H \in Nat /\ H > 0 /\ Here' = H + 1
      /\ \A j \in 1 .. H - 1 : text'[j] = text[j]
      /\ text'[H] = t
      /\ \A j \in 1 .. H : Around(j)' = Around(j)
  BY <1>0, ReadFacts
<1>3. Starts \subseteq 1 .. H - 1 /\ DOMAIN ops \subseteq 1 .. H - 1
      /\ Definitions \subseteq 1 .. H - 1
  BY <1>0, StartsInText, UnfinishedFacts
<1>4. /\ \A p \in DOMAIN ops : /\ Became(text[p], ops[p].kind)
                               /\ ops[p].subs = <<>> <=> Childless(p)
      /\ \A i \in 2 .. n : Became(text[open[i].at], open[i].kind)
      /\ \A j \in 1 .. H : \A i \in 2 .. Len(Around(j)) :
             LET e == Around(j)[i] IN
             /\ e.at \in DOMAIN ops => Became(e.kind, ops[e.at].kind)
             /\ \A m \in 2 .. n : open[m].at = e.at => Became(e.kind, open[m].kind)
             /\ j \in Starts /\ e.kind = "switch {" => e.part > 1
             /\ j \in Starts /\ e.kind = "switch" => e.part = 1
  BY <1>0 DEF KindsKept
<1>5. \A i \in 1 .. n :
             /\ open[i].kind = "switch {" => open[i].labels # <<>> /\ Len(open[i].lists) > 1
             /\ open[i].kind = "switch" => Len(open[i].lists) = 1
             /\ Around(Here)[i].kind = open[i].kind /\ Around(Here)[i].at = open[i].at
             /\ Around(Here)[i].part = Len(open[i].lists)
  <2>1. t \notin Grouping
    BY <1>0 DEF Opening, Grouping, Labels, Bodies, Values, Objects
  <2> QED BY <1>0, <2>1, OpenParts
<1>6. \A j \in 1 .. H : \A i \in 2 .. Len(Around(j)) : Around(j)[i].at \in 1 .. j - 1
  BY <1>0, Positions
<1>7. Len(Around(Here)) = n /\ H \in 1 .. H
  BY <1>0, <1>2, AtTop
<1>8. \A i \in 2 .. n : open[i].at \in 1 .. H - 1
  <2>1. Len(text) = H - 1
    BY <1>0 DEF ParserTypeOK, Here
  <2> QED BY <1>0, <2>1, OpenFacts
<1> HIDE DEF n, H, c
<1>9. ASSUME NEW p \in DOMAIN ops
      PROVE  /\ Became(text'[p], ops[p].kind)
             /\ ops[p].subs = <<>> <=> Childless(p)'
  <2>1. p # H /\ text'[p] = text[p]
    BY <1>2, <1>3
  <2>2. p \in Definitions' <=> p \in Definitions
    BY <1>1, <2>1
  <2> QED BY <1>4, <2>1, <2>2 DEF Childless
<1>10. ASSUME NEW i \in 2 .. n + 1 PROVE Became(text'[open'[i].at], open'[i].kind)
  <2>1. CASE i \in 1 .. n
    <3>1. i \in 2 .. n /\ open'[i] = open[i]
      BY <1>1, <2>1
    <3>2. text'[open[i].at] = text[open[i].at]
      BY <1>2, <1>8, <3>1
    <3> QED BY <1>4, <3>1, <3>2
  <2>2. CASE i \notin 1 .. n
    <3>1. i = n + 1
      BY <1>1, <2>2
    <3>2. open'[i].at = H /\ open'[i].kind = t
      BY <1>1, <3>1
    <3> QED BY <1>2, <3>2, BecameFacts
  <2> QED BY <2>1, <2>2
<1>11. ASSUME NEW m \in 2 .. n + 1
       PROVE  \/ m \in 2 .. n /\ open'[m] = open[m] /\ open'[m].at # H
              \/ m = n + 1 /\ open'[m].at = H /\ open'[m].kind = t
  <2>1. CASE m \in 1 .. n
    <3>1. m \in 2 .. n /\ open'[m] = open[m]
      BY <1>1, <2>1
    <3>2. open[m].at \in 1 .. H - 1
      BY <1>8, <3>1
    <3> QED BY <1>2, <3>1, <3>2
  <2>2. CASE m \notin 1 .. n
    <3>1. m = n + 1
      BY <1>1, <2>2
    <3> QED BY <1>1, <3>1
  <2> QED BY <2>1, <2>2
<1>12. ASSUME NEW j \in 1 .. H + 1, NEW i \in 2 .. Len(Around(j)')
       PROVE  LET e == Around(j)'[i] IN
              /\ e.at \in DOMAIN ops => Became(e.kind, ops[e.at].kind)
              /\ \A m \in 2 .. n + 1 : open'[m].at = e.at => Became(e.kind, open'[m].kind)
              /\ j \in Starts' /\ e.kind = "switch {" => e.part > 1
              /\ j \in Starts' /\ e.kind = "switch" => e.part = 1
  <2>1. CASE j = H + 1 /\ i = n + 1
    <3>1. Around(j)' = Around(Here)'
      BY <1>2, <2>1
    <3>2. Around(j)'[i] = Entry(t, H, 1)
      BY <1>1, <2>1, <3>1
    <3>3. j \notin Starts'
      BY <1>1, <1>2, <1>3, <2>1
    <3> DEFINE e == Around(j)'[i]
    <3>4. e.at = H /\ e.kind = t
      BY <3>2 DEF Entry
    <3> HIDE DEF e
    <3>5. e.at \notin DOMAIN ops
      BY <1>2, <1>3, <3>4
    <3>6. \A m \in 2 .. n + 1 : open'[m].at = e.at => Became(e.kind, open'[m].kind)
      BY <1>11, <3>4, BecameFacts
    <3> QED BY <3>3, <3>5, <3>6 DEF e
  <2>2. CASE ~(j = H + 1 /\ i = n + 1)
    <3> DEFINE g == IF j = H + 1 THEN H ELSE j
               e == Around(g)[i]
    <3>1. g \in 1 .. H /\ Around(j)'[i] = e /\ i \in 2 .. Len(Around(g))
      <4>1. CASE j = H + 1
        <5>1. Around(j)' = Around(Here)'
          BY <1>2, <4>1
        <5>2. i \in 1 .. n /\ i \in 2 .. n
          BY <1>1, <2>2, <4>1, <5>1
        <5>3. g = H
          BY <4>1
        <5> QED BY <1>1, <1>7, <5>1, <5>2, <5>3 DEF H
      <4>2. CASE j # H + 1
        BY <1>2, <4>2
      <4> QED BY <4>1, <4>2
    <3>2. /\ e.at \in DOMAIN ops => Became(e.kind, ops[e.at].kind)
          /\ \A m \in 2 .. n : open[m].at = e.at => Became(e.kind, open[m].kind)
          /\ g \in Starts /\ e.kind = "switch {" => e.part > 1
          /\ g \in Starts /\ e.kind = "switch" => e.part = 1
      BY <1>4, <3>1
    <3>3. e.at \in 1 .. g - 1
      BY <1>6, <3>1
    <3>4. e.at # H
      BY <1>2, <3>1, <3>3
    <3>5. g = H => /\ e.kind = "switch {" => e.part > 1
                   /\ e.kind = "switch" => e.part = 1
      <4> SUFFICES ASSUME g = H
                   PROVE  /\ e.kind = "switch {" => e.part > 1
                          /\ e.kind = "switch" => e.part = 1
        OBVIOUS
      <4>1. i \in 1 .. n /\ e = Around(Here)[i]
        BY <1>1, <1>7, <3>1 DEF H
      <4> HIDE DEF e, g
      <4> QED BY <1>5, <4>1
    <3>6. j \in Starts' => g = H \/ (g = j /\ g \in Starts)
      BY <1>1, <1>2, <1>3
    <3> HIDE DEF e, g
    <3>7. \A m \in 2 .. n + 1 : open'[m].at = e.at => Became(e.kind, open'[m].kind)
      BY <1>11, <3>2, <3>4
    <3> QED BY <3>1, <3>2, <3>5, <3>6, <3>7
  <2> QED BY <2>1, <2>2
<1>13. (n + 1) - 1 = n /\ \A m \in 1 .. n : open'[m].kind = "switch {" => open'[m].labels # <<>>
  <2>1. (n + 1) - 1 = n
    BY <1>1
  <2>2. ASSUME NEW m \in 1 .. n PROVE open'[m].kind = "switch {" => open'[m].labels # <<>>
    <3>1. open'[m] = open[m]
      BY <1>1
    <3> QED BY <1>5, <3>1
  <2> QED BY <2>1, <2>2
<1> QED BY <1>1, <1>2, <1>9, <1>10, <1>12, <1>13 DEF KindsKept

--------------------------------------------------------------------------------
(* A construct is complete.                                                  *)

\* Where the construct that is being parsed began, it joins the last list of the
\* one around it, or it is a function.
LEMMA Closing ==
    ASSUME PInv, status # "error", Len(open) > 1
    PROVE  LET n == Len(open)
               q == Top.at
               parent == open[n - 1]
           IN
           /\ n \in Nat /\ n \in 2 .. n /\ Top = open[n] /\ Top \in Constructs /\ parent \in Constructs
           /\ n - 1 \in 1 .. n
           /\ q \in Starts /\ q \in 1 .. Here - 1 /\ q \in Unfinished /\ q \in Nat
           /\ Top.kind = "/1" <=> q \in Definitions
           /\ Top.kind = "/1" => n = 2
           /\ Top.kind # "/1" => q \in Under(parent.at, Len(parent.lists))
           /\ \A a, k : q \in Under(a, k) => a = parent.at /\ k = Len(parent.lists) /\ Top.kind # "/1"
           /\ \A p \in q + 1 .. Here : Len(Around(p)) >= n /\ Around(p)[n].at = q
           /\ parent.at < q
<1> DEFINE n == Len(open)
           q == Top.at
           parent == open[n - 1]
<1>0. ParserTypeOK /\ KindsKept /\ n > 1
  BY DEF PInv
<1>1. /\ n \in Nat /\ DOMAIN open = 1 .. n /\ Here \in 1 .. Here
      /\ \A i \in 1 .. n :
           /\ open[i] \in Constructs
           /\ Around(Here)[i] = Entry(open[i].kind, open[i].at, Len(open[i].lists))
           /\ \A p \in open[i].at + 1 .. Here :
                Len(Around(p)) >= i /\ Around(p)[i].at = open[i].at
           /\ \A m \in 1 .. i - 1 : open[m].at < open[i].at
      /\ \A i \in 2 .. n :
           /\ open[i].at \in 1 .. Len(text) /\ open[i].at \in Starts
           /\ Len(Around(open[i].at)) = i - 1
           /\ \A m \in 1 .. i - 1 : Around(open[i].at)[m] = Around(Here)[m]
  BY OpenFacts
<1>2. n \in 2 .. n /\ n \in 1 .. n /\ n - 1 \in 1 .. n /\ n - 1 \in 1 .. n - 1
  BY <1>0, <1>1
<1>3. Top = open[n]
  BY DEF Top, Last
<1>4. /\ q \in 1 .. Len(text) /\ q \in Starts
      /\ Len(Around(q)) = n - 1
      /\ Around(q)[n - 1] = Around(Here)[n - 1]
      /\ Around(Here)[n - 1] = Entry(parent.kind, parent.at, Len(parent.lists))
      /\ \A p \in q + 1 .. Here : Len(Around(p)) >= n /\ Around(p)[n].at = q
      /\ parent.at < q
  BY <1>1, <1>2, <1>3
<1>5. Here = Len(text) + 1 /\ Len(text) \in Nat /\ q \in 1 .. Here
  BY <1>0, <1>4 DEF ParserTypeOK, Here
<1>6. Innermost(q) = Around(q)[Len(Around(q))]
  BY <1>0, <1>5, Positions
<1> HIDE DEF n, q, parent
<1>7. Innermost(q) = Entry(parent.kind, parent.at, Len(parent.lists))
  BY <1>4, <1>6
<1>8. Innermost(q).at = parent.at /\ Innermost(q).part = Len(parent.lists)
  BY <1>7 DEF Entry
<1>9. text[q] = "/1" <=> Top.kind = "/1"
  <2>1. Became(text[q], Top.kind)
    <3>1. \A i \in 2 .. n : Became(text[open[i].at], open[i].kind)
      BY <1>0 DEF KindsKept, n
    <3> QED BY <1>2, <1>3, <3>1 DEF q
  <2> QED BY <2>1, BecameFacts
<1>10. Top.kind = "/1" => n = 2
  BY <1>0, <1>1, <1>2, <1>3 DEF ParserTypeOK
<1>11. Top.kind = "/1" <=> q \in Definitions
  <2>1. q \in Definitions <=> text[q] = "/1" /\ Len(Around(q)) = 1
    BY <1>4 DEF Definitions
  <2> QED BY <1>1, <1>4, <1>9, <1>10, <2>1
<1>12. \A a, k : q \in Under(a, k) <=> q \notin Definitions /\ a = parent.at /\ k = Len(parent.lists)
  BY <1>4, <1>8 DEF Under
<1>13. q \in Unfinished
  BY <1>1, <1>2, <1>3 DEF Unfinished, q
<1>14. q \in 1 .. Here - 1 /\ q \in Nat
  BY <1>4, <1>5
<1>15. Top \in Constructs /\ parent \in Constructs
  BY <1>1, <1>2, <1>3 DEF parent
<1> QED BY <1>1, <1>2, <1>3, <1>4, <1>10, <1>11, <1>12, <1>13, <1>14, <1>15 DEF n, q, parent

\* What else changes when a construct is complete: nothing, or a token is read that
\* is no op.
Closes ==
    /\ Close /\ Len(open) > 1
    /\ status # "error" /\ status' \in {"parsing", "ended"}
    /\ text' \in Seq(Tokens)
    /\ \/ Here' = Here /\ Around(Here)' = Around(Here) /\ status' = "ended"
       \/ /\ Here' = Here + 1 /\ status' = "parsing" /\ Len(Around(Here)') = Len(open) - 1
          /\ \A i \in 1 .. Len(open) - 1 : Around(Here)'[i] = Around(Here)[i]
    /\ \A j \in 1 .. Here : Around(j)' = Around(j)
    /\ \A j \in 1 .. Here - 1 : text'[j] = text[j]
    /\ Starts' = Starts /\ Definitions' = Definitions /\ \A a, k : Under(a, k)' = Under(a, k)
    /\ \A at, labels : Labelled(at, labels) => Labelled(at, labels)'

LEMMA ClosesShape ==
    ASSUME PInv, Closes
    PROVE  LET n == Len(open)
               q == Top.at
               c == AppendOp(open[n - 1], q)
           IN
           /\ open' \in Seq(Constructs) /\ open' # <<>> /\ Len(open') = n - 1 /\ DOMAIN open' = 1 .. n - 1
           /\ \A i \in 1 .. n - 1 :
                /\ i # n - 1 => open'[i] = open[i]
                /\ open'[i].at = open[i].at /\ open'[i].kind = open[i].kind
                /\ open'[i].labels = open[i].labels /\ Len(open'[i].lists) = Len(open[i].lists)
                /\ open'[i].lists # <<>>
           /\ open'[n - 1] = IF Top.kind = "/1" THEN open[n - 1] ELSE c
           /\ DOMAIN ops' = DOMAIN ops \cup {q} /\ q \notin DOMAIN ops
           /\ ops' = [p \in DOMAIN ops' |-> ops'[p]]
           /\ \A p \in DOMAIN ops : ops'[p] = ops[p]
           /\ ops'[q] = Op(Top.kind, Top.labels, Top.lists)
           /\ functions' = IF Top.kind = "/1" THEN Append(functions, q) ELSE functions
           /\ Unfinished' = Unfinished \ {q}
<1> DEFINE n == Len(open)
           q == Top.at
           parent == open[n - 1]
           c == AppendOp(parent, q)
<1>0. ParserTypeOK /\ status # "error" /\ n > 1
  BY DEF PInv, Closes
<1>1. /\ Record(q, Op(Top.kind, Top.labels, Top.lists))
      /\ open' = IF Top.kind = "/1" THEN Outer ELSE Append(Front(Outer), AppendOp(Last(Outer), q))
      /\ functions' = IF Top.kind = "/1" THEN Append(functions, q) ELSE functions
  BY DEF Closes, Close
<1>2. /\ n \in Nat /\ n \in 2 .. n /\ n - 1 \in 1 .. n /\ Top = open[n] /\ parent \in Constructs
      /\ q \in Nat /\ q \in Unfinished
  BY <1>0, Closing
<1>3. open \in Seq(Constructs) /\ open # <<>> /\ DOMAIN open = 1 .. n
  <2>1. open \in Seq(Constructs) /\ open # <<>>
    BY <1>0 DEF ParserTypeOK
  <2> QED BY <2>1
<1>4. \A i \in 1 .. n : open[i].lists # <<>>
  BY <1>0, <1>3 DEF ParserTypeOK, Shaped
<1>5. /\ c \in Constructs /\ c.kind = parent.kind /\ c.at = parent.at /\ c.labels = parent.labels
      /\ Len(c.lists) = Len(parent.lists) /\ c.lists # <<>>
  BY <1>2, <1>4, AppendOpFacts
<1> HIDE DEF c, parent, q
<1>6. /\ Outer \in Seq(Constructs) /\ Len(Outer) = n - 1
      /\ \A i \in 1 .. n - 1 : Outer[i] = open[i]
  BY <1>3, Ended DEF Outer
<1> HIDE DEF n
<1>7. Outer # <<>> /\ Last(Outer) = parent
  <2>1. Outer # <<>>
    BY <1>0, <1>2, <1>6
  <2>2. n - 1 \in 1 .. n - 1
    BY <1>0, <1>2
  <2> QED BY <1>6, <2>1, <2>2 DEF Last, parent
<1>8. LET r == Append(Front(Outer), c) IN
      /\ r \in Seq(Constructs) /\ r # <<>> /\ Len(r) = n - 1
      /\ \A i \in 1 .. n - 2 : r[i] = open[i]
      /\ r[n - 1] = c
  <2>1. LET r == Append(Front(Outer), c) IN
        /\ r \in Seq(Constructs) /\ r # <<>> /\ Len(r) = Len(Outer)
        /\ \A i \in 1 .. Len(Outer) - 1 : r[i] = Outer[i]
        /\ r[Len(Outer)] = c
    BY <1>5, <1>6, <1>7, Exchanged
  <2>2. Len(Outer) = n - 1 /\ Len(Outer) - 1 = n - 2 /\ 1 .. n - 2 \subseteq 1 .. n - 1
    BY <1>2, <1>6
  <2> QED BY <1>6, <2>1, <2>2
<1>9. /\ open' \in Seq(Constructs) /\ open' # <<>> /\ Len(open') = n - 1
      /\ \A i \in 1 .. n - 2 : open'[i] = open[i]
      /\ open'[n - 1] = IF Top.kind = "/1" THEN parent ELSE c
  <2>1. CASE Top.kind = "/1"
    <3>1. open' = Outer
      BY <1>1, <2>1
    <3>2. 1 .. n - 2 \subseteq 1 .. n - 1 /\ n - 1 \in 1 .. n - 1
      BY <1>0, <1>2
    <3> QED BY <1>6, <1>7, <2>1, <3>1, <3>2 DEF parent
  <2>2. CASE Top.kind # "/1"
    <3>1. open' = Append(Front(Outer), c)
      BY <1>1, <1>7, <2>2 DEF c
    <3> QED BY <1>8, <2>2, <3>1
  <2> QED BY <2>1, <2>2
<1>10. DOMAIN open' = 1 .. n - 1
  BY <1>2, <1>9
<1>11. ASSUME NEW i \in 1 .. n - 1
       PROVE  /\ i # n - 1 => open'[i] = open[i]
              /\ open'[i].at = open[i].at /\ open'[i].kind = open[i].kind
              /\ open'[i].labels = open[i].labels /\ Len(open'[i].lists) = Len(open[i].lists)
              /\ open'[i].lists # <<>>
  <2>1. CASE i = n - 1
    <3>1. open[i] = parent /\ i \in 1 .. n
      BY <1>2, <2>1 DEF parent
    <3> QED BY <1>4, <1>5, <1>9, <2>1, <3>1
  <2>2. CASE i # n - 1
    <3>1. i \in 1 .. n - 2 /\ i \in 1 .. n
      BY <1>2, <2>2
    <3> QED BY <1>4, <1>9, <2>2, <3>1
  <2> QED BY <2>1, <2>2
<1>12. q \notin DOMAIN ops
  BY <1>0, <1>2, UnfinishedFacts
<1>13. /\ DOMAIN ops' = DOMAIN ops \cup {q} /\ ops' = [p \in DOMAIN ops' |-> ops'[p]]
       /\ \A p \in DOMAIN ops : ops'[p] = ops[p]
       /\ ops'[q] = Op(Top.kind, Top.labels, Top.lists)
  BY <1>1, <1>12, Recorded
<1>14. Unfinished' = Unfinished \ {q}
  <2>1. Unfinished = {open[i].at : i \in 1 .. n}
    BY <1>3 DEF Unfinished
  <2>2. Unfinished' = {open'[i].at : i \in 1 .. n - 1}
    BY <1>10 DEF Unfinished
  <2>3. open[n].at = q
    BY <1>2 DEF q
  <2>4. ASSUME NEW i \in 1 .. n - 1 PROVE i \in 1 .. n /\ open[i].at # q
    <3>1. i \in 1 .. n /\ n \in 1 .. n /\ i # n
      BY <1>2
    <3> QED BY <1>0, <2>3, <3>1, OpenOnce DEF n
  <2>5. \A i \in 1 .. n : i \in 1 .. n - 1 \/ i = n
    BY <1>2
  <2> QED BY <1>11, <2>1, <2>2, <2>3, <2>4, <2>5
<1> QED BY <1>1, <1>9, <1>10, <1>11, <1>12, <1>13, <1>14 DEF n, q, c, parent

LEMMA ClosesType ==
    ASSUME PInv, Closes
    PROVE  ParserTypeOK'
<1> DEFINE n == Len(open)
           q == Top.at
           op == Op(Top.kind, Top.labels, Top.lists)
<1>0. ParserTypeOK /\ status # "error" /\ n > 1
  BY DEF PInv, Closes
<1>1. /\ open' \in Seq(Constructs) /\ open' # <<>> /\ DOMAIN open' = 1 .. n - 1
      /\ DOMAIN ops' = DOMAIN ops \cup {q} /\ q \notin DOMAIN ops
      /\ ops' = [p \in DOMAIN ops' |-> ops'[p]]
      /\ \A p \in DOMAIN ops : ops'[p] = ops[p]
      /\ ops'[q] = op
      /\ functions' = IF Top.kind = "/1" THEN Append(functions, q) ELSE functions
  BY ClosesShape
<1>2. text' \in Seq(Tokens) /\ status' \in {"parsing", "ended"}
  BY DEF Closes
<1>3. n \in Nat /\ DOMAIN open = 1 .. n /\ Top = open[n] /\ Top \in Constructs /\ n \in 1 .. n
  <2>1. n \in Nat /\ Top = open[n] /\ Top \in Constructs /\ n \in 2 .. n
    BY <1>0, Closing
  <2>2. DOMAIN open = 1 .. n
    BY <1>0 DEF ParserTypeOK
  <2> QED BY <2>1, <2>2
<1>4. ASSUME NEW i \in 1 .. n - 1
      PROVE  /\ Shaped(open'[i].kind, open'[i].labels, open'[i].lists)
             /\ open'[i].kind = "main" <=> i = 1
             /\ open'[i].kind = "/1" => i = 2
  <2>1. /\ open'[i].kind = open[i].kind /\ open'[i].labels = open[i].labels
        /\ Len(open'[i].lists) = Len(open[i].lists) /\ open'[i].lists # <<>>
    BY ClosesShape
  <2>2. i \in 1 .. n
    BY <1>3
  <2>3. /\ Shaped(open[i].kind, open[i].labels, open[i].lists)
        /\ open[i].kind = "main" <=> i = 1
        /\ open[i].kind = "/1" => i = 2
    BY <1>0, <1>3, <2>2 DEF ParserTypeOK
  <2>4. Shaped(open'[i].kind, open'[i].labels, open'[i].lists)
    BY <2>1, <2>3 DEF Shaped
  <2> QED BY <2>1, <2>3, <2>4
<1>5. /\ ops \in [DOMAIN ops -> Ops]
      /\ \A p \in DOMAIN ops : ops[p].subs # <<>> => Shaped(ops[p].kind, ops[p].labels, ops[p].subs)
      /\ functions \in Seq(DOMAIN ops)
      /\ \A f \in DOMAIN functions : ops[functions[f]].kind = "/1" /\ ops[functions[f]].subs # <<>>
  BY <1>0 DEF ParserTypeOK
<1>6. op \in Ops /\ op.kind = Top.kind /\ op.labels = Top.labels /\ op.subs = Top.lists
  BY <1>3 DEF Constructs, Ops, Op
<1>7. Shaped(Top.kind, Top.labels, Top.lists) /\ Top.lists # <<>>
  <2>1. Shaped(Top.kind, Top.labels, Top.lists)
    BY <1>0, <1>3 DEF ParserTypeOK
  <2> QED BY <2>1 DEF Shaped
<1> HIDE DEF n, q, op
<1>8. ops' \in [DOMAIN ops' -> Ops]
  <2>1. \A p \in DOMAIN ops' : ops'[p] \in Ops
    BY <1>1, <1>5, <1>6
  <2> QED BY <1>1, <2>1
<1>9. ASSUME NEW p \in DOMAIN ops', ops'[p].subs # <<>>
      PROVE  Shaped(ops'[p].kind, ops'[p].labels, ops'[p].subs)
  <2>1. CASE p = q
    BY <1>1, <1>6, <1>7, <2>1
  <2>2. CASE p # q
    BY <1>1, <1>5, <1>9, <2>2
  <2> QED BY <2>1, <2>2
<1>10. functions \in Seq(DOMAIN ops') /\ q \in DOMAIN ops'
  <2>1. DOMAIN ops \subseteq DOMAIN ops'
    BY <1>1
  <2> QED BY <1>1, <1>5, <2>1, SeqWider
<1>11. ASSUME NEW f \in DOMAIN functions PROVE ops'[functions[f]].kind = "/1" /\ ops'[functions[f]].subs # <<>>
  <2>1. functions[f] \in DOMAIN ops
    BY <1>5
  <2> QED BY <1>1, <1>5, <2>1
<1>12. /\ functions' \in Seq(DOMAIN ops')
       /\ \A f \in DOMAIN functions' : ops'[functions'[f]].kind = "/1" /\ ops'[functions'[f]].subs # <<>>
  <2>1. CASE Top.kind # "/1"
    BY <1>1, <1>10, <1>11, <2>1
  <2>2. CASE Top.kind = "/1"
    <3>1. functions' = Append(functions, q)
      BY <1>1, <2>2
    <3> DEFINE D == DOMAIN ops'
    <3>2. functions \in Seq(D) /\ q \in D
      BY <1>10
    <3> HIDE DEF D
    <3>3. /\ Append(functions, q) \in Seq(D) /\ Len(Append(functions, q)) = Len(functions) + 1
          /\ \A i \in 1 .. Len(functions) : Append(functions, q)[i] = functions[i]
          /\ Append(functions, q)[Len(functions) + 1] = q
      BY <3>2, Appended
    <3>4. DOMAIN functions = 1 .. Len(functions) /\ Len(functions) \in Nat
          /\ DOMAIN Append(functions, q) = 1 .. Len(functions) + 1
      BY <3>2, <3>3
    <3>5. ops'[q].kind = "/1" /\ ops'[q].subs # <<>>
      BY <1>1, <1>6, <1>7, <2>2
    <3>6. ASSUME NEW f \in 1 .. Len(functions) + 1
          PROVE  ops'[functions'[f]].kind = "/1" /\ ops'[functions'[f]].subs # <<>>
      <4>1. CASE f \in 1 .. Len(functions)
        BY <1>11, <3>1, <3>3, <3>4, <4>1
      <4>2. CASE f \notin 1 .. Len(functions)
        <5>1. f = Len(functions) + 1
          BY <3>4, <4>2
        <5> QED BY <3>1, <3>3, <3>5, <5>1
      <4> QED BY <4>1, <4>2
    <3> QED BY <3>1, <3>3, <3>4, <3>6 DEF D
  <2> QED BY <2>1, <2>2
<1> QED BY <1>1, <1>2, <1>4, <1>8, <1>9, <1>12 DEF ParserTypeOK

LEMMA ClosesRules ==
    ASSUME PInv, Closes
    PROVE  OpsByRules'
<1> DEFINE n == Len(open)
           q == Top.at
           parent == open[n - 1]
           m == Len(parent.lists)
           c == AppendOp(parent, q)
<1>0. ParserTypeOK /\ OpsByRules /\ status # "error" /\ n > 1
  BY DEF PInv, Closes
<1>1. /\ DOMAIN open' = 1 .. n - 1 /\ Len(open') = n - 1
      /\ \A i \in 1 .. n - 1 :
           /\ i # n - 1 => open'[i] = open[i]
           /\ open'[i].at = open[i].at /\ open'[i].kind = open[i].kind
           /\ Len(open'[i].lists) = Len(open[i].lists)
      /\ open'[n - 1] = IF Top.kind = "/1" THEN parent ELSE c
      /\ DOMAIN ops' = DOMAIN ops \cup {q} /\ q \notin DOMAIN ops
      /\ \A p \in DOMAIN ops : ops'[p] = ops[p]
      /\ ops'[q] = Op(Top.kind, Top.labels, Top.lists)
      /\ functions' = IF Top.kind = "/1" THEN Append(functions, q) ELSE functions
      /\ Unfinished' = Unfinished \ {q}
  BY ClosesShape
<1>2. /\ n \in Nat /\ n \in 2 .. n /\ n - 1 \in 1 .. n /\ Top = open[n] /\ parent \in Constructs
      /\ q \in Starts /\ q \in 1 .. Here - 1 /\ q \in Unfinished /\ q \in Nat
      /\ Top.kind = "/1" <=> q \in Definitions
      /\ Top.kind = "/1" => n = 2
      /\ Top.kind # "/1" => q \in Under(parent.at, m)
      /\ \A a, k : q \in Under(a, k) => a = parent.at /\ k = m /\ Top.kind # "/1"
      /\ \A p \in q + 1 .. Here : Len(Around(p)) >= n /\ Around(p)[n].at = q
      /\ parent.at < q
  BY <1>0, Closing
<1>3. /\ status # "error" => status' \in {"parsing", "ended"}
      /\ \/ Around(Here)' = Around(Here) /\ status' = "ended"
         \/ /\ Len(Around(Here)') = n - 1
            /\ \A i \in 1 .. n - 1 : Around(Here)'[i] = Around(Here)[i]
      /\ Starts' = Starts /\ Definitions' = Definitions /\ \A a, k : Under(a, k)' = Under(a, k)
  BY DEF Closes
<1>4. /\ DOMAIN open = 1 .. n /\ Len(Around(Here)) >= n
      /\ \A i \in 1 .. n :
           /\ Around(Here)[i] = Entry(open[i].kind, open[i].at, Len(open[i].lists))
           /\ \A k \in DOMAIN open[i].lists : Lists(open[i].lists[k], open[i].at, k)
      /\ DOMAIN ops = Starts \ Unfinished
      /\ \A p \in DOMAIN ops : \A k \in DOMAIN ops[p].subs : Lists(ops[p].subs[k], p, k)
      /\ Ascending(functions) /\ Range(functions) = Definitions \ Unfinished
  <2>1. DOMAIN open = 1 .. n
    BY <1>0 DEF ParserTypeOK
  <2> QED BY <1>0, <2>1, OpenFacts DEF OpsByRules
<1>5. parent.lists # <<>>
  BY <1>0, <1>2, <1>4 DEF ParserTypeOK, Shaped
<1>6. /\ m \in Nat /\ DOMAIN c.lists = 1 .. m /\ DOMAIN parent.lists = 1 .. m
      /\ \A k \in 1 .. m : parent.lists[k] \in Seq(Nat) /\ (k # m => c.lists[k] = parent.lists[k])
      /\ c.lists[m] = Append(parent.lists[m], q)
  BY <1>2, <1>5, AppendOpFacts
<1>7. Here \in Nat /\ Starts \subseteq 1 .. Here - 1 /\ \A a, k : Under(a, k) \subseteq 1 .. Here - 1
  BY <1>0, StartsInText
<1>8. ASSUME NEW y \in Under(parent.at, m) \ Unfinished PROVE y < q
  <2>1. /\ Len(Around(y)) \in Nat
        /\ \A i \in 1 .. Len(Around(y)) : Around(y)[i].at <= parent.at
    BY <1>0, UnderFacts
  <2>2. y \in 1 .. Here - 1 /\ y # q /\ parent.at \in Nat
    BY <1>2, <1>7 DEF Constructs
  <2>3. ASSUME y > q PROVE FALSE
    <3>1. y \in q + 1 .. Here
      BY <1>2, <1>7, <2>2, <2>3
    <3>2. Len(Around(y)) >= n /\ Around(y)[n].at = q
      BY <1>2, <3>1
    <3>3. n \in 1 .. Len(Around(y))
      BY <1>2, <2>1, <3>2
    <3>4. q <= parent.at
      BY <2>1, <3>2, <3>3
    <3> QED BY <1>2, <2>2, <3>4
  <2> QED BY <1>2, <1>7, <2>2, <2>3
<1> HIDE DEF n, q, parent, m, c
<1>9. \A l, a, k : a # parent.at \/ k # m \/ Top.kind = "/1" => (Lists(l, a, k) => Lists(l, a, k)')
  <2> SUFFICES ASSUME NEW l, NEW a, NEW k, a # parent.at \/ k # m \/ Top.kind = "/1", Lists(l, a, k)
               PROVE  Lists(l, a, k)'
    OBVIOUS
  <2>1. q \notin Under(a, k)
    BY <1>2
  <2>2. Under(a, k)' \ Unfinished' = Under(a, k) \ Unfinished
    BY <1>1, <1>3, <2>1
  <2> QED BY <2>2 DEF Lists
<1>10. ASSUME NEW i \in 1 .. n - 1, NEW k \in DOMAIN open'[i].lists
       PROVE  Lists(open[i].lists[k], open[i].at, k)'
  <2>1. PICK l, a : l = open'[i].lists[k] /\ a = open'[i].at
    OBVIOUS
  <2>2. a = open[i].at /\ i \in 1 .. n /\ \A j \in DOMAIN open[i].lists : Lists(open[i].lists[j], open[i].at, j)
    <3>1. i \in 1 .. n
      BY <1>2
    <3> QED BY <1>1, <1>4, <2>1, <3>1
  <2>3. CASE i # n - 1
    <3>1. open'[i] = open[i]
      BY <1>1, <2>3
    <3>2. Lists(l, a, k)
      BY <2>1, <2>2, <3>1
    <3>3. a # parent.at
      <4>1. open[n - 1].at # open[i].at
        BY <1>0, <1>2, <2>2, <2>3, OpenOnce DEF n
      <4> QED BY <2>2, <4>1 DEF parent
    <3>4. Lists(l, a, k)'
      BY <1>9, <3>2, <3>3
    <3> QED BY <2>1, <3>4
  <2>4. CASE i = n - 1 /\ Top.kind = "/1"
    <3>1. open'[i] = parent /\ open[i] = parent
      BY <1>1, <2>4 DEF parent
    <3>2. Lists(l, a, k)
      BY <2>1, <2>2, <3>1
    <3>3. Lists(l, a, k)'
      BY <1>9, <2>4, <3>2
    <3> QED BY <2>1, <3>3
  <2>5. CASE i = n - 1 /\ Top.kind # "/1" /\ k # m
    <3>1. open'[i] = c /\ open[i] = parent
      BY <1>1, <2>5 DEF parent
    <3>2. k \in 1 .. m /\ l = parent.lists[k] /\ k \in DOMAIN parent.lists
      BY <1>6, <2>1, <2>5, <3>1
    <3>3. Lists(l, a, k)
      BY <2>2, <3>1, <3>2
    <3>4. Lists(l, a, k)'
      BY <1>9, <2>5, <3>3
    <3> QED BY <2>1, <3>4
  <2>6. CASE i = n - 1 /\ Top.kind # "/1" /\ k = m
    <3>1. open'[i] = c /\ open[i] = parent
      BY <1>1, <2>6 DEF parent
    <3>2. k \in 1 .. m /\ l = Append(parent.lists[k], q) /\ k \in DOMAIN parent.lists
      BY <1>6, <2>1, <2>6, <3>1
    <3>3. Lists(parent.lists[k], a, k)
      BY <2>2, <3>1, <3>2
    <3>4. Ascending(parent.lists[k]) /\ Range(parent.lists[k]) = Under(a, k) \ Unfinished
      BY <3>3 DEF Lists
    <3>5. \A y \in Under(a, k) \ Unfinished : y < q
      BY <1>8, <2>2, <2>6, <3>1
    <3>6. parent.lists[k] \in Seq(Nat)
      BY <1>6, <3>2
    <3>7. Ascending(l) /\ Range(l) = (Under(a, k) \ Unfinished) \cup {q}
      BY <1>2, <3>2, <3>4, <3>5, <3>6, ListGrows
    <3>8. q \in Under(a, k)
      BY <1>2, <2>2, <2>6, <3>1
    <3>9. Under(a, k)' \ Unfinished' = (Under(a, k) \ Unfinished) \cup {q}
      BY <1>1, <1>3, <3>8
    <3>10. Lists(l, a, k)'
      BY <3>7, <3>9 DEF Lists
    <3> QED BY <2>1, <3>10
  <2> QED BY <2>3, <2>4, <2>5, <2>6
<1>11. ASSUME NEW p \in DOMAIN ops', NEW k \in DOMAIN ops'[p].subs
       PROVE  Lists(ops[p].subs[k], p, k)'
  <2>1. PICK l : l = ops'[p].subs[k]
    OBVIOUS
  <2>2. CASE p = q
    <3>1. ops'[p].subs = Top.lists
      BY <1>1, <2>2 DEF Op
    <3>2. Lists(l, p, k)
      <4>1. n \in 1 .. n
        BY <1>2
      <4>2. \A j \in DOMAIN Top.lists : Lists(Top.lists[j], Top.at, j)
        BY <1>2, <1>4, <4>1
      <4> QED BY <1>11, <2>1, <2>2, <3>1, <4>2 DEF q
    <3>3. p # parent.at
      <4>1. parent.at \in Nat /\ q \in Nat /\ parent.at < q
        BY <1>2 DEF Constructs
      <4> QED BY <2>2, <4>1
    <3>4. Lists(l, p, k)'
      BY <1>9, <3>2, <3>3
    <3> QED BY <2>1, <3>4
  <2>3. CASE p # q
    <3>1. p \in DOMAIN ops /\ ops'[p] = ops[p]
      BY <1>1, <2>3
    <3>2. Lists(l, p, k)
      BY <1>4, <1>11, <2>1, <3>1
    <3>3. p # parent.at
      <4>1. parent.at \in Unfinished
        BY <1>2, <1>4 DEF Unfinished, parent
      <4> QED BY <1>4, <3>1, <4>1
    <3>4. Lists(l, p, k)'
      BY <1>9, <3>2, <3>3
    <3> QED BY <2>1, <3>4
  <2> QED BY <2>2, <2>3
<1>12. DOMAIN ops' = Starts' \ Unfinished'
  BY <1>1, <1>2, <1>3, <1>4
<1>13. Ascending(functions') /\ Range(functions') = Definitions' \ Unfinished'
  <2>1. CASE Top.kind # "/1"
    BY <1>1, <1>2, <1>3, <1>4, <2>1
  <2>2. CASE Top.kind = "/1"
    <3>1. functions' = Append(functions, q) /\ q \in Definitions /\ n = 2
      BY <1>1, <1>2, <2>2
    <3>2. functions \in Seq(Nat)
      <4>1. functions \in Seq(DOMAIN ops) /\ DOMAIN ops \subseteq Nat
        <5>1. DOMAIN ops \subseteq 1 .. Here - 1
          BY <1>0, UnfinishedFacts
        <5> QED BY <1>0, <1>7, <5>1 DEF ParserTypeOK
      <4> QED BY <4>1, SeqWider
    <3>3. ASSUME NEW y \in Definitions \ Unfinished PROVE y < q
      <4>1. y \in 1 .. Here - 1 /\ y # q /\ Len(Around(y)) = 1
        <5>1. y \in Starts /\ Len(Around(y)) = 1
          BY DEF Definitions
        <5> QED BY <1>2, <1>7, <5>1
      <4>2. ASSUME y > q PROVE FALSE
        <5>1. y \in q + 1 .. Here
          BY <1>2, <1>7, <4>1, <4>2
        <5>2. Len(Around(y)) >= n
          BY <1>2, <5>1
        <5> QED BY <3>1, <4>1, <5>2
      <4> QED BY <1>2, <1>7, <4>1, <4>2
    <3>4. Ascending(Append(functions, q)) /\ Range(Append(functions, q)) = (Definitions \ Unfinished) \cup {q}
      BY <1>2, <1>4, <3>2, <3>3, ListGrows
    <3>5. Definitions' \ Unfinished' = (Definitions \ Unfinished) \cup {q}
      BY <1>1, <1>3, <3>1
    <3> QED BY <3>1, <3>4, <3>5
  <2> QED BY <2>1, <2>2
<1>14. ASSUME NEW i \in 1 .. n - 1
       PROVE  Around(Here)'[i] = Entry(open'[i].kind, open'[i].at, Len(open'[i].lists))
  <2>1. i \in 1 .. n
    BY <1>2
  <2>2. Around(Here)'[i] = Around(Here)[i]
    BY <1>3
  <2>3. Around(Here)[i] = Entry(open[i].kind, open[i].at, Len(open[i].lists))
    BY <1>4, <2>1
  <2> QED BY <1>1, <2>2, <2>3
<1>15. n - 1 <= Len(Around(Here)') /\ (status' = "parsing" => n - 1 = Len(Around(Here)'))
  <2>1. Len(Around(Here)) \in Nat
    <3>1. Here \in 1 .. Here
      BY <1>0, OpenFacts
    <3> QED BY <1>0, <3>1, Positions
  <2> QED BY <1>2, <1>3, <1>4, <2>1
<1>16. \A i \in 1 .. n - 1 : \A k \in DOMAIN open'[i].lists : Lists(open[i].lists[k], open[i].at, k)'
  <2> SUFFICES ASSUME NEW i \in 1 .. n - 1, NEW k \in DOMAIN open'[i].lists
               PROVE  Lists(open[i].lists[k], open[i].at, k)'
    OBVIOUS
  <2> QED BY <1>10
<1> QED BY <1>1, <1>11, <1>12, <1>13, <1>14, <1>15, <1>16 DEF OpsByRules

LEMMA ClosesKinds ==
    ASSUME PInv, Closes
    PROVE  KindsKept'
<1> DEFINE n == Len(open)
           q == Top.at
           H == Here
<1>0. PInv /\ ParserTypeOK /\ KindsKept /\ status # "error" /\ n > 1
  BY DEF PInv, Closes
<1>1. /\ Len(open') = n - 1
      /\ \A i \in 1 .. n - 1 :
           /\ open'[i].at = open[i].at /\ open'[i].kind = open[i].kind
           /\ open'[i].labels = open[i].labels
      /\ DOMAIN ops' = DOMAIN ops \cup {q} /\ q \notin DOMAIN ops
      /\ \A p \in DOMAIN ops : ops'[p] = ops[p]
      /\ ops'[q] = Op(Top.kind, Top.labels, Top.lists)
  BY ClosesShape
<1>2. /\ n \in Nat /\ n \in 2 .. n /\ Top = open[n] /\ q \in 1 .. H - 1
      /\ Top.kind = "/1" <=> q \in Definitions
  BY <1>0, Closing
<1>3. /\ \/ Here' = H /\ Around(Here)' = Around(Here)
         \/ /\ Here' = H + 1 /\ Len(Around(Here)') = n - 1
            /\ \A i \in 1 .. n - 1 : Around(Here)'[i] = Around(Here)[i]
      /\ \A j \in 1 .. H : Around(j)' = Around(j)
      /\ \A j \in 1 .. H - 1 : text'[j] = text[j]
      /\ Starts' = Starts /\ Definitions' = Definitions
  BY DEF Closes
<1>4. /\ H \in Nat /\ H \in 1 .. H /\ n <= Len(Around(Here)) /\ Len(text) = H - 1
      /\ text[q] \in Opening
      /\ \A i \in 2 .. n : open[i].at \in 1 .. H - 1
  <2>1. Len(text) = H - 1 /\ H \in Nat
    BY <1>0 DEF ParserTypeOK, Here
  <2>2. H \in 1 .. H /\ n <= Len(Around(Here))
    BY <1>0, OpenFacts
  <2>3. \A i \in 2 .. n : open[i].at \in 1 .. Len(text) /\ text[open[i].at] \in Opening
    BY <1>0, OpenFacts
  <2> QED BY <1>2, <2>1, <2>2, <2>3
<1>5. Len(Around(Here)) \in Nat /\ \A j \in 1 .. H : Len(Around(j)) \in Nat
  BY <1>0, <1>4, Positions
<1>6. Starts \subseteq 1 .. H - 1 /\ DOMAIN ops \subseteq 1 .. H - 1
  BY <1>0, StartsInText, UnfinishedFacts
<1>7. /\ \A p \in DOMAIN ops : /\ Became(text[p], ops[p].kind)
                               /\ ops[p].subs = <<>> <=> Childless(p)
      /\ \A i \in 2 .. n : Became(text[open[i].at], open[i].kind)
      /\ \A j \in 1 .. H : \A i \in 2 .. Len(Around(j)) :
             LET e == Around(j)[i] IN
             /\ e.at \in DOMAIN ops => Became(e.kind, ops[e.at].kind)
             /\ \A m \in 2 .. n : open[m].at = e.at => Became(e.kind, open[m].kind)
             /\ j \in Starts /\ e.kind = "switch {" => e.part > 1
             /\ j \in Starts /\ e.kind = "switch" => e.part = 1
      /\ \A m \in 1 .. n - 1 : open[m].kind = "switch {" => open[m].labels # <<>>
  BY <1>0 DEF KindsKept
<1>8. Top.lists # <<>>
  <2>1. n \in 1 .. n /\ DOMAIN open = 1 .. n
    BY <1>0, <1>2 DEF ParserTypeOK
  <2> QED BY <1>0, <1>2, <2>1 DEF ParserTypeOK, Shaped
<1>9. Became(text[q], Top.kind) /\ open[n].at = q
  BY <1>2, <1>7
<1> HIDE DEF n, q, H
<1>10. ASSUME NEW p \in DOMAIN ops'
       PROVE  /\ Became(text'[p], ops'[p].kind)
              /\ ops'[p].subs = <<>> <=> Childless(p)'
  <2>1. CASE p = q
    <3>1. text'[p] = text[q] /\ ops'[p].kind = Top.kind /\ ops'[p].subs = Top.lists
      BY <1>1, <1>2, <1>3, <2>1 DEF Op
    <3>2. text[q] \notin Plain
      BY <1>4 DEF Opening, Plain, Bodies, Values, Objects
    <3>3. text[q] = "/1" => q \in Definitions
      BY <1>2, <1>9 DEF Became
    <3>4. ~Childless(p)'
      BY <1>3, <2>1, <3>1, <3>2, <3>3 DEF Childless
    <3> QED BY <1>8, <1>9, <3>1, <3>4
  <2>2. CASE p # q
    <3>1. p \in DOMAIN ops /\ text'[p] = text[p] /\ ops'[p] = ops[p]
      BY <1>1, <1>3, <1>6, <2>2
    <3> QED BY <1>3, <1>7, <3>1 DEF Childless
  <2> QED BY <2>1, <2>2
<1>11. ASSUME NEW i \in 2 .. n - 1 PROVE Became(text'[open'[i].at], open'[i].kind)
  <2>1. i \in 1 .. n - 1 /\ i \in 2 .. n
    BY <1>2
  <2>2. open'[i].at = open[i].at /\ open'[i].kind = open[i].kind
    BY <1>1, <2>1
  <2>3. text'[open[i].at] = text[open[i].at]
    BY <1>3, <1>4, <2>1
  <2> QED BY <1>7, <2>1, <2>2, <2>3
<1>12. ASSUME NEW j \in 1 .. Here', NEW i \in 2 .. Len(Around(j)')
       PROVE  LET e == Around(j)'[i] IN
              /\ e.at \in DOMAIN ops' => Became(e.kind, ops'[e.at].kind)
              /\ \A m \in 2 .. n - 1 : open'[m].at = e.at => Became(e.kind, open'[m].kind)
              /\ j \in Starts' /\ e.kind = "switch {" => e.part > 1
              /\ j \in Starts' /\ e.kind = "switch" => e.part = 1
  <2> DEFINE g == IF j \in 1 .. H THEN j ELSE H
             e == Around(g)[i]
  <2>1. g \in 1 .. H /\ Around(j)'[i] = e /\ i \in 2 .. Len(Around(g)) /\ (j \in Starts => g = j)
    <3>1. CASE j \in 1 .. H
      BY <1>3, <3>1
    <3>2. CASE j \notin 1 .. H
      <4>1. Here' = H + 1 /\ j = H + 1
        BY <1>3, <1>4, <3>2
      <4>2. Here' = j /\ Around(j)' = Around(Here)'
        BY <4>1
      <4>3. /\ Len(Around(Here)') = n - 1
            /\ \A m \in 1 .. n - 1 : Around(Here)'[m] = Around(Here)[m]
        BY <1>3, <1>4, <4>1
      <4>4. i \in 1 .. n - 1 /\ i \in 2 .. Len(Around(Here))
        BY <1>2, <1>4, <1>5, <4>2, <4>3
      <4>5. g = H /\ j \notin Starts
        BY <1>4, <1>6, <3>2
      <4>6. g \in 1 .. H /\ g = Here
        BY <1>4, <4>5 DEF H
      <4> HIDE DEF g
      <4> QED BY <4>2, <4>3, <4>4, <4>5, <4>6
    <3> QED BY <3>1, <3>2
  <2>2. /\ e.at \in DOMAIN ops => Became(e.kind, ops[e.at].kind)
        /\ \A m \in 2 .. n : open[m].at = e.at => Became(e.kind, open[m].kind)
        /\ g \in Starts /\ e.kind = "switch {" => e.part > 1
        /\ g \in Starts /\ e.kind = "switch" => e.part = 1
    BY <1>7, <2>1
  <2> HIDE DEF e, g
  <2>3. e.at \in DOMAIN ops' => Became(e.kind, ops'[e.at].kind)
    <3>1. e.at = q => Became(e.kind, Top.kind)
      BY <1>2, <1>9, <2>2
    <3>2. ops'[q].kind = Top.kind
      BY <1>1 DEF Op
    <3> QED BY <1>1, <2>2, <3>1, <3>2
  <2>4. ASSUME NEW m \in 2 .. n - 1, open'[m].at = e.at PROVE Became(e.kind, open'[m].kind)
    <3>1. m \in 1 .. n - 1 /\ m \in 2 .. n
      BY <1>2
    <3> QED BY <1>1, <2>2, <2>4, <3>1
  <2> QED BY <1>3, <2>1, <2>2, <2>3, <2>4
<1>13. ASSUME NEW m \in 1 .. n - 1 - 1 PROVE open'[m].kind = "switch {" => open'[m].labels # <<>>
  <2>1. m \in 1 .. n - 1
    BY <1>2
  <2> QED BY <1>1, <1>7, <2>1
<1> QED BY <1>1, <1>10, <1>11, <1>12, <1>13 DEF KindsKept

LEMMA ClosesLabels ==
    ASSUME PInv, Closes
    PROVE  LabelsKept'
<1> DEFINE n == Len(open)
           q == Top.at
<1>0. PInv /\ ParserTypeOK /\ LabelsKept /\ status # "error" /\ n > 1
  BY DEF PInv, Closes
<1>1. /\ DOMAIN open' = 1 .. n - 1
      /\ \A i \in 1 .. n - 1 : open'[i].at = open[i].at /\ open'[i].labels = open[i].labels
      /\ DOMAIN ops' = DOMAIN ops \cup {q} /\ q \notin DOMAIN ops
      /\ \A p \in DOMAIN ops : ops'[p] = ops[p]
      /\ ops'[q] = Op(Top.kind, Top.labels, Top.lists)
  BY ClosesShape
<1>2. n \in Nat /\ n \in 2 .. n /\ Top = open[n]
  BY <1>0, Closing
<1>3. \A at, labels : Labelled(at, labels) => Labelled(at, labels)'
  BY DEF Closes
<1>4. DOMAIN open = 1 .. n
  BY <1>0 DEF ParserTypeOK
<1>5. /\ \A p \in DOMAIN ops : Labelled(p, ops[p].labels)
      /\ \A i \in 1 .. n : Labelled(open[i].at, open[i].labels)
  BY <1>0, <1>4 DEF LabelsKept
<1>6. Labelled(q, Top.labels)
  BY <1>2, <1>5
<1> HIDE DEF n, q
<1>7. ASSUME NEW p \in DOMAIN ops' PROVE Labelled(p, ops[p].labels)'
  <2>1. PICK l : l = ops'[p].labels
    OBVIOUS
  <2>2. Labelled(p, l)
    <3>1. CASE p = q
      BY <1>1, <1>6, <2>1, <3>1 DEF Op
    <3>2. CASE p # q
      BY <1>1, <1>5, <2>1, <3>2
    <3> QED BY <3>1, <3>2
  <2>3. Labelled(p, l)'
    BY <1>3, <2>2
  <2> QED BY <2>1, <2>3
<1>8. ASSUME NEW i \in 1 .. n - 1 PROVE Labelled(open[i].at, open[i].labels)'
  <2>1. PICK at, l : at = open'[i].at /\ l = open'[i].labels
    OBVIOUS
  <2>2. i \in 1 .. n
    BY <1>2
  <2>3. Labelled(at, l)
    BY <1>1, <1>5, <2>1, <2>2
  <2>4. Labelled(at, l)'
    BY <1>3, <2>3
  <2> QED BY <2>1, <2>4
<1> QED BY <1>1, <1>7, <1>8 DEF LabelsKept

LEMMA EndsOther == ASSUME NEW kind PROVE Ends(kind) \subseteq Other \ Labels
BY DEF Ends, Other, Labels

\* A token that ends the innermost construct.
LEMMA ReadCloses ==
    ASSUME PInv, NEW t \in Tokens, Read(t), Close, Top.kind # "main", t \in Ends(Top.kind)
    PROVE  Closes
<1> DEFINE n == Len(open)
           a == Around(Here)
<1>1. status = "parsing" /\ status # "error" /\ status' = status /\ ParserTypeOK
  BY DEF Read, Available, PInv
<1>2. t \notin Opening /\ ~NewOp(t) /\ t \notin Labels
  BY EndsOther, OtherNew
<1>3. /\ text' \in Seq(Tokens) /\ Here' = Here + 1 /\ Here \in Nat /\ Here > 0
      /\ \A j \in 1 .. Here - 1 : text'[j] = text[j]
      /\ \A j \in 1 .. Here : Around(j)' = Around(j)
      /\ Around(Here)' = Meaning(a, t, Here)
  BY <1>1, ReadFacts
<1>4. /\ n \in Nat /\ Len(a) = n /\ Innermost(Here) = Entry(Top.kind, Top.at, Len(Top.lists))
      /\ a \in Seq(Entries) /\ a # <<>>
  BY <1>1, AtTop
<1>5. n > 1
  <2>1. n # 1 /\ n > 0
    BY <1>1, AtTop, TopFacts
  <2> QED BY <1>4, <2>1
<1>6. Last(a).kind = Top.kind
  BY <1>4 DEF Innermost, Entry
<1>7. /\ Len(Front(a)) = n - 1 /\ \A i \in 1 .. n - 1 : Front(a)[i] = a[i]
  BY <1>4, Ended
<1>8. Around(Here)' = Front(a)
  <2> HIDE DEF a, n
  <2> QED BY <1>2, <1>3, <1>4, <1>5, <1>6 DEF Meaning
<1>9. Starts' = Starts /\ Definitions' = Definitions /\ \A at, k : Under(at, k)' = Under(at, k)
  BY <1>1, <1>2, Growth
<1>10. \A at, labels : Labelled(at, labels) => Labelled(at, labels)'
  BY <1>1, <1>2, LabelledSame
<1> HIDE DEF n, a
<1>11. Len(Around(Here)') = n - 1 /\ \A i \in 1 .. n - 1 : Around(Here)'[i] = a[i]
  BY <1>7, <1>8
<1> QED BY <1>1, <1>3, <1>5, <1>9, <1>10, <1>11 DEF Closes, n, a

LEMMA SemicolonCloses ==
    ASSUME PInv, Semicolon, Top.kind \in Bodies \cup Values
    PROVE  Closes
<1> DEFINE t == ";"
<1>1. Read(t) /\ Close
  BY DEF Semicolon
<1>2. t \in Tokens
  BY <1>1 DEF Read, Available, Tokens
<1>3. t \in Ends(Top.kind) /\ Top.kind # "main"
  BY DEF Ends, Bodies, Values
<1> HIDE DEF t
<1> QED BY <1>1, <1>2, <1>3, ReadCloses

LEMMA EndConstructCloses ==
    ASSUME PInv, NEW t \in Tokens, EndConstruct(t)
    PROVE  Closes
<1>1. Read(t) /\ Close /\ Fits(t)
  BY DEF EndConstruct, Read
<1>2. t \in Ends(Top.kind) /\ Top.kind # "main"
  <2>1. CASE t = ")"
    <3>1. Top.kind = "("
      BY <1>1, <2>1 DEF Fits
    <3> QED BY <2>1, <3>1 DEF Ends, Bodies, Values
  <2>2. CASE t = "]"
    <3>1. Top.kind \in Objects
      BY <1>1, <2>2 DEF Fits
    <3> QED BY <2>2, <3>1 DEF Ends, Bodies, Values, Objects
  <2>4. CASE t = "]()"
    <3>1. Top.kind = "a["
      BY <1>1, <2>4 DEF Fits
    <3> QED BY <2>4, <3>1 DEF Ends, Bodies, Values
  <2>3. CASE t \notin {")", "]", "]()"}
    <3>1. t \in Grouping /\ t \in Ends("switch {")
      BY <2>3 DEF EndConstruct, Grouping, Ends, Bodies, Values, Objects
    <3>2. t \in Grouping => Top.kind = "switch {"
      BY <1>1 DEF Fits, Grouping
    <3> QED BY <3>1, <3>2
  <2> QED BY <2>1, <2>2, <2>3, <2>4
<1> QED BY <1>1, <1>2, ReadCloses

\* A body that ends with the text.
LEMMA EndCloses ==
    ASSUME PInv, CloseAtEnd, Top.kind \in Bodies
    PROVE  Closes
<1>1. /\ status = "ended" /\ Len(open) > 1 /\ Close /\ status' = "ended" /\ status # "error"
      /\ text' = text /\ text \in Seq(Tokens)
  BY DEF CloseAtEnd, PInv, ParserTypeOK
<1>2. Here' = Here
  BY <1>1 DEF Here
<1>3. Around(Here)' = Around(Here)
  BY <1>1, <1>2 DEF Around
<1>4. \A j : Around(j)' = Around(j)
  BY <1>1 DEF Around
<1>5. \A j : Innermost(j)' = Innermost(j)
  BY <1>4 DEF Innermost
<1>6. Starts' = Starts
  BY <1>1, <1>5 DEF Starts
<1>7. Definitions' = Definitions
  BY <1>1, <1>4, <1>6 DEF Definitions
<1>8. \A at, k : Under(at, k)' = Under(at, k)
  BY <1>5, <1>6, <1>7 DEF Under
<1>9. \A at, labels : Labelled(at, labels) => Labelled(at, labels)'
  BY <1>1, <1>5 DEF Labelled
<1> QED BY <1>1, <1>2, <1>3, <1>4, <1>6, <1>7, <1>8, <1>9 DEF Closes

--------------------------------------------------------------------------------
(* Every step keeps the invariant.                                           *)

LEMMA RetopsKeeps == ASSUME PInv, NEW t \in Tokens, NEW c, Retops(t, c) PROVE PInv'
BY RetopsType, RetopsRules, RetopsKinds, RetopsLabels DEF PInv

LEMMA PlainKeeps == ASSUME PInv, NEW t \in Tokens, PlainOp(t) PROVE PInv'
BY PlainType, PlainRules, PlainKinds, PlainLabels DEF PInv

LEMMA BeginKeeps == ASSUME PInv, NEW t \in Tokens, Begin(t) PROVE PInv'
BY BeginType, BeginRules, BeginKinds, BeginLabels DEF PInv

LEMMA ClosesKeeps == ASSUME PInv, Closes PROVE PInv'
BY ClosesType, ClosesRules, ClosesKinds, ClosesLabels DEF PInv

LEMMA MismatchKeeps == ASSUME PInv, NEW t \in Tokens, Mismatch(t) PROVE PInv'
<1>1. /\ text' = Append(text, t) /\ status' = "error"
      /\ open' = open /\ ops' = ops /\ functions' = functions
  BY DEF Mismatch
<1>2. ParserTypeOK'
  <2>1. ParserTypeOK /\ text' \in Seq(Tokens)
    BY <1>1 DEF PInv, ParserTypeOK
  <2> QED BY <1>1, <2>1 DEF ParserTypeOK
<1> QED BY <1>1, <1>2 DEF PInv, OpsByRules, KindsKept, LabelsKept

\* Steps that leave text and constructs.
LEMMA QuietKeeps ==
    ASSUME PInv, text' = text, open' = open, ops' = ops, functions' = functions,
           status' \in {status, "error"} \/ (status = "parsing" /\ status' = "ended")
    PROVE  PInv'
<1>1. ParserTypeOK'
  BY DEF PInv, ParserTypeOK
<1>2. Here' = Here
  BY DEF Here
<1>3. Around(Here)' = Around(Here)
  BY <1>2 DEF Around
<1>4. \A j : Around(j)' = Around(j)
  BY DEF Around
<1>5. \A j : Innermost(j)' = Innermost(j)
  BY <1>4 DEF Innermost
<1>6. Starts' = Starts
  BY <1>5 DEF Starts
<1>7. Definitions' = Definitions
  BY <1>4, <1>6 DEF Definitions
<1>8. \A at, k : Under(at, k)' = Under(at, k)
  BY <1>5, <1>6, <1>7 DEF Under
<1>9. Unfinished' = Unfinished
  BY DEF Unfinished
<1>10. \A l, at, k : Lists(l, at, k)' = Lists(l, at, k)
  BY <1>8, <1>9 DEF Lists
<1>11. \A at, labels : Labelled(at, labels)' = Labelled(at, labels)
  BY <1>5 DEF Labelled
<1>12. \A p : Childless(p)' = Childless(p)
  BY <1>7 DEF Childless
<1>13. status' # "error" => status # "error" /\ (status' = "parsing" => status = "parsing")
  OBVIOUS
<1>14. OpsByRules'
  BY <1>3, <1>6, <1>7, <1>9, <1>10, <1>13 DEF PInv, OpsByRules
<1>15. KindsKept'
  BY <1>2, <1>4, <1>6, <1>12, <1>13 DEF PInv, KindsKept
<1>16. LabelsKept'
  BY <1>11, <1>13 DEF PInv, LabelsKept
<1> QED BY <1>1, <1>14, <1>15, <1>16 DEF PInv

LEMMA Starting == ASSUME ParserInit PROVE PInv
<1>1. text = <<>> /\ ops = <<>> /\ functions = <<>> /\ status = "parsing"
  BY DEF ParserInit
<1>2. \A x : x = <<>> => DOMAIN x = {} /\ Len(x) = 0 /\ (\A S : x \in Seq(S)) /\ Range(x) = {}
  BY DEF Range
<1>3. /\ DOMAIN text = {} /\ Len(text) = 0 /\ \A S : text \in Seq(S)
      /\ DOMAIN ops = {}
      /\ DOMAIN functions = {} /\ (\A S : functions \in Seq(S)) /\ Range(functions) = {}
  BY <1>1, <1>2
<1>4. PICK c, l : /\ open = <<c>> /\ c = [kind |-> "main", at |-> 0, labels |-> l, lists |-> <<l>>]
                  /\ l = <<>>
  BY DEF ParserInit
<1>5. DOMAIN l = {} /\ Len(l) = 0 /\ (\A S : l \in Seq(S)) /\ Range(l) = {}
  BY <1>2, <1>4
<1>6. <<l>> \in Parts /\ Len(<<l>>) = 1 /\ DOMAIN <<l>> = {1} /\ <<l>>[1] = l /\ <<l>> # <<>>
  <2> DEFINE S == Seq(Nat)
  <2>1. l \in S
    BY <1>5
  <2> HIDE DEF S
  <2>2. <<l>> \in Seq(S) /\ Len(<<l>>) = 1 /\ DOMAIN <<l>> = {1} /\ <<l>>[1] = l /\ <<l>> # <<>>
    BY <2>1
  <2> QED BY <2>2 DEF S, Parts
<1>7. c \in Constructs /\ c.kind = "main" /\ c.at = 0 /\ c.labels = l /\ c.lists = <<l>>
  BY <1>4, <1>5, <1>6 DEF Constructs, Kinds
<1>8. /\ open \in Seq(Constructs) /\ open # <<>> /\ Len(open) = 1 /\ DOMAIN open = {1} /\ open[1] = c
  BY <1>4, <1>7
<1>9. Here = 1 /\ Here \in 1 .. Len(text) + 1
  BY <1>3 DEF Here
<1>10. Shaped(c.kind, c.labels, c.lists)
  <2>1. c.lists # <<>> /\ Len(c.lists) = 1 /\ c.labels = <<>>
    BY <1>4, <1>6, <1>7
  <2>2. c.kind # "switch {" /\ c.kind # "20"
    BY <1>7
  <2> QED BY <2>1, <2>2 DEF Shaped
<1>11. ParserTypeOK
  <2>1. ops \in [DOMAIN ops -> Ops]
    <3>1. \A x : x = <<>> => x \in [DOMAIN x -> Ops]
      OBVIOUS
    <3> QED BY <1>1, <3>1
  <2>2. \A i \in DOMAIN open :
         /\ Shaped(open[i].kind, open[i].labels, open[i].lists)
         /\ open[i].kind = "main" <=> i = 1
         /\ open[i].kind = "/1" => i = 2
    BY <1>7, <1>8, <1>10
  <2> QED BY <1>1, <1>3, <1>8, <2>1, <2>2 DEF ParserTypeOK
<1>12. Around(Here) = <<Entry("main", 0, 1)>>
  <2>1. text \in Seq(Tokens) /\ Here = 1
    BY <1>3, <1>9
  <2>2. Readings(text)[1] = <<Entry("main", 0, 1)>>
    BY <2>1, ReadingsDef
  <2> QED BY <1>9, <2>2 DEF Around
<1>13. Len(Around(Here)) = 1 /\ Around(Here)[1] = Entry("main", 0, 1)
  BY <1>12
<1>14. Starts = {} /\ Definitions = {} /\ \A at, k : Under(at, k) = {}
  <2>1. Starts = {}
    BY <1>3 DEF Starts
  <2> QED BY <2>1 DEF Definitions, Under
<1>15. Lists(l, 0, 1)
  BY <1>5, <1>14 DEF Lists, Ascending
<1>16. OpsByRules
  <2>1. Ascending(functions) /\ Range(functions) = Definitions \ Unfinished
    BY <1>3, <1>14 DEF Ascending
  <2>2. Around(Here)[1] = Entry(c.kind, c.at, Len(c.lists))
    BY <1>6, <1>7, <1>13
  <2>3. \A k \in DOMAIN c.lists : Lists(c.lists[k], c.at, k)
    <3>1. DOMAIN c.lists = {1} /\ c.lists[1] = l /\ c.at = 0
      BY <1>6, <1>7
    <3> QED BY <1>15, <3>1
  <2> QED BY <1>3, <1>8, <1>13, <1>14, <2>1, <2>2, <2>3 DEF OpsByRules
<1>17. KindsKept
  <2>1. \A j \in 1 .. Here : Len(Around(j)) = 1
    BY <1>9, <1>13
  <2>2. 2 .. Len(open) = {} /\ 1 .. Len(open) - 1 = {}
    BY <1>8
  <2>3. \A j \in 1 .. Here : 2 .. Len(Around(j)) = {}
    <3>1. \A x : x = 1 => 2 .. x = {}
      OBVIOUS
    <3> QED BY <2>1, <3>1
  <2> QED BY <1>3, <2>2, <2>3, Zenon DEF KindsKept
<1>18. LabelsKept
  <2>1. Labelled(0, l)
    BY <1>3, <1>5 DEF Labelled
  <2>2. \A i \in DOMAIN open : open[i].at = 0 /\ open[i].labels = l
    BY <1>7, <1>8
  <2> QED BY <1>3, <2>1, <2>2 DEF LabelsKept
<1> QED BY <1>11, <1>16, <1>17, <1>18 DEF PInv

LEMMA Stepping == ASSUME PInv, [ParserNext]_parserVars PROVE PInv'
<1>1. ASSUME NEW t \in Tokens, PlainOp(t) PROVE PInv'
  BY <1>1, PlainKeeps
<1>2. ASSUME NEW t \in Tokens, Begin(t) PROVE PInv'
  BY <1>2, BeginKeeps
<1>3. ASSUME NEW t \in Tokens, EndConstruct(t) PROVE PInv'
  BY <1>3, EndConstructCloses, ClosesKeeps
<1>4. ASSUME NEW t \in Tokens, EndIndex(t) PROVE PInv'
  BY <1>4, EndIndexRetops, RetopsKeeps
<1>5. ASSUME NEW t \in Tokens, CaseLabel(t) PROVE PInv'
  BY <1>5, CaseLabelRetops, RetopsKeeps
<1>6. ASSUME NEW t \in Tokens, Mismatch(t) PROVE PInv'
  BY <1>6, MismatchKeeps
<1>7. CASE Else
  <2>1. Retops("28", NextList) /\ "28" \in Tokens
    BY <1>7, ElseRetops
  <2> QED BY <2>1, RetopsKeeps
<1>8. CASE Semicolon
  <2>1. CASE Top.kind \in Bodies \cup Values
    BY <1>8, <2>1, SemicolonCloses, ClosesKeeps
  <2>2. CASE Top.kind \notin Bodies \cup Values
    BY <1>8, <2>2, SkippedRetops, RetopsKeeps
  <2> QED BY <2>1, <2>2
<1>9. CASE OpenSwitch
  BY <1>9, OpenSwitchRetops, RetopsKeeps
<1>10. CASE EndOfText
  <2>1. /\ text' = text /\ open' = open /\ ops' = ops /\ functions' = functions
        /\ status = "parsing" /\ status' = "ended"
    BY <1>10 DEF EndOfText
  <2> QED BY <2>1, QuietKeeps
<1>11. CASE CloseAtEnd
  <2>1. CASE Top.kind \in Bodies
    BY <1>11, <2>1, EndCloses, ClosesKeeps
  <2>2. CASE Top.kind \notin Bodies
    <3>1. /\ text' = text /\ open' = open /\ ops' = ops /\ functions' = functions
          /\ status' = "error"
      BY <1>11, <2>2 DEF CloseAtEnd
    <3> QED BY <3>1, QuietKeeps
  <2> QED BY <2>1, <2>2
<1>12. CASE UNCHANGED parserVars
  <2>1. /\ text' = text /\ open' = open /\ ops' = ops /\ functions' = functions
        /\ status' = status
    BY <1>12 DEF parserVars
  <2> QED BY <2>1, QuietKeeps
<1>13. ParserNext =>
         \/ \E t \in Tokens : \/ PlainOp(t) \/ Begin(t) \/ EndConstruct(t) \/ EndIndex(t)
                              \/ CaseLabel(t) \/ Mismatch(t)
         \/ Else \/ Semicolon \/ OpenSwitch \/ EndOfText \/ CloseAtEnd
  BY DEF ParserNext
<1> QED BY <1>1, <1>2, <1>3, <1>4, <1>5, <1>6, <1>7, <1>8, <1>9, <1>10, <1>11, <1>12, <1>13

\* The inductive invariant of the parser: what OpsByRules says of the text read
\* so far, with the kinds, labels and parts of what is still open.
THEOREM ParserInvariant == ParserSpec => []PInv
<1>1. ParserInit => PInv
  BY Starting
<1>2. PInv /\ [ParserNext]_parserVars => PInv'
  BY Stepping
<1> QED BY <1>1, <1>2, PTL DEF ParserSpec

\* The shape of what is being parsed.
THEOREM ParserTypeCorrect == ParserSpec => []ParserTypeOK
<1>1. PInv => ParserTypeOK
  BY DEF PInv
<1> QED BY <1>1, ParserInvariant, PTL

--------------------------------------------------------------------------------
(* Calls through elements.                                                   *)

\* Behind "]" the last op is the one it closed.
BehindIndex ==
    status = "parsing" /\ text # <<>> /\ Last(text) = "]" =>
        ops[Last(Last(Top.lists))].kind = Innermost(Len(text)).kind

LEMMA ReadCalls ==
    ASSUME PInv, CallsByRules, BehindIndex, NEW t \in Tokens, Read(t)
    PROVE  CallsByRules'
<1>1. /\ status # "error" /\ Here \in Nat /\ Here > 0 /\ (DOMAIN text)' = 1 .. Here
      /\ DOMAIN text = 1 .. Here - 1 /\ text'[Here] = t /\ text \in Seq(Tokens)
      /\ \A j \in 1 .. Here - 1 : text'[j] = text[j]
      /\ \A j \in 1 .. Here : Innermost(j)' = Innermost(j)
      /\ status = "parsing" /\ Fits(t) /\ Here = Len(text) + 1
  BY ReadFacts DEF PInv, ParserTypeOK, Read, Here
<1>2. SUFFICES ASSUME NEW j \in 1 .. Here, text'[j] = "(", j > 1, text'[j - 1] = "]"
               PROVE  Innermost(j - 1).kind # "a["
  BY <1>1 DEF CallsByRules
<1>3. j - 1 \in 1 .. Here - 1 /\ text[j - 1] = "]"
  BY <1>1, <1>2
<1>4. CASE j = Here
  <2>1. t = "(" /\ j - 1 = Len(text) /\ text # <<>>
    BY <1>1, <1>2, <1>3, <1>4
  <2>2. Last(text) = "]"
    BY <1>3, <2>1 DEF Last
  <2>3. ~Callable
    BY <1>1, <2>1 DEF Fits
  <2> QED BY <1>1, <2>1, <2>2, <2>3 DEF Callable, BehindIndex
<1>5. CASE j # Here
  <2>1. j \in DOMAIN text
    BY <1>1, <1>2, <1>5
  <2> QED BY <1>1, <1>2, <1>3, <2>1 DEF CallsByRules
<1> QED BY <1>4, <1>5

\* Only the end of a subscript puts "]" at the end of the text.
LEMMA ReadBehind ==
    ASSUME PInv, NEW t \in Tokens, Read(t), t = "]" => EndConstruct(t)
    PROVE  BehindIndex'
<1>1. /\ text' = Append(text, t) /\ text \in Seq(Tokens) /\ Len(text') = Here
      /\ Here \in Nat /\ Here > 0 /\ text'[Here] = t
      /\ Innermost(Len(text))' = Innermost(Here) /\ status = "parsing" /\ ParserTypeOK
  <2>1. ParserTypeOK
    BY DEF PInv
  <2>2. /\ text' = Append(text, t) /\ Len(text') = Here /\ Here \in Nat /\ Here > 0
        /\ text'[Here] = t /\ status = "parsing"
        /\ \A j \in 1 .. Here : Innermost(j)' = Innermost(j)
    BY <2>1, ReadFacts
  <2>3. \A j : j = Len(text') => Innermost(Len(text))' = Innermost(j)'
    BY DEF Innermost, Around
  <2> QED BY <2>1, <2>2, <2>3 DEF ParserTypeOK
<1>2. Last(text') = t
  BY <1>1 DEF Last
<1>3. CASE t # "]"
  BY <1>2, <1>3 DEF BehindIndex
<1>4. CASE t = "]"
  <2>1. Close /\ Top.kind \in Objects
    BY <1>4 DEF EndConstruct, Read, Fits
  <2>2. Top.kind # "/1" /\ Top.kind # "main"
    BY <2>1 DEF Objects
  <2> DEFINE n == Len(open)
             f == Last(Outer)
             c == AppendOp(f, Top.at)
  <2>3. n \in Nat /\ n > 1
    BY <1>1, <2>2, AtTop, TopFacts
  <2>4. n = Len(open) /\ open \in Seq(Constructs) /\ Top.at \in Nat
    BY <1>1, TopFacts DEF ParserTypeOK
  <2>5. /\ open' = Append(Front(Outer), c)
        /\ Record(Top.at, Op(Top.kind, Top.labels, Top.lists))
    BY <2>1, <2>2 DEF Close
  <2>6. f = open[n - 1] /\ Front(Outer) \in Seq(Constructs)
    <3>1. Outer \in Seq(Constructs) /\ Len(Outer) = n - 1 /\ Outer[n - 1] = open[n - 1]
      BY <2>3, <2>4, Ended DEF Outer
    <3> QED BY <2>3, <3>1, Ended DEF Last
  <2>7. f \in Constructs /\ f.lists # <<>>
    <3>1. n - 1 \in DOMAIN open /\ open[n - 1] \in Constructs
      BY <2>3, <2>4
    <3> QED BY <1>1, <2>6, <3>1 DEF ParserTypeOK, Shaped
  <2> DEFINE l == f.lists[Len(f.lists)]
  <2>8. Last(c.lists) = Append(l, Top.at) /\ l \in Seq(Nat)
    <3>1. /\ c.lists[Len(f.lists)] = Append(l, Top.at) /\ l \in Seq(Nat)
          /\ Len(c.lists) = Len(f.lists)
      <4>1. Top.at \in Nat
        BY <2>4
      <4> HIDE DEF f
      <4> QED BY <2>7, <4>1, AppendOpFacts
    <3> HIDE DEF c, l
    <3> QED BY <3>1 DEF Last
  <2>9. Last(Last(c.lists)) = Top.at
    <3> HIDE DEF l
    <3>1. /\ Len(Append(l, Top.at)) = Len(l) + 1
          /\ Append(l, Top.at)[Len(l) + 1] = Top.at
      BY <2>4, <2>8, Appended
    <3> QED BY <2>8, <3>1 DEF Last
  <2>10. Top' = c
    BY <2>5, <2>6, Ended DEF Top, Last
  <2>11. ops'[Top.at].kind = Top.kind
    BY <2>5 DEF Record, Op
  <2>12. Innermost(Here).kind = Top.kind
    BY <1>1, AtTop DEF Entry
  <2> HIDE DEF c, f, n
  <2>13. Last(Last(Top'.lists)) = Top.at
    BY <2>9, <2>10
  <2>14. ops'[Last(Last(Top'.lists))].kind = Top.kind
    BY <2>11, <2>13
  <2> QED BY <1>1, <2>12, <2>14 DEF BehindIndex
<1> QED BY <1>3, <1>4

LEMMA CallsStepping ==
    ASSUME PInv, CallsByRules, BehindIndex, [ParserNext]_parserVars
    PROVE  CallsByRules' /\ BehindIndex'
<1>1. ASSUME NEW t \in Tokens, Read(t), t = "]" => EndConstruct(t)
      PROVE  CallsByRules' /\ BehindIndex'
  BY <1>1, ReadCalls, ReadBehind
<1>2. ASSUME NEW t \in Tokens, PlainOp(t) \/ Begin(t) \/ EndIndex(t) \/ CaseLabel(t)
      PROVE  CallsByRules' /\ BehindIndex'
  <2>1. Read(t) /\ t # "]"
    BY <1>2 DEF PlainOp, Begin, EndIndex, CaseLabel, Plain, Opening, Bodies, Values, Objects, Labels
  <2> QED BY <1>1, <2>1
<1>3. ASSUME NEW t \in Tokens, EndConstruct(t) PROVE CallsByRules' /\ BehindIndex'
  BY <1>1, <1>3 DEF EndConstruct
<1>4. ASSUME NEW t \in Tokens, Mismatch(t) PROVE CallsByRules' /\ BehindIndex'
  BY <1>4 DEF Mismatch, CallsByRules, BehindIndex
<1>5. CASE Else \/ Semicolon \/ OpenSwitch
  <2>1. PICK t \in {"28", ";", "{"} : Read(t)
    BY <1>5 DEF Else, Semicolon, OpenSwitch
  <2>2. t \in Tokens
    BY <2>1 DEF Read, Available, Tokens
  <2> QED BY <1>1, <2>1, <2>2
<1>6. CASE EndOfText \/ CloseAtEnd \/ UNCHANGED parserVars
  <2>1. text' = text /\ \A j : Innermost(j)' = Innermost(j)
    BY <1>6 DEF EndOfText, CloseAtEnd, parserVars, Innermost, Around
  <2>2. /\ status' # "error" => status # "error"
        /\ status' = "parsing" => status = "parsing" /\ ops' = ops /\ open' = open
    BY <1>6 DEF EndOfText, CloseAtEnd, parserVars
  <2>3. CallsByRules'
    BY <2>1, <2>2 DEF CallsByRules
  <2>4. BehindIndex'
    BY <2>1, <2>2 DEF BehindIndex, Top
  <2> QED BY <2>3, <2>4
<1> QED BY <1>2, <1>3, <1>4, <1>5, <1>6 DEF ParserNext

\* The parser reads every text by the rules.
THEOREM ParsesByRules == ParserSpec => []ParsedByRules
<1>1. PInv /\ CallsByRules => ParsedByRules
  BY DEF PInv, ParsedByRules
<1>2. ParserInit => PInv /\ CallsByRules /\ BehindIndex
  BY Starting DEF ParserInit, CallsByRules, BehindIndex
<1>3. PInv /\ CallsByRules /\ BehindIndex /\ [ParserNext]_parserVars
        => (PInv /\ CallsByRules /\ BehindIndex)'
  BY Stepping, CallsStepping
<1> QED BY <1>1, <1>2, <1>3, PTL DEF ParserSpec

================================================================================

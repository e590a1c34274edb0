---------------------------- MODULE NamingProofs ----------------------------
(***************************************************************************)
(* What the paths of Naming tell of the metrics that they are made of, for *)
(* every prefix and every set of label names that NamesAssumption and      *)
(* PrefixAssumption allow.                                                 *)
(*                                                                         *)
(* A path tells its metric by unique decoding: it is the prefix, the name  *)
(* and the texts of the labels, each label begins with a byte at which the *)
(* text before it must end, and an escaped byte begins with no other one.  *)
(*                                                                         *)
(* A path is read back by the code in steps of its own, and each of them   *)
(* undoes one of the writing: Unescape what Escape did, Split what the     *)
(* separators did, and TrimPrefix and TrimDots find nothing else to do.    *)
(*                                                                         *)
(* Facts about texts of any length are shown by the shortest text or the   *)
(* smallest number for which they would fail (LeastElement,                *)
(* TextInduction).                                                         *)
(***************************************************************************)
EXTENDS Naming, SequenceTheorems, WellFoundedInduction, TLAPS

(* Texts one after another. *)
LEMMA LeastElement ==
    ASSUME NEW T \in SUBSET Nat, T # {}
    PROVE  \E x \in T : \A y \in T : x <= y
<1>1. IsWellFoundedOn(OpToRel(<, Nat), Nat)
  BY NatLessThanWellFounded
<1>2. \E x \in T : \A y \in T : <<y, x>> \notin OpToRel(<, Nat)
  BY <1>1, WFMin
<1>3. PICK x \in T : \A y \in T : <<y, x>> \notin OpToRel(<, Nat)
  BY <1>2
<1>4. ASSUME NEW y \in T PROVE x <= y
  <2>1. ~(y < x)
    BY <1>3 DEF OpToRel
  <2>2. QED
    BY <2>1
<1>5. QED
  BY <1>4

(* The texts over an alphabet, and one text after another: the names keep   *)
(* the provers from looking into them.                                      *)
Text(A)   == Seq(A)
(* Texts over an alphabet, and one behind the other.                       *)
Cat(x, y) == x \o y

(* Cat in the terms of texts.                                              *)
LEMMA TextEmpty == \A A : <<>> \in Text(A) /\ \A x \in Text(A) : Cat(<<>>, x) = x /\ Cat(x, <<>>) = x
  BY ConcatEmptySeq DEF Text, Cat

LEMMA TextConcat == \A A : \A x, y \in Text(A) : Cat(x, y) \in Text(A)
  BY ConcatProperties DEF Text, Cat

LEMMA TextAssociative ==
    \A A : \A x, y, z \in Text(A) : Cat(Cat(x, y), z) = Cat(x, Cat(y, z))
  BY ConcatAssociative DEF Text, Cat

(* What follows a text is known from the whole.                            *)
LEMMA TextCancel == \A A : \A x, y, z \in Text(A) : Cat(x, y) = Cat(x, z) => y = z
<1> SUFFICES ASSUME NEW A, NEW x \in Seq(A), NEW y \in Seq(A), NEW z \in Seq(A), x \o y = x \o z
             PROVE  y = z
  BY DEF Text, Cat
<1>1. Len(y) = Len(z)
  BY ConcatProperties
<1>2. ASSUME NEW i \in 1..Len(y) PROVE y[i] = z[i]
  <2>1. (x \o y)[Len(x) + i] = y[i] /\ (x \o z)[Len(x) + i] = z[i]
    BY <1>1
  <2>2. QED
    BY <2>1
<1>3. QED
  BY <1>1, <1>2, SeqEqual

(* A table of the texts that the first n ones make. *)
Table(f, s, n) ==
    f = [i \in 1..n |-> IF i = 1 THEN s[i] ELSE f[i-1] \o s[i]]

(* FlattenSeq is defined by a function on the first texts: it exists, for  *)
(* any number of them.                                                     *)
LEMMA TableNext ==
    ASSUME NEW s, NEW n \in Nat, n > 0, NEW f, Table(f, s, n)
    PROVE  Table([i \in 1..(n+1) |-> IF i <= n THEN f[i] ELSE f[n] \o s[n+1]], s, n + 1)
<1> DEFINE g == [i \in 1..(n+1) |-> IF i <= n THEN f[i] ELSE f[n] \o s[n+1]]
<1>a. n + 1 \in 1..(n+1) /\ ~(n + 1 <= n) /\ \A i \in 1..n : i \in 1..(n+1) /\ i <= n
  OBVIOUS
<1>1. \A i \in 1..n : g[i] = f[i] /\ f[i] = IF i = 1 THEN s[i] ELSE f[i-1] \o s[i]
  BY <1>a, Zenon DEF Table
<1>2. g[n+1] = f[n] \o s[n+1]
  BY <1>a, Zenon
<1>3. DOMAIN g = 1..(n+1) /\ g = [i \in 1..(n+1) |-> g[i]]
  OBVIOUS
<1> HIDE DEF g
<1>4. ASSUME NEW i \in 1..(n+1)
      PROVE  g[i] = IF i = 1 THEN s[i] ELSE g[i-1] \o s[i]
  <2>1. CASE i = n + 1
    <3>1. g[i - 1] = f[n] /\ i # 1
      BY <1>1, <2>1
    <3>2. QED
      BY <1>2, <2>1, <3>1
  <2>2. CASE i \in 1..n
    <3>1. i # 1 => g[i-1] = f[i-1]
      BY <1>1, <2>2
    <3>2. QED
      BY <1>1, <2>2, <3>1
  <2>3. QED
    BY <2>1, <2>2
<1>5. Table(g, s, n + 1)
  BY <1>3, <1>4 DEF Table
<1>6. QED
  BY <1>5 DEF g

LEMMA TableExists ==
    ASSUME NEW s, NEW n \in Nat, n > 0
    PROVE  \E f : Table(f, s, n)
<1> DEFINE T == {k \in Nat : k > 0 /\ ~ \E f : Table(f, s, k)}
<1>1. SUFFICES ASSUME T # {} PROVE FALSE
  OBVIOUS
<1>2. PICK k \in T : \A j \in T : k <= j
  <2>1. T \in SUBSET Nat
    OBVIOUS
  <2> HIDE DEF T
  <2>2. QED
    BY <1>1, <2>1, LeastElement
<1>3. k # 1
  <2>1. Table([i \in 1..1 |-> s[i]], s, 1)
    BY DEF Table
  <2>2. QED
    BY <2>1
<1>4. k - 1 \in Nat /\ k - 1 > 0 /\ k - 1 \notin T /\ k \in Nat
  BY <1>2, <1>3
<1>5. PICK f : Table(f, s, k - 1)
  BY <1>4
<1>6. \E g : Table(g, s, (k - 1) + 1)
  BY <1>4, <1>5, TableNext
<1>7. QED
  BY <1>2, <1>4, <1>6

(* Two tables agree as far as both go. *)
LEMMA TableUnique ==
    ASSUME NEW s, NEW t, NEW n \in Nat, NEW m \in Nat, n <= m,
           NEW f, NEW g, Table(f, s, n), Table(g, t, m),
           \A i \in 1..n : s[i] = t[i]
    PROVE  \A i \in 1..n : f[i] = g[i]
<1> DEFINE T == {i \in 1..n : f[i] # g[i]}
<1>1. SUFFICES ASSUME T # {} PROVE FALSE
  OBVIOUS
<1>2. PICK k \in T : \A j \in T : k <= j
  <2>1. T \in SUBSET Nat
    OBVIOUS
  <2> HIDE DEF T
  <2>2. QED
    BY <1>1, <2>1, LeastElement
<1>3. k \in 1..n /\ k \in 1..m
  BY <1>2
<1>4. /\ f[k] = IF k = 1 THEN s[k] ELSE f[k-1] \o s[k]
      /\ g[k] = IF k = 1 THEN t[k] ELSE g[k-1] \o t[k]
  BY <1>3 DEF Table
<1>5. k # 1 => f[k-1] = g[k-1]
  BY <1>2
<1>6. f[k] = g[k]
  BY <1>3, <1>4, <1>5
<1>7. QED
  BY <1>2, <1>6

(* FlattenSeq(s) is the last entry of that function.                       *)
LEMMA FlattenTable ==
    ASSUME NEW S, NEW s \in Seq(S), Len(s) > 0
    PROVE  \E f : Table(f, s, Len(s)) /\ FlattenSeq(s) = f[Len(s)]
<1> DEFINE n == Len(s)
           f == CHOOSE f : Table(f, s, n)
<1>1. n \in Nat /\ n > 0
  OBVIOUS
<1>2. Table(f, s, n)
  <2> HIDE DEF n
  <2>1. \E h : Table(h, s, n)
    BY <1>1, TableExists
  <2>2. QED
    BY <2>1, Zenon
<1>3. n # 0
  BY <1>1
<1>4. FlattenSeq(s) = f[n]
  BY <1>3, Zenon DEF FlattenSeq, Table
<1>5. QED
  BY <1>2, <1>4, Zenon

LEMMA FlattenEmpty == FlattenSeq(<<>>) = <<>>
  BY DEF FlattenSeq

(* One text more is put behind the others.                                 *)
LEMMA FlattenAppend ==
    ASSUME NEW A, NEW s \in Seq(Text(A)), NEW x \in Text(A)
    PROVE  FlattenSeq(Append(s, x)) = Cat(FlattenSeq(s), x)
<1> DEFINE n == Len(s)
           t == Append(s, x)
<1>1. n \in Nat /\ t \in Seq(Text(A)) /\ Len(t) = n + 1 /\ t[n+1] = x
  BY AppendProperties
<1>2. \A i \in 1..n : s[i] = t[i]
  OBVIOUS
<1> HIDE DEF t
<1>3. PICK g : Table(g, t, n + 1) /\ FlattenSeq(t) = g[n+1]
  BY <1>1, FlattenTable
<1>4. CASE n = 0
  <2>1. s = <<>>
    BY <1>4
  <2>2. g[1] = x
    BY <1>1, <1>3, <1>4 DEF Table
  <2>3. FlattenSeq(s) = <<>>
    BY <2>1, FlattenEmpty
  <2>4. QED
    BY <1>3, <1>4, <2>2, <2>3, TextEmpty DEF t
<1>5. CASE n # 0
  <2>a. n > 0
    BY <1>1, <1>5
  <2>1. PICK f : Table(f, s, n) /\ FlattenSeq(s) = f[n]
    BY <2>a, FlattenTable, Zenon
  <2>b. n \in Nat /\ n + 1 \in Nat /\ n <= n + 1 /\ n \in 1..n /\ n \in 1..(n+1) /\ n + 1 \in 1..(n + 1)
        /\ n + 1 # 1 /\ (n + 1) - 1 = n
    BY <1>1, <2>a
  <2> HIDE DEF n
  <2>2. f[n] = g[n]
    <3>1. \A i \in 1..n : f[i] = g[i]
      BY <1>2, <1>3, <2>b, <2>1, TableUnique
    <3>2. QED
      BY <2>b, <3>1
  <2>3. g[n+1] = g[n] \o t[n+1]
    <3>1. g[n+1] = IF n + 1 = 1 THEN t[n+1] ELSE g[(n+1)-1] \o t[n+1]
      BY <1>3, <2>b, Zenon DEF Table
    <3>2. QED
      BY <3>1, <2>b
  <2>4. QED
    BY <1>1, <1>3, <2>1, <2>2, <2>3 DEF t, Cat
<1>6. QED
  BY <1>4, <1>5

(* A set of numbers that is closed under successors is all of them. *)
LEMMA Induction ==
    ASSUME NEW P \in SUBSET Nat, 0 \in P, \A n \in P : n + 1 \in P
    PROVE  P = Nat
<1> DEFINE T == Nat \ P
<1>1. SUFFICES ASSUME T # {} PROVE FALSE
  OBVIOUS
<1>2. PICK k \in T : \A j \in T : k <= j
  <2>1. T \in SUBSET Nat
    OBVIOUS
  <2> HIDE DEF T
  <2>2. QED
    BY <1>1, <2>1, LeastElement
<1>3. k # 0 /\ k \in Nat
  OBVIOUS
<1>4. k - 1 \in Nat /\ k - 1 \notin T
  BY <1>2, <1>3
<1>5. (k - 1) + 1 \in P
  BY <1>4
<1>6. QED
  BY <1>3, <1>5

(* Texts one after another are a text.                                     *)
LEMMA FlattenType ==
    ASSUME NEW A, NEW s \in Seq(Text(A))
    PROVE  FlattenSeq(s) \in Text(A)
<1> DEFINE P == {n \in Nat : \A t \in Seq(Text(A)) : Len(t) = n => FlattenSeq(t) \in Text(A)}
<1>1. 0 \in P
  <2>1. ASSUME NEW t \in Seq(Text(A)), Len(t) = 0 PROVE FlattenSeq(t) \in Text(A)
    <3>1. t = <<>>
      BY <2>1
    <3>2. FlattenSeq(t) = <<>>
      BY <3>1, FlattenEmpty
    <3>3. QED
      BY <3>2, TextEmpty
  <2>2. QED
    BY <2>1
<1> HIDE DEF P
<1>2. ASSUME NEW n \in P PROVE n + 1 \in P
  <2>1. n \in Nat /\ \A t \in Seq(Text(A)) : Len(t) = n => FlattenSeq(t) \in Text(A)
    BY DEF P
  <2>2. ASSUME NEW t \in Seq(Text(A)), Len(t) = n + 1 PROVE FlattenSeq(t) \in Text(A)
    <3>1. t # <<>>
      BY <2>1, <2>2
    <3>2. PICK u \in Seq(Text(A)), x \in Text(A) : t = Append(u, x)
      BY <3>1, SequenceEmptyOrAppend
    <3>3. FlattenSeq(u) \in Text(A)
      BY <2>1, <2>2, <3>2
    <3>4. QED
      BY <3>2, <3>3, FlattenAppend, TextConcat
  <2>3. QED
    BY <2>1, <2>2 DEF P
<1>3. P \in SUBSET Nat
  BY DEF P
<1>4. P = Nat
  BY <1>1, <1>2, <1>3, Induction
<1>5. QED
  <2>1. Len(s) \in P
    BY <1>4
  <2>2. QED
    BY <2>1 DEF P

LEMMA FlattenConcatStep ==
    ASSUME NEW A, NEW s \in Seq(Text(A)), NEW v \in Seq(Text(A)), NEW x \in Text(A),
           FlattenSeq(s \o v) = Cat(FlattenSeq(s), FlattenSeq(v))
    PROVE  FlattenSeq(s \o Append(v, x)) = Cat(FlattenSeq(s), FlattenSeq(Append(v, x)))
<1>1. s \o Append(v, x) = Append(s \o v, x) /\ s \o v \in Seq(Text(A))
  OBVIOUS
<1>2. FlattenSeq(Append(s \o v, x)) = Cat(FlattenSeq(s \o v), x)
  BY <1>1, FlattenAppend
<1>3. FlattenSeq(Append(v, x)) = Cat(FlattenSeq(v), x)
  BY FlattenAppend
<1>4. FlattenSeq(s) \in Text(A) /\ FlattenSeq(v) \in Text(A)
  BY FlattenType
<1>5. Cat(Cat(FlattenSeq(s), FlattenSeq(v)), x) = Cat(FlattenSeq(s), Cat(FlattenSeq(v), x))
  BY <1>4, TextAssociative
<1>6. QED
  BY <1>1, <1>2, <1>3, <1>5

(* Two sequences of texts are put one behind the other.                    *)
LEMMA FlattenConcat ==
    ASSUME NEW A, NEW s \in Seq(Text(A)), NEW t \in Seq(Text(A))
    PROVE  FlattenSeq(s \o t) = Cat(FlattenSeq(s), FlattenSeq(t))
<1> DEFINE Good(u) == FlattenSeq(s \o u) = Cat(FlattenSeq(s), FlattenSeq(u))
           P == {n \in Nat : \A u \in Seq(Text(A)) : Len(u) = n => Good(u)}
<1>1. 0 \in P
  <2>1. ASSUME NEW u \in Seq(Text(A)), Len(u) = 0 PROVE Good(u)
    <3>1. u = <<>>
      BY <2>1
    <3>2. s \o u = s
      BY <3>1, ConcatEmptySeq
    <3>3. FlattenSeq(s) \in Text(A) /\ FlattenSeq(u) = <<>>
      BY <3>1, FlattenType, FlattenEmpty
    <3>4. QED
      BY <3>2, <3>3, TextEmpty
  <2>2. QED
    BY <2>1
<1> HIDE DEF P
<1>2. ASSUME NEW n \in P PROVE n + 1 \in P
  <2>1. n \in Nat /\ \A u \in Seq(Text(A)) : Len(u) = n => Good(u)
    BY DEF P
  <2>2. ASSUME NEW u \in Seq(Text(A)), Len(u) = n + 1 PROVE Good(u)
    <3>1. u # <<>>
      BY <2>1, <2>2
    <3>2. PICK v \in Seq(Text(A)), x \in Text(A) : u = Append(v, x)
      BY <3>1, SequenceEmptyOrAppend
    <3>3. Len(v) = n
      BY <2>1, <2>2, <3>2
    <3>4. FlattenSeq(s \o v) = Cat(FlattenSeq(s), FlattenSeq(v))
      BY <2>1, <3>3
    <3>5. FlattenSeq(s \o Append(v, x)) = Cat(FlattenSeq(s), FlattenSeq(Append(v, x)))
      BY <3>4, FlattenConcatStep
    <3>6. QED
      BY <3>2, <3>5
  <2>3. QED
    BY <2>1, <2>2 DEF P
<1>3. P \in SUBSET Nat
  BY DEF P
<1>4. P = Nat
  BY <1>1, <1>2, <1>3, Induction
<1>5. QED
  <2>1. Len(t) \in P
    BY <1>4
  <2>2. QED
    BY <2>1 DEF P

LEMMA FlattenOne ==
    ASSUME NEW A, NEW x \in Text(A)
    PROVE  FlattenSeq(<<x>>) = x
<1>1. <<>> \in Seq(Text(A)) /\ <<x>> = Append(<<>>, x)
  OBVIOUS
<1>2. FlattenSeq(Append(<<>>, x)) = Cat(<<>>, x)
  BY <1>1, FlattenAppend, FlattenEmpty
<1>3. QED
  BY <1>1, <1>2, TextEmpty

LEMMA ListAssociative ==
    ASSUME NEW S, NEW x \in Seq(S), NEW y \in Seq(S), NEW z \in Seq(S),
           NEW u, u = x \o y, NEW v, v = u \o z
    PROVE  v = x \o (y \o z)
  BY ConcatAssociative

(* A sequence is what comes before one of its elements, this one, and what *)
(* comes after it.                                                         *)
LEMMA CutAt ==
    ASSUME NEW S, NEW s \in Seq(S), NEW i \in 1..Len(s)
    PROVE  s = SubSeq(s, 1, i - 1) \o (<<s[i]>> \o SubSeq(s, i + 1, Len(s)))
<1> DEFINE before == SubSeq(s, 1, i - 1)
           after == SubSeq(s, i + 1, Len(s))
           one == <<s[i]>>
<1>1. before \in Seq(S) /\ after \in Seq(S) /\ one \in Seq(S)
  OBVIOUS
<1>2. SubSeq(s, 1, i) = before \o one
  BY SubSeqRecursiveSecond
<1>3. SubSeq(s, 1, i) \o after = SubSeq(s, 1, Len(s))
  BY ConcatAdjacentSubSeq
<1>4. SubSeq(s, 1, Len(s)) = s
  BY SubSeqFull
<1> HIDE DEF before, after, one
<1>5. PICK u \in Seq(S), v \in Seq(S), w \in Seq(S), uv \in Seq(S) :
         u = before /\ v = one /\ w = after /\ uv = u \o v /\ s = uv \o w
  BY <1>1, <1>2, <1>3, <1>4, ConcatProperties
<1>6. s = u \o (v \o w)
  BY <1>5, ListAssociative
<1>7. QED
  BY <1>5, <1>6 DEF before, after, one

LEMMA FlattenAt ==
    ASSUME NEW A, NEW s \in Seq(Text(A)), NEW i \in 1..Len(s)
    PROVE  /\ s[i] \in Text(A)
           /\ SubSeq(s, 1, i - 1) \in Seq(Text(A))
           /\ SubSeq(s, i + 1, Len(s)) \in Seq(Text(A))
           /\ FlattenSeq(s) = Cat(FlattenSeq(SubSeq(s, 1, i - 1)),
                                  Cat(s[i], FlattenSeq(SubSeq(s, i + 1, Len(s)))))
<1> DEFINE before == SubSeq(s, 1, i - 1)
           after == SubSeq(s, i + 1, Len(s))
           one == <<s[i]>>
<1>1. s[i] \in Text(A) /\ before \in Seq(Text(A)) /\ after \in Seq(Text(A)) /\ one \in Seq(Text(A))
  OBVIOUS
<1>2. s = before \o (one \o after)
  BY CutAt
<1>3. FlattenSeq(one) = s[i]
  BY <1>1, FlattenOne
<1> HIDE DEF before, after, one
<1>4. one \o after \in Seq(Text(A))
  BY <1>1, ConcatProperties
<1>5. FlattenSeq(s) = Cat(FlattenSeq(before), FlattenSeq(one \o after))
  BY <1>1, <1>2, <1>4, FlattenConcat
<1>6. FlattenSeq(one \o after) = Cat(s[i], FlattenSeq(after))
  BY <1>1, <1>3, FlattenConcat
<1>7. QED
  BY <1>1, <1>5, <1>6 DEF before, after

(* A word with a text of X behind it begins with no other word.             *)
LeftDecodable(W, X) ==
    \A w, v \in W : \A x, y \in X : Cat(w, x) = Cat(v, y) => w = v

(* A text of X with a word before it is one of X.                           *)
Behind(X, W) == \A w \in W : \A x \in X : Cat(w, x) \in X

(* No word begins x. *)
Stops(x, W, A) == \A w \in W : \A u \in Text(A) : x # Cat(w, u)

(* Words are texts, and so is what they make.                              *)
LEMMA WordsAreTexts ==
    ASSUME NEW A, NEW W \in SUBSET Text(A), NEW s \in Seq(W)
    PROVE  s \in Seq(Text(A)) /\ FlattenSeq(s) \in Text(A)
<1>1. s \in Seq(Text(A))
  BY SeqMonotonic
<1>2. QED
  BY <1>1, FlattenType

(* With words before it, what may follow a word is again something that    *)
(* may follow one.                                                         *)
LEMMA WordsBefore ==
    ASSUME NEW A, NEW W \in SUBSET Text(A), NEW X \in SUBSET Text(A), Behind(X, W),
           NEW s \in Seq(W), NEW x \in X
    PROVE  Cat(FlattenSeq(s), x) \in X
<1> DEFINE Good(u) == \A y \in X : Cat(FlattenSeq(u), y) \in X
           P == {n \in Nat : \A u \in Seq(W) : Len(u) = n => Good(u)}
<1>1. 0 \in P
  <2>1. ASSUME NEW u \in Seq(W), Len(u) = 0, NEW y \in X PROVE Cat(FlattenSeq(u), y) \in X
    <3>1. u = <<>>
      BY <2>1
    <3>2. y \in Text(A)
      OBVIOUS
    <3>3. QED
      BY <3>1, <3>2, FlattenEmpty, TextEmpty
  <2>2. QED
    BY <2>1
<1> HIDE DEF P
<1>2. ASSUME NEW n \in P PROVE n + 1 \in P
  <2>1. n \in Nat /\ \A u \in Seq(W) : Len(u) = n => Good(u)
    BY DEF P
  <2>2. ASSUME NEW u \in Seq(W), Len(u) = n + 1, NEW y \in X PROVE Cat(FlattenSeq(u), y) \in X
    <3>1. u # <<>>
      BY <2>1, <2>2
    <3>2. PICK v \in Seq(W), w \in W : u = Append(v, w)
      BY <3>1, SequenceEmptyOrAppend
    <3>3. Len(v) = n
      BY <2>1, <2>2, <3>2
    <3>4. Cat(w, y) \in X
      BY DEF Behind
    <3>5. Cat(FlattenSeq(v), Cat(w, y)) \in X
      BY <2>1, <3>3, <3>4
    <3>6. v \in Seq(Text(A)) /\ FlattenSeq(v) \in Text(A) /\ w \in Text(A) /\ y \in Text(A)
      BY WordsAreTexts
    <3>7. FlattenSeq(u) = Cat(FlattenSeq(v), w)
      BY <3>2, <3>6, FlattenAppend
    <3>8. Cat(FlattenSeq(u), y) = Cat(FlattenSeq(v), Cat(w, y))
      BY <3>6, <3>7, TextAssociative
    <3>9. QED
      BY <3>5, <3>8
  <2>3. QED
    BY <2>1, <2>2 DEF P
<1>3. P \in SUBSET Nat
  BY DEF P
<1>4. P = Nat
  BY <1>1, <1>2, <1>3, Induction
<1>5. QED
  <2>1. Len(s) \in P
    BY <1>4
  <2>2. QED
    BY <2>1 DEF P

LEMMA Regroup ==
    ASSUME NEW A, NEW p \in Text(A), NEW w \in Text(A), NEW q \in Text(A), NEW x \in Text(A)
    PROVE  /\ Cat(q, x) \in Text(A) /\ Cat(w, Cat(q, x)) \in Text(A)
           /\ Cat(Cat(p, Cat(w, q)), x) = Cat(p, Cat(w, Cat(q, x)))
  BY TextConcat, TextAssociative

LEMMA AfterAll ==
    ASSUME NEW A, NEW p \in Text(A), NEW x \in Text(A),
           NEW v \in Text(A), NEW r \in Text(A), NEW y \in Text(A),
           Cat(p, x) = Cat(Cat(p, Cat(v, r)), y)
    PROVE  x = Cat(v, Cat(r, y))
<1>1. Cat(p, x) = Cat(p, Cat(v, Cat(r, y)))
  BY Regroup
<1>2. QED
  BY <1>1, Regroup, TextCancel

(* What two texts have in common until one of them is over.                 *)
LEMMA DecodeCommon ==
    ASSUME NEW A, NEW W \in SUBSET Text(A), NEW X \in SUBSET Text(A),
           LeftDecodable(W, X), Behind(X, W),
           NEW s \in Seq(W), NEW t \in Seq(W), NEW x \in X, NEW y \in X,
           Cat(FlattenSeq(s), x) = Cat(FlattenSeq(t), y),
           NEW i \in 1..Len(s), i \in 1..Len(t), SubSeq(s, 1, i - 1) = SubSeq(t, 1, i - 1)
    PROVE  s[i] = t[i]
<1>1. s \in Seq(Text(A)) /\ t \in Seq(Text(A))
  BY WordsAreTexts
<1>2. s[i] \in W /\ t[i] \in W /\ s[i] \in Text(A) /\ t[i] \in Text(A)
  OBVIOUS
<1>3. PICK p \in Text(A), q \in Text(A), r \in Text(A), w \in Text(A), v \in Text(A) :
         /\ w = s[i] /\ v = t[i] /\ Cat(q, x) \in X /\ Cat(r, y) \in X
         /\ FlattenSeq(s) = Cat(p, Cat(w, q)) /\ FlattenSeq(t) = Cat(p, Cat(v, r))
  <2> DEFINE p == FlattenSeq(SubSeq(s, 1, i - 1))
             q == FlattenSeq(SubSeq(s, i + 1, Len(s)))
             r == FlattenSeq(SubSeq(t, i + 1, Len(t)))
  <2>1. p \in Text(A) /\ q \in Text(A) /\ r \in Text(A)
    BY <1>1, FlattenAt, FlattenType
  <2>2. FlattenSeq(s) = Cat(p, Cat(s[i], q)) /\ FlattenSeq(t) = Cat(p, Cat(t[i], r))
    BY <1>1, FlattenAt
  <2>3. Cat(q, x) \in X /\ Cat(r, y) \in X
    <3>1. SubSeq(s, i + 1, Len(s)) \in Seq(W) /\ SubSeq(t, i + 1, Len(t)) \in Seq(W)
      OBVIOUS
    <3>2. QED
      BY <3>1, WordsBefore
  <2> HIDE DEF p, q, r
  <2>4. QED
    BY <1>2, <2>1, <2>2, <2>3
<1>4. Cat(w, Cat(q, x)) = Cat(v, Cat(r, y))
  <2>1. Cat(p, Cat(w, Cat(q, x))) = Cat(Cat(p, Cat(w, q)), x)
    BY Regroup
  <2>2. Cat(p, Cat(v, Cat(r, y))) = Cat(Cat(p, Cat(v, r)), y)
    BY Regroup
  <2>3. Cat(p, Cat(w, Cat(q, x))) = Cat(p, Cat(v, Cat(r, y)))
    BY <1>3, <2>1, <2>2
  <2>4. Cat(w, Cat(q, x)) \in Text(A) /\ Cat(v, Cat(r, y)) \in Text(A)
    BY TextConcat
  <2>5. QED
    BY <2>3, <2>4, TextCancel
<1>5. QED
  BY <1>2, <1>3, <1>4, TextConcat DEF LeftDecodable

(* From one text no two sequences of words can be read, if the one is not  *)
(* longer than the other.                                                  *)
LEMMA DecodeShorter ==
    ASSUME NEW A, NEW W \in SUBSET Text(A), NEW X \in SUBSET Text(A),
           LeftDecodable(W, X), Behind(X, W),
           NEW s \in Seq(W), NEW t \in Seq(W), NEW x \in X, NEW y \in X,
           Stops(x, W, A), Stops(y, W, A),
           Cat(FlattenSeq(s), x) = Cat(FlattenSeq(t), y),
           Len(s) <= Len(t)
    PROVE  s = t /\ x = y
<1>1. s \in Seq(Text(A)) /\ t \in Seq(Text(A)) /\ FlattenSeq(s) \in Text(A) /\ FlattenSeq(t) \in Text(A)
  BY WordsAreTexts
<1>2. \A i \in 1..Len(s) : s[i] = t[i]
  <2> DEFINE T == {i \in 1..Len(s) : s[i] # t[i]}
  <2>1. T \in SUBSET Nat
    OBVIOUS
  <2>2. SUFFICES ASSUME T # {} PROVE FALSE
    OBVIOUS
  <2>3. PICK i \in T : \A j \in T : i <= j
    <3> HIDE DEF T
    <3>1. QED
      BY <2>1, <2>2, LeastElement
  <2>4. i \in 1..Len(s) /\ i \in 1..Len(t) /\ s[i] # t[i] /\ \A j \in 1..(i-1) : s[j] = t[j]
    BY <2>3
  <2> HIDE DEF T
  <2>5. SubSeq(s, 1, i - 1) = SubSeq(t, 1, i - 1)
    BY <2>4
  <2>6. QED
    BY <2>4, <2>5, DecodeCommon
<1>3. CASE Len(s) = Len(t)
  <2>1. s = t
    BY <1>2, <1>3, SeqEqual
  <2>2. x = y
    BY <1>1, <2>1, TextCancel
  <2>3. QED
    BY <2>1, <2>2
<1>4. CASE Len(s) < Len(t)
  <2> DEFINE i == Len(s) + 1
             r == FlattenSeq(SubSeq(t, i + 1, Len(t)))
  <2>1. i \in 1..Len(t) /\ Len(s) \in Nat
    BY <1>4
  <2>2. SubSeq(t, 1, i - 1) = s
    BY <1>2, <2>1
  <2>3. t[i] \in W /\ t[i] \in Text(A)
    BY <2>1
  <2> HIDE DEF i
  <2>4. r \in Text(A) /\ FlattenSeq(t) = Cat(FlattenSeq(s), Cat(t[i], r))
    BY <1>1, <2>1, <2>2, FlattenAt, FlattenType
  <2> HIDE DEF r
  <2>5. x = Cat(t[i], Cat(r, y))
    BY <1>1, <2>3, <2>4, AfterAll
  <2>6. QED
    BY <2>3, <2>4, <2>5, TextConcat DEF Stops
<1>5. QED
  BY <1>3, <1>4

(* A text that is made of words is made of these in one way only.           *)
LEMMA Decode ==
    ASSUME NEW A, NEW W \in SUBSET Text(A), NEW X \in SUBSET Text(A),
           LeftDecodable(W, X), Behind(X, W),
           NEW s \in Seq(W), NEW t \in Seq(W), NEW x \in X, NEW y \in X,
           Stops(x, W, A), Stops(y, W, A),
           Cat(FlattenSeq(s), x) = Cat(FlattenSeq(t), y)
    PROVE  s = t /\ x = y
<1>1. CASE Len(s) <= Len(t)
  BY <1>1, DecodeShorter
<1>2. CASE Len(t) <= Len(s)
  BY <1>2, DecodeShorter
<1>3. Len(s) <= Len(t) \/ Len(t) <= Len(s)
  OBVIOUS
<1>4. QED
  BY <1>1, <1>2, <1>3

-----------------------------------------------------------------------------
(* x is over, or goes on with something that is not in B. *)
Outside(x, B) == x = <<>> \/ x[1] \notin B

(* A name ends where the first byte is that is no byte of names.           *)
LEMMA PlainShorter ==
    ASSUME NEW A, NEW B \in SUBSET A, NEW k \in Text(B), NEW l \in Text(B),
           NEW x \in Text(A), NEW y \in Text(A), Outside(x, B),
           Cat(k, x) = Cat(l, y)
    PROVE  Len(k) >= Len(l)
<1> SUFFICES ASSUME Len(k) < Len(l) PROVE FALSE
  BY DEF Text
<1>1. k \in Seq(A) /\ l \in Seq(A) /\ x \in Seq(A) /\ y \in Seq(A) /\ k \o x = l \o y
  BY SeqMonotonic DEF Text, Cat
<1>2. Len(k) \in Nat /\ Len(l) \in Nat /\ Len(x) \in Nat /\ Len(y) \in Nat
  BY <1>1
<1>3. Len(k \o x) = Len(k) + Len(x) /\ Len(l \o y) = Len(l) + Len(y)
  BY <1>1
<1>4. Len(x) > 0 /\ x # <<>>
  BY <1>1, <1>2, <1>3
<1>5. (k \o x)[Len(k) + 1] = x[1]
  BY <1>1, <1>2, <1>4
<1>6. (l \o y)[Len(k) + 1] = l[Len(k) + 1] /\ l[Len(k) + 1] \in B
  BY <1>1, <1>2 DEF Text
<1> QED
  BY <1>1, <1>4, <1>5, <1>6 DEF Outside

LEMMA PlainUntil ==
    ASSUME NEW A, NEW B \in SUBSET A, NEW k \in Text(B), NEW l \in Text(B),
           NEW x \in Text(A), NEW y \in Text(A), Outside(x, B), Outside(y, B),
           Cat(k, x) = Cat(l, y)
    PROVE  k = l /\ x = y
<1>1. k \in Seq(A) /\ l \in Seq(A) /\ x \in Seq(A) /\ y \in Seq(A) /\ k \o x = l \o y
  BY SeqMonotonic DEF Text, Cat
<1>2. Len(k) >= Len(l) /\ Len(l) >= Len(k)
  BY PlainShorter
<1>3. Len(k) = Len(l)
  BY <1>1, <1>2
<1>4. ASSUME NEW i \in 1..Len(k) PROVE k[i] = l[i]
  <2>1. (k \o x)[i] = k[i] /\ (l \o y)[i] = l[i]
    BY <1>1, <1>3
  <2> QED BY <1>1, <2>1
<1>5. k = l
  BY <1>1, <1>3, <1>4, SeqEqual
<1> QED
  BY <1>1, <1>5, TextCancel DEF Text, Cat

-----------------------------------------------------------------------------
(* The bytes that Escape keeps apart: a byte under 16 has one digit only.  *)
Apart == 16..255

(* An escaped byte is itself, itself behind a backslash, or a percent and  *)
(* two digits.                                                             *)
LEMMA EscapeByteShape ==
    ASSUME NEW b \in Apart
    PROVE  /\ EscapeByte(b) \in Seq(Nat)
           /\ \/ /\ Len(EscapeByte(b)) = 1 /\ EscapeByte(b)[1] = b
                 /\ b \notin {Percent, Backslash, Dot, Quote}
              \/ Len(EscapeByte(b)) = 2 /\ EscapeByte(b)[1] = Backslash /\ EscapeByte(b)[2] = b
              \/ /\ Len(EscapeByte(b)) = 3 /\ EscapeByte(b)[1] = Percent
                 /\ EscapeByte(b)[2] = HexDigit(b \div 16)
                 /\ EscapeByte(b)[3] = HexDigit(b % 16)
<1>1. b \in Nat /\ ~(b < 16) /\ b \div 16 \in Nat /\ b % 16 \in Nat
  BY DEF Apart
<1>2. HexDigit(b \div 16) \in Nat /\ HexDigit(b % 16) \in Nat
  BY <1>1 DEF HexDigit
<1>3. \/ EscapeByte(b) = <<b>> /\ b \notin {Percent, Backslash, Dot, Quote}
      \/ EscapeByte(b) = <<Backslash, b>>
      \/ EscapeByte(b) = Encoded(b)
  BY DEF EscapeByte, Symbols, Percent, Backslash, Dot, Quote, Equals, Printables
<1>4. Encoded(b) = <<Percent, HexDigit(b \div 16), HexDigit(b % 16)>>
  BY <1>1 DEF Encoded
<1>5. Percent \in Nat /\ Backslash \in Nat
  BY DEF Percent, Backslash
<1>6. CASE EscapeByte(b) = <<b>> /\ b \notin {Percent, Backslash, Dot, Quote}
  BY <1>1, <1>6
<1>7. CASE EscapeByte(b) = <<Backslash, b>>
  BY <1>1, <1>5, <1>7
<1>8. CASE EscapeByte(b) = Encoded(b)
  <2>1. PICK d \in Nat, e \in Nat : d = HexDigit(b \div 16) /\ e = HexDigit(b % 16)
    BY <1>2
  <2>2. EscapeByte(b) = <<Percent, d, e>>
    BY <1>4, <1>8, <2>1
  <2> QED BY <1>5, <2>1, <2>2
<1> QED
  BY <1>3, <1>6, <1>7, <1>8

(* Two digits tell their byte.                                             *)
LEMMA HexDigitsTell ==
    ASSUME NEW b \in Apart, NEW c \in Apart,
           HexDigit(b \div 16) = HexDigit(c \div 16), HexDigit(b % 16) = HexDigit(c % 16)
    PROVE  b = c
<1>1. \A d \in Apart : d \div 16 \in 0..15 /\ d % 16 \in 0..15 /\ d = 16 * (d \div 16) + (d % 16)
  BY DEF Apart
<1>2. \A d, e \in 0..15 : HexDigit(d) = HexDigit(e) => d = e
  BY DEF HexDigit
<1>3. b \div 16 = c \div 16 /\ b % 16 = c % 16
  BY <1>1, <1>2
<1> QED BY <1>1, <1>3

(* The escaped bytes, of which no one begins another.                      *)
EscapeWords == {EscapeByte(b) : b \in Apart}

LEMMA EscapeByteTells ==
    ASSUME NEW b \in Apart, NEW c \in Apart, NEW x \in Text(Nat), NEW y \in Text(Nat),
           Cat(EscapeByte(b), x) = Cat(EscapeByte(c), y)
    PROVE  b = c
<1>1. PICK v \in Seq(Nat), w \in Seq(Nat) : v = EscapeByte(b) /\ w = EscapeByte(c)
  BY EscapeByteShape
<1>2. v \o x = w \o y /\ x \in Seq(Nat) /\ y \in Seq(Nat)
  BY <1>1 DEF Text, Cat
<1>3. \A i \in 1..Len(v) : (v \o x)[i] = v[i]
  BY <1>2
<1>4. \A i \in 1..Len(w) : (v \o x)[i] = w[i]
  BY <1>2
<1>5. \/ Len(v) = 1 /\ v[1] = b /\ b \notin {Percent, Backslash}
      \/ Len(v) = 2 /\ v[1] = Backslash /\ v[2] = b
      \/ Len(v) = 3 /\ v[1] = Percent /\ v[2] = HexDigit(b \div 16) /\ v[3] = HexDigit(b % 16)
  BY <1>1, EscapeByteShape
<1>6. \/ Len(w) = 1 /\ w[1] = c /\ c \notin {Percent, Backslash}
      \/ Len(w) = 2 /\ w[1] = Backslash /\ w[2] = c
      \/ Len(w) = 3 /\ w[1] = Percent /\ w[2] = HexDigit(c \div 16) /\ w[3] = HexDigit(c % 16)
  BY <1>1, EscapeByteShape
<1>7. Percent # Backslash
  BY DEF Percent, Backslash
<1>8. \/ b = c
      \/ HexDigit(b \div 16) = HexDigit(c \div 16) /\ HexDigit(b % 16) = HexDigit(c % 16)
  <2>a. 1 \in 1..Len(v) /\ 1 \in 1..Len(w)
    BY <1>5, <1>6, SMTT(20)
  <2>1. v[1] = w[1]
    BY <1>3, <1>4, <2>a
  <2>2. Len(v) = Len(w)
    BY <2>1, <1>5, <1>6, <1>7
  <2>3. \A i \in 1..Len(v) : v[i] = w[i]
    BY <1>3, <1>4, <2>2
  <2> QED BY <2>2, <2>3, <1>5, <1>6, SMTT(20)
<1> QED BY <1>8, HexDigitsTell

(* Escaped texts, whatever follows them, tell what they were.               *)
LEMMA EscapeTells ==
    ASSUME NEW v \in Seq(Apart), NEW w \in Seq(Apart), NEW x \in Text(Nat), NEW y \in Text(Nat),
           Stops(x, EscapeWords, Nat), Stops(y, EscapeWords, Nat),
           Cat(Escape(v), x) = Cat(Escape(w), y)
    PROVE  v = w /\ x = y
<1> DEFINE s == [i \in DOMAIN v |-> EscapeByte(v[i])]
           t == [i \in DOMAIN w |-> EscapeByte(w[i])]
<1>1. EscapeWords \in SUBSET Text(Nat)
  BY EscapeByteShape DEF EscapeWords, Text
<1>2. LeftDecodable(EscapeWords, Text(Nat)) /\ Behind(Text(Nat), EscapeWords)
  <2>1. LeftDecodable(EscapeWords, Text(Nat))
    BY EscapeByteTells DEF LeftDecodable, EscapeWords
  <2>2. Behind(Text(Nat), EscapeWords)
    BY <1>1, TextConcat DEF Behind
  <2> QED BY <2>1, <2>2
<1>3. s \in Seq(EscapeWords) /\ Len(s) = Len(v)
  <2>1. \A i \in 1..Len(v) : EscapeByte(v[i]) \in EscapeWords
    BY DEF EscapeWords
  <2> QED BY <2>1
<1>4. t \in Seq(EscapeWords) /\ Len(t) = Len(w)
  <2>1. \A i \in 1..Len(w) : EscapeByte(w[i]) \in EscapeWords
    BY DEF EscapeWords
  <2> QED BY <2>1
<1>5. Escape(v) = FlattenSeq(s) /\ Escape(w) = FlattenSeq(t)
  BY DEF Escape
<1>6. Text(Nat) \in SUBSET Text(Nat)
  OBVIOUS
<1>7. s = t /\ x = y
  <2> HIDE DEF s, t
  <2> QED BY <1>1, <1>2, <1>3, <1>4, <1>5, <1>6, Decode
<1>8. Len(v) = Len(w)
  BY <1>3, <1>4, <1>7
<1>9. ASSUME NEW i \in 1..Len(v) PROVE v[i] = w[i]
  <2>1. EscapeByte(v[i]) = EscapeByte(w[i]) /\ v[i] \in Apart /\ w[i] \in Apart
    <3>1. s[i] = EscapeByte(v[i]) /\ t[i] = EscapeByte(w[i])
      BY <1>8
    <3> QED BY <1>7, <1>8, <3>1
  <2>2. <<>> \in Text(Nat)
    BY TextEmpty
  <2> QED BY <2>1, <2>2, EscapeByteTells
<1>10. v = w
  BY <1>8, <1>9, SeqEqual
<1> QED BY <1>7, <1>10

(* A sequence is made of its elements.                                     *)
LEMMA FlattenSingles ==
    ASSUME NEW A, NEW v \in Seq(A)
    PROVE  FlattenSeq([i \in DOMAIN v |-> <<v[i]>>]) = v
<1> DEFINE Singles(u) == [i \in DOMAIN u |-> <<u[i]>>]
           P == {n \in Nat : \A u \in Seq(A) : Len(u) = n => FlattenSeq(Singles(u)) = u}
<1>1. 0 \in P
  <2>1. ASSUME NEW u \in Seq(A), Len(u) = 0 PROVE FlattenSeq(Singles(u)) = u
    <3>1. u = <<>>
      BY <2>1
    <3>2. Singles(u) = <<>>
      BY <3>1
    <3> QED BY <3>1, <3>2, FlattenEmpty
  <2> QED BY <2>1
<1> HIDE DEF P
<1>2. ASSUME NEW n \in P PROVE n + 1 \in P
  <2>1. n \in Nat /\ \A u \in Seq(A) : Len(u) = n => FlattenSeq(Singles(u)) = u
    BY DEF P
  <2>2. ASSUME NEW u \in Seq(A), Len(u) = n + 1 PROVE FlattenSeq(Singles(u)) = u
    <3>1. u # <<>>
      BY <2>1, <2>2
    <3>2. PICK t \in Seq(A), c \in A : u = Append(t, c)
      BY <3>1, SequenceEmptyOrAppend
    <3>3. Len(t) = n
      BY <2>1, <2>2, <3>2
    <3>4. FlattenSeq(Singles(t)) = t
      BY <2>1, <3>3
    <3>5. Singles(t) \in Seq(Text(A)) /\ <<c>> \in Text(A)
      <4>1. \A d \in A : <<d>> \in Text(A)
        BY DEF Text
      <4>2. \A i \in 1..Len(t) : <<t[i]>> \in Text(A)
        BY <4>1
      <4> QED BY <4>1, <4>2
    <3>6. Singles(u) = Append(Singles(t), <<c>>)
      BY <3>2
    <3> HIDE DEF Singles
    <3>7. FlattenSeq(Singles(u)) = Cat(t, <<c>>)
      BY <3>4, <3>5, <3>6, FlattenAppend
    <3>8. t \o <<c>> = Append(t, c)
      OBVIOUS
    <3> QED BY <3>2, <3>7, <3>8 DEF Cat
  <2> QED BY <2>1, <2>2 DEF P
<1>3. P \in SUBSET Nat
  BY DEF P
<1>4. P = Nat
  BY <1>1, <1>2, <1>3, Induction
<1>5. Len(v) \in P
  BY <1>4
<1> QED BY <1>5 DEF P

(* The bytes that EscapeTagged leaves alone.                               *)
Untagged == Printables \ Underlined

(* The name of a metric is not changed by Escape.                          *)
LEMMA NamesAsTheyAre ==
    ASSUME NEW v \in Seq(MetricBytes)
    PROVE  Escape(v) = v
<1>1. ASSUME NEW b \in MetricBytes PROVE EscapeByte(b) = <<b>>
  <2>1. b \in Printables \ (Symbols \cup {Percent, 47})
    BY DEF MetricBytes, NameBytes, Printables, Symbols, Underline, Dot, Percent, Equals,
           Quote, Comma, Backslash
  <2>2. b \notin {Dot, Percent, 47, Equals} /\ b \notin Symbols \ {Dot, Equals}
    BY <2>1 DEF Symbols
  <2> QED BY <2>1, <2>2, Zenon DEF EscapeByte
<1>2. \A i \in DOMAIN v : v[i] \in MetricBytes
  OBVIOUS
<1>3. [i \in DOMAIN v |-> EscapeByte(v[i])] = [i \in DOMAIN v |-> <<v[i]>>]
  BY <1>1, <1>2
<1> QED BY <1>3, FlattenSingles DEF Escape

(* Nor are these bytes by EscapeTagged.                                    *)
LEMMA TagsAsTheyAre ==
    ASSUME NEW v \in Seq(Untagged)
    PROVE  EscapeTagged(v) = v
<1>1. ASSUME NEW b \in Untagged PROVE EscapeTaggedByte(b) = <<b>>
  BY DEF Untagged, EscapeTaggedByte
<1>2. \A i \in DOMAIN v : v[i] \in Untagged
  OBVIOUS
<1>3. [i \in DOMAIN v |-> EscapeTaggedByte(v[i])] = [i \in DOMAIN v |-> <<v[i]>>]
  BY <1>1, <1>2
<1> QED BY <1>3, FlattenSingles DEF EscapeTagged

-----------------------------------------------------------------------------
(* What a text begins with.                                                *)
LEMMA HeadOf ==
    ASSUME NEW A, NEW p \in Text(A), NEW z \in Text(A), p # <<>>
    PROVE  Cat(p, z) # <<>> /\ Cat(p, z)[1] = p[1] /\ p[1] \in A
<1>1. p \in Seq(A) /\ z \in Seq(A) /\ Len(p) \in Nat /\ Len(p) # 0
  BY DEF Text
<1>2. Len(p \o z) = Len(p) + Len(z) /\ (p \o z)[1] = p[1] /\ p[1] \in A
  BY <1>1
<1> QED BY <1>1, <1>2 DEF Cat

(* No escaped byte begins with a dot or a quote: there a value ends.       *)
LEMMA StopsAt ==
    ASSUME NEW x \in Text(Nat), x = <<>> \/ x[1] \in {Dot, Quote}
    PROVE  Stops(x, EscapeWords, Nat)
<1>1. SUFFICES ASSUME NEW b \in Apart, NEW u \in Text(Nat), x = Cat(EscapeByte(b), u) PROVE FALSE
  BY DEF Stops, EscapeWords
<1>2. EscapeByte(b) \in Text(Nat) /\ EscapeByte(b) # <<>> /\ EscapeByte(b)[1] \notin {Dot, Quote}
  <2>1. /\ EscapeByte(b) \in Seq(Nat)
        /\ \/ Len(EscapeByte(b)) = 1 /\ EscapeByte(b)[1] \notin {Dot, Quote}
           \/ Len(EscapeByte(b)) = 2 /\ EscapeByte(b)[1] = Backslash
           \/ Len(EscapeByte(b)) = 3 /\ EscapeByte(b)[1] = Percent
    BY EscapeByteShape
  <2>2. {Backslash, Percent} \cap {Dot, Quote} = {}
    BY DEF Dot, Quote, Backslash, Percent
  <2>3. EscapeByte(b) # <<>>
    BY <2>1
  <2> QED BY <2>1, <2>2, <2>3 DEF Text
<1> QED BY <1>1, <1>2, HeadOf

LEMMA RegroupFour ==
    ASSUME NEW A, NEW p \in Text(A), NEW q \in Text(A), NEW r \in Text(A), NEW t \in Text(A),
           NEW x \in Text(A)
    PROVE  /\ Cat(Cat(Cat(Cat(p, q), r), t), x) = Cat(p, Cat(q, Cat(r, Cat(t, x))))
           /\ Cat(t, x) \in Text(A) /\ Cat(r, Cat(t, x)) \in Text(A)
           /\ Cat(q, Cat(r, Cat(t, x))) \in Text(A)
           /\ Cat(Cat(Cat(p, q), r), t) \in Text(A)
<1>1. PICK pq \in Text(A), tx \in Text(A) : pq = Cat(p, q) /\ tx = Cat(t, x)
  BY TextConcat
<1>2. PICK pqr \in Text(A), rtx \in Text(A) : pqr = Cat(pq, r) /\ rtx = Cat(r, tx)
  BY TextConcat
<1>3. Cat(Cat(pqr, t), x) = Cat(pqr, tx) /\ Cat(pqr, t) \in Text(A) /\ Cat(q, rtx) \in Text(A)
  BY <1>1, TextConcat, TextAssociative
<1>4. Cat(pqr, tx) = Cat(pq, rtx)
  BY <1>2, TextAssociative
<1>5. Cat(pq, rtx) = Cat(p, Cat(q, rtx))
  BY <1>1, TextAssociative
<1> QED BY <1>1, <1>2, <1>3, <1>4, <1>5

(* A name up to its separator. *)
LEMMA NameTells ==
    ASSUME NEW B \in SUBSET Nat, NEW k \in Text(B), NEW l \in Text(B),
           NEW sep \in Text(Nat), sep # <<>>, sep[1] \notin B,
           NEW x \in Text(Nat), NEW y \in Text(Nat),
           Cat(k, Cat(sep, x)) = Cat(l, Cat(sep, y))
    PROVE  k = l /\ x = y
<1>1. PICK s \in Text(Nat), t \in Text(Nat) : s = Cat(sep, x) /\ t = Cat(sep, y)
  BY TextConcat
<1>2. Outside(s, B) /\ Outside(t, B)
  BY <1>1, HeadOf DEF Outside
<1>3. k = l /\ s = t
  <2>1. Cat(k, s) = Cat(l, t) /\ B \in SUBSET Nat
    BY <1>1
  <2> QED BY <1>2, <2>1, PlainUntil, ZenonT(30)
<1>4. x = y
  BY <1>1, <1>3, TextCancel
<1> QED BY <1>3, <1>4

(* The values that a format keeps apart, and what may follow a label. *)
Values(format) == IF format = "tags" THEN Seq(Untagged) ELSE Seq(Apart)
(* What may follow a label in the formats.                                 *)
StartsWith(x, c) == x = <<>> \/ x[1] = c
Tails(format) ==
    CASE format = "openmetrics" -> Text(Nat)
      [] format = "tags" -> {x \in Text(Nat) : StartsWith(x, Semicolon)}
      [] OTHER -> {x \in Text(Nat) : StartsWith(x, Dot)}

(* The marks between names and values, and the alphabets.                  *)
LEMMA Marks ==
    /\ <<Dot>> \in Text(Nat) /\ <<Semicolon>> \in Text(Nat) /\ <<Equals>> \in Text(Nat)
    /\ <<Comma>> \in Text(Nat) /\ <<Quote>> \in Text(Nat) /\ <<Equals, Quote>> \in Text(Nat)
    /\ <<>> \in Text(Nat)
  BY TextEmpty DEF Text, Dot, Semicolon, Equals, Comma, Quote

LEMMA Alphabets ==
    /\ NameBytes \in SUBSET Nat /\ Untagged \in SUBSET Nat /\ Apart \in SUBSET Nat
    /\ MetricBytes \in SUBSET Nat /\ NameBytes \in SUBSET MetricBytes
    /\ {Dot, Semicolon, Equals, Comma, 123} \cap MetricBytes = {}
    /\ {Dot, Semicolon, Equals, Comma, 123} \cap NameBytes = {}
    /\ Semicolon \notin Untagged
  BY DEF NameBytes, MetricBytes, Untagged, Printables, Underlined, Apart, Underline, Dot, Semicolon,
         Equals, Comma

(* Escaped values and names are texts.                                     *)
LEMMA EscapeType ==
    ASSUME NEW v \in Seq(Apart)
    PROVE  Escape(v) \in Text(Nat)
<1>1. \A b \in Apart : EscapeByte(b) \in Text(Nat)
  BY EscapeByteShape DEF Text
<1>2. \A i \in 1..Len(v) : EscapeByte(v[i]) \in Text(Nat)
  BY <1>1
<1>3. [i \in DOMAIN v |-> EscapeByte(v[i])] \in Seq(Text(Nat))
  BY <1>2
<1> QED BY <1>3, FlattenType DEF Escape

LEMMA NamesAreTexts ==
    ASSUME NEW B \in SUBSET Nat, NEW k \in Seq(B)
    PROVE  k \in Text(B) /\ k \in Text(Nat)
  BY SeqMonotonic DEF Text

(* The text of a label in the three formats, without the comma. *)
PathLabel(k, v)   == <<Dot>> \o k \o <<Dot>> \o Escape(v)
TagLabel(k, v)    == <<Semicolon>> \o k \o <<Equals>> \o EscapeTagged(v)
QuotedLabel(k, v) == k \o <<Equals, Quote>> \o Escape(v) \o <<Quote>>

(* LabelText by these.                                                     *)
LEMMA LabelTextIs ==
    \A k, v : \A first \in BOOLEAN :
        /\ LabelText(k, v, "openmetrics", first)
             = IF first THEN QuotedLabel(k, v) ELSE <<Comma>> \o QuotedLabel(k, v)
        /\ LabelText(k, v, "tags", first) = TagLabel(k, v)
        /\ LabelText(k, v, "path", first) = PathLabel(k, v)
  BY DEF LabelText, QuotedLabel, TagLabel, PathLabel

(* A label of a path tells its name and its value.                         *)
LEMMA PathLabelTells ==
    ASSUME NEW k \in Seq(NameBytes), NEW l \in Seq(NameBytes),
           NEW v \in Seq(Apart), NEW w \in Seq(Apart),
           NEW x \in Text(Nat), NEW y \in Text(Nat), StartsWith(x, Dot), StartsWith(y, Dot),
           Cat(PathLabel(k, v), x) = Cat(PathLabel(l, w), y)
    PROVE  k = l /\ v = w /\ x = y
<1>1. PICK d \in Text(Nat) : d = <<Dot>> /\ d # <<>> /\ d[1] = Dot
  BY Marks
<1>2. k \in Text(NameBytes) /\ l \in Text(NameBytes) /\ k \in Text(Nat) /\ l \in Text(Nat)
      /\ NameBytes \in SUBSET Nat /\ Dot \notin NameBytes
  BY NamesAreTexts, Alphabets
<1>3. PICK p \in Text(Nat), q \in Text(Nat) : p = Escape(v) /\ q = Escape(w)
  BY EscapeType
<1>4. /\ PathLabel(k, v) = Cat(Cat(Cat(d, k), d), p)
      /\ PathLabel(l, w) = Cat(Cat(Cat(d, l), d), q)
  BY <1>1, <1>3 DEF PathLabel, Cat
<1>5. Cat(d, Cat(k, Cat(d, Cat(p, x)))) = Cat(d, Cat(l, Cat(d, Cat(q, y))))
  <2>0. k \in Text(Nat) /\ l \in Text(Nat)
    BY <1>2
  <2>1. Cat(Cat(Cat(Cat(d, k), d), p), x) = Cat(Cat(Cat(Cat(d, l), d), q), y)
    BY <1>4
  <2>2. Cat(Cat(Cat(Cat(d, k), d), p), x) = Cat(d, Cat(k, Cat(d, Cat(p, x))))
    BY <2>0, RegroupFour
  <2>3. Cat(Cat(Cat(Cat(d, l), d), q), y) = Cat(d, Cat(l, Cat(d, Cat(q, y))))
    BY <2>0, RegroupFour
  <2> QED BY <2>1, <2>2, <2>3
<1>6. PICK px \in Text(Nat), qy \in Text(Nat) : px = Cat(p, x) /\ qy = Cat(q, y)
  BY TextConcat
<1>7. Cat(k, Cat(d, px)) = Cat(l, Cat(d, qy))
  <2>1. Cat(k, Cat(d, px)) \in Text(Nat) /\ Cat(l, Cat(d, qy)) \in Text(Nat)
    BY <1>2, TextConcat
  <2> QED BY <1>5, <1>6, <2>1, TextCancel
<1>8. k = l /\ px = qy
  BY <1>1, <1>2, <1>7, NameTells
<1>9. v = w /\ x = y
  <2>1. Stops(x, EscapeWords, Nat) /\ Stops(y, EscapeWords, Nat)
    BY StopsAt DEF StartsWith
  <2>2. Cat(Escape(v), x) = Cat(Escape(w), y)
    BY <1>3, <1>6, <1>8
  <2> QED BY <2>1, <2>2, EscapeTells, Zenon
<1> QED BY <1>8, <1>9

(* So does a tag.                                                          *)
LEMMA TagTells ==
    ASSUME NEW k \in Seq(NameBytes), NEW l \in Seq(NameBytes),
           NEW v \in Seq(Untagged), NEW w \in Seq(Untagged),
           NEW x \in Text(Nat), NEW y \in Text(Nat),
           StartsWith(x, Semicolon), StartsWith(y, Semicolon),
           Cat(TagLabel(k, v), x) = Cat(TagLabel(l, w), y)
    PROVE  k = l /\ v = w /\ x = y
<1>1. PICK d \in Text(Nat) : d = <<Semicolon>>
  BY Marks
<1>a. PICK e \in Text(Nat) : e = <<Equals>> /\ e # <<>> /\ e[1] = Equals
  BY Marks
<1>2. k \in Text(NameBytes) /\ l \in Text(NameBytes) /\ k \in Text(Nat) /\ l \in Text(Nat)
      /\ NameBytes \in SUBSET Nat /\ Equals \notin NameBytes
  BY NamesAreTexts, Alphabets
<1>3. /\ v \in Text(Untagged) /\ w \in Text(Untagged) /\ v \in Text(Nat) /\ w \in Text(Nat)
      /\ Untagged \in SUBSET Nat /\ v = EscapeTagged(v) /\ w = EscapeTagged(w)
  BY NamesAreTexts, Alphabets, TagsAsTheyAre
<1>4. /\ TagLabel(k, v) = Cat(Cat(Cat(d, k), e), v)
      /\ TagLabel(l, w) = Cat(Cat(Cat(d, l), e), w)
  BY <1>1, <1>a, <1>3 DEF TagLabel, Cat
<1>5. Cat(d, Cat(k, Cat(e, Cat(v, x)))) = Cat(d, Cat(l, Cat(e, Cat(w, y))))
  <2>0. k \in Text(Nat) /\ l \in Text(Nat) /\ v \in Text(Nat) /\ w \in Text(Nat)
    BY <1>2, <1>3
  <2>1. Cat(Cat(Cat(Cat(d, k), e), v), x) = Cat(Cat(Cat(Cat(d, l), e), w), y)
    BY <1>4
  <2>2. Cat(Cat(Cat(Cat(d, k), e), v), x) = Cat(d, Cat(k, Cat(e, Cat(v, x))))
    BY <2>0, RegroupFour
  <2>3. Cat(Cat(Cat(Cat(d, l), e), w), y) = Cat(d, Cat(l, Cat(e, Cat(w, y))))
    BY <2>0, RegroupFour
  <2> QED BY <2>1, <2>2, <2>3
<1>6. PICK vx \in Text(Nat), wy \in Text(Nat) : vx = Cat(v, x) /\ wy = Cat(w, y)
  BY <1>3, TextConcat
<1>7. Cat(k, Cat(e, vx)) = Cat(l, Cat(e, wy))
  <2>1. Cat(k, Cat(e, vx)) \in Text(Nat) /\ Cat(l, Cat(e, wy)) \in Text(Nat)
    BY <1>2, TextConcat
  <2> QED BY <1>5, <1>6, <2>1, TextCancel
<1>8. k = l /\ vx = wy
  <2>1. e # <<>> /\ e[1] \notin NameBytes
    BY <1>a, <1>2
  <2>2. k \in Text(NameBytes) /\ l \in Text(NameBytes) /\ NameBytes \in SUBSET Nat
    BY <1>2
  <2> QED BY <1>7, <2>1, <2>2, NameTells
<1>9. v = w /\ x = y
  <2>1. Outside(x, Untagged) /\ Outside(y, Untagged)
    BY Alphabets DEF StartsWith, Outside
  <2>2. Cat(v, x) = Cat(w, y)
    BY <1>6, <1>8
  <2> QED BY <1>3, <2>1, <2>2, PlainUntil, ZenonT(30)
<1> QED BY <1>8, <1>9

(* And a label in quotes, whatever follows it.                             *)
LEMMA QuotedTells ==
    ASSUME NEW k \in Seq(NameBytes), NEW l \in Seq(NameBytes),
           NEW v \in Seq(Apart), NEW w \in Seq(Apart),
           NEW x \in Text(Nat), NEW y \in Text(Nat),
           Cat(QuotedLabel(k, v), x) = Cat(QuotedLabel(l, w), y)
    PROVE  k = l /\ v = w /\ x = y
<1>1. PICK d \in Text(Nat) : d = <<Quote>> /\ d # <<>> /\ d[1] = Quote
  BY Marks
<1>a. PICK e \in Text(Nat) : e = <<Equals, Quote>> /\ e # <<>> /\ e[1] = Equals
  BY Marks
<1>2. k \in Text(NameBytes) /\ l \in Text(NameBytes) /\ k \in Text(Nat) /\ l \in Text(Nat)
      /\ NameBytes \in SUBSET Nat /\ Equals \notin NameBytes
  BY NamesAreTexts, Alphabets
<1>3. PICK p \in Text(Nat), q \in Text(Nat) : p = Escape(v) /\ q = Escape(w)
  BY EscapeType
<1>4. /\ QuotedLabel(k, v) = Cat(Cat(Cat(k, e), p), d)
      /\ QuotedLabel(l, w) = Cat(Cat(Cat(l, e), q), d)
  BY <1>1, <1>a, <1>3 DEF QuotedLabel, Cat
<1>5. Cat(k, Cat(e, Cat(p, Cat(d, x)))) = Cat(l, Cat(e, Cat(q, Cat(d, y))))
  <2>0. k \in Text(Nat) /\ l \in Text(Nat)
    BY <1>2
  <2>1. Cat(Cat(Cat(Cat(k, e), p), d), x) = Cat(Cat(Cat(Cat(l, e), q), d), y)
    BY <1>4
  <2>2. Cat(Cat(Cat(Cat(k, e), p), d), x) = Cat(k, Cat(e, Cat(p, Cat(d, x))))
    BY <2>0, RegroupFour
  <2>3. Cat(Cat(Cat(Cat(l, e), q), d), y) = Cat(l, Cat(e, Cat(q, Cat(d, y))))
    BY <2>0, RegroupFour
  <2> QED BY <2>1, <2>2, <2>3
<1>6. PICK dx \in Text(Nat), dy \in Text(Nat) : dx = Cat(d, x) /\ dy = Cat(d, y)
  BY TextConcat
<1>7. PICK px \in Text(Nat), qy \in Text(Nat) : px = Cat(p, dx) /\ qy = Cat(q, dy)
  BY TextConcat
<1>8. k = l /\ px = qy
  <2>1. Cat(k, Cat(e, px)) = Cat(l, Cat(e, qy))
    BY <1>5, <1>6, <1>7
  <2>2. e # <<>> /\ e[1] \notin NameBytes
    BY <1>a, <1>2
  <2>3. k \in Text(NameBytes) /\ l \in Text(NameBytes) /\ NameBytes \in SUBSET Nat
    BY <1>2
  <2> QED BY <2>1, <2>2, <2>3, NameTells
<1>9. v = w /\ dx = dy
  <2>1. Stops(dx, EscapeWords, Nat) /\ Stops(dy, EscapeWords, Nat)
    <3>1. dx[1] = Quote /\ dy[1] = Quote
      BY <1>1, <1>6, HeadOf
    <3> QED BY <3>1, StopsAt
  <2>2. Cat(Escape(v), dx) = Cat(Escape(w), dy)
    BY <1>3, <1>7, <1>8
  <2> QED BY <2>1, <2>2, EscapeTells
<1>10. x = y
  BY <1>6, <1>9, TextCancel
<1> QED BY <1>8, <1>9, <1>10

-----------------------------------------------------------------------------
(* In the openmetrics format a comma tells the first label from the        *)
(* others.                                                                 *)
Braced == {Comma, 123, 125}

LEMMA QuotedType ==
    ASSUME NEW k \in Seq(NameBytes), NEW v \in Seq(Apart)
    PROVE  /\ QuotedLabel(k, v) \in Text(Nat) /\ QuotedLabel(k, v) # <<>>
           /\ QuotedLabel(k, v)[1] \notin Braced
<1>1. PICK d \in Text(Nat), e \in Text(Nat), p \in Text(Nat) :
         d = <<Quote>> /\ e = <<Equals, Quote>> /\ p = Escape(v)
  BY Marks, EscapeType
<1>2. k \in Text(NameBytes) /\ k \in Text(Nat)
  BY NamesAreTexts, Alphabets
<1>3. QuotedLabel(k, v) = Cat(Cat(Cat(k, e), p), d)
  BY <1>1 DEF QuotedLabel, Cat
<1>4. PICK ke \in Text(Nat) : ke = Cat(k, e)
  BY <1>2, TextConcat
<1>5. PICK pd \in Text(Nat) : pd = Cat(p, d)
  BY TextConcat
<1>6. QuotedLabel(k, v) = Cat(ke, pd)
  BY <1>3, <1>4, <1>5, TextAssociative
<1>7. ke # <<>> /\ ke[1] \notin Braced
  <2>1. e # <<>> /\ e[1] = Equals
    BY <1>1
  <2>2. Equals \notin Braced /\ NameBytes \cap Braced = {}
    BY DEF Equals, Braced, NameBytes, Comma, Underline
  <2>3. CASE k = <<>>
    BY <1>4, <2>1, <2>2, <2>3, TextEmpty
  <2>4. CASE k # <<>>
    <3>1. ke # <<>> /\ ke[1] = k[1]
      BY <1>2, <1>4, <2>4, HeadOf
    <3>2. k[1] \in NameBytes
      BY <1>2, <2>4 DEF Text
    <3> QED BY <2>2, <3>1, <3>2
  <2> QED BY <2>3, <2>4
<1>8. /\ Cat(ke, pd) \in Text(Nat) /\ Cat(ke, pd) # <<>>
      /\ Cat(ke, pd)[1] = ke[1]
  BY <1>7, HeadOf, TextConcat
<1> QED BY <1>6, <1>7, <1>8

(* The label of this format, first or not, tells its name and its value.   *)
LEMMA ListedTells ==
    ASSUME NEW k \in Seq(NameBytes), NEW l \in Seq(NameBytes),
           NEW v \in Seq(Apart), NEW w \in Seq(Apart),
           NEW x \in Text(Nat), NEW y \in Text(Nat), NEW f \in BOOLEAN, NEW g \in BOOLEAN,
           Cat(LabelText(k, v, "openmetrics", f), x) = Cat(LabelText(l, w, "openmetrics", g), y)
    PROVE  f = g /\ k = l /\ v = w /\ x = y
<1>1. PICK p \in Text(Nat), q \in Text(Nat) :
         /\ p = QuotedLabel(k, v) /\ q = QuotedLabel(l, w)
         /\ p # <<>> /\ q # <<>> /\ p[1] # Comma /\ q[1] # Comma
  BY QuotedType DEF Braced
<1>2. PICK c \in Text(Nat) : c = <<Comma>> /\ c # <<>> /\ c[1] = Comma
  BY Marks
<1>3. /\ LabelText(k, v, "openmetrics", f) = IF f THEN p ELSE Cat(c, p)
      /\ LabelText(l, w, "openmetrics", g) = IF g THEN q ELSE Cat(c, q)
  BY <1>1, <1>2, LabelTextIs DEF Cat
<1>4. PICK px \in Text(Nat), qy \in Text(Nat) : px = Cat(p, x) /\ qy = Cat(q, y)
  BY TextConcat
<1>5. Cat(Cat(c, p), x) = Cat(c, px) /\ Cat(Cat(c, q), y) = Cat(c, qy)
  BY <1>4, TextAssociative
<1>6. (IF f THEN px ELSE Cat(c, px)) = (IF g THEN qy ELSE Cat(c, qy))
  BY <1>3, <1>4, <1>5
<1>7. px[1] # Comma /\ qy[1] # Comma /\ Cat(c, px)[1] = Comma /\ Cat(c, qy)[1] = Comma
  BY <1>1, <1>2, <1>4, HeadOf
<1>8. f = g /\ px = qy
  <2>1. f <=> g
    BY <1>6, <1>7
  <2>2. px = qy
    BY <1>6, <2>1, TextCancel
  <2> QED BY <2>1, <2>2
<1>9. Cat(QuotedLabel(k, v), x) = Cat(QuotedLabel(l, w), y)
  BY <1>1, <1>4, <1>8
<1>10. k = l /\ v = w /\ x = y
  BY <1>9, QuotedTells
<1> QED BY <1>8, <1>10

(* All formats at once.                                                    *)
Formats == {"path", "tags", "openmetrics"}

LEMMA TailsAre ==
    /\ Tails("openmetrics") = Text(Nat)
    /\ Tails("tags") = {x \in Text(Nat) : StartsWith(x, Semicolon)}
    /\ Tails("path") = {x \in Text(Nat) : StartsWith(x, Dot)}
    /\ Values("openmetrics") = Seq(Apart) /\ Values("path") = Seq(Apart)
    /\ Values("tags") = Seq(Untagged)
  BY DEF Tails, Values

(* The text of a label tells its name and its value in every format.       *)
LEMMA LabelTells ==
    ASSUME NEW format \in Formats,
           NEW k \in Seq(NameBytes), NEW l \in Seq(NameBytes),
           NEW v \in Values(format), NEW w \in Values(format),
           NEW x \in Tails(format), NEW y \in Tails(format), NEW f \in BOOLEAN, NEW g \in BOOLEAN,
           Cat(LabelText(k, v, format, f), x) = Cat(LabelText(l, w, format, g), y)
    PROVE  /\ k = l /\ v = w
           /\ LabelText(k, v, format, f) = LabelText(l, w, format, g)
<1>1. CASE format = "path"
  <2>1. /\ x \in Text(Nat) /\ y \in Text(Nat) /\ StartsWith(x, Dot) /\ StartsWith(y, Dot)
        /\ v \in Seq(Apart) /\ w \in Seq(Apart)
    BY <1>1, TailsAre
  <2>2. Cat(PathLabel(k, v), x) = Cat(PathLabel(l, w), y)
    BY <1>1, LabelTextIs
  <2>3. k = l /\ v = w
    BY <2>1, <2>2, PathLabelTells
  <2> QED BY <1>1, <2>3, LabelTextIs
<1>2. CASE format = "tags"
  <2>1. /\ x \in Text(Nat) /\ y \in Text(Nat) /\ StartsWith(x, Semicolon) /\ StartsWith(y, Semicolon)
        /\ v \in Seq(Untagged) /\ w \in Seq(Untagged)
    BY <1>2, TailsAre
  <2>2. Cat(TagLabel(k, v), x) = Cat(TagLabel(l, w), y)
    BY <1>2, LabelTextIs
  <2>3. k = l /\ v = w
    BY <2>1, <2>2, TagTells
  <2> QED BY <1>2, <2>3, LabelTextIs
<1>3. CASE format = "openmetrics"
  <2>1. x \in Text(Nat) /\ y \in Text(Nat) /\ v \in Seq(Apart) /\ w \in Seq(Apart)
    BY <1>3, TailsAre
  <2>2. f = g /\ k = l /\ v = w
    BY <1>3, <2>1, ListedTells
  <2> QED BY <2>2
<1> QED BY <1>1, <1>2, <1>3 DEF Formats

-----------------------------------------------------------------------------
(* The texts of labels, as words of a format.                              *)
LabelWords(format) ==
    {LabelText(k, v, format, first) : k \in Seq(NameBytes), v \in Values(format), first \in BOOLEAN}

(* A label's text, and the byte that it begins with. *)
LEMMA LabelType ==
    ASSUME NEW format \in Formats, NEW k \in Seq(NameBytes), NEW v \in Values(format),
           NEW first \in BOOLEAN
    PROVE  /\ LabelText(k, v, format, first) \in Text(Nat)
           /\ LabelText(k, v, format, first) # <<>>
           /\ format = "path" => LabelText(k, v, format, first)[1] = Dot
           /\ format = "tags" => LabelText(k, v, format, first)[1] = Semicolon
           /\ format = "openmetrics" => LabelText(k, v, format, first)[1] # 125
<1>1. k \in Text(Nat)
  BY NamesAreTexts, Alphabets
<1>2. CASE format = "path"
  <2>1. PICK d \in Text(Nat), p \in Text(Nat) : d = <<Dot>> /\ p = Escape(v) /\ d # <<>> /\ d[1] = Dot
    BY <1>2, Marks, EscapeType, TailsAre
  <2>2. LabelText(k, v, format, first) = Cat(Cat(Cat(d, k), d), p)
    BY <1>2, <2>1, LabelTextIs DEF PathLabel, Cat
  <2>3. Cat(Cat(Cat(d, k), d), p) \in Text(Nat) /\ Cat(d, Cat(k, Cat(d, p))) = Cat(Cat(Cat(d, k), d), p)
        /\ Cat(k, Cat(d, p)) \in Text(Nat)
    BY <1>1, TextConcat, TextAssociative
  <2> QED BY <1>2, <2>1, <2>2, <2>3, HeadOf
<1>3. CASE format = "tags"
  <2>1. PICK d \in Text(Nat), e \in Text(Nat), p \in Text(Nat) :
           d = <<Semicolon>> /\ e = <<Equals>> /\ p = EscapeTagged(v) /\ d # <<>> /\ d[1] = Semicolon
    <3>1. v \in Seq(Untagged)
      BY <1>3, TailsAre
    <3>2. EscapeTagged(v) \in Text(Nat)
      BY <3>1, TagsAsTheyAre, NamesAreTexts, Alphabets
    <3> QED BY <3>2, Marks
  <2>2. LabelText(k, v, format, first) = Cat(Cat(Cat(d, k), e), p)
    BY <1>3, <2>1, LabelTextIs DEF TagLabel, Cat
  <2>3. Cat(Cat(Cat(d, k), e), p) \in Text(Nat) /\ Cat(d, Cat(k, Cat(e, p))) = Cat(Cat(Cat(d, k), e), p)
        /\ Cat(k, Cat(e, p)) \in Text(Nat)
    BY <1>1, TextConcat, TextAssociative, SMTT(20)
  <2>4. PICK z \in Text(Nat) : z = Cat(k, Cat(e, p))
    BY <2>3
  <2>5. Cat(d, z) # <<>> /\ Cat(d, z)[1] = Semicolon
    BY <2>1, HeadOf
  <2>6. LabelText(k, v, format, first) = Cat(d, z)
    BY <2>2, <2>3, <2>4
  <2> QED BY <1>3, <2>2, <2>3, <2>5, <2>6
<1>4. CASE format = "openmetrics"
  <2>1. PICK p \in Text(Nat) : p = QuotedLabel(k, v) /\ p # <<>> /\ p[1] # 125
    BY <1>4, TailsAre, QuotedType DEF Braced
  <2>2. PICK c \in Text(Nat) : c = <<Comma>> /\ c # <<>> /\ c[1] = Comma /\ c[1] # 125
    BY Marks DEF Comma
  <2>3. LabelText(k, v, format, first) = IF first THEN p ELSE Cat(c, p)
    BY <1>4, <2>1, <2>2, LabelTextIs DEF Cat
  <2>4. Cat(c, p) \in Text(Nat) /\ Cat(c, p) # <<>> /\ Cat(c, p)[1] # 125
    <3>1. Cat(c, p) \in Text(Nat)
      BY TextConcat
    <3>2. Cat(c, p) # <<>> /\ Cat(c, p)[1] = c[1]
      BY <2>2, HeadOf
    <3> QED BY <2>2, <3>1, <3>2
  <2> QED BY <1>4, <2>1, <2>3, <2>4
<1> QED BY <1>2, <1>3, <1>4 DEF Formats

(* From what labels make and what follows them, the first label can be     *)
(* read.                                                                   *)
LEMMA LabelsDecodable ==
    ASSUME NEW format \in Formats
    PROVE  /\ LabelWords(format) \in SUBSET Text(Nat)
           /\ Tails(format) \in SUBSET Text(Nat)
           /\ LeftDecodable(LabelWords(format), Tails(format))
           /\ Behind(Tails(format), LabelWords(format))
<1>1. LabelWords(format) \in SUBSET Text(Nat)
  BY LabelType DEF LabelWords
<1>2. Tails(format) \in SUBSET Text(Nat)
  BY TailsAre DEF Formats
<1>3. LeftDecodable(LabelWords(format), Tails(format))
  BY LabelTells DEF LeftDecodable, LabelWords
<1>4. ASSUME NEW k \in Seq(NameBytes), NEW v \in Values(format), NEW first \in BOOLEAN,
             NEW x \in Tails(format)
      PROVE  Cat(LabelText(k, v, format, first), x) \in Tails(format)
  <2>1. PICK w \in Text(Nat) :
           /\ w = LabelText(k, v, format, first) /\ w # <<>>
           /\ format = "path" => w[1] = Dot
           /\ format = "tags" => w[1] = Semicolon
    BY LabelType
  <2>2. x \in Text(Nat)
    BY <1>2
  <2>3. Cat(w, x) \in Text(Nat) /\ Cat(w, x)[1] = w[1]
    BY <2>1, <2>2, TextConcat, HeadOf
  <2> QED BY <2>1, <2>3, TailsAre DEF Formats, StartsWith
<1>5. Behind(Tails(format), LabelWords(format))
  BY <1>4 DEF Behind, LabelWords
<1> QED BY <1>1, <1>2, <1>3, <1>5

(* What ends the labels: the brace of openmetrics, and nothing otherwise.   *)
LabelsEnd(format) == IF format = "openmetrics" THEN <<125>> ELSE <<>>

(* No label begins with what ends them.                                    *)
LEMMA EndStops ==
    ASSUME NEW format \in Formats
    PROVE  /\ LabelsEnd(format) \in Tails(format) /\ <<>> \in Tails(format)
           /\ Stops(LabelsEnd(format), LabelWords(format), Nat)
<1>1. <<125>> \in Text(Nat) /\ <<>> \in Text(Nat)
  BY Marks DEF Text
<1>2. LabelsEnd(format) \in Tails(format) /\ <<>> \in Tails(format)
  BY <1>1, TailsAre DEF LabelsEnd, Formats, StartsWith
<1>3. ASSUME NEW k \in Seq(NameBytes), NEW v \in Values(format), NEW first \in BOOLEAN,
             NEW u \in Text(Nat)
      PROVE  LabelsEnd(format) # Cat(LabelText(k, v, format, first), u)
  <2>1. PICK w \in Text(Nat) :
           /\ w = LabelText(k, v, format, first) /\ w # <<>>
           /\ format = "openmetrics" => w[1] # 125
    BY LabelType
  <2>2. Cat(w, u) # <<>> /\ Cat(w, u)[1] = w[1]
    BY <2>1, HeadOf
  <2> QED BY <2>1, <2>2 DEF LabelsEnd
<1> QED BY <1>2, <1>3 DEF Stops, LabelWords

-----------------------------------------------------------------------------
(* A metric as Prometheus has them, with values that the format keeps apart. *)
Named(m) ==
    /\ m = [name |-> m.name, labels |-> m.labels]
    /\ m.name \in Seq(MetricBytes)
    /\ m.labels = [k \in DOMAIN m.labels |-> m.labels[k]]
    /\ \A k \in DOMAIN m.labels : \E i \in 1..Len(LabelNames) : LabelNames[i] = k

(* All values are such that the format keeps them apart.                   *)
Kept(m, format) == \A k \in DOMAIN m.labels : m.labels[k] \in Values(format)

(* Keys lists the names of the labels.                                     *)
LEMMA KeysAre ==
    ASSUME NEW m, Named(m)
    PROVE  /\ Keys(m) \in Seq(Seq(NameBytes))
           /\ \A i \in 1..Len(Keys(m)) : Keys(m)[i] \in DOMAIN m.labels
           /\ \A k \in DOMAIN m.labels : \E i \in 1..Len(Keys(m)) : Keys(m)[i] = k
<1> DEFINE D == DOMAIN m.labels
           s == [i \in DOMAIN LabelNames |->
                    IF LabelNames[i] \in D THEN <<LabelNames[i]>> ELSE <<>>]
<1>1. LabelNames \in Seq(Seq(NameBytes))
  BY NamesAssumption
<1>2. Keys(m) = FlattenSeq(s)
  BY DEF Keys
<1>3. \A i \in 1..Len(LabelNames) : s[i] = IF LabelNames[i] \in D THEN <<LabelNames[i]>> ELSE <<>>
  BY <1>1
<1>4. s \in Seq(Text(D)) /\ Len(s) = Len(LabelNames)
  <2> HIDE DEF D
  <2>1. \A d \in D : <<d>> \in Text(D)
    BY DEF Text
  <2>2. <<>> \in Text(D)
    BY TextEmpty
  <2>3. \A i \in 1..Len(LabelNames) :
           (IF LabelNames[i] \in D THEN <<LabelNames[i]>> ELSE <<>>) \in Text(D)
    BY <2>1, <2>2
  <2>4. DOMAIN LabelNames = 1..Len(LabelNames) /\ Len(LabelNames) \in Nat
    BY <1>1
  <2>5. s \in [1..Len(LabelNames) -> Text(D)]
    BY <2>3, <2>4, Zenon
  <2> HIDE DEF s
  <2> QED BY <2>4, <2>5
<1> HIDE DEF s, D
<1>5. Keys(m) \in Seq(D)
  BY <1>2, <1>4, FlattenType DEF Text
<1>6. D \in SUBSET Seq(NameBytes)
  <2>1. \A S : \A t \in Seq(S) : \A i \in 1..Len(t) : t[i] \in S
    OBVIOUS
  <2>2. \A i \in 1..Len(LabelNames) : LabelNames[i] \in Seq(NameBytes)
    BY <1>1, <2>1
  <2> QED BY <2>2 DEF Named, D
<1>7. Keys(m) \in Seq(Seq(NameBytes))
  BY <1>5, <1>6, SeqMonotonic
<1>8. ASSUME NEW k \in D PROVE \E i \in 1..Len(Keys(m)) : Keys(m)[i] = k
  <2>1. PICK j \in 1..Len(LabelNames) : LabelNames[j] = k
    BY DEF Named, D
  <2>2. s[j] = <<k>> /\ j \in 1..Len(s)
    BY <1>3, <1>4, <2>1
  <2>3. PICK p \in Text(D), q \in Text(D) : FlattenSeq(s) = Cat(p, Cat(<<k>>, q))
    <3> DEFINE p == FlattenSeq(SubSeq(s, 1, j - 1))
               q == FlattenSeq(SubSeq(s, j + 1, Len(s)))
    <3>1. p \in Text(D) /\ q \in Text(D)
      BY <1>4, <2>2, FlattenAt, FlattenType
    <3>2. FlattenSeq(s) = Cat(p, Cat(s[j], q))
      BY <1>4, <2>2, FlattenAt
    <3> HIDE DEF p, q
    <3> QED BY <2>2, <3>1, <3>2
  <2>4. p \in Seq(D) /\ q \in Seq(D) /\ Keys(m) = p \o (<<k>> \o q)
    BY <1>2, <2>3 DEF Text, Cat
  <2>5. Len(p) + 1 \in 1..Len(p \o (<<k>> \o q)) /\ (p \o (<<k>> \o q))[Len(p) + 1] = k
    BY <2>4
  <2> QED BY <2>4, <2>5
<1>9. \A i \in 1..Len(Keys(m)) : Keys(m)[i] \in D
  BY <1>5
<1> QED BY <1>7, <1>8, <1>9 DEF D

-----------------------------------------------------------------------------
(* The texts of the labels of a metric, which DefaultPath puts together.   *)
LabelTexts(m, format) ==
    [i \in DOMAIN Keys(m) |-> LabelText(Keys(m)[i], m.labels[Keys(m)[i]], format, i = 1)]

LEMMA LabelTextsAre ==
    ASSUME NEW format \in Formats, NEW m, Named(m), Kept(m, format)
    PROVE  /\ LabelTexts(m, format) \in Seq(LabelWords(format))
           /\ Len(LabelTexts(m, format)) = Len(Keys(m))
           /\ \A i \in 1..Len(Keys(m)) :
                 /\ LabelTexts(m, format)[i]
                      = LabelText(Keys(m)[i], m.labels[Keys(m)[i]], format, i = 1)
                 /\ Keys(m)[i] \in Seq(NameBytes) /\ m.labels[Keys(m)[i]] \in Values(format)
<1>1. DOMAIN Keys(m) = 1..Len(Keys(m)) /\ Len(Keys(m)) \in Nat
  BY KeysAre
<1>2. \A i \in 1..Len(Keys(m)) : Keys(m)[i] \in Seq(NameBytes) /\ m.labels[Keys(m)[i]] \in Values(format)
  <2>1. \A S : \A t \in Seq(S) : \A i \in 1..Len(t) : t[i] \in S
    OBVIOUS
  <2> QED BY <2>1, KeysAre DEF Kept
<1>3. \A i \in 1..Len(Keys(m)) :
         LabelText(Keys(m)[i], m.labels[Keys(m)[i]], format, i = 1) \in LabelWords(format)
  <2>1. ASSUME NEW i \in 1..Len(Keys(m))
        PROVE  LabelText(Keys(m)[i], m.labels[Keys(m)[i]], format, i = 1) \in LabelWords(format)
    <3>1. PICK first \in BOOLEAN : first = (i = 1)
      OBVIOUS
    <3>2. PICK k \in Seq(NameBytes), v \in Values(format) : k = Keys(m)[i] /\ v = m.labels[Keys(m)[i]]
      BY <1>2
    <3>3. LabelText(k, v, format, first) \in LabelWords(format)
      BY DEF LabelWords
    <3> QED BY <3>1, <3>2, <3>3
  <2> QED BY <2>1
<1>4. LabelTexts(m, format) \in [1..Len(Keys(m)) -> LabelWords(format)]
  BY <1>1, <1>3, Zenon DEF LabelTexts
<1>5. \A i \in 1..Len(Keys(m)) :
         LabelTexts(m, format)[i] = LabelText(Keys(m)[i], m.labels[Keys(m)[i]], format, i = 1)
  BY <1>1, Zenon DEF LabelTexts
<1>6. LabelTexts(m, format) \in Seq(LabelWords(format)) /\ Len(LabelTexts(m, format)) = Len(Keys(m))
  BY <1>1, <1>4
<1> QED BY <1>2, <1>5, <1>6

(* These tell the labels.                                                  *)
LEMMA LabelsTell ==
    ASSUME NEW format \in Formats, NEW m, NEW n, Named(m), Named(n),
           Kept(m, format), Kept(n, format),
           Cat(FlattenSeq(LabelTexts(m, format)), LabelsEnd(format))
             = Cat(FlattenSeq(LabelTexts(n, format)), LabelsEnd(format))
    PROVE  m.labels = n.labels
<1>1. LabelTexts(m, format) = LabelTexts(n, format)
  <2>1. LabelTexts(m, format) \in Seq(LabelWords(format)) /\ LabelTexts(n, format) \in Seq(LabelWords(format))
    BY LabelTextsAre
  <2>2. PICK W \in SUBSET Text(Nat), X \in SUBSET Text(Nat), z \in Text(Nat) :
           /\ z \in X /\ W = LabelWords(format) /\ z = LabelsEnd(format)
           /\ LeftDecodable(W, X) /\ Behind(X, W) /\ Stops(z, W, Nat)
    BY LabelsDecodable, EndStops
  <2> QED BY <2>1, <2>2, Decode
<1>2. Len(Keys(m)) = Len(Keys(n)) /\ DOMAIN Keys(m) = 1..Len(Keys(m)) /\ DOMAIN Keys(n) = 1..Len(Keys(n))
  BY <1>1, LabelTextsAre, KeysAre
<1>3. ASSUME NEW i \in 1..Len(Keys(m))
      PROVE  Keys(m)[i] = Keys(n)[i] /\ m.labels[Keys(m)[i]] = n.labels[Keys(n)[i]]
  <2>1. PICK k \in Seq(NameBytes), l \in Seq(NameBytes), v \in Values(format), w \in Values(format) :
           /\ k = Keys(m)[i] /\ l = Keys(n)[i] /\ v = m.labels[Keys(m)[i]] /\ w = n.labels[Keys(n)[i]]
    BY <1>2, LabelTextsAre
  <2>2. PICK first \in BOOLEAN : first = (i = 1)
    OBVIOUS
  <2>3. LabelText(k, v, format, first) = LabelText(l, w, format, first)
    BY <1>1, <1>2, <2>1, <2>2, LabelTextsAre
  <2>4. <<>> \in Tails(format)
    BY EndStops
  <2> QED BY <2>1, <2>3, <2>4, LabelTells
<1>a. /\ \A i \in 1..Len(Keys(m)) : Keys(m)[i] \in DOMAIN m.labels /\ Keys(n)[i] \in DOMAIN n.labels
      /\ \A k \in DOMAIN m.labels : \E i \in 1..Len(Keys(m)) : Keys(m)[i] = k
      /\ \A k \in DOMAIN n.labels : \E i \in 1..Len(Keys(m)) : Keys(n)[i] = k
  BY <1>2, KeysAre
<1>4. ASSUME NEW k \in DOMAIN m.labels PROVE k \in DOMAIN n.labels /\ m.labels[k] = n.labels[k]
  <2>1. PICK i \in 1..Len(Keys(m)) : Keys(m)[i] = k
    BY <1>a
  <2>2. Keys(n)[i] = k /\ Keys(n)[i] \in DOMAIN n.labels /\ m.labels[k] = n.labels[k]
    BY <1>3, <1>a, <2>1
  <2> QED BY <2>2
<1>5. ASSUME NEW k \in DOMAIN n.labels PROVE k \in DOMAIN m.labels
  <2>1. PICK i \in 1..Len(Keys(m)) : Keys(n)[i] = k
    BY <1>a
  <2>2. Keys(m)[i] = k /\ Keys(m)[i] \in DOMAIN m.labels
    BY <1>3, <1>a, <2>1
  <2> QED BY <2>2
<1>6. DOMAIN m.labels = DOMAIN n.labels
  BY <1>4, <1>5
<1> QED BY <1>4, <1>6 DEF Named

-----------------------------------------------------------------------------
(* What a path has after the name of its metric. *)
Rest(m, format) ==
    IF format = "openmetrics" /\ Keys(m) # <<>>
    THEN <<123>> \o FlattenSeq(LabelTexts(m, format)) \o <<125>>
    ELSE FlattenSeq(LabelTexts(m, format))

LEMMA Braces == <<123>> \in Text(Nat) /\ <<125>> \in Text(Nat) /\ <<123>>[1] = 123
  BY DEF Text

(* A path is the prefix, the name, and the rest.                           *)
LEMMA PathParts ==
    \A m, format : DefaultPath(m, format) = Cat(Cat(Prefix, Escape(m.name)), Rest(m, format))
  BY DEF DefaultPath, Rest, LabelTexts, Cat

(* The labels make a text, an empty one if there are none.                 *)
LEMMA TextsType ==
    ASSUME NEW format \in Formats, NEW m, Named(m), Kept(m, format)
    PROVE  FlattenSeq(LabelTexts(m, format)) \in Text(Nat)
<1>1. PICK W \in SUBSET Text(Nat) : W = LabelWords(format)
  BY LabelsDecodable
<1>2. LabelTexts(m, format) \in Seq(W)
  BY <1>1, LabelTextsAre
<1> QED BY <1>2, WordsAreTexts

LEMMA NoKeysNoText ==
    ASSUME NEW format \in Formats, NEW m, Named(m), Kept(m, format), Keys(m) = <<>>
    PROVE  FlattenSeq(LabelTexts(m, format)) = <<>>
<1>1. LabelTexts(m, format) = <<>>
  BY LabelTextsAre
<1> QED BY <1>1, FlattenEmpty

(* The first label begins with a byte that no name has. *)
LEMMA RestType ==
    ASSUME NEW format \in Formats, NEW m, Named(m), Kept(m, format)
    PROVE  Rest(m, format) \in Text(Nat) /\ Outside(Rest(m, format), MetricBytes)
<1>1. PICK s \in Text(Nat) : s = FlattenSeq(LabelTexts(m, format))
  BY TextsType
<1>2. CASE Keys(m) = <<>>
  <2>1. Rest(m, format) = <<>>
    BY <1>2, NoKeysNoText DEF Rest
  <2> QED BY <2>1, Marks DEF Outside
<1>3. CASE format = "openmetrics" /\ Keys(m) # <<>>
  <2>1. PICK c \in Text(Nat), d \in Text(Nat) :
           c = <<123>> /\ d = <<125>> /\ c # <<>> /\ c[1] = 123
    BY Braces
  <2>2. Rest(m, format) = Cat(Cat(c, s), d)
    BY <1>1, <1>3, <2>1 DEF Rest, Cat
  <2>3. Cat(Cat(c, s), d) = Cat(c, Cat(s, d)) /\ Cat(s, d) \in Text(Nat) /\ Cat(Cat(c, s), d) \in Text(Nat)
    BY TextConcat, TextAssociative
  <2>4. Cat(c, Cat(s, d))[1] = 123
    BY <2>1, <2>3, HeadOf
  <2> QED BY <2>2, <2>3, <2>4, Alphabets DEF Outside
<1>4. CASE format # "openmetrics" /\ Keys(m) # <<>>
  <2>1. Rest(m, format) = s
    BY <1>1, <1>4 DEF Rest
  <2>2. PICK W \in SUBSET Text(Nat), X \in SUBSET Text(Nat) :
           W = LabelWords(format) /\ X = Tails(format) /\ Behind(X, W) /\ <<>> \in X
    BY LabelsDecodable, EndStops
  <2>3. Cat(s, <<>>) \in X
    BY <1>1, <2>2, LabelTextsAre, WordsBefore
  <2>4. Cat(s, <<>>) = s
    BY TextEmpty
  <2>5. StartsWith(s, Dot) \/ StartsWith(s, Semicolon)
    BY <1>4, <2>2, <2>3, <2>4, TailsAre DEF Formats
  <2> QED BY <2>1, <2>5, Alphabets DEF Outside, StartsWith
<1> QED BY <1>2, <1>3, <1>4

(* The rest of a path tells the labels.                                    *)
LEMMA RestTells ==
    ASSUME NEW format \in Formats, NEW m, NEW n, Named(m), Named(n),
           Kept(m, format), Kept(n, format), Rest(m, format) = Rest(n, format)
    PROVE  m.labels = n.labels
<1>1. PICK s \in Text(Nat), t \in Text(Nat), e \in Text(Nat) :
         /\ s = FlattenSeq(LabelTexts(m, format)) /\ t = FlattenSeq(LabelTexts(n, format))
         /\ e = LabelsEnd(format)
  BY TextsType, EndStops, LabelsDecodable
<1>2. CASE format # "openmetrics"
  <2>1. s = t
    BY <1>1, <1>2 DEF Rest
  <2>2. Cat(s, e) = Cat(t, e)
    BY <2>1
  <2> QED BY <1>1, <2>2, LabelsTell
<1>3. CASE format = "openmetrics"
  <2>1. PICK c \in Text(Nat) : c = <<123>> /\ c # <<>>
    BY Braces
  <2>2. e = <<125>>
    BY <1>1, <1>3 DEF LabelsEnd
  <2>3. Cat(Cat(c, s), e) = Cat(c, Cat(s, e)) /\ Cat(Cat(c, t), e) = Cat(c, Cat(t, e))
        /\ Cat(s, e) \in Text(Nat) /\ Cat(t, e) \in Text(Nat)
    BY TextConcat, TextAssociative
  <2>4. /\ Rest(m, format) = IF Keys(m) # <<>> THEN Cat(c, Cat(s, e)) ELSE s
        /\ Rest(n, format) = IF Keys(n) # <<>> THEN Cat(c, Cat(t, e)) ELSE t
    <3>1. /\ Rest(m, format) = IF Keys(m) # <<>> THEN Cat(Cat(c, s), e) ELSE s
          /\ Rest(n, format) = IF Keys(n) # <<>> THEN Cat(Cat(c, t), e) ELSE t
      BY <1>1, <1>3, <2>1, <2>2 DEF Rest, Cat
    <3> QED BY <2>3, <3>1
  <2>5. Cat(c, Cat(s, e)) # <<>> /\ Cat(c, Cat(t, e)) # <<>>
    BY <2>1, <2>3, HeadOf
  <2>6. (Keys(m) = <<>> => s = <<>>) /\ (Keys(n) = <<>> => t = <<>>)
    BY <1>1, NoKeysNoText
  <2>7. Keys(m) = <<>> <=> Keys(n) = <<>>
    BY <2>4, <2>5, <2>6
  <2>8. Cat(s, e) = Cat(t, e)
    BY <2>3, <2>4, <2>6, <2>7, TextCancel
  <2> QED BY <1>1, <2>8, LabelsTell
<1> QED BY <1>2, <1>3

(* In every format the path that defaultPath gives to a metric tells the   *)
(* metric, if its values have no bytes that the escaping merges: no two    *)
(* such metrics have the same path.                                        *)
THEOREM PathTells ==
    ASSUME NEW format \in Formats, NEW m, NEW n, Named(m), Named(n),
           Kept(m, format), Kept(n, format), DefaultPath(m, format) = DefaultPath(n, format)
    PROVE  m = n
<1>1. PICK p \in Text(Nat) : p = Prefix
  <2>1. Bytes \in SUBSET Nat
    BY DEF Bytes
  <2> QED BY <2>1, NamesAssumption, NamesAreTexts
<1>2. PICK a \in Text(MetricBytes), b \in Text(MetricBytes) :
         /\ a = m.name /\ b = n.name /\ a = Escape(m.name) /\ b = Escape(n.name)
         /\ a \in Text(Nat) /\ b \in Text(Nat)
  <2>1. m.name \in Seq(MetricBytes) /\ n.name \in Seq(MetricBytes)
    BY DEF Named
  <2> QED BY <2>1, NamesAsTheyAre, NamesAreTexts, Alphabets
<1>3. PICK x \in Text(Nat), y \in Text(Nat) :
         /\ x = Rest(m, format) /\ y = Rest(n, format)
         /\ Outside(x, MetricBytes) /\ Outside(y, MetricBytes)
  BY RestType
<1>4. Cat(Cat(p, a), x) = Cat(Cat(p, b), y)
  BY <1>1, <1>2, <1>3, PathParts
<1>5. Cat(p, Cat(a, x)) = Cat(p, Cat(b, y)) /\ Cat(a, x) \in Text(Nat) /\ Cat(b, y) \in Text(Nat)
  BY <1>2, <1>4, TextConcat, TextAssociative
<1>6. Cat(a, x) = Cat(b, y)
  BY <1>5, TextCancel
<1>7. a = b /\ x = y
  <2>1. MetricBytes \in SUBSET Nat
    BY Alphabets
  <2>2. Outside(x, MetricBytes) /\ Outside(y, MetricBytes)
    BY <1>3
  <2> QED BY <1>6, <2>1, <2>2, PlainUntil
<1>8. m.labels = n.labels
  BY <1>3, <1>7, RestTells
<1> QED BY <1>2, <1>7, <1>8 DEF Named

-----------------------------------------------------------------------------
(* A set of texts that has the empty one, and each text with one thing more *)
(* than a text that it has, is all of them.                                 *)
LEMMA TextInduction ==
    ASSUME NEW A, NEW G, <<>> \in G,
           \A u \in Text(A) : \A c \in A : u \in G => Append(u, c) \in G
    PROVE  \A v \in Text(A) : v \in G
<1> DEFINE P == {n \in Nat : \A u \in Text(A) : Len(u) = n => u \in G}
<1>1. 0 \in P
  <2>1. ASSUME NEW u \in Text(A), Len(u) = 0 PROVE u \in G
    <3>1. u = <<>>
      BY <2>1 DEF Text
    <3> QED BY <3>1
  <2> QED BY <2>1
<1> HIDE DEF P
<1>2. ASSUME NEW n \in P PROVE n + 1 \in P
  <2>1. n \in Nat /\ \A u \in Text(A) : Len(u) = n => u \in G
    BY DEF P
  <2>2. ASSUME NEW u \in Text(A), Len(u) = n + 1 PROVE u \in G
    <3>1. u # <<>> /\ u \in Seq(A)
      BY <2>1, <2>2 DEF Text
    <3>2. PICK t \in Seq(A), c \in A : u = Append(t, c)
      BY <3>1, SequenceEmptyOrAppend
    <3>3. Len(t) = n
      BY <2>1, <2>2, <3>2
    <3> QED BY <2>1, <3>2, <3>3 DEF Text
  <2> QED BY <2>1, <2>2 DEF P
<1>3. P \in SUBSET Nat
  BY DEF P
<1>4. P = Nat
  BY <1>1, <1>2, <1>3, Induction
<1>5. ASSUME NEW v \in Text(A) PROVE v \in G
  <2>1. Len(v) \in P
    BY <1>4 DEF Text
  <2> QED BY <2>1 DEF P
<1> QED BY <1>5

(* Escape goes byte by byte.                                               *)
LEMMA EscapeAppend ==
    ASSUME NEW u \in Seq(Apart), NEW b \in Apart
    PROVE  Escape(Append(u, b)) = Cat(Escape(u), EscapeByte(b))
<1> DEFINE s == [i \in DOMAIN u |-> EscapeByte(u[i])]
           t == [i \in DOMAIN Append(u, b) |-> EscapeByte(Append(u, b)[i])]
<1>1. \A d \in Apart : EscapeByte(d) \in Text(Nat)
  BY EscapeByteShape DEF Text
<1>2. s \in Seq(Text(Nat))
  <2>1. \A i \in 1..Len(u) : EscapeByte(u[i]) \in Text(Nat)
    BY <1>1
  <2> QED BY <2>1
<1>3. t = Append(s, EscapeByte(b))
  OBVIOUS
<1>4. Escape(u) = FlattenSeq(s) /\ Escape(Append(u, b)) = FlattenSeq(t)
  BY DEF Escape
<1> HIDE DEF s, t
<1> QED BY <1>1, <1>2, <1>3, <1>4, FlattenAppend

-----------------------------------------------------------------------------
(* What becomes of byte i of an escaped text. *)
Decoded(s, i) ==
    IF s[i] = Percent THEN <<16 * Nibble(s[i + 1]) + Nibble(s[i + 2])>>
    ELSE IF \E j \in DOMAIN s : j \in {i - 1, i - 2} /\ s[j] = Percent THEN <<>>
    ELSE <<s[i]>>

LEMMA DecodedType ==
    ASSUME NEW s \in Seq(Nat), ~Malformed(s), NEW i \in 1..Len(s)
    PROVE  Decoded(s, i) \in Text(Nat)
<1>1. CASE s[i] = Percent
  <2>1. IsHex(s[i + 1]) /\ IsHex(s[i + 2])
    BY <1>1, SMTT(20) DEF Malformed
  <2>2. \A b : IsHex(b) => Nibble(b) \in Nat
    BY DEF IsHex, Nibble
  <2>3. Nibble(s[i + 1]) \in Nat /\ Nibble(s[i + 2]) \in Nat
    BY <2>1, <2>2
  <2>4. PICK n \in Nat : n = 16 * Nibble(s[i + 1]) + Nibble(s[i + 2])
    BY <2>3
  <2>5. <<n>> \in Text(Nat)
    BY DEF Text
  <2> QED BY <1>1, <2>4, <2>5 DEF Decoded
<1>2. CASE s[i] # Percent
  <2>1. <<>> \in Text(Nat) /\ <<s[i]>> \in Text(Nat)
    BY TextEmpty DEF Text
  <2> QED BY <1>2, <2>1 DEF Decoded
<1> QED BY <1>1, <1>2

(* PathUnescape and Malformed by what they do at each byte.                *)
LEMMA PathUnescapeIs ==
    ASSUME NEW s \in Seq(Nat), ~Malformed(s)
    PROVE  PathUnescape(s) = FlattenSeq([i \in 1..Len(s) |-> Decoded(s, i)])
<1>1. DOMAIN s = 1..Len(s)
  OBVIOUS
<1> QED BY <1>1, Zenon DEF PathUnescape, Decoded

LEMMA MalformedIs ==
    ASSUME NEW s \in Seq(Nat)
    PROVE  Malformed(s) <=> \E i \in 1..Len(s) : s[i] = Percent
                               /\ ~(i + 2 <= Len(s) /\ IsHex(s[i + 1]) /\ IsHex(s[i + 2]))
<1>1. DOMAIN s = 1..Len(s)
  OBVIOUS
<1> QED BY <1>1, Zenon DEF Malformed

(* Escapes do not reach over the end of a text that is not malformed.       *)
LEMMA PathUnescapeConcat ==
    ASSUME NEW x \in Seq(Nat), NEW w \in Seq(Nat), ~Malformed(x), ~Malformed(w)
    PROVE  /\ ~Malformed(x \o w)
           /\ PathUnescape(x \o w) = Cat(PathUnescape(x), PathUnescape(w))
<1>1. PICK n \in Nat, p \in Nat, s \in Seq(Nat) :
         n = Len(x) /\ p = Len(w) /\ s = x \o w
  <2>1. PICK s \in Seq(Nat) : s = x \o w
    BY ConcatProperties
  <2>2. Len(x) \in Nat /\ Len(w) \in Nat
    OBVIOUS
  <2> QED BY <2>1, <2>2
<1>2. /\ Len(s) = n + p
      /\ \A i \in 1..n : s[i] = x[i]
      /\ \A i \in 1..p : s[n + i] = w[i]
  BY <1>1, ConcatProperties
<1>3. \A i \in 1..n : x[i] = Percent => i + 2 <= n /\ IsHex(x[i + 1]) /\ IsHex(x[i + 2])
  BY <1>1, MalformedIs
<1>4. \A i \in 1..p : w[i] = Percent => i + 2 <= p /\ IsHex(w[i + 1]) /\ IsHex(w[i + 2])
  BY <1>1, MalformedIs
<1>5. ~Malformed(s)
  <2>1. SUFFICES ASSUME NEW i \in 1..(n + p), s[i] = Percent
                 PROVE  i + 2 <= n + p /\ IsHex(s[i + 1]) /\ IsHex(s[i + 2])
    BY <1>2, MalformedIs
  <2>2. CASE i \in 1..n
    <3>1. i + 2 <= n /\ IsHex(x[i + 1]) /\ IsHex(x[i + 2])
      BY <1>2, <1>3, <2>1, <2>2
    <3>2. i + 1 \in 1..n /\ i + 2 \in 1..n
      BY <2>2, <3>1
    <3>3. s[i + 1] = x[i + 1] /\ s[i + 2] = x[i + 2]
      BY <1>2, <3>2
    <3>4. i + 2 <= n + p
      BY <3>1
    <3> QED BY <3>1, <3>3, <3>4
  <2>3. CASE i \notin 1..n
    <3>1. PICK j \in 1..p : i = n + j
      <4>1. i - n \in 1..p
        BY <2>1, <2>3
      <4> QED BY <4>1
    <3>2. j + 2 <= p /\ IsHex(w[j + 1]) /\ IsHex(w[j + 2])
      BY <1>2, <1>4, <2>1, <3>1
    <3>a. j + 1 \in 1..p /\ j + 2 \in 1..p
      BY <3>2
    <3>3. s[n + (j + 1)] = w[j + 1] /\ s[n + (j + 2)] = w[j + 2]
      BY <1>2, <3>a
    <3>4. n + (j + 1) = i + 1 /\ n + (j + 2) = i + 2
      BY <3>1
    <3>5. s[i + 1] = w[j + 1] /\ s[i + 2] = w[j + 2]
      BY <3>3, <3>4, Zenon
    <3>6. i + 2 <= n + p
      BY <3>1, <3>2
    <3>7. IsHex(w[j + 1]) /\ IsHex(w[j + 2])
      BY <3>2
    <3>8. IsHex(s[i + 1]) /\ IsHex(s[i + 2])
      BY <3>5, <3>7, Zenon
    <3> QED BY <3>6, <3>8
  <2> QED BY <2>2, <2>3
<1>6. ASSUME NEW i \in 1..n PROVE Decoded(s, i) = Decoded(x, i)
  <2>1. CASE x[i] = Percent
    <3>1. i + 2 <= n
      BY <1>3, <2>1
    <3>a. i + 1 \in 1..n /\ i + 2 \in 1..n
      BY <3>1
    <3>2. s[i] = x[i] /\ s[i + 1] = x[i + 1] /\ s[i + 2] = x[i + 2]
      BY <1>2, <3>a
    <3> QED BY <2>1, <3>2 DEF Decoded
  <2>2. CASE x[i] # Percent
    <3>1. (\E j \in DOMAIN s : j \in {i - 1, i - 2} /\ s[j] = Percent)
            <=> (\E j \in DOMAIN x : j \in {i - 1, i - 2} /\ x[j] = Percent)
      BY <1>1, <1>2
    <3> QED BY <1>2, <2>2, <3>1 DEF Decoded
  <2> QED BY <2>1, <2>2
<1>7. ASSUME NEW i \in 1..p PROVE Decoded(s, n + i) = Decoded(w, i)
  <2>1. CASE w[i] = Percent
    <3>1. i + 2 <= p
      BY <1>4, <2>1
    <3>a. i + 1 \in 1..p /\ i + 2 \in 1..p
      BY <3>1
    <3>2. s[n + i] = w[i] /\ s[n + (i + 1)] = w[i + 1] /\ s[n + (i + 2)] = w[i + 2]
      BY <1>2, <3>a
    <3>3. n + (i + 1) = (n + i) + 1 /\ n + (i + 2) = (n + i) + 2
      OBVIOUS
    <3> QED BY <2>1, <3>2, <3>3 DEF Decoded
  <2>2. CASE w[i] # Percent
    <3>1. ASSUME NEW j \in DOMAIN s, j \in {(n + i) - 1, (n + i) - 2}, s[j] = Percent
          PROVE  \E k \in DOMAIN w : k \in {i - 1, i - 2} /\ w[k] = Percent
      <4>1. j \in 1..(n + p)
        BY <1>1, <1>2
      <4>2. j \notin 1..n
        <5>1. SUFFICES ASSUME j \in 1..n PROVE FALSE
          OBVIOUS
        <5>2. j + 2 <= n
          BY <1>2, <1>3, <3>1, <5>1
        <5> QED BY <3>1, <5>1, <5>2
      <4>3. j - n \in 1..p /\ j - n \in {i - 1, i - 2} /\ n + (j - n) = j
        BY <3>1, <4>1, <4>2, SMTT(20)
      <4>4. w[j - n] = Percent
        BY <1>2, <3>1, <4>3
      <4> QED BY <1>1, <4>3, <4>4
    <3>2. ASSUME NEW k \in DOMAIN w, k \in {i - 1, i - 2}, w[k] = Percent
          PROVE  \E j \in DOMAIN s : j \in {(n + i) - 1, (n + i) - 2} /\ s[j] = Percent
      <4>1. k \in 1..p
        BY <1>1
      <4>2. n + k \in DOMAIN s /\ s[n + k] = Percent /\ n + k \in {(n + i) - 1, (n + i) - 2}
        <5>1. DOMAIN s = 1..(n + p) /\ n + k \in 1..(n + p)
          BY <1>1, <1>2, <4>1
        <5>2. s[n + k] = w[k]
          BY <1>2, <4>1
        <5>3. n + k \in {(n + i) - 1, (n + i) - 2}
          BY <3>2, <4>1
        <5> QED BY <3>2, <5>1, <5>2, <5>3
      <4> QED BY <4>2
    <3>3. s[n + i] = w[i]
      BY <1>2
    <3> QED BY <2>2, <3>1, <3>2, <3>3 DEF Decoded
  <2> QED BY <2>1, <2>2
<1> DEFINE fx == [i \in 1..n |-> Decoded(x, i)]
           fw == [i \in 1..p |-> Decoded(w, i)]
           fs == [i \in 1..(n + p) |-> Decoded(s, i)]
<1>8. fx \in Seq(Text(Nat)) /\ fw \in Seq(Text(Nat)) /\ Len(fx) = n /\ Len(fw) = p
  <2>1. \A i \in 1..n : Decoded(x, i) \in Text(Nat)
    BY <1>1, DecodedType
  <2>2. \A i \in 1..p : Decoded(w, i) \in Text(Nat)
    BY <1>1, DecodedType
  <2> QED BY <2>1, <2>2
<1>9. fs = fx \o fw
  <2>1. \A i \in 1..(n + p) : i \notin 1..n => i - n \in 1..p /\ n + (i - n) = i
    OBVIOUS
  <2>2. \A i \in 1..(n + p) : fs[i] = IF i <= n THEN fx[i] ELSE fw[i - n]
    BY <1>6, <1>7, <2>1
  <2>3. fs \in Seq(Text(Nat)) /\ Len(fs) = n + p
    <3>1. \A i \in 1..(n + p) : Decoded(s, i) \in Text(Nat)
      BY <1>2, <1>5, DecodedType
    <3> QED BY <3>1
  <2> HIDE DEF fs, fx, fw
  <2>4. fx \o fw \in Seq(Text(Nat)) /\ Len(fx \o fw) = n + p
        /\ \A i \in 1..(n + p) : (fx \o fw)[i] = IF i <= n THEN fx[i] ELSE fw[i - n]
    BY <1>8, ConcatProperties
  <2> QED BY <2>2, <2>3, <2>4, SeqEqual
<1>10. /\ PathUnescape(x) = FlattenSeq(fx) /\ PathUnescape(w) = FlattenSeq(fw)
       /\ PathUnescape(s) = FlattenSeq(fs)
  BY <1>1, <1>2, <1>5, PathUnescapeIs
<1> HIDE DEF fs, fx, fw
<1> QED BY <1>1, <1>5, <1>8, <1>9, <1>10, FlattenConcat

-----------------------------------------------------------------------------
(* A byte, or a text, whose percent escapes are undone.                     *)
SlashedByte(b) == IF b \in Symbols \ {Dot, Equals} THEN <<Backslash, b>> ELSE <<b>>
(* What is left of an escaped value when its percents are undone: the      *)
(* symbols with their backslash.                                           *)
Slashed(v) == FlattenSeq([i \in DOMAIN v |-> SlashedByte(v[i])])

LEMMA SlashedByteType ==
    ASSUME NEW b \in Nat
    PROVE  SlashedByte(b) \in Seq(Nat) /\ SlashedByte(b) \in Text(Nat)
  BY DEF SlashedByte, Backslash, Text

LEMMA SlashedAppend ==
    ASSUME NEW u \in Seq(Apart), NEW b \in Apart
    PROVE  Slashed(Append(u, b)) = Cat(Slashed(u), SlashedByte(b)) /\ Slashed(u) \in Text(Nat)
<1> DEFINE s == [i \in DOMAIN u |-> SlashedByte(u[i])]
           t == [i \in DOMAIN Append(u, b) |-> SlashedByte(Append(u, b)[i])]
<1>1. \A d \in Apart : SlashedByte(d) \in Text(Nat)
  <2>1. Apart \subseteq Nat
    BY DEF Apart
  <2> QED BY <2>1, SlashedByteType
<1>2. s \in Seq(Text(Nat))
  <2>1. \A i \in 1..Len(u) : SlashedByte(u[i]) \in Text(Nat)
    BY <1>1
  <2> QED BY <2>1
<1>3. t = Append(s, SlashedByte(b))
  OBVIOUS
<1>4. Slashed(u) = FlattenSeq(s) /\ Slashed(Append(u, b)) = FlattenSeq(t)
  BY DEF Slashed
<1> HIDE DEF s, t
<1> QED BY <1>1, <1>2, <1>3, <1>4, FlattenAppend, FlattenType

(* What the undoing of percents makes of one byte, of a byte behind a      *)
(* backslash, and of two digits.                                           *)
LEMMA UndoneOne ==
    ASSUME NEW b \in Nat, b # Percent
    PROVE  ~Malformed(<<b>>) /\ PathUnescape(<<b>>) = <<b>>
<1>1. PICK s \in Seq(Nat) : s = <<b>>
  <2>1. <<b>> \in Seq(Nat)
    OBVIOUS
  <2> QED BY <2>1
<1>2. Len(s) = 1 /\ s[1] = b /\ DOMAIN s = 1..1
  BY <1>1
<1>3. ~Malformed(s)
  BY <1>2 DEF Malformed
<1>4. \A i \in 1..1 : Decoded(s, i) = <<s[i]>>
  BY <1>2 DEF Decoded
<1>5. [i \in 1..1 |-> Decoded(s, i)] = [i \in DOMAIN s |-> <<s[i]>>]
  BY <1>2, <1>4
<1>6. FlattenSeq([i \in DOMAIN s |-> <<s[i]>>]) = s
  BY FlattenSingles
<1> QED BY <1>1, <1>2, <1>3, <1>5, <1>6, PathUnescapeIs

LEMMA UndoneTwo ==
    ASSUME NEW a \in Nat, NEW b \in Nat, a # Percent, b # Percent
    PROVE  ~Malformed(<<a, b>>) /\ PathUnescape(<<a, b>>) = <<a, b>>
<1>1. PICK s \in Seq(Nat) : s = <<a, b>>
  <2>1. <<a, b>> \in Seq(Nat)
    OBVIOUS
  <2> QED BY <2>1
<1>2. Len(s) = 2 /\ s[1] = a /\ s[2] = b /\ DOMAIN s = 1..2
  BY <1>1
<1>3. ~Malformed(s)
  BY <1>2 DEF Malformed
<1>4. \A i \in 1..2 : Decoded(s, i) = <<s[i]>>
  BY <1>2 DEF Decoded
<1>5. [i \in 1..2 |-> Decoded(s, i)] = [i \in DOMAIN s |-> <<s[i]>>]
  BY <1>2, <1>4
<1>6. FlattenSeq([i \in DOMAIN s |-> <<s[i]>>]) = s
  BY FlattenSingles
<1> QED BY <1>1, <1>2, <1>3, <1>5, <1>6, PathUnescapeIs

LEMMA UndoneHex ==
    ASSUME NEW h \in Nat, NEW l \in Nat, NEW b \in Nat, IsHex(h), IsHex(l), h # Percent, l # Percent,
           16 * Nibble(h) + Nibble(l) = b
    PROVE  ~Malformed(<<Percent, h, l>>) /\ PathUnescape(<<Percent, h, l>>) = <<b>>
<1>1. Percent \in Nat
  BY DEF Percent
<1>2. PICK s \in Seq(Nat) : s = <<Percent, h, l>>
  <2>1. <<Percent, h, l>> \in Seq(Nat)
    BY <1>1
  <2> QED BY <2>1
<1>3. Len(s) = 3 /\ s[1] = Percent /\ s[2] = h /\ s[3] = l /\ DOMAIN s = 1..3
  BY <1>2
<1>4. ~Malformed(s)
  <2>1. SUFFICES ASSUME NEW i \in 1..3, s[i] = Percent
                 PROVE  i + 2 <= Len(s) /\ IsHex(s[i + 1]) /\ IsHex(s[i + 2])
    BY <1>3, Zenon DEF Malformed
  <2>2. i = 1
    BY <1>3, <2>1
  <2>3. 1 + 1 = 2 /\ 1 + 2 = 3 /\ 3 <= 3
    OBVIOUS
  <2> QED BY <1>3, <2>2, <2>3
<1>5. Decoded(s, 1) = <<b>>
  <2>1. s[1 + 1] = h /\ s[1 + 2] = l
    BY <1>3
  <2> QED BY <1>3, <2>1, Zenon DEF Decoded
<1>6. Decoded(s, 2) = <<>>
  <2>1. 1 \in DOMAIN s /\ 1 \in {2 - 1, 2 - 2}
    BY <1>3
  <2> QED BY <1>3, <2>1 DEF Decoded
<1>7. Decoded(s, 3) = <<>>
  <2>1. 1 \in DOMAIN s /\ 1 \in {3 - 1, 3 - 2}
    BY <1>3
  <2> QED BY <1>3, <2>1 DEF Decoded
<1>8. PICK x \in Text(Nat), y \in Text(Nat) : x = <<b>> /\ y = <<>>
  <2>1. <<b>> \in Text(Nat)
    BY DEF Text
  <2> QED BY <2>1, TextEmpty
<1>9. [i \in 1..3 |-> Decoded(s, i)] = <<x, y, y>>
  BY <1>5, <1>6, <1>7, <1>8
<1>10. FlattenSeq(<<x, y, y>>) = x
  <2>1. FlattenSeq(<<x>>) = x
    BY FlattenOne
  <2>2. <<x>> \in Seq(Text(Nat)) /\ <<x, y>> = Append(<<x>>, y) /\ <<x, y>> \in Seq(Text(Nat))
        /\ <<x, y, y>> = Append(<<x, y>>, y)
    OBVIOUS
  <2>3. Cat(x, y) = x
    BY <1>8, TextEmpty
  <2>4. FlattenSeq(<<x, y>>) = x
    BY <2>1, <2>2, <2>3, FlattenAppend
  <2> QED BY <2>2, <2>3, <2>4, FlattenAppend
<1> HIDE DEF Percent
<1> QED BY <1>2, <1>3, <1>4, <1>8, <1>9, <1>10, PathUnescapeIs

(* And so of an escaped byte.                                              *)
LEMMA EscapeByteUndone ==
    ASSUME NEW b \in Apart
    PROVE  ~Malformed(EscapeByte(b)) /\ PathUnescape(EscapeByte(b)) = SlashedByte(b)
<1>1. b \in Nat /\ b \div 16 \in 0..15 /\ b % 16 \in 0..15 /\ 16 * (b \div 16) + (b % 16) = b /\ ~(b < 16)
  BY DEF Apart
<1>2. \A d \in 0..15 : IsHex(HexDigit(d)) /\ Nibble(HexDigit(d)) = d /\ HexDigit(d) \in Nat
                        /\ HexDigit(d) # Percent
  BY DEF IsHex, Nibble, HexDigit, Percent
<1>3. CASE EscapeByte(b) = <<b>> /\ b # Percent /\ b \notin Symbols \ {Dot, Equals}
  BY <1>1, <1>3, UndoneOne DEF SlashedByte
<1>4. CASE EscapeByte(b) = <<Backslash, b>> /\ b # Percent /\ b \in Symbols \ {Dot, Equals}
  <2>1. Backslash \in Nat /\ Backslash # Percent
    BY DEF Backslash, Percent
  <2> QED BY <1>1, <1>4, <2>1, UndoneTwo DEF SlashedByte
<1>5. CASE EscapeByte(b) = Encoded(b) /\ b \notin Symbols \ {Dot, Equals}
  <2>1. PICK d \in 0..15, e \in 0..15 : d = b \div 16 /\ e = b % 16
    BY <1>1
  <2>2. 16 * d + e = b
    BY <1>1, <2>1
  <2>3. Encoded(b) = <<Percent, HexDigit(d), HexDigit(e)>>
    BY <1>1, <2>1 DEF Encoded
  <2>4. PICK h \in Nat, l \in Nat :
           /\ h = HexDigit(d) /\ l = HexDigit(e) /\ IsHex(h) /\ IsHex(l) /\ h # Percent /\ l # Percent
           /\ Nibble(h) = d /\ Nibble(l) = e
    BY <1>2
  <2>6. 16 * Nibble(h) + Nibble(l) = b
    BY <2>2, <2>4
  <2>7. ~Malformed(<<Percent, h, l>>) /\ PathUnescape(<<Percent, h, l>>) = <<b>>
    BY <1>1, <2>4, <2>6, UndoneHex
  <2>5. ~Malformed(Encoded(b)) /\ PathUnescape(Encoded(b)) = <<b>>
    BY <2>3, <2>4, <2>7
  <2> QED BY <1>5, <2>5 DEF SlashedByte
<1>6. \/ EscapeByte(b) = <<b>> /\ b # Percent /\ b \notin Symbols \ {Dot, Equals}
      \/ EscapeByte(b) = <<Backslash, b>> /\ b # Percent /\ b \in Symbols \ {Dot, Equals}
      \/ EscapeByte(b) = Encoded(b) /\ b \notin Symbols \ {Dot, Equals}
  <2>1. Percent \notin Symbols /\ 47 \notin Symbols /\ Dot \in Symbols /\ Equals \in Symbols
    BY DEF Percent, Symbols, Dot, Equals, Quote, Comma, Backslash
  <2>2. CASE b \in {Dot, Percent, 47, Equals}
    BY <2>1, <2>2 DEF EscapeByte
  <2>3. CASE b \in Symbols \ {Dot, Equals}
    BY <2>1, <2>3 DEF EscapeByte
  <2>4. CASE b \notin {Dot, Percent, 47, Equals} /\ b \notin Symbols
    BY <2>4 DEF EscapeByte
  <2> QED BY <2>2, <2>3, <2>4
<1> QED BY <1>3, <1>4, <1>5, <1>6

LEMMA PathUnescapeEmpty == ~Malformed(<<>>) /\ PathUnescape(<<>>) = <<>>
<1>1. PICK s \in Seq(Nat) : s = <<>>
  <2>1. <<>> \in Seq(Nat)
    OBVIOUS
  <2> QED BY <2>1
<1>2. Len(s) = 0 /\ DOMAIN s = {}
  BY <1>1
<1>3. ~Malformed(s)
  BY <1>2 DEF Malformed
<1>4. [i \in 1..Len(s) |-> Decoded(s, i)] = <<>>
  BY <1>2
<1> QED BY <1>1, <1>3, <1>4, PathUnescapeIs, FlattenEmpty

(* Of an escaped value, only the backslashes before symbols are left.      *)
LEMMA PathUnescapeEscape ==
    ASSUME NEW v \in Seq(Apart)
    PROVE  PathUnescape(Escape(v)) = Slashed(v)
<1> DEFINE Good(u) == ~Malformed(Escape(u)) /\ PathUnescape(Escape(u)) = Slashed(u)
           G == {u \in Text(Apart) : Good(u)}
<1>1. <<>> \in G
  <2>1. Escape(<<>>) = <<>> /\ Slashed(<<>>) = <<>>
    <3>1. [i \in DOMAIN <<>> |-> EscapeByte(<<>>[i])] = <<>> /\ [i \in DOMAIN <<>> |-> SlashedByte(<<>>[i])] = <<>>
      OBVIOUS
    <3> QED BY <3>1, FlattenEmpty DEF Escape, Slashed
  <2> QED BY <2>1, PathUnescapeEmpty, TextEmpty
<1>2. ASSUME NEW u \in Text(Apart), NEW c \in Apart, u \in G PROVE Append(u, c) \in G
  <2>1. u \in Seq(Apart) /\ Append(u, c) \in Text(Apart)
    BY DEF Text
  <2>2. PICK x \in Seq(Nat), w \in Seq(Nat) :
           /\ x = Escape(u) /\ w = EscapeByte(c)
           /\ ~Malformed(x) /\ ~Malformed(w)
           /\ PathUnescape(x) = Slashed(u) /\ PathUnescape(w) = SlashedByte(c)
    <3>1. Escape(u) \in Seq(Nat)
      BY <2>1, EscapeType DEF Text
    <3>2. EscapeByte(c) \in Seq(Nat)
      BY EscapeByteShape
    <3> QED BY <1>2, <3>1, <3>2, EscapeByteUndone
  <2>3. Escape(Append(u, c)) = x \o w
    BY <2>1, <2>2, EscapeAppend DEF Cat
  <2>4. ~Malformed(x \o w) /\ PathUnescape(x \o w) = Cat(Slashed(u), SlashedByte(c))
    BY <2>2, PathUnescapeConcat
  <2>5. Slashed(Append(u, c)) = Cat(Slashed(u), SlashedByte(c))
    BY <2>1, SlashedAppend
  <2>6. Good(Append(u, c))
    BY <2>3, <2>4, <2>5
  <2> QED BY <2>1, <2>6
<1> HIDE DEF G
<1>3. \A u \in Text(Apart) : \A c \in Apart : u \in G => Append(u, c) \in G
  BY <1>2
<1>4. v \in G
  <2>1. v \in Text(Apart)
    BY DEF Text
  <2> QED BY <1>1, <1>3, <2>1, TextInduction
<1> QED BY <1>4 DEF G

-----------------------------------------------------------------------------
(* The backslashes that go.                                                 *)
Dropped(s, i) == s[i] = Backslash /\ i < Len(s) /\ s[i + 1] \in Symbols
Plain(s) == FlattenSeq([i \in 1..Len(s) |-> IF Dropped(s, i) THEN <<>> ELSE <<s[i]>>])

LEMMA UnescapeIs ==
    ASSUME NEW v, PathUnescape(v) \in Seq(Nat)
    PROVE  Unescape(v) = Plain(PathUnescape(v))
<1>1. PICK s \in Seq(Nat) : s = PathUnescape(v)
  OBVIOUS
<1>2. DOMAIN s = 1..Len(s)
  OBVIOUS
<1> QED BY <1>1, <1>2, Zenon DEF Unescape, Plain, Dropped

(* A text ends with a backslash, and one begins with a symbol.              *)
EndsWithBackslash(x) == x # <<>> /\ x[Len(x)] = Backslash
BeginsWithSymbol(w)  == w # <<>> /\ w[1] \in Symbols

(* The backslashes that go are known from each two bytes in a row.         *)
LEMMA PlainConcat ==
    ASSUME NEW x \in Seq(Nat), NEW w \in Seq(Nat), ~(EndsWithBackslash(x) /\ BeginsWithSymbol(w))
    PROVE  Plain(x \o w) = Cat(Plain(x), Plain(w))
<1>1. PICK n \in Nat, p \in Nat, s \in Seq(Nat) :
         n = Len(x) /\ p = Len(w) /\ s = x \o w
  <2>1. PICK s \in Seq(Nat) : s = x \o w
    BY ConcatProperties
  <2>2. Len(x) \in Nat /\ Len(w) \in Nat
    OBVIOUS
  <2> QED BY <2>1, <2>2
<1>2. /\ Len(s) = n + p
      /\ \A i \in 1..n : s[i] = x[i] /\ x[i] \in Nat
      /\ \A i \in 1..p : s[n + i] = w[i] /\ w[i] \in Nat
  BY <1>1, ConcatProperties
<1>3. ASSUME NEW i \in 1..n PROVE Dropped(s, i) <=> Dropped(x, i)
  <2>1. CASE i < n
    <3>1. i + 1 \in 1..n /\ i < Len(s) /\ i < Len(x)
      BY <1>1, <1>2, <2>1
    <3>2. s[i] = x[i] /\ s[i + 1] = x[i + 1]
      BY <1>2, <3>1
    <3> QED BY <3>1, <3>2 DEF Dropped
  <2>2. CASE i = n
    <3>1. ~Dropped(x, i)
      BY <1>1, <2>2 DEF Dropped
    <3>2. x # <<>> /\ x[Len(x)] = s[i]
      BY <1>1, <1>2, <2>2
    <3>3. ASSUME Dropped(s, i) PROVE FALSE
      <4>1. s[i] = Backslash /\ i < n + p /\ s[i + 1] \in Symbols
        BY <1>2, <3>3 DEF Dropped
      <4>2. 1 \in 1..p /\ s[n + 1] = w[1] /\ w # <<>>
        BY <1>1, <1>2, <2>2, <4>1
      <4> QED BY <2>2, <3>2, <4>1, <4>2 DEF EndsWithBackslash, BeginsWithSymbol
    <3> QED BY <3>1, <3>3
  <2> QED BY <2>1, <2>2
<1>4. ASSUME NEW i \in 1..p PROVE Dropped(s, n + i) <=> Dropped(w, i)
  <2>1. s[n + i] = w[i] /\ ((n + i) < Len(s) <=> i < Len(w))
    BY <1>1, <1>2
  <2>2. i < Len(w) => s[(n + i) + 1] = w[i + 1]
    <3>1. ASSUME i < Len(w) PROVE s[(n + i) + 1] = w[i + 1]
      <4>1. i + 1 \in 1..p /\ n + (i + 1) = (n + i) + 1
        BY <1>1, <3>1
      <4> QED BY <1>2, <4>1
    <3> QED BY <3>1
  <2> QED BY <2>1, <2>2 DEF Dropped
<1> DEFINE At(t, i) == IF Dropped(t, i) THEN <<>> ELSE <<t[i]>>
           fx == [i \in 1..n |-> At(x, i)]
           fw == [i \in 1..p |-> At(w, i)]
           fs == [i \in 1..(n + p) |-> At(s, i)]
<1>5. fx \in Seq(Text(Nat)) /\ fw \in Seq(Text(Nat)) /\ Len(fx) = n /\ Len(fw) = p
  <2>1. \A a \in Nat : <<a>> \in Text(Nat)
    BY DEF Text
  <2>2. <<>> \in Text(Nat)
    BY TextEmpty
  <2>3. (\A i \in 1..n : At(x, i) \in Text(Nat)) /\ \A i \in 1..p : At(w, i) \in Text(Nat)
    BY <1>2, <2>1, <2>2
  <2> HIDE DEF At
  <2> QED BY <2>3
<1>6. fs = fx \o fw
  <2>1. \A i \in 1..(n + p) : i \notin 1..n => i - n \in 1..p /\ n + (i - n) = i
    OBVIOUS
  <2>a. \A i \in 1..n : At(s, i) = At(x, i)
    BY <1>2, <1>3
  <2>b. \A i \in 1..p : At(s, n + i) = At(w, i)
    BY <1>2, <1>4
  <2> HIDE DEF At
  <2>2. \A i \in 1..(n + p) : fs[i] = IF i <= n THEN fx[i] ELSE fw[i - n]
    BY <2>a, <2>b, <2>1
  <2>3. fs \in [1..(n + p) -> Text(Nat)]
    <3>1. \A i \in 1..(n + p) : At(s, i) \in Text(Nat)
      <4>1. \A a \in Nat : <<a>> \in Text(Nat)
        BY DEF Text
      <4>2. <<>> \in Text(Nat)
        BY TextEmpty
      <4>3. \A i \in 1..(n + p) : s[i] \in Nat
        BY <1>2
      <4> QED BY <4>1, <4>2, <4>3 DEF At
    <3> QED BY <3>1, Zenon
  <2> HIDE DEF fs, fx, fw
  <2>4. fs \in Seq(Text(Nat)) /\ Len(fs) = n + p
    BY <2>3
  <2>5. fx \o fw \in Seq(Text(Nat)) /\ Len(fx \o fw) = n + p
        /\ \A i \in 1..(n + p) : (fx \o fw)[i] = IF i <= n THEN fx[i] ELSE fw[i - n]
    BY <1>5, ConcatProperties
  <2> QED BY <2>2, <2>4, <2>5, SeqEqual
<1>7. Plain(x) = FlattenSeq(fx) /\ Plain(w) = FlattenSeq(fw) /\ Plain(s) = FlattenSeq(fs)
  BY <1>1, <1>2, Zenon DEF Plain
<1> HIDE DEF fs, fx, fw
<1> QED BY <1>1, <1>5, <1>6, <1>7, FlattenConcat

LEMMA PlainOne ==
    ASSUME NEW b \in Nat
    PROVE  Plain(<<b>>) = <<b>>
<1>1. PICK s \in Seq(Nat) : s = <<b>>
  <2>1. <<b>> \in Seq(Nat)
    OBVIOUS
  <2> QED BY <2>1
<1>2. Len(s) = 1 /\ s[1] = b /\ DOMAIN s = 1..1
  BY <1>1
<1>3. [i \in 1..Len(s) |-> IF Dropped(s, i) THEN <<>> ELSE <<s[i]>>] = [i \in DOMAIN s |-> <<s[i]>>]
  BY <1>2 DEF Dropped
<1> QED BY <1>1, <1>3, FlattenSingles DEF Plain

(* With these the value is as it was.                                      *)
LEMMA PlainSlashed ==
    ASSUME NEW b \in Nat
    PROVE  Plain(SlashedByte(b)) = <<b>>
<1>1. CASE b \notin Symbols \ {Dot, Equals}
  BY <1>1, PlainOne DEF SlashedByte
<1>2. CASE b \in Symbols \ {Dot, Equals}
  <2>1. PICK s \in Seq(Nat) : s = <<Backslash, b>>
    <3>1. <<Backslash, b>> \in Seq(Nat)
      BY DEF Backslash
    <3> QED BY <3>1
  <2>2. Len(s) = 2 /\ s[1] = Backslash /\ s[2] = b
    BY <2>1
  <2>3. Dropped(s, 1) /\ ~Dropped(s, 2)
    BY <1>2, <2>2 DEF Dropped
  <2>4. [i \in 1..Len(s) |-> IF Dropped(s, i) THEN <<>> ELSE <<s[i]>>] = << <<>>, <<b>> >>
    BY <2>2, <2>3
  <2>5. PICK x \in Text(Nat), y \in Text(Nat) : x = <<b>> /\ y = <<>>
    <3>1. <<b>> \in Text(Nat)
      BY DEF Text
    <3> QED BY <3>1, TextEmpty
  <2>6. FlattenSeq(<<y, x>>) = x
    <3>1. FlattenSeq(<<y>>) = y
      BY FlattenOne
    <3>2. <<y>> \in Seq(Text(Nat)) /\ <<y, x>> = Append(<<y>>, x)
      OBVIOUS
    <3>3. Cat(y, x) = x
      BY <2>5, TextEmpty
    <3> QED BY <3>1, <3>2, <3>3, FlattenAppend
  <2>7. Plain(s) = <<b>>
    BY <2>4, <2>5, <2>6 DEF Plain
  <2> QED BY <1>2, <2>1, <2>7 DEF SlashedByte
<1> QED BY <1>1, <1>2

-----------------------------------------------------------------------------
(* No backslash of a text has a symbol behind it.                           *)
Unslashed(v) == \A i \in 1..(Len(v) - 1) : v[i] = Backslash => v[i + 1] \notin Symbols

(* Unescape undoes Escape, for every value without a byte under 16 and     *)
(* without a backslash before a symbol.                                    *)
THEOREM UnescapeEscape ==
    ASSUME NEW v \in Seq(Apart), Unslashed(v)
    PROVE  Unescape(Escape(v)) = v
<1> DEFINE Good(u) == /\ Slashed(u) \in Seq(Nat)
                      /\ Plain(Slashed(u)) = u
                      /\ EndsWithBackslash(Slashed(u)) => EndsWithBackslash(u)
           G == {u \in Text(Apart) : Unslashed(u) => Good(u)}
<1>1. <<>> \in G
  <2>1. Slashed(<<>>) = <<>> /\ Plain(<<>>) = <<>> /\ <<>> \in Seq(Nat)
    <3>1. [i \in DOMAIN <<>> |-> SlashedByte(<<>>[i])] = <<>>
      OBVIOUS
    <3>2. [i \in 1..Len(<<>>) |-> IF Dropped(<<>>, i) THEN <<>> ELSE << <<>>[i] >>] = <<>>
      OBVIOUS
    <3>3. <<>> \in Seq(Nat)
      OBVIOUS
    <3> QED BY <3>1, <3>2, <3>3, FlattenEmpty, Zenon DEF Slashed, Plain
  <2>2. Good(<<>>)
    BY <2>1 DEF EndsWithBackslash
  <2> HIDE DEF Good
  <2> QED BY <2>2, TextEmpty
<1>2. ASSUME NEW u \in Text(Apart), NEW c \in Apart, u \in G PROVE Append(u, c) \in G
  <2>1. u \in Seq(Apart) /\ Append(u, c) \in Text(Apart)
    BY DEF Text
  <2>2. SUFFICES ASSUME Unslashed(Append(u, c)) PROVE Good(Append(u, c))
    BY <2>1
  <2>3. Len(u) \in Nat /\ Len(Append(u, c)) = Len(u) + 1
        /\ (\A i \in 1..Len(u) : Append(u, c)[i] = u[i]) /\ Append(u, c)[Len(u) + 1] = c
    BY <2>1
  <2>4. Unslashed(u)
    <3>1. SUFFICES ASSUME NEW i \in 1..(Len(u) - 1), u[i] = Backslash PROVE u[i + 1] \notin Symbols
      BY DEF Unslashed
    <3>2. i \in 1..(Len(Append(u, c)) - 1) /\ i \in 1..Len(u) /\ i + 1 \in 1..Len(u)
      BY <2>3
    <3> QED BY <2>2, <2>3, <3>1, <3>2 DEF Unslashed
  <2>5. Good(u)
    BY <1>2, <2>4
  <2>6. ~(EndsWithBackslash(u) /\ c \in Symbols)
    <3>1. SUFFICES ASSUME EndsWithBackslash(u) PROVE c \notin Symbols
      OBVIOUS
    <3>2. Len(u) \in 1..Len(u) /\ Len(u) \in 1..(Len(Append(u, c)) - 1) /\ u[Len(u)] = Backslash
      BY <2>1, <2>3, <3>1 DEF EndsWithBackslash
    <3> QED BY <2>2, <2>3, <3>2 DEF Unslashed
  <2>7. PICK x \in Seq(Nat), w \in Seq(Nat) : x = Slashed(u) /\ w = SlashedByte(c)
    BY <2>5, Alphabets, SlashedByteType
  <2>8. Slashed(Append(u, c)) = x \o w
    BY <2>1, <2>7, SlashedAppend DEF Cat
  <2>9. w # <<>> /\ (w[1] \in Symbols => c \in Symbols) /\ (w[Len(w)] = Backslash => c = Backslash)
    BY <2>7 DEF SlashedByte
  <2>10. ~(EndsWithBackslash(x) /\ BeginsWithSymbol(w))
    BY <2>5, <2>6, <2>7, <2>9 DEF BeginsWithSymbol
  <2>11. Plain(x \o w) = Append(u, c)
    <3>1. Plain(x \o w) = Cat(Plain(x), Plain(w))
      BY <2>10, PlainConcat
    <3>2. Plain(x) = u /\ Plain(w) = <<c>>
      BY <2>5, <2>7, PlainSlashed, Alphabets
    <3>3. u \o <<c>> = Append(u, c)
      BY <2>1
    <3> QED BY <3>1, <3>2, <3>3 DEF Cat
  <2>12. x \o w \in Seq(Nat) /\ (x \o w)[Len(x \o w)] = w[Len(w)]
    BY <2>9
  <2>13. EndsWithBackslash(x \o w) => EndsWithBackslash(Append(u, c))
    <3>1. Append(u, c) # <<>> /\ Append(u, c)[Len(Append(u, c))] = c
      <4>1. Len(Append(u, c)) # 0
        BY <2>3
      <4> QED BY <2>3, <4>1
    <3> QED BY <2>9, <2>12, <3>1 DEF EndsWithBackslash
  <2> QED BY <2>8, <2>11, <2>12, <2>13
<1> HIDE DEF G
<1>3. \A u \in Text(Apart) : \A c \in Apart : u \in G => Append(u, c) \in G
  BY <1>2
<1>4. v \in G
  <2>1. v \in Text(Apart)
    BY DEF Text
  <2> QED BY <1>1, <1>3, <2>1, TextInduction
<1>5. Good(v)
  BY <1>4 DEF G
<1> HIDE DEF Good
<1>6. PathUnescape(Escape(v)) = Slashed(v)
  BY PathUnescapeEscape
<1>7. Slashed(v) \in Seq(Nat) /\ Plain(Slashed(v)) = v
  BY <1>5 DEF Good
<1> QED BY <1>6, <1>7, UnescapeIs

(* The name of a label is not changed by Unescape.                         *)
LEMMA UnescapeName ==
    ASSUME NEW k \in Seq(NameBytes)
    PROVE  Unescape(k) = k
<1>1. NameBytes \subseteq MetricBytes /\ NameBytes \subseteq Apart /\ Backslash \notin NameBytes
  BY DEF NameBytes, MetricBytes, Apart, Backslash, Underline
<1>2. k \in Seq(MetricBytes) /\ k \in Seq(Apart)
  BY <1>1, SeqMonotonic
<1>3. \A i \in 1..Len(k) : k[i] # Backslash
  BY <1>1
<1>4. Unslashed(k)
  BY <1>3 DEF Unslashed
<1> QED BY <1>2, <1>4, NamesAsTheyAre, UnescapeEscape

-----------------------------------------------------------------------------
(* What the loop of a split has made of the first i bytes.                  *)
PartsNext(before, b, separator) ==
    IF b = separator THEN Append(before, <<>>)
    ELSE [before EXCEPT ![Len(before)] = Append(@, b)]

(* The recursion of Split: its function exists and is the only one.        *)
IsParts(parts, text, separator) ==
    parts = [i \in 0..Len(text) |->
                IF i = 0 THEN << <<>> >> ELSE PartsNext(parts[i - 1], text[i], separator)]

LEMMA SplitIs ==
    ASSUME NEW text, NEW separator
    PROVE  Split(text, separator)
             = (CHOOSE parts : IsParts(parts, text, separator))[Len(text)]
  BY Zenon DEF Split, IsParts, PartsNext

LEMMA PartsUnique ==
    ASSUME NEW text \in Seq(Nat), NEW separator, NEW f, NEW g,
           IsParts(f, text, separator), IsParts(g, text, separator)
    PROVE  f[Len(text)] = g[Len(text)]
<1> DEFINE P == {i \in Nat : i <= Len(text) => f[i] = g[i]}
<1>1. Len(text) \in Nat
  OBVIOUS
<1>2. /\ f[0] = << <<>> >> /\ g[0] = << <<>> >>
      /\ \A i \in 1..Len(text) : f[i] = PartsNext(f[i - 1], text[i], separator)
                              /\ g[i] = PartsNext(g[i - 1], text[i], separator)
  <2>1. 0 \in 0..Len(text) /\ \A i \in 1..Len(text) : i \in 0..Len(text) /\ i # 0
    BY <1>1
  <2> QED BY <2>1, Zenon DEF IsParts
<1>3. 0 \in P
  BY <1>2
<1>4. ASSUME NEW i \in P PROVE i + 1 \in P
  <2>1. i \in Nat /\ (i <= Len(text) => f[i] = g[i])
    OBVIOUS
  <2>2. ASSUME i + 1 <= Len(text) PROVE f[i + 1] = g[i + 1]
    <3>1. i + 1 \in 1..Len(text) /\ (i + 1) - 1 = i /\ f[i] = g[i]
      BY <1>1, <2>1, <2>2
    <3> QED BY <1>2, <3>1
  <2> QED BY <2>1, <2>2
<1>5. P \in SUBSET Nat
  OBVIOUS
<1> HIDE DEF P
<1>6. P = Nat
  BY <1>3, <1>4, <1>5, Induction
<1> QED BY <1>1, <1>6 DEF P

LEMMA PartsOfEmpty == \A separator : IsParts([i \in 0..0 |-> << <<>> >>], <<>>, separator)
<1> TAKE separator
<1> DEFINE f == [i \in 0..0 |-> << <<>> >>]
<1>1. Len(<<>>) = 0
  OBVIOUS
<1>2. \A i \in 0..0 : i = 0
  OBVIOUS
<1>3. f = [i \in 0..0 |-> IF i = 0 THEN << <<>> >> ELSE PartsNext(f[i - 1], <<>>[i], separator)]
  BY <1>2
<1> HIDE DEF f
<1> QED BY <1>1, <1>3 DEF IsParts, f

LEMMA PartsAppend ==
    ASSUME NEW text \in Seq(Nat), NEW b \in Nat, NEW separator, NEW f, IsParts(f, text, separator)
    PROVE  \E g : /\ IsParts(g, Append(text, b), separator)
                  /\ g[Len(text) + 1] = PartsNext(f[Len(text)], b, separator)
<1> DEFINE n == Len(text)
           g == [i \in 0..(n + 1) |-> IF i <= n THEN f[i] ELSE PartsNext(f[n], b, separator)]
<1>1. n \in Nat /\ Len(Append(text, b)) = n + 1
      /\ (\A i \in 1..n : Append(text, b)[i] = text[i]) /\ Append(text, b)[n + 1] = b
  OBVIOUS
<1> HIDE DEF n
<1>2. f[0] = << <<>> >> /\ \A i \in 1..n : f[i] = PartsNext(f[i - 1], text[i], separator)
  <2>1. 0 \in 0..n /\ \A i \in 1..n : i \in 0..n /\ i # 0
    BY <1>1
  <2> QED BY <2>1, Zenon DEF IsParts, n
<1>3. (\A i \in 0..n : g[i] = f[i]) /\ g[n + 1] = PartsNext(f[n], b, separator)
  BY <1>1
<1>4. g = [i \in 0..(n + 1) |-> g[i]]
  BY Zenon
<1> HIDE DEF g
<1>5. ASSUME NEW i \in 0..(n + 1)
      PROVE  g[i] = IF i = 0 THEN << <<>> >> ELSE PartsNext(g[i - 1], Append(text, b)[i], separator)
  <2>1. CASE i = 0
    BY <1>1, <1>2, <1>3, <2>1
  <2>2. CASE i \in 1..n
    <3>1. i \in 0..n /\ i - 1 \in 0..n /\ i # 0
      BY <1>1, <2>2
    <3>2. g[i] = f[i] /\ g[i - 1] = f[i - 1]
      BY <1>3, <3>1
    <3> QED BY <1>1, <1>2, <2>2, <3>1, <3>2
  <2>3. CASE i = n + 1
    <3>1. i - 1 = n /\ n \in 0..n /\ i # 0
      BY <1>1, <2>3
    <3> QED BY <1>1, <1>3, <2>3, <3>1
  <2> QED BY <1>1, <2>1, <2>2, <2>3
<1>6. g = [i \in 0..(n + 1) |->
              IF i = 0 THEN << <<>> >> ELSE PartsNext(g[i - 1], Append(text, b)[i], separator)]
  BY <1>4, <1>5, Zenon
<1>7. IsParts(g, Append(text, b), separator)
  BY <1>1, <1>6, Zenon DEF IsParts
<1> QED BY <1>3, <1>7 DEF n

LEMMA PartsExist ==
    ASSUME NEW text \in Seq(Nat), NEW separator
    PROVE  \E parts : IsParts(parts, text, separator)
<1> DEFINE G == {u \in Text(Nat) : \E parts : IsParts(parts, u, separator)}
<1>1. <<>> \in G
  BY PartsOfEmpty, TextEmpty
<1>2. ASSUME NEW u \in Text(Nat), NEW b \in Nat, u \in G PROVE Append(u, b) \in G
  <2>1. u \in Seq(Nat) /\ Append(u, b) \in Text(Nat)
    BY DEF Text
  <2>2. PICK f : IsParts(f, u, separator)
    BY <1>2
  <2>3. \E g : IsParts(g, Append(u, b), separator)
    BY <2>1, <2>2, PartsAppend
  <2> QED BY <2>1, <2>3
<1> HIDE DEF G
<1>3. text \in G
  <2>1. text \in Text(Nat)
    BY DEF Text
  <2>2. \A u \in Text(Nat) : \A c \in Nat : u \in G => Append(u, c) \in G
    BY <1>2
  <2> QED BY <1>1, <2>1, <2>2, TextInduction
<1> QED BY <1>3 DEF G

LEMMA SplitEmpty == \A separator : Split(<<>>, separator) = << <<>> >>
<1> TAKE separator
<1>1. PICK t \in Seq(Nat) : t = <<>>
  <2>1. <<>> \in Seq(Nat)
    OBVIOUS
  <2> QED BY <2>1
<1>2. PICK f : f = [i \in 0..0 |-> << <<>> >>]
  OBVIOUS
<1>3. IsParts(f, t, separator) /\ f[0] = << <<>> >> /\ Len(t) = 0
  BY <1>1, <1>2, PartsOfEmpty
<1>4. PICK g : g = CHOOSE parts : IsParts(parts, t, separator)
  OBVIOUS
<1>5. IsParts(g, t, separator)
  BY <1>3, <1>4, Zenon
<1>6. Split(t, separator) = g[Len(t)]
  BY <1>4, SplitIs
<1>7. f[Len(t)] = g[Len(t)]
  BY <1>3, <1>5, PartsUnique
<1> QED BY <1>1, <1>3, <1>6, <1>7

(* One byte more ends the last part if it is the separator, and else is    *)
(* its last byte.                                                          *)
LEMMA SplitAppend ==
    ASSUME NEW text \in Seq(Nat), NEW b \in Nat, NEW separator
    PROVE  Split(Append(text, b), separator) = PartsNext(Split(text, separator), b, separator)
<1>1. PICK f : f = CHOOSE parts : IsParts(parts, text, separator)
  OBVIOUS
<1>2. IsParts(f, text, separator)
  BY <1>1, PartsExist, Zenon
<1>3. PICK t \in Seq(Nat) : t = Append(text, b) /\ Len(t) = Len(text) + 1
  <2>1. Append(text, b) \in Seq(Nat) /\ Len(Append(text, b)) = Len(text) + 1
    OBVIOUS
  <2> QED BY <2>1
<1>4. PICK g : IsParts(g, t, separator) /\ g[Len(text) + 1] = PartsNext(f[Len(text)], b, separator)
  BY <1>2, <1>3, PartsAppend
<1>5. PICK h : h = CHOOSE parts : IsParts(parts, t, separator)
  OBVIOUS
<1>6. IsParts(h, t, separator)
  BY <1>4, <1>5, Zenon
<1>7. g[Len(t)] = h[Len(t)]
  BY <1>4, <1>6, PartsUnique
<1>8. Split(text, separator) = f[Len(text)] /\ Split(t, separator) = h[Len(t)]
  BY <1>1, <1>5, SplitIs
<1> QED BY <1>3, <1>4, <1>7, <1>8

(* To replace the last part.                                               *)
LEMMA LastReplaced ==
    ASSUME NEW A, NEW before \in Seq(A), NEW a \in A, NEW c, Append(a, c) \in A
    PROVE  [Append(before, a) EXCEPT ![Len(Append(before, a))] = Append(@, c)]
             = Append(before, Append(a, c))
<1>1. PICK n \in Nat, t \in Seq(A), d \in A :
         n = Len(before) /\ t = Append(before, a) /\ d = Append(a, c)
  <2>1. Append(before, a) \in Seq(A) /\ Len(before) \in Nat
    OBVIOUS
  <2> QED BY <2>1
<1>2. Len(t) = n + 1 /\ t[n + 1] = a /\ DOMAIN t = 1..(n + 1) /\ \A i \in 1..n : t[i] = before[i]
  BY <1>1
<1>3. [t EXCEPT ![n + 1] = d] = Append(before, d)
  <2>1. [t EXCEPT ![n + 1] = d] \in Seq(A) /\ Len([t EXCEPT ![n + 1] = d]) = n + 1
    BY <1>2
  <2>2. Append(before, d) \in Seq(A) /\ Len(Append(before, d)) = n + 1
    BY <1>1
  <2>3. PICK r \in Seq(A), q \in Seq(A) :
           /\ r = [t EXCEPT ![n + 1] = d] /\ q = Append(before, d) /\ Len(r) = n + 1 /\ Len(q) = n + 1
    BY <2>1, <2>2
  <2>4. q[n + 1] = d /\ \A i \in 1..n : q[i] = before[i]
    BY <1>1, <2>3
  <2>5. r[n + 1] = d /\ \A i \in 1..n : r[i] = t[i]
    BY <1>2, <2>3
  <2>6. \A i \in 1..(n + 1) : r[i] = q[i]
    <3>1. \A i \in 1..(n + 1) : i \in 1..n \/ i = n + 1
      OBVIOUS
    <3> QED BY <1>2, <2>4, <2>5, <3>1
  <2> QED BY <2>3, <2>6, SeqEqual
<1>4. [t EXCEPT ![n + 1] = Append(@, c)] = [t EXCEPT ![n + 1] = d]
  BY <1>1, <1>2
<1> QED BY <1>1, <1>2, <1>3, <1>4

(* A byte behind two texts is behind the second.                           *)
LEMMA CatAppend ==
    \A A : \A z, u \in Seq(A) : \A c \in A :
        Cat(z, u) \in Seq(A) /\ Append(Cat(z, u), c) = Cat(z, Append(u, c))
<1> TAKE A
<1> TAKE z, u \in Seq(A)
<1> TAKE c \in A
<1>1. PICK d \in Seq(A), r \in Seq(A) : d = <<c>> /\ r = z \o u
  <2>1. <<c>> \in Seq(A) /\ z \o u \in Seq(A)
    BY ConcatProperties
  <2> QED BY <2>1
<1>2. Append(r, c) = r \o d /\ Append(u, c) = u \o d
  BY <1>1, AppendIsConcat
<1>3. (z \o u) \o d = z \o (u \o d)
  BY <1>1, ConcatAssociative
<1> QED BY <1>1, <1>2, <1>3 DEF Cat

(* The text behind a separator, up to the next one.                         *)
LEMMA SplitNext ==
    ASSUME NEW x \in Text(Nat), NEW separator \in Nat, NEW before \in Seq(Text(Nat)),
           Split(x, separator) = before, NEW y \in Text(Nat \ {separator})
    PROVE  Split(Cat(Cat(x, <<separator>>), y), separator) = Append(before, y)
<1> DEFINE B == Nat \ {separator}
           Good(u) == Split(Cat(Cat(x, <<separator>>), u), separator) = Append(before, u)
           G == {u \in Text(B) : Good(u)}
<1>1. PICK z \in Seq(Nat) : z = Cat(x, <<separator>>) /\ z = Append(x, separator)
  <2>1. x \in Seq(Nat)
    BY DEF Text
  <2>2. x \o <<separator>> = Append(x, separator) /\ Append(x, separator) \in Seq(Nat)
    BY <2>1
  <2> QED BY <2>2 DEF Cat
<1>2. Split(z, separator) = Append(before, <<>>)
  <2>1. x \in Seq(Nat)
    BY DEF Text
  <2> QED BY <1>1, <2>1, SplitAppend DEF PartsNext
<1>3. <<>> \in G
  <2>1. Cat(z, <<>>) = z
    BY TextEmpty DEF Text
  <2> QED BY <1>1, <1>2, <2>1, TextEmpty
<1>4. ASSUME NEW u \in Text(B), NEW c \in B, u \in G PROVE Append(u, c) \in G
  <2>1. u \in Seq(B) /\ Append(u, c) \in Text(B) /\ c \in Nat /\ c # separator
    BY DEF Text
  <2>2. u \in Seq(Nat)
    BY <2>1, SeqMonotonic
  <2>3. PICK t \in Seq(Nat) : t = Cat(z, u) /\ Append(t, c) = Cat(z, Append(u, c))
    <3>1. PICK v \in Seq(Nat), b \in Nat : v = u /\ b = c
      BY <2>1, <2>2
    <3>2. Cat(z, v) \in Seq(Nat) /\ Append(Cat(z, v), b) = Cat(z, Append(v, b))
      BY CatAppend
    <3> QED BY <3>1, <3>2
  <2>4. Split(t, separator) = Append(before, u)
    BY <1>1, <1>4, <2>3
  <2>5. Split(Append(t, c), separator) = PartsNext(Append(before, u), c, separator)
    <3>1. PICK b \in Nat : b = c
      BY <2>1
    <3>2. Split(Append(t, b), separator) = PartsNext(Split(t, separator), b, separator)
      BY SplitAppend
    <3> QED BY <2>4, <3>1, <3>2
  <2>6. PartsNext(Append(before, u), c, separator) = Append(before, Append(u, c))
    <3>1. [Append(before, u) EXCEPT ![Len(Append(before, u))] = Append(@, c)] = Append(before, Append(u, c))
      <4>1. PICK a \in Text(Nat), d \in Text(Nat) : a = u /\ d = Append(u, c)
        <5>1. Append(u, c) \in Seq(Nat)
          BY <2>1, <2>2
        <5> QED BY <2>2, <5>1 DEF Text
      <4> QED BY <4>1, LastReplaced
    <3> QED BY <2>1, <3>1 DEF PartsNext
  <2>7. Good(Append(u, c))
    BY <1>1, <2>3, <2>5, <2>6
  <2> HIDE DEF Good
  <2> QED BY <2>1, <2>7
<1> HIDE DEF G, B
<1>5. y \in G
  <2>1. \A u \in Text(B) : \A c \in B : u \in G => Append(u, c) \in G
    BY <1>4
  <2>2. y \in Text(B)
    BY DEF B
  <2> QED BY <1>3, <2>1, <2>2, TextInduction
<1> QED BY <1>5 DEF G

(* A text without separators is a single part.                             *)
LEMMA SplitFirst ==
    ASSUME NEW separator \in Nat, NEW y \in Text(Nat \ {separator})
    PROVE  Split(y, separator) = <<y>>
<1> DEFINE B == Nat \ {separator}
           G == {u \in Text(B) : Split(u, separator) = <<u>>}
<1>1. <<>> \in G
  BY SplitEmpty, TextEmpty
<1>2. ASSUME NEW u \in Text(B), NEW c \in B, u \in G PROVE Append(u, c) \in G
  <2>1. u \in Seq(B) /\ Append(u, c) \in Text(B) /\ c \in Nat /\ c # separator
    BY DEF Text
  <2>2. u \in Seq(Nat)
    BY <2>1, SeqMonotonic
  <2>3. Split(u, separator) = <<u>>
    BY <1>2
  <2>4. Split(Append(u, c), separator) = PartsNext(<<u>>, c, separator)
    BY <2>1, <2>2, <2>3, SplitAppend
  <2>5. PartsNext(<<u>>, c, separator) = <<Append(u, c)>>
    <3>1. [<<u>> EXCEPT ![Len(<<u>>)] = Append(@, c)] = <<Append(u, c)>>
      OBVIOUS
    <3> QED BY <2>1, <3>1 DEF PartsNext
  <2> QED BY <2>1, <2>4, <2>5
<1> HIDE DEF G, B
<1>3. y \in G
  <2>1. \A u \in Text(B) : \A c \in B : u \in G => Append(u, c) \in G
    BY <1>2
  <2>2. y \in Text(B)
    BY DEF B
  <2> QED BY <1>1, <2>1, <2>2, TextInduction
<1> QED BY <1>3 DEF G

-----------------------------------------------------------------------------
(* No dot is in an escaped value: Split cuts a path at its own dots only.  *)
NotDot == Nat \ {Dot}

LEMMA EscapeNoDot ==
    ASSUME NEW v \in Seq(Apart)
    PROVE  Escape(v) \in Text(NotDot)
<1>1. ASSUME NEW b \in Apart PROVE EscapeByte(b) \in Text(NotDot)
  <2>1. b \in Nat /\ ~(b < 16) /\ b \div 16 \in 0..15 /\ b % 16 \in 0..15
    BY DEF Apart
  <2>2. HexDigit(b \div 16) \in NotDot /\ HexDigit(b % 16) \in NotDot /\ Percent \in NotDot
        /\ Backslash \in NotDot
    BY <2>1 DEF HexDigit, NotDot, Dot, Percent, Backslash
  <2>3. Encoded(b) \in Seq(NotDot)
    <3>1. PICK d \in NotDot, e \in NotDot, p \in NotDot :
             d = HexDigit(b \div 16) /\ e = HexDigit(b % 16) /\ p = Percent
      BY <2>2
    <3>2. Encoded(b) = <<p, d, e>>
      BY <2>1, <3>1 DEF Encoded
    <3> QED BY <3>2
  <2>4. \/ EscapeByte(b) = Encoded(b)
        \/ EscapeByte(b) = <<Backslash, b>> /\ b # Dot
        \/ EscapeByte(b) = <<b>> /\ b # Dot
    <3>1. CASE b \in {Dot, Percent, 47, Equals}
      <4>1. b \notin Symbols \ {Dot, Equals} /\ Dot \in Symbols /\ Equals \in Symbols
        BY <3>1 DEF Symbols, Dot, Percent, Equals, Quote, Comma, Backslash
      <4> QED BY <3>1, <4>1 DEF EscapeByte
    <3>2. CASE b \in Symbols \ {Dot, Equals}
      <4>1. b \notin {Dot, Percent, 47, Equals}
        BY <3>2 DEF Symbols, Dot, Percent, Equals, Quote, Comma, Backslash
      <4> QED BY <3>2, <4>1 DEF EscapeByte
    <3>3. CASE b \notin {Dot, Percent, 47, Equals} /\ b \notin Symbols
      BY <3>3 DEF EscapeByte
    <3> QED BY <3>1, <3>2, <3>3
  <2>5. b # Dot => b \in NotDot
    BY <2>1 DEF NotDot
  <2>6. CASE EscapeByte(b) = <<Backslash, b>> /\ b # Dot
    BY <2>2, <2>5, <2>6 DEF Text
  <2>7. CASE EscapeByte(b) = <<b>> /\ b # Dot
    BY <2>5, <2>7 DEF Text
  <2> QED BY <2>3, <2>4, <2>6, <2>7 DEF Text
<1>2. [i \in DOMAIN v |-> EscapeByte(v[i])] \in Seq(Text(NotDot))
  <2>1. \A i \in 1..Len(v) : EscapeByte(v[i]) \in Text(NotDot)
    BY <1>1
  <2> QED BY <2>1
<1> QED BY <1>2, FlattenType DEF Escape

(* An escaped value is empty only if the value is.                         *)
LEMMA EscapeByteFilled ==
    ASSUME NEW b \in Apart
    PROVE  EscapeByte(b) \in Seq(Nat) /\ EscapeByte(b) # <<>>
<1>1. EscapeByte(b) \in Seq(Nat)
  BY EscapeByteShape
<1>2. PICK w \in Seq(Nat) : w = EscapeByte(b)
  BY <1>1
<1>3. (Len(w) = 1 /\ w[1] = b) \/ (Len(w) = 2 /\ w[1] = Backslash) \/ (Len(w) = 3 /\ w[1] = Percent)
  BY <1>2, EscapeByteShape
<1>4. w # <<>>
  BY <1>3
<1> QED BY <1>2, <1>4

LEMMA EscapeFilled ==
    ASSUME NEW v \in Seq(Apart), v # <<>>
    PROVE  Escape(v) # <<>>
<1>1. PICK u \in Seq(Apart), b \in Apart : v = Append(u, b)
  BY SequenceEmptyOrAppend
<1>2. EscapeByte(b) \in Seq(Nat) /\ EscapeByte(b) # <<>>
  BY EscapeByteFilled
<1>3. PICK x \in Seq(Nat), w \in Seq(Nat) : x = Escape(u) /\ w = EscapeByte(b) /\ w # <<>>
  BY <1>2, EscapeType DEF Text
<1>4. Escape(v) = x \o w
  BY <1>1, <1>3, EscapeAppend DEF Cat
<1>5. x \o w # <<>>
  <2>1. Len(w) # 0 /\ Len(x \o w) = Len(x) + Len(w) /\ Len(x) \in Nat /\ Len(w) \in Nat
    BY <1>3
  <2> QED BY <2>1
<1> QED BY <1>4, <1>5

-----------------------------------------------------------------------------
(* TrimPrefix takes the prefix off and TrimDots has nothing to do where no *)
(* dot is at the ends.                                                     *)
LEMMA TrimPrefixOf ==
    ASSUME NEW z \in Text(Nat)
    PROVE  TrimPrefix(Cat(Prefix, z)) = z
<1>1. PICK p \in Seq(Nat) : p = Prefix
  <2>1. Bytes \in SUBSET Nat
    BY DEF Bytes
  <2> QED BY <2>1, NamesAssumption, NamesAreTexts DEF Text
<1>2. z \in Seq(Nat)
  BY DEF Text
<1>3. PICK t \in Seq(Nat) : t = p \o z
  BY <1>1, <1>2, ConcatProperties
<1>4. /\ Len(p) \in Nat /\ Len(z) \in Nat /\ Len(t) = Len(p) + Len(z)
      /\ \A i \in 1..Len(p) : t[i] = p[i]
      /\ \A i \in 1..Len(z) : t[Len(p) + i] = z[i]
  BY <1>2, <1>3, ConcatProperties
<1>5. IsPrefix(p, t)
  <2>1. SubSeq(p, 1, Len(p)) = SubSeq(t, 1, Len(p))
    BY <1>4
  <2> QED BY <1>4, <2>1 DEF IsPrefix
<1>6. SubSeq(t, Len(p) + 1, Len(t)) = z
  BY <1>2, <1>3
<1> QED BY <1>1, <1>3, <1>5, <1>6 DEF TrimPrefix, Cat

LEMMA TrimDotsNone ==
    ASSUME NEW z \in Seq(Nat), z # <<>>, z[1] # Dot, z[Len(z)] # Dot
    PROVE  TrimDots(z) = z
<1> DEFINE rest == {i \in DOMAIN z : z[i] # Dot}
           first == CHOOSE i \in rest : \A j \in rest : i <= j
           last  == CHOOSE i \in rest : \A j \in rest : i >= j
<1>1. Len(z) \in Nat /\ Len(z) # 0 /\ DOMAIN z = 1..Len(z)
  OBVIOUS
<1>2. 1 \in rest /\ Len(z) \in rest /\ \A j \in rest : j \in 1..Len(z)
  BY <1>1
<1>3. TrimDots(z) = IF rest = {} THEN <<>> ELSE SubSeq(z, first, last)
  BY DEF TrimDots
<1> HIDE DEF rest
<1>4. first = 1
  <2>1. \A j \in rest : 1 <= j
    BY <1>2
  <2>2. first \in rest /\ \A j \in rest : first <= j
    BY <1>2, <2>1
  <2> HIDE DEF first
  <2> QED BY <1>2, <2>1, <2>2
<1>5. last = Len(z)
  <2>1. \A j \in rest : Len(z) >= j
    BY <1>1, <1>2
  <2>2. last \in rest /\ \A j \in rest : last >= j
    BY <1>2, <2>1
  <2> HIDE DEF last
  <2> QED BY <1>2, <2>1, <2>2
<1> HIDE DEF first, last
<1> QED BY <1>2, <1>3, <1>4, <1>5, SubSeqFull

-----------------------------------------------------------------------------
(* The names of some labels of a metric, and what these labels make of the  *)
(* path.                                                                    *)
Filled(m) == m.name # <<>> /\ \A k \in DOMAIN m.labels : m.labels[k] # <<>>

Labels(m, u, format) == [i \in 1..Len(u) |-> LabelText(u[i], m.labels[u[i]], format, FALSE)]
Body(m, u, format)   == Cat(m.name, FlattenSeq(Labels(m, u, format)))

(* With one label more, its text is put behind the others.                 *)
LEMMA LabelsNext ==
    ASSUME NEW format \in {"path", "tags"}, NEW m, Named(m), Kept(m, format),
           NEW u \in Seq(DOMAIN m.labels), NEW k \in DOMAIN m.labels
    PROVE  /\ LabelText(k, m.labels[k], format, FALSE) \in Text(Nat)
           /\ FlattenSeq(Labels(m, u, format)) \in Text(Nat)
           /\ FlattenSeq(Labels(m, Append(u, k), format))
                = Cat(FlattenSeq(Labels(m, u, format)), LabelText(k, m.labels[k], format, FALSE))
<1> DEFINE D == DOMAIN m.labels
           L(d) == LabelText(d, m.labels[d], format, FALSE)
<1>1. \A d \in D : L(d) \in Text(Nat)
  <2>1. ASSUME NEW d \in D PROVE L(d) \in Text(Nat)
    <3>1. d \in Seq(NameBytes) /\ m.labels[d] \in Values(format)
      <4>1. \A S : \A t \in Seq(S) : \A i \in 1..Len(t) : t[i] \in S
        OBVIOUS
      <4>2. \A i \in 1..Len(LabelNames) : LabelNames[i] \in Seq(NameBytes)
        BY <4>1, NamesAssumption
      <4> QED BY <4>2 DEF Named, Kept
    <3>2. PICK v \in Values(format) : v = m.labels[d]
      BY <3>1
    <3>3. format \in Formats
      BY DEF Formats
    <3> QED BY <3>1, <3>2, <3>3, LabelType
  <2> QED BY <2>1
<1>2. u \in Seq(D) /\ k \in D
  OBVIOUS
<1>3. Labels(m, u, format) = [i \in 1..Len(u) |-> L(u[i])]
      /\ Labels(m, Append(u, k), format) = [i \in 1..Len(Append(u, k)) |-> L(Append(u, k)[i])]
  BY DEF Labels
<1> HIDE DEF D, L
<1>4. [i \in 1..Len(u) |-> L(u[i])] \in Seq(Text(Nat))
  <2>1. \A i \in 1..Len(u) : L(u[i]) \in Text(Nat)
    BY <1>1, <1>2
  <2> QED BY <2>1
<1>5. [i \in 1..Len(Append(u, k)) |-> L(Append(u, k)[i])] = Append([i \in 1..Len(u) |-> L(u[i])], L(k))
  BY <1>2
<1>6. L(k) \in Text(Nat)
  BY <1>1, <1>2
<1>7. FlattenSeq(Labels(m, u, format)) \in Text(Nat)
  BY <1>3, <1>4, FlattenType
<1>8. PICK s \in Seq(Text(Nat)) : s = [i \in 1..Len(u) |-> L(u[i])]
  BY <1>4
<1>9. FlattenSeq(Append(s, L(k))) = Cat(FlattenSeq(s), L(k))
  BY <1>6, FlattenAppend
<1> QED BY <1>3, <1>5, <1>6, <1>7, <1>8, <1>9 DEF L

LEMMA LabelsNone == \A m, format : FlattenSeq(Labels(m, <<>>, format)) = <<>>
<1> TAKE m, format
<1>1. Labels(m, <<>>, format) = <<>>
  BY DEF Labels
<1> QED BY <1>1, FlattenEmpty

(* The texts of all labels.                                                *)
LEMMA LabelsAre ==
    ASSUME NEW format \in {"path", "tags"}, NEW m, Named(m)
    PROVE  LabelTexts(m, format) = Labels(m, Keys(m), format)
<1>1. \A k, v : \A first \in BOOLEAN :
         LabelText(k, v, format, first) = LabelText(k, v, format, FALSE)
  BY LabelTextIs
<1>2. DOMAIN Keys(m) = 1..Len(Keys(m))
  BY KeysAre
<1>3. \A i \in 1..Len(Keys(m)) :
         LabelText(Keys(m)[i], m.labels[Keys(m)[i]], format, i = 1)
           = LabelText(Keys(m)[i], m.labels[Keys(m)[i]], format, FALSE)
  BY <1>1
<1> QED BY <1>2, <1>3, Zenon DEF LabelTexts, Labels

(* The path of a metric, in the formats that are read. *)
LEMMA PathBody ==
    ASSUME NEW format \in {"path", "tags"}, NEW m, Named(m)
    PROVE  DefaultPath(m, format) = Cat(Cat(Prefix, m.name), FlattenSeq(Labels(m, Keys(m), format)))
<1>1. Escape(m.name) = m.name
  BY NamesAsTheyAre DEF Named
<1>2. Rest(m, format) = FlattenSeq(LabelTexts(m, format))
  BY DEF Rest
<1> QED BY <1>1, <1>2, LabelsAre, PathParts

-----------------------------------------------------------------------------
(* A value that comes back as it was written.                              *)
ReadableValue(v) == v \in Seq(Apart) /\ Unslashed(v)

(* What a text ends with.                                                  *)
LEMMA EndOf ==
    ASSUME NEW x \in Text(Nat), NEW w \in Text(Nat), w # <<>>
    PROVE  Cat(x, w) # <<>> /\ Cat(x, w)[Len(Cat(x, w))] = w[Len(w)]
<1>1. x \in Seq(Nat) /\ w \in Seq(Nat) /\ Len(w) \in Nat /\ Len(w) # 0 /\ Len(x) \in Nat
  BY DEF Text
<1>2. Len(x \o w) = Len(x) + Len(w) /\ (x \o w)[Len(x) + Len(w)] = w[Len(w)]
  BY <1>1
<1>3. x \o w # <<>>
  BY <1>1, <1>2
<1> QED BY <1>2, <1>3 DEF Cat

LEMMA NotDots == NotDot \in SUBSET Nat /\ NameBytes \in SUBSET NotDot /\ MetricBytes \in SUBSET NotDot
  BY DEF NotDot, NameBytes, MetricBytes, Dot, Underline

(* The nodes of the path that some labels make.                             *)
NodesAre(m, u, s) ==
    /\ s \in Seq(Text(Nat)) /\ Len(s) = 2 * Len(u) + 1
    /\ s[1] = m.name
    /\ \A i \in 1..Len(u) : s[2 * i] = u[i] /\ s[2 * i + 1] = Escape(m.labels[u[i]])

(* With one label more there are two nodes more.                           *)
LEMMA NodesNext ==
    ASSUME NEW m, NEW K, NEW u \in Seq(K), NEW s, NodesAre(m, u, s), NEW k \in K,
           NEW p \in Text(Nat), p = Escape(m.labels[k]), k \in Text(Nat)
    PROVE  NodesAre(m, Append(u, k), Append(Append(s, k), p))
<1>1. PICK n \in Nat : n = Len(u)
  OBVIOUS
<1>2. /\ s \in Seq(Text(Nat)) /\ Len(s) = 2 * n + 1
      /\ s[1] = m.name
      /\ \A i \in 1..n : s[2 * i] = u[i] /\ s[2 * i + 1] = Escape(m.labels[u[i]])
  BY <1>1 DEF NodesAre
<1>3. PICK r \in Seq(Text(Nat)) : r = Append(s, k)
  <2>1. Append(s, k) \in Seq(Text(Nat))
    BY <1>2
  <2> QED BY <2>1
<1>a. PICK t \in Seq(Text(Nat)) : t = Append(r, p)
  <2>1. Append(r, p) \in Seq(Text(Nat))
    OBVIOUS
  <2> QED BY <2>1
<1>4. Len(t) = 2 * n + 3 /\ t[2 * n + 2] = k /\ t[2 * n + 3] = p /\ \A j \in 1..(2 * n + 1) : t[j] = s[j]
  <2>2. Len(r) = 2 * n + 2 /\ r[2 * n + 2] = k /\ \A j \in 1..(2 * n + 1) : r[j] = s[j]
    <3>1. Len(r) = Len(s) + 1 /\ r[Len(s) + 1] = k /\ \A j \in 1..Len(s) : r[j] = s[j]
      <4>1. s \in Seq(Text(Nat))
        BY <1>2
      <4> QED BY <1>3, <4>1, AppendProperties
    <3>2. (2 * n + 1) + 1 = 2 * n + 2
      OBVIOUS
    <3> QED BY <1>2, <3>1, <3>2
  <2>3. Len(t) = (2 * n + 2) + 1 /\ t[(2 * n + 2) + 1] = p /\ \A j \in 1..(2 * n + 2) : t[j] = r[j]
    BY <1>a, <2>2, AppendProperties
  <2>4. (2 * n + 2) + 1 = 2 * n + 3 /\ 2 * n + 2 \in 1..(2 * n + 2)
        /\ \A j \in 1..(2 * n + 1) : j \in 1..(2 * n + 2)
    OBVIOUS
  <2> QED BY <2>2, <2>3, <2>4
<1>5. PICK q \in Seq(K) : q = Append(u, k) /\ Len(q) = n + 1 /\ q[n + 1] = k /\ \A i \in 1..n : q[i] = u[i]
  <2>1. Append(u, k) \in Seq(K) /\ Len(Append(u, k)) = Len(u) + 1 /\ Append(u, k)[Len(u) + 1] = k
        /\ \A i \in 1..Len(u) : Append(u, k)[i] = u[i]
    BY AppendProperties
  <2> QED BY <1>1, <2>1
<1>6. ASSUME NEW i \in 1..(n + 1) PROVE t[2 * i] = q[i] /\ t[2 * i + 1] = Escape(m.labels[q[i]])
  <2>1. CASE i \in 1..n
    <3>1. 2 * i \in 1..(2 * n + 1) /\ 2 * i + 1 \in 1..(2 * n + 1)
      BY <2>1
    <3>2. t[2 * i] = s[2 * i] /\ t[2 * i + 1] = s[2 * i + 1]
      BY <1>4, <3>1
    <3>3. q[i] = u[i]
      BY <1>5, <2>1
    <3> QED BY <1>2, <2>1, <3>2, <3>3
  <2>2. CASE i = n + 1
    <3>1. 2 * i = 2 * n + 2 /\ 2 * i + 1 = 2 * n + 3
      BY <2>2
    <3>2. q[i] = k
      BY <1>5, <2>2
    <3>3. t[2 * i] = k /\ t[2 * i + 1] = p
      BY <1>4, <3>1
    <3> QED BY <3>2, <3>3
  <2> QED BY <2>1, <2>2
<1>7. Len(t) = 2 * Len(q) + 1
  <2>1. 2 * (n + 1) + 1 = 2 * n + 3
    OBVIOUS
  <2> QED BY <1>4, <1>5, <2>1
<1>8. t[1] = m.name
  <2>1. 1 \in 1..(2 * n + 1)
    OBVIOUS
  <2> QED BY <1>2, <1>4, <2>1
<1>9. \A i \in 1..Len(q) : t[2 * i] = q[i] /\ t[2 * i + 1] = Escape(m.labels[q[i]])
  BY <1>5, <1>6
<1> QED BY <1>3, <1>a, <1>5, <1>7, <1>8, <1>9 DEF NodesAre

(* What the path of a metric with these labels is, behind the prefix: its   *)
(* nodes, and that no dot is at its ends.                                   *)
Noded(m, u) ==
    /\ Body(m, u, "path") \in Text(Nat)
    /\ Body(m, u, "path") # <<>>
    /\ Body(m, u, "path")[1] # Dot /\ Body(m, u, "path")[Len(Body(m, u, "path"))] # Dot
    /\ NodesAre(m, u, Split(Body(m, u, "path"), Dot))

LEMMA NodedNone ==
    ASSUME NEW m, Named(m), Filled(m)
    PROVE  Noded(m, <<>>)
<1>1. PICK a \in Seq(MetricBytes) : a = m.name /\ a # <<>>
  BY DEF Named, Filled
<1>2. a \in Text(Nat) /\ a \in Text(NotDot) /\ a \in Seq(NotDot)
  BY NotDots, Alphabets, SeqMonotonic DEF Text
<1>3. Body(m, <<>>, "path") = a
  <2>1. Cat(a, <<>>) = a
    BY <1>2, TextEmpty
  <2> QED BY <1>1, <2>1, LabelsNone DEF Body
<1>4. a[1] # Dot /\ a[Len(a)] # Dot
  <2>1. Len(a) \in Nat /\ Len(a) # 0
    BY <1>1
  <2>2. \A i \in 1..Len(a) : a[i] \in NotDot
    BY <1>2
  <2>3. 1 \in 1..Len(a) /\ Len(a) \in 1..Len(a)
    BY <2>1
  <2> QED BY <2>2, <2>3 DEF NotDot
<1>5. Split(a, Dot) = <<a>>
  <2>1. Dot \in Nat /\ a \in Text(Nat \ {Dot})
    BY <1>2 DEF NotDot, Dot
  <2> QED BY <2>1, SplitFirst
<1>6. NodesAre(m, <<>>, <<a>>)
  <2>1. <<a>> \in Seq(Text(Nat)) /\ Len(<<a>>) = 2 * Len(<<>>) + 1 /\ <<a>>[1] = a
    BY <1>2
  <2>2. 1..Len(<<>>) = {}
    OBVIOUS
  <2> QED BY <1>1, <2>1, <2>2 DEF NodesAre
<1> QED BY <1>1, <1>2, <1>3, <1>4, <1>5, <1>6 DEF Noded

LEMMA NodedNext ==
    ASSUME NEW m, Named(m), Filled(m), Kept(m, "path"),
           NEW u \in Seq(DOMAIN m.labels), Noded(m, u), NEW k \in DOMAIN m.labels
    PROVE  Noded(m, Append(u, k))
<1>1. k \in Seq(NameBytes) /\ m.labels[k] \in Seq(Apart) /\ m.labels[k] # <<>>
  <2>1. \A S : \A t \in Seq(S) : \A i \in 1..Len(t) : t[i] \in S
    OBVIOUS
  <2>2. \A i \in 1..Len(LabelNames) : LabelNames[i] \in Seq(NameBytes)
    BY <2>1, NamesAssumption
  <2> QED BY <2>2 DEF Named, Kept, Values, Filled
<1>2. k \in Text(Nat) /\ k \in Text(NotDot)
  BY <1>1, NotDots, Alphabets, SeqMonotonic DEF Text
<1>3. PICK p \in Text(Nat) : p = Escape(m.labels[k]) /\ p \in Text(NotDot) /\ p # <<>>
  BY <1>1, EscapeType, EscapeNoDot, EscapeFilled
<1>4. PICK z \in Text(Nat), s \in Seq(Text(Nat)) :
         /\ z = Body(m, u, "path") /\ z # <<>> /\ z[1] # Dot
         /\ s = Split(z, Dot) /\ NodesAre(m, u, s)
  BY DEF Noded, NodesAre
<1>5. PICK d \in Text(Nat) : d = <<Dot>>
  BY Marks
<1>6. PICK x \in Text(Nat), y \in Text(Nat), w \in Text(Nat) :
         x = Cat(Cat(z, d), k) /\ y = Cat(Cat(x, d), p) /\ w = Cat(Cat(z, d), k)
  BY <1>2, TextConcat
<1>7. Body(m, Append(u, k), "path") = y
  <2>1. PICK l \in Text(Nat), f \in Text(Nat), a \in Text(Nat) :
           /\ l = LabelText(k, m.labels[k], "path", FALSE)
           /\ f = FlattenSeq(Labels(m, u, "path"))
           /\ a = m.name
    <3>1. m.name \in Text(Nat)
      BY NamesAreTexts, Alphabets DEF Named
    <3> QED BY <3>1, LabelsNext
  <2>2. FlattenSeq(Labels(m, Append(u, k), "path")) = Cat(f, l)
    BY <2>1, LabelsNext
  <2>3. l = Cat(Cat(Cat(d, k), d), p)
    BY <1>3, <1>5, <2>1, LabelTextIs DEF PathLabel, Cat
  <2>4. Body(m, Append(u, k), "path") = Cat(a, Cat(f, l)) /\ z = Cat(a, f)
    BY <1>4, <2>1, <2>2 DEF Body
  <2>5. Cat(a, Cat(f, l)) = Cat(z, l)
    BY <2>4, TextAssociative
  <2>6. Cat(z, Cat(Cat(Cat(d, k), d), p)) = Cat(Cat(Cat(Cat(z, d), k), d), p)
    <3>1. Cat(Cat(d, k), d) \in Text(Nat) /\ Cat(d, k) \in Text(Nat) /\ Cat(z, d) \in Text(Nat)
      BY <1>2, TextConcat
    <3>2. Cat(z, Cat(Cat(Cat(d, k), d), p)) = Cat(Cat(z, Cat(Cat(d, k), d)), p)
      BY <3>1, TextAssociative
    <3>3. Cat(z, Cat(Cat(d, k), d)) = Cat(Cat(z, Cat(d, k)), d)
      BY <3>1, TextAssociative
    <3>4. Cat(z, Cat(d, k)) = Cat(Cat(z, d), k)
      BY <1>2, TextAssociative
    <3> QED BY <3>2, <3>3, <3>4
  <2> QED BY <1>6, <2>3, <2>4, <2>5, <2>6
<1>8. Dot \in Nat
  BY DEF Dot
<1>9. Split(x, Dot) = Append(s, k)
  <2>1. k \in Text(Nat \ {Dot})
    BY <1>2 DEF NotDot
  <2> QED BY <1>4, <1>5, <1>6, <1>8, <2>1, SplitNext
<1>10. Split(y, Dot) = Append(Append(s, k), p)
  <2>1. p \in Text(Nat \ {Dot}) /\ Append(s, k) \in Seq(Text(Nat))
    BY <1>2, <1>3 DEF NotDot
  <2> QED BY <1>5, <1>6, <1>8, <1>9, <2>1, SplitNext
<1>11. NodesAre(m, Append(u, k), Split(y, Dot))
  BY <1>2, <1>3, <1>4, <1>10, NodesNext
<1>12. y # <<>> /\ y[1] # Dot
  <2>1. Cat(z, d) \in Text(Nat) /\ Cat(z, d) # <<>> /\ Cat(z, d)[1] = z[1]
    BY <1>4, TextConcat, HeadOf
  <2>2. x # <<>> /\ x[1] = z[1]
    BY <1>2, <1>6, <2>1, HeadOf
  <2>3. Cat(x, d) \in Text(Nat) /\ Cat(x, d) # <<>> /\ Cat(x, d)[1] = z[1]
    BY <2>2, TextConcat, HeadOf
  <2>4. y # <<>> /\ y[1] = z[1]
    BY <1>6, <2>3, HeadOf
  <2> QED BY <1>4, <2>4
<1>13. y[Len(y)] # Dot
  <2>1. Cat(x, d) \in Text(Nat)
    BY TextConcat
  <2>2. y[Len(y)] = p[Len(p)]
    BY <1>3, <1>6, <2>1, EndOf
  <2>3. p \in Seq(NotDot) /\ Len(p) \in 1..Len(p)
    BY <1>3 DEF Text
  <2>4. p[Len(p)] \in NotDot
    BY <2>3
  <2> QED BY <2>2, <2>4 DEF NotDot
<1> QED BY <1>6, <1>7, <1>11, <1>12, <1>13 DEF Noded

(* So it is for any number of labels, by TextInduction.                    *)
LEMMA NodedAll ==
    ASSUME NEW m, Named(m), Filled(m), Kept(m, "path"), NEW u \in Seq(DOMAIN m.labels)
    PROVE  Noded(m, u)
<1> DEFINE K == DOMAIN m.labels
           G == {t \in Text(K) : Noded(m, t)}
<1>1. <<>> \in G
  BY NodedNone, TextEmpty
<1>2. ASSUME NEW t \in Text(K), NEW k \in K, t \in G PROVE Append(t, k) \in G
  <2>1. t \in Seq(K) /\ Append(t, k) \in Text(K)
    BY DEF Text
  <2>2. Noded(m, Append(t, k))
    BY <1>2, <2>1, NodedNext
  <2> QED BY <2>1, <2>2
<1>3. u \in Text(K)
  BY DEF Text
<1> HIDE DEF G, K
<1>4. u \in G
  BY <1>1, <1>2, <1>3, TextInduction
<1> QED BY <1>4 DEF G

-----------------------------------------------------------------------------
(* What is read from the nodes of a path, and from those of a metric. *)
FromNodes(nodes) ==
    LET pairs == {i \in 2..Len(nodes) : i % 2 = 0}
        key(i) == Unescape(nodes[i])
    IN  [name   |-> nodes[1],
         labels |-> [k \in {key(i) : i \in pairs} |->
                       Unescape(nodes[(CHOOSE i \in pairs : key(i) = k) + 1])]]

(* MetricLabelsFromPath by its nodes.                                      *)
LEMMA FromPathIs ==
    \A path : MetricLabelsFromPath(path)
                = LET nodes == Split(TrimDots(TrimPrefix(path)), Dot)
                  IN  IF Len(nodes) % 2 = 0 THEN Unreadable ELSE FromNodes(nodes)
  BY Zenon DEF MetricLabelsFromPath, FromNodes

(* The nodes of a metric give it back: no key is there twice, since the    *)
(* values of a key are the same.                                           *)
LEMMA NodesTell ==
    ASSUME NEW m, Named(m), NEW u \in Seq(DOMAIN m.labels), NEW s, NodesAre(m, u, s),
           \A k \in DOMAIN m.labels : \E i \in 1..Len(u) : u[i] = k,
           \A k \in DOMAIN m.labels : Unescape(k) = k /\ Unescape(Escape(m.labels[k])) = m.labels[k]
    PROVE  Len(s) % 2 # 0 /\ FromNodes(s) = m
<1> DEFINE pairs == {i \in 2..Len(s) : i % 2 = 0}
           key(i) == Unescape(s[i])
           D == DOMAIN m.labels
           at(k) == CHOOSE i \in pairs : key(i) = k
<1>1. PICK n \in Nat : n = Len(u)
  OBVIOUS
<1>2. /\ Len(s) = 2 * n + 1 /\ s[1] = m.name
      /\ \A i \in 1..n : s[2 * i] = u[i] /\ s[2 * i + 1] = Escape(m.labels[u[i]]) /\ u[i] \in D
  <2>1. \A i \in 1..n : u[i] \in D
    BY <1>1
  <2>2. /\ Len(s) = 2 * n + 1 /\ s[1] = m.name
        /\ \A i \in 1..n : s[2 * i] = u[i] /\ s[2 * i + 1] = Escape(m.labels[u[i]])
    BY <1>1, Zenon DEF NodesAre
  <2> QED BY <2>1, <2>2
<1>3. pairs = {2 * i : i \in 1..n}
  <2>1. ASSUME NEW i \in 1..n PROVE 2 * i \in pairs
    BY <1>2
  <2>2. ASSUME NEW j \in pairs PROVE \E i \in 1..n : j = 2 * i
    <3>1. j \in 2..(2 * n + 1) /\ j % 2 = 0
      BY <1>2
    <3>2. j \div 2 \in 1..n /\ j = 2 * (j \div 2)
      BY <3>1
    <3> QED BY <3>2
  <2> HIDE DEF pairs
  <2> QED BY <2>1, <2>2
<1> HIDE DEF pairs
<1>4. \A i \in 1..n : key(2 * i) = u[i]
  BY <1>2
<1> HIDE DEF key
<1>5. \A k \in D : \E i \in 1..n : u[i] = k
  BY <1>1
<1>6. {key(i) : i \in pairs} = D
  <2>1. \A j \in pairs : key(j) \in D
    <3>1. ASSUME NEW j \in pairs PROVE key(j) \in D
      <4>1. PICK i \in 1..n : j = 2 * i
        BY <1>3
      <4>2. key(2 * i) = u[i] /\ u[i] \in D
        BY <1>2, <1>4
      <4> QED BY <4>1, <4>2
    <3> QED BY <3>1
  <2>2. \A k \in D : \E j \in pairs : key(j) = k
    <3>1. ASSUME NEW k \in D PROVE \E j \in pairs : key(j) = k
      <4>1. PICK i \in 1..n : u[i] = k
        BY <1>5
      <4>2. 2 * i \in pairs /\ key(2 * i) = k
        BY <1>3, <1>4, <4>1
      <4> QED BY <4>2
    <3> QED BY <3>1
  <2> HIDE DEF D
  <2> QED BY <2>1, <2>2, Zenon
<1>7. ASSUME NEW k \in D PROVE Unescape(s[at(k) + 1]) = m.labels[k]
  <2>1. \E j \in pairs : key(j) = k
    BY <1>6, Zenon
  <2>2. at(k) \in pairs /\ key(at(k)) = k
    BY <2>1, Zenon
  <2> HIDE DEF at
  <2>3. PICK i \in 1..n : at(k) = 2 * i
    BY <1>3, <2>2
  <2>4. u[i] = k
    BY <1>4, <2>2, <2>3
  <2>5. s[at(k) + 1] = Escape(m.labels[k])
    BY <1>2, <2>3, <2>4
  <2> QED BY <2>5
<1>8. m.labels = [k \in {key(i) : i \in pairs} |-> Unescape(s[at(k) + 1])]
  <2>1. m.labels = [k \in D |-> m.labels[k]]
    BY DEF Named
  <2> HIDE DEF at, D
  <2>2. [k \in D |-> m.labels[k]] = [k \in D |-> Unescape(s[at(k) + 1])]
    BY <1>7, Zenon
  <2> QED BY <1>6, <2>1, <2>2, Zenon
<1>9. Len(s) % 2 # 0
  BY <1>2
<1>10. m = [name |-> s[1], labels |-> m.labels]
  BY <1>2 DEF Named
<1> HIDE DEF D
<1>11. m = [name |-> s[1], labels |-> [k \in {key(i) : i \in pairs} |-> Unescape(s[at(k) + 1])]]
  BY <1>8, <1>10, Zenon
<1>12. FromNodes(s) = m
  BY <1>11, Zenon DEF FromNodes, pairs, key, at
<1> QED BY <1>9, <1>12

(* The names of labels have only bytes of names.                           *)
LEMMA KeyNames ==
    ASSUME NEW m, Named(m), NEW k \in DOMAIN m.labels
    PROVE  k \in Seq(NameBytes)
<1>1. \A S : \A t \in Seq(S) : \A i \in 1..Len(t) : t[i] \in S
  OBVIOUS
<1>2. \A i \in 1..Len(LabelNames) : LabelNames[i] \in Seq(NameBytes)
  BY <1>1, NamesAssumption
<1> QED BY <1>2 DEF Named

(* MetricLabelsFromPath gives back the metric of which defaultPath made    *)
(* the path.                                                               *)
THEOREM PathRead ==
    ASSUME NEW m, Named(m), Filled(m), \A k \in DOMAIN m.labels : ReadableValue(m.labels[k])
    PROVE  MetricLabelsFromPath(DefaultPath(m, "path")) = m
<1>1. Kept(m, "path")
  BY DEF Kept, Values, ReadableValue
<1>2. PICK u \in Seq(DOMAIN m.labels) : u = Keys(m) /\ \A k \in DOMAIN m.labels : \E i \in 1..Len(u) : u[i] = k
  <2>1. Keys(m) \in Seq(DOMAIN m.labels)
    <3>1. \A S : \A t \in Seq(S) : \A E : (\A i \in 1..Len(t) : t[i] \in E) => t \in Seq(E)
      OBVIOUS
    <3> QED BY <3>1, KeysAre
  <2> QED BY <2>1, KeysAre
<1>3. PICK z \in Text(Nat) :
         /\ z = Body(m, u, "path") /\ z # <<>> /\ z[1] # Dot /\ z[Len(z)] # Dot
         /\ NodesAre(m, u, Split(z, Dot))
  BY <1>1, NodedAll DEF Noded
<1>4. PICK s : s = Split(z, Dot) /\ NodesAre(m, u, s)
  BY <1>3
<1>5. DefaultPath(m, "path") = Cat(Prefix, z)
  <2>1. PICK f \in Text(Nat), a \in Text(Nat), p \in Text(Nat) :
           /\ f = FlattenSeq(Labels(m, Keys(m), "path")) /\ a = m.name /\ p = Prefix
    <3>1. m.name \in Text(Nat)
      BY NamesAreTexts, Alphabets DEF Named
    <3>2. Prefix \in Text(Nat)
      <4>1. Bytes \in SUBSET Nat
        BY DEF Bytes
      <4> QED BY <4>1, NamesAssumption, NamesAreTexts
    <3>3. FlattenSeq(Labels(m, Keys(m), "path")) \in Text(Nat)
      <4>1. CASE DOMAIN m.labels = {}
        <5>1. u = <<>>
          BY <4>1
        <5> QED BY <1>2, <5>1, LabelsNone, TextEmpty
      <4>2. CASE DOMAIN m.labels # {}
        BY <1>1, <1>2, <4>2, LabelsNext
      <4> QED BY <4>1, <4>2
    <3> QED BY <3>1, <3>2, <3>3
  <2>2. DefaultPath(m, "path") = Cat(Cat(p, a), f)
    BY <2>1, PathBody
  <2>3. z = Cat(a, f)
    BY <1>2, <1>3, <2>1 DEF Body
  <2> QED BY <2>1, <2>2, <2>3, TextAssociative
<1>6. TrimDots(TrimPrefix(DefaultPath(m, "path"))) = z
  <2>1. z \in Seq(Nat)
    BY DEF Text
  <2> QED BY <1>3, <1>5, <2>1, TrimPrefixOf, TrimDotsNone
<1>7. \A k \in DOMAIN m.labels : Unescape(k) = k /\ Unescape(Escape(m.labels[k])) = m.labels[k]
  <2>1. ASSUME NEW k \in DOMAIN m.labels
        PROVE  Unescape(k) = k /\ Unescape(Escape(m.labels[k])) = m.labels[k]
    BY KeyNames, UnescapeName, UnescapeEscape DEF ReadableValue
  <2> QED BY <2>1
<1>8. Len(s) % 2 # 0 /\ FromNodes(s) = m
  BY <1>2, <1>4, <1>7, NodesTell
<1>9. s = Split(TrimDots(TrimPrefix(DefaultPath(m, "path"))), Dot)
  BY <1>4, <1>6
<1> QED BY <1>8, <1>9, FromPathIs, Zenon

-----------------------------------------------------------------------------
(* No semicolon is in a name, a value or the prefix: the parts of a path   *)
(* are its own.                                                            *)
NotSemicolon == Nat \ {Semicolon}

LEMMA NotSemicolons ==
    /\ NotSemicolon \in SUBSET Nat /\ NameBytes \in SUBSET NotSemicolon
    /\ MetricBytes \in SUBSET NotSemicolon /\ Untagged \in SUBSET NotSemicolon
    /\ <<Equals>> \in Text(NotSemicolon) /\ Semicolon \in Nat /\ Equals \notin NameBytes
  BY DEF NotSemicolon, NameBytes, MetricBytes, Untagged, Printables, Underlined, Semicolon, Underline,
         Equals, Text

LEMMA PrefixType == Prefix \in Text(Nat) /\ Prefix \in Text(NotSemicolon)
<1>1. Prefix \in Seq(Bytes)
  BY NamesAssumption
<1>2. \A i \in 1..Len(Prefix) : Prefix[i] \in NotSemicolon
  <2>1. \A i \in 1..Len(Prefix) : Prefix[i] \in Bytes /\ Prefix[i] # Semicolon
    BY <1>1, PrefixAssumption
  <2>2. Bytes \in SUBSET Nat
    BY DEF Bytes
  <2> QED BY <2>1, <2>2 DEF NotSemicolon
<1>3. \A S : \A t \in Seq(S) : \A E : (\A i \in 1..Len(t) : t[i] \in E) => t \in Seq(E)
  OBVIOUS
<1>4. Prefix \in Seq(NotSemicolon)
  BY <1>1, <1>2, <1>3
<1> QED BY <1>4, NotSemicolons, SeqMonotonic DEF Text

-----------------------------------------------------------------------------
(* What graphite makes of a tag.                                            *)
EqualsAt(t) == CHOOSE e \in DOMAIN t : t[e] = Equals /\ \A d \in 1..(e - 1) : t[d] # Equals
KeyOf(t)    == SubSeq(t, 1, EqualsAt(t) - 1)
ValueOf(t)  == SubSeq(t, EqualsAt(t) + 1, Len(t))

(* The text of a tag behind its semicolon, of which key and value are      *)
(* read.                                                                   *)
TagText(k, v) == Cat(Cat(k, <<Equals>>), v)

LEMMA TagTextParts ==
    ASSUME NEW k \in Seq(NameBytes), NEW v \in Seq(Untagged)
    PROVE  /\ TagText(k, v) \in Text(Nat) /\ TagText(k, v) \in Text(NotSemicolon)
           /\ KeyOf(TagText(k, v)) = k /\ ValueOf(TagText(k, v)) = v
<1>1. k \in Text(NotSemicolon) /\ v \in Text(NotSemicolon) /\ k \in Seq(Nat) /\ v \in Seq(Nat)
  BY NotSemicolons, Alphabets, SeqMonotonic DEF Text
<1>2. TagText(k, v) \in Text(NotSemicolon)
  BY <1>1, NotSemicolons, TextConcat DEF TagText
<1>3. PICK t \in Seq(Nat) : t = TagText(k, v)
  BY <1>2, NotSemicolons, SeqMonotonic DEF Text
<1>4. PICK n \in Nat, p \in Nat : n = Len(k) /\ p = Len(v)
  BY <1>1
<1>5. /\ Len(t) = n + 1 + p
      /\ \A i \in 1..n : t[i] = k[i]
      /\ t[n + 1] = Equals
      /\ \A i \in 1..p : t[n + 1 + i] = v[i]
  <2>1. PICK e \in Seq(Nat) : e = <<Equals>> /\ Len(e) = 1 /\ e[1] = Equals
    <3>1. <<Equals>> \in Seq(Nat)
      BY DEF Equals
    <3> QED BY <3>1
  <2>2. PICK x \in Seq(Nat) : x = k \o e
    BY <1>1, ConcatProperties
  <2>3. Len(x) = n + 1 /\ (\A i \in 1..n : x[i] = k[i]) /\ x[n + 1] = Equals
    BY <1>1, <1>4, <2>1, <2>2, ConcatProperties
  <2>4. t = x \o v
    BY <1>3, <2>1, <2>2 DEF TagText, Cat
  <2>5. Len(t) = (n + 1) + p /\ (\A i \in 1..(n + 1) : t[i] = x[i]) /\ \A i \in 1..p : t[(n + 1) + i] = v[i]
    <3>1. /\ Len(t) = Len(x) + Len(v)
          /\ \A i \in 1..Len(x) : t[i] = x[i]
          /\ \A i \in 1..Len(v) : t[Len(x) + i] = v[i]
      BY <1>1, <2>4, ConcatProperties
    <3> QED BY <1>4, <2>3, <3>1
  <2>6. n + 1 \in 1..(n + 1) /\ \A i \in 1..n : i \in 1..(n + 1)
    OBVIOUS
  <2> QED BY <2>3, <2>5, <2>6
<1>6. EqualsAt(t) = n + 1
  <2> DEFINE Q(e) == t[e] = Equals /\ \A d \in 1..(e - 1) : t[d] # Equals
  <2>1. \A d \in 1..n : t[d] # Equals
    <3>1. \A d \in 1..n : k[d] \in NameBytes
      BY <1>4
    <3> QED BY <1>5, <3>1, NotSemicolons
  <2>2. n + 1 \in DOMAIN t /\ Q(n + 1)
    BY <1>5, <2>1
  <2>3. ASSUME NEW e \in DOMAIN t, Q(e) PROVE e = n + 1
    <3>1. e \in 1..(n + 1 + p)
      BY <1>5
    <3>2. ~(e <= n)
      BY <2>1, <2>3, <3>1
    <3>3. ~(e > n + 1)
      <4>1. SUFFICES ASSUME e > n + 1 PROVE FALSE
        OBVIOUS
      <4>2. n + 1 \in 1..(e - 1)
        BY <3>1, <4>1
      <4> QED BY <1>5, <2>3, <4>2
    <3> QED BY <3>1, <3>2, <3>3
  <2>4. EqualsAt(t) = CHOOSE e \in DOMAIN t : Q(e)
    BY DEF EqualsAt
  <2> HIDE DEF Q
  <2>5. EqualsAt(t) \in DOMAIN t /\ Q(EqualsAt(t))
    BY <2>2, <2>4, Zenon
  <2> QED BY <2>3, <2>5
<1>7. SubSeq(t, 1, n) = k
  <2>1. SubSeq(t, 1, n) \in Seq(Nat) /\ Len(SubSeq(t, 1, n)) = n /\ \A i \in 1..n : SubSeq(t, 1, n)[i] = t[i]
    <3>1. t \in Seq(Nat) /\ n \in 0..Len(t)
      BY <1>5
    <3> QED BY <3>1, SubSeqProperties
  <2>2. \A i \in 1..n : SubSeq(t, 1, n)[i] = k[i]
    BY <1>5, <2>1
  <2> QED BY <1>1, <1>4, <2>1, <2>2, SeqEqual
<1>8. SubSeq(t, n + 2, n + 1 + p) = v
  <2>1. PICK r : r = SubSeq(t, n + 2, n + 1 + p)
    OBVIOUS
  <2>2. r \in Seq(Nat) /\ Len(r) = p /\ \A i \in 1..p : r[i] = t[n + 1 + i]
    <3>1. \A i \in (n + 2)..(n + 1 + p) : t[i] \in Nat
      BY <1>5
    <3>2. n + 2 \in Int /\ n + 1 + p \in Int
      OBVIOUS
    <3>3. /\ SubSeq(t, n + 2, n + 1 + p) \in Seq(Nat)
          /\ Len(SubSeq(t, n + 2, n + 1 + p))
               = IF n + 2 <= n + 1 + p THEN n + 1 + p - (n + 2) + 1 ELSE 0
          /\ \A i \in 1..(n + 1 + p - (n + 2) + 1) :
                SubSeq(t, n + 2, n + 1 + p)[i] = t[n + 2 + i - 1]
      BY <3>1, <3>2, SubSeqProperties
    <3>4. n + 1 + p - (n + 2) + 1 = p /\ (~(n + 2 <= n + 1 + p) => p = 0)
          /\ \A i \in 1..p : n + 2 + i - 1 = n + 1 + i
      OBVIOUS
    <3>5. r \in Seq(Nat) /\ Len(r) = p
      BY <2>1, <3>3, <3>4
    <3>6. \A i \in 1..p : r[i] = t[n + 2 + i - 1]
      BY <2>1, <3>3, <3>4
    <3> QED BY <3>4, <3>5, <3>6
  <2>3. \A i \in 1..p : r[i] = v[i]
    BY <1>5, <2>2
  <2> QED BY <1>1, <1>4, <2>1, <2>2, <2>3, SeqEqual
<1>9. (n + 1) - 1 = n /\ (n + 1) + 1 = n + 2
  OBVIOUS
<1>10. KeyOf(t) = k /\ ValueOf(t) = v
  BY <1>5, <1>6, <1>7, <1>8, <1>9 DEF KeyOf, ValueOf
<1> QED BY <1>2, <1>3, <1>10 DEF Text

-----------------------------------------------------------------------------
(* The parts of a path with tags: the prefix and the name, and one for     *)
(* each label.                                                             *)
PartsAre(m, u, s) ==
    /\ s \in Seq(Text(Nat)) /\ Len(s) = Len(u) + 1
    /\ s[1] = Cat(Prefix, m.name)
    /\ \A i \in 1..Len(u) : s[i + 1] = TagText(u[i], m.labels[u[i]])

LEMMA PartsNextLabel ==
    ASSUME NEW m, NEW K, NEW u \in Seq(K), NEW s, PartsAre(m, u, s), NEW k \in K,
           NEW p \in Text(Nat), p = TagText(k, m.labels[k])
    PROVE  PartsAre(m, Append(u, k), Append(s, p))
<1>1. PICK n \in Nat : n = Len(u)
  OBVIOUS
<1>2. /\ s \in Seq(Text(Nat)) /\ Len(s) = n + 1
      /\ s[1] = Cat(Prefix, m.name)
      /\ \A i \in 1..n : s[i + 1] = TagText(u[i], m.labels[u[i]])
  BY <1>1 DEF PartsAre
<1>3. PICK t \in Seq(Text(Nat)) : t = Append(s, p)
  <2>1. s \in Seq(Text(Nat))
    BY <1>2
  <2>2. Append(s, p) \in Seq(Text(Nat))
    BY <2>1
  <2> QED BY <2>2
<1>4. Len(t) = n + 2 /\ t[n + 2] = p /\ \A j \in 1..(n + 1) : t[j] = s[j]
  <2>1. Len(t) = Len(s) + 1 /\ t[Len(s) + 1] = p /\ \A j \in 1..Len(s) : t[j] = s[j]
    <3>1. s \in Seq(Text(Nat))
      BY <1>2
    <3> QED BY <1>3, <3>1, AppendProperties
  <2>2. (n + 1) + 1 = n + 2
    OBVIOUS
  <2> QED BY <1>2, <2>1, <2>2
<1>5. PICK q \in Seq(K) : q = Append(u, k) /\ Len(q) = n + 1 /\ q[n + 1] = k /\ \A i \in 1..n : q[i] = u[i]
  <2>1. Append(u, k) \in Seq(K) /\ Len(Append(u, k)) = Len(u) + 1 /\ Append(u, k)[Len(u) + 1] = k
        /\ \A i \in 1..Len(u) : Append(u, k)[i] = u[i]
    BY AppendProperties
  <2> QED BY <1>1, <2>1
<1>6. ASSUME NEW i \in 1..(n + 1) PROVE t[i + 1] = TagText(q[i], m.labels[q[i]])
  <2>1. CASE i \in 1..n
    <3>1. i + 1 \in 1..(n + 1)
      BY <2>1
    <3> QED BY <1>2, <1>4, <1>5, <2>1, <3>1
  <2>2. CASE i = n + 1
    <3>1. i + 1 = n + 2
      BY <2>2
    <3> QED BY <1>4, <1>5, <2>2, <3>1
  <2> QED BY <2>1, <2>2
<1>7. Len(t) = Len(q) + 1 /\ t[1] = Cat(Prefix, m.name)
  <2>1. 1 \in 1..(n + 1) /\ (n + 1) + 1 = n + 2
    OBVIOUS
  <2> QED BY <1>2, <1>4, <1>5, <2>1
<1>8. \A i \in 1..Len(q) : t[i + 1] = TagText(q[i], m.labels[q[i]])
  BY <1>5, <1>6
<1> QED BY <1>3, <1>5, <1>7, <1>8 DEF PartsAre

(* What the path of a metric with these labels is.                         *)
Tagged(m, u) ==
    LET path == Cat(Cat(Prefix, m.name), FlattenSeq(Labels(m, u, "tags")))
    IN  path \in Text(Nat) /\ PartsAre(m, u, Split(path, Semicolon))

LEMMA TaggedNone ==
    ASSUME NEW m, Named(m)
    PROVE  Tagged(m, <<>>)
<1>1. PICK a \in Text(NotSemicolon) : a = Cat(Prefix, m.name)
  <2>1. m.name \in Text(NotSemicolon)
    BY NotSemicolons, SeqMonotonic DEF Named, Text
  <2> QED BY <2>1, PrefixType, TextConcat
<1>2. a \in Text(Nat)
  BY NotSemicolons, SeqMonotonic DEF Text
<1>3. Cat(a, FlattenSeq(Labels(m, <<>>, "tags"))) = a
  BY <1>2, LabelsNone, TextEmpty
<1>4. Split(a, Semicolon) = <<a>>
  <2>1. a \in Text(Nat \ {Semicolon})
    BY DEF NotSemicolon
  <2> QED BY <2>1, NotSemicolons, SplitFirst
<1>5. PartsAre(m, <<>>, <<a>>)
  <2>1. <<a>> \in Seq(Text(Nat)) /\ Len(<<a>>) = Len(<<>>) + 1 /\ <<a>>[1] = a
    BY <1>2
  <2>2. 1..Len(<<>>) = {}
    OBVIOUS
  <2> QED BY <1>1, <2>1, <2>2 DEF PartsAre
<1> QED BY <1>1, <1>2, <1>3, <1>4, <1>5 DEF Tagged

LEMMA TaggedNext ==
    ASSUME NEW m, Named(m), Kept(m, "tags"), NEW u \in Seq(DOMAIN m.labels), Tagged(m, u),
           NEW k \in DOMAIN m.labels
    PROVE  Tagged(m, Append(u, k))
<1>1. PICK v \in Seq(Untagged) : v = m.labels[k]
  BY DEF Kept, Values
<1>2. k \in Seq(NameBytes)
  BY KeyNames
<1>3. PICK p \in Text(Nat) : p = TagText(k, v) /\ p \in Text(NotSemicolon)
  BY <1>2, TagTextParts
<1>4. PICK a \in Text(Nat), f \in Text(Nat), d \in Text(Nat), l \in Text(Nat) :
         /\ a = Cat(Prefix, m.name) /\ f = FlattenSeq(Labels(m, u, "tags")) /\ d = <<Semicolon>>
         /\ l = LabelText(k, m.labels[k], "tags", FALSE)
         /\ FlattenSeq(Labels(m, Append(u, k), "tags")) = Cat(f, l)
  <2>1. m.name \in Text(Nat)
    BY NamesAreTexts, Alphabets DEF Named
  <2>2. Cat(Prefix, m.name) \in Text(Nat)
    BY <2>1, PrefixType, TextConcat
  <2>3. /\ LabelText(k, m.labels[k], "tags", FALSE) \in Text(Nat)
        /\ FlattenSeq(Labels(m, u, "tags")) \in Text(Nat)
        /\ FlattenSeq(Labels(m, Append(u, k), "tags"))
             = Cat(FlattenSeq(Labels(m, u, "tags")), LabelText(k, m.labels[k], "tags", FALSE))
    BY LabelsNext
  <2> QED BY <2>2, <2>3, Marks
<1>5. PICK z \in Text(Nat), s \in Seq(Text(Nat)) :
         z = Cat(a, f) /\ s = Split(z, Semicolon) /\ PartsAre(m, u, s)
  BY <1>4 DEF Tagged, PartsAre
<1>6. l = Cat(d, p)
  <2>1. EscapeTagged(v) = v
    BY TagsAsTheyAre
  <2>2. l = Cat(Cat(Cat(d, k), <<Equals>>), v)
    <3>1. l = TagLabel(k, v)
      BY <1>1, <1>4, LabelTextIs
    <3> QED BY <1>4, <2>1, <3>1 DEF TagLabel, Cat
  <2>3. k \in Text(Nat) /\ v \in Text(Nat) /\ <<Equals>> \in Text(Nat)
    BY <1>2, NamesAreTexts, Alphabets, Marks
  <2>4. PICK e \in Text(Nat) : e = <<Equals>>
    BY <2>3
  <2>5. Cat(Cat(Cat(d, k), e), v) = Cat(d, Cat(Cat(k, e), v))
    <3>1. Cat(d, k) \in Text(Nat) /\ Cat(k, e) \in Text(Nat)
      BY <2>3, TextConcat
    <3>2. Cat(Cat(d, k), e) = Cat(d, Cat(k, e))
      BY <2>3, TextAssociative
    <3>3. Cat(Cat(d, Cat(k, e)), v) = Cat(d, Cat(Cat(k, e), v))
      BY <2>3, <3>1, TextAssociative
    <3> QED BY <3>2, <3>3
  <2> QED BY <1>3, <2>2, <2>4, <2>5 DEF TagText
<1>7. PICK y \in Text(Nat) : y = Cat(Cat(z, d), p)
  BY TextConcat
<1>8. Cat(a, Cat(f, l)) = y
  <2>1. Cat(a, Cat(f, l)) = Cat(z, l)
    BY <1>5, TextAssociative
  <2>2. Cat(z, Cat(d, p)) = Cat(Cat(z, d), p)
    BY TextAssociative
  <2> QED BY <1>6, <1>7, <2>1, <2>2
<1>9. Split(y, Semicolon) = Append(s, p)
  <2>1. p \in Text(Nat \ {Semicolon})
    BY <1>3 DEF NotSemicolon
  <2> QED BY <1>4, <1>5, <1>7, <2>1, NotSemicolons, SplitNext
<1>10. PartsAre(m, Append(u, k), Split(y, Semicolon))
  BY <1>1, <1>3, <1>5, <1>9, PartsNextLabel
<1> QED BY <1>4, <1>7, <1>8, <1>10 DEF Tagged

(* So it is for any number of labels.                                      *)
LEMMA TaggedAll ==
    ASSUME NEW m, Named(m), Kept(m, "tags"), NEW u \in Seq(DOMAIN m.labels)
    PROVE  Tagged(m, u)
<1> DEFINE K == DOMAIN m.labels
           G == {t \in Text(K) : Tagged(m, t)}
<1>1. <<>> \in G
  BY TaggedNone, TextEmpty
<1>2. ASSUME NEW t \in Text(K), NEW k \in K, t \in G PROVE Append(t, k) \in G
  <2>1. t \in Seq(K) /\ Append(t, k) \in Text(K)
    BY DEF Text
  <2>2. Tagged(m, Append(t, k))
    BY <1>2, <2>1, TaggedNext
  <2> QED BY <2>1, <2>2
<1>3. u \in Text(K)
  BY DEF Text
<1> HIDE DEF G, K
<1>4. u \in G
  BY <1>1, <1>2, <1>3, TextInduction
<1> QED BY <1>4 DEF G

-----------------------------------------------------------------------------
(* What graphite makes of the parts.                                       *)
FromParts(parts) ==
    [k \in {KeyOf(parts[i]) : i \in 2..Len(parts)} \cup {NameTag} |->
        IF k = NameTag THEN parts[1]
        ELSE LET i == CHOOSE i \in 2..Len(parts) : KeyOf(parts[i]) = k
             IN  ValueOf(parts[i])]

LEMMA TagsAre == \A path : Tags(path) = FromParts(Split(path, Semicolon))
  BY Zenon DEF Tags, FromParts, KeyOf, ValueOf, EqualsAt

(* The tags of a metric: its labels and its name, which takes the place of  *)
(* a label that is called so.                                               *)
TagsOf(m) ==
    [k \in DOMAIN m.labels \cup {NameTag} |->
        IF k = NameTag THEN Cat(Prefix, m.name) ELSE m.labels[k]]

(* The tags of what was written.                                           *)
LEMMA TagsRead ==
    ASSUME NEW m, Named(m), Kept(m, "tags")
    PROVE  Tags(DefaultPath(m, "tags")) = TagsOf(m)
<1>1. PICK u \in Seq(DOMAIN m.labels) : u = Keys(m) /\ \A k \in DOMAIN m.labels : \E i \in 1..Len(u) : u[i] = k
  <2>1. Keys(m) \in Seq(DOMAIN m.labels)
    <3>1. \A S : \A t \in Seq(S) : \A E : (\A i \in 1..Len(t) : t[i] \in E) => t \in Seq(E)
      OBVIOUS
    <3> QED BY <3>1, KeysAre
  <2> QED BY <2>1, KeysAre
<1>2. DefaultPath(m, "tags") = Cat(Cat(Prefix, m.name), FlattenSeq(Labels(m, u, "tags")))
  BY <1>1, PathBody
<1>3. PICK s : s = Split(DefaultPath(m, "tags"), Semicolon) /\ PartsAre(m, u, s)
  BY <1>2, TaggedAll DEF Tagged
<1> DEFINE D == DOMAIN m.labels
           at(k) == CHOOSE i \in 2..Len(s) : KeyOf(s[i]) = k
<1>4. PICK n \in Nat : n = Len(u)
  OBVIOUS
<1>5. /\ Len(s) = n + 1 /\ s[1] = Cat(Prefix, m.name)
      /\ \A i \in 1..n : s[i + 1] = TagText(u[i], m.labels[u[i]]) /\ u[i] \in D
  BY <1>3, <1>4 DEF PartsAre
<1>6. \A i \in 1..n : KeyOf(s[i + 1]) = u[i] /\ ValueOf(s[i + 1]) = m.labels[u[i]]
  <2>1. ASSUME NEW k \in D PROVE KeyOf(TagText(k, m.labels[k])) = k /\ ValueOf(TagText(k, m.labels[k])) = m.labels[k]
    <3>1. k \in Seq(NameBytes)
      BY KeyNames
    <3>2. PICK v \in Seq(Untagged) : v = m.labels[k]
      BY DEF Kept, Values
    <3> QED BY <3>1, <3>2, TagTextParts
  <2> QED BY <1>5, <2>1
<1>7. \A k \in D : \E i \in 1..n : u[i] = k
  BY <1>1, <1>4
<1> HIDE DEF D
<1>a. ASSUME NEW j \in 2..Len(s) PROVE \E i \in 1..n : j = i + 1
  <2>1. j - 1 \in 1..n /\ j = (j - 1) + 1
    BY <1>5
  <2> QED BY <2>1
<1>b. \A i \in 1..n : i + 1 \in 2..Len(s)
  BY <1>5
<1>8. {KeyOf(s[i]) : i \in 2..Len(s)} = D
  <2>1. ASSUME NEW j \in 2..Len(s) PROVE KeyOf(s[j]) \in D
    <3>1. PICK i \in 1..n : j = i + 1
      BY <1>a
    <3> QED BY <1>5, <1>6, <3>1
  <2>2. ASSUME NEW k \in D PROVE \E j \in 2..Len(s) : KeyOf(s[j]) = k
    <3>1. PICK i \in 1..n : u[i] = k
      BY <1>7
    <3> QED BY <1>b, <1>6, <3>1
  <2> QED BY <2>1, <2>2, Zenon
<1>9. ASSUME NEW k \in D PROVE ValueOf(s[at(k)]) = m.labels[k]
  <2>1. \E j \in 2..Len(s) : KeyOf(s[j]) = k
    BY <1>8, Zenon
  <2>2. at(k) \in 2..Len(s) /\ KeyOf(s[at(k)]) = k
    BY <2>1, Zenon
  <2> HIDE DEF at
  <2>3. PICK i \in 1..n : at(k) = i + 1
    BY <1>a, <2>2
  <2>4. u[i] = k
    BY <1>6, <2>2, <2>3
  <2> QED BY <1>6, <2>3, <2>4
<1>10. FromParts(s) = [k \in D \cup {NameTag} |-> IF k = NameTag THEN s[1] ELSE ValueOf(s[at(k)])]
  BY <1>8, Zenon DEF FromParts
<1> HIDE DEF at
<1>11. [k \in D \cup {NameTag} |-> IF k = NameTag THEN s[1] ELSE ValueOf(s[at(k)])] = TagsOf(m)
  BY <1>5, <1>9, Zenon DEF TagsOf, D
<1> QED BY <1>3, <1>10, <1>11, TagsAre

(* MetricLabelsFromTags gives back the metric from the tags that graphite  *)
(* keeps of its path, if no label is called name and EscapeTagged leaves   *)
(* the values alone.                                                       *)
THEOREM TagsRestored ==
    ASSUME NEW m, Named(m), Kept(m, "tags"), NameTag \notin DOMAIN m.labels
    PROVE  MetricLabelsFromTags(Tags(DefaultPath(m, "tags"))) = m
<1> DEFINE D == DOMAIN m.labels
<1>1. PICK tags : tags = Tags(DefaultPath(m, "tags")) /\ tags = TagsOf(m)
  BY TagsRead
<1>2. DOMAIN tags = D \cup {NameTag} /\ tags[NameTag] = Cat(Prefix, m.name)
      /\ \A k \in D : tags[k] = m.labels[k]
  BY <1>1 DEF TagsOf
<1>3. TrimPrefix(tags[NameTag]) = m.name
  <2>1. m.name \in Text(Nat)
    BY NamesAreTexts, Alphabets DEF Named
  <2> QED BY <1>2, <2>1, TrimPrefixOf
<1>4. DOMAIN tags \ {NameTag} = D
  BY <1>2
<1>5. [k \in DOMAIN tags \ {NameTag} |-> tags[k]] = m.labels
  <2>1. m.labels = [k \in D |-> m.labels[k]]
    BY DEF Named
  <2>2. [k \in D |-> tags[k]] = [k \in D |-> m.labels[k]]
    BY <1>2, Zenon
  <2> HIDE DEF D
  <2> QED BY <1>4, <2>1, <2>2, Zenon
<1>6. m = [name |-> m.name, labels |-> m.labels]
  BY DEF Named
<1> HIDE DEF D
<1> QED BY <1>1, <1>3, <1>5, <1>6, Zenon DEF MetricLabelsFromTags

-----------------------------------------------------------------------------
(* A text and the byte that follows it.                                    *)
LEMMA BeginsWith ==
    ASSUME NEW x \in Text(Nat), NEW f \in Text(Nat), f # <<>>
    PROVE  IsPrefix(x \o <<f[1]>>, Cat(x, f))
<1>1. PICK n \in Nat, c \in Nat : n = Len(x) /\ c = f[1]
  BY DEF Text
<1>2. PICK d \in Seq(Nat) : d = <<c>> /\ Len(d) = 1 /\ d[1] = c
  <2>1. <<c>> \in Seq(Nat) /\ Len(<<c>>) = 1 /\ <<c>>[1] = c
    OBVIOUS
  <2> QED BY <2>1
<1>3. x \in Seq(Nat) /\ f \in Seq(Nat) /\ Len(f) \in Nat /\ Len(f) >= 1
  BY DEF Text
<1>4. PICK q \in Seq(Nat), t \in Seq(Nat) : q = x \o d /\ t = x \o f
  BY <1>3, ConcatProperties
<1>5. Len(q) = n + 1 /\ (\A i \in 1..n : q[i] = x[i]) /\ q[n + 1] = c
  BY <1>1, <1>2, <1>3, <1>4, ConcatProperties
<1>6. Len(t) = n + Len(f) /\ (\A i \in 1..n : t[i] = x[i]) /\ t[n + 1] = c
  BY <1>1, <1>3, <1>4, ConcatProperties
<1>7. \A i \in 1..(n + 1) : q[i] = t[i]
  <2>1. \A i \in 1..(n + 1) : i \in 1..n \/ i = n + 1
    OBVIOUS
  <2> QED BY <1>5, <1>6, <2>1
<1>8. SubSeq(q, 1, n + 1) = SubSeq(t, 1, n + 1)
  BY <1>3, <1>5, <1>6, <1>7
<1>9. Len(q) <= Len(t)
  BY <1>3, <1>5, <1>6
<1>10. IsPrefix(q, t)
  BY <1>5, <1>8, <1>9 DEF IsPrefix
<1> QED BY <1>1, <1>2, <1>4, <1>10 DEF Cat

(* The path of a metric that has labels goes on with a dot behind its name. *)
LEMMA PathBegins ==
    ASSUME NEW m, Named(m), Filled(m), Kept(m, "path"), DOMAIN m.labels # {}
    PROVE  IsPrefix(Prefix \o m.name \o <<Dot>>, DefaultPath(m, "path"))
<1>1. PICK u \in Seq(DOMAIN m.labels) : u = Keys(m) /\ u # <<>>
  <2>1. Keys(m) \in Seq(DOMAIN m.labels)
    <3>1. \A S : \A t \in Seq(S) : \A E : (\A i \in 1..Len(t) : t[i] \in E) => t \in Seq(E)
      OBVIOUS
    <3> QED BY <3>1, KeysAre
  <2>2. PICK k : k \in DOMAIN m.labels
    OBVIOUS
  <2>3. PICK i \in 1..Len(Keys(m)) : Keys(m)[i] = k
    BY <2>2, KeysAre
  <2>4. Keys(m) # <<>>
    BY <2>3
  <2> QED BY <2>1, <2>4
<1>2. PICK f \in Text(Nat), a \in Text(Nat), p \in Text(Nat) :
         /\ f = FlattenSeq(Labels(m, u, "path")) /\ a = m.name /\ p = Prefix /\ a \in Text(NotDot)
  <2>1. m.name \in Text(Nat) /\ m.name \in Text(NotDot)
    BY NamesAreTexts, Alphabets, NotDots, SeqMonotonic DEF Named, Text
  <2>2. FlattenSeq(Labels(m, u, "path")) \in Text(Nat)
    BY LabelsNext
  <2> QED BY <2>1, <2>2, PrefixType
<1>3. DefaultPath(m, "path") = Cat(Cat(p, a), f)
  BY <1>1, <1>2, PathBody
<1>4. f # <<>>
  <2>1. SUFFICES ASSUME f = <<>> PROVE FALSE
    OBVIOUS
  <2>2. Body(m, u, "path") = a
    BY <1>2, <2>1, TextEmpty DEF Body
  <2>3. NodesAre(m, u, Split(a, Dot))
    BY <2>2, NodedAll DEF Noded
  <2>4. Split(a, Dot) = <<a>>
    <3>1. a \in Text(Nat \ {Dot}) /\ Dot \in Nat
      BY <1>2 DEF NotDot, Dot
    <3> QED BY <3>1, SplitFirst
  <2>5. Len(<<a>>) = 2 * Len(u) + 1
    BY <2>3, <2>4 DEF NodesAre
  <2>6. Len(u) \in Nat /\ Len(u) # 0 /\ Len(<<a>>) = 1
    BY <1>1
  <2> QED BY <2>5, <2>6
<1>5. f[1] = Dot
  <2>1. f = Rest(m, "path")
    <3>3. LabelTexts(m, "path") = Labels(m, Keys(m), "path")
      BY LabelsAre
    <3> QED BY <1>1, <1>2, <3>3 DEF Rest
  <2>2. f \in Tails("path")
    <3>1. PICK W \in SUBSET Text(Nat), X \in SUBSET Text(Nat) :
             W = LabelWords("path") /\ X = Tails("path") /\ Behind(X, W) /\ <<>> \in X
      BY LabelsDecodable, EndStops DEF Formats
    <3>2. PICK s \in Seq(W) : s = LabelTexts(m, "path")
      BY <3>1, LabelTextsAre DEF Formats
    <3>3. f = FlattenSeq(s)
      BY <2>1, <3>2 DEF Rest
    <3>4. Cat(f, <<>>) \in X
      BY <3>1, <3>3, WordsBefore
    <3> QED BY <3>1, <3>4, TextEmpty
  <2> QED BY <1>4, <2>2, TailsAre DEF StartsWith
<1>6. PICK x \in Text(Nat) : x = Cat(p, a)
  BY TextConcat
<1>7. IsPrefix(x \o <<f[1]>>, Cat(x, f))
  BY <1>4, BeginsWith
<1> QED BY <1>2, <1>3, <1>5, <1>6, <1>7 DEF Cat

=============================================================================

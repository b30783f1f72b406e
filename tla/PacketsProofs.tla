--------------------------- MODULE PacketsProofs ---------------------------
(***************************************************************************)
(* Theorems about Packets, for payloads, answers and cuts of every length  *)
(* and every size of the packets and their headers.  The invariant has two *)
(* halves:                                                                 *)
(*   ServerHalf  what the server has read and not taken, and what is on    *)
(*         its way to it, is the rest of the prepared packets, numbered    *)
(*         without a gap;                                                  *)
(*   ClientHalf  what the client has read, decompressed and queued, and    *)
(*         what is on its way to it, is the packets that are owed: for the *)
(*         compressed broker there is an answer, cut into compressed       *)
(*         packets, and a place in it where the client is.                 *)
(* FlattenSeq is defined by a recursive function: what is needed of it     *)
(* follows from the least number for which it would fail.                  *)
(***************************************************************************)
EXTENDS Packets, SequenceTheorems, WellFoundedInduction, TLAPS

-----------------------------------------------------------------------------
(* Sequences, FlattenSeq and remainders.                                   *)

(* The i-th element of the function by which FlattenSeq joins sequences,   *)
(* given the elements before it.                                           *)
Joined(seqs, f, i) == IF i = 1 THEN seqs[i] ELSE f[i-1] \o seqs[i]

(* f joins the first n of the sequences.                                   *)
Flattening(seqs, n, f) == f = [i \in 1..n |-> Joined(seqs, f, i)]

(* A set of numbers that is not empty has a least one: induction, for all  *)
(* that follows about the functions with which FlattenSeq joins.           *)
LEMMA LeastElement ==
    ASSUME NEW T \in SUBSET Nat, T # {}
    PROVE  \E n \in T : \A m \in T : n <= m
<1>1. PICK n \in T : \A m \in T : <<m, n>> \notin OpToRel(<, Nat)
  BY NatLessThanWellFounded, WFMin
<1>2. ASSUME NEW m \in T, m < n
      PROVE  FALSE
  <2>1. <<m, n>> \in Nat \X Nat /\ <<m, n>>[1] < <<m, n>>[2]
    BY <1>2
  <2>2. <<m, n>> \in OpToRel(<, Nat)
    BY <2>1 DEF OpToRel
  <2>3. QED
    BY <1>1, <2>2
<1>3. QED
  BY <1>2

(* What joins n sequences can be extended to n + 1.                        *)
LEMMA FlatteningGrows ==
    ASSUME NEW seqs, NEW n \in Nat, NEW f, Flattening(seqs, n, f)
    PROVE  \E g : Flattening(seqs, n + 1, g)
<1> DEFINE g == [i \in 1..(n + 1) |-> Joined(seqs, f, i)]
<1>1. \A i \in 1..n : g[i] = Joined(seqs, f, i) /\ f[i] = Joined(seqs, f, i)
  BY DEF Flattening
<1>2. \A i \in 1..(n + 1) : Joined(seqs, g, i) = Joined(seqs, f, i)
  <2> TAKE i \in 1..(n + 1)
  <2>1. i = 1 \/ i - 1 \in 1..n
    OBVIOUS
  <2>2. i = 1 \/ g[i - 1] = f[i - 1]
    BY <2>1, <1>1
  <2> HIDE DEF g
  <2>3. QED
    BY <2>2 DEF Joined
<1>3. g = [i \in 1..(n + 1) |-> Joined(seqs, g, i)]
  BY <1>2, Zenon
<1>4. QED
  BY <1>3 DEF Flattening

(* So there is one for every n: the least n without one would be the next  *)
(* of an n that has one.                                                   *)
LEMMA FlatteningExists ==
    ASSUME NEW seqs, NEW n \in Nat
    PROVE  \E f : Flattening(seqs, n, f)
<1> DEFINE Has(k) == \E f : Flattening(seqs, k, f)
           Bad == {k \in Nat : ~Has(k)}
<1>1. Has(0)
  <2>1. <<>> = [i \in 1..0 |-> Joined(seqs, <<>>, i)]
    OBVIOUS
  <2>2. QED
    BY <2>1 DEF Flattening
<1>2. \A k \in Nat : Has(k) => Has(k + 1)
  BY FlatteningGrows
<1> HIDE DEF Has
<1>3. ASSUME Bad # {}
      PROVE  FALSE
  <2>1. PICK k \in Bad : \A m \in Bad : k <= m
    BY <1>3, LeastElement
  <2>2. k # 0 /\ Has(k - 1)
    BY <2>1, <1>1
  <2>3. QED
    BY <2>1, <2>2, <1>2
<1>4. QED
  BY <1>3 DEF Has

(* The function that FlattenSeq chooses is such a one, and gives its value.*)
LEMMA FlatteningGives ==
    ASSUME NEW seqs, Len(seqs) \in Nat \ {0}
    PROVE  \E f : Flattening(seqs, Len(seqs), f) /\ FlattenSeq(seqs) = f[Len(seqs)]
<1> DEFINE f == CHOOSE ff : Flattening(seqs, Len(seqs), ff)
<1>1. Flattening(seqs, Len(seqs), f)
  BY FlatteningExists
<1>2. FlattenSeq(seqs) = f[Len(seqs)]
  BY DEF FlattenSeq, Flattening, Joined
<1>3. QED
  BY <1>1, <1>2

(* An element of it.                                                       *)
LEMMA FlatteningAt ==
    ASSUME NEW s, NEW n \in Nat, NEW f, Flattening(s, n, f), NEW i \in 1..n
    PROVE  f[i] = Joined(s, f, i)
  BY DEF Flattening

(* Nothing is joined to nothing.                                           *)
LEMMA FlatEmpty == FlattenSeq(<<>>) = <<>>
  BY DEF FlattenSeq

(* Two of them agree where their sequences do.                             *)
LEMMA FlatteningUnique ==
    ASSUME NEW s, NEW t, NEW n \in Nat, NEW m \in Nat, n <= m,
           NEW f, Flattening(s, n, f), NEW g, Flattening(t, m, g),
           \A i \in 1..n : s[i] = t[i]
    PROVE  \A i \in 1..n : f[i] = g[i]
<1> DEFINE Bad == {i \in Nat : i \in 1..n /\ f[i] # g[i]}
<1>1. ASSUME Bad # {}
      PROVE  FALSE
  <2>1. PICK k \in Bad : \A i \in Bad : k <= i
    BY <1>1, LeastElement
  <2>2. k \in 1..n /\ k \in 1..m
    BY <2>1
  <2>3. f[k] = Joined(s, f, k)
    BY <2>2, FlatteningAt
  <2>4. g[k] = Joined(t, g, k)
    BY <2>2, FlatteningAt
  <2>5. k = 1 \/ f[k - 1] = g[k - 1]
    BY <2>1
  <2>6. QED
    BY <2>1, <2>2, <2>3, <2>4, <2>5 DEF Joined
<1>2. QED
  BY <1>1

(* They join sequences over X to a sequence over X.                        *)
LEMMA FlatteningType ==
    ASSUME NEW X, NEW s \in Seq(Seq(X)), NEW f, Flattening(s, Len(s), f)
    PROVE  \A i \in 1..Len(s) : f[i] \in Seq(X)
<1> DEFINE Bad == {i \in Nat : i \in 1..Len(s) /\ f[i] \notin Seq(X)}
<1>1. ASSUME Bad # {}
      PROVE  FALSE
  <2>1. PICK k \in Bad : \A i \in Bad : k <= i
    BY <1>1, LeastElement
  <2>2. f[k] = Joined(s, f, k)
    BY <2>1 DEF Flattening
  <2>3. k = 1 \/ f[k - 1] \in Seq(X)
    BY <2>1
  <2>4. s[k] \in Seq(X)
    BY <2>1
  <2>5. QED
    BY <2>1, <2>2, <2>3, <2>4, ConcatProperties DEF Joined
<1>2. QED
  BY <1>1

(* FlattenSeq gives a sequence over the same set.                          *)
LEMMA FlatType ==
    ASSUME NEW X, NEW s \in Seq(Seq(X))
    PROVE  FlattenSeq(s) \in Seq(X)
<1>1. CASE s = <<>>
  <2>1. FlattenSeq(s) = <<>>
    BY <1>1, FlatEmpty
  <2>2. QED
    BY <2>1
<1>2. CASE s # <<>>
  <2>1. Len(s) \in Nat \ {0}
    BY <1>2
  <2>2. PICK f : Flattening(s, Len(s), f) /\ FlattenSeq(s) = f[Len(s)]
    BY <2>1, FlatteningGives
  <2>3. QED
    BY <2>1, <2>2, FlatteningType
<1>3. QED
  BY <1>1, <1>2

(* One more sequence is joined at the end.                                 *)
LEMMA FlatExtends ==
    ASSUME NEW s, NEW t, NEW n \in Nat \ {0}, Len(s) = n, Len(t) = n + 1,
           \A i \in 1..n : t[i] = s[i]
    PROVE  FlattenSeq(t) = FlattenSeq(s) \o t[n + 1]
<1>1. PICK f : Flattening(s, n, f) /\ FlattenSeq(s) = f[n]
  BY FlatteningGives
<1>2. PICK g : Flattening(t, n + 1, g) /\ FlattenSeq(t) = g[n + 1]
  <2>1. Len(t) \in Nat \ {0}
    OBVIOUS
  <2>2. QED
    BY <2>1, FlatteningGives
<1>3. \A i \in 1..n : f[i] = g[i]
  BY <1>1, <1>2, FlatteningUnique
<1>4. g[n + 1] = Joined(t, g, n + 1)
  BY <1>2, FlatteningAt
<1>5. n + 1 # 1 /\ (n + 1) - 1 = n /\ n \in 1..n
  OBVIOUS
<1>6. g[n + 1] = g[n] \o t[n + 1] /\ f[n] = g[n]
  BY <1>3, <1>4, <1>5, Zenon DEF Joined
<1>7. QED
  BY <1>1, <1>2, <1>6, Zenon

(* One sequence is joined to itself.                                       *)
LEMMA FlatOne ==
    ASSUME NEW X, NEW e \in Seq(X)
    PROVE  FlattenSeq(<<e>>) = e
<1> DEFINE t == <<e>>
<1>1. Len(t) = 1 /\ t[1] = e /\ Len(t) \in Nat \ {0}
  OBVIOUS
<1> HIDE DEF t
<1>2. PICK g : Flattening(t, Len(t), g) /\ FlattenSeq(t) = g[Len(t)]
  BY <1>1, FlatteningGives
<1>3. g[1] = Joined(t, g, 1)
  BY <1>1, <1>2, FlatteningAt
<1>4. FlattenSeq(t) = e
  BY <1>1, <1>2, <1>3 DEF Joined
<1>5. QED
  BY <1>4 DEF t

(* FlattenSeq of an appended sequence.                                     *)
LEMMA FlatAppend ==
    ASSUME NEW X, NEW s \in Seq(Seq(X)), NEW e \in Seq(X)
    PROVE  FlattenSeq(Append(s, e)) = FlattenSeq(s) \o e
<1>1. CASE s = <<>>
  <2>1. Append(s, e) = <<e>>
    BY <1>1
  <2>2. FlattenSeq(s) = <<>>
    BY <1>1, FlatEmpty
  <2>3. QED
    BY <2>1, <2>2, FlatOne, ConcatEmptySeq
<1>2. CASE s # <<>>
  <2>1. /\ Append(s, e) \in Seq(Seq(X)) /\ Len(Append(s, e)) = Len(s) + 1
        /\ \A i \in 1..Len(s) : Append(s, e)[i] = s[i]
        /\ Append(s, e)[Len(Append(s, e))] = e /\ Len(s) \in Nat \ {0}
    BY <1>2
  <2>2. FlattenSeq(Append(s, e)) = FlattenSeq(s) \o Append(s, e)[Len(s) + 1]
    BY <2>1, FlatExtends
  <2>3. QED
    BY <2>1, <2>2
<1>3. QED
  BY <1>1, <1>2

(* FlattenSeq of two sequences of sequences, one after the other: the least*)
(* end of a part of the second for which it fails is the next after one for*)
(* which it holds.                                                         *)
LEMMA FlatConcat ==
    ASSUME NEW X, NEW s \in Seq(Seq(X)), NEW t \in Seq(Seq(X))
    PROVE  FlattenSeq(s \o t) = FlattenSeq(s) \o FlattenSeq(t)
<1> DEFINE Splits(u) == FlattenSeq(s \o u) = FlattenSeq(s) \o FlattenSeq(u)
           Bad == {n \in Nat : \E u \in Seq(Seq(X)) : Len(u) = n /\ ~Splits(u)}
<1>1. Splits(<<>>)
  BY FlatEmpty, FlatType, ConcatEmptySeq
<1>2. ASSUME NEW u \in Seq(Seq(X)), NEW e \in Seq(X), Splits(u)
      PROVE  Splits(Append(u, e))
  <2>1. s \o Append(u, e) = Append(s \o u, e) /\ s \o u \in Seq(Seq(X))
    OBVIOUS
  <2>2. FlattenSeq(s \o Append(u, e)) = FlattenSeq(s \o u) \o e
    BY <2>1, FlatAppend
  <2>3. FlattenSeq(Append(u, e)) = FlattenSeq(u) \o e
    BY FlatAppend
  <2>4. FlattenSeq(s) \in Seq(X) /\ FlattenSeq(u) \in Seq(X)
    BY FlatType
  <2>5. QED
    BY <1>2, <2>2, <2>3, <2>4, ConcatAssociative
<1> HIDE DEF Splits
<1>3. ASSUME Bad # {}
      PROVE  FALSE
  <2>1. PICK n \in Bad : \A m \in Bad : n <= m
    BY <1>3, LeastElement
  <2>2. PICK u \in Seq(Seq(X)) : Len(u) = n /\ ~Splits(u)
    BY <2>1
  <2>3. u # <<>>
    BY <2>2, <1>1
  <2>4. PICK v \in Seq(Seq(X)), e \in Seq(X) : u = Append(v, e)
    BY <2>3, SequenceEmptyOrAppend
  <2>5. Len(v) \in Nat /\ Len(v) < n
    BY <2>2, <2>4
  <2>6. Splits(v)
    BY <2>1, <2>5
  <2>7. QED
    BY <2>2, <2>4, <2>6, <1>2
<1>4. Splits(t)
  BY <1>3
<1>5. QED
  BY <1>4 DEF Splits

(* FlattenSeq begins with the first sequence.                              *)
LEMMA FlatHead ==
    ASSUME NEW X, NEW s \in Seq(Seq(X)), s # <<>>
    PROVE  FlattenSeq(s) = Head(s) \o FlattenSeq(Tail(s))
<1>1. /\ Head(s) \in Seq(X) /\ <<Head(s)>> \in Seq(Seq(X)) /\ Tail(s) \in Seq(Seq(X))
      /\ s = <<Head(s)>> \o Tail(s)
  OBVIOUS
<1>2. FlattenSeq(<<Head(s)>> \o Tail(s)) = FlattenSeq(<<Head(s)>>) \o FlattenSeq(Tail(s))
  BY <1>1, FlatConcat
<1>3. FlattenSeq(<<Head(s)>>) = Head(s)
  BY <1>1, FlatOne
<1>4. QED
  BY <1>1, <1>2, <1>3

(* Quotient and remainder.                                                 *)
LEMMA Division ==
    ASSUME NEW n \in Nat, NEW d \in Nat \ {0}
    PROVE  n \div d \in Nat /\ n % d \in 0..(d - 1) /\ n = d * (n \div d) + (n % d)
  OBVIOUS

(* Quotient and remainder are unique.                                      *)
LEMMA Remainder ==
    ASSUME NEW d \in Nat \ {0}, NEW q \in Nat, NEW r \in 0..(d - 1)
    PROVE  (d * q + r) % d = r /\ (d * q + r) \div d = q
  OBVIOUS

(* The number after n modulo d, whether n was reduced or not.              *)
LEMMA NextRemainder ==
    ASSUME NEW n \in Nat, NEW d \in Nat \ {0}
    PROVE  ((n % d) + 1) % d = (n + 1) % d
<1> DEFINE q == n \div d
           r == n % d
<1>1. q \in Nat /\ r \in 0..(d - 1) /\ n = d * q + r
  BY Division
<1> HIDE DEF q, r
<1>2. CASE r + 1 < d
  <2> DEFINE k == r + 1
  <2>1. k \in 0..(d - 1) /\ n + 1 = d * q + k
    BY <1>1, <1>2
  <2> HIDE DEF k
  <2>2. (d * q + k) % d = k
    BY <1>1, <2>1, Remainder
  <2>3. k % d = k
    BY <2>1
  <2>4. (n + 1) % d = k % d
    BY <2>1, <2>2, <2>3
  <2>5. QED
    BY <2>4 DEF k, r
<1>3. CASE r + 1 = d
  <2>1. n + 1 = d * (q + 1) /\ q + 1 \in Nat
    BY <1>1, <1>3
  <2>2. (d * (q + 1) + 0) % d = 0
    BY <2>1, Remainder
  <2>3. (d * (q + 1)) % d = 0
    BY <2>2, <2>1
  <2>4. (n + 1) % d = 0 /\ (r + 1) % d = 0
    BY <2>1, <2>3, <1>3
  <2>5. QED
    BY <2>4 DEF r
<1>4. QED
  BY <1>1, <1>2, <1>3

(* The smaller of two numbers.                                             *)
LEMMA MinOfTwo ==
    ASSUME NEW a \in Int, NEW b \in Int
    PROVE  Min({a, b}) = IF a <= b THEN a ELSE b
  BY DEF Min

(* One sequence after the other, as an operator of its own: the provers are*)
(* given what holds of it and not what it is.                              *)
Cat(a, b) == a \o b

(* Its type and length.                                                    *)
LEMMA CatType ==
    ASSUME NEW X, NEW a \in Seq(X), NEW b \in Seq(X)
    PROVE  Cat(a, b) \in Seq(X) /\ Len(Cat(a, b)) = Len(a) + Len(b)
  BY DEF Cat

(* Its elements.                                                           *)
LEMMA CatAt ==
    ASSUME NEW X, NEW a \in Seq(X), NEW b \in Seq(X), NEW i \in 1..(Len(a) + Len(b))
    PROVE  Cat(a, b)[i] = IF i <= Len(a) THEN a[i] ELSE b[i - Len(a)]
  BY DEF Cat

(* Cat is associative.                                                     *)
LEMMA CatAssoc ==
    ASSUME NEW X, NEW a \in Seq(X), NEW b \in Seq(X), NEW c \in Seq(X)
    PROVE  Cat(Cat(a, b), c) = Cat(a, Cat(b, c))
  BY DEF Cat

(* Nothing before or after a sequence.                                     *)
LEMMA CatEmpty ==
    ASSUME NEW X, NEW a \in Seq(X)
    PROVE  Cat(a, <<>>) = a /\ Cat(<<>>, a) = a
  BY DEF Cat

(* The bytes m + 1 to n of a sequence.                                     *)
LEMMA Part ==
    ASSUME NEW X, NEW s \in Seq(X), NEW m \in Nat, NEW n \in Nat, m <= n, n <= Len(s)
    PROVE  /\ SubSeq(s, m + 1, n) \in Seq(X) /\ Len(SubSeq(s, m + 1, n)) = n - m
           /\ \A i \in 1..(n - m) : SubSeq(s, m + 1, n)[i] = s[m + i]
  OBVIOUS

(* Two parts of a sequence that meet.                                      *)
LEMMA CatParts ==
    ASSUME NEW X, NEW s \in Seq(X), NEW l \in Nat, NEW m \in Nat, NEW n \in Nat,
           l <= m, m <= n, n <= Len(s)
    PROVE  Cat(SubSeq(s, l + 1, m), SubSeq(s, m + 1, n)) = SubSeq(s, l + 1, n)
<1> DEFINE a == SubSeq(s, l + 1, m)
           b == SubSeq(s, m + 1, n)
           c == SubSeq(s, l + 1, n)
<1>1. a \in Seq(X) /\ Len(a) = m - l /\ \A i \in 1..(m - l) : a[i] = s[l + i]
  BY Part
<1>2. b \in Seq(X) /\ Len(b) = n - m /\ \A i \in 1..(n - m) : b[i] = s[m + i]
  BY Part
<1>3. c \in Seq(X) /\ Len(c) = n - l /\ \A i \in 1..(n - l) : c[i] = s[l + i]
  BY Part
<1> HIDE DEF a, b, c
<1>4. Cat(a, b) \in Seq(X) /\ Len(Cat(a, b)) = n - l
  <2>1. Cat(a, b) \in Seq(X) /\ Len(Cat(a, b)) = Len(a) + Len(b)
    BY <1>1, <1>2, CatType
  <2>2. QED
    BY <2>1, <1>1, <1>2
<1>5. ASSUME NEW i \in 1..(n - l)
      PROVE  Cat(a, b)[i] = c[i]
  <2>0. a \in Seq(X) /\ b \in Seq(X) /\ i \in 1..(Len(a) + Len(b))
    BY <1>1, <1>2
  <2>1. Cat(a, b)[i] = IF i <= Len(a) THEN a[i] ELSE b[i - Len(a)]
    BY <2>0, CatAt
  <2>2. CASE i <= m - l
    BY <2>1, <2>2, <1>1, <1>3
  <2>3. CASE i > m - l
    <3>1. i - (m - l) \in 1..(n - m) /\ m + (i - (m - l)) = l + i
      BY <2>3
    <3>2. Cat(a, b)[i] = b[i - (m - l)]
      BY <2>1, <2>3, <1>1
    <3>3. b[i - (m - l)] = s[l + i]
      BY <3>1, <1>2
    <3>4. QED
      BY <3>2, <3>3, <1>3
  <2>4. QED
    BY <2>2, <2>3
<1>6. Cat(a, b) = c
  BY <1>3, <1>4, <1>5, SeqEqual
<1>7. QED
  BY <1>6 DEF a, b, c

(* All of a sequence.                                                      *)
LEMMA WholePart ==
    ASSUME NEW X, NEW s \in Seq(X)
    PROVE  SubSeq(s, 1, Len(s)) = s
  OBVIOUS

(* A beginning of a sequence and the part after it.                        *)
LEMMA Extended ==
    ASSUME NEW X, NEW s \in Seq(X), NEW l \in Nat, NEW m \in Nat, l <= m, m <= Len(s)
    PROVE  Cat(SubSeq(s, 1, l), SubSeq(s, l + 1, m)) = SubSeq(s, 1, m)
<1> DEFINE z == 0
<1>1. z \in Nat /\ z <= l /\ z + 1 = 1
  OBVIOUS
<1> HIDE DEF z
<1>2. Cat(SubSeq(s, z + 1, l), SubSeq(s, l + 1, m)) = SubSeq(s, z + 1, m)
  BY <1>1, CatParts
<1>3. QED
  BY <1>1, <1>2

(* When two pairs of sequences are the same bytes, one of the first two is *)
(* a beginning of the other.                                               *)
LEMMA CatPrefix ==
    ASSUME NEW X, NEW b \in Seq(X), NEW x \in Seq(X), NEW p \in Seq(X), NEW y \in Seq(X),
           Cat(b, x) = Cat(p, y)
    PROVE  /\ \A k \in 1..Len(b) : k <= Len(p) => b[k] = p[k]
           /\ Len(b) + Len(x) = Len(p) + Len(y)
           /\ Len(b) >= Len(p) => Cat(SubSeq(b, Len(p) + 1, Len(b)), x) = y
<1>1. Len(b) + Len(x) = Len(p) + Len(y)
  <2>1. Len(Cat(b, x)) = Len(b) + Len(x)
    BY CatType
  <2>2. Len(Cat(p, y)) = Len(p) + Len(y)
    BY CatType
  <2>3. QED
    BY <2>1, <2>2
<1>2. \A i \in 1..(Len(b) + Len(x)) : Cat(b, x)[i] = IF i <= Len(b) THEN b[i] ELSE x[i - Len(b)]
  BY CatAt
<1>3. \A i \in 1..(Len(p) + Len(y)) : Cat(p, y)[i] = IF i <= Len(p) THEN p[i] ELSE y[i - Len(p)]
  BY CatAt
<1>4. Len(b) \in Nat /\ Len(x) \in Nat /\ Len(p) \in Nat /\ Len(y) \in Nat
  OBVIOUS
<1>5. \A k \in 1..Len(b) : k <= Len(p) => b[k] = p[k]
  <2> TAKE k \in 1..Len(b)
  <2> HAVE k <= Len(p)
  <2>1. k \in 1..(Len(b) + Len(x)) /\ k \in 1..(Len(p) + Len(y)) /\ k <= Len(b)
    BY <1>4
  <2>2. Cat(b, x)[k] = b[k]
    BY <1>2, <2>1
  <2>3. Cat(p, y)[k] = p[k]
    BY <1>3, <2>1
  <2>4. QED
    BY <2>2, <2>3
<1>6. ASSUME Len(b) >= Len(p)
      PROVE  Cat(SubSeq(b, Len(p) + 1, Len(b)), x) = y
  <2> DEFINE t == SubSeq(b, Len(p) + 1, Len(b))
  <2>1. /\ t \in Seq(X) /\ Len(t) = Len(b) - Len(p)
        /\ \A i \in 1..(Len(b) - Len(p)) : t[i] = b[Len(p) + i]
    BY <1>4, <1>6, Part
  <2> HIDE DEF t
  <2>2. Cat(t, x) \in Seq(X) /\ Len(Cat(t, x)) = Len(y)
    <3>1. Cat(t, x) \in Seq(X) /\ Len(Cat(t, x)) = Len(t) + Len(x)
      BY <2>1, CatType
    <3>2. QED
      BY <3>1, <2>1, <1>1, <1>4
  <2>3. ASSUME NEW i \in 1..Len(y)
        PROVE  Cat(t, x)[i] = y[i]
    <3>1. Len(p) + i \in 1..(Len(b) + Len(x)) /\ Len(p) + i \in 1..(Len(p) + Len(y))
          /\ ~(Len(p) + i <= Len(p)) /\ (Len(p) + i) - Len(p) = i
          /\ i \in 1..(Len(t) + Len(x))
      BY <1>1, <1>4, <2>1
    <3>2. Cat(t, x)[i] = IF i <= Len(t) THEN t[i] ELSE x[i - Len(t)]
      BY <3>1, <2>1, CatAt
    <3>3. y[i] = Cat(p, y)[Len(p) + i]
      BY <3>1, <1>3
    <3>4. Cat(b, x)[Len(p) + i] = IF Len(p) + i <= Len(b) THEN b[Len(p) + i]
                                  ELSE x[(Len(p) + i) - Len(b)]
      BY <3>1, <1>2
    <3>5. CASE i <= Len(t)
      <4>1. Len(p) + i <= Len(b) /\ i \in 1..(Len(b) - Len(p))
        BY <3>5, <2>1, <1>4
      <4>2. QED
        BY <4>1, <3>2, <3>3, <3>4, <3>5, <2>1
    <3>6. CASE i > Len(t)
      <4>1. ~(Len(p) + i <= Len(b)) /\ (Len(p) + i) - Len(b) = i - Len(t) /\ ~(i <= Len(t))
        BY <3>6, <2>1, <1>4
      <4>2. QED
        BY <4>1, <3>2, <3>3, <3>4
    <3>7. QED
      BY <3>5, <3>6, <2>1, <1>4
  <2>4. Cat(t, x) = y
    BY <2>2, <2>3, SeqEqual
  <2>5. QED
    BY <2>4 DEF t
<1>7. QED
  BY <1>1, <1>5, <1>6

(* And when they are as long, they are the same.                           *)
LEMMA CatSame ==
    ASSUME NEW X, NEW b \in Seq(X), NEW x \in Seq(X), NEW p \in Seq(X), NEW y \in Seq(X),
           Cat(b, x) = Cat(p, y), Len(b) = Len(p)
    PROVE  b = p /\ x = y
<1>1. \A k \in 1..Len(b) : k <= Len(p) => b[k] = p[k]
  BY CatPrefix
<1>2. b = p
  BY <1>1, SeqEqual
<1>3. Len(b) >= Len(p) => Cat(SubSeq(b, Len(p) + 1, Len(b)), x) = y
  BY CatPrefix
<1>4. SubSeq(b, Len(p) + 1, Len(b)) = <<>>
  OBVIOUS
<1>5. Len(b) >= Len(p)
  OBVIOUS
<1>6. Cat(<<>>, x) = y
  BY <1>3, <1>4, <1>5
<1>7. QED
  BY <1>2, <1>6, CatEmpty

(* recv_into() moves k bytes from one sequence to the end of another:      *)
(* together they stay the same.                                            *)
LEMMA CatMoved ==
    ASSUME NEW X, NEW b \in Seq(X), NEW x \in Seq(X), NEW k \in 0..Len(x)
    PROVE  /\ SubSeq(x, 1, k) \in Seq(X) /\ SubSeq(x, k + 1, Len(x)) \in Seq(X)
           /\ Cat(Cat(b, SubSeq(x, 1, k)), SubSeq(x, k + 1, Len(x))) = Cat(b, x)
           /\ Len(Cat(b, SubSeq(x, 1, k))) = Len(b) + k
<1> DEFINE h == SubSeq(x, 1, k)
           t == SubSeq(x, k + 1, Len(x))
<1>1. h \in Seq(X) /\ t \in Seq(X) /\ Len(h) = k
  OBVIOUS
<1>2. Cat(h, t) = x
  <2> DEFINE n == Len(x)
  <2>1. n \in Nat /\ k \in Nat /\ k <= n /\ n <= Len(x)
    OBVIOUS
  <2>2. SubSeq(x, 1, n) = x
    BY WholePart
  <2> HIDE DEF n
  <2>3. Cat(SubSeq(x, 1, k), SubSeq(x, k + 1, n)) = SubSeq(x, 1, n)
    BY <2>1, Extended
  <2>4. QED
    BY <2>2, <2>3 DEF n
<1> HIDE DEF h, t
<1>3. Cat(Cat(b, h), t) = Cat(b, Cat(h, t))
  BY <1>1, CatAssoc
<1>4. Len(Cat(b, h)) = Len(b) + k
  BY <1>1, CatType
<1>5. QED
  BY <1>1, <1>2, <1>3, <1>4 DEF h, t

-----------------------------------------------------------------------------
(* What the client sends.                                                  *)

(* The bytes of packets, of zlib.compress and of the headers of compressed *)
(* packets.                                                                *)
NumberSet  == 0..(Numbers - 1)
HeadBytes  == [part : {"head"}, i : 1..Header, len : 0..MaxPayload, nr : NumberSet]
BodyBytes  == [part : {"body"}, i : Nat]
PlainBytes == HeadBytes \cup BodyBytes
ZipBytes   == [part : {"zip"}, plain : Seq(PlainBytes)]
OuterBytes == [part : {"outer"}, i : 1..OuterHeader, nr : NumberSet, size : Nat, len : Nat]
Bytes      == PlainBytes \cup ZipBytes \cup OuterBytes

(* What a packet of the socket carries, after decompression.               *)
Plain(p)  == Unzipped(p.size, p.body)
Plains(u) == [k \in 1..Len(u) |-> Plain(u[k])]

(* The packets that the client sends.                                      *)
UpPackets(limit) == {p \in [nr : NumberSet, size : Nat, body : Seq(Bytes)] :
                       Plain(p) \in Seq(Bytes) /\ Len(Plain(p)) \in 1..limit}

(* Their numbers go on without a gap.                                      *)
Chained(u) == \A k \in 1..(Len(u) - 1) : u[k + 1].nr = NextNumber(u[k].nr)

(* A function on 1..n is a sequence.                                       *)
LEMMA FunctionIsSequence ==
    ASSUME NEW X, NEW n \in Nat, NEW f \in [1..n -> X]
    PROVE  f \in Seq(X) /\ Len(f) = n /\ DOMAIN f = 1..n
  OBVIOUS

(* A sequence over a set is one over a larger set.                         *)
LEMMA LargerSeq ==
    ASSUME NEW X, NEW Y, X \subseteq Y, NEW s \in Seq(X)
    PROVE  s \in Seq(Y)
<1>1. s \in [1..Len(s) -> X] /\ Len(s) \in Nat
  OBVIOUS
<1>2. s \in [1..Len(s) -> Y]
  BY <1>1
<1>3. QED
  BY <1>1, <1>2, FunctionIsSequence

(* What is assumed of the sizes.                                           *)
LEMMA Sizes ==
    /\ Header \in Nat /\ Header >= 2 /\ OuterHeader \in Nat /\ OuterHeader >= 1
    /\ MaxPayload \in Nat /\ MaxPayload > Header /\ MaxPayload \in Nat \ {0}
    /\ Numbers \in Nat /\ Numbers >= 2 /\ Numbers \in Nat \ {0} /\ 0 \in NumberSet
  BY PacketsAssumption DEF NumberSet

(* Packet numbers stay below Numbers.                                      *)
LEMMA NumberIsNumber ==
    ASSUME NEW n \in Nat
    PROVE  n % Numbers \in NumberSet /\ NextNumber(n) \in NumberSet
           /\ NextNumber(n % Numbers) = (n + 1) % Numbers
<1>1. Numbers \in Nat \ {0}
  BY Sizes
<1>2. n % Numbers \in 0..(Numbers - 1) /\ (n + 1) % Numbers \in 0..(Numbers - 1)
  BY <1>1, Division
<1>3. ((n % Numbers) + 1) % Numbers = (n + 1) % Numbers
  BY <1>1, NextRemainder
<1>4. QED
  BY <1>2, <1>3 DEF NumberSet, NextNumber

(* A packet: a header in which every byte tells its place, the length and  *)
(* the number, and the payload.                                            *)
LEMMA PacketShape ==
    ASSUME NEW len \in 0..MaxPayload, NEW nr \in NumberSet, NEW from \in Nat
    PROVE  /\ Packet(len, nr, from) \in Seq(PlainBytes)
           /\ Packet(len, nr, from) \in Seq(Bytes)
           /\ Len(Packet(len, nr, from)) = Header + len
           /\ \A i \in 1..Header : Packet(len, nr, from)[i] = HeadByte(i, len, nr)
           /\ \A i \in 1..len : Packet(len, nr, from)[Header + i] = BodyByte(from + i)
<1> DEFINE h == [i \in 1..Header |-> HeadByte(i, len, nr)]
           b == [i \in 1..len |-> BodyByte(from + i)]
<1>1. \A i \in 1..Header : HeadByte(i, len, nr) \in PlainBytes
  BY DEF HeadByte, PlainBytes, HeadBytes
<1>2. \A i \in 1..len : BodyByte(from + i) \in PlainBytes
  BY Sizes DEF BodyByte, PlainBytes, BodyBytes
<1>3. h \in Seq(PlainBytes) /\ Len(h) = Header /\ \A i \in 1..Header : h[i] = HeadByte(i, len, nr)
  <2>1. h \in [1..Header -> PlainBytes] /\ Header \in Nat
    BY <1>1, Sizes
  <2>2. QED
    BY <2>1, FunctionIsSequence
<1>4. b \in Seq(PlainBytes) /\ Len(b) = len /\ \A i \in 1..len : b[i] = BodyByte(from + i)
  <2>1. b \in [1..len -> PlainBytes] /\ len \in Nat
    BY <1>2, Sizes
  <2>2. QED
    BY <2>1, FunctionIsSequence
<1>5. Packet(len, nr, from) = Cat(h, b)
  BY DEF Packet, Cat
<1> HIDE DEF h, b
<1>6. Cat(h, b) \in Seq(PlainBytes) /\ Len(Cat(h, b)) = Header + len
  <2>1. Cat(h, b) \in Seq(PlainBytes) /\ Len(Cat(h, b)) = Len(h) + Len(b)
    BY <1>3, <1>4, CatType
  <2>2. QED
    BY <2>1, <1>3, <1>4
<1>7. Cat(h, b) \in Seq(Bytes)
  <2>1. PlainBytes \subseteq Bytes
    BY DEF Bytes
  <2>2. QED
    BY <2>1, <1>6, LargerSeq
<1>8. ASSUME NEW i \in 1..Header
      PROVE  Cat(h, b)[i] = HeadByte(i, len, nr)
  <2>1. i \in 1..(Len(h) + Len(b)) /\ i <= Len(h)
    BY <1>3, <1>4, Sizes
  <2>2. Cat(h, b)[i] = h[i]
    BY <2>1, <1>3, <1>4, CatAt
  <2>3. QED
    BY <2>2, <1>3
<1>9. ASSUME NEW i \in 1..len
      PROVE  Cat(h, b)[Header + i] = BodyByte(from + i)
  <2> DEFINE k == Header + i
  <2>1. k \in 1..(Len(h) + Len(b)) /\ ~(k <= Len(h)) /\ k - Len(h) = i
    BY <1>3, <1>4, Sizes
  <2> HIDE DEF k
  <2>2. Cat(h, b)[k] = b[k - Len(h)]
    BY <2>1, <1>3, <1>4, CatAt
  <2>3. QED
    BY <2>1, <2>2, <1>4 DEF k
<1>10. QED
  BY <1>5, <1>6, <1>7, <1>8, <1>9

(* The length of the payload of packet k of n bytes.                       *)
PartLength(n, k) == IF k <= n \div MaxPayload THEN MaxPayload ELSE n % MaxPayload

(* How many packets are full, and how long the last one is.                *)
LEMMA Quotient ==
    ASSUME NEW n \in Nat
    PROVE  /\ n \div MaxPayload \in Nat /\ n % MaxPayload \in 0..(MaxPayload - 1)
           /\ n = (n \div MaxPayload) * MaxPayload + (n % MaxPayload)
           /\ n < MaxPayload => n \div MaxPayload = 0 /\ n % MaxPayload = n
<1>1. MaxPayload \in Nat \ {0}
  BY Sizes
<1>2. n \div MaxPayload \in Nat /\ n % MaxPayload \in 0..(MaxPayload - 1)
      /\ n = MaxPayload * (n \div MaxPayload) + (n % MaxPayload)
  BY <1>1, Division
<1>3. n < MaxPayload => n \div MaxPayload = 0 /\ n % MaxPayload = n
  BY <1>1
<1>4. QED
  BY <1>1, <1>2, <1>3

(* _prepare_packets gives full packets and then one that is not.           *)
LEMMA PreparedShape ==
    ASSUME NEW n \in Nat, NEW nr \in Nat
    PROVE  /\ PreparePackets(n, nr) \in Seq(Seq(PlainBytes))
           /\ PreparePackets(n, nr) \in Seq(Seq(Bytes))
           /\ Len(PreparePackets(n, nr)) = (n \div MaxPayload) + 1
           /\ \A k \in 1..((n \div MaxPayload) + 1) :
                /\ PartLength(n, k) \in 0..MaxPayload
                /\ (nr + k - 1) % Numbers \in NumberSet
                /\ (k - 1) * MaxPayload \in Nat
                /\ PreparePackets(n, nr)[k] =
                     Packet(PartLength(n, k), (nr + k - 1) % Numbers, (k - 1) * MaxPayload)
<1> DEFINE q == n \div MaxPayload
           P == PreparePackets(n, nr)
<1>1. q \in Nat /\ n % MaxPayload \in 0..(MaxPayload - 1)
  BY Quotient
<1>2. P = [k \in 1..(q + 1) |-> Packet(PartLength(n, k), (nr + k - 1) % Numbers, (k - 1) * MaxPayload)]
  BY DEF PreparePackets, PartLength
<1> HIDE DEF q, P
<1>3. ASSUME NEW k \in 1..(q + 1)
      PROVE  /\ PartLength(n, k) \in 0..MaxPayload
             /\ (nr + k - 1) % Numbers \in NumberSet
             /\ (k - 1) * MaxPayload \in Nat
  <2>1. PartLength(n, k) \in 0..MaxPayload
    BY <1>1, Sizes DEF PartLength
  <2>2. nr + k - 1 \in Nat /\ k - 1 \in Nat /\ MaxPayload \in Nat
    BY <1>1, Sizes
  <2>3. QED
    BY <2>1, <2>2, NumberIsNumber
<1>4. \A k \in 1..(q + 1) : Packet(PartLength(n, k), (nr + k - 1) % Numbers, (k - 1) * MaxPayload)
                              \in Seq(PlainBytes) \cap Seq(Bytes)
  BY <1>3, PacketShape
<1>5. P \in [1..(q + 1) -> Seq(PlainBytes)] /\ P \in [1..(q + 1) -> Seq(Bytes)] /\ q + 1 \in Nat
  BY <1>1, <1>2, <1>4
<1>6. /\ P \in Seq(Seq(PlainBytes)) /\ P \in Seq(Seq(Bytes)) /\ Len(P) = q + 1
  BY <1>5, FunctionIsSequence
<1>7. QED
  BY <1>2, <1>3, <1>6 DEF q, P

(* What a packet that is not compressed carries.                           *)
LEMMA PlainRaw ==
    ASSUME NEW s, NEW nr
    PROVE  Plain(Raw(s, nr)) = s /\ Raw(s, nr).nr = nr /\ Raw(s, nr).body = s
  BY DEF Plain, Raw, Unzipped

(* What a compressed packet carries; an empty one carries the bytes of     *)
(* zlib.                                                                   *)
LEMMA PlainZipped ==
    ASSUME NEW s, NEW nr
    PROVE  /\ Zipped(s, nr).nr = nr
           /\ Len(s) # 0 => Plain(Zipped(s, nr)) = s
           /\ Len(s) = 0 => Plain(Zipped(s, nr)) = <<[part |-> "zip", plain |-> s]>>
  BY DEF Plain, Zipped, Unzipped

(* A packet that is not compressed may be sent.                            *)
LEMMA RawIsUp ==
    ASSUME NEW s \in Seq(Bytes), NEW nr \in NumberSet, NEW limit \in Nat, Len(s) \in 1..limit
    PROVE  Raw(s, nr) \in UpPackets(limit)
<1>1. Raw(s, nr) \in [nr : NumberSet, size : Nat, body : Seq(Bytes)]
  BY DEF Raw
<1>2. QED
  BY <1>1, PlainRaw DEF UpPackets

(* A compressed packet may be sent.                                        *)
LEMMA ZippedIsUp ==
    ASSUME NEW s \in Seq(PlainBytes), NEW nr \in NumberSet, NEW limit \in Nat \ {0}, Len(s) <= limit
    PROVE  Zipped(s, nr) \in UpPackets(limit)
<1> DEFINE z == [part |-> "zip", plain |-> s]
<1>1. z \in Bytes
  BY DEF Bytes, ZipBytes
<1> HIDE DEF z
<1>2. <<z>> \in Seq(Bytes) /\ Len(<<z>>) = 1
  BY <1>1
<1>3. Len(s) \in Nat
  OBVIOUS
<1>4. Zipped(s, nr) = [nr |-> nr, size |-> Len(s), body |-> <<z>>]
  BY DEF Zipped, z
<1>5. Zipped(s, nr) \in [nr : NumberSet, size : Nat, body : Seq(Bytes)]
  BY <1>2, <1>3, <1>4
<1>6. s \in Seq(Bytes)
  <2>1. PlainBytes \subseteq Bytes
    BY DEF Bytes
  <2>2. QED
    BY <2>1, LargerSeq
<1>7. CASE Len(s) # 0
  <2>1. Plain(Zipped(s, nr)) = s
    BY <1>7, PlainZipped
  <2>2. Len(s) \in 1..limit
    BY <1>3, <1>7
  <2>3. QED
    BY <2>1, <2>2, <1>5, <1>6 DEF UpPackets
<1>8. CASE Len(s) = 0
  <2>1. Plain(Zipped(s, nr)) = <<z>>
    BY <1>8, PlainZipped DEF z
  <2>2. 1 \in 1..limit
    OBVIOUS
  <2>3. QED
    BY <2>1, <2>2, <1>2, <1>5 DEF UpPackets
<1>9. QED
  BY <1>7, <1>8

(* What is known of a packet that is sent.                                 *)
LEMMA UpPacket ==
    ASSUME NEW limit \in Nat, NEW p \in UpPackets(limit)
    PROVE  /\ p.nr \in NumberSet /\ Plain(p) \in Seq(Bytes) /\ Len(Plain(p)) \in Nat
           /\ Len(Plain(p)) # 0 /\ Len(Plain(p)) <= limit
<1>1. p \in [nr : NumberSet, size : Nat, body : Seq(Bytes)] /\ Plain(p) \in Seq(Bytes)
      /\ Len(Plain(p)) \in 1..limit
  BY DEF UpPackets
<1>2. QED
  BY <1>1

(* The first k of a sequence are the first k - 1 and the k-th.             *)
LEMMA Start ==
    ASSUME NEW X, NEW p \in Seq(X), NEW k \in 1..Len(p)
    PROVE  /\ SubSeq(p, 1, k) = Append(SubSeq(p, 1, k - 1), p[k])
           /\ SubSeq(p, 1, k - 1) \in Seq(X) /\ SubSeq(p, 1, k) \in Seq(X) /\ p[k] \in X
<1> DEFINE a == SubSeq(p, 1, k)
           b == SubSeq(p, 1, k - 1)
           c == Append(b, p[k])
<1>1. a \in Seq(X) /\ Len(a) = k /\ \A i \in 1..k : a[i] = p[i]
  OBVIOUS
<1>2. b \in Seq(X) /\ Len(b) = k - 1 /\ \A i \in 1..(k - 1) : b[i] = p[i]
  OBVIOUS
<1>3. p[k] \in X /\ k \in Nat
  OBVIOUS
<1> HIDE DEF a, b
<1>4. c \in Seq(X) /\ Len(c) = k /\ \A i \in 1..k : c[i] = p[i]
  BY <1>2, <1>3
<1> HIDE DEF c
<1>5. a = c
  BY <1>1, <1>4, SeqEqual
<1>6. QED
  BY <1>1, <1>2, <1>3, <1>5 DEF a, b, c

(* The same of what they are joined to.                                    *)
LEMMA FlatStart ==
    ASSUME NEW X, NEW p \in Seq(Seq(X)), NEW k \in 1..Len(p)
    PROVE  FlattenSeq(SubSeq(p, 1, k)) = Cat(FlattenSeq(SubSeq(p, 1, k - 1)), p[k])
  BY Start, FlatAppend DEF Cat

(* The first 0 of them.                                                    *)
LEMMA FlatNone ==
    ASSUME NEW X, NEW p \in Seq(X)
    PROVE  FlattenSeq(SubSeq(p, 1, 0)) = <<>>
<1>1. SubSeq(p, 1, 0) = <<>>
  OBVIOUS
<1>2. QED
  BY <1>1, FlatEmpty

(* FlatConcat, with Cat.                                                   *)
LEMMA FlatCat ==
    ASSUME NEW X, NEW s \in Seq(Seq(X)), NEW t \in Seq(Seq(X))
    PROVE  /\ FlattenSeq(s \o t) = Cat(FlattenSeq(s), FlattenSeq(t))
           /\ FlattenSeq(s) \in Seq(X) /\ FlattenSeq(t) \in Seq(X)
  BY FlatConcat, FlatType DEF Cat

(* FlatHead, with Cat.                                                     *)
LEMMA FlatFirst ==
    ASSUME NEW X, NEW s \in Seq(Seq(X)), s # <<>>
    PROVE  /\ FlattenSeq(s) = Cat(Head(s), FlattenSeq(Tail(s)))
           /\ Head(s) \in Seq(X) /\ Tail(s) \in Seq(Seq(X)) /\ FlattenSeq(Tail(s)) \in Seq(X)
<1>1. Head(s) \in Seq(X) /\ Tail(s) \in Seq(Seq(X))
  OBVIOUS
<1>2. QED
  BY <1>1, FlatHead, FlatType DEF Cat

(* Sequences that are not empty are joined to nothing only if there are    *)
(* none.                                                                   *)
LEMMA FlatNothing ==
    ASSUME NEW X, NEW s \in Seq(Seq(X)), \A i \in 1..Len(s) : Len(s[i]) # 0, FlattenSeq(s) = <<>>
    PROVE  s = <<>>
<1>1. SUFFICES ASSUME s # <<>> PROVE FALSE
  OBVIOUS
<1>2. /\ FlattenSeq(s) = Cat(Head(s), FlattenSeq(Tail(s)))
      /\ Head(s) \in Seq(X) /\ FlattenSeq(Tail(s)) \in Seq(X)
  BY <1>1, FlatFirst
<1>3. Len(Head(s)) # 0
  BY <1>1
<1>4. Len(FlattenSeq(s)) = Len(Head(s)) + Len(FlattenSeq(Tail(s)))
  BY <1>2, CatType
<1>5. Len(FlattenSeq(s)) = 0
  OBVIOUS
<1>6. Len(Head(s)) \in Nat /\ Len(FlattenSeq(Tail(s))) \in Nat
  BY <1>2
<1>7. QED
  BY <1>3, <1>4, <1>5, <1>6

(* A sequence that is cut into pieces is what the pieces are joined to,    *)
(* however many they are.                                                  *)
LEMMA FlatOfCuts ==
    ASSUME NEW X, NEW s \in Seq(X), NEW n \in Nat, NEW cut \in [0..n -> 0..Len(s)], cut[0] = 0,
           \A k \in 1..n : cut[k - 1] <= cut[k],
           NEW p \in Seq(Seq(X)), Len(p) = n,
           \A k \in 1..n : p[k] = SubSeq(s, cut[k - 1] + 1, cut[k])
    PROVE  FlattenSeq(p) = SubSeq(s, 1, cut[n])
<1> DEFINE Good(k) == FlattenSeq(SubSeq(p, 1, k)) = SubSeq(s, 1, cut[k])
           Bad == {k \in Nat : k <= n /\ ~Good(k)}
<1>1. Good(0)
  <2>1. SubSeq(s, 1, cut[0]) = <<>>
    OBVIOUS
  <2>2. QED
    BY <2>1, FlatNone
<1>2. ASSUME NEW k \in 1..n, Good(k - 1)
      PROVE  Good(k)
  <2> DEFINE l == cut[k - 1]
             m == cut[k]
  <2>1. l \in Nat /\ m \in Nat /\ l <= m /\ m <= Len(s) /\ k \in 1..Len(p)
    <3>1. k - 1 \in 0..n /\ k \in 0..n
      OBVIOUS
    <3>2. cut[k - 1] \in 0..Len(s) /\ cut[k] \in 0..Len(s) /\ cut[k - 1] <= cut[k]
      BY <3>1
    <3>3. QED
      BY <3>2
  <2>2. FlattenSeq(SubSeq(p, 1, k)) = Cat(FlattenSeq(SubSeq(p, 1, k - 1)), p[k])
    BY <2>1, FlatStart
  <2>3. FlattenSeq(SubSeq(p, 1, k)) = Cat(SubSeq(s, 1, l), SubSeq(s, l + 1, m))
    BY <2>2, <1>2
  <2> HIDE DEF l, m, Good
  <2>4. Cat(SubSeq(s, 1, l), SubSeq(s, l + 1, m)) = SubSeq(s, 1, m)
    BY <2>1, Extended
  <2>5. FlattenSeq(SubSeq(p, 1, k)) = SubSeq(s, 1, m)
    BY <2>1, <2>3, <2>4
  <2>6. QED
    BY <2>5 DEF m, Good
<1> HIDE DEF Good
<1>3. ASSUME Bad # {}
      PROVE  FALSE
  <2>1. PICK k \in Bad : \A m \in Bad : k <= m
    BY <1>3, LeastElement
  <2>2. k # 0
    BY <2>1, <1>1
  <2>3. k \in 1..n /\ k - 1 \in Nat /\ k - 1 <= n /\ k - 1 < k
    BY <2>1, <2>2
  <2>4. Good(k - 1)
    BY <2>1, <2>3
  <2>5. QED
    BY <2>1, <2>3, <2>4, <1>2
<1>4. Good(n)
  <2>1. Bad = {} /\ n \in Nat /\ n <= n
    BY <1>3
  <2>2. QED
    BY <2>1
<1>5. SubSeq(p, 1, n) = p
  BY WholePart
<1>6. QED
  BY <1>4, <1>5 DEF Good

(* What the packets carry.                                                 *)
LEMMA PlainsType ==
    ASSUME NEW limit \in Nat, NEW u \in Seq(UpPackets(limit))
    PROVE  /\ Plains(u) \in Seq(Seq(Bytes)) /\ Len(Plains(u)) = Len(u)
           /\ \A k \in 1..Len(u) : Plains(u)[k] = Plain(u[k]) /\ Len(Plains(u)[k]) # 0
<1>1. \A k \in 1..Len(u) : u[k] \in UpPackets(limit)
  OBVIOUS
<1>2. \A k \in 1..Len(u) : Plain(u[k]) \in Seq(Bytes) /\ Len(Plain(u[k])) # 0
  BY <1>1, UpPacket
<1>3. Plains(u) \in [1..Len(u) -> Seq(Bytes)] /\ Len(u) \in Nat
  BY <1>2 DEF Plains
<1>4. Plains(u) \in Seq(Seq(Bytes)) /\ Len(Plains(u)) = Len(u)
  BY <1>3, FunctionIsSequence
<1>5. QED
  BY <1>2, <1>4 DEF Plains

(* What two rows of packets carry, one after the other.                    *)
LEMMA PlainsJoined ==
    ASSUME NEW limit \in Nat, NEW u \in Seq(UpPackets(limit)), NEW v \in Seq(UpPackets(limit))
    PROVE  Plains(u \o v) = Plains(u) \o Plains(v)
<1> DEFINE w == u \o v
           a == Plains(w)
           b == Plains(u) \o Plains(v)
<1>1. /\ w \in Seq(UpPackets(limit)) /\ Len(w) = Len(u) + Len(v)
      /\ \A i \in 1..Len(w) : w[i] = IF i <= Len(u) THEN u[i] ELSE v[i - Len(u)]
  BY CatType, CatAt DEF Cat
<1> HIDE DEF w
<1>2. /\ a \in Seq(Seq(Bytes)) /\ Len(a) = Len(u) + Len(v)
      /\ \A i \in 1..(Len(u) + Len(v)) : a[i] = Plain(w[i])
  BY <1>1, PlainsType
<1>3. /\ Plains(u) \in Seq(Seq(Bytes)) /\ Len(Plains(u)) = Len(u)
      /\ \A k \in 1..Len(u) : Plains(u)[k] = Plain(u[k])
  BY PlainsType
<1>4. /\ Plains(v) \in Seq(Seq(Bytes)) /\ Len(Plains(v)) = Len(v)
      /\ \A k \in 1..Len(v) : Plains(v)[k] = Plain(v[k])
  BY PlainsType
<1>5. /\ b \in Seq(Seq(Bytes)) /\ Len(b) = Len(u) + Len(v)
      /\ \A i \in 1..(Len(u) + Len(v)) :
            b[i] = IF i <= Len(u) THEN Plains(u)[i] ELSE Plains(v)[i - Len(u)]
  <2> DEFINE f == Plains(u)
             g == Plains(v)
  <2>1. f \in Seq(Seq(Bytes)) /\ g \in Seq(Seq(Bytes)) /\ Len(f) = Len(u) /\ Len(g) = Len(v) /\ b = Cat(f, g)
    BY <1>3, <1>4 DEF Cat
  <2> HIDE DEF f, g, b
  <2>2. Cat(f, g) \in Seq(Seq(Bytes)) /\ Len(Cat(f, g)) = Len(f) + Len(g)
    BY <2>1, CatType
  <2>3. \A i \in 1..(Len(f) + Len(g)) : Cat(f, g)[i] = IF i <= Len(f) THEN f[i] ELSE g[i - Len(f)]
    BY <2>1, CatAt
  <2>4. QED
    BY <2>1, <2>2, <2>3 DEF f, g
<1> HIDE DEF a, b
<1>6. ASSUME NEW i \in 1..(Len(u) + Len(v))
      PROVE  a[i] = b[i]
  <2>1. Len(u) \in Nat /\ Len(v) \in Nat
    OBVIOUS
  <2>2. CASE i <= Len(u)
    <3>1. i \in 1..Len(u) /\ i \in 1..Len(w)
      BY <2>1, <2>2, <1>1
    <3>2. QED
      BY <3>1, <2>2, <1>1, <1>2, <1>3, <1>5
  <2>3. CASE i > Len(u)
    <3>1. i - Len(u) \in 1..Len(v) /\ i \in 1..Len(w) /\ ~(i <= Len(u))
      BY <2>1, <2>3, <1>1
    <3>2. QED
      BY <3>1, <1>1, <1>2, <1>4, <1>5
  <2>4. QED
    BY <2>1, <2>2, <2>3
<1>7. a = b
  BY <1>2, <1>5, <1>6, SeqEqual
<1>8. QED
  BY <1>7 DEF a, b, w

(* What the packets carry after the first.                                 *)
LEMMA PlainsTail ==
    ASSUME NEW limit \in Nat, NEW u \in Seq(UpPackets(limit)), u # <<>>
    PROVE  /\ Plains(u) # <<>> /\ Head(Plains(u)) = Plain(Head(u)) /\ Tail(Plains(u)) = Plains(Tail(u))
           /\ Head(u) \in UpPackets(limit) /\ Tail(u) \in Seq(UpPackets(limit))
<1>1. /\ Head(u) \in UpPackets(limit) /\ Tail(u) \in Seq(UpPackets(limit)) /\ Len(u) \in Nat /\ Len(u) >= 1
      /\ Len(Tail(u)) = Len(u) - 1 /\ \A i \in 1..(Len(u) - 1) : Tail(u)[i] = u[i + 1]
      /\ Head(u) = u[1]
  OBVIOUS
<1> DEFINE t == Tail(u)
           P == Plains(u)
           T == Plains(t)
<1>2. /\ P \in Seq(Seq(Bytes)) /\ Len(P) = Len(u)
      /\ \A k \in 1..Len(u) : P[k] = Plain(u[k])
  BY PlainsType
<1>3. /\ T \in Seq(Seq(Bytes)) /\ Len(T) = Len(u) - 1
      /\ \A k \in 1..(Len(u) - 1) : T[k] = Plain(t[k])
  BY <1>1, PlainsType
<1>4. P # <<>> /\ Head(P) = P[1] /\ Tail(P) \in Seq(Seq(Bytes)) /\ Len(Tail(P)) = Len(u) - 1
      /\ \A i \in 1..(Len(u) - 1) : Tail(P)[i] = P[i + 1]
  <2> HIDE DEF P
  <2>1. P # <<>>
    BY <1>1, <1>2
  <2>2. Len(Tail(P)) = Len(P) - 1 /\ \A i \in 1..(Len(P) - 1) : Tail(P)[i] = P[i + 1]
    BY <2>1, <1>2
  <2>3. QED
    BY <2>1, <2>2, <1>2
<1> HIDE DEF P, T
<1>5. \A i \in 1..(Len(u) - 1) : Tail(P)[i] = T[i]
  <2> TAKE i \in 1..(Len(u) - 1)
  <2>1. i + 1 \in 1..Len(u)
    BY <1>1
  <2>2. QED
    BY <2>1, <1>1, <1>2, <1>3, <1>4
<1>6. Tail(P) = T
  BY <1>3, <1>4, <1>5, SeqEqual
<1>7. 1 \in 1..Len(u)
  BY <1>1
<1>8. QED
  BY <1>1, <1>2, <1>4, <1>6, <1>7 DEF P, T

(* The packets sent carry the prepared ones, then junk, and are numbered   *)
(* from first on.                                                          *)
Sends(limit, prepared, first, packets, junk) ==
    /\ packets \in Seq(UpPackets(limit)) /\ packets # <<>> /\ Chained(packets)
    /\ packets[1].nr = first /\ junk \in Seq(Bytes)
    /\ FlattenSeq(Plains(packets)) = Cat(FlattenSeq(prepared), junk)

(* NetworkBrokerPlain.send: each prepared packet is sent as it is.         *)
LEMMA PlainSend ==
    ASSUME NEW n \in Nat, NEW nr \in NumberSet, NEW limit \in Nat, limit = MaxPayload + Header
    PROVE  Sends(limit, PreparePackets(n, nr), nr, PlainPackets(n, nr), <<>>)
<1> DEFINE P == PreparePackets(n, nr)
           u == PlainPackets(n, nr)
           q == n \div MaxPayload
<1>1. nr \in Nat /\ q \in Nat
  BY Quotient DEF NumberSet
<1>2. P \in Seq(Seq(Bytes)) /\ Len(P) = q + 1 /\ DOMAIN P = 1..(q + 1)
  BY <1>1, PreparedShape
<1>3. ASSUME NEW k \in 1..(q + 1)
      PROVE  Len(P[k]) \in 1..(MaxPayload + Header) /\ (nr + k - 1) % Numbers \in NumberSet
  <2>1. /\ PartLength(n, k) \in 0..MaxPayload
        /\ (nr + k - 1) % Numbers \in NumberSet
        /\ (k - 1) * MaxPayload \in Nat
        /\ P[k] = Packet(PartLength(n, k), (nr + k - 1) % Numbers, (k - 1) * MaxPayload)
    BY <1>1, PreparedShape
  <2>2. Len(P[k]) = Header + PartLength(n, k)
    BY <2>1, PacketShape
  <2>3. QED
    BY <2>1, <2>2, Sizes
<1>4. u = [k \in 1..(q + 1) |-> Raw(P[k], (nr + k - 1) % Numbers)]
  BY <1>2 DEF PlainPackets
<1> HIDE DEF P, u, q
<1>6. \A k \in 1..(q + 1) : Raw(P[k], (nr + k - 1) % Numbers) \in UpPackets(limit)
  <2> TAKE k \in 1..(q + 1)
  <2>1. P[k] \in Seq(Bytes) /\ Len(P[k]) \in 1..limit /\ (nr + k - 1) % Numbers \in NumberSet
    BY <1>2, <1>3
  <2>2. QED
    BY <2>1, RawIsUp
<1>7. u \in Seq(UpPackets(limit)) /\ Len(u) = q + 1
  <2>1. u \in [1..(q + 1) -> UpPackets(limit)] /\ q + 1 \in Nat
    BY <1>1, <1>4, <1>6
  <2>2. QED
    BY <2>1, FunctionIsSequence
<1>8. \A k \in 1..(q + 1) : u[k].nr = (nr + k - 1) % Numbers /\ Plain(u[k]) = P[k]
  BY <1>4, PlainRaw
<1>9. Plains(u) = P
  <2>1. /\ Plains(u) \in Seq(Seq(Bytes)) /\ Len(Plains(u)) = q + 1
        /\ \A k \in 1..(q + 1) : Plains(u)[k] = Plain(u[k])
    BY <1>7, PlainsType
  <2>2. QED
    BY <2>1, <1>2, <1>8, SeqEqual
<1>10. u[1].nr = nr
  <2>1. 1 \in 1..(q + 1) /\ nr + 1 - 1 = nr
    BY <1>1
  <2>2. nr % Numbers = nr
    BY Sizes DEF NumberSet
  <2>3. QED
    BY <2>1, <2>2, <1>8
<1>11. Chained(u)
  <2>1. ASSUME NEW k \in 1..q
        PROVE  u[k + 1].nr = NextNumber(u[k].nr)
    <3>1. k \in 1..(q + 1) /\ k + 1 \in 1..(q + 1) /\ nr + k - 1 \in Nat
          /\ nr + (k + 1) - 1 = (nr + k - 1) + 1
      BY <1>1
    <3>2. NextNumber((nr + k - 1) % Numbers) = ((nr + k - 1) + 1) % Numbers
      BY <3>1, NumberIsNumber
    <3>3. QED
      BY <3>1, <3>2, <1>8
  <2>2. Len(u) - 1 = q
    BY <1>1, <1>7
  <2>3. QED
    BY <2>1, <2>2 DEF Chained
<1>12. u # <<>>
  BY <1>1, <1>7
<1>13. FlattenSeq(P) \in Seq(Bytes)
  BY <1>2, FlatType
<1>14. FlattenSeq(Plains(u)) = Cat(FlattenSeq(P), <<>>) /\ <<>> \in Seq(Bytes)
  BY <1>9, <1>13, CatEmpty
<1>15. QED
  BY <1>7, <1>10, <1>11, <1>12, <1>14 DEF Sends, P, u

(* A sequence of plain bytes is one of bytes.                              *)
LEMMA PlainIsByte ==
    ASSUME NEW s \in Seq(PlainBytes)
    PROVE  s \in Seq(Bytes)
<1>1. PlainBytes \subseteq Bytes
  BY DEF Bytes
<1>2. QED
  BY <1>1, LargerSeq

(* A payload shorter than MaxPayload is one packet.                        *)
LEMMA OnePacket ==
    ASSUME NEW n \in Nat, n < MaxPayload, NEW nr \in NumberSet
    PROVE  /\ PreparePackets(n, nr) = <<Packet(n, nr, 0)>>
           /\ FlattenSeq(PreparePackets(n, nr)) = Packet(n, nr, 0)
           /\ Packet(n, nr, 0) \in Seq(PlainBytes) /\ Packet(n, nr, 0) \in Seq(Bytes)
           /\ Len(Packet(n, nr, 0)) = Header + n
<1> DEFINE P == PreparePackets(n, nr)
           k == 1
           e == Packet(n, nr, 0)
<1>1. n \div MaxPayload = 0 /\ n % MaxPayload = n /\ nr \in Nat /\ n \in 0..MaxPayload
  BY Quotient, Sizes DEF NumberSet
<1>2. /\ k \in 1..((n \div MaxPayload) + 1) /\ k = 1 /\ nr + k - 1 = nr
      /\ (k - 1) * MaxPayload = 0 /\ PartLength(n, k) = n /\ (n \div MaxPayload) + 1 = 1
      /\ nr % Numbers = nr
  BY <1>1, Sizes DEF PartLength, NumberSet
<1> HIDE DEF k
<1>3. P[k] = Packet(PartLength(n, k), (nr + k - 1) % Numbers, (k - 1) * MaxPayload)
  BY <1>1, <1>2, PreparedShape
<1>4. P[1] = e
  BY <1>2, <1>3
<1>5. P \in Seq(Seq(Bytes)) /\ Len(P) = 1
  BY <1>1, <1>2, PreparedShape
<1>6. e \in Seq(PlainBytes) /\ e \in Seq(Bytes) /\ Len(e) = Header + n
  BY <1>1, PacketShape
<1> HIDE DEF e, P
<1>7. P = <<e>>
  BY <1>4, <1>5
<1>8. FlattenSeq(P) = e
  BY <1>6, <1>7, FlatOne
<1>9. QED
  BY <1>6, <1>7, <1>8 DEF P, e

(* NetworkBrokerCompressed.send of a small payload: one packet of the      *)
(* socket.                                                                 *)
LEMMA SmallCompressedSend ==
    ASSUME NEW n \in Nat, n < MaxPayload - Header, NEW nr \in NumberSet, NEW cnr \in NumberSet,
           NEW limit \in Nat, limit = MaxPayload
    PROVE  Sends(limit, PreparePackets(n, nr), cnr, CompressedPackets(n, nr, cnr), <<>>)
<1> DEFINE s == FlattenSeq(PreparePackets(n, nr))
           p == IF n > MinCompress THEN Zipped(s, cnr) ELSE Raw(s, cnr)
           u == <<p>>
<1>1. CompressedPackets(n, nr, cnr) = u
  <2>1. ~(n >= MaxPayload - Header)
    BY Sizes
  <2>2. QED
    BY <2>1 DEF CompressedPackets
<1>2. s \in Seq(PlainBytes) /\ s \in Seq(Bytes) /\ Len(s) = Header + n
  <2>1. n < MaxPayload
    BY Sizes
  <2>2. QED
    BY <2>1, OnePacket
<1> HIDE DEF s
<1>4. Len(s) <= limit /\ Len(s) \in 1..limit /\ Len(s) # 0 /\ limit \in Nat \ {0}
  BY <1>2, Sizes
<1>5. p \in UpPackets(limit) /\ Plain(p) = s /\ p.nr = cnr
  <2>1. CASE n > MinCompress
    <3>1. p = Zipped(s, cnr)
      BY <2>1
    <3>2. QED
      BY <3>1, <1>2, <1>4, ZippedIsUp, PlainZipped
  <2>2. CASE ~(n > MinCompress)
    <3>1. p = Raw(s, cnr)
      BY <2>2
    <3>2. QED
      BY <3>1, <1>2, <1>4, RawIsUp, PlainRaw
  <2>3. QED
    BY <2>1, <2>2
<1> HIDE DEF p
<1>6. u \in Seq(UpPackets(limit)) /\ u # <<>> /\ Len(u) = 1 /\ u[1] = p
  BY <1>5
<1> HIDE DEF u
<1>7. Chained(u)
  BY <1>6 DEF Chained
<1>8. Plains(u) = <<s>>
  <2>1. Plains(u) \in Seq(Seq(Bytes)) /\ Len(Plains(u)) = 1 /\ Plains(u)[1] = s
    BY <1>5, <1>6, PlainsType
  <2>2. QED
    BY <2>1
<1>9. FlattenSeq(Plains(u)) = s
  BY <1>2, <1>8, FlatOne
<1>11. FlattenSeq(Plains(u)) = Cat(s, <<>>) /\ <<>> \in Seq(Bytes)
  BY <1>2, <1>9, CatEmpty
<1>12. QED
  BY <1>1, <1>5, <1>6, <1>7, <1>11 DEF Sends, s

(* Multiples of a number grow.                                             *)
LEMMA Times ==
    ASSUME NEW a \in Nat, NEW b \in Nat, a <= b, NEW m \in Nat
    PROVE  a * m <= b * m /\ a * m \in Nat /\ (a + 1) * m = a * m + m
  OBVIOUS

(* Where the pieces of MaxPayload bytes end, and a last one that is        *)
(* shorter.                                                                *)
LEMMA CutPlaces ==
    ASSUME NEW L \in Nat, NEW K \in Nat, K = (L \div MaxPayload) + 1
    PROVE  \E cut \in [0..K -> 0..L] :
             /\ cut[0] = 0 /\ cut[K] = L
             /\ K - 1 = L \div MaxPayload /\ L - cut[K - 1] = L % MaxPayload
             /\ \A k \in 1..K :
                  /\ k - 1 \in 0..K /\ k \in 0..K
                  /\ cut[k - 1] = (k - 1) * MaxPayload
                  /\ k # K => cut[k] - cut[k - 1] = MaxPayload
                  /\ cut[k] = Min({k * MaxPayload, L})
                  /\ cut[k - 1] <= cut[k]
<1> DEFINE q == L \div MaxPayload
           r == L % MaxPayload
<1>1. L \in Nat /\ q \in Nat /\ r \in 0..(MaxPayload - 1) /\ L = q * MaxPayload + r /\ K = q + 1
  BY Quotient
<1> HIDE DEF q, r
<1> DEFINE cut == [k \in 0..K |-> IF k = K THEN L ELSE k * MaxPayload]
<1>2. \A k \in 0..q : k * MaxPayload \in 0..L /\ (k + 1) * MaxPayload = k * MaxPayload + MaxPayload
                      /\ k <= q /\ q * MaxPayload <= L
                      /\ (k < q => (k + 1) * MaxPayload <= L)
  <2> TAKE k \in 0..q
  <2>1. k \in Nat /\ k <= q /\ MaxPayload \in Nat
    BY <1>1, Sizes
  <2>2. k * MaxPayload <= q * MaxPayload /\ k * MaxPayload \in Nat
        /\ (k + 1) * MaxPayload = k * MaxPayload + MaxPayload
    BY <2>1, <1>1, Times
  <2>3. q * MaxPayload \in Nat /\ q * MaxPayload <= L
    BY <1>1, Sizes, Times
  <2>4. k < q => (k + 1) * MaxPayload <= q * MaxPayload
    <3> HAVE k < q
    <3>1. k + 1 \in Nat /\ k + 1 <= q
      BY <2>1, <1>1
    <3>2. QED
      BY <3>1, <1>1, Sizes, Times
  <2>5. (k + 1) * MaxPayload \in Int
    BY <2>1
  <2>6. QED
    BY <2>1, <2>2, <2>3, <2>4, <2>5, <1>1
<1>3. cut \in [0..K -> 0..L] /\ cut[0] = 0 /\ cut[K] = L
  <2>1. \A k \in 0..K : (IF k = K THEN L ELSE k * MaxPayload) \in 0..L
    <3> TAKE k \in 0..K
    <3>1. k = K \/ k \in 0..q
      BY <1>1
    <3>2. QED
      BY <3>1, <1>1, <1>2
  <2>2. cut \in [0..K -> 0..L]
    BY <2>1
  <2>3. 0 \in 0..K /\ K \in 0..K /\ 0 # K /\ 0 * MaxPayload = 0
    BY <1>1, Sizes
  <2>4. QED
    BY <2>2, <2>3
<1>4. ASSUME NEW k \in 1..K
      PROVE  /\ k - 1 \in 0..K /\ k \in 0..K /\ k - 1 \in 0..q
             /\ cut[k - 1] = (k - 1) * MaxPayload
             /\ cut[k] = IF k = K THEN L ELSE (k - 1) * MaxPayload + MaxPayload
             /\ cut[k] = Min({k * MaxPayload, L})
             /\ cut[k - 1] <= cut[k]
  <2> DEFINE j == k - 1
  <2>1. j \in 0..q /\ j \in 0..K /\ k \in 0..K /\ j # K /\ k = j + 1 /\ (k # K => j < q) /\ (k = K => j = q)
    BY <1>1
  <2>2. cut[j] = j * MaxPayload
    BY <2>1
  <2>3. cut[k] = IF k = K THEN L ELSE k * MaxPayload
    BY <2>1
  <2> HIDE DEF cut, j
  <2>4. k * MaxPayload = j * MaxPayload + MaxPayload /\ j * MaxPayload \in 0..L /\ k * MaxPayload \in Int
    BY <2>1, <1>2, Sizes
  <2>5. Min({k * MaxPayload, L}) = IF k * MaxPayload <= L THEN k * MaxPayload ELSE L
    BY <2>4, <1>1, MinOfTwo
  <2>6. CASE k = K
    <3>1. j * MaxPayload = q * MaxPayload
      BY <2>6, <2>1
    <3>2. ~(k * MaxPayload <= L)
      BY <3>1, <2>4, <1>1, Sizes
    <3>3. QED
      BY <3>2, <2>1, <2>2, <2>3, <2>4, <2>5, <2>6, <1>1 DEF j
  <2>7. CASE k # K
    <3>1. k * MaxPayload <= L
      BY <2>7, <2>1, <1>2
    <3>2. QED
      BY <3>1, <2>1, <2>2, <2>3, <2>4, <2>5, <2>7, Sizes DEF j
  <2>8. QED
    BY <2>6, <2>7
<1> HIDE DEF cut
<1>5. ASSUME NEW k \in 1..K, k # K
      PROVE  cut[k] - cut[k - 1] = MaxPayload
  <2> DEFINE x == (k - 1) * MaxPayload
  <2>1. cut[k - 1] = x /\ cut[k] = x + MaxPayload
    BY <1>4, <1>5
  <2>2. x \in Int /\ MaxPayload \in Nat
    BY Sizes
  <2> HIDE DEF x
  <2>3. QED
    BY <2>1, <2>2
<1>6. L - cut[K - 1] = r
  <2> DEFINE x == q * MaxPayload
  <2>1. K \in 1..K /\ K - 1 = q
    BY <1>1
  <2>2. cut[K - 1] = (K - 1) * MaxPayload
    BY <2>1, <1>4
  <2>3. cut[K - 1] = x
    BY <2>1, <2>2
  <2>4. x \in Int /\ L = x + r
    BY <1>1, Sizes
  <2> HIDE DEF x
  <2>5. QED
    BY <2>3, <2>4, <1>1
<1>7. K - 1 = q
  BY <1>1
<1>8. QED
  BY <1>3, <1>4, <1>5, <1>6, <1>7, Zenon DEF q, r

(* The chunks of a sequence are joined to it.                              *)
LEMMA Chunks ==
    ASSUME NEW s \in Seq(PlainBytes), NEW K \in Nat, K = (Len(s) \div MaxPayload) + 1,
           NEW p \in [1..K -> {Chunk(s, k) : k \in 1..K}], \A k \in 1..K : p[k] = Chunk(s, k)
    PROVE  /\ p \in Seq(Seq(PlainBytes)) /\ p \in Seq(Seq(Bytes)) /\ Len(p) = K /\ K \in Nat \ {0}
           /\ FlattenSeq(p) = s
           /\ \A k \in 1..(K - 1) : Len(p[k]) = MaxPayload
           /\ Len(p[K]) = Len(s) % MaxPayload
<1> DEFINE L == Len(s)
<1>1. L \in Nat /\ K = (L \div MaxPayload) + 1
  OBVIOUS
<1> HIDE DEF L
<1>2. PICK cut \in [0..K -> 0..L] :
             /\ cut[0] = 0 /\ cut[K] = L
             /\ K - 1 = L \div MaxPayload /\ L - cut[K - 1] = L % MaxPayload
             /\ \A k \in 1..K :
                  /\ k - 1 \in 0..K /\ k \in 0..K
                  /\ cut[k - 1] = (k - 1) * MaxPayload
                  /\ k # K => cut[k] - cut[k - 1] = MaxPayload
                  /\ cut[k] = Min({k * MaxPayload, L})
                  /\ cut[k - 1] <= cut[k]
  BY <1>1, CutPlaces
<1>5. \A k \in 1..K : p[k] = SubSeq(s, cut[k - 1] + 1, cut[k])
  BY <1>2 DEF Chunk, L
<1>6. ASSUME NEW k \in 1..K
      PROVE  p[k] \in Seq(PlainBytes) /\ Len(p[k]) = cut[k] - cut[k - 1]
  <2> DEFINE a == cut[k - 1]
             b == cut[k]
  <2>1. a \in Nat /\ b \in Nat /\ a <= b /\ b <= Len(s)
    <3>1. k - 1 \in 0..K /\ k \in 0..K /\ cut[k - 1] <= cut[k]
      BY <1>2
    <3>2. a \in 0..L /\ b \in 0..L
      BY <3>1, <1>2
    <3>3. QED
      BY <3>1, <3>2, <1>1 DEF L
  <2>2. p[k] = SubSeq(s, a + 1, b)
    BY <1>5
  <2> HIDE DEF a, b
  <2>3. SubSeq(s, a + 1, b) \in Seq(PlainBytes) /\ Len(SubSeq(s, a + 1, b)) = b - a
    BY <2>1, Part
  <2>4. QED
    BY <2>2, <2>3 DEF a, b
<1>7. p \in Seq(Seq(PlainBytes)) /\ p \in Seq(Seq(Bytes)) /\ Len(p) = K
  <2>1. K \in Nat
    OBVIOUS
  <2>2. p \in [1..K -> Seq(PlainBytes)]
    BY <1>6
  <2>3. \A k \in 1..K : p[k] \in Seq(Bytes)
    BY <1>6, PlainIsByte
  <2>4. p \in [1..K -> Seq(Bytes)]
    BY <2>3
  <2>5. QED
    BY <2>1, <2>2, <2>4, FunctionIsSequence
<1>8. FlattenSeq(p) = s
  <2>1. cut \in [0..K -> 0..Len(s)] /\ cut[0] = 0
    BY <1>2 DEF L
  <2>2. \A k \in 1..K : cut[k - 1] <= cut[k]
    BY <1>2
  <2>3. FlattenSeq(p) = SubSeq(s, 1, cut[K])
    BY <2>1, <2>2, <1>5, <1>7, FlatOfCuts
  <2>4. cut[K] = Len(s)
    BY <1>2 DEF L
  <2>5. QED
    BY <2>3, <2>4, WholePart
<1>9. ASSUME NEW k \in 1..(K - 1)
      PROVE  Len(p[k]) = MaxPayload
  <2>1. k \in 1..K /\ k # K
    OBVIOUS
  <2>2. Len(p[k]) = cut[k] - cut[k - 1]
    BY <2>1, <1>6
  <2>3. QED
    BY <2>1, <2>2, <1>2
<1>10. Len(p[K]) = L % MaxPayload /\ K # 0
  <2>1. L \div MaxPayload \in Nat
    BY <1>1, Quotient
  <2>2. K \in 1..K
    BY <2>1, <1>1
  <2>3. Len(p[K]) = cut[K] - cut[K - 1]
    BY <2>2, <1>6
  <2>4. QED
    BY <2>2, <2>3, <1>2
<1>11. QED
  BY <1>7, <1>8, <1>9, <1>10 DEF L

(* Junk that begins with a byte of zlib.                                   *)
Zlib(junk) == junk # <<>> /\ junk[1].part = "zip"

(* NetworkBrokerCompressed.send of a large payload: its packets cut into   *)
(* chunks.  When the last chunk is empty, the server reads the bytes of    *)
(* zlib after them.                                                        *)
LEMMA LargeCompressedSend ==
    ASSUME NEW n \in Nat, n >= MaxPayload - Header, NEW nr \in NumberSet, NEW cnr \in NumberSet,
           NEW limit \in Nat, limit = MaxPayload
    PROVE  \E junk :
              /\ Sends(limit, PreparePackets(n, nr), cnr, CompressedPackets(n, nr, cnr), junk)
              /\ IF Len(FlattenSeq(PreparePackets(n, nr))) % MaxPayload = 0
                   THEN Zlib(junk) ELSE junk = <<>>
<1> DEFINE s == FlattenSeq(PreparePackets(n, nr))
           K == (Len(s) \div MaxPayload) + 1
           p == [k \in 1..K |-> Chunk(s, k)]
           u == [k \in 1..K |-> Zipped(Chunk(s, k), (cnr + k - 1) % Numbers)]
           zip == <<[part |-> "zip", plain |-> p[K]]>>
<1>1. s \in Seq(PlainBytes) /\ s \in Seq(Bytes)
  <2>1. nr \in Nat
    BY DEF NumberSet
  <2>2. PreparePackets(n, nr) \in Seq(Seq(PlainBytes))
    BY <2>1, PreparedShape
  <2>3. QED
    BY <2>2, FlatType, PlainIsByte
<1>2. CompressedPackets(n, nr, cnr) = u
  BY DEF CompressedPackets
<1> HIDE DEF s
<1>3. K \in Nat
  <2>1. Len(s) \in Nat
    BY <1>1
  <2>2. QED
    BY <2>1, Quotient
<1>4. p \in [1..K -> {Chunk(s, k) : k \in 1..K}] /\ \A k \in 1..K : p[k] = Chunk(s, k)
  OBVIOUS
<1>5. K = (Len(s) \div MaxPayload) + 1
  OBVIOUS
<1>6. u = [k \in 1..K |-> Zipped(p[k], (cnr + k - 1) % Numbers)]
  OBVIOUS
<1> HIDE DEF K, p, u
<1>7. /\ p \in Seq(Seq(PlainBytes)) /\ p \in Seq(Seq(Bytes)) /\ Len(p) = K /\ K \in Nat \ {0}
      /\ FlattenSeq(p) = s
      /\ \A k \in 1..(K - 1) : Len(p[k]) = MaxPayload
      /\ Len(p[K]) = Len(s) % MaxPayload
  BY <1>1, <1>3, <1>4, <1>5, Chunks
<1>8. Len(p[K]) < MaxPayload /\ limit \in Nat \ {0} /\ MaxPayload # 0 /\ Len(p[K]) \in Nat
  <2>1. Len(s) \in Nat
    BY <1>1
  <2>2. Len(s) % MaxPayload \in 0..(MaxPayload - 1)
    BY <2>1, Quotient
  <2>3. QED
    BY <2>2, <1>7, Sizes
<1>9. ASSUME NEW k \in 1..K
      PROVE  /\ p[k] \in Seq(PlainBytes) /\ p[k] \in Seq(Bytes) /\ Len(p[k]) <= limit
             /\ (cnr + k - 1) % Numbers \in NumberSet /\ cnr + k - 1 \in Nat
  <2>1. p[k] \in Seq(PlainBytes) /\ p[k] \in Seq(Bytes)
    BY <1>7
  <2>2. Len(p[k]) <= limit
    <3>1. k = K \/ k \in 1..(K - 1)
      BY <1>3
    <3>2. QED
      BY <3>1, <1>7, <1>8
  <2>3. cnr + k - 1 \in Nat
    BY DEF NumberSet
  <2>4. QED
    BY <2>1, <2>2, <2>3, NumberIsNumber
<1>10. \A k \in 1..K : Zipped(p[k], (cnr + k - 1) % Numbers) \in UpPackets(limit)
  BY <1>8, <1>9, ZippedIsUp
<1>11. u \in Seq(UpPackets(limit)) /\ Len(u) = K
  <2>1. u \in [1..K -> UpPackets(limit)]
    BY <1>6, <1>10
  <2>2. QED
    BY <2>1, <1>3, FunctionIsSequence
<1>12. \A k \in 1..K : /\ u[k].nr = (cnr + k - 1) % Numbers
                       /\ Len(p[k]) # 0 => Plain(u[k]) = p[k]
                       /\ Len(p[k]) = 0 => Plain(u[k]) = <<[part |-> "zip", plain |-> p[k]]>>
  BY <1>6, PlainZipped
<1>13. u[1].nr = cnr
  <2>1. 1 \in 1..K /\ cnr + 1 - 1 = cnr
    BY <1>7 DEF NumberSet
  <2>2. cnr % Numbers = cnr
    BY Sizes DEF NumberSet
  <2>3. QED
    BY <2>1, <2>2, <1>12
<1>14. Chained(u)
  <2>1. ASSUME NEW k \in 1..(K - 1)
        PROVE  u[k + 1].nr = NextNumber(u[k].nr)
    <3>1. k \in 1..K /\ k + 1 \in 1..K
      BY <1>7
    <3>2. cnr + k - 1 \in Nat /\ cnr + (k + 1) - 1 = (cnr + k - 1) + 1
      BY <3>1, <1>9 DEF NumberSet
    <3>3. NextNumber((cnr + k - 1) % Numbers) = ((cnr + k - 1) + 1) % Numbers
      BY <3>2, NumberIsNumber
    <3>4. QED
      BY <3>1, <3>2, <3>3, <1>12
  <2>2. QED
    BY <2>1, <1>11 DEF Chained
<1>15. u # <<>>
  BY <1>7, <1>11
<1>16. /\ Plains(u) \in Seq(Seq(Bytes)) /\ Len(Plains(u)) = K
       /\ \A k \in 1..K : Plains(u)[k] = Plain(u[k])
  BY <1>11, PlainsType
<1>17. CASE Len(p[K]) # 0
  <2>1. \A k \in 1..K : Len(p[k]) # 0
    <3> TAKE k \in 1..K
    <3>1. k = K \/ k \in 1..(K - 1)
      BY <1>3
    <3>2. QED
      BY <3>1, <1>7, <1>8, <1>17
  <2>2. \A k \in 1..K : Plains(u)[k] = p[k]
    BY <2>1, <1>12, <1>16
  <2>3. Plains(u) = p
    BY <2>2, <1>7, <1>16, SeqEqual
  <2>4. FlattenSeq(Plains(u)) = Cat(s, <<>>) /\ <<>> \in Seq(Bytes)
    BY <2>3, <1>1, <1>7, CatEmpty
  <2>5. Sends(limit, PreparePackets(n, nr), cnr, u, <<>>)
    BY <2>4, <1>11, <1>13, <1>14, <1>15 DEF Sends, s
  <2>6. Len(s) % MaxPayload # 0
    BY <1>7, <1>17
  <2>7. QED
    BY <2>5, <2>6, <1>2 DEF s
<1>18. CASE Len(p[K]) = 0
  <2> DEFINE f == SubSeq(p, 1, K - 1)
             g == SubSeq(Plains(u), 1, K - 1)
             P == Plains(u)
  <2>1. K \in 1..Len(p) /\ K \in 1..Len(P)
    BY <1>7, <1>16
  <2>2. s = Cat(FlattenSeq(f), p[K])
    <3>1. FlattenSeq(SubSeq(p, 1, K)) = Cat(FlattenSeq(f), p[K])
      BY <2>1, <1>7, FlatStart
    <3>2. SubSeq(p, 1, K) = p
      BY <1>7, WholePart
    <3>3. QED
      BY <3>1, <3>2, <1>7
  <2>3. f \in Seq(Seq(Bytes)) /\ FlattenSeq(f) \in Seq(Bytes)
    BY <2>1, <1>7, Start, FlatType
  <2>4. p[K] = <<>>
    BY <1>18, <1>9, <2>1, <1>7
  <2>5. s = FlattenSeq(f)
    BY <2>2, <2>3, <2>4, CatEmpty
  <2>6. \A k \in 1..(K - 1) : P[k] = p[k]
    <3> TAKE k \in 1..(K - 1)
    <3>1. k \in 1..K /\ Len(p[k]) # 0
      BY <1>7, <1>8
    <3>2. QED
      BY <3>1, <1>12, <1>16
  <2>7. P[K] = zip /\ zip \in Seq(Bytes) /\ Zlib(zip)
    <3>1. K \in 1..K
      BY <2>1
    <3>2. P[K] = zip
      BY <3>1, <1>12, <1>16, <1>18
    <3>3. P[K] \in Seq(Bytes)
      BY <3>1, <1>16
    <3>4. Zlib(zip)
      BY DEF Zlib
    <3>5. QED
      BY <3>2, <3>3, <3>4
  <2>8. FlattenSeq(SubSeq(P, 1, K)) = Cat(FlattenSeq(g), P[K])
    BY <2>1, <1>16, FlatStart
  <2>9. SubSeq(P, 1, K) = P
    BY <1>16, WholePart
  <2>10. f = g
    <3>1. f \in Seq(Seq(Bytes)) /\ Len(f) = K - 1 /\ \A k \in 1..(K - 1) : f[k] = p[k]
      BY <2>1, <1>7
    <3>2. g \in Seq(Seq(Bytes)) /\ Len(g) = K - 1 /\ \A k \in 1..(K - 1) : g[k] = P[k]
      <4> HIDE DEF P
      <4>1. P \in Seq(Seq(Bytes)) /\ Len(P) = K
        BY <1>16 DEF P
      <4>2. QED
        BY <4>1, <2>1 DEF P
    <3> HIDE DEF f, g, P
    <3>3. \A k \in 1..(K - 1) : f[k] = g[k]
      BY <3>1, <3>2, <2>6
    <3>4. QED
      BY <3>1, <3>2, <3>3, SeqEqual
  <2>11. FlattenSeq(P) = Cat(s, zip)
    BY <2>5, <2>7, <2>8, <2>9, <2>10, Zenon
  <2>12. Sends(limit, PreparePackets(n, nr), cnr, u, zip)
    BY <2>7, <2>11, <1>11, <1>13, <1>14, <1>15 DEF Sends, s
  <2>13. Len(s) % MaxPayload = 0
    BY <1>7, <1>18
  <2>14. QED
    BY <2>7, <2>12, <2>13, <1>2 DEF s
<1>19. QED
  BY <1>17, <1>18

-----------------------------------------------------------------------------
(* The first half of the invariant: sending, and the server.               *)

(* The most bytes that the server accepts in a packet of the socket.       *)
Limit == MaxPayload + (IF compressed THEN 0 ELSE Header)

(* The number of the packet of the socket that was sent or received last.  *)
Latest == IF compressed THEN pktnr.outer ELSE pktnr.plain

(* The types of what the client sends and the server reads.                *)
UpTypes ==
    /\ compressed \in BOOLEAN /\ exchanges \in 0..MaxExchanges
    /\ pktnr \in [plain : NumberSet, outer : NumberSet]
    /\ uplink \in Seq(UpPackets(Limit))
    /\ server \in [at : {"command", "answer", "data", "data taken", "end"}, nr : NumberSet,
                   buf : Seq(Bytes), got : Nat, error : {"none", "out of order", "too long", "garbled"}]
    /\ sending \in [turn : {"command", "server", "data"}, lengths : Seq(Nat), emptyLast : BOOLEAN]
    /\ kind \in [hard : BOOLEAN, torn : BOOLEAN]

(* The bytes that the server has not taken yet, read or on their way.      *)
Pending == Cat(server.buf, FlattenSeq(Plains(uplink)))

(* The packets of a payload of n bytes but for the first t.                *)
Suffix(n, t) == SubSeq(PreparePackets(n, 0), t + 1, (n \div MaxPayload) + 1)

(* After them comes nothing, or what an empty compressed packet left.      *)
IsJunk(junk) == IF sending.emptyLast THEN Zlib(junk) ELSE junk = <<>>

(* The server has taken all packets, and what an empty compressed packet   *)
(* left comes next.                                                        *)
Dead(rem) == sending.emptyLast /\ rem = <<>> /\ server.at \in {"command", "data"}

(* The server has taken t packets of a command.                            *)
CommandUnderWay(rem) ==
    /\ server.at = "command" /\ sending.turn = "server"
    /\ \E n \in Commands : \E t \in 0..(n \div MaxPayload) :
          sending.lengths = <<n>> /\ server.got = t * MaxPayload /\ rem = Suffix(n, t)

(* It is the client's turn to send a command.                              *)
NothingUnderWay(rem) ==
    /\ server.at = "command" /\ sending.turn = "command" /\ ~sending.emptyLast
    /\ sending.lengths = <<>> /\ rem = <<>> /\ server.nr = 0 /\ server.got = 0

(* The server has taken a command.                                         *)
CommandTaken(rem) ==
    /\ server.at = "answer" /\ sending.turn = "server"
    /\ sending.lengths = <<server.got>> /\ rem = <<>>

(* The chunks of data that are sent, and the empty one at the end.         *)
DataSent ==
    /\ sending.turn \in {"data", "server"}
    /\ sending.turn = "data" => sending.lengths \in Seq(Data)
    /\ sending.turn = "server" => \E l \in Seq(Data) : sending.lengths = Append(l, 0)

(* Packets with payloads of these lengths.                                 *)
DataPackets(rem, lengths) ==
    /\ Len(rem) = Len(lengths)
    /\ \A k \in 1..Len(lengths) : \E nr \in NumberSet : rem[k] = Packet(lengths[k], nr, 0)

(* The server waits for the next chunk.                                    *)
DataUnderWay(rem) ==
    /\ server.at = "data" /\ ~sending.emptyLast /\ DataSent /\ server.got = 0
    /\ DataPackets(rem, sending.lengths)

(* The server has taken a chunk.                                           *)
DataTaken(rem) ==
    /\ server.at = "data taken" /\ ~sending.emptyLast /\ DataSent
    /\ sending.lengths # <<>> /\ server.got = Head(sending.lengths) /\ server.got # 0
    /\ DataPackets(rem, Tail(sending.lengths))

(* The server has taken the empty packet after the data.                   *)
AllTaken(rem) ==
    /\ server.at = "end" /\ ~sending.emptyLast /\ sending.turn = "server"
    /\ sending.lengths = <<0>> /\ server.got = 0 /\ rem = <<>>

(* What is still to be taken, in each phase of an exchange.                *)
Exchange(rem) ==
    \/ Dead(rem) \/ CommandUnderWay(rem) \/ NothingUnderWay(rem) \/ CommandTaken(rem)
    \/ DataUnderWay(rem) \/ DataTaken(rem) \/ AllTaken(rem)

(* What the server has not taken is the rest of what the client has sent.  *)
ServerInv ==
    \/ server.error # "none" /\ sending.emptyLast /\ server.at \in {"command", "data"}
    \/ /\ server.error = "none"
       /\ \E rem \in Seq(Seq(Bytes)), junk \in Seq(Bytes) :
             Pending = Cat(FlattenSeq(rem), junk) /\ IsJunk(junk) /\ Exchange(rem)

(* The packets on their way are numbered without a gap, from the number    *)
(* that the server expects to the latest.                                  *)
NumbersInv ==
    ~sending.emptyLast =>
        /\ Chained(uplink)
        /\ uplink # <<>> => uplink[1].nr = server.nr /\ uplink[Len(uplink)].nr = Latest

(* recv() runs only while the server owes a packet, and the server owes    *)
(* packets only when it has read all that was sent.                        *)
OwedInv ==
    /\ recv.at # "idle" => owed # <<>>
    /\ owed # <<>> /\ ~sending.emptyLast => uplink = <<>>

(* The session is not followed any more.                                   *)
Stopped == kind.torn \/ last.result = "garbled"

(* When the data may go on, the server expects the number after the latest.*)
DataNumbers ==
    sending.turn = "data" /\ ~sending.emptyLast /\ ~Stopped /\ ~kind.hard /\ owed = <<>> /\ uplink = <<>>
      => server.nr = NextNumber(Latest)

(* What is assumed of the lengths.                                         *)
LEMMA Lengths ==
    /\ \A n \in Commands : n \in Nat /\ n # 0
    /\ \A n \in Data \cup {0} : n \in Nat /\ n < MaxPayload - Header /\ n < MaxPayload /\ n # MaxPayload
    /\ \A n \in Data : n # 0
    /\ Data \subseteq Nat /\ MaxExchanges \in Nat
  BY PacketsAssumption

(* send() of either broker sends the prepared packets, and junk after an   *)
(* empty compressed packet.                                                *)
LEMMA SendSends ==
    ASSUME compressed \in BOOLEAN, pktnr \in [plain : NumberSet, outer : NumberSet],
           NEW n \in Nat, NEW nr \in NumberSet, NEW cnr \in NumberSet, NEW turn,
           n >= MaxPayload - Header => nr = 0,
           Send(n, nr, cnr, turn), UNCHANGED compressed
    PROVE  \E packets, junk :
              /\ Sends(Limit, PreparePackets(n, nr), IF compressed THEN cnr ELSE nr, packets, junk)
              /\ IF EmptyLast(n) THEN Zlib(junk) ELSE junk = <<>>
              /\ uplink' = uplink \o packets
              /\ pktnr' \in [plain : NumberSet, outer : NumberSet]
              /\ Latest' = packets[Len(packets)].nr
<1> DEFINE packets == IF compressed THEN CompressedPackets(n, nr, cnr) ELSE PlainPackets(n, nr)
           latest == packets[Len(packets)].nr
           first == IF compressed THEN cnr ELSE nr
           limit == Limit
           P == PreparePackets(n, nr)
<1>1. /\ uplink' = uplink \o packets
      /\ pktnr' = IF compressed THEN [plain |-> nr, outer |-> latest] ELSE [pktnr EXCEPT !.plain = latest]
  BY DEF Send
<1>2. limit \in Nat /\ (compressed => limit = MaxPayload) /\ (~compressed => limit = MaxPayload + Header)
  BY Sizes DEF Limit
<1> HIDE DEF limit
<1>3. \E junk : Sends(limit, P, first, packets, junk) /\ IF EmptyLast(n) THEN Zlib(junk) ELSE junk = <<>>
  <2>1. CASE ~compressed
    <3>1. limit = MaxPayload + Header
      BY <1>2, <2>1
    <3>2. Sends(limit, P, nr, PlainPackets(n, nr), <<>>)
      BY <1>2, <3>1, PlainSend
    <3>3. first = nr /\ packets = PlainPackets(n, nr) /\ ~EmptyLast(n)
      BY <2>1 DEF EmptyLast
    <3>4. QED
      BY <3>2, <3>3, Zenon
  <2>2. CASE compressed /\ n < MaxPayload - Header
    <3>1. limit = MaxPayload
      BY <1>2, <2>2
    <3>2. Sends(limit, P, cnr, CompressedPackets(n, nr, cnr), <<>>)
      BY <1>2, <2>2, <3>1, SmallCompressedSend
    <3>3. first = cnr /\ packets = CompressedPackets(n, nr, cnr) /\ ~EmptyLast(n)
      BY <2>2, Sizes DEF EmptyLast
    <3>4. QED
      BY <3>2, <3>3, Zenon
  <2>3. CASE compressed /\ n >= MaxPayload - Header
    <3>1. limit = MaxPayload /\ nr = 0
      BY <1>2, <2>3
    <3>2. \E junk : /\ Sends(limit, P, cnr, CompressedPackets(n, nr, cnr), junk)
                    /\ IF Len(FlattenSeq(P)) % MaxPayload = 0 THEN Zlib(junk) ELSE junk = <<>>
      BY <1>2, <2>3, <3>1, LargeCompressedSend
    <3>3. first = cnr /\ packets = CompressedPackets(n, nr, cnr)
          /\ (EmptyLast(n) <=> Len(FlattenSeq(P)) % MaxPayload = 0)
      BY <2>3, <3>1 DEF EmptyLast
    <3>4. QED
      BY <3>2, <3>3, Zenon
  <2>4. QED
    BY <2>1, <2>2, <2>3, Sizes
<1> HIDE DEF packets, P
<1>4. latest \in NumberSet
  <2>1. packets \in Seq(UpPackets(limit)) /\ packets # <<>>
    BY <1>3 DEF Sends
  <2>2. packets[Len(packets)] \in UpPackets(limit)
    BY <2>1
  <2>3. QED
    BY <2>2, <1>2, UpPacket
<1>5. pktnr' \in [plain : NumberSet, outer : NumberSet] /\ Latest' = latest
  BY <1>1, <1>4 DEF Latest
<1>6. QED
  BY <1>1, <1>3, <1>5 DEF limit, packets, P

(* What the server has not taken is bytes, and none only if none is read or*)
(* on its way.                                                             *)
LEMMA PendingType ==
    ASSUME NEW limit \in Nat, NEW buf \in Seq(Bytes), NEW u \in Seq(UpPackets(limit))
    PROVE  /\ FlattenSeq(Plains(u)) \in Seq(Bytes) /\ Cat(buf, FlattenSeq(Plains(u))) \in Seq(Bytes)
           /\ Cat(buf, FlattenSeq(Plains(u))) = <<>> => buf = <<>> /\ u = <<>>
<1> DEFINE f == FlattenSeq(Plains(u))
<1>1. Plains(u) \in Seq(Seq(Bytes)) /\ Len(Plains(u)) = Len(u)
      /\ \A k \in 1..Len(u) : Len(Plains(u)[k]) # 0
  BY PlainsType
<1>2. f \in Seq(Bytes)
  BY <1>1, FlatType
<1>3. f = <<>> => u = <<>>
  <2> HAVE f = <<>>
  <2>1. \A k \in 1..Len(Plains(u)) : Len(Plains(u)[k]) # 0
    BY <1>1
  <2>2. Plains(u) = <<>>
    BY <2>1, <1>1, FlatNothing
  <2>3. Len(u) = 0
    BY <2>2, <1>1
  <2>4. QED
    BY <2>3
<1> HIDE DEF f
<1>4. Cat(buf, f) \in Seq(Bytes) /\ Len(Cat(buf, f)) = Len(buf) + Len(f)
  BY <1>2, CatType
<1>5. ASSUME Cat(buf, f) = <<>>
      PROVE  buf = <<>> /\ f = <<>>
  <2> DEFINE a == Len(buf)
             b == Len(f)
             c == Len(Cat(buf, f))
  <2>1. a \in Nat /\ b \in Nat /\ c = a + b /\ c = 0
    BY <1>5, <1>2, <1>4
  <2> HIDE DEF a, b, c
  <2>2. a = 0 /\ b = 0
    BY <2>1
  <2>3. QED
    BY <2>2, <1>2 DEF a, b
<1>6. QED
  BY <1>2, <1>3, <1>4, <1>5 DEF f

(* What is sent comes after what the server has not taken yet, and its     *)
(* numbers go on.                                                          *)
LEMMA UplinkGrows ==
    ASSUME NEW limit \in Nat, NEW u \in Seq(UpPackets(limit)), NEW buf \in Seq(Bytes),
           NEW prepared \in Seq(Seq(Bytes)), NEW first, NEW packets, NEW junk,
           Sends(limit, prepared, first, packets, junk)
    PROVE  /\ u \o packets \in Seq(UpPackets(limit)) /\ u \o packets # <<>>
           /\ Cat(buf, FlattenSeq(Plains(u \o packets)))
                = Cat(Cat(buf, FlattenSeq(Plains(u))), Cat(FlattenSeq(prepared), junk))
           /\ FlattenSeq(prepared) \in Seq(Bytes) /\ junk \in Seq(Bytes)
           /\ u # <<>> => (u \o packets)[1] = u[1]
           /\ u = <<>> => (u \o packets)[1].nr = first
           /\ (u \o packets)[Len(u \o packets)] = packets[Len(packets)]
           /\ Chained(u) /\ (u # <<>> => first = NextNumber(u[Len(u)].nr)) => Chained(u \o packets)
<1> DEFINE w == u \o packets
<1>1. /\ packets \in Seq(UpPackets(limit)) /\ packets # <<>> /\ Chained(packets)
      /\ packets[1].nr = first /\ junk \in Seq(Bytes)
      /\ FlattenSeq(Plains(packets)) = Cat(FlattenSeq(prepared), junk)
  BY DEF Sends
<1>2. FlattenSeq(prepared) \in Seq(Bytes)
  BY FlatType
<1>3. Plains(u) \in Seq(Seq(Bytes)) /\ Plains(packets) \in Seq(Seq(Bytes))
  BY <1>1, PlainsType
<1>4. /\ FlattenSeq(Plains(w)) = Cat(FlattenSeq(Plains(u)), FlattenSeq(Plains(packets)))
      /\ FlattenSeq(Plains(u)) \in Seq(Bytes) /\ FlattenSeq(Plains(packets)) \in Seq(Bytes)
  BY <1>1, <1>3, PlainsJoined, FlatCat
<1>5. Cat(buf, FlattenSeq(Plains(w))) = Cat(Cat(buf, FlattenSeq(Plains(u))), FlattenSeq(Plains(packets)))
  BY <1>4, CatAssoc
<1>6. /\ w \in Seq(UpPackets(limit)) /\ Len(w) = Len(u) + Len(packets)
      /\ \A i \in 1..(Len(u) + Len(packets)) : w[i] = IF i <= Len(u) THEN u[i] ELSE packets[i - Len(u)]
  BY <1>1, CatType, CatAt DEF Cat
<1> DEFINE m == Len(u)
           n == Len(packets)
<1>7. m \in Nat /\ n \in Nat /\ n # 0 /\ (u = <<>> <=> m = 0)
  BY <1>1
<1> HIDE DEF w
<1>8. w # <<>>
  BY <1>6, <1>7
<1>9. /\ u # <<>> => w[1] = u[1]
      /\ u = <<>> => w[1].nr = first
      /\ w[Len(w)] = packets[Len(packets)]
  <2>0. Len(w) = m + n /\ \A i \in 1..(m + n) : w[i] = IF i <= m THEN u[i] ELSE packets[i - m]
    BY <1>6
  <2>1. u # <<>> => w[1] = u[1]
    <3> HAVE u # <<>>
    <3> HIDE DEF m, n
    <3>1. 1 \in 1..(m + n) /\ 1 <= m
      BY <1>7
    <3>2. QED
      BY <3>1, <2>0
  <2>2. u = <<>> => w[1].nr = first
    <3> HAVE u = <<>>
    <3> HIDE DEF m, n
    <3>1. 1 \in 1..(m + n) /\ ~(1 <= m) /\ 1 - m = 1
      BY <1>7
    <3>2. QED
      BY <3>1, <2>0, <1>1
  <2>3. w[m + n] = packets[n]
    <3> HIDE DEF m, n
    <3>1. m + n \in 1..(m + n) /\ ~(m + n <= m) /\ (m + n) - m = n
      BY <1>7
    <3>2. QED
      BY <3>1, <2>0
  <2>4. QED
    BY <2>0, <2>1, <2>2, <2>3
<1>10. ASSUME Chained(u), u # <<>> => first = NextNumber(u[Len(u)].nr)
       PROVE  Chained(w)
  <2>1. \A i \in 1..(m + n) : w[i] = IF i <= m THEN u[i] ELSE packets[i - m]
    BY <1>6
  <2>2. m # 0 => first = NextNumber(u[m].nr)
    BY <1>7, <1>10
  <2>3. \A k \in 1..(m - 1) : u[k + 1].nr = NextNumber(u[k].nr)
    BY <1>10 DEF Chained
  <2>4. \A k \in 1..(n - 1) : packets[k + 1].nr = NextNumber(packets[k].nr)
    BY <1>1 DEF Chained
  <2>5. packets[1].nr = first
    BY <1>1
  <2>6. ASSUME NEW k \in 1..((m + n) - 1)
        PROVE  w[k + 1].nr = NextNumber(w[k].nr)
    <3> HIDE DEF m, n
    <3>1. k \in 1..(m + n) /\ k + 1 \in 1..(m + n)
      BY <1>7
    <3>2. CASE k < m
      <4>1. k \in 1..(m - 1) /\ k + 1 <= m /\ k <= m
        BY <3>2, <1>7
      <4>2. QED
        BY <4>1, <3>1, <2>1, <2>3
    <3>3. CASE k = m
      <4>1. ~(k + 1 <= m) /\ (k + 1) - m = 1 /\ k <= m /\ m # 0
        BY <3>3, <1>7
      <4>2. QED
        BY <4>1, <3>1, <3>3, <2>1, <2>2, <2>5
    <3>4. CASE k > m
      <4>1. ~(k + 1 <= m) /\ ~(k <= m) /\ (k + 1) - m = (k - m) + 1 /\ k - m \in 1..(n - 1)
        BY <3>4, <1>7
      <4>2. QED
        BY <4>1, <3>1, <2>1, <2>4
    <3>5. QED
      BY <3>2, <3>3, <3>4, <1>7
  <2>7. Len(w) = m + n
    BY <1>6
  <2>8. QED
    BY <2>6, <2>7 DEF Chained
<1>11. QED
  BY <1>1, <1>2, <1>5, <1>6, <1>8, <1>9, <1>10 DEF w

(* The first half of the inductive invariant: what the client sends, and   *)
(* the server.                                                             *)
ServerHalf == UpTypes /\ ServerInv /\ NumbersInv /\ OwedInv /\ DataNumbers

(* Junk stays junk when more follows it.                                   *)
LEMMA CatZip ==
    ASSUME NEW j \in Seq(Bytes), Zlib(j), NEW x \in Seq(Bytes)
    PROVE  Cat(j, x) \in Seq(Bytes) /\ Zlib(Cat(j, x))
<1> DEFINE m == Len(j)
           n == Len(x)
           w == Cat(j, x)
<1>1. m \in Nat /\ n \in Nat /\ m # 0 /\ j[1].part = "zip"
  BY DEF Zlib
<1>2. w \in Seq(Bytes) /\ Len(w) = m + n
  BY CatType
<1>3. \A i \in 1..(m + n) : w[i] = IF i <= m THEN j[i] ELSE x[i - m]
  BY CatAt
<1> HIDE DEF m, n, w
<1>4. w[1] = j[1] /\ Len(w) # 0
  BY <1>1, <1>2, <1>3
<1>5. w # <<>>
  BY <1>4
<1>6. QED
  BY <1>1, <1>2, <1>4, <1>5 DEF Zlib, w

(* All packets are still to be taken.                                      *)
LEMMA SuffixAll ==
    ASSUME NEW n \in Nat
    PROVE  Suffix(n, 0) = PreparePackets(n, 0)
<1>1. /\ PreparePackets(n, 0) \in Seq(Seq(Bytes)) /\ Len(PreparePackets(n, 0)) = (n \div MaxPayload) + 1
  BY PreparedShape
<1>2. SubSeq(PreparePackets(n, 0), 1, (n \div MaxPayload) + 1) = PreparePackets(n, 0)
  BY <1>1, WholePart
<1>3. 0 + 1 = 1
  OBVIOUS
<1>4. QED
  BY <1>2, <1>3 DEF Suffix

(* The limit depends on the broker alone.                                  *)
LEMMA SameLimit ==
    ASSUME UNCHANGED compressed
    PROVE  Limit' = Limit
  BY DEF Limit

(* It is a number.                                                         *)
LEMMA LimitIsNat ==
    ASSUME compressed \in BOOLEAN
    PROVE  Limit \in Nat
  BY Sizes DEF Limit

(* The types of the parts.                                                 *)
LEMMA UpTypesParts ==
    ASSUME UpTypes
    PROVE  /\ compressed \in BOOLEAN /\ Limit \in Nat /\ exchanges \in 0..MaxExchanges
           /\ pktnr \in [plain : NumberSet, outer : NumberSet] /\ Latest \in NumberSet
           /\ uplink \in Seq(UpPackets(Limit))
           /\ server.at \in {"command", "answer", "data", "data taken", "end"}
           /\ server.nr \in NumberSet /\ server.buf \in Seq(Bytes) /\ server.got \in Nat
           /\ server.error \in {"none", "out of order", "too long", "garbled"}
           /\ server = [at |-> server.at, nr |-> server.nr, buf |-> server.buf, got |-> server.got,
                        error |-> server.error]
           /\ sending.turn \in {"command", "server", "data"} /\ sending.lengths \in Seq(Nat)
           /\ sending.emptyLast \in BOOLEAN
           /\ sending = [turn |-> sending.turn, lengths |-> sending.lengths, emptyLast |-> sending.emptyLast]
           /\ kind \in [hard : BOOLEAN, torn : BOOLEAN]
<1>1. compressed \in BOOLEAN
  BY DEF UpTypes
<1>2. Limit \in Nat
  BY <1>1, LimitIsNat
<1>3. pktnr \in [plain : NumberSet, outer : NumberSet]
  BY DEF UpTypes
<1>4. Latest \in NumberSet
  BY <1>3 DEF Latest
<1>5. server \in [at : {"command", "answer", "data", "data taken", "end"}, nr : NumberSet,
                   buf : Seq(Bytes), got : Nat, error : {"none", "out of order", "too long", "garbled"}]
  BY DEF UpTypes
<1>6. sending \in [turn : {"command", "server", "data"}, lengths : Seq(Nat), emptyLast : BOOLEAN]
  BY DEF UpTypes
<1>7. /\ exchanges \in 0..MaxExchanges /\ uplink \in Seq(UpPackets(Limit))
      /\ kind \in [hard : BOOLEAN, torn : BOOLEAN]
  BY DEF UpTypes
<1>8. QED
  BY <1>1, <1>2, <1>3, <1>4, <1>5, <1>6, <1>7

(* A sequence with one more element.                                       *)
LEMMA Appended ==
    ASSUME NEW X, NEW s \in Seq(X), NEW e \in X
    PROVE  /\ Append(s, e) \in Seq(X) /\ Len(Append(s, e)) = Len(s) + 1
           /\ Append(s, e)[Len(s) + 1] = e /\ \A i \in 1..Len(s) : Append(s, e)[i] = s[i]
           /\ Append(s, e) # <<>>
           /\ s # <<>> => Head(Append(s, e)) = Head(s) /\ Tail(Append(s, e)) = Append(Tail(s), e)
           /\ s = <<>> => Append(s, e) = <<e>>
<1>1. /\ Append(s, e) \in Seq(X) /\ Len(Append(s, e)) = Len(s) + 1
      /\ Append(s, e)[Len(s) + 1] = e /\ \A i \in 1..Len(s) : Append(s, e)[i] = s[i]
  OBVIOUS
<1>2. Append(s, e) # <<>>
  BY <1>1
<1>3. s = <<>> => Append(s, e) = <<e>>
  OBVIOUS
<1>4. ASSUME s # <<>>
      PROVE  Head(Append(s, e)) = Head(s) /\ Tail(Append(s, e)) = Append(Tail(s), e)
  <2> DEFINE a == Append(s, e)
             n == Len(s)
             l == Tail(a)
             r == Append(Tail(s), e)
  <2>1. n \in Nat /\ n # 0 /\ Tail(s) \in Seq(X) /\ Len(Tail(s)) = n - 1
        /\ \A i \in 1..(n - 1) : Tail(s)[i] = s[i + 1]
    BY <1>4
  <2>2. a \in Seq(X) /\ Len(a) = n + 1 /\ a[n + 1] = e /\ \A i \in 1..n : a[i] = s[i]
    BY <1>1
  <2> HIDE DEF a, n
  <2>3. l \in Seq(X) /\ Len(l) = n /\ \A i \in 1..n : l[i] = a[i + 1]
    BY <2>1, <2>2
  <2>4. r \in Seq(X) /\ Len(r) = n /\ r[n] = e /\ \A i \in 1..(n - 1) : r[i] = s[i + 1]
    <3> DEFINE t == Tail(s)
    <3>1. t \in Seq(X) /\ Len(t) = n - 1 /\ \A i \in 1..(n - 1) : t[i] = s[i + 1]
      BY <2>1
    <3> HIDE DEF t
    <3>2. Append(t, e) \in Seq(X) /\ Len(Append(t, e)) = n /\ Append(t, e)[n] = e
          /\ \A i \in 1..(n - 1) : Append(t, e)[i] = t[i]
      BY <3>1, <2>1
    <3>3. QED
      BY <3>1, <3>2 DEF t
  <2> HIDE DEF l, r
  <2>5. \A i \in 1..n : l[i] = r[i]
    <3> TAKE i \in 1..n
    <3>1. i = n \/ i \in 1..(n - 1)
      BY <2>1
    <3>2. i = n => a[i + 1] = e
      BY <2>2
    <3>3. i \in 1..(n - 1) => i + 1 \in 1..n
      BY <2>1
    <3>4. QED
      BY <3>1, <3>2, <3>3, <2>2, <2>3, <2>4
  <2>6. l = r
    BY <2>3, <2>4, <2>5, SeqEqual
  <2>7. Head(a) = Head(s)
    BY <2>1, <2>2
  <2>8. QED
    BY <2>6, <2>7 DEF l, r, a
<1>5. QED
  BY <1>1, <1>2, <1>3, <1>4

(* The server has taken everything that was sent.                          *)
LEMMA NothingPending ==
    ASSUME UpTypes, Pending = <<>>
    PROVE  server.buf = <<>> /\ uplink = <<>>
  BY UpTypesParts, PendingType DEF Pending

(* No packets are numbered without a gap.                                  *)
LEMMA EmptyChained == Chained(<<>>)
  BY DEF Chained

(* _send_cmd keeps the first half.                                         *)
LEMMA ServerSendCommand ==
    ASSUME ServerHalf, NEW n \in Commands, SendCommand(n)
    PROVE  ServerHalf'
<1>1. /\ n \in Nat /\ n # 0 /\ MaySend("command") /\ Send(n, 0, 0, "server")
      /\ exchanges < MaxExchanges /\ exchanges' = exchanges + 1
      /\ UNCHANGED <<compressed, server, downlink, owed, recv, queue, kind, last>>
  BY Lengths DEF SendCommand
<1>2. sending.turn = "command" /\ owed = <<>> /\ recv.at = "idle"
  BY <1>1 DEF MaySend, Idle
<1>3. sending' = [turn |-> "server", lengths |-> Append(sending.lengths, n),
                   emptyLast |-> sending.emptyLast \/ EmptyLast(n)]
  BY <1>1 DEF Send
<1>4. UpTypes /\ ServerInv /\ NumbersInv
  BY DEF ServerHalf
<1>5. PICK packets, junk :
              /\ Sends(Limit, PreparePackets(n, 0), IF compressed THEN 0 ELSE 0, packets, junk)
              /\ IF EmptyLast(n) THEN Zlib(junk) ELSE junk = <<>>
              /\ uplink' = uplink \o packets
              /\ pktnr' \in [plain : NumberSet, outer : NumberSet]
              /\ Latest' = packets[Len(packets)].nr
  <2>1. 0 \in NumberSet /\ compressed \in BOOLEAN /\ pktnr \in [plain : NumberSet, outer : NumberSet]
        /\ UNCHANGED compressed
    BY <1>1, <1>4, Sizes DEF UpTypes
  <2>2. QED
    BY <2>1, <1>1, SendSends
<1> DEFINE P == PreparePackets(n, 0)
           w == uplink \o packets
           limit == Limit
<1>6. limit \in Nat /\ Limit' = limit /\ server.buf \in Seq(Bytes) /\ uplink \in Seq(UpPackets(limit))
  BY <1>1, <1>4, SameLimit, UpTypesParts
<1>7. P \in Seq(Seq(Bytes)) /\ Sends(limit, P, 0, packets, junk)
  BY <1>1, <1>5, PreparedShape
<1> HIDE DEF P, limit
<1>8. /\ w \in Seq(UpPackets(limit)) /\ w # <<>>
      /\ Cat(server.buf, FlattenSeq(Plains(w))) = Cat(Pending, Cat(FlattenSeq(P), junk))
      /\ FlattenSeq(P) \in Seq(Bytes) /\ junk \in Seq(Bytes)
      /\ uplink = <<>> => w[1].nr = 0
      /\ w[Len(w)] = packets[Len(packets)]
      /\ Chained(uplink) /\ (uplink # <<>> => 0 = NextNumber(uplink[Len(uplink)].nr)) => Chained(w)
  BY <1>6, <1>7, UplinkGrows DEF Pending
<1> HIDE DEF w
<1>9. uplink' = w
  BY <1>5 DEF w
<1>10. UpTypes'
  <2>1. uplink' \in Seq(UpPackets(Limit'))
    BY <1>6, <1>8, <1>9
  <2>2. sending' \in [turn : {"command", "server", "data"}, lengths : Seq(Nat), emptyLast : BOOLEAN]
    <3>1. Append(sending.lengths, n) \in Seq(Nat)
      BY <1>1, <1>4, UpTypesParts, Appended
    <3>3. (sending.emptyLast \/ EmptyLast(n)) \in BOOLEAN
      OBVIOUS
    <3>4. QED
      BY <3>1, <3>3, <1>3
  <2>3. exchanges' \in 0..MaxExchanges
    <3>1. exchanges \in 0..MaxExchanges /\ MaxExchanges \in Nat
      BY <1>4, UpTypesParts, Lengths
    <3>2. QED
      BY <3>1, <1>1
  <2>4. QED
    BY <2>1, <2>2, <2>3, <1>1, <1>4, <1>5 DEF UpTypes
<1>11. Pending' = Cat(Pending, Cat(FlattenSeq(P), junk))
  BY <1>1, <1>8, <1>9 DEF Pending
<1>12. ~sending.emptyLast => Pending = <<>> /\ server.nr = 0 /\ server.error = "none"
                             /\ NothingUnderWay(<<>>)
  <2> HAVE ~sending.emptyLast
  <2>1. PICK rem \in Seq(Seq(Bytes)), jj \in Seq(Bytes) :
             Pending = Cat(FlattenSeq(rem), jj) /\ IsJunk(jj) /\ Exchange(rem)
    BY <1>4 DEF ServerInv
  <2>2. NothingUnderWay(rem) /\ jj = <<>>
    BY <2>1, <1>2 DEF Exchange, Dead, CommandUnderWay, CommandTaken, DataUnderWay, DataTaken, AllTaken, DataSent, IsJunk
  <2>3. rem = <<>>
    BY <2>2 DEF NothingUnderWay
  <2>4. Cat(FlattenSeq(rem), jj) = <<>>
    BY <2>2, <2>3, FlatEmpty, CatEmpty
  <2>5. server.error = "none"
    BY <1>4 DEF ServerInv
  <2>6. QED
    BY <2>1, <2>2, <2>3, <2>4, <2>5 DEF NothingUnderWay
<1>13. ~sending.emptyLast => uplink = <<>>
  BY <1>12, <1>4, NothingPending
<1>14. NumbersInv'
  <2> SUFFICES ASSUME ~sending'.emptyLast
               PROVE  /\ Chained(uplink')
                      /\ uplink' # <<>> => uplink'[1].nr = server'.nr /\ uplink'[Len(uplink')].nr = Latest'
    BY DEF NumbersInv
  <2>1. ~sending.emptyLast
    BY <1>3
  <2>2. uplink = <<>> /\ server'.nr = 0
    BY <2>1, <1>1, <1>12, <1>13
  <2>3. Chained(w) /\ w[1].nr = 0
    BY <2>2, <1>8, EmptyChained
  <2>4. QED
    BY <2>2, <2>3, <1>5, <1>8, <1>9
<1>15. ServerInv'
  <2>1. CASE server.error # "none"
    BY <2>1, <1>1, <1>3, <1>4 DEF ServerInv
  <2>2. CASE server.error = "none" /\ sending.emptyLast
    <3>1. PICK rem \in Seq(Seq(Bytes)), jj \in Seq(Bytes) :
             Pending = Cat(FlattenSeq(rem), jj) /\ IsJunk(jj) /\ Exchange(rem)
      BY <2>2, <1>4 DEF ServerInv
    <3>2. Dead(rem) /\ Zlib(jj)
      BY <2>2, <3>1, <1>2 DEF Exchange, CommandUnderWay, NothingUnderWay, CommandTaken, DataUnderWay, DataTaken,
                              AllTaken, IsJunk
    <3> DEFINE x == Cat(FlattenSeq(P), junk)
    <3>3. x \in Seq(Bytes)
      BY <1>8, CatType
    <3> HIDE DEF x
    <3>4. Cat(jj, x) \in Seq(Bytes) /\ Zlib(Cat(jj, x))
      BY <3>2, <3>3, CatZip
    <3>5. Pending' = Cat(FlattenSeq(rem), Cat(jj, x))
      <4>1. FlattenSeq(rem) \in Seq(Bytes)
        BY FlatType
      <4>2. Cat(Cat(FlattenSeq(rem), jj), x) = Cat(FlattenSeq(rem), Cat(jj, x))
        BY <4>1, <3>3, CatAssoc
      <4>3. QED
        BY <4>2, <3>1, <1>11 DEF x
    <3>6. sending'.emptyLast /\ Dead(rem)' /\ IsJunk(Cat(jj, x))'
      BY <2>2, <3>2, <3>4, <1>1, <1>3 DEF Dead, IsJunk
    <3>7. QED
      BY <3>4, <3>5, <3>6, <2>2, <1>1 DEF ServerInv, Exchange
  <2>3. CASE ~sending.emptyLast
    <3>1. Pending = <<>> /\ NothingUnderWay(<<>>) /\ server.error = "none"
      BY <2>3, <1>12
    <3>2. Pending' = Cat(FlattenSeq(P), junk)
      <4>1. Cat(FlattenSeq(P), junk) \in Seq(Bytes)
        BY <1>8, CatType
      <4>2. QED
        BY <4>1, <3>1, <1>11, CatEmpty
    <3>3. IsJunk(junk)'
      BY <2>3, <1>3, <1>5 DEF IsJunk
    <3>4. CommandUnderWay(P)'
      <4>1. P = Suffix(n, 0)
        BY <1>1, SuffixAll DEF P
      <4>2. sending'.turn = "server" /\ sending'.lengths = <<n>>
        BY <3>1, <1>3 DEF NothingUnderWay
      <4>3. server'.at = "command" /\ server'.got = 0 * MaxPayload
        BY <3>1, <1>1, Sizes DEF NothingUnderWay
      <4>4. 0 \in 0..(n \div MaxPayload)
        BY <1>1, Quotient
      <4>5. QED
        BY <4>1, <4>2, <4>3, <4>4 DEF CommandUnderWay
    <3>5. QED
      BY <3>1, <3>2, <3>3, <3>4, <1>1, <1>7, <1>8 DEF ServerInv, Exchange
  <2>4. QED
    BY <2>1, <2>2, <2>3
<1>16. OwedInv' /\ DataNumbers'
  BY <1>1, <1>2, <1>3 DEF OwedInv, DataNumbers
<1>17. QED
  BY <1>10, <1>14, <1>15, <1>16 DEF ServerHalf

(* A chunk of data is never sent in several compressed packets.            *)
LEMMA DataIsShort ==
    ASSUME NEW n \in Data \cup {0}
    PROVE  ~EmptyLast(n)
  BY Lengths, Sizes DEF EmptyLast

(* One more chunk is sent.                                                 *)
LEMMA DataAppended ==
    ASSUME NEW rem \in Seq(Seq(Bytes)), NEW lengths \in Seq(Nat), DataPackets(rem, lengths),
           NEW n \in Nat, NEW nr \in NumberSet, NEW p \in Seq(Bytes), p = Packet(n, nr, 0)
    PROVE  DataPackets(Append(rem, p), Append(lengths, n))
<1> DEFINE l == Len(lengths)
           a == Append(rem, p)
           b == Append(lengths, n)
<1>1. l \in Nat /\ Len(rem) = l /\ \A k \in 1..l : \E x \in NumberSet : rem[k] = Packet(lengths[k], x, 0)
  BY DEF DataPackets
<1>2. Len(a) = l + 1 /\ a[l + 1] = p /\ \A i \in 1..l : a[i] = rem[i]
  BY <1>1, Appended
<1>3. Len(b) = l + 1 /\ b[l + 1] = n /\ \A i \in 1..l : b[i] = lengths[i]
  BY Appended
<1> HIDE DEF l, a, b
<1>4. ASSUME NEW k \in 1..(l + 1)
      PROVE  \E x \in NumberSet : a[k] = Packet(b[k], x, 0)
  <2>1. CASE k = l + 1
    BY <2>1, <1>2, <1>3
  <2>2. CASE k # l + 1
    <3>1. k \in 1..l
      BY <2>2, <1>1
    <3>2. QED
      BY <3>1, <1>1, <1>2, <1>3
  <2>3. QED
    BY <2>1, <2>2
<1>5. QED
  BY <1>2, <1>3, <1>4 DEF DataPackets, a, b

(* _send_data keeps the first half.                                        *)
LEMMA ServerSendData ==
    ASSUME ServerHalf, NEW n \in Data \cup {0}, SendData(n)
    PROVE  ServerHalf'
<1> DEFINE turn == IF n = 0 THEN "server" ELSE "data"
<1>0. PICK nr, cnr : nr = NextNumber(pktnr.plain) /\ cnr = NextNumber(pktnr.outer)
  OBVIOUS
<1>1. /\ n \in Nat /\ n < MaxPayload - Header /\ n < MaxPayload
      /\ MaySend("data") /\ Send(n, nr, cnr, turn)
      /\ exchanges' = (IF n = 0 THEN exchanges ELSE exchanges + 1) /\ exchanges' <= MaxExchanges
      /\ UNCHANGED <<compressed, server, downlink, owed, recv, queue, kind, last>>
  BY <1>0, Lengths DEF SendData
<1>2. sending.turn = "data" /\ owed = <<>> /\ recv.at = "idle" /\ ~Stopped /\ ~kind.hard
  BY <1>1 DEF MaySend, Idle, Stopped
<1>3. UpTypes /\ ServerInv /\ NumbersInv /\ DataNumbers
  BY DEF ServerHalf
<1>4. ~EmptyLast(n)
  BY DataIsShort
<1>5. sending' = [turn |-> turn, lengths |-> Append(sending.lengths, n), emptyLast |-> sending.emptyLast]
  <2>1. sending' = [turn |-> turn, lengths |-> Append(sending.lengths, n),
                     emptyLast |-> sending.emptyLast \/ EmptyLast(n)]
    BY <1>1 DEF Send
  <2>2. sending.emptyLast \in BOOLEAN
    BY <1>3, UpTypesParts
  <2>3. QED
    BY <2>1, <2>2, <1>4
<1>6. nr \in NumberSet /\ cnr \in NumberSet /\ (IF compressed THEN cnr ELSE nr) = NextNumber(Latest)
  <2>1. pktnr.plain \in NumberSet /\ pktnr.outer \in NumberSet
    BY <1>3, UpTypesParts
  <2>2. pktnr.plain \in Nat /\ pktnr.outer \in Nat
    BY <2>1 DEF NumberSet
  <2>3. QED
    BY <2>2, <1>0, NumberIsNumber DEF Latest
<1> HIDE DEF turn
<1>7. PICK packets, junk :
              /\ Sends(Limit, PreparePackets(n, nr), IF compressed THEN cnr ELSE nr, packets, junk)
              /\ IF EmptyLast(n) THEN Zlib(junk) ELSE junk = <<>>
              /\ uplink' = uplink \o packets
              /\ pktnr' \in [plain : NumberSet, outer : NumberSet]
              /\ Latest' = packets[Len(packets)].nr
  <2>1. compressed \in BOOLEAN /\ pktnr \in [plain : NumberSet, outer : NumberSet]
    BY <1>3, UpTypesParts
  <2>2. ~(n >= MaxPayload - Header) /\ UNCHANGED compressed
    BY <1>1, Sizes
  <2>3. QED
    BY <2>1, <2>2, <1>1, <1>6, SendSends
<1> DEFINE P == PreparePackets(n, nr)
           w == uplink \o packets
           limit == Limit
           first == NextNumber(Latest)
<1>7a. PICK e : e = Packet(n, nr, 0)
  OBVIOUS
<1>8. limit \in Nat /\ Limit' = limit /\ server.buf \in Seq(Bytes) /\ uplink \in Seq(UpPackets(limit))
  BY <1>1, <1>3, SameLimit, UpTypesParts
<1>9. P \in Seq(Seq(Bytes)) /\ Sends(limit, P, first, packets, junk) /\ junk = <<>>
      /\ FlattenSeq(P) = e /\ e \in Seq(Bytes)
  <2>1. nr \in Nat
    BY <1>6 DEF NumberSet
  <2>2. QED
    BY <2>1, <1>1, <1>4, <1>6, <1>7, <1>7a, PreparedShape, OnePacket
<1> HIDE DEF P, limit, first
<1>10. /\ w \in Seq(UpPackets(limit)) /\ w # <<>>
       /\ Cat(server.buf, FlattenSeq(Plains(w))) = Cat(Pending, Cat(FlattenSeq(P), junk))
       /\ uplink # <<>> => w[1] = uplink[1]
       /\ uplink = <<>> => w[1].nr = first
       /\ w[Len(w)] = packets[Len(packets)]
       /\ Chained(uplink) /\ (uplink # <<>> => first = NextNumber(uplink[Len(uplink)].nr)) => Chained(w)
  BY <1>8, <1>9, UplinkGrows DEF Pending
<1> HIDE DEF w
<1>11. uplink' = w
  BY <1>7 DEF w
<1>12. UpTypes'
  <2>1. uplink' \in Seq(UpPackets(Limit'))
    BY <1>8, <1>10, <1>11
  <2>2. sending' \in [turn : {"command", "server", "data"}, lengths : Seq(Nat), emptyLast : BOOLEAN]
    <3>1. Append(sending.lengths, n) \in Seq(Nat) /\ sending.emptyLast \in BOOLEAN
      BY <1>1, <1>3, UpTypesParts, Appended
    <3>2. turn \in {"command", "server", "data"}
      BY DEF turn
    <3>3. QED
      BY <3>1, <3>2, <1>5
  <2>3. exchanges' \in 0..MaxExchanges
    <3>1. exchanges \in 0..MaxExchanges /\ MaxExchanges \in Nat
      BY <1>3, UpTypesParts, Lengths
    <3>2. QED
      BY <3>1, <1>1
  <2>4. QED
    BY <2>1, <2>2, <2>3, <1>1, <1>3, <1>7 DEF UpTypes
<1>13. Pending' = Cat(Pending, e)
  <2>1. Pending' = Cat(Pending, Cat(e, <<>>))
    BY <1>1, <1>9, <1>10, <1>11 DEF Pending
  <2>2. Cat(e, <<>>) = e
    BY <1>9, CatEmpty
  <2>3. QED
    BY <2>1, <2>2
<1>14. NumbersInv'
  <2> SUFFICES ASSUME ~sending'.emptyLast
               PROVE  /\ Chained(uplink')
                      /\ uplink' # <<>> => uplink'[1].nr = server'.nr /\ uplink'[Len(uplink')].nr = Latest'
    BY DEF NumbersInv
  <2>1. ~sending.emptyLast
    BY <1>5
  <2>2. /\ Chained(uplink)
        /\ uplink # <<>> => uplink[1].nr = server.nr /\ uplink[Len(uplink)].nr = Latest
    BY <2>1, <1>3 DEF NumbersInv
  <2>3. uplink = <<>> => server.nr = first
    BY <2>1, <1>2, <1>3 DEF DataNumbers, first
  <2>4. Chained(w)
    BY <2>2, <1>10 DEF first
  <2>5. w[1].nr = server.nr
    BY <2>2, <2>3, <1>10
  <2>6. QED
    BY <2>4, <2>5, <1>1, <1>7, <1>10, <1>11
<1>15. ServerInv'
  <2>1. CASE server.error # "none"
    BY <2>1, <1>1, <1>3, <1>5 DEF ServerInv
  <2>2. CASE server.error = "none"
    <3>1. PICK rem \in Seq(Seq(Bytes)), jj \in Seq(Bytes) :
             Pending = Cat(FlattenSeq(rem), jj) /\ IsJunk(jj) /\ Exchange(rem)
      BY <2>2, <1>3 DEF ServerInv
    <3>2. Dead(rem) \/ DataUnderWay(rem) \/ DataTaken(rem)
      BY <3>1, <1>2 DEF Exchange, CommandUnderWay, NothingUnderWay, CommandTaken, AllTaken
    <3>3. FlattenSeq(rem) \in Seq(Bytes)
      BY FlatType
    <3>4. CASE Dead(rem)
      <4>1. Zlib(jj) /\ sending.emptyLast
        BY <3>1, <3>4 DEF Dead, IsJunk
      <4>2. Cat(jj, e) \in Seq(Bytes) /\ Zlib(Cat(jj, e))
        BY <4>1, <1>9, CatZip
      <4>3. Cat(Cat(FlattenSeq(rem), jj), e) = Cat(FlattenSeq(rem), Cat(jj, e))
        BY <3>3, <1>9, CatAssoc
      <4>4. Pending' = Cat(FlattenSeq(rem), Cat(jj, e))
        BY <4>3, <3>1, <1>13
      <4>5. Dead(rem)' /\ IsJunk(Cat(jj, e))'
        BY <4>1, <4>2, <3>4, <1>1, <1>5 DEF Dead, IsJunk
      <4>6. QED
        BY <4>2, <4>4, <4>5, <2>2, <1>1 DEF ServerInv, Exchange
    <3>5. CASE DataUnderWay(rem) \/ DataTaken(rem)
      <4> DEFINE rem2 == Append(rem, e)
      <4>1. jj = <<>> /\ ~sending.emptyLast /\ DataSent
        BY <3>1, <3>5 DEF DataUnderWay, DataTaken, IsJunk
      <4>2. rem2 \in Seq(Seq(Bytes)) /\ FlattenSeq(rem2) = Cat(FlattenSeq(rem), e)
        BY <1>9, Appended, FlatAppend DEF Cat
      <4>3. FlattenSeq(rem2) \in Seq(Bytes)
        BY <4>2, FlatType
      <4>4. Pending = FlattenSeq(rem)
        BY <4>1, <3>1, <3>3, CatEmpty
      <4>5. Pending' = Cat(FlattenSeq(rem2), <<>>)
        BY <4>2, <4>3, <4>4, <1>13, CatEmpty
      <4>6. <<>> \in Seq(Bytes) /\ IsJunk(<<>>)'
        BY <4>1, <1>5 DEF IsJunk
      <4>7. sending.lengths \in Seq(Data) /\ sending.lengths \in Seq(Nat)
        BY <4>1, <1>2, <1>3, UpTypesParts DEF DataSent
      <4>8. DataSent'
        <5>1. CASE n = 0
          <6>1. sending'.turn = "server" /\ sending'.lengths = Append(sending.lengths, 0)
            BY <5>1, <1>5 DEF turn
          <6>2. QED
            BY <6>1, <4>7 DEF DataSent
        <5>2. CASE n # 0
          <6>1. sending'.turn = "data" /\ sending'.lengths = Append(sending.lengths, n) /\ n \in Data
            BY <5>2, <1>5 DEF turn
          <6>2. sending'.lengths \in Seq(Data)
            BY <6>1, <4>7, Appended
          <6>3. QED
            BY <6>1, <6>2 DEF DataSent
        <5>3. QED
          BY <5>1, <5>2
      <4>9. CASE DataUnderWay(rem)
        <5>1. DataPackets(rem2, Append(sending.lengths, n))
          BY <4>7, <4>9, <1>1, <1>6, <1>7a, <1>9, DataAppended DEF DataUnderWay
        <5>2. DataUnderWay(rem2)'
          BY <5>1, <4>1, <4>8, <4>9, <1>1, <1>5 DEF DataUnderWay
        <5>3. QED
          BY <5>2, <4>2, <4>5, <4>6, <2>2, <1>1 DEF ServerInv, Exchange
      <4>10. CASE DataTaken(rem)
        <5>1. sending.lengths # <<>> /\ DataPackets(rem, Tail(sending.lengths))
          BY <4>10 DEF DataTaken
        <5>2. Tail(sending.lengths) \in Seq(Nat)
          BY <5>1, <4>7
        <5>3. DataPackets(rem2, Append(Tail(sending.lengths), n))
          BY <5>1, <5>2, <1>1, <1>6, <1>7a, <1>9, DataAppended
        <5>4. /\ Append(sending.lengths, n) # <<>>
              /\ Head(Append(sending.lengths, n)) = Head(sending.lengths)
              /\ Tail(Append(sending.lengths, n)) = Append(Tail(sending.lengths), n)
          <6> DEFINE l == sending.lengths
          <6>1. l \in Seq(Nat) /\ l # <<>> /\ n \in Nat
            BY <5>1, <4>7, <1>1
          <6> HIDE DEF l
          <6>2. Append(l, n) # <<>> /\ Head(Append(l, n)) = Head(l) /\ Tail(Append(l, n)) = Append(Tail(l), n)
            BY <6>1, Appended
          <6>3. QED
            BY <6>2 DEF l
        <5>5. DataTaken(rem2)'
          BY <5>3, <5>4, <4>1, <4>8, <4>10, <1>1, <1>5 DEF DataTaken
        <5>6. QED
          BY <5>5, <4>2, <4>5, <4>6, <2>2, <1>1 DEF ServerInv, Exchange
      <4>11. QED
        BY <3>5, <4>9, <4>10
    <3>6. QED
      BY <3>2, <3>4, <3>5
  <2>3. QED
    BY <2>1, <2>2
<1>16. OwedInv' /\ DataNumbers'
  BY <1>1, <1>2, <1>10, <1>11 DEF OwedInv, DataNumbers
<1>17. QED
  BY <1>12, <1>14, <1>15, <1>16 DEF ServerHalf

(* A sequence without its first element.                                   *)
LEMMA TailShape ==
    ASSUME NEW X, NEW s \in Seq(X), s # <<>>
    PROVE  /\ Len(Tail(s)) = Len(s) - 1 /\ Len(s) \in Nat /\ Len(s) >= 1 /\ Head(s) = s[1]
           /\ \A k \in 1..(Len(s) - 1) : Tail(s)[k] = s[k + 1]
           /\ Tail(s) \in Seq(X) /\ Head(s) \in X
  OBVIOUS

(* The server reads a packet of the socket: the first half is kept, for its*)
(* number is the one expected and it is not too long.                      *)
LEMMA ServerServerReads ==
    ASSUME ServerHalf, ServerReads
    PROVE  ServerHalf'
<1> DEFINE p == Head(uplink)
           plain == Plain(p)
           u == Tail(uplink)
           limit == Limit
<1>1. /\ server.at \in {"command", "data"} /\ server.error = "none" /\ uplink # <<>>
      /\ server' = IF p.nr # server.nr THEN [server EXCEPT !.error = "out of order"]
                   ELSE IF Len(plain) > limit THEN [server EXCEPT !.error = "too long"]
                   ELSE [server EXCEPT !.buf = @ \o plain, !.nr = NextNumber(@)]
      /\ uplink' = u
      /\ UNCHANGED <<compressed, client, downlink, owed, sending, kind, exchanges>>
  BY DEF ServerReads, Plain, Limit
<1>2. UpTypes /\ ServerInv /\ NumbersInv /\ OwedInv
  BY DEF ServerHalf
<1>3. limit \in Nat /\ Limit' = limit /\ server.buf \in Seq(Bytes) /\ uplink \in Seq(UpPackets(limit))
      /\ server.nr \in NumberSet
  BY <1>1, <1>2, SameLimit, UpTypesParts
<1>4. UNCHANGED <<pktnr, recv, queue, last, Latest, Stopped>>
  BY <1>1 DEF client, Latest, Stopped
<1> HIDE DEF limit
<1>5. /\ Plains(uplink) # <<>> /\ Head(Plains(uplink)) = plain /\ Tail(Plains(uplink)) = Plains(u)
      /\ p \in UpPackets(limit) /\ u \in Seq(UpPackets(limit))
  BY <1>1, <1>3, PlainsTail
<1>6. p.nr \in NumberSet /\ plain \in Seq(Bytes) /\ Len(plain) \in Nat /\ Len(plain) <= limit
  BY <1>3, <1>5, UpPacket
<1>7. /\ Len(u) = Len(uplink) - 1 /\ Len(uplink) \in Nat /\ Len(uplink) >= 1 /\ p = uplink[1]
      /\ \A k \in 1..(Len(uplink) - 1) : u[k] = uplink[k + 1]
  BY <1>1, <1>3, TailShape
<1> HIDE DEF p, plain, u
<1>8. CASE p.nr # server.nr
  <2>1. server' = [server EXCEPT !.error = "out of order"]
    BY <1>1, <1>8
  <2>2. sending.emptyLast
    BY <1>1, <1>2, <1>7, <1>8 DEF NumbersInv
  <2>3. server'.error = "out of order" /\ server'.at = server.at
    BY <2>1, <1>2, UpTypesParts
  <2>4. ServerInv'
    BY <2>2, <2>3, <1>1 DEF ServerInv
  <2>5. UpTypes'
    BY <2>1, <1>1, <1>2, <1>3, <1>4, <1>5 DEF UpTypes
  <2>6. NumbersInv' /\ OwedInv' /\ DataNumbers'
    BY <2>2, <1>1, <1>2, <1>4 DEF NumbersInv, OwedInv, DataNumbers
  <2>7. QED
    BY <2>4, <2>5, <2>6 DEF ServerHalf
<1>9. CASE p.nr = server.nr
  <2>1. server' = [server EXCEPT !.buf = @ \o plain, !.nr = NextNumber(@)]
    <3>1. ~(Len(plain) > limit)
      BY <1>3, <1>6
    <3>2. QED
      BY <3>1, <1>1, <1>9
  <2>2. /\ server'.buf = Cat(server.buf, plain) /\ server'.nr = NextNumber(server.nr)
        /\ server'.at = server.at /\ server'.got = server.got /\ server'.error = "none"
    BY <2>1, <1>1, <1>2, UpTypesParts DEF Cat
  <2>3. Cat(server.buf, plain) \in Seq(Bytes)
    BY <1>3, <1>6, CatType
  <2>4. NextNumber(server.nr) \in NumberSet
    <3>1. server.nr \in Nat
      BY <1>3 DEF NumberSet
    <3>2. QED
      BY <3>1, NumberIsNumber
  <2>5. UpTypes'
    <3>1. server' \in [at : {"command", "answer", "data", "data taken", "end"}, nr : NumberSet,
                   buf : Seq(Bytes), got : Nat, error : {"none", "out of order", "too long", "garbled"}]
      BY <2>1, <2>2, <2>3, <2>4, <1>2, UpTypesParts
    <3>2. QED
      BY <3>1, <1>1, <1>2, <1>3, <1>4, <1>5 DEF UpTypes
  <2>6. Pending' = Pending
    <3>1. Plains(uplink) \in Seq(Seq(Bytes))
      BY <1>3, PlainsType
    <3>2. /\ FlattenSeq(Plains(uplink)) = Cat(plain, FlattenSeq(Plains(u)))
          /\ FlattenSeq(Plains(u)) \in Seq(Bytes)
      BY <3>1, <1>5, FlatFirst
    <3>3. Cat(Cat(server.buf, plain), FlattenSeq(Plains(u))) = Cat(server.buf, Cat(plain, FlattenSeq(Plains(u))))
      BY <3>2, <1>3, <1>6, CatAssoc
    <3>4. QED
      BY <3>2, <3>3, <2>2, <1>1 DEF Pending
  <2>7. ServerInv'
    <3>1. PICK rem \in Seq(Seq(Bytes)), jj \in Seq(Bytes) :
             Pending = Cat(FlattenSeq(rem), jj) /\ IsJunk(jj) /\ Exchange(rem)
      BY <1>1, <1>2 DEF ServerInv
    <3>2. IsJunk(jj)'
      BY <3>1, <1>1 DEF IsJunk
    <3>4. ~NothingUnderWay(rem)
      <4> SUFFICES ASSUME NothingUnderWay(rem) PROVE FALSE
        OBVIOUS
      <4>1. rem = <<>> /\ jj = <<>>
        BY <3>1 DEF NothingUnderWay, IsJunk
      <4>2. Pending = <<>>
        BY <4>1, <3>1, FlatEmpty, CatEmpty
      <4>3. QED
        BY <4>2, <1>1, <1>2, NothingPending
    <3>5. Exchange(rem)'
      BY <3>1, <3>4, <2>2, <1>1 DEF Exchange, Dead, CommandUnderWay, CommandTaken, DataUnderWay, DataTaken, AllTaken,
                                    DataSent
    <3>6. QED
      BY <3>1, <3>2, <3>5, <2>2, <2>6 DEF ServerInv
  <2>8. NumbersInv' /\ DataNumbers'
    <3> SUFFICES ASSUME ~sending.emptyLast
                 PROVE  /\ Chained(u)
                        /\ u # <<>> => u[1].nr = server'.nr /\ u[Len(u)].nr = Latest
                        /\ u = <<>> => server'.nr = NextNumber(Latest)
      BY <1>1, <1>4 DEF NumbersInv, DataNumbers
    <3> DEFINE n == Len(uplink)
    <3>1. /\ \A k \in 1..(n - 1) : uplink[k + 1].nr = NextNumber(uplink[k].nr)
          /\ uplink[1].nr = server.nr /\ uplink[n].nr = Latest
      BY <1>1, <1>2 DEF NumbersInv, Chained
    <3>2. n \in Nat /\ n >= 1 /\ Len(u) = n - 1 /\ \A k \in 1..(n - 1) : u[k] = uplink[k + 1]
      BY <1>7
    <3>3. (u = <<>> <=> n = 1)
      BY <1>5, <3>2
    <3> HIDE DEF n
    <3>4. \A k \in 1..(n - 2) : u[k + 1].nr = NextNumber(u[k].nr)
      <4> TAKE k \in 1..(n - 2)
      <4>1. k \in 1..(n - 1) /\ k + 1 \in 1..(n - 1)
        BY <3>2
      <4>2. QED
        BY <4>1, <3>1, <3>2
    <3>5. Chained(u)
      <4>1. Len(u) - 1 = n - 2
        BY <3>2
      <4>2. QED
        BY <4>1, <3>4 DEF Chained
    <3>6. n # 1 => u[1].nr = NextNumber(server.nr) /\ u[n - 1].nr = Latest
      <4> HAVE n # 1
      <4>1. 1 \in 1..(n - 1) /\ n - 1 \in 1..(n - 1) /\ (n - 1) + 1 = n /\ 1 + 1 = 2
        BY <3>2
      <4>2. QED
        BY <4>1, <3>1, <3>2
    <3>7. n = 1 => NextNumber(server.nr) = NextNumber(Latest)
      BY <3>1
    <3>8. QED
      BY <3>2, <3>3, <3>5, <3>6, <3>7, <2>2
  <2>9. OwedInv'
    <3>1. sending.emptyLast \/ owed = <<>>
      BY <1>1, <1>2 DEF OwedInv
    <3>2. QED
      BY <3>1, <1>1, <1>2, <1>4 DEF OwedInv
  <2>10. QED
    BY <2>5, <2>7, <2>8, <2>9 DEF ServerHalf
<1>10. QED
  BY <1>8, <1>9

(* The fields of a byte of a header.                                       *)
LEMMA HeadFields ==
    ASSUME NEW i, NEW len, NEW nr
    PROVE  HeadByte(i, len, nr).part = "head" /\ HeadByte(i, len, nr).i = i
           /\ HeadByte(i, len, nr).len = len /\ HeadByte(i, len, nr).nr = nr
  BY DEF HeadByte

(* The server takes the next packet out of what it has read, if it is all  *)
(* there: its bytes are right, and the rest is what follows.               *)
Takes(buf, x, rem, jj, len, from) ==
    /\ IsHeader(buf, 0, Header) /\ buf[1].len = len
    /\ Len(buf) >= Header + len =>
         /\ \A i \in 1..len : SubSeq(buf, Header + 1, Header + len)[i] = BodyByte(from + i)
         /\ SubSeq(buf, Header + len + 1, Len(buf)) \in Seq(Bytes)
         /\ Cat(SubSeq(buf, Header + len + 1, Len(buf)), x) = Cat(FlattenSeq(Tail(rem)), jj)

(* It does so when what it has read and what comes is that packet and what *)
(* follows.                                                                *)
LEMMA TakesPacket ==
    ASSUME NEW buf \in Seq(Bytes), NEW x \in Seq(Bytes), NEW rem \in Seq(Seq(Bytes)), rem # <<>>,
           NEW jj \in Seq(Bytes), Cat(buf, x) = Cat(FlattenSeq(rem), jj),
           NEW len \in 0..MaxPayload, NEW nr \in NumberSet, NEW from \in Nat,
           Head(rem) = Packet(len, nr, from), Len(buf) >= Header
    PROVE  Takes(buf, x, rem, jj, len, from)
<1> DEFINE p == Head(rem)
           f == FlattenSeq(Tail(rem))
           y == Cat(f, jj)
           n == Len(buf)
<1>1. /\ FlattenSeq(rem) = Cat(p, f) /\ p \in Seq(Bytes) /\ f \in Seq(Bytes)
  BY FlatFirst
<1>2. /\ Len(p) = Header + len
      /\ \A i \in 1..Header : p[i] = HeadByte(i, len, nr)
      /\ \A i \in 1..len : p[Header + i] = BodyByte(from + i)
  <2> DEFINE g == Packet(len, nr, from)
  <2>1. /\ Len(g) = Header + len
        /\ \A i \in 1..Header : g[i] = HeadByte(i, len, nr)
        /\ \A i \in 1..len : g[Header + i] = BodyByte(from + i)
    BY PacketShape
  <2>2. p = g
    OBVIOUS
  <2> HIDE DEF g, p
  <2>3. QED
    BY <2>1, <2>2
<1> HIDE DEF p, f
<1>3. y \in Seq(Bytes)
  BY <1>1, CatType
<1>4. Cat(buf, x) = Cat(p, y)
  BY <1>1, CatAssoc
<1> HIDE DEF y
<1>5. /\ \A k \in 1..Len(buf) : k <= Len(p) => buf[k] = p[k]
      /\ Len(buf) >= Len(p) => Cat(SubSeq(buf, Len(p) + 1, Len(buf)), x) = y
  BY <1>1, <1>3, <1>4, CatPrefix
<1>6. n \in Nat /\ len \in Nat /\ Header \in Nat /\ Header >= 2 /\ n >= Header
  BY Sizes
<1>7. \A k \in 1..n : k <= Header + len => buf[k] = p[k]
  BY <1>2, <1>5
<1> HIDE DEF n
<1>8. \A i \in 1..Header : buf[i] = HeadByte(i, len, nr)
  <2> TAKE i \in 1..Header
  <2>1. i \in 1..n /\ i <= Header + len
    BY <1>6
  <2>2. QED
    BY <2>1, <1>2, <1>7
<1>9. IsHeader(buf, 0, Header)
  <2>1. \A i \in 1..Header : 0 + i = i /\ buf[i].part = "head" /\ buf[i].i = i
    BY <1>8, HeadFields
  <2>2. n >= 0 + Header
    BY <1>6
  <2>3. QED
    BY <2>1, <2>2 DEF IsHeader, n
<1>10. buf[1].len = len
  <2>1. 1 \in 1..Header
    BY <1>6
  <2>2. QED
    BY <2>1, <1>8, HeadFields
<1>11. ASSUME n >= Header + len
       PROVE  /\ \A i \in 1..len : SubSeq(buf, Header + 1, Header + len)[i] = BodyByte(from + i)
              /\ SubSeq(buf, Header + len + 1, n) \in Seq(Bytes)
              /\ Cat(SubSeq(buf, Header + len + 1, n), x) = y
  <2> DEFINE a == Header
             b == Header + len
  <2>1. a \in Nat /\ b \in Nat /\ a <= b /\ b <= n /\ b - a = len
    BY <1>6, <1>11
  <2>2. Cat(SubSeq(buf, b + 1, n), x) = y
    BY <2>1, <1>2, <1>5 DEF n
  <2>3. \A i \in 1..len : i \in 1..(b - a) /\ a + i \in 1..n /\ a + i <= Header + len
    BY <2>1, <1>6
  <2> HIDE DEF b
  <2>4. \A i \in 1..(b - a) : SubSeq(buf, a + 1, b)[i] = buf[a + i]
    BY <2>1, Part DEF n
  <2>5. \A i \in 1..len : SubSeq(buf, a + 1, b)[i] = BodyByte(from + i)
    BY <2>3, <2>4, <1>2, <1>7
  <2>6. SubSeq(buf, b + 1, n) \in Seq(Bytes)
    BY <2>1, Part DEF n
  <2>7. QED
    BY <2>2, <2>5, <2>6 DEF b
<1>12. QED
  BY <1>9, <1>10, <1>11 DEF n, y, f, Takes

(* The packets that follow the first t begin with packet t + 1.            *)
LEMMA SuffixStep ==
    ASSUME NEW n \in Nat, NEW t \in 0..(n \div MaxPayload)
    PROVE  /\ Suffix(n, t) \in Seq(Seq(Bytes)) /\ Suffix(n, t) # <<>>
           /\ PartLength(n, t + 1) \in 0..MaxPayload /\ t % Numbers \in NumberSet
           /\ Head(Suffix(n, t)) = Packet(PartLength(n, t + 1), t % Numbers, t * MaxPayload)
           /\ t * MaxPayload \in Nat
           /\ Tail(Suffix(n, t)) = Suffix(n, t + 1)
           /\ Suffix(n, (n \div MaxPayload) + 1) = <<>>
<1> DEFINE q == n \div MaxPayload
           P == PreparePackets(n, 0)
           k == t + 1
<1>1. q \in Nat /\ t \in Nat /\ t <= q
  BY Quotient
<1> HIDE DEF q
<1>2. k \in 1..(q + 1) /\ 0 + k - 1 = t /\ k - 1 = t
  BY <1>1
<1>3. P \in Seq(Seq(Bytes)) /\ Len(P) = q + 1
  BY PreparedShape DEF q
<1>4. \A j \in 1..(q + 1) :
                /\ PartLength(n, j) \in 0..MaxPayload
                /\ (0 + j - 1) % Numbers \in NumberSet
                /\ (j - 1) * MaxPayload \in Nat
                /\ P[j] = Packet(PartLength(n, j), (0 + j - 1) % Numbers, (j - 1) * MaxPayload)
  BY PreparedShape DEF q
<1> HIDE DEF P, k
<1>5. /\ PartLength(n, k) \in 0..MaxPayload /\ t % Numbers \in NumberSet /\ t * MaxPayload \in Nat
      /\ P[k] = Packet(PartLength(n, k), t % Numbers, t * MaxPayload)
  BY <1>2, <1>4
<1>6. /\ Suffix(n, t) = SubSeq(P, t + 1, q + 1) /\ Suffix(n, t + 1) = SubSeq(P, (t + 1) + 1, q + 1)
      /\ Suffix(n, q + 1) = SubSeq(P, (q + 1) + 1, q + 1)
  BY DEF Suffix, q, P
<1>7. /\ SubSeq(P, t + 1, q + 1) \in Seq(Seq(Bytes)) /\ SubSeq(P, t + 1, q + 1) # <<>>
      /\ Head(SubSeq(P, t + 1, q + 1)) = P[t + 1]
      /\ Tail(SubSeq(P, t + 1, q + 1)) = SubSeq(P, (t + 1) + 1, q + 1)
  <2> DEFINE m == q + 1
             A == SubSeq(P, t + 1, m)
             z == t + 1
             B == SubSeq(P, z + 1, m)
  <2>1. m \in Nat /\ t \in Nat /\ t < m /\ m <= Len(P) /\ z \in Nat /\ z <= m /\ z = t + 1 /\ t <= m
    BY <1>1, <1>3
  <2> HIDE DEF m, z
  <2>2. A \in Seq(Seq(Bytes)) /\ Len(A) = m - t /\ \A i \in 1..(m - t) : A[i] = P[t + i]
    BY <2>1, <1>3, Part
  <2>3. B \in Seq(Seq(Bytes)) /\ Len(B) = m - z /\ \A i \in 1..(m - z) : B[i] = P[z + i]
    BY <2>1, <1>3, Part
  <2> HIDE DEF A, B
  <2>4. A # <<>>
    BY <2>1, <2>2
  <2>5. Head(A) = P[t + 1]
    <3>1. 1 \in 1..(m - t)
      BY <2>1
    <3>2. Head(A) = A[1]
      BY <2>2, <2>4
    <3>3. QED
      BY <3>1, <3>2, <2>2
  <2>6. Tail(A) \in Seq(Seq(Bytes)) /\ Len(Tail(A)) = m - z /\ \A i \in 1..(m - z) : Tail(A)[i] = A[i + 1]
    <3>1. /\ Len(Tail(A)) = Len(A) - 1 /\ \A i \in 1..(Len(A) - 1) : Tail(A)[i] = A[i + 1]
          /\ Tail(A) \in Seq(Seq(Bytes))
      BY <2>2, <2>4, TailShape
    <3>2. Len(A) - 1 = m - z
      BY <2>1, <2>2
    <3>3. QED
      BY <3>1, <3>2
  <2>7. \A i \in 1..(m - z) : Tail(A)[i] = B[i]
    <3> TAKE i \in 1..(m - z)
    <3>1. i + 1 \in 1..(m - t) /\ t + (i + 1) = z + i
      BY <2>1
    <3>2. A[i + 1] = P[z + i]
      BY <3>1, <2>2
    <3>3. QED
      BY <3>2, <2>3, <2>6
  <2>8. Tail(A) = B
    BY <2>3, <2>6, <2>7, SeqEqual
  <2>9. QED
    BY <2>2, <2>4, <2>5, <2>8 DEF A, B, z, m
<1>8. SubSeq(P, (q + 1) + 1, q + 1) = <<>>
  BY <1>1, <1>3
<1>9. QED
  BY <1>5, <1>6, <1>7, <1>8 DEF q, k

(* What an empty compressed packet leaves is not taken for a packet.       *)
LEMMA JunkIsNoHeader ==
    ASSUME NEW buf \in Seq(Bytes), NEW x \in Seq(Bytes), NEW jj \in Seq(Bytes), Zlib(jj),
           Cat(buf, x) = Cat(FlattenSeq(<<>>), jj), Len(buf) >= Header
    PROVE  ~IsHeader(buf, 0, Header)
<1>1. Cat(buf, x) = jj
  BY FlatEmpty, CatEmpty
<1>2. Len(buf) \in Nat /\ Len(buf) >= 1 /\ Len(x) \in Nat /\ Header >= 1
  BY Sizes
<1>3. 1 \in 1..(Len(buf) + Len(x)) /\ 1 <= Len(buf)
  BY <1>2
<1>4. Cat(buf, x)[1] = buf[1]
  BY <1>3, CatAt
<1>5. buf[0 + 1].part = "zip"
  BY <1>1, <1>4 DEF Zlib
<1>6. 1 \in 1..Header
  BY Sizes
<1>7. QED
  BY <1>5, <1>6 DEF IsHeader

(* The server takes the next packet that is still to be taken.             *)
LEMMA TakesNext ==
    ASSUME UpTypes, ServerTakes, NEW rem \in Seq(Seq(Bytes)), rem # <<>>, NEW jj \in Seq(Bytes),
           Pending = Cat(FlattenSeq(rem), jj), NEW len \in 0..MaxPayload, NEW nr \in NumberSet,
           Head(rem) = Packet(len, nr, server.got)
    PROVE  /\ UpTypes' /\ Pending' = Cat(FlattenSeq(Tail(rem)), jj) /\ Tail(rem) \in Seq(Seq(Bytes))
           /\ server'.error = "none" /\ server'.nr = server.nr /\ server'.got = server.got + len
           /\ server'.at = IF len = MaxPayload THEN server.at
                           ELSE IF server.at = "command" THEN "answer"
                           ELSE IF server.got + len = 0 THEN "end" ELSE "data taken"
<1> DEFINE buf == server.buf
           got == server.got
           x == FlattenSeq(Plains(uplink))
           limit == Limit
<1>1. /\ limit \in Nat /\ buf \in Seq(Bytes) /\ got \in Nat /\ uplink \in Seq(UpPackets(limit))
      /\ server.nr \in NumberSet
  BY UpTypesParts
<1>2. x \in Seq(Bytes) /\ Pending = Cat(buf, x)
  BY <1>1, PendingType DEF Pending
<1>3. /\ server.at \in {"command", "data"} /\ server.error = "none" /\ Len(buf) >= Header
      /\ UNCHANGED <<compressed, client, uplink, downlink, owed, sending, kind, exchanges>>
  BY DEF ServerTakes
<1> HIDE DEF x, limit
<1>4. /\ IsHeader(buf, 0, Header) /\ buf[1].len = len
      /\ Len(buf) >= Header + len =>
            /\ \A i \in 1..len : SubSeq(buf, Header + 1, Header + len)[i] = BodyByte(got + i)
            /\ SubSeq(buf, Header + len + 1, Len(buf)) \in Seq(Bytes)
            /\ Cat(SubSeq(buf, Header + len + 1, Len(buf)), x) = Cat(FlattenSeq(Tail(rem)), jj)
  <2> HIDE DEF buf, got
  <2>1. Head(rem) = Packet(len, nr, got)
    BY DEF got
  <2>2. Cat(buf, x) = Cat(FlattenSeq(rem), jj)
    BY <1>2
  <2>3. buf \in Seq(Bytes) /\ x \in Seq(Bytes) /\ got \in Nat /\ Len(buf) >= Header
    BY <1>1, <1>2, <1>3
  <2>4. Takes(buf, x, rem, jj, len, got)
    BY <2>1, <2>2, <2>3, TakesPacket
  <2>5. QED
    BY <2>4 DEF Takes
<1> DEFINE rest == SubSeq(buf, Header + len + 1, Len(buf))
           body == SubSeq(buf, Header + 1, Header + len)
<1>5. /\ Len(buf) >= Header + len
      /\ server' = IF \E i \in 1..len : body[i] # BodyByte(got + i)
                     THEN [server EXCEPT !.error = "garbled"]
                     ELSE [server EXCEPT !.buf = rest, !.got = @ + len,
                             !.at = IF len = MaxPayload THEN @
                                    ELSE IF @ = "command" THEN "answer"
                                    ELSE IF server.got + len = 0 THEN "end"
                                    ELSE "data taken"]
  BY <1>4 DEF ServerTakes
<1>6. server' = [server EXCEPT !.buf = rest, !.got = @ + len,
                             !.at = IF len = MaxPayload THEN @
                                    ELSE IF @ = "command" THEN "answer"
                                    ELSE IF server.got + len = 0 THEN "end"
                                    ELSE "data taken"]
  <2>1. ~(\E i \in 1..len : body[i] # BodyByte(got + i))
    BY <1>4, <1>5
  <2>2. QED
    BY <2>1, <1>5, Zenon
<1>7. rest \in Seq(Bytes) /\ Cat(rest, x) = Cat(FlattenSeq(Tail(rem)), jj)
  BY <1>4, <1>5
<1> HIDE DEF rest, body
<1> DEFINE at == IF len = MaxPayload THEN server.at
                 ELSE IF server.at = "command" THEN "answer"
                 ELSE IF server.got + len = 0 THEN "end" ELSE "data taken"
<1>8. server = [at |-> server.at, nr |-> server.nr, buf |-> server.buf, got |-> server.got,
                error |-> server.error]
  BY UpTypesParts
<1>9. /\ server'.at = at /\ server'.nr = server.nr /\ server'.buf = rest
      /\ server'.got = got + len /\ server'.error = "none"
      /\ server' = [at |-> at, nr |-> server.nr, buf |-> rest, got |-> got + len, error |-> "none"]
  BY <1>3, <1>6, <1>8
<1>10. at \in {"command", "answer", "data", "data taken", "end"} /\ got + len \in Nat
  <2>1. len \in Nat
    BY Sizes
  <2>2. got + len \in Nat
    BY <2>1, <1>1
  <2>3. QED
    BY <2>2, <1>3
<1> HIDE DEF at
<1>11. UpTypes'
  <2>1. server' \in [at : {"command", "answer", "data", "data taken", "end"}, nr : NumberSet,
                   buf : Seq(Bytes), got : Nat, error : {"none", "out of order", "too long", "garbled"}]
    BY <1>1, <1>7, <1>9, <1>10
  <2>2. Limit' = Limit
    BY <1>3, SameLimit
  <2>3. QED
    BY <2>1, <2>2, <1>3 DEF UpTypes, client
<1>12. Pending' = Cat(rest, x)
  BY <1>3, <1>9 DEF Pending, x
<1>13. Tail(rem) \in Seq(Seq(Bytes))
  BY FlatFirst
<1>14. QED
  BY <1>7, <1>9, <1>11, <1>12, <1>13 DEF at

(* The server takes a packet: the first half is kept.                      *)
LEMMA ServerServerTakes ==
    ASSUME ServerHalf, ServerTakes
    PROVE  ServerHalf'
<1>1. /\ server.at \in {"command", "data"} /\ server.error = "none" /\ Len(server.buf) >= Header
      /\ UNCHANGED <<compressed, client, uplink, downlink, owed, sending, kind, exchanges>>
  BY DEF ServerTakes
<1>2. UpTypes /\ ServerInv /\ NumbersInv /\ OwedInv /\ DataNumbers
  BY DEF ServerHalf
<1>3. UNCHANGED <<pktnr, recv, queue, last, Latest, Stopped>>
  BY <1>1 DEF client, Latest, Stopped
<1>4. ASSUME server'.nr = server.nr, UpTypes', ServerInv'
      PROVE  ServerHalf'
  <2>1. NumbersInv' /\ OwedInv' /\ DataNumbers'
    BY <1>1, <1>2, <1>3, <1>4 DEF NumbersInv, OwedInv, DataNumbers
  <2>2. QED
    BY <2>1, <1>4 DEF ServerHalf
<1>5. PICK rem \in Seq(Seq(Bytes)), jj \in Seq(Bytes) :
         Pending = Cat(FlattenSeq(rem), jj) /\ IsJunk(jj) /\ Exchange(rem)
  BY <1>1, <1>2 DEF ServerInv
<1>6. ASSUME rem = <<>>, jj = <<>>
      PROVE  FALSE
  <2>1. Pending = <<>>
    BY <1>5, <1>6, FlatEmpty, CatEmpty
  <2>2. server.buf = <<>>
    BY <2>1, <1>2, NothingPending
  <2>3. QED
    BY <2>2, <1>1, Sizes
<1>6a. IsJunk(jj)'
  BY <1>1, <1>5 DEF IsJunk
<1>7. CASE Dead(rem)
  <2>1. Zlib(jj) /\ sending.emptyLast /\ rem = <<>>
    BY <1>5, <1>7 DEF Dead, IsJunk
  <2>2. ~IsHeader(server.buf, 0, Header)
    <3> DEFINE x == FlattenSeq(Plains(uplink))
               buf == server.buf
               limit == Limit
    <3>1. limit \in Nat /\ buf \in Seq(Bytes) /\ uplink \in Seq(UpPackets(limit))
      BY <1>2, UpTypesParts
    <3>2. x \in Seq(Bytes) /\ Pending = Cat(buf, x)
      BY <3>1, PendingType DEF Pending
    <3>3. Cat(buf, x) = Cat(FlattenSeq(<<>>), jj) /\ Len(buf) >= Header
      BY <3>2, <2>1, <1>1, <1>5
    <3> HIDE DEF x, buf
    <3>4. ~IsHeader(buf, 0, Header)
      BY <3>1, <3>2, <3>3, <2>1, JunkIsNoHeader
    <3>5. QED
      BY <3>4 DEF buf
  <2>3. server' = [server EXCEPT !.error = "garbled"]
    BY <2>2 DEF ServerTakes
  <2>4. server'.error = "garbled" /\ server'.at = server.at /\ server'.nr = server.nr
    BY <2>3, <1>2, UpTypesParts
  <2>5. UpTypes'
    <3>1. server' \in [at : {"command", "answer", "data", "data taken", "end"}, nr : NumberSet,
                     buf : Seq(Bytes), got : Nat, error : {"none", "out of order", "too long", "garbled"}]
      BY <2>3, <1>2, UpTypesParts
    <3>2. Limit' = Limit
      BY <1>1, SameLimit
    <3>3. QED
      BY <3>1, <3>2, <1>1, <1>2, <1>3 DEF UpTypes
  <2>6. ServerInv'
    BY <2>1, <2>4, <1>1 DEF ServerInv
  <2>7. QED
    BY <2>4, <2>5, <2>6, <1>4
<1>8. CASE NothingUnderWay(rem)
  BY <1>5, <1>6, <1>8 DEF NothingUnderWay, IsJunk
<1>9. CASE CommandUnderWay(rem)
  <2>1. PICK n \in Commands : \E t \in 0..(n \div MaxPayload) :
          sending.lengths = <<n>> /\ server.got = t * MaxPayload /\ rem = Suffix(n, t)
    BY <1>9 DEF CommandUnderWay
  <2>2. PICK t \in 0..(n \div MaxPayload) :
          sending.lengths = <<n>> /\ server.got = t * MaxPayload /\ rem = Suffix(n, t)
    BY <2>1
  <2> DEFINE q == n \div MaxPayload
             len == PartLength(n, t + 1)
             nr == t % Numbers
  <2>3. n \in Nat /\ t \in Nat /\ t <= q /\ q \in Nat /\ n % MaxPayload \in 0..(MaxPayload - 1)
        /\ n = q * MaxPayload + (n % MaxPayload)
    BY Lengths, Quotient
  <2>4. /\ rem # <<>> /\ len \in 0..MaxPayload /\ nr \in NumberSet /\ Head(rem) = Packet(len, nr, server.got)
        /\ Tail(rem) = Suffix(n, t + 1) /\ Suffix(n, q + 1) = <<>>
    BY <2>2, <2>3, SuffixStep
  <2>5. len = IF t + 1 <= q THEN MaxPayload ELSE n % MaxPayload
    BY DEF PartLength
  <2> HIDE DEF len, nr, q
  <2>6. /\ UpTypes' /\ Pending' = Cat(FlattenSeq(Tail(rem)), jj) /\ Tail(rem) \in Seq(Seq(Bytes))
        /\ server'.error = "none" /\ server'.nr = server.nr /\ server'.got = server.got + len
        /\ server'.at = IF len = MaxPayload THEN server.at
                        ELSE IF server.at = "command" THEN "answer"
                        ELSE IF server.got + len = 0 THEN "end" ELSE "data taken"
    BY <2>4, <1>2, <1>5, TakesNext
  <2>7. server.at = "command" /\ sending.turn = "server"
    BY <1>9 DEF CommandUnderWay
  <2>8. Exchange(Tail(rem))'
    <3>1. CASE t + 1 <= q
      <4>1. len = MaxPayload /\ server'.at = "command"
        BY <3>1, <2>5, <2>6, <2>7
      <4>2. server'.got = (t + 1) * MaxPayload
        <5>1. (t + 1) * MaxPayload = t * MaxPayload + MaxPayload
          BY <2>3, Sizes, Times
        <5>2. QED
          BY <5>1, <4>1, <2>2, <2>6
      <4>3. t + 1 \in 0..(n \div MaxPayload)
        BY <3>1, <2>3 DEF q
      <4>4. CommandUnderWay(Tail(rem))'
        BY <4>1, <4>2, <4>3, <2>2, <2>4, <2>7, <1>1 DEF CommandUnderWay
      <4>5. QED
        BY <4>4 DEF Exchange
    <3>2. CASE ~(t + 1 <= q)
      <4>1. t = q /\ len = n % MaxPayload
        BY <3>2, <2>3, <2>5
      <4>2. len # MaxPayload
        BY <4>1, <2>3, Sizes
      <4>3. server'.at = "answer"
        BY <4>2, <2>6, <2>7
      <4>4. server'.got = n
        BY <4>1, <2>2, <2>3, <2>6
      <4>5. Tail(rem) = <<>>
        BY <4>1, <2>4
      <4>6. CommandTaken(Tail(rem))'
        BY <4>3, <4>4, <4>5, <2>2, <2>7, <1>1 DEF CommandTaken
      <4>7. QED
        BY <4>6 DEF Exchange
    <3>3. QED
      BY <3>1, <3>2
  <2>9. ServerInv'
    BY <2>6, <2>8, <1>6a DEF ServerInv
  <2>10. QED
    BY <2>6, <2>9, <1>4
<1>10. CASE DataUnderWay(rem)
  <2> DEFINE l == sending.lengths
  <2>1. /\ server.at = "data" /\ ~sending.emptyLast /\ DataSent /\ server.got = 0
        /\ Len(rem) = Len(l) /\ \A k \in 1..Len(l) : \E nr \in NumberSet : rem[k] = Packet(l[k], nr, 0)
    BY <1>10 DEF DataUnderWay, DataPackets
  <2>2. jj = <<>> /\ rem # <<>>
    BY <2>1, <1>5, <1>6 DEF IsJunk
  <2>3. l \in Seq(Nat)
    BY <1>2, UpTypesParts
  <2>4. /\ Len(Tail(rem)) = Len(rem) - 1 /\ Len(rem) \in Nat /\ Len(rem) >= 1 /\ Head(rem) = rem[1]
        /\ \A k \in 1..(Len(rem) - 1) : Tail(rem)[k] = rem[k + 1]
    BY <2>2, TailShape
  <2>5. l # <<>>
    BY <2>1, <2>3, <2>4
  <2>6. /\ Len(Tail(l)) = Len(l) - 1 /\ Len(l) \in Nat /\ Head(l) = l[1] /\ Head(l) \in Nat
        /\ \A k \in 1..(Len(l) - 1) : Tail(l)[k] = l[k + 1]
    BY <2>3, <2>5, TailShape
  <2> DEFINE len == Head(l)
  <2>7. (len = 0 => sending.turn = "server" /\ l = <<0>>) /\ (len # 0 => len \in Data)
    <3>1. CASE sending.turn = "data"
      <4>1. l \in Seq(Data)
        BY <3>1, <2>1 DEF DataSent
      <4>2. len \in Data
        BY <4>1, <2>5
      <4>3. QED
        BY <4>2, Lengths
    <3>2. CASE sending.turn = "server"
      <4>1. PICK d \in Seq(Data) : l = Append(d, 0)
        BY <3>2, <2>1 DEF DataSent
      <4>2. d = <<>> => l = <<0>>
        BY <4>1
      <4>3. d # <<>> => len = Head(d) /\ Head(d) \in Data
        <5> HAVE d # <<>>
        <5>1. d \in Seq(Nat) /\ 0 \in Nat
          BY Lengths, LargerSeq
        <5>2. Head(Append(d, 0)) = Head(d)
          BY <5>1, Appended
        <5>3. QED
          BY <5>2, <4>1
      <4>4. d = <<>> => len = 0
        BY <4>2
      <4>5. QED
        BY <3>2, <4>2, <4>3, <4>4, Lengths
    <3>3. QED
      BY <3>1, <3>2, <2>1 DEF DataSent
  <2> HIDE DEF len, l
  <2>8. len \in 0..MaxPayload /\ len # MaxPayload /\ len \in Nat
    <3>1. len \in Data \cup {0}
      BY <2>7
    <3>2. len \in Nat /\ len < MaxPayload /\ len # MaxPayload
      BY <3>1, Lengths, Zenon
    <3>3. QED
      BY <3>2, Sizes
  <2>9. PICK nr \in NumberSet : Head(rem) = Packet(len, nr, server.got)
    <3>1. 1 \in 1..Len(l)
      BY <2>1, <2>4
    <3>2. \E nr \in NumberSet : rem[1] = Packet(l[1], nr, 0)
      BY <3>1, <2>1
    <3>3. QED
      BY <3>2, <2>1, <2>4, <2>6 DEF len
  <2>10. /\ UpTypes' /\ Pending' = Cat(FlattenSeq(Tail(rem)), jj) /\ Tail(rem) \in Seq(Seq(Bytes))
        /\ server'.error = "none" /\ server'.nr = server.nr /\ server'.got = server.got + len
        /\ server'.at = IF len = MaxPayload THEN server.at
                        ELSE IF server.at = "command" THEN "answer"
                        ELSE IF server.got + len = 0 THEN "end" ELSE "data taken"
    BY <2>2, <2>8, <2>9, <1>2, <1>5, TakesNext
  <2>11. server'.got = len /\ server'.at = IF len = 0 THEN "end" ELSE "data taken"
    <3>1. server.got + len = len
      BY <2>1, <2>8
    <3>2. QED
      BY <3>1, <2>1, <2>8, <2>10
  <2>12. Exchange(Tail(rem))'
    <3>1. CASE len = 0
      <4>1. l = <<0>> /\ sending.turn = "server"
        BY <3>1, <2>7
      <4>2. Len(l) = 1
        BY <4>1
      <4>3. Len(Tail(rem)) = 0
        BY <4>2, <2>1, <2>4
      <4>4. Tail(rem) = <<>>
        <5> DEFINE r == Tail(rem)
        <5>1. r \in Seq(Seq(Bytes)) /\ Len(r) = 0
          BY <4>3, <2>10
        <5> HIDE DEF r
        <5>2. r = <<>>
          BY <5>1
        <5>3. QED
          BY <5>2 DEF r
      <4>5. AllTaken(Tail(rem))'
        BY <3>1, <4>1, <4>4, <2>1, <2>11, <1>1 DEF AllTaken, l
      <4>6. QED
        BY <4>5 DEF Exchange
    <3>2. CASE len # 0
      <4>1. DataPackets(Tail(rem), Tail(l))
        <5>1. Len(Tail(rem)) = Len(Tail(l))
          BY <2>1, <2>4, <2>6
        <5>2. ASSUME NEW k \in 1..Len(Tail(l))
              PROVE  \E nn \in NumberSet : Tail(rem)[k] = Packet(Tail(l)[k], nn, 0)
          <6>1. k \in 1..(Len(l) - 1) /\ k + 1 \in 1..Len(l)
            BY <2>6
          <6>2. \E nn \in NumberSet : rem[k + 1] = Packet(l[k + 1], nn, 0)
            BY <6>1, <2>1
          <6>3. QED
            BY <6>1, <6>2, <2>1, <2>4, <2>6
        <5>3. QED
          BY <5>1, <5>2 DEF DataPackets
      <4>2. DataTaken(Tail(rem))'
        BY <3>2, <4>1, <2>1, <2>5, <2>11, <1>1 DEF DataTaken, DataSent, l, len
      <4>3. QED
        BY <4>2 DEF Exchange
    <3>3. QED
      BY <3>1, <3>2
  <2>13. ServerInv'
    BY <2>10, <2>12, <1>6a DEF ServerInv
  <2>14. QED
    BY <2>10, <2>13, <1>4
<1>11. QED
  BY <1>1, <1>5, <1>7, <1>8, <1>9, <1>10 DEF Exchange, CommandTaken, DataTaken, AllTaken

(* The server stores a chunk: the first half is kept.                      *)
LEMMA ServerServerStores ==
    ASSUME ServerHalf, ServerStores
    PROVE  ServerHalf'
<1>1. /\ server.at = "data taken"
      /\ server' = [server EXCEPT !.at = "data", !.got = 0]
      /\ sending' = [sending EXCEPT !.lengths = Tail(@)]
      /\ UNCHANGED <<compressed, client, uplink, downlink, owed, kind, exchanges>>
  BY DEF ServerStores
<1>2. UpTypes /\ ServerInv /\ NumbersInv /\ OwedInv /\ DataNumbers
  BY DEF ServerHalf
<1>3. UNCHANGED <<pktnr, recv, queue, last, Latest, Stopped>>
  BY <1>1 DEF client, Latest, Stopped
<1>4. /\ server.nr \in NumberSet /\ server.buf \in Seq(Bytes)
      /\ server = [at |-> server.at, nr |-> server.nr, buf |-> server.buf, got |-> server.got,
                   error |-> server.error]
      /\ sending.turn \in {"command", "server", "data"} /\ sending.lengths \in Seq(Nat)
      /\ sending.emptyLast \in BOOLEAN
      /\ sending = [turn |-> sending.turn, lengths |-> sending.lengths, emptyLast |-> sending.emptyLast]
      /\ server.error \in {"none", "out of order", "too long", "garbled"}
  BY <1>2, UpTypesParts
<1>5. server.error = "none"
  BY <1>1, <1>2 DEF ServerInv
<1>6. PICK rem \in Seq(Seq(Bytes)), jj \in Seq(Bytes) :
         Pending = Cat(FlattenSeq(rem), jj) /\ IsJunk(jj) /\ Exchange(rem)
  BY <1>2, <1>5 DEF ServerInv
<1>7. DataTaken(rem)
  BY <1>1, <1>6 DEF Exchange, Dead, CommandUnderWay, NothingUnderWay, CommandTaken, DataUnderWay, AllTaken
<1> DEFINE l == sending.lengths
<1>8. l # <<>> /\ ~sending.emptyLast /\ DataSent /\ server.got # 0 /\ server.got = Head(l)
      /\ DataPackets(rem, Tail(l))
  BY <1>7 DEF DataTaken
<1>9. Tail(l) \in Seq(Nat)
  BY <1>4, <1>8, TailShape
<1>10. /\ server' = [at |-> "data", nr |-> server.nr, buf |-> server.buf, got |-> 0, error |-> server.error]
       /\ sending' = [turn |-> sending.turn, lengths |-> Tail(l), emptyLast |-> sending.emptyLast]
  BY <1>1, <1>4
<1>11. server'.nr = server.nr /\ server'.at = "data" /\ server'.got = 0 /\ server'.buf = server.buf
       /\ server'.error = "none" /\ sending'.turn = sending.turn /\ sending'.lengths = Tail(l)
       /\ sending'.emptyLast = sending.emptyLast
  BY <1>5, <1>10
<1>12. DataSent'
  <2>1. CASE sending.turn = "data"
    <3>1. l \in Seq(Data)
      BY <2>1, <1>8 DEF DataSent
    <3>2. Tail(l) \in Seq(Data)
      BY <3>1, <1>8, TailShape
    <3>3. QED
      BY <2>1, <3>2, <1>11 DEF DataSent
  <2>2. CASE sending.turn = "server"
    <3>1. PICK d \in Seq(Data) : l = Append(d, 0)
      BY <2>2, <1>8 DEF DataSent
    <3>2. d # <<>>
      <4> SUFFICES ASSUME d = <<>> PROVE FALSE
        OBVIOUS
      <4>1. l = <<0>>
        BY <3>1
      <4>2. Head(l) = 0
        BY <4>1
      <4>3. QED
        BY <4>2, <1>8
    <3>3. Tail(Append(d, 0)) = Append(Tail(d), 0)
      <4>1. d \in Seq(Nat) /\ 0 \in Nat
        BY Lengths, LargerSeq
      <4>2. QED
        BY <4>1, <3>2, Appended
    <3>4. Tail(d) \in Seq(Data)
      BY <3>2, TailShape
    <3>5. Tail(l) = Append(Tail(d), 0)
      BY <3>1, <3>3
    <3>6. QED
      BY <2>2, <3>4, <3>5, <1>11 DEF DataSent
  <2>3. QED
    BY <2>1, <2>2, <1>8 DEF DataSent
<1> HIDE DEF l
<1>13. UpTypes'
  <2>1. /\ server' \in [at : {"command", "answer", "data", "data taken", "end"}, nr : NumberSet,
                   buf : Seq(Bytes), got : Nat, error : {"none", "out of order", "too long", "garbled"}]
        /\ sending' \in [turn : {"command", "server", "data"}, lengths : Seq(Nat), emptyLast : BOOLEAN]
    BY <1>4, <1>9, <1>10
  <2>2. Limit' = Limit
    BY <1>1, SameLimit
  <2>3. QED
    BY <2>1, <2>2, <1>1, <1>2, <1>3 DEF UpTypes
<1>14. ServerInv'
  <2>1. Pending' = Pending
    BY <1>1, <1>11 DEF Pending
  <2>2. IsJunk(jj)'
    BY <1>6, <1>11 DEF IsJunk
  <2>3. DataUnderWay(rem)'
    BY <1>8, <1>11, <1>12 DEF DataUnderWay
  <2>4. QED
    BY <2>1, <2>2, <2>3, <1>6, <1>11 DEF ServerInv, Exchange
<1>15. NumbersInv' /\ OwedInv' /\ DataNumbers'
  BY <1>1, <1>2, <1>3, <1>11 DEF NumbersInv, OwedInv, DataNumbers
<1>16. QED
  BY <1>13, <1>14, <1>15 DEF ServerHalf

(* What is known of every sequence.                                        *)
LEMMA SeqShape ==
    ASSUME NEW X, NEW s \in Seq(X)
    PROVE  Len(s) \in Nat /\ DOMAIN s = 1..Len(s) /\ (s # <<>> <=> Len(s) # 0) /\ \A k \in 1..Len(s) : s[k] \in X
  OBVIOUS

(* Two sequences that are nothing together are nothing each.               *)
LEMMA CatNothing ==
    ASSUME NEW X, NEW a \in Seq(X), NEW b \in Seq(X), Cat(a, b) = <<>>
    PROVE  Len(a) = 0
<1> DEFINE m == Len(a)
           n == Len(b)
<1>1. m \in Nat /\ n \in Nat
  OBVIOUS
<1>2. Len(Cat(a, b)) = m + n
  BY CatType
<1>3. Len(Cat(a, b)) = 0
  OBVIOUS
<1> HIDE DEF m, n
<1>4. m = 0
  BY <1>1, <1>2, <1>3
<1>5. QED
  BY <1>4 DEF m

(* A chunk of data, or the end of it, fits into a packet.                  *)
LEMMA DataLengths ==
    ASSUME NEW n \in Data \cup {0}
    PROVE  n \in 0..MaxPayload
<1>1. n \in Nat /\ n < MaxPayload
  BY Lengths
<1>2. QED
  BY <1>1, Sizes

(* The data and the end of it.                                             *)
LEMMA ZeroAppended ==
    ASSUME NEW d \in Seq(Data)
    PROVE  Append(d, 0) \in Seq(Data \cup {0}) /\ Append(d, 0) # <<>>
<1> DEFINE X == Data \cup {0}
<1>1. d \in Seq(X)
  BY LargerSeq
<1>2. 0 \in X
  OBVIOUS
<1> HIDE DEF X
<1>3. Append(d, 0) \in Seq(X) /\ Append(d, 0) # <<>>
  BY <1>1, <1>2, Appended
<1>4. QED
  BY <1>3 DEF X

(* A packet is not empty.                                                  *)
LEMMA PacketIsLong ==
    ASSUME NEW p, NEW len \in 0..MaxPayload, NEW nr \in NumberSet, NEW from \in Nat, p = Packet(len, nr, from)
    PROVE  Len(p) # 0
<1>1. Len(p) = Header + len
  BY PacketShape
<1>2. Header + len # 0
  BY Sizes
<1>3. QED
  BY <1>1, <1>2

(* What the server answers: packets before the next command, or one packet *)
(* that asks for data.                                                     *)
LEMMA AnswerShape ==
    ASSUME ServerAnswers
    PROVE  \E lengths, next :
              /\ ServerSends(lengths, next) /\ lengths \in Seq(0..MaxPayload) /\ lengths # <<>>
              /\ next \in {"command", "data"} /\ (next = "data" => lengths = <<1>>)
<1>1. CASE \E lengths \in Replies : ServerSends(lengths, "command")
  BY <1>1, PacketsAssumption
<1>2. CASE ServerSends(<<1>>, "data")
  <2>1. 1 \in 0..MaxPayload
    BY Sizes
  <2>2. <<1>> \in Seq(0..MaxPayload) /\ <<1>> # <<>>
    BY <2>1
  <2>3. QED
    BY <2>2, <1>2
<1>3. QED
  BY <1>1, <1>2 DEF ServerAnswers

(* How the server may cut its bytes.                                       *)
LEMMA CuttingShape ==
    ASSUME NEW n \in Nat, NEW cuts \in Cuttings(n)
    PROVE  \E k \in 1..MaxPieces :
              /\ k \in Nat /\ cuts \in Seq(1..n) /\ Len(cuts) = k /\ DOMAIN cuts = 1..k
              /\ cuts[k] = n /\ \A j \in 1..(k - 1) : cuts[j] < cuts[j + 1]
<1>1. PICK k \in 1..MaxPieces : cuts \in [1..k -> 1..n] /\ cuts[k] = n
                                /\ \A j \in 1..(k - 1) : cuts[j] < cuts[j + 1]
  BY DEF Cuttings
<1>2. k \in Nat
  BY PacketsAssumption
<1>3. cuts \in Seq(1..n) /\ Len(cuts) = k /\ DOMAIN cuts = 1..k
  BY <1>1, <1>2, FunctionIsSequence
<1>4. QED
  BY <1>1, <1>2, <1>3

(* The packets of an answer, as ServerSends makes them.                    *)
AnswerOf(lengths, nr) == [k \in DOMAIN lengths |-> Packet(lengths[k], (nr + k - 1) % Numbers, 0)]

(* Their types and lengths.                                                *)
LEMMA AnswerPackets ==
    ASSUME NEW lengths \in Seq(0..MaxPayload), lengths # <<>>, NEW nr \in Nat,
           NEW packets, packets = AnswerOf(lengths, nr)
    PROVE  /\ packets \in Seq(Seq(PlainBytes)) /\ packets \in Seq(Seq(Bytes)) /\ Len(packets) = Len(lengths)
           /\ packets # <<>> /\ FlattenSeq(packets) \in Seq(PlainBytes)
           /\ \A k \in 1..Len(packets) :
                 /\ lengths[k] \in 0..MaxPayload /\ (nr + k - 1) % Numbers \in NumberSet
                 /\ packets[k] = Packet(lengths[k], (nr + k - 1) % Numbers, 0)
<1> DEFINE K == Len(lengths)
           f(k) == Packet(lengths[k], (nr + k - 1) % Numbers, 0)
<1>1. K \in Nat /\ DOMAIN lengths = 1..K /\ K # 0 /\ \A k \in 1..K : lengths[k] \in 0..MaxPayload
  BY SeqShape
<1>2. packets = [k \in 1..K |-> f(k)]
  BY <1>1 DEF AnswerOf
<1> HIDE DEF K
<1>3. ASSUME NEW k \in 1..K
      PROVE  lengths[k] \in 0..MaxPayload /\ (nr + k - 1) % Numbers \in NumberSet /\ f(k) \in Seq(PlainBytes)
             /\ f(k) \in Seq(Bytes)
  <2>1. lengths[k] \in 0..MaxPayload
    BY <1>1, Sizes
  <2>2. nr + k - 1 \in Nat
    BY <1>1
  <2>3. (nr + k - 1) % Numbers \in NumberSet
    BY <2>2, NumberIsNumber
  <2>4. QED
    BY <2>1, <2>3, PacketShape
<1>4. packets \in [1..K -> Seq(PlainBytes)] /\ packets \in [1..K -> Seq(Bytes)]
  <2>1. \A k \in 1..K : f(k) \in Seq(PlainBytes) /\ f(k) \in Seq(Bytes)
    BY <1>3
  <2> HIDE DEF f
  <2>2. QED
    BY <2>1, <1>2
<1>5. packets \in Seq(Seq(PlainBytes)) /\ packets \in Seq(Seq(Bytes)) /\ Len(packets) = K
  BY <1>1, <1>4, FunctionIsSequence
<1>6. \A k \in 1..K : packets[k] = f(k)
  <2> HIDE DEF f
  <2> QED
    BY <1>2
<1>7. packets # <<>>
  BY <1>1, <1>5
<1>8. FlattenSeq(packets) \in Seq(PlainBytes)
  BY <1>5, FlatType
<1>9. QED
  BY <1>1, <1>3, <1>5, <1>6, <1>7, <1>8 DEF K

(* What an answer changes for the server.                                  *)
LEMMA ServerSendsShape ==
    ASSUME UpTypes, NEW lengths \in Seq(0..MaxPayload), lengths # <<>>, NEW next, ServerSends(lengths, next)
    PROVE  \E number \in NumberSet, hard \in BOOLEAN :
              /\ server' = [at |-> next, nr |-> IF next = "command" THEN 0 ELSE number, buf |-> server.buf,
                            got |-> 0, error |-> server.error]
              /\ sending' = [turn |-> next, lengths |-> Tail(sending.lengths), emptyLast |-> sending.emptyLast]
              /\ kind' = [kind EXCEPT !.hard = hard]
              /\ owed' # <<>>
              /\ UNCHANGED <<compressed, client, uplink, exchanges>>
<1> DEFINE packets == [k \in DOMAIN lengths |-> Packet(lengths[k], (server.nr + k - 1) % Numbers, 0)]
           s == FlattenSeq(packets)
           ends == [k \in DOMAIN lengths |-> Len(FlattenSeq(SubSeq(packets, 1, k)))]
           starts == [k \in DOMAIN lengths |-> ends[k] - Header - lengths[k] + 1]
           After(number) == [server EXCEPT !.at = next, !.got = 0,
                                            !.nr = IF next = "command" THEN 0 ELSE number]
<1>1. /\ owed' = packets
      /\ sending' = [sending EXCEPT !.turn = next, !.lengths = Tail(@)]
      /\ UNCHANGED <<compressed, client, uplink, exchanges>>
  BY DEF ServerSends
<1>2. /\ server.nr \in NumberSet /\ server.nr \in Nat
      /\ server = [at |-> server.at, nr |-> server.nr, buf |-> server.buf, got |-> server.got,
                   error |-> server.error]
      /\ sending = [turn |-> sending.turn, lengths |-> sending.lengths, emptyLast |-> sending.emptyLast]
      /\ kind \in [hard : BOOLEAN, torn : BOOLEAN]
  <2>1. server.nr \in NumberSet
    BY UpTypesParts
  <2>2. server.nr \in Nat
    BY <2>1 DEF NumberSet
  <2>3. QED
    BY <2>1, <2>2, UpTypesParts
<1>3. packets # <<>> /\ s \in Seq(PlainBytes)
  <2>1. PICK p : p = packets /\ p = AnswerOf(lengths, server.nr)
    BY DEF AnswerOf
  <2>2. p # <<>> /\ FlattenSeq(p) \in Seq(PlainBytes)
    BY <2>1, <1>2, AnswerPackets
  <2>3. QED
    BY <2>1, <2>2
<1>4. \E number \in NumberSet, hard \in BOOLEAN : server' = After(number) /\ kind' = [kind EXCEPT !.hard = hard]
  <2>1. CASE ~compressed
    <3>1. server' = After((server.nr + Len(lengths)) % Numbers) /\ kind' = kind
      BY <2>1 DEF ServerSends
    <3>2. (server.nr + Len(lengths)) % Numbers \in NumberSet
      BY <1>2, NumberIsNumber
    <3>3. kind.hard \in BOOLEAN /\ kind' = [kind EXCEPT !.hard = kind.hard]
      BY <3>1, <1>2
    <3>4. QED
      BY <3>1, <3>2, <3>3
  <2>2. CASE compressed
    <3>1. PICK cuts \in Cuttings(Len(s)) :
            /\ server' = After((server.nr + Len(Pieces(s, cuts))) % Numbers)
            /\ kind' = [kind EXCEPT !.hard = @ \/ Hard(cuts, starts, ends)]
      BY <2>2 DEF ServerSends
    <3>2. (server.nr + Len(Pieces(s, cuts))) % Numbers \in NumberSet
      <4> DEFINE n == Len(s)
      <4>1. n \in Nat
        BY <1>3
      <4> HIDE DEF n, s
      <4>2. PICK k \in 1..MaxPieces : k \in Nat /\ DOMAIN cuts = 1..k
        BY <3>1, <4>1, CuttingShape DEF n
      <4>3. Len(Pieces(s, cuts)) = k
        BY <4>2 DEF Pieces
      <4>4. QED
        BY <4>2, <4>3, <1>2, NumberIsNumber
    <3> DEFINE h == (kind.hard \/ Hard(cuts, starts, ends))
    <3>3. h \in BOOLEAN
      OBVIOUS
    <3>4. kind' = [kind EXCEPT !.hard = h]
      BY <3>1
    <3> HIDE DEF h
    <3>5. QED
      BY <3>1, <3>2, <3>3, <3>4
  <2>3. QED
    BY <2>1, <2>2
<1>5. \A number \in NumberSet : After(number) = [at |-> next, nr |-> IF next = "command" THEN 0 ELSE number,
                            buf |-> server.buf, got |-> 0, error |-> server.error]
  <2> TAKE number \in NumberSet
  <2> DEFINE v == IF next = "command" THEN 0 ELSE number
  <2>1. After(number) = [server EXCEPT !.at = next, !.got = 0, !.nr = v]
    OBVIOUS
  <2> HIDE DEF v, After
  <2>2. After(number) = [at |-> next, nr |-> v, buf |-> server.buf, got |-> 0, error |-> server.error]
    BY <2>1, <1>2
  <2>3. QED
    BY <2>2 DEF v
<1>6. sending' = [turn |-> next, lengths |-> Tail(sending.lengths), emptyLast |-> sending.emptyLast]
  BY <1>1, <1>2
<1> HIDE DEF After
<1>7. QED
  BY <1>1, <1>3, <1>4, <1>5, <1>6

(* The server answers when it has taken all that was sent.                 *)
LEMMA AnswerTime ==
    ASSUME ServerHalf, server.at \in {"answer", "end"}, server.error = "none"
    PROVE  \E jj \in Seq(Bytes) :
              /\ Pending = Cat(FlattenSeq(<<>>), jj) /\ IsJunk(jj) /\ sending.turn = "server"
              /\ sending.lengths = <<server.got>> /\ Tail(sending.lengths) = <<>>
              /\ ~sending.emptyLast => uplink = <<>> /\ server.buf = <<>>
<1>1. PICK rem \in Seq(Seq(Bytes)), jj \in Seq(Bytes) :
         Pending = Cat(FlattenSeq(rem), jj) /\ IsJunk(jj) /\ Exchange(rem)
  BY DEF ServerHalf, ServerInv
<1>2. CommandTaken(rem) \/ AllTaken(rem)
  BY <1>1 DEF Exchange, Dead, CommandUnderWay, NothingUnderWay, DataUnderWay, DataTaken
<1>3. rem = <<>> /\ sending.turn = "server" /\ sending.lengths = <<server.got>>
  BY <1>2 DEF CommandTaken, AllTaken
<1>4. Tail(sending.lengths) = <<>>
  BY <1>3
<1>5. ASSUME ~sending.emptyLast
      PROVE  uplink = <<>> /\ server.buf = <<>>
  <2>1. jj = <<>>
    BY <1>1, <1>5 DEF IsJunk
  <2>2. Pending = <<>>
    BY <2>1, <1>1, <1>3, FlatEmpty, CatEmpty
  <2>3. QED
    BY <2>2, NothingPending DEF ServerHalf
<1>6. QED
  BY <1>1, <1>3, <1>4, <1>5

(* The server answers: the first half is kept.                             *)
LEMMA ServerServerAnswers ==
    ASSUME ServerHalf, ServerAnswers
    PROVE  ServerHalf'
<1>1. UpTypes /\ ServerInv /\ NumbersInv /\ OwedInv /\ DataNumbers
  BY DEF ServerHalf
<1>2. server.at \in {"answer", "end"} /\ server.error = "none"
  BY DEF ServerAnswers
<1>3. PICK lengths, next :
         /\ ServerSends(lengths, next) /\ lengths \in Seq(0..MaxPayload) /\ lengths # <<>>
         /\ next \in {"command", "data"}
  BY AnswerShape
<1>4. PICK number \in NumberSet, hard \in BOOLEAN :
              /\ server' = [at |-> next, nr |-> IF next = "command" THEN 0 ELSE number, buf |-> server.buf,
                            got |-> 0, error |-> server.error]
              /\ sending' = [turn |-> next, lengths |-> Tail(sending.lengths), emptyLast |-> sending.emptyLast]
              /\ kind' = [kind EXCEPT !.hard = hard]
              /\ owed' # <<>>
              /\ UNCHANGED <<compressed, client, uplink, exchanges>>
  BY <1>1, <1>3, ServerSendsShape
<1>5. PICK jj \in Seq(Bytes) :
              /\ Pending = Cat(FlattenSeq(<<>>), jj) /\ IsJunk(jj) /\ sending.turn = "server"
              /\ sending.lengths = <<server.got>> /\ Tail(sending.lengths) = <<>>
              /\ ~sending.emptyLast => uplink = <<>> /\ server.buf = <<>>
  BY <1>2, AnswerTime
<1>6. UNCHANGED <<pktnr, recv, queue, last, Latest>>
  BY <1>4 DEF client, Latest
<1>7. /\ server'.at = next /\ server'.nr = (IF next = "command" THEN 0 ELSE number) /\ server'.got = 0
      /\ server'.buf = server.buf /\ server'.error = "none"
      /\ sending'.turn = next /\ sending'.lengths = <<>> /\ sending'.emptyLast = sending.emptyLast
  BY <1>2, <1>4, <1>5
<1>8. UpTypes'
  <2>1. server' \in [at : {"command", "answer", "data", "data taken", "end"}, nr : NumberSet,
                   buf : Seq(Bytes), got : Nat, error : {"none", "out of order", "too long", "garbled"}]
    <3>1. server.buf \in Seq(Bytes) /\ 0 \in NumberSet
      BY <1>1, UpTypesParts, Sizes
    <3>2. QED
      BY <3>1, <1>2, <1>3, <1>4
  <2>2. sending' \in [turn : {"command", "server", "data"}, lengths : Seq(Nat), emptyLast : BOOLEAN]
    <3>1. sending.emptyLast \in BOOLEAN
      BY <1>1, UpTypesParts
    <3>1a. <<>> \in Seq(Nat)
      OBVIOUS
    <3>2. QED
      BY <3>1, <3>1a, <1>3, <1>4, <1>5
  <2>3. kind' \in [hard : BOOLEAN, torn : BOOLEAN]
    <3>1. kind \in [hard : BOOLEAN, torn : BOOLEAN]
      BY <1>1, UpTypesParts
    <3>2. QED
      BY <3>1, <1>4
  <2>4. Limit' = Limit
    BY <1>4, SameLimit
  <2>5. QED
    BY <2>1, <2>2, <2>3, <2>4, <1>1, <1>4, <1>6 DEF UpTypes
<1>9. ServerInv'
  <2>1. Pending' = Pending
    BY <1>4, <1>7 DEF Pending
  <2>2. IsJunk(jj)'
    BY <1>5, <1>7 DEF IsJunk
  <2>3. <<>> \in Seq(Seq(Bytes))
    OBVIOUS
  <2>4. Exchange(<<>>)'
    <3>1. CASE sending.emptyLast
      BY <3>1, <1>3, <1>7 DEF Exchange, Dead
    <3>2. CASE ~sending.emptyLast /\ next = "command"
      BY <3>2, <1>7 DEF Exchange, NothingUnderWay
    <3>3. CASE ~sending.emptyLast /\ next = "data"
      <4>1. <<>> \in Seq(Data)
        OBVIOUS
      <4>2. DataSent'
        BY <3>3, <4>1, <1>7 DEF DataSent
      <4>3. DataPackets(<<>>, <<>>)
        BY DEF DataPackets
      <4>4. QED
        BY <3>3, <4>2, <4>3, <1>7 DEF Exchange, DataUnderWay
    <3>4. QED
      BY <3>1, <3>2, <3>3, <1>3
  <2>5. QED
    BY <2>1, <2>2, <2>3, <2>4, <1>5, <1>7 DEF ServerInv
<1>10. ~sending'.emptyLast => uplink' = <<>>
  BY <1>4, <1>5, <1>7
<1>11. NumbersInv' /\ OwedInv' /\ DataNumbers'
  BY <1>4, <1>10, EmptyChained DEF NumbersInv, OwedInv, DataNumbers
<1>12. QED
  BY <1>8, <1>9, <1>11 DEF ServerHalf

(* A step of recv() keeps the first half.                                  *)
LEMMA ServerClientStep ==
    ASSUME ServerHalf, UNCHANGED <<compressed, uplink, server, sending, exchanges>>,
           pktnr' \in [plain : NumberSet, outer : NumberSet], kind' \in [hard : BOOLEAN, torn : BOOLEAN],
           owed = <<>> => pktnr' = pktnr, owed' # <<>> => owed # <<>>,
           recv'.at # "idle" => owed' # <<>>, DataNumbers'
    PROVE  ServerHalf'
<1>1. UpTypes /\ ServerInv /\ NumbersInv /\ OwedInv
  BY DEF ServerHalf
<1>2. Limit' = Limit
  BY SameLimit
<1>3. UpTypes'
  BY <1>1, <1>2 DEF UpTypes
<1>4. ServerInv'
  BY <1>1 DEF ServerInv, Pending, IsJunk, Exchange, Dead, CommandUnderWay, NothingUnderWay, CommandTaken, DataUnderWay,
              DataTaken, AllTaken, DataSent
<1>5. NumbersInv'
  <2>1. CASE owed = <<>>
    <3>1. Latest' = Latest
      BY <2>1 DEF Latest
    <3>2. QED
      BY <3>1, <1>1 DEF NumbersInv
  <2>2. CASE owed # <<>>
    BY <2>2, <1>1, EmptyChained DEF NumbersInv, OwedInv
  <2>3. QED
    BY <2>1, <2>2
<1>6. OwedInv'
  BY <1>1 DEF OwedInv
<1>7. QED
  BY <1>3, <1>4, <1>5, <1>6 DEF ServerHalf

(* The first half holds at the start.                                      *)
LEMMA ServerInit ==
    ASSUME Init
    PROVE  ServerHalf
<1>1. UpTypes
  <2>1. server \in [at : {"command", "answer", "data", "data taken", "end"}, nr : NumberSet,
                   buf : Seq(Bytes), got : Nat, error : {"none", "out of order", "too long", "garbled"}]
    BY Sizes DEF Init
  <2>2. sending \in [turn : {"command", "server", "data"}, lengths : Seq(Nat), emptyLast : BOOLEAN]
    BY DEF Init
  <2>3. pktnr \in [plain : NumberSet, outer : NumberSet]
    BY Sizes DEF Init
  <2>4. uplink \in Seq(UpPackets(Limit))
    BY DEF Init
  <2>5. exchanges \in 0..MaxExchanges
    BY Lengths DEF Init
  <2>6. QED
    BY <2>1, <2>2, <2>3, <2>4, <2>5 DEF Init, UpTypes
<1>2. ServerInv
  <2>1. Plains(<<>>) = <<>>
    BY DEF Plains
  <2>2. Pending = <<>>
    BY <2>1, FlatEmpty DEF Pending, Cat, Init
  <2>3. Pending = Cat(FlattenSeq(<<>>), <<>>)
    BY <2>2, FlatEmpty DEF Cat
  <2>4. Exchange(<<>>) /\ IsJunk(<<>>)
    BY DEF Exchange, NothingUnderWay, IsJunk, Init
  <2>5. <<>> \in Seq(Seq(Bytes)) /\ <<>> \in Seq(Bytes) /\ server.error = "none"
    BY DEF Init
  <2>6. QED
    BY <2>3, <2>4, <2>5 DEF ServerInv
<1>3. NumbersInv /\ OwedInv /\ DataNumbers
  BY EmptyChained DEF Init, NumbersInv, OwedInv, DataNumbers, NoRecv
<1>4. QED
  BY <1>1, <1>2, <1>3 DEF ServerHalf

(* The first half implies ServerGetsAll.                                   *)
LEMMA ServerGets ==
    ASSUME ServerHalf
    PROVE  ServerGetsAll
<1> SUFFICES ASSUME ~sending.emptyLast
             PROVE  /\ server.error = "none"
                    /\ server.at \in {"answer", "end", "data taken"} => server.got = Head(sending.lengths)
                    /\ server.at \in {"answer", "end"} =>
                          uplink = <<>> /\ server.buf = <<>> /\ Len(sending.lengths) = 1
                    /\ sending.turn = "server" /\ uplink = <<>> /\ server.buf = <<>> =>
                          server.at \in {"answer", "end"}
  BY DEF ServerGetsAll
<1>1. UpTypes /\ server.error = "none"
  BY DEF ServerHalf, ServerInv
<1>2. PICK rem \in Seq(Seq(Bytes)), jj \in Seq(Bytes) :
         Pending = Cat(FlattenSeq(rem), jj) /\ IsJunk(jj) /\ Exchange(rem)
  BY <1>1 DEF ServerHalf, ServerInv
<1>3. server.at \in {"answer", "end"} =>
          sending.lengths = <<server.got>> /\ uplink = <<>> /\ server.buf = <<>>
  BY <1>1, AnswerTime
<1>4. server.at = "data taken" => server.got = Head(sending.lengths)
  BY <1>2 DEF Exchange, Dead, CommandUnderWay, NothingUnderWay, CommandTaken, DataUnderWay, DataTaken, AllTaken
<1>5. server.at \in {"answer", "end"} => Head(sending.lengths) = server.got /\ Len(sending.lengths) = 1
  <2> HAVE server.at \in {"answer", "end"}
  <2> DEFINE g == server.got
             l == sending.lengths
  <2>1. l = <<g>>
    BY <1>3
  <2> HIDE DEF g, l
  <2>2. Head(l) = g /\ Len(l) = 1
    BY <2>1
  <2>3. QED
    BY <2>2 DEF g, l
<1>6. ASSUME sending.turn = "server", uplink = <<>>, server.buf = <<>>
      PROVE  server.at \in {"answer", "end"}
  <2>1. Plains(<<>>) = <<>>
    BY DEF Plains
  <2>2. Pending = <<>>
    BY <1>6, <2>1, FlatEmpty DEF Pending, Cat
  <2>3. FlattenSeq(rem) = <<>> /\ FlattenSeq(rem) \in Seq(Bytes)
    <3>1. FlattenSeq(rem) \in Seq(Bytes)
      BY FlatType
    <3>2. jj = <<>>
      BY <1>2 DEF IsJunk
    <3>3. QED
      BY <2>2, <3>1, <3>2, <1>2, CatEmpty
  <2>4. rem # <<>> => Len(Head(rem)) = 0
    <3> HAVE rem # <<>>
    <3>1. FlattenSeq(rem) = Cat(Head(rem), FlattenSeq(Tail(rem))) /\ Head(rem) \in Seq(Bytes)
          /\ FlattenSeq(Tail(rem)) \in Seq(Bytes)
      BY FlatFirst
    <3> DEFINE a == Head(rem)
               b == FlattenSeq(Tail(rem))
    <3>2. a \in Seq(Bytes) /\ b \in Seq(Bytes) /\ Cat(a, b) = <<>>
      BY <3>1, <2>3
    <3> HIDE DEF a, b
    <3>5. Len(a) = 0
      BY <3>2, CatNothing
    <3>6. QED
      BY <3>5 DEF a
  <2>5. CASE CommandUnderWay(rem)
    <3>1. PICK n \in Commands : \E t \in 0..(n \div MaxPayload) : rem = Suffix(n, t)
      BY <2>5 DEF CommandUnderWay
    <3>2. PICK t \in 0..(n \div MaxPayload) : rem = Suffix(n, t)
      BY <3>1
    <3> DEFINE len == PartLength(n, t + 1)
               nr == t % Numbers
               from == t * MaxPayload
    <3>3. rem # <<>> /\ Head(rem) = Packet(len, nr, from) /\ len \in 0..MaxPayload /\ nr \in NumberSet /\ from \in Nat
      BY <3>2, Lengths, SuffixStep
    <3> HIDE DEF len, nr, from
    <3>4. Len(Packet(len, nr, from)) = Header + len
      BY <3>3, PacketShape
    <3>5. Header + len # 0
      BY <3>3, Sizes
    <3>6. QED
      BY <3>3, <3>4, <3>5, <2>4
  <2>6. CASE DataUnderWay(rem)
    <3>1. sending.lengths # <<>>
      <4>1. PICK l \in Seq(Data) : sending.lengths = Append(l, 0)
        BY <1>6, <2>6 DEF DataUnderWay, DataSent
      <4>2. QED
        BY <4>1, Appended
    <3> DEFINE l == sending.lengths
    <3>2. l \in Seq(Nat) /\ l # <<>> /\ Len(rem) = Len(l)
          /\ \A k \in 1..Len(l) : \E nr \in NumberSet : rem[k] = Packet(l[k], nr, 0)
      BY <3>1, <1>1, <2>6, UpTypesParts DEF DataUnderWay, DataPackets
    <3>3. l[1] \in 0..MaxPayload
      <4>1. PICK d \in Seq(Data) : l = Append(d, 0)
        BY <1>6, <2>6 DEF DataUnderWay, DataSent
      <4>3. Append(d, 0) \in Seq(Data \cup {0}) /\ Append(d, 0) # <<>>
        BY ZeroAppended
      <4>4. l[1] \in Data \cup {0}
        BY <4>1, <4>3
      <4>5. QED
        BY <4>4, DataLengths
    <3>4. PICK nr \in NumberSet : rem[1] = Packet(l[1], nr, 0)
      <4>1. 1 \in 1..Len(l)
        BY <3>2
      <4>2. QED
        BY <4>1, <3>2
    <3> HIDE DEF l
    <3>5. rem # <<>> /\ Head(rem) = rem[1]
      BY <3>2
    <3>6. Len(rem[1]) # 0
      BY <3>3, <3>4, Sizes, PacketIsLong
    <3>7. QED
      BY <3>5, <3>6, <2>4
  <2>7. CASE DataTaken(rem)
    <3>1. server.at = "data taken"
      BY <2>7 DEF DataTaken
    <3> DEFINE l == sending.lengths
    <3>2. PICK d \in Seq(Data) : l = Append(d, 0)
      BY <1>6, <2>7 DEF DataTaken, DataSent
    <3>3. l # <<>> /\ Head(l) # 0 /\ Len(rem) = Len(Tail(l))
          /\ \A k \in 1..Len(Tail(l)) : \E nr \in NumberSet : rem[k] = Packet(Tail(l)[k], nr, 0)
      BY <2>7 DEF DataTaken, DataPackets
    <3>4. d # <<>>
      <4> SUFFICES ASSUME d = <<>> PROVE FALSE
        OBVIOUS
      <4>1. l = <<0>>
        BY <3>2
      <4>2. QED
        BY <4>1, <3>3
    <3>5. Tail(l) = Append(Tail(d), 0) /\ Tail(d) \in Seq(Data)
      <4>1. d \in Seq(Nat) /\ 0 \in Nat
        BY Lengths, LargerSeq
      <4>2. Tail(Append(d, 0)) = Append(Tail(d), 0)
        BY <4>1, <3>4, Appended
      <4>3. QED
        BY <4>2, <3>2, <3>4, TailShape
    <3> DEFINE e == Tail(l)
    <3>6. e \in Seq(Data \cup {0}) /\ e # <<>>
      <4>1. Append(Tail(d), 0) \in Seq(Data \cup {0}) /\ Append(Tail(d), 0) # <<>>
        BY <3>5, ZeroAppended
      <4>2. QED
        BY <4>1, <3>5
    <3> HIDE DEF l
    <3>7. 1 \in 1..Len(e) /\ e[1] \in Data \cup {0}
      BY <3>6
    <3>8. e[1] \in 0..MaxPayload
      BY <3>7, DataLengths
    <3>9. PICK nr \in NumberSet : rem[1] = Packet(e[1], nr, 0)
      BY <3>3, <3>7
    <3>10. rem # <<>> /\ Head(rem) = rem[1]
      BY <3>3, <3>7
    <3> HIDE DEF e
    <3>11. Len(rem[1]) # 0
      BY <3>8, <3>9, Sizes, PacketIsLong
    <3>12. QED
      BY <3>10, <3>11, <2>4
  <2>8. QED
    BY <1>2, <1>6, <2>5, <2>6, <2>7 DEF Exchange, Dead, NothingUnderWay, CommandTaken, AllTaken
<1>7. QED
  BY <1>1, <1>3, <1>4, <1>5, <1>6

-----------------------------------------------------------------------------
(* The second half of the invariant: receiving.                            *)

(* The server owes nothing, and the client has nothing left.               *)
Quiet == owed = <<>> /\ downlink = <<>> /\ queue = <<>> /\ recv = NoRecv

(* The client may have to go on with data, from the number of the answer.  *)
Following == sending.turn = "data" /\ ~sending.emptyLast

(* The packets of an answer.                                               *)
Replied == {p \in Seq(PlainBytes) : \E len \in 0..MaxPayload, nr \in NumberSet : p = Packet(len, nr, 0)}

(* A recv() that runs.                                                     *)
RecvType == [at : {"idle", "header", "body", "more header", "more body", "split"}, need : Nat,
             chunk : Seq(Bytes), head : Seq(Bytes), pkt : Seq(PlainBytes), offset : Nat]

(* The types of what the client receives.                                  *)
ClientTypes ==
    /\ recv \in RecvType /\ downlink \in Seq(Bytes)
    /\ queue \in Seq(Seq(PlainBytes)) /\ owed \in Seq(Replied)

(* NetworkBrokerPlain.recv: the header and the bytes read, and the bytes   *)
(* that come, are the packets owed; recv() is in the first of them.        *)
PlainClient ==
    /\ queue = <<>>
    /\ Cat(recv.head, Cat(recv.chunk, downlink)) = FlattenSeq(owed)
    /\ Following /\ owed # <<>> => Len(owed) = 1 /\ server.nr = NextNumber(owed[1][Header].nr)
    /\ \/ recv = NoRecv
       \/ /\ recv.at = "header" /\ recv.head = <<>> /\ owed # <<>>
          /\ Len(recv.chunk) + recv.need = Header
       \/ /\ recv.at = "body" /\ owed # <<>> /\ Len(recv.head) = Header
          /\ Len(recv.chunk) + recv.need = Len(owed[1]) - Header
          /\ pktnr.plain = owed[1][Header].nr

(* The compressed packets of an answer.                                    *)
DownPackets == {p \in [nr : NumberSet, size : Nat, body : Seq(Bytes)] :
                  Plain(p) \in Seq(PlainBytes) /\ Len(p.body) # 0}

(* Their bytes.                                                            *)
Outers(ws) == [k \in 1..Len(ws) |-> Outer(ws[k])]

(* The bytes of those after the j-th.                                      *)
Behind(ws, j) == FlattenSeq(SubSeq(Outers(ws), j + 1, Len(ws)))

(* An answer of a server: the bytes s are the packets, which end at the    *)
(* places ends, and are cut at the places cuts into what the compressed    *)
(* packets ws carry.                                                       *)
Answer(s, packets, ends, cuts, ws) ==
    /\ s \in Seq(PlainBytes) /\ packets \in Seq(Replied) /\ ws \in Seq(DownPackets)
    /\ ends \in [0..Len(packets) -> 0..Len(s)] /\ ends[0] = 0 /\ ends[Len(packets)] = Len(s)
    /\ \A k \in 1..Len(packets) : /\ ends[k] = ends[k - 1] + Len(packets[k])
                                  /\ packets[k] = SubSeq(s, ends[k - 1] + 1, ends[k])
    /\ cuts \in [0..Len(ws) -> 0..Len(s)] /\ cuts[0] = 0 /\ cuts[Len(ws)] = Len(s)
    /\ \A k \in 1..Len(ws) : /\ cuts[k - 1] < cuts[k]
                             /\ Plain(ws[k]) = SubSeq(s, cuts[k - 1] + 1, cuts[k])

(* Where recv() is: in the body of a compressed packet, in one more        *)
(* compressed packet, in bytes that it has decompressed.                   *)
AtBody  == recv.at \in {"body", "more body"}
AtMore  == recv.at \in {"more header", "more body"}
AtSplit == recv.at \in {"split", "more header", "more body"}

(* The client has read j compressed packets and a part of the next.        *)
Wire(ws, j) ==
    /\ recv.at = "idle" => recv = NoRecv
    /\ recv.at = "split" => recv.need = 0
    /\ recv.at \in {"idle", "split"} => downlink = Behind(ws, j)
    /\ recv.at \in {"header", "more header"} =>
          Cat(recv.chunk, downlink) = Behind(ws, j) /\ Len(recv.chunk) + recv.need = OuterHeader
    /\ AtBody => /\ j < Len(ws) /\ recv.head[1] = OuterByte(1, ws[j + 1])
                 /\ Cat(recv.chunk, downlink) = Cat(ws[j + 1].body, Behind(ws, j + 1))
                 /\ Len(recv.chunk) + recv.need = Len(ws[j + 1].body)
                 /\ pktnr.outer = ws[j + 1].nr
    /\ ~AtBody /\ j # 0 => pktnr.outer = ws[j].nr

(* What is decompressed is the bytes a + 1 to cuts[j], and what is queued  *)
(* has numbers.                                                            *)
Splitting(s, cuts, a, j) ==
    /\ recv.at \in {"header", "body"} => queue = <<>> /\ recv.pkt = <<>> /\ recv.offset = 0
    /\ AtSplit => a <= cuts[j] /\ recv.pkt = SubSeq(s, a + 1, cuts[j])
    /\ recv.at = "split" => queue # <<>> \/ recv.offset < Len(recv.pkt)
    /\ AtMore => IsHeader(recv.pkt, recv.offset, Header - 1)
    /\ \A k \in 1..Len(queue) : queue[k][Header].nr \in NumberSet

(* No cut is a hard one: a compressed packet that ends within a packet ends*)
(* after its length, and the next one brings the rest of it.               *)
Soft(packets, ends, cuts, ws) ==
    \A k \in 1..Len(packets), j \in 1..Len(ws) :
        cuts[j] > ends[k - 1] => /\ cuts[j] >= ends[k - 1] + Header - 1
                                 /\ j < Len(ws) => cuts[j + 1] >= ends[k]

(* The packets owed are those after the i-th, of which those up to the m-th*)
(* are queued, and what is not queued yet begins where the m-th ends.      *)
Aligned(packets, ends, cuts, ws, a, i, m, j) ==
    /\ Soft(packets, ends, cuts, ws)
    /\ i <= m /\ owed = SubSeq(packets, i + 1, Len(packets)) /\ queue = SubSeq(packets, i + 1, m)
    /\ ~AtSplit => ends[m] = cuts[j]
    /\ AtSplit => a = ends[i] /\ recv.offset = ends[m] - a /\ ends[m] <= cuts[j]
    /\ AtMore => m < Len(packets) /\ cuts[j] < ends[m + 1] /\ ends[m] + Header - 1 <= cuts[j]
    /\ Following /\ owed # <<>> => server.nr = NextNumber(ws[Len(ws)].nr)

(* The client is somewhere in the answer, and knows where unless a cut was *)
(* hard.                                                                   *)
Receives(s, packets, ends, cuts, ws) ==
    \E j \in 0..Len(ws), a \in 0..Len(s) :
        /\ Wire(ws, j) /\ Splitting(s, cuts, a, j)
        /\ kind.hard \/ \E i \in 0..Len(packets), m \in 0..Len(packets) :
                           Aligned(packets, ends, cuts, ws, a, i, m, j)

(* NetworkBrokerCompressed.recv: the client is somewhere in an answer.     *)
CompressedClient ==
    \E s, packets, ends, cuts, ws : Answer(s, packets, ends, cuts, ws) /\ Receives(s, packets, ends, cuts, ws)

(* What either broker has received and what comes is what the server has   *)
(* sent.                                                                   *)
Follows == IF compressed THEN CompressedClient ELSE PlainClient

(* The second half of the inductive invariant: what the client receives.   *)
ClientHalf ==
    /\ ClientTypes
    /\ sending.turn = "server" => Quiet
    /\ Stopped => recv = NoRecv
    /\ PacketsWhole
    /\ Stopped \/ Follows

(* The inductive invariant.                                                *)
PacketsInv == ServerHalf /\ ClientHalf

(* What a step of recv() leaves to the first half.                         *)
ServerKept ==
    /\ UNCHANGED <<compressed, uplink, server, sending, exchanges>>
    /\ pktnr' \in [plain : NumberSet, outer : NumberSet] /\ kind' \in [hard : BOOLEAN, torn : BOOLEAN]
    /\ owed = <<>> => pktnr' = pktnr /\ owed' = <<>>
    /\ recv'.at # "idle" => owed' # <<>>
    /\ DataNumbers'

(* The bytes of a packet of an answer.                                     *)
LEMMA RepliedShape ==
    ASSUME NEW p \in Replied
    PROVE  \E len \in 0..MaxPayload, nr \in NumberSet :
              /\ p \in Seq(PlainBytes) /\ p \in Seq(Bytes) /\ Len(p) = Header + len /\ Len(p) \in Nat /\ Len(p) # 0
              /\ p[1].len = len /\ p[Header].nr = nr
              /\ \A i \in 1..Header : p[i].part = "head" /\ p[i].i = i /\ p[i].nr = nr /\ p[i].len = len
              /\ \A i \in 1..len : p[Header + i].part = "body"
<1>1. PICK len \in 0..MaxPayload, nr \in NumberSet : p = Packet(len, nr, 0)
  BY DEF Replied
<1>2. len \in 0..MaxPayload /\ 0 \in Nat /\ len \in Nat
  BY Sizes
<1>3. /\ p \in Seq(PlainBytes) /\ p \in Seq(Bytes) /\ Len(p) = Header + len
      /\ \A i \in 1..Header : p[i] = HeadByte(i, len, nr)
      /\ \A i \in 1..len : p[Header + i] = BodyByte(0 + i)
  BY <1>1, <1>2, PacketShape
<1>4. \A i \in 1..Header : p[i].part = "head" /\ p[i].i = i /\ p[i].nr = nr /\ p[i].len = len
  BY <1>3, HeadFields
<1>5. 1 \in 1..Header /\ Header \in 1..Header /\ Header + len \in Nat /\ Header + len # 0
  BY <1>2, Sizes
<1>6. \A i \in 1..len : p[Header + i].part = "body"
  <2> TAKE i \in 1..len
  <2>1. p[Header + i] = BodyByte(0 + i)
    BY <1>3
  <2> DEFINE b == 0 + i
  <2>2. BodyByte(b).part = "body"
    BY DEF BodyByte
  <2>3. QED
    BY <2>1, <2>2
<1>7. QED
  BY <1>3, <1>4, <1>5, <1>6

(* The types of the parts.                                                 *)
LEMMA ClientTypesParts ==
    ASSUME ClientTypes
    PROVE  /\ recv.at \in {"idle", "header", "body", "more header", "more body", "split"}
           /\ recv.need \in Nat /\ recv.chunk \in Seq(Bytes) /\ recv.head \in Seq(Bytes)
           /\ recv.pkt \in Seq(PlainBytes) /\ recv.offset \in Nat
           /\ recv = [at |-> recv.at, need |-> recv.need, chunk |-> recv.chunk, head |-> recv.head,
                      pkt |-> recv.pkt, offset |-> recv.offset]
           /\ downlink \in Seq(Bytes) /\ queue \in Seq(Seq(PlainBytes)) /\ owed \in Seq(Replied)
<1>1. recv \in [at : {"idle", "header", "body", "more header", "more body", "split"}, need : Nat,
             chunk : Seq(Bytes), head : Seq(Bytes), pkt : Seq(PlainBytes), offset : Nat]
  BY DEF ClientTypes, RecvType
<1>2. downlink \in Seq(Bytes) /\ queue \in Seq(Seq(PlainBytes)) /\ owed \in Seq(Replied)
  BY DEF ClientTypes
<1>3. QED
  BY <1>1, <1>2

(* No recv() runs.                                                         *)
LEMMA NoRecvFields ==
    /\ NoRecv \in RecvType /\ NoRecv.at = "idle" /\ NoRecv.need = 0 /\ NoRecv.chunk = <<>>
    /\ NoRecv.head = <<>> /\ NoRecv.pkt = <<>> /\ NoRecv.offset = 0
<1>1. <<>> \in Seq(Bytes) /\ <<>> \in Seq(PlainBytes)
  OBVIOUS
<1>2. QED
  BY <1>1 DEF NoRecv, RecvType

(* _recv_chunk: what has been read and what comes stay the same together.  *)
LEMMA ReadsSome ==
    ASSUME ClientTypes, RecvInto
    PROVE  /\ recv.need # 0 /\ ClientTypes'
           /\ Cat(recv'.chunk, downlink') = Cat(recv.chunk, downlink)
           /\ Len(recv'.chunk) + recv'.need = Len(recv.chunk) + recv.need
           /\ recv'.at = recv.at /\ recv'.head = recv.head /\ recv'.pkt = recv.pkt /\ recv'.offset = recv.offset
<1>1. PICK k \in {1, Min({recv.need, Len(downlink)})} :
          /\ recv' = [recv EXCEPT !.need = @ - k, !.chunk = @ \o SubSeq(downlink, 1, k)]
          /\ downlink' = SubSeq(downlink, k + 1, Len(downlink))
  BY DEF RecvInto
<1>2. recv.need > 0 /\ downlink # <<>> /\ UNCHANGED <<queue, owed>>
  BY DEF RecvInto
<1>3. /\ recv.need \in Nat /\ recv.chunk \in Seq(Bytes) /\ recv.head \in Seq(Bytes)
      /\ recv.at \in {"idle", "header", "body", "more header", "more body", "split"}
      /\ recv.pkt \in Seq(PlainBytes) /\ recv.offset \in Nat
      /\ recv = [at |-> recv.at, need |-> recv.need, chunk |-> recv.chunk, head |-> recv.head,
                 pkt |-> recv.pkt, offset |-> recv.offset]
      /\ downlink \in Seq(Bytes) /\ queue \in Seq(Seq(PlainBytes)) /\ owed \in Seq(Replied)
  BY ClientTypesParts
<1> DEFINE n == Len(downlink)
           need == recv.need
<1>4. n \in Nat /\ n # 0 /\ need \in Nat /\ need > 0
  BY <1>2, <1>3, SeqShape
<1>5. k \in 0..n /\ k <= need /\ k \in Nat
  <2>1. k = 1 \/ k = Min({need, n})
    BY <1>1
  <2> HIDE DEF n, need
  <2>2. Min({need, n}) = IF need <= n THEN need ELSE n
    BY <1>4, MinOfTwo
  <2>3. QED
    BY <2>1, <2>2, <1>4
<1>6. /\ recv' = [at |-> recv.at, need |-> need - k, chunk |-> Cat(recv.chunk, SubSeq(downlink, 1, k)),
                  head |-> recv.head, pkt |-> recv.pkt, offset |-> recv.offset]
  BY <1>1, <1>3 DEF Cat
<1>7. /\ SubSeq(downlink, 1, k) \in Seq(Bytes) /\ downlink' \in Seq(Bytes)
      /\ Cat(Cat(recv.chunk, SubSeq(downlink, 1, k)), downlink') = Cat(recv.chunk, downlink)
      /\ Len(Cat(recv.chunk, SubSeq(downlink, 1, k))) = Len(recv.chunk) + k
  <2> DEFINE d == downlink
             b == recv.chunk
  <2>1. d \in Seq(Bytes) /\ b \in Seq(Bytes) /\ k \in 0..Len(d) /\ downlink' = SubSeq(d, k + 1, Len(d))
    BY <1>1, <1>3, <1>5
  <2> HIDE DEF d, b
  <2>2. /\ SubSeq(d, 1, k) \in Seq(Bytes) /\ SubSeq(d, k + 1, Len(d)) \in Seq(Bytes)
        /\ Cat(Cat(b, SubSeq(d, 1, k)), SubSeq(d, k + 1, Len(d))) = Cat(b, d)
        /\ Len(Cat(b, SubSeq(d, 1, k))) = Len(b) + k
    BY <2>1, CatMoved
  <2>3. QED
    BY <2>1, <2>2 DEF d, b
<1>8. Cat(recv.chunk, SubSeq(downlink, 1, k)) \in Seq(Bytes)
  BY <1>3, <1>7, CatType
<1>9. /\ recv'.need = need - k /\ recv'.chunk = Cat(recv.chunk, SubSeq(downlink, 1, k))
      /\ recv'.at = recv.at /\ recv'.head = recv.head /\ recv'.pkt = recv.pkt /\ recv'.offset = recv.offset
  BY <1>6
<1>10. need - k \in Nat /\ (Len(recv.chunk) + k) + (need - k) = Len(recv.chunk) + need
  <2> DEFINE c == Len(recv.chunk)
  <2>1. c \in Nat
    BY <1>3, SeqShape
  <2> HIDE DEF c, need
  <2>2. QED
    BY <2>1, <1>4, <1>5
<1> DEFINE ch == Cat(recv.chunk, SubSeq(downlink, 1, k))
<1>11. ClientTypes'
  <2>1. recv' \in RecvType
    <3> HIDE DEF need
    <3>1. recv' = [at |-> recv.at, need |-> need - k, chunk |-> ch,
                  head |-> recv.head, pkt |-> recv.pkt, offset |-> recv.offset]
      BY <1>6
    <3>2. ch \in Seq(Bytes)
      BY <1>8
    <3> HIDE DEF ch
    <3>3. QED
      BY <3>1, <3>2, <1>3, <1>10 DEF RecvType
  <2>2. QED
    BY <2>1, <1>2, <1>3, <1>7 DEF ClientTypes
<1>12. Cat(recv'.chunk, downlink') = Cat(recv.chunk, downlink)
  BY <1>7, <1>9, Zenon
<1>13. Len(recv'.chunk) + recv'.need = Len(recv.chunk) + recv.need
  <2>1. Len(recv'.chunk) = Len(recv.chunk) + k
    BY <1>7, <1>9, Zenon
  <2>2. QED
    BY <2>1, <1>9, <1>10
<1>14. recv.need # 0
  BY <1>4
<1>15. QED
  BY <1>9, <1>11, <1>12, <1>13, <1>14, Zenon

(* An answer without packets.                                              *)
LEMMA EmptyAnswer == Answer(<<>>, <<>>, [x \in 0..0 |-> 0], [x \in 0..0 |-> 0], <<>>)
<1> DEFINE z == [x \in 0..0 |-> 0]
<1>1. /\ <<>> \in Seq(PlainBytes) /\ <<>> \in Seq(Replied) /\ <<>> \in Seq(DownPackets)
      /\ Len(<<>>) = 0
  OBVIOUS
<1>2. z \in [0..0 -> 0..0] /\ z[0] = 0
  OBVIOUS
<1> HIDE DEF z
<1>3. Answer(<<>>, <<>>, z, z, <<>>)
  BY <1>1, <1>2 DEF Answer
<1>4. QED
  BY <1>3 DEF z

(* No bytes come after none.                                               *)
LEMMA NothingBehind == Behind(<<>>, 0) = <<>>
<1>1. Outers(<<>>) = <<>>
  BY DEF Outers
<1>2. SubSeq(<<>>, 0 + 1, Len(<<>>)) = <<>>
  OBVIOUS
<1>3. QED
  BY <1>1, <1>2, FlatEmpty DEF Behind

(* A client with nothing left has received all.                            *)
LEMMA QuietFollows ==
    ASSUME Quiet
    PROVE  Follows
<1>1. owed = <<>> /\ downlink = <<>> /\ queue = <<>> /\ recv = NoRecv
  BY DEF Quiet
<1>2. /\ recv.at = "idle" /\ recv.need = 0 /\ recv.chunk = <<>> /\ recv.head = <<>> /\ recv.pkt = <<>>
      /\ recv.offset = 0
  BY <1>1, NoRecvFields
<1>3. PlainClient
  <2>1. Cat(recv.head, Cat(recv.chunk, downlink)) = <<>>
    <3>1. Cat(<<>>, <<>>) = <<>>
      BY DEF Cat
    <3>2. QED
      BY <3>1, <1>1, <1>2
  <2>2. QED
    BY <2>1, <1>1, FlatEmpty DEF PlainClient
<1>4. CompressedClient
  <2> DEFINE z == [x \in 0..0 |-> 0]
  <2>1. z[0] = 0
    OBVIOUS
  <2>2. Answer(<<>>, <<>>, z, z, <<>>)
    BY EmptyAnswer
  <2> HIDE DEF z
  <2>3. Wire(<<>>, 0)
    BY <1>1, <1>2, NothingBehind DEF Wire, AtBody
  <2>4. Splitting(<<>>, z, 0, 0)
    BY <1>1, <1>2 DEF Splitting, AtSplit, AtMore
  <2>5. Aligned(<<>>, z, z, <<>>, 0, 0, 0, 0)
    <3>1. SubSeq(<<>>, 0 + 1, Len(<<>>)) = <<>> /\ SubSeq(<<>>, 0 + 1, 0) = <<>> /\ Len(<<>>) = 0
      OBVIOUS
    <3>2. Soft(<<>>, z, z, <<>>)
      BY DEF Soft
    <3>3. ~AtSplit /\ ~AtMore
      BY <1>2 DEF AtSplit, AtMore
    <3>4. QED
      BY <3>1, <3>2, <3>3, <2>1, <1>1 DEF Aligned
  <2>6. Receives(<<>>, <<>>, z, z, <<>>)
    <3>1. 0 \in 0..Len(<<>>)
      OBVIOUS
    <3>2. QED
      BY <3>1, <2>3, <2>4, <2>5 DEF Receives
  <2>7. QED
    BY <2>2, <2>6 DEF CompressedClient
<1>5. QED
  BY <1>3, <1>4 DEF Follows

(* Nothing changes for the client.                                         *)
LEMMA FollowsSame ==
    ASSUME Follows, UNCHANGED <<compressed, pktnr, recv, queue, owed, downlink, kind>>,
           Following' /\ owed # <<>> => Following /\ server'.nr = server.nr
    PROVE  Follows'
<1>1. ASSUME PlainClient
      PROVE  PlainClient'
  BY <1>1 DEF PlainClient
<1>2. ASSUME CompressedClient
      PROVE  CompressedClient'
  <2>1. PICK s, packets, ends, cuts, ws :
           Answer(s, packets, ends, cuts, ws) /\ Receives(s, packets, ends, cuts, ws)
    BY <1>2 DEF CompressedClient
  <2>2. PICK j \in 0..Len(ws), a \in 0..Len(s) :
        /\ Wire(ws, j) /\ Splitting(s, cuts, a, j)
        /\ kind.hard \/ \E i \in 0..Len(packets), m \in 0..Len(packets) :
                           Aligned(packets, ends, cuts, ws, a, i, m, j)
    BY <2>1 DEF Receives
  <2>3. Wire(ws, j)' /\ Splitting(s, cuts, a, j)'
    BY <2>2 DEF Wire, Splitting, AtBody, AtMore, AtSplit
  <2>4. \A i \in 0..Len(packets), m \in 0..Len(packets) :
           Aligned(packets, ends, cuts, ws, a, i, m, j) => Aligned(packets, ends, cuts, ws, a, i, m, j)'
    BY DEF Aligned, AtMore, AtSplit
  <2>5. kind'.hard \/ \E i \in 0..Len(packets), m \in 0..Len(packets) :
                           Aligned(packets, ends, cuts, ws, a, i, m, j)'
    BY <2>2, <2>4
  <2>6. Receives(s, packets, ends, cuts, ws)'
    BY <2>3, <2>5 DEF Receives
  <2>7. QED
    BY <2>1, <2>6 DEF CompressedClient, Answer
<1>3. QED
  BY <1>1, <1>2 DEF Follows

-----------------------------------------------------------------------------
(* Steps, whichever the broker is.                                         *)

(* The first half is kept.                                                 *)
LEMMA ServerIsKept ==
    ASSUME ServerHalf, ServerKept
    PROVE  ServerHalf'
<1>1. /\ UNCHANGED <<compressed, uplink, server, sending, exchanges>>
      /\ pktnr' \in [plain : NumberSet, outer : NumberSet] /\ kind' \in [hard : BOOLEAN, torn : BOOLEAN]
      /\ owed = <<>> => pktnr' = pktnr
      /\ owed' # <<>> => owed # <<>>
      /\ recv'.at # "idle" => owed' # <<>>
      /\ DataNumbers'
  BY DEF ServerKept
<1>2. QED
  BY <1>1, ServerClientStep

(* A step of recv() keeps the invariant when it keeps the second half.     *)
LEMMA ClientStep ==
    ASSUME PacketsInv, owed # <<>>, UNCHANGED <<compressed, uplink, server, sending, exchanges>>, ClientTypes',
           pktnr' \in [plain : NumberSet, outer : NumberSet], kind' \in [hard : BOOLEAN, torn : BOOLEAN],
           recv'.at # "idle" => owed' # <<>>, DataNumbers', Stopped' => recv' = NoRecv,
           Stopped' \/ Follows', PacketsWhole'
    PROVE  PacketsInv'
<1>1. ServerKept
  BY DEF ServerKept
<1>2. ServerHalf'
  BY <1>1, ServerIsKept DEF PacketsInv
<1>3. sending.turn # "server"
  BY DEF PacketsInv, ClientHalf, Quiet
<1>4. ClientHalf'
  BY <1>3 DEF ClientHalf
<1>5. QED
  BY <1>2, <1>4 DEF PacketsInv

(* A step within recv().                                                   *)
LEMMA ClientGoesOn ==
    ASSUME PacketsInv, owed # <<>>, ~Stopped,
           UNCHANGED <<compressed, uplink, server, sending, exchanges, kind, last, owed>>, ClientTypes',
           pktnr' \in [plain : NumberSet, outer : NumberSet], Follows'
    PROVE  PacketsInv'
<1>1. kind' \in [hard : BOOLEAN, torn : BOOLEAN]
  BY UpTypesParts DEF PacketsInv, ServerHalf
<1>2. ~Stopped' /\ DataNumbers'
  BY DEF Stopped, DataNumbers
<1>3. PacketsWhole'
  BY DEF PacketsInv, ClientHalf, PacketsWhole
<1>4. QED
  BY <1>1, <1>2, <1>3, ClientStep

(* What the end of recv() changes.                                         *)
LEMMA ReturnShape ==
    ASSUME ClientTypes, owed # <<>>, NEW result, NEW p, Return(result, p)
    PROVE  /\ recv' = NoRecv /\ recv' \in RecvType /\ recv'.at = "idle"
           /\ last' = [result |-> result, packet |-> p, due |-> owed[1]]
           /\ last'.result = result /\ last'.packet = p /\ last'.due = owed[1]
           /\ owed' = IF result = "packet" THEN Tail(owed) ELSE owed
           /\ Tail(owed) \in Seq(Replied) /\ owed' \in Seq(Replied)
<1>1. recv' = NoRecv /\ last' = [result |-> result, packet |-> p, due |-> Head(owed)]
      /\ owed' = IF result = "packet" THEN Tail(owed) ELSE owed
  BY DEF Return
<1>2. owed \in Seq(Replied)
  BY ClientTypesParts
<1>3. Tail(owed) \in Seq(Replied) /\ Head(owed) = owed[1]
  BY <1>2, TailShape
<1>4. QED
  BY <1>1, <1>2, <1>3, NoRecvFields

(* recv() returns a packet: the first one owed, unless a cut was hard.     *)
LEMMA ClientReturns ==
    ASSUME PacketsInv, owed # <<>>, ~Stopped, UNCHANGED <<compressed, uplink, server, sending, exchanges, kind>>,
           NEW p, Return("packet", p), downlink' \in Seq(Bytes), queue' \in Seq(Seq(PlainBytes)),
           pktnr' \in [plain : NumberSet, outer : NumberSet], kind.hard \/ p = owed[1],
           Follows', DataNumbers'
    PROVE  PacketsInv'
<1>1. kind' \in [hard : BOOLEAN, torn : BOOLEAN] /\ ClientTypes
  BY UpTypesParts DEF PacketsInv, ServerHalf, ClientHalf
<1>2. /\ recv' = NoRecv /\ recv' \in RecvType /\ recv'.at = "idle"
      /\ last'.result = "packet" /\ last'.packet = p /\ last'.due = owed[1] /\ owed' \in Seq(Replied)
  BY <1>1, ReturnShape
<1>3. PacketsWhole' /\ ClientTypes'
  BY <1>2 DEF PacketsWhole, ClientTypes
<1>4. QED
  BY <1>1, <1>2, <1>3, ClientStep

(* A timeout: the session is followed further only if nothing was read.    *)
LEMMA TimeOutStep ==
    ASSUME PacketsInv, owed # <<>>, ~Stopped, TimeOut, recv.at = "header" /\ recv.chunk = <<>> => Follows'
    PROVE  PacketsInv'
<1>1. /\ Return("timeout", <<>>)
      /\ kind' = [kind EXCEPT !.torn = @ \/ recv.chunk # <<>> \/ recv.at # "header"]
      /\ UNCHANGED <<compressed, pktnr, queue, uplink, server, downlink, sending, exchanges>>
  BY DEF TimeOut
<1>2. /\ kind \in [hard : BOOLEAN, torn : BOOLEAN] /\ pktnr \in [plain : NumberSet, outer : NumberSet]
      /\ ClientTypes
  BY UpTypesParts DEF PacketsInv, ServerHalf, ClientHalf
<1>3. /\ recv' = NoRecv /\ recv' \in RecvType /\ recv'.at = "idle"
      /\ last'.result = "timeout" /\ owed' \in Seq(Replied) /\ owed' = owed
  BY <1>1, <1>2, ReturnShape
<1>4. kind' \in [hard : BOOLEAN, torn : BOOLEAN] /\ kind'.torn = (kind.torn \/ recv.chunk # <<>> \/ recv.at # "header")
  <2> DEFINE t == (kind.torn \/ recv.chunk # <<>> \/ recv.at # "header")
  <2>1. kind' = [kind EXCEPT !.torn = t] /\ t \in BOOLEAN
    BY <1>1
  <2> HIDE DEF t
  <2>2. kind' \in [hard : BOOLEAN, torn : BOOLEAN] /\ kind'.torn = t
    BY <2>1, <1>2
  <2>3. QED
    BY <2>2 DEF t
<1>5. ClientTypes'
  BY <1>1, <1>2, <1>3 DEF ClientTypes
<1>6. PacketsWhole'
  BY <1>3 DEF PacketsWhole
<1>7. DataNumbers'
  BY <1>3 DEF DataNumbers
<1>8. Stopped' \/ Follows'
  BY <1>4 DEF Stopped
<1>9. QED
  BY <1>1, <1>2, <1>3, <1>4, <1>5, <1>6, <1>7, <1>8, ClientStep

(* A recv() that runs is followed.                                         *)
LEMMA Receiver ==
    ASSUME PacketsInv, recv.at # "idle"
    PROVE  owed # <<>> /\ ~Stopped /\ Follows
<1>1. owed # <<>>
  BY DEF PacketsInv, ServerHalf, OwedInv
<1>2. ~Stopped /\ Follows
  BY NoRecvFields DEF PacketsInv, ClientHalf
<1>3. QED
  BY <1>1, <1>2

(* Nothing comes after the last compressed packet.                         *)
LEMMA BehindAll ==
    ASSUME NEW ws \in Seq(DownPackets)
    PROVE  Behind(ws, Len(ws)) = <<>>
<1> DEFINE n == Len(ws)
           o == Outers(ws)
<1>1. n \in Nat
  BY SeqShape
<1> HIDE DEF n, o
<1>2. SubSeq(o, n + 1, n) = <<>>
  BY <1>1
<1>3. QED
  BY <1>2, FlatEmpty DEF Behind, n, o

(* Where the next compressed packet of an answer ends, and what it carries.*)
LEMMA CutsGrow ==
    ASSUME NEW s, NEW packets, NEW ends, NEW cuts, NEW ws, Answer(s, packets, ends, cuts, ws),
           NEW j \in 0..Len(ws)
    PROVE  /\ Len(s) \in Nat /\ Len(ws) \in Nat /\ cuts[j] \in 0..Len(s) /\ cuts[Len(ws)] = Len(s)
           /\ j # Len(ws) => j + 1 \in 1..Len(ws) /\ j + 1 \in 0..Len(ws)
                             /\ cuts[j + 1] \in 0..Len(s) /\ cuts[j] < cuts[j + 1]
                             /\ Plain(ws[j + 1]) = SubSeq(s, cuts[j] + 1, cuts[j + 1])
                             /\ ws[j + 1] \in DownPackets
           /\ cuts[j] = Len(s) => j = Len(ws)
           /\ cuts[j] > 0 => j # 0
<1> DEFINE n == Len(ws)
           l == Len(s)
<1>1. /\ n \in Nat /\ l \in Nat /\ cuts \in [0..n -> 0..l] /\ cuts[0] = 0 /\ cuts[n] = l
      /\ \A k \in 1..n : cuts[k - 1] < cuts[k] /\ Plain(ws[k]) = SubSeq(s, cuts[k - 1] + 1, cuts[k])
      /\ \A k \in 1..n : ws[k] \in DownPackets
  <2>1. s \in Seq(PlainBytes) /\ ws \in Seq(DownPackets)
    BY DEF Answer
  <2>2. n \in Nat /\ l \in Nat /\ \A k \in 1..n : ws[k] \in DownPackets
    BY <2>1, SeqShape
  <2>3. QED
    BY <2>2 DEF Answer
<1> HIDE DEF n, l
<1>2. j \in 0..n
  BY DEF n
<1>3. cuts[j] \in 0..l
  BY <1>1, <1>2
<1>4. ASSUME j # n
      PROVE  /\ j + 1 \in 1..n /\ j + 1 \in 0..n /\ cuts[j + 1] \in 0..l /\ cuts[j] < cuts[j + 1]
             /\ Plain(ws[j + 1]) = SubSeq(s, cuts[j] + 1, cuts[j + 1]) /\ ws[j + 1] \in DownPackets
  <2>1. j + 1 \in 1..n /\ j + 1 \in 0..n /\ (j + 1) - 1 = j
    BY <1>1, <1>2, <1>4
  <2>2. cuts[j + 1] \in 0..l
    BY <1>1, <2>1
  <2>3. QED
    BY <1>1, <2>1, <2>2
<1>5. cuts[j] = l => j = n
  <2> SUFFICES ASSUME cuts[j] = l, j # n PROVE FALSE
    OBVIOUS
  <2>1. cuts[j + 1] \in 0..l /\ cuts[j] < cuts[j + 1]
    BY <1>4
  <2>2. QED
    BY <2>1, <1>1
<1>6. cuts[j] > 0 => j # 0
  BY <1>1
<1>7. QED
  BY <1>1, <1>3, <1>4, <1>5, <1>6 DEF n, l

(* What is left of a sequence after i elements.                            *)
LEMMA NoneLeft ==
    ASSUME NEW X, NEW p \in Seq(X), NEW i \in 0..Len(p)
    PROVE  /\ Len(SubSeq(p, i + 1, Len(p))) = Len(p) - i
           /\ SubSeq(p, i + 1, Len(p)) = <<>> <=> i = Len(p)
<1> DEFINE n == Len(p)
<1>1. n \in Nat /\ i \in Nat /\ i <= n
  BY SeqShape
<1>2. SubSeq(p, i + 1, n) \in Seq(X) /\ Len(SubSeq(p, i + 1, n)) = n - i
  <2> HIDE DEF n
  <2> QED
    BY <1>1, Part DEF n
<1>3. SubSeq(p, i + 1, n) = <<>> <=> Len(SubSeq(p, i + 1, n)) = 0
  BY <1>2, SeqShape
<1> HIDE DEF n
<1>4. n - i = 0 <=> i = n
  BY <1>1
<1>5. QED
  BY <1>2, <1>3, <1>4 DEF n

(* The client sends when it has received all.                              *)
LEMMA MaySendQuiet ==
    ASSUME PacketsInv, NEW turn, MaySend(turn)
    PROVE  Quiet /\ ~Stopped
<1>1. recv.at = "idle" /\ ~Stopped /\ ~kind.hard /\ owed = <<>>
  BY DEF MaySend, Idle, Stopped
<1>2. Follows /\ ClientTypes
  BY <1>1 DEF PacketsInv, ClientHalf
<1>3. CASE ~compressed
  <2>1. PlainClient
    BY <1>2, <1>3 DEF Follows
  <2>2. recv = NoRecv /\ queue = <<>>
    BY <2>1, <1>1 DEF PlainClient
  <2>3. Cat(<<>>, Cat(<<>>, downlink)) = <<>>
    BY <2>1, <2>2, <1>1, FlatEmpty, NoRecvFields DEF PlainClient
  <2>4. downlink \in Seq(Bytes)
    BY <1>2, ClientTypesParts
  <2>5. downlink = <<>>
    BY <2>3, <2>4, CatEmpty
  <2>6. QED
    BY <2>2, <2>5, <1>1 DEF Quiet
<1>4. CASE compressed
  <2>1. PICK s, packets, ends, cuts, ws :
           Answer(s, packets, ends, cuts, ws) /\ Receives(s, packets, ends, cuts, ws)
    BY <1>2, <1>4 DEF Follows, CompressedClient
  <2>2. PICK j \in 0..Len(ws), a \in 0..Len(s) :
        /\ Wire(ws, j) /\ Splitting(s, cuts, a, j)
        /\ \E i \in 0..Len(packets), m \in 0..Len(packets) : Aligned(packets, ends, cuts, ws, a, i, m, j)
    BY <2>1, <1>1 DEF Receives
  <2>3. PICK i \in 0..Len(packets), m \in 0..Len(packets) : Aligned(packets, ends, cuts, ws, a, i, m, j)
    BY <2>2
  <2>4. packets \in Seq(Replied) /\ ws \in Seq(DownPackets) /\ ends[Len(packets)] = Len(s)
    BY <2>1 DEF Answer
  <2>5. recv = NoRecv /\ downlink = Behind(ws, j)
    BY <2>2, <1>1 DEF Wire
  <2> DEFINE n == Len(packets)
  <2>6. n \in Nat /\ i \in 0..n /\ m \in 0..n
    BY <2>4, SeqShape
  <2>7. i = n
    <3>1. SubSeq(packets, i + 1, n) = <<>>
      BY <2>3, <1>1 DEF Aligned
    <3>2. QED
      BY <3>1, <2>4, NoneLeft
  <2>8. m = n
    <3>1. i <= m
      BY <2>3 DEF Aligned
    <3> HIDE DEF n
    <3>2. QED
      BY <3>1, <2>6, <2>7
  <2>9. queue = <<>>
    <3>1. queue = SubSeq(packets, n + 1, n)
      BY <2>3, <2>7, <2>8 DEF Aligned
    <3> HIDE DEF n
    <3>2. SubSeq(packets, n + 1, n) = <<>>
      BY <2>6
    <3>3. QED
      BY <3>1, <3>2
  <2>10. cuts[j] = Len(s)
    BY <2>3, <2>4, <2>8, <1>1 DEF Aligned, AtSplit
  <2>11. j = Len(ws)
    BY <2>1, <2>10, CutsGrow
  <2>12. downlink = <<>>
    BY <2>4, <2>5, <2>11, BehindAll
  <2>13. QED
    BY <2>5, <2>9, <2>12, <1>1 DEF Quiet
<1>5. QED
  BY <1>1, <1>3, <1>4

(* QuietFollows as a formula.                                              *)
LEMMA QuietAlways == Quiet => Follows
  BY QuietFollows

(* The same in the next state.                                             *)
LEMMA QuietNext == Quiet' => Follows'
<1>1. (Quiet => Follows)'
  BY QuietAlways, PTL
<1>2. QED
  BY <1>1

(* send() of a command or of data keeps the second half.                   *)
LEMMA ClientSends ==
    ASSUME PacketsInv, NEW turn, MaySend(turn),
           UNCHANGED <<compressed, server, downlink, owed, recv, queue, kind, last>>
    PROVE  ClientHalf'
<1>1. Quiet /\ ~Stopped
  BY MaySendQuiet
<1>2. Quiet' /\ Stopped' = Stopped /\ PacketsWhole' = PacketsWhole
  BY <1>1 DEF Quiet, Stopped, PacketsWhole
<1>3. Follows'
  BY <1>2, QuietNext
<1>4. ClientTypes'
  BY DEF PacketsInv, ClientHalf, ClientTypes
<1>5. PacketsWhole'
  BY <1>2 DEF PacketsInv, ClientHalf
<1>6. QED
  BY <1>1, <1>2, <1>3, <1>4, <1>5 DEF ClientHalf

(* A step of the server alone keeps the second half.                       *)
LEMMA ClientWaits ==
    ASSUME PacketsInv, UNCHANGED <<compressed, client, downlink, owed, kind>>,
           sending'.turn = sending.turn, sending'.emptyLast = sending.emptyLast,
           owed # <<>> /\ ~sending.emptyLast => server'.nr = server.nr
    PROVE  ClientHalf'
<1>1. UNCHANGED <<pktnr, recv, queue, last>>
  BY DEF client
<1>2. ClientTypes' /\ PacketsWhole' /\ Stopped' = Stopped /\ Quiet' = Quiet
  BY <1>1 DEF PacketsInv, ClientHalf, ClientTypes, PacketsWhole, Stopped, Quiet
<1>3. Follows => Follows'
  <2> HAVE Follows
  <2>1. Following' /\ owed # <<>> => Following /\ server'.nr = server.nr
    BY DEF Following
  <2>2. QED
    BY <2>1, <1>1, FollowsSame
<1>4. QED
  BY <1>1, <1>2, <1>3 DEF PacketsInv, ClientHalf

(* Reading, taking and storing are such steps.                             *)
LEMMA ServerSteps ==
    ASSUME PacketsInv, ServerReads \/ ServerTakes \/ ServerStores
    PROVE  ClientHalf'
<1>1. /\ server = [at |-> server.at, nr |-> server.nr, buf |-> server.buf, got |-> server.got,
                   error |-> server.error]
      /\ sending = [turn |-> sending.turn, lengths |-> sending.lengths, emptyLast |-> sending.emptyLast]
  BY UpTypesParts DEF PacketsInv, ServerHalf
<1>2. CASE ServerReads
  <2>1. uplink # <<>> /\ UNCHANGED <<compressed, client, downlink, owed, sending, kind, exchanges>>
    BY <1>2 DEF ServerReads
  <2>2. owed # <<>> /\ ~sending.emptyLast => FALSE
    BY <2>1 DEF PacketsInv, ServerHalf, OwedInv
  <2>3. QED
    BY <2>1, <2>2, ClientWaits
<1>3. CASE ServerTakes
  <2>1. UNCHANGED <<compressed, client, uplink, downlink, owed, sending, kind, exchanges>>
    BY <1>3 DEF ServerTakes
  <2>2. server'.nr = server.nr
    <3>1. \E at, buf, got, error : server' = [server EXCEPT !.at = at, !.buf = buf, !.got = got, !.error = error]
      <4>1. CASE server' = [server EXCEPT !.error = "garbled"]
        <5>1. server' = [server EXCEPT !.at = server.at, !.buf = server.buf, !.got = server.got, !.error = "garbled"]
          BY <4>1, <1>1
        <5>2. QED
          BY <5>1
      <4>2. ASSUME NEW at, NEW buf, NEW got, server' = [server EXCEPT !.buf = buf, !.got = got, !.at = at]
            PROVE  \E a, b, g, error : server' = [server EXCEPT !.at = a, !.buf = b, !.got = g, !.error = error]
        <5>1. server' = [server EXCEPT !.at = at, !.buf = buf, !.got = got, !.error = server.error]
          BY <4>2, <1>1
        <5>2. QED
          BY <5>1
      <4>3. server' = [server EXCEPT !.error = "garbled"]
            \/ \E at, buf, got : server' = [server EXCEPT !.buf = buf, !.got = got, !.at = at]
        <5> DEFINE len == server.buf[1].len
                   body == SubSeq(server.buf, Header + 1, Header + len)
                   B == SubSeq(server.buf, Header + len + 1, Len(server.buf))
                   G == server.got + len
                   A == IF len = MaxPayload THEN server.at
                        ELSE IF server.at = "command" THEN "answer"
                        ELSE IF server.got + len = 0 THEN "end" ELSE "data taken"
                   bad == \E i \in 1..len : body[i] # BodyByte(server.got + i)
                   head == IsHeader(server.buf, 0, Header)
        <5>1. IF ~head THEN server' = [server EXCEPT !.error = "garbled"]
              ELSE server' = IF bad THEN [server EXCEPT !.error = "garbled"]
                             ELSE [server EXCEPT !.buf = B, !.got = G, !.at = A]
          BY <1>3 DEF ServerTakes
        <5> HIDE DEF B, G, A, bad, head
        <5>2. server' = [server EXCEPT !.error = "garbled"]
              \/ server' = [server EXCEPT !.buf = B, !.got = G, !.at = A]
          BY <5>1
        <5>3. QED
          BY <5>2
      <4>4. QED
        BY <4>1, <4>2, <4>3
    <3>2. QED
      BY <3>1, <1>1
  <2>3. QED
    BY <2>1, <2>2, ClientWaits
<1>4. CASE ServerStores
  <2>1. /\ server' = [server EXCEPT !.at = "data", !.got = 0]
        /\ sending' = [sending EXCEPT !.lengths = Tail(@)]
        /\ UNCHANGED <<compressed, client, uplink, downlink, owed, kind, exchanges>>
    BY <1>4 DEF ServerStores
  <2>2. server'.nr = server.nr /\ sending'.turn = sending.turn /\ sending'.emptyLast = sending.emptyLast
    BY <2>1, <1>1
  <2>3. QED
    BY <2>1, <2>2, ClientWaits
<1>5. QED
  BY <1>2, <1>3, <1>4

-----------------------------------------------------------------------------
(* NetworkBrokerPlain.recv.                                                *)

(* The types of all that the invariant is about.                           *)
LEMMA Types ==
    ASSUME PacketsInv
    PROVE  /\ ClientTypes /\ UpTypes /\ compressed \in BOOLEAN
           /\ pktnr \in [plain : NumberSet, outer : NumberSet]
           /\ pktnr = [plain |-> pktnr.plain, outer |-> pktnr.outer]
           /\ pktnr.plain \in NumberSet /\ pktnr.outer \in NumberSet
           /\ kind \in [hard : BOOLEAN, torn : BOOLEAN] /\ server.nr \in NumberSet
<1>1. ClientTypes /\ UpTypes
  BY DEF PacketsInv, ServerHalf, ClientHalf
<1>2. pktnr \in [plain : NumberSet, outer : NumberSet]
  BY <1>1, UpTypesParts
<1>3. QED
  BY <1>1, <1>2, UpTypesParts

(* The phases of recv().                                                   *)
Places == {"idle", "header", "body", "more header", "more body", "split"}

Phases == {"header", "body", "more header", "more body"}

(* A recv() in one of its phases.                                          *)
LEMMA RecvRecord ==
    ASSUME NEW place \in Places, NEW n \in Nat, NEW chunk \in Seq(Bytes), NEW head \in Seq(Bytes),
           NEW pkt \in Seq(PlainBytes), NEW o \in Nat
    PROVE  [at |-> place, need |-> n, chunk |-> chunk, head |-> head, pkt |-> pkt, offset |-> o] \in RecvType
<1>1. [at |-> place, need |-> n, chunk |-> chunk, head |-> head, pkt |-> pkt, offset |-> o]
        \in [at : Places, need : Nat, chunk : Seq(Bytes), head : Seq(Bytes), pkt : Seq(PlainBytes), offset : Nat]
  OBVIOUS
<1>2. RecvType = [at : Places, need : Nat, chunk : Seq(Bytes), head : Seq(Bytes), pkt : Seq(PlainBytes),
                  offset : Nat]
  BY Zenon DEF RecvType, Places
<1>3. QED
  BY <1>1, <1>2

(* recv() goes on to the next phase.                                       *)
LEMMA Expecting ==
    ASSUME ClientTypes, NEW phase \in Phases, NEW n \in Nat
    PROVE  /\ Expect(phase, n) = [at |-> phase, need |-> n, chunk |-> <<>>, head |-> recv.head,
                               pkt |-> recv.pkt, offset |-> recv.offset]
           /\ [Expect(phase, n) EXCEPT !.head = recv.chunk] =
                [at |-> phase, need |-> n, chunk |-> <<>>, head |-> recv.chunk,
                 pkt |-> recv.pkt, offset |-> recv.offset]
           /\ Expect(phase, n) \in RecvType /\ [Expect(phase, n) EXCEPT !.head = recv.chunk] \in RecvType
<1>1. /\ recv.chunk \in Seq(Bytes) /\ recv.head \in Seq(Bytes)
      /\ recv.pkt \in Seq(PlainBytes) /\ recv.offset \in Nat
      /\ recv = [at |-> recv.at, need |-> recv.need, chunk |-> recv.chunk, head |-> recv.head,
                 pkt |-> recv.pkt, offset |-> recv.offset]
  BY ClientTypesParts
<1>2. Expect(phase, n) = [recv EXCEPT !.at = phase, !.need = n, !.chunk = <<>>]
  BY DEF Expect
<1>3. Expect(phase, n) = [at |-> phase, need |-> n, chunk |-> <<>>, head |-> recv.head,
                       pkt |-> recv.pkt, offset |-> recv.offset]
  BY <1>1, <1>2
<1>4. [Expect(phase, n) EXCEPT !.head = recv.chunk] =
                [at |-> phase, need |-> n, chunk |-> <<>>, head |-> recv.chunk,
                 pkt |-> recv.pkt, offset |-> recv.offset]
  <2> DEFINE e == Expect(phase, n)
  <2>1. e = [at |-> phase, need |-> n, chunk |-> <<>>, head |-> recv.head, pkt |-> recv.pkt, offset |-> recv.offset]
    BY <1>3
  <2> HIDE DEF e
  <2>2. [e EXCEPT !.head = recv.chunk] = [at |-> phase, need |-> n, chunk |-> <<>>, head |-> recv.chunk,
                                          pkt |-> recv.pkt, offset |-> recv.offset]
    BY <2>1
  <2>3. QED
    BY <2>2 DEF e
<1>5. \A e, chunk, head : chunk \in Seq(Bytes) /\ head \in Seq(Bytes)
         /\ e = [at |-> phase, need |-> n, chunk |-> chunk, head |-> head, pkt |-> recv.pkt, offset |-> recv.offset]
           => e \in RecvType
  <2>1. phase \in Places
    BY Zenon DEF Phases, Places
  <2>2. QED
    BY <1>1, <2>1, RecvRecord
<1>6. <<>> \in Seq(Bytes)
  OBVIOUS
<1>7. QED
  BY <1>1, <1>3, <1>4, <1>5, <1>6

(* The first packet owed, and the rest.                                    *)
LEMMA OwedFirst ==
    ASSUME ClientTypes, owed # <<>>
    PROVE  /\ owed[1] \in Replied /\ owed[1] \in Seq(Bytes) /\ Tail(owed) \in Seq(Replied)
           /\ FlattenSeq(owed) = Cat(owed[1], FlattenSeq(Tail(owed)))
           /\ FlattenSeq(Tail(owed)) \in Seq(Bytes)
           /\ Len(owed) = 1 => Tail(owed) = <<>>
<1>1. owed \in Seq(Replied)
  BY ClientTypesParts
<1>2. Replied \subseteq Seq(Bytes)
  BY RepliedShape
<1>3. owed \in Seq(Seq(Bytes))
  BY <1>1, <1>2, LargerSeq
<1>4. /\ FlattenSeq(owed) = Cat(Head(owed), FlattenSeq(Tail(owed)))
      /\ Head(owed) \in Seq(Bytes) /\ FlattenSeq(Tail(owed)) \in Seq(Bytes)
  BY <1>3, FlatFirst
<1>5. Tail(owed) \in Seq(Replied) /\ Head(owed) = owed[1] /\ Head(owed) \in Replied
      /\ Len(Tail(owed)) = Len(owed) - 1
  BY <1>1, TailShape
<1>6. Len(owed) = 1 => Tail(owed) = <<>>
  <2> DEFINE t == Tail(owed)
             n == Len(owed)
  <2>1. t \in Seq(Replied) /\ Len(t) = n - 1
    BY <1>5
  <2> HIDE DEF t, n
  <2>2. n = 1 => Len(t) = 0
    BY <2>1
  <2>3. n = 1 => t = <<>>
    BY <2>1, <2>2, SeqShape
  <2>4. QED
    BY <2>3 DEF t, n
<1>7. QED
  BY <1>4, <1>5, <1>6

(* NetworkBrokerPlain: recv() begins.                                      *)
LEMMA PlainRecvStep ==
    ASSUME PacketsInv, ~compressed, Recv
    PROVE  PacketsInv'
<1>1. ~Stopped /\ owed # <<>> /\ recv.at = "idle"
      /\ UNCHANGED <<compressed, uplink, server, downlink, sending, kind, exchanges>>
  BY DEF Recv, Idle, Stopped
<1>2. PlainClient /\ ClientTypes
  BY <1>1 DEF PacketsInv, ClientHalf, Follows
<1>3. queue = <<>> /\ recv = NoRecv
  BY <1>1, <1>2 DEF PlainClient
<1>4. recv' = Expect("header", Header) /\ UNCHANGED <<pktnr, queue, last, owed>>
  BY <1>3 DEF Recv
<1>5. recv' \in RecvType /\ recv' = [at |-> "header", need |-> Header, chunk |-> <<>>, head |-> recv.head,
                               pkt |-> recv.pkt, offset |-> recv.offset]
  BY <1>2, <1>4, Expecting, Sizes DEF Phases
<1>6. recv'.at = "header" /\ recv'.need = Header /\ recv'.chunk = <<>> /\ recv'.head = <<>>
  BY <1>3, <1>5, NoRecvFields
<1>7. ClientTypes'
  BY <1>1, <1>2, <1>4, <1>5 DEF ClientTypes
<1>8. Cat(recv'.head, Cat(recv'.chunk, downlink')) = FlattenSeq(owed')
  BY <1>1, <1>2, <1>3, <1>4, <1>6, NoRecvFields DEF PlainClient
<1>9. PlainClient'
  <2>1. Len(<<>>) + Header = Header
    BY Sizes
  <2>2. Following' = Following
    BY <1>1 DEF Following
  <2>3. QED
    BY <2>1, <2>2, <1>1, <1>2, <1>4, <1>6, <1>8 DEF PlainClient
<1>10. QED
  BY <1>1, <1>4, <1>7, <1>9, Types, ClientGoesOn DEF Follows

(* NetworkBrokerPlain: bytes arrive.                                       *)
LEMMA PlainRecvIntoStep ==
    ASSUME PacketsInv, ~compressed, RecvInto
    PROVE  PacketsInv'
<1>1. /\ recv.need # 0 /\ ClientTypes'
      /\ Cat(recv'.chunk, downlink') = Cat(recv.chunk, downlink)
      /\ Len(recv'.chunk) + recv'.need = Len(recv.chunk) + recv.need
      /\ recv'.at = recv.at /\ recv'.head = recv.head /\ recv'.pkt = recv.pkt /\ recv'.offset = recv.offset
  BY Types, ReadsSome
<1>2. UNCHANGED <<compressed, pktnr, queue, last, uplink, server, owed, sending, kind, exchanges>>
  BY DEF RecvInto
<1>3. recv # NoRecv
  BY <1>1, NoRecvFields
<1>4. ~Stopped /\ PlainClient
  BY <1>3 DEF PacketsInv, ClientHalf, Follows
<1>5. PlainClient' /\ owed # <<>>
  <2>1. Following' = Following
    BY <1>2 DEF Following
  <2>2. QED
    BY <2>1, <1>1, <1>2, <1>3, <1>4 DEF PlainClient
<1>6. QED
  BY <1>1, <1>2, <1>4, <1>5, Types, ClientGoesOn DEF Follows

(* NetworkBrokerPlain: the timeout expires.                                *)
LEMMA PlainTimeOutStep ==
    ASSUME PacketsInv, ~compressed, TimeOut
    PROVE  PacketsInv'
<1>1. recv.need > 0 /\ Return("timeout", <<>>)
      /\ UNCHANGED <<compressed, pktnr, queue, uplink, server, downlink, sending, exchanges>>
  BY DEF TimeOut
<1>2. recv # NoRecv
  BY <1>1, NoRecvFields
<1>3. ~Stopped /\ PlainClient
  BY <1>2 DEF PacketsInv, ClientHalf, Follows
<1>4. owed # <<>>
  BY <1>2, <1>3 DEF PlainClient
<1>5. recv' = NoRecv /\ owed' = owed
  BY <1>1, <1>4, Types, ReturnShape
<1>6. ASSUME recv.at = "header", recv.chunk = <<>>
      PROVE  Follows'
  <2>1. recv.head = <<>>
    BY <1>2, <1>3, <1>6 DEF PlainClient
  <2>2. Cat(recv'.head, Cat(recv'.chunk, downlink')) = FlattenSeq(owed')
    BY <2>1, <1>1, <1>3, <1>5, <1>6, NoRecvFields DEF PlainClient
  <2>3. Following' = Following
    BY <1>1 DEF Following
  <2>4. PlainClient'
    BY <2>2, <2>3, <1>1, <1>3, <1>5 DEF PlainClient
  <2>5. QED
    BY <2>4, <1>1 DEF Follows
<1>7. QED
  BY <1>3, <1>4, <1>6, TimeOutStep

(* NetworkBrokerPlain: the header that is read is the one of the first     *)
(* packet owed.                                                            *)
LEMMA PlainHeaderStep ==
    ASSUME PacketsInv, PlainHeader
    PROVE  PacketsInv'
<1>1. /\ recv.at = "header" /\ recv.need = 0 /\ ~compressed
      /\ pktnr' = [pktnr EXCEPT !.plain = recv.chunk[Header].nr]
      /\ recv' = [Expect("body", recv.chunk[1].len) EXCEPT !.head = recv.chunk]
      /\ UNCHANGED <<compressed, queue, last, uplink, server, downlink, owed, sending, kind, exchanges>>
  BY DEF PlainHeader
<1>2. owed # <<>> /\ ~Stopped /\ PlainClient
  BY <1>1, Receiver DEF Follows
<1>3. recv # NoRecv
  BY <1>1, NoRecvFields
<1>4. /\ recv.head = <<>> /\ Len(recv.chunk) + recv.need = Header
      /\ Cat(recv.head, Cat(recv.chunk, downlink)) = FlattenSeq(owed)
  BY <1>1, <1>2, <1>3 DEF PlainClient
<1>5. recv.chunk \in Seq(Bytes) /\ downlink \in Seq(Bytes) /\ ClientTypes
  BY Types, ClientTypesParts
<1> DEFINE c == recv.chunk
           p == owed[1]
           x == downlink
           y == FlattenSeq(Tail(owed))
<1>6. c \in Seq(Bytes) /\ x \in Seq(Bytes) /\ Cat(c, x) \in Seq(Bytes) /\ Len(c) = Header
  <2>1. Len(c) = Header
    BY <1>1, <1>4, <1>5, SeqShape
  <2>2. QED
    BY <2>1, <1>5, CatType
<1>7. p \in Replied /\ p \in Seq(Bytes) /\ FlattenSeq(owed) = Cat(p, y) /\ y \in Seq(Bytes)
  BY <1>2, <1>5, OwedFirst
<1>8. Cat(c, x) = Cat(p, y)
  BY <1>4, <1>6, <1>7, CatEmpty
<1>9. PICK len \in 0..MaxPayload, nr \in NumberSet :
              /\ Len(p) = Header + len /\ p[1].len = len /\ p[Header].nr = nr
  <2>1. p \in Replied
    BY <1>7
  <2> HIDE DEF p
  <2>2. QED
    BY <2>1, RepliedShape
<1>10. c[1] = p[1] /\ c[Header] = p[Header]
  <2> HIDE DEF c, p, x, y
  <2>1. \A k \in 1..Len(c) : k <= Len(p) => c[k] = p[k]
    BY <1>6, <1>7, <1>8, CatPrefix
  <2>2. 1 \in 1..Len(c) /\ Header \in 1..Len(c) /\ 1 <= Len(p) /\ Header <= Len(p)
    BY <1>6, <1>9, Sizes
  <2>3. QED
    BY <2>1, <2>2
<1>11. c[1].len = len /\ c[Header].nr = nr /\ len \in Nat
  BY <1>9, <1>10, Sizes
<1>12. recv' \in RecvType /\ recv' = [at |-> "body", need |-> len, chunk |-> <<>>, head |-> c,
                                      pkt |-> recv.pkt, offset |-> recv.offset]
  BY <1>1, <1>5, <1>11, Expecting DEF Phases
<1>13. recv'.at = "body" /\ recv'.need = len /\ recv'.chunk = <<>> /\ recv'.head = c
  BY <1>12
<1>14. ClientTypes'
  BY <1>1, <1>5, <1>12 DEF ClientTypes
<1>15. pktnr' \in [plain : NumberSet, outer : NumberSet] /\ pktnr'.plain = nr
  BY <1>1, <1>11, Types
<1>16. PlainClient'
  <2>1. Cat(c, Cat(<<>>, x)) = FlattenSeq(owed)
    BY <1>6, <1>7, <1>8, CatEmpty
  <2>2. Len(<<>>) + len = Len(p) - Header
    BY <1>9, <1>11, Sizes
  <2>3. Following' = Following
    BY <1>1 DEF Following
  <2>4. Cat(recv'.head, Cat(recv'.chunk, downlink')) = FlattenSeq(owed')
    BY <2>1, <1>1, <1>13
  <2>5. Len(recv'.head) = Header /\ Len(recv'.chunk) + recv'.need = Len(owed'[1]) - Header
    BY <2>2, <1>1, <1>6, <1>13
  <2>6. pktnr'.plain = owed'[1][Header].nr
    BY <1>1, <1>9, <1>15
  <2> HIDE DEF c, p, x, y
  <2>7. QED
    BY <2>3, <2>4, <2>5, <2>6, <1>1, <1>2, <1>13 DEF PlainClient
<1>17. QED
  BY <1>1, <1>2, <1>14, <1>15, <1>16, ClientGoesOn DEF Follows

(* NetworkBrokerPlain: the packet that is returned is the first one owed.  *)
LEMMA PlainBodyStep ==
    ASSUME PacketsInv, PlainBody
    PROVE  PacketsInv'
<1>1. /\ recv.at = "body" /\ recv.need = 0 /\ ~compressed
      /\ Return("packet", Cat(recv.head, recv.chunk))
      /\ UNCHANGED <<compressed, pktnr, queue, uplink, server, downlink, sending, kind, exchanges>>
  BY DEF PlainBody, Cat
<1>2. owed # <<>> /\ ~Stopped /\ PlainClient
  BY <1>1, Receiver DEF Follows
<1>3. recv # NoRecv
  BY <1>1, NoRecvFields
<1>4. /\ Len(recv.head) = Header /\ Len(recv.chunk) + recv.need = Len(owed[1]) - Header
      /\ Cat(recv.head, Cat(recv.chunk, downlink)) = FlattenSeq(owed)
      /\ pktnr.plain = owed[1][Header].nr /\ queue = <<>>
      /\ Following => Len(owed) = 1 /\ server.nr = NextNumber(owed[1][Header].nr)
  BY <1>1, <1>2, <1>3 DEF PlainClient
<1>5. recv.chunk \in Seq(Bytes) /\ recv.head \in Seq(Bytes) /\ downlink \in Seq(Bytes) /\ ClientTypes
  BY Types, ClientTypesParts
<1> DEFINE h == recv.head
           c == recv.chunk
           p == owed[1]
           x == downlink
           y == FlattenSeq(Tail(owed))
<1>6. p \in Replied /\ p \in Seq(Bytes) /\ FlattenSeq(owed) = Cat(p, y) /\ y \in Seq(Bytes)
      /\ Tail(owed) \in Seq(Replied) /\ (Len(owed) = 1 => Tail(owed) = <<>>)
  BY <1>2, <1>5, OwedFirst
<1>7. Cat(h, c) \in Seq(Bytes) /\ Len(Cat(h, c)) = Len(h) + Len(c)
  BY <1>5, CatType
<1>8. Cat(Cat(h, c), x) = Cat(p, y)
  BY <1>4, <1>5, <1>6, CatAssoc
<1>9. Len(Cat(h, c)) = Len(p)
  <2>1. Len(p) \in Nat /\ Len(c) \in Nat /\ Len(h) = Header /\ Len(c) + 0 = Len(p) - Header
    BY <1>1, <1>4, <1>5, <1>6, SeqShape
  <2> HIDE DEF h, c, p
  <2>2. QED
    BY <2>1, <1>7, Sizes
<1>10. Cat(h, c) = p /\ x = y
  <2> DEFINE b == Cat(h, c)
  <2>1. b \in Seq(Bytes) /\ x \in Seq(Bytes) /\ Cat(b, x) = Cat(p, y) /\ Len(b) = Len(p)
    BY <1>5, <1>7, <1>8, <1>9
  <2> HIDE DEF b, p, x, y
  <2>2. b = p /\ x = y
    BY <2>1, <1>6, CatSame
  <2>3. QED
    BY <2>2 DEF b
<1>11. recv' = NoRecv /\ owed' = Tail(owed)
  BY <1>1, <1>2, <1>5, ReturnShape
<1>12. Following' /\ owed' # <<>> => FALSE
  <2>1. Following' = Following
    BY <1>1 DEF Following
  <2>2. QED
    BY <2>1, <1>4, <1>6, <1>11
<1>13. PlainClient'
  <2>1. Cat(<<>>, Cat(<<>>, y)) = y
    BY <1>6, CatEmpty
  <2>2. Cat(recv'.head, Cat(recv'.chunk, downlink')) = FlattenSeq(owed')
    BY <2>1, <1>1, <1>10, <1>11, NoRecvFields
  <2>3. QED
    BY <2>2, <1>1, <1>4, <1>11, <1>12 DEF PlainClient
<1>14. DataNumbers'
  <2>1. Following => server.nr = NextNumber(pktnr.plain)
    BY <1>4
  <2>2. QED
    BY <2>1, <1>1 DEF DataNumbers, Following, Latest
<1>15. downlink' \in Seq(Bytes) /\ queue' \in Seq(Seq(PlainBytes))
  BY <1>1, <1>5, Types, ClientTypesParts
<1>16. QED
  BY <1>1, <1>2, <1>10, <1>13, <1>14, <1>15, Types, ClientReturns DEF Follows

-----------------------------------------------------------------------------
(* NetworkBrokerCompressed.recv.                                           *)

(* Where the next packet of an answer ends, and its bytes.                 *)
LEMMA EndsGrow ==
    ASSUME NEW s, NEW packets, NEW ends, NEW cuts, NEW ws, Answer(s, packets, ends, cuts, ws),
           NEW m \in 0..Len(packets)
    PROVE  /\ Len(s) \in Nat /\ Len(packets) \in Nat /\ ends[m] \in 0..Len(s) /\ ends[m] \in Nat
           /\ ends[Len(packets)] = Len(s)
           /\ ends[m] # Len(s) => m # Len(packets)
           /\ m # Len(packets) =>
                 /\ m + 1 \in 1..Len(packets) /\ m + 1 \in 0..Len(packets)
                 /\ packets[m + 1] \in Replied
                 /\ ends[m + 1] \in 0..Len(s) /\ ends[m + 1] = ends[m] + Len(packets[m + 1])
                 /\ packets[m + 1] = SubSeq(s, ends[m] + 1, ends[m + 1])
                 /\ ends[m + 1] >= ends[m] + Header
                 /\ \A y \in 1..Len(packets[m + 1]) : s[ends[m] + y] = packets[m + 1][y]
<1> DEFINE n == Len(packets)
           l == Len(s)
<1>1. /\ s \in Seq(PlainBytes) /\ packets \in Seq(Replied)
      /\ ends \in [0..n -> 0..l] /\ ends[0] = 0 /\ ends[n] = l
      /\ \A k \in 1..n : ends[k] = ends[k - 1] + Len(packets[k]) /\ packets[k] = SubSeq(s, ends[k - 1] + 1, ends[k])
  BY DEF Answer
<1>2. n \in Nat /\ l \in Nat /\ \A k \in 1..n : packets[k] \in Replied
  BY <1>1, SeqShape
<1> HIDE DEF n, l
<1>3. m \in 0..n
  BY DEF n
<1>4. ends[m] \in 0..l /\ ends[m] \in Nat
  BY <1>1, <1>2, <1>3
<1>5. ASSUME m # n
      PROVE  /\ m + 1 \in 1..n /\ m + 1 \in 0..n /\ packets[m + 1] \in Replied
             /\ ends[m + 1] \in 0..l /\ ends[m + 1] = ends[m] + Len(packets[m + 1])
             /\ packets[m + 1] = SubSeq(s, ends[m] + 1, ends[m + 1])
             /\ ends[m + 1] >= ends[m] + Header
             /\ \A y \in 1..Len(packets[m + 1]) : s[ends[m] + y] = packets[m + 1][y]
  <2>1. m + 1 \in 1..n /\ m + 1 \in 0..n /\ (m + 1) - 1 = m
    BY <1>2, <1>3, <1>5
  <2>2. /\ packets[m + 1] \in Replied /\ ends[m + 1] \in 0..l /\ ends[m + 1] = ends[m] + Len(packets[m + 1])
        /\ packets[m + 1] = SubSeq(s, ends[m] + 1, ends[m + 1])
    BY <1>1, <1>2, <2>1
  <2> DEFINE p == packets[m + 1]
             a == ends[m]
             b == ends[m + 1]
             h == Len(p)
  <2>3. PICK len \in 0..MaxPayload : h = Header + len
    <3> HIDE DEF p
    <3>1. p \in Replied
      BY <2>2 DEF p
    <3>2. QED
      BY <3>1, RepliedShape
  <2>4. a \in Nat /\ b \in Nat /\ a <= b /\ b <= l /\ b = a + h /\ h >= Header /\ b - a = h
    <3>1. a \in 0..l /\ b \in 0..l /\ b = a + h
      BY <1>4, <2>2
    <3> HIDE DEF a, b, h
    <3>2. QED
      BY <3>1, <2>3, <1>2, Sizes
  <2>5. p = SubSeq(s, a + 1, b)
    BY <2>2
  <2> HIDE DEF p, a, b, h
  <2>6. \A y \in 1..(b - a) : SubSeq(s, a + 1, b)[y] = s[a + y]
    BY <2>4, <1>1, Part DEF l
  <2>7. \A y \in 1..h : s[a + y] = p[y]
    BY <2>4, <2>5, <2>6
  <2>8. b >= a + Header
    BY <2>4, Sizes
  <2>9. QED
    BY <2>1, <2>2, <2>7, <2>8 DEF p, a, b, h
<1>6. ends[m] # l => m # n
  BY <1>1
<1>7. QED
  BY <1>1, <1>2, <1>4, <1>5, <1>6 DEF n, l

(* In the bytes of an answer, the last byte of a header but one is followed*)
(* by the last one.                                                        *)
LEMMA StreamHeads ==
    ASSUME NEW s, NEW packets, NEW ends, NEW cuts, NEW ws, Answer(s, packets, ends, cuts, ws),
           NEW x \in 1..Len(s), s[x].part = "head", s[x].i = Header - 1
    PROVE  x + 1 <= Len(s) /\ s[x + 1].nr \in NumberSet
<1> DEFINE n == Len(packets)
           l == Len(s)
           T == {k \in 0..n : ends[k] >= x}
<1>1. n \in Nat /\ l \in Nat /\ ends[n] = l /\ ends[0] = 0
  <2>1. s \in Seq(PlainBytes) /\ packets \in Seq(Replied) /\ ends[n] = l /\ ends[0] = 0
    BY DEF Answer
  <2>2. QED
    BY <2>1, SeqShape
<1>2. x \in 1..l
  OBVIOUS
<1> HIDE DEF n, l
<1>3. T \subseteq Nat /\ n \in T
  BY <1>1, <1>2
<1>4. PICK k \in T : \A q \in T : k <= q
  BY <1>3, LeastElement
<1>5. k \in 0..n /\ ends[k] >= x
  BY <1>4
<1>6. k # 0
  BY <1>1, <1>2, <1>5
<1> DEFINE m == k - 1
<1>7. m \in 0..n /\ m # n /\ m + 1 = k /\ m \in Nat
  BY <1>1, <1>5, <1>6
<1>8. ~(ends[m] >= x)
  <2> SUFFICES ASSUME ends[m] >= x PROVE FALSE
    OBVIOUS
  <2>1. m \in T
    BY <1>7
  <2>2. k <= m
    BY <2>1, <1>4
  <2>3. QED
    BY <2>2, <1>7
<1> HIDE DEF m, T
<1>9. /\ ends[m] \in Nat /\ ends[m + 1] \in 0..l /\ ends[m + 1] = ends[m] + Len(packets[m + 1])
      /\ packets[m + 1] \in Replied
      /\ \A y \in 1..Len(packets[m + 1]) : s[ends[m] + y] = packets[m + 1][y]
  BY <1>7, EndsGrow DEF n, l
<1> DEFINE p == packets[m + 1]
           a == ends[m]
           h == Len(p)
           y == x - a
<1>10. PICK len \in 0..MaxPayload, nr \in NumberSet :
         /\ h = Header + len
         /\ \A i \in 1..Header : p[i].part = "head" /\ p[i].i = i /\ p[i].nr = nr
         /\ \A i \in 1..len : p[Header + i].part = "body"
  <2>1. p \in Replied
    BY <1>9
  <2> HIDE DEF p
  <2>2. QED
    BY <2>1, RepliedShape
<1>11. a \in Nat /\ a < x /\ x <= a + h /\ a + h <= l /\ h \in Nat
  <2>1. ends[k] = a + h /\ a \in Nat /\ a + h \in 0..l
    BY <1>7, <1>9
  <2>2. h \in Nat
    BY <1>10, Sizes
  <2> HIDE DEF a, h
  <2>3. ends[m] = a
    BY DEF a
  <2>4. QED
    BY <2>1, <2>2, <2>3, <1>1, <1>2, <1>5, <1>8
<1>12. \A z \in 1..h : s[a + z] = p[z]
  BY <1>9
<1> HIDE DEF p, a, h
<1>13. y \in 1..h /\ a + y = x /\ y \in Nat
  BY <1>2, <1>11, <1>1
<1>14. s[x] = p[y]
  BY <1>12, <1>13
<1>15. y <= Header
  <2> SUFFICES ASSUME y > Header PROVE FALSE
    BY <1>13, Sizes
  <2>1. y - Header \in 1..len /\ Header + (y - Header) = y
    BY <1>10, <1>13, Sizes
  <2>2. p[y].part = "body"
    BY <2>1, <1>10
  <2>3. QED
    BY <2>2, <1>14
<1>16. y = Header - 1
  <2>1. y \in 1..Header
    BY <1>13, <1>15, Sizes
  <2>2. QED
    BY <2>1, <1>10, <1>14
<1>17. y + 1 \in 1..h /\ y + 1 = Header /\ a + (y + 1) = x + 1 /\ Header \in 1..Header
  BY <1>10, <1>11, <1>13, <1>16, Sizes
<1>18. s[x + 1].nr = nr
  BY <1>10, <1>12, <1>17
<1>19. x + 1 <= l
  BY <1>1, <1>2, <1>11, <1>13, <1>17
<1>20. QED
  BY <1>18, <1>19 DEF l

(* The bytes of a compressed packet: a header that tells its length, and   *)
(* the body.                                                               *)
LEMMA OuterShape ==
    ASSUME NEW p \in DownPackets
    PROVE  /\ p.body \in Seq(Bytes) /\ p.nr \in NumberSet /\ Len(p.body) \in Nat /\ Len(p.body) # 0
           /\ Plain(p) \in Seq(PlainBytes) /\ Outer(p) \in Seq(Bytes)
           /\ OuterByte(1, p).nr = p.nr /\ OuterByte(1, p).size = p.size /\ OuterByte(1, p).len = Len(p.body)
           /\ \E head \in Seq(Bytes) : /\ Len(head) = OuterHeader /\ head[1] = OuterByte(1, p)
                                       /\ Outer(p) = Cat(head, p.body)
<1>1. /\ p.body \in Seq(Bytes) /\ p.nr \in NumberSet /\ p.size \in Nat /\ Len(p.body) # 0
      /\ Plain(p) \in Seq(PlainBytes)
  BY DEF DownPackets
<1>2. Len(p.body) \in Nat
  BY <1>1, SeqShape
<1>3. OuterByte(1, p).nr = p.nr /\ OuterByte(1, p).size = p.size /\ OuterByte(1, p).len = Len(p.body)
  BY DEF OuterByte
<1> DEFINE head == [i \in 1..OuterHeader |-> OuterByte(i, p)]
<1>4. \A i \in 1..OuterHeader : OuterByte(i, p) \in Bytes
  <2> TAKE i \in 1..OuterHeader
  <2> DEFINE l == Len(p.body)
  <2>1. OuterByte(i, p) = [part |-> "outer", i |-> i, nr |-> p.nr, size |-> p.size, len |-> l]
    BY DEF OuterByte
  <2>2. l \in Nat
    BY <1>2
  <2> HIDE DEF l
  <2>3. OuterByte(i, p) \in OuterBytes
    BY <2>1, <2>2, <1>1 DEF OuterBytes
  <2>4. QED
    BY <2>3 DEF Bytes
<1>5. head \in Seq(Bytes) /\ Len(head) = OuterHeader /\ head[1] = OuterByte(1, p)
  <2>1. OuterHeader \in Nat /\ 1 \in 1..OuterHeader
    BY Sizes
  <2> DEFINE f(i) == OuterByte(i, p)
             N == OuterHeader
  <2>2. head = [i \in 1..N |-> f(i)] /\ \A i \in 1..N : f(i) \in Bytes
    BY <1>4
  <2> HIDE DEF f, N, head
  <2>3. head \in [1..N -> Bytes] /\ \A i \in 1..N : head[i] = f(i)
    BY <2>2
  <2>4. head \in Seq(Bytes) /\ Len(head) = N
    BY <2>1, <2>3, FunctionIsSequence DEF N
  <2>5. QED
    BY <2>1, <2>3, <2>4 DEF f, N
<1>6. Outer(p) = Cat(head, p.body)
  BY DEF Outer, Cat
<1> HIDE DEF head
<1>7. Outer(p) \in Seq(Bytes)
  BY <1>1, <1>5, <1>6, CatType
<1>8. QED
  BY <1>1, <1>2, <1>3, <1>5, <1>6, <1>7

(* A part of a sequence without its first element.                         *)
LEMMA TailOfPart ==
    ASSUME NEW X, NEW p \in Seq(X), NEW i \in Nat, NEW m \in Nat, i <= m, m <= Len(p)
    PROVE  /\ SubSeq(p, i + 1, m) \in Seq(X) /\ Len(SubSeq(p, i + 1, m)) = m - i
           /\ SubSeq(p, i + 1, m) # <<>> <=> i < m
           /\ i < m => /\ SubSeq(p, i + 1, m)[1] = p[i + 1] /\ Head(SubSeq(p, i + 1, m)) = p[i + 1]
                       /\ p[i + 1] \in X
                       /\ Tail(SubSeq(p, i + 1, m)) = SubSeq(p, (i + 1) + 1, m)
<1> DEFINE A == SubSeq(p, i + 1, m)
           z == i + 1
           B == SubSeq(p, z + 1, m)
<1>1. A \in Seq(X) /\ Len(A) = m - i /\ \A k \in 1..(m - i) : A[k] = p[i + k]
  BY Part
<1> HIDE DEF A
<1>2. A # <<>> <=> i < m
  <2>1. A # <<>> <=> Len(A) # 0
    BY <1>1, SeqShape
  <2>2. QED
    BY <2>1, <1>1
<1>3. ASSUME i < m
      PROVE  A[1] = p[i + 1] /\ Head(A) = p[i + 1] /\ p[i + 1] \in X /\ Tail(A) = B
  <2>1. z \in Nat /\ z <= m /\ 1 \in 1..(m - i) /\ i + 1 \in 1..Len(p)
    BY <1>3
  <2>2. /\ Len(Tail(A)) = Len(A) - 1 /\ Head(A) = A[1] /\ Tail(A) \in Seq(X)
        /\ \A k \in 1..(Len(A) - 1) : Tail(A)[k] = A[k + 1]
    BY <1>1, <1>2, <1>3, TailShape
  <2>3. A[1] = p[i + 1] /\ p[i + 1] \in X
    BY <1>1, <2>1, SeqShape
  <2>4. z = i + 1
    OBVIOUS
  <2> HIDE DEF z
  <2>5. B \in Seq(X) /\ Len(B) = m - z /\ \A k \in 1..(m - z) : B[k] = p[z + k]
    BY <2>1, Part
  <2> HIDE DEF B
  <2>6. Len(Tail(A)) = m - z /\ Len(A) - 1 = m - z
    BY <1>1, <2>2, <2>4
  <2>7. \A k \in 1..(m - z) : Tail(A)[k] = B[k]
    <3> TAKE k \in 1..(m - z)
    <3>1. k + 1 \in 1..(m - i) /\ i + (k + 1) = z + k
      BY <2>4
    <3>2. A[k + 1] = p[z + k]
      BY <3>1, <1>1
    <3>3. Tail(A)[k] = A[k + 1]
      BY <2>2, <2>6
    <3>4. QED
      BY <3>2, <3>3, <2>5
  <2>8. Tail(A) = B
    BY <2>2, <2>5, <2>6, <2>7, SeqEqual
  <2>9. QED
    BY <2>2, <2>3, <2>8
<1>4. QED
  BY <1>1, <1>2, <1>3 DEF A, z, B

(* The bytes of each of them.                                              *)
LEMMA OutersShape ==
    ASSUME NEW ws \in Seq(DownPackets)
    PROVE  /\ Outers(ws) \in Seq(Seq(Bytes)) /\ Len(Outers(ws)) = Len(ws)
           /\ \A k \in 1..Len(ws) : Outers(ws)[k] = Outer(ws[k])
<1> DEFINE n == Len(ws)
           f(k) == Outer(ws[k])
           o == Outers(ws)
<1>1. n \in Nat /\ \A k \in 1..n : ws[k] \in DownPackets
  BY SeqShape
<1>2. \A k \in 1..n : f(k) \in Seq(Bytes)
  BY <1>1, OuterShape
<1>3. o = [k \in 1..n |-> f(k)]
  BY DEF Outers
<1> HIDE DEF n, f, o
<1>4. o \in [1..n -> Seq(Bytes)] /\ \A k \in 1..n : o[k] = f(k)
  BY <1>2, <1>3
<1>5. o \in Seq(Seq(Bytes)) /\ Len(o) = n
  BY <1>1, <1>4, FunctionIsSequence
<1>6. QED
  BY <1>4, <1>5 DEF n, f, o

(* What comes is the next compressed packet and what comes after it.       *)
LEMMA BehindStep ==
    ASSUME NEW ws \in Seq(DownPackets), NEW j \in 0..Len(ws)
    PROVE  /\ Behind(ws, j) \in Seq(Bytes)
           /\ j # Len(ws) => /\ Behind(ws, j) = Cat(Outer(ws[j + 1]), Behind(ws, j + 1))
                             /\ Behind(ws, j + 1) \in Seq(Bytes)
<1> DEFINE n == Len(ws)
           o == Outers(ws)
<1>1. /\ o \in Seq(Seq(Bytes)) /\ Len(o) = n /\ \A k \in 1..n : o[k] = Outer(ws[k])
  BY OutersShape
<1>2. n \in Nat /\ j \in Nat /\ j <= n
  BY SeqShape
<1> HIDE DEF n, o
<1>3. /\ SubSeq(o, j + 1, n) \in Seq(Seq(Bytes))
      /\ j < n => /\ Head(SubSeq(o, j + 1, n)) = o[j + 1] /\ SubSeq(o, j + 1, n) # <<>>
                  /\ Tail(SubSeq(o, j + 1, n)) = SubSeq(o, (j + 1) + 1, n)
  <2>1. j <= Len(o) /\ n <= Len(o) /\ j <= n
    BY <1>1, <1>2
  <2>2. /\ SubSeq(o, j + 1, n) \in Seq(Seq(Bytes))
        /\ SubSeq(o, j + 1, n) # <<>> <=> j < n
        /\ j < n => /\ Head(SubSeq(o, j + 1, n)) = o[j + 1]
                    /\ Tail(SubSeq(o, j + 1, n)) = SubSeq(o, (j + 1) + 1, n)
    <3> DEFINE X == Seq(Bytes)
    <3>1. o \in Seq(X) /\ j \in Nat /\ n \in Nat
      BY <1>1, <1>2
    <3>2. /\ SubSeq(o, j + 1, n) \in Seq(X)
          /\ SubSeq(o, j + 1, n) # <<>> <=> j < n
          /\ j < n => /\ Head(SubSeq(o, j + 1, n)) = o[j + 1]
                      /\ Tail(SubSeq(o, j + 1, n)) = SubSeq(o, (j + 1) + 1, n)
      <4> HIDE DEF X
      <4> QED
        BY <3>1, <2>1, TailOfPart, Zenon
    <3>3. QED
      BY <3>2
  <2>3. QED
    BY <2>2
<1>4. Behind(ws, j) = FlattenSeq(SubSeq(o, j + 1, n)) /\ Behind(ws, j + 1) = FlattenSeq(SubSeq(o, (j + 1) + 1, n))
  BY DEF Behind, n, o
<1>5. Behind(ws, j) \in Seq(Bytes)
  BY <1>3, <1>4, FlatType
<1>6. ASSUME j # n
      PROVE  Behind(ws, j) = Cat(Outer(ws[j + 1]), Behind(ws, j + 1)) /\ Behind(ws, j + 1) \in Seq(Bytes)
  <2>1. j < n /\ j + 1 \in 1..n
    BY <1>2, <1>6
  <2> DEFINE A == SubSeq(o, j + 1, n)
             B == SubSeq(o, (j + 1) + 1, n)
  <2>2. A \in Seq(Seq(Bytes)) /\ A # <<>> /\ Head(A) = o[j + 1] /\ Tail(A) = B
    BY <1>3, <2>1
  <2>3. Behind(ws, j) = FlattenSeq(A) /\ Behind(ws, j + 1) = FlattenSeq(B)
    BY <1>4
  <2> HIDE DEF A, B
  <2>4. FlattenSeq(A) = Cat(Head(A), FlattenSeq(Tail(A))) /\ FlattenSeq(Tail(A)) \in Seq(Bytes)
    BY <2>2, FlatFirst
  <2>5. o[j + 1] = Outer(ws[j + 1])
    BY <2>1, <1>1
  <2>6. QED
    BY <2>2, <2>3, <2>4, <2>5
<1>7. QED
  BY <1>5, <1>6 DEF n

(* Where the packet at position o ends, and what is queued of it.          *)
End(pkt, o) == o + Header + pkt[o + 1].len

Entry(pkt, o) == SubSeq(pkt, o + 1, Min({End(pkt, o), Len(pkt)}))

(* What is queued has numbers.                                             *)
Entries(q) == \A k \in 1..Len(q) : q[k][Header].nr \in NumberSet

(* The length of the packet at a position where a header begins.           *)
LEMMA HeaderByte ==
    ASSUME NEW pkt \in Seq(PlainBytes), NEW o \in Nat, IsHeader(pkt, o, Header - 1)
    PROVE  /\ Len(pkt) \in Nat /\ Len(pkt) >= o + (Header - 1) /\ pkt[o + 1].len \in Nat /\ End(pkt, o) \in Nat
           /\ End(pkt, o) >= o + Header
           /\ pkt[o + (Header - 1)].part = "head" /\ pkt[o + (Header - 1)].i = Header - 1
<1>1. Len(pkt) >= o + (Header - 1) /\ \A i \in 1..(Header - 1) : pkt[o + i].part = "head" /\ pkt[o + i].i = i
  BY DEF IsHeader
<1>2. Header - 1 \in 1..(Header - 1) /\ 1 \in 1..(Header - 1) /\ Header \in Nat /\ Header - 1 \in Nat
  BY Sizes
<1>3. Len(pkt) \in Nat /\ \A k \in 1..Len(pkt) : pkt[k] \in PlainBytes
  BY SeqShape
<1> DEFINE n == Len(pkt)
<1>4. o + 1 \in 1..n
  <2>1. n \in Nat /\ n >= o + (Header - 1)
    BY <1>1, <1>3
  <2> HIDE DEF n
  <2>2. QED
    BY <2>1, <1>2
<1> DEFINE b == pkt[o + 1]
<1>5. b \in PlainBytes /\ b.part = "head"
  BY <1>1, <1>2, <1>3, <1>4
<1>6. b.len \in Nat
  <2> HIDE DEF b
  <2>1. b \in HeadBytes
    BY <1>5 DEF PlainBytes, BodyBytes
  <2>2. b.len \in 0..MaxPayload
    BY <2>1 DEF HeadBytes
  <2>3. QED
    BY <2>2, Sizes
<1>7. End(pkt, o) \in Nat /\ End(pkt, o) >= o + Header
  <2> DEFINE l == b.len
  <2>1. End(pkt, o) = o + Header + l /\ l \in Nat
    BY <1>6 DEF End
  <2> HIDE DEF l
  <2>2. QED
    BY <2>1, <1>2
<1>8. QED
  BY <1>1, <1>2, <1>3, <1>6, <1>7

(* What is queued has a number, even after a hard cut.                     *)
LEMMA EntryShape ==
    ASSUME NEW s, NEW packets, NEW ends, NEW cuts, NEW ws, Answer(s, packets, ends, cuts, ws),
           NEW a \in Nat, NEW c \in Nat, a <= c, c <= Len(s), NEW pkt, pkt = SubSeq(s, a + 1, c),
           NEW o \in Nat, IsHeader(pkt, o, Header - 1), Len(pkt) >= o + Header
    PROVE  /\ End(pkt, o) \in Nat /\ Entry(pkt, o) \in Seq(PlainBytes)
           /\ Entry(pkt, o)[Header].nr \in NumberSet
<1>1. s \in Seq(PlainBytes)
  BY DEF Answer
<1>2. pkt \in Seq(PlainBytes) /\ Len(pkt) = c - a /\ \A i \in 1..(c - a) : pkt[i] = s[a + i]
  BY <1>1, Part
<1>3. /\ Len(pkt) \in Nat /\ End(pkt, o) \in Nat /\ End(pkt, o) >= o + Header
      /\ pkt[o + (Header - 1)].part = "head" /\ pkt[o + (Header - 1)].i = Header - 1
  BY <1>2, HeaderByte
<1>4. Header \in Nat /\ Header >= 2 /\ Len(s) \in Nat
  BY <1>1, Sizes, SeqShape
<1> DEFINE n == Len(pkt)
           e == End(pkt, o)
           z == Min({e, n})
<1>5. n \in Nat /\ e \in Nat /\ e >= o + Header /\ n >= o + Header /\ n = c - a
  BY <1>2, <1>3
<1>6. Entry(pkt, o) = SubSeq(pkt, o + 1, z)
  BY DEF Entry
<1>7. z \in Nat /\ z <= n /\ o + Header <= z
  <2> HIDE DEF n, e
  <2>1. z = IF e <= n THEN e ELSE n
    BY <1>5, MinOfTwo
  <2>2. QED
    BY <2>1, <1>4, <1>5
<1>8. o <= z /\ z - o >= Header
  <2> HIDE DEF z
  <2> QED
    BY <1>4, <1>7
<1> HIDE DEF z, e
<1>9. /\ SubSeq(pkt, o + 1, z) \in Seq(PlainBytes)
      /\ \A i \in 1..(z - o) : SubSeq(pkt, o + 1, z)[i] = pkt[o + i]
  BY <1>2, <1>7, <1>8, Part
<1> HIDE DEF n
<1>10. Header \in 1..(z - o)
  BY <1>4, <1>7, <1>8
<1>11. Entry(pkt, o)[Header] = pkt[o + Header]
  BY <1>6, <1>9, <1>10
<1> DEFINE x == (a + o) + (Header - 1)
<1>12. /\ o + Header \in 1..(c - a) /\ o + (Header - 1) \in 1..(c - a) /\ x \in 1..Len(s)
       /\ a + (o + Header) = x + 1 /\ a + (o + (Header - 1)) = x
  BY <1>4, <1>5
<1> HIDE DEF x
<1>13. pkt[o + Header] = s[x + 1] /\ pkt[o + (Header - 1)] = s[x]
  BY <1>2, <1>12
<1>14. s[x + 1].nr \in NumberSet
  BY <1>3, <1>12, <1>13, StreamHeads
<1>15. QED
  BY <1>3, <1>6, <1>9, <1>11, <1>13, <1>14

(* A packet is queued.                                                     *)
LEMMA EnqueueStep ==
    ASSUME ClientTypes, Entries(queue), NEW pkt \in Seq(PlainBytes), NEW o, End(pkt, o) \in Nat,
           Entry(pkt, o) \in Seq(PlainBytes), Entry(pkt, o)[Header].nr \in NumberSet, Enqueue(pkt, o)
    PROVE  /\ queue' = Append(queue, Entry(pkt, o)) /\ queue' \in Seq(Seq(PlainBytes)) /\ queue' # <<>>
           /\ Entries(queue') /\ recv' \in RecvType /\ recv'.at = "split" /\ recv'.need = 0
           /\ recv'.pkt = pkt /\ recv'.offset = End(pkt, o)
<1>1. /\ queue' = Append(queue, Entry(pkt, o))
      /\ recv' = [recv EXCEPT !.at = "split", !.need = 0, !.chunk = <<>>, !.pkt = pkt, !.offset = End(pkt, o)]
  BY DEF Enqueue, Entry, End
<1>2. /\ recv = [at |-> recv.at, need |-> recv.need, chunk |-> recv.chunk, head |-> recv.head,
                      pkt |-> recv.pkt, offset |-> recv.offset]
      /\ recv.head \in Seq(Bytes) /\ queue \in Seq(Seq(PlainBytes))
  BY ClientTypesParts
<1> DEFINE e == End(pkt, o)
           p == Entry(pkt, o)
           X == Seq(PlainBytes)
           n == Len(queue)
<1>3. recv' = [at |-> "split", need |-> 0, chunk |-> <<>>, head |-> recv.head, pkt |-> pkt, offset |-> e]
  <2> HIDE DEF e
  <2>1. recv' = [recv EXCEPT !.at = "split", !.need = 0, !.chunk = <<>>, !.pkt = pkt, !.offset = e]
    BY <1>1 DEF e
  <2>2. QED
    BY <2>1, <1>2
<1>4. recv' \in RecvType
  <2>1. "split" \in Places /\ <<>> \in Seq(Bytes) /\ 0 \in Nat
    BY DEF Places
  <2> HIDE DEF e
  <2>2. e \in Nat
    BY DEF e
  <2>3. QED
    BY <2>1, <2>2, <1>2, <1>3, RecvRecord
<1>5. queue \in Seq(X) /\ p \in X /\ queue' = Append(queue, p) /\ p[Header].nr \in NumberSet
      /\ \A k \in 1..n : queue[k][Header].nr \in NumberSet
  BY <1>1, <1>2 DEF Entries
<1> HIDE DEF X, p
<1>6. /\ queue' \in Seq(X) /\ Len(queue') = n + 1 /\ queue'[n + 1] = p
      /\ \A i \in 1..n : queue'[i] = queue[i]
      /\ queue' # <<>>
  BY <1>5, Appended
<1>7. n \in Nat
  BY <1>5, SeqShape
<1> HIDE DEF n
<1>8. Entries(queue')
  <2> SUFFICES ASSUME NEW k \in 1..Len(queue') PROVE queue'[k][Header].nr \in NumberSet
    BY DEF Entries
  <2>1. k \in 1..n \/ k = n + 1
    BY <1>6, <1>7
  <2>2. QED
    BY <2>1, <1>5, <1>6
<1>9. QED
  BY <1>1, <1>3, <1>4, <1>6, <1>8 DEF e, X

(* The packet p is the bytes b + 1 to d of s.                              *)
PacketAt(s, p, b, d) ==
    /\ p \in Replied /\ b \in Nat /\ d \in Nat /\ d <= Len(s) /\ d = b + Len(p)
    /\ p = SubSeq(s, b + 1, d) /\ \A y \in 1..Len(p) : s[b + y] = p[y]

(* The packet p is found at position o, as far as it is there.             *)
PacketFound(pkt, o, p, n, end, all) ==
    /\ pkt \in Seq(PlainBytes) /\ Len(pkt) = n /\ o \in Nat /\ IsHeader(pkt, o, Header - 1)
    /\ End(pkt, o) = end
    /\ all => Entry(pkt, o) = p

(* A packet is found at its place in a part of an answer.                  *)
LEMMA PacketInPart ==
    ASSUME NEW s \in Seq(PlainBytes), NEW p, NEW a \in Nat, NEW b, NEW c \in Nat, NEW d,
           PacketAt(s, p, b, d), a <= b, b + Header - 1 <= c, c <= Len(s),
           NEW pkt, pkt = SubSeq(s, a + 1, c), NEW o \in Nat, a + o = b
    PROVE  PacketFound(pkt, o, p, c - a, d - a, d <= c)
<1> DEFINE h == Len(p)
<1>20. /\ p \in Replied /\ b \in Nat /\ d \in Nat /\ d <= Len(s) /\ d = b + h
       /\ p = SubSeq(s, b + 1, d) /\ \A y \in 1..h : s[b + y] = p[y]
  BY DEF PacketAt
<1>21. a + o = b
  OBVIOUS
<1>1. PICK len \in 0..MaxPayload, nr \in NumberSet :
              /\ h = Header + len /\ p[1].len = len
              /\ \A i \in 1..Header : p[i].part = "head" /\ p[i].i = i
  BY <1>20, RepliedShape
<1>2. d = b + h /\ \A y \in 1..h : s[b + y] = p[y]
  BY <1>20
<1> HIDE DEF h
<1>3. Header \in Nat /\ Header >= 2 /\ len \in Nat /\ h \in Nat /\ h >= Header
  BY <1>1, Sizes
<1>22. b \in Nat /\ d \in Nat /\ d <= Len(s)
  BY <1>20
<1>4. a <= c /\ b <= c
  BY <1>3, <1>22
<1>5. a + o = b
  BY <1>21, <1>22
<1>6. pkt \in Seq(PlainBytes) /\ Len(pkt) = c - a /\ \A i \in 1..(c - a) : pkt[i] = s[a + i]
  <2>1. /\ SubSeq(s, a + 1, c) \in Seq(PlainBytes) /\ Len(SubSeq(s, a + 1, c)) = c - a
        /\ \A i \in 1..(c - a) : SubSeq(s, a + 1, c)[i] = s[a + i]
    BY <1>4, Part
  <2>2. QED
    BY <2>1
<1>7. \A i \in 1..(Header - 1) : pkt[o + i] = p[i] /\ i \in 1..Header
  <2> TAKE i \in 1..(Header - 1)
  <2>1. i \in 1..h /\ i \in 1..Header /\ i \in Nat
    BY <1>3
  <2>2. o + i \in 1..(c - a)
    BY <1>3, <1>21, <1>22
  <2>3. a + (o + i) = b + i
    BY <2>1, <1>5, <1>21, <1>22
  <2>4. QED
    BY <2>1, <2>2, <2>3, <1>2, <1>6
<1>8. IsHeader(pkt, o, Header - 1)
  <2>1. c - a >= o + (Header - 1)
    BY <1>3, <1>21, <1>22
  <2>2. QED
    BY <2>1, <1>1, <1>6, <1>7 DEF IsHeader
<1>9. End(pkt, o) = d - a
  <2>1. pkt[o + 1] = p[1]
    <3>1. 1 \in 1..(Header - 1)
      BY <1>3
    <3>2. QED
      BY <3>1, <1>7
  <2>2. End(pkt, o) = o + Header + len
    BY <2>1, <1>1 DEF End
  <2>3. o + Header + len = d - a
    <3>1. h = Header + len /\ d = b + h
      BY <1>1, <1>2
    <3>2. QED
      BY <3>1, <1>3, <1>21, <1>22
  <2>4. QED
    BY <2>2, <2>3
<1>10. ASSUME d <= c
       PROVE  Entry(pkt, o) = p
  <2> DEFINE e == d - a
  <2>1. e \in Nat /\ o <= e
    BY <1>2, <1>3, <1>21, <1>22
  <2>2. e <= c - a /\ a + e = d /\ c - a \in Nat
    BY <1>4, <1>10, <1>22
  <2>3. e = End(pkt, o)
    BY <1>9
  <2> HIDE DEF e
  <2>4. Min({e, c - a}) = e
    BY <2>1, <2>2, MinOfTwo
  <2>5. Entry(pkt, o) = SubSeq(pkt, o + 1, e)
    BY <2>3, <2>4, <1>6 DEF Entry
  <2> DEFINE r == SubSeq(pkt, o + 1, e)
  <2>6. r \in Seq(PlainBytes) /\ Len(r) = e - o /\ \A i \in 1..(e - o) : r[i] = pkt[o + i]
    <3>1. e <= Len(pkt)
      BY <2>2, <1>6
    <3>2. QED
      BY <3>1, <2>1, <1>6, <1>21, Part
  <2>7. Entry(pkt, o) = r
    BY <2>5
  <2> HIDE DEF r
  <2>8. e - o = h /\ e - o <= c - a
    BY <2>1, <2>2, <1>2, <1>3, <1>21, <1>22
  <2>9. \A i \in 1..h : r[i] = p[i]
    <3> TAKE i \in 1..h
    <3>1. o + i \in 1..(c - a)
      BY <2>1, <2>2, <2>8, <1>3, <1>21
    <3>2. a + (o + i) = b + i
      BY <1>5, <1>3, <1>21, <1>22
    <3>3. pkt[o + i] = s[b + i]
      BY <3>1, <3>2, <1>6
    <3>4. QED
      BY <3>3, <2>6, <2>8, <1>2
  <2>10. p \in Seq(PlainBytes)
    BY <1>20 DEF Replied
  <2>11. Len(r) = Len(p)
    BY <2>6, <2>8 DEF h
  <2>12. r = p
    BY <2>6, <2>9, <2>10, <2>11, SeqEqual DEF h
  <2>13. QED
    BY <2>7, <2>12
<1>11. QED
  BY <1>6, <1>8, <1>9, <1>10, <1>21 DEF PacketFound

(* So is the next packet of an answer that is not queued yet.              *)
LEMMA AlignedEntry ==
    ASSUME NEW s, NEW packets, NEW ends, NEW cuts, NEW ws, Answer(s, packets, ends, cuts, ws),
           NEW m \in 0..Len(packets), m # Len(packets), NEW a \in Nat, NEW c \in Nat, c <= Len(s),
           ends[m] + Header - 1 <= c, NEW pkt, pkt = SubSeq(s, a + 1, c), NEW o \in Nat, a + o = ends[m]
    PROVE  PacketFound(pkt, o, packets[m + 1], c - a, ends[m + 1] - a, ends[m + 1] <= c)
<1>1. s \in Seq(PlainBytes)
  BY DEF Answer
<1> DEFINE p == packets[m + 1]
           b == ends[m]
           d == ends[m + 1]
<1>2. /\ Len(s) \in Nat /\ b \in Nat /\ p \in Replied /\ d \in 0..Len(s) /\ d = b + Len(p)
      /\ p = SubSeq(s, b + 1, d) /\ \A y \in 1..Len(p) : s[b + y] = p[y]
  BY EndsGrow
<1> DEFINE L == Len(s)
<1>3. /\ L \in Nat /\ b \in Nat /\ d \in 0..L /\ b + Header - 1 <= c /\ a + o = b
  BY <1>2, Zenon
<1> HIDE DEF p, b, d, L
<1>4. d \in Nat /\ d <= L /\ a <= b
  BY <1>3
<1>5. PacketFound(pkt, o, p, c - a, d - a, d <= c)
  <2>1. d = b + Len(p) /\ p = SubSeq(s, b + 1, d) /\ p \in Replied
        /\ \A y \in 1..Len(p) : s[b + y] = p[y]
    BY <1>2 DEF p, b, d
  <2>2. d <= Len(s)
    BY <1>4 DEF L
  <2>3. PacketAt(s, p, b, d)
    BY <1>3, <1>4, <2>1, <2>2 DEF PacketAt
  <2>4. QED
    BY <1>1, <1>3, <1>4, <2>3, PacketInPart
<1>6. QED
  BY <1>5 DEF p, b, d

(* The client is somewhere in the answer after a step.                     *)
LEMMA CompressedNext ==
    ASSUME compressed, UNCHANGED compressed,
           NEW s, NEW packets, NEW ends, NEW cuts, NEW ws, Answer(s, packets, ends, cuts, ws),
           NEW j \in 0..Len(ws), NEW a \in 0..Len(s), Wire(ws, j)', Splitting(s, cuts, a, j)',
           kind'.hard \/ \E i \in 0..Len(packets), m \in 0..Len(packets) :
                           Aligned(packets, ends, cuts, ws, a, i, m, j)'
    PROVE  Follows'
<1>1. Receives(s, packets, ends, cuts, ws)'
  BY DEF Receives
<1>2. Answer(s, packets, ends, cuts, ws)'
  BY DEF Answer
<1>3. CompressedClient'
  BY <1>1, <1>2 DEF CompressedClient
<1>4. QED
  BY <1>3 DEF Follows

(* NetworkBrokerCompressed: recv() begins, with nothing queued.            *)
LEMMA CompressedRecvStep ==
    ASSUME PacketsInv, compressed, Recv, queue = <<>>
    PROVE  PacketsInv'
<1>1. /\ ~Stopped /\ owed # <<>> /\ recv.at = "idle"
      /\ recv' = Expect("header", OuterHeader) /\ UNCHANGED <<pktnr, queue, last, owed>>
      /\ UNCHANGED <<compressed, uplink, server, downlink, sending, kind, exchanges>>
  BY DEF Recv, Idle, Stopped
<1>2. Follows /\ ClientTypes
  BY <1>1 DEF PacketsInv, ClientHalf
<1>3. PICK s, packets, ends, cuts, ws :
           Answer(s, packets, ends, cuts, ws) /\ Receives(s, packets, ends, cuts, ws)
  BY <1>2 DEF Follows, CompressedClient
<1>4. PICK j \in 0..Len(ws), a \in 0..Len(s) :
        /\ Wire(ws, j) /\ Splitting(s, cuts, a, j)
        /\ kind.hard \/ \E i \in 0..Len(packets), m \in 0..Len(packets) :
                           Aligned(packets, ends, cuts, ws, a, i, m, j)
  BY <1>3 DEF Receives
<1>5. recv = NoRecv /\ downlink = Behind(ws, j) /\ (j # 0 => pktnr.outer = ws[j].nr)
  BY <1>1, <1>4 DEF Wire, AtBody
<1>6. /\ recv' \in RecvType
      /\ recv' = [at |-> "header", need |-> OuterHeader, chunk |-> <<>>, head |-> recv.head,
                  pkt |-> recv.pkt, offset |-> recv.offset]
  BY <1>1, <1>2, Expecting, Sizes DEF Phases
<1>7. recv'.at = "header" /\ recv'.need = OuterHeader /\ recv'.chunk = <<>> /\ recv'.pkt = <<>> /\ recv'.offset = 0
  BY <1>5, <1>6, NoRecvFields
<1>8. ClientTypes'
  BY <1>1, <1>2, <1>6 DEF ClientTypes
<1>9. Wire(ws, j)'
  <2>1. Cat(<<>>, downlink) = downlink /\ Len(<<>>) + OuterHeader = OuterHeader
    <3>1. downlink \in Seq(Bytes)
      BY <1>2, ClientTypesParts
    <3>2. Cat(<<>>, downlink) = downlink
      BY <3>1, CatEmpty
    <3>3. Len(<<>>) + OuterHeader = OuterHeader
      BY Sizes
    <3>4. QED
      BY <3>2, <3>3
  <2>2. Cat(recv'.chunk, downlink') = Behind(ws, j) /\ Len(recv'.chunk) + recv'.need = OuterHeader
    BY <2>1, <1>1, <1>5, <1>7
  <2>3. QED
    BY <2>2, <1>1, <1>5, <1>7 DEF Wire, AtBody, Behind, Outers
<1>10. Splitting(s, cuts, a, j)'
  BY <1>1, <1>4, <1>7 DEF Splitting, AtSplit, AtMore
<1>11. kind'.hard \/ \E i \in 0..Len(packets), m \in 0..Len(packets) :
                           Aligned(packets, ends, cuts, ws, a, i, m, j)'
  <2> SUFFICES ASSUME ~kind.hard PROVE \E i \in 0..Len(packets), m \in 0..Len(packets) :
                           Aligned(packets, ends, cuts, ws, a, i, m, j)'
    BY <1>1
  <2>1. PICK i \in 0..Len(packets), m \in 0..Len(packets) : Aligned(packets, ends, cuts, ws, a, i, m, j)
    BY <1>4
  <2>2. Aligned(packets, ends, cuts, ws, a, i, m, j)'
    BY <2>1, <1>1, <1>7 DEF Aligned, AtSplit, AtMore, Soft, Following
  <2>3. QED
    BY <2>2
<1>12. Follows'
  BY <1>1, <1>3, <1>9, <1>10, <1>11, CompressedNext
<1>13. QED
  BY <1>1, <1>8, <1>12, Types, ClientGoesOn

(* NetworkBrokerCompressed: bytes arrive.                                  *)
LEMMA CompressedRecvIntoStep ==
    ASSUME PacketsInv, compressed, RecvInto
    PROVE  PacketsInv'
<1>1. /\ recv.need # 0 /\ ClientTypes'
      /\ Cat(recv'.chunk, downlink') = Cat(recv.chunk, downlink)
      /\ Len(recv'.chunk) + recv'.need = Len(recv.chunk) + recv.need
      /\ recv'.at = recv.at /\ recv'.head = recv.head /\ recv'.pkt = recv.pkt /\ recv'.offset = recv.offset
  BY Types, ReadsSome
<1>2. UNCHANGED <<compressed, pktnr, queue, last, uplink, server, owed, sending, kind, exchanges>>
  BY DEF RecvInto
<1>3. recv # NoRecv
  BY <1>1, NoRecvFields
<1>4. ~Stopped /\ Follows
  BY <1>3 DEF PacketsInv, ClientHalf
<1>5. PICK s, packets, ends, cuts, ws :
           Answer(s, packets, ends, cuts, ws) /\ Receives(s, packets, ends, cuts, ws)
  BY <1>4 DEF Follows, CompressedClient
<1>6. PICK j \in 0..Len(ws), a \in 0..Len(s) :
        /\ Wire(ws, j) /\ Splitting(s, cuts, a, j)
        /\ kind.hard \/ \E i \in 0..Len(packets), m \in 0..Len(packets) :
                           Aligned(packets, ends, cuts, ws, a, i, m, j)
  BY <1>5 DEF Receives
<1>7. recv.at # "idle" /\ recv.at # "split"
  BY <1>1, <1>3, <1>6 DEF Wire
<1>8. owed # <<>>
  BY <1>7, Receiver
<1>9. Wire(ws, j)'
  BY <1>1, <1>2, <1>6, <1>7 DEF Wire, AtBody, Behind, Outers
<1>10. Splitting(s, cuts, a, j)'
  BY <1>1, <1>2, <1>6 DEF Splitting, AtSplit, AtMore
<1>11. kind'.hard \/ \E i \in 0..Len(packets), m \in 0..Len(packets) :
                           Aligned(packets, ends, cuts, ws, a, i, m, j)'
  <2> SUFFICES ASSUME ~kind.hard PROVE \E i \in 0..Len(packets), m \in 0..Len(packets) :
                           Aligned(packets, ends, cuts, ws, a, i, m, j)'
    BY <1>2
  <2>1. PICK i \in 0..Len(packets), m \in 0..Len(packets) : Aligned(packets, ends, cuts, ws, a, i, m, j)
    BY <1>6
  <2>2. Aligned(packets, ends, cuts, ws, a, i, m, j)'
    BY <2>1, <1>1, <1>2 DEF Aligned, AtSplit, AtMore, Soft, Following
  <2>3. QED
    BY <2>2
<1>12. Follows'
  BY <1>2, <1>5, <1>9, <1>10, <1>11, CompressedNext
<1>13. QED
  BY <1>1, <1>2, <1>4, <1>8, <1>12, Types, ClientGoesOn

(* NetworkBrokerCompressed: the timeout expires.                           *)
LEMMA CompressedTimeOutStep ==
    ASSUME PacketsInv, compressed, TimeOut
    PROVE  PacketsInv'
<1>1. /\ recv.need > 0 /\ Return("timeout", <<>>)
      /\ kind' = [kind EXCEPT !.torn = @ \/ recv.chunk # <<>> \/ recv.at # "header"]
      /\ UNCHANGED <<compressed, pktnr, queue, uplink, server, downlink, sending, exchanges>>
  BY DEF TimeOut
<1>2. recv # NoRecv
  BY <1>1, NoRecvFields
<1>3. ~Stopped /\ Follows /\ ClientTypes
  BY <1>2 DEF PacketsInv, ClientHalf
<1>4. PICK s, packets, ends, cuts, ws :
           Answer(s, packets, ends, cuts, ws) /\ Receives(s, packets, ends, cuts, ws)
  BY <1>3 DEF Follows, CompressedClient
<1>5. PICK j \in 0..Len(ws), a \in 0..Len(s) :
        /\ Wire(ws, j) /\ Splitting(s, cuts, a, j)
        /\ kind.hard \/ \E i \in 0..Len(packets), m \in 0..Len(packets) :
                           Aligned(packets, ends, cuts, ws, a, i, m, j)
  BY <1>4 DEF Receives
<1>6. owed # <<>>
  <2>1. recv.at # "idle"
    BY <1>2, <1>5 DEF Wire
  <2>2. QED
    BY <2>1, Receiver
<1>7. recv' = NoRecv /\ recv'.at = "idle" /\ owed' = owed
  BY <1>1, <1>3, <1>6, ReturnShape
<1>8. kind'.hard = kind.hard
  BY <1>1, Types
<1>9. ASSUME recv.at = "header", recv.chunk = <<>>
      PROVE  Follows'
  <2>1. downlink = Behind(ws, j)
    <3>1. Cat(<<>>, downlink) = downlink
      BY <1>3, ClientTypesParts, CatEmpty
    <3>2. QED
      BY <3>1, <1>5, <1>9 DEF Wire
  <2>2. Wire(ws, j)'
    BY <2>1, <1>1, <1>5, <1>7, <1>9 DEF Wire, AtBody, Behind, Outers
  <2>3. Splitting(s, cuts, a, j)'
    BY <1>1, <1>5, <1>7 DEF Splitting, AtSplit, AtMore
  <2>4. kind'.hard \/ \E i \in 0..Len(packets), m \in 0..Len(packets) :
                           Aligned(packets, ends, cuts, ws, a, i, m, j)'
    <3> SUFFICES ASSUME ~kind.hard PROVE \E i \in 0..Len(packets), m \in 0..Len(packets) :
                           Aligned(packets, ends, cuts, ws, a, i, m, j)'
      BY <1>8
    <3>1. PICK i \in 0..Len(packets), m \in 0..Len(packets) : Aligned(packets, ends, cuts, ws, a, i, m, j)
      BY <1>5
    <3>2. Aligned(packets, ends, cuts, ws, a, i, m, j)'
      BY <3>1, <1>1, <1>7, <1>9 DEF Aligned, AtSplit, AtMore, Soft, Following
    <3>3. QED
      BY <3>2
  <2>5. QED
    BY <2>2, <2>3, <2>4, <1>1, <1>4, CompressedNext
<1>10. QED
  BY <1>3, <1>6, <1>9, TimeOutStep

(* What is queued after the first.                                         *)
LEMMA EntriesTail ==
    ASSUME NEW q \in Seq(Seq(PlainBytes)), q # <<>>, Entries(q)
    PROVE  /\ Tail(q) \in Seq(Seq(PlainBytes)) /\ Entries(Tail(q)) /\ Head(q) = q[1]
           /\ Head(q)[Header].nr \in NumberSet
<1> DEFINE X == Seq(PlainBytes)
           n == Len(q)
           t == Tail(q)
<1>1. /\ Len(t) = n - 1 /\ n \in Nat /\ n >= 1 /\ Head(q) = q[1]
      /\ \A k \in 1..(n - 1) : t[k] = q[k + 1]
      /\ t \in Seq(X)
  <2>1. q \in Seq(X) /\ q # <<>>
    OBVIOUS
  <2> HIDE DEF X
  <2>2. QED
    BY <2>1, TailShape
<1>2. \A k \in 1..n : q[k][Header].nr \in NumberSet
  BY DEF Entries
<1> HIDE DEF n, t, X
<1>3. ASSUME NEW k \in 1..Len(t)
      PROVE  t[k][Header].nr \in NumberSet
  <2>1. k \in 1..(n - 1) /\ k + 1 \in 1..n
    BY <1>1
  <2>2. QED
    BY <2>1, <1>1, <1>2
<1>4. Entries(t)
  BY <1>3 DEF Entries
<1>5. 1 \in 1..n
  BY <1>1
<1>6. QED
  BY <1>1, <1>2, <1>4, <1>5 DEF t, X

(* The first packet queued is the first one owed, and so on after it.      *)
Consuming(packets, n, i, m) ==
    /\ i < m /\ i + 1 \in 0..n /\ i + 1 <= m /\ Head(queue) = owed[1]
    /\ Tail(owed) = SubSeq(packets, (i + 1) + 1, n)
    /\ Tail(queue) = SubSeq(packets, (i + 1) + 1, m)
    /\ Tail(owed) = <<>> => m = n

(* It is when the queue is the packets i + 1 to m.                         *)
LEMMA Consumed ==
    ASSUME NEW packets \in Seq(Replied), NEW i \in 0..Len(packets), NEW m \in 0..Len(packets), i <= m,
           owed = SubSeq(packets, i + 1, Len(packets)), queue = SubSeq(packets, i + 1, m), queue # <<>>
    PROVE  Consuming(packets, Len(packets), i, m)
<1> DEFINE n == Len(packets)
<1>1. n \in Nat /\ i \in Nat /\ m \in Nat /\ m <= n /\ i <= n
  BY SeqShape
<1> DEFINE A == SubSeq(packets, i + 1, n)
           B == SubSeq(packets, i + 1, m)
           C == SubSeq(packets, (i + 1) + 1, n)
           D == SubSeq(packets, (i + 1) + 1, m)
           z == i + 1
<1>2. /\ B # <<>> <=> i < m
      /\ i < m => Head(B) = packets[i + 1] /\ Tail(B) = D
  <2>1. m <= Len(packets) /\ i \in Nat /\ m \in Nat
    BY <1>1
  <2>2. QED
    BY <2>1, TailOfPart, Zenon
<1>3. /\ i < n => A[1] = packets[i + 1] /\ Tail(A) = C
  BY <1>1, TailOfPart
<1>4. i < m /\ i < n /\ i + 1 \in 0..n /\ i + 1 <= m
  <2>1. i < m
    BY <1>2
  <2>2. QED
    BY <2>1, <1>1
<1>5. C = <<>> => z = n
  BY <1>4, NoneLeft
<1>6. C = <<>> => m = n
  BY <1>1, <1>4, <1>5
<1> HIDE DEF A, B, C, D
<1>7. owed = A /\ queue = B
  BY DEF A, B
<1>8. QED
  BY <1>2, <1>3, <1>4, <1>6, <1>7 DEF C, D, Consuming

(* A queued packet is returned: the first one owed.                        *)
LEMMA DequeueStep ==
    ASSUME PacketsInv, compressed, ~Stopped, owed # <<>>, queue # <<>>,
           recv.at = "idle" \/ (recv.at = "split" /\ recv.offset >= Len(recv.pkt)), Dequeue(queue),
           UNCHANGED <<compressed, uplink, server, downlink, sending, kind, exchanges>>
    PROVE  PacketsInv'
<1>1. /\ queue' = Tail(queue) /\ pktnr' = [pktnr EXCEPT !.plain = Head(queue)[Header].nr]
      /\ Return("packet", Head(queue))
  BY DEF Dequeue
<1>2. Follows /\ ClientTypes
  BY DEF PacketsInv, ClientHalf
<1>3. PICK s, packets, ends, cuts, ws :
           Answer(s, packets, ends, cuts, ws) /\ Receives(s, packets, ends, cuts, ws)
  BY <1>2 DEF Follows, CompressedClient
<1>4. PICK j \in 0..Len(ws), a \in 0..Len(s) :
        /\ Wire(ws, j) /\ Splitting(s, cuts, a, j)
        /\ kind.hard \/ \E i \in 0..Len(packets), m \in 0..Len(packets) :
                           Aligned(packets, ends, cuts, ws, a, i, m, j)
  BY <1>3 DEF Receives
<1>5. downlink = Behind(ws, j) /\ (j # 0 => pktnr.outer = ws[j].nr)
  BY <1>4 DEF Wire, AtBody
<1>6. /\ queue' \in Seq(Seq(PlainBytes)) /\ Entries(queue') /\ Head(queue)[Header].nr \in NumberSet
  <2>1. queue \in Seq(Seq(PlainBytes))
    BY <1>2, ClientTypesParts
  <2>2. Entries(queue)
    BY <1>4 DEF Splitting, Entries
  <2>3. QED
    BY <2>1, <2>2, <1>1, EntriesTail
<1>7. pktnr' \in [plain : NumberSet, outer : NumberSet] /\ pktnr'.outer = pktnr.outer
  BY <1>1, <1>6, Types
<1>8. recv' = NoRecv /\ recv'.at = "idle" /\ owed' = Tail(owed)
  BY <1>1, <1>2, ReturnShape
<1>9. Wire(ws, j)'
  BY <1>5, <1>7, <1>8 DEF Wire, AtBody, Behind, Outers
<1>10. Splitting(s, cuts, a, j)'
  BY <1>6, <1>8 DEF Splitting, AtSplit, AtMore, Entries
<1>11. ASSUME ~kind.hard
       PROVE  /\ Head(queue) = owed[1]
              /\ \E i \in 0..Len(packets), m \in 0..Len(packets) :
                           Aligned(packets, ends, cuts, ws, a, i, m, j)'
              /\ Following /\ owed' = <<>> => server.nr = NextNumber(pktnr.outer)
  <2>1. PICK i \in 0..Len(packets), m \in 0..Len(packets) : Aligned(packets, ends, cuts, ws, a, i, m, j)
    BY <1>4, <1>11
  <2> DEFINE n == Len(packets)
             z == i + 1
  <2>2. /\ Soft(packets, ends, cuts, ws)
        /\ i <= m /\ owed = SubSeq(packets, i + 1, n) /\ queue = SubSeq(packets, i + 1, m)
        /\ Following => server.nr = NextNumber(ws[Len(ws)].nr)
    BY <2>1 DEF Aligned
  <2>3. packets \in Seq(Replied)
    BY <1>3 DEF Answer
  <2>4. i \in 0..n /\ m \in 0..n
    OBVIOUS
  <2>5. /\ i < m /\ z \in 0..n /\ z <= m /\ Head(queue) = owed[1]
        /\ Tail(owed) = SubSeq(packets, z + 1, n)
        /\ Tail(queue) = SubSeq(packets, z + 1, m)
        /\ Tail(owed) = <<>> => m = n
    <3>1. Consuming(packets, Len(packets), i, m)
      BY <2>2, <2>3, <2>4, Consumed
    <3>2. /\ i < m /\ i + 1 \in 0..n /\ i + 1 <= m /\ Head(queue) = owed[1]
          /\ Tail(owed) = SubSeq(packets, (i + 1) + 1, n)
          /\ Tail(queue) = SubSeq(packets, (i + 1) + 1, m)
          /\ Tail(owed) = <<>> => m = n
      BY <3>1 DEF Consuming
    <3>3. QED
      BY <3>2
  <2>6. ends[m] = cuts[j]
    <3>1. CASE recv.at = "idle"
      BY <2>1, <3>1 DEF Aligned, AtSplit
    <3>2. CASE recv.at = "split" /\ recv.offset >= Len(recv.pkt)
      <4>1. recv.offset = ends[m] - a /\ ends[m] <= cuts[j] /\ a <= cuts[j] /\ recv.pkt = SubSeq(s, a + 1, cuts[j])
        BY <2>1, <1>4, <3>2 DEF Aligned, AtSplit, Splitting
      <4>2. ends[m] \in Nat /\ cuts[j] \in 0..Len(s) /\ Len(s) \in Nat
        BY <1>3, EndsGrow, CutsGrow
      <4>3. s \in Seq(PlainBytes)
        BY <1>3 DEF Answer
      <4> DEFINE c == cuts[j]
                 b == ends[m]
                 L == Len(s)
      <4>4. c \in Nat /\ c <= L /\ a \in Nat /\ b \in Nat /\ b <= c /\ a <= c
        BY <4>1, <4>2
      <4>5. Len(recv.pkt) = c - a
        <5> HIDE DEF c, b
        <5>1. recv.pkt = SubSeq(s, a + 1, c)
          BY <4>1 DEF c
        <5>2. Len(SubSeq(s, a + 1, c)) = c - a
          BY <4>3, <4>4, Part
        <5>3. QED
          BY <5>1, <5>2
      <4>6. b - a >= c - a
        BY <4>1, <4>5, <3>2
      <4> HIDE DEF c, b, L
      <4>7. b = c
        BY <4>4, <4>6
      <4>8. QED
        BY <4>7 DEF b, c
    <3>3. QED
      BY <3>1, <3>2
  <2>7. Aligned(packets, ends, cuts, ws, a, z, m, j)'
    <3> HIDE DEF z, n
    <3>1. owed' = SubSeq(packets, z + 1, n) /\ queue' = SubSeq(packets, z + 1, m)
      BY <2>5, <1>1, <1>8
    <3>2. Following' = Following
      BY DEF Following
    <3>3. QED
      BY <2>2, <2>5, <2>6, <3>1, <3>2, <1>8 DEF Aligned, AtSplit, AtMore, Soft, n
  <2>8. ASSUME Following, owed' = <<>>
        PROVE  server.nr = NextNumber(pktnr.outer)
    <3>1. m = n
      BY <2>5, <2>8, <1>8
    <3>2. cuts[j] = Len(s)
      <4>1. ends[n] = Len(s)
        BY <1>3 DEF Answer
      <4>2. QED
        BY <4>1, <3>1, <2>6
    <3>3. cuts[j] > 0
      <4>1. i # n /\ i \in 0..n
        <5>1. i < m
          BY <2>5
        <5> HIDE DEF n
        <5>2. QED
          BY <3>1, <5>1, <2>4
      <4>2. /\ ends[i + 1] >= ends[i] + Header /\ ends[i] \in Nat /\ ends[i + 1] \in 0..Len(s)
        BY <4>1, <1>3, EndsGrow
      <4>3. Len(s) \in Nat
        BY <1>3, CutsGrow
      <4> DEFINE L == Len(s)
                 u == ends[i]
                 v == ends[i + 1]
      <4>4. v >= u + Header /\ u \in Nat /\ v \in 0..L /\ L \in Nat
        BY <4>2, <4>3
      <4> HIDE DEF L, u, v
      <4>5. L > 0
        BY <4>4, Sizes
      <4>6. QED
        BY <4>5, <3>2 DEF L
    <3>4. j = Len(ws) /\ j # 0
      BY <3>2, <3>3, <1>3, CutsGrow
    <3>5. QED
      BY <3>4, <2>2, <2>8, <1>5
  <2>9. QED
    BY <2>5, <2>7, <2>8
<1>12. Follows'
  <2>1. kind'.hard \/ \E i \in 0..Len(packets), m \in 0..Len(packets) :
                           Aligned(packets, ends, cuts, ws, a, i, m, j)'
    BY <1>11
  <2>2. QED
    BY <2>1, <1>3, <1>9, <1>10, CompressedNext
<1>13. DataNumbers'
  <2> SUFFICES ASSUME sending.turn = "data", ~sending.emptyLast, ~kind.hard, owed' = <<>>
               PROVE  server.nr = NextNumber(Latest')
    BY DEF DataNumbers
  <2>1. server.nr = NextNumber(pktnr.outer)
    BY <1>11 DEF Following
  <2>2. QED
    BY <2>1, <1>7 DEF Latest
<1>14. downlink' \in Seq(Bytes)
  BY <1>2, ClientTypesParts
<1>15. kind.hard \/ Head(queue) = owed[1]
  BY <1>11
<1>16. QED
  BY <1>1, <1>6, <1>7, <1>12, <1>13, <1>14, <1>15, ClientReturns

(* A header that is read is the one of the next compressed packet.         *)
LEMMA HeaderIsRead ==
    ASSUME NEW ws \in Seq(DownPackets), NEW j \in 0..Len(ws), NEW chunk \in Seq(Bytes), NEW x \in Seq(Bytes),
           Cat(chunk, x) = Behind(ws, j), Len(chunk) = OuterHeader
    PROVE  /\ j < Len(ws) /\ j # Len(ws) /\ ws[j + 1] \in DownPackets /\ chunk[1] = OuterByte(1, ws[j + 1])
           /\ x = Cat(ws[j + 1].body, Behind(ws, j + 1))
<1> DEFINE n == Len(ws)
<1>1. n \in Nat /\ j \in 0..n /\ \A k \in 1..n : ws[k] \in DownPackets
  BY SeqShape
<1>2. j # n
  <2> SUFFICES ASSUME j = n PROVE FALSE
    OBVIOUS
  <2>1. Cat(chunk, x) = <<>>
    BY BehindAll
  <2>2. Len(chunk) = 0
    BY <2>1, CatNothing
  <2>3. QED
    BY <2>2, Sizes
<1>3. j < n /\ j + 1 \in 1..n
  <2> HIDE DEF n
  <2> QED
    BY <1>1, <1>2
<1> DEFINE p == ws[j + 1]
           B == Behind(ws, j + 1)
<1>4. Behind(ws, j) = Cat(Outer(p), B) /\ B \in Seq(Bytes)
  BY <1>2, BehindStep
<1>5. p \in DownPackets
  BY <1>1, <1>3
<1> HIDE DEF p, B, n
<1>6. PICK head \in Seq(Bytes) : /\ Len(head) = OuterHeader /\ head[1] = OuterByte(1, p)
                                 /\ Outer(p) = Cat(head, p.body) /\ p.body \in Seq(Bytes)
  BY <1>5, OuterShape
<1>7. Cat(chunk, x) = Cat(head, Cat(p.body, B)) /\ Cat(p.body, B) \in Seq(Bytes)
  <2> DEFINE b == p.body
  <2>1. b \in Seq(Bytes) /\ B \in Seq(Bytes) /\ head \in Seq(Bytes)
    BY <1>4, <1>6
  <2>2. Cat(chunk, x) = Cat(Cat(head, b), B)
    BY <1>4, <1>6
  <2> HIDE DEF b
  <2>3. Cat(Cat(head, b), B) = Cat(head, Cat(b, B))
    BY <2>1, CatAssoc
  <2>4. Cat(b, B) \in Seq(Bytes)
    BY <2>1, CatType
  <2>5. QED
    BY <2>2, <2>3, <2>4 DEF b
<1>8. chunk = head /\ x = Cat(p.body, B)
  <2> DEFINE r == Cat(p.body, B)
  <2>1. r \in Seq(Bytes) /\ Cat(chunk, x) = Cat(head, r) /\ Len(chunk) = Len(head)
    BY <1>6, <1>7
  <2> HIDE DEF r
  <2>2. chunk = head /\ x = r
    BY <2>1, CatSame
  <2>3. QED
    BY <2>2 DEF r
<1>9. QED
  BY <1>2, <1>3, <1>5, <1>6, <1>8 DEF p, B, n

(* The header of a compressed packet is read.                              *)
LEMMA OuterHeaderStep ==
    ASSUME PacketsInv, OuterHeaderRead
    PROVE  PacketsInv'
<1> DEFINE phase == IF recv.at = "header" THEN "body" ELSE "more body"
<1>1. /\ recv.at = "header" \/ recv.at = "more header"
      /\ recv.need = 0 /\ compressed
      /\ pktnr' = [pktnr EXCEPT !.outer = recv.chunk[1].nr]
      /\ recv' = [Expect(phase, recv.chunk[1].len) EXCEPT !.head = recv.chunk]
      /\ UNCHANGED <<compressed, queue, last, uplink, server, downlink, owed, sending, kind, exchanges>>
  BY DEF OuterHeaderRead
<1>2. owed # <<>> /\ ~Stopped /\ Follows /\ ClientTypes
  BY <1>1, Receiver, Types
<1>3. PICK s, packets, ends, cuts, ws :
           Answer(s, packets, ends, cuts, ws) /\ Receives(s, packets, ends, cuts, ws)
  BY <1>1, <1>2 DEF Follows, CompressedClient
<1>4. PICK j \in 0..Len(ws), a \in 0..Len(s) :
        /\ Wire(ws, j) /\ Splitting(s, cuts, a, j)
        /\ kind.hard \/ \E i \in 0..Len(packets), m \in 0..Len(packets) :
                           Aligned(packets, ends, cuts, ws, a, i, m, j)
  BY <1>3 DEF Receives
<1>5. ws \in Seq(DownPackets)
  BY <1>3 DEF Answer
<1>6. Cat(recv.chunk, downlink) = Behind(ws, j) /\ Len(recv.chunk) + recv.need = OuterHeader
  BY <1>1, <1>4 DEF Wire
<1>7. recv.chunk \in Seq(Bytes) /\ downlink \in Seq(Bytes)
  BY <1>2, ClientTypesParts
<1>8. Len(recv.chunk) = OuterHeader
  <2> DEFINE c == Len(recv.chunk)
  <2>1. c \in Nat /\ c + 0 = OuterHeader
    BY <1>1, <1>6, <1>7, SeqShape
  <2> HIDE DEF c
  <2>2. c = OuterHeader
    BY <2>1
  <2>3. QED
    BY <2>2 DEF c
<1> DEFINE p == ws[j + 1]
           B == Behind(ws, j + 1)
           l == Len(p.body)
<1>9. j < Len(ws) /\ p \in DownPackets /\ recv.chunk[1] = OuterByte(1, p) /\ downlink = Cat(p.body, B)
  BY <1>5, <1>6, <1>7, <1>8, HeaderIsRead
<1>10. OuterByte(1, p).nr = p.nr /\ OuterByte(1, p).len = l /\ l \in Nat /\ p.nr \in NumberSet
  <2> HIDE DEF p
  <2>1. p \in DownPackets
    BY <1>9
  <2>2. QED
    BY <2>1, OuterShape
<1> HIDE DEF p, B, l
<1>11. recv.chunk[1].nr = p.nr /\ recv.chunk[1].len = l
  BY <1>9, <1>10
<1>12. phase \in Phases /\ (phase = "body" \/ phase = "more body") /\ (phase = "body" <=> recv.at = "header")
       /\ (phase = "more body" <=> recv.at = "more header")
  BY <1>1 DEF Phases
<1> HIDE DEF phase
<1>13. /\ recv' \in RecvType
       /\ recv' = [at |-> phase, need |-> l, chunk |-> <<>>, head |-> recv.chunk,
                   pkt |-> recv.pkt, offset |-> recv.offset]
  BY <1>1, <1>2, <1>10, <1>11, <1>12, Expecting
<1>14. /\ recv'.at = phase /\ recv'.need = l /\ recv'.chunk = <<>> /\ recv'.head = recv.chunk
       /\ recv'.pkt = recv.pkt /\ recv'.offset = recv.offset
  BY <1>13
<1>15. ClientTypes'
  BY <1>1, <1>2, <1>13 DEF ClientTypes
<1>16. pktnr' \in [plain : NumberSet, outer : NumberSet] /\ pktnr'.outer = p.nr
  BY <1>1, <1>10, <1>11, Types
<1>17. Wire(ws, j)'
  <2>1. Cat(<<>>, downlink) = downlink
    BY <1>7, CatEmpty
  <2>2. Len(<<>>) + l = l
    BY <1>10
  <2>3. /\ Cat(recv'.chunk, downlink') = Cat(p.body, B) /\ Len(recv'.chunk) + recv'.need = l
        /\ recv'.head[1] = OuterByte(1, p) /\ AtBody'
    BY <2>1, <2>2, <1>1, <1>9, <1>12, <1>14 DEF AtBody
  <2>4. recv'.at # "idle" /\ recv'.at # "split" /\ recv'.at # "header" /\ recv'.at # "more header"
    BY <1>12, <1>14
  <2>5. QED
    BY <2>3, <2>4, <1>9, <1>16 DEF Wire, p, B, l, Behind, Outers
<1>18. Splitting(s, cuts, a, j)'
  BY <1>1, <1>4, <1>12, <1>14 DEF Splitting, AtSplit, AtMore
<1>19. kind'.hard \/ \E i \in 0..Len(packets), m \in 0..Len(packets) :
                           Aligned(packets, ends, cuts, ws, a, i, m, j)'
  <2> SUFFICES ASSUME ~kind.hard PROVE \E i \in 0..Len(packets), m \in 0..Len(packets) :
                           Aligned(packets, ends, cuts, ws, a, i, m, j)'
    BY <1>1
  <2>1. PICK i \in 0..Len(packets), m \in 0..Len(packets) : Aligned(packets, ends, cuts, ws, a, i, m, j)
    BY <1>4
  <2>2. (AtSplit' <=> AtSplit) /\ (AtMore' <=> AtMore)
    <3>1. recv'.at = phase
      BY <1>14
    <3>2. CASE recv.at = "header"
      <4>1. recv'.at = "body"
        BY <3>1, <3>2, <1>12
      <4>2. QED
        BY <3>2, <4>1 DEF AtSplit, AtMore
    <3>3. CASE recv.at = "more header"
      <4>1. recv'.at = "more body"
        BY <3>1, <3>3, <1>12
      <4>2. QED
        BY <3>3, <4>1 DEF AtSplit, AtMore
    <3>4. QED
      BY <3>2, <3>3, <1>1
  <2>3. Following' = Following
    BY <1>1 DEF Following
  <2>4. Aligned(packets, ends, cuts, ws, a, i, m, j)'
    BY <2>1, <2>2, <2>3, <1>1, <1>14 DEF Aligned, Soft
  <2>5. QED
    BY <2>4
<1>20. Follows'
  BY <1>1, <1>3, <1>17, <1>18, <1>19, CompressedNext
<1>21. QED
  BY <1>1, <1>2, <1>15, <1>16, <1>20, ClientGoesOn

(* A part of a sequence and the element after it.                          *)
LEMMA PartGrows ==
    ASSUME NEW X, NEW p \in Seq(X), NEW i \in Nat, NEW m \in Nat, i <= m, m + 1 <= Len(p)
    PROVE  Append(SubSeq(p, i + 1, m), p[m + 1]) = SubSeq(p, i + 1, m + 1)
<1> DEFINE z == m + 1
           A == SubSeq(p, i + 1, m)
           B == SubSeq(p, i + 1, z)
           C == Append(A, p[z])
<1>1. m <= Len(p) /\ Len(p) \in Nat
  BY SeqShape
<1>2. A \in Seq(X) /\ Len(A) = m - i /\ \A k \in 1..(m - i) : A[k] = p[i + k]
  BY <1>1, Part
<1>3. z \in Nat /\ i <= z /\ z <= Len(p) /\ z = m + 1
  OBVIOUS
<1> HIDE DEF z
<1>4. B \in Seq(X) /\ Len(B) = z - i /\ \A k \in 1..(z - i) : B[k] = p[i + k]
  BY <1>3, Part
<1>5. p[z] \in X
  <2>1. z \in 1..Len(p)
    BY <1>1, <1>3
  <2>2. QED
    BY <2>1, SeqShape
<1> DEFINE e == p[z]
<1> HIDE DEF A, B, e
<1>6. /\ C \in Seq(X) /\ Len(C) = Len(A) + 1 /\ C[Len(A) + 1] = e
      /\ \A k \in 1..Len(A) : C[k] = A[k]
  BY <1>2, <1>5, Appended DEF e
<1> HIDE DEF C
<1>7. Len(C) = z - i
  BY <1>2, <1>3, <1>6
<1>8. \A k \in 1..(z - i) : C[k] = B[k]
  <2> TAKE k \in 1..(z - i)
  <2>1. CASE k = z - i
    <3>1. k = Len(A) + 1 /\ i + k = z
      BY <2>1, <1>2, <1>3
    <3>2. C[k] = e /\ B[k] = e
      BY <3>1, <1>4, <1>6 DEF e
    <3>3. QED
      BY <3>2
  <2>2. CASE k # z - i
    <3>1. k \in 1..(m - i) /\ k \in 1..Len(A)
      BY <2>2, <1>2, <1>3
    <3>2. QED
      BY <3>1, <1>2, <1>4, <1>6
  <2>3. QED
    BY <2>1, <2>2
<1>9. C = B
  BY <1>4, <1>6, <1>7, <1>8, SeqEqual
<1>10. QED
  BY <1>9 DEF C, B, A, e, z

(* A header that is found is found when more bytes are there.              *)
LEMMA HeaderStays ==
    ASSUME NEW s \in Seq(PlainBytes), NEW a \in Nat, NEW c \in Nat, NEW d \in Nat, a <= c, c < d, d <= Len(s),
           NEW o \in Nat, IsHeader(SubSeq(s, a + 1, c), o, Header - 1)
    PROVE  IsHeader(SubSeq(s, a + 1, d), o, Header - 1) /\ Len(SubSeq(s, a + 1, d)) >= o + Header
<1> DEFINE p == SubSeq(s, a + 1, c)
           q == SubSeq(s, a + 1, d)
<1>1. Len(s) \in Nat /\ c <= Len(s) /\ a <= d
  BY SeqShape
<1>2. Len(p) = c - a /\ \A i \in 1..(c - a) : p[i] = s[a + i]
  BY <1>1, Part
<1>3. Len(q) = d - a /\ \A i \in 1..(d - a) : q[i] = s[a + i]
  BY <1>1, Part
<1> HIDE DEF p, q
<1>4. Len(p) >= o + (Header - 1) /\ \A i \in 1..(Header - 1) : p[o + i].part = "head" /\ p[o + i].i = i
  BY DEF IsHeader, p
<1>5. c - a >= o + (Header - 1) /\ Header \in Nat /\ Header >= 2
  BY <1>2, <1>4, Sizes
<1>6. d - a >= o + Header
  BY <1>5
<1>7. \A i \in 1..(Header - 1) : q[o + i] = p[o + i]
  <2> TAKE i \in 1..(Header - 1)
  <2>1. o + i \in 1..(c - a) /\ o + i \in 1..(d - a)
    BY <1>5, <1>6
  <2>2. QED
    BY <2>1, <1>2, <1>3
<1>8. d - a >= o + (Header - 1)
  BY <1>5, <1>6
<1>9. IsHeader(q, o, Header - 1)
  BY <1>3, <1>4, <1>7, <1>8 DEF IsHeader
<1>10. QED
  BY <1>3, <1>6, <1>9 DEF q

(* The next packet of the answer is all there.                             *)
OneMore(packets, ends, cuts, ws, a, i, m, j) ==
    /\ Soft(packets, ends, cuts, ws)
    /\ i <= m /\ m # Len(packets)
    /\ owed = SubSeq(packets, i + 1, Len(packets)) /\ queue = SubSeq(packets, i + 1, m)
    /\ a = ends[i] /\ recv.offset = ends[m] - a /\ ends[m + 1] <= cuts[j]
    /\ Following /\ owed # <<>> => server.nr = NextNumber(ws[Len(ws)].nr)

(* It is queued.                                                           *)
LEMMA EnqueueFollows ==
    ASSUME compressed, ClientTypes, NEW s, NEW packets, NEW ends, NEW cuts, NEW ws,
           Answer(s, packets, ends, cuts, ws), NEW j \in 0..Len(ws), NEW a \in 0..Len(s), a <= cuts[j],
           NEW pkt, pkt = SubSeq(s, a + 1, cuts[j]),
           IsHeader(pkt, recv.offset, Header - 1), Len(pkt) >= recv.offset + Header, Entries(queue),
           Enqueue(pkt, recv.offset), UNCHANGED <<compressed, kind, sending, server, owed, pktnr, downlink>>,
           downlink = Behind(ws, j), j # 0 => pktnr.outer = ws[j].nr,
           kind.hard \/ \E i \in 0..Len(packets), m \in 0..Len(packets) :
                           OneMore(packets, ends, cuts, ws, a, i, m, j)
    PROVE  Follows' /\ ClientTypes'
<1>1. s \in Seq(PlainBytes) /\ packets \in Seq(Replied) /\ ws \in Seq(DownPackets)
  BY DEF Answer
<1>2. cuts[j] \in 0..Len(s) /\ Len(s) \in Nat
  BY CutsGrow
<1> DEFINE c == cuts[j]
           o == recv.offset
           L == Len(s)
<1>3. c \in Nat /\ c <= L /\ a \in Nat /\ a <= c /\ L \in Nat
  BY <1>2
<1>4. o \in Nat /\ downlink \in Seq(Bytes) /\ owed \in Seq(Replied) /\ queue \in Seq(Seq(PlainBytes))
  BY ClientTypesParts
<1>5. pkt = SubSeq(s, a + 1, c) /\ IsHeader(pkt, o, Header - 1) /\ Len(pkt) >= o + Header /\ Enqueue(pkt, o)
  OBVIOUS
<1>6. pkt \in Seq(PlainBytes)
  <2> HIDE DEF c
  <2>1. SubSeq(s, a + 1, c) \in Seq(PlainBytes)
    BY <1>1, <1>3, Part DEF L
  <2>2. QED
    BY <2>1, <1>5
<1> HIDE DEF c, o
<1>7. End(pkt, o) \in Nat /\ Entry(pkt, o) \in Seq(PlainBytes) /\ Entry(pkt, o)[Header].nr \in NumberSet
  BY <1>3, <1>4, <1>5, EntryShape DEF L
<1>8. /\ queue' = Append(queue, Entry(pkt, o)) /\ queue' \in Seq(Seq(PlainBytes)) /\ queue' # <<>>
      /\ Entries(queue') /\ recv' \in RecvType /\ recv'.at = "split" /\ recv'.need = 0
      /\ recv'.pkt = pkt /\ recv'.offset = End(pkt, o)
  BY <1>5, <1>6, <1>7, EnqueueStep
<1>9. ClientTypes'
  BY <1>4, <1>8 DEF ClientTypes
<1>10. Wire(ws, j)'
  BY <1>8 DEF Wire, AtBody, Behind, Outers
<1>11. Splitting(s, cuts, a, j)'
  <2>1. \A k \in 1..Len(queue') : queue'[k][Header].nr \in NumberSet
    BY <1>8 DEF Entries
  <2>2. recv'.pkt = SubSeq(s, a + 1, cuts[j])
    BY <1>8
  <2>3. QED
    BY <1>8, <2>1, <2>2 DEF Splitting, AtSplit, AtMore
<1>12. ASSUME ~kind.hard
       PROVE  \E i \in 0..Len(packets), m \in 0..Len(packets) : Aligned(packets, ends, cuts, ws, a, i, m, j)'
  <2>1. PICK i \in 0..Len(packets), m \in 0..Len(packets) : OneMore(packets, ends, cuts, ws, a, i, m, j)
    BY <1>12
  <2> DEFINE n == Len(packets)
             z == m + 1
  <2>2. /\ Soft(packets, ends, cuts, ws)
        /\ i <= m /\ m # n /\ owed = SubSeq(packets, i + 1, n) /\ queue = SubSeq(packets, i + 1, m)
        /\ a = ends[i] /\ o = ends[m] - a /\ ends[z] <= c
        /\ (Following /\ owed # <<>> => server.nr = NextNumber(ws[Len(ws)].nr))
    BY <2>1 DEF OneMore, c, o
  <2>3. /\ ends[m] \in Nat /\ ends[z] \in 0..L /\ ends[z] >= ends[m] + Header /\ n \in Nat
        /\ z \in 1..n /\ z \in 0..n
    BY <2>2, EndsGrow
  <2>4. a + o = ends[m] /\ ends[m] + Header - 1 <= c /\ c <= Len(s)
    <3> DEFINE u == ends[m]
               v == ends[z]
    <3>1. u \in Nat /\ v \in 0..L /\ v >= u + Header /\ v <= c /\ o = u - a
      BY <2>2, <2>3
    <3> HIDE DEF u, v, z
    <3>2. a + o = u
      BY <3>1, <1>3, <1>4
    <3>3. u + Header - 1 <= c
      BY <3>1, <1>3, Sizes
    <3>4. QED
      BY <3>2, <3>3, <1>3 DEF u, L
  <2>5. /\ End(pkt, o) = ends[m + 1] - a
        /\ ends[m + 1] <= c => Entry(pkt, o) = packets[m + 1]
    <3>1. pkt = SubSeq(s, a + 1, c) /\ m # Len(packets) /\ a \in Nat /\ c \in Nat /\ o \in Nat
      BY <2>2, <1>3, <1>4, <1>5
    <3>2. PacketFound(pkt, o, packets[m + 1], c - a, ends[m + 1] - a, ends[m + 1] <= c)
      BY <2>4, <3>1, AlignedEntry
    <3>3. QED
      BY <3>2 DEF PacketFound
  <2>6. Entry(pkt, o) = packets[z] /\ recv'.offset = ends[z] - a
    BY <2>2, <2>5, <1>8
  <2>7. queue' = SubSeq(packets, i + 1, z)
    <3>1. i \in Nat /\ m \in Nat /\ m + 1 <= n
      BY <2>3
    <3>2. Append(SubSeq(packets, i + 1, m), packets[m + 1]) = SubSeq(packets, i + 1, m + 1)
      BY <3>1, <2>2, <1>1, PartGrows
    <3>3. QED
      BY <3>2, <2>2, <2>6, <1>8
  <2>8. i <= z
    <3> HIDE DEF n
    <3> QED
      BY <2>2, <2>3
  <2>9. Following' = Following
    BY DEF Following
  <2>10. Aligned(packets, ends, cuts, ws, a, i, z, j)'
    <3> HIDE DEF z
    <3>1. ends[z] <= cuts[j]
      BY <2>2 DEF c
    <3>2. QED
      BY <2>2, <2>6, <2>7, <2>8, <2>9, <3>1, <1>8 DEF Aligned, AtSplit, AtMore, Soft, n
  <2>11. QED
    BY <2>3, <2>10
<1>13. kind'.hard \/ \E i \in 0..Len(packets), m \in 0..Len(packets) :
                           Aligned(packets, ends, cuts, ws, a, i, m, j)'
  BY <1>12
<1>14. Follows'
  BY <1>10, <1>11, <1>13, CompressedNext
<1>15. QED
  BY <1>9, <1>14

(* A body that is read is what the next compressed packet carries.         *)
LEMMA BodyIsRead ==
    ASSUME PacketsInv, AtBody, recv.need = 0,
           NEW s, NEW packets, NEW ends, NEW cuts, NEW ws, Answer(s, packets, ends, cuts, ws),
           NEW j \in 0..Len(ws), Wire(ws, j)
    PROVE  /\ j # Len(ws) /\ j + 1 \in 0..Len(ws) /\ j + 1 # 0
           /\ downlink = Behind(ws, j + 1) /\ pktnr.outer = ws[j + 1].nr
           /\ Unzipped(recv.head[1].size, recv.chunk) = SubSeq(s, cuts[j] + 1, cuts[j + 1])
           /\ cuts[j] \in Nat /\ cuts[j + 1] \in Nat /\ cuts[j] < cuts[j + 1] /\ cuts[j + 1] <= Len(s)
<1>1. /\ j < Len(ws) /\ recv.head[1] = OuterByte(1, ws[j + 1])
      /\ Cat(recv.chunk, downlink) = Cat(ws[j + 1].body, Behind(ws, j + 1))
      /\ Len(recv.chunk) + recv.need = Len(ws[j + 1].body)
      /\ pktnr.outer = ws[j + 1].nr
  BY DEF Wire
<1>2. ws \in Seq(DownPackets)
  BY DEF Answer
<1>3. /\ Len(s) \in Nat /\ Len(ws) \in Nat /\ cuts[j] \in 0..Len(s)
      /\ j # Len(ws) => j + 1 \in 0..Len(ws)
                             /\ cuts[j + 1] \in 0..Len(s) /\ cuts[j] < cuts[j + 1]
                             /\ Plain(ws[j + 1]) = SubSeq(s, cuts[j] + 1, cuts[j + 1])
                             /\ ws[j + 1] \in DownPackets
  BY CutsGrow
<1> DEFINE n == Len(ws)
           L == Len(s)
           c == cuts[j]
           d == cuts[j + 1]
<1>4. j # n /\ j + 1 \in 0..n /\ j + 1 # 0
  <2>1. j < n /\ n \in Nat /\ j \in 0..n
    BY <1>1, <1>3
  <2> HIDE DEF n
  <2>2. QED
    BY <2>1
<1>5. c \in 0..L /\ d \in 0..L /\ L \in Nat /\ c < d
  BY <1>3, <1>4
<1> DEFINE p == ws[j + 1]
           B == Behind(ws, j + 1)
           b == recv.chunk
           x == downlink
           z == p.body
<1>6. b \in Seq(Bytes) /\ x \in Seq(Bytes) /\ B \in Seq(Bytes)
  <2>1. B \in Seq(Bytes)
    BY <1>2, <1>4, BehindStep
  <2>2. QED
    BY <2>1, Types, ClientTypesParts
<1>7. z \in Seq(Bytes) /\ OuterByte(1, p).size = p.size /\ Plain(p) = SubSeq(s, c + 1, d)
  <2>1. p \in DownPackets /\ Plain(p) = SubSeq(s, c + 1, d)
    BY <1>3, <1>4
  <2> HIDE DEF p
  <2>2. p.body \in Seq(Bytes) /\ OuterByte(1, p).size = p.size
    BY <2>1, OuterShape
  <2>3. QED
    BY <2>1, <2>2
<1>8. Len(b) = Len(z)
  <2>1. Len(b) \in Nat /\ Len(z) \in Nat
    BY <1>6, <1>7, SeqShape
  <2>2. Len(b) + recv.need = Len(z)
    BY <1>1
  <2> HIDE DEF b, z
  <2>3. QED
    BY <2>1, <2>2
<1>9. b = z /\ x = B
  <2>1. Cat(b, x) = Cat(z, B)
    BY <1>1
  <2> HIDE DEF b, x, z, B
  <2>2. QED
    BY <2>1, <1>6, <1>7, <1>8, CatSame
<1>10. Unzipped(recv.head[1].size, b) = Plain(p)
  <2>1. recv.head[1].size = p.size
    BY <1>1, <1>7
  <2>2. QED
    BY <2>1, <1>9 DEF Plain
<1> HIDE DEF n, L, c, d
<1>11. c \in Nat /\ d \in Nat /\ c < d /\ d <= L
  BY <1>5
<1>12. QED
  BY <1>1, <1>4, <1>7, <1>9, <1>10, <1>11 DEF n, L, c, d

(* The first compressed packet is read.                                    *)
LEMMA FirstBodyStep ==
    ASSUME PacketsInv, OuterBodyRead, recv.at = "body"
    PROVE  PacketsInv'
<1> DEFINE pkt == Cat(recv.pkt, Unzipped(recv.head[1].size, recv.chunk))
<1>1. /\ recv.need = 0 /\ compressed
      /\ recv' = [recv EXCEPT !.at = "split", !.chunk = <<>>, !.pkt = pkt] /\ UNCHANGED queue
      /\ UNCHANGED <<compressed, pktnr, last, uplink, server, downlink, owed, sending, kind, exchanges>>
  BY DEF OuterBodyRead, Cat
<1> HIDE DEF pkt
<1>2. owed # <<>> /\ ~Stopped /\ Follows /\ ClientTypes
  BY Receiver, Types
<1>3. PICK s, packets, ends, cuts, ws :
           Answer(s, packets, ends, cuts, ws) /\ Receives(s, packets, ends, cuts, ws)
  BY <1>1, <1>2 DEF Follows, CompressedClient
<1>4. PICK j \in 0..Len(ws), a \in 0..Len(s) :
        /\ Wire(ws, j) /\ Splitting(s, cuts, a, j)
        /\ kind.hard \/ \E i \in 0..Len(packets), m \in 0..Len(packets) :
                           Aligned(packets, ends, cuts, ws, a, i, m, j)
  BY <1>3 DEF Receives
<1> DEFINE z == j + 1
           c == cuts[j]
           d == cuts[z]
           L == Len(s)
<1>5. /\ z \in 0..Len(ws) /\ z # 0 /\ downlink = Behind(ws, z) /\ pktnr.outer = ws[z].nr
      /\ Unzipped(recv.head[1].size, recv.chunk) = SubSeq(s, c + 1, d)
      /\ c \in Nat /\ d \in Nat /\ c < d /\ d <= L
  BY <1>1, <1>3, <1>4, BodyIsRead DEF AtBody
<1>6. queue = <<>> /\ recv.pkt = <<>> /\ recv.offset = 0
  BY <1>4 DEF Splitting
<1>7. s \in Seq(PlainBytes) /\ packets \in Seq(Replied) /\ L \in Nat
  <2>1. s \in Seq(PlainBytes) /\ packets \in Seq(Replied)
    BY <1>3 DEF Answer
  <2>2. QED
    BY <2>1, SeqShape
<1> HIDE DEF z, c, d, L
<1>8. pkt \in Seq(PlainBytes) /\ pkt = SubSeq(s, c + 1, d) /\ Len(pkt) = d - c
  <2> DEFINE r == SubSeq(s, c + 1, d)
  <2>1. r \in Seq(PlainBytes) /\ Len(r) = d - c
    <3>1. c <= d /\ d <= Len(s)
      BY <1>5 DEF L
    <3>2. QED
      BY <3>1, <1>5, <1>7, Part
  <2>2. Unzipped(recv.head[1].size, recv.chunk) = r
    BY <1>5
  <2> HIDE DEF r
  <2>3. pkt = Cat(<<>>, r)
    BY <2>2, <1>6 DEF pkt
  <2>4. pkt = r
    BY <2>1, <2>3, CatEmpty
  <2>5. QED
    BY <2>1, <2>4 DEF r
<1>9. recv' = [at |-> "split", need |-> 0, chunk |-> <<>>, head |-> recv.head, pkt |-> pkt, offset |-> 0]
  <2>1. recv = [at |-> recv.at, need |-> recv.need, chunk |-> recv.chunk, head |-> recv.head,
                      pkt |-> recv.pkt, offset |-> recv.offset]
    BY <1>2, ClientTypesParts
  <2>2. QED
    BY <2>1, <1>1, <1>6
<1>10. recv'.at = "split" /\ recv'.need = 0 /\ recv'.pkt = pkt /\ recv'.offset = 0
  BY <1>9
<1>11. ClientTypes'
  <2>1. recv.head \in Seq(Bytes) /\ downlink \in Seq(Bytes) /\ queue \in Seq(Seq(PlainBytes)) /\ owed \in Seq(Replied)
    BY <1>2, ClientTypesParts
  <2>2. "split" \in Places /\ <<>> \in Seq(Bytes) /\ 0 \in Nat
    BY DEF Places
  <2>3. recv' \in RecvType
    BY <2>1, <2>2, <1>8, <1>9, RecvRecord
  <2>4. QED
    BY <2>1, <2>3, <1>1 DEF ClientTypes
<1>12. Wire(ws, z)'
  BY <1>1, <1>5, <1>10 DEF Wire, AtBody, Behind, Outers
<1>13. Splitting(s, cuts, c, z)'
  <2>1. c <= d /\ Len(pkt) > 0
    BY <1>5, <1>8
  <2>2. recv'.pkt = SubSeq(s, c + 1, d) /\ recv'.offset < Len(recv'.pkt)
    BY <2>1, <1>8, <1>10
  <2>3. \A k \in 1..Len(queue') : queue'[k][Header].nr \in NumberSet
    BY <1>1, <1>4 DEF Splitting
  <2>4. QED
    BY <2>1, <2>2, <2>3, <1>10 DEF Splitting, AtSplit, AtMore, d
<1>14. ASSUME ~kind.hard
       PROVE  \E i \in 0..Len(packets), m \in 0..Len(packets) : Aligned(packets, ends, cuts, ws, c, i, m, z)'
  <2>1. PICK i \in 0..Len(packets), m \in 0..Len(packets) : Aligned(packets, ends, cuts, ws, a, i, m, j)
    BY <1>4, <1>14
  <2> DEFINE n == Len(packets)
  <2>2. /\ Soft(packets, ends, cuts, ws)
        /\ i <= m /\ owed = SubSeq(packets, i + 1, n) /\ queue = SubSeq(packets, i + 1, m)
        /\ ends[m] = c
        /\ (Following /\ owed # <<>> => server.nr = NextNumber(ws[Len(ws)].nr))
    BY <2>1 DEF Aligned, AtSplit, c
  <2>3. n \in Nat /\ i \in Nat /\ m \in Nat /\ m <= n
    BY <1>7, SeqShape
  <2>4. i = m
    <3>1. SubSeq(packets, i + 1, m) = <<>>
      BY <2>2, <1>6
    <3>2. SubSeq(packets, i + 1, m) # <<>> <=> i < m
      BY <2>2, <2>3, <1>7, TailOfPart
    <3>3. ~(i < m)
      BY <3>1, <3>2
    <3>4. i <= m
      BY <2>2
    <3>5. i \in Nat /\ m \in Nat
      BY <2>3
    <3>6. QED
      BY <3>3, <3>4, <3>5
  <2>5. ends[m] - c = 0 /\ c <= d
    BY <2>2, <1>5
  <2>6. Following' = Following
    BY <1>1 DEF Following
  <2>7. ends[m] <= cuts[z] /\ c = ends[i] /\ recv'.offset = ends[m] - c
    BY <2>2, <2>4, <2>5, <1>10 DEF d
  <2>8. owed' = SubSeq(packets, i + 1, n) /\ queue' = SubSeq(packets, i + 1, m)
    BY <2>2, <1>1
  <2>9. ~AtMore' /\ AtSplit'
    BY <1>10 DEF AtMore, AtSplit
  <2>10. Aligned(packets, ends, cuts, ws, c, i, m, z)'
    BY <2>2, <2>6, <2>7, <2>8, <2>9, <1>1 DEF Aligned, Soft, AtMore, AtSplit, n
  <2>11. QED
    BY <2>10
<1>15. c \in 0..Len(s)
  <2>1. c \in 0..L
    BY <1>5, <1>7
  <2>2. QED
    BY <2>1 DEF L
<1>16. kind'.hard \/ \E i \in 0..Len(packets), m \in 0..Len(packets) :
                           Aligned(packets, ends, cuts, ws, c, i, m, z)'
  BY <1>1, <1>14
<1>17. Follows'
  BY <1>1, <1>3, <1>5, <1>12, <1>13, <1>15, <1>16, CompressedNext
<1>18. QED
  BY <1>1, <1>2, <1>11, <1>17, Types, ClientGoesOn

(* After a cut that is not hard, the length of the packet is there, and the*)
(* rest in the next compressed packet.                                     *)
LEMMA SoftNext ==
    ASSUME NEW s, NEW packets, NEW ends, NEW cuts, NEW ws, Answer(s, packets, ends, cuts, ws),
           Soft(packets, ends, cuts, ws), NEW m \in 0..Len(packets), m # Len(packets),
           NEW j \in 0..Len(ws), ends[m] < cuts[j]
    PROVE  /\ ends[m] + Header - 1 <= cuts[j]
           /\ j # Len(ws) => ends[m + 1] <= cuts[j + 1]
<1> DEFINE n == Len(packets)
           w == Len(ws)
           z == m + 1
           L == Len(s)
<1>1. /\ z \in 1..n /\ z \in 0..n /\ ends[m] \in Nat /\ ends[z] \in 0..L
  BY EndsGrow
<1>2. /\ w \in Nat /\ L \in Nat /\ cuts[j] \in 0..L /\ (j # w => cuts[j + 1] \in 0..L)
      /\ (cuts[j] > 0 => j # 0)
  BY CutsGrow
<1>3. j \in 1..w
  <2> DEFINE c == cuts[j]
             b == ends[m]
  <2>1. c \in 0..L /\ b \in Nat /\ b < c /\ L \in Nat /\ (c > 0 => j # 0) /\ j \in 0..w /\ w \in Nat
    BY <1>1, <1>2
  <2> HIDE DEF c, b, L, w
  <2>2. QED
    BY <2>1
<1>4. \A k \in 1..n : cuts[j] > ends[k - 1] => /\ cuts[j] >= ends[k - 1] + Header - 1
                                               /\ j < w => cuts[j + 1] >= ends[k]
  BY <1>3 DEF Soft
<1>5. z - 1 = m
  OBVIOUS
<1> HIDE DEF n, w, z, L
<1>6. cuts[j] > ends[m] => /\ cuts[j] >= ends[m] + Header - 1
                           /\ j < w => cuts[j + 1] >= ends[z]
  BY <1>1, <1>4, <1>5
<1>7. cuts[j] > ends[m]
  BY <1>1, <1>2
<1>8. j # w => j < w
  BY <1>2, <1>3
<1> DEFINE c == cuts[j]
           b == ends[m]
<1>9. c \in Nat /\ b \in Nat /\ c >= b + Header - 1 /\ (j # w => cuts[j + 1] >= ends[z])
  BY <1>1, <1>2, <1>6, <1>7, <1>8
<1>10. j # w => ends[z] <= cuts[j + 1]
  <2> DEFINE x == cuts[j + 1]
             y == ends[z]
  <2>1. (j # w => x >= y) /\ y \in 0..L /\ (j # w => x \in 0..L) /\ L \in Nat
    BY <1>1, <1>2, <1>9
  <2> HIDE DEF x, y
  <2>2. j # w => y <= x
    BY <2>1
  <2>3. QED
    BY <2>2 DEF x, y
<1> HIDE DEF c, b
<1>11. b + Header - 1 <= c
  BY <1>9, Sizes
<1>12. QED
  BY <1>10, <1>11 DEF c, b, w, z

(* recv() is in the body of one more compressed packet.                    *)
AtMoreBody == recv.at = "more body"

(* Then it is in none of the other phases.                                 *)
LEMMA AtMoreBodyIs ==
    ASSUME AtMoreBody
    PROVE  recv.at # "idle" /\ recv.at # "body" /\ AtBody /\ AtMore /\ AtSplit
<1>1. recv.at = "more body"
  BY DEF AtMoreBody
<1>2. QED
  BY <1>1 DEF AtBody, AtMore, AtSplit

(* One more compressed packet is read: it has the rest of the packet that  *)
(* needed it, and the packet is queued.                                    *)
LEMMA MoreBodyStep ==
    ASSUME PacketsInv, OuterBodyRead, AtMoreBody
    PROVE  PacketsInv'
<1> DEFINE pkt == Cat(recv.pkt, Unzipped(recv.head[1].size, recv.chunk))
<1>1. /\ recv.need = 0 /\ compressed /\ Enqueue(pkt, recv.offset)
      /\ UNCHANGED <<compressed, pktnr, last, uplink, server, downlink, owed, sending, kind, exchanges>>
  BY AtMoreBodyIs DEF OuterBodyRead, Cat
<1> HIDE DEF pkt
<1>2. owed # <<>> /\ ~Stopped /\ Follows /\ ClientTypes
  BY AtMoreBodyIs, Receiver, Types
<1>3. PICK s, packets, ends, cuts, ws :
           Answer(s, packets, ends, cuts, ws) /\ Receives(s, packets, ends, cuts, ws)
  BY <1>1, <1>2 DEF Follows, CompressedClient
<1>4. PICK j \in 0..Len(ws), a \in 0..Len(s) :
        /\ Wire(ws, j) /\ Splitting(s, cuts, a, j)
        /\ kind.hard \/ \E i \in 0..Len(packets), m \in 0..Len(packets) :
                           Aligned(packets, ends, cuts, ws, a, i, m, j)
  BY <1>3 DEF Receives
<1> DEFINE z == j + 1
           c == cuts[j]
           d == cuts[z]
           L == Len(s)
           o == recv.offset
<1>5. /\ j # Len(ws) /\ z \in 0..Len(ws) /\ z # 0 /\ downlink = Behind(ws, z) /\ pktnr.outer = ws[z].nr
      /\ Unzipped(recv.head[1].size, recv.chunk) = SubSeq(s, c + 1, d)
      /\ c \in Nat /\ d \in Nat /\ c < d /\ d <= L
  <2>1. AtBody /\ recv.need = 0 /\ Answer(s, packets, ends, cuts, ws) /\ Wire(ws, j)
    BY <1>1, <1>3, <1>4, AtMoreBodyIs
  <2>2. QED
    BY <2>1, BodyIsRead
<1>20. c \in Nat /\ d \in Nat /\ c < d /\ d <= L
  BY <1>5, Zenon
<1>6. a <= c /\ recv.pkt = SubSeq(s, a + 1, c) /\ IsHeader(recv.pkt, o, Header - 1) /\ Entries(queue)
  BY <1>4, AtMoreBodyIs DEF Splitting, Entries
<1>7. s \in Seq(PlainBytes) /\ L \in Nat
  <2>1. s \in Seq(PlainBytes)
    BY <1>3 DEF Answer
  <2>2. QED
    BY <2>1, SeqShape
<1>8. o \in Nat
  BY <1>2, ClientTypesParts
<1> DEFINE l == a
<1>21. l <= c /\ l \in 0..L /\ L \in Nat
  BY <1>6, <1>7, Zenon
<1> HIDE DEF z, c, d, L, o, l
<1>22. l \in Nat /\ l <= d /\ c <= d
  BY <1>20, <1>21
<1>9. a \in Nat /\ a <= d /\ d <= Len(s)
  BY <1>20, <1>22 DEF L, l
<1>10. pkt = SubSeq(s, a + 1, d)
  <2>1. Cat(SubSeq(s, a + 1, c), SubSeq(s, c + 1, d)) = SubSeq(s, a + 1, d)
    <3>1. c <= d
      BY <1>22
    <3>2. QED
      BY <3>1, <1>6, <1>7, <1>9, <1>20, CatParts
  <2>2. QED
    BY <2>1, <1>5, <1>6 DEF pkt
<1>11. IsHeader(pkt, o, Header - 1) /\ Len(pkt) >= o + Header
  <2>1. IsHeader(SubSeq(s, a + 1, c), o, Header - 1)
    BY <1>6
  <2>2. IsHeader(SubSeq(s, a + 1, d), o, Header - 1) /\ Len(SubSeq(s, a + 1, d)) >= o + Header
    BY <2>1, <1>20, <1>6, <1>7, <1>8, <1>9, HeaderStays
  <2>3. QED
    BY <2>2, <1>10
<1>12. ASSUME ~kind.hard
       PROVE  \E i \in 0..Len(packets), m \in 0..Len(packets) : OneMore(packets, ends, cuts, ws, a, i, m, z)
  <2>1. PICK i \in 0..Len(packets), m \in 0..Len(packets) : Aligned(packets, ends, cuts, ws, a, i, m, j)
    BY <1>4, <1>12
  <2> DEFINE n == Len(packets)
  <2>2. /\ Soft(packets, ends, cuts, ws)
        /\ i <= m /\ owed = SubSeq(packets, i + 1, n) /\ queue = SubSeq(packets, i + 1, m)
        /\ a = ends[i] /\ recv.offset = ends[m] - a /\ m < n /\ ends[m] + Header - 1 <= c
        /\ (Following /\ owed # <<>> => server.nr = NextNumber(ws[Len(ws)].nr))
    BY <2>1, AtMoreBodyIs DEF Aligned, c
  <2>3. m # n /\ ends[m] < c
    <3>1. ends[m] \in Nat /\ n \in Nat
      BY <1>3, EndsGrow
    <3> DEFINE b == ends[m]
    <3>2. b \in Nat /\ b + Header - 1 <= c /\ m < n /\ n \in Nat /\ m \in 0..n
      BY <2>2, <3>1
    <3> HIDE DEF b, n
    <3>3. m # n /\ b < c
      BY <3>2, <1>20, Sizes
    <3>4. QED
      BY <3>3 DEF b
  <2>4. ends[m + 1] <= cuts[z]
    BY <2>2, <2>3, <1>3, <1>5, SoftNext DEF c, z
  <2>5. OneMore(packets, ends, cuts, ws, a, i, m, z)
    BY <2>2, <2>3, <2>4 DEF OneMore
  <2>6. QED
    BY <2>5
<1>13. kind.hard \/ \E i \in 0..Len(packets), m \in 0..Len(packets) : OneMore(packets, ends, cuts, ws, a, i, m, z)
  BY <1>12
<1>14. Follows' /\ ClientTypes'
  <2>1. a <= cuts[z] /\ pkt = SubSeq(s, a + 1, cuts[z])
    BY <1>9, <1>10 DEF d
  <2>2. /\ IsHeader(pkt, recv.offset, Header - 1) /\ Len(pkt) >= recv.offset + Header
        /\ Enqueue(pkt, recv.offset) /\ Entries(queue) /\ compressed /\ ClientTypes
        /\ UNCHANGED <<compressed, kind, sending, server, owed, pktnr, downlink>>
    BY <1>1, <1>2, <1>6, <1>11 DEF o
  <2>3. z \in 0..Len(ws) /\ downlink = Behind(ws, z) /\ (z # 0 => pktnr.outer = ws[z].nr)
    BY <1>5
  <2>4. QED
    BY <2>1, <2>2, <2>3, <1>3, <1>13, EnqueueFollows
<1>15. QED
  BY <1>1, <1>2, <1>14, Types, ClientGoesOn

(* The loop of _recv_compressed_pkt finds the next packet of the answer at *)
(* its position, unless a cut was hard.                                    *)
LEMMA SplitAligned ==
    ASSUME ClientTypes, recv.at = "split",
           NEW s, NEW packets, NEW ends, NEW cuts, NEW ws, Answer(s, packets, ends, cuts, ws),
           NEW j \in 0..Len(ws), NEW a \in 0..Len(s), Splitting(s, cuts, a, j),
           NEW i, NEW m \in 0..Len(packets), Aligned(packets, ends, cuts, ws, a, i, m, j),
           recv.offset < Len(recv.pkt)
    PROVE  /\ m # Len(packets) /\ m < Len(packets) /\ ends[m] + Header - 1 <= cuts[j]
           /\ IsHeader(recv.pkt, recv.offset, Header - 1)
           /\ Complete(recv.pkt, recv.offset) <=> ends[m + 1] <= cuts[j]
           /\ ends[m + 1] \in Nat /\ cuts[j] \in Nat
<1> DEFINE c == cuts[j]
           b == ends[m]
           L == Len(s)
           n == Len(packets)
           o == recv.offset
           pkt == recv.pkt
<1>1. a <= c /\ pkt = SubSeq(s, a + 1, c)
  BY DEF Splitting, AtSplit
<1>2. o = b - a /\ b <= c /\ Soft(packets, ends, cuts, ws)
  BY DEF Aligned, AtSplit
<1>3. o \in Nat /\ pkt \in Seq(PlainBytes)
  BY ClientTypesParts
<1>4. L \in Nat /\ n \in Nat /\ b \in Nat /\ c \in 0..L /\ ends[n] = L /\ a \in 0..L /\ m \in 0..n
  BY EndsGrow, CutsGrow
<1>5. s \in Seq(PlainBytes)
  BY DEF Answer
<1> HIDE DEF c, b, L, n, o, pkt
<1>6. c \in Nat /\ c <= L /\ a \in Nat /\ a + o = b
  BY <1>2, <1>3, <1>4
<1>7. Len(pkt) = c - a
  <2>1. c <= Len(s)
    BY <1>6 DEF L
  <2>2. Len(SubSeq(s, a + 1, c)) = c - a
    BY <2>1, <1>1, <1>5, <1>6, Part
  <2>3. QED
    BY <2>2, <1>1
<1>8. o < c - a
  BY <1>7 DEF o, pkt
<1>9. b < c
  BY <1>4, <1>6, <1>8, <1>3
<1>10. m # n
  <2> SUFFICES ASSUME m = n PROVE FALSE
    OBVIOUS
  <2>1. b = L
    BY <1>4 DEF b
  <2>2. QED
    BY <2>1, <1>4, <1>6, <1>9
<1>11. m < n
  BY <1>4, <1>10
<1>12. b + Header - 1 <= c
  <2>1. ends[m] < cuts[j] /\ m # Len(packets)
    BY <1>9, <1>10 DEF b, c, n
  <2>2. ends[m] + Header - 1 <= cuts[j]
    BY <2>1, <1>2, SoftNext
  <2>3. QED
    BY <2>2 DEF b, c
<1> DEFINE d == ends[m + 1]
<1>13. d \in Nat
  <2>1. d \in 0..L
    BY <1>10, EndsGrow DEF n, L
  <2> HIDE DEF d
  <2>2. QED
    BY <2>1, <1>4
<1>14. PacketFound(pkt, o, packets[m + 1], c - a, d - a, d <= c)
  <2>1. m # Len(packets) /\ c <= Len(s) /\ ends[m] + Header - 1 <= c /\ a + o = ends[m]
    BY <1>6, <1>10, <1>12 DEF n, L, b
  <2>2. QED
    BY <2>1, <1>1, <1>3, <1>6, AlignedEntry
<1> HIDE DEF d
<1>15. IsHeader(pkt, o, Header - 1) /\ End(pkt, o) = d - a
  BY <1>14 DEF PacketFound
<1>16. Complete(pkt, o) <=> End(pkt, o) <= Len(pkt)
  BY DEF Complete, End
<1>17. Complete(pkt, o) <=> d <= c
  <2>1. d - a <= c - a <=> d <= c
    BY <1>6, <1>13
  <2>2. QED
    BY <2>1, <1>7, <1>15, <1>16
<1>18. QED
  BY <1>6, <1>10, <1>11, <1>12, <1>13, <1>15, <1>17 DEF b, c, d, n, o, pkt

(* recv() needs one more compressed packet.                                *)
ExpectsMore == recv' = Expect("more header", OuterHeader)

(* What this changes.                                                      *)
LEMMA ExpectsMoreIs ==
    ASSUME ClientTypes, ExpectsMore
    PROVE  /\ recv' \in RecvType /\ AtMore' /\ AtSplit' /\ ~AtBody'
           /\ recv'.at # "idle" /\ recv'.at # "header" /\ recv'.at # "body" /\ recv'.at # "split"
           /\ recv'.need = OuterHeader /\ recv'.chunk = <<>> /\ recv'.pkt = recv.pkt /\ recv'.offset = recv.offset
<1>1. "more header" \in Phases /\ OuterHeader \in Nat
  BY Sizes, Zenon DEF Phases
<1>2. /\ recv' \in RecvType
      /\ recv' = [at |-> "more header", need |-> OuterHeader, chunk |-> <<>>, head |-> recv.head,
                  pkt |-> recv.pkt, offset |-> recv.offset]
  BY <1>1, Expecting, Zenon DEF ExpectsMore
<1>3. recv'.at = "more header"
  BY <1>2
<1>4. recv'.need = OuterHeader /\ recv'.chunk = <<>> /\ recv'.pkt = recv.pkt /\ recv'.offset = recv.offset
  BY <1>2
<1>5. AtMore' /\ AtSplit' /\ ~AtBody'
  BY <1>3 DEF AtMore, AtSplit, AtBody
<1>6. QED
  BY <1>2, <1>3, <1>4, <1>5

(* What the loop leaves alone.                                             *)
SplitKept == UNCHANGED <<compressed, uplink, server, downlink, sending, kind, exchanges>>

(* It leaves the loop for one more compressed packet.                      *)
SplitMore ==
    /\ ~Complete(recv.pkt, recv.offset)
    /\ ExpectsMore
    /\ UNCHANGED <<pktnr, last, owed, queue>>

(* What the loop may do.                                                   *)
LEMMA SplitCases ==
    ASSUME Split
    PROVE  /\ recv.at = "split" /\ compressed /\ SplitKept
           /\ \/ recv.offset >= Len(recv.pkt) /\ Dequeue(queue)
              \/ /\ recv.offset < Len(recv.pkt) /\ ~IsHeader(recv.pkt, recv.offset, Header - 1)
                 /\ Return("garbled", <<>>) /\ UNCHANGED <<pktnr, queue>>
              \/ /\ IsHeader(recv.pkt, recv.offset, Header - 1)
                 /\ Complete(recv.pkt, recv.offset) /\ Enqueue(recv.pkt, recv.offset)
                 /\ recv.offset < Len(recv.pkt) /\ UNCHANGED <<pktnr, last, owed>>
              \/ /\ recv.offset < Len(recv.pkt) /\ IsHeader(recv.pkt, recv.offset, Header - 1)
                 /\ SplitMore
  BY Zenon DEF Split, SplitMore, ExpectsMore, SplitKept

(* It finds no header only after a hard cut.                               *)
LEMMA GarbledStep ==
    ASSUME PacketsInv, compressed, recv.at = "split", SplitKept, recv.offset < Len(recv.pkt),
           ~IsHeader(recv.pkt, recv.offset, Header - 1), Return("garbled", <<>>), UNCHANGED <<pktnr, queue>>
    PROVE  PacketsInv'
<1>1. owed # <<>> /\ ~Stopped /\ Follows /\ ClientTypes
  BY Receiver, Types
<1>2. PICK s, packets, ends, cuts, ws :
           Answer(s, packets, ends, cuts, ws) /\ Receives(s, packets, ends, cuts, ws)
  BY <1>1 DEF Follows, CompressedClient
<1>3. PICK j \in 0..Len(ws), a \in 0..Len(s) :
        /\ Wire(ws, j) /\ Splitting(s, cuts, a, j)
        /\ kind.hard \/ \E i \in 0..Len(packets), m \in 0..Len(packets) :
                           Aligned(packets, ends, cuts, ws, a, i, m, j)
  BY <1>2 DEF Receives
<1>4. kind.hard
  <2> SUFFICES ASSUME ~kind.hard PROVE FALSE
    OBVIOUS
  <2>1. PICK i \in 0..Len(packets), m \in 0..Len(packets) : Aligned(packets, ends, cuts, ws, a, i, m, j)
    BY <1>3
  <2>2. IsHeader(recv.pkt, recv.offset, Header - 1)
    BY <2>1, <1>1, <1>2, <1>3, SplitAligned
  <2>3. QED
    BY <2>2
<1>5. /\ recv' = NoRecv /\ recv' \in RecvType /\ recv'.at = "idle" /\ last'.result = "garbled"
      /\ owed' \in Seq(Replied) /\ owed' = owed
  BY <1>1, ReturnShape
<1>6. UNCHANGED <<compressed, uplink, server, downlink, sending, kind, exchanges>>
  BY DEF SplitKept
<1>7. Stopped'
  BY <1>5 DEF Stopped
<1>8. ClientTypes'
  BY <1>1, <1>5, <1>6 DEF ClientTypes
<1>9. PacketsWhole'
  BY <1>4, <1>6 DEF PacketsWhole
<1>10. DataNumbers'
  BY <1>7 DEF DataNumbers
<1>11. QED
  BY <1>1, <1>5, <1>6, <1>7, <1>8, <1>9, <1>10, Types, ClientStep

(* A packet that is all there is queued.                                   *)
LEMMA SplitEnqueueStep ==
    ASSUME PacketsInv, compressed, recv.at = "split", SplitKept, IsHeader(recv.pkt, recv.offset, Header - 1),
           Complete(recv.pkt, recv.offset), Enqueue(recv.pkt, recv.offset),
           recv.offset < Len(recv.pkt), UNCHANGED <<pktnr, last, owed>>
    PROVE  PacketsInv'
<1>1. owed # <<>> /\ ~Stopped /\ Follows /\ ClientTypes
  BY Receiver, Types
<1>2. PICK s, packets, ends, cuts, ws :
           Answer(s, packets, ends, cuts, ws) /\ Receives(s, packets, ends, cuts, ws)
  BY <1>1 DEF Follows, CompressedClient
<1>3. PICK j \in 0..Len(ws), a \in 0..Len(s) :
        /\ Wire(ws, j) /\ Splitting(s, cuts, a, j)
        /\ kind.hard \/ \E i \in 0..Len(packets), m \in 0..Len(packets) :
                           Aligned(packets, ends, cuts, ws, a, i, m, j)
  BY <1>2 DEF Receives
<1>4. UNCHANGED <<compressed, uplink, server, downlink, sending, kind, exchanges>>
  BY DEF SplitKept
<1>5. a <= cuts[j] /\ recv.pkt = SubSeq(s, a + 1, cuts[j]) /\ Entries(queue)
  BY <1>3 DEF Splitting, AtSplit, Entries
<1>6. downlink = Behind(ws, j) /\ (j # 0 => pktnr.outer = ws[j].nr)
  BY <1>3 DEF Wire, AtBody
<1>7. Len(recv.pkt) >= recv.offset + Header
  <2> DEFINE p == recv.pkt
             o == recv.offset
  <2>1. p \in Seq(PlainBytes) /\ o \in Nat /\ IsHeader(p, o, Header - 1)
    BY <1>1, ClientTypesParts
  <2>2. End(p, o) <= Len(p)
    BY DEF Complete, End
  <2> HIDE DEF p, o
  <2>3. Len(p) \in Nat /\ End(p, o) \in Nat /\ End(p, o) >= o + Header
    BY <2>1, HeaderByte
  <2> DEFINE e == End(p, o)
             n == Len(p)
  <2>4. e <= n /\ n \in Nat /\ e \in Nat /\ e >= o + Header
    BY <2>2, <2>3
  <2> HIDE DEF e, n
  <2>5. n >= o + Header
    BY <2>1, <2>4, Sizes
  <2>6. QED
    BY <2>5 DEF n, p, o
<1>8. ASSUME ~kind.hard
      PROVE  \E i \in 0..Len(packets), m \in 0..Len(packets) : OneMore(packets, ends, cuts, ws, a, i, m, j)
  <2>1. PICK i \in 0..Len(packets), m \in 0..Len(packets) : Aligned(packets, ends, cuts, ws, a, i, m, j)
    BY <1>3, <1>8
  <2>2. m # Len(packets) /\ ends[m + 1] <= cuts[j]
    BY <2>1, <1>1, <1>2, <1>3, SplitAligned
  <2>3. OneMore(packets, ends, cuts, ws, a, i, m, j)
    BY <2>1, <2>2 DEF OneMore, Aligned, AtSplit
  <2>4. QED
    BY <2>3
<1>9. kind.hard \/ \E i \in 0..Len(packets), m \in 0..Len(packets) : OneMore(packets, ends, cuts, ws, a, i, m, j)
  BY <1>8
<1>10. Follows' /\ ClientTypes'
  <2>1. UNCHANGED <<compressed, kind, sending, server, owed, pktnr, downlink>>
    BY <1>4
  <2>2. QED
    BY <2>1, <1>1, <1>2, <1>5, <1>6, <1>7, <1>9, EnqueueFollows
<1>11. QED
  BY <1>1, <1>4, <1>10, Types, ClientGoesOn

(* A packet that is not all there needs one more compressed packet.        *)
LEMMA SplitMoreStep ==
    ASSUME PacketsInv, compressed, recv.at = "split", SplitKept, IsHeader(recv.pkt, recv.offset, Header - 1),
           recv.offset < Len(recv.pkt), SplitMore
    PROVE  PacketsInv'
<1>1. owed # <<>> /\ ~Stopped /\ Follows /\ ClientTypes
  BY Receiver, Types
<1>2. PICK s, packets, ends, cuts, ws :
           Answer(s, packets, ends, cuts, ws) /\ Receives(s, packets, ends, cuts, ws)
  BY <1>1 DEF Follows, CompressedClient
<1>3. PICK j \in 0..Len(ws), a \in 0..Len(s) :
        /\ Wire(ws, j) /\ Splitting(s, cuts, a, j)
        /\ kind.hard \/ \E i \in 0..Len(packets), m \in 0..Len(packets) :
                           Aligned(packets, ends, cuts, ws, a, i, m, j)
  BY <1>2 DEF Receives
<1>4. UNCHANGED <<compressed, uplink, server, downlink, sending, kind, exchanges>>
  BY DEF SplitKept
<1>5. ~Complete(recv.pkt, recv.offset) /\ UNCHANGED <<pktnr, last, owed, queue>>
  BY DEF SplitMore
<1>6. /\ recv' \in RecvType /\ AtMore' /\ AtSplit' /\ ~AtBody'
      /\ recv'.at # "idle" /\ recv'.at # "header" /\ recv'.at # "body" /\ recv'.at # "split"
      /\ recv'.need = OuterHeader /\ recv'.chunk = <<>> /\ recv'.pkt = recv.pkt /\ recv'.offset = recv.offset
  BY <1>1, ExpectsMoreIs DEF SplitMore
<1>7. ClientTypes'
  BY <1>1, <1>4, <1>5, <1>6 DEF ClientTypes
<1>8. AtSplit /\ downlink = Behind(ws, j) /\ (j # 0 => pktnr.outer = ws[j].nr)
  BY <1>3 DEF Wire, AtBody, AtSplit
<1>9. Wire(ws, j)'
  <2>1. downlink \in Seq(Bytes)
    BY <1>1, ClientTypesParts
  <2>2. Cat(<<>>, downlink) = downlink
    BY <2>1, CatEmpty
  <2>3. Len(<<>>) + OuterHeader = OuterHeader
    BY Sizes
  <2>4. Cat(recv'.chunk, downlink') = Behind(ws, j) /\ Len(recv'.chunk) + recv'.need = OuterHeader
    BY <2>2, <2>3, <1>4, <1>6, <1>8
  <2>5. j # 0 => pktnr'.outer = ws[j].nr
    BY <1>5, <1>8
  <2>6. QED
    BY <2>4, <2>5, <1>6 DEF Wire, Behind, Outers
<1>10. Splitting(s, cuts, a, j)'
  <2>1. a <= cuts[j] /\ recv'.pkt = SubSeq(s, a + 1, cuts[j])
    BY <1>3, <1>6, <1>8 DEF Splitting
  <2>2. IsHeader(recv'.pkt, recv'.offset, Header - 1)
    BY <1>6
  <2>3. \A k \in 1..Len(queue') : queue'[k][Header].nr \in NumberSet
    BY <1>3, <1>5 DEF Splitting
  <2>4. recv'.at # "header" /\ recv'.at # "body" /\ recv'.at # "split"
    BY <1>6
  <2>5. QED
    BY <2>1, <2>2, <2>3, <2>4 DEF Splitting
<1>11. ASSUME ~kind.hard
       PROVE  \E i \in 0..Len(packets), m \in 0..Len(packets) : Aligned(packets, ends, cuts, ws, a, i, m, j)'
  <2>1. PICK i \in 0..Len(packets), m \in 0..Len(packets) : Aligned(packets, ends, cuts, ws, a, i, m, j)
    BY <1>3, <1>11
  <2>2. /\ m < Len(packets) /\ ends[m] + Header - 1 <= cuts[j]
        /\ Complete(recv.pkt, recv.offset) <=> ends[m + 1] <= cuts[j]
        /\ ends[m + 1] \in Nat /\ cuts[j] \in Nat
    BY <2>1, <1>1, <1>2, <1>3, SplitAligned
  <2>3. cuts[j] < ends[m + 1]
    <3> DEFINE c == cuts[j]
               d == ends[m + 1]
    <3>1. ~(d <= c) /\ c \in Nat /\ d \in Nat
      BY <2>2, <1>5
    <3> HIDE DEF c, d
    <3>2. c < d
      BY <3>1
    <3>3. QED
      BY <3>2 DEF c, d
  <2>4. Following' = Following
    BY <1>4 DEF Following
  <2>5. /\ Soft(packets, ends, cuts, ws)
        /\ i <= m /\ owed' = SubSeq(packets, i + 1, Len(packets)) /\ queue' = SubSeq(packets, i + 1, m)
        /\ a = ends[i] /\ recv'.offset = ends[m] - a /\ ends[m] <= cuts[j]
        /\ Following' /\ owed' # <<>> => server'.nr = NextNumber(ws[Len(ws)].nr)
    BY <2>1, <2>4, <1>4, <1>5, <1>6, <1>8 DEF Aligned
  <2>6. Aligned(packets, ends, cuts, ws, a, i, m, j)'
    BY <2>2, <2>3, <2>5, <1>6 DEF Aligned, Soft
  <2>7. QED
    BY <2>6
<1>12. kind'.hard \/ \E i \in 0..Len(packets), m \in 0..Len(packets) :
                           Aligned(packets, ends, cuts, ws, a, i, m, j)'
  BY <1>4, <1>11
<1>13. Follows'
  BY <1>2, <1>4, <1>9, <1>10, <1>12, CompressedNext
<1>14. QED
  BY <1>1, <1>4, <1>5, <1>7, <1>13, Types, ClientGoesOn

(* The loop keeps the invariant.                                           *)
LEMMA SplitStep ==
    ASSUME PacketsInv, Split
    PROVE  PacketsInv'
<1>1. recv.at = "split" /\ compressed /\ SplitKept
  BY SplitCases
<1>2. CASE recv.offset >= Len(recv.pkt) /\ Dequeue(queue)
  <2>1. owed # <<>> /\ ~Stopped /\ Follows /\ ClientTypes
    BY <1>1, Receiver, Types
  <2>2. queue # <<>>
    <3>1. PICK s, packets, ends, cuts, ws :
             Answer(s, packets, ends, cuts, ws) /\ Receives(s, packets, ends, cuts, ws)
      BY <1>1, <2>1 DEF Follows, CompressedClient
    <3>2. PICK j \in 0..Len(ws), a \in 0..Len(s) : Splitting(s, cuts, a, j)
      BY <3>1 DEF Receives
    <3>3. queue # <<>> \/ recv.offset < Len(recv.pkt)
      BY <3>2, <1>1 DEF Splitting
    <3>4. recv.pkt \in Seq(PlainBytes) /\ recv.offset \in Nat
      BY <2>1, ClientTypesParts
    <3> DEFINE n == Len(recv.pkt)
               o == recv.offset
    <3>5. n \in Nat /\ o \in Nat /\ o >= n
      BY <3>4, <1>2, SeqShape
    <3> HIDE DEF n, o
    <3>6. ~(o < n)
      BY <3>5
    <3>7. QED
      BY <3>3, <3>6 DEF n, o
  <2>3. UNCHANGED <<compressed, uplink, server, downlink, sending, kind, exchanges>>
    BY <1>1 DEF SplitKept
  <2>4. QED
    BY <2>1, <2>2, <2>3, <1>1, <1>2, DequeueStep
<1>3. CASE /\ recv.offset < Len(recv.pkt) /\ ~IsHeader(recv.pkt, recv.offset, Header - 1)
           /\ Return("garbled", <<>>) /\ UNCHANGED <<pktnr, queue>>
  BY <1>1, <1>3, GarbledStep
<1>4. CASE /\ IsHeader(recv.pkt, recv.offset, Header - 1)
           /\ Complete(recv.pkt, recv.offset) /\ Enqueue(recv.pkt, recv.offset)
           /\ recv.offset < Len(recv.pkt) /\ UNCHANGED <<pktnr, last, owed>>
  BY <1>1, <1>4, SplitEnqueueStep
<1>5. CASE /\ recv.offset < Len(recv.pkt) /\ IsHeader(recv.pkt, recv.offset, Header - 1)
           /\ SplitMore
  BY <1>1, <1>5, SplitMoreStep
<1>6. QED
  BY <1>2, <1>3, <1>4, <1>5, SplitCases

-----------------------------------------------------------------------------
(* The answers of the server.                                              *)

(* The bytes b come in s after a.                                          *)
InMiddle(s, a, b) ==
    /\ SubSeq(s, Len(a) + 1, Len(a) + Len(b)) = b /\ Len(a) + Len(b) <= Len(s)
    /\ Len(a) \in Nat /\ Len(b) \in Nat /\ Len(s) \in Nat

(* They do when something follows them.                                    *)
LEMMA Middle ==
    ASSUME NEW X, NEW a \in Seq(X), NEW b \in Seq(X), NEW c \in Seq(X)
    PROVE  InMiddle(Cat(Cat(a, b), c), a, b)
<1> DEFINE s == Cat(Cat(a, b), c)
<1>0. s = Cat(Cat(a, b), c)
  OBVIOUS
<1> HIDE DEF s
<1> DEFINE l == Len(a)
           m == Len(b)
           n == Len(c)
           ab == Cat(a, b)
           e == l + m
<1>1. l \in Nat /\ m \in Nat /\ n \in Nat
  OBVIOUS
<1>2. ab \in Seq(X) /\ Len(ab) = l + m
  BY CatType
<1> HIDE DEF ab
<1>3. s = Cat(ab, c)
  BY <1>0 DEF ab
<1>4. s \in Seq(X) /\ Len(s) = (l + m) + n
  <2>1. Cat(ab, c) \in Seq(X) /\ Len(Cat(ab, c)) = Len(ab) + Len(c)
    BY <1>2, CatType
  <2>2. QED
    BY <2>1, <1>2, <1>3
<1>5. \A i \in 1..m : s[l + i] = b[i]
  <2> TAKE i \in 1..m
  <2>1. l + i \in 1..((l + m) + n) /\ l + i <= l + m /\ l + i \in 1..(l + m) /\ ~(l + i <= l) /\ (l + i) - l = i
    BY <1>1
  <2> DEFINE z == l + i
  <2>2. z \in 1..(Len(ab) + Len(c)) /\ z <= Len(ab)
    BY <1>2, <2>1
  <2>3. z \in 1..(Len(a) + Len(b)) /\ ~(z <= Len(a)) /\ z - Len(a) = i
    BY <2>1
  <2> HIDE DEF z
  <2>4. Cat(ab, c)[z] = ab[z]
    BY <2>2, <1>2, CatAt
  <2>5. ab[z] = b[i]
    <3>1. Cat(a, b)[z] = b[z - Len(a)]
      BY <2>3, CatAt
    <3>2. QED
      BY <3>1, <2>3 DEF ab
  <2>6. QED
    BY <2>4, <2>5, <1>3 DEF z
<1>6. l <= e /\ e <= Len(s) /\ e \in Nat /\ e - l = m
  BY <1>1, <1>4
<1>7. b \in Seq(X) /\ Len(b) = m
  OBVIOUS
<1> HIDE DEF e, l, m
<1>8. /\ SubSeq(s, l + 1, e) \in Seq(X) /\ Len(SubSeq(s, l + 1, e)) = e - l
      /\ \A i \in 1..(e - l) : SubSeq(s, l + 1, e)[i] = s[l + i]
  BY <1>1, <1>4, <1>6, Part
<1> DEFINE t == SubSeq(s, l + 1, e)
<1>9. t \in Seq(X) /\ Len(t) = m /\ \A i \in 1..m : t[i] = s[l + i]
  BY <1>6, <1>8
<1> HIDE DEF t
<1>10. \A i \in 1..m : t[i] = b[i]
  BY <1>5, <1>9
<1>11. t = b
  BY <1>7, <1>9, <1>10, SeqEqual
<1>12. QED
  BY <1>1, <1>4, <1>6, <1>11 DEF t, e, l, m, s, InMiddle

(* Each packet comes in the joined bytes where the ones before it end.     *)
LEMMA PacketPlace ==
    ASSUME NEW X, NEW p \in Seq(Seq(X)), NEW k \in 1..Len(p)
    PROVE  LET e(x) == Len(FlattenSeq(SubSeq(p, 1, x))) IN
           /\ e(k - 1) \in Nat /\ e(k) = e(k - 1) + Len(p[k]) /\ e(k) \in Nat
           /\ e(k) <= Len(FlattenSeq(p)) /\ Len(p[k]) \in Nat
           /\ p[k] = SubSeq(FlattenSeq(p), e(k - 1) + 1, e(k))
<1> DEFINE K == Len(p)
           h == SubSeq(p, 1, k)
           t == SubSeq(p, k + 1, K)
           a == FlattenSeq(SubSeq(p, 1, k - 1))
           b == p[k]
           ab == FlattenSeq(h)
           c == FlattenSeq(t)
           s == FlattenSeq(p)
<1>1. K \in Nat /\ k \in Nat /\ k <= K /\ 0 <= k /\ 0 \in Nat /\ K <= Len(p)
  OBVIOUS
<1> HIDE DEF K
<1>2. h \in Seq(Seq(X)) /\ t \in Seq(Seq(X)) /\ b \in Seq(X) /\ SubSeq(p, 1, k - 1) \in Seq(Seq(X))
  <2>1. t \in Seq(Seq(X))
    BY <1>1, Part
  <2>2. QED
    BY <2>1, Start
<1>3. Cat(h, t) = p
  <2>1. Cat(SubSeq(p, 0 + 1, k), SubSeq(p, k + 1, K)) = SubSeq(p, 0 + 1, K)
    BY <1>1, CatParts
  <2>2. SubSeq(p, 1, K) = p
    BY WholePart DEF K
  <2>2a. 0 + 1 = 1
    OBVIOUS
  <2>3. QED
    BY <2>1, <2>2, <2>2a, Zenon
<1>4. ab = Cat(a, b)
  BY FlatStart
<1>5. a \in Seq(X)
  BY <1>2, FlatType
<1> HIDE DEF h, t, a, b
<1>6. s = Cat(ab, c) /\ c \in Seq(X)
  <2>1. FlattenSeq(h \o t) = Cat(FlattenSeq(h), FlattenSeq(t)) /\ FlattenSeq(t) \in Seq(X)
    BY <1>2, FlatCat
  <2>2. QED
    BY <2>1, <1>3 DEF Cat
<1>6a. Len(ab) = Len(a) + Len(b)
  BY <1>2, <1>4, <1>5, CatType
<1> HIDE DEF s, ab, c
<1>7. /\ SubSeq(s, Len(a) + 1, Len(a) + Len(b)) = b /\ Len(a) + Len(b) <= Len(s)
      /\ Len(a) \in Nat /\ Len(b) \in Nat /\ Len(s) \in Nat
  <2>1. s = Cat(Cat(a, b), c)
    BY <1>4, <1>6
  <2>2. a \in Seq(X) /\ b \in Seq(X) /\ c \in Seq(X)
    BY <1>2, <1>5, <1>6
  <2>3. QED
    <3>1. InMiddle(Cat(Cat(a, b), c), a, b)
      BY <2>2, Middle
    <3>2. InMiddle(s, a, b)
      BY <2>1, <3>1, Zenon
    <3>3. QED
      BY <3>2 DEF InMiddle
<1>8. /\ Len(a) \in Nat /\ Len(ab) = Len(a) + Len(b) /\ Len(ab) \in Nat /\ Len(ab) <= Len(s) /\ Len(b) \in Nat
      /\ b = SubSeq(s, Len(a) + 1, Len(ab))
  <2>1. Len(a) + Len(b) \in Nat
    BY <1>7
  <2>2. QED
    BY <2>1, <1>6a, <1>7, Zenon
<1>9. QED
  BY <1>8 DEF s, a, ab, b, h

(* Where the first k of the packets end.                                   *)
EndOf(p, k) == Len(FlattenSeq(SubSeq(p, 1, k)))

EndsOf(p) == [k \in 0..Len(p) |-> EndOf(p, k)]

(* The places where the packets end.                                       *)
LEMMA AnswerEnds ==
    ASSUME NEW p \in Seq(Seq(PlainBytes)), NEW e, e = EndsOf(p)
    PROVE  /\ e \in [0..Len(p) -> 0..Len(FlattenSeq(p))] /\ e[0] = 0 /\ e[Len(p)] = Len(FlattenSeq(p))
           /\ \A k \in 1..Len(p) : /\ e[k] = e[k - 1] + Len(p[k]) /\ e[k] = EndOf(p, k) /\ e[k - 1] = EndOf(p, k - 1)
                                   /\ p[k] = SubSeq(FlattenSeq(p), e[k - 1] + 1, e[k])
<1> DEFINE K == Len(p)
           s == FlattenSeq(p)
<1>1. K \in Nat /\ s \in Seq(PlainBytes) /\ Len(s) \in Nat
  BY FlatType
<1>2. \A k \in 1..K : /\ EndOf(p, k) = EndOf(p, k - 1) + Len(p[k]) /\ EndOf(p, k) \in Nat /\ EndOf(p, k) <= Len(s)
                      /\ p[k] = SubSeq(s, EndOf(p, k - 1) + 1, EndOf(p, k))
  BY PacketPlace DEF EndOf
<1>3. EndOf(p, 0) = 0
  BY FlatNone DEF EndOf
<1>4. EndOf(p, K) = Len(s)
  BY WholePart DEF EndOf
<1> HIDE DEF K, s
<1>5. \A k \in 0..K : EndOf(p, k) \in 0..Len(s)
  <2> TAKE k \in 0..K
  <2>1. k = 0 \/ k \in 1..K
    BY <1>1
  <2>2. QED
    BY <2>1, <1>1, <1>2, <1>3
<1>6. e = [k \in 0..K |-> EndOf(p, k)]
  BY DEF K, EndsOf
<1>7. \A k \in 0..K : e[k] = EndOf(p, k)
  BY <1>6
<1>8. e \in [0..K -> 0..Len(s)]
  BY <1>5, <1>6
<1>9. \A k \in 1..K : k \in 0..K /\ k - 1 \in 0..K
  BY <1>1
<1>9a. 0 \in 0..K /\ K \in 0..K
  BY <1>1
<1>10. QED
  BY <1>2, <1>3, <1>4, <1>7, <1>8, <1>9, <1>9a DEF K, s

(* The places where the pieces end, and the start.                         *)
CutsOf(cuts) == [j \in 0..Len(cuts) |-> Cut(cuts, j)]

(* They grow from the start to the end.                                    *)
LEMMA AnswerCuts ==
    ASSUME NEW n \in Nat, NEW cuts \in Cuttings(n), NEW c, c = CutsOf(cuts)
    PROVE  /\ Len(cuts) \in Nat /\ Len(cuts) # 0 /\ DOMAIN cuts = 1..Len(cuts)
           /\ c \in [0..Len(cuts) -> 0..n] /\ c[0] = 0 /\ c[Len(cuts)] = n
           /\ \A j \in 1..Len(cuts) : c[j - 1] < c[j] /\ c[j] = cuts[j] /\ c[j - 1] = Cut(cuts, j - 1)
<1>1. PICK k \in 1..MaxPieces :
              /\ k \in Nat /\ cuts \in Seq(1..n) /\ Len(cuts) = k /\ DOMAIN cuts = 1..k
              /\ cuts[k] = n /\ \A j \in 1..(k - 1) : cuts[j] < cuts[j + 1]
  BY CuttingShape
<1>2. k # 0 /\ \A j \in 1..k : cuts[j] \in 1..n
  <2>1. k # 0
    BY <1>1
  <2>2. \A j \in 1..Len(cuts) : cuts[j] \in 1..n
    BY <1>1, SeqShape
  <2>3. QED
    BY <2>1, <2>2, <1>1
<1>3. Cut(cuts, 0) = 0 /\ \A j \in 1..k : Cut(cuts, j) = cuts[j]
  BY <1>1 DEF Cut
<1>4. \A j \in 0..k : Cut(cuts, j) \in 0..n
  <2> TAKE j \in 0..k
  <2>1. j = 0 \/ j \in 1..k
    BY <1>1
  <2>2. QED
    BY <2>1, <1>2, <1>3
<1>5. c = [j \in 0..k |-> Cut(cuts, j)]
  BY <1>1 DEF CutsOf
<1>6. c \in [0..k -> 0..n] /\ \A j \in 0..k : c[j] = Cut(cuts, j)
  BY <1>4, <1>5
<1>7. 0 \in 0..k /\ k \in 0..k /\ k \in 1..k /\ \A j \in 1..k : j \in 0..k /\ j - 1 \in 0..k
  BY <1>1, <1>2
<1>8. \A j \in 1..k : Cut(cuts, j - 1) < Cut(cuts, j)
  <2> TAKE j \in 1..k
  <2>1. CASE j = 1
    <3>1. cuts[1] \in 1..n /\ Cut(cuts, 1) = cuts[1] /\ Cut(cuts, 0) = 0
      BY <2>1, <1>2, <1>3
    <3>2. j - 1 = 0
      BY <2>1
    <3> DEFINE v == cuts[1]
    <3>3. v > 0
      <4> HIDE DEF v
      <4>1. v \in 1..n
        BY <3>1 DEF v
      <4>2. QED
        BY <4>1
    <3>4. QED
      BY <3>1, <3>2, <3>3, <2>1
  <2>2. CASE j # 1
    <3> DEFINE i == j - 1
    <3>1. i \in 1..(k - 1) /\ i + 1 = j /\ i \in 1..k
      BY <2>2, <1>1
    <3> HIDE DEF i
    <3>2. cuts[i] < cuts[i + 1] /\ Cut(cuts, i) = cuts[i] /\ Cut(cuts, j) = cuts[j]
      BY <3>1, <1>1, <1>3
    <3>3. QED
      BY <3>1, <3>2 DEF i
  <2>3. QED
    BY <2>1, <2>2
<1>9. QED
  BY <1>1, <1>2, <1>3, <1>6, <1>7, <1>8

(* A piece in a compressed packet, compressed or not.                      *)
Wrapped(piece, nr, zip) == IF zip THEN Zipped(piece, nr) ELSE Raw(piece, nr)

(* It carries the piece.                                                   *)
LEMMA WrappedShape ==
    ASSUME NEW piece \in Seq(PlainBytes), Len(piece) # 0, NEW nr \in NumberSet, NEW zip \in BOOLEAN
    PROVE  /\ Wrapped(piece, nr, zip) \in DownPackets /\ Plain(Wrapped(piece, nr, zip)) = piece
           /\ Wrapped(piece, nr, zip).nr = nr
<1>1. Len(piece) \in Nat
  OBVIOUS
<1>2. CASE zip
  <2> DEFINE b == [part |-> "zip", plain |-> piece]
             w == Zipped(piece, nr)
  <2>1. b \in Bytes
    BY DEF Bytes, ZipBytes
  <2> HIDE DEF b
  <2>2. <<b>> \in Seq(Bytes) /\ Len(<<b>>) = 1
    BY <2>1
  <2>3. w = [nr |-> nr, size |-> Len(piece), body |-> <<b>>]
    BY DEF Zipped, b
  <2>4. w \in [nr : NumberSet, size : Nat, body : Seq(Bytes)] /\ w.body = <<b>>
    BY <2>2, <2>3, <1>1
  <2>5. Plain(w) = piece /\ w.nr = nr
    BY PlainZipped
  <2> HIDE DEF w
  <2>6. w \in DownPackets
    <3>1. Len(w.body) # 0
      BY <2>2, <2>4
    <3>2. QED
      BY <3>1, <2>4, <2>5 DEF DownPackets
  <2>7. Wrapped(piece, nr, zip) = w
    BY <1>2 DEF Wrapped, w
  <2>8. QED
    BY <2>5, <2>6, <2>7
<1>3. CASE ~zip
  <2> DEFINE w == Raw(piece, nr)
  <2>1. piece \in Seq(Bytes)
    <3>1. PlainBytes \subseteq Bytes
      BY DEF Bytes
    <3>2. QED
      BY <3>1, LargerSeq
  <2>2. w = [nr |-> nr, size |-> 0, body |-> piece]
    BY DEF Raw
  <2>3. w \in [nr : NumberSet, size : Nat, body : Seq(Bytes)] /\ w.body = piece
    BY <2>1, <2>2
  <2>4. Plain(w) = piece /\ w.nr = nr
    BY PlainRaw
  <2> HIDE DEF w
  <2>5. w \in DownPackets
    BY <2>3, <2>4 DEF DownPackets
  <2>6. Wrapped(piece, nr, zip) = w
    BY <1>3 DEF Wrapped, w
  <2>7. QED
    BY <2>4, <2>5, <2>6
<1>4. QED
  BY <1>2, <1>3

(* The compressed packets of an answer.                                    *)
WrapAll(s, cuts, nr, zip) ==
    [k \in 1..Len(cuts) |-> Wrapped(Pieces(s, cuts)[k], (nr + k - 1) % Numbers, zip)]

(* They carry the pieces of its bytes and are numbered on.                 *)
LEMMA WrappedPieces ==
    ASSUME NEW s \in Seq(PlainBytes), NEW cuts \in Cuttings(Len(s)), NEW zip \in BOOLEAN, NEW nr \in Nat,
           NEW c, c = CutsOf(cuts),
           NEW ws, ws = WrapAll(s, cuts, nr, zip)
    PROVE  /\ ws \in Seq(DownPackets) /\ Len(ws) = Len(cuts)
           /\ Len(Pieces(s, cuts)) = Len(cuts) /\ DOMAIN Pieces(s, cuts) = 1..Len(cuts)
           /\ \A k \in 1..Len(cuts) : /\ Plain(ws[k]) = SubSeq(s, c[k - 1] + 1, c[k])
                                      /\ ws[k].nr = (nr + k - 1) % Numbers
<1> DEFINE J == Len(cuts)
           n == Len(s)
           pieces == Pieces(s, cuts)
           W(k) == Wrapped(pieces[k], (nr + k - 1) % Numbers, zip)
<1>1. n \in Nat
  OBVIOUS
<1>2. /\ J \in Nat /\ J # 0 /\ DOMAIN cuts = 1..J
      /\ c \in [0..J -> 0..n] /\ c[0] = 0 /\ c[J] = n
      /\ \A j \in 1..J : c[j - 1] < c[j] /\ c[j] = cuts[j] /\ c[j - 1] = Cut(cuts, j - 1)
  BY <1>1, AnswerCuts
<1>3. /\ DOMAIN pieces = 1..J
      /\ \A k \in 1..J : pieces[k] = SubSeq(s, c[k - 1] + 1, c[k])
  BY <1>2 DEF Pieces
<1>4. Len(pieces) = J
  <2>1. pieces = [j \in 1..J |-> SubSeq(s, Cut(cuts, j - 1) + 1, cuts[j])]
    BY <1>2 DEF Pieces
  <2> HIDE DEF J
  <2>2. QED
    BY <2>1, <1>2
<1> HIDE DEF J, n, pieces
<1>5. \A k \in 1..J : pieces[k] \in Seq(PlainBytes) /\ Len(pieces[k]) # 0
  <2> TAKE k \in 1..J
  <2> DEFINE a == c[k - 1]
             b == c[k]
  <2>1. k \in 0..J /\ k - 1 \in 0..J
    BY <1>2
  <2>2. a \in 0..n /\ b \in 0..n /\ a < b /\ pieces[k] = SubSeq(s, a + 1, b)
    BY <2>1, <1>2, <1>3
  <2> HIDE DEF a, b
  <2>3. a \in Nat /\ b \in Nat /\ a <= b /\ b <= Len(s) /\ b - a # 0
    BY <2>2, <1>1 DEF n
  <2>4. SubSeq(s, a + 1, b) \in Seq(PlainBytes) /\ Len(SubSeq(s, a + 1, b)) = b - a
    BY <2>3, Part
  <2>5. QED
    BY <2>2, <2>3, <2>4
<1>6. \A k \in 1..J : (nr + k - 1) % Numbers \in NumberSet
  <2> TAKE k \in 1..J
  <2>1. nr + k - 1 \in Nat
    BY <1>2
  <2>2. QED
    BY <2>1, NumberIsNumber
<1>7. \A k \in 1..J : W(k) \in DownPackets /\ Plain(W(k)) = pieces[k] /\ W(k).nr = (nr + k - 1) % Numbers
  BY <1>5, <1>6, WrappedShape
<1>8. ws = [k \in 1..J |-> W(k)]
  BY DEF J, pieces, WrapAll
<1> HIDE DEF W
<1>9. ws \in [1..J -> DownPackets] /\ \A k \in 1..J : ws[k] = W(k)
  BY <1>7, <1>8
<1>10. ws \in Seq(DownPackets) /\ Len(ws) = J
  BY <1>2, <1>9, FunctionIsSequence
<1>11. QED
  BY <1>3, <1>4, <1>7, <1>9, <1>10 DEF J, pieces

(* What the server makes of its packets is an answer, whatever the cuts.   *)
LEMMA AnswerMade ==
    ASSUME NEW p \in Seq(Replied), p \in Seq(Seq(PlainBytes)), NEW cuts \in Cuttings(Len(FlattenSeq(p))),
           NEW zip \in BOOLEAN, NEW nr \in Nat,
           NEW e, e = EndsOf(p),
           NEW c, c = CutsOf(cuts),
           NEW ws, ws = WrapAll(FlattenSeq(p), cuts, nr, zip)
    PROVE  Answer(FlattenSeq(p), p, e, c, ws)
<1> DEFINE s == FlattenSeq(p)
<1>1. s \in Seq(PlainBytes) /\ Len(s) \in Nat
  BY FlatType
<1>2. /\ e \in [0..Len(p) -> 0..Len(s)] /\ e[0] = 0 /\ e[Len(p)] = Len(s)
      /\ \A k \in 1..Len(p) : e[k] = e[k - 1] + Len(p[k]) /\ p[k] = SubSeq(s, e[k - 1] + 1, e[k])
  BY AnswerEnds
<1>3. /\ c \in [0..Len(cuts) -> 0..Len(s)] /\ c[0] = 0 /\ c[Len(cuts)] = Len(s)
      /\ \A j \in 1..Len(cuts) : c[j - 1] < c[j]
  BY <1>1, AnswerCuts
<1> HIDE DEF s
<1>4. /\ ws \in Seq(DownPackets) /\ Len(ws) = Len(cuts)
      /\ \A k \in 1..Len(cuts) : Plain(ws[k]) = SubSeq(s, c[k - 1] + 1, c[k])
  <2>1. cuts \in Cuttings(Len(s))
    BY DEF s
  <2>2. ws = WrapAll(s, cuts, nr, zip)
    BY DEF s
  <2>3. QED
    BY <2>1, <2>2, <1>1, WrappedPieces
<1>5. Answer(s, p, e, c, ws)
  BY <1>1, <1>2, <1>3, <1>4 DEF Answer
<1>6. QED
  BY <1>5 DEF s

(* Cuts that are not hard are soft.                                        *)
LEMMA NotHardIsSoft ==
    ASSUME NEW p, NEW e, NEW cuts, NEW c, NEW ws, NEW s, Answer(s, p, e, c, ws), Len(ws) = Len(cuts),
           NEW starts, NEW ends, DOMAIN starts = 1..Len(p), DOMAIN cuts = 1..Len(cuts),
           \A j \in 1..Len(cuts) : c[j] = cuts[j],
           \A k \in 1..Len(p) : starts[k] = e[k - 1] + 1 /\ ends[k] = e[k],
           ~Hard(cuts, starts, ends)
    PROVE  Soft(p, e, c, ws)
<1> DEFINE K == Len(p)
           J == Len(cuts)
<1>1. /\ e \in [0..K -> 0..Len(s)] /\ c \in [0..J -> 0..Len(s)] /\ K \in Nat /\ J \in Nat /\ Len(s) \in Nat
  BY DEF Answer
<1>2. \A k \in 1..K, j \in 1..J :
        cuts[j] >= starts[k] => /\ ~(cuts[j] < starts[k] + Header - 2)
                                /\ j < J => ~(cuts[j + 1] < ends[k])
  BY DEF Hard
<1> HIDE DEF K, J
<1> SUFFICES ASSUME NEW k \in 1..K, NEW j \in 1..J, c[j] > e[k - 1]
             PROVE  c[j] >= e[k - 1] + Header - 1 /\ (j < J => c[j + 1] >= e[k])
  BY DEF Soft, K, J
<1> DEFINE x == c[j]
           y == e[k - 1]
           z == e[k]
           w == c[j + 1]
<1>3. x \in Nat /\ y \in Nat /\ z \in Nat /\ (j < J => w \in Nat /\ cuts[j + 1] = w)
      /\ cuts[j] = x /\ starts[k] = y + 1 /\ ends[k] = z
  <2>1. j \in 0..J /\ k \in 0..K /\ k - 1 \in 0..K /\ (j < J => j + 1 \in 0..J /\ j + 1 \in 1..J)
    BY <1>1
  <2>2. x \in 0..Len(s) /\ y \in 0..Len(s) /\ z \in 0..Len(s) /\ (j < J => w \in 0..Len(s))
    BY <2>1, <1>1
  <2>3. cuts[j] = x /\ (j < J => cuts[j + 1] = w)
    BY <2>1 DEF J
  <2>4. starts[k] = y + 1 /\ ends[k] = z
    BY DEF K
  <2> HIDE DEF x, y, z, w
  <2>5. QED
    BY <2>2, <2>3, <2>4, <1>1
<1>4. x >= y + 1 => ~(x < (y + 1) + Header - 2) /\ (j < J => ~(w < z))
  BY <1>2, <1>3
<1>5. x > y
  OBVIOUS
<1> HIDE DEF x, y, z, w
<1>6. x >= y + Header - 1 /\ (j < J => w >= z)
  BY <1>3, <1>4, <1>5, Sizes
<1>7. QED
  BY <1>6 DEF x, y, z, w

(* The packets of an answer, their lengths and numbers.                    *)
LEMMA AnswerTypes ==
    ASSUME NEW lengths \in Seq(0..MaxPayload), lengths # <<>>, NEW nr \in Nat, NEW p, p = AnswerOf(lengths, nr)
    PROVE  /\ p \in Seq(Replied) /\ p \in Seq(Seq(PlainBytes)) /\ p \in Seq(Seq(Bytes)) /\ p # <<>>
           /\ Len(p) = Len(lengths) /\ DOMAIN lengths = 1..Len(p)
           /\ \A k \in 1..Len(p) : Len(p[k]) = Header + lengths[k] /\ lengths[k] \in Nat
                                   /\ p[k][Header].nr = (nr + k - 1) % Numbers
<1> DEFINE K == Len(p)
<1>1. /\ p \in Seq(Seq(PlainBytes)) /\ p \in Seq(Seq(Bytes)) /\ K = Len(lengths) /\ p # <<>>
      /\ \A k \in 1..K :
                 /\ lengths[k] \in 0..MaxPayload /\ (nr + k - 1) % Numbers \in NumberSet
                 /\ p[k] = Packet(lengths[k], (nr + k - 1) % Numbers, 0)
  BY AnswerPackets
<1>2. K \in Nat /\ DOMAIN lengths = 1..K
  BY <1>1, SeqShape
<1>3. p \in [1..K -> Seq(PlainBytes)]
  BY <1>1
<1> HIDE DEF K
<1>4. \A k \in 1..K : p[k] \in Replied
  BY <1>1, <1>3 DEF Replied
<1>5. p \in [1..K -> Replied]
  BY <1>3, <1>4
<1>6. p \in Seq(Replied)
  BY <1>2, <1>5, FunctionIsSequence
<1>7. \A k \in 1..K : Len(p[k]) = Header + lengths[k] /\ lengths[k] \in Nat /\ p[k][Header].nr = (nr + k - 1) % Numbers
  <2> TAKE k \in 1..K
  <2> DEFINE l == lengths[k]
             x == (nr + k - 1) % Numbers
             g == p[k]
  <2>1. l \in 0..MaxPayload /\ x \in NumberSet /\ g = Packet(l, x, 0)
    BY <1>1
  <2> HIDE DEF l, x, g
  <2>2. l \in 0..MaxPayload /\ l \in Nat /\ 0 \in Nat /\ Header \in 1..Header
    BY <2>1, Sizes
  <2>3. Len(Packet(l, x, 0)) = Header + l /\ \A i \in 1..Header : Packet(l, x, 0)[i] = HeadByte(i, l, x)
    BY <2>1, <2>2, PacketShape
  <2>4. g[Header] = HeadByte(Header, l, x) /\ HeadByte(Header, l, x).nr = x
    BY <2>1, <2>2, <2>3, HeadFields
  <2>5. QED
    BY <2>1, <2>2, <2>3, <2>4 DEF l, x, g
<1>8. QED
  BY <1>1, <1>2, <1>6, <1>7 DEF K

(* An answer keeps the second half when the client is where it begins.     *)
LEMMA AnswerFollows ==
    ASSUME PacketsInv, Quiet, UNCHANGED <<compressed, client>>, sending'.turn # "server",
           kind'.torn = kind.torn, kind.hard => kind'.hard,
           owed' \in Seq(Replied), downlink' \in Seq(Bytes), Follows'
    PROVE  ClientHalf'
<1>1. ClientTypes /\ PacketsWhole /\ recv = NoRecv
  BY DEF PacketsInv, ClientHalf, Quiet
<1>2. UNCHANGED <<recv, queue, last>>
  BY DEF client
<1>3. ClientTypes'
  BY <1>1, <1>2 DEF ClientTypes
<1>4. PacketsWhole'
  BY <1>1, <1>2 DEF PacketsWhole
<1>5. QED
  BY <1>1, <1>2, <1>3, <1>4 DEF ClientHalf

(* The number after the last of n numbers.                                 *)
LEMMA NextInTurn ==
    ASSUME NEW nr \in Nat, NEW n \in Nat, n # 0
    PROVE  (nr + n) % Numbers = NextNumber((nr + n - 1) % Numbers)
<1> DEFINE x == nr + n - 1
<1>1. x \in Nat /\ x + 1 = nr + n
  OBVIOUS
<1> HIDE DEF x
<1>2. NextNumber(x % Numbers) = (x + 1) % Numbers
  BY <1>1, NumberIsNumber
<1>3. QED
  BY <1>1, <1>2 DEF x

(* An answer to NetworkBrokerPlain.                                        *)
LEMMA PlainAnswer ==
    ASSUME PacketsInv, Quiet, ~compressed, NEW lengths \in Seq(0..MaxPayload), lengths # <<>>, NEW next,
           next = "data" => lengths = << 1 >>, server.nr \in Nat, ServerSends(lengths, next),
           sending'.turn = next, next # "server",
           server'.nr = IF next = "command" THEN 0 ELSE (server.nr + Len(lengths)) % Numbers
    PROVE  ClientHalf'
<1> DEFINE p == [k \in DOMAIN lengths |-> Packet(lengths[k], (server.nr + k - 1) % Numbers, 0)]
<1>1. /\ owed' = p /\ downlink' = FlattenSeq(p) /\ UNCHANGED <<kind, compressed, client>>
  BY DEF ServerSends
<1>1a. p = AnswerOf(lengths, server.nr)
  BY DEF AnswerOf
<1> HIDE DEF p
<1>2. /\ p \in Seq(Replied) /\ p \in Seq(Seq(Bytes)) /\ Len(p) = Len(lengths)
      /\ \A k \in 1..Len(p) : p[k][Header].nr = (server.nr + k - 1) % Numbers
  BY <1>1a, AnswerTypes
<1>3. FlattenSeq(p) \in Seq(Bytes)
  BY <1>2, FlatType
<1>4. recv' = NoRecv /\ queue' = <<>>
  BY <1>1 DEF Quiet, client
<1>5. recv'.head = <<>> /\ recv'.chunk = <<>>
  BY <1>4, NoRecvFields
<1>6. Cat(recv'.head, Cat(recv'.chunk, downlink')) = FlattenSeq(owed')
  <2> DEFINE f == FlattenSeq(p)
  <2>1. f \in Seq(Bytes)
    BY <1>3
  <2> HIDE DEF f
  <2>2. Cat(<<>>, f) = f
    BY <2>1, CatEmpty
  <2>3. QED
    BY <2>2, <1>1, <1>5 DEF f
<1>7. ASSUME Following'
      PROVE  Len(owed') = 1 /\ server'.nr = NextNumber(owed'[1][Header].nr)
  <2>1. next = "data" /\ lengths = <<1>>
    BY <1>7 DEF Following
  <2>2. Len(lengths) = 1
    BY <2>1
  <2>3. server'.nr = (server.nr + 1) % Numbers
    BY <2>1, <2>2
  <2>4. 1 \in 1..Len(p)
    BY <2>2, <1>2
  <2>5. p[1][Header].nr = (server.nr + 1 - 1) % Numbers
    BY <2>4, <1>2
  <2>6. (server.nr + 1) % Numbers = NextNumber((server.nr + 1 - 1) % Numbers)
    BY NextInTurn
  <2>7. QED
    BY <2>2, <2>3, <2>5, <2>6, <1>1, <1>2
<1>8. PlainClient'
  BY <1>4, <1>6, <1>7 DEF PlainClient
<1>9. Follows'
  BY <1>1, <1>8 DEF Follows
<1>10. QED
  BY <1>1, <1>2, <1>3, <1>9, AnswerFollows

(* All bytes of an answer come.                                            *)
LEMMA BehindStart ==
    ASSUME NEW ws \in Seq(DownPackets)
    PROVE  Behind(ws, 0) = FlattenSeq(Outers(ws)) /\ FlattenSeq(Outers(ws)) \in Seq(Bytes)
<1>1. Outers(ws) \in Seq(Seq(Bytes)) /\ Len(Outers(ws)) = Len(ws)
  BY OutersShape
<1> DEFINE o == Outers(ws)
<1> HIDE DEF o
<1>2. SubSeq(o, 1, Len(o)) = o
  BY <1>1, WholePart DEF o
<1>3. FlattenSeq(o) \in Seq(Bytes)
  BY <1>1, FlatType DEF o
<1>4. 0 + 1 = 1
  OBVIOUS
<1>5. Behind(ws, 0) = FlattenSeq(SubSeq(o, 1, Len(o)))
  BY <1>1, <1>4 DEF Behind, o
<1>6. QED
  BY <1>2, <1>3, <1>5 DEF o

(* The client is at the start of an answer.                                *)
LEMMA AnswerStart ==
    ASSUME compressed, UNCHANGED compressed, recv' = NoRecv, queue' = <<>>,
           NEW s, NEW p, NEW e, NEW c, NEW ws, Answer(s, p, e, c, ws), owed' = p, downlink' = Behind(ws, 0),
           kind'.hard \/ Soft(p, e, c, ws),
           Following' => server'.nr = NextNumber(ws[Len(ws)].nr)
    PROVE  Follows'
<1>1. recv'.at = "idle"
  BY NoRecvFields
<1>2. ~AtBody' /\ ~AtMore' /\ ~AtSplit'
  BY <1>1 DEF AtBody, AtMore, AtSplit
<1>3. Wire(ws, 0)'
  <2>1. Behind(ws, 0)' = Behind(ws, 0)
    BY DEF Behind, Outers
  <2>2. QED
    BY <2>1, <1>1, <1>2 DEF Wire
<1>4. Splitting(s, c, 0, 0)'
  BY <1>1, <1>2 DEF Splitting
<1>5. p \in Seq(Replied) /\ Len(p) \in Nat /\ Len(ws) \in Nat /\ Len(s) \in Nat /\ e[0] = 0 /\ c[0] = 0
  BY DEF Answer
<1>6. ASSUME ~kind'.hard
      PROVE  Aligned(p, e, c, ws, 0, 0, 0, 0)'
  <2>1. SubSeq(p, 0 + 1, Len(p)) = p /\ SubSeq(p, 0 + 1, 0) = <<>>
    BY <1>5, WholePart
  <2>2. Soft(p, e, c, ws)
    BY <1>6
  <2>3. QED
    BY <2>1, <2>2, <1>1, <1>2, <1>5 DEF Aligned, Following
<1>7. 0 \in 0..Len(ws) /\ 0 \in 0..Len(s) /\ 0 \in 0..Len(p)
  BY <1>5
<1>8. kind'.hard \/ \E i \in 0..Len(p), m \in 0..Len(p) : Aligned(p, e, c, ws, 0, i, m, 0)'
  BY <1>6, <1>7
<1>9. QED
  BY <1>3, <1>4, <1>7, <1>8, CompressedNext

(* An answer to NetworkBrokerCompressed.                                   *)
LEMMA CompressedAnswer ==
    ASSUME PacketsInv, Quiet, compressed, NEW lengths \in Seq(0..MaxPayload), lengths # <<>>, NEW next,
           server.nr \in Nat, ServerSends(lengths, next), sending'.turn = next, next \in {"command", "data"}
    PROVE  ClientHalf'
<1> DEFINE p == [k \in DOMAIN lengths |-> Packet(lengths[k], (server.nr + k - 1) % Numbers, 0)]
           s == FlattenSeq(p)
           ends == [k \in DOMAIN lengths |-> Len(FlattenSeq(SubSeq(p, 1, k)))]
           starts == [k \in DOMAIN lengths |-> ends[k] - Header - lengths[k] + 1]
           Wrap(cuts, zip, k) == Outer(IF zip THEN Zipped(Pieces(s, cuts)[k], (server.nr + k - 1) % Numbers)
                                       ELSE Raw(Pieces(s, cuts)[k], (server.nr + k - 1) % Numbers))
<1>1. /\ owed' = p /\ UNCHANGED <<compressed, client>>
      /\ \E cuts \in Cuttings(Len(s)), zip \in BOOLEAN :
            /\ downlink' = FlattenSeq([k \in DOMAIN Pieces(s, cuts) |-> Wrap(cuts, zip, k)])
            /\ server' = [server EXCEPT !.at = next, !.got = 0,
                                        !.nr = IF next = "command" THEN 0
                                               ELSE (@ + Len(Pieces(s, cuts))) % Numbers]
            /\ kind' = [kind EXCEPT !.hard = @ \/ Hard(cuts, starts, ends)]
  BY DEF ServerSends
<1>2. PICK cuts \in Cuttings(Len(s)), zip \in BOOLEAN :
            /\ downlink' = FlattenSeq([k \in DOMAIN Pieces(s, cuts) |-> Wrap(cuts, zip, k)])
            /\ server' = [server EXCEPT !.at = next, !.got = 0,
                                        !.nr = IF next = "command" THEN 0
                                               ELSE (@ + Len(Pieces(s, cuts))) % Numbers]
            /\ kind' = [kind EXCEPT !.hard = @ \/ Hard(cuts, starts, ends)]
  BY <1>1
<1>3. p = AnswerOf(lengths, server.nr)
  BY DEF AnswerOf
<1>4. DOMAIN starts = DOMAIN lengths /\ DOMAIN ends = DOMAIN lengths
      /\ \A k \in DOMAIN lengths : ends[k] = EndOf(p, k) /\ starts[k] = ends[k] - Header - lengths[k] + 1
  BY DEF EndOf
<1>5. \A k : Wrap(cuts, zip, k) = Outer(Wrapped(Pieces(s, cuts)[k], (server.nr + k - 1) % Numbers, zip))
  BY DEF Wrapped
<1> HIDE DEF p, ends, starts, Wrap
<1>6. /\ p \in Seq(Replied) /\ p \in Seq(Seq(PlainBytes)) /\ p # <<>> /\ Len(p) = Len(lengths)
      /\ DOMAIN lengths = 1..Len(p)
      /\ \A k \in 1..Len(p) : Len(p[k]) = Header + lengths[k] /\ lengths[k] \in Nat
  BY <1>3, AnswerTypes
<1> DEFINE e == EndsOf(p)
           c == CutsOf(cuts)
           nr == server.nr
           ws == WrapAll(s, cuts, nr, zip)
           J == Len(cuts)
<1>7. Answer(s, p, e, c, ws)
  <2> HIDE DEF e, c, ws, nr
  <2>1. nr \in Nat /\ e = EndsOf(p) /\ c = CutsOf(cuts) /\ ws = WrapAll(FlattenSeq(p), cuts, nr, zip)
    BY DEF e, c, ws, nr
  <2>2. QED
    BY <2>1, <1>6, AnswerMade
<1>8. s \in Seq(PlainBytes) /\ Len(s) \in Nat
  BY <1>6, FlatType
<1> HIDE DEF s
<1>9. /\ ws \in Seq(DownPackets) /\ Len(ws) = J
      /\ Len(Pieces(s, cuts)) = J /\ DOMAIN Pieces(s, cuts) = 1..J
      /\ \A k \in 1..J : ws[k].nr = (nr + k - 1) % Numbers
  <2> HIDE DEF c, ws, nr
  <2>1. nr \in Nat /\ c = CutsOf(cuts) /\ ws = WrapAll(s, cuts, nr, zip)
    BY DEF c, ws, nr
  <2>2. QED
    BY <2>1, <1>8, WrappedPieces
<1>10. /\ J \in Nat /\ J # 0 /\ DOMAIN cuts = 1..J /\ \A j \in 1..J : c[j] = cuts[j]
  <2> HIDE DEF c
  <2>1. c = CutsOf(cuts)
    BY DEF c
  <2>2. QED
    BY <2>1, <1>8, AnswerCuts
<1>11. \A k \in 1..Len(p) : e[k] = e[k - 1] + Len(p[k]) /\ e[k] = EndOf(p, k)
  <2> HIDE DEF e
  <2>1. e = EndsOf(p)
    BY DEF e
  <2>2. QED
    BY <2>1, <1>6, AnswerEnds
<1>12. \A k \in 1..J : ws[k] = Wrapped(Pieces(s, cuts)[k], (nr + k - 1) % Numbers, zip)
  BY DEF WrapAll
<1>13. downlink' = Behind(ws, 0) /\ Behind(ws, 0) \in Seq(Bytes)
  <2>1. Outers(ws) = [k \in 1..J |-> Outer(ws[k])]
    BY <1>9 DEF Outers
  <2>2. \A k \in 1..J : Wrap(cuts, zip, k) = Outer(ws[k])
    BY <1>5, <1>12
  <2>3. [k \in DOMAIN Pieces(s, cuts) |-> Wrap(cuts, zip, k)] = Outers(ws)
    <3> HIDE DEF ws, J
    <3>1. [k \in 1..J |-> Wrap(cuts, zip, k)] = [k \in 1..J |-> Outer(ws[k])]
      BY <2>2
    <3>2. QED
      BY <3>1, <2>1, <1>9
  <2>4. downlink' = FlattenSeq(Outers(ws))
    BY <2>3, <1>2, Zenon
  <2> HIDE DEF ws
  <2>5. QED
    BY <2>4, <1>9, BehindStart
<1>14. ASSUME ~Hard(cuts, starts, ends)
       PROVE  Soft(p, e, c, ws)
  <2>1. \A k \in 1..Len(p) : starts[k] = e[k - 1] + 1 /\ ends[k] = e[k]
    <3> TAKE k \in 1..Len(p)
    <3> DEFINE x == e[k - 1]
               l == lengths[k]
    <3>1. ends[k] = e[k] /\ starts[k] = e[k] - Header - l + 1 /\ e[k] = x + (Header + l) /\ l \in Nat
      BY <1>4, <1>6, <1>11
    <3>2. x \in Nat
      <4>1. e \in [0..Len(p) -> 0..Len(s)] /\ Len(p) \in Nat
        BY <1>7 DEF Answer
      <4>2. k - 1 \in 0..Len(p)
        BY <4>1
      <4> HIDE DEF e
      <4>3. Len(s) \in Nat
        BY <1>8
      <4>4. e[k - 1] \in 0..Len(s)
        BY <4>1, <4>2
      <4>5. QED
        BY <4>3, <4>4
    <3> DEFINE y == e[k]
    <3> HIDE DEF x, l, y
    <3>3. y = x + (Header + l) => y - Header - l + 1 = x + 1
      BY <3>1, <3>2, Sizes
    <3>4. QED
      BY <3>1, <3>3 DEF x, y
  <2> HIDE DEF e, c, ws, J
  <2>2. DOMAIN starts = 1..Len(p) /\ DOMAIN cuts = 1..Len(cuts) /\ Len(ws) = Len(cuts)
        /\ \A j \in 1..Len(cuts) : c[j] = cuts[j]
    BY <1>4, <1>6, <1>9, <1>10 DEF J
  <2>3. QED
    BY <2>1, <2>2, <1>7, <1>14, NotHardIsSoft
<1>15. kind'.torn = kind.torn /\ kind'.hard = (kind.hard \/ Hard(cuts, starts, ends))
  <2>1. kind \in [hard : BOOLEAN, torn : BOOLEAN]
    BY UpTypesParts DEF PacketsInv, ServerHalf
  <2> DEFINE h == kind.hard \/ Hard(cuts, starts, ends)
  <2>2. kind' = [kind EXCEPT !.hard = h]
    BY <1>2
  <2> HIDE DEF h
  <2>3. kind'.torn = kind.torn /\ kind'.hard = h
    BY <2>1, <2>2
  <2>4. QED
    BY <2>3 DEF h
<1>16. ASSUME Following'
       PROVE  server'.nr = NextNumber(ws[Len(ws)].nr)
  <2>1. next = "data"
    BY <1>16 DEF Following
  <2>2. server'.nr = (nr + J) % Numbers
    <3>1. server = [at |-> server.at, nr |-> server.nr, buf |-> server.buf, got |-> server.got,
                    error |-> server.error]
      BY UpTypesParts DEF PacketsInv, ServerHalf
    <3> DEFINE x == (nr + Len(Pieces(s, cuts))) % Numbers
    <3>2. server' = [server EXCEPT !.at = next, !.got = 0, !.nr = x]
      BY <2>1, <1>2
    <3>3. x = (nr + J) % Numbers
      BY <1>9
    <3> HIDE DEF x
    <3>4. server'.nr = x
      BY <3>1, <3>2
    <3>5. QED
      BY <3>3, <3>4
  <2>3. ws[J].nr = (nr + J - 1) % Numbers
    <3>1. J \in 1..J
      BY <1>10
    <3>2. QED
      BY <3>1, <1>9
  <2>4. (nr + J) % Numbers = NextNumber((nr + J - 1) % Numbers)
    BY <1>10, NextInTurn
  <2> HIDE DEF ws, nr, J
  <2>5. QED
    BY <2>2, <2>3, <2>4, <1>9
<1>17. recv' = NoRecv /\ queue' = <<>>
  BY <1>1 DEF Quiet, client
<1> HIDE DEF e, c, ws
<1>18. Follows'
  <2>1. kind'.hard \/ Soft(p, e, c, ws)
    BY <1>14, <1>15
  <2>2. compressed' = compressed
    BY <1>1
  <2>3. QED
    BY <2>1, <2>2, <1>1, <1>7, <1>13, <1>16, <1>17, AnswerStart
<1>19. downlink' \in Seq(Bytes)
  BY <1>13
<1>20. QED
  BY <1>1, <1>6, <1>15, <1>18, <1>19, AnswerFollows

(* The server answers: the second half is kept.                            *)
LEMMA ClientServerAnswers ==
    ASSUME PacketsInv, ServerAnswers
    PROVE  ClientHalf'
<1>1. server.at \in {"answer", "end"} /\ server.error = "none"
  BY DEF ServerAnswers
<1>2. Quiet
  BY <1>1, AnswerTime DEF PacketsInv, ClientHalf
<1>3. PICK lengths, next :
              /\ ServerSends(lengths, next) /\ lengths \in Seq(0..MaxPayload) /\ lengths # <<>>
              /\ next \in {"command", "data"} /\ (next = "data" => lengths = <<1>>)
  BY AnswerShape
<1>4. UpTypes
  BY DEF PacketsInv, ServerHalf
<1>5. server.nr \in Nat
  <2>1. server.nr \in NumberSet
    BY <1>4, UpTypesParts
  <2>2. QED
    BY <2>1 DEF NumberSet
<1>6. sending'.turn = next
  BY <1>3, <1>4, ServerSendsShape
<1>7. CASE compressed
  BY <1>2, <1>3, <1>5, <1>6, <1>7, CompressedAnswer
<1>8. CASE ~compressed
  <2>1. server'.nr = IF next = "command" THEN 0 ELSE (server.nr + Len(lengths)) % Numbers
    <3> DEFINE x == IF next = "command" THEN 0 ELSE (server.nr + Len(lengths)) % Numbers
    <3>1. server = [at |-> server.at, nr |-> server.nr, buf |-> server.buf, got |-> server.got,
                    error |-> server.error]
      BY <1>4, UpTypesParts
    <3>2. server' = [server EXCEPT !.at = next, !.got = 0, !.nr = x]
      BY <1>3, <1>8 DEF ServerSends
    <3> HIDE DEF x
    <3>3. server'.nr = x
      BY <3>1, <3>2
    <3>4. QED
      BY <3>3 DEF x
  <2>2. QED
    BY <2>1, <1>2, <1>3, <1>5, <1>6, <1>8, PlainAnswer
<1>9. QED
  BY <1>7, <1>8

-----------------------------------------------------------------------------
(* The theorems.                                                           *)

(* The second half holds at the start.                                     *)
LEMMA ClientInit ==
    ASSUME Init
    PROVE  ClientHalf
<1>1. <<>> \in Seq(Bytes) /\ <<>> \in Seq(Seq(PlainBytes)) /\ <<>> \in Seq(Replied)
  OBVIOUS
<1>2. owed = <<>> /\ downlink = <<>> /\ queue = <<>> /\ recv = NoRecv
  BY DEF Init
<1>3. ClientTypes
  BY <1>1, <1>2, NoRecvFields DEF ClientTypes
<1>4. Quiet /\ Follows
  BY <1>2, QuietFollows DEF Quiet
<1>5. PacketsWhole
  BY DEF Init, PacketsWhole
<1>6. QED
  BY <1>2, <1>3, <1>4, <1>5 DEF ClientHalf

(* recv() begins, or returns a queued packet.                              *)
LEMMA RecvStep ==
    ASSUME PacketsInv, Recv
    PROVE  PacketsInv'
<1>1. CASE ~compressed
  BY <1>1, PlainRecvStep
<1>2. CASE compressed /\ queue = <<>>
  BY <1>2, CompressedRecvStep
<1>3. CASE compressed /\ queue # <<>>
  <2>1. recv.at = "idle" /\ ~Stopped /\ owed # <<>>
    BY DEF Recv, Idle, Stopped
  <2>2. Dequeue(queue) /\ UNCHANGED <<compressed, uplink, server, downlink, sending, kind, exchanges>>
    BY <1>3 DEF Recv
  <2>3. QED
    BY <1>3, <2>1, <2>2, DequeueStep
<1>4. QED
  BY <1>1, <1>2, <1>3

(* The body of a compressed packet is read.                                *)
LEMMA OuterBodyStep ==
    ASSUME PacketsInv, OuterBodyRead
    PROVE  PacketsInv'
<1>1. recv.at = "body" \/ AtMoreBody
  BY Zenon DEF OuterBodyRead, AtMoreBody
<1>2. QED
  BY <1>1, FirstBodyStep, MoreBodyStep

(* A stuttering step keeps the invariant.                                  *)
LEMMA PacketsStay ==
    ASSUME PacketsInv, UNCHANGED vars
    PROVE  PacketsInv'
<1>1. UNCHANGED <<compressed, pktnr, recv, queue, last, uplink, server, downlink, owed, sending, kind, exchanges>>
  BY DEF vars, client
<1>2. ServerHalf /\ ClientHalf
  BY DEF PacketsInv
<1>3. pktnr' \in [plain : NumberSet, outer : NumberSet] /\ kind' \in [hard : BOOLEAN, torn : BOOLEAN]
  BY <1>1, <1>2, UpTypesParts DEF ServerHalf
<1>4. recv.at # "idle" => owed # <<>>
  BY <1>2 DEF ServerHalf, OwedInv
<1>5. DataNumbers'
  BY <1>1, <1>2 DEF ServerHalf, DataNumbers, Stopped, Latest
<1>6. ServerHalf'
  BY <1>1, <1>2, <1>3, <1>4, <1>5, ServerClientStep
<1>7. Follows => Follows'
  BY <1>1, FollowsSame DEF Following
<1>8. ClientHalf'
  BY <1>1, <1>2, <1>7 DEF ClientHalf, ClientTypes, PacketsWhole, Stopped, Quiet
<1>9. QED
  BY <1>6, <1>8 DEF PacketsInv

(* Every step keeps the invariant.                                         *)
LEMMA PacketsStep ==
    ASSUME PacketsInv, [Next]_vars
    PROVE  PacketsInv'
<1>1. ServerHalf /\ ClientHalf
  BY DEF PacketsInv
<1>2. ASSUME NEW n \in Commands, SendCommand(n)
      PROVE  PacketsInv'
  <2>1. ServerHalf'
    BY <1>1, <1>2, ServerSendCommand
  <2>2. MaySend("command") /\ UNCHANGED <<compressed, server, downlink, owed, recv, queue, kind, last>>
    BY <1>2 DEF SendCommand
  <2>3. QED
    BY <2>1, <2>2, ClientSends DEF PacketsInv
<1>3. ASSUME NEW n \in Data \cup {0}, SendData(n)
      PROVE  PacketsInv'
  <2>1. ServerHalf'
    BY <1>1, <1>3, ServerSendData
  <2>2. MaySend("data") /\ UNCHANGED <<compressed, server, downlink, owed, recv, queue, kind, last>>
    BY <1>3 DEF SendData
  <2>3. QED
    BY <2>1, <2>2, ClientSends DEF PacketsInv
<1>4. CASE Recv
  BY <1>4, RecvStep
<1>5. CASE RecvInto
  BY <1>5, PlainRecvIntoStep, CompressedRecvIntoStep
<1>6. CASE PlainHeader
  BY <1>6, PlainHeaderStep
<1>7. CASE PlainBody
  BY <1>7, PlainBodyStep
<1>8. CASE OuterHeaderRead
  BY <1>8, OuterHeaderStep
<1>9. CASE OuterBodyRead
  BY <1>9, OuterBodyStep
<1>10. CASE Split
  BY <1>10, SplitStep
<1>11. CASE TimeOut
  BY <1>11, PlainTimeOutStep, CompressedTimeOutStep
<1>12. CASE ServerReads
  BY <1>1, <1>12, ServerServerReads, ServerSteps DEF PacketsInv
<1>13. CASE ServerTakes
  BY <1>1, <1>13, ServerServerTakes, ServerSteps DEF PacketsInv
<1>14. CASE ServerStores
  BY <1>1, <1>14, ServerServerStores, ServerSteps DEF PacketsInv
<1>15. CASE ServerAnswers
  BY <1>1, <1>15, ServerServerAnswers, ClientServerAnswers DEF PacketsInv
<1>16. CASE UNCHANGED vars
  BY <1>16, PacketsStay
<1>17. QED
  BY <1>2, <1>3, <1>4, <1>5, <1>6, <1>7, <1>8, <1>9, <1>10, <1>11, <1>12, <1>13, <1>14, <1>15, <1>16
     DEF Next, Receiving

(* The inductive invariant holds in every reachable state.                 *)
THEOREM PacketsInvariant == Spec => []PacketsInv
<1>1. Init => PacketsInv
  BY ServerInit, ClientInit DEF PacketsInv
<1>2. PacketsInv /\ [Next]_vars => PacketsInv'
  BY PacketsStep
<1>3. QED
  BY <1>1, <1>2, PTL DEF Spec

(* The state of the brokers and of the server keeps its type, for payloads *)
(* of every length and answers of every shape.                             *)
THEOREM PacketTypes == Spec => []TypeOK
<1>1. PacketsInv => TypeOK
  <2> SUFFICES ASSUME PacketsInv PROVE TypeOK
    OBVIOUS
  <2>1. ClientTypes /\ UpTypes
    BY DEF PacketsInv, ClientHalf, ServerHalf
  <2>2. recv.at \in {"idle", "header", "body", "more header", "more body", "split"} /\ recv.need \in Nat
    BY <2>1, ClientTypesParts
  <2>3. /\ compressed \in BOOLEAN /\ exchanges \in 0..MaxExchanges
        /\ pktnr \in [plain : NumberSet, outer : NumberSet] /\ server.nr \in NumberSet
        /\ server.error \in {"none", "out of order", "too long", "garbled"}
    BY <2>1, UpTypesParts
  <2>4. QED
    BY <2>2, <2>3, Zenon DEF TypeOK, NumberSet
<1>2. QED
  BY <1>1, PacketsInvariant, PTL

(* send() of either broker gives the server every payload byte for byte,   *)
(* however long it is and at whatever remainder of MAX_PAYLOAD_LENGTH it   *)
(* ends, in packets that are numbered without a gap, and never leaves it   *)
(* waiting, unless a compressed send has ended with the empty packet.      *)
THEOREM ServerGetsEverything == Spec => []ServerGetsAll
<1>1. PacketsInv => ServerGetsAll
  BY ServerGets DEF PacketsInv
<1>2. QED
  BY <1>1, PacketsInvariant, PTL

(* recv() of either broker returns the packets that the server sent, whole *)
(* and in order, for any answers, however the server cuts them into        *)
(* compressed packets and the socket into reads, and whenever timeouts     *)
(* expire, unless one tore a packet or a cut was a hard one.               *)
THEOREM PacketsComeWhole == Spec => []PacketsWhole
<1>1. PacketsInv => PacketsWhole
  BY DEF PacketsInv, ClientHalf
<1>2. QED
  BY <1>1, PacketsInvariant, PTL

=============================================================================

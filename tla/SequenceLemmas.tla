--------------------------- MODULE SequenceLemmas ---------------------------
(***************************************************************************)
(* Facts about sequences that several proofs rest on.  The induction rules *)
(* of the library take an operator as their parameter; here the property   *)
(* to be shown is the set of those that have it, which is a value.  Behind *)
(* it is that a set of numbers that is not empty has a least one: of the   *)
(* lengths at which something fails there would be a shortest.             *)
(***************************************************************************)
EXTENDS Sublists, SequenceTheorems, FiniteSetTheorems, WellFoundedInduction, TLAPS

-----------------------------------------------------------------------------
(* Induction.                                                              *)

\* A set of numbers that is not empty has a least one.
LEMMA LeastNumber ==
  ASSUME NEW T \in SUBSET Nat, T # {}
  PROVE  \E x \in T : \A y \in T : x <= y
<1> DEFINE R == OpToRel(<, Nat)
<1>1. IsWellFoundedOn(R, Nat)
  BY NatLessThanWellFounded, Zenon
<1>2. R = {ss \in Nat \X Nat : ss[1] < ss[2]}
  BY Zenon DEF OpToRel
<1> HIDE DEF R
<1>3. PICK x \in T : \A y \in T : ~(<<y, x>> \in R)
  BY <1>1, WFMin
<1>4. ASSUME NEW y \in T PROVE x <= y
  <2>1. <<y, x>> \notin R /\ x \in Nat /\ y \in Nat
    BY <1>3
  <2>2. <<y, x>> \in Nat \X Nat /\ <<y, x>>[1] = y /\ <<y, x>>[2] = x
    BY <2>1
  <2>3. ~(y < x)
    BY <2>1, <2>2, <1>2
  <2> QED BY <2>1, <2>3
<1> QED BY <1>4

\* a is s, a sequence of elements of A, with x after it.
Longer(A, s, x, a) == s \in Seq(A) /\ x \in A /\ a = Append(s, x)

\* A set of sequences that has the empty one, and with each those longer by an element,
\* has them all.
LEMMA SequenceInduction ==
  ASSUME NEW A, NEW T \in SUBSET Seq(A), <<>> \in T,
         \A s \in T : \A x, a : Longer(A, s, x, a) => a \in T
  PROVE  \A s \in Seq(A) : s \in T
<1> DEFINE Lengths == {Len(s) : s \in Seq(A) \ T}
<1> SUFFICES ASSUME Lengths # {} PROVE FALSE
  OBVIOUS
<1>1. PICK n \in Lengths : \A m \in Lengths : n <= m
  <2>1. Lengths \in SUBSET Nat
    BY LenProperties
  <2> HIDE DEF Lengths
  <2> QED BY <2>1, LeastNumber
<1>2. PICK s \in Seq(A) \ T : n = Len(s)
  OBVIOUS
<1>3. PICK u \in Seq(A), x \in A : s = Append(u, x)
  BY <1>2, SequenceEmptyOrAppend
<1>4. Len(s) = Len(u) + 1 /\ Len(u) \in Nat
  BY <1>3, AppendProperties, LenProperties
<1>5. u \in T
  <2>1. ~(n <= Len(u))
    BY <1>2, <1>4
  <2> QED BY <1>1, <2>1
<1>6. Longer(A, u, x, s)
  BY <1>3 DEF Longer
<1> QED BY <1>2, <1>5, <1>6

\* What a longer sequence is.
LEMMA LongerTypes ==
  ASSUME NEW A, NEW s, NEW x, NEW a, Longer(A, s, x, a)
  PROVE  /\ s \in Seq(A) /\ x \in A /\ a \in Seq(A) /\ a # <<>>
         /\ Len(s) \in Nat /\ Len(a) = Len(s) + 1 /\ a[Len(s) + 1] = x
         /\ DOMAIN s = 1..Len(s) /\ DOMAIN a = 1..Len(a)
         /\ \A i \in 1..Len(s) : a[i] = s[i]
BY AppendProperties, LenProperties DEF Longer

\* Its elements.
LEMMA LongerElements ==
  ASSUME NEW A, NEW s, NEW x, NEW a, Longer(A, s, x, a)
  PROVE  ToSet(a) = ToSet(s) \cup {x}
<1>1. /\ Len(a) = Len(s) + 1 /\ Len(s) \in Nat /\ a[Len(s) + 1] = x
      /\ DOMAIN s = 1..Len(s) /\ DOMAIN a = 1..Len(a) /\ \A i \in 1..Len(s) : a[i] = s[i]
  BY LongerTypes
<1>2. ASSUME NEW i \in DOMAIN a PROVE a[i] \in ToSet(s) \cup {x}
  <2>1. CASE i = Len(s) + 1
    BY <2>1, <1>1
  <2>2. CASE i # Len(s) + 1
    <3>1. i \in DOMAIN s /\ a[i] = s[i]
      BY <2>2, <1>1
    <3> QED BY <3>1 DEF ToSet
  <2> QED BY <2>1, <2>2
<1>3. ASSUME NEW i \in DOMAIN s PROVE s[i] \in ToSet(a)
  <2>1. i \in DOMAIN a /\ a[i] = s[i]
    BY <1>1
  <2> QED BY <2>1, Zenon DEF ToSet
<1>4. x \in ToSet(a)
  <2>1. Len(s) + 1 \in DOMAIN a
    BY <1>1
  <2> QED BY <2>1, <1>1, Zenon DEF ToSet
<1> QED BY <1>2, <1>3, <1>4 DEF ToSet

-----------------------------------------------------------------------------
(* Concatenation.                                                          *)

\* f[i] is the concatenation of the first i of s.
Joins(f, s, n) == \A i \in 1..n : f[i] = IF i = 1 THEN s[1] ELSE f[i-1] \o s[i]

\* The concatenations of the prefixes of sequences that agree agree.
LEMMA JoinsAgree ==
  ASSUME NEW n \in Nat, NEW f, NEW g, NEW s, NEW u, Joins(f, s, n), Joins(g, u, n),
         \A i \in 1..n : s[i] = u[i]
  PROVE  \A i \in 1..n : f[i] = g[i]
<1> DEFINE Bad == {i \in 1..n : f[i] # g[i]}
<1> SUFFICES ASSUME Bad # {} PROVE FALSE
  OBVIOUS
<1>1. PICK i \in Bad : \A j \in Bad : i <= j
  <2>1. Bad \in SUBSET Nat
    OBVIOUS
  <2> HIDE DEF Bad
  <2> QED BY <2>1, LeastNumber
<1>2. i \in 1..n /\ f[i] # g[i] /\ s[i] = u[i]
  OBVIOUS
<1>3. CASE i = 1
  BY <1>2, <1>3 DEF Joins
<1>4. CASE i # 1
  <2>1. i - 1 \in 1..n /\ ~(i <= i - 1)
    BY <1>2, <1>4
  <2>2. f[i-1] = g[i-1]
    BY <1>1, <2>1
  <2> QED BY <1>2, <1>4, <2>2 DEF Joins
<1> QED BY <1>3, <1>4

\* The prefixes of a sequence of sequences can be concatenated.
LEMMA JoinsExist ==
  ASSUME NEW C, NEW s \in Seq(Seq(C)), NEW m \in 1..Len(s)
  PROVE  \E f \in [1..m -> Seq(C)] : Joins(f, s, m)
<1> DEFINE Bad == {n \in 1..Len(s) : ~\E f \in [1..n -> Seq(C)] : Joins(f, s, n)}
<1>0. Len(s) \in Nat /\ \A i \in 1..Len(s) : s[i] \in Seq(C)
  BY LenProperties, ElementOfSeq
<1>1. ASSUME Bad # {} PROVE FALSE
  <2>1. PICK n \in Bad : \A k \in Bad : n <= k
    <3>1. Bad \in SUBSET Nat
      OBVIOUS
    <3> HIDE DEF Bad
    <3> QED BY <1>1, <3>1, LeastNumber
  <2>2. n \in 1..Len(s) /\ n \in Nat
    BY <1>0
  <2>3. CASE n = 1
    <3> DEFINE f == [i \in 1..1 |-> s[1]]
    <3>1. f \in [1..n -> Seq(C)] /\ Joins(f, s, n)
      BY <1>0, <2>2, <2>3 DEF Joins
    <3> QED BY <3>1
  <2>4. CASE n # 1
    <3> DEFINE p == n - 1
    <3>1. p \in 1..Len(s) /\ p < n /\ p \in Nat /\ n = p + 1
      BY <2>2, <2>4
    <3>2. PICK f \in [1..p -> Seq(C)] : Joins(f, s, p)
      <4>1. ~(n <= p)
        BY <3>1, <2>2
      <4>2. p \notin Bad
        BY <2>1, <4>1
      <4>3. \E f \in [1..p -> Seq(C)] : Joins(f, s, p)
        <5> HIDE DEF p
        <5> QED BY <3>1, <4>2, Zenon
      <4> QED BY <4>3
    <3> HIDE DEF p
    <3> DEFINE g == [i \in 1..n |-> IF i = n THEN f[p] \o s[n] ELSE f[i]]
    <3>3. f[p] \o s[n] \in Seq(C)
      <4>1. f[p] \in Seq(C) /\ s[n] \in Seq(C)
        BY <1>0, <2>2, <3>1
      <4> QED BY <4>1, ConcatProperties
    <3>4. \A i \in 1..n : i # n => i \in 1..p
      BY <3>1
    <3>5. g \in [1..n -> Seq(C)]
      BY <3>3, <3>4
    <3>6. ASSUME NEW i \in 1..n PROVE g[i] = IF i = 1 THEN s[1] ELSE g[i-1] \o s[i]
      <4>1. CASE i = n
        <5>1. i # 1 /\ i - 1 = p /\ p \in 1..n /\ p # n
          BY <2>4, <3>1, <4>1
        <5>2. g[i-1] = f[p] /\ g[i] = f[p] \o s[n]
          BY <4>1, <5>1
        <5> HIDE DEF g
        <5> QED BY <4>1, <5>1, <5>2
      <4>2. CASE i # n
        <5>1. i \in 1..p /\ (i # 1 => i - 1 \in 1..p /\ i - 1 # n /\ i - 1 \in 1..n)
          BY <3>1, <3>4, <4>2
        <5>2. g[i] = f[i] /\ (i # 1 => g[i-1] = f[i-1])
          BY <4>2, <5>1
        <5> HIDE DEF g
        <5> QED BY <3>2, <5>1, <5>2 DEF Joins
      <4> QED BY <4>1, <4>2
    <3>7. Joins(g, s, n)
      BY <3>6 DEF Joins
    <3> QED BY <3>5, <3>7
  <2> QED BY <2>3, <2>4
<1> QED BY <1>1

\* What FlattenSeq computes.
LEMMA FlattenIsJoin ==
  ASSUME NEW C, NEW s \in Seq(Seq(C)), NEW f \in [1..Len(s) -> Seq(C)], Joins(f, s, Len(s)), Len(s) # 0
  PROVE  FlattenSeq(s) = f[Len(s)]
<1> DEFINE Is(g) == g = [i \in 1..Len(s) |-> IF i = 1 THEN s[i] ELSE g[i-1] \o s[i]]
           F == CHOOSE g : Is(g)
<1>1. FlattenSeq(s) = F[Len(s)]
  BY Zenon DEF FlattenSeq
<1>2. Is(f)
  <2>1. f = [i \in 1..Len(s) |-> f[i]]
    OBVIOUS
  <2>2. \A i \in 1..Len(s) : f[i] = IF i = 1 THEN s[i] ELSE f[i-1] \o s[i]
    BY DEF Joins
  <2> QED BY <2>1, <2>2
<1>3. Is(F)
  <2> HIDE DEF Is
  <2> QED BY <1>2, Zenon
<1>4. Joins(F, s, Len(s))
  <2> HIDE DEF F
  <2>1. \A i \in 1..Len(s) : F[i] = IF i = 1 THEN s[i] ELSE F[i-1] \o s[i]
    BY <1>3
  <2> QED BY <2>1 DEF Joins
<1>5. Len(s) \in Nat /\ Len(s) \in 1..Len(s)
  BY LenProperties
<1> HIDE DEF F
<1>6. F[Len(s)] = f[Len(s)]
  BY <1>4, <1>5, JoinsAgree
<1> QED BY <1>1, <1>6

\* The last of them, in particular.
LEMMA JoinsSame ==
  ASSUME NEW size \in Nat, size # 0, NEW f, NEW g, NEW a, NEW s, Joins(f, a, size), Joins(g, s, size),
         \A i \in 1..size : a[i] = s[i]
  PROVE  f[size] = g[size]
<1>1. \A i \in 1..size : f[i] = g[i]
  BY JoinsAgree
<1> QED BY <1>1

\* A sequence of texts is concatenated one text at a time.
LEMMA FlattenAppend ==
  ASSUME NEW C, NEW s \in Seq(Seq(C)), NEW x \in Seq(C)
  PROVE  /\ FlattenSeq(s) \in Seq(C)
         /\ FlattenSeq(Append(s, x)) = FlattenSeq(s) \o x
<1> DEFINE a == Append(s, x)
<1>0. /\ a \in Seq(Seq(C)) /\ Len(a) = Len(s) + 1 /\ Len(s) \in Nat /\ a[Len(s) + 1] = x
      /\ \A i \in 1..Len(s) : a[i] = s[i]
  BY AppendProperties, LenProperties
<1> HIDE DEF a
<1>1. Len(a) # 0 /\ Len(a) \in 1..Len(a) /\ Len(a) \in Nat
  BY <1>0
<1>2. PICK f \in [1..Len(a) -> Seq(C)] : Joins(f, a, Len(a))
  BY <1>0, <1>1, JoinsExist
<1>3. FlattenSeq(a) = f[Len(a)]
  BY <1>0, <1>1, <1>2, FlattenIsJoin
<1>4. CASE s = <<>>
  <2>1. Len(s) = 0
    BY <1>4
  <2>2. FlattenSeq(s) = <<>>
    BY <1>4, <2>1 DEF FlattenSeq
  <2>3. f[Len(a)] = x
    BY <1>0, <1>1, <1>2, <2>1 DEF Joins
  <2> QED BY <1>3, <2>2, <2>3, ConcatEmptySeq, EmptySeq DEF a
<1>5. CASE s # <<>>
  <2> DEFINE size == Len(s)
  <2>1. size \in Nat /\ size # 0 /\ size \in 1..size /\ Len(a) = size + 1 /\ size \in 1..Len(a)
    BY <1>0, <1>5, EmptySeq
  <2>2. PICK g \in [1..size -> Seq(C)] : Joins(g, s, size)
    BY <2>1, JoinsExist
  <2>3. FlattenSeq(s) = g[size]
    BY <2>1, <2>2, FlattenIsJoin
  <2>4. g[size] \in Seq(C)
    BY <2>1
  <2> HIDE DEF size
  <2>5. Joins(f, a, size)
    <3>1. \A i \in 1..size : i \in 1..Len(a)
      BY <2>1
    <3> QED BY <1>2, <3>1 DEF Joins
  <2>6. f[size] = g[size]
    <3>1. \A i \in 1..size : a[i] = s[i]
      BY <1>0 DEF size
    <3>2. Joins(g, s, size) /\ size \in Nat
      BY <2>1, <2>2
    <3>3. f[size] = g[size]
      <4>1. Joins(f, a, size) /\ Joins(g, s, size) /\ size \in Nat /\ \A i \in 1..size : a[i] = s[i]
        BY <2>5, <3>1, <3>2
      <4> HIDE DEF Joins
      <4> QED BY <2>1, <4>1, JoinsSame
    <3> QED BY <2>1, <3>3
  <2>7. f[size + 1] = f[size] \o a[size + 1]
    <3> DEFINE m == size + 1
    <3>1. m \in 1..Len(a) /\ m # 1 /\ m - 1 = size
      BY <2>1
    <3> HIDE DEF m
    <3>2. f[m] = IF m = 1 THEN a[1] ELSE f[m-1] \o a[m]
      BY <1>2, <3>1 DEF Joins
    <3>3. f[m] = f[size] \o a[m]
      BY <3>1, <3>2
    <3> QED BY <3>3 DEF m
  <2>8. a[size + 1] = x
    BY <1>0 DEF size
  <2> QED BY <1>3, <2>1, <2>3, <2>4, <2>6, <2>7, <2>8 DEF a
<1> QED BY <1>4, <1>5

\* What g makes of each element of s.
Mapped(g, s) == [i \in DOMAIN s |-> g[s[i]]]

\* A sequence mapped by a function is a sequence of its values.
LEMMA MappedTypes ==
  ASSUME NEW A, NEW B, NEW g \in [A -> B], NEW s \in Seq(A)
  PROVE  Mapped(g, s) \in Seq(B)
<1> DEFINE u == Mapped(g, s)
<1>1. Len(s) \in Nat /\ DOMAIN s = 1..Len(s) /\ \A i \in 1..Len(s) : s[i] \in A
  BY LenProperties, ElementOfSeq
<1>2. u \in [1..Len(s) -> B]
  BY <1>1 DEF Mapped
<1> HIDE DEF u
<1>3. u \in Seq(B)
  BY <1>1, <1>2, SeqDef
<1> QED BY <1>3 DEF u

\* One value for each element.
LEMMA MappedElements ==
  ASSUME NEW A, NEW s \in Seq(A), NEW g
  PROVE  /\ DOMAIN Mapped(g, s) = 1..Len(s)
         /\ \A i \in 1..Len(s) : Mapped(g, s)[i] = g[s[i]]
BY LenProperties DEF Mapped

\* One more element is one more value.
LEMMA MappedAppend ==
  ASSUME NEW A, NEW B, NEW g \in [A -> B], NEW s \in Seq(A), NEW x \in A, NEW a, a = Append(s, x)
  PROVE  Mapped(g, a) = Append(Mapped(g, s), g[x])
<1> DEFINE u == Mapped(g, s)
           v == Mapped(g, a)
           y == g[x]
           b == Append(u, y)
<1>1. /\ a \in Seq(A) /\ Len(a) = Len(s) + 1 /\ Len(s) \in Nat /\ a[Len(s) + 1] = x
      /\ \A i \in 1..Len(s) : a[i] = s[i]
  BY AppendProperties, LenProperties
<1>2. u \in Seq(B) /\ Len(u) = Len(s) /\ \A i \in 1..Len(s) : u[i] = g[s[i]]
  <2>1. u \in Seq(B)
    BY MappedTypes
  <2>2. DOMAIN u = 1..Len(s) /\ \A i \in 1..Len(s) : u[i] = g[s[i]]
    BY MappedElements
  <2> HIDE DEF u
  <2> QED BY <1>1, <2>1, <2>2, LenProperties
<1>3. v \in Seq(B) /\ Len(v) = Len(a) /\ \A i \in 1..Len(a) : v[i] = g[a[i]]
  <2>1. v \in Seq(B)
    BY <1>1, MappedTypes
  <2>2. DOMAIN v = 1..Len(a) /\ \A i \in 1..Len(a) : v[i] = g[a[i]]
    <3> HIDE DEF v
    <3> SUFFICES DOMAIN Mapped(g, a) = 1..Len(a) /\ \A i \in 1..Len(a) : Mapped(g, a)[i] = g[a[i]]
      BY DEF v
    <3>1. a \in Seq(A)
      BY <1>1
    <3> QED BY <3>1, MappedElements, Zenon
  <2> HIDE DEF v
  <2> QED BY <1>1, <2>1, <2>2, LenProperties
<1>4. y \in B
  OBVIOUS
<1> HIDE DEF u, v
<1>5. /\ b \in Seq(B) /\ Len(b) = Len(a) /\ b[Len(s) + 1] = y
      /\ \A i \in 1..Len(s) : b[i] = u[i]
  <2> HIDE DEF y
  <2> QED BY <1>1, <1>2, <1>4, AppendProperties
<1> HIDE DEF b
<1>6. \A i \in 1..Len(a) : v[i] = b[i]
  <2> SUFFICES ASSUME NEW i \in 1..Len(a) PROVE g[a[i]] = b[i]
    BY <1>3
  <2>1. CASE i = Len(s) + 1
    BY <2>1, <1>1, <1>5
  <2>2. CASE i # Len(s) + 1
    <3>1. i \in 1..Len(s)
      BY <2>2, <1>1
    <3> QED BY <3>1, <1>1, <1>2, <1>5
  <2> QED BY <2>1, <2>2
<1>7. v = b
  BY <1>3, <1>5, <1>6, SeqEqual
<1> QED BY <1>7 DEF u, v, b, y

-----------------------------------------------------------------------------
(* What Only keeps.                                                        *)

\* Nothing of nothing.
LEMMA OnlyEmpty == ASSUME NEW S PROVE Only(<<>>, S) = <<>>
BY DEF Only, FlattenSeq

\* One element at a time: it is kept if it is in S.
LEMMA OnlyAppend ==
  ASSUME NEW A, NEW s, NEW x, NEW a, NEW S, Longer(A, s, x, a)
  PROVE  IF x \in S THEN Longer(A, Only(s, S), x, Only(a, S)) ELSE Only(a, S) = Only(s, S)
<1>0. s \in Seq(A) /\ x \in A /\ a = Append(s, x)
  BY DEF Longer
<1>1. PICK g : g = [y \in A |-> IF y \in S THEN <<y>> ELSE <<>>]
  OBVIOUS
<1>2. g \in [A -> Seq(A)]
  BY <1>1
<1>3. ASSUME NEW u \in Seq(A) PROVE Only(u, S) = FlattenSeq(Mapped(g, u))
  <2>1. [i \in DOMAIN u |-> IF u[i] \in S THEN <<u[i]>> ELSE <<>>] = Mapped(g, u)
    BY <1>1, LenProperties, ElementOfSeq DEF Mapped
  <2> QED BY <2>1, Zenon DEF Only
<1>4. a \in Seq(A)
  BY <1>0, AppendProperties
<1>5. Mapped(g, s) \in Seq(Seq(A))
  BY <1>0, <1>2, MappedTypes, Zenon
<1>6. Mapped(g, a) = Append(Mapped(g, s), g[x])
  BY <1>0, <1>2, MappedAppend, Zenon
<1>7. g[x] \in Seq(A)
  BY <1>0, <1>2
<1>8. PICK u, y : u = Mapped(g, s) /\ y = g[x]
  OBVIOUS
<1>9. FlattenSeq(u) \in Seq(A) /\ FlattenSeq(Append(u, y)) = FlattenSeq(u) \o y
  BY <1>5, <1>7, <1>8, FlattenAppend
<1>10. Only(s, S) \in Seq(A) /\ Only(a, S) = Only(s, S) \o y
  BY <1>0, <1>3, <1>4, <1>6, <1>8, <1>9
<1>11. CASE x \in S
  <2>1. Only(a, S) = Append(Only(s, S), x)
    BY <1>0, <1>1, <1>8, <1>10, <1>11, AppendIsConcat
  <2> QED BY <1>0, <1>10, <1>11, <2>1 DEF Longer
<1>12. CASE x \notin S
  BY <1>0, <1>1, <1>8, <1>10, <1>12, ConcatEmptySeq
<1> QED BY <1>11, <1>12

\* An element of S is kept.
LEMMA OnlyKeeps ==
  ASSUME NEW A, NEW s, NEW x, NEW a, NEW S, Longer(A, s, x, a), x \in S
  PROVE  Longer(A, Only(s, S), x, Only(a, S))
BY OnlyAppend

\* Any other is not.
LEMMA OnlyDrops ==
  ASSUME NEW A, NEW s, NEW x, NEW a, NEW S, Longer(A, s, x, a), x \notin S
  PROVE  Only(a, S) = Only(s, S)
BY OnlyAppend

\* A sequence of what it was of.
LEMMA OnlyTypes == ASSUME NEW A, NEW S, NEW s \in Seq(A) PROVE Only(s, S) \in Seq(A)
<1> DEFINE T == {u \in Seq(A) : Only(u, S) \in Seq(A)}
<1>1. <<>> \in T
  BY OnlyEmpty, EmptySeq
<1>2. ASSUME NEW u \in T, NEW x, NEW a, Longer(A, u, x, a) PROVE a \in T
  <2>1. a \in Seq(A)
    BY <1>2, LongerTypes
  <2>2. IF x \in S THEN Longer(A, Only(u, S), x, Only(a, S)) ELSE Only(a, S) = Only(u, S)
    BY ONLY <1>2, OnlyAppend
  <2>3. PICK v, w : v = Only(u, S) /\ w = Only(a, S)
    OBVIOUS
  <2>4. w \in Seq(A)
    BY <2>2, <2>3, LongerTypes
  <2> QED BY <2>1, <2>3, <2>4
<1>3. T \in SUBSET Seq(A)
  OBVIOUS
<1> HIDE DEF T
<1>4. \A u \in Seq(A) : u \in T
  BY <1>1, <1>2, <1>3, SequenceInduction
<1> QED BY <1>4 DEF T

\* The elements in S.
LEMMA OnlyElements ==
  ASSUME NEW A, NEW S, NEW s \in Seq(A)
  PROVE  ToSet(Only(s, S)) = ToSet(s) \cap S
<1> DEFINE T == {u \in Seq(A) : ToSet(Only(u, S)) = ToSet(u) \cap S}
<1>1. <<>> \in T
  <2>1. ToSet(<<>>) = {}
    BY DEF ToSet
  <2> QED BY <2>1, OnlyEmpty, EmptySeq
<1>2. ASSUME NEW u \in T, NEW x, NEW a, Longer(A, u, x, a) PROVE a \in T
  <2>1. a \in Seq(A) /\ ToSet(a) = ToSet(u) \cup {x}
    BY <1>2, LongerTypes, LongerElements
  <2>2. IF x \in S THEN Longer(A, Only(u, S), x, Only(a, S)) ELSE Only(a, S) = Only(u, S)
    BY ONLY <1>2, OnlyAppend
  <2>3. ToSet(Only(a, S)) = ToSet(a) \cap S
    BY <2>1, <2>2, LongerElements
  <2> QED BY <2>1, <2>3
<1>3. T \in SUBSET Seq(A)
  OBVIOUS
<1> HIDE DEF T
<1>4. \A u \in Seq(A) : u \in T
  BY <1>1, <1>2, <1>3, SequenceInduction
<1> QED BY <1>4 DEF T

\* What is longer by the same element is the same.
LEMMA LongerSame ==
  ASSUME NEW A, NEW s, NEW x, NEW a, NEW b, Longer(A, s, x, a), Longer(A, s, x, b)
  PROVE  a = b
BY Zenon DEF Longer

\* What is left of what is left.
LEMMA OnlyOnly ==
  ASSUME NEW A, NEW S, NEW R, NEW s \in Seq(A)
  PROVE  Only(Only(s, S), R) = Only(s, S \cap R)
<1> DEFINE T == {u \in Seq(A) : Only(Only(u, S), R) = Only(u, S \cap R)}
<1>1. <<>> \in T
  BY OnlyEmpty, EmptySeq
<1>2. ASSUME NEW u \in T, NEW x, NEW a, Longer(A, u, x, a) PROVE a \in T
  <2>1. PICK v, w : v = Only(u, S) /\ w = Only(a, S)
    OBVIOUS
  <2>2. a \in Seq(A) /\ Only(v, R) = Only(u, S \cap R)
    BY <1>2, <2>1, LongerTypes
  <2>3. IF x \in S THEN Longer(A, v, x, w) ELSE w = v
    BY <1>2, <2>1, OnlyAppend
  <2>4. IF x \in S \cap R THEN Longer(A, Only(u, S \cap R), x, Only(a, S \cap R))
        ELSE Only(a, S \cap R) = Only(u, S \cap R)
    BY ONLY <1>2, OnlyAppend
  <2>5. CASE x \in S
    <3>1. IF x \in R THEN Longer(A, Only(v, R), x, Only(w, R)) ELSE Only(w, R) = Only(v, R)
      <4>1. Longer(A, v, x, w)
        BY <2>3, <2>5
      <4>2. x \in R => Longer(A, Only(v, R), x, Only(w, R))
        BY ONLY <4>1, OnlyKeeps
      <4>3. x \notin R => Only(w, R) = Only(v, R)
        BY ONLY <4>1, OnlyDrops
      <4> QED BY <4>2, <4>3
    <3>2. Only(w, R) = Only(a, S \cap R)
      BY <2>2, <2>4, <2>5, <3>1, LongerSame
    <3> QED BY <2>1, <2>2, <3>2
  <2>6. CASE x \notin S
    BY <2>1, <2>2, <2>3, <2>4, <2>6
  <2> QED BY <2>5, <2>6
<1>3. T \in SUBSET Seq(A)
  OBVIOUS
<1> HIDE DEF T
<1>4. \A u \in Seq(A) : u \in T
  BY <1>1, <1>2, <1>3, SequenceInduction
<1> QED BY <1>4 DEF T

\* Only the elements there are matter.
LEMMA OnlySame ==
  ASSUME NEW A, NEW S, NEW R, NEW s \in Seq(A), \A x \in ToSet(s) : x \in S <=> x \in R
  PROVE  Only(s, S) = Only(s, R)
<1> DEFINE T == {u \in Seq(A) : (\A x \in ToSet(u) : x \in S <=> x \in R) => Only(u, S) = Only(u, R)}
<1>1. <<>> \in T
  BY OnlyEmpty, EmptySeq
<1>2. ASSUME NEW u \in T, NEW x, NEW a, Longer(A, u, x, a) PROVE a \in T
  <2>1. a \in Seq(A) /\ ToSet(a) = ToSet(u) \cup {x}
    BY <1>2, LongerTypes, LongerElements
  <2>2. IF x \in S THEN Longer(A, Only(u, S), x, Only(a, S)) ELSE Only(a, S) = Only(u, S)
    BY ONLY <1>2, OnlyAppend
  <2>3. IF x \in R THEN Longer(A, Only(u, R), x, Only(a, R)) ELSE Only(a, R) = Only(u, R)
    BY ONLY <1>2, OnlyAppend
  <2>4. ASSUME \A y \in ToSet(a) : y \in S <=> y \in R PROVE Only(a, S) = Only(a, R)
    <3>1. Only(u, S) = Only(u, R) /\ (x \in S <=> x \in R)
      BY <2>1, <2>4
    <3> QED BY <2>2, <2>3, <3>1, LongerSame
  <2> QED BY <2>1, <2>4
<1>3. T \in SUBSET Seq(A)
  OBVIOUS
<1> HIDE DEF T
<1>4. \A u \in Seq(A) : u \in T
  BY <1>1, <1>2, <1>3, SequenceInduction
<1> QED BY <1>4 DEF T

\* Everything is left when everything is in S.
LEMMA OnlyAll ==
  ASSUME NEW A, NEW S, NEW s \in Seq(A), \A x \in ToSet(s) : x \in S
  PROVE  Only(s, S) = s
<1> DEFINE T == {u \in Seq(A) : (\A x \in ToSet(u) : x \in S) => Only(u, S) = u}
<1>1. <<>> \in T
  BY OnlyEmpty, EmptySeq
<1>2. ASSUME NEW u \in T, NEW x, NEW a, Longer(A, u, x, a) PROVE a \in T
  <2>1. a \in Seq(A) /\ ToSet(a) = ToSet(u) \cup {x}
    BY <1>2, LongerTypes, LongerElements
  <2>2. IF x \in S THEN Longer(A, Only(u, S), x, Only(a, S)) ELSE Only(a, S) = Only(u, S)
    BY ONLY <1>2, OnlyAppend
  <2>3. ASSUME \A y \in ToSet(a) : y \in S PROVE Only(a, S) = a
    <3>1. Only(u, S) = u /\ x \in S
      BY <2>1, <2>3
    <3> QED BY <1>2, <2>2, <3>1, LongerSame
  <2> QED BY <2>1, <2>3
<1>3. T \in SUBSET Seq(A)
  OBVIOUS
<1> HIDE DEF T
<1>4. \A u \in Seq(A) : u \in T
  BY <1>1, <1>2, <1>3, SequenceInduction
<1> QED BY <1>4 DEF T

\* A longer sequence repeats nothing when the shorter one does not and the new element is new.
LEMMA LongerDistinct ==
  ASSUME NEW A, NEW s, NEW x, NEW a, Longer(A, s, x, a)
  PROVE  IsInjective(a) <=> IsInjective(s) /\ x \notin ToSet(s)
<1>1. /\ Len(a) = Len(s) + 1 /\ Len(s) \in Nat /\ a[Len(s) + 1] = x
      /\ DOMAIN s = 1..Len(s) /\ DOMAIN a = 1..Len(a) /\ \A i \in 1..Len(s) : a[i] = s[i]
  BY LongerTypes
<1>2. ASSUME IsInjective(a) PROVE IsInjective(s) /\ x \notin ToSet(s)
  <2>1. \A i \in DOMAIN s : i \in DOMAIN a /\ a[i] = s[i] /\ i # Len(s) + 1
    BY <1>1
  <2>2. Len(s) + 1 \in DOMAIN a
    BY <1>1
  <2>3. IsInjective(s)
    BY <1>2, <2>1 DEF IsInjective
  <2>4. ASSUME NEW i \in DOMAIN s PROVE s[i] # x
    BY <1>1, <1>2, <2>1, <2>2 DEF IsInjective
  <2> QED BY <2>3, <2>4 DEF ToSet
<1>3. ASSUME IsInjective(s), x \notin ToSet(s) PROVE IsInjective(a)
  <2>1. \A i \in DOMAIN a : \/ i = Len(s) + 1 /\ a[i] = x
                            \/ i \in DOMAIN s /\ a[i] = s[i]
    BY <1>1
  <2>2. \A i \in DOMAIN s : s[i] # x
    BY <1>3 DEF ToSet
  <2> QED BY <1>3, <2>1, <2>2 DEF IsInjective
<1> QED BY <1>2, <1>3

\* What is left of a sequence without repetition has none.
LEMMA OnlyDistinct ==
  ASSUME NEW A, NEW S, NEW s \in Seq(A), IsInjective(s)
  PROVE  IsInjective(Only(s, S))
<1> DEFINE T == {u \in Seq(A) : IsInjective(u) => IsInjective(Only(u, S))}
<1>1. <<>> \in T
  BY OnlyEmpty, EmptySeq
<1>2. ASSUME NEW u \in T, NEW x, NEW a, Longer(A, u, x, a) PROVE a \in T
  <2>1. a \in Seq(A) /\ u \in Seq(A)
    BY <1>2, LongerTypes
  <2>2. IF x \in S THEN Longer(A, Only(u, S), x, Only(a, S)) ELSE Only(a, S) = Only(u, S)
    BY ONLY <1>2, OnlyAppend
  <2>3. ASSUME IsInjective(a) PROVE IsInjective(Only(a, S))
    <3>1. IsInjective(u) /\ x \notin ToSet(u)
      BY <1>2, <2>3, LongerDistinct
    <3>2. IsInjective(Only(u, S)) /\ x \notin ToSet(Only(u, S))
      BY <2>1, <3>1, OnlyElements
    <3> QED BY <2>2, <3>2, LongerDistinct
  <2> QED BY <2>1, <2>3
<1>3. T \in SUBSET Seq(A)
  OBVIOUS
<1> HIDE DEF T
<1>4. \A u \in Seq(A) : u \in T
  BY <1>1, <1>2, <1>3, SequenceInduction
<1> QED BY <1>4 DEF T

\* A sequence without repetition has as many elements as it is long.
LEMMA DistinctCount ==
  ASSUME NEW A, NEW s \in Seq(A), IsInjective(s)
  PROVE  IsFiniteSet(ToSet(s)) /\ Cardinality(ToSet(s)) = Len(s)
<1> DEFINE T == {u \in Seq(A) : IsInjective(u) =>
                   IsFiniteSet(ToSet(u)) /\ Cardinality(ToSet(u)) = Len(u)}
<1>1. <<>> \in T
  <2>1. ToSet(<<>>) = {}
    BY DEF ToSet
  <2> QED BY <2>1, FS_EmptySet, EmptySeq
<1>2. ASSUME NEW u \in T, NEW x, NEW a, Longer(A, u, x, a) PROVE a \in T
  <2>1. a \in Seq(A) /\ Len(a) = Len(u) + 1 /\ ToSet(a) = ToSet(u) \cup {x}
    BY <1>2, LongerTypes, LongerElements
  <2>2. ASSUME IsInjective(a) PROVE IsFiniteSet(ToSet(a)) /\ Cardinality(ToSet(a)) = Len(a)
    <3>1. IsInjective(u) /\ x \notin ToSet(u)
      BY <1>2, <2>2, LongerDistinct
    <3>2. IsFiniteSet(ToSet(u)) /\ Cardinality(ToSet(u)) = Len(u)
      BY <3>1
    <3>3. PICK E : E = ToSet(u)
      OBVIOUS
    <3>4. IsFiniteSet(E \cup {x}) /\ Cardinality(E \cup {x}) = Cardinality(E) + 1
      BY <3>1, <3>2, <3>3, FS_AddElement
    <3> QED BY <2>1, <3>2, <3>3, <3>4
  <2> QED BY <2>1, <2>2
<1>3. T \in SUBSET Seq(A)
  OBVIOUS
<1> HIDE DEF T
<1>4. \A u \in Seq(A) : u \in T
  BY <1>1, <1>2, <1>3, SequenceInduction
<1> QED BY <1>4 DEF T

\* Only the empty sequence has no elements.
LEMMA ElementsNone == ASSUME NEW A, NEW s \in Seq(A) PROVE s = <<>> <=> ToSet(s) = {}
<1>1. CASE s = <<>>
  BY <1>1 DEF ToSet
<1>2. CASE s # <<>>
  <2>1. Len(s) \in Nat /\ Len(s) # 0 /\ DOMAIN s = 1..Len(s)
    BY <1>2, LenProperties, EmptySeq
  <2>2. 1 \in DOMAIN s
    BY <2>1
  <2> QED BY <1>2, <2>2 DEF ToSet
<1> QED BY <1>1, <1>2

\* What is left comes in the order it was in: the first of it before every other.
LEMMA OnlyFirst ==
  ASSUME NEW A, NEW S, NEW s \in Seq(A), Only(s, S) # <<>>
  PROVE  \E m \in DOMAIN s : /\ s[m] = Only(s, S)[1] /\ s[m] \in S
                             /\ \A n \in DOMAIN s : s[n] \in S => m <= n
<1> DEFINE First(u, m, y) == u[m] = y /\ u[m] \in S /\ \A n \in DOMAIN u : u[n] \in S => m <= n
           T == {u \in Seq(A) : Only(u, S) # <<>> => \E m \in DOMAIN u : First(u, m, Only(u, S)[1])}
<1>1. <<>> \in T
  BY OnlyEmpty, EmptySeq
<1>2. ASSUME NEW u \in T, NEW x, NEW a, Longer(A, u, x, a) PROVE a \in T
  <2>1. /\ a \in Seq(A) /\ u \in Seq(A) /\ Len(u) \in Nat /\ Len(a) = Len(u) + 1 /\ a[Len(u) + 1] = x
        /\ DOMAIN u = 1..Len(u) /\ DOMAIN a = 1..Len(a) /\ \A i \in 1..Len(u) : a[i] = u[i]
    BY <1>2, LongerTypes
  <2>2. PICK v, w : v = Only(u, S) /\ w = Only(a, S)
    OBVIOUS
  <2>3. v \in Seq(A) /\ ToSet(v) = ToSet(u) \cap S
    BY <2>1, <2>2, OnlyTypes, OnlyElements
  <2>4. v # <<>> => \E m \in DOMAIN u : First(u, m, v[1])
    BY <2>2
  <2> HIDE DEF T
  <2>5. ASSUME v # <<>>, w[1] = v[1] PROVE \E m \in DOMAIN a : First(a, m, w[1])
    <3>1. PICK m \in DOMAIN u : First(u, m, v[1])
      BY <2>4, <2>5
    <3>2. m \in DOMAIN a /\ a[m] = u[m] /\ m \in Nat
      BY <2>1
    <3>3. ASSUME NEW n \in DOMAIN a, a[n] \in S PROVE m <= n
      <4>1. CASE n = Len(u) + 1
        BY <2>1, <4>1
      <4>2. CASE n # Len(u) + 1
        <5>1. n \in DOMAIN u /\ u[n] \in S
          BY <2>1, <3>3, <4>2
        <5> QED BY <3>1, <5>1
      <4> QED BY <4>1, <4>2
    <3> QED BY <2>5, <3>1, <3>2, <3>3
  <2>6. ASSUME w # <<>> PROVE \E m \in DOMAIN a : First(a, m, w[1])
    <3>1. CASE x \in S
      <4>1. Longer(A, v, x, w)
        BY ONLY <1>2, <2>2, <3>1, OnlyKeeps
      <4>2. Len(v) \in Nat /\ w[Len(v) + 1] = x /\ \A i \in 1..Len(v) : w[i] = v[i]
        BY <4>1, LongerTypes
      <4>3. CASE v # <<>>
        <5>1. w[1] = v[1]
          BY <2>3, <4>2, <4>3, EmptySeq
        <5> QED BY <2>5, <4>3, <5>1
      <4>4. CASE v = <<>>
        <5>1. w[1] = x /\ \A n \in DOMAIN u : u[n] \notin S
          BY <2>3, <4>2, <4>4 DEF ToSet
        <5>2. \A n \in DOMAIN a : a[n] \in S => n = Len(u) + 1
          BY <2>1, <5>1
        <5>3. Len(u) + 1 \in DOMAIN a /\ Len(u) + 1 <= Len(u) + 1
          BY <2>1
        <5>4. First(a, Len(u) + 1, w[1])
          BY <2>1, <3>1, <5>1, <5>2, <5>3
        <5> QED BY <5>3, <5>4
      <4> QED BY <4>3, <4>4
    <3>2. CASE x \notin S
      <4>1. w = v
        BY ONLY <1>2, <2>2, <3>2, OnlyDrops
      <4> QED BY <2>5, <2>6, <4>1
    <3> QED BY <3>1, <3>2
  <2> QED BY <2>1, <2>2, <2>6 DEF T
<1>3. T \in SUBSET Seq(A)
  OBVIOUS
<1> HIDE DEF T
<1>4. \A u \in Seq(A) : u \in T
  BY <1>1, <1>2, <1>3, SequenceInduction
<1> QED BY <1>4 DEF T

\* What is left of a concatenation.
LEMMA OnlyJoined ==
  ASSUME NEW A, NEW S, NEW r \in Seq(A), NEW s \in Seq(A)
  PROVE  Only(r \o s, S) = Only(r, S) \o Only(s, S)
<1> DEFINE T == {u \in Seq(A) : Only(r \o u, S) = Only(r, S) \o Only(u, S)}
<1>0. Only(r, S) \in Seq(A)
  BY OnlyTypes
<1>1. <<>> \in T
  BY <1>0, OnlyEmpty, EmptySeq, ConcatEmptySeq
<1>2. ASSUME NEW u \in T, NEW x, NEW a, Longer(A, u, x, a) PROVE a \in T
  <2>0. Longer(A, u, x, a)
    BY <1>2
  <2>1. u \in Seq(A) /\ x \in A /\ a = Append(u, x) /\ a \in Seq(A)
    BY <1>2, LongerTypes DEF Longer
  <2>2. r \o u \in Seq(A) /\ r \o a = Append(r \o u, x)
    <3>1. /\ r \o u \in Seq(A) /\ r \o a \in Seq(A) /\ <<x>> \in Seq(A)
          /\ a = u \o <<x>> /\ r \o (u \o <<x>>) = (r \o u) \o <<x>>
      BY <2>1, ConcatProperties, ConcatAssociative, AppendIsConcat
    <3> QED BY <2>1, <3>1, AppendIsConcat
  <2>3. PICK ru, ra : ru = r \o u /\ ra = r \o a
    OBVIOUS
  <2>4. Longer(A, ru, x, ra)
    BY <2>1, <2>2, <2>3 DEF Longer
  <2>5. PICK v, w, vr, va : v = Only(u, S) /\ w = Only(a, S) /\ vr = Only(ru, S) /\ va = Only(ra, S)
    OBVIOUS
  <2>6. IF x \in S THEN Longer(A, v, x, w) ELSE w = v
    <3>1. x \in S => Longer(A, Only(u, S), x, Only(a, S))
      BY ONLY <2>0, OnlyKeeps
    <3>2. x \notin S => Only(a, S) = Only(u, S)
      BY ONLY <2>0, OnlyDrops
    <3> QED BY <2>5, <3>1, <3>2
  <2>7. IF x \in S THEN Longer(A, vr, x, va) ELSE va = vr
    <3>1. x \in S => Longer(A, Only(ru, S), x, Only(ra, S))
      BY ONLY <2>4, OnlyKeeps
    <3>2. x \notin S => Only(ra, S) = Only(ru, S)
      BY ONLY <2>4, OnlyDrops
    <3> QED BY <2>5, <3>1, <3>2
  <2>8. PICK k : k = Only(r, S)
    OBVIOUS
  <2>9. vr = k \o v /\ k \in Seq(A) /\ v \in Seq(A)
    BY <2>1, <2>3, <2>5, <2>8, <1>0, OnlyTypes
  <2>10. va = k \o w
    <3>1. CASE x \in S
      <4>1. va = Append(k \o v, x) /\ w = Append(v, x)
        BY <3>1, <2>6, <2>7, <2>9 DEF Longer
      <4>2. <<x>> \in Seq(A) /\ k \o v \in Seq(A)
        BY <2>1, <2>9, ConcatProperties
      <4>3. k \o (v \o <<x>>) = (k \o v) \o <<x>>
        BY <2>9, <4>2, ConcatAssociative
      <4> QED BY <2>1, <2>9, <4>1, <4>2, <4>3, AppendIsConcat
    <3>2. CASE x \notin S
      BY <3>2, <2>6, <2>7, <2>9
    <3> QED BY <3>1, <3>2
  <2> QED BY <2>1, <2>3, <2>5, <2>8, <2>10
<1>3. T \in SUBSET Seq(A)
  OBVIOUS
<1> HIDE DEF T
<1>4. \A u \in Seq(A) : u \in T
  BY <1>1, <1>2, <1>3, SequenceInduction
<1> QED BY <1>4 DEF T

\* Nothing gets longer.
LEMMA OnlyShortens == ASSUME NEW A, NEW S, NEW s \in Seq(A) PROVE Len(Only(s, S)) <= Len(s)
<1> DEFINE T == {u \in Seq(A) : Len(Only(u, S)) <= Len(u)}
<1>1. <<>> \in T
  BY OnlyEmpty, EmptySeq
<1>2. ASSUME NEW u \in T, NEW x, NEW a, Longer(A, u, x, a) PROVE a \in T
  <2>1. a \in Seq(A) /\ Len(a) = Len(u) + 1 /\ Len(u) \in Nat
    BY <1>2, LongerTypes
  <2>2. PICK v, w : v = Only(u, S) /\ w = Only(a, S)
    OBVIOUS
  <2>3. IF x \in S THEN Longer(A, v, x, w) ELSE w = v
    BY ONLY <1>2, <2>2, OnlyAppend
  <2>4. Len(v) <= Len(u) /\ Len(v) \in Nat
    <3>1. v \in Seq(A)
      BY <2>2, OnlyTypes
    <3> QED BY <2>2, <3>1, LenProperties
  <2>5. Len(w) <= Len(v) + 1
    BY <2>3, <2>4, LongerTypes
  <2> QED BY <2>1, <2>2, <2>4, <2>5
<1>3. T \in SUBSET Seq(A)
  OBVIOUS
<1> HIDE DEF T
<1>4. \A u \in Seq(A) : u \in T
  BY <1>1, <1>2, <1>3, SequenceInduction
<1> QED BY <1>4 DEF T
=============================================================================

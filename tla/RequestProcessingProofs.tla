----------------------- MODULE RequestProcessingProofs -----------------------
(***************************************************************************)
(* The sequential pipeline, operator by operator, for every text the       *)
(* grammar knows and every answer of the database: what the parser         *)
(* adapter, the analyzer and the policy engine together let through, and   *)
(* what the classifier, the masker and the record factories make of it.    *)
(***************************************************************************)
EXTENDS RequestProcessing, MaskedAnswers, FiniteSetTheorems, SequenceTheorems,
        WellFoundedInduction, TLAPS

----------------------------------------------------------------------------
(* Sequences put together of parts. *)

(* Numbers are well-ordered. *)
LEMMA LeastNumber ==
  ASSUME NEW T \in SUBSET Nat, T # {}
  PROVE  \E m \in T : \A k \in T : m <= k
<1>1. IsWellFoundedOn(OpToRel(<, Nat), Nat)
  BY NatLessThanWellFounded, Zenon
<1>2. PICK m \in T : \A y \in T : ~(<<y, m>> \in OpToRel(<, Nat))
  BY <1>1, WFMin, Zenon
<1>3. \A y \in T : y \in Nat /\ m \in Nat /\ ~(y < m)
  BY <1>2 DEF OpToRel
<1> QED
  BY <1>3

(* Induction: a set with 0 that has the successor of each of its numbers. *)
LEMMA Induction ==
  ASSUME NEW S, 0 \in S, \A n \in Nat : n \in S => n + 1 \in S
  PROVE  Nat \subseteq S
<1> SUFFICES ASSUME Nat \ S # {} PROVE FALSE
  OBVIOUS
<1>1. PICK m \in Nat \ S : \A k \in Nat \ S : m <= k
  BY LeastNumber
<1>2. m # 0 /\ m - 1 \in Nat
  BY <1>1
<1>3. m - 1 \in S
  BY <1>1, <1>2
<1> QED
  BY <1>1, <1>2, <1>3

(* The same up to a bound. *)
LEMMA BoundedInduction ==
  ASSUME NEW n \in Nat, NEW S, 1 \in S, \A k \in 1 .. n - 1 : k \in S => k + 1 \in S
  PROVE  1 .. n \subseteq S
<1> DEFINE T == {k \in Nat : k + 1 \in 1 .. n => k + 1 \in S}
<1>1. 0 \in T
  OBVIOUS
<1>2. ASSUME NEW k \in Nat, k \in T
      PROVE  k + 1 \in T
  BY <1>2
<1>3. Nat \subseteq T
  <2> HIDE DEF T
  <2> QED
    BY <1>1, <1>2, Induction
<1>4. ASSUME NEW j \in 1 .. n
      PROVE  j \in S
  <2>1. j - 1 \in Nat /\ (j - 1) + 1 = j
    OBVIOUS
  <2> QED
    BY <1>3, <2>1
<1> QED
  BY <1>4

(* FlattenSeq is defined by recursion on the length: what it is, step by     *)
(* step, for the first 1, 2, ... of its parts.                               *)
LEMMA Flattening ==
  ASSUME NEW s, Len(s) \in Nat, Len(s) # 0
  PROVE  \E f : /\ f[1] = s[1]
                /\ \A k \in 1 .. Len(s) - 1 : f[k + 1] = f[k] \o s[k + 1]
                /\ FlattenSeq(s) = f[Len(s)]
<1> DEFINE step(f, i) == IF i = 1 THEN s[i] ELSE f[i - 1] \o s[i]
           flat(f, k) == f = [i \in 1 .. k |-> step(f, i)]
           S == {k \in Nat : \E f : flat(f, k)}
<1>1. 0 \in S
  <2>1. flat([i \in 1 .. 0 |-> 0], 0)
    OBVIOUS
  <2> QED
    BY <2>1
<1>2. ASSUME NEW k \in Nat, k \in S
      PROVE  k + 1 \in S
  <2>1. PICK f : flat(f, k)
    BY <1>2
  <2> DEFINE g == [i \in 1 .. k + 1 |-> IF i = k + 1 THEN step(f, i) ELSE f[i]]
  <2>2. \A i \in 1 .. k : f[i] = step(f, i)
    BY <2>1
  <2>3. \A i \in 1 .. k + 1 : i # 1 => i - 1 \in 1 .. k
    OBVIOUS
  <2>4. \A i \in 1 .. k : g[i] = f[i]
    OBVIOUS
  <2>5. \A i \in 1 .. k + 1 : step(g, i) = step(f, i)
    BY <2>3, <2>4
  <2>6. \A i \in 1 .. k + 1 : g[i] = step(f, i)
    BY <2>2
  <2>7. g = [i \in 1 .. k + 1 |-> step(g, i)]
    BY <2>5, <2>6
  <2> HIDE DEF g, step
  <2> QED
    BY <2>7
<1>3. Nat \subseteq S
  <2> HIDE DEF S
  <2> QED
    BY <1>1, <1>2, Induction
<1>4. \E f : flat(f, Len(s))
  BY <1>3
<1>5. FlattenSeq(s) = (CHOOSE f : flat(f, Len(s)))[Len(s)]
  BY Zenon DEF FlattenSeq
<1>6. flat(CHOOSE f : flat(f, Len(s)), Len(s))
  BY <1>4, Zenon
<1>7. PICK f : flat(f, Len(s)) /\ FlattenSeq(s) = f[Len(s)]
  BY <1>5, <1>6, Zenon
<1>8. \A i \in 1 .. Len(s) : f[i] = step(f, i)
  BY <1>7
<1>9. f[1] = s[1]
  <2>1. 1 \in 1 .. Len(s)
    OBVIOUS
  <2> QED
    BY <1>8, <2>1
<1>10. ASSUME NEW k \in 1 .. Len(s) - 1
       PROVE  f[k + 1] = f[k] \o s[k + 1]
  <2>1. k + 1 \in 1 .. Len(s) /\ k + 1 # 1 /\ (k + 1) - 1 = k
    OBVIOUS
  <2> QED
    BY <1>8, <2>1
<1> QED
  BY <1>7, <1>9, <1>10

(* Flattening keeps elements in their set ... *)
LEMMA FlattenType ==
  ASSUME NEW X, NEW s \in Seq(Seq(X))
  PROVE  FlattenSeq(s) \in Seq(X)
<1>1. Len(s) \in Nat /\ \A i \in 1 .. Len(s) : s[i] \in Seq(X)
  OBVIOUS
<1>2. CASE Len(s) = 0
  <2>1. s = <<>>
    BY <1>2
  <2> QED
    BY <1>2, <2>1 DEF FlattenSeq
<1>3. CASE Len(s) # 0
  <2>1. PICK f : /\ f[1] = s[1]
                 /\ \A k \in 1 .. Len(s) - 1 : f[k + 1] = f[k] \o s[k + 1]
                 /\ FlattenSeq(s) = f[Len(s)]
    BY <1>1, <1>3, Flattening
  <2> DEFINE S == {k \in 1 .. Len(s) : f[k] \in Seq(X)}
  <2>2. 1 \in S
    BY <1>1, <1>3, <2>1
  <2>3. ASSUME NEW k \in 1 .. Len(s) - 1, k \in S
        PROVE  k + 1 \in S
    <3>1. k + 1 \in 1 .. Len(s) /\ s[k + 1] \in Seq(X) /\ f[k] \in Seq(X)
      BY <1>1, <2>3
    <3>2. f[k] \o s[k + 1] \in Seq(X)
      BY <3>1
    <3> QED
      BY <2>1, <3>1, <3>2
  <2>4. 1 .. Len(s) \subseteq S
    <3> HIDE DEF S
    <3> QED
      BY <1>1, <2>2, <2>3, BoundedInduction
  <2> QED
    BY <1>1, <1>3, <2>1, <2>4
<1> QED
  BY <1>2, <1>3

(* Whatever stands in a sequence's place: its elements are of some set. *)
IsSeq(q) == \E Z : q \in Seq(Z)

(* A function on the first numbers is a sequence. *)
LEMMA FunctionIsSeq ==
  ASSUME NEW n \in Nat, NEW q, q = [i \in 1 .. n |-> q[i]]
  PROVE  IsSeq(q) /\ Len(q) = n /\ DOMAIN q = 1 .. n
<1> DEFINE Z == {q[i] : i \in 1 .. n}
<1>1. \A i \in 1 .. n : q[i] \in Z
  OBVIOUS
<1>2. q \in [1 .. n -> Z]
  BY <1>1
<1>3. q \in Seq(Z)
  BY <1>2, SeqDef
<1>4. DOMAIN q = 1 .. n
  BY <1>2
<1>5. Len(q) = n
  BY <1>3, <1>4
<1> QED
  BY <1>3, <1>4, <1>5 DEF IsSeq

(* A sequence is one over its own elements. *)
LEMMA OverItsRange ==
  ASSUME NEW S, NEW q \in Seq(S)
  PROVE  q \in Seq(Range(q))
<1>1. Len(q) \in Nat /\ DOMAIN q = 1 .. Len(q) /\ q \in [1 .. Len(q) -> S]
  OBVIOUS
<1>2. \A i \in 1 .. Len(q) : q[i] \in Range(q)
  BY <1>1 DEF Range
<1>3. q \in [1 .. Len(q) -> Range(q)]
  BY <1>1, <1>2
<1> QED
  BY <1>1, <1>3, SeqDef

(* Sequences of sequences have elements of some set. *)
LEMMA SeqOfSeqs ==
  ASSUME NEW n \in Nat, NEW s, s = [i \in 1 .. n |-> s[i]], \A i \in 1 .. n : IsSeq(s[i])
  PROVE  \E X : s \in Seq(Seq(X))
<1> DEFINE X == UNION {Range(s[i]) : i \in 1 .. n}
<1>1. ASSUME NEW i \in 1 .. n
      PROVE  s[i] \in Seq(X)
  <2>1. PICK Z : s[i] \in Seq(Z)
    BY DEF IsSeq
  <2>2. s[i] \in [1 .. Len(s[i]) -> Z] /\ Len(s[i]) \in Nat
    BY <2>1
  <2>3. \A j \in 1 .. Len(s[i]) : s[i][j] \in Range(s[i])
    BY <2>2 DEF Range
  <2>4. \A j \in 1 .. Len(s[i]) : s[i][j] \in X
    BY <2>3
  <2>5. s[i] \in [1 .. Len(s[i]) -> X]
    BY <2>2, <2>4
  <2> QED
    BY <2>2, <2>5, SeqDef
<1>2. s \in [1 .. n -> Seq(X)]
  BY <1>1
<1>3. s \in Seq(Seq(X))
  BY <1>2, SeqDef
<1> QED
  BY <1>3

(* A flattened sequence is a sequence, at least as long as each part. *)
LEMMA FlattenIsSeq ==
  ASSUME NEW n \in Nat, NEW s, s = [i \in 1 .. n |-> s[i]], \A i \in 1 .. n : IsSeq(s[i])
  PROVE  IsSeq(FlattenSeq(s))
<1>1. PICK X : s \in Seq(Seq(X))
  BY SeqOfSeqs
<1> QED
  BY <1>1, FlattenType DEF IsSeq

(* A sequence agrees with e so far. *)
Agrees(q, k, e, X) == q \in Seq(X) /\ Len(q) = k /\ \A j \in 1 .. k : q[j] = e[j]

(* One element more. *)
LEMMA AgreesOneMore ==
  ASSUME NEW X, NEW e, NEW k \in Nat, NEW q, Agrees(q, k, e, X), e[k + 1] \in X
  PROVE  Agrees(q \o <<e[k + 1]>>, k + 1, e, X)
<1>1. q \in Seq(X) /\ Len(q) = k /\ \A j \in 1 .. k : q[j] = e[j]
  BY DEF Agrees
<1>2. <<e[k + 1]>> \in Seq(X) /\ Len(<<e[k + 1]>>) = 1 /\ <<e[k + 1]>>[1] = e[k + 1]
  OBVIOUS
<1>3. /\ q \o <<e[k + 1]>> \in Seq(X) /\ Len(q \o <<e[k + 1]>>) = k + 1
      /\ \A j \in 1 .. k + 1 :
           (q \o <<e[k + 1]>>)[j] = IF j <= k THEN q[j] ELSE <<e[k + 1]>>[j - k]
  BY <1>1, <1>2, ConcatProperties
<1>4. ASSUME NEW j \in 1 .. k + 1
      PROVE  (q \o <<e[k + 1]>>)[j] = e[j]
  <2>1. CASE j <= k
    BY <1>1, <1>3, <2>1
  <2>2. CASE j = k + 1
    BY <1>2, <1>3, <2>2
  <2>3. j <= k \/ j = k + 1
    BY SMT
  <2> QED
    BY <2>1, <2>2, <2>3
<1> QED
  BY <1>1, <1>2, <1>3, <1>4 DEF Agrees

(* Parts of one element each: nothing is flattened but the parts. *)
LEMMA FlattenOnes ==
  ASSUME NEW X, NEW e \in Seq(X), NEW s, Len(s) = Len(e),
         \A i \in 1 .. Len(e) : s[i] = <<e[i]>>, Len(e) # 0
  PROVE  FlattenSeq(s) = e
<1>1. Len(e) \in Nat /\ \A i \in 1 .. Len(e) : e[i] \in X
  OBVIOUS
<1>2. PICK f : /\ f[1] = s[1]
               /\ \A k \in 1 .. Len(e) - 1 : f[k + 1] = f[k] \o s[k + 1]
               /\ FlattenSeq(s) = f[Len(e)]
  BY <1>1, Flattening
<1> DEFINE S == {k \in 1 .. Len(e) : Agrees(f[k], k, e, X)}
<1>3. 1 \in S
  <2>1. 1 \in 1 .. Len(e) /\ f[1] = <<e[1]>> /\ e[1] \in X
    BY <1>1, <1>2
  <2>2. ASSUME NEW x \in X
        PROVE  <<x>> \in Seq(X) /\ Len(<<x>>) = 1 /\ <<x>>[1] = x
    OBVIOUS
  <2>3. \A j \in 1 .. 1 : j = 1
    OBVIOUS
  <2> QED
    BY <2>1, <2>2, <2>3 DEF Agrees
<1>4. ASSUME NEW k \in 1 .. Len(e) - 1, k \in S
      PROVE  k + 1 \in S
  <2>1. k + 1 \in 1 .. Len(e) /\ k \in Nat
    BY <1>1
  <2>2. f[k + 1] = f[k] \o <<e[k + 1]>> /\ e[k + 1] \in X /\ Agrees(f[k], k, e, X)
    BY <1>1, <1>2, <1>4, <2>1
  <2> QED
    BY <2>1, <2>2, AgreesOneMore
<1>5. 1 .. Len(e) \subseteq S
  <2> HIDE DEF S
  <2> QED
    BY <1>1, <1>3, <1>4, BoundedInduction
<1>6. Len(e) \in 1 .. Len(e)
  BY <1>1
<1>7. Agrees(FlattenSeq(s), Len(e), e, X)
  BY <1>2, <1>5, <1>6
<1> QED
  BY <1>7, SeqEqual DEF Agrees

(* Nothing in a part is lost. *)
LEMMA FlattenKeepsParts ==
  ASSUME NEW X, NEW s \in Seq(Seq(X)), FlattenSeq(s) = <<>>
  PROVE  \A i \in 1 .. Len(s) : s[i] = <<>>
<1>1. Len(s) \in Nat /\ \A i \in 1 .. Len(s) : s[i] \in Seq(X)
  OBVIOUS
<1>2. SUFFICES ASSUME Len(s) # 0 PROVE \A i \in 1 .. Len(s) : s[i] = <<>>
  BY <1>1
<1>3. PICK f : /\ f[1] = s[1]
               /\ \A k \in 1 .. Len(s) - 1 : f[k + 1] = f[k] \o s[k + 1]
               /\ FlattenSeq(s) = f[Len(s)]
  BY <1>1, <1>2, Flattening
<1> DEFINE S == {k \in 1 .. Len(s) :
                   /\ f[k] \in Seq(X)
                   /\ f[k] = <<>> => \A j \in 1 .. k : s[j] = <<>>}
<1>4. 1 \in S
  BY <1>1, <1>2, <1>3
<1>5. ASSUME NEW k \in 1 .. Len(s) - 1, k \in S
      PROVE  k + 1 \in S
  <2>1. k + 1 \in 1 .. Len(s) /\ k \in Nat
    BY <1>1
  <2>2. f[k] \in Seq(X) /\ (f[k] = <<>> => \A j \in 1 .. k : s[j] = <<>>)
    BY <1>5
  <2>3. f[k + 1] = f[k] \o s[k + 1] /\ s[k + 1] \in Seq(X)
    BY <1>1, <1>3, <2>1
  <2>4. ASSUME NEW p \in Seq(X), NEW q \in Seq(X)
        PROVE  p \o q \in Seq(X) /\ (p \o q = <<>> => p = <<>> /\ q = <<>>)
    <3>1. /\ p \o q \in Seq(X) /\ Len(p \o q) = Len(p) + Len(q)
          /\ Len(p) \in Nat /\ Len(q) \in Nat
      OBVIOUS
    <3>2. \A r \in Seq(X) : r = <<>> <=> Len(r) = 0
      BY EmptySeq
    <3> QED
      BY <3>1, <3>2
  <2>5. \A j \in 1 .. k + 1 : j \in 1 .. k \/ j = k + 1
    BY <2>1
  <2>6. /\ f[k + 1] \in Seq(X)
        /\ f[k + 1] = <<>> => f[k] = <<>> /\ s[k + 1] = <<>>
    BY <2>2, <2>3, <2>4
  <2>7. f[k + 1] = <<>> => \A j \in 1 .. k + 1 : s[j] = <<>>
    BY <2>2, <2>5, <2>6
  <2> QED
    BY <2>1, <2>6, <2>7
<1>6. 1 .. Len(s) \subseteq S
  <2> HIDE DEF S
  <2> QED
    BY <1>1, <1>4, <1>5, BoundedInduction
<1>7. Len(s) \in 1 .. Len(s)
  BY <1>1, <1>2
<1>8. f[Len(s)] = <<>> => \A j \in 1 .. Len(s) : s[j] = <<>>
  BY <1>6, <1>7
<1> QED
  BY <1>3, <1>8

(* x stands somewhere in q. *)
Holds(q, x) == \E i \in 1 .. Len(q) : q[i] = x

(* A joined sequence holds what its two parts hold. *)
LEMMA ConcatHolds ==
  ASSUME NEW X, NEW p \in Seq(X), NEW q \in Seq(X), NEW x
  PROVE  Holds(p \o q, x) <=> Holds(p, x) \/ Holds(q, x)
<1>1. /\ Len(p \o q) = Len(p) + Len(q) /\ Len(p) \in Nat /\ Len(q) \in Nat
      /\ \A i \in 1 .. Len(p) + Len(q) :
           (p \o q)[i] = IF i <= Len(p) THEN p[i] ELSE q[i - Len(p)]
  BY ConcatProperties, LenProperties
<1>2. ASSUME NEW i \in 1 .. Len(p) + Len(q), (p \o q)[i] = x
      PROVE  Holds(p, x) \/ Holds(q, x)
  <2>1. CASE i <= Len(p)
    <3>1. i \in 1 .. Len(p) /\ p[i] = x
      BY <1>1, <1>2, <2>1
    <3> QED
      BY <3>1 DEF Holds
  <2>2. CASE ~(i <= Len(p))
    <3>1. i - Len(p) \in 1 .. Len(q) /\ q[i - Len(p)] = x
      BY <1>1, <1>2, <2>2
    <3> QED
      BY <3>1 DEF Holds
  <2> QED
    BY <2>1, <2>2
<1>3. ASSUME NEW i \in 1 .. Len(p), p[i] = x
      PROVE  Holds(p \o q, x)
  <2>1. i \in 1 .. Len(p \o q) /\ (p \o q)[i] = x
    BY <1>1, <1>3
  <2> QED
    BY <2>1 DEF Holds
<1>4. ASSUME NEW i \in 1 .. Len(q), q[i] = x
      PROVE  Holds(p \o q, x)
  <2>1. Len(p) + i \in 1 .. Len(p \o q) /\ ~(Len(p) + i <= Len(p)) /\ (Len(p) + i) - Len(p) = i
    BY <1>1
  <2>2. (p \o q)[Len(p) + i] = x
    BY <1>1, <1>4, <2>1
  <2> QED
    BY <2>1, <2>2 DEF Holds
<1> QED
  BY <1>1, <1>2, <1>3, <1>4 DEF Holds

(* A flattened sequence holds what its parts hold. *)
LEMMA FlattenHolds ==
  ASSUME NEW X, NEW s \in Seq(Seq(X)), NEW x
  PROVE  Holds(FlattenSeq(s), x) <=> \E i \in 1 .. Len(s) : Holds(s[i], x)
<1>1. Len(s) \in Nat /\ \A i \in 1 .. Len(s) : s[i] \in Seq(X)
  OBVIOUS
<1>2. CASE Len(s) = 0
  <2>1. s = <<>>
    BY <1>2
  <2>2. FlattenSeq(s) = <<>>
    BY <1>2, <2>1 DEF FlattenSeq
  <2>3. ~Holds(<<>>, x)
    BY DEF Holds
  <2> QED
    BY <1>2, <2>2, <2>3
<1>3. CASE Len(s) # 0
  <2>1. PICK f : /\ f[1] = s[1]
                 /\ \A k \in 1 .. Len(s) - 1 : f[k + 1] = f[k] \o s[k + 1]
                 /\ FlattenSeq(s) = f[Len(s)]
    BY <1>1, <1>3, Flattening
  <2> DEFINE S == {k \in 1 .. Len(s) :
                     /\ f[k] \in Seq(X)
                     /\ Holds(f[k], x) <=> \E i \in 1 .. k : Holds(s[i], x)}
  <2>2. 1 \in S
    <3>1. 1 \in 1 .. Len(s) /\ f[1] = s[1] /\ s[1] \in Seq(X) /\ \A i \in 1 .. 1 : i = 1
      BY <1>1, <1>3, <2>1
    <3> QED
      BY <3>1
  <2>3. ASSUME NEW k \in 1 .. Len(s) - 1, k \in S
        PROVE  k + 1 \in S
    <3>1. k + 1 \in 1 .. Len(s) /\ k \in Nat
      BY <1>1
    <3>2. f[k] \in Seq(X) /\ (Holds(f[k], x) <=> \E i \in 1 .. k : Holds(s[i], x))
      BY <2>3
    <3>3. f[k + 1] = f[k] \o s[k + 1] /\ s[k + 1] \in Seq(X)
      BY <1>1, <2>1, <3>1
    <3>4. f[k + 1] \in Seq(X) /\ (Holds(f[k + 1], x) <=> Holds(f[k], x) \/ Holds(s[k + 1], x))
      BY <3>2, <3>3, ConcatHolds
    <3>5. \A i : i \in 1 .. k + 1 <=> i \in 1 .. k \/ i = k + 1
      BY <3>1
    <3>6. Holds(f[k + 1], x) <=> \E i \in 1 .. k + 1 : Holds(s[i], x)
      BY <3>2, <3>4, <3>5
    <3> QED
      BY <3>1, <3>4, <3>6
  <2>4. 1 .. Len(s) \subseteq S
    <3> HIDE DEF S
    <3> QED
      BY <1>1, <2>2, <2>3, BoundedInduction
  <2>5. Len(s) \in S
    <3>1. Len(s) \in 1 .. Len(s)
      BY <1>1, <1>3
    <3> HIDE DEF S
    <3> QED
      BY <2>4, <3>1
  <2> QED
    BY <2>1, <2>5
<1> QED
  BY <1>2, <1>3

----------------------------------------------------------------------------
(* The policy. *)

(* evaluate() allows what no rule applies to. *)
LEMMA AllowedIffNoRule ==
  ASSUME NEW a
  PROVE  evaluate(a).allowed <=> Applicable(a) = {}
<1> DEFINE first == CHOOSE rule \in Applicable(a) :
                      \A other \in Applicable(a) : rule.number <= other.number
<1>1. evaluate(a) = IF Applicable(a) = {} THEN allow ELSE reject(first.reason)
  BY DEF evaluate
<1>2. allow.allowed = TRUE /\ \A reason : reject(reason).allowed = FALSE
  BY DEF allow, reject
<1> HIDE DEF first
<1> QED
  BY <1>1, <1>2

(* A denial has a reason: the one of the first rule that applies. *)
LEMMA DeniedForAReason ==
  ASSUME NEW a, ~evaluate(a).allowed
  PROVE  /\ evaluate(a).reason \in RejectReasons
         /\ evaluate(a).reason = "UnparseableSql" => a.status = "ParseError"
<1> DEFINE rules == Applicable(a)
           first == CHOOSE rule \in rules : \A other \in rules : rule.number <= other.number
           T == {rule.number : rule \in rules}
<1>1. \A rule \in rules : /\ rule.number \in Nat /\ rule.reason \in RejectReasons
                          /\ rule.reason = "UnparseableSql" => a.status = "ParseError"
  BY DEF Applicable, Rule, RejectReasons
<1>2. rules # {}
  BY AllowedIffNoRule
<1> HIDE DEF rules
<1>3. T \in SUBSET Nat /\ T # {}
  BY <1>1, <1>2
<1>4. PICK m \in T : \A k \in T : m <= k
  <2> HIDE DEF T
  <2> QED
    BY <1>3, LeastNumber
<1>5. \E rule \in rules : \A other \in rules : rule.number <= other.number
  BY <1>4
<1>6. first \in rules
  BY <1>5, Zenon
<1>7. evaluate(a) = reject(first.reason)
  BY <1>2 DEF evaluate, rules
<1> HIDE DEF first
<1> QED
  BY <1>1, <1>6, <1>7 DEF reject

(* The rules R1 to R11, spelled out. *)
LEMMA RulesSpelledOut ==
  ASSUME NEW a
  PROVE  evaluate(a).allowed <=>
           /\ a.status \notin {"EmptyInput", "ParseError", "MultipleStatements"}
           /\ a.statement_count = 1
           /\ a.statement_class \notin {"Unknown", "Ddl"}
           /\ a.statement_class = "Dml" =>
                /\ a.statement_type = "Insert"
                /\ targets_insert_table(a) /\ is_allowed_order_insert(a)
           /\ a.statement_class = "Select" =>
                /\ a.unsupported_features = <<>>
                /\ ~\E i \in DOMAIN a.tables : is_system_table(a.tables[i])
                /\ ~(a.has_wildcard_projection /\ a.projection_columns # <<>>)
<1> DEFINE insert == a.statement_class = "Dml" /\ a.statement_type = "Insert"
           select == a.statement_class = "Select"
<1>1. Applicable(a) = {} <=>
        /\ a.status # "EmptyInput" /\ a.status # "ParseError"
        /\ a.status # "MultipleStatements" /\ a.statement_count = 1
        /\ a.statement_class # "Unknown" /\ a.statement_class # "Ddl"
        /\ ~(a.statement_class = "Dml" /\ ~insert)
        /\ ~(insert /\ ~targets_insert_table(a))
        /\ ~(insert /\ ~is_allowed_order_insert(a))
        /\ ~(select /\ a.unsupported_features # <<>>)
        /\ ~(select /\ \E i \in DOMAIN a.tables : is_system_table(a.tables[i]))
        /\ ~(select /\ a.has_wildcard_projection /\ a.projection_columns # <<>>)
  BY DEF Applicable, Rule
<1> QED
  BY <1>1, AllowedIffNoRule

----------------------------------------------------------------------------
(* parse() translates a script statement by statement. *)
LEMMA ParsedStatements ==
  ASSUME NEW text, text.statements \in Seq(Range(text.statements)), text.text = "script"
  PROVE  /\ parse(text).success
         /\ Len(parse(text).statements) = Len(text.statements)
         /\ \A i \in 1 .. Len(text.statements) :
              parse(text).statements[i] = translate_statement(text.statements[i])
<1> DEFINE n == Len(text.statements)
           parsed == [i \in 1 .. n |-> translate_statement(text.statements[i])]
<1>1. n \in Nat /\ DOMAIN text.statements = 1 .. n
  <2>1. ASSUME NEW S, NEW q \in Seq(S)
        PROVE  Len(q) \in Nat /\ DOMAIN q = 1 .. Len(q)
    OBVIOUS
  <2> QED
    BY <2>1
<1>2. parse(text).success /\ parse(text).statements = parsed
  BY <1>1 DEF parse
<1>3. \A i \in 1 .. n : parsed[i] = translate_statement(text.statements[i])
  OBVIOUS
<1>4. Len(parsed) = n
  <2>1. \A m \in Nat : \A q : q = [i \in 1 .. m |-> q[i]] => Len(q) = m
    OBVIOUS
  <2>2. parsed = [i \in 1 .. n |-> parsed[i]]
    OBVIOUS
  <2> HIDE DEF parsed, n
  <2> QED
    BY <1>1, <2>1, <2>2
<1> QED
  BY <1>2, <1>3, <1>4

(* The analysis of a script of one statement is that statement's. *)
LEMMA AnalysisOfOne ==
  ASSUME NEW text, text.statements \in Seq(Range(text.statements)), text.text = "script",
         Len(text.statements) = 1
  PROVE  analyze(text) = Analyzed(translate_statement(text.statements[1]))
<1>1. /\ parse(text).success /\ Len(parse(text).statements) = 1
      /\ parse(text).statements[1] = translate_statement(text.statements[1])
  BY ParsedStatements
<1>2. ~is_blank(text)
  BY DEF is_blank
<1> HIDE DEF Analyzed
<1> QED
  BY <1>1, <1>2 DEF analyze, AnalysisOf

(* No other text is ever allowed. *)
LEMMA OnlyOneStatement ==
  ASSUME NEW text, text.statements \in Seq(Range(text.statements)),
         evaluate(analyze(text)).allowed
  PROVE  text.text = "script" /\ Len(text.statements) = 1
<1> DEFINE bad == {"EmptyInput", "ParseError", "MultipleStatements"}
<1>1. analyze(text).status \notin bad
  BY RulesSpelledOut
<1>2. /\ [NoAnalysis EXCEPT !.status = "EmptyInput"].status \in bad
      /\ \A n : [NoAnalysis EXCEPT !.statement_count = n].status \in bad
      /\ \A n : [NoAnalysis EXCEPT !.status = "MultipleStatements",
                                   !.statement_count = n].status \in bad
  BY DEF NoAnalysis
<1>3. ~is_blank(text) /\ analyze(text) = AnalysisOf(parse(text))
  BY <1>1, <1>2 DEF analyze
<1>4. parse(text).success /\ Len(parse(text).statements) # 0
  <2>1. ASSUME NEW parsed, ~parsed.success \/ Len(parsed.statements) = 0
        PROVE  AnalysisOf(parsed) = [NoAnalysis EXCEPT !.statement_count = Len(parsed.statements)]
    BY <2>1 DEF AnalysisOf
  <2>2. ~parse(text).success \/ Len(parse(text).statements) = 0 =>
          analyze(text) = [NoAnalysis EXCEPT !.statement_count = Len(parse(text).statements)]
    BY <1>3, <2>1
  <2>3. analyze(text) # [NoAnalysis EXCEPT !.statement_count = Len(parse(text).statements)]
    BY <1>1, <1>2
  <2> QED
    BY <2>2, <2>3
<1>5. text.text = "script"
  <2>1. text.text # "script" => parse(text) = ParseFailure
    BY DEF parse
  <2>2. ParseFailure.success = FALSE
    BY DEF ParseFailure
  <2> QED
    BY <1>4, <2>1, <2>2
<1>6. Len(parse(text).statements) = Len(text.statements) /\ Len(text.statements) \in Nat
  BY <1>5, ParsedStatements
<1>7. ~(Len(parse(text).statements) > 1)
  <2> DEFINE n == Len(parse(text).statements)
  <2>1. ASSUME NEW parsed, parsed.success, Len(parsed.statements) \in Nat,
               Len(parsed.statements) > 1
        PROVE  AnalysisOf(parsed) = [NoAnalysis EXCEPT !.status = "MultipleStatements",
                                       !.statement_count = Len(parsed.statements)]
    <3>1. \A m \in Nat : m > 1 => m # 0 /\ m # 1
      OBVIOUS
    <3>2. Len(parsed.statements) # 0 /\ Len(parsed.statements) # 1
      BY <2>1, <3>1, Zenon
    <3> QED
      BY <2>1, <3>2 DEF AnalysisOf
  <2>2. n > 1 => analyze(text) = [NoAnalysis EXCEPT !.status = "MultipleStatements",
                                                    !.statement_count = n]
    BY <1>3, <1>4, <1>6, <2>1
  <2>3. analyze(text) # [NoAnalysis EXCEPT !.status = "MultipleStatements",
                                           !.statement_count = n]
    BY <1>1, <1>2
  <2> QED
    BY <2>2, <2>3
<1>8. \A m \in Nat : m # 0 /\ ~(m > 1) => m = 1
  OBVIOUS
<1> QED
  BY <1>4, <1>5, <1>6, <1>7, <1>8

(* The facts of the statement are the analysis. *)
LEMMA AnalyzedFacts ==
  ASSUME NEW f
  PROVE  LET a == Analyzed(f)
         IN  /\ a.status = "Ok" /\ a.statement_count = 1
             /\ a.statement_type = f.type
             /\ a.statement_class = statement_class_of(f.type)
             /\ a.tables = normalized_tables(f.tables)
             /\ a.affected_columns = f.affected_columns
             /\ a.insert_source = f.insert_source
             /\ a.insert_value_kinds = f.insert_value_kinds
             /\ a.unsupported_features = f.unsupported_features
             /\ a.projection_columns = f.projection_columns
             /\ a.has_wildcard_projection = f.has_wildcard_projection
             /\ a.has_computed_projection = f.has_computed_projection
             /\ a.has_safe_count_star_projection = f.has_safe_count_star_projection
             /\ a.has_group_by = f.has_group_by
BY DEF Analyzed, NoAnalysis

(* The facts translate_select() keeps. *)
LEMMA SelectFacts ==
  ASSUME NEW s, s.type = "kStmtSelect"
  PROVE  LET a == Analyzed(translate_statement(s))
         IN  /\ a.status = "Ok" /\ a.statement_type = "Select" /\ a.statement_class = "Select"
             /\ a.tables = normalized_tables(collect_tables(s.from).tables)
             /\ a.projection_columns = ProjectionColumns(s.list)
             /\ a.has_wildcard_projection <=>
                  \E i \in DOMAIN s.list : s.list[i].type = "kExprStar"
             /\ a.has_safe_count_star_projection <=>
                  \E i \in DOMAIN s.list : is_count_star(s.list[i])
             /\ a.has_computed_projection <=>
                  \E i \in DOMAIN s.list : /\ s.list[i].type # "kExprStar"
                                           /\ ~IsColumn(s.list[i]) /\ ~is_count_star(s.list[i])
<1> DEFINE f == translate_select(s)
<1>1. translate_statement(s) = f
  BY DEF translate_statement
<1>2. f.type = "Select" /\ f.tables = collect_tables(s.from).tables
  BY DEF translate_select, NoFacts
<1>3. f.projection_columns = ProjectionColumns(s.list)
  BY DEF translate_select, NoFacts
<1>4. f.has_wildcard_projection <=> \E i \in DOMAIN s.list : s.list[i].type = "kExprStar"
  BY DEF translate_select, NoFacts
<1>5. f.has_safe_count_star_projection <=> \E i \in DOMAIN s.list : is_count_star(s.list[i])
  BY DEF translate_select, NoFacts
<1>6. f.has_computed_projection <=>
        \E i \in DOMAIN s.list : /\ s.list[i].type # "kExprStar"
                                 /\ ~IsColumn(s.list[i]) /\ ~is_count_star(s.list[i])
  BY DEF translate_select, NoFacts
<1>7. statement_class_of("Select") = "Select"
  BY DEF statement_class_of
<1> HIDE DEF f
<1> QED
  BY <1>1, <1>2, <1>3, <1>4, <1>5, <1>6, <1>7, AnalyzedFacts

(* The type the adapter gives a statement. *)
LEMMA TranslatedType ==
  ASSUME NEW s
  PROVE  translate_statement(s).type =
           CASE s.type = "kStmtSelect" -> "Select" [] s.type = "kStmtInsert" -> "Insert"
             [] s.type = "kStmtUpdate" -> "Update" [] s.type = "kStmtDelete" -> "Delete"
             [] s.type = "kStmtCreate" -> "Create" [] s.type = "kStmtDrop" -> "Drop"
             [] s.type = "kStmtAlter" -> "Alter" [] OTHER -> "Unknown"
<1>1. translate_select(s).type = "Select"
  BY DEF translate_select, NoFacts
<1>2. translate_insert(s).type = "Insert"
  BY DEF translate_insert, NoFacts
<1>3. translate_update(s).type = "Update" /\ NoFacts.type = "Unknown"
  BY DEF translate_update, NoFacts
<1>4. \A type : translate_named(s, type).type = type
  BY DEF translate_named, NoFacts
<1>5. \A type, kind, note : translate_object(s, type, kind, note).type = type
  BY DEF translate_object, translate_named, NoFacts
<1>6. translate_object(s, "Create", "kCreateTable", "non-table CREATE").type = "Create"
  BY <1>5
<1>7. translate_object(s, "Drop", "kDropTable", "non-table DROP").type = "Drop"
  BY <1>5
<1>8. /\ translate_named(s, "Delete").type = "Delete"
      /\ translate_named(s, "Alter").type = "Alter"
  BY <1>4
<1> QED
  BY <1>1, <1>2, <1>3, <1>6, <1>7, <1>8 DEF translate_statement

(* A statement that is allowed is a SELECT or an INSERT. *)
LEMMA AllowedTypes ==
  ASSUME NEW s, evaluate(Analyzed(translate_statement(s))).allowed
  PROVE  s.type \in {"kStmtSelect", "kStmtInsert"}
<1> DEFINE f == translate_statement(s)
<1>1. /\ statement_class_of(f.type) \notin {"Unknown", "Ddl"}
      /\ statement_class_of(f.type) = "Dml" => f.type = "Insert"
  BY RulesSpelledOut, AnalyzedFacts
<1> QED
  BY <1>1, TranslatedType DEF statement_class_of

----------------------------------------------------------------------------
(* An INSERT as the grammar makes it. *)
InsertStatement(s) ==
  /\ s.type = "kStmtInsert"
  /\ s.values \in Seq(Range(s.values))
  /\ \E target \in InsertTargets : s.from = <<target>>

(* The one INSERT the policy is meant to allow, said of the syntax tree. *)
AuthorizedInsert(s) ==
  /\ s.has_columns /\ s.kind # "kInsertSelect"
  /\ s.from = <<TableName(<<>>, <<"orders">>)>>
  /\ s.columns = << <<"customer_id">>, <<"amount">> >>
  /\ Len(s.values) = 2
  /\ s.values[1].positive /\ s.values[1].type = "kExprLiteralInt"
  /\ s.values[2].positive /\ s.values[2].type \in {"kExprLiteralInt", "kExprLiteralFloat"}

(* One table has one name. *)
LEMMA NormalizedOne ==
  ASSUME NEW x
  PROVE  normalized_tables(<<x>>) = <<qualified_name(x)>>
<1> DEFINE names == [i \in DOMAIN <<x>> |-> qualified_name(<<x>>[i])]
           first == {i \in DOMAIN names : \A j \in 1 .. i - 1 : names[j] # names[i]}
           place(i) == Cardinality(first \cap (1 .. i))
<1>1. DOMAIN names = {1} /\ names[1] = qualified_name(x)
  OBVIOUS
<1>2. first = {1}
  <2>1. \A i \in {1} : 1 .. i - 1 = {}
    OBVIOUS
  <2> QED
    BY <1>1, <2>1
<1>3. Cardinality(first) = 1
  BY <1>2, FS_Singleton
<1>4. place(1) = 1
  <2>1. first \cap (1 .. 1) = {1}
    BY <1>2
  <2> QED
    BY <2>1, FS_Singleton
<1>5. normalized_tables(<<x>>) =
        [k \in 1 .. Cardinality(first) |-> names[CHOOSE i \in first : place(i) = k]]
  BY DEF normalized_tables
<1> HIDE DEF names, place
<1>6. ASSUME NEW k \in 1 .. 1
      PROVE  names[CHOOSE i \in first : place(i) = k] = qualified_name(x)
  <2>1. k = 1
    OBVIOUS
  <2>2. (CHOOSE i \in first : place(i) = k) = 1
    BY <1>2, <1>4, <2>1
  <2> QED
    BY <1>1, <2>2
<1> HIDE DEF first
<1>7. normalized_tables(<<x>>) = [k \in 1 .. 1 |-> qualified_name(x)]
  BY <1>3, <1>5, <1>6
<1> QED
  BY <1>7

(* The place of a number in a set of numbers: how many there are up to it. *)
Place(F, i) == Cardinality(F \cap (1 .. i))

(* The numbers of a finite set have the places from 1 on, each its own. *)
LEMMA NamePlaces ==
  ASSUME NEW n \in Nat, NEW F \in SUBSET (1 .. n)
  PROVE  /\ Cardinality(F) \in Nat
         /\ \A k \in 1 .. Cardinality(F) : \E i \in F : Place(F, i) = k
         /\ \A i \in F : Place(F, i) \in 1 .. Cardinality(F)
         /\ \A i, j \in F : Place(F, i) = Place(F, j) => i = j
<1> DEFINE upto(i) == F \cap (1 .. i)
<1>1. IsFiniteSet(F) /\ Cardinality(F) \in Nat
  <2>1. IsFiniteSet(1 .. n)
    BY FS_Interval
  <2>2. IsFiniteSet(F)
    BY <2>1, FS_Subset
  <2> QED
    BY <2>2, FS_CardinalityType
<1>2. ASSUME NEW i
      PROVE  /\ IsFiniteSet(upto(i)) /\ Place(F, i) = Cardinality(upto(i))
             /\ Place(F, i) \in Nat /\ Place(F, i) <= Cardinality(F)
  <2>1. upto(i) \in SUBSET F
    OBVIOUS
  <2> HIDE DEF upto
  <2>2. IsFiniteSet(upto(i)) /\ Cardinality(upto(i)) <= Cardinality(F)
    BY <1>1, <2>1, FS_Subset
  <2>3. Cardinality(upto(i)) \in Nat
    BY <2>2, FS_CardinalityType
  <2>4. Place(F, i) = Cardinality(upto(i))
    BY DEF Place, upto
  <2> QED
    BY <2>2, <2>3, <2>4
<1>3. ASSUME NEW i \in F PROVE Place(F, i) \in 1 .. Cardinality(F)
  <2>1. i \in upto(i)
    OBVIOUS
  <2>2. upto(i) # {}
    BY <2>1
  <2> HIDE DEF upto
  <2>3. Place(F, i) # 0
    BY <1>2, <2>2, FS_EmptySet
  <2> QED
    BY <1>1, <1>2, <2>3
<1>4. ASSUME NEW i \in F, NEW j \in F, i < j PROVE Place(F, i) # Place(F, j)
  <2>1. upto(i) \in SUBSET upto(j) /\ j \in upto(j) /\ j \notin upto(i)
    BY <1>4
  <2> HIDE DEF upto
  <2>2. upto(j) # upto(i)
    BY <2>1
  <2>3. Cardinality(upto(j)) # Cardinality(upto(i))
    BY <1>2, <2>1, <2>2, FS_Subset
  <2> QED
    BY <1>2, <2>3
<1>5. ASSUME NEW i \in F, NEW j \in F, Place(F, i) = Place(F, j) PROVE i = j
  <2>1. i \in Int /\ j \in Int
    OBVIOUS
  <2>2. i < j \/ j < i \/ i = j
    BY <2>1
  <2> QED
    BY <1>4, <1>5, <2>2
<1> DEFINE S == {m \in Nat : \A k \in 1 .. Place(F, m) : \E i \in F : Place(F, i) = k}
<1>6. 0 \in S
  <2>1. upto(0) = {}
    OBVIOUS
  <2> HIDE DEF upto
  <2>2. Place(F, 0) = 0
    BY <1>2, <2>1, FS_EmptySet
  <2> QED
    BY <2>2
<1>7. ASSUME NEW m \in Nat, m \in S
      PROVE  m + 1 \in S
  <2>1. \A k \in 1 .. Place(F, m) : \E i \in F : Place(F, i) = k
    BY <1>7
  <2>2. CASE m + 1 \in F
    <3>1. upto(m + 1) = upto(m) \cup {m + 1} /\ m + 1 \notin upto(m)
      BY <2>2
    <3> HIDE DEF upto
    <3>2. Place(F, m + 1) = Place(F, m) + 1
      BY <1>2, <3>1, FS_AddElement
    <3>3. ASSUME NEW k \in 1 .. Place(F, m + 1)
          PROVE  \E i \in F : Place(F, i) = k
      <4>1. k \in 1 .. Place(F, m) \/ k = Place(F, m + 1)
        BY <1>2, <3>2
      <4> QED
        BY <2>1, <2>2, <4>1
    <3> QED
      BY <3>3
  <2>3. CASE m + 1 \notin F
    <3>1. \A i \in 1 .. m + 1 : i \in 1 .. m \/ i = m + 1
      OBVIOUS
    <3>2. upto(m + 1) = upto(m)
      BY <2>3, <3>1
    <3> HIDE DEF upto
    <3>3. Place(F, m + 1) = Place(F, m)
      BY <1>2, <3>2
    <3> QED
      BY <2>1, <3>3
  <2> QED
    BY <2>2, <2>3
<1>8. n \in S
  <2> HIDE DEF S
  <2> QED
    BY <1>6, <1>7, Induction
<1>9. Place(F, n) = Cardinality(F)
  <2>1. upto(n) = F
    OBVIOUS
  <2> HIDE DEF upto
  <2> QED
    BY <1>2, <2>1
<1>10. \A k \in 1 .. Cardinality(F) : \E i \in F : Place(F, i) = k
  BY <1>8, <1>9
<1> QED
  BY <1>1, <1>3, <1>5, <1>10

(* The analysis names every table the parser found, each once. *)
LEMMA NormalizedNames ==
  ASSUME NEW Z, NEW tables \in Seq(Z)
  PROVE  LET q == normalized_tables(tables)
         IN  /\ IsSeq(q)
             /\ \A x : Holds(q, x) <=> \E i \in 1 .. Len(tables) : x = qualified_name(tables[i])
             /\ IsFiniteSet(Range(q)) /\ Len(q) = Cardinality(Range(q))
<1> DEFINE n == Len(tables)
           names == [i \in DOMAIN tables |-> qualified_name(tables[i])]
           first == {i \in DOMAIN names : \A j \in 1 .. i - 1 : names[j] # names[i]}
           place(i) == Place(first, i)
           at(k) == CHOOSE i \in first : place(i) = k
           N == Cardinality(first)
           q == normalized_tables(tables)
<1>1. n \in Nat /\ DOMAIN tables = 1 .. n
  OBVIOUS
<1>2. /\ DOMAIN names = 1 .. n
      /\ \A i \in 1 .. n : names[i] = qualified_name(tables[i])
      /\ first = {i \in 1 .. n : \A j \in 1 .. i - 1 : names[j] # names[i]}
  BY <1>1
<1>3. q = [k \in 1 .. N |-> names[at(k)]]
  BY DEF normalized_tables, Place
<1> HIDE DEF n, names, first, q
<1>4. first \in SUBSET (1 .. n)
  BY <1>2
<1>5. /\ N \in Nat
      /\ \A k \in 1 .. N : \E i \in first : place(i) = k
      /\ \A i \in first : place(i) \in 1 .. N
      /\ \A i, j \in first : place(i) = place(j) => i = j
  BY <1>1, <1>4, NamePlaces
<1> HIDE DEF N, place
<1>6. ASSUME NEW k \in 1 .. N PROVE at(k) \in first /\ place(at(k)) = k
  <2>1. \E i \in first : place(i) = k
    BY <1>5
  <2> QED
    BY <2>1, Zenon
<1> HIDE DEF at
<1>7. ASSUME NEW i \in 1 .. n
      PROVE  \E j \in first : names[j] = names[i]
  <2> DEFINE T == {j \in 1 .. n : names[j] = names[i]}
  <2>1. T \in SUBSET Nat /\ T # {}
    OBVIOUS
  <2>2. PICK m \in T : \A k \in T : m <= k
    <3> HIDE DEF T
    <3> QED
      BY <2>1, LeastNumber
  <2>3. ASSUME NEW j \in 1 .. m - 1 PROVE names[j] # names[m]
    <3>1. j \in 1 .. n /\ ~(m <= j)
      BY <1>1, <2>2
    <3> QED
      BY <2>2, <3>1
  <2> QED
    BY <1>2, <2>2, <2>3
<1>8. ASSUME NEW i \in first, NEW j \in first, names[i] = names[j] PROVE i = j
  <2>1. i \in 1 .. n /\ j \in 1 .. n
    BY <1>4
  <2>2. i < j => i \in 1 .. j - 1
    BY <1>1, <2>1
  <2>3. j < i => j \in 1 .. i - 1
    BY <1>1, <2>1
  <2>4. ~(i < j) /\ ~(j < i)
    BY <1>2, <1>8, <2>2, <2>3
  <2> QED
    BY <1>1, <2>1, <2>4
<1>9. q = [k \in 1 .. N |-> q[k]] /\ \A k \in 1 .. N : q[k] = names[at(k)]
  BY <1>3
<1>10. IsSeq(q) /\ Len(q) = N /\ DOMAIN q = 1 .. N
  BY <1>5, <1>9, FunctionIsSeq
<1>11. ASSUME NEW x
       PROVE  Holds(q, x) <=> \E i \in 1 .. n : x = qualified_name(tables[i])
  <2>1. ASSUME NEW k \in 1 .. N, q[k] = x
        PROVE  \E i \in 1 .. n : x = qualified_name(tables[i])
    <3>1. at(k) \in 1 .. n
      BY <1>4, <1>6
    <3> QED
      BY <1>2, <1>9, <2>1, <3>1
  <2>2. ASSUME NEW i \in 1 .. n, x = qualified_name(tables[i])
        PROVE  \E k \in 1 .. N : q[k] = x
    <3>1. PICK j \in first : names[j] = names[i]
      BY <1>7
    <3>2. place(j) \in 1 .. N
      BY <1>5
    <3>3. at(place(j)) = j
      BY <1>5, <1>6, <3>2
    <3>4. q[place(j)] = x
      BY <1>2, <1>9, <2>2, <3>1, <3>2, <3>3
    <3> QED
      BY <3>2, <3>4
  <2> QED
    BY <1>10, <2>1, <2>2 DEF Holds
<1>12. IsFiniteSet(Range(q)) /\ Cardinality(Range(q)) = N
  <2>1. q \in Bijection(1 .. N, Range(q))
    <3>1. ASSUME NEW k \in 1 .. N, NEW l \in 1 .. N, q[k] = q[l] PROVE k = l
      <4>1. at(k) = at(l)
        BY <1>6, <1>8, <1>9, <3>1
      <4> QED
        BY <1>6, <4>1
    <3>2. q \in [1 .. N -> Range(q)] /\ \A y \in Range(q) : \E k \in 1 .. N : q[k] = y
      BY <1>9, <1>10 DEF Range
    <3> QED
      BY <3>1, <3>2 DEF Bijection, Injection, Surjection, IsInjective
  <2>2. ExistsBijection(1 .. N, Range(q))
    BY <2>1 DEF ExistsBijection
  <2>3. IsFiniteSet(1 .. N) /\ Cardinality(1 .. N) = N
    BY <1>5, FS_Interval
  <2> QED
    BY <2>2, <2>3, FS_Bijection
<1> QED
  BY <1>10, <1>11, <1>12 DEF q, n

(* The target of an INSERT is orders when its name is, without a schema. *)
LEMMA TargetIsOrders ==
  ASSUME NEW s, InsertStatement(s)
  PROVE  normalized_tables(s.from) = << <<"orders">> >>
           <=> s.from = <<TableName(<<>>, <<"orders">>)>>
<1>1. PICK name \in DOMAIN Lexicon :
        \/ s.from = <<TableName(<<>>, <<name>>)>>
        \/ \E schema \in DOMAIN Lexicon : s.from = <<TableName(<<schema>>, <<name>>)>>
  <2>1. PICK target \in InsertTargets : s.from = <<target>>
    BY DEF InsertStatement
  <2>2. PICK qualifier \in Optional, name \in DOMAIN Lexicon :
          target = TableName(qualifier, <<name>>)
    BY <2>1 DEF InsertTargets
  <2>3. qualifier = <<>> \/ \E schema \in DOMAIN Lexicon : qualifier = <<schema>>
    BY <2>2 DEF Optional
  <2> QED
    BY <2>1, <2>2, <2>3
<1>2. CASE s.from = <<TableName(<<>>, <<name>>)>>
  <2>1. qualified_name(TableName(<<>>, <<name>>)) = <<name>>
    BY DEF qualified_name, TableName, TableRef
  <2>2. normalized_tables(s.from) = << <<name>> >>
    BY <1>2, <2>1, NormalizedOne
  <2>3. << <<name>> >> = << <<"orders">> >> <=> name = "orders"
    OBVIOUS
  <2>4. <<TableName(<<>>, <<name>>)>> = <<TableName(<<>>, <<"orders">>)>> <=> name = "orders"
    BY DEF TableName, TableRef
  <2> QED
    BY <1>2, <2>2, <2>3, <2>4
<1>3. ASSUME NEW schema \in DOMAIN Lexicon, s.from = <<TableName(<<schema>>, <<name>>)>>
      PROVE  /\ normalized_tables(s.from) # << <<"orders">> >>
             /\ s.from # <<TableName(<<>>, <<"orders">>)>>
  <2>1. qualified_name(TableName(<<schema>>, <<name>>)) = <<schema>> \o <<name>>
    BY DEF qualified_name, TableName, TableRef
  <2>2. Len(<<schema>> \o <<name>>) = 2 /\ Len(<<"orders">>) = 1
    OBVIOUS
  <2>3. normalized_tables(s.from) = << <<schema>> \o <<name>> >>
    BY <1>3, <2>1, NormalizedOne
  <2>4. <<schema>> \o <<name>> # <<"orders">>
    BY <2>2
  <2>5. << <<schema>> \o <<name>> >> # << <<"orders">> >>
    <3>1. \A p, q : <<p>> = <<q>> => p = q
      OBVIOUS
    <3> QED
      BY <2>4, <3>1, Zenon
  <2>6. <<schema>> # <<>>
    OBVIOUS
  <2>7. TableName(<<schema>>, <<name>>) # TableName(<<>>, <<"orders">>)
    BY <2>6 DEF TableName, TableRef
  <2> QED
    BY <1>3, <2>3, <2>5, <2>7
<1> QED
  BY <1>1, <1>2, <1>3

(* What classify_insert_value() says of a literal. *)
LEMMA ValueKinds ==
  ASSUME NEW e
  PROVE  /\ classify_insert_value(e) = "PositiveIntegerLiteral"
              <=> e.type = "kExprLiteralInt" /\ e.positive
         /\ classify_insert_value(e) \in {"PositiveIntegerLiteral", "PositiveDecimalLiteral"}
              <=> e.type \in {"kExprLiteralInt", "kExprLiteralFloat"} /\ e.positive
BY DEF classify_insert_value

(* The facts translate_insert() keeps. *)
LEMMA InsertFacts ==
  ASSUME NEW s, s.type = "kStmtInsert"
  PROVE  LET f == translate_statement(s)
         IN  /\ f.type = "Insert" /\ f.tables = s.from
             /\ f.affected_columns = s.columns
             /\ f.insert_source = IF s.kind = "kInsertSelect" THEN "Select" ELSE "Values"
             /\ f.insert_value_kinds =
                  IF s.kind = "kInsertSelect" THEN <<>>
                  ELSE [i \in DOMAIN s.values |-> classify_insert_value(s.values[i])]
             /\ f.unsupported_features = <<>> <=> s.has_columns
<1>1. translate_statement(s) = translate_insert(s)
  BY DEF translate_statement
<1>2. \A text : Note(FALSE, text) = <<>> /\ Note(TRUE, text) # <<>>
  BY DEF Note
<1>3. translate_insert(s).unsupported_features = Note(~s.has_columns, "INSERT without column list")
  BY DEF translate_insert, NoFacts
<1>4. /\ translate_insert(s).type = "Insert" /\ translate_insert(s).tables = s.from
      /\ translate_insert(s).affected_columns = s.columns
  BY DEF translate_insert, NoFacts
<1>5. /\ translate_insert(s).insert_source = IF s.kind = "kInsertSelect" THEN "Select" ELSE "Values"
      /\ translate_insert(s).insert_value_kinds =
           IF s.kind = "kInsertSelect" THEN <<>>
           ELSE [i \in DOMAIN s.values |-> classify_insert_value(s.values[i])]
  BY DEF translate_insert, NoFacts
<1> QED
  BY <1>1, <1>2, <1>3, <1>4, <1>5 DEF Note

(* The two values of a list are the two literals. *)
LEMMA TwoKinds ==
  ASSUME NEW s, InsertStatement(s), NEW kinds,
         kinds = [i \in DOMAIN s.values |-> classify_insert_value(s.values[i])]
  PROVE  /\ Len(kinds) = Len(s.values) /\ Len(s.values) \in Nat
         /\ Len(s.values) = 2 => /\ kinds[1] = classify_insert_value(s.values[1])
                                 /\ kinds[2] = classify_insert_value(s.values[2])
<1> DEFINE n == Len(s.values)
<1>1. n \in Nat /\ DOMAIN s.values = 1 .. n
  <2>1. ASSUME NEW S, NEW q \in Seq(S)
        PROVE  Len(q) \in Nat /\ DOMAIN q = 1 .. Len(q)
    OBVIOUS
  <2> QED
    BY <2>1 DEF InsertStatement
<1>2. kinds = [i \in 1 .. n |-> kinds[i]]
  BY <1>1
<1>3. \A m \in Nat : \A q : q = [i \in 1 .. m |-> q[i]] => Len(q) = m
  OBVIOUS
<1>4. Len(kinds) = n
  <2> HIDE DEF n
  <2> QED
    BY <1>1, <1>2, <1>3
<1>5. n = 2 => 1 \in DOMAIN s.values /\ 2 \in DOMAIN s.values
  BY <1>1
<1> QED
  BY <1>1, <1>4, <1>5

(* Of all INSERTs the policy allows the authorized one and no other. *)
LEMMA InsertDecision ==
  ASSUME NEW s, InsertStatement(s)
  PROVE  evaluate(Analyzed(translate_statement(s))).allowed <=> AuthorizedInsert(s)
<1> DEFINE f == translate_statement(s)
           a == Analyzed(f)
<1>1. /\ f.type = "Insert" /\ f.tables = s.from
      /\ f.affected_columns = s.columns
      /\ f.insert_source = IF s.kind = "kInsertSelect" THEN "Select" ELSE "Values"
      /\ f.insert_value_kinds =
           IF s.kind = "kInsertSelect" THEN <<>>
           ELSE [i \in DOMAIN s.values |-> classify_insert_value(s.values[i])]
      /\ f.unsupported_features = <<>> <=> s.has_columns
  BY InsertFacts DEF InsertStatement
<1>2. statement_class_of("Insert") = "Dml"
  BY DEF statement_class_of
<1> HIDE DEF f
<1>3. /\ a.status = "Ok" /\ a.statement_count = 1 /\ a.statement_type = "Insert"
      /\ a.statement_class = "Dml" /\ a.tables = normalized_tables(s.from)
      /\ a.affected_columns = f.affected_columns /\ a.insert_source = f.insert_source
      /\ a.insert_value_kinds = f.insert_value_kinds
      /\ a.unsupported_features = f.unsupported_features
  BY <1>1, <1>2, AnalyzedFacts
<1> HIDE DEF a
<1>4. evaluate(a).allowed <=> targets_insert_table(a) /\ is_allowed_order_insert(a)
  BY <1>3, RulesSpelledOut
<1>5. targets_insert_table(a) <=> s.from = <<TableName(<<>>, <<"orders">>)>>
  BY <1>3, TargetIsOrders DEF targets_insert_table, kInsertTargetTable
<1>6. is_allowed_order_insert(a) <=>
        /\ s.has_columns /\ s.kind # "kInsertSelect"
        /\ s.columns = << <<"customer_id">>, <<"amount">> >>
        /\ Len(f.insert_value_kinds) = 2
        /\ f.insert_value_kinds[1] = "PositiveIntegerLiteral"
        /\ f.insert_value_kinds[2] \in {"PositiveIntegerLiteral", "PositiveDecimalLiteral"}
  BY <1>1, <1>3 DEF is_allowed_order_insert
<1>7. s.kind # "kInsertSelect" =>
        /\ Len(f.insert_value_kinds) = Len(s.values)
        /\ Len(s.values) = 2 =>
             /\ f.insert_value_kinds[1] = classify_insert_value(s.values[1])
             /\ f.insert_value_kinds[2] = classify_insert_value(s.values[2])
  BY <1>1, TwoKinds
<1>8. s.kind # "kInsertSelect" /\ Len(s.values) = 2 =>
        ((/\ f.insert_value_kinds[1] = "PositiveIntegerLiteral"
          /\ f.insert_value_kinds[2] \in {"PositiveIntegerLiteral", "PositiveDecimalLiteral"})
         <=> (/\ s.values[1].positive /\ s.values[1].type = "kExprLiteralInt"
              /\ s.values[2].positive
              /\ s.values[2].type \in {"kExprLiteralInt", "kExprLiteralFloat"}))
  BY <1>7, ValueKinds
<1> QED
  BY <1>4, <1>5, <1>6, <1>7, <1>8 DEF AuthorizedInsert, a, f

(* What an allowed text is: one SELECT, or one authorized INSERT. *)
LEMMA AllowedTexts ==
  ASSUME NEW text, Grammatical(text), evaluate(analyze(text)).allowed
  PROVE  /\ Len(text.statements) = 1 /\ DOMAIN text.statements = {1}
         /\ text.statements[1].type \in {"kStmtSelect", "kStmtInsert"}
         /\ text.statements[1].type = "kStmtSelect" => analyze(text).statement_type = "Select"
         /\ text.statements[1].type = "kStmtInsert" =>
              /\ analyze(text).statement_type = "Insert"
              /\ AuthorizedInsert(text.statements[1])
              /\ text.statements[1].effects = "none"
<1> DEFINE s == text.statements[1]
<1>1. text.statements \in Seq(Range(text.statements))
  BY DEF Grammatical
<1>2. text.text = "script" /\ Len(text.statements) = 1
  BY <1>1, OnlyOneStatement
<1>3. DOMAIN text.statements = {1}
  <2>1. ASSUME NEW S, NEW q \in Seq(S), Len(q) = 1
        PROVE  DOMAIN q = {1}
    BY <2>1
  <2> QED
    BY <1>1, <1>2, <2>1
<1>4. analyze(text) = Analyzed(translate_statement(s))
  BY <1>1, <1>2, AnalysisOfOne
<1>5. s.type \in {"kStmtSelect", "kStmtInsert"}
  BY <1>4, AllowedTypes
<1>6. analyze(text).statement_type = translate_statement(s).type
  BY <1>4, AnalyzedFacts
<1>7. s.type = "kStmtInsert" => InsertStatement(s)
  BY <1>3 DEF Grammatical, InsertStatement
<1>8. s.type = "kStmtInsert" => AuthorizedInsert(s)
  BY <1>4, <1>7, InsertDecision
<1>9. s.type = "kStmtInsert" => s.effects = "none"
  <2> SUFFICES ASSUME s.type = "kStmtInsert" PROVE s.effects = "none"
    OBVIOUS
  <2>1. DOMAIN s.values = 1 .. 2
    <3>1. ASSUME NEW S, NEW q \in Seq(S), Len(q) = 2
          PROVE  DOMAIN q = 1 .. 2
      BY <3>1
    <3> QED
      BY <1>7, <1>8, <3>1 DEF InsertStatement, AuthorizedInsert
  <2>2. \A v \in 1 .. 2 : v = 1 \/ v = 2
    OBVIOUS
  <2>3. \A v \in DOMAIN s.values : IsNumber(s.values[v])
    BY <1>8, <2>1, <2>2 DEF AuthorizedInsert, IsNumber
  <2> QED
    BY <1>3, <1>8, <2>3 DEF Grammatical, AuthorizedInsert
<1> QED
  BY <1>2, <1>3, <1>4, <1>5, <1>6, <1>8, <1>9, TranslatedType

----------------------------------------------------------------------------
(* What the classifier and the masker make of an answer. *)

(* A class by name is PII with its category, or none. *)
LEMMA ClassesByName ==
  ASSUME NEW name
  PROVE  /\ ClassOfName(name).data_class # "Unattributed"
         /\ ClassOfName(name).data_class = "Pii" <=> ClassOfName(name).pii_category # "none"
<1> DEFINE key == ascii_lower(name)
<1>1. key \in DOMAIN normalized_mappings =>
        normalized_mappings[key] \in {"Email", "Phone", "CreditCard"}
  BY DEF normalized_mappings
<1>2. /\ not_pii.data_class = "NotClassifiedAsPii" /\ not_pii.pii_category = "none"
      /\ \A c : pii(c).data_class = "Pii" /\ pii(c).pii_category = c
  BY DEF not_pii, pii
<1> HIDE DEF key
<1>3. ClassOfName(name) = IF key \in DOMAIN normalized_mappings
                          THEN pii(normalized_mappings[key]) ELSE not_pii
  BY DEF ClassOfName, key
<1> QED
  BY <1>1, <1>2, <1>3

(* The statement's shape is one the classifier can follow. *)
Attributable(a, columns) ==
  \/ columns = <<>>
  \/ count_star_only_shape(a)
  \/ positional_shape(a, columns)
  \/ wildcard_shape(a)

(* The class of a column, shape by shape. *)
ClassIn(a, columns, i) ==
  IF count_star_only_shape(a) THEN not_pii
  ELSE IF positional_shape(a, columns)
  THEN ClassOfName(strip_qualifier(a.projection_columns[i]))
  ELSE IF wildcard_shape(a) THEN ClassOfName(columns[i].name)
  ELSE Unattributed

(* classify() has one class for every column; they are all attributed, or  *)
(* none is and there is one.                                               *)
LEMMA Classes ==
  ASSUME NEW a, NEW C, NEW columns \in Seq(C)
  PROVE  /\ Len(classify(a, columns).columns) = Len(columns)
         /\ DOMAIN classify(a, columns).columns = DOMAIN columns
         /\ classify(a, columns).fully_attributed = Attributable(a, columns)
         /\ \A i \in DOMAIN columns : classify(a, columns).columns[i] = ClassIn(a, columns, i)
<1> DEFINE classification == classify(a, columns)
           class(i) == CASE count_star_only_shape(a) -> not_pii
                         [] positional_shape(a, columns) ->
                              ClassOfName(strip_qualifier(a.projection_columns[i]))
                         [] wildcard_shape(a) -> ClassOfName(columns[i].name)
                         [] OTHER -> Unattributed
<1>1. Len(columns) \in Nat /\ DOMAIN columns = 1 .. Len(columns)
  OBVIOUS
<1>2. classification = [columns |-> [i \in DOMAIN columns |-> class(i)],
                        fully_attributed |-> Attributable(a, columns)]
  BY Zenon DEF classify, Attributable
<1> HIDE DEF class, classification
<1>3. classification.columns = [i \in DOMAIN columns |-> class(i)]
  BY <1>2
<1>4. classification.fully_attributed = Attributable(a, columns)
  BY <1>2
<1>5. \A i \in DOMAIN columns : classification.columns[i] = class(i)
  BY <1>3
<1>6. classification.columns = [i \in 1 .. Len(columns) |-> classification.columns[i]]
  BY <1>1, <1>3
<1>7. /\ Len(classification.columns) = Len(columns)
      /\ DOMAIN classification.columns = 1 .. Len(columns)
  BY <1>1, <1>6, FunctionIsSeq
<1>8. /\ count_star_only_shape(a) => ~positional_shape(a, columns) /\ ~wildcard_shape(a)
      /\ positional_shape(a, columns) => ~wildcard_shape(a)
  BY DEF count_star_only_shape, positional_shape, wildcard_shape
<1>9. \A i : class(i) = ClassIn(a, columns, i)
  BY <1>8 DEF class, ClassIn
<1> QED
  BY <1>1, <1>4, <1>5, <1>7, <1>9 DEF classification

(* The masker finds nothing to object to in what the classifier says: it    *)
(* masks a row by the classes, or refuses because nothing is attributed.    *)
LEMMA Masking ==
  ASSUME NEW a, NEW C, NEW columns \in Seq(C), NEW execution, execution.columns = columns,
         \A r \in DOMAIN execution.rows : Len(execution.rows[r]) = Len(columns)
  PROVE  mask(execution, classify(a, columns)) =
           IF Attributable(a, columns)
           THEN [masked |-> TRUE, reason |-> "none",
                 rows |-> [r \in DOMAIN execution.rows |->
                             MaskRow(execution.rows[r], classify(a, columns).columns)]]
           ELSE MaskingFailure("UnattributedColumn")
<1> DEFINE classification == classify(a, columns)
           classes == classification.columns
<1>1. /\ Len(classes) = Len(columns) /\ DOMAIN classes = DOMAIN columns
      /\ classification.fully_attributed = Attributable(a, columns)
      /\ \A i \in DOMAIN columns : classes[i] = ClassIn(a, columns, i)
  BY Classes
<1>2. /\ not_pii.data_class = "NotClassifiedAsPii" /\ not_pii.pii_category = "none"
      /\ Unattributed.data_class = "Unattributed" /\ Unattributed.pii_category = "none"
  BY DEF not_pii, Unattributed
<1> HIDE DEF classes, classification
<1>3. ASSUME NEW i \in DOMAIN columns
      PROVE  /\ classes[i].data_class = "Pii" <=> classes[i].pii_category # "none"
             /\ Attributable(a, columns) <=> classes[i].data_class # "Unattributed"
  <2>1. columns # <<>>
    BY <1>3
  <2>2. CASE count_star_only_shape(a)
    BY <1>1, <1>2, <2>2 DEF Attributable, ClassIn
  <2>3. CASE ~count_star_only_shape(a) /\ positional_shape(a, columns)
    BY <1>1, <2>3, ClassesByName DEF Attributable, ClassIn
  <2>4. CASE ~count_star_only_shape(a) /\ ~positional_shape(a, columns) /\ wildcard_shape(a)
    BY <1>1, <2>4, ClassesByName DEF Attributable, ClassIn
  <2>5. CASE ~count_star_only_shape(a) /\ ~positional_shape(a, columns) /\ ~wildcard_shape(a)
    BY <1>1, <1>2, <2>1, <2>5 DEF Attributable, ClassIn
  <2> QED
    BY <2>2, <2>3, <2>4, <2>5
<1>4. ~StructuralMismatch(execution, classes)
  BY <1>1 DEF StructuralMismatch
<1>5. AnyUnattributed(classes) <=> ~Attributable(a, columns)
  <2>1. ~Attributable(a, columns) => columns # <<>>
    BY DEF Attributable
  <2>2. columns # <<>> => DOMAIN columns # {}
    <3>1. Len(columns) \in Nat /\ DOMAIN columns = 1 .. Len(columns)
      OBVIOUS
    <3>2. columns # <<>> => Len(columns) # 0
      BY EmptySeq
    <3>3. \A n \in Nat : n # 0 => 1 \in 1 .. n
      OBVIOUS
    <3>4. columns # <<>> => 1 \in DOMAIN columns
      BY <3>1, <3>2, <3>3
    <3> QED
      BY <3>4
  <2> QED
    BY <1>1, <1>3, <2>1, <2>2 DEF AnyUnattributed
<1>6. ~InvalidClassification(classification)
  <2>1. \A i \in DOMAIN classes :
          (classes[i].data_class = "Pii") = (classes[i].pii_category # "none")
    BY <1>1, <1>3
  <2>2. classification.fully_attributed # AnyUnattributed(classes)
    BY <1>1, <1>5
  <2> QED
    BY <2>1, <2>2 DEF InvalidClassification, classes
<1> QED
  BY <1>4, <1>5, <1>6 DEF mask, classes, classification

(* The names of an answer's columns, and its rows masked by their classes. *)
NamesOf(columns) == [c \in DOMAIN columns |-> columns[c].name]
RowsByClass(rows, classes) == [r \in DOMAIN rows |-> MaskRow(rows[r], classes)]

(* The answer is handed out, masked, if it is attributable, and refused if  *)
(* not; either way it is recorded.                                          *)
IsOutcomeOfRead(outcome, a, execution) ==
  LET columns == execution.columns
  IN  /\ succeeded(outcome.result) <=> Attributable(a, columns)
      /\ Attributable(a, columns) =>
           outcome.result = Rows(NamesOf(columns),
                                 RowsByClass(execution.rows, classify(a, columns).columns))
      /\ outcome.record.outcome \in {"Success", "MaskingRefused"}
      /\ outcome.record.referenced_tables = classify_tables(a.tables)

(* What process() answers to a query that the database has answered, and    *)
(* what it records of it.                                                   *)
LEMMA ReadOutcome ==
  ASSUME NEW t, NEW a, NEW execution, NEW C, execution.columns \in Seq(C),
         execution.row_count \in Nat, execution.status = "Ok",
         \A r \in DOMAIN execution.rows : Len(execution.rows[r]) = Len(execution.columns),
         a.statement_type = "Select"
  PROVE  IsOutcomeOfRead(ProcessExecuted(t, a, execution), a, execution)
<1>0. PICK columns \in Seq(C) : execution.columns = columns
  OBVIOUS
<1> DEFINE classification == classify(a, columns)
           masked == mask(execution, classification)
           outcome == ProcessExecuted(t, a, execution)
<1>1. masked = IF Attributable(a, columns)
               THEN [masked |-> TRUE, reason |-> "none",
                     rows |-> [r \in DOMAIN execution.rows |->
                                 MaskRow(execution.rows[r], classification.columns)]]
               ELSE MaskingFailure("UnattributedColumn")
  BY <1>0, Masking
<1> HIDE DEF classification, masked
<1>2. outcome = ProcessRead(t, a, execution)
  BY <1>0 DEF ProcessExecuted
<1>3. /\ \A details, tables : Record(t, "Success", details, tables) # Throws
      /\ \A details, tables : Record(t, "MaskingRefused", details, tables) # Throws
  BY DEF Record, Throws
<1>4. CASE Attributable(a, columns)
  <2>1. masked.masked /\ masked.rows = RowsByClass(execution.rows, classification.columns)
    BY <1>1, <1>4 DEF RowsByClass
  <2>2. PICK details :
          outcome = [result |-> to_masked_result(execution, masked),
                     record |-> Record(t, "Success", details, a.tables)]
    <3> DEFINE d == SuccessDetails(a.statement_type, execution.row_count,
                                   Len(execution.columns), summarize(classification))
    <3>1. d.statement_type = "Select"
      BY DEF SuccessDetails
    <3>2. outcome = Processing(t, to_masked_result(execution, masked), success(t, d, a.tables))
      BY <1>0, <1>2, <2>1 DEF ProcessRead, checked_count, masked, classification
    <3> HIDE DEF d
    <3>3. success(t, d, a.tables) = Record(t, "Success", d, a.tables)
      BY <3>1 DEF success, Requiring
    <3> QED
      BY <1>3, <3>2, <3>3 DEF Processing
  <2>3. /\ to_masked_result(execution, masked) =
             Rows(NamesOf(columns), masked.rows)
        /\ \A names, rows : Rows(names, rows).kind = "rows"
    BY <1>0 DEF to_masked_result, Rows, NamesOf
  <2> QED
    BY <1>0, <1>4, <2>1, <2>2, <2>3 DEF succeeded, Record, classification, IsOutcomeOfRead
<1>5. CASE ~Attributable(a, columns)
  <2>1. masked.masked = FALSE /\ masked.reason = "UnattributedColumn"
    BY <1>1, <1>5 DEF MaskingFailure
  <2>2. PICK details :
          outcome = [result |-> Failure("MaskingRefused"),
                     record |-> Record(t, "MaskingRefused", details, a.tables)]
    <3> DEFINE d == MaskingRefusedDetails(a.statement_type, Len(execution.columns))
    <3>1. d.statement_type = "Select"
      BY DEF MaskingRefusedDetails
    <3>2. outcome = Processing(t, Failure("MaskingRefused"), masking_refused(t, d, a.tables))
      BY <1>0, <1>2, <2>1 DEF ProcessRead, checked_count, masked, classification
    <3> HIDE DEF d
    <3>3. masking_refused(t, d, a.tables) = Record(t, "MaskingRefused", d, a.tables)
      BY <3>1 DEF masking_refused, Requiring
    <3> QED
      BY <1>3, <3>2, <3>3 DEF Processing
  <2>3. Failure("MaskingRefused").kind = "failure"
    BY DEF Failure
  <2> QED
    BY <1>0, <1>5, <2>2, <2>3 DEF succeeded, Record, IsOutcomeOfRead
<1> QED
  BY <1>4, <1>5

----------------------------------------------------------------------------
(* What the server answers. *)

(* The columns of the answer, entry by entry, and all of them. *)
AnswerParts(stmt) == [i \in DOMAIN stmt.list |-> AnswerOf(stmt, stmt.list[i])]

(* The parts of the statement are sequences. *)
LEMMA StatementSequences ==
  ASSUME NEW stmt, IsQuery(stmt)
  PROVE  /\ Len(stmt.list) \in Nat /\ DOMAIN stmt.list = 1 .. Len(stmt.list)
         /\ Len(stmt.from) \in Nat /\ DOMAIN stmt.from = 1 .. Len(stmt.from)
         /\ \A i \in DOMAIN stmt.list : IsExpr(stmt.list[i])
         /\ \A i \in DOMAIN stmt.from : stmt.from[i] \in TableNames \cup {TableSelect}
<1>1. stmt.list \in Seq(Range(stmt.list)) /\ stmt.from \in Seq(TableNames \cup {TableSelect})
  BY DEF IsQuery
<1>2. \A S : \A q \in Seq(S) : /\ Len(q) \in Nat /\ DOMAIN q = 1 .. Len(q)
                               /\ \A i \in 1 .. Len(q) : q[i] \in S
  OBVIOUS
<1>3. \A i \in DOMAIN stmt.list : IsExpr(stmt.list[i])
  BY DEF IsQuery
<1> QED
  BY <1>1, <1>2, <1>3

(* A table of the schema has a sequence of columns. *)
LEMMA TableColumns ==
  ASSUME NEW table \in DOMAIN Schema
  PROVE  /\ Len(Schema[table]) \in Nat /\ DOMAIN Schema[table] = 1 .. Len(Schema[table])
         /\ \A c \in DOMAIN Schema[table] : /\ Schema[table][c] \in DOMAIN Lexicon
                                            /\ Lexicon[Schema[table][c]].lower = Schema[table][c]
<1> DEFINE W == {w \in DOMAIN Lexicon : Lexicon[w].lower = w}
<1>1. Schema[table] \in Seq(W)
  BY SchemaAssumption
<1>2. \A q \in Seq(W) : /\ Len(q) \in Nat /\ DOMAIN q = 1 .. Len(q)
                        /\ \A i \in 1 .. Len(q) : q[i] \in W
  OBVIOUS
<1>3. \A w \in W : w \in DOMAIN Lexicon /\ Lexicon[w].lower = w
  OBVIOUS
<1> HIDE DEF W
<1> QED
  BY <1>1, <1>2, <1>3

(* A name in lower case. *)
IsFolded(name) == name \in DOMAIN Lexicon /\ Lexicon[name].lower = name

(* Folding makes one of any word. *)
LEMMA FoldedNames ==
  ASSUME NEW w \in DOMAIN Lexicon
  PROVE  IsFolded(Folded(w))
<1>1. Lexicon[w] \in LexiconEntries
  BY LexiconAssumption
<1>2. Lexicon[w].lower \in DOMAIN Lexicon
  BY <1>1 DEF LexiconEntries
<1> QED
  BY <1>2, LexiconAssumption DEF IsFolded, Folded

(* A reference of a statement the server accepts has a sequence of columns, *)
(* each known by a name in lower case.                                      *)
LEMMA ReferenceColumns ==
  ASSUME NEW stmt, IsQuery(stmt), Resolves(stmt), NEW i \in DOMAIN stmt.from
  PROVE  LET columns == ColumnsOf(stmt, i)
         IN  /\ IsSeq(columns) /\ DOMAIN columns = 1 .. Len(columns) /\ Len(columns) \in Nat
             /\ \A c \in DOMAIN columns : /\ columns[c].kind = "column"
                                          /\ IsFolded(columns[c].as)
<1> DEFINE leaf == stmt.from[i]
           names == Schema[TableOf(leaf)]
           as(c) == IF c \in DOMAIN leaf.columns THEN Folded(leaf.columns[c]) ELSE names[c]
           columns == ColumnsOf(stmt, i)
<1>1. leaf.type = "kTableName" /\ TableOf(leaf) \in DOMAIN Schema
  BY DEF Resolves
<1>2. leaf \in TableNames
  <2>1. leaf \in TableNames \cup {TableSelect}
    BY StatementSequences
  <2>2. TableSelect.type = "kTableSelect"
    BY DEF TableSelect, TableRef
  <2> QED
    BY <1>1, <2>1, <2>2
<1>3. \A c \in DOMAIN leaf.columns : leaf.columns[c] \in DOMAIN Lexicon
  <2>1. leaf.columns \in Seq(DOMAIN Lexicon)
    BY <1>2 DEF TableNames
  <2>2. \A S : \A q \in Seq(S) : \A c \in DOMAIN q : q[c] \in S
    OBVIOUS
  <2> QED
    BY <2>1, <2>2
<1>4. /\ Len(names) \in Nat /\ DOMAIN names = 1 .. Len(names)
      /\ \A c \in DOMAIN names : IsFolded(names[c])
  BY <1>1, TableColumns DEF IsFolded
<1>5. columns = [c \in DOMAIN names |-> Origin("column", i, names[c], as(c))]
  BY DEF ColumnsOf
<1>6. ASSUME NEW c \in DOMAIN names PROVE IsFolded(as(c))
  BY <1>3, <1>4, FoldedNames
<1> HIDE DEF as, leaf, names, columns
<1>7. /\ columns = [c \in 1 .. Len(names) |-> columns[c]]
      /\ \A c \in DOMAIN names : columns[c].kind = "column" /\ IsFolded(columns[c].as)
  BY <1>4, <1>5, <1>6 DEF Origin
<1>8. IsSeq(columns) /\ Len(columns) = Len(names) /\ DOMAIN columns = 1 .. Len(names)
  BY <1>4, <1>7, FunctionIsSeq
<1> QED
  BY <1>4, <1>7, <1>8 DEF columns

(* What a star is answered with, reference by reference. *)
StarParts(stmt, e) == [i \in DOMAIN stmt.from |-> StarAnswer(stmt, e, i)]

(* A column of the answer has the name of the column it was read from. *)
NamedByOrigin(column) ==
  /\ column.origin.kind = "column"
  /\ IsFolded(column.origin.as) /\ column.name = <<column.origin.as>>

(* All columns a star is answered with have. *)
LEMMA StarAnswers ==
  ASSUME NEW stmt, IsQuery(stmt), Resolves(stmt), NEW e, NEW i \in DOMAIN stmt.from
  PROVE  /\ IsSeq(StarAnswer(stmt, e, i))
         /\ \A x : Holds(StarAnswer(stmt, e, i), x) => NamedByOrigin(x)
<1> DEFINE columns == ColumnsOf(stmt, i)
           answer == StarAnswer(stmt, e, i)
<1>1. /\ IsSeq(columns) /\ DOMAIN columns = 1 .. Len(columns) /\ Len(columns) \in Nat
      /\ \A c \in DOMAIN columns : columns[c].kind = "column" /\ IsFolded(columns[c].as)
  BY ReferenceColumns
<1>2. CASE i \in Scope(stmt, e.table)
  <2>1. answer = [c \in DOMAIN columns |->
                    ColumnAnswer(<<columns[c].as>>, CellOf(stmt, columns[c]), columns[c])]
    BY <1>2 DEF StarAnswer
  <2> HIDE DEF columns, answer
  <2>2. /\ answer = [c \in 1 .. Len(columns) |-> answer[c]]
        /\ \A c \in DOMAIN columns : NamedByOrigin(answer[c])
    BY <1>1, <2>1 DEF ColumnAnswer, NamedByOrigin
  <2>3. IsSeq(answer) /\ Len(answer) = Len(columns)
    BY <1>1, <2>2, FunctionIsSeq
  <2>4. \A x : Holds(answer, x) => NamedByOrigin(x)
    BY <1>1, <2>2, <2>3 DEF Holds
  <2> QED
    BY <2>3, <2>4 DEF answer
<1>3. CASE i \notin Scope(stmt, e.table)
  <2>1. answer = <<>>
    BY <1>3 DEF StarAnswer
  <2>2. <<>> \in Seq({}) /\ ~\E x : Holds(<<>>, x)
    BY DEF Holds
  <2> QED
    BY <2>1, <2>2 DEF IsSeq
<1> QED
  BY <1>2, <1>3

(* The parts of a star's answer are sequences. *)
LEMMA StarPartsAreSeqs ==
  ASSUME NEW stmt, IsQuery(stmt), Resolves(stmt), NEW e
  PROVE  /\ \E X : StarParts(stmt, e) \in Seq(Seq(X))
         /\ IsSeq(FlattenSeq(StarParts(stmt, e)))
         /\ Len(StarParts(stmt, e)) = Len(stmt.from)
         /\ \A x : Holds(FlattenSeq(StarParts(stmt, e)), x) => NamedByOrigin(x)
<1> DEFINE parts == StarParts(stmt, e)
           m == Len(stmt.from)
<1>1. m \in Nat /\ DOMAIN stmt.from = 1 .. m
  BY StatementSequences
<1>2. /\ parts = [i \in 1 .. m |-> parts[i]]
      /\ \A i \in 1 .. m : parts[i] = StarAnswer(stmt, e, i)
  BY <1>1 DEF StarParts
<1>3. \A i \in 1 .. m : /\ IsSeq(parts[i])
                        /\ \A x : Holds(parts[i], x) => NamedByOrigin(x)
  BY <1>1, <1>2, StarAnswers
<1> HIDE DEF parts, m
<1>4. PICK X : parts \in Seq(Seq(X))
  BY <1>1, <1>2, <1>3, SeqOfSeqs
<1>5. Len(parts) = m
  BY <1>1, <1>2, FunctionIsSeq
<1>6. IsSeq(FlattenSeq(parts))
  BY <1>1, <1>2, <1>3, FlattenIsSeq
<1>7. \A x : Holds(FlattenSeq(parts), x) => NamedByOrigin(x)
  BY <1>3, <1>4, <1>5, FlattenHolds
<1> QED
  BY <1>4, <1>5, <1>6, <1>7 DEF parts, m

(* The answer to every entry is a sequence; a column reference has the      *)
(* origin it means.                                                         *)
LEMMA EntryAnswers ==
  ASSUME NEW stmt, IsQuery(stmt), Resolves(stmt), NEW i \in DOMAIN stmt.list
  PROVE  LET e == stmt.list[i]
         IN  /\ IsSeq(AnswerOf(stmt, e))
             /\ e.type = "kExprStar" => AnswerOf(stmt, e) = FlattenSeq(StarParts(stmt, e))
             /\ e.type # "kExprStar" =>
                  \E name, cell, origin : AnswerOf(stmt, e) = <<ColumnAnswer(name, cell, origin)>>
             /\ IsColumn(e) =>
                  \E name, cell : AnswerOf(stmt, e) = <<ColumnAnswer(name, cell, Meant(stmt, e))>>
<1> DEFINE e == stmt.list[i]
<1>1. ASSUME NEW x PROVE IsSeq(<<x>>)
  <2>1. <<x>> \in Seq({x})
    OBVIOUS
  <2> QED
    BY <2>1 DEF IsSeq
<1>2. IsSeq(FlattenSeq(StarParts(stmt, e)))
  BY StarPartsAreSeqs
<1> HIDE DEF e
<1>3. e.type = "kExprStar" => AnswerOf(stmt, e) = FlattenSeq(StarParts(stmt, e))
  BY DEF AnswerOf, StarParts
<1>4. IsColumn(e) =>
        \E name, cell : AnswerOf(stmt, e) = <<ColumnAnswer(name, cell, Meant(stmt, e))>>
  <2> SUFFICES ASSUME IsColumn(e)
               PROVE  \E name, cell :
                        AnswerOf(stmt, e) = <<ColumnAnswer(name, cell, Meant(stmt, e))>>
    OBVIOUS
  <2>1. AnswerOf(stmt, e) = <<ColumnAnswer(Label(e, <<ColumnName(e)>>),
                                           CellOf(stmt, Meant(stmt, e)), Meant(stmt, e))>>
    BY DEF AnswerOf, IsColumn
  <2> QED
    BY <2>1, Zenon
<1>5. e.type # "kExprStar" =>
        \E name, cell, origin : AnswerOf(stmt, e) = <<ColumnAnswer(name, cell, origin)>>
  <2>1. CASE IsColumn(e)
    BY <1>4, <2>1
  <2>2. CASE e.type # "kExprStar" /\ ~IsColumn(e)
    <3>1. AnswerOf(stmt, e) = <<ComputedAnswer(stmt, e)>>
      BY <2>2 DEF AnswerOf, IsColumn
    <3>2. \E name, cell, origin : ComputedAnswer(stmt, e) = ColumnAnswer(name, cell, origin)
      BY Zenon DEF ComputedAnswer
    <3> QED
      BY <3>1, <3>2
  <2> QED
    BY <2>1, <2>2
<1>6. IsSeq(AnswerOf(stmt, e))
  BY <1>1, <1>2, <1>3, <1>5
<1> QED
  BY <1>3, <1>4, <1>5, <1>6 DEF e

(* The answers to all entries are sequences. *)
LEMMA AnswerPartsAreSeqs ==
  ASSUME NEW stmt, IsQuery(stmt), Resolves(stmt)
  PROVE  /\ AnswerParts(stmt) = [i \in 1 .. Len(stmt.list) |-> AnswerParts(stmt)[i]]
         /\ \A i \in 1 .. Len(stmt.list) : /\ AnswerParts(stmt)[i] = AnswerOf(stmt, stmt.list[i])
                                          /\ IsSeq(AnswerParts(stmt)[i])
         /\ \E X : AnswerParts(stmt) \in Seq(Seq(X))
         /\ Len(AnswerParts(stmt)) = Len(stmt.list)
<1> DEFINE n == Len(stmt.list)
           parts == AnswerParts(stmt)
<1>1. n \in Nat /\ DOMAIN stmt.list = 1 .. n
  BY StatementSequences
<1>2. /\ parts = [i \in 1 .. n |-> parts[i]]
      /\ \A i \in 1 .. n : parts[i] = AnswerOf(stmt, stmt.list[i])
  BY <1>1 DEF AnswerParts
<1>3. \A i \in 1 .. n : IsSeq(parts[i])
  BY <1>1, <1>2, EntryAnswers
<1> HIDE DEF parts, n
<1>4. (\E X : parts \in Seq(Seq(X))) /\ Len(parts) = n
  BY <1>1, <1>2, <1>3, SeqOfSeqs, FunctionIsSeq
<1> QED
  BY <1>2, <1>3, <1>4 DEF parts, n

(* So is the whole answer; each of its columns answers some entry. *)
LEMMA AnswerIsSeq ==
  ASSUME NEW stmt, IsQuery(stmt), Resolves(stmt)
  PROVE  LET answer == AnswerColumns(stmt)
         IN  /\ IsSeq(answer) /\ Len(answer) \in Nat /\ DOMAIN answer = 1 .. Len(answer)
             /\ \A c \in DOMAIN answer :
                  \E i \in DOMAIN stmt.list : Holds(AnswerOf(stmt, stmt.list[i]), answer[c])
<1> DEFINE n == Len(stmt.list)
           parts == AnswerParts(stmt)
           answer == AnswerColumns(stmt)
<1>0. answer = FlattenSeq(parts)
  BY DEF AnswerColumns, AnswerParts
<1>1. n \in Nat /\ DOMAIN stmt.list = 1 .. n
  BY StatementSequences
<1>2. /\ parts = [i \in 1 .. n |-> parts[i]]
      /\ \A i \in 1 .. n : parts[i] = AnswerOf(stmt, stmt.list[i]) /\ IsSeq(parts[i])
      /\ Len(parts) = n
  BY AnswerPartsAreSeqs
<1>3. PICK X : parts \in Seq(Seq(X))
  BY AnswerPartsAreSeqs
<1> HIDE DEF parts, n, answer
<1>5. IsSeq(answer)
  BY <1>0, <1>1, <1>2, FlattenIsSeq
<1>6. Len(answer) \in Nat /\ DOMAIN answer = 1 .. Len(answer)
  BY <1>5 DEF IsSeq
<1>7. ASSUME NEW c \in DOMAIN answer
      PROVE  \E i \in DOMAIN stmt.list : Holds(AnswerOf(stmt, stmt.list[i]), answer[c])
  <2>1. Holds(answer, answer[c])
    BY <1>6 DEF Holds
  <2>2. PICK i \in 1 .. n : Holds(parts[i], answer[c])
    BY <1>0, <1>2, <1>3, <2>1, FlattenHolds
  <2> QED
    BY <1>1, <1>2, <2>2
<1> QED
  BY <1>5, <1>6, <1>7 DEF answer

(* What the executor hands to process() after a query. *)
IsExecution(x, stmt) ==
  \E answer \in QueryAnswers(stmt) :
     /\ x.status = "Ok" /\ x.columns = answer.columns /\ x.rows = answer.rows
     /\ x.row_count = Len(answer.rows)

(* It has the columns of the answer, and every row has as many cells. *)
LEMMA ExecutionFacts ==
  ASSUME NEW stmt, IsQuery(stmt), NEW x, IsExecution(x, stmt)
  PROVE  /\ Resolves(stmt)
         /\ x.status = "Ok" /\ x.row_count \in Nat
         /\ \E C : x.columns \in Seq(C)
         /\ Len(x.columns) = Len(AnswerColumns(stmt))
         /\ DOMAIN x.columns = DOMAIN AnswerColumns(stmt)
         /\ \A c \in DOMAIN AnswerColumns(stmt) : x.columns[c].name = AnswerColumns(stmt)[c].name
         /\ \A r \in DOMAIN x.rows : /\ Len(x.rows[r]) = Len(x.columns)
                                     /\ DOMAIN x.rows[r] = DOMAIN x.columns
<1>1. PICK answer \in QueryAnswers(stmt) :
        /\ x.status = "Ok" /\ x.columns = answer.columns /\ x.rows = answer.rows
        /\ x.row_count = Len(answer.rows)
  BY DEF IsExecution
<1> DEFINE columns == [i \in DOMAIN AnswerColumns(stmt) |-> [name |-> AnswerColumns(stmt)[i].name]]
           row == [i \in DOMAIN AnswerColumns(stmt) |-> AnswerColumns(stmt)[i].cell]
<1>2. /\ Resolves(stmt)
      /\ \E rows \in {<<>>, <<row>>} : answer = [columns |-> columns, rows |-> rows]
  BY DEF QueryAnswers
<1>3. DOMAIN AnswerColumns(stmt) = 1 .. Len(AnswerColumns(stmt)) /\ Len(AnswerColumns(stmt)) \in Nat
  BY <1>2, AnswerIsSeq
<1>4. /\ columns = [i \in 1 .. Len(AnswerColumns(stmt)) |-> columns[i]]
      /\ row = [i \in 1 .. Len(AnswerColumns(stmt)) |-> row[i]]
      /\ \A c \in DOMAIN AnswerColumns(stmt) : columns[c].name = AnswerColumns(stmt)[c].name
  BY <1>3
<1> HIDE DEF columns, row
<1>5. /\ IsSeq(columns)
      /\ Len(columns) = Len(AnswerColumns(stmt))
      /\ DOMAIN columns = DOMAIN AnswerColumns(stmt)
  BY <1>3, <1>4, FunctionIsSeq
<1>6. IsSeq(row) /\ Len(row) = Len(AnswerColumns(stmt)) /\ DOMAIN row = DOMAIN AnswerColumns(stmt)
  BY <1>3, <1>4, FunctionIsSeq
<1>7. PICK rows \in {<<>>, <<row>>} : answer = [columns |-> columns, rows |-> rows]
  BY <1>2
<1>8. /\ x.status = "Ok" /\ x.columns = columns /\ x.rows = rows /\ x.row_count = Len(rows)
  BY <1>1, <1>7
<1>9. Len(rows) \in Nat /\ \A r \in DOMAIN rows : rows[r] = row
  <2>1. CASE rows = <<>>
    BY <2>1
  <2>2. CASE rows = <<row>>
    BY <2>2
  <2> QED
    BY <1>7, <2>1, <2>2
<1>10. \E C : columns \in Seq(C)
  BY <1>5 DEF IsSeq
<1> QED
  BY <1>2, <1>4, <1>5, <1>6, <1>8, <1>9, <1>10

----------------------------------------------------------------------------
(* The classes fit what was read. *)

ClassFor(category) == IF category = "none" THEN not_pii ELSE pii(category)

(* A column is classified by its name in lower case. *)
LEMMA ClassOfWord ==
  ASSUME NEW w \in DOMAIN Lexicon
  PROVE  ClassOfName(<<w>>) = ClassFor(CategoryOf(Lexicon[w].lower))
<1> DEFINE low == Lexicon[w].lower
<1>1. ascii_lower(<<w>>) = <<low>>
  BY DEF ascii_lower
<1> HIDE DEF low
<1>2. DOMAIN normalized_mappings = {<<"email">>, <<"phone">>, <<"credit_card">>}
  BY DEF normalized_mappings
<1>3. \A n : /\ <<low>> = <<n>> <=> low = n
  OBVIOUS
<1>4. /\ normalized_mappings[<<"email">>] = "Email"
      /\ normalized_mappings[<<"phone">>] = "Phone"
      /\ normalized_mappings[<<"credit_card">>] = "CreditCard"
  <2>1. /\ <<"email">> # <<"phone">>
        /\ <<"email">> # <<"credit_card">>
        /\ <<"phone">> # <<"credit_card">>
    OBVIOUS
  <2> QED
    BY <2>1 DEF normalized_mappings
<1>5. ClassOfName(<<w>>) = IF <<low>> \in DOMAIN normalized_mappings
                           THEN pii(normalized_mappings[<<low>>]) ELSE not_pii
  BY <1>1 DEF ClassOfName
<1>6. CASE low \in {"email", "phone", "credit_card"}
  BY <1>2, <1>4, <1>5, <1>6 DEF CategoryOf, ClassFor, low
<1>7. CASE low \notin {"email", "phone", "credit_card"}
  BY <1>2, <1>3, <1>5, <1>7 DEF CategoryOf, ClassFor, low
<1> QED
  BY <1>6, <1>7

(* A note is a sequence. *)
LEMMA NoteIsSeq ==
  ASSUME NEW condition, NEW item
  PROVE  IsSeq(Note(condition, item))
<1>1. Note(condition, item) \in {<<item>>, <<>>}
  BY DEF Note
<1>2. <<item>> \in Seq({item}) /\ <<>> \in Seq({item})
  OBVIOUS
<1> QED
  BY <1>1, <1>2 DEF IsSeq

(* No column was selected by name when the projection has none. *)
LEMMA NoColumns ==
  ASSUME NEW stmt, IsQuery(stmt), ProjectionColumns(stmt.list) = <<>>, NEW i \in DOMAIN stmt.list
  PROVE  ~IsColumn(stmt.list[i])
<1> DEFINE parts == [k \in DOMAIN stmt.list |->
                       Note(IsColumn(stmt.list[k]), stmt.list[k].table \o stmt.list[k].name)]
           n == Len(stmt.list)
<1>1. n \in Nat /\ DOMAIN stmt.list = 1 .. n
  BY StatementSequences
<1>2. \A x : Note(TRUE, x) = <<x>> /\ <<x>> # <<>>
  BY DEF Note
<1>3. \A k \in 1 .. n :
        parts[k] = Note(IsColumn(stmt.list[k]), stmt.list[k].table \o stmt.list[k].name)
  BY <1>1
<1>4. ASSUME NEW k \in 1 .. n PROVE IsSeq(parts[k])
  BY <1>3, NoteIsSeq
<1>5. parts = [k \in 1 .. n |-> parts[k]]
  BY <1>1
<1>6. FlattenSeq(parts) = <<>>
  BY DEF ProjectionColumns
<1> HIDE DEF parts, n
<1>7. PICK X : parts \in Seq(Seq(X))
  BY <1>1, <1>4, <1>5, SeqOfSeqs
<1>8. Len(parts) = n
  BY <1>1, <1>5, FunctionIsSeq
<1>9. parts[i] = <<>>
  BY <1>1, <1>6, <1>7, <1>8, FlattenKeepsParts
<1> QED
  BY <1>1, <1>2, <1>3, <1>9

(* Columns alone: the answer goes with the list entry by entry. *)
LEMMA ColumnOrigins ==
  ASSUME NEW stmt, IsQuery(stmt), Resolves(stmt),
         \A i \in DOMAIN stmt.list : IsColumn(stmt.list[i]),
         NEW c \in DOMAIN AnswerColumns(stmt)
  PROVE  /\ c \in DOMAIN stmt.list
         /\ AnswerColumns(stmt)[c].origin = Meant(stmt, stmt.list[c])
         /\ ProjectionColumns(stmt.list)[c] = stmt.list[c].table \o stmt.list[c].name
<1> DEFINE n == Len(stmt.list)
           named(i) == stmt.list[i].table \o stmt.list[i].name
           names == [i \in 1 .. n |-> named(i)]
           parts == [i \in DOMAIN stmt.list |-> Note(IsColumn(stmt.list[i]), named(i))]
           meant(i) == Meant(stmt, stmt.list[i])
           firsts == [i \in 1 .. n |-> AnswerParts(stmt)[i][1]]
<1>1. n \in Nat /\ DOMAIN stmt.list = 1 .. n
  BY StatementSequences
<1>2. /\ ProjectionColumns(stmt.list) = FlattenSeq(parts)
      /\ AnswerColumns(stmt) = FlattenSeq(AnswerParts(stmt))
  BY DEF ProjectionColumns, AnswerColumns, AnswerParts
<1>3. /\ \A i \in 1 .. n : parts[i] = <<named(i)>>
      /\ parts = [i \in 1 .. n |-> parts[i]]
  BY <1>1 DEF Note
<1>4. AnswerParts(stmt) = [i \in 1 .. n |-> AnswerParts(stmt)[i]]
  BY <1>1 DEF AnswerParts
<1>5. ASSUME NEW i \in 1 .. n
      PROVE  /\ AnswerParts(stmt)[i] = <<firsts[i]>>
             /\ firsts[i].origin = meant(i)
  <2>1. PICK name, cell :
          AnswerOf(stmt, stmt.list[i]) = <<ColumnAnswer(name, cell, meant(i))>>
    BY <1>1, EntryAnswers
  <2>2. AnswerParts(stmt)[i] = <<ColumnAnswer(name, cell, meant(i))>>
    BY <1>1, <2>1 DEF AnswerParts
  <2>3. firsts[i] = ColumnAnswer(name, cell, meant(i))
    BY <2>2
  <2>4. ColumnAnswer(name, cell, meant(i)).origin = meant(i)
    BY DEF ColumnAnswer
  <2> QED
    BY <2>2, <2>3, <2>4
<1>6. /\ names = [i \in 1 .. n |-> names[i]] /\ \A i \in 1 .. n : names[i] = named(i)
      /\ firsts = [i \in 1 .. n |-> firsts[i]]
  OBVIOUS
<1> HIDE DEF n, named, names, parts, meant, firsts
<1>7. /\ IsSeq(names) /\ Len(names) = n
      /\ IsSeq(firsts) /\ Len(firsts) = n /\ DOMAIN firsts = 1 .. n
      /\ Len(parts) = n /\ Len(AnswerParts(stmt)) = n
  BY <1>1, <1>3, <1>4, <1>6, FunctionIsSeq
<1>8. n # 0
  <2> SUFFICES ASSUME n = 0 PROVE FALSE
    OBVIOUS
  <2>1. AnswerParts(stmt) = <<>>
    BY <1>4
  <2>2. AnswerColumns(stmt) = <<>>
    BY <1>2, <2>1 DEF FlattenSeq
  <2> QED
    BY <2>2
<1>9. FlattenSeq(parts) = names
  <2>1. PICK Z : names \in Seq(Z)
    BY <1>7 DEF IsSeq
  <2> QED
    BY <1>3, <1>6, <1>7, <1>8, <2>1, FlattenOnes
<1>10. AnswerColumns(stmt) = firsts
  <2>1. PICK Z : firsts \in Seq(Z)
    BY <1>7 DEF IsSeq
  <2> QED
    BY <1>2, <1>5, <1>7, <1>8, <2>1, FlattenOnes
<1>11. c \in 1 .. n
  BY <1>7, <1>10
<1>12. AnswerColumns(stmt)[c].origin = meant(c) /\ ProjectionColumns(stmt.list)[c] = named(c)
  BY <1>2, <1>5, <1>6, <1>9, <1>10, <1>11
<1> QED
  BY <1>1, <1>11, <1>12 DEF named, meant

(* A class fits an origin: what was computed has none, a value of no column *)
(* is no PII, a column by its own name has its own category's class, and    *)
(* another column or a whole row may have any.                              *)
Fits(class, origin) ==
  /\ origin.kind # "computed"
  /\ \E category \in PiiCategories \cup {"none"} :
       /\ class = ClassFor(category)
       /\ origin.kind = "value" => category = "none"
       /\ origin.kind = "column" /\ origin.as = origin.column =>
            category = CategoryOf(origin.column)

(* The class by the name a column is known by fits. *)
LEMMA KnownByNameFits ==
  ASSUME NEW word \in DOMAIN Lexicon, NEW origin,
         \/ origin.kind = "column" /\ origin.as = Lexicon[word].lower
         \/ origin.kind = "row"
  PROVE  Fits(ClassOfName(<<word>>), origin)
<1> DEFINE low == Lexicon[word].lower
<1>1. ClassOfName(<<word>>) = ClassFor(CategoryOf(low))
  BY ClassOfWord
<1>2. CategoryOf(low) \in PiiCategories \cup {"none"}
  BY DEF CategoryOf, PiiCategories
<1> HIDE DEF low
<1>3. CASE origin.kind = "column" /\ origin.as = low
  BY <1>1, <1>2, <1>3 DEF Fits
<1>4. CASE origin.kind = "row"
  BY <1>1, <1>2, <1>4 DEF Fits
<1> QED
  BY <1>3, <1>4 DEF low

(* What a clear column reference means is known by its last name, or a row. *)
LEMMA MeantFits ==
  ASSUME NEW stmt, NEW e, IsExpr(e), IsColumn(e), Clear(stmt, e)
  PROVE  Fits(ClassOfName(strip_qualifier(e.table \o e.name)), Meant(stmt, e))
<1>1. PICK w \in DOMAIN Lexicon : e.name = <<w>>
  BY DEF IsExpr
<1>2. strip_qualifier(e.table \o e.name) = <<w>>
  <2>1. CASE e.table = <<>>
    <3>1. <<>> \o <<w>> = <<w>> /\ Len(<<w>>) = 1 /\ <<w>>[1] = w
      OBVIOUS
    <3> QED
      BY <1>1, <2>1, <3>1 DEF strip_qualifier
  <2>2. ASSUME NEW v \in DOMAIN Lexicon, e.table = <<v>>
        PROVE  strip_qualifier(e.table \o e.name) = <<w>>
    <3>1. Len(<<v>>) = 1 /\ Len(<<w>>) = 1 /\ <<w>>[1] = w
      OBVIOUS
    <3>2. <<v>> \in Seq({v, w}) /\ <<w>> \in Seq({v, w})
      OBVIOUS
    <3>3. Len(<<v>> \o <<w>>) = 2 /\ (<<v>> \o <<w>>)[2] = w
      BY <3>1, <3>2, ConcatProperties
    <3> QED
      BY <1>1, <2>2, <3>3 DEF strip_qualifier
  <2> QED
    BY <2>1, <2>2 DEF IsExpr, Optional
<1>3. ColumnName(e) = Lexicon[w].lower
  <2>1. Len(<<w>>) = 1 /\ <<w>>[1] = w
    OBVIOUS
  <2> QED
    BY <1>1, <2>1 DEF ColumnName, Folded
<1>4. Meant(stmt, e) \in Meanings(stmt, e)
  <2>1. Meanings(stmt, e) # {}
    BY FS_EmptySet DEF Clear
  <2> QED
    BY <2>1, Zenon DEF Meant
<1> DEFINE origin == Meant(stmt, e)
<1>5. \/ origin.kind = "column" /\ origin.as = Lexicon[w].lower
      \/ origin.kind = "row"
  <2> HIDE DEF origin
  <2>1. CASE Places(stmt, e) # {}
    <3>1. PICK i \in Scope(stmt, e.table) : origin \in Range(ColumnsOf(stmt, i))
      BY <1>4, <2>1 DEF Meanings, Places, origin
    <3>2. origin.kind = "column"
      <4> DEFINE columns == ColumnsOf(stmt, i)
      <4>1. \A c \in DOMAIN columns : columns[c].kind = "column"
        BY DEF ColumnsOf, Origin
      <4> HIDE DEF columns
      <4>2. PICK c \in DOMAIN columns : origin = columns[c]
        BY <3>1 DEF Range, columns
      <4> QED
        BY <4>1, <4>2
    <3>3. origin.as = ColumnName(e)
      BY <1>4, <2>1 DEF Meanings, Places, origin
    <3> QED
      BY <1>3, <3>2, <3>3
  <2>2. CASE Places(stmt, e) = {}
    <3>1. PICK i : origin = Origin("row", i, "none", "none")
      BY <1>4, <2>2 DEF Meanings, origin
    <3> QED
      BY <3>1 DEF Origin
  <2> QED
    BY <2>1, <2>2
<1> HIDE DEF origin
<1> QED
  BY <1>2, <1>5, KnownByNameFits DEF origin

(* COUNT-star alone: nothing is read from a column. *)
LEMMA CountStarOrigins ==
  ASSUME NEW stmt, IsQuery(stmt), Resolves(stmt),
         \A i \in DOMAIN stmt.list : is_count_star(stmt.list[i]),
         NEW c \in DOMAIN AnswerColumns(stmt)
  PROVE  AnswerColumns(stmt)[c].origin = OfNoColumn
<1>1. PICK i \in DOMAIN stmt.list : Holds(AnswerOf(stmt, stmt.list[i]), AnswerColumns(stmt)[c])
  BY AnswerIsSeq
<1> DEFINE e == stmt.list[i]
<1>2. /\ e.type = "kExprFunctionRef" /\ Len(e.args) = 1 /\ e.args[1].type = "kExprStar"
      /\ e.args \in Seq(Range(e.args))
  BY StatementSequences DEF is_count_star, IsExpr
<1> HIDE DEF e
<1>3. {j \in DOMAIN e.args : IsColumn(e.args[j])} = {}
  <2>1. ASSUME NEW S, NEW q \in Seq(S), Len(q) = 1
        PROVE  \A j \in DOMAIN q : j = 1
    BY <2>1
  <2> QED
    BY <1>2, <2>1 DEF IsColumn
<1>4. AnswerOf(stmt, e) = <<ComputedAnswer(stmt, e)>>
  BY <1>2 DEF AnswerOf
<1>5. ComputedAnswer(stmt, e).origin = OfNoColumn
  BY <1>3 DEF ComputedAnswer, ColumnAnswer
<1>6. \A x, y : Holds(<<x>>, y) => y = x
  BY DEF Holds
<1> QED
  BY <1>1, <1>4, <1>5, <1>6 DEF e

(* Stars alone: every column has the name of the column it was read from. *)
LEMMA StarOrigins ==
  ASSUME NEW stmt, IsQuery(stmt), Resolves(stmt),
         \A i \in DOMAIN stmt.list : stmt.list[i].type = "kExprStar",
         NEW c \in DOMAIN AnswerColumns(stmt)
  PROVE  NamedByOrigin(AnswerColumns(stmt)[c])
<1>1. PICK i \in DOMAIN stmt.list : Holds(AnswerOf(stmt, stmt.list[i]), AnswerColumns(stmt)[c])
  BY AnswerIsSeq
<1>2. AnswerOf(stmt, stmt.list[i]) = FlattenSeq(StarParts(stmt, stmt.list[i]))
  BY EntryAnswers
<1> QED
  BY <1>1, <1>2, StarPartsAreSeqs

(* In all shapes the class of a column fits where its cells come from. *)
LEMMA ClassesFit ==
  ASSUME NEW stmt, IsQuery(stmt), stmt.type = "kStmtSelect",
         NEW a, a = Analyzed(translate_statement(stmt)), NEW x, IsExecution(x, stmt),
         Attributable(a, x.columns), NEW c \in DOMAIN x.columns
  PROVE  Fits(classify(a, x.columns).columns[c], AnswerColumns(stmt)[c].origin)
<1>1. /\ a.projection_columns = ProjectionColumns(stmt.list)
      /\ a.has_wildcard_projection <=>
           \E i \in DOMAIN stmt.list : stmt.list[i].type = "kExprStar"
      /\ a.has_safe_count_star_projection <=>
           \E i \in DOMAIN stmt.list : is_count_star(stmt.list[i])
      /\ a.has_computed_projection <=>
           \E i \in DOMAIN stmt.list : /\ stmt.list[i].type # "kExprStar"
                                       /\ ~IsColumn(stmt.list[i])
                                       /\ ~is_count_star(stmt.list[i])
  BY SelectFacts
<1>2. /\ Resolves(stmt) /\ c \in DOMAIN AnswerColumns(stmt)
      /\ x.columns[c].name = AnswerColumns(stmt)[c].name
  BY ExecutionFacts
<1>3. PICK C : x.columns \in Seq(C)
  BY ExecutionFacts
<1>4. classify(a, x.columns).columns[c] = ClassIn(a, x.columns, c)
  BY <1>3, Classes
<1>5. x.columns # <<>>
  OBVIOUS
<1> DEFINE origin == AnswerColumns(stmt)[c].origin
<1>6. CASE count_star_only_shape(a)
  <2>1. /\ ProjectionColumns(stmt.list) = <<>>
        /\ ~a.has_wildcard_projection /\ ~a.has_computed_projection
    BY <1>1, <1>6 DEF count_star_only_shape
  <2>2. \A i \in DOMAIN stmt.list : is_count_star(stmt.list[i])
    BY <1>1, <2>1, NoColumns
  <2>3. origin = OfNoColumn
    BY <1>2, <2>2, CountStarOrigins
  <2>4. Fits(not_pii, OfNoColumn)
    BY DEF Fits, OfNoColumn, Origin, ClassFor
  <2> QED
    BY <1>4, <1>6, <2>3, <2>4 DEF ClassIn
<1>7. CASE positional_shape(a, x.columns)
  <2>1. /\ ~a.has_wildcard_projection /\ ~a.has_computed_projection
        /\ ~a.has_safe_count_star_projection
    BY <1>7 DEF positional_shape
  <2>2. \A i \in DOMAIN stmt.list : IsColumn(stmt.list[i])
    BY <1>1, <2>1
  <2> DEFINE e == stmt.list[c]
  <2>3. /\ c \in DOMAIN stmt.list /\ origin = Meant(stmt, e)
        /\ ProjectionColumns(stmt.list)[c] = e.table \o e.name
    BY <1>2, <2>2, ColumnOrigins
  <2>4. IsExpr(e) /\ IsColumn(e) /\ Clear(stmt, e)
    BY <1>2, <2>2, <2>3, StatementSequences DEF Resolves
  <2>5. Fits(ClassOfName(strip_qualifier(e.table \o e.name)), Meant(stmt, e))
    BY <2>4, MeantFits
  <2>6. ~count_star_only_shape(a)
    BY <2>1 DEF count_star_only_shape
  <2> QED
    BY <1>1, <1>4, <1>7, <2>3, <2>5, <2>6 DEF ClassIn
<1>8. CASE wildcard_shape(a)
  <2>1. /\ ProjectionColumns(stmt.list) = <<>>
        /\ a.has_wildcard_projection /\ ~a.has_computed_projection
        /\ ~a.has_safe_count_star_projection
    BY <1>1, <1>8 DEF wildcard_shape
  <2>2. \A i \in DOMAIN stmt.list : stmt.list[i].type = "kExprStar"
    BY <1>1, <2>1, NoColumns
  <2>3. NamedByOrigin(AnswerColumns(stmt)[c])
    BY <1>2, <2>2, StarOrigins
  <2>4. Fits(ClassOfName(<<origin.as>>), origin)
    <3>1. /\ origin.kind = "column" /\ origin.as \in DOMAIN Lexicon
          /\ Lexicon[origin.as].lower = origin.as
      BY <2>3 DEF NamedByOrigin, IsFolded
    <3> HIDE DEF origin
    <3> QED
      BY <3>1, KnownByNameFits
  <2>5. ~count_star_only_shape(a) /\ ~positional_shape(a, x.columns)
    BY <2>1 DEF count_star_only_shape, positional_shape
  <2> QED
    BY <1>2, <1>4, <1>8, <2>3, <2>4, <2>5 DEF ClassIn, NamedByOrigin
<1> QED
  BY <1>5, <1>6, <1>7, <1>8 DEF Attributable

(* Masking by a class that fits shows what may be seen. *)
LEMMA FitsShows ==
  ASSUME NEW class, NEW origin, Fits(class, origin), NEW cell
  PROVE  (IF class.data_class = "Pii" THEN mask_cell(class.pii_category, cell) ELSE cell)
           \in Shown(origin, cell)
<1>1. /\ not_pii.data_class # "Pii"
      /\ \A category : /\ pii(category).data_class = "Pii"
                       /\ pii(category).pii_category = category
  BY DEF not_pii, pii
<1>2. PICK category \in PiiCategories \cup {"none"} :
        /\ class = ClassFor(category)
        /\ origin.kind = "value" => category = "none"
        /\ origin.kind = "column" /\ origin.as = origin.column =>
             category = CategoryOf(origin.column)
  BY DEF Fits
<1> DEFINE shown == IF category = "none" THEN cell ELSE mask_cell(category, cell)
<1>3. (IF class.data_class = "Pii" THEN mask_cell(class.pii_category, cell) ELSE cell) = shown
  BY <1>1, <1>2 DEF ClassFor
<1>4. "none" \notin PiiCategories
  BY DEF PiiCategories
<1>5. shown \in {cell} \cup Masks(cell)
  BY <1>4 DEF Masks
<1>6. CASE origin.kind = "column" /\ origin.as = origin.column
  <2>1. Shown(origin, cell) = {Masked(origin.column, cell)}
    BY <1>6 DEF Shown
  <2>2. Masked(origin.column, cell) = shown
    BY <1>2, <1>6 DEF Masked
  <2> QED
    BY <1>3, <2>1, <2>2
<1>7. CASE origin.kind = "value"
  BY <1>2, <1>3, <1>7 DEF Shown
<1>8. CASE /\ ~(origin.kind = "column" /\ origin.as = origin.column)
           /\ origin.kind # "value"
  <2>1. origin.kind # "computed"
    BY DEF Fits
  <2>2. Shown(origin, cell) = {cell} \cup Masks(cell)
    BY <1>8, <2>1 DEF Shown
  <2> QED
    BY <1>3, <1>5, <2>2
<1> QED
  BY <1>6, <1>7, <1>8

(* Masking by the classes shows of every cell what may be seen of it. *)
LEMMA MaskedByOrigin ==
  ASSUME NEW stmt, IsQuery(stmt), stmt.type = "kStmtSelect",
         NEW a, a = Analyzed(translate_statement(stmt)), NEW x, IsExecution(x, stmt),
         Attributable(a, x.columns)
  PROVE  MaskedRows(stmt, x.rows, RowsByClass(x.rows, classify(a, x.columns).columns))
<1> DEFINE classes == classify(a, x.columns).columns
           shown == RowsByClass(x.rows, classes)
           answer == AnswerColumns(stmt)
<1>1. DOMAIN shown = DOMAIN x.rows
  BY DEF RowsByClass
<1>2. ASSUME NEW r \in DOMAIN x.rows
      PROVE  /\ DOMAIN shown[r] = DOMAIN x.rows[r]
             /\ \A c \in DOMAIN x.rows[r] :
                  shown[r][c] = IF classes[c].data_class = "Pii"
                                THEN mask_cell(classes[c].pii_category, x.rows[r][c])
                                ELSE x.rows[r][c]
  BY DEF RowsByClass, MaskRow
<1>3. ASSUME NEW r \in DOMAIN x.rows, NEW c \in DOMAIN x.rows[r]
      PROVE  shown[r][c] \in Shown(answer[c].origin, x.rows[r][c])
  <2>1. c \in DOMAIN x.columns
    BY ExecutionFacts
  <2>2. Fits(classes[c], answer[c].origin)
    BY <2>1, ClassesFit
  <2> HIDE DEF classes, shown, answer
  <2> QED
    BY <1>2, <2>2, FitsShows
<1> HIDE DEF shown
<1>4. MaskedRows(stmt, x.rows, shown)
  BY <1>1, <1>2, <1>3 DEF MaskedRows
<1> QED
  BY <1>4 DEF shown

(* What process() makes of a query it was allowed to run. *)
LEMMA QueryOutcome ==
  ASSUME NEW stmt, IsQuery(stmt), stmt.type = "kStmtSelect",
         NEW a, a = Analyzed(translate_statement(stmt)), NEW x, IsExecution(x, stmt), NEW t
  PROVE  LET outcome == ProcessExecuted(t, a, x)
         IN  /\ succeeded(outcome.result) <=> Attributable(a, x.columns)
             /\ succeeded(outcome.result) =>
                  /\ outcome.result = Rows(NamesOf(x.columns), outcome.result.rows)
                  /\ MaskedRows(stmt, x.rows, outcome.result.rows)
             /\ outcome.record.outcome \in {"Success", "MaskingRefused"}
             /\ outcome.record.referenced_tables = classify_tables(a.tables)
<1>1. a.statement_type = "Select"
  BY SelectFacts
<1>2. /\ x.status = "Ok" /\ x.row_count \in Nat
      /\ \A r \in DOMAIN x.rows : Len(x.rows[r]) = Len(x.columns)
  BY ExecutionFacts
<1>3. PICK C : x.columns \in Seq(C)
  BY ExecutionFacts
<1> DEFINE outcome == ProcessExecuted(t, a, x)
           rows == RowsByClass(x.rows, classify(a, x.columns).columns)
<1>4. IsOutcomeOfRead(outcome, a, x)
  BY <1>1, <1>2, <1>3, ReadOutcome
<1> HIDE DEF outcome
<1>5. ASSUME Attributable(a, x.columns)
      PROVE  /\ outcome.result = Rows(NamesOf(x.columns), outcome.result.rows)
             /\ MaskedRows(stmt, x.rows, outcome.result.rows)
  <2>1. outcome.result = Rows(NamesOf(x.columns), rows)
    BY <1>4, <1>5 DEF IsOutcomeOfRead
  <2>2. MaskedRows(stmt, x.rows, rows)
    BY <1>5, MaskedByOrigin
  <2> HIDE DEF rows
  <2>3. outcome.result.rows = rows
    BY <2>1 DEF Rows
  <2> QED
    BY <2>1, <2>2, <2>3
<1> QED
  BY <1>4, <1>5 DEF IsOutcomeOfRead, outcome

----------------------------------------------------------------------------
(* What process() makes of a statement that is denied. *)
LEMMA DeniedOutcome ==
  ASSUME NEW t, NEW a, NEW d, d.reason \in RejectReasons
  PROVE  LET outcome == ProcessDenied(t, a, d)
         IN  /\ ~succeeded(outcome.result)
             /\ outcome.record.outcome \in {"ParsingFailure", "PolicyRejected"}
             /\ outcome.record.referenced_tables =
                  classify_tables(IF d.reason = "UnparseableSql" THEN <<>> ELSE a.tables)
<1> DEFINE outcome == ProcessDenied(t, a, d)
<1>1. /\ parsing_failure(t) # Throws
      /\ parsing_failure(t).outcome = "ParsingFailure"
      /\ parsing_failure(t).referenced_tables = classify_tables(<<>>)
  BY DEF parsing_failure, Record, Throws
<1>2. \A reason : ~succeeded(Failure(reason))
  BY DEF succeeded, Failure
<1>3. CASE d.reason = "UnparseableSql"
  <2>1. outcome = [result |-> Failure("UnparseableSql"), record |-> parsing_failure(t)]
    BY <1>1, <1>3 DEF ProcessDenied, Processing
  <2> HIDE DEF outcome
  <2>2. outcome.result = Failure("UnparseableSql") /\ outcome.record = parsing_failure(t)
    BY <2>1
  <2> QED
    BY <1>1, <1>2, <1>3, <2>2 DEF outcome
<1>4. CASE d.reason # "UnparseableSql"
  <2> DEFINE details == PolicyRejectedDetails(d.reason, a.statement_type, a.statement_count)
             record == Record(t, "PolicyRejected", details, a.tables)
             failure == Failure(client_failure_for(d.reason))
  <2>1. policy_rejected(t, details, a.tables) = record
    BY <1>4 DEF policy_rejected, Requiring, PolicyRejectedDetails, RejectReasons
  <2>2. /\ record # Throws /\ record.outcome = "PolicyRejected"
        /\ record.referenced_tables = classify_tables(a.tables)
    BY DEF Record, Throws
  <2>3. outcome = Processing(t, failure, policy_rejected(t, details, a.tables))
    BY <1>4 DEF ProcessDenied
  <2> HIDE DEF record, details, failure
  <2>4. outcome = [result |-> failure, record |-> record]
    BY <2>1, <2>2, <2>3 DEF Processing
  <2> HIDE DEF outcome
  <2>5. outcome.result = failure /\ outcome.record = record
    BY <2>4
  <2>6. ~succeeded(failure)
    BY <1>2 DEF failure
  <2> QED
    BY <1>4, <2>2, <2>5, <2>6 DEF outcome
<1> QED
  BY <1>3, <1>4
==============================================================================

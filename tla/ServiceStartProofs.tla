------------------------- MODULE ServiceStartProofs -------------------------
(***************************************************************************)
(* The start of the process, for every range of the numbers and every      *)
(* environment: what a variable says is what the service runs with, what   *)
(* is refused cannot be used, and the logger is there when it is needed.   *)
(***************************************************************************)
EXTENDS ServiceStart, SequenceTheorems, WellFoundedInduction, TLAPS

----------------------------------------------------------------------------
(* Numbers and their numerals. *)

(* Induction over numbers: a set that has each number all of whose          *)
(* predecessors it has.                                                     *)
LEMMA StrongInduction ==
  ASSUME NEW S, \A n \in Nat : (\A m \in 0 .. n - 1 : m \in S) => n \in S
  PROVE  Nat \subseteq S
<1> SUFFICES ASSUME Nat \ S # {} PROVE FALSE
  OBVIOUS
<1>1. IsWellFoundedOn(OpToRel(<, Nat), Nat)
  BY NatLessThanWellFounded, Zenon
<1>2. PICK n \in Nat \ S : \A m \in Nat \ S : ~(<<m, n>> \in OpToRel(<, Nat))
  <2>1. Nat \ S \subseteq Nat
    OBVIOUS
  <2> QED
    BY <1>1, <2>1, WFMin, Zenon
<1>3. \A m \in Nat \ S : m \in Nat /\ n \in Nat /\ ~(m < n)
  BY <1>2 DEF OpToRel
<1>4. \A m \in 0 .. n - 1 : m \in S
  BY <1>3
<1> QED
  BY <1>2, <1>4

LEMMA Divide ==
  ASSUME NEW n \in Nat
  PROVE  /\ n \div 10 \in Nat /\ n % 10 \in 0 .. 9
         /\ n = (n \div 10) * 10 + (n % 10)
         /\ n >= 10 => n \div 10 \in 1 .. n - 1
  OBVIOUS

LEMMA Multiply ==
  ASSUME NEW n \in Nat, NEW d \in 0 .. 9
  PROVE  (n * 10 + d) \div 10 = n /\ (n * 10 + d) % 10 = d /\ n * 10 + d \in Nat
  OBVIOUS

Digit == {DigitChars[d] : d \in 1 .. 10}

(* A digit is the character of its value. *)
LEMMA DigitsAreTheirValues ==
  /\ \A c \in Digit : DigitValue(c) \in 0 .. 9 /\ DigitChars[DigitValue(c) + 1] = c
  /\ \A d \in 0 .. 9 : DigitChars[d + 1] \in Digit /\ DigitValue(DigitChars[d + 1]) = d
<1>1. ASSUME NEW c \in Digit
      PROVE  DigitValue(c) \in 0 .. 9 /\ DigitChars[DigitValue(c) + 1] = c
  <2>1. \E d \in 1 .. 10 : DigitChars[d] = c
    BY DEF Digit
  <2> DEFINE e == CHOOSE d \in 1 .. 10 : DigitChars[d] = c
  <2>2. e \in 1 .. 10 /\ DigitChars[e] = c
    BY <2>1, Zenon
  <2>3. DigitValue(c) = e - 1
    BY Zenon DEF DigitValue
  <2> HIDE DEF e
  <2>4. e - 1 \in 0 .. 9 /\ (e - 1) + 1 = e
    BY <2>2
  <2> QED
    BY <2>2, <2>3, <2>4
<1>2. \A d, e \in 1 .. 10 : DigitChars[d] = DigitChars[e] => d = e
  BY DEF DigitChars
<1>3. ASSUME NEW d \in 0 .. 9
      PROVE  DigitChars[d + 1] \in Digit /\ DigitValue(DigitChars[d + 1]) = d
  <2>1. d + 1 \in 1 .. 10
    OBVIOUS
  <2>2. DigitChars[d + 1] \in Digit
    BY <2>1 DEF Digit
  <2>3. /\ DigitValue(DigitChars[d + 1]) \in 0 .. 9
        /\ DigitChars[DigitValue(DigitChars[d + 1]) + 1] = DigitChars[d + 1]
    BY <1>1, <2>2
  <2>4. DigitValue(DigitChars[d + 1]) = d
    BY <1>2, <2>1, <2>3
  <2> QED
    BY <2>2, <2>4
<1> QED
  BY <1>1, <1>3

(* The zero is a digit and the sign is none. *)
LEMMA ZeroAndSign ==
  "0" \in Digit /\ DigitValue("0") = 0 /\ DigitChars[1] = "0" /\ "-" \notin Digit
<1>1. DigitChars[1] = "0"
  BY DEF DigitChars
<1>2. DigitChars[0 + 1] \in Digit /\ DigitValue(DigitChars[0 + 1]) = 0
  BY DigitsAreTheirValues
<1>3. \A d \in 1 .. 10 : DigitChars[d] # "-"
  BY DEF DigitChars
<1> QED
  BY <1>1, <1>2, <1>3 DEF Digit

(* ValueOf is defined by recursion on the length. *)
LEMMA ValueSteps ==
  ASSUME NEW s, Len(s) \in Nat
  PROVE  \E f : /\ f[0] = 0
                /\ \A i \in 1 .. Len(s) : f[i] = f[i - 1] * 10 + DigitValue(s[i])
                /\ ValueOf(s) = f[Len(s)]
<1> DEFINE step(f, i) == IF i = 0 THEN 0 ELSE f[i - 1] * 10 + DigitValue(s[i])
           upto(f, k) == f = [i \in 0 .. k |-> step(f, i)]
           S == {k \in Nat : \E f : upto(f, k)}
<1>1. ASSUME NEW n \in Nat, \A m \in 0 .. n - 1 : m \in S
      PROVE  n \in S
  <2>1. CASE n = 0
    <3> DEFINE g == [i \in 0 .. 0 |-> 0]
    <3>1. \A i \in 0 .. 0 : step(g, i) = 0
      OBVIOUS
    <3>2. upto(g, 0)
      BY <3>1
    <3> QED
      BY <2>1, <3>2
  <2>2. CASE n # 0
    <3>1. n - 1 \in 0 .. n - 1 /\ n - 1 \in Nat
      BY <2>2
    <3>2. PICK f : upto(f, n - 1)
      BY <1>1, <3>1
    <3> DEFINE g == [i \in 0 .. n |-> IF i = n THEN step(f, i) ELSE f[i]]
    <3>3. \A i \in 0 .. n - 1 : f[i] = step(f, i)
      BY <3>2
    <3>4. \A i \in 0 .. n : i # 0 => i - 1 \in 0 .. n - 1
      OBVIOUS
    <3>5. \A i \in 0 .. n - 1 : g[i] = f[i]
      OBVIOUS
    <3>6. \A i \in 0 .. n : step(g, i) = step(f, i)
      BY <3>4, <3>5
    <3>7. \A i \in 0 .. n : g[i] = step(f, i)
      BY <3>3
    <3>8. g = [i \in 0 .. n |-> step(g, i)]
      BY <3>6, <3>7
    <3> HIDE DEF g, step
    <3> QED
      BY <3>8
  <2> QED
    BY <2>1, <2>2
<1>2. Nat \subseteq S
  <2> HIDE DEF S
  <2> QED
    BY <1>1, StrongInduction
<1>3. \E f : upto(f, Len(s))
  BY <1>2
<1>4. ValueOf(s) = (CHOOSE f : upto(f, Len(s)))[Len(s)]
  BY Zenon DEF ValueOf
<1>5. upto(CHOOSE f : upto(f, Len(s)), Len(s))
  BY <1>3, Zenon
<1>6. PICK f : upto(f, Len(s)) /\ ValueOf(s) = f[Len(s)]
  BY <1>4, <1>5, Zenon
<1>7. \A i \in 0 .. Len(s) : f[i] = step(f, i)
  BY <1>6
<1>8. f[0] = 0
  BY <1>7
<1>9. \A i \in 1 .. Len(s) : f[i] = f[i - 1] * 10 + DigitValue(s[i])
  BY <1>7
<1> QED
  BY <1>6, <1>8, <1>9

(* Nothing is 0 ... *)
LEMMA ValueOfNothing ==
  ValueOf(<<>>) = 0
<1>1. Len(<<>>) = 0
  OBVIOUS
<1> QED
  BY <1>1, ValueSteps

(* ... and one more digit moves the others up a place. *)
LEMMA ValueOfOneMore ==
  ASSUME NEW s \in Seq(Digit), NEW c \in Digit
  PROVE  ValueOf(Append(s, c)) = ValueOf(s) * 10 + DigitValue(c)
<1> DEFINE t == Append(s, c)
<1>1. /\ Len(s) \in Nat /\ Len(t) = Len(s) + 1 /\ t[Len(s) + 1] = c
      /\ \A i \in 1 .. Len(s) : t[i] = s[i]
  OBVIOUS
<1> HIDE DEF t
<1>2. PICK f : /\ f[0] = 0
               /\ \A i \in 1 .. Len(s) : f[i] = f[i - 1] * 10 + DigitValue(s[i])
               /\ ValueOf(s) = f[Len(s)]
  BY <1>1, ValueSteps
<1>3. PICK g : /\ g[0] = 0
               /\ \A i \in 1 .. Len(s) + 1 : g[i] = g[i - 1] * 10 + DigitValue(t[i])
               /\ ValueOf(t) = g[Len(s) + 1]
  <2>1. Len(t) \in Nat
    BY <1>1
  <2> QED
    BY <1>1, <2>1, ValueSteps
<1> DEFINE S == {i \in Nat : i <= Len(s) => f[i] = g[i]}
<1>4. ASSUME NEW i \in Nat, \A j \in 0 .. i - 1 : j \in S
      PROVE  i \in S
  <2>1. CASE i = 0
    BY <1>2, <1>3, <2>1
  <2>2. CASE i # 0 /\ i <= Len(s)
    <3>1. i - 1 \in 0 .. i - 1 /\ i - 1 <= Len(s) /\ i \in 1 .. Len(s) /\ i \in 1 .. Len(s) + 1
      BY <1>1, <2>2
    <3>2. f[i - 1] = g[i - 1]
      BY <1>4, <3>1
    <3>3. f[i] = g[i]
      BY <1>1, <1>2, <1>3, <3>1, <3>2
    <3> QED
      BY <3>3
  <2> QED
    BY <2>1, <2>2
<1>5. Nat \subseteq S
  <2> HIDE DEF S
  <2> QED
    BY <1>4, StrongInduction
<1>6. f[Len(s)] = g[Len(s)]
  BY <1>1, <1>5
<1>7. g[Len(s) + 1] = g[Len(s)] * 10 + DigitValue(c)
  <2>1. Len(s) + 1 \in 1 .. Len(s) + 1 /\ (Len(s) + 1) - 1 = Len(s)
    BY <1>1
  <2> QED
    BY <1>1, <1>3, <2>1
<1> QED
  BY <1>2, <1>3, <1>6, <1>7 DEF t

(* What digits write is a number. *)
LEMMA ValueIsNumber ==
  ASSUME NEW s \in Seq(Digit)
  PROVE  ValueOf(s) \in Nat
<1>1. Len(s) \in Nat /\ \A i \in 1 .. Len(s) : s[i] \in Digit
  OBVIOUS
<1>2. PICK f : /\ f[0] = 0
               /\ \A i \in 1 .. Len(s) : f[i] = f[i - 1] * 10 + DigitValue(s[i])
               /\ ValueOf(s) = f[Len(s)]
  BY <1>1, ValueSteps
<1> DEFINE S == {i \in Nat : i <= Len(s) => f[i] \in Nat}
<1>3. ASSUME NEW i \in Nat, \A j \in 0 .. i - 1 : j \in S
      PROVE  i \in S
  <2>1. CASE i = 0
    BY <1>2, <2>1
  <2>2. CASE i # 0 /\ i <= Len(s)
    <3>1. i - 1 \in 0 .. i - 1 /\ i - 1 <= Len(s) /\ i \in 1 .. Len(s)
      BY <1>1, <2>2
    <3>2. f[i - 1] \in Nat
      BY <1>3, <3>1
    <3>3. DigitValue(s[i]) \in 0 .. 9
      BY <1>1, <3>1, DigitsAreTheirValues
    <3>4. f[i] = f[i - 1] * 10 + DigitValue(s[i])
      BY <1>2, <3>1
    <3>5. f[i] \in Nat
      BY <3>2, <3>3, <3>4
    <3> QED
      BY <3>5
  <2> QED
    BY <2>1, <2>2
<1>4. Nat \subseteq S
  <2> HIDE DEF S
  <2> QED
    BY <1>3, StrongInduction
<1> QED
  BY <1>1, <1>2, <1>4

(* The character in the last place. *)
LastDigit(n) == DigitChars[(n % 10) + 1]

(* numeral is defined by recursion on what is left after a division. *)
LEMMA NumeralSteps ==
  \A n \in Nat : numeral[n] = IF n < 10 THEN <<LastDigit(n)>>
                              ELSE numeral[n \div 10] \o <<LastDigit(n)>>
<1> DEFINE step(f, n) == IF n < 10 THEN <<LastDigit(n)>> ELSE f[n \div 10] \o <<LastDigit(n)>>
           upto(f, k) == f = [i \in 0 .. k |-> step(f, i)]
           S == {k \in Nat : \E f : upto(f, k)}
<1>1. ASSUME NEW n \in Nat, \A m \in 0 .. n - 1 : m \in S
      PROVE  n \in S
  <2>1. PICK f : \A i \in 0 .. n - 1 : f[i] = step(f, i)
    <3>1. CASE n = 0
      BY <3>1
    <3>2. CASE n # 0
      <4>1. n - 1 \in 0 .. n - 1 /\ n - 1 \in Nat
        BY <3>2
      <4>2. PICK f : upto(f, n - 1)
        BY <1>1, <4>1
      <4> QED
        BY <4>2
    <3> QED
      BY <3>1, <3>2
  <2> DEFINE g == [i \in 0 .. n |-> IF i = n THEN step(f, i) ELSE f[i]]
  <2>2. \A i \in 0 .. n - 1 : g[i] = f[i]
    OBVIOUS
  <2>3. ASSUME NEW i \in 0 .. n
        PROVE  step(g, i) = step(f, i)
    <3>1. CASE i < 10
      BY <3>1
    <3>2. CASE ~(i < 10)
      <4>1. i \in Nat /\ i >= 10
        BY <3>2
      <4>2. i \div 10 \in 1 .. i - 1
        BY <4>1, Divide
      <4>3. i \div 10 \in 0 .. n - 1
        BY <4>2
      <4>4. g[i \div 10] = f[i \div 10]
        BY <2>2, <4>3
      <4> HIDE DEF g
      <4> QED
        BY <3>2, <4>4
    <3> QED
      BY <3>1, <3>2
  <2>4. \A i \in 0 .. n : g[i] = step(f, i)
    BY <2>1
  <2>5. g = [i \in 0 .. n |-> step(g, i)]
    BY <2>3, <2>4
  <2> HIDE DEF g, step
  <2> QED
    BY <2>5
<1>2. Nat \subseteq S
  <2> HIDE DEF S
  <2> QED
    BY <1>1, StrongInduction
<1>3. ASSUME NEW k \in Nat, NEW f, upto(f, k), NEW m \in Nat, NEW g, upto(g, m),
             NEW i \in Nat, i <= k, i <= m
      PROVE  f[i] = g[i]
  <2> DEFINE T == {j \in Nat : j <= i => f[j] = g[j]}
  <2>1. (\A j \in 0 .. k : f[j] = step(f, j)) /\ (\A j \in 0 .. m : g[j] = step(g, j))
    BY <1>3
  <2>2. ASSUME NEW j \in Nat, \A l \in 0 .. j - 1 : l \in T
        PROVE  j \in T
    <3> SUFFICES ASSUME j <= i PROVE f[j] = g[j]
      OBVIOUS
    <3>1. f[j] = step(f, j) /\ g[j] = step(g, j)
      <4>1. j \in 0 .. k /\ j \in 0 .. m
        BY <1>3
      <4> HIDE DEF step
      <4> QED
        BY <2>1, <4>1
    <3>2. CASE j < 10
      BY <3>1, <3>2
    <3>3. CASE ~(j < 10)
      <4>1. j \div 10 \in 1 .. j - 1
        BY <3>3, Divide
      <4>2. j \div 10 \in 0 .. j - 1 /\ j \div 10 <= i
        BY <4>1
      <4>3. f[j \div 10] = g[j \div 10]
        BY <2>2, <4>2
      <4> QED
        BY <3>1, <3>3, <4>3
    <3> QED
      BY <3>2, <3>3
  <2>3. Nat \subseteq T
    <3> HIDE DEF T
    <3> QED
      BY <2>2, StrongInduction
  <2> QED
    BY <2>3
<1> DEFINE part(n) == CHOOSE f : upto(f, n)
           whole == [n \in Nat |-> part(n)[n]]
<1>4. \A n \in Nat : upto(part(n), n)
  <2>1. \A n \in Nat : \E f : upto(f, n)
    BY <1>2
  <2> HIDE DEF upto
  <2> QED
    BY <2>1, Zenon
<1>5. ASSUME NEW n \in Nat
      PROVE  whole[n] = step(whole, n)
  <2> HIDE DEF part
  <2>1. upto(part(n), n)
    BY <1>4
  <2>2. whole[n] = part(n)[n]
    OBVIOUS
  <2>3. part(n)[n] = step(part(n), n)
    <3> HIDE DEF step
    <3> QED
      BY <2>1
  <2>4. CASE n < 10
    BY <2>2, <2>3, <2>4
  <2>5. CASE ~(n < 10)
    <3> DEFINE q == n \div 10
    <3>1. q \in Nat /\ q <= n
      BY <2>5, Divide
    <3> HIDE DEF q
    <3>2. upto(part(q), q)
      BY <1>4, <3>1
    <3>3. part(q)[q] = part(n)[q]
      <4> HIDE DEF upto
      <4> QED
        BY <1>3, <2>1, <3>1, <3>2
    <3>4. whole[q] = part(q)[q]
      BY <3>1
    <3> QED
      BY <2>2, <2>3, <2>5, <3>3, <3>4 DEF q
  <2> QED
    BY <2>4, <2>5
<1>6. whole = [n \in Nat |-> step(whole, n)]
  <2>1. whole = [n \in Nat |-> whole[n]]
    OBVIOUS
  <2> HIDE DEF whole, step
  <2> QED
    BY <1>5, <2>1
<1>7. numeral = CHOOSE f : f = [n \in Nat |-> step(f, n)]
  BY Zenon DEF numeral, LastDigit
<1>8. numeral = [n \in Nat |-> step(numeral, n)]
  <2> HIDE DEF whole, step
  <2>1. \E f : f = [n \in Nat |-> step(f, n)]
    BY <1>6
  <2> QED
    BY <1>7, <2>1, Zenon
<1>9. \A n \in Nat : numeral[n] = step(numeral, n)
  <2> HIDE DEF step
  <2> QED
    BY <1>8
<1> QED
  BY <1>9

(* A numeral is one digit or more. *)
LEMMA NumeralType ==
  \A n \in Nat : numeral[n] \in Seq(Digit) /\ numeral[n] # <<>>
<1> DEFINE S == {n \in Nat : numeral[n] \in Seq(Digit) /\ numeral[n] # <<>>}
<1>1. ASSUME NEW n \in Nat, \A m \in 0 .. n - 1 : m \in S
      PROVE  n \in S
  <2>1. LastDigit(n) \in Digit
    BY Divide, DigitsAreTheirValues DEF LastDigit
  <2>2. <<LastDigit(n)>> \in Seq(Digit) /\ <<LastDigit(n)>> # <<>>
    BY <2>1
  <2>3. CASE n < 10
    BY <2>2, <2>3, NumeralSteps
  <2>4. CASE ~(n < 10)
    <3>1. n \div 10 \in 0 .. n - 1
      <4>1. n \div 10 \in 1 .. n - 1
        BY <2>4, Divide
      <4> QED
        BY <4>1
    <3> DEFINE r == numeral[n \div 10]
    <3>2. r \in Seq(Digit)
      BY <1>1, <3>1
    <3>3. numeral[n] = r \o <<LastDigit(n)>>
      BY <2>4, NumeralSteps
    <3> HIDE DEF r
    <3>4. r \o <<LastDigit(n)>> \in Seq(Digit) /\ r \o <<LastDigit(n)>> # <<>>
      BY <2>2, <3>2, ConcatProperties, ConcatEqualIffEmpty
    <3> QED
      BY <3>3, <3>4
  <2> QED
    BY <2>3, <2>4
<1>2. Nat \subseteq S
  <2> HIDE DEF S
  <2> QED
    BY <1>1, StrongInduction
<1> QED
  BY <1>2

(* Zeros are digits, and one more zero is one more. *)
LEMMA ZerosType ==
  ASSUME NEW k \in Nat
  PROVE  /\ Zeros(k) \in Seq(Digit) /\ Len(Zeros(k)) = k
         /\ Zeros(k) \o <<"0">> = Zeros(k + 1)
<1>1. ASSUME NEW i \in Nat
      PROVE  Zeros(i) \in Seq(Digit) /\ Len(Zeros(i)) = i
  BY ZeroAndSign DEF Zeros
<1>2. <<"0">> \in Seq(Digit) /\ Len(<<"0">>) = 1 /\ <<"0">>[1] = "0"
  BY ZeroAndSign
<1>3. Zeros(k) \o <<"0">> = Zeros(k + 1)
  <2> DEFINE s == Zeros(k) \o <<"0">>
             t == Zeros(k + 1)
  <2>1. t \in Seq(Digit) /\ Len(t) = k + 1 /\ \A i \in 1 .. k + 1 : t[i] = "0"
    <3>1. \A i \in 1 .. k + 1 : t[i] = "0"
      BY DEF Zeros
    <3> QED
      BY <1>1, <3>1
  <2>2. /\ s \in Seq(Digit) /\ Len(s) = k + 1
        /\ \A i \in 1 .. k + 1 : s[i] = IF i <= k THEN Zeros(k)[i] ELSE <<"0">>[i - k]
    BY <1>1, <1>2, ConcatProperties
  <2>3. \A i \in 1 .. k + 1 : s[i] = "0"
    <3>1. \A i \in 1 .. k : Zeros(k)[i] = "0"
      BY DEF Zeros
    <3>2. \A i \in 1 .. k + 1 : ~(i <= k) => i - k = 1
      OBVIOUS
    <3> HIDE DEF s
    <3> QED
      BY <1>2, <2>2, <3>1, <3>2
  <2> HIDE DEF s, t
  <2>4. s = t
    BY <2>1, <2>2, <2>3, SeqEqual
  <2> QED
    BY <2>4 DEF s, t
<1> QED
  BY <1>1, <1>3

(* How many zeros there may be is no restriction. *)
LEMMA DenotesIsZerosAndNumeral ==
  ASSUME NEW n \in Nat, NEW s
  PROVE  Denotes(s, n) <=> \E k \in Nat : s = Zeros(k) \o numeral[n]
<1>1. ASSUME NEW k \in Nat, s = Zeros(k) \o numeral[n]
      PROVE  k \in 0 .. Len(s)
  <2>1. Len(numeral[n]) \in Nat /\ numeral[n] \in Seq(Digit)
    BY NumeralType
  <2>2. Len(s) = k + Len(numeral[n])
    <3>1. Zeros(k) \in Seq(Digit) /\ Len(Zeros(k)) = k
      BY ZerosType
    <3>2. Len(Zeros(k) \o numeral[n]) = Len(Zeros(k)) + Len(numeral[n])
      BY <2>1, <3>1, ConcatProperties, Zenon
    <3> QED
      BY <1>1, <3>1, <3>2, Zenon
  <2> QED
    BY <2>1, <2>2
<1>2. ASSUME NEW k \in 0 .. Len(s)
      PROVE  k \in Nat
  OBVIOUS
<1> QED
  BY <1>1, <1>2 DEF Denotes

(* One digit denotes its value ... *)
LEMMA DenotesOne ==
  ASSUME NEW c \in Digit
  PROVE  Denotes(<<c>>, DigitValue(c))
<1>1. DigitValue(c) \in 0 .. 9 /\ DigitChars[DigitValue(c) + 1] = c
  BY DigitsAreTheirValues
<1>2. DigitValue(c) % 10 = DigitValue(c)
  BY <1>1
<1>3. numeral[DigitValue(c)] = <<c>>
  <2>1. DigitValue(c) \in Nat /\ DigitValue(c) < 10
    BY <1>1
  <2>2. LastDigit(DigitValue(c)) = c
    BY <1>1, <1>2 DEF LastDigit
  <2> QED
    BY <2>1, <2>2, NumeralSteps, Zenon
<1>4. Zeros(0) = <<>>
  BY DEF Zeros
<1>5. <<c>> = Zeros(0) \o numeral[DigitValue(c)]
  <2>1. <<c>> \in Seq(Digit)
    OBVIOUS
  <2> QED
    BY <1>3, <1>4, <2>1, ConcatEmptySeq
<1>6. DigitValue(c) \in Nat /\ 0 \in Nat
  BY <1>1
<1> QED
  BY <1>5, <1>6, DenotesIsZerosAndNumeral, Zenon

(* ... and one more digit denotes ten times the number and the digit. *)
LEMMA DenotesOneMore ==
  ASSUME NEW n \in Nat, NEW s, Denotes(s, n), NEW c \in Digit
  PROVE  Denotes(Append(s, c), n * 10 + DigitValue(c))
<1> DEFINE d == DigitValue(c)
           m == n * 10 + d
<1>1. d \in 0 .. 9 /\ DigitChars[d + 1] = c
  BY DigitsAreTheirValues
<1> HIDE DEF d
<1>2. m \in Nat /\ m \div 10 = n /\ m % 10 = d
  BY <1>1, Multiply
<1>3. LastDigit(m) = c
  BY <1>1, <1>2 DEF LastDigit
<1>4. PICK k \in Nat : s = Zeros(k) \o numeral[n]
  BY DenotesIsZerosAndNumeral
<1>5. Zeros(k) \in Seq(Digit) /\ numeral[n] \in Seq(Digit) /\ <<c>> \in Seq(Digit)
  <2>1. Zeros(k) \in Seq(Digit)
    BY ZerosType
  <2>2. numeral[n] \in Seq(Digit)
    BY NumeralType
  <2>3. <<c>> \in Seq(Digit)
    OBVIOUS
  <2> QED
    BY <2>1, <2>2, <2>3
<1>6. Append(s, c) = s \o <<c>>
  <2>1. s \in Seq(Digit)
    BY <1>4, <1>5, ConcatProperties
  <2> QED
    BY <2>1, AppendIsConcat
<1>7. CASE n = 0
  <2>1. m = d /\ m < 10
    BY <1>1, <1>7
  <2>2. numeral[m] = <<c>>
    BY <1>2, <1>3, <2>1, NumeralSteps
  <2>3. numeral[n] = <<"0">>
    <3>1. 0 % 10 = 0 /\ DigitChars[0 + 1] = "0"
      BY ZeroAndSign
    <3>2. LastDigit(0) = "0"
      BY <3>1 DEF LastDigit
    <3>3. 0 \in Nat /\ 0 < 10
      OBVIOUS
    <3> QED
      BY <1>7, <3>2, <3>3, NumeralSteps, Zenon
  <2>4. s = Zeros(k + 1)
    BY <1>4, <2>3, ZerosType
  <2>5. Append(s, c) = Zeros(k + 1) \o numeral[m]
    BY <1>6, <2>2, <2>4
  <2> HIDE DEF m
  <2>6. Denotes(Append(s, c), m)
    <3>1. k + 1 \in Nat
      OBVIOUS
    <3> QED
      BY <1>2, <2>5, <3>1, DenotesIsZerosAndNumeral, Zenon
  <2> QED
    BY <2>6 DEF m, d
<1>8. CASE n # 0
  <2>1. ~(m < 10)
    BY <1>1, <1>8
  <2>2. numeral[m] = numeral[n] \o <<c>>
    <3> HIDE DEF m
    <3> QED
      BY <1>2, <1>3, <2>1, NumeralSteps
  <2>3. Append(s, c) = Zeros(k) \o numeral[m]
    <3>1. (Zeros(k) \o numeral[n]) \o <<c>> = Zeros(k) \o (numeral[n] \o <<c>>)
      <4> DEFINE z == Zeros(k)
                 v == numeral[n]
                 w == <<c>>
      <4>1. z \in Seq(Digit) /\ v \in Seq(Digit) /\ w \in Seq(Digit)
        BY <1>5
      <4> HIDE DEF z, v, w
      <4>2. (z \o v) \o w = z \o (v \o w)
        BY <4>1, ConcatAssociative
      <4> QED
        BY <4>2 DEF z, v, w
    <3> QED
      BY <1>4, <1>6, <2>2, <3>1, Zenon
  <2> HIDE DEF m
  <2>4. Denotes(Append(s, c), m)
    BY <1>2, <2>3, DenotesIsZerosAndNumeral
  <2> QED
    BY <2>4 DEF m, d
<1> QED
  BY <1>7, <1>8

(* Digits denote the number that from_chars makes of them. *)
LEMMA DigitsDenoteTheirValue ==
  ASSUME NEW s \in Seq(Digit), s # <<>>
  PROVE  Denotes(s, ValueOf(s))
<1> DEFINE S == {l \in Nat : \A q \in Seq(Digit) :
                               Len(q) = l /\ q # <<>> => Denotes(q, ValueOf(q))}
<1>1. ASSUME NEW l \in Nat, \A i \in 0 .. l - 1 : i \in S
      PROVE  l \in S
  <2> SUFFICES ASSUME NEW q \in Seq(Digit), Len(q) = l, q # <<>>
               PROVE  Denotes(q, ValueOf(q))
    OBVIOUS
  <2>1. PICK r \in Seq(Digit), c \in Digit : q = Append(r, c)
    BY SequenceEmptyOrAppend
  <2>2. ValueOf(q) = ValueOf(r) * 10 + DigitValue(c)
    BY <2>1, ValueOfOneMore
  <2>3. CASE r = <<>>
    <3>1. q = <<c>>
      BY <2>1, <2>3
    <3>2. ValueOf(q) = DigitValue(c)
      <4>1. DigitValue(c) \in 0 .. 9
        BY DigitsAreTheirValues
      <4> QED
        BY <2>2, <2>3, <4>1, ValueOfNothing
    <3> QED
      BY <3>1, <3>2, DenotesOne
  <2>4. CASE r # <<>>
    <3>1. Len(r) \in 0 .. l - 1
      BY <2>1
    <3>2. Denotes(r, ValueOf(r))
      BY <1>1, <2>4, <3>1
    <3> QED
      BY <2>1, <2>2, <3>2, ValueIsNumber, DenotesOneMore
  <2> QED
    BY <2>3, <2>4
<1>2. Nat \subseteq S
  <2> HIDE DEF S
  <2> QED
    BY <1>1, StrongInduction
<1>3. Len(s) \in S
  <2> HIDE DEF S
  <2> QED
    BY <1>2, LenProperties
<1> QED
  BY <1>3

(* The other way: what denotes a number is digits, and from_chars makes that *)
(* number of them.                                                           *)
LEMMA ZerosAreNothing ==
  ASSUME NEW k \in Nat
  PROVE  ValueOf(Zeros(k)) = 0
<1> DEFINE S == {i \in Nat : ValueOf(Zeros(i)) = 0}
<1>1. ASSUME NEW i \in Nat, \A j \in 0 .. i - 1 : j \in S
      PROVE  i \in S
  <2>1. CASE i = 0
    <3>1. Zeros(0) = <<>>
      BY DEF Zeros
    <3> QED
      BY <2>1, <3>1, ValueOfNothing
  <2>2. CASE i # 0
    <3>1. i - 1 \in Nat /\ i - 1 \in 0 .. i - 1 /\ (i - 1) + 1 = i
      BY <2>2
    <3>2. Zeros(i - 1) \in Seq(Digit) /\ Zeros(i - 1) \o <<"0">> = Zeros((i - 1) + 1)
      BY <3>1, ZerosType, Zenon
    <3>3. "0" \in Digit /\ DigitValue("0") = 0
      BY ZeroAndSign
    <3>4. Zeros(i) = Append(Zeros(i - 1), "0")
      <4>1. Append(Zeros(i - 1), "0") = Zeros(i - 1) \o <<"0">>
        BY <3>2, <3>3, AppendIsConcat, Zenon
      <4> QED
        BY <3>1, <3>2, <4>1
    <3>5. ValueOf(Zeros(i)) = ValueOf(Zeros(i - 1)) * 10 + DigitValue("0")
      BY <3>2, <3>3, <3>4, ValueOfOneMore
    <3>6. ValueOf(Zeros(i - 1)) = 0
      BY <1>1, <3>1
    <3> QED
      BY <3>3, <3>5, <3>6
  <2> QED
    BY <2>1, <2>2
<1>2. Nat \subseteq S
  <2> HIDE DEF S
  <2> QED
    BY <1>1, StrongInduction
<1> QED
  BY <1>2

LEMMA DenotedIsTheValue ==
  ASSUME NEW n \in Nat, NEW s, Denotes(s, n)
  PROVE  s \in Seq(Digit) /\ s # <<>> /\ ValueOf(s) = n
<1>1. PICK k \in Nat : s = Zeros(k) \o numeral[n]
  BY DenotesIsZerosAndNumeral
<1>2. Zeros(k) \in Seq(Digit)
  BY ZerosType
<1>3. s \in Seq(Digit) /\ s # <<>>
  <2> DEFINE z == Zeros(k)
             v == numeral[n]
  <2>1. v \in Seq(Digit) /\ v # <<>> /\ z \in Seq(Digit)
    BY <1>2, NumeralType
  <2>2. s = z \o v
    BY <1>1
  <2> HIDE DEF z, v
  <2> QED
    BY <2>1, <2>2, ConcatProperties, ConcatEqualIffEmpty
<1> DEFINE S == {m \in Nat : ValueOf(Zeros(k) \o numeral[m]) = m}
<1>4. ASSUME NEW m \in Nat, \A l \in 0 .. m - 1 : l \in S
      PROVE  m \in S
  <2> DEFINE c == LastDigit(m)
  <2>1. c \in Digit /\ DigitValue(c) = m % 10
    BY Divide, DigitsAreTheirValues DEF LastDigit
  <2>2. CASE m < 10
    <3>1. numeral[m] = <<c>>
      BY <2>2, NumeralSteps
    <3> HIDE DEF c
    <3>2. Zeros(k) \o numeral[m] = Append(Zeros(k), c)
      BY <1>2, <2>1, <3>1, AppendIsConcat, Zenon
    <3>3. ValueOf(Append(Zeros(k), c)) = ValueOf(Zeros(k)) * 10 + DigitValue(c)
      BY <1>2, <2>1, ValueOfOneMore
    <3>4. ValueOf(Zeros(k)) = 0
      BY ZerosAreNothing
    <3>5. m % 10 = m
      BY <2>2
    <3>6. ValueOf(Zeros(k) \o numeral[m]) = m
      BY <2>1, <3>2, <3>3, <3>4, <3>5
    <3> QED
      BY <3>6
  <2>3. CASE ~(m < 10)
    <3> DEFINE q == m \div 10
               z == Zeros(k)
               v == numeral[q]
               w == <<c>>
    <3>1. q \in Nat /\ q \in 0 .. m - 1 /\ m = q * 10 + (m % 10)
      BY <2>3, Divide
    <3>2. numeral[m] = v \o w
      BY <2>3, NumeralSteps
    <3>3. z \in Seq(Digit) /\ v \in Seq(Digit)
      BY <1>2, <3>1, NumeralType
    <3>4. ValueOf(z \o v) = q
      BY <1>4, <3>1
    <3>5. w \in Seq(Digit)
      BY <2>1
    <3> HIDE DEF c, q, z, v, w
    <3>6. z \o v \in Seq(Digit) /\ (z \o v) \o w = z \o (v \o w)
      <4>1. z \o v \in Seq(Digit)
        BY <3>3, ConcatProperties
      <4>2. (z \o v) \o w = z \o (v \o w)
        BY <3>3, <3>5, ConcatAssociative
      <4> QED
        BY <4>1, <4>2
    <3>7. Append(z \o v, c) = (z \o v) \o w
      BY <2>1, <3>6, AppendIsConcat, Zenon DEF w
    <3>8. ValueOf(Append(z \o v, c)) = ValueOf(z \o v) * 10 + DigitValue(c)
      BY <2>1, <3>6, ValueOfOneMore, Zenon
    <3>9. ValueOf(z \o numeral[m]) = q * 10 + (m % 10)
      BY <2>1, <3>2, <3>4, <3>6, <3>7, <3>8, Zenon
    <3>10. ValueOf(Zeros(k) \o numeral[m]) = m
      BY <3>1, <3>9 DEF z
    <3> QED
      BY <3>10
  <2> QED
    BY <2>2, <2>3
<1>5. Nat \subseteq S
  <2> HIDE DEF S
  <2> QED
    BY <1>4, StrongInduction
<1> QED
  BY <1>1, <1>3, <1>5

----------------------------------------------------------------------------
(* What the functions of config.cpp make of a value. *)

LEMMA LargestNumber ==
  ASSUME NEW l \in Nat, NEW T \in SUBSET (0 .. l), T # {}
  PROVE  \E m \in T : \A i \in T : i <= m
<1> SUFFICES ASSUME \A m \in T : \E i \in T : ~(i <= m) PROVE FALSE
  OBVIOUS
<1> DEFINE S == {j \in Nat : l - j \notin T}
<1>1. ASSUME NEW j \in Nat, \A h \in 0 .. j - 1 : h \in S
      PROVE  j \in S
  <2> SUFFICES ASSUME l - j \in T PROVE FALSE
    OBVIOUS
  <2>1. PICK i \in T : ~(i <= l - j)
    OBVIOUS
  <2>2. l - i \in 0 .. j - 1 /\ l - (l - i) = i
    BY <2>1
  <2>3. l - i \in S
    BY <1>1, <2>2
  <2> QED
    BY <2>2, <2>3
<1>2. Nat \subseteq S
  <2> HIDE DEF S
  <2> QED
    BY <1>1, StrongInduction
<1>3. PICK i \in T : TRUE
  OBVIOUS
<1>4. l - i \in Nat /\ l - (l - i) = i
  BY <1>3
<1> QED
  BY <1>2, <1>3, <1>4

(* from_chars reads digits only, all of the value when its end is the end. *)
LEMMA MatchedDigits ==
  ASSUME NEW X, NEW raw \in Seq(X)
  PROVE  LET m == Matched(raw)
         IN  /\ m.digits \in Seq(Digit)
             /\ (m.end = Len(raw) /\ m.sign # 1) => m.digits = raw
             /\ (raw \in Seq(Digit) /\ raw # <<>>) =>
                   m.end = Len(raw) /\ m.sign = 0 /\ m.digits = raw
<1> DEFINE sign == IF raw # <<>> /\ raw[1] = "-" THEN 1 ELSE 0
           ends == {i \in sign .. Len(raw) : \A j \in sign + 1 .. i : IsDigit(raw[j])}
           end == CHOOSE i \in ends : \A j \in ends : j <= i
<1>1. Matched(raw) = [sign |-> sign, digits |-> SubSeq(raw, sign + 1, end), end |-> end]
  BY Zenon DEF Matched
<1>2. Len(raw) \in Nat /\ sign \in {0, 1} /\ sign <= Len(raw)
  <2>1. raw # <<>> => Len(raw) # 0
    OBVIOUS
  <2> QED
    BY <2>1
<1>3. end \in ends /\ \A j \in ends : j <= end
  <2>1. sign \in ends
    <3> HIDE DEF sign
    <3> QED
      BY <1>2
  <2>2. ends \in SUBSET (0 .. Len(raw))
    <3> HIDE DEF sign
    <3> QED
      BY <1>2
  <2> HIDE DEF ends
  <2>3. \E i \in ends : \A j \in ends : j <= i
    BY <1>2, <2>1, <2>2, LargestNumber
  <2> QED
    BY <2>3, Zenon
<1> HIDE DEF end
<1>4. end \in sign .. Len(raw) /\ \A j \in sign + 1 .. end : raw[j] \in Digit
  <2> HIDE DEF sign
  <2> QED
    BY <1>3 DEF IsDigit, Digit
<1>5. SubSeq(raw, sign + 1, end) \in Seq(Digit)
  <2> HIDE DEF sign
  <2>1. sign + 1 \in Int /\ end \in Int
    BY <1>2, <1>4
  <2> QED
    BY <1>4, <2>1, SubSeqProperties
<1>6. (end = Len(raw) /\ ~(sign = 1)) => SubSeq(raw, sign + 1, end) = raw
  <2>1. ASSUME end = Len(raw), sign # 1
        PROVE  SubSeq(raw, sign + 1, end) = raw
    <3>1. sign + 1 = 1
      BY <1>2, <2>1
    <3> HIDE DEF sign
    <3> QED
      BY <2>1, <3>1, SubSeqFull, Zenon
  <2> HIDE DEF sign
  <2> QED
    BY <2>1
<1>7. ASSUME raw \in Seq(Digit), raw # <<>>
      PROVE  end = Len(raw) /\ sign = 0
  <2>1. raw[1] # "-"
    <3>1. 1 \in 1 .. Len(raw)
      BY <1>7
    <3>2. raw[1] \in Digit
      BY <1>7, <3>1
    <3> QED
      BY <3>2, ZeroAndSign
  <2>2. sign = 0
    BY <2>1
  <2>3. Len(raw) \in ends
    <3>1. \A j \in 1 .. Len(raw) : IsDigit(raw[j])
      BY <1>7 DEF IsDigit, Digit
    <3> HIDE DEF sign
    <3> QED
      BY <1>2, <2>2, <3>1
  <2>4. end <= Len(raw) /\ Len(raw) <= end /\ end \in Int
    <3> HIDE DEF sign
    <3> QED
      BY <1>2, <1>3, <1>4, <2>3
  <2> QED
    BY <1>2, <2>2, <2>4
<1>8. /\ Matched(raw).digits = SubSeq(raw, sign + 1, end)
      /\ Matched(raw).end = end /\ Matched(raw).sign = sign
  <2> DEFINE digits == SubSeq(raw, sign + 1, end)
  <2>1. Matched(raw) = [sign |-> sign, digits |-> digits, end |-> end]
    BY <1>1
  <2> HIDE DEF digits, sign
  <2>2. Matched(raw).digits = digits /\ Matched(raw).end = end /\ Matched(raw).sign = sign
    BY <2>1
  <2> QED
    BY <2>2 DEF digits
<1> HIDE DEF sign, ends
<1> QED
  BY <1>5, <1>6, <1>7, <1>8

(* A number of a variable is accepted: its default, or what it denotes.      *)
Accepted(r, raw, default, max) ==
  \/ raw = Unset /\ r = Resolved(default)
  \/ raw # Unset /\ \E n \in 1 .. max : Denotes(raw, n) /\ r = Resolved(n)

(* It is refused: it cannot be used. *)
Refused(r, raw, max) == r = Invalid /\ ~Usable(raw, max)

LEMMA AcceptedOrRefused ==
  ASSUME NEW X, NEW raw \in Seq(X), NEW default, NEW max \in 1 .. IntMax
  PROVE  \/ Accepted(resolve_number(raw, default, max), raw, default, max)
         \/ Refused(resolve_number(raw, default, max), raw, max)
<1> DEFINE r == resolve_number(raw, default, max)
           m == Matched(raw)
           magnitude == ValueOf(m.digits)
           parsed == IF m.sign = 1 THEN -magnitude ELSE magnitude
<1>1. IntMax \in Nat
  BY ConfigAssumption
<1>2. CASE raw = Unset
  <2>1. r = Resolved(default)
    BY <1>2 DEF resolve_number
  <2> QED
    BY <1>2, <2>1 DEF Accepted
<1>3. CASE raw # Unset
  <2>1. /\ m.digits \in Seq(Digit)
        /\ (m.end = Len(raw) /\ m.sign # 1) => m.digits = raw
        /\ (raw \in Seq(Digit) /\ raw # <<>>) => m.end = Len(raw) /\ m.sign = 0 /\ m.digits = raw
    BY MatchedDigits
  <2>2. magnitude \in Nat
    BY <2>1, ValueIsNumber
  <2> DEFINE ec == IF m.digits = <<>> THEN "invalid_argument"
                   ELSE IF parsed \notin -IntMax - 1 .. IntMax THEN "result_out_of_range"
                   ELSE "none"
  <2>3. from_chars(raw) = [ec |-> ec, end |-> m.end, parsed |-> parsed]
    BY Zenon DEF from_chars
  <2> DEFINE good == /\ raw # <<>> /\ m.digits # <<>> /\ parsed \in -IntMax - 1 .. IntMax
                     /\ m.end = Len(raw) /\ ~(parsed < 1 \/ parsed > max)
  <2>4. r = IF good THEN Resolved(parsed) ELSE Invalid
    <3> HIDE DEF m, parsed
    <3>1. ec = "none" <=> m.digits # <<>> /\ parsed \in -IntMax - 1 .. IntMax
      OBVIOUS
    <3> HIDE DEF ec
    <3> QED
      BY <1>3, <2>3, <3>1 DEF resolve_number
  <2>5. CASE good
    <3>1. parsed \in 1 .. max /\ m.sign # 1
      <4> HIDE DEF m, magnitude
      <4> QED
        BY <2>2, <2>5
    <3>2. parsed = ValueOf(raw) /\ raw \in Seq(Digit) /\ raw # <<>>
      BY <2>1, <2>5, <3>1
    <3>3. Denotes(raw, parsed)
      <4> HIDE DEF parsed
      <4> QED
        BY <3>2, DigitsDenoteTheirValue
    <3> HIDE DEF parsed, good, r
    <3> QED
      BY <1>3, <2>4, <2>5, <3>1, <3>3 DEF Accepted, r
  <2>6. CASE ~good
    <3>1. ASSUME NEW n \in 1 .. max, Denotes(raw, n)
          PROVE  FALSE
      <4>1. raw \in Seq(Digit) /\ raw # <<>> /\ ValueOf(raw) = n
        <5>1. n \in Nat
          OBVIOUS
        <5> QED
          BY <3>1, <5>1, DenotedIsTheValue
      <4>2. m.end = Len(raw) /\ m.digits = raw /\ parsed = n
        BY <2>1, <4>1
      <4>3. n \in -IntMax - 1 .. IntMax /\ ~(n < 1 \/ n > max)
        BY <1>1
      <4> HIDE DEF m, parsed
      <4> QED
        BY <2>6, <4>1, <4>2, <4>3
    <3> HIDE DEF good, r
    <3> QED
      BY <1>3, <2>4, <2>6, <3>1 DEF Refused, Usable, r
  <2> QED
    BY <2>5, <2>6
<1> QED
  BY <1>2, <1>3

LEMMA ValidIfAccepted ==
  /\ \A v : Resolved(v).valid /\ Resolved(v).value = v
  /\ ~Invalid.valid
  BY DEF Resolved, Invalid

LEMMA PortResolution ==
  ASSUME NEW raw \in Environment
  PROVE  \/ Accepted(resolve_port(raw), raw, default_port, kMaxPort)
         \/ Refused(resolve_port(raw), raw, kMaxPort)
<1>1. kMaxPort \in 1 .. IntMax
  BY ConfigAssumption
<1>2. raw \in Seq(STRING) \/ raw \in Seq({"unset"})
  <2>1. raw \in Values \/ raw = <<"unset">>
    BY DEF Environment, Unset
  <2>2. <<"unset">> \in Seq({"unset"})
    OBVIOUS
  <2> QED
    BY <2>1, <2>2, ValuesAssumption
<1> QED
  BY <1>1, <1>2, AcceptedOrRefused DEF resolve_port

LEMMA DatabaseResolution ==
  ASSUME NEW url, NEW raw \in Environment
  PROVE  LET r == resolve_database_config(url, raw)
         IN  \/ Accepted(r, raw, kDefaultStatementTimeoutMs, kMaxStatementTimeoutMs)
             \/ r = Invalid /\ url \in {Unset, <<>>}
             \/ Refused(r, raw, kMaxStatementTimeoutMs)
<1>1. kMaxStatementTimeoutMs \in 1 .. IntMax
  BY ConfigAssumption
<1>2. raw \in Seq(STRING) \/ raw \in Seq({"unset"})
  <2>1. raw \in Values \/ raw = <<"unset">>
    BY DEF Environment, Unset
  <2>2. <<"unset">> \in Seq({"unset"})
    OBVIOUS
  <2> QED
    BY <2>1, <2>2, ValuesAssumption
<1>3. CASE url \in {Unset, <<>>}
  BY <1>3 DEF resolve_database_config
<1>4. CASE url \notin {Unset, <<>>}
  <2> DEFINE n == resolve_number(raw, kDefaultStatementTimeoutMs, kMaxStatementTimeoutMs)
  <2>1. resolve_database_config(url, raw) = n
    BY <1>4, Zenon DEF resolve_database_config
  <2>2. \/ Accepted(n, raw, kDefaultStatementTimeoutMs, kMaxStatementTimeoutMs)
        \/ Refused(n, raw, kMaxStatementTimeoutMs)
    BY <1>1, <1>2, AcceptedOrRefused
  <2> QED
    BY <2>1, <2>2, Zenon
<1> QED
  BY <1>3, <1>4

----------------------------------------------------------------------------
(* main(), step by step. *)

Started == {"database", "build", "run", "listening"}

PortAccepted == Accepted(port, env["PORT"], default_port, kMaxPort)
TimeoutAccepted ==
  Accepted(timeout, env["DB_STATEMENT_TIMEOUT_MS"],
           kDefaultStatementTimeoutMs, kMaxStatementTimeoutMs)

(* Why a process that never opened the audit file has ended. *)
RefusedForCause ==
  \/ Refused(port, env["PORT"], kMaxPort)
  \/ /\ PortAccepted
     /\ timeout = Invalid
     /\ \/ env["DATABASE_URL"] \in {Unset, <<>>}
        \/ ~Usable(env["DB_STATEMENT_TIMEOUT_MS"], kMaxStatementTimeoutMs)

(* What holds between two steps of main(): the inductive invariant. *)
StartInv ==
  /\ phase \in Started \cup {"init_logging", "port", "exited"}
  /\ env = [v \in DOMAIN NoEnv |-> env[v]]
  /\ phase # "init_logging" => g_logger = "spdlog"
  /\ phase \in Started => PortAccepted
  /\ phase \in Started \ {"database"} => TimeoutAccepted
  /\ phase \in {"init_logging", "port", "database", "build"} => audit_path = NoPath
  /\ phase \in {"run", "listening"} => audit_path # NoPath
  /\ phase # "listening" => bound = FALSE
  /\ (phase = "exited" /\ audit_path = NoPath) => RefusedForCause

LEMMA StartInvInit ==
  Init => StartInv
  BY DEF Init, StartInv, Started, NoEnv

LEMMA StartInvNext ==
  StartInv /\ [Next]_vars => StartInv'
<1> SUFFICES ASSUME StartInv, [Next]_vars
             PROVE  StartInv'
  OBVIOUS
<1>1. CASE InitLogging
  BY <1>1 DEF InitLogging, StartInv, Started
<1>2. CASE ResolvePort
  <2>1. PICK raw \in Environment : /\ env' = [env EXCEPT !["PORT"] = raw]
                                   /\ port' = resolve_port(raw)
    BY <1>2 DEF ResolvePort
  <2>2. phase = "port" /\ g_logger = "spdlog" /\ audit_path = NoPath /\ bound = FALSE
    BY <1>2 DEF ResolvePort, StartInv, Started
  <2>3. UNCHANGED <<g_logger, timeout, audit_path, bound>>
    BY <1>2 DEF ResolvePort
  <2>4. env'["PORT"] = raw /\ env' = [v \in DOMAIN NoEnv |-> env'[v]]
    BY <2>1 DEF StartInv, NoEnv
  <2>5. CASE Accepted(resolve_port(raw), raw, default_port, kMaxPort)
    <3>1. PortAccepted'
      BY <2>1, <2>4, <2>5 DEF PortAccepted
    <3>2. port'.valid
      BY <2>1, <2>5, ValidIfAccepted DEF Accepted
    <3>3. phase' = "database"
      BY <1>2, <3>2 DEF ResolvePort
    <3> QED
      BY <2>2, <2>3, <2>4, <3>1, <3>3 DEF StartInv, Started
  <2>6. CASE Refused(resolve_port(raw), raw, kMaxPort)
    <3>1. RefusedForCause'
      BY <2>1, <2>4, <2>6 DEF RefusedForCause
    <3>2. ~port'.valid
      BY <2>1, <2>6, ValidIfAccepted DEF Refused
    <3>3. phase' = "exited"
      BY <1>2, <2>2, <3>2 DEF ResolvePort, Logged
    <3> QED
      BY <2>2, <2>3, <2>4, <3>1, <3>3 DEF StartInv, Started
  <2> QED
    BY <2>5, <2>6, PortResolution
<1>3. CASE ResolveDatabase
  <2>1. PICK url \in {Unset, <<>>, <<"url">>}, raw \in Environment :
          /\ env' = [env EXCEPT !["DATABASE_URL"] = url, !["DB_STATEMENT_TIMEOUT_MS"] = raw]
          /\ timeout' = resolve_database_config(url, raw)
    BY <1>3 DEF ResolveDatabase
  <2>2. /\ phase = "database" /\ g_logger = "spdlog" /\ audit_path = NoPath
        /\ bound = FALSE /\ PortAccepted
    BY <1>3 DEF ResolveDatabase, StartInv, Started
  <2>3. UNCHANGED <<g_logger, port, audit_path, bound>>
    BY <1>3 DEF ResolveDatabase
  <2>4. /\ env'["PORT"] = env["PORT"] /\ env'["DATABASE_URL"] = url
        /\ env'["DB_STATEMENT_TIMEOUT_MS"] = raw
        /\ env' = [v \in DOMAIN NoEnv |-> env'[v]]
    BY <2>1 DEF StartInv, NoEnv
  <2>5. PortAccepted'
    BY <2>2, <2>3, <2>4 DEF PortAccepted
  <2>6. CASE Accepted(timeout', raw, kDefaultStatementTimeoutMs, kMaxStatementTimeoutMs)
    <3>1. TimeoutAccepted'
      BY <2>4, <2>6 DEF TimeoutAccepted
    <3>2. timeout'.valid
      BY <2>6, ValidIfAccepted DEF Accepted
    <3>3. phase' = "build"
      BY <1>3, <2>2, <3>2 DEF ResolveDatabase, Logged
    <3> QED
      BY <2>2, <2>3, <2>4, <2>5, <3>1, <3>3 DEF StartInv, Started
  <2>7. CASE \/ timeout' = Invalid /\ url \in {Unset, <<>>}
             \/ Refused(timeout', raw, kMaxStatementTimeoutMs)
    <3>1. RefusedForCause'
      BY <2>4, <2>5, <2>7 DEF RefusedForCause, Refused
    <3>2. ~timeout'.valid
      BY <2>7, ValidIfAccepted DEF Refused
    <3>3. phase' = "exited"
      BY <1>3, <2>2, <3>2 DEF ResolveDatabase, Logged
    <3> QED
      BY <2>2, <2>3, <2>4, <3>1, <3>3 DEF StartInv, Started
  <2> QED
    BY <2>1, <2>6, <2>7, DatabaseResolution
<1>4. CASE Build
  <2>1. audit_path' # NoPath
    <3>1. PICK configured \in {Unset, <<>>, <<"path">>} :
            audit_path' = resolve_audit_log_path(configured)
      BY <1>4 DEF Build
    <3>2. audit_path' = <<"path">> \/ audit_path' = <<"audit.jsonl">>
      BY <3>1, Zenon DEF resolve_audit_log_path, kDefaultAuditLogPath
    <3>3. <<"path">> # <<"no path">> /\ <<"audit.jsonl">> # <<"no path">>
      OBVIOUS
    <3> QED
      BY <3>2, <3>3, Zenon DEF NoPath
  <2> QED
    BY <1>4, <2>1 DEF Build, StartInv, Started, PortAccepted, TimeoutAccepted
<1>5. CASE Run
  BY <1>5 DEF Run, Logged, StartInv, Started, PortAccepted, TimeoutAccepted
<1>6. CASE FailToBind
  BY <1>6 DEF FailToBind, Logged, StartInv, Started
<1>7. CASE ListenReturns
  BY <1>7 DEF ListenReturns, StartInv, Started
<1>8. CASE StartAgain
  BY <1>8 DEF StartAgain, StartInv, Started, NoEnv
<1>9. CASE UNCHANGED vars
  BY <1>9 DEF vars, StartInv, Started, PortAccepted, TimeoutAccepted, RefusedForCause
<1> QED
  BY <1>1, <1>2, <1>3, <1>4, <1>5, <1>6, <1>7, <1>8, <1>9 DEF Next

LEMMA StartInvariant ==
  Spec => []StartInv
<1> QED
  BY StartInvInit, StartInvNext, PTL DEF Spec

(* What the service runs with is what the environment says, for every        *)
(* environment and every range: resolve_port() and                           *)
(* resolve_database_config() accept a value only as the number it denotes,   *)
(* and nothing between them and listen() changes it.                         *)
THEOREM TheServiceRunsAsConfigured ==
  Spec => []RunsAsConfigured
<1>1. StartInv => RunsAsConfigured
  <2> SUFFICES ASSUME StartInv, phase \in {"run", "listening"}
               PROVE  RunsAsConfigured
    BY DEF RunsAsConfigured
  <2>1. PortAccepted /\ TimeoutAccepted
    BY DEF StartInv, Started
  <2>2. IF env["PORT"] = Unset THEN port.value = default_port
        ELSE port.value \in 1 .. kMaxPort /\ Denotes(env["PORT"], port.value)
    BY <2>1, ValidIfAccepted DEF PortAccepted, Accepted
  <2>3. IF env["DB_STATEMENT_TIMEOUT_MS"] = Unset
        THEN timeout.value = kDefaultStatementTimeoutMs
        ELSE /\ timeout.value \in 1 .. kMaxStatementTimeoutMs
             /\ Denotes(env["DB_STATEMENT_TIMEOUT_MS"], timeout.value)
    BY <2>1, ValidIfAccepted DEF TimeoutAccepted, Accepted
  <2> QED
    BY <2>2, <2>3 DEF RunsAsConfigured
<1> QED
  BY <1>1, StartInvariant, PTL

(* main() refuses an environment only for a variable that cannot be used,    *)
(* and before it has opened the audit file or bound the port.                *)
THEOREM OnlyTheUnusableIsRefused ==
  Spec => []RefusedOnlyIfUnusable
<1>1. StartInv => RefusedOnlyIfUnusable
  <2> SUFFICES ASSUME StartInv, phase = "exited", audit_path = NoPath
               PROVE  RefusedOnlyIfUnusable
    BY DEF RefusedOnlyIfUnusable
  <2>1. ~bound /\ RefusedForCause
    BY DEF StartInv
  <2>2. CASE Refused(port, env["PORT"], kMaxPort)
    BY <2>1, <2>2, ValidIfAccepted DEF Refused, RefusedOnlyIfUnusable
  <2>3. CASE ~Refused(port, env["PORT"], kMaxPort)
    <3>1. port.valid
      BY <2>1, <2>3, ValidIfAccepted DEF RefusedForCause, PortAccepted, Accepted
    <3> QED
      BY <2>1, <2>3, <3>1 DEF RefusedForCause, RefusedOnlyIfUnusable
  <2> QED
    BY <2>2, <2>3
<1> QED
  BY <1>1, StartInvariant, PTL

(* No path through main() reaches system_log::logger() before init() has     *)
(* made the logger, on the first start and on every later one.               *)
THEOREM TheLoggerIsReady ==
  Spec => []LoggerIsReady
<1>1. StartInv => LoggerIsReady
  BY DEF StartInv, Started, LoggerIsReady
<1> QED
  BY <1>1, StartInvariant, PTL
=============================================================================

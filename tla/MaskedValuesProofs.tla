-------------------------- MODULE MaskedValuesProofs --------------------------
(***************************************************************************)
(* What the three masking rules reveal, for values of every length over    *)
(* every alphabet: the digits a masked number shows, the bytes of an email *)
(* address the output does not depend on, and that masked text is text.    *)
(***************************************************************************)
EXTENDS MaskedValues, RequestProcessingProofs

(* The parts a value's digits are collected from. *)
DigitParts(v) == [i \in DOMAIN v |-> IF v[i] \in Digits THEN <<v[i]>> ELSE <<>>]

(* One part for every byte. *)
LEMMA DigitPartsType ==
  ASSUME NEW X, NEW v \in Seq(X)
  PROVE  /\ DigitParts(v) \in Seq(Seq(Digits)) /\ Len(DigitParts(v)) = Len(v)
         /\ \A i \in 1 .. Len(v) :
              DigitParts(v)[i] = IF v[i] \in Digits THEN <<v[i]>> ELSE <<>>
         /\ DigitsOf(v) = FlattenSeq(DigitParts(v))
<1>1. DOMAIN v = 1 .. Len(v) /\ Len(v) \in Nat
  OBVIOUS
<1>2. ASSUME NEW i \in 1 .. Len(v)
      PROVE  (IF v[i] \in Digits THEN <<v[i]>> ELSE <<>>) \in Seq(Digits)
  OBVIOUS
<1>3. DigitParts(v) \in [1 .. Len(v) -> Seq(Digits)]
  BY <1>1, <1>2 DEF DigitParts
<1>4. DigitParts(v) \in Seq(Seq(Digits))
  BY <1>1, <1>3, SeqDef
<1>5. Len(DigitParts(v)) = Len(v)
  BY <1>1, <1>3, <1>4
<1> QED
  BY <1>1, <1>4, <1>5 DEF DigitParts, DigitsOf

(* The digits of a value are digits. *)
LEMMA DigitsOfType ==
  ASSUME NEW X, NEW v \in Seq(X)
  PROVE  DigitsOf(v) \in Seq(Digits) /\ Len(DigitsOf(v)) \in Nat
<1>1. DigitsOf(v) \in Seq(Digits)
  BY DigitPartsType, FlattenType
<1> QED
  BY <1>1

(* A value without digits shows none. *)
LEMMA NoDigits ==
  ASSUME NEW X, NEW v \in Seq(X), \A i \in 1 .. Len(v) : v[i] \notin Digits
  PROVE  DigitsOf(v) = <<>>
<1>1. \A x : ~Holds(DigitsOf(v), x)
  <2> SUFFICES ASSUME NEW x PROVE ~Holds(DigitsOf(v), x)
    OBVIOUS
  <2>1. DigitParts(v) \in Seq(Seq(Digits)) /\ DigitsOf(v) = FlattenSeq(DigitParts(v))
    BY DigitPartsType
  <2>2. ~Holds(<<>>, x)
    BY DEF Holds
  <2>3. \A i \in 1 .. Len(DigitParts(v)) : DigitParts(v)[i] = <<>>
    BY DigitPartsType
  <2> QED
    BY <2>1, <2>2, <2>3, FlattenHolds
<1>2. DigitsOf(v) \in Seq(Digits) /\ Len(DigitsOf(v)) \in Nat
  BY DigitsOfType
<1>3. ASSUME Len(DigitsOf(v)) # 0
      PROVE  FALSE
  <2>1. Holds(DigitsOf(v), DigitsOf(v)[1])
    BY <1>2, <1>3 DEF Holds
  <2> QED
    BY <1>1, <2>1
<1> QED
  BY <1>2, <1>3, EmptySeq

(* With digits behind bytes that are none, the digits are what is behind. *)
LEMMA DigitsBehind ==
  ASSUME NEW X, NEW p \in Seq(X), \A i \in 1 .. Len(p) : p[i] \notin Digits, Len(p) # 0,
         NEW d \in Seq(Digits)
  PROVE  DigitsOf(p \o d) = d
<1> DEFINE v == p \o d
           s == DigitParts(v)
           Y == X \cup Digits
<1>1. /\ p \in Seq(Y) /\ d \in Seq(Y) /\ v \in Seq(Y)
      /\ Len(v) = Len(p) + Len(d) /\ Len(p) \in Nat /\ Len(d) \in Nat
      /\ \A i \in 1 .. Len(p) + Len(d) : v[i] = IF i <= Len(p) THEN p[i] ELSE d[i - Len(p)]
  <2>1. p \in Seq(Y) /\ d \in Seq(Y)
    OBVIOUS
  <2> HIDE DEF Y
  <2> QED
    BY <2>1, ConcatProperties, LenProperties
<1> HIDE DEF v, Y
<1>2. /\ s \in Seq(Seq(Digits)) /\ Len(s) = Len(v) /\ DigitsOf(v) = FlattenSeq(s)
      /\ \A i \in 1 .. Len(v) : s[i] = IF v[i] \in Digits THEN <<v[i]>> ELSE <<>>
  BY <1>1, DigitPartsType
<1> HIDE DEF s
<1>3. PICK f : /\ f[1] = s[1]
               /\ \A k \in 1 .. Len(s) - 1 : f[k + 1] = f[k] \o s[k + 1]
               /\ FlattenSeq(s) = f[Len(s)]
  <2>1. Len(s) \in Nat /\ Len(s) # 0
    BY <1>1, <1>2
  <2> QED
    BY <2>1, Flattening
<1>4. ASSUME NEW i \in 1 .. Len(p)
      PROVE  s[i] = <<>>
  <2>1. i \in 1 .. Len(v) /\ i <= Len(p)
    BY <1>1
  <2>2. v[i] = p[i] /\ p[i] \notin Digits
    BY <1>1, <2>1
  <2> QED
    BY <1>2, <2>1, <2>2
<1>5. ASSUME NEW i \in 1 .. Len(d)
      PROVE  s[Len(p) + i] = <<d[i]>>
  <2>1. Len(p) + i \in 1 .. Len(v) /\ ~(Len(p) + i <= Len(p)) /\ (Len(p) + i) - Len(p) = i
    BY <1>1
  <2>2. v[Len(p) + i] = d[i] /\ d[i] \in Digits
    BY <1>1, <2>1
  <2> QED
    BY <1>2, <2>1, <2>2
<1> DEFINE S == {k \in 1 .. Len(v) :
                   IF k <= Len(p) THEN f[k] = <<>> ELSE Agrees(f[k], k - Len(p), d, Digits)}
<1>6. 1 \in S
  BY <1>1, <1>3, <1>4
<1>7. ASSUME NEW k \in 1 .. Len(v) - 1, k \in S
      PROVE  k + 1 \in S
  <2>1. f[k + 1] = f[k] \o s[k + 1]
    BY <1>1, <1>2, <1>3
  <2>2. CASE k + 1 <= Len(p)
    <3>1. f[k] = <<>> /\ s[k + 1] = <<>>
      BY <1>1, <1>4, <1>7, <2>2
    <3> QED
      BY <1>1, <2>1, <2>2, <3>1
  <2>3. CASE k >= Len(p)
    <3> DEFINE n == k - Len(p)
    <3>1. n \in Nat /\ n + 1 \in 1 .. Len(d) /\ n + 1 = (k + 1) - Len(p) /\ k + 1 = Len(p) + (n + 1)
      BY <1>1, <2>3
    <3>2. s[k + 1] = <<d[n + 1]>> /\ d[n + 1] \in Digits
      BY <1>5, <3>1
    <3>3. Agrees(f[k], n, d, Digits)
      <4>1. CASE k = Len(p)
        <5>1. f[k] = <<>> /\ n = 0
          BY <1>1, <1>7, <4>1
        <5>2. <<>> \in Seq(Digits) /\ Len(<<>>) = 0
          OBVIOUS
        <5> QED
          BY <5>1, <5>2 DEF Agrees
      <4>2. CASE k > Len(p)
        BY <1>1, <1>7, <4>2
      <4> QED
        BY <1>1, <2>3, <4>1, <4>2
    <3>4. Agrees(f[k + 1], n + 1, d, Digits)
      BY <2>1, <3>1, <3>2, <3>3, AgreesOneMore
    <3> QED
      BY <1>1, <2>3, <3>1, <3>4
  <2> QED
    BY <1>1, <2>2, <2>3
<1>8. 1 .. Len(v) \subseteq S
  <2>1. Len(v) \in Nat
    BY <1>1
  <2> HIDE DEF S
  <2> QED
    BY <1>6, <1>7, <2>1, BoundedInduction
<1>9. CASE Len(d) = 0
  <2>1. f[Len(v)] = <<>>
    BY <1>1, <1>8, <1>9
  <2> QED
    BY <1>1, <1>2, <1>3, <1>9, <2>1, EmptySeq DEF v
<1>10. CASE Len(d) # 0
  <2>1. Len(v) \in 1 .. Len(v) /\ ~(Len(v) <= Len(p)) /\ Len(v) - Len(p) = Len(d)
    BY <1>1, <1>10
  <2>2. Agrees(f[Len(v)], Len(d), d, Digits)
    BY <1>8, <2>1
  <2>3. Agrees(DigitsOf(v), Len(d), d, Digits)
    BY <1>2, <1>3, <2>2
  <2> QED
    BY <2>3, SeqEqual DEF Agrees, v
<1> QED
  BY <1>9, <1>10

----------------------------------------------------------------------------
(* Phone and card numbers. *)

(* The last four digits. *)
LEMMA LastFourIsFour ==
  ASSUME NEW d \in Seq(Digits), Len(d) >= 4
  PROVE  /\ LastFour(d) \in Seq(Digits) /\ Len(LastFour(d)) = 4
         /\ LastFour(d) = SubSeq(d, (Len(d) - 4) + 1, Len(d))
<1>1. Len(d) \in Nat /\ Len(d) - 3 \in 1 .. Len(d) + 1 /\ Len(d) \in Len(d) - 3 - 1 .. Len(d)
      /\ (Len(d) - 4) + 1 = Len(d) - 3
  OBVIOUS
<1>2. /\ SubSeq(d, Len(d) - 3, Len(d)) \in Seq(Digits)
      /\ Len(SubSeq(d, Len(d) - 3, Len(d))) = Len(d) - (Len(d) - 3) + 1
  BY <1>1, SubSeqProperties
<1> QED
  BY <1>1, <1>2 DEF LastFour

(* Stars in front of the last four digits of a number. *)
LEMMA StarredNumber ==
  ASSUME NEW p \in Seq({"*"}), Len(p) # 0, NEW d \in Seq(Digits), Len(d) >= 4
  PROVE  /\ DigitsOf(p \o LastFour(d)) = LastFour(d)
         /\ p \o LastFour(d) \in Seq(Digits \cup {"*"})
         /\ (p \o LastFour(d))[1] = "*" /\ Len(p \o LastFour(d)) = Len(p) + 4
<1>1. LastFour(d) \in Seq(Digits) /\ Len(LastFour(d)) = 4
  BY LastFourIsFour
<1>2. \A i \in 1 .. Len(p) : p[i] = "*"
  OBVIOUS
<1>3. "*" \notin Digits
  BY DEF Digits
<1>4. DigitsOf(p \o LastFour(d)) = LastFour(d)
  BY <1>1, <1>2, <1>3, DigitsBehind
<1>5. p \in Seq(Digits \cup {"*"}) /\ LastFour(d) \in Seq(Digits \cup {"*"})
  BY <1>1
<1>6. ASSUME NEW X, NEW a \in Seq(X), NEW b \in Seq(X), Len(a) # 0
      PROVE  a \o b \in Seq(X) /\ (a \o b)[1] = a[1] /\ Len(a \o b) = Len(a) + Len(b)
  BY <1>6
<1>7. /\ p \o LastFour(d) \in Seq(Digits \cup {"*"}) /\ (p \o LastFour(d))[1] = p[1]
      /\ Len(p \o LastFour(d)) = Len(p) + Len(LastFour(d))
  BY <1>5, <1>6
<1>8. p[1] = "*"
  BY <1>2
<1> QED
  BY <1>1, <1>4, <1>7, <1>8

(* The full redaction. *)
LEMMA Redaction ==
  /\ kFullRedaction \in Seq({"*"}) /\ Len(kFullRedaction) = 3
  /\ kFullRedaction[1] = "*" /\ kFullRedaction[2] = "*" /\ kFullRedaction[3] = "*"
  /\ DigitsOf(kFullRedaction) = <<>>
  /\ <<"*">> \o kFullRedaction \in Seq({"*"}) /\ Len(<<"*">> \o kFullRedaction) = 4
<1>1. /\ kFullRedaction \in Seq({"*"}) /\ Len(kFullRedaction) = 3
      /\ kFullRedaction[1] = "*" /\ kFullRedaction[2] = "*" /\ kFullRedaction[3] = "*"
  BY DEF kFullRedaction
<1>2. \A i \in 1 .. Len(kFullRedaction) : kFullRedaction[i] = "*"
  BY <1>1
<1>3. "*" \notin Digits
  BY DEF Digits
<1>4. DigitsOf(kFullRedaction) = <<>>
  BY <1>1, <1>2, <1>3, NoDigits
<1>5. <<"*">> \in Seq({"*"}) /\ Len(<<"*">>) = 1
  OBVIOUS
<1>6. <<"*">> \o kFullRedaction \in Seq({"*"}) /\ Len(<<"*">> \o kFullRedaction) = 4
  <2>1. ASSUME NEW X, NEW a \in Seq(X), NEW b \in Seq(X)
        PROVE  a \o b \in Seq(X) /\ Len(a \o b) = Len(a) + Len(b)
    OBVIOUS
  <2>2. /\ <<"*">> \o kFullRedaction \in Seq({"*"})
        /\ Len(<<"*">> \o kFullRedaction) = Len(<<"*">>) + Len(kFullRedaction)
    BY <1>1, <1>5, <2>1, Zenon
  <2> QED
    BY <1>1, <1>5, <2>2
<1> QED
  BY <1>1, <1>4, <1>6

NumberBytes == Digits \cup {"-", "x"}
EmailBytes == Letters \cup NonAscii \cup {"@", "*"}

(* A masked number is the redaction, or stars and the last four of its      *)
(* digits when there are enough of them.                                    *)
LEMMA MaskedNumber ==
  ASSUME NEW c \in {"Phone", "CreditCard"}, NEW v \in Seq(NumberBytes)
  PROVE  \/ /\ mask_value(c, v) = kFullRedaction
            /\ c = "Phone" => Len(DigitsOf(v)) < 7
            /\ c = "CreditCard" =>
                 Len(DigitsOf(v)) < 12 \/ \E i \in 1 .. Len(v) : v[i] = "x"
         \/ /\ \E p \in Seq({"*"}) :
                 /\ Len(p) = IF c = "CreditCard" THEN 4 ELSE 3
                 /\ mask_value(c, v) = p \o LastFour(DigitsOf(v))
            /\ Len(DigitsOf(v)) >= IF c = "Phone" THEN 7 ELSE 12
            /\ c = "CreditCard" => \A i \in 1 .. Len(v) : v[i] # "x"
<1>1. DigitsOf(v) \in Seq(Digits) /\ Len(DigitsOf(v)) \in Nat
  BY DigitsOfType
<1>2. CASE c = "Phone"
  <2>1. mask_value(c, v) = mask_phone(v)
    BY <1>2 DEF mask_value
  <2>2. mask_phone(v) = IF Len(DigitsOf(v)) < 7 THEN kFullRedaction
                        ELSE kFullRedaction \o LastFour(DigitsOf(v))
    BY DEF mask_phone
  <2>3. CASE Len(DigitsOf(v)) < 7
    BY <1>2, <2>1, <2>2, <2>3
  <2>4. CASE ~(Len(DigitsOf(v)) < 7)
    <3>1. mask_value(c, v) = kFullRedaction \o LastFour(DigitsOf(v))
      BY <2>1, <2>2, <2>4
    <3>2. Len(DigitsOf(v)) >= 7
      BY <1>1, <2>4
    <3> QED
      BY <1>2, <3>1, <3>2, Redaction
  <2> QED
    BY <2>3, <2>4
<1>3. CASE c = "CreditCard"
  <2> DEFINE odd == \E i \in DOMAIN v : v[i] \notin Digits \cup {" ", "-"}
  <2>1. mask_value(c, v) = mask_credit_card(v)
    BY <1>3 DEF mask_value
  <2>2. mask_credit_card(v) = IF odd \/ Len(DigitsOf(v)) < 12 THEN kFullRedaction
                              ELSE <<"*">> \o kFullRedaction \o LastFour(DigitsOf(v))
    BY DEF mask_credit_card
  <2>3. odd <=> \E i \in 1 .. Len(v) : v[i] = "x"
    <3>1. DOMAIN v = 1 .. Len(v) /\ \A i \in 1 .. Len(v) : v[i] \in Digits \cup {"-", "x"}
      BY DEF NumberBytes
    <3>2. "x" \notin Digits \cup {" ", "-"}
      BY DEF Digits
    <3> QED
      BY <3>1, <3>2
  <2> HIDE DEF odd
  <2>4. CASE odd \/ Len(DigitsOf(v)) < 12
    BY <1>3, <2>1, <2>2, <2>3, <2>4
  <2>5. CASE ~(odd \/ Len(DigitsOf(v)) < 12)
    <3> DEFINE p == <<"*">> \o kFullRedaction
    <3>1. mask_value(c, v) = p \o LastFour(DigitsOf(v))
      BY <2>1, <2>2, <2>5
    <3>2. Len(DigitsOf(v)) >= 12
      BY <1>1, <2>5
    <3>3. p \in Seq({"*"}) /\ Len(p) = 4
      BY Redaction
    <3> HIDE DEF p
    <3> QED
      BY <1>3, <2>3, <2>5, <3>1, <3>2, <3>3
  <2> QED
    BY <2>4, <2>5
<1> QED
  BY <1>2, <1>3

(* What a masked number shows. *)
LEMMA NumberShown ==
  ASSUME NEW c \in {"Phone", "CreditCard"}, NEW v \in Seq(NumberBytes)
  PROVE  /\ mask_value(c, v) \in Seq(Digits \cup {"*"}) /\ mask_value(c, v)[1] = "*"
         /\ Len(mask_value(c, v)) # 0
         /\ \/ /\ DigitsOf(mask_value(c, v)) = <<>> /\ Len(mask_value(c, v)) = 3
               /\ c = "CreditCard" =>
                    Len(DigitsOf(v)) < 12 \/ \E i \in 1 .. Len(v) : v[i] = "x"
            \/ /\ DigitsOf(mask_value(c, v)) = LastFour(DigitsOf(v))
               /\ Len(mask_value(c, v)) = IF c = "CreditCard" THEN 8 ELSE 7
               /\ Len(DigitsOf(v)) >= IF c = "Phone" THEN 7 ELSE 12
               /\ c = "CreditCard" => \A i \in 1 .. Len(v) : v[i] # "x"
<1>1. DigitsOf(v) \in Seq(Digits) /\ Len(DigitsOf(v)) \in Nat
  BY DigitsOfType
<1>2. CASE /\ mask_value(c, v) = kFullRedaction
           /\ c = "CreditCard" =>
                Len(DigitsOf(v)) < 12 \/ \E i \in 1 .. Len(v) : v[i] = "x"
  <2>1. kFullRedaction \in Seq(Digits \cup {"*"})
    BY DEF kFullRedaction
  <2> QED
    BY <1>2, <2>1, Redaction
<1>3. CASE /\ \E p \in Seq({"*"}) :
                /\ Len(p) = IF c = "CreditCard" THEN 4 ELSE 3
                /\ mask_value(c, v) = p \o LastFour(DigitsOf(v))
           /\ Len(DigitsOf(v)) >= IF c = "Phone" THEN 7 ELSE 12
           /\ c = "CreditCard" => \A i \in 1 .. Len(v) : v[i] # "x"
  <2>1. PICK p \in Seq({"*"}) :
          /\ Len(p) = IF c = "CreditCard" THEN 4 ELSE 3
          /\ mask_value(c, v) = p \o LastFour(DigitsOf(v))
    BY <1>3
  <2>2. Len(DigitsOf(v)) >= 4 /\ Len(p) # 0
    <3>1. Len(DigitsOf(v)) >= 7 \/ Len(DigitsOf(v)) >= 12
      BY <1>3
    <3>2. Len(DigitsOf(v)) >= 4
      BY <1>1, <3>1
    <3>3. Len(p) = (IF c = "CreditCard" THEN 4 ELSE 3) => Len(p) # 0
      OBVIOUS
    <3> QED
      BY <2>1, <3>2, <3>3
  <2>3. /\ DigitsOf(mask_value(c, v)) = LastFour(DigitsOf(v))
        /\ mask_value(c, v) \in Seq(Digits \cup {"*"})
        /\ mask_value(c, v)[1] = "*" /\ Len(mask_value(c, v)) = Len(p) + 4
    BY <1>1, <2>1, <2>2, StarredNumber
  <2>4. Len(mask_value(c, v)) # 0 /\ Len(mask_value(c, v)) = IF c = "CreditCard" THEN 8 ELSE 7
    BY <2>1, <2>3
  <2> QED
    BY <1>3, <2>3, <2>4
<1> QED
  BY <1>2, <1>3, MaskedNumber

----------------------------------------------------------------------------
(* The values that are typed in. *)
MaskInv ==
  /\ category \in {"Email", "Phone", "CreditCard"}
  /\ category = "Email" => value \in Seq(EmailBytes)
  /\ category # "Email" => value \in Seq(NumberBytes)

LEMMA MaskInvInit == Init => MaskInv
BY DEF Init, MaskInv

LEMMA MaskInvNext == MaskInv /\ [Next]_vars => MaskInv'
<1> SUFFICES ASSUME MaskInv, [Next]_vars PROVE MaskInv'
  OBVIOUS
<1> USE DEF MaskInv
<1>1. CASE Type
  BY <1>1 DEF Type, AppendByte, EmailBytes
<1>2. CASE Dial
  <2>1. value \in Seq(NumberBytes) /\ category # "Email" /\ UNCHANGED category
    BY <1>2 DEF Dial, AppendByte
  <2>2. Len(DigitsOf(value)) \in Nat
    BY <2>1, DigitsOfType
  <2>3. (Len(DigitsOf(value)) % 10) + 1 \in 1 .. 10
    BY <2>2
  <2>4. \A i \in 1 .. 10 : NthDigit[i] \in Digits
    BY DEF NthDigit, Digits
  <2>5. NthDigit[(Len(DigitsOf(value)) % 10) + 1] \in NumberBytes
    BY <2>3, <2>4 DEF NumberBytes
  <2>6. value' = Append(value, NthDigit[(Len(DigitsOf(value)) % 10) + 1])
    BY <1>2 DEF Dial, AppendByte
  <2>7. value' \in Seq(NumberBytes)
    BY <2>1, <2>5, <2>6
  <2> QED
    BY <2>1, <2>7
<1>3. CASE Separate
  BY <1>3 DEF Separate, AppendByte, NumberBytes
<1>4. CASE UNCHANGED vars
  BY <1>4 DEF vars
<1> QED
  BY <1>1, <1>2, <1>3, <1>4 DEF Next

LEMMA MaskInvAlways == Spec => []MaskInv
BY MaskInvInit, MaskInvNext, PTL DEF Spec

(* pii_masker.cpp: a masked phone or card number shows its last four digits *)
(* or none, and nothing else of the value, its length neither.              *)
THEOREM NumbersAreMasked == Spec => []NumbersShowLastFourAtMost
<1>1. MaskInv => NumbersShowLastFourAtMost
  <2> SUFFICES ASSUME MaskInv, category # "Email", value # <<>>
               PROVE  LET digits == DigitsOf(value)
                          shown == DigitsOf(masked)
                          hidden == Len(digits) - Len(shown)
                      IN  /\ Len(shown) \in {0, 4}
                          /\ shown = SubSeq(digits, hidden + 1, Len(digits))
                          /\ shown # <<>> => hidden >= IF category = "Phone" THEN 3 ELSE 8
                          /\ \A i \in DOMAIN masked : masked[i] \in Digits \cup {"*"}
                          /\ Len(masked) - Len(shown) =
                               IF shown # <<>> /\ category = "CreditCard" THEN 4 ELSE 3
    BY DEF NumbersShowLastFourAtMost
  <2> DEFINE digits == DigitsOf(value)
             shown == DigitsOf(masked)
  <2>1. category \in {"Phone", "CreditCard"} /\ value \in Seq(NumberBytes)
    BY DEF MaskInv
  <2>2. /\ masked \in Seq(Digits \cup {"*"})
        /\ \/ shown = <<>> /\ Len(masked) = 3
           \/ /\ shown = LastFour(digits)
              /\ Len(masked) = IF category = "CreditCard" THEN 8 ELSE 7
              /\ Len(digits) >= IF category = "Phone" THEN 7 ELSE 12
    BY <2>1, NumberShown DEF masked
  <2>3. digits \in Seq(Digits) /\ Len(digits) \in Nat
    BY <2>1, DigitsOfType
  <2>7. Len(masked) \in Nat
    BY <2>2
  <2>4. \A i \in DOMAIN masked : masked[i] \in Digits \cup {"*"}
    BY <2>2
  <2> HIDE DEF digits, shown
  <2>5. CASE shown = <<>> /\ Len(masked) = 3
    <3>1. Len(shown) = 0 /\ (Len(digits) - Len(shown)) + 1 = Len(digits) + 1
      BY <2>3, <2>5
    <3>2. SubSeq(digits, Len(digits) + 1, Len(digits)) = <<>>
      BY <2>3, SubSeqEmpty
    <3>3. /\ Len(shown) \in {0, 4}
          /\ shown = SubSeq(digits, (Len(digits) - Len(shown)) + 1, Len(digits))
          /\ Len(masked) - Len(shown) = 3
      BY <2>5, <3>1, <3>2
    <3> QED
      BY <2>4, <2>5, <3>3 DEF digits, shown
  <2>6. CASE /\ shown = LastFour(digits)
             /\ Len(masked) = IF category = "CreditCard" THEN 8 ELSE 7
             /\ Len(digits) >= IF category = "Phone" THEN 7 ELSE 12
    <3>1. Len(digits) >= 4
      BY <2>3, <2>6
    <3>2. Len(shown) = 4 /\ shown = SubSeq(digits, (Len(digits) - 4) + 1, Len(digits))
      BY <2>3, <2>6, <3>1, LastFourIsFour
    <3>3. Len(digits) - Len(shown) >= IF category = "Phone" THEN 3 ELSE 8
      BY <2>3, <2>6, <3>2
    <3>4. shown # <<>>
      <4>1. Len(shown) = 4
        BY <3>2
      <4>2. Len(<<>>) = 0 /\ 0 # 4
        OBVIOUS
      <4> QED
        BY <4>1, <4>2, Zenon
    <3>5. Len(masked) - Len(shown) = IF category = "CreditCard" THEN 4 ELSE 3
      BY <2>6, <2>7, <3>2
    <3>6. Len(masked) - Len(shown) = IF shown # <<>> /\ category = "CreditCard" THEN 4 ELSE 3
      BY <3>4, <3>5
    <3> QED
      BY <2>4, <3>2, <3>3, <3>6 DEF digits, shown
  <2> QED
    BY <2>2, <2>5, <2>6
<1> QED
  BY <1>1, MaskInvAlways, PTL

(* mask_credit_card: digits of a card are shown exactly when the value is   *)
(* made of digits, blanks and hyphens and has twelve digits.                *)
THEOREM CardsAreShownIffWellFormed == Spec => []CardsShownIffWellFormed
<1>1. MaskInv => CardsShownIffWellFormed
  <2> SUFFICES ASSUME MaskInv, category = "CreditCard"
               PROVE  DigitsOf(masked) # <<>> <=>
                        /\ \A i \in DOMAIN value : value[i] # "x"
                        /\ Len(DigitsOf(value)) >= 12
    BY DEF CardsShownIffWellFormed
  <2>1. value \in Seq(NumberBytes) /\ DOMAIN value = 1 .. Len(value)
    BY DEF MaskInv
  <2>2. DigitsOf(value) \in Seq(Digits) /\ Len(DigitsOf(value)) \in Nat
    BY <2>1, DigitsOfType
  <2>3. \/ /\ DigitsOf(masked) = <<>>
           /\ Len(DigitsOf(value)) < 12 \/ \E i \in 1 .. Len(value) : value[i] = "x"
        \/ /\ DigitsOf(masked) = LastFour(DigitsOf(value))
           /\ Len(DigitsOf(value)) >= 12
           /\ \A i \in 1 .. Len(value) : value[i] # "x"
    BY <2>1, NumberShown DEF masked
  <2>4. Len(DigitsOf(value)) >= 12 => LastFour(DigitsOf(value)) # <<>>
    <3>1. Len(DigitsOf(value)) >= 12 => Len(DigitsOf(value)) >= 4
      BY <2>2
    <3>2. Len(DigitsOf(value)) >= 12 => Len(LastFour(DigitsOf(value))) = 4
      BY <2>2, <3>1, LastFourIsFour
    <3> QED
      BY <3>2
  <2>5. CASE DigitsOf(masked) = <<>> /\ Len(DigitsOf(value)) < 12
    BY <2>2, <2>5
  <2>6. CASE DigitsOf(masked) = <<>> /\ \E i \in 1 .. Len(value) : value[i] = "x"
    BY <2>1, <2>6
  <2>7. CASE /\ DigitsOf(masked) = LastFour(DigitsOf(value))
             /\ Len(DigitsOf(value)) >= 12
             /\ \A i \in 1 .. Len(value) : value[i] # "x"
    BY <2>1, <2>4, <2>7
  <2> QED
    BY <2>3, <2>5, <2>6, <2>7
<1> QED
  BY <1>1, MaskInvAlways, PTL

----------------------------------------------------------------------------
(* Email addresses. *)

(* The one '@' of an address stands at a, with something on either side. *)
AddressAt(v, a) ==
  /\ a \in 1 .. Len(v) /\ a # 1 /\ a # Len(v) /\ v[a] = "@"
  /\ \A j \in 1 .. Len(v) : v[j] = "@" => j = a

FirstByte(v) == IF v[1] \in NonAscii THEN <<>> ELSE <<v[1]>>

(* mask_email by where the '@' is. *)
LEMMA MaskedAddress ==
  ASSUME NEW X, NEW v \in Seq(X), NEW a, AddressAt(v, a)
  PROVE  mask_email(v) = FirstByte(v) \o kFullRedaction \o SubSeq(v, a, Len(v))
<1> DEFINE ats == {i \in DOMAIN v : v[i] = "@"}
           at == CHOOSE i \in ats : TRUE
<1>1. DOMAIN v = 1 .. Len(v)
  OBVIOUS
<1>2. ats = {a}
  BY <1>1 DEF AddressAt
<1>3. Cardinality(ats) = 1 /\ 1 \notin ats /\ Len(v) \notin ats
  BY <1>2, FS_Singleton DEF AddressAt
<1>4. at = a
  BY <1>2
<1>5. mask_email(v) = IF Cardinality(ats) # 1 \/ 1 \in ats \/ Len(v) \in ats
                      THEN kFullRedaction
                      ELSE FirstByte(v) \o kFullRedaction \o SubSeq(v, at, Len(v))
  BY DEF mask_email, FirstByte
<1> HIDE DEF ats, at
<1> QED
  BY <1>3, <1>4, <1>5

LEMMA MaskedNoAddress ==
  ASSUME NEW X, NEW v \in Seq(X), \A a \in 1 .. Len(v) : ~AddressAt(v, a)
  PROVE  mask_email(v) = kFullRedaction
<1> DEFINE ats == {i \in DOMAIN v : v[i] = "@"}
           at == CHOOSE i \in ats : TRUE
<1>1. DOMAIN v = 1 .. Len(v) /\ Len(v) \in Nat
  OBVIOUS
<1>2. IsFiniteSet(ats)
  <2>1. IsFiniteSet(1 .. Len(v))
    BY <1>1, FS_Interval
  <2> QED
    BY <1>1, <2>1, FS_Subset
<1>3. ASSUME Cardinality(ats) = 1, 1 \notin ats, Len(v) \notin ats
      PROVE  FALSE
  <2>1. PICK x : ats = {x}
    BY <1>2, <1>3, FS_Singleton
  <2>2. AddressAt(v, x)
    BY <1>1, <1>3, <2>1 DEF AddressAt
  <2> QED
    BY <1>1, <2>1, <2>2
<1>4. mask_email(v) = IF Cardinality(ats) # 1 \/ 1 \in ats \/ Len(v) \in ats
                      THEN kFullRedaction
                      ELSE FirstByte(v) \o kFullRedaction \o SubSeq(v, at, Len(v))
  BY DEF mask_email, FirstByte
<1> HIDE DEF ats, at
<1> QED
  BY <1>3, <1>4

(* w is v but for what stands behind its first byte and before or at i,     *)
(* where it has k bytes more.                                               *)
DiffersBefore(v, w, i, k) ==
  /\ Len(w) = Len(v) + k /\ w[1] = v[1]
  /\ \A j \in 1 .. i : v[j] # "@"
  /\ \A j \in 1 .. i + k : w[j] # "@"
  /\ \A j \in i + 1 .. Len(v) : w[j + k] = v[j]

(* Values that differ in the local part alone mask alike. *)
LEMMA LocalPartDoesNotShow ==
  ASSUME NEW X, NEW v \in Seq(X), NEW w \in Seq(X),
         NEW i \in 1 .. Len(v), NEW k \in Nat, DiffersBefore(v, w, i, k)
  PROVE  mask_email(w) = mask_email(v)
<1>1. /\ Len(v) \in Nat /\ Len(w) \in Nat /\ i \in Nat
      /\ Len(w) = Len(v) + k /\ w[1] = v[1]
      /\ \A j \in 1 .. i : v[j] # "@"
      /\ \A j \in 1 .. i + k : w[j] # "@"
      /\ \A j \in i + 1 .. Len(v) : w[j + k] = v[j]
  BY DEF DiffersBefore
<1>2. ASSUME NEW a \in 1 .. Len(v), AddressAt(v, a)
      PROVE  /\ AddressAt(w, a + k)
             /\ SubSeq(w, a + k, Len(w)) = SubSeq(v, a, Len(v))
  <2>1. a \in i + 1 .. Len(v) /\ a # Len(v) /\ v[a] = "@"
    BY <1>1, <1>2 DEF AddressAt
  <2>2. a + k \in 1 .. Len(w) /\ a + k # 1 /\ a + k # Len(w) /\ w[a + k] = "@"
    BY <1>1, <2>1
  <2>3. ASSUME NEW j \in 1 .. Len(w), w[j] = "@"
        PROVE  j = a + k
    <3>1. ~(j \in 1 .. i + k)
      BY <1>1, <2>3
    <3>2. j - k \in i + 1 .. Len(v) /\ (j - k) + k = j
      BY <1>1, <3>1
    <3>3. v[j - k] = "@" /\ j - k \in 1 .. Len(v)
      BY <1>1, <2>3, <3>2
    <3>4. j - k = a
      BY <1>2, <3>3 DEF AddressAt
    <3> QED
      BY <1>1, <3>4
  <2>4. AddressAt(w, a + k)
    BY <2>2, <2>3 DEF AddressAt
  <2> DEFINE p == SubSeq(w, a + k, Len(w))
             q == SubSeq(v, a, Len(v))
             n == Len(v) - a + 1
  <2>5. /\ \A j \in a .. Len(v) : v[j] \in X
        /\ \A j \in a + k .. Len(w) : w[j] \in X
    BY <1>1, <2>1
  <2>6. /\ q \in Seq(X) /\ Len(q) = n /\ \A j \in 1 .. n : q[j] = v[a + j - 1]
    BY <1>1, <2>1, <2>5, SubSeqProperties
  <2>7. /\ p \in Seq(X) /\ Len(p) = IF a + k <= Len(w) THEN Len(w) - (a + k) + 1 ELSE 0
        /\ \A j \in 1 .. Len(w) - (a + k) + 1 : p[j] = w[a + k + j - 1]
    BY <1>1, <2>1, <2>5, SubSeqProperties
  <2>8. Len(w) - (a + k) + 1 = n /\ a + k <= Len(w)
    BY <1>1, <2>1
  <2> HIDE DEF p, q
  <2>9. ASSUME NEW j \in 1 .. n
        PROVE  p[j] = q[j]
    <3>1. a + j - 1 \in i + 1 .. Len(v) /\ (a + j - 1) + k = a + k + j - 1
      BY <1>1, <2>1
    <3>2. w[(a + j - 1) + k] = v[a + j - 1]
      BY <1>1, <3>1
    <3>3. p[j] = w[a + k + j - 1] /\ q[j] = v[a + j - 1]
      BY <2>6, <2>7, <2>8
    <3> QED
      BY <3>1, <3>2, <3>3
  <2>10. p = q
    BY <2>6, <2>7, <2>8, <2>9, SeqEqual
  <2> QED
    BY <2>4, <2>10 DEF p, q
<1>3. ASSUME NEW b \in 1 .. Len(w), AddressAt(w, b)
      PROVE  b - k \in 1 .. Len(v) /\ AddressAt(v, b - k)
  <2>1. ~(b \in 1 .. i + k) /\ b # Len(w) /\ w[b] = "@"
    BY <1>1, <1>3 DEF AddressAt
  <2>2. /\ b - k \in i + 1 .. Len(v) /\ (b - k) + k = b
        /\ b - k \in 1 .. Len(v) /\ b - k # 1 /\ b - k # Len(v)
    BY <1>1, <2>1
  <2>3. v[b - k] = "@"
    BY <1>1, <2>1, <2>2
  <2>4. ASSUME NEW j \in 1 .. Len(v), v[j] = "@"
        PROVE  j = b - k
    <3>1. j \in i + 1 .. Len(v) /\ j + k \in 1 .. Len(w)
      BY <1>1, <2>4
    <3>2. w[j + k] = "@"
      BY <1>1, <2>4, <3>1
    <3>3. j + k = b
      BY <1>3, <3>1, <3>2 DEF AddressAt
    <3> QED
      BY <1>1, <3>3
  <2> QED
    BY <2>2, <2>3, <2>4 DEF AddressAt
<1>4. CASE \E a \in 1 .. Len(v) : AddressAt(v, a)
  <2>1. PICK a \in 1 .. Len(v) : AddressAt(v, a)
    BY <1>4
  <2>2. AddressAt(w, a + k) /\ SubSeq(w, a + k, Len(w)) = SubSeq(v, a, Len(v))
    BY <1>2, <2>1
  <2>3. mask_email(v) = FirstByte(v) \o kFullRedaction \o SubSeq(v, a, Len(v))
    BY <2>1, MaskedAddress
  <2>4. mask_email(w) = FirstByte(w) \o kFullRedaction \o SubSeq(w, a + k, Len(w))
    BY <2>2, MaskedAddress
  <2>5. FirstByte(w) = FirstByte(v)
    BY <1>1 DEF FirstByte
  <2> QED
    BY <2>2, <2>3, <2>4, <2>5
<1>5. CASE ~(\E a \in 1 .. Len(v) : AddressAt(v, a))
  <2>1. mask_email(v) = kFullRedaction
    BY <1>5, MaskedNoAddress
  <2>2. \A b \in 1 .. Len(w) : ~AddressAt(w, b)
    BY <1>3, <1>5
  <2> QED
    BY <2>1, <2>2, MaskedNoAddress
<1> QED
  BY <1>4, <1>5

(* A byte changed. *)
LEMMA ByteChanged ==
  ASSUME NEW X, NEW v \in Seq(X), NEW i \in 2 .. Len(v), NEW c \in X, c # "@",
         \A j \in 1 .. i : v[j] # "@"
  PROVE  mask_email([v EXCEPT ![i] = c]) = mask_email(v)
<1> DEFINE w == [v EXCEPT ![i] = c]
<1>1. /\ w \in Seq(X) /\ Len(w) = Len(v) /\ Len(v) \in Nat
      /\ \A j \in 1 .. Len(v) : w[j] = IF j = i THEN c ELSE v[j]
  OBVIOUS
<1> HIDE DEF w
<1>2. DiffersBefore(v, w, i, 0)
  BY <1>1 DEF DiffersBefore
<1>3. mask_email(w) = mask_email(v)
  BY <1>1, <1>2, LocalPartDoesNotShow
<1> QED
  BY <1>3 DEF w

(* A byte inserted. *)
LEMMA ByteInserted ==
  ASSUME NEW X, NEW v \in Seq(X), NEW i \in 2 .. Len(v), NEW c \in X, c # "@",
         \A j \in 1 .. i : v[j] # "@"
  PROVE  mask_email(SubSeq(v, 1, i - 1) \o <<c>> \o SubSeq(v, i, Len(v))) = mask_email(v)
<1> DEFINE p == SubSeq(v, 1, i - 1)
           q == SubSeq(v, i, Len(v))
           w == p \o <<c>> \o q
<1>1. Len(v) \in Nat /\ i \in Nat /\ \A j \in 1 .. Len(v) : v[j] \in X
  OBVIOUS
<1>2. p \in Seq(X) /\ Len(p) = i - 1 /\ \A j \in 1 .. i - 1 : p[j] = v[j]
  <2>1. \A j \in 1 .. i - 1 : v[j] \in X
    BY <1>1
  <2>2. /\ p \in Seq(X) /\ Len(p) = IF 1 <= i - 1 THEN (i - 1) - 1 + 1 ELSE 0
        /\ \A j \in 1 .. (i - 1) - 1 + 1 : p[j] = v[1 + j - 1]
    BY <1>1, <2>1, SubSeqProperties
  <2>3. (i - 1) - 1 + 1 = i - 1 /\ 1 <= i - 1 /\ \A j \in 1 .. i - 1 : 1 + j - 1 = j
    BY <1>1
  <2> HIDE DEF p
  <2> QED
    BY <2>2, <2>3
<1>3. q \in Seq(X) /\ Len(q) = Len(v) - i + 1 /\ \A j \in 1 .. Len(v) - i + 1 : q[j] = v[i + j - 1]
  <2>1. \A j \in i .. Len(v) : v[j] \in X
    BY <1>1
  <2> QED
    BY <1>1, <2>1, SubSeqProperties
<1> HIDE DEF p, q
<1>4. <<c>> \in Seq(X) /\ Len(<<c>>) = 1 /\ <<c>>[1] = c
  OBVIOUS
<1>5. /\ p \o <<c>> \in Seq(X) /\ Len(p \o <<c>>) = i
      /\ \A j \in 1 .. i : (p \o <<c>>)[j] = IF j = i THEN c ELSE v[j]
  <2>1. /\ p \o <<c>> \in Seq(X) /\ Len(p \o <<c>>) = Len(p) + Len(<<c>>)
        /\ \A j \in 1 .. Len(p) + Len(<<c>>) :
             (p \o <<c>>)[j] = IF j <= Len(p) THEN p[j] ELSE <<c>>[j - Len(p)]
    BY <1>2, <1>4, ConcatProperties
  <2>2. Len(p) + Len(<<c>>) = i
    BY <1>1, <1>2, <1>4
  <2>3. ASSUME NEW j \in 1 .. i
        PROVE  (p \o <<c>>)[j] = IF j = i THEN c ELSE v[j]
    <3>1. CASE j = i
      <4>1. ~(j <= Len(p)) /\ j - Len(p) = 1
        BY <1>1, <1>2, <3>1
      <4> QED
        BY <1>4, <2>1, <2>2, <3>1, <4>1
    <3>2. CASE j # i
      <4>1. j <= Len(p) /\ j \in 1 .. i - 1
        BY <1>1, <1>2, <3>2
      <4> QED
        BY <1>2, <2>1, <2>2, <3>2, <4>1
    <3> QED
      BY <3>1, <3>2
  <2> QED
    BY <2>1, <2>2, <2>3
<1> DEFINE pc == p \o <<c>>
<1> HIDE DEF pc
<1>6. /\ w \in Seq(X) /\ Len(w) = i + (Len(v) - i + 1)
      /\ \A j \in 1 .. i + (Len(v) - i + 1) : w[j] = IF j <= i THEN pc[j] ELSE q[j - i]
  <2>1. pc \in Seq(X) /\ Len(pc) = i
    BY <1>5 DEF pc
  <2>2. /\ pc \o q \in Seq(X) /\ Len(pc \o q) = Len(pc) + Len(q)
        /\ \A j \in 1 .. Len(pc) + Len(q) :
             (pc \o q)[j] = IF j <= Len(pc) THEN pc[j] ELSE q[j - Len(pc)]
    BY <1>3, <2>1, ConcatProperties
  <2>3. w = pc \o q
    BY DEF pc
  <2> HIDE DEF w
  <2> QED
    BY <1>3, <2>1, <2>2, <2>3
<1> HIDE DEF w
<1>7. i + (Len(v) - i + 1) = Len(v) + 1
  BY <1>1
<1>8. ASSUME NEW j \in 1 .. i
      PROVE  w[j] = IF j = i THEN c ELSE v[j]
  <2>1. j <= i /\ j \in 1 .. i + (Len(v) - i + 1)
    BY <1>1
  <2> QED
    BY <1>5, <1>6, <2>1 DEF pc
<1>9. ASSUME NEW j \in i .. Len(v)
      PROVE  w[j + 1] = v[j]
  <2>1. /\ ~(j + 1 <= i) /\ j + 1 \in 1 .. i + (Len(v) - i + 1)
        /\ (j + 1) - i \in 1 .. Len(v) - i + 1 /\ i + ((j + 1) - i) - 1 = j
    BY <1>1
  <2> QED
    BY <1>3, <1>6, <2>1
<1>10. DiffersBefore(v, w, i, 1)
  <2>1. Len(w) = Len(v) + 1
    BY <1>6, <1>7
  <2>2. w[1] = v[1]
    BY <1>1, <1>8
  <2>3. ASSUME NEW j \in 1 .. i + 1
        PROVE  w[j] # "@"
    <3>1. CASE j \in 1 .. i
      BY <1>8, <3>1
    <3>2. CASE j = i + 1
      <4>1. i \in i .. Len(v) /\ i \in 1 .. i
        BY <1>1
      <4> QED
        BY <1>9, <3>2, <4>1
    <3> QED
      BY <1>1, <3>1, <3>2
  <2>4. \A j \in i + 1 .. Len(v) : j \in i .. Len(v)
    BY <1>1
  <2> QED
    BY <1>9, <2>1, <2>2, <2>3, <2>4 DEF DiffersBefore
<1>11. i \in 1 .. Len(v) /\ 1 \in Nat
  BY <1>1
<1>12. mask_email(w) = mask_email(v)
  BY <1>6, <1>10, <1>11, LocalPartDoesNotShow
<1> QED
  BY <1>12 DEF w, p, q

(* mask_email: but for its first byte, nothing of the local part has any     *)
(* influence on the output, neither its bytes nor how many they are.         *)
THEOREM LocalPartsAreHidden == Spec => []LocalPartIsHidden
<1>1. MaskInv => LocalPartIsHidden
  <2> SUFFICES ASSUME MaskInv, category = "Email", NEW i \in 2 .. Len(value),
                      \A j \in 1 .. i : value[j] # "@", NEW c \in Letters \cup NonAscii
               PROVE  /\ mask_email([value EXCEPT ![i] = c]) = masked
                      /\ mask_email(SubSeq(value, 1, i - 1) \o <<c>>
                                      \o SubSeq(value, i, Len(value))) = masked
    BY DEF LocalPartIsHidden
  <2>1. value \in Seq(EmailBytes) /\ c \in EmailBytes
    BY DEF MaskInv, EmailBytes
  <2>2. c # "@"
    BY LettersAssumption, NonAsciiAssumption
  <2>3. masked = mask_email(value)
    BY DEF masked, mask_value
  <2> QED
    BY <2>1, <2>2, <2>3, ByteChanged, ByteInserted
<1> QED
  BY <1>1, MaskInvAlways, PTL

(* A masked address, byte by byte: n bytes that are stars but perhaps the    *)
(* first, then the value from its '@' on.                                    *)
MaskedAs(m, v, a, n) ==
  /\ Len(m) = n + (Len(v) - a + 1)
  /\ \A j \in n - 2 .. n : m[j] = "*"
  /\ n = 4 => m[1] = v[1] /\ v[1] \notin NonAscii
  /\ \A j \in n + 1 .. Len(m) : m[j] = v[a + (j - n) - 1]

LEMMA AddressBytes ==
  ASSUME NEW X, NEW v \in Seq(X), NEW a, AddressAt(v, a)
  PROVE  /\ mask_email(v) \in Seq(X \cup {"*"})
         /\ \E n \in {3, 4} : MaskedAs(mask_email(v), v, a, n)
<1> DEFINE Y == X \cup {"*"}
           F == FirstByte(v)
           R == kFullRedaction
           q == SubSeq(v, a, Len(v))
           n == Len(F) + 3
           pre == F \o R
<1>1. Len(v) \in Nat /\ a \in 2 .. Len(v) - 1 /\ \A j \in 1 .. Len(v) : v[j] \in Y
  BY DEF AddressAt
<1>2. q \in Seq(Y) /\ Len(q) = Len(v) - a + 1 /\ \A j \in 1 .. Len(v) - a + 1 : q[j] = v[a + j - 1]
  <2>1. \A j \in a .. Len(v) : v[j] \in Y
    BY <1>1
  <2> HIDE DEF Y
  <2> QED
    BY <1>1, <2>1, SubSeqProperties
<1>3. R \in Seq(Y) /\ Len(R) = 3 /\ \A j \in 1 .. 3 : R[j] = "*"
  BY DEF kFullRedaction
<1>4. \/ F = <<>>
      \/ F = <<v[1]>> /\ v[1] \notin NonAscii
  BY DEF FirstByte
<1>5. /\ F \in Seq(Y) /\ Len(F) \in {0, 1}
      /\ Len(F) = 1 => F[1] = v[1] /\ v[1] \notin NonAscii
  <2>1. v[1] \in Y
    BY <1>1
  <2>2. <<>> \in Seq(Y) /\ Len(<<>>) = 0 /\ <<v[1]>> \in Seq(Y) /\ Len(<<v[1]>>) = 1
        /\ <<v[1]>>[1] = v[1]
    BY <2>1
  <2> HIDE DEF F, Y
  <2>3. CASE F = <<>>
    BY <2>2, <2>3
  <2>4. CASE F = <<v[1]>> /\ v[1] \notin NonAscii
    BY <2>2, <2>4
  <2> QED
    BY <1>4, <2>3, <2>4
<1>6. mask_email(v) = pre \o q
  BY MaskedAddress
<1> HIDE DEF Y, F, R, q
<1>7. /\ pre \in Seq(Y) /\ Len(pre) = Len(F) + Len(R)
      /\ \A j \in 1 .. Len(F) + Len(R) : pre[j] = IF j <= Len(F) THEN F[j] ELSE R[j - Len(F)]
  BY <1>3, <1>5, ConcatProperties
<1> HIDE DEF pre
<1>8. /\ pre \o q \in Seq(Y) /\ Len(pre \o q) = Len(pre) + Len(q)
      /\ \A j \in 1 .. Len(pre) + Len(q) :
           (pre \o q)[j] = IF j <= Len(pre) THEN pre[j] ELSE q[j - Len(pre)]
  <2>1. pre \in Seq(Y) /\ q \in Seq(Y)
    BY <1>2, <1>7
  <2> QED
    BY <2>1, ConcatProperties, Zenon
<1> DEFINE m == mask_email(v)
<1>9. m \in Seq(Y) /\ Len(m) = n + (Len(v) - a + 1) /\ n \in {3, 4} /\ Len(pre) = n
  <2>1. n \in {3, 4}
    <3>1. \A x \in {0, 1} : x + 3 \in {3, 4}
      OBVIOUS
    <3> QED
      BY <1>5, <3>1
  <2>2. Len(pre) = n
    BY <1>3, <1>7
  <2>3. m \in Seq(Y) /\ Len(m) = Len(pre) + Len(q)
    BY <1>6, <1>8
  <2> QED
    BY <1>2, <2>1, <2>2, <2>3
<1>10. \A j \in 1 .. Len(m) : m[j] = IF j <= n THEN pre[j] ELSE q[j - n]
  BY <1>2, <1>6, <1>8, <1>9
<1> HIDE DEF m
<1>11. ASSUME NEW j \in n - 2 .. n
       PROVE  m[j] = "*"
  <2>1. j \in 1 .. Len(m) /\ j <= n
    BY <1>1, <1>9
  <2>2. j \in 1 .. Len(F) + Len(R) /\ ~(j <= Len(F)) /\ j - Len(F) \in 1 .. 3
    BY <1>3, <1>5
  <2>3. m[j] = pre[j] /\ pre[j] = R[j - Len(F)]
    BY <1>7, <1>10, <2>1, <2>2
  <2> QED
    BY <1>3, <2>2, <2>3
<1>12. ASSUME n = 4
       PROVE  m[1] = v[1] /\ v[1] \notin NonAscii
  <2>1. Len(F) = 1
    BY <1>5, <1>12
  <2>2. 1 \in 1 .. Len(m) /\ 1 <= n /\ 1 \in 1 .. Len(F) + Len(R) /\ 1 <= Len(F)
    BY <1>1, <1>3, <1>9, <1>12, <2>1
  <2>3. m[1] = pre[1] /\ pre[1] = F[1]
    BY <1>7, <1>10, <2>2
  <2> QED
    BY <1>5, <2>1, <2>3
<1>13. ASSUME NEW j \in n + 1 .. Len(m)
       PROVE  m[j] = v[a + (j - n) - 1]
  <2>1. j \in 1 .. Len(m) /\ ~(j <= n) /\ j - n \in 1 .. Len(v) - a + 1
    BY <1>1, <1>9
  <2> QED
    BY <1>2, <1>10, <2>1
<1> HIDE DEF n
<1> QED
  BY <1>9, <1>11, <1>12, <1>13 DEF m, Y, MaskedAs

(* Stars and digits are ASCII. *)
LEMMA PlainBytes ==
  /\ \A c \in Digits \cup {"*", "@"} : c # Lead /\ c # Continuation
  /\ Lead # Continuation
BY DEF Digits, Lead, Continuation

LEMMA PlainIsUtf8 ==
  ASSUME NEW s \in Seq(Digits \cup {"*"})
  PROVE  IsUtf8(s)
<1>1. \A i \in DOMAIN s : s[i] # Lead /\ s[i] # Continuation
  BY PlainBytes
<1> QED
  BY <1>1 DEF IsUtf8

(* A masked address is text when the address is. *)
LEMMA AddressKeepsUtf8 ==
  ASSUME NEW v \in Seq(EmailBytes), NEW a, AddressAt(v, a), IsUtf8(v)
  PROVE  IsUtf8(mask_email(v))
<1> DEFINE m == mask_email(v)
<1>1. PICK n \in {3, 4} :
        /\ m \in Seq(EmailBytes \cup {"*"}) /\ Len(m) = n + (Len(v) - a + 1)
        /\ \A j \in n - 2 .. n : m[j] = "*"
        /\ n = 4 => m[1] = v[1] /\ v[1] \notin NonAscii
        /\ \A j \in n + 1 .. Len(m) : m[j] = v[a + (j - n) - 1]
  <2>1. m \in Seq(EmailBytes \cup {"*"}) /\ \E n \in {3, 4} : MaskedAs(m, v, a, n)
    BY AddressBytes
  <2> QED
    BY <2>1 DEF MaskedAs
<1> HIDE DEF m
<1>2. Len(v) \in Nat /\ a \in 2 .. Len(v) - 1 /\ v[a] = "@" /\ n \in Nat
  BY DEF AddressAt
<1>3. DOMAIN m = 1 .. Len(m) /\ DOMAIN v = 1 .. Len(v)
  BY <1>1
<1>4. ASSUME NEW j \in 1 .. n
      PROVE  m[j] # Lead /\ m[j] # Continuation
  <2>1. CASE j \in n - 2 .. n
    BY <1>1, <2>1, PlainBytes
  <2>2. CASE n = 4 /\ j = 1
    <3>1. m[j] \in Letters \cup {"@", "*"}
      BY <1>1, <1>2, <2>2 DEF EmailBytes
    <3> QED
      BY <3>1, LettersAssumption, PlainBytes
  <2> QED
    BY <1>1, <2>1, <2>2
<1>5. ASSUME NEW j \in n + 1 .. Len(m)
      PROVE  /\ m[j] = Lead => j < Len(m) /\ m[j + 1] = Continuation
             /\ m[j] = Continuation => j > 1 /\ m[j - 1] = Lead
  <2> DEFINE k == a + (j - n) - 1
  <2>1. k \in a .. Len(v) /\ k \in 1 .. Len(v) /\ m[j] = v[k]
    BY <1>1, <1>2
  <2>2. ASSUME m[j] = Lead
        PROVE  j < Len(m) /\ m[j + 1] = Continuation
    <3>1. k < Len(v) /\ v[k + 1] = Continuation
      BY <1>3, <2>1, <2>2 DEF IsUtf8
    <3>2. j + 1 \in n + 1 .. Len(m) /\ a + ((j + 1) - n) - 1 = k + 1 /\ j < Len(m)
      BY <1>1, <1>2, <3>1
    <3> QED
      BY <1>1, <3>1, <3>2
  <2>3. ASSUME m[j] = Continuation
        PROVE  j > 1 /\ m[j - 1] = Lead
    <3>1. v[k - 1] = Lead
      BY <1>3, <2>1, <2>3 DEF IsUtf8
    <3>2. k # a
      BY <1>2, <2>1, <2>3, PlainBytes
    <3>3. j - 1 \in n + 1 .. Len(m) /\ a + ((j - 1) - n) - 1 = k - 1 /\ j > 1
      BY <1>1, <1>2, <2>1, <3>2
    <3> QED
      BY <1>1, <3>1, <3>3
  <2> QED
    BY <2>2, <2>3
<1>6. \A j \in 1 .. Len(m) : j \in 1 .. n \/ j \in n + 1 .. Len(m)
  BY <1>1, <1>2
<1>7. IsUtf8(m)
  BY <1>3, <1>4, <1>5, <1>6 DEF IsUtf8
<1> QED
  BY <1>7 DEF m

(* The three masking rules make no text that the response could not hold of *)
(* text that it could.                                                       *)
THEOREM MaskedTextIsText == Spec => []MaskingKeepsUtf8
<1>1. MaskInv => MaskingKeepsUtf8
  <2> SUFFICES ASSUME MaskInv, IsUtf8(value) PROVE IsUtf8(masked)
    BY DEF MaskingKeepsUtf8
  <2>1. CASE category # "Email"
    <3>1. category \in {"Phone", "CreditCard"} /\ value \in Seq(NumberBytes)
      BY <2>1 DEF MaskInv
    <3>2. masked \in Seq(Digits \cup {"*"})
      BY <3>1, NumberShown DEF masked
    <3> QED
      BY <3>2, PlainIsUtf8
  <2>2. CASE category = "Email"
    <3>1. value \in Seq(EmailBytes) /\ masked = mask_email(value)
      BY <2>2 DEF MaskInv, masked, mask_value
    <3>2. CASE \E a \in 1 .. Len(value) : AddressAt(value, a)
      BY <3>1, <3>2, AddressKeepsUtf8
    <3>3. CASE ~(\E a \in 1 .. Len(value) : AddressAt(value, a))
      <4>1. masked = kFullRedaction
        BY <3>1, <3>3, MaskedNoAddress
      <4>2. kFullRedaction \in Seq(Digits \cup {"*"})
        BY DEF kFullRedaction
      <4> QED
        BY <4>1, <4>2, PlainIsUtf8
    <3> QED
      BY <3>2, <3>3
  <2> QED
    BY <2>1, <2>2
<1> QED
  BY <1>1, MaskInvAlways, PTL

(* pii_masker.h: no value of a PII column comes out as it went in, but one   *)
(* that has the masked form already.                                         *)
THEOREM ValuesChange == Spec => []UnchangedOnlyIfMasked
<1>1. MaskInv => UnchangedOnlyIfMasked
  <2> SUFFICES ASSUME MaskInv, value # <<>>, masked = value, value # kFullRedaction
               PROVE  /\ category = "Email"
                      /\ \E i \in {1, 2} :
                           /\ i + 3 <= Len(value)
                           /\ SubSeq(value, i, i + 3) = kFullRedaction \o <<"@">>
    BY DEF UnchangedOnlyIfMasked
  <2>1. category = "Email"
    <3> SUFFICES ASSUME category # "Email" PROVE FALSE
      OBVIOUS
    <3>1. category \in {"Phone", "CreditCard"} /\ value \in Seq(NumberBytes)
      BY DEF MaskInv
    <3>2. value[1] = "*" /\ Len(value) # 0
      BY <3>1, NumberShown DEF masked
    <3>3. value[1] \in NumberBytes
      BY <3>1, <3>2
    <3>4. "*" \notin NumberBytes
      BY DEF NumberBytes, Digits
    <3> QED
      BY <3>2, <3>3, <3>4
  <2>2. value \in Seq(EmailBytes) /\ value = mask_email(value)
    BY <2>1 DEF MaskInv, masked, mask_value
  <2>3. PICK a \in 1 .. Len(value) : AddressAt(value, a)
    BY <2>2, MaskedNoAddress
  <2>4. PICK n \in {3, 4} :
          /\ Len(value) = n + (Len(value) - a + 1)
          /\ \A j \in n - 2 .. n : value[j] = "*"
          /\ \A j \in n + 1 .. Len(value) : value[j] = value[a + (j - n) - 1]
    <3>1. \E n \in {3, 4} : MaskedAs(value, value, a, n)
      BY <2>2, <2>3, AddressBytes
    <3> QED
      BY <3>1 DEF MaskedAs
  <2>5. Len(value) \in Nat /\ a \in 2 .. Len(value) - 1 /\ value[a] = "@"
    BY <2>2, <2>3 DEF AddressAt
  <2>6. n + 1 = a /\ n + 1 <= Len(value) /\ value[n + 1] = "@"
    BY <2>4, <2>5
  <2> DEFINE i == n - 2
             s == SubSeq(value, i, i + 3)
             t == kFullRedaction \o <<"@">>
  <2>7. i \in {1, 2} /\ i + 3 <= Len(value) /\ i + 3 = n + 1 /\ i \in Int
    BY <2>4, <2>6
  <2>8. /\ s \in Seq(EmailBytes) /\ Len(s) = 4
        /\ \A j \in 1 .. 4 : s[j] = value[i + j - 1]
    <3>1. \A j \in i .. i + 3 : value[j] \in EmailBytes
      BY <2>2, <2>5, <2>7
    <3>2. (i + 3) - i + 1 = 4 /\ i <= i + 3
      BY <2>7
    <3>3. /\ s \in Seq(EmailBytes) /\ Len(s) = IF i <= i + 3 THEN (i + 3) - i + 1 ELSE 0
          /\ \A j \in 1 .. (i + 3) - i + 1 : s[j] = value[i + j - 1]
      BY <2>7, <3>1, SubSeqProperties
    <3> HIDE DEF s, i
    <3> QED
      BY <3>2, <3>3
  <2>9. t \in Seq({"*", "@"}) /\ Len(t) = 4 /\ t[1] = "*" /\ t[2] = "*" /\ t[3] = "*" /\ t[4] = "@"
    BY DEF kFullRedaction
  <2> HIDE DEF s, t
  <2>10. s[1] = "*" /\ s[2] = "*" /\ s[3] = "*" /\ s[4] = "@"
    BY <2>4, <2>6, <2>7, <2>8
  <2>11. \A j \in 1 .. 4 : s[j] = t[j]
    BY <2>9, <2>10
  <2>12. s = t
    <3>1. t \in Seq(EmailBytes)
      BY <2>9 DEF EmailBytes
    <3> QED
      BY <2>8, <2>9, <2>11, <3>1, SeqEqual
  <2> QED
    BY <2>1, <2>7, <2>12 DEF s, t
<1> QED
  BY <1>1, MaskInvAlways, PTL
==============================================================================

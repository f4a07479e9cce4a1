---------------------------- MODULE MaskedValues ----------------------------
(***************************************************************************)
(* What the three masking rules of core/pii_masker.cpp reveal, over every  *)
(* small value: a value grows byte by byte, and in every state it is       *)
(* masked as the category of its column says.  The k-th digit of a value   *)
(* is k mod 10, so that it shows in the output which digits were kept.     *)
(***************************************************************************)
EXTENDS PiiMasker, Utf8

CONSTANTS Letters,     \* the ASCII bytes of names and domains
          MaxEmail,    \* bound: bytes of an email value
          MaxNumber,   \* bound: bytes of a phone or card value
          MaxOther     \* bound: bytes of it that are no digits

(* The bytes that mean something to the masker or to UTF-8 are no letters. *)
ASSUME LettersAssumption == Letters \cap {"@", Lead, Continuation} = {}

(* '@' is an ASCII byte. *)
ASSUME NonAsciiAssumption == "@" \notin NonAscii

VARIABLES category, value

vars == <<category, value>>

NthDigit == <<"1", "2", "3", "4", "5", "6", "7", "8", "9", "0">>

Init == category \in {"Email", "Phone", "CreditCard"} /\ value = <<>>

AppendByte(c) == value' = Append(value, c) /\ UNCHANGED category

Type ==
  /\ category = "Email" /\ Len(value) < MaxEmail
  /\ \E c \in Letters \cup NonAscii \cup {"@", "*"} : AppendByte(c)

Dial ==
  /\ category # "Email" /\ Len(value) < MaxNumber
  /\ AppendByte(NthDigit[(Len(DigitsOf(value)) % 10) + 1])

Separate ==
  /\ category # "Email" /\ Len(value) < MaxNumber
  /\ Len(value) - Len(DigitsOf(value)) < MaxOther
  /\ \E c \in {"-", "x"} : AppendByte(c)

Next == Type \/ Dial \/ Separate

Spec == Init /\ [][Next]_vars

----------------------------------------------------------------------------
masked == mask_value(category, value)

(* A masked number shows its last four digits or none, and shows them only  *)
(* when enough others stay hidden: three of a phone number's, eight of a    *)
(* card's.  Nothing else of the value is in the output, its length neither: *)
(* there are as many stars however many digits they hide.                   *)
NumbersShowLastFourAtMost ==
  (category # "Email" /\ value # <<>>) =>
    LET digits == DigitsOf(value)
        shown == DigitsOf(masked)
        hidden == Len(digits) - Len(shown)
    IN  /\ Len(shown) \in {0, 4}
        /\ shown = SubSeq(digits, hidden + 1, Len(digits))
        /\ shown # <<>> => hidden >= IF category = "Phone" THEN 3 ELSE 8
        /\ \A i \in DOMAIN masked : masked[i] \in Digits \cup {"*"}
        /\ Len(masked) - Len(shown) = IF shown # <<>> /\ category = "CreditCard" THEN 4 ELSE 3

(* A card number is never shown in part when the value holds anything but   *)
(* digits, blanks and hyphens, and a long enough one always is shown.       *)
CardsShownIffWellFormed ==
  (category = "CreditCard" /\ value # <<>>) =>
    (DigitsOf(masked) # <<>> <=>
       /\ \A i \in DOMAIN value : value[i] # "x"
       /\ Len(DigitsOf(value)) >= 12)

(* The local part of an email is hidden but for its first byte: changing    *)
(* or inserting a byte behind the first one changes nothing in the output.  *)
LocalPartIsHidden ==
  category = "Email" =>
    \A i \in 2 .. Len(value) :
      (\A j \in 1 .. i : value[j] # "@") =>
        \A c \in Letters \cup NonAscii :
           /\ mask_email([value EXCEPT ![i] = c]) = masked
           /\ mask_email(SubSeq(value, 1, i - 1) \o <<c>> \o SubSeq(value, i, Len(value)))
                = masked

(* "Never emit a partial multibyte character": what was UTF-8 before is     *)
(* UTF-8 after, so that masking never makes a value routes.cpp cannot       *)
(* render.                                                                  *)
MaskingKeepsUtf8 == (value # <<>> /\ IsUtf8(value)) => IsUtf8(masked)

(* pii_masker.h: "every OTHER value in a Pii column changes, malformed       *)
(* values fall back to "***" and are never returned unchanged": what does    *)
(* come out as it went in has the masked form already.                       *)
UnchangedOnlyIfMasked ==
  (value # <<>> /\ masked = value) =>
    \/ value = kFullRedaction
    \/ category = "Email"
       /\ \E i \in {1, 2} :
            i + 3 <= Len(value) /\ SubSeq(value, i, i + 3) = kFullRedaction \o <<"@">>
=============================================================================

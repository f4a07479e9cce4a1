------------------------------ MODULE PiiMasker ------------------------------
(***************************************************************************)
(* core/pii_masker.cpp: the transformation of the cells of PII columns.  A *)
(* value is the sequence of its bytes; a cell is <<value>>, or <<>> for    *)
(* SQL NULL (std::nullopt), so that NULL and the empty string differ.      *)
(***************************************************************************)
EXTENDS Naturals, FiniteSets, SequencesExt

CONSTANT NonAscii   \* the bytes from 0x80 on that values are built with

Digits == {"0", "1", "2", "3", "4", "5", "6", "7", "8", "9"}

NULL == <<>>
kFullRedaction == <<"*", "*", "*">>

(* The digits of a value, pushed back one by one. *)
DigitsOf(value) ==
  FlattenSeq([i \in DOMAIN value |-> IF value[i] \in Digits THEN <<value[i]>> ELSE <<>>])

LastFour(digits) == SubSeq(digits, Len(digits) - 3, Len(digits))

(* Fault: one star for each hidden byte. *)
mask_email_keeping_length(value) ==
  LET ats == {i \in DOMAIN value : value[i] = "@"}
      at == CHOOSE i \in ats : TRUE
  IN  IF Cardinality(ats) # 1 \/ 1 \in ats \/ Len(value) \in ats
      THEN kFullRedaction
      ELSE [i \in DOMAIN value |-> IF i \in 2 .. at - 1 THEN "*" ELSE value[i]]

(* Fault: the first byte is kept whatever it is. *)
mask_email_keeping_first_byte(value) ==
  LET ats == {i \in DOMAIN value : value[i] = "@"}
      at == CHOOSE i \in ats : TRUE
  IN  IF Cardinality(ats) # 1 \/ 1 \in ats \/ Len(value) \in ats
      THEN kFullRedaction
      ELSE <<value[1]>> \o kFullRedaction \o SubSeq(value, at, Len(value))

(* Fault: a value that is no address is left as it is. *)
mask_email_of_addresses(value) ==
  LET ats == {i \in DOMAIN value : value[i] = "@"}
      at == CHOOSE i \in ats : TRUE
  IN  IF Cardinality(ats) # 1 THEN value
      ELSE <<value[1]>> \o kFullRedaction \o SubSeq(value, at, Len(value))

mask_email(value) ==
  LET ats == {i \in DOMAIN value : value[i] = "@"}
      at == CHOOSE i \in ats : TRUE
      first == IF value[1] \in NonAscii THEN <<>> ELSE <<value[1]>>
  IN  IF Cardinality(ats) # 1 \/ 1 \in ats \/ Len(value) \in ats
      THEN kFullRedaction
      ELSE first \o kFullRedaction \o SubSeq(value, at, Len(value))

(* Fault: four digits are enough to show four. *)
mask_phone_from_four(value) ==
  LET digits == DigitsOf(value)
  IN  IF Len(digits) < 4 THEN kFullRedaction ELSE kFullRedaction \o LastFour(digits)

mask_phone(value) ==
  LET digits == DigitsOf(value)
  IN  IF Len(digits) < 7 THEN kFullRedaction ELSE kFullRedaction \o LastFour(digits)

(* Fault: whatever is no digit is skipped, as in a phone number. *)
mask_credit_card_skipping(value) ==
  LET digits == DigitsOf(value)
  IN  IF Len(digits) < 12 THEN kFullRedaction
      ELSE <<"*">> \o kFullRedaction \o LastFour(digits)

mask_credit_card(value) ==
  LET digits == DigitsOf(value)
  IN  IF \/ \E i \in DOMAIN value : value[i] \notin Digits \cup {" ", "-"}
         \/ Len(digits) < 12
      THEN kFullRedaction
      ELSE <<"*">> \o kFullRedaction \o LastFour(digits)

mask_value(category, value) ==
  CASE category = "Email" -> mask_email(value)
    [] category = "Phone" -> mask_phone(value)
    [] category = "CreditCard" -> mask_credit_card(value)

(* NULL stays NULL and "" stays "". *)
mask_cell(category, cell) ==
  IF cell \in {NULL, << <<>> >>} THEN cell ELSE <<mask_value(category, cell[1])>>

MaskingFailure(reason) == [masked |-> FALSE, reason |-> reason, rows |-> <<>>]

(* Phase 1 looks at the whole input before phase 2 touches a cell. *)
StructuralMismatch(result, classes) ==
  \/ Len(classes) # Len(result.columns)
  \/ \E r \in DOMAIN result.rows : Len(result.rows[r]) # Len(result.columns)

AnyUnattributed(classes) ==
  \E c \in DOMAIN classes : classes[c].data_class = "Unattributed"

InvalidClassification(classification) ==
  LET classes == classification.columns
  IN  \/ \E c \in DOMAIN classes :
           (classes[c].data_class = "Pii") # (classes[c].pii_category # "none")
      \/ classification.fully_attributed = AnyUnattributed(classes)

MaskRow(row, classes) ==
  [c \in DOMAIN row |-> IF classes[c].data_class = "Pii"
                        THEN mask_cell(classes[c].pii_category, row[c])
                        ELSE row[c]]

mask(result, classification) ==
  LET classes == classification.columns
  IN  IF StructuralMismatch(result, classes) THEN MaskingFailure("StructuralMismatch")
      ELSE IF InvalidClassification(classification)
      THEN MaskingFailure("InvalidClassification")
      ELSE IF AnyUnattributed(classes) THEN MaskingFailure("UnattributedColumn")
      ELSE [masked |-> TRUE, reason |-> "none",
            rows |-> [r \in DOMAIN result.rows |-> MaskRow(result.rows[r], classes)]]
==============================================================================

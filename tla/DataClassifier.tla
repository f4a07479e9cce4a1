--------------------------- MODULE DataClassifier ---------------------------
(***************************************************************************)
(* core/data_classifier.cpp: which columns of a result hold PII, decided   *)
(* from the statement's shape and from names, never from values.           *)
(***************************************************************************)
EXTENDS SqlVocabulary

Unattributed == [data_class |-> "Unattributed", pii_category |-> "none"]
pii(category) == [data_class |-> "Pii", pii_category |-> category]
not_pii == [data_class |-> "NotClassifiedAsPii", pii_category |-> "none"]

(* default_classification_config(), already in lower case. *)
normalized_mappings ==
  [name \in {<<"email">>, <<"phone">>, <<"credit_card">>} |->
     CASE name = <<"email">> -> "Email"
       [] name = <<"phone">> -> "Phone"
       [] name = <<"credit_card">> -> "CreditCard"]

(* Fault: a qualified column is looked up with its qualifier. *)
keep_qualifier(name) == name

strip_qualifier(name) == <<name[Len(name)]>>

ClassOfName(name) ==
  LET key == ascii_lower(name)
  IN  IF key \in DOMAIN normalized_mappings THEN pii(normalized_mappings[key]) ELSE not_pii

analyzable(a) == a.status = "Ok" /\ a.statement_class = "Select"

positional_shape(a, columns) ==
  /\ analyzable(a)
  /\ ~a.has_wildcard_projection /\ ~a.has_computed_projection
  /\ ~a.has_safe_count_star_projection
  /\ a.projection_columns # <<>>
  /\ Len(a.projection_columns) = Len(columns)

wildcard_shape(a) ==
  /\ analyzable(a)
  /\ a.has_wildcard_projection
  /\ a.projection_columns = <<>>
  /\ ~a.has_computed_projection /\ ~a.has_safe_count_star_projection

count_star_only_shape(a) ==
  /\ analyzable(a)
  /\ a.has_safe_count_star_projection
  /\ ~a.has_wildcard_projection /\ ~a.has_computed_projection
  /\ ~a.has_group_by
  /\ a.projection_columns = <<>>

(* Fault: every shape is classified by the names of the result. *)
classify_by_result_names(a, columns) ==
  [columns |-> [i \in DOMAIN columns |-> ClassOfName(columns[i].name)],
   fully_attributed |-> TRUE]

(* Fault: fully_attributed is set before the columns are looked at. *)
classify_claiming_attribution(a, columns) ==
  LET ClassOf(i) ==
        CASE count_star_only_shape(a) -> not_pii
          [] positional_shape(a, columns) ->
               ClassOfName(strip_qualifier(a.projection_columns[i]))
          [] wildcard_shape(a) -> ClassOfName(columns[i].name)
          [] OTHER -> Unattributed
  IN  [columns |-> [i \in DOMAIN columns |-> ClassOf(i)], fully_attributed |-> TRUE]

(* One class per result column.  The three shapes exclude one another. *)
classify(a, columns) ==
  LET ClassOf(i) ==
        CASE count_star_only_shape(a) -> not_pii
          [] positional_shape(a, columns) ->
               ClassOfName(strip_qualifier(a.projection_columns[i]))
          [] wildcard_shape(a) -> ClassOfName(columns[i].name)
          [] OTHER -> Unattributed
  IN  [columns |-> [i \in DOMAIN columns |-> ClassOf(i)],
       fully_attributed |->
         \/ columns = <<>>
         \/ count_star_only_shape(a)
         \/ positional_shape(a, columns)
         \/ wildcard_shape(a)]
=============================================================================

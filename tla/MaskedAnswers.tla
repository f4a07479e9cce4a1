---------------------------- MODULE MaskedAnswers ----------------------------
(***************************************************************************)
(* What a client may see of a query's answer, said of the origins the      *)
(* server found for its columns and of nothing the classifier looks at.    *)
(***************************************************************************)
EXTENDS PostgresDatabase, PiiMasker

PiiCategories == {"Email", "Phone", "CreditCard"}

(* What a stored column holds. *)
CategoryOf(column) ==
  CASE column = "email" -> "Email" [] column = "phone" -> "Phone"
    [] column = "credit_card" -> "CreditCard" [] OTHER -> "none"

(* Masked, and by which category nobody can tell from the outside. *)
Masks(cell) == {mask_cell(category, cell) : category \in PiiCategories}

(* The cell of a stored column as a client should see it. *)
Masked(column, cell) ==
  IF CategoryOf(column) = "none" THEN cell ELSE mask_cell(CategoryOf(column), cell)

(* What a client may see of a cell.  A stored column known by its own name  *)
(* is masked by what it holds, and left alone if that is no PII; a value    *)
(* read from no column is left alone; what is computed from columns is not  *)
(* shown at all.  Of a column under another name that FROM gave it, and of  *)
(* a whole row, no more is claimed than that it is masked or unchanged.     *)
Shown(origin, cell) ==
  CASE origin.kind = "column" /\ origin.as = origin.column -> {Masked(origin.column, cell)}
    [] origin.kind = "value" -> {cell}
    [] origin.kind = "computed" -> {}
    [] OTHER -> {cell} \cup Masks(cell)

(* shown is what a client may see of these rows of the statement's answer.  *)
MaskedRows(stmt, rows, shown) ==
  LET answer == AnswerColumns(stmt)
  IN  /\ DOMAIN shown = DOMAIN rows
      /\ \A r \in DOMAIN rows :
           /\ DOMAIN shown[r] = DOMAIN rows[r]
           /\ \A c \in DOMAIN rows[r] : shown[r][c] \in Shown(answer[c].origin, rows[r][c])
=============================================================================

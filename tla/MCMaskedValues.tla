--------------------------- MODULE MCMaskedValues ---------------------------
(* Emails of up to six bytes, numbers of up to fifteen. *)
EXTENDS MaskedValues
=============================================================================

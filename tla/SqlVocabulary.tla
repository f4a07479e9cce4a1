---------------------------- MODULE SqlVocabulary ----------------------------
(***************************************************************************)
(* The vocabulary the core shares: identifiers, the statement enums of     *)
(* core/sql_analysis.h, and the text a client sends.                       *)
(*                                                                         *)
(* An identifier is the sequence of its dot-separated parts, so that       *)
(* "public.orders" is <<"public", "orders">>.  What the code asks of a     *)
(* part's spelling is the Lexicon's: its ASCII lower case, whether it      *)
(* starts with pg_, whether every character is one a plain identifier may  *)
(* have, and its length in bytes, which is never 0.                        *)
(***************************************************************************)
EXTENDS Naturals, Sequences

CONSTANT Lexicon

LexiconEntries ==
  [lower : DOMAIN Lexicon, pg : BOOLEAN, plain : BOOLEAN, length : Nat \ {0}]

ASSUME LexiconAssumption ==
  /\ Lexicon \in [DOMAIN Lexicon -> LexiconEntries]
  /\ \A w \in DOMAIN Lexicon : Lexicon[Lexicon[w].lower].lower = Lexicon[w].lower

(* Lower case, part by part; the dots stay where they are. *)
ascii_lower(name) == [i \in DOMAIN name |-> Lexicon[name[i]].lower]

StatementTypes ==
  {"Select", "Insert", "Update", "Delete", "Create", "Alter", "Drop", "Unknown"}

statement_class_of(type) ==
  CASE type = "Select" -> "Select"
    [] type \in {"Insert", "Update", "Delete"} -> "Dml"
    [] type \in {"Create", "Alter", "Drop"} -> "Ddl"
    [] OTHER -> "Unknown"

(* The SQL text of a request: blank, outside the grammar, or the statements *)
(* the grammar finds in it.                                                 *)
BlankSql == [text |-> "blank", statements |-> <<>>]
MalformedSql == [text |-> "malformed", statements |-> <<>>]
Script(statements) == [text |-> "script", statements |-> statements]
==============================================================================

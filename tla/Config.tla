------------------------------- MODULE Config -------------------------------
(***************************************************************************)
(* config/config.cpp: what resolve_port() and resolve_database_config()    *)
(* make of environment variables.  A value is the sequence of its          *)
(* characters; Unset is the null pointer getenv() returns.                 *)
(***************************************************************************)
EXTENDS Integers, Sequences, SequencesExt

CONSTANTS IntMax,                     \* the largest int
          kMaxPort, default_port,
          kMaxStatementTimeoutMs, kDefaultStatementTimeoutMs

ASSUME ConfigAssumption ==
  /\ {IntMax, default_port, kDefaultStatementTimeoutMs} \subseteq Nat
  /\ kMaxPort \in 1 .. IntMax /\ kMaxStatementTimeoutMs \in 1 .. IntMax

Unset == <<"unset">>
DigitChars == <<"0", "1", "2", "3", "4", "5", "6", "7", "8", "9">>
DigitValue(c) == (CHOOSE d \in 1 .. 10 : DigitChars[d] = c) - 1
IsDigit(c) == c \in {DigitChars[d] : d \in 1 .. 10}

(* The longest prefix that is an optional minus sign and digits. *)
Matched(raw) ==
  LET sign == IF raw # <<>> /\ raw[1] = "-" THEN 1 ELSE 0
      ends == {i \in sign .. Len(raw) : \A j \in sign + 1 .. i : IsDigit(raw[j])}
      end == CHOOSE i \in ends : \A j \in ends : j <= i
  IN  [sign |-> sign, digits |-> SubSeq(raw, sign + 1, end), end |-> end]

(* Fault: the number is read modulo the range of int, without an error. *)
from_chars_wrapping(raw) ==
  LET m == Matched(raw)
      n == FoldLeft(LAMBDA sum, c : (sum * 10 + DigitValue(c)) % (IntMax + 1), 0, m.digits)
  IN  [ec |-> IF m.digits = <<>> THEN "invalid_argument" ELSE "none", end |-> m.end,
       parsed |-> IF m.sign = 1 THEN -n ELSE n]

(* The number that digits write, from the left. *)
ValueOf(digits) ==
  LET upto[i \in 0 .. Len(digits)] ==
        IF i = 0 THEN 0 ELSE upto[i - 1] * 10 + DigitValue(digits[i])
  IN  upto[Len(digits)]

(* std::from_chars(begin, end, parsed): no digits, or a number that is no   *)
(* int, is an error.                                                        *)
from_chars(raw) ==
  LET m == Matched(raw)
      magnitude == ValueOf(m.digits)
      parsed == IF m.sign = 1 THEN -magnitude ELSE magnitude
  IN  [ec |-> IF m.digits = <<>> THEN "invalid_argument"
              ELSE IF parsed \notin -IntMax - 1 .. IntMax THEN "result_out_of_range"
              ELSE "none",
       end |-> m.end, parsed |-> parsed]

Resolved(value) == [valid |-> TRUE, value |-> value]
Invalid == [valid |-> FALSE, value |-> 0]

(* Fault: the largest value is out of range. *)
resolve_number_below(raw, default, max) ==
  LET result == from_chars(raw)
  IN  IF raw = Unset THEN Resolved(default)
      ELSE IF result.ec # "none" \/ result.end # Len(raw) \/ result.parsed \notin 1 .. max - 1
      THEN Invalid
      ELSE Resolved(result.parsed)

(* What both functions do with a number: unset is the default; empty, not   *)
(* wholly a number, or out of 1 .. max is refused.                          *)
resolve_number(raw, default, max) ==
  LET result == from_chars(raw)
  IN  IF raw = Unset THEN Resolved(default)
      ELSE IF raw = <<>> \/ result.ec # "none" \/ result.end # Len(raw) THEN Invalid
      ELSE IF result.parsed < 1 \/ result.parsed > max THEN Invalid
      ELSE Resolved(result.parsed)

resolve_port(raw) == resolve_number(raw, default_port, kMaxPort)

(* The URL must be there; what it says is the driver's business. *)
resolve_database_config(database_url, statement_timeout_ms) ==
  IF database_url \in {Unset, <<>>} THEN Invalid
  ELSE resolve_number(statement_timeout_ms, kDefaultStatementTimeoutMs,
                      kMaxStatementTimeoutMs)
=============================================================================

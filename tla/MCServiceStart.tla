-------------------------- MODULE MCServiceStart --------------------------
(* Every value of up to MaxLength characters; the ranges are scaled down so *)
(* that they, the range of int and what is beyond it have such numerals.    *)
EXTENDS ServiceStart

CONSTANTS Chars, MaxLength

MCValues == UNION {[1 .. n -> Chars] : n \in 0 .. MaxLength}
===========================================================================

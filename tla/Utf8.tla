-------------------------------- MODULE Utf8 --------------------------------
(***************************************************************************)
(* What nlohmann::json::dump() asks of a string (external).  Two bytes     *)
(* from 0x80 on stand for all: a lead byte and a continuation byte, which  *)
(* are text only when they come as a pair.                                 *)
(***************************************************************************)
EXTENDS Naturals, Sequences

Lead == "xC3"
Continuation == "xA9"

IsUtf8(bytes) ==
  \A i \in DOMAIN bytes :
     /\ bytes[i] = Lead => i < Len(bytes) /\ bytes[i + 1] = Continuation
     /\ bytes[i] = Continuation => i > 1 /\ bytes[i - 1] = Lead
=============================================================================

----------------------------- MODULE MCWeb3Codec -----------------------------
(***************************************************************************)
(* Bounds for Web3Codec.  Chain ids on both sides of the one- and two-byte *)
(* varint boundaries; strings of length 0 and 1-2; every byte string of   *)
(* length up to 3 over tag, length and continuation bytes; and long       *)
(* inputs whose varints reach the 64-bit edges.                           *)
(***************************************************************************)
EXTENDS Web3Codec

MCMsgs ==
  [chain : {BitsOf(n) : n \in {0, 1, 127, 128, 16384}},
   payer : {<<>>, <<97>>},
   sig   : {<<>>, <<1, 2>>}]

\* Tags of fields 1-4 with every wire type that matters, continuation bytes.
MCAlphabet == {0, 1, 8, 12, 16, 18, 26, 32, 33, 34, 35, 36, 37, 38, 127, 128, 255}

Rep(b, n) == [k \in 1..n |-> b]

MCLong ==
  { <<18>> \o Rep(255, 8) \o <<127, 97>>,     \* length 2^63-1: iNdEx + len wraps
    <<18>> \o Rep(128, 9) \o <<1, 97>>,       \* length 2^63: int(len) < 0
    <<26>> \o Rep(128, 9) \o <<2>>,           \* bit 64 shifted out: length 0
    <<8>> \o Rep(128, 10) \o <<0>>,           \* eleven varint bytes: overflow
    <<136>> \o Rep(128, 4) \o <<1, 5>>,       \* tag bit 35 dropped by int32: field 1
    <<136>> \o Rep(128, 3) \o <<64, 5>>,      \* tag bit 34: negative field number
    <<34>> \o Rep(255, 8) \o <<127>>,         \* unknown field, length 2^63-1
    <<35, 32, 1, 36, 8, 1>>,                  \* a group of an unknown field
    <<33, 1, 2, 3, 4, 5, 6, 7, 8, 8, 1>>,     \* unknown fixed64, then field 1
    <<37, 1, 2>> }                            \* unknown fixed32 cut short

MCCrafted == BoundedSeq(MCAlphabet, 3) \cup MCLong
=============================================================================

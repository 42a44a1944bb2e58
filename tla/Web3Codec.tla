------------------------------ MODULE Web3Codec ------------------------------
(***************************************************************************)
(* The generated protobuf codec of ExtensionOptionsWeb3Tx                  *)
(* (src/types/web3.pb.go): Size, sovWeb3, encodeVarintWeb3,                *)
(* MarshalToSizedBuffer and Marshal on the sending side; Unmarshal and     *)
(* skipWeb3 on the receiving side, which the ante handler reaches through  *)
(* UnpackAny on bytes chosen by whoever submits the transaction.           *)
(*                                                                         *)
(* The wire primitives and the 64-bit representation are in ProtoWire.    *)
(*                                                                         *)
(* The state machine is a sender, a channel and the receiver: the sender   *)
(* marshals one message, the submitter may instead craft bytes or tamper   *)
(* with the encoding once, and the receiver unmarshals what arrives.       *)
(***************************************************************************)
EXTENDS ProtoWire

CONSTANTS Msgs,      \* messages the sender may marshal
          Crafted,   \* byte strings a submitter may send instead
          Alphabet   \* byte values a tamperer may write or append

VARIABLES msg,       \* the message the sender holds
          wire,      \* the bytes on the way to the receiver
          stage,     \* "idle", "sent" or "done"
          tampered,  \* the bytes are not the sender's encoding
          result     \* what Unmarshal returned
vars == <<msg, wire, stage, tampered, result>>

skipWeb3(d) == SkipLoop(d, 0, 0)

EmptyMsg == [chain |-> {}, payer |-> <<>>, sig |-> <<>>]

RECURSIVE UnmarshalLoop(_, _, _)
UnmarshalLoop(buf, i, m) ==
  IF ~(i < Len(buf))
  THEN IF i > Len(buf) THEN [err |-> "ErrUnexpectedEOF", msg |-> m]
       ELSE [err |-> "none", msg |-> m]
  ELSE LET t == ReadUvarint(buf, i)
           fn == FieldNum(t.bits)
           wt == WireType(t.bits)
           v == ReadUvarint(buf, t.i)
           s == ReadLenDelim(buf, t.i)
           sk == skipWeb3(SubSeq(buf, i + 1, Len(buf)))
           fail(e) == [err |-> e, msg |-> m]
       IN CASE t.err # "none" -> fail(t.err)
            [] wt = 4 -> fail("wiretype end group for non-group")
            [] fn <= 0 -> fail("illegal tag")
            [] fn \in {1, 2, 3} /\ wt # (IF fn = 1 THEN 0 ELSE 2) ->
                 fail("wrong wireType")
            [] fn = 1 /\ v.err # "none" -> fail(v.err)
            [] fn = 1 -> UnmarshalLoop(buf, v.i, [m EXCEPT !.chain = v.bits])
            [] fn \in {2, 3} /\ s.err # "none" -> fail(s.err)
            [] fn = 2 -> UnmarshalLoop(buf, s.i, [m EXCEPT !.payer = s.val])
            [] fn = 3 -> UnmarshalLoop(buf, s.i, [m EXCEPT !.sig = s.val])
            [] sk.err # "none" -> fail(sk.err)
            [] sk.n < 0 \/ i + sk.n < 0 -> fail("ErrInvalidLength")
            [] i + sk.n > Len(buf) -> fail("ErrUnexpectedEOF")
            [] OTHER -> UnmarshalLoop(buf, i + sk.n, m)

Unmarshal(buf) == UnmarshalLoop(buf, 0, EmptyMsg)

(***************************************************************************)
(* Sending side.                                                           *)
(***************************************************************************)
EmitBytes(st, s, tag) ==
  LET st1 == [Put(st, st.i - Len(s), s) EXCEPT !.i = st.i - Len(s)]
  IN PutTag(encodeVarintWeb3(st1, st1.i, BitsOf(Len(s))), tag)

MarshalToSizedBuffer(m, st0) ==
  LET s3 == IF Len(m.sig) > 0 THEN EmitBytes(st0, m.sig, 26) ELSE st0
      s2 == IF Len(m.payer) > 0 THEN EmitBytes(s3, m.payer, 18) ELSE s3
  IN IF m.chain # {} THEN PutTag(encodeVarintWeb3(s2, s2.i, m.chain), 8) ELSE s2

LenSize(s) == IF Len(s) > 0 THEN 1 + Len(s) + sovWeb3(BitsOf(Len(s))) ELSE 0

Size(m) ==
  (IF m.chain # {} THEN 1 + sovWeb3(m.chain) ELSE 0) + LenSize(m.payer) + LenSize(m.sig)

Marshal(m) ==
  LET size == Size(m)
      st == MarshalToSizedBuffer(m, [b |-> [k \in 1..size |-> 0], i |-> size,
                                     err |-> "none"])
  IN IF st.err # "none" THEN [err |-> st.err, val |-> <<>>]
     ELSE [err |-> "none", val |-> SubSeq(st.b, 1, size - st.i)]

(***************************************************************************)
(* The channel.                                                            *)
(***************************************************************************)
Pending == [err |-> "pending", msg |-> EmptyMsg]

Init ==
  /\ msg \in Msgs
  /\ wire = <<>>
  /\ stage = "idle"
  /\ tampered = FALSE
  /\ result = Pending

(* Marshal; a panic ends the exchange.                                     *)
Send ==
  LET r == Marshal(msg)
  IN /\ stage = "idle"
     /\ wire' = r.val
     /\ stage' = IF r.err = "none" THEN "sent" ELSE "done"
     /\ result' = IF r.err = "none" THEN Pending ELSE [err |-> r.err, msg |-> EmptyMsg]
     /\ UNCHANGED <<msg, tampered>>

(* The submitter sends bytes of its own.                                   *)
Craft ==
  /\ stage = "idle"
  /\ wire' \in Crafted
  /\ stage' = "sent"
  /\ tampered' = TRUE
  /\ UNCHANGED <<msg, result>>

(* One change to an encoding: cut it short, overwrite a byte, append one.  *)
Tamperings(w) ==
  {SubSeq(w, 1, k) : k \in 0..Len(w) - 1}
  \cup {[w EXCEPT ![k] = b] : k \in DOMAIN w, b \in Alphabet}
  \cup {Append(w, b) : b \in Alphabet}

Tamper ==
  /\ stage = "sent"
  /\ ~tampered
  /\ wire' \in Tamperings(wire)
  /\ tampered' = TRUE
  /\ UNCHANGED <<msg, stage, result>>

Receive ==
  /\ stage = "sent"
  /\ result' = Unmarshal(wire)
  /\ stage' = "done"
  /\ UNCHANGED <<msg, wire, tampered>>

Next == Send \/ Craft \/ Tamper \/ Receive

Spec == Init /\ [][Next]_vars

(***************************************************************************)
(* Properties.                                                             *)
(***************************************************************************)
Byte == 0..255
MsgType == [chain : U64, payer : Seq(Byte), sig : Seq(Byte)]

TypeOK ==
  /\ msg \in Msgs
  /\ \A k \in DOMAIN wire : wire[k] \in Byte
  /\ stage \in {"idle", "sent", "done"}
  /\ tampered \in BOOLEAN
  /\ result.err \in STRING
  /\ result.msg.chain \in U64

(* Unmarshal of what Marshal produced gives back the message: Size counts  *)
(* exactly the bytes MarshalToSizedBuffer writes back to front, the varint *)
(* and tag bytes it writes are the ones the Unmarshal loop reads.          *)
RoundTrip ==
  (stage = "done" /\ ~tampered) => result = [err |-> "none", msg |-> msg]

(* No input makes Unmarshal or skipWeb3 index or slice outside the buffer: *)
(* every read is behind an end-of-buffer check and every length, however  *)
(* large, negative or wrapping past 2^63, is rejected before the slice.    *)
NoPanic == result.err # "panic"

=============================================================================

------------------------------- MODULE WireFormat -------------------------------
(***************************************************************************)
(* The binary protocol, protocol/mod.rs and generated.rs (Wire.swift and   *)
(* Generated.swift are their mirror image): which fields a message has,    *)
(* how many bytes they take, and what a reader accepts.                    *)
(*                                                                         *)
(* Values are left out but for the lengths of variable fields, on which    *)
(* the position of everything after them depends.                          *)
(***************************************************************************)
EXTENDS Integers, Sequences, SequencesExt

SumOf(numbers) == FoldLeft(+, 0, numbers)

HeaderFields == <<4, 1, 1, 2, 4, 8, 16>>   \* magic, version, kind, length, sequence, session
Header       == SumOf(HeaderFields)
MaxControl   == 65536
MaxBytes     == 2097152                    \* MAX_FRAME
MaxString    == 1024
MaxDatagram  == 1200

\* Bytes a field takes by itself; a variable one has its length in front.
Width == [u8 |-> 1, u16 |-> 2, u32 |-> 4, u64 |-> 8, f32 |-> 4, bytes |-> 4, string |-> 4]
Variable == {"bytes", "string"}

\* Messages 1 to 7: handshake, pairing, start and stop.
PairingMessages ==
  [Handshake       |-> <<"u8", "u8", "u8", "bytes", "string", "u8">>,
   ProtocolVersion |-> <<"u8", "u8">>,
   HostInfo        |-> <<"bytes", "string">>,
   ClientInfo      |-> <<"bytes", "string">>,
   Pairing         |-> <<"u8", "bytes", "bytes", "bytes">>,
   SessionStart    |-> <<"u32", "u32", "u32">>,
   SessionStop     |-> <<"u8">>]

\* Messages 8 to 13: display and encoder.
DisplayMessages ==
  [DisplayCapabilities |-> <<"u32", "u32", "u32", "u32", "u32",
                            "f32", "f32", "f32", "f32", "f32", "u8">>,
   DisplayMode         |-> <<"u32", "u32", "u32", "u32">>,
   DisplayModeChange   |-> <<"u32", "u32", "u32">>,
   EncoderCapabilities |-> <<"u32", "u8", "u32", "u32">>,
   EncoderConfig       |-> <<"u8", "u32", "u32", "u8">>,
   VideoConfig         |-> <<"u32", "u8", "u32", "u32", "u32", "u8", "u8", "bytes">>]

\* Messages 14 to 16: video.
VideoMessages ==
  [VideoFrame      |-> <<"u32", "u64", "u64", "u64", "u64", "u8", "bytes">>,
   VideoFragment   |-> <<"u32", "u64", "u64", "u64", "u64", "u8", "u16", "u16", "u32", "bytes">>,
   KeyframeRequest |-> <<"u8">>]

\* Messages 17 to 21: input, clock, statistics, errors.
SessionMessages ==
  [InputEvent    |-> <<"u8", "u8", "u16", "f32", "f32", "f32", "f32", "u32", "u16", "u32", "u16",
                       "u8">>,
   Ping          |-> <<"u64">>,
   Pong          |-> <<"u64", "u64", "u64">>,
   Statistics    |-> <<"f32", "u32", "u32", "u32", "u16", "u32", "u64", "u32", "u32", "u32">>,
   ProtocolError |-> <<"u16", "string">>]

Fields(kind) ==
  CASE kind \in DOMAIN PairingMessages -> PairingMessages[kind]
    [] kind \in DOMAIN DisplayMessages -> DisplayMessages[kind]
    [] kind \in DOMAIN VideoMessages   -> VideoMessages[kind]
    [] kind \in DOMAIN SessionMessages -> SessionMessages[kind]

\* Wire::write(): the bytes of a message whose variable fields have these lengths.
Widths(kind) == [i \in DOMAIN Fields(kind) |-> Width[Fields(kind)[i]]]
Write(kind, lengths) ==
  [lengths |-> lengths, size |-> SumOf(Widths(kind)) + SumOf(lengths)]

\* Reader: position and number of variable fields met; a field that is not there,
\* or is longer than its type allows, stops it.
AtStart == [ok |-> TRUE, at |-> 0, met |-> 0]
Take(body, type, r) ==
  LET long == IF type \in Variable /\ r.met < Len(body.lengths) THEN body.lengths[r.met + 1] ELSE 0
      end  == r.at + Width[type] + long
  IN [ok  |-> /\ r.ok /\ end <= body.size
              /\ long <= (IF type = "string" THEN MaxString ELSE MaxBytes),
      at  |-> end,
      met |-> IF type \in Variable THEN r.met + 1 ELSE r.met]

Read(body, fields) == FoldLeft(LAMBDA r, type : Take(body, type, r), AtStart, fields)

\* Packet::message(): every field is there and nothing follows.
Accepts(kind, body) ==
  LET end == Read(body, Fields(kind)) IN end.ok /\ end.at = body.size

PacketSize(kind, lengths) == Header + Write(kind, lengths).size
=============================================================================

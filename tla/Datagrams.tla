------------------------------- MODULE Datagrams -------------------------------
(***************************************************************************)
(* An encoded frame as bytes: cut into datagrams by send_frame()           *)
(* (network/mod.rs), checked by the iPad's ingest() (FrameAssembler.swift).*)
(***************************************************************************)
EXTENDS WireFormat, FiniteSetsExt

CONSTANTS Mtus,           \* what QUIC takes as a datagram; it may change between frames
          FrameLengths    \* bytes of an encoded frame

ASSUME DatagramAssumption == Mtus \subseteq Nat /\ FrameLengths \subseteq Nat

VARIABLES
  frame,      \* the frame in send_frame(): datagram size, bytes, next fragment
  bytes,      \* bytes of it that the assembler holds
  refusals    \* fragments the assembler has thrown an error at

datagramVars == <<frame, bytes, refusals>>

NoVideo == [mtu |-> 0, len |-> 0, index |-> 0]

DatagramInit == frame = NoVideo /\ bytes = 0 /\ refusals = 0
-----------------------------------------------------------------------------
\* Bytes of a fragment that are not data, counted by hand in send_frame().
\* Mutant: without the length of the data.
OverheadShort == Header + 4 + 8 * 4 + 1 + 2 + 2 + 4
Overhead      == Header + 4 + 8 * 4 + 1 + 2 + 2 + 4 + 4

Limit(mtu) == Min({mtu, MaxDatagram})
Chunk(mtu) == Min({Limit(mtu) - Overhead, 1100})
Count(mtu, len) == (len + Chunk(mtu) - 1) \div Chunk(mtu)

Data(f) == Min({Chunk(f.mtu), f.len - f.index * Chunk(f.mtu)})

\* The checks before the first fragment; their failure ends the session.
Sendable(mtu, len) ==
  /\ len <= MaxBytes /\ Limit(mtu) > Overhead
  /\ Count(mtu, len) \in 1..4096

SendFrame(mtu, len) ==
  /\ frame = NoVideo /\ Sendable(mtu, len)
  /\ frame' = [mtu |-> mtu, len |-> len, index |-> 0] /\ bytes' = 0
  /\ UNCHANGED refusals

\* ingest() without the order of frames: VideoReceiver has that.
Ingestible(f) ==
  /\ Count(f.mtu, f.len) \in 1..4096 /\ f.index < Count(f.mtu, f.len)
  /\ f.len \in 1..MaxBytes /\ Data(f) \in 1..1100
  /\ bytes + Data(f) <= f.len

SendFragment ==
  /\ frame # NoVideo /\ frame.index < Count(frame.mtu, frame.len)
  /\ frame' = [frame EXCEPT !.index = @ + 1]
  /\ IF Ingestible(frame) THEN bytes' = bytes + Data(frame) /\ UNCHANGED refusals
     ELSE refusals' = refusals + 1 /\ UNCHANGED bytes

\* The frame was sent whole; or 35 ms are over, or it was too old.
EndFrame == frame # NoVideo /\ frame' = NoVideo /\ bytes' = 0 /\ UNCHANGED refusals

DatagramNext ==
  \/ SendFragment \/ EndFrame
  \/ \E mtu \in Mtus, len \in FrameLengths : SendFrame(mtu, len)

DatagramSafety == DatagramInit /\ [][DatagramNext]_datagramVars
-----------------------------------------------------------------------------
(* Properties.                                                             *)

\* The overhead counted by hand is what the schema says: every fragment fits the
\* datagram and the iPad's limits, and together they are the frame.
FragmentsFit ==
  /\ refusals = 0
  /\ (frame # NoVideo /\ frame.index < Count(frame.mtu, frame.len)) =>
        PacketSize("VideoFragment", <<Data(frame)>>) <= Limit(frame.mtu)
  /\ (frame # NoVideo /\ frame.index = Count(frame.mtu, frame.len)) => bytes = frame.len
=============================================================================

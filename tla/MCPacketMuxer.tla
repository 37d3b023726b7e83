--------------------------- MODULE MCPacketMuxer ----------------------------
(* Instances of PacketMuxer for TLC. *)
EXTENDS PacketMuxer, TLC

CONSTANTS a, b

(* Type a carries packets without data, type b and the control packets     *)
(* carry some: zero-sized data skips the last call to the transport.       *)
MCDataSize == "empty" :> 0 @@ "full" :> 2
=============================================================================

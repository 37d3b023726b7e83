-------------------------- MODULE MCPacketDemuxer ---------------------------
(* Instances of PacketDemuxer for TLC. *)
EXTENDS PacketDemuxer

CONSTANTS a, s1, s2

(* Two subscribers of one type. *)
MCTypeOf == s1 :> a @@ s2 :> a

MCDataSize == "empty" :> 0 @@ "full" :> 2
=============================================================================

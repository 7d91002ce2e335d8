---------------------------- MODULE MCPacketsMux ----------------------------
EXTENDS PacketsTurns, TLC

CONSTANTS long, short, medium

Sizes == (long :> 3) @@ (short :> 1) @@ (medium :> 2)

ASSUME FewSenders
=============================================================================

---------------------------- MODULE MCPacketLink ----------------------------
EXTENDS PacketLink

MCBodies == {Body(s) : s \in 0..MaxSeq}
=============================================================================

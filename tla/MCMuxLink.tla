------------------------------ MODULE MCMuxLink ------------------------------
\* Instances of MuxLink for TLC.
EXTENDS MuxLinkInv

MCPacketSizes == {1}
MCNoFaults == {}
MCSplit == {"split"}
MCAllFaults == AllFaults
=============================================================================

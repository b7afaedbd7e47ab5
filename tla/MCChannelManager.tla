--------------------------- MODULE MCChannelManager ---------------------------
(* An instance of ChannelManager for TLC *)
EXTENDS ChannelManager

CONSTANTS b1, b2, c1
=============================================================================

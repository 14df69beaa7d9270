---------------------------- MODULE MCChainSync ----------------------------
EXTENDS ChainSync, TLC

CONSTANTS t0, t1, me, peer

MCSender == (t0 :> me) @@ (t1 :> peer)

=============================================================================

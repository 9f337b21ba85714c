--------------------------- MODULE MCUnlockClient ---------------------------
(* Small instances of UnlockClient for TLC.                                  *)
EXTENDS UnlockClient, MCPackets

\* The largest request that fits with its tag, the smallest that is refused.
MCRequestSizes == {968, 985}

MCSdpReplies == {<<>>, <<0>>, <<1>>, <<31, 30>>, <<30, 31>>}
=============================================================================

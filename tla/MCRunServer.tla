----------------------------- MODULE MCRunServer -----------------------------
(* A small instance of RunServer for TLC.                                    *)
EXTENDS RunServer, MCPackets
=============================================================================

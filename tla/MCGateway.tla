----------------------------- MODULE MCGateway -----------------------------
(***************************************************************************)
(* Gateway for TLC: no signals, and an analog with a discrete.             *)
(***************************************************************************)
EXTENDS Gateway

MCLists == { <<>>, <<"analog", "discrete">> }
=============================================================================

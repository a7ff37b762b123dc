----------------------------- MODULE MCPlacement -----------------------------
(***************************************************************************)
(* Placement for TLC: no signals, one signal, and lists with every kind.   *)
(***************************************************************************)
EXTENDS Placement

MCLists ==
    { <<>>,
      <<"analog">>,
      <<"analog", "analog", "discrete", "integer">>,
      <<"analog", "discrete", "integer", "group", "group">> }
=============================================================================

---------------------------- MODULE MCRegisterMap ----------------------------
(***************************************************************************)
(* RegisterMap for TLC: the deployed sizes (17 analogs, 5 discretes and 8  *)
(* integers in 66 registers) and sizes at the edges of the layout.         *)
(***************************************************************************)
EXTENDS RegisterMap

Conf(na, nd, ni, regs, qual) ==
    [na |-> na, nd |-> nd, ni |-> ni, regs |-> regs, qual |-> qual]

Deployed == Conf(17, 5, 8, 66, 60)

MCConfigurations ==
    { Deployed,
      Conf(0, 0, 0, 66, 60),    \* an ini file without signals
      Conf(22, 15, 12, 66, 60), \* analogs in the integers' registers
      Conf(25, 16, 10, 67, 60), \* a full word, analog and integer qualities overlap
      Conf(2, 40, 9, 66, 60),   \* three words of discretes
      Conf(20, 9, 9, 67, 60),   \* one discrete more than a quality register
      Conf(4, 8, 3, 45, 60),    \* fewer registers than the layout
      Conf(17, 5, 8, 66, -1) }  \* qualities before the values

\* States of the controller in which no two registers agree, so that a value
\* from a wrong register or a wrong reply shows.
MCImages ==
    { [u \in 0 .. 69 |-> (u * 257 + 21845) % 65536],
      [u \in 0 .. 69 |-> 65535 - u * 771] }

OnlyDeployed == {Deployed}
ManyDiscretes == {Conf(17, 18, 8, 66, 60)}
=============================================================================

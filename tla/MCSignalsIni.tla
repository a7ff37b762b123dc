---------------------------- MODULE MCSignalsIni ----------------------------
(***************************************************************************)
(* SignalsIni for TLC: what a file is made of, and what gets in its way.   *)
(* UIntSize is 1024 * 65536, not 65536 * 65536, for TLC's integers: wider  *)
(* than any setting all the same, and a multiple of their widths.          *)
(***************************************************************************)
EXTENDS SignalsIni

W(w) == [word |-> w, eq |-> FALSE, num |-> 0, scale |-> 1]
Eq(w) == [W(w) EXCEPT !.eq = TRUE]

\* A number of at most eight digits, written without leading zeros.
N(n) == [W("number") EXCEPT !.num = n,
            !.scale = Min({10 ^ d : d \in {x \in 1 .. 8 : n < 10 ^ x}})]
Comma == W("comma")

\* The fields behind a name: two registers and a simulation value.
Numbers == <<Comma, N(1), Comma, N(2), Comma, N(3)>>

MCLines ==
    { <<W("analog")>>, <<W("discrete")>>, <<W("group")>>,
      <<Eq("Port"), N(503)>>,
      <<Eq("Port"), N(65536 + 7)>>,
      <<Eq("Num_of_retries"), N(256)>>,
      <<Eq("Server_adress"), Eq("1st_rgstr"), N(300)>>,
      <<Eq("Port"), N(502), Eq("Num_rgstr"), N(66)>>,
      <<Eq("Port"), N(67108), Eq("Num_rgstr"), N(864)>>,
      <<W("text"), W("Port")>>,
      <<Eq("Host_IP"), N(192), Comma, N(168), Comma, N(0), Comma, N(1)>>,
      <<Eq("Signal"), W("text")>> \o Numbers,
      <<Eq("Signal"), W("integer")>> \o Numbers,
      <<Eq("Signal"), W("Port")>> \o Numbers,
      <<Eq("Signal"), W("Host_IP")>> \o Numbers,
      <<Eq("Signal"), W("text"), Comma, N(1)>>,
      <<W("analog"), W("Signal")>> }
=============================================================================

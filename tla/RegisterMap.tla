----------------------------- MODULE RegisterMap -----------------------------
(***************************************************************************)
(* How PLC_connector decodes replies: readReady hands the registers of a   *)
(* reply, one after another, to readMessage, which fills the analog,       *)
(* integer and discrete signals and their qualities.  Signal counts and    *)
(* register settings come from signals.ini at start and do not change.     *)
(*                                                                         *)
(* A step decodes one register.  Nothing else of the gateway runs during   *)
(* a reply, so the properties speak of the states between replies.         *)
(* A register is a number in 0 .. 65535; a float is the pair of registers  *)
(* its bits come from, high word first; signal k of the code is element    *)
(* k + 1 here.                                                             *)
(***************************************************************************)
EXTENDS Integers, Sequences

CONSTANTS
    Configurations,  \* what signals.ini may say: [na, nd, ni, regs, qual]
    Images,          \* register states of the controller
    MaxReplies       \* bound: number of replies decoded

Words == 0 .. 65535

ASSUME RegisterMapAssumption ==
    /\ Configurations \subseteq
          [na : Nat, nd : Nat, ni : Nat, regs : Nat \ {0}, qual : Int]
    /\ \A conf \in Configurations, img \in Images :
          \A u \in 0 .. conf.regs - 1 : img[u] \in Words
    /\ MaxReplies \in Nat

VARIABLES
    conf,     \* the configuration read at start
    a, d, n,  \* sigAValue, sigDValue, sigINTValue of the three signal lists
    aQ, dQ, nQ,  \* their sigQualValue
    buf,      \* ma_a_int_value
    unit,     \* unit_num of the register decoded next; 0 between replies
    replies   \* the replies so far, the one being decoded last

values == <<a, d, n>>
qualities == <<aQ, dQ, nQ>>
vars == <<conf, values, qualities, buf, unit, replies>>

SumA == 40    \* m_sum_a_reg
SumD == 10    \* m_sum_d_reg
SumInt == 10  \* m_sum_int_reg

NA == conf.na      \* ma_a_signals.size()
ND == conf.nd      \* ma_d_signals.size()
NI == conf.ni      \* ma_int_signals.size()
Regs == conf.regs  \* m_num_hold_regs
Qual == conf.qual  \* m_start_qual_reg - m_start_reg

CeilDiv(p, q) == (p + q - 1) \div q
Bit(v, i) == (v \div 2 ^ i) % 2

\* The WS_signal constructors: every value and every quality is zero.
Init ==
    /\ conf \in Configurations
    /\ a = [k \in 1 .. NA |-> <<0, 0>>] /\ aQ = [k \in 1 .. NA |-> 0]
    /\ d = [k \in 1 .. ND |-> 0] /\ dQ = [k \in 1 .. ND |-> 0]
    /\ n = [k \in 1 .. NI |-> 0] /\ nQ = [k \in 1 .. NI |-> 0]
    /\ buf = <<>>
    /\ unit = 0 /\ replies = <<>>

-----------------------------------------------------------------------------
(* Plausible mistakes in the decoding below. *)

\* The registers of a reply are read back from the end of the buffer.
MutReadAnalog(u, v) ==
    /\ buf' = IF u <= 2 * NA THEN Append(buf, v) ELSE buf
    /\ a' = [k \in DOMAIN a |->
               IF u = 2 * k - 1 THEN <<v, buf[Len(buf)]>> ELSE a[k]]

\* The integers start one register late.
MutReadInteger(u, v) ==
    n' = [k \in DOMAIN n |-> IF u = SumA + k THEN v ELSE n[k]]

\* The partial last word is not counted.
MutDiscreteWords == ND \div 16

\* The quality registers of a kind follow those in use, not those reserved.
MutIntegerBase == Qual + CeilDiv(NA, 8)

-----------------------------------------------------------------------------
\* One analog register: put at the end of ma_a_int_value, which is never
\* emptied, but read back at the register's own index; the odd register of a
\* pair completes a float.
ReadAnalog(u, v) ==
    /\ buf' = IF u <= 2 * NA THEN Append(buf, v) ELSE buf
    /\ a' = [k \in DOMAIN a |->
               IF u = 2 * k - 1 THEN <<buf'[u + 1], buf'[u]>> ELSE a[k]]

ReadInteger(u, v) ==
    n' = [k \in DOMAIN n |->
            IF k <= SumInt /\ u = SumA + k - 1 THEN v ELSE n[k]]

\* How many words readBit is called for, the partial one included.
DiscreteWords == ND \div 16 + 1

\* readBit is not told which word it got: every pass of its loop over the
\* words writes the bits of the last one.
ReadDiscrete(u, v) ==
    LET w == u - (SumA + SumInt) IN
    d' = [k \in DOMAIN d |->
            IF w \in 0 .. SumD - 1 /\ w < DiscreteWords /\ (k - 1) \div 16 = ND \div 16
            THEN Bit(v, (k - 1) % 16) ELSE d[k]]

\* Bit i says that the device failed, bit i + 8 that the value is simulated.
Quality(v, i) == Bit(v, i) + 256 * Bit(v, i + 8)

\* The first quality register of each kind, and the end of them all.
AnalogBase == Qual
IntegerBase == Qual + CeilDiv(SumA, 16)
DiscreteBase == IntegerBase + CeilDiv(SumInt, 8)
QualityEnd == Qual + SumA \div 8 + SumD \div 8 + SumInt \div 8

\* A quality register serves eight signals.  unit_num is unsigned, so that a
\* negative first quality register is never reached.
ReadQuality(q, base, u, v) ==
    [k \in DOMAIN q |->
       IF Qual >= 0 /\ u < QualityEnd /\ u = base + (k - 1) \div 8
       THEN Quality(v, (k - 1) % 8) ELSE q[k]]

ReadMessage(u, v) ==
    /\ ReadAnalog(u, v) /\ ReadInteger(u, v) /\ ReadDiscrete(u, v)
    /\ aQ' = ReadQuality(aQ, AnalogBase, u, v)
    /\ nQ' = ReadQuality(nQ, IntegerBase, u, v)
    /\ dQ' = ReadQuality(dQ, DiscreteBase, u, v)

\* readReady: the loop over the registers of a reply without an error.
StartReply(img) ==
    /\ unit = 0 /\ Len(replies) < MaxReplies
    /\ replies' = Append(replies, img)
    /\ ReadMessage(0, img[0])
    /\ unit' = 1 % Regs
    /\ UNCHANGED conf

NextRegister ==
    /\ unit > 0
    /\ ReadMessage(unit, replies[Len(replies)][unit])
    /\ unit' = (unit + 1) % Regs
    /\ UNCHANGED <<conf, replies>>

Next == NextRegister \/ \E img \in Images : StartReply(img)

Spec == Init /\ [][Next]_vars

-----------------------------------------------------------------------------
First == replies[1]
Latest == replies[Len(replies)]

\* A reply was decoded, and none is being decoded.
Decoded == unit = 0 /\ replies # <<>>

\* Every analog keeps the first reply for good, whatever the later ones say,
\* while ma_a_int_value grows with each of them.
AnalogsKeepFirstReply ==
    Decoded =>
        /\ \A k \in 1 .. NA :
              2 * k <= Regs => a[k] = <<First[2 * k - 1], First[2 * k - 2]>>
        /\ 2 * NA < Regs => Len(buf) = Len(replies) * (2 * NA + 1)

\* Every integer that has a register of its own shows the latest reply, also
\* when the analogs reach into the integers' registers.
IntegersAreLatest ==
    Decoded =>
        \A k \in 1 .. NI :
            k <= SumInt /\ SumA + k <= Regs => n[k] = Latest[SumA + k - 1]

\* The discretes of the last word show its bits in the latest reply, even
\* though readBit runs for every word and always writes this one; the words
\* before it are never written.
OnlyLastWordIsRead ==
    Decoded /\ ND \div 16 < SumD /\ SumA + SumInt + ND \div 16 < Regs =>
        \A k \in 1 .. ND :
            d[k] = IF (k - 1) \div 16 = ND \div 16
                   THEN Bit(Latest[SumA + SumInt + ND \div 16], (k - 1) % 16)
                   ELSE 0

\* The quality of signal k is in a register the gateway requests and reads.
Covered(base, k) ==
    LET u == base + (k - 1) \div 8 IN Qual >= 0 /\ u < Regs /\ u < QualityEnd

\* The qualities q with the latest reply in them where it covers them.
ShowsLatest(q, base) ==
    \A k \in DOMAIN q :
        q[k] = IF Covered(base, k)
               THEN Quality(Latest[base + (k - 1) \div 8], (k - 1) % 8)
               ELSE 0

\* A quality shows the latest reply exactly if its register is requested and
\* lies in the range reserved for qualities; any other one stays 0, that is
\* good.  The layout has the qualities from Qual on: 3 registers for analogs,
\* 2 for integers, then the discretes.
QualityIsLatestOrGood ==
    Decoded =>
        /\ ShowsLatest(aQ, Qual)
        /\ ShowsLatest(nQ, Qual + 3)
        /\ ShowsLatest(dQ, Qual + 5)

\* sigAValue is the value in the register: the float in the latest reply.
AnalogIsRegister ==
    Decoded =>
        \A k \in 1 .. NA :
            2 * k <= Regs => a[k] = <<Latest[2 * k - 1], Latest[2 * k - 2]>>

\* sigDValue is the value in the register: bit k of the discretes' registers.
DiscreteIsRegister ==
    Decoded =>
        \A k \in 1 .. ND :
            d[k] = Bit(Latest[SumA + SumInt + (k - 1) \div 16], (k - 1) % 16)
=============================================================================

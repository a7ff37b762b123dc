------------------------- MODULE RegisterMapProofs -------------------------
(***************************************************************************)
(* What decoding makes of the replies, for all numbers of signals, all     *)
(* register settings, all contents and any number of replies.              *)
(*                                                                         *)
(* The properties of RegisterMap speak of the states between replies.  In  *)
(* the middle of a reply they hold of the registers that were read so far  *)
(* (IsRead), and that is inductive; the analogs need the length of the     *)
(* buffer that is never emptied besides.                                   *)
(***************************************************************************)
EXTENDS RegisterMap, SequenceTheorems, TLAPS

\* Register u of the latest reply was decoded.
IsRead(u) == replies # <<>> /\ (unit = 0 \/ u < unit)

ShapeInv ==
    /\ conf \in Configurations
    /\ DOMAIN a = 1 .. NA /\ DOMAIN d = 1 .. ND /\ DOMAIN n = 1 .. NI
    /\ DOMAIN aQ = 1 .. NA /\ DOMAIN dQ = 1 .. ND /\ DOMAIN nQ = 1 .. NI
    /\ buf \in Seq(Words)
    /\ unit \in 0 .. Regs - 1
    /\ replies \in Seq(Images)
    /\ replies = <<>> => buf = <<>> /\ unit = 0

\* How many registers of a reply, and of the reply being decoded, are buffered.
PerReply == IF 2 * NA < Regs THEN 2 * NA + 1 ELSE Regs
Buffered == IF unit = 0 \/ PerReply < unit THEN PerReply ELSE unit

\* The buffer grows by PerReply with each reply and begins with the first one.
BufferInv ==
    replies # <<>> =>
        /\ Len(buf) = (Len(replies) - 1) * PerReply + Buffered
        /\ Len(replies) = 1 \/ Len(buf) >= PerReply
        /\ \A j \in 1 .. Len(buf) : j <= PerReply => buf[j] = First[j - 1]

\* An analog is complete when its second register was read for the first time.
AnalogInv ==
    \A k \in 1 .. NA :
        2 * k <= Regs /\ (IsRead(2 * k - 1) \/ Len(replies) > 1) =>
            a[k] = <<First[2 * k - 1], First[2 * k - 2]>>

IntegerInv ==
    \A k \in 1 .. NI :
        k <= SumInt /\ SumA + k <= Regs /\ IsRead(SumA + k - 1) =>
            n[k] = Latest[SumA + k - 1]

LastWord == SumA + SumInt + ND \div 16

DiscreteInv ==
    \A k \in 1 .. ND :
        IF (k - 1) \div 16 = ND \div 16
        THEN ND \div 16 < SumD /\ LastWord < Regs /\ IsRead(LastWord) =>
                 d[k] = Bit(Latest[LastWord], (k - 1) % 16)
        ELSE d[k] = 0

QualityRead(q, base) ==
    \A k \in DOMAIN q :
        IF Covered(base, k)
        THEN IsRead(base + (k - 1) \div 8) =>
                 q[k] = Quality(Latest[base + (k - 1) \div 8], (k - 1) % 8)
        ELSE q[k] = 0

QualityInv ==
    /\ QualityRead(aQ, AnalogBase)
    /\ QualityRead(nQ, IntegerBase)
    /\ QualityRead(dQ, DiscreteBase)

\* The inductive invariant.
IndInv ==
    /\ ShapeInv /\ BufferInv /\ AnalogInv /\ IntegerInv /\ DiscreteInv
    /\ QualityInv
-----------------------------------------------------------------------------
(* What a step does. *)

\* The registers of a reply are counted up to the last one.
LEMMA CountUp ==
    ASSUME NEW r \in Nat \ {0}, NEW u \in 0 .. r - 1
    PROVE  (u + 1) % r = IF u + 1 = r THEN 0 ELSE u + 1
  OBVIOUS

\* The sizes that signals.ini may set.
LEMMA ConfFacts ==
    ASSUME ShapeInv
    PROVE  /\ NA \in Nat /\ ND \in Nat /\ NI \in Nat
           /\ Regs \in Nat \ {0} /\ Qual \in Int
           /\ PerReply \in Nat \ {0} /\ PerReply <= Regs /\ PerReply <= 2 * NA + 1
<1>1. conf \in [na : Nat, nd : Nat, ni : Nat, regs : Nat \ {0}, qual : Int]
  BY RegisterMapAssumption DEF ShapeInv, RegisterMapAssumption
<1>2. /\ NA \in Nat /\ ND \in Nat /\ NI \in Nat
      /\ Regs \in Nat \ {0} /\ Qual \in Int
  BY <1>1 DEF NA, ND, NI, Regs, Qual
<1> QED BY <1>2 DEF PerReply

\* Every step decodes register unit of the reply that is the latest then.
LEMMA StepFacts ==
    ASSUME ShapeInv, Next
    PROVE  /\ ReadMessage(unit, Latest'[unit])
           /\ Latest'[unit] \in Words
           /\ UNCHANGED conf
           /\ unit' = IF unit + 1 = Regs THEN 0 ELSE unit + 1
           /\ replies' \in Seq(Images) /\ replies' # <<>>
           /\ \/ /\ unit = 0
                 /\ Len(replies') = Len(replies) + 1
                 /\ \A j \in 1 .. Len(replies) : replies'[j] = replies[j]
              \/ /\ unit > 0 /\ replies' = replies
           /\ Len(replies) \in Nat /\ Len(replies') \in Nat \ {0}
<1>a. /\ Regs \in Nat \ {0} /\ unit \in 0 .. Regs - 1 /\ replies \in Seq(Images)
      /\ replies = <<>> => unit = 0
  BY ConfFacts DEF ShapeInv
<1>b. \A img \in Images, u \in 0 .. Regs - 1 : img[u] \in Words
  BY RegisterMapAssumption DEF ShapeInv, RegisterMapAssumption, Regs
<1>c. (unit + 1) % Regs = IF unit + 1 = Regs THEN 0 ELSE unit + 1
  BY <1>a, CountUp
<1>1. ASSUME NEW img \in Images, StartReply(img)
      PROVE  /\ ReadMessage(unit, Latest'[unit]) /\ Latest'[unit] \in Words
             /\ unit = 0 /\ UNCHANGED conf
             /\ unit' = IF unit + 1 = Regs THEN 0 ELSE unit + 1
             /\ replies' \in Seq(Images)
             /\ Len(replies') = Len(replies) + 1
             /\ \A j \in 1 .. Len(replies) : replies'[j] = replies[j]
  <2>1. /\ unit = 0 /\ replies' = Append(replies, img) /\ UNCHANGED conf
        /\ ReadMessage(0, img[0]) /\ unit' = 1 % Regs
    BY <1>1 DEF StartReply
  <2>2. /\ replies' \in Seq(Images) /\ Len(replies') = Len(replies) + 1
        /\ replies'[Len(replies) + 1] = img
        /\ \A j \in 1 .. Len(replies) : replies'[j] = replies[j]
    BY <1>a, <2>1, AppendProperties
  <2>3. Latest' = img
    BY <2>2 DEF Latest
  <2>4. 0 + 1 = 1
    OBVIOUS
  <2>5. unit' = IF unit + 1 = Regs THEN 0 ELSE unit + 1
    BY <1>c, <2>1, <2>4
  <2>6. img[0] \in Words
    BY <1>a, <1>b
  <2> QED BY <2>1, <2>2, <2>3, <2>5, <2>6
<1>2. CASE NextRegister
  <2>1. /\ unit > 0 /\ replies' = replies /\ UNCHANGED conf
        /\ ReadMessage(unit, replies[Len(replies)][unit])
        /\ unit' = (unit + 1) % Regs
    BY <1>2 DEF NextRegister
  <2>2. Latest' = replies[Len(replies)]
    BY <2>1 DEF Latest
  <2>3. replies # <<>> /\ Len(replies) \in Nat \ {0}
    BY <1>a, <2>1, EmptySeq, LenProperties
  <2>4. replies[Len(replies)] \in Images
    BY <1>a, <2>3, ElementOfSeq
  <2>5. Latest'[unit] \in Words
    BY <1>a, <1>b, <2>2, <2>4
  <2> QED BY <1>a, <1>c, <2>1, <2>2, <2>3, <2>5
<1>3. Len(replies) \in Nat
  BY <1>a, LenProperties
<1>4. CASE \E img \in Images : StartReply(img)
  <2>1. PICK img \in Images : StartReply(img)
    BY <1>4
  <2>2. Len(replies') \in Nat \ {0} /\ replies' # <<>>
    BY <1>1, <1>3, <2>1, EmptySeq
  <2> QED BY <1>1, <1>3, <2>1, <2>2
<1>5. CASE NextRegister
  <2>1. Len(replies') \in Nat \ {0} /\ replies' # <<>>
    BY <1>a, <1>5, <1>3, EmptySeq DEF NextRegister
  <2> QED BY <1>2, <1>3, <1>5, <1>a, <2>1 DEF NextRegister
<1> QED BY <1>4, <1>5 DEF Next

\* A register that was read after a step was read by it or before it, in the
\* same reply.
LEMMA ReadOrder ==
    ASSUME ShapeInv, Next, NEW w \in 0 .. Regs - 1, IsRead(w)'
    PROVE  w = unit \/ (w < unit /\ IsRead(w) /\ replies' = replies)
<1>1. /\ unit' = IF unit + 1 = Regs THEN 0 ELSE unit + 1
      /\ unit = 0 \/ (unit > 0 /\ replies' = replies)
      /\ replies' # <<>>
  BY StepFacts
<1>2. /\ unit \in 0 .. Regs - 1 /\ Regs \in Nat \ {0}
  BY ConfFacts DEF ShapeInv
<1>3. w <= unit
  BY <1>1, <1>2 DEF IsRead
<1>4. w < unit => IsRead(w) /\ replies' = replies
  BY <1>1, <1>2 DEF IsRead
<1> QED BY <1>2, <1>3, <1>4
-----------------------------------------------------------------------------
(* The steps keep each part of IndInv. *)

\* The signal lists keep their lengths, and the buffer holds registers.
LEMMA ShapeStep == ShapeInv /\ [Next]_vars => ShapeInv'
<1> SUFFICES ASSUME ShapeInv, [Next]_vars PROVE ShapeInv'
  OBVIOUS
<1>1. CASE Next
  <2> DEFINE v == Latest'[unit]
  <2>1. /\ ReadMessage(unit, v) /\ v \in Words /\ UNCHANGED conf
        /\ unit' = IF unit + 1 = Regs THEN 0 ELSE unit + 1
        /\ replies' \in Seq(Images) /\ replies' # <<>>
    BY <1>1, StepFacts
  <2> HIDE DEF v
  <2>2. /\ DOMAIN a' = DOMAIN a /\ DOMAIN d' = DOMAIN d /\ DOMAIN n' = DOMAIN n
        /\ DOMAIN aQ' = DOMAIN aQ /\ DOMAIN dQ' = DOMAIN dQ /\ DOMAIN nQ' = DOMAIN nQ
    BY <2>1 DEF ReadMessage, ReadAnalog, ReadInteger, ReadDiscrete, ReadQuality
  <2>3. buf' = Append(buf, v) \/ buf' = buf
    BY <2>1 DEF ReadMessage, ReadAnalog
  <2>4. buf' \in Seq(Words)
    <3>1. buf \in Seq(Words) /\ v \in Words
      BY <2>1 DEF ShapeInv
    <3> HIDE DEF Words
    <3> QED BY <2>3, <3>1, AppendProperties
  <2>5. unit' \in 0 .. Regs - 1
    BY <2>1, ConfFacts DEF ShapeInv
  <2> QED BY <2>1, <2>2, <2>4, <2>5 DEF ShapeInv, NA, ND, NI, Regs
<1>2. CASE UNCHANGED vars
  BY <1>2 DEF vars, values, qualities, ShapeInv, NA, ND, NI, Regs
<1> QED BY <1>1, <1>2

\* An integer's register is decoded into it alone, and into nothing else.
LEMMA IntegerStep == ShapeInv /\ IntegerInv /\ [Next]_vars => IntegerInv'
<1> SUFFICES ASSUME ShapeInv, IntegerInv, [Next]_vars PROVE IntegerInv'
  OBVIOUS
<1>1. CASE Next
  <2> SUFFICES ASSUME NEW k \in 1 .. NI, k <= SumInt, SumA + k <= Regs,
                      IsRead(SumA + k - 1)'
               PROVE  n'[k] = Latest'[SumA + k - 1]
    BY <1>1, StepFacts DEF IntegerInv, NI, Regs, SumInt, SumA
  <2>1. /\ ReadInteger(unit, Latest'[unit]) /\ DOMAIN n = 1 .. NI
    BY <1>1, StepFacts DEF ReadMessage, ShapeInv
  <2>2. SumA + k - 1 \in 0 .. Regs - 1
    BY ConfFacts DEF SumA
  <2>3. CASE unit = SumA + k - 1
    BY <2>1, <2>3 DEF ReadInteger
  <2>4. CASE unit # SumA + k - 1
    <3>1. IsRead(SumA + k - 1) /\ replies' = replies
      BY <1>1, <2>2, <2>4, ReadOrder
    <3>2. n'[k] = n[k]
      BY <2>1, <2>4 DEF ReadInteger
    <3> QED BY <3>1, <3>2 DEF IntegerInv, Latest
  <2> QED BY <2>3, <2>4
<1>2. CASE UNCHANGED vars
  BY <1>2 DEF vars, values, IntegerInv, IsRead, Latest, NI, Regs
<1> QED BY <1>1, <1>2

\* Only the discretes of the last word are written, last of all by that word.
LEMMA DiscreteStep == ShapeInv /\ DiscreteInv /\ [Next]_vars => DiscreteInv'
<1> SUFFICES ASSUME ShapeInv, DiscreteInv, [Next]_vars PROVE DiscreteInv'
  OBVIOUS
<1>1. CASE Next
  <2>a. UNCHANGED <<ND, Regs, LastWord>> /\ ND \in Nat /\ Regs \in Nat
    BY <1>1, StepFacts, ConfFacts DEF ND, Regs, LastWord
  <2>b. ReadDiscrete(unit, Latest'[unit]) /\ DOMAIN d = 1 .. ND
    BY <1>1, StepFacts DEF ReadMessage, ShapeInv
  <2>1. ASSUME NEW k \in 1 .. ND, (k - 1) \div 16 # ND \div 16
        PROVE  d'[k] = 0
    BY <2>b, <2>1 DEF ReadDiscrete, DiscreteInv
  <2>2. ASSUME NEW k \in 1 .. ND, (k - 1) \div 16 = ND \div 16,
               ND \div 16 < SumD, LastWord < Regs, IsRead(LastWord)'
        PROVE  d'[k] = Bit(Latest'[LastWord], (k - 1) % 16)
    <3>1. LastWord \in 0 .. Regs - 1 /\ ND \div 16 \in Nat
      BY <2>a, <2>2 DEF LastWord, SumA, SumInt
    <3>2. CASE unit = LastWord
      <4>1. unit - (SumA + SumInt) = ND \div 16
        BY <3>1, <3>2 DEF LastWord, SumA, SumInt
      <4>2. unit - (SumA + SumInt) \in 0 .. SumD - 1 /\ unit - (SumA + SumInt) < DiscreteWords
        BY <2>2, <3>1, <4>1 DEF SumD, DiscreteWords
      <4>3. k \in DOMAIN d
        BY <2>b
      <4>4. d'[k] = Bit(Latest'[unit], (k - 1) % 16)
        <5> DEFINE w == unit - (SumA + SumInt)
        <5>1. d' = [j \in DOMAIN d |->
                      IF w \in 0 .. SumD - 1 /\ w < DiscreteWords /\ (j - 1) \div 16 = ND \div 16
                      THEN Bit(Latest'[unit], (j - 1) % 16) ELSE d[j]]
          BY <2>b DEF ReadDiscrete
        <5> HIDE DEF w
        <5>2. w \in 0 .. SumD - 1 /\ w < DiscreteWords
          BY <4>2 DEF w
        <5> QED BY <2>2, <4>3, <5>1, <5>2, Zenon
      <4> QED BY <3>2, <4>4
    <3>3. CASE unit # LastWord
      <4>1. LastWord < unit /\ IsRead(LastWord) /\ replies' = replies
        <5>1. PICK w \in 0 .. Regs - 1 : w = LastWord
          BY <3>1
        <5>2. IsRead(w)'
          BY <2>a, <2>2, <5>1 DEF IsRead
        <5>3. w # unit
          BY <3>3, <5>1
        <5>4. w < unit /\ IsRead(w) /\ replies' = replies
          BY <1>1, <5>2, <5>3, ReadOrder
        <5> QED BY <5>1, <5>4 DEF IsRead
      <4>2. ~(unit - (SumA + SumInt) < DiscreteWords)
        <5>1. unit \in Int
          BY <2>a DEF ShapeInv
        <5> QED BY <3>1, <4>1, <5>1 DEF DiscreteWords, LastWord, SumA, SumInt
      <4>3. d'[k] = d[k]
        BY <2>b, <4>2 DEF ReadDiscrete
      <4> QED BY <2>2, <4>1, <4>3 DEF DiscreteInv, Latest
    <3> QED BY <3>2, <3>3
  <2> QED BY <2>a, <2>1, <2>2 DEF DiscreteInv
<1>2. CASE UNCHANGED vars
  BY <1>2 DEF vars, values, DiscreteInv, IsRead, Latest, LastWord, ND, Regs
<1> QED BY <1>1, <1>2

\* The quality registers of a kind of signals, wherever they begin.
LEMMA QualityKindStep ==
    ASSUME ShapeInv, Next, NEW q, NEW base \in Int, base >= Qual, NEW r,
           DOMAIN q \subseteq Nat \ {0}, QualityRead(q, base),
           r = ReadQuality(q, base, unit, Latest'[unit])
    PROVE  QualityRead(r, base)'
<1> SUFFICES ASSUME NEW k \in DOMAIN q
             PROVE  IF Covered(base, k)
                    THEN IsRead(base + (k - 1) \div 8)' =>
                             r[k] = Quality(Latest'[base + (k - 1) \div 8], (k - 1) % 8)
                    ELSE r[k] = 0
  <2>1. UNCHANGED conf
    BY StepFacts
  <2>2. DOMAIN r = DOMAIN q
    BY DEF ReadQuality
  <2>3. \A k \in DOMAIN q : Covered(base, k)' <=> Covered(base, k)
    BY <2>1 DEF Covered, Qual, Regs, QualityEnd
  <2> QED BY <2>2, <2>3 DEF QualityRead
<1> DEFINE u == base + (k - 1) \div 8
<1>1. unit \in 0 .. Regs - 1 /\ Regs \in Nat /\ Qual \in Int /\ u \in Int
  BY ConfFacts DEF ShapeInv
<1>2. r[k] = IF Qual >= 0 /\ unit < QualityEnd /\ unit = u
             THEN Quality(Latest'[unit], (k - 1) % 8) ELSE q[k]
  BY DEF ReadQuality
<1>3. Covered(base, k) <=> Qual >= 0 /\ u < Regs /\ u < QualityEnd
  BY DEF Covered
<1>4. CASE ~Covered(base, k)
  <2>1. q[k] = 0
    BY <1>4 DEF QualityRead
  <2> QED BY <1>1, <1>2, <1>3, <1>4, <2>1
<1>5. CASE Covered(base, k) /\ unit = u
  BY <1>2, <1>3, <1>5
<1>6. ASSUME Covered(base, k), unit # u, IsRead(u)'
      PROVE  r[k] = Quality(Latest'[u], (k - 1) % 8)
  <2>1. u \in 0 .. Regs - 1
    BY <1>1, <1>3, <1>6
  <2>2. IsRead(u) /\ replies' = replies
    BY <1>6, <2>1, ReadOrder
  <2>3. q[k] = Quality(Latest[u], (k - 1) % 8)
    BY <1>6, <2>2 DEF QualityRead
  <2> QED BY <1>2, <1>6, <2>2, <2>3 DEF Latest
<1> QED BY <1>4, <1>5, <1>6

\* Where the qualities of each kind begin: 3 registers for analogs, 2 for
\* integers, then the discretes.
LEMMA QualityBases ==
    ASSUME ShapeInv
    PROVE  /\ AnalogBase = Qual /\ IntegerBase = Qual + 3 /\ DiscreteBase = Qual + 5
           /\ Qual \in Int
  BY ConfFacts DEF AnalogBase, IntegerBase, DiscreteBase, CeilDiv, SumA, SumInt

\* Each quality register is decoded into the eight signals it serves.
LEMMA QualityStep == ShapeInv /\ QualityInv /\ [Next]_vars => QualityInv'
<1> SUFFICES ASSUME ShapeInv, QualityInv, [Next]_vars PROVE QualityInv'
  OBVIOUS
<1>1. CASE Next
  <2>a. UNCHANGED conf /\ ReadMessage(unit, Latest'[unit])
    BY <1>1, StepFacts
  <2>1. QualityRead(aQ, AnalogBase)'
    <3>1. PICK b, q, r : b = AnalogBase /\ q = aQ /\ r = aQ'
      OBVIOUS
    <3>2. b \in Int /\ b >= Qual
      BY <3>1, QualityBases
    <3>3. DOMAIN q \subseteq Nat \ {0}
      BY <3>1, ConfFacts DEF ShapeInv
    <3>4. QualityRead(q, b)
      BY <3>1 DEF QualityInv
    <3>5. r = ReadQuality(q, b, unit, Latest'[unit])
      BY <2>a, <3>1 DEF ReadMessage
    <3>6. QualityRead(r, b)'
      BY <1>1, <3>2, <3>3, <3>4, <3>5, QualityKindStep
    <3>7. AnalogBase' = b
      BY <2>a, <3>1 DEF AnalogBase, Qual
    <3> QED BY <3>1, <3>6, <3>7 DEF QualityRead
  <2>2. QualityRead(nQ, IntegerBase)'
    <3>1. PICK b, q, r : b = IntegerBase /\ q = nQ /\ r = nQ'
      OBVIOUS
    <3>2. b \in Int /\ b >= Qual
      BY <3>1, QualityBases
    <3>3. DOMAIN q \subseteq Nat \ {0}
      BY <3>1, ConfFacts DEF ShapeInv
    <3>4. QualityRead(q, b)
      BY <3>1 DEF QualityInv
    <3>5. r = ReadQuality(q, b, unit, Latest'[unit])
      BY <2>a, <3>1 DEF ReadMessage
    <3>6. QualityRead(r, b)'
      BY <1>1, <3>2, <3>3, <3>4, <3>5, QualityKindStep
    <3>7. IntegerBase' = b
      BY <2>a, <3>1 DEF IntegerBase, Qual
    <3> QED BY <3>1, <3>6, <3>7 DEF QualityRead
  <2>3. QualityRead(dQ, DiscreteBase)'
    <3>1. PICK b, q, r : b = DiscreteBase /\ q = dQ /\ r = dQ'
      OBVIOUS
    <3>2. b \in Int /\ b >= Qual
      BY <3>1, QualityBases
    <3>3. DOMAIN q \subseteq Nat \ {0}
      BY <3>1, ConfFacts DEF ShapeInv
    <3>4. QualityRead(q, b)
      BY <3>1 DEF QualityInv
    <3>5. r = ReadQuality(q, b, unit, Latest'[unit])
      BY <2>a, <3>1 DEF ReadMessage
    <3>6. QualityRead(r, b)'
      BY <1>1, <3>2, <3>3, <3>4, <3>5, QualityKindStep
    <3>7. DiscreteBase' = b
      BY <2>a, <3>1 DEF DiscreteBase, IntegerBase, Qual
    <3> QED BY <3>1, <3>6, <3>7 DEF QualityRead
  <2> QED BY <2>1, <2>2, <2>3 DEF QualityInv
<1>2. CASE UNCHANGED vars
  <2>1. UNCHANGED <<conf, aQ, nQ, dQ, unit, replies>>
    BY <1>2 DEF vars, qualities
  <2> QED
    BY <2>1 DEF QualityInv, QualityRead, Covered, IsRead, Latest, AnalogBase,
       IntegerBase, DiscreteBase, QualityEnd, Qual, Regs
<1> QED BY <1>1, <1>2

\* One reply more in a product of lengths.
LEMMA OneMore ==
    ASSUME NEW m \in Int, NEW p \in Int
    PROVE  /\ m * p = (m - 1) * p + p
           /\ m * p \in Int /\ (m - 1) * p \in Int
           /\ m = 1 => (m - 1) * p = 0
  OBVIOUS

\* The first reply stays the first.
LEMMA FirstKept ==
    ASSUME ShapeInv, Next, replies # <<>>
    PROVE  First' = First /\ Len(replies) \in Nat \ {0}
<1>1. Len(replies) \in Nat \ {0}
  BY EmptySeq, LenProperties DEF ShapeInv
<1>2. replies'[1] = replies[1]
  BY <1>1, StepFacts
<1> QED BY <1>1, <1>2 DEF First

\* What a step does to the buffer: it takes the register if it is one of the
\* first PerReply.
LEMMA BufferFacts ==
    ASSUME ShapeInv, Next
    PROVE  /\ PerReply' = PerReply /\ Len(buf) \in Nat
           /\ \/ /\ unit < PerReply
                 /\ Len(buf') = Len(buf) + 1
                 /\ buf'[Len(buf) + 1] = Latest'[unit]
                 /\ \A j \in 1 .. Len(buf) : buf'[j] = buf[j]
              \/ /\ unit >= PerReply
                 /\ buf' = buf
<1>1. /\ ReadAnalog(unit, Latest'[unit]) /\ UNCHANGED conf
      /\ Latest'[unit] \in Words
  BY StepFacts DEF ReadMessage
<1>2. PerReply' = PerReply
  BY <1>1 DEF PerReply, NA, Regs
<1>3. /\ unit \in 0 .. Regs - 1 /\ buf \in Seq(Words) /\ NA \in Nat /\ Regs \in Nat
  BY ConfFacts DEF ShapeInv
<1>4. unit <= 2 * NA <=> unit < PerReply
  BY <1>3 DEF PerReply
<1>5. CASE unit <= 2 * NA
  <2>1. buf' = Append(buf, Latest'[unit])
    BY <1>1, <1>5 DEF ReadAnalog
  <2> HIDE DEF Words
  <2>2. /\ Len(buf') = Len(buf) + 1
        /\ buf'[Len(buf) + 1] = Latest'[unit]
        /\ \A j \in 1 .. Len(buf) : buf'[j] = buf[j]
    BY <1>1, <1>3, <2>1, AppendProperties
  <2> QED BY <1>2, <1>3, <1>4, <1>5, <2>2, LenProperties
<1>6. CASE ~(unit <= 2 * NA)
  <2>1. buf' = buf
    BY <1>1, <1>6 DEF ReadAnalog
  <2>2. PerReply \in Nat /\ unit \in Nat
    BY <1>3, ConfFacts
  <2> QED BY <1>2, <1>3, <1>4, <1>6, <2>1, <2>2, LenProperties
<1> QED BY <1>5, <1>6

\* Each reply adds the same number of registers, and none of them takes the
\* place of an earlier one.
LEMMA BufferStep == ShapeInv /\ BufferInv /\ [Next]_vars => BufferInv'
<1> SUFFICES ASSUME ShapeInv, BufferInv, [Next]_vars PROVE BufferInv'
  OBVIOUS
<1>1. CASE Next
  <2>a. /\ PerReply \in Nat \ {0} /\ PerReply <= Regs /\ Regs \in Nat \ {0}
        /\ unit \in 0 .. Regs - 1 /\ PerReply' = PerReply /\ Len(buf) \in Nat
        /\ unit' = IF unit + 1 = Regs THEN 0 ELSE unit + 1
        /\ Len(replies) \in Nat /\ Len(replies') \in Nat \ {0}
    BY <1>1, ConfFacts, StepFacts, BufferFacts DEF ShapeInv
  <2>b. /\ Buffered' = IF unit' = 0 \/ PerReply < unit' THEN PerReply ELSE unit'
        /\ Buffered = IF unit = 0 \/ PerReply < unit THEN PerReply ELSE unit
    BY <2>a DEF Buffered
  <2>c. Buffered' = IF unit < PerReply THEN unit + 1 ELSE PerReply
    BY <2>a, <2>b
  \* The first register of the first reply.
  <2>1. CASE replies = <<>>
    <3>1. /\ unit = 0 /\ Len(buf) = 0 /\ Len(replies) = 0
      BY <2>1 DEF ShapeInv
    <3>2. Len(replies') = 1
      BY <1>1, <3>1, StepFacts
    <3>3. /\ Len(buf') = 1 /\ buf'[1] = Latest'[0]
      BY <1>1, <2>a, <3>1, BufferFacts
    <3>4. First' = Latest'
      BY <3>2 DEF First, Latest
    <3>5. Buffered' = 1
      BY <2>a, <2>c, <3>1
    <3>6. (Len(replies') - 1) * PerReply = 0
      BY <2>a, <3>2
    <3>7. \A j \in 1 .. Len(buf') : buf'[j] = First'[j - 1]
      BY <3>3, <3>4
    <3> QED BY <2>a, <3>2, <3>3, <3>5, <3>6, <3>7 DEF BufferInv
  \* The first register of a later one.
  <2>2. CASE replies # <<>> /\ unit = 0
    <3>1. /\ Len(buf) = (Len(replies) - 1) * PerReply + PerReply
          /\ Len(replies) = 1 \/ Len(buf) >= PerReply
          /\ \A j \in 1 .. Len(buf) : j <= PerReply => buf[j] = First[j - 1]
      BY <2>b, <2>2 DEF BufferInv
    <3>2. First' = First /\ Len(replies) \in Nat \ {0}
      BY <1>1, <2>2, FirstKept
    <3>3. Len(replies') = Len(replies) + 1
      BY <1>1, <2>2, StepFacts
    <3>4. /\ Len(buf') = Len(buf) + 1
          /\ \A j \in 1 .. Len(buf) : buf'[j] = buf[j]
      BY <1>1, <2>a, <2>2, BufferFacts
    <3>5. Len(buf) = Len(replies) * PerReply
      BY <2>a, <3>1, <3>2, OneMore
    <3>6. Buffered' = 1
      BY <2>a, <2>c, <2>2
    <3>7. Len(buf') = (Len(replies') - 1) * PerReply + Buffered'
      <4>1. Len(replies') - 1 = Len(replies)
        BY <2>a, <3>3
      <4> QED BY <2>a, <3>4, <3>5, <3>6, <4>1
    <3>8. Len(buf) >= PerReply
      <4>1. CASE Len(replies) = 1
        BY <2>a, <3>5, <4>1
      <4> QED BY <3>1, <4>1
    <3>9. \A j \in 1 .. Len(buf') : j <= PerReply => j \in 1 .. Len(buf)
      BY <2>a, <3>4, <3>8
    <3>10. Len(buf') >= PerReply
      BY <2>a, <3>4, <3>8
    <3> QED BY <2>a, <3>1, <3>2, <3>4, <3>7, <3>9, <3>10 DEF BufferInv
  \* Any other register.
  <2>3. CASE unit # 0
    <3>1. /\ replies' = replies /\ replies # <<>>
      BY <1>1, <2>a, <2>3, StepFacts DEF ShapeInv
    <3>2. /\ Len(buf) = (Len(replies) - 1) * PerReply + Buffered
          /\ Len(replies) = 1 \/ Len(buf) >= PerReply
          /\ \A j \in 1 .. Len(buf) : j <= PerReply => buf[j] = First[j - 1]
      BY <3>1 DEF BufferInv
    <3>3. First' = First /\ Len(replies) \in Nat \ {0}
      BY <1>1, <3>1, FirstKept
    <3> DEFINE x == (Len(replies) - 1) * PerReply
    <3>4. x \in Int /\ (Len(replies) = 1 => x = 0)
      <4>1. Len(replies) \in Int /\ PerReply \in Int
        BY <2>a
      <4> QED BY <4>1, OneMore, Zenon
    <3> HIDE DEF x
    <3>5. CASE unit < PerReply
      <4>1. /\ Len(buf') = Len(buf) + 1 /\ buf'[Len(buf) + 1] = Latest'[unit]
            /\ \A j \in 1 .. Len(buf) : buf'[j] = buf[j]
        BY <1>1, <2>a, <3>5, BufferFacts
      <4>2. Buffered = unit /\ Buffered' = unit + 1
        BY <2>a, <2>b, <2>c, <2>3, <3>5
      <4>3. Len(buf') = (Len(replies') - 1) * PerReply + Buffered'
        BY <2>a, <3>1, <3>2, <3>4, <4>1, <4>2 DEF x
      <4>4. ASSUME NEW j \in 1 .. Len(buf'), j <= PerReply
            PROVE  buf'[j] = First[j - 1]
        <5>1. CASE j \in 1 .. Len(buf)
          BY <3>2, <4>1, <4>4, <5>1
        <5>2. CASE j \notin 1 .. Len(buf)
          <6>1. j = Len(buf) + 1 /\ Len(buf) < PerReply
            BY <2>a, <4>1, <4>4, <5>2
          <6>2. Len(replies) = 1
            BY <2>a, <3>2, <6>1
          <6>3. Len(buf) = x + Buffered
            BY <3>2 DEF x
          <6>4. Len(buf) = unit
            BY <2>a, <3>4, <4>2, <6>2, <6>3
          <6>5. Latest' = First
            BY <3>1, <6>2 DEF Latest, First
          <6>6. j - 1 = unit
            BY <2>a, <6>1, <6>4
          <6> QED BY <4>1, <6>1, <6>5, <6>6
        <5> QED BY <5>1, <5>2
      <4>5. Len(buf) >= PerReply => Len(buf') >= PerReply
        BY <2>a, <4>1
      <4> QED BY <2>a, <3>1, <3>2, <3>3, <4>3, <4>4, <4>5 DEF BufferInv
    <3>6. CASE unit >= PerReply
      <4>1. buf' = buf
        BY <1>1, <2>a, <3>6, BufferFacts
      <4>2. Buffered = PerReply /\ Buffered' = PerReply
        BY <2>a, <2>b, <2>c, <2>3, <3>6
      <4> QED BY <2>a, <3>1, <3>2, <3>3, <4>1, <4>2 DEF BufferInv
    <3> QED BY <2>a, <3>5, <3>6
  <2> QED BY <2>1, <2>2, <2>3
<1>2. CASE UNCHANGED vars
  <2>1. UNCHANGED <<conf, buf, unit, replies>>
    BY <1>2 DEF vars
  <2> QED BY <2>1 DEF BufferInv, Buffered, PerReply, First, NA, Regs
<1> QED BY <1>1, <1>2

\* An analog that was completed once is completed with the same registers again.
LEMMA AnalogStep ==
    ShapeInv /\ BufferInv /\ AnalogInv /\ [Next]_vars => AnalogInv'
<1> SUFFICES ASSUME ShapeInv, BufferInv, BufferInv', AnalogInv, [Next]_vars
             PROVE  AnalogInv'
  BY BufferStep
<1>1. CASE Next
  <2>a. /\ PerReply \in Nat \ {0} /\ Regs \in Nat \ {0} /\ NA \in Nat
        /\ unit \in 0 .. Regs - 1 /\ PerReply' = PerReply
        /\ Len(buf) \in Nat /\ Len(replies) \in Nat /\ Len(replies') \in Nat \ {0}
        /\ UNCHANGED conf /\ replies' # <<>> /\ ReadAnalog(unit, Latest'[unit])
        /\ DOMAIN a = 1 .. NA
    BY <1>1, ConfFacts, StepFacts, BufferFacts DEF ShapeInv, ReadMessage
  <2> SUFFICES ASSUME NEW k \in 1 .. NA, 2 * k <= Regs,
                      IsRead(2 * k - 1)' \/ Len(replies') > 1
               PROVE  a'[k] = <<First'[2 * k - 1], First'[2 * k - 2]>>
    BY <2>a DEF AnalogInv, NA, Regs
  <2>1. CASE unit = 2 * k - 1
    <3>1. 2 * k <= PerReply
      BY <2>a DEF PerReply
    <3>2. Len(buf') \in Nat /\ Len(buf') >= 2 * k
      <4>1. /\ Len(buf') = Len(buf) + 1
        BY <1>1, <2>a, <2>1, <3>1, BufferFacts
      <4>2. CASE Len(replies') = 1
        <5>1. Len(buf') = (Len(replies') - 1) * PerReply + Buffered'
          BY <2>a DEF BufferInv
        <5>2. (Len(replies') - 1) * PerReply = 0
          BY <2>a, <4>2
        <5>3. Buffered' = IF unit' = 0 \/ PerReply < unit' THEN PerReply ELSE unit'
          BY <2>a DEF Buffered
        <5>4. unit' = 0 \/ unit' = unit + 1
          BY <1>1, StepFacts
        <5> QED BY <2>a, <2>1, <3>1, <4>1, <5>1, <5>2, <5>3, <5>4
      <4>3. CASE Len(replies') # 1
        <5>1. Len(buf') >= PerReply
          BY <2>a, <4>3 DEF BufferInv
        <5> QED BY <2>a, <3>1, <4>1, <5>1
      <4> QED BY <4>2, <4>3
    <3>3. \A j \in 1 .. Len(buf') : j <= PerReply => buf'[j] = First'[j - 1]
      BY <2>a DEF BufferInv
    <3>4. buf'[2 * k] = First'[2 * k - 1] /\ buf'[2 * k - 1] = First'[2 * k - 2]
      <4>1. /\ 2 * k \in 1 .. Len(buf') /\ 2 * k - 1 \in 1 .. Len(buf')
            /\ 2 * k - 1 <= PerReply /\ (2 * k - 1) - 1 = 2 * k - 2
        BY <2>a, <3>1, <3>2
      <4> QED BY <3>1, <3>3, <4>1
    <3>5. a'[k] = <<buf'[unit + 1], buf'[unit]>>
      BY <2>a, <2>1 DEF ReadAnalog
    <3>6. unit + 1 = 2 * k
      BY <2>1
    <3> QED BY <2>1, <3>4, <3>5, <3>6
  <2>2. CASE unit # 2 * k - 1
    <3>1. a'[k] = a[k]
      BY <2>a, <2>2 DEF ReadAnalog
    <3>2. IsRead(2 * k - 1) \/ Len(replies) > 1
      <4>1. CASE IsRead(2 * k - 1)'
        <5>1. 2 * k - 1 \in 0 .. Regs - 1
          BY <2>a
        <5> QED BY <1>1, <2>2, <4>1, <5>1, ReadOrder
      <4>2. CASE Len(replies') > 1
        <5>1. CASE replies' = replies
          BY <4>2, <5>1
        <5>2. CASE unit = 0 /\ Len(replies') = Len(replies) + 1
          <6>1. Len(replies) # 0
            BY <2>a, <4>2, <5>2
          <6>2. replies # <<>>
            BY <6>1
          <6> QED BY <5>2, <6>2 DEF IsRead
        <5> QED BY <1>1, <5>1, <5>2, StepFacts
      <4> QED BY <4>1, <4>2
    <3>3. replies # <<>>
      BY <3>2 DEF IsRead
    <3>4. First' = First
      BY <1>1, <3>3, FirstKept
    <3> QED BY <3>1, <3>2, <3>4 DEF AnalogInv
  <2> QED BY <2>1, <2>2
<1>2. CASE UNCHANGED vars
  <2>1. UNCHANGED <<conf, a, unit, replies>>
    BY <1>2 DEF vars, values
  <2> QED BY <2>1 DEF AnalogInv, IsRead, First, NA, Regs
<1> QED BY <1>1, <1>2
-----------------------------------------------------------------------------
\* The WS_signal constructors: all zero, and nothing was read.
LEMMA IndInit == Init => IndInv
<1> SUFFICES ASSUME Init PROVE IndInv
  OBVIOUS
<1>1. /\ conf \in Configurations /\ buf = <<>> /\ unit = 0 /\ replies = <<>>
      /\ DOMAIN a = 1 .. NA /\ DOMAIN d = 1 .. ND /\ DOMAIN n = 1 .. NI
      /\ DOMAIN aQ = 1 .. NA /\ DOMAIN dQ = 1 .. ND /\ DOMAIN nQ = 1 .. NI
      /\ \A k \in DOMAIN d : d[k] = 0
      /\ \A k \in DOMAIN aQ : aQ[k] = 0
      /\ \A k \in DOMAIN dQ : dQ[k] = 0
      /\ \A k \in DOMAIN nQ : nQ[k] = 0
  BY DEF Init
<1>2. ShapeInv
  <2>1. conf \in [na : Nat, nd : Nat, ni : Nat, regs : Nat \ {0}, qual : Int]
    BY <1>1, RegisterMapAssumption DEF RegisterMapAssumption
  <2>2. 0 \in 0 .. Regs - 1
    BY <2>1 DEF Regs
  <2>3. buf \in Seq(Words) /\ replies \in Seq(Images)
    BY <1>1, EmptySeq
  <2> QED BY <1>1, <2>2, <2>3 DEF ShapeInv
<1>3. ~IsRead(0) /\ \A w : ~IsRead(w)
  BY <1>1 DEF IsRead
<1>4. BufferInv
  BY <1>1 DEF BufferInv
<1>5. AnalogInv
  <2>1. Len(replies) = 0
    BY <1>1
  <2> QED BY <1>3, <2>1 DEF AnalogInv
<1>6. IntegerInv
  BY <1>3 DEF IntegerInv
<1>7. DiscreteInv
  BY <1>1, <1>3 DEF DiscreteInv
<1>8. QualityInv
  BY <1>1, <1>3 DEF QualityInv, QualityRead
<1> QED BY <1>2, <1>4, <1>5, <1>6, <1>7, <1>8 DEF IndInv

\* Between and within replies, every signal holds what the registers read so
\* far make of it: the inductive invariant of decoding.
THEOREM Invariance == Spec => []IndInv
<1>1. IndInv /\ [Next]_vars => IndInv'
  BY ShapeStep, BufferStep, AnalogStep, IntegerStep, DiscreteStep, QualityStep
     DEF IndInv
<1> QED BY IndInit, <1>1, PTL DEF Spec

\* Between replies, every register was read.
LEMMA AllRead ==
    ASSUME Decoded
    PROVE  \A w : IsRead(w)
  BY DEF Decoded, IsRead

\* An analog keeps the first reply for good, and the buffer grows without end.
THEOREM AnalogsAreFrozen == Spec => []AnalogsKeepFirstReply
<1>1. IndInv => AnalogsKeepFirstReply
  <2> SUFFICES ASSUME IndInv, Decoded
               PROVE  /\ \A k \in 1 .. NA : 2 * k <= Regs =>
                            a[k] = <<First[2 * k - 1], First[2 * k - 2]>>
                      /\ 2 * NA < Regs => Len(buf) = Len(replies) * (2 * NA + 1)
    BY DEF AnalogsKeepFirstReply
  <2>1. \A k \in 1 .. NA : 2 * k <= Regs =>
            a[k] = <<First[2 * k - 1], First[2 * k - 2]>>
    BY AllRead DEF IndInv, AnalogInv
  <2>2. ASSUME 2 * NA < Regs
        PROVE  Len(buf) = Len(replies) * (2 * NA + 1)
    <3>1. /\ PerReply = 2 * NA + 1 /\ PerReply \in Int
          /\ Len(replies) \in Int
      BY <2>2, ConfFacts, LenProperties DEF IndInv, ShapeInv, PerReply
    <3>2. Len(buf) = (Len(replies) - 1) * PerReply + PerReply
      BY DEF IndInv, BufferInv, Buffered, Decoded
    <3>3. Len(buf) = Len(replies) * PerReply
      BY <3>1, <3>2, OneMore
    <3> QED BY <3>1, <3>3
  <2> QED BY <2>1, <2>2
<1> QED BY <1>1, Invariance, PTL

\* An integer with a register of its own shows the latest reply.
THEOREM IntegersFollow == Spec => []IntegersAreLatest
<1>1. IndInv => IntegersAreLatest
  BY AllRead DEF IndInv, IntegerInv, IntegersAreLatest
<1> QED BY <1>1, Invariance, PTL

\* Of the discretes, those of the last word show the latest reply and the
\* others are never written.
THEOREM LastWordAlone == Spec => []OnlyLastWordIsRead
<1>1. IndInv => OnlyLastWordIsRead
  BY AllRead DEF IndInv, ShapeInv, DiscreteInv, OnlyLastWordIsRead, LastWord
<1> QED BY <1>1, Invariance, PTL

\* A quality shows the latest reply exactly if its register is requested and
\* in the reserved range; otherwise it stays good.
THEOREM QualitiesFollow == Spec => []QualityIsLatestOrGood
<1>1. IndInv => QualityIsLatestOrGood
  <2> SUFFICES ASSUME IndInv, Decoded
               PROVE  /\ ShowsLatest(aQ, Qual)
                      /\ ShowsLatest(nQ, Qual + 3)
                      /\ ShowsLatest(dQ, Qual + 5)
    BY DEF QualityIsLatestOrGood
  <2>1. ASSUME NEW q, NEW base, QualityRead(q, base)
        PROVE  ShowsLatest(q, base)
    BY <2>1, AllRead DEF QualityRead, ShowsLatest
  <2>2. /\ QualityRead(aQ, AnalogBase)
        /\ QualityRead(nQ, IntegerBase)
        /\ QualityRead(dQ, DiscreteBase)
    BY DEF IndInv, QualityInv
  <2>3. /\ AnalogBase = Qual /\ IntegerBase = Qual + 3
        /\ DiscreteBase = Qual + 5
    BY QualityBases DEF IndInv
  <2>4. ShowsLatest(aQ, AnalogBase)
    BY <2>1, <2>2
  <2>5. ShowsLatest(nQ, IntegerBase)
    BY <2>1, <2>2
  <2>6. ShowsLatest(dQ, DiscreteBase)
    BY <2>1, <2>2
  <2> QED BY <2>3, <2>4, <2>5, <2>6
<1> QED BY <1>1, Invariance, PTL
=============================================================================

-------------------------- MODULE SignalsIniProofs --------------------------
(***************************************************************************)
(* What reading makes of signals.ini, for all lines and any number of them.*)
(*                                                                         *)
(* The properties speak of the last line with a title or a kind and of the *)
(* places in a list.  Each line read adds one to what they range over, so  *)
(* that a last one is there by induction over the steps (IsLast), and no   *)
(* induction over the lines is needed.                                     *)
(***************************************************************************)
EXTENDS SignalsIni, SequenceTheorems, FiniteSetTheorems, TLAPS

\* m is the last of the positions P, or 0 if there are none.
IsLast(m, P) == m \in {0} \cup P /\ \A x \in P : x <= m

\* A setting has the number of the last line with its title.
SettingInv ==
    \A t \in Settings :
        \E m \in 0 .. Len(read) :
            /\ IsLast(m, {q \in DOMAIN read : Mentions(read[q], t)})
            /\ settings[t] = IF m = 0 THEN Default[t]
                             ELSE Meant(read[m], t) % Width(t)

\* The kind is the last one named.
KindInv ==
    \E h \in 0 .. Len(read) :
        /\ IsLast(h, {q \in DOMAIN read : NamesKind(read[q])})
        /\ h # 0 => LastKind(read[h], kind)

\* A signal has the kind that was the last one named up to its line.
SectionInv ==
    \A k \in KindNames : \A i \in DOMAIN signals[k] :
        \E h \in 0 .. Len(read) :
            /\ IsLast(h, Naming(read, signals[k][i]))
            /\ h # 0 => LastKind(read[h], k)

\* The signals before any kind is named share one, the present one until then.
OrphanInv ==
    /\ \A k1, k2 \in KindNames :
          \A i \in DOMAIN signals[k1], j \in DOMAIN signals[k2] :
             Naming(read, signals[k1][i]) = {} /\ Naming(read, signals[k2][j]) = {} => k1 = k2
    /\ Naming(read, Len(read)) = {} =>
          \A k \in KindNames : DOMAIN signals[k] # {} => k = kind

\* Every line with a signal has a place, and no line has two.
PlaceInv ==
    /\ \A k \in KindNames : \A i, j \in DOMAIN signals[k] :
          i < j => signals[k][i] < signals[k][j]
    /\ \A k1, k2 \in KindNames :
          \A i \in DOMAIN signals[k1], j \in DOMAIN signals[k2] :
             signals[k1][i] = signals[k2][j] => k1 = k2
    /\ \A p \in DOMAIN read :
          Mentions(read[p], "Signal") /\ Naming(read, p) # {}
              /\ (state = "crashed" => p < Len(read))
          => \E k \in KindNames : \E i \in DOMAIN signals[k] : signals[k][i] = p

\* The inductive invariant.
IndInv ==
    /\ TypeOK /\ SettingInv /\ KindInv /\ SectionInv /\ OrphanInv /\ PlaceInv
    /\ state = "crashed" => read # <<>>
    /\ CrashNeedsShortLine
-----------------------------------------------------------------------------
(* The titles and the kinds. *)

\* There are seven titles, and they differ.
LEMMA TitleFacts ==
    /\ DOMAIN Titles = 1 .. 7 /\ Len(Titles) = 7
    /\ \A i, j \in 1 .. 7 : Titles[i] = Titles[j] => i = j
    /\ \A i \in 1 .. 7 : Titles[i] # Host
    /\ \A i \in 1 .. 7 : Titles[i] \notin {"analog", "discrete", "integer",
                                           "group", "Signal", "comma", "dot", "number"}
    /\ Settings = {Titles[i] : i \in 1 .. 7}
<1>1. DOMAIN Titles = 1 .. 7 /\ Len(Titles) = 7
  BY DEF Titles
<1>2. \A i \in 1 .. 7 : i \in {1, 2, 3, 4, 5, 6, 7}
  OBVIOUS
<1>a. /\ Titles[1] = "Port" /\ Titles[2] = "Server_adress"
      /\ Titles[3] = "1st_rgstr" /\ Titles[4] = "Num_rgstr"
      /\ Titles[5] = "1st_qual_rgstr" /\ Titles[6] = "Resposnse_time"
      /\ Titles[7] = "Num_of_retries"
  BY DEF Titles
<1>3. \A i, j \in {1, 2, 3, 4, 5, 6, 7} : Titles[i] = Titles[j] => i = j
  BY <1>a
<1>4. \A i \in {1, 2, 3, 4, 5, 6, 7} :
          /\ Titles[i] # Host
          /\ Titles[i] \notin {"analog", "discrete", "integer",
                               "group", "Signal", "comma", "dot", "number"}
  BY <1>a DEF Host
<1> QED BY <1>1, <1>2, <1>3, <1>4 DEF Settings

\* There are four kinds, and they differ.
LEMMA KindFacts ==
    /\ DOMAIN Kinds = 1 .. 4
    /\ KindNames = {"analog", "discrete", "integer", "group"}
    /\ \A i, j \in 1 .. 4 : Kinds[i] = Kinds[j] => i = j
    /\ \A i \in 1 .. 4 : Kinds[i] \in KindNames
<1>1. DOMAIN Kinds = 1 .. 4
  BY DEF Kinds
<1>2. \A i \in 1 .. 4 : i \in {1, 2, 3, 4}
  OBVIOUS
<1>3. /\ Kinds[1] = "analog" /\ Kinds[2] = "discrete"
      /\ Kinds[3] = "integer" /\ Kinds[4] = "group"
  BY DEF Kinds
<1>4. \A i, j \in 1 .. 4 : Kinds[i] = Kinds[j] => i = j
  BY <1>2, <1>3
<1>5. KindNames = {"analog", "discrete", "integer", "group"}
  BY <1>1, <1>2, <1>3 DEF KindNames
<1> QED BY <1>1, <1>4, <1>5 DEF KindNames

\* What has a maximum, has it for its Max.
LEMMA MaxFacts ==
    ASSUME NEW S, NEW m \in S, \A x \in S : m >= x
    PROVE  Max(S) \in S /\ \A x \in S : Max(S) >= x
  BY DEF Max

\* Of some titles or kinds, one is the last.
LEMMA LastOfFew ==
    ASSUME NEW P \in SUBSET (1 .. 7), P # {}
    PROVE  Max(P) \in P /\ \A x \in P : x <= Max(P)
<1>1. \E m \in P : \A x \in P : m >= x
  <2>1. \A x \in P : x \in Nat /\ x >= 1 /\ x <= 7
    OBVIOUS
  <2>2. CASE 7 \in P
    BY <2>1, <2>2
  <2>3. CASE 7 \notin P /\ 6 \in P
    BY <2>1, <2>3
  <2>4. CASE 7 \notin P /\ 6 \notin P /\ 5 \in P
    BY <2>1, <2>4
  <2>5. CASE 7 \notin P /\ 6 \notin P /\ 5 \notin P /\ 4 \in P
    BY <2>1, <2>5
  <2>6. CASE 7 \notin P /\ 6 \notin P /\ 5 \notin P /\ 4 \notin P /\ 3 \in P
    BY <2>1, <2>6
  <2>7. CASE 7 \notin P /\ 6 \notin P /\ 5 \notin P /\ 4 \notin P /\ 3 \notin P
    <3>1. \A x \in P : x = 1 \/ x = 2
      BY <2>1, <2>7
    <3>2. CASE 2 \in P
      BY <3>1, <3>2
    <3>3. CASE 2 \notin P
      <4>1. PICK y : y \in P
        OBVIOUS
      <4> QED BY <3>1, <3>3, <4>1
    <3> QED BY <3>2, <3>3
  <2> QED BY <2>1, <2>2, <2>3, <2>4, <2>5, <2>6, <2>7
<1>2. PICK m \in P : \A x \in P : m >= x
  BY <1>1
<1>3. Max(P) \in P /\ \A x \in P : Max(P) >= x
  BY <1>2, MaxFacts
<1> QED BY <1>3

\* Of positions in the file, the last is the one that none follows.
LEMMA LastIs ==
    ASSUME NEW P \in SUBSET (Nat \ {0}), NEW m \in {0} \cup P,
           \A x \in P : x <= m
    PROVE  Last(P) = m
<1>1. \A x \in {0} \cup P : m >= x
  OBVIOUS
<1>2. Last(P) \in {0} \cup P /\ \A x \in {0} \cup P : Last(P) >= x
  <2>1. m \in {0} \cup P
    OBVIOUS
  <2>2. /\ Max({0} \cup P) \in {0} \cup P
        /\ \A x \in {0} \cup P : Max({0} \cup P) >= x
    BY <1>1, <2>1, MaxFacts
  <2> QED BY <2>2 DEF Last
<1>3. \A x \in {0} \cup P : x \in Nat
  OBVIOUS
<1>4. m \in {0} \cup P
  OBVIOUS
<1>5. Last(P) \in Nat /\ m \in Nat /\ Last(P) >= m /\ m >= Last(P)
  BY <1>1, <1>2, <1>3, <1>4
<1> QED BY <1>5

-----------------------------------------------------------------------------
(* What the searches leave of a line. *)

\* f is what the searches for the host and the first i titles leave of l.
IsLeft(f, l, i) ==
    /\ DOMAIN f \subseteq DOMAIN l /\ f = [p \in DOMAIN f |-> f[p]]
    /\ \A p \in DOMAIN f :
          /\ f[p].eq = l[p].eq
          /\ f[p].word = IF Mentions(l, Host) /\ l[p].word = "comma" THEN "dot" ELSE l[p].word
          /\ l[p].word # "comma" => f[p] = l[p]
    /\ \A p \in DOMAIN l :
          p \in DOMAIN f <=>
             ~(l[p].eq /\ (l[p].word = Host \/ \E j \in 1 .. i : l[p].word = Titles[j]))

\* The host's commas become dots, and whatever titles are taken out, the other
\* words stay.
LEMMA RestFacts ==
    ASSUME NEW l \in Seq(Token), NEW i \in 0 .. 7
    PROVE  IsLeft(Left(l, i), l, i)
<1> DEFINE T == {Titles[j] : j \in 1 .. i}
<1>0. \A p \in DOMAIN l : l[p] \in Token
  BY ElementOfSeq
<1>1. /\ DOMAIN Dotted(l) = DOMAIN l
      /\ \A p \in DOMAIN l :
            Dotted(l)[p] = IF l[p].word = "comma" THEN [l[p] EXCEPT !.word = "dot"] ELSE l[p]
  BY DEF Dotted
<1>2. \A p \in DOMAIN l :
         /\ Dotted(l)[p].eq = l[p].eq /\ (l[p].word # "comma" => Dotted(l)[p] = l[p])
         /\ Dotted(l)[p].word = IF l[p].word = "comma" THEN "dot" ELSE l[p].word
  <2> SUFFICES ASSUME NEW p \in DOMAIN l
               PROVE  /\ Dotted(l)[p].eq = l[p].eq /\ (l[p].word # "comma" => Dotted(l)[p] = l[p])
                      /\ Dotted(l)[p].word = IF l[p].word = "comma" THEN "dot" ELSE l[p].word
    OBVIOUS
  <2>1. l[p] \in [word : STRING, eq : BOOLEAN, num : Nat, scale : Nat \ {0}]
    BY <1>0 DEF Token
  <2>2. CASE l[p].word = "comma"
    BY <1>1, <2>1, <2>2 DEF Token
  <2>3. CASE l[p].word # "comma"
    BY <1>0, <1>1, <2>3
  <2> QED BY <2>2, <2>3
<1>3. /\ DOMAIN HostLeft(l) \subseteq DOMAIN l
      /\ \A p \in DOMAIN HostLeft(l) :
            /\ HostLeft(l)[p].eq = l[p].eq
            /\ l[p].word # "comma" => HostLeft(l)[p] = l[p]
            /\ HostLeft(l)[p].word =
                  IF Mentions(l, Host) /\ l[p].word = "comma" THEN "dot" ELSE l[p].word
      /\ \A p \in DOMAIN l :
            p \in DOMAIN HostLeft(l) <=> ~(l[p].eq /\ l[p].word = Host)
  <2>1. CASE Mentions(l, Host)
    <3>1. HostLeft(l) = Without(Dotted(l), {Host})
      BY <2>1 DEF HostLeft
    <3>2. HostLeft(l) = [p \in {q \in DOMAIN l : Dotted(l)[q].word # Host
                                                   \/ ~Dotted(l)[q].eq} |-> Dotted(l)[p]]
      BY <1>1, <3>1 DEF Without, RestrictValues, Restrict
    <3>3. "comma" # Host /\ "dot" # Host
      BY DEF Host
    <3>4. \A p \in DOMAIN l :
             p \in DOMAIN HostLeft(l) <=> ~(Dotted(l)[p].eq /\ Dotted(l)[p].word = Host)
      BY <3>2
    <3>5. /\ DOMAIN HostLeft(l) \subseteq DOMAIN l
          /\ \A p \in DOMAIN HostLeft(l) : HostLeft(l)[p] = Dotted(l)[p]
      BY <3>2
    <3>6. \A p \in DOMAIN l : Dotted(l)[p].word = Host <=> l[p].word = Host
      BY <1>2, <3>3
    <3> QED BY <1>2, <2>1, <3>4, <3>5, <3>6
  <2>2. CASE ~Mentions(l, Host)
    <3>1. HostLeft(l) = l
      BY <2>2 DEF HostLeft
    <3> QED BY <1>0, <2>2, <3>1 DEF Mentions
  <2> QED BY <2>1, <2>2
<1>4. Left(l, i) = [p \in {q \in DOMAIN HostLeft(l) : HostLeft(l)[q].word \notin T
                                 \/ ~HostLeft(l)[q].eq} |-> HostLeft(l)[p]]
  BY DEF Left, Without, RestrictValues, Restrict
<1>5. "comma" \notin T /\ "dot" \notin T
  <2>1. \A j \in 1 .. 7 : Titles[j] # "comma" /\ Titles[j] # "dot"
    BY TitleFacts
  <2>2. \A j \in 1 .. i : j \in 1 .. 7
    OBVIOUS
  <2> QED BY <2>1, <2>2
<1> HIDE DEF T
<1>6. /\ DOMAIN Left(l, i) \subseteq DOMAIN l
      /\ Left(l, i) = [p \in DOMAIN Left(l, i) |-> Left(l, i)[p]]
      /\ \A p \in DOMAIN Left(l, i) :
            Left(l, i)[p] = HostLeft(l)[p] /\ p \in DOMAIN HostLeft(l)
      /\ \A p \in DOMAIN l :
            p \in DOMAIN Left(l, i) <=> ~(l[p].eq /\ (l[p].word = Host \/ l[p].word \in T))
  BY <1>3, <1>4, <1>5
<1>7. \A w : w \in T <=> \E j \in 1 .. i : w = Titles[j]
  BY DEF T
<1> QED BY <1>3, <1>6, <1>7 DEF IsLeft

\* No search takes out the words that kinds and signals are known by.
LEMMA RestMentions ==
    ASSUME NEW l \in Seq(Token), NEW w \in KindNames \cup {"Signal"}
    PROVE  Mentions(Rest(l), w) <=> Mentions(l, w)
<1>1. /\ w # "comma" /\ w # "dot" /\ w # Host
      /\ \A j \in 1 .. 7 : w # Titles[j]
  BY KindFacts, TitleFacts DEF Host
<1>2. IsLeft(Rest(l), l, 7)
  <2>1. Rest(l) = Left(l, 7) /\ 7 \in 0 .. 7
    <3>1. Len(Titles) = 7
      BY TitleFacts
    <3>2. Rest(l) = Left(l, Len(Titles))
      BY DEF Rest
    <3> QED BY <3>1, <3>2
  <2> QED BY <2>1, RestFacts
<1>3. \A p \in DOMAIN l : l[p].word = w => p \in DOMAIN Rest(l) /\ Rest(l)[p].word = w
  BY <1>1, <1>2 DEF IsLeft, Mentions
<1>4. \A p \in DOMAIN Rest(l) : Rest(l)[p].word = w => p \in DOMAIN l /\ l[p].word = w
  BY <1>1, <1>2 DEF IsLeft, Mentions
<1> QED BY <1>3, <1>4 DEF Mentions

\* FindTypeSignal finds the last kind that the line names, if there is one.
LEMMA FindTypeFacts ==
    ASSUME NEW l \in Seq(Token), NEW k
    PROVE  /\ NamesKind(l) => /\ FindType(Rest(l), k) \in KindNames
                              /\ LastKind(l, FindType(Rest(l), k))
           /\ ~NamesKind(l) => FindType(Rest(l), k) = k
<1> DEFINE F == {i \in DOMAIN Kinds : Mentions(Rest(l), Kinds[i])}
<1>1. /\ F = {i \in 1 .. 4 : Mentions(l, Kinds[i])}
      /\ NamesKind(l) <=> F # {}
  <2>1. \A i \in 1 .. 4 : Mentions(Rest(l), Kinds[i]) <=> Mentions(l, Kinds[i])
    BY KindFacts, RestMentions
  <2> QED BY <2>1, KindFacts DEF NamesKind
<1>2. FindType(Rest(l), k) = IF F = {} THEN k ELSE Kinds[Max(F)]
  BY DEF FindType
<1> HIDE DEF F
<1>3. CASE F = {}
  BY <1>1, <1>2, <1>3
<1>4. CASE F # {}
  <2>1. Max(F) \in F /\ \A x \in F : x <= Max(F)
    <3>1. F \in SUBSET (1 .. 7)
      BY <1>1
    <3> QED BY <1>4, <3>1, LastOfFew
  <2>2. /\ FindType(Rest(l), k) = Kinds[Max(F)] /\ Max(F) \in 1 .. 4
        /\ Mentions(l, Kinds[Max(F)])
    BY <1>1, <1>2, <1>4, <2>1
  <2>3. \A j \in 1 .. 4 : Mentions(l, Kinds[j]) => j <= Max(F)
    BY <1>1, <2>1
  <2>4. LastKind(l, Kinds[Max(F)])
    BY <2>2, <2>3, KindFacts DEF LastKind
  <2> QED BY <1>1, <1>4, <2>2, <2>4, KindFacts
<1> QED BY <1>3, <1>4

\* A line that does not mention the host keeps its commas, and so its fields.
LEMMA RestFields ==
    ASSUME NEW l \in Seq(Token), ~Mentions(l, Host)
    PROVE  Fields(Rest(l)) = Fields(l)
<1>1. IsLeft(Rest(l), l, 7) /\ "comma" # Host
  <2>1. Rest(l) = Left(l, 7) /\ 7 \in 0 .. 7
    <3>1. Len(Titles) = 7
      BY TitleFacts
    <3>2. Rest(l) = Left(l, Len(Titles))
      BY DEF Rest
    <3> QED BY <3>1, <3>2
  <2> QED BY <2>1, RestFacts DEF Host
<1>2. \A j \in 1 .. 7 : "comma" # Titles[j]
  BY TitleFacts
<1>3. \A p \in DOMAIN l : l[p].word = "comma" => p \in DOMAIN Rest(l) /\ Rest(l)[p].word = "comma"
  BY <1>1, <1>2 DEF IsLeft, Mentions
<1>4. \A p \in DOMAIN Rest(l) : Rest(l)[p].word = "comma" => p \in DOMAIN l /\ l[p].word = "comma"
  BY <1>1, <1>2 DEF IsLeft, Mentions
<1>5. {p \in DOMAIN Rest(l) : Rest(l)[p].word = "comma"} = {p \in DOMAIN l : l[p].word = "comma"}
  BY <1>3, <1>4
<1> QED BY <1>5 DEF Fields

\* toUInt makes the same of what differs in words that are no numbers.
LEMMA ToUIntFacts ==
    ASSUME NEW f, NEW g, DOMAIN f = DOMAIN g,
           f = [p \in DOMAIN f |-> f[p]], g = [p \in DOMAIN g |-> g[p]],
           \A p \in DOMAIN f :
              f[p].word = "number" \/ g[p].word = "number" => f[p] = g[p]
    PROVE  ToUInt(f) = ToUInt(g)
<1>1. CASE \A p \in DOMAIN f : f[p].word = "number"
  <2>1. f = g
    BY <1>1
  <2> QED BY <2>1
<1>2. CASE ~\A p \in DOMAIN f : f[p].word = "number"
  <2>1. ~\A p \in DOMAIN g : g[p].word = "number"
    BY <1>2
  <2> QED BY <1>2, <2>1 DEF ToUInt
<1> QED BY <1>1, <1>2

\* Of the titles in a line, the one that is searched last gets the number.
LEMMA TitleIsMeant ==
    ASSUME NEW l \in Seq(Token), NEW i \in 1 .. 7
    PROVE  /\ Mentions(Left(l, i - 1), Titles[i]) <=> Mentions(l, Titles[i])
           /\ Mentions(l, Titles[i]) => ToUInt(Left(l, i)) = Meant(l, Titles[i])
<1>a. /\ i - 1 \in 0 .. 7 /\ i \in 0 .. 7
      /\ \A j \in 1 .. i - 1 : j \in 1 .. 7 /\ j # i
      /\ \A j \in 1 .. i : j \in 1 .. 7
  OBVIOUS
<1>c. IsLeft(Left(l, i - 1), l, i - 1) /\ IsLeft(Left(l, i), l, i)
  BY <1>a, RestFacts
<1>b. \A j \in 1 .. 7 : /\ Titles[j] # Host /\ Titles[j] # "comma" /\ Titles[j] # "dot"
                        /\ Titles[j] # "number"
  BY TitleFacts
<1>1. Mentions(Left(l, i - 1), Titles[i]) <=> Mentions(l, Titles[i])
  <2>1. \A j \in 1 .. i - 1 : Titles[i] # Titles[j]
    BY <1>a, TitleFacts
  <2>2. \A p \in DOMAIN l : l[p].word = Titles[i] =>
           p \in DOMAIN Left(l, i - 1) /\ Left(l, i - 1)[p].word = Titles[i]
    <3> SUFFICES ASSUME NEW p \in DOMAIN l, l[p].word = Titles[i]
                 PROVE  p \in DOMAIN Left(l, i - 1) /\ Left(l, i - 1)[p].word = Titles[i]
      OBVIOUS
    <3>1. l[p].word # Host /\ l[p].word # "comma" /\ \A j \in 1 .. i - 1 : l[p].word # Titles[j]
      BY <1>b, <2>1
    <3>2. p \in DOMAIN Left(l, i - 1)
      BY <1>c, <3>1 DEF IsLeft
    <3> QED BY <1>c, <3>1, <3>2 DEF IsLeft
  <2>3. \A p \in DOMAIN Left(l, i - 1) : Left(l, i - 1)[p].word = Titles[i] =>
           p \in DOMAIN l /\ l[p].word = Titles[i]
    BY <1>b, <1>c DEF IsLeft
  <2> QED BY <2>2, <2>3 DEF Mentions
<1>2. ASSUME Mentions(l, Titles[i])
      PROVE  ToUInt(Left(l, i)) = Meant(l, Titles[i])
  <2> DEFINE F == {j \in DOMAIN Titles : Mentions(l, Titles[j])}
  <2>1. /\ F = {j \in 1 .. 7 : Mentions(l, Titles[j])} /\ i \in F
        /\ Max(F) \in F /\ \A j \in F : j <= Max(F)
    <3>1. F = {j \in 1 .. 7 : Mentions(l, Titles[j])}
      BY TitleFacts
    <3>2. F \in SUBSET (1 .. 7) /\ i \in F
      BY <1>2, <3>1
    <3> HIDE DEF F
    <3> QED BY <3>1, <3>2, LastOfFew
  <2>2. Meant(l, Titles[i]) = IF Titles[Max(F)] = Titles[i]
                              THEN ToUInt(Without(l, Settings \cup {Host})) ELSE 0
    BY DEF Meant
  <2> HIDE DEF F
  <2>3. CASE Max(F) = i
    <3> DEFINE g == Without(l, Settings \cup {Host})
    <3>1. g = [p \in {q \in DOMAIN l : l[q].word \notin Settings \cup {Host} \/ ~l[q].eq}
                  |-> l[p]]
      BY DEF Without, RestrictValues, Restrict
    <3>2. \A p \in DOMAIN l : \A j \in 1 .. 7 : l[p].word = Titles[j] => j \in 1 .. i
      <4> SUFFICES ASSUME NEW p \in DOMAIN l, NEW j \in 1 .. 7, l[p].word = Titles[j]
                   PROVE  j <= i
        OBVIOUS
      <4>1. Mentions(l, Titles[j])
        BY DEF Mentions
      <4> QED BY <2>1, <2>3, <4>1
    <3>3. \A p \in DOMAIN l :
             l[p].word \in Settings \cup {Host} <=>
                l[p].word = Host \/ \E j \in 1 .. i : l[p].word = Titles[j]
      BY <1>a, <3>2, TitleFacts
    <3> HIDE DEF g
    <3>4. /\ DOMAIN g \subseteq DOMAIN l /\ g = [p \in DOMAIN g |-> g[p]]
          /\ \A p \in DOMAIN g : g[p] = l[p]
      BY <3>1
    <3>5. \A p \in DOMAIN l : p \in DOMAIN g <=> p \in DOMAIN Left(l, i)
      <4>1. \A p \in DOMAIN l :
               p \in DOMAIN g <=> ~(l[p].eq /\ l[p].word \in Settings \cup {Host})
        BY <3>1
      <4> QED BY <1>c, <3>3, <4>1 DEF IsLeft
    <3>6. DOMAIN g = DOMAIN Left(l, i)
      BY <1>c, <3>4, <3>5 DEF IsLeft
    <3>9. "number" # "comma" /\ "number" # "dot"
      OBVIOUS
    <3>7. \A p \in DOMAIN Left(l, i) :
             Left(l, i)[p].word = "number" \/ g[p].word = "number"
                => Left(l, i)[p] = g[p]
      BY <1>c, <3>4, <3>6, <3>9 DEF IsLeft
    <3>8. ToUInt(Left(l, i)) = ToUInt(g)
      <4>1. Left(l, i) = [p \in DOMAIN Left(l, i) |-> Left(l, i)[p]]
        BY <1>c DEF IsLeft
      <4> QED BY <3>4, <3>6, <3>7, <4>1, ToUIntFacts
    <3> QED BY <2>2, <2>3, <3>8 DEF g
  <2>4. CASE Max(F) # i
    <3>1. Max(F) \in 1 .. 7 /\ Max(F) > i /\ Mentions(l, Titles[Max(F)])
      BY <2>1, <2>4
    <3>2. PICK p \in DOMAIN l : l[p].word = Titles[Max(F)]
      BY <3>1 DEF Mentions
    <3>3. \A j \in 1 .. i : Titles[Max(F)] # Titles[j]
      <4>1. \A j \in 1 .. i : j \in 1 .. 7 /\ j # Max(F)
        BY <3>1
      <4> QED BY <3>1, <4>1, TitleFacts
    <3>4. p \in DOMAIN Left(l, i) /\ Left(l, i)[p].word # "number"
      <4>1. /\ l[p].word # Host /\ l[p].word # "comma" /\ l[p].word # "number"
            /\ \A j \in 1 .. i : l[p].word # Titles[j]
        BY <1>b, <3>1, <3>2, <3>3
      <4>2. p \in DOMAIN Left(l, i)
        BY <1>c, <4>1 DEF IsLeft
      <4> QED BY <1>c, <4>1, <4>2 DEF IsLeft
    <3>5. ToUInt(Left(l, i)) = 0
      <4>1. ~\A q \in DOMAIN Left(l, i) : Left(l, i)[q].word = "number"
        BY <3>4
      <4> QED BY <4>1 DEF ToUInt
    <3>6. Titles[Max(F)] # Titles[i]
      BY <3>3
    <3> QED BY <2>2, <3>5, <3>6
  <2> QED BY <2>3, <2>4
<1> QED BY <1>1, <1>2
-----------------------------------------------------------------------------
(* What reading a line does. *)

\* The line is put behind those read before.
LEMMA LineFacts ==
    ASSUME TypeOK, NEW l \in Lines, ReadLine(l)
    PROVE  /\ l \in Seq(Token)
           /\ read' \in Seq(Lines) /\ Len(read') <= MaxLines
           /\ Len(read) \in Nat /\ Len(read') = Len(read) + 1
           /\ DOMAIN read = 1 .. Len(read) /\ DOMAIN read' = 1 .. Len(read) + 1
           /\ read'[Len(read) + 1] = l
           /\ \A q \in 1 .. Len(read) : read'[q] = read[q]
           /\ \A q \in DOMAIN read : read[q] \in Seq(Token)
           /\ state = "reading"
<1>1. /\ read \in Seq(Lines) /\ read' = Append(read, l)
      /\ state = "reading" /\ Len(read) < MaxLines
  <2>1. read \in Seq(Lines)
    BY DEF TypeOK
  <2>2. read' = Append(read, l) /\ state = "reading" /\ Len(read) < MaxLines
    BY DEF ReadLine
  <2> QED BY <2>1, <2>2
<1>2. MaxLines \in Nat /\ \A k \in Lines : k \in Seq(Token)
  BY SignalsIniAssumption DEF SignalsIniAssumption
<1>3. /\ Len(read) \in Nat /\ DOMAIN read = 1 .. Len(read)
      /\ \A q \in DOMAIN read : read[q] \in Lines
  BY <1>1, LenProperties, ElementOfSeq
<1>4. /\ read' \in Seq(Lines) /\ Len(read') = Len(read) + 1
      /\ read'[Len(read) + 1] = l
      /\ \A q \in 1 .. Len(read) : read'[q] = read[q]
  BY <1>1, AppendProperties
<1>5. DOMAIN read' = 1 .. Len(read) + 1 /\ Len(read') <= MaxLines
  BY <1>1, <1>2, <1>3, <1>4, LenProperties
<1> QED BY <1>1, <1>2, <1>3, <1>4, <1>5

\* What is meant is what toUInt returns, or zero.
LEMMA MeantType ==
    ASSUME NEW l, NEW t
    PROVE  Meant(l, t) \in Nat
<1>1. UIntSize \in Nat
  BY SignalsIniAssumption DEF SignalsIniAssumption
<1>2. ASSUME NEW g PROVE ToUInt(g) \in Nat
  BY <1>1 DEF ToUInt
<1> QED BY <1>2 DEF Meant

\* The line sets those settings whose titles are in it.
LEMMA SettingFacts ==
    ASSUME NEW l \in Seq(Token), ReadSettings(l)
    PROVE  /\ DOMAIN settings' = Settings
           /\ \A t \in Settings :
                 settings'[t] = IF Mentions(l, t) THEN Meant(l, t) % Width(t)
                                ELSE settings[t]
<1>1. DOMAIN settings' = Settings
  BY DEF ReadSettings
<1>2. ASSUME NEW t \in Settings
      PROVE  settings'[t] = IF Mentions(l, t) THEN Meant(l, t) % Width(t)
                            ELSE settings[t]
  <2> DEFINE i == CHOOSE j \in DOMAIN Titles : Titles[j] = t
  <2>1. i \in 1 .. 7 /\ Titles[i] = t
    BY TitleFacts
  <2>2. settings'[t] = IF Mentions(Left(l, i - 1), t) THEN ToUInt(Left(l, i)) % Width(t)
                       ELSE settings[t]
    BY DEF ReadSettings
  <2> HIDE DEF i
  <2> QED BY <2>1, <2>2, TitleIsMeant
<1> QED BY <1>1, <1>2

\* The line gets a place behind the others of its kind, or none has changed.
LEMMA PlaceFacts ==
    ASSUME TypeOK, NEW l \in Lines, ReadLine(l)
    PROVE  /\ kind' = FindType(Rest(l), kind) /\ kind' \in {"unset"} \cup KindNames
           /\ \/ /\ Mentions(l, "Signal") /\ kind' \in KindNames /\ UNCHANGED state
                 /\ signals' = [signals EXCEPT ![kind'] = Append(@, Len(read) + 1)]
              \/ /\ UNCHANGED signals
                 /\ \/ UNCHANGED state /\ (~Mentions(l, "Signal") \/ kind' = "unset")
                    \/ /\ state' = "crashed"
                       /\ Mentions(l, "Signal") /\ Fields(Rest(l)) < 4
<1>1. l \in Seq(Token)
  BY LineFacts
<1>2. kind' = FindType(Rest(l), kind)
  BY DEF ReadLine
<1>3. kind' \in {"unset"} \cup KindNames
  <2>1. kind \in {"unset"} \cup KindNames
    BY DEF TypeOK
  <2> QED BY <1>1, <1>2, <2>1, FindTypeFacts
<1>4. Mentions(Rest(l), "Signal") <=> Mentions(l, "Signal")
  BY <1>1, RestMentions
<1>5. ~Complete(Rest(l)) => Fields(Rest(l)) < 4
  <2>1. Fields(Rest(l)) \in Int
    <3>1. DOMAIN Rest(l) \subseteq DOMAIN l
      <4>1. Rest(l) = Left(l, Len(Titles)) /\ Len(Titles) = 7
        BY TitleFacts DEF Rest
      <4>2. IsLeft(Left(l, 7), l, 7)
        BY <1>1, RestFacts
      <4> QED BY <4>1, <4>2 DEF IsLeft
    <3>2. IsFiniteSet(DOMAIN l)
      BY <1>1, LenProperties, FS_Interval
    <3>3. {i \in DOMAIN Rest(l) : Rest(l)[i].word = "comma"} \subseteq DOMAIN l
      BY <3>1
    <3>4. Cardinality({i \in DOMAIN Rest(l) : Rest(l)[i].word = "comma"}) \in Nat
      BY <3>2, <3>3, FS_Subset, FS_CardinalityType
    <3>5. Fields(Rest(l)) = 1 + Cardinality({i \in DOMAIN Rest(l) : Rest(l)[i].word = "comma"})
      BY DEF Fields
    <3> QED BY <3>4, <3>5
  <2> QED BY <2>1 DEF Complete
<1>6. CASE Mentions(Rest(l), "Signal") /\ kind' # "unset" /\ PrepareSignal(Rest(l), kind')
  BY <1>2, <1>3, <1>4, <1>5, <1>6 DEF PrepareSignal, File
<1>7. CASE (~Mentions(Rest(l), "Signal") \/ kind' = "unset") /\ UNCHANGED <<signals, state>>
  BY <1>2, <1>3, <1>4, <1>7
<1> QED BY <1>6, <1>7 DEF ReadLine

\* The places of each kind, before and after.
LEMMA KindPlaces ==
    ASSUME TypeOK, NEW l \in Lines, ReadLine(l), NEW k \in KindNames
    PROVE  /\ signals[k] \in Seq(1 .. Len(read)) /\ Len(signals[k]) \in Nat
           /\ DOMAIN signals[k] = 1 .. Len(signals[k])
           /\ \A i \in DOMAIN signals[k] : signals[k][i] \in 1 .. Len(read)
           /\ \/ signals'[k] = signals[k]
              \/ /\ k = kind' /\ Mentions(l, "Signal") /\ UNCHANGED state
                 /\ DOMAIN signals'[k] = 1 .. Len(signals[k]) + 1
                 /\ signals'[k][Len(signals[k]) + 1] = Len(read) + 1
                 /\ \A i \in DOMAIN signals[k] : signals'[k][i] = signals[k][i]
           /\ signals'[k] \in Seq(1 .. Len(read) + 1)
<1>1. /\ Len(read) \in Nat /\ DOMAIN read = 1 .. Len(read)
  BY LineFacts
<1>2. signals[k] \in Seq(1 .. Len(read)) /\ DOMAIN signals = KindNames
  <2>1. signals \in [KindNames -> Seq(DOMAIN read)]
    BY DEF TypeOK
  <2> QED BY <1>1, <2>1
<1>3. /\ Len(signals[k]) \in Nat /\ DOMAIN signals[k] = 1 .. Len(signals[k])
      /\ \A i \in DOMAIN signals[k] : signals[k][i] \in 1 .. Len(read)
  BY <1>2, LenProperties, ElementOfSeq
<1>4. signals[k] \in Seq(1 .. Len(read) + 1)
  <2>1. \A i \in 1 .. Len(signals[k]) : signals[k][i] \in 1 .. Len(read) + 1
    BY <1>1, <1>3
  <2> QED BY <1>2, <1>3, <2>1, SeqDef
<1>5. CASE signals'[k] = signals[k]
  BY <1>2, <1>3, <1>4, <1>5
<1>6. CASE signals'[k] # signals[k]
  <2>1. /\ Mentions(l, "Signal") /\ UNCHANGED state
        /\ signals' = [signals EXCEPT ![kind'] = Append(@, Len(read) + 1)]
    BY <1>6, PlaceFacts
  <2>2. k = kind' /\ signals'[k] = Append(signals[k], Len(read) + 1)
    BY <1>2, <1>6, <2>1
  <2>3. Len(read) + 1 \in 1 .. Len(read) + 1
    BY <1>1
  <2>4. /\ signals'[k] \in Seq(1 .. Len(read) + 1)
        /\ Len(signals'[k]) = Len(signals[k]) + 1
        /\ signals'[k][Len(signals[k]) + 1] = Len(read) + 1
        /\ \A i \in 1 .. Len(signals[k]) : signals'[k][i] = signals[k][i]
    BY <1>4, <2>2, <2>3, AppendProperties
  <2>5. DOMAIN signals'[k] = 1 .. Len(signals[k]) + 1
    BY <2>4, LenProperties
  <2> QED BY <1>2, <1>3, <2>1, <2>2, <2>4, <2>5
<1> QED BY <1>5, <1>6

\* The lines before name the kinds they did; the one that is read joins them
\* if it names one.
LEMMA NamingFacts ==
    ASSUME TypeOK, NEW l \in Lines, ReadLine(l)
    PROVE  /\ \A p \in 0 .. Len(read) : Naming(read', p) = Naming(read, p)
           /\ Naming(read', Len(read) + 1)
                 = Naming(read, Len(read)) \cup (IF NamesKind(l) THEN {Len(read) + 1} ELSE {})
           /\ \A p : Naming(read, p) \subseteq 1 .. p
<1>1. /\ Len(read) \in Nat
      /\ read'[Len(read) + 1] = l
      /\ \A q \in 1 .. Len(read) : read'[q] = read[q]
  BY LineFacts
<1>2. ASSUME NEW p \in 0 .. Len(read) PROVE Naming(read', p) = Naming(read, p)
  <2>1. \A q \in 1 .. p : read'[q] = read[q]
    BY <1>1
  <2> QED BY <2>1 DEF Naming
<1>3. Naming(read', Len(read) + 1)
         = Naming(read', Len(read)) \cup (IF NamesKind(l) THEN {Len(read) + 1} ELSE {})
  <2>1. \A q : q \in 1 .. Len(read) + 1 <=> q \in 1 .. Len(read) \/ q = Len(read) + 1
    BY <1>1
  <2> QED BY <1>1, <2>1 DEF Naming
<1> QED BY <1>1, <1>2, <1>3 DEF Naming

\* The other steps change nothing but where readSignalsFile is.
LEMMA OtherSteps ==
    ASSUME [Next]_vars, ~\E l \in Lines : ReadLine(l)
    PROVE  /\ UNCHANGED <<read, settings, host, kind, signals>>
           /\ state' = state \/ (state # "crashed" /\ state' \in {"reading", "returned", "failed"})
<1>1. CASE Open
  BY <1>1 DEF Open
<1>2. CASE EndOfFile
  BY <1>2 DEF EndOfFile
<1>3. CASE UNCHANGED vars
  BY <1>3 DEF vars
<1> QED BY <1>1, <1>2, <1>3 DEF Next
-----------------------------------------------------------------------------
(* The steps keep each part of IndInv. *)

\* What TypeOK says of the settings: no member exceeds its type.
SettingRanges ==
    /\ \A t \in Settings : settings[t] < 65536
    /\ \A t \in {"Server_adress", "Num_of_retries"} : settings[t] < 256

\* A setting below its width is in the range of its member.
LEMMA WidthRanges ==
    /\ (\A t \in Settings : settings[t] \in Nat /\ settings[t] < Width(t))
          => SettingRanges
    /\ (\A t \in Settings : settings'[t] \in Nat /\ settings'[t] < Width(t))
          => SettingRanges'
<1>1. {"Server_adress", "Num_of_retries"} \subseteq Settings
  <2>1. 2 \in 1 .. 7 /\ 7 \in 1 .. 7
    OBVIOUS
  <2> QED BY <2>1, TitleFacts DEF Titles
<1> QED BY <1>1 DEF SettingRanges, Width

\* Every line leaves the members in their types.
LEMMA TypeStep == TypeOK /\ [Next]_vars => TypeOK'
<1> SUFFICES ASSUME TypeOK, [Next]_vars PROVE TypeOK'
  OBVIOUS
<1>1. ASSUME NEW l \in Lines, ReadLine(l) PROVE TypeOK'
  <2>1. l \in Seq(Token) /\ read' \in Seq(Lines) /\ Len(read') <= MaxLines
    BY <1>1, LineFacts
  <2>2. settings' \in [Settings -> Nat] /\ \A t \in Settings : settings'[t] < Width(t)
    <3>1. ReadSettings(l)
      BY <1>1 DEF ReadLine
    <3>2. \A t \in Settings : settings[t] \in Nat /\ settings[t] < Width(t)
      BY DEF TypeOK, Width
    <3>3. settings' = [t \in Settings |-> settings'[t]]
      BY <3>1 DEF ReadSettings
    <3>4. ASSUME NEW t \in Settings
          PROVE  settings'[t] \in Nat /\ settings'[t] < Width(t)
      <4>1. Width(t) \in Nat \ {0}
        BY DEF Width
      <4>2. settings'[t] = IF Mentions(l, t) THEN Meant(l, t) % Width(t) ELSE settings[t]
        BY <2>1, <3>1, SettingFacts
      <4>3. Meant(l, t) \in Nat
        BY <2>1, MeantType
      <4>4. Meant(l, t) % Width(t) \in Nat /\ Meant(l, t) % Width(t) < Width(t)
        BY <4>1, <4>3
      <4> QED BY <3>2, <4>2, <4>4
    <3> QED BY <3>3, <3>4
  <2>3. host' = <<>> \/ \E q \in DOMAIN read' : host' = HostLeft(read'[q])
    <3>1. host' = HostLeft(l) \/ host' = host
      BY <1>1 DEF ReadLine, ReadSettings
    <3>2. /\ Len(read) \in Nat /\ DOMAIN read' = 1 .. Len(read) + 1
          /\ DOMAIN read = 1 .. Len(read) /\ read'[Len(read) + 1] = l
          /\ \A q \in 1 .. Len(read) : read'[q] = read[q]
      BY <1>1, LineFacts
    <3>3. Len(read) + 1 \in DOMAIN read'
      BY <3>2
    <3>4. host = <<>> \/ \E q \in DOMAIN read : host = HostLeft(read[q])
      BY DEF TypeOK
    <3>5. ASSUME NEW q \in DOMAIN read, host = HostLeft(read[q])
          PROVE  q \in DOMAIN read' /\ host = HostLeft(read'[q])
      BY <3>2, <3>5
    <3> QED BY <3>1, <3>2, <3>3, <3>4, <3>5
  <2>4. kind' \in {"unset"} \cup KindNames
    BY <1>1, PlaceFacts
  <2>5. signals' \in [KindNames -> Seq(DOMAIN read')]
    <3>1. DOMAIN read' = 1 .. Len(read) + 1
      BY <1>1, LineFacts
    <3>2. \A k \in KindNames : signals'[k] \in Seq(DOMAIN read')
      BY <1>1, <3>1, KindPlaces
    <3>3. signals \in [KindNames -> Seq(DOMAIN read)]
      BY DEF TypeOK
    <3>4. signals' = [k \in KindNames |-> signals'[k]]
      BY <1>1, <3>3, PlaceFacts
    <3> QED BY <3>2, <3>4
  <2>6. state' \in {"reading", "crashed"}
    BY <1>1, PlaceFacts, LineFacts
  <2>7. SettingRanges'
    BY <2>2, WidthRanges
  <2> QED BY <2>1, <2>2, <2>3, <2>4, <2>5, <2>6, <2>7 DEF TypeOK, SettingRanges
<1>2. CASE ~\E l \in Lines : ReadLine(l)
  BY <1>2, OtherSteps DEF TypeOK
<1> QED BY <1>1, <1>2

\* The line is the last one with its titles, and sets what they mean in it.
LEMMA SettingStep == TypeOK /\ SettingInv /\ [Next]_vars => SettingInv'
<1> SUFFICES ASSUME TypeOK, SettingInv, [Next]_vars PROVE SettingInv'
  OBVIOUS
<1>1. ASSUME NEW l \in Lines, ReadLine(l) PROVE SettingInv'
  <2>a. /\ Len(read) \in Nat /\ Len(read') = Len(read) + 1
        /\ DOMAIN read = 1 .. Len(read) /\ DOMAIN read' = 1 .. Len(read) + 1
        /\ read'[Len(read) + 1] = l
        /\ \A q \in 1 .. Len(read) : read'[q] = read[q]
    BY <1>1, LineFacts
  <2> SUFFICES ASSUME NEW t \in Settings
               PROVE  \E m \in 0 .. Len(read') :
                         /\ IsLast(m, {q \in DOMAIN read' : Mentions(read'[q], t)})
                         /\ settings'[t] = IF m = 0 THEN Default[t]
                                           ELSE Meant(read'[m], t) % Width(t)
    BY DEF SettingInv, IsLast, Mentions
  <2>1. settings'[t] = IF Mentions(l, t) THEN Meant(l, t) % Width(t) ELSE settings[t]
    <3>1. l \in Seq(Token) /\ ReadSettings(l)
      BY <1>1, LineFacts DEF ReadLine
    <3> QED BY <3>1, SettingFacts
  <2>2. CASE Mentions(l, t)
    <3> DEFINE m == Len(read) + 1
    <3>1. m \in DOMAIN read' /\ m # 0 /\ read'[m] = l /\ m \in 0 .. Len(read')
      BY <2>a
    <3>2. \A q \in DOMAIN read' : q <= m
      BY <2>a
    <3> HIDE DEF m
    <3>3. IsLast(m, {q \in DOMAIN read' : Mentions(read'[q], t)})
      BY <2>2, <3>1, <3>2 DEF IsLast
    <3> QED BY <2>1, <2>2, <3>1, <3>3
  <2>3. CASE ~Mentions(l, t)
    <3>1. PICK m \in 0 .. Len(read) :
             /\ IsLast(m, {q \in DOMAIN read : Mentions(read[q], t)})
             /\ settings[t] = IF m = 0 THEN Default[t] ELSE Meant(read[m], t) % Width(t)
      BY DEF SettingInv
    <3>2. {q \in DOMAIN read' : Mentions(read'[q], t)} = {q \in DOMAIN read : Mentions(read[q], t)}
      <4>1. \A q : q \in 1 .. Len(read) + 1 <=> q \in 1 .. Len(read) \/ q = Len(read) + 1
        BY <2>a
      <4> QED BY <2>a, <2>3, <4>1
    <3>3. m \in 0 .. Len(read') /\ (m # 0 => read'[m] = read[m])
      BY <2>a
    <3> QED BY <2>1, <2>3, <3>1, <3>2, <3>3
  <2> QED BY <2>2, <2>3
<1>2. CASE ~\E l \in Lines : ReadLine(l)
  <2>1. UNCHANGED <<read, settings>>
    BY <1>2, OtherSteps
  <2> QED BY <2>1 DEF SettingInv, IsLast, Mentions
<1> QED BY <1>1, <1>2
\* A line that names a kind makes it the kind, and is the last one that does.
LEMMA KindStep == TypeOK /\ KindInv /\ [Next]_vars => KindInv'
<1> SUFFICES ASSUME TypeOK, KindInv, [Next]_vars PROVE KindInv'
  OBVIOUS
<1>1. ASSUME NEW l \in Lines, ReadLine(l) PROVE KindInv'
  <2>a. /\ l \in Seq(Token) /\ Len(read) \in Nat /\ Len(read') = Len(read) + 1
        /\ DOMAIN read = 1 .. Len(read) /\ DOMAIN read' = 1 .. Len(read) + 1
        /\ read'[Len(read) + 1] = l /\ \A q \in 1 .. Len(read) : read'[q] = read[q]
        /\ kind' = FindType(Rest(l), kind)
    BY <1>1, LineFacts, PlaceFacts
  <2>b. /\ Naming(read', Len(read) + 1)
             = Naming(read, Len(read)) \cup (IF NamesKind(l) THEN {Len(read) + 1} ELSE {})
        /\ Naming(read, Len(read)) \subseteq 1 .. Len(read)
    BY <1>1, NamingFacts
  <2>c. {q \in DOMAIN read' : NamesKind(read'[q])} = Naming(read', Len(read'))
    BY <2>a DEF Naming
  <2>1. CASE NamesKind(l)
    <3>1. /\ Len(read) + 1 \in Naming(read', Len(read'))
          /\ \A x \in Naming(read', Len(read')) : x <= Len(read) + 1
      BY <2>a, <2>b, <2>1
    <3>2. IsLast(Len(read) + 1, Naming(read', Len(read')))
      BY <3>1 DEF IsLast
    <3>3. LastKind(read'[Len(read) + 1], kind')
      BY <2>a, <2>1, FindTypeFacts
    <3>4. Len(read) + 1 \in 0 .. Len(read')
      BY <2>a
    <3> QED BY <2>c, <3>2, <3>3, <3>4 DEF KindInv, IsLast, NamesKind, LastKind, Mentions
  <2>2. CASE ~NamesKind(l)
    <3>1. PICK h \in 0 .. Len(read) :
             /\ IsLast(h, {q \in DOMAIN read : NamesKind(read[q])})
             /\ h # 0 => LastKind(read[h], kind)
      BY DEF KindInv
    <3>2. Naming(read', Len(read')) = {q \in DOMAIN read : NamesKind(read[q])}
      BY <2>a, <2>b, <2>2 DEF Naming
    <3>3. h \in 0 .. Len(read') /\ (h # 0 => read'[h] = read[h]) /\ kind' = kind
      BY <2>a, <2>2, FindTypeFacts
    <3> QED BY <2>c, <3>1, <3>2, <3>3 DEF KindInv, IsLast, NamesKind, LastKind, Mentions
  <2> QED BY <2>1, <2>2
<1>2. CASE ~\E l \in Lines : ReadLine(l)
  <2>1. UNCHANGED <<read, kind>>
    BY <1>2, OtherSteps
  <2> QED BY <2>1 DEF KindInv, IsLast, NamesKind, LastKind, Mentions
<1> QED BY <1>1, <1>2

\* A place after a line was read is one from before, or the line's.
LEMMA NewPlaces ==
    ASSUME TypeOK, NEW l \in Lines, ReadLine(l),
           NEW k \in KindNames, NEW i \in DOMAIN signals'[k]
    PROVE  \/ /\ i \in DOMAIN signals[k] /\ signals'[k][i] = signals[k][i]
              /\ signals[k][i] \in 1 .. Len(read)
           \/ k = kind' /\ signals'[k][i] = Len(read) + 1 /\ i = Len(signals[k]) + 1
<1>1. /\ Len(signals[k]) \in Nat /\ DOMAIN signals[k] = 1 .. Len(signals[k])
      /\ \A j \in DOMAIN signals[k] : signals[k][j] \in 1 .. Len(read)
      /\ \/ signals'[k] = signals[k]
         \/ /\ k = kind' /\ DOMAIN signals'[k] = 1 .. Len(signals[k]) + 1
            /\ signals'[k][Len(signals[k]) + 1] = Len(read) + 1
            /\ \A j \in DOMAIN signals[k] : signals'[k][j] = signals[k][j]
  BY KindPlaces
<1>2. CASE signals'[k] = signals[k]
  BY <1>1, <1>2
<1>3. CASE signals'[k] # signals[k]
  <2>1. i \in 1 .. Len(signals[k]) \/ i = Len(signals[k]) + 1
    BY <1>1, <1>3
  <2> QED BY <1>1, <1>3, <2>1
<1> QED BY <1>2, <1>3

\* A signal is filed under the kind its line leaves, and the kinds named before
\* stay the same.
LEMMA SectionStep ==
    TypeOK /\ KindInv /\ SectionInv /\ [Next]_vars => SectionInv'
<1> SUFFICES ASSUME TypeOK, KindInv, SectionInv, [Next]_vars PROVE SectionInv'
  OBVIOUS
<1>1. ASSUME NEW l \in Lines, ReadLine(l) PROVE SectionInv'
  <2>a. /\ Len(read) \in Nat /\ Len(read') = Len(read) + 1
        /\ DOMAIN read' = 1 .. Len(read) + 1
        /\ \A q \in 1 .. Len(read) : read'[q] = read[q]
    BY <1>1, LineFacts
  <2> SUFFICES ASSUME NEW k \in KindNames, NEW i \in DOMAIN signals'[k]
               PROVE  \E h \in 0 .. Len(read') :
                         /\ IsLast(h, Naming(read', signals'[k][i]))
                         /\ h # 0 => LastKind(read'[h], k)
    BY DEF SectionInv, IsLast, Naming, NamesKind, LastKind, Mentions
  <2>1. CASE i \in DOMAIN signals[k] /\ signals'[k][i] = signals[k][i]
                /\ signals[k][i] \in 1 .. Len(read)
    <3>1. PICK h \in 0 .. Len(read) :
             /\ IsLast(h, Naming(read, signals[k][i]))
             /\ h # 0 => LastKind(read[h], k)
      BY <2>1 DEF SectionInv
    <3>2. signals[k][i] \in 0 .. Len(read)
      BY <2>1
    <3>3. Naming(read', signals'[k][i]) = Naming(read, signals[k][i])
      BY <1>1, <2>1, <3>2, NamingFacts
    <3>4. h \in 0 .. Len(read') /\ (h # 0 => read'[h] = read[h])
      BY <2>a
    <3> QED BY <3>1, <3>3, <3>4
  <2>2. CASE k = kind' /\ signals'[k][i] = Len(read) + 1
    <3>1. KindInv'
      BY <1>1, KindStep
    <3>2. PICK h \in 0 .. Len(read') :
             /\ IsLast(h, {q \in DOMAIN read' : NamesKind(read'[q])})
             /\ h # 0 => LastKind(read'[h], kind')
      BY <3>1 DEF KindInv, IsLast, NamesKind, LastKind, Mentions
    <3>3. Naming(read', signals'[k][i]) = {q \in DOMAIN read' : NamesKind(read'[q])}
      BY <2>a, <2>2 DEF Naming
    <3> QED BY <2>2, <3>2, <3>3
  <2> QED BY <1>1, <2>1, <2>2, NewPlaces
<1>2. CASE ~\E l \in Lines : ReadLine(l)
  <2>1. UNCHANGED <<read, signals>>
    BY <1>2, OtherSteps
  <2>2. /\ Len(read') = Len(read)
        /\ \A k \in KindNames :
              /\ signals'[k] = signals[k]
              /\ \A i \in DOMAIN signals[k] :
                    Naming(read', signals'[k][i]) = Naming(read, signals[k][i])
        /\ \A h : read'[h] = read[h]
    BY <2>1
  <2>3. \A k \in KindNames : \A i \in DOMAIN signals'[k] :
           \E h \in 0 .. Len(read') :
              /\ IsLast(h, Naming(read', signals'[k][i]))
              /\ h # 0 => LastKind(read'[h], k)
    BY <2>2 DEF SectionInv
  <2> QED BY <2>3 DEF SectionInv, IsLast, Naming, NamesKind, LastKind, Mentions
<1> QED BY <1>1, <1>2

\* Until a kind is named the kind stays the same, and after that no signal is
\* without one.
LEMMA OrphanStep == TypeOK /\ OrphanInv /\ [Next]_vars => OrphanInv'
<1> SUFFICES ASSUME TypeOK, OrphanInv, [Next]_vars PROVE OrphanInv'
  OBVIOUS
<1>1. ASSUME NEW l \in Lines, ReadLine(l) PROVE OrphanInv'
  <2> DEFINE m == Len(read) + 1
  <2>a. /\ l \in Seq(Token) /\ Len(read) \in Nat /\ Len(read') = m
        /\ kind' = FindType(Rest(l), kind)
    BY <1>1, LineFacts, PlaceFacts
  <2>b. /\ \A p \in 0 .. Len(read) : Naming(read', p) = Naming(read, p)
        /\ Naming(read', m) = Naming(read, Len(read)) \cup (IF NamesKind(l) THEN {m} ELSE {})
    BY <1>1, NamingFacts
  <2>c. \A p \in 1 .. Len(read) : p \in 0 .. Len(read)
    OBVIOUS
  <2>d. \A k \in KindNames : \A i \in DOMAIN signals'[k] :
           \/ /\ i \in DOMAIN signals[k] /\ signals'[k][i] = signals[k][i]
              /\ signals[k][i] \in 1 .. Len(read)
           \/ k = kind' /\ signals'[k][i] = m
    BY <1>1, NewPlaces
  <2> HIDE DEF m
  <2>1. ASSUME Naming(read', m) = {}, NEW k \in KindNames, DOMAIN signals'[k] # {}
        PROVE  k = kind'
    <3>1. ~NamesKind(l) /\ Naming(read, Len(read)) = {}
      BY <2>1, <2>b
    <3>2. kind' = kind
      BY <2>a, <3>1, FindTypeFacts
    <3>3. PICK i \in DOMAIN signals'[k] : TRUE
      BY <2>1
    <3>4. CASE i \in DOMAIN signals[k]
      BY <3>1, <3>2, <3>4 DEF OrphanInv
    <3> QED BY <2>d, <3>3, <3>4
  <2>2. ASSUME NEW k1 \in KindNames, NEW k2 \in KindNames,
               NEW i \in DOMAIN signals'[k1], NEW j \in DOMAIN signals'[k2],
               Naming(read', signals'[k1][i]) = {}, Naming(read', signals'[k2][j]) = {}
        PROVE  k1 = k2
    <3>1. CASE signals'[k1][i] = m \/ signals'[k2][j] = m
      <4>1. Naming(read', m) = {}
        BY <2>2, <3>1
      <4>2. k1 = kind' /\ k2 = kind'
        BY <2>1, <4>1
      <4> QED BY <4>2
    <3>2. CASE signals'[k1][i] # m /\ signals'[k2][j] # m
      <4>1. /\ i \in DOMAIN signals[k1] /\ signals'[k1][i] = signals[k1][i]
            /\ signals[k1][i] \in 1 .. Len(read)
            /\ j \in DOMAIN signals[k2] /\ signals'[k2][j] = signals[k2][j]
            /\ signals[k2][j] \in 1 .. Len(read)
        BY <2>d, <3>2
      <4>2. Naming(read, signals[k1][i]) = {} /\ Naming(read, signals[k2][j]) = {}
        BY <2>2, <2>b, <2>c, <4>1
      <4>3. \A x \in DOMAIN signals[k1], y \in DOMAIN signals[k2] :
               Naming(read, signals[k1][x]) = {} /\ Naming(read, signals[k2][y]) = {}
                  => k1 = k2
        BY DEF OrphanInv
      <4> QED BY <4>1, <4>2, <4>3
    <3> QED BY <3>1, <3>2
  <2> QED BY <2>a, <2>1, <2>2 DEF OrphanInv, Naming, NamesKind, Mentions
<1>2. CASE ~\E l \in Lines : ReadLine(l)
  <2>1. UNCHANGED <<read, signals>> /\ kind' = kind
    BY <1>2, OtherSteps
  <2> QED BY <2>1 DEF OrphanInv, Naming, NamesKind, Mentions
<1> QED BY <1>1, <1>2

\* The place of a line is higher than all before it, and it gets one unless it
\* has no signal, no kind or no fields.
LEMMA PlaceStep ==
    TypeOK /\ KindInv /\ PlaceInv /\ [Next]_vars => PlaceInv'
<1> SUFFICES ASSUME TypeOK, KindInv, PlaceInv, [Next]_vars PROVE PlaceInv'
  OBVIOUS
<1>1. ASSUME NEW l \in Lines, ReadLine(l) PROVE PlaceInv'
  <2> DEFINE m == Len(read) + 1
  <2>a. /\ l \in Seq(Token) /\ Len(read) \in Nat /\ Len(read') = m
        /\ DOMAIN read = 1 .. Len(read) /\ DOMAIN read' = 1 .. m
        /\ read'[m] = l /\ \A q \in 1 .. Len(read) : read'[q] = read[q]
        /\ kind' = FindType(Rest(l), kind) /\ state = "reading"
    BY <1>1, LineFacts, PlaceFacts
  <2>b. \A k \in KindNames :
           /\ Len(signals[k]) \in Nat /\ DOMAIN signals[k] = 1 .. Len(signals[k])
           /\ \A i \in DOMAIN signals[k] : signals[k][i] \in 1 .. Len(read)
           /\ \/ signals'[k] = signals[k]
              \/ /\ k = kind' /\ DOMAIN signals'[k] = 1 .. Len(signals[k]) + 1
                 /\ signals'[k][Len(signals[k]) + 1] = m
                 /\ \A i \in DOMAIN signals[k] : signals'[k][i] = signals[k][i]
    BY <1>1, KindPlaces
  <2>c. m \in Nat \ {0} /\ m = Len(read) + 1
    BY <2>a
  <2> HIDE DEF m
  \* A place after the step is one from before or the new one.
  <2>d. \A k \in KindNames : \A i \in DOMAIN signals'[k] :
           \/ /\ i \in DOMAIN signals[k] /\ signals'[k][i] = signals[k][i]
              /\ signals[k][i] \in 1 .. Len(read)
           \/ k = kind' /\ signals'[k][i] = m /\ i = Len(signals[k]) + 1
    BY <1>1, <2>c, NewPlaces
  <2>1. ASSUME NEW k \in KindNames, NEW i \in DOMAIN signals'[k],
               NEW j \in DOMAIN signals'[k], i < j
        PROVE  signals'[k][i] < signals'[k][j]
    <3>1. CASE i \in DOMAIN signals[k] /\ j \in DOMAIN signals[k]
      <4>1. signals[k][i] < signals[k][j]
        BY <2>1, <3>1 DEF PlaceInv
      <4>2. signals'[k][i] = signals[k][i] /\ signals'[k][j] = signals[k][j]
        BY <2>b, <3>1
      <4> QED BY <4>1, <4>2
    <3>2. CASE i \in DOMAIN signals[k] /\ j \notin DOMAIN signals[k]
      <4>1. signals'[k][i] \in 1 .. Len(read) /\ signals'[k][j] = m
        BY <2>b, <2>d, <3>2
      <4> QED BY <2>a, <2>c, <4>1
    <3>3. CASE i \notin DOMAIN signals[k]
      <4>1. i = Len(signals[k]) + 1
        BY <2>d, <3>3
      <4>2. j = Len(signals[k]) + 1 \/ j \in 1 .. Len(signals[k])
        BY <2>b, <2>d
      <4>3. Len(signals[k]) \in Nat
        BY <2>b
      <4> QED BY <2>1, <4>1, <4>2, <4>3
    <3> QED BY <3>1, <3>2, <3>3
  <2>2. ASSUME NEW k1 \in KindNames, NEW k2 \in KindNames,
               NEW i \in DOMAIN signals'[k1], NEW j \in DOMAIN signals'[k2],
               signals'[k1][i] = signals'[k2][j]
        PROVE  k1 = k2
    <3>1. m \notin 1 .. Len(read)
      BY <2>a, <2>c
    <3>2. CASE signals'[k1][i] = m
      <4>1. k1 = kind' /\ k2 = kind'
        BY <2>2, <2>d, <3>1, <3>2
      <4> QED BY <4>1
    <3>3. CASE signals'[k1][i] # m
      <4>1. /\ i \in DOMAIN signals[k1] /\ signals'[k1][i] = signals[k1][i]
            /\ j \in DOMAIN signals[k2] /\ signals'[k2][j] = signals[k2][j]
        BY <2>2, <2>d, <3>3
      <4>2. signals[k1][i] = signals[k2][j]
        BY <2>2, <4>1
      <4>3. \A x \in DOMAIN signals[k1], y \in DOMAIN signals[k2] :
               signals[k1][x] = signals[k2][y] => k1 = k2
        BY DEF PlaceInv
      <4> QED BY <4>1, <4>2, <4>3
    <3> QED BY <3>2, <3>3
  <2>3. ASSUME NEW p \in 1 .. m, Mentions(read'[p], "Signal"),
               Naming(read', p) # {}, state' = "crashed" => p < m
        PROVE  \E k \in KindNames : \E i \in DOMAIN signals'[k] : signals'[k][i] = p
    <3>a. /\ \A x \in 0 .. Len(read) : Naming(read', x) = Naming(read, x)
          /\ Naming(read', m)
                = Naming(read, Len(read)) \cup (IF NamesKind(l) THEN {m} ELSE {})
          /\ Naming(read, Len(read)) \subseteq 1 .. Len(read)
      BY <1>1, <2>c, NamingFacts
    <3>1. CASE p \in 1 .. Len(read)
      <4>1. read'[p] = read[p]
        BY <2>a, <3>1
      <4>2. PICK k \in KindNames : \E i \in DOMAIN signals[k] : signals[k][i] = p
        <5>1. Naming(read, p) # {}
          BY <2>3, <3>1, <3>a
        <5>2. state = "crashed" => p < Len(read)
          BY <2>a
        <5> QED BY <2>3, <2>a, <3>1, <4>1, <5>1, <5>2 DEF PlaceInv
      <4>3. PICK i \in DOMAIN signals[k] : signals[k][i] = p
        BY <4>2
      <4>4. i \in DOMAIN signals'[k] /\ signals'[k][i] = p
        <5>1. i \in 1 .. Len(signals[k]) => i \in 1 .. Len(signals[k]) + 1
          BY <2>b
        <5> QED BY <2>b, <4>3, <5>1
      <4> QED BY <4>4
    <3>2. CASE p = m
      <4>1. Mentions(l, "Signal") /\ state' # "crashed"
        BY <2>3, <2>a, <2>c, <3>2
      <4>2. kind' # "unset"
        <5>1. CASE NamesKind(l)
          BY <2>a, <5>1, FindTypeFacts, KindFacts
        <5>2. CASE ~NamesKind(l)
          <6>1. PICK x \in 1 .. Len(read) : NamesKind(read[x])
            BY <2>3, <3>2, <3>a, <5>2 DEF Naming
          <6>2. \E h \in 0 .. Len(read) : h # 0 /\ LastKind(read[h], kind)
            BY <2>a, <6>1 DEF KindInv, IsLast
          <6>3. kind \in KindNames
            BY <6>2 DEF LastKind, KindNames
          <6> QED BY <2>a, <5>2, <6>3, FindTypeFacts, KindFacts
        <5> QED BY <5>1, <5>2
      <4>3. /\ kind' \in KindNames
            /\ signals' = [signals EXCEPT ![kind'] = Append(@, m)]
        BY <1>1, <2>c, <4>1, <4>2, PlaceFacts
      <4>4. /\ signals[kind'] \in Seq(1 .. Len(read)) /\ DOMAIN signals = KindNames
        <5>1. signals \in [KindNames -> Seq(DOMAIN read)]
          BY DEF TypeOK
        <5> QED BY <2>a, <4>3, <5>1
      <4>5. signals'[kind'] = Append(signals[kind'], m)
        BY <4>3, <4>4
      <4>6. /\ Len(signals[kind']) + 1 \in DOMAIN signals'[kind']
            /\ signals'[kind'][Len(signals[kind']) + 1] = m
        <5>1. \/ signals'[kind'] = signals[kind']
              \/ /\ DOMAIN signals'[kind'] = 1 .. Len(signals[kind']) + 1
                 /\ signals'[kind'][Len(signals[kind']) + 1] = m
          BY <2>b, <4>3
        <5>2. Len(signals[kind']) \in Nat
          BY <2>b, <4>3
        <5>3. Len(signals'[kind']) = Len(signals[kind']) + 1
          BY <4>4, <4>5, AppendProperties
        <5>4. signals'[kind'] # signals[kind']
          BY <5>2, <5>3
        <5> QED BY <5>1, <5>2, <5>4
      <4> QED BY <3>2, <4>3, <4>6
    <3>3. p \in 1 .. Len(read) \/ p = m
      BY <2>a, <2>c
    <3> QED BY <3>1, <3>2, <3>3
  <2> QED BY <2>a, <2>1, <2>2, <2>3 DEF PlaceInv, Naming, NamesKind, Mentions
<1>2. CASE ~\E l \in Lines : ReadLine(l)
  <2>1. /\ UNCHANGED <<read, signals>>
        /\ state' = state \/ (state # "crashed" /\ state' # "crashed")
    BY <1>2, OtherSteps
  <2> QED BY <2>1 DEF PlaceInv, Naming, NamesKind, Mentions
<1> QED BY <1>1, <1>2

\* The process dies at the line that is read, and reads none after it.
LEMMA CrashStep ==
    /\ TypeOK /\ CrashNeedsShortLine /\ (state = "crashed" => read # <<>>)
    /\ [Next]_vars
    => CrashNeedsShortLine' /\ (state' = "crashed" => read' # <<>>)
<1> SUFFICES ASSUME TypeOK, CrashNeedsShortLine, state = "crashed" => read # <<>>,
                    [Next]_vars
             PROVE  CrashNeedsShortLine' /\ (state' = "crashed" => read' # <<>>)
  OBVIOUS
<1>1. ASSUME NEW l \in Lines, ReadLine(l), state' = "crashed"
      PROVE  CrashNeedsShortLine' /\ read' # <<>>
  <2>1. /\ l \in Seq(Token) /\ Len(read) \in Nat /\ Len(read') = Len(read) + 1
        /\ read'[Len(read')] = l /\ state = "reading"
    BY <1>1, LineFacts
  <2>2. Mentions(l, "Signal") /\ Fields(Rest(l)) < 4
    BY <1>1, <2>1, PlaceFacts
  <2>3. Fields(l) < 4 \/ Mentions(l, Host)
    BY <2>1, <2>2, RestFields
  <2>4. read' # <<>>
    <3>1. Len(read') # 0
      BY <2>1
    <3> QED BY <3>1
  <2> QED BY <2>1, <2>2, <2>3, <2>4 DEF CrashNeedsShortLine, Mentions, Fields
<1>2. CASE ~\E l \in Lines : ReadLine(l)
  <2>1. UNCHANGED read /\ (state' = "crashed" => state = "crashed")
    BY <1>2, OtherSteps
  <2> QED BY <2>1 DEF CrashNeedsShortLine, Mentions, Fields
<1>3. CASE state' # "crashed"
  BY <1>3 DEF CrashNeedsShortLine
<1> QED BY <1>1, <1>2, <1>3
-----------------------------------------------------------------------------
(* The theorems. *)

\* Nothing is read, and the settings are the defaults.
LEMMA IndInit == Init => IndInv
<1> SUFFICES ASSUME Init PROVE IndInv
  OBVIOUS
<1>1. /\ read = <<>> /\ settings = Default /\ host = <<>>
      /\ kind \in {"unset"} \cup KindNames /\ state = "open"
      /\ signals = [k \in KindNames |-> <<>>]
      /\ Len(read) = 0 /\ DOMAIN read = {}
  BY DEF Init
<1>3. TypeOK
  <2>1. MaxLines \in Nat
    BY SignalsIniAssumption DEF SignalsIniAssumption
  <2>2. /\ read \in Seq(Lines) /\ signals \in [KindNames -> Seq(DOMAIN read)]
    BY <1>1, EmptySeq
  <2>3. settings \in [Settings -> Nat] /\ \A t \in Settings : settings[t] < Width(t)
    <3>1. Settings = {"Port", "Server_adress", "1st_rgstr", "Num_rgstr",
                      "1st_qual_rgstr", "Resposnse_time", "Num_of_retries"}
      <4>1. \A i \in 1 .. 7 : i \in {1, 2, 3, 4, 5, 6, 7}
        OBVIOUS
      <4> QED BY <4>1, TitleFacts DEF Titles
    <3>2. Default \in [Settings -> Nat]
      BY <3>1 DEF Default
    <3>3. \A t \in Settings : Default[t] < Width(t)
      BY <3>1 DEF Default, Width
    <3> QED BY <1>1, <3>2, <3>3
  <2>4. SettingRanges
    BY <2>3, WidthRanges
  <2> QED BY <1>1, <2>1, <2>2, <2>3, <2>4 DEF TypeOK, SettingRanges
<1>4. SettingInv
  <2>1. \A t \in Settings : {q \in DOMAIN read : Mentions(read[q], t)} = {}
    BY <1>1
  <2>2. 0 \in 0 .. Len(read)
    BY <1>1
  <2>3. IsLast(0, {})
    BY DEF IsLast
  <2> QED BY <1>1, <2>1, <2>2, <2>3 DEF SettingInv
<1>5. KindInv
  <2>1. 0 \in 0 .. Len(read)
    BY <1>1
  <2> QED BY <1>1, <2>1 DEF KindInv, IsLast
<1>6. \A k \in KindNames : DOMAIN signals[k] = {}
  BY <1>1
<1>7. SectionInv /\ OrphanInv /\ PlaceInv
  BY <1>1, <1>6 DEF SectionInv, OrphanInv, PlaceInv
<1>8. (state = "crashed" => read # <<>>) /\ CrashNeedsShortLine
  BY <1>1 DEF CrashNeedsShortLine
<1> QED BY <1>3, <1>4, <1>5, <1>7, <1>8 DEF IndInv

\* However long the file is and whatever its lines are, each setting comes from
\* the last line with its title and each signal has its place: the inductive
\* invariant of reading.
THEOREM Invariance == Spec => []IndInv
<1>1. IndInv /\ [Next]_vars => IndInv'
  BY TypeStep, SettingStep, KindStep, SectionStep, OrphanStep, PlaceStep, CrashStep DEF IndInv
<1> QED BY IndInit, <1>1, PTL DEF Spec

\* Types and ranges, for every set of lines: no setting exceeds its member.
THEOREM TypeCorrect == Spec => []TypeOK
<1>1. IndInv => TypeOK
  BY DEF IndInv
<1> QED BY <1>1, Invariance, PTL

\* Each setting is what the last line with its title means.
THEOREM SettingsAreTheirLastLines == Spec => []SettingIsItsLastLine
<1>1. IndInv => SettingIsItsLastLine
  <2> SUFFICES ASSUME IndInv, NEW t \in Settings
               PROVE  LET p == Last({q \in DOMAIN read : Mentions(read[q], t)})
                      IN  settings[t] = IF p = 0 THEN Default[t]
                                        ELSE Meant(read[p], t) % Width(t)
    BY DEF SettingIsItsLastLine
  <2> DEFINE P == {q \in DOMAIN read : Mentions(read[q], t)}
  <2>1. PICK m \in 0 .. Len(read) :
           /\ IsLast(m, P)
           /\ settings[t] = IF m = 0 THEN Default[t] ELSE Meant(read[m], t) % Width(t)
    BY DEF IndInv, SettingInv
  <2>2. P \in SUBSET (Nat \ {0})
    BY LenProperties DEF IndInv, TypeOK
  <2> HIDE DEF P
  <2>3. Last(P) = m
    BY <2>1, <2>2, LastIs DEF IsLast
  <2> QED BY <2>1, <2>3 DEF P
<1> QED BY <1>1, Invariance, PTL

\* A signal is filed under the kind named last up to its line, and under one
\* and the same kind if none is.
THEOREM SectionsAreKept == Spec => []SectionsHold
<1>1. IndInv => SectionsHold
  <2> SUFFICES ASSUME IndInv PROVE SectionsHold
    OBVIOUS
  <2>1. DOMAIN signals = KindNames
    BY DEF IndInv, TypeOK
  <2>2. ASSUME NEW k \in KindNames, NEW i \in DOMAIN signals[k]
        PROVE  LET q == Last(Naming(read, signals[k][i]))
               IN  q = 0 \/ LastKind(read[q], k)
    <3> DEFINE P == Naming(read, signals[k][i])
    <3>1. PICK h \in 0 .. Len(read) :
             IsLast(h, P) /\ (h # 0 => LastKind(read[h], k))
      BY DEF IndInv, SectionInv
    <3>2. P \in SUBSET (Nat \ {0})
      BY DEF Naming
    <3> HIDE DEF P
    <3>3. Last(P) = h
      BY <3>1, <3>2, LastIs DEF IsLast
    <3> QED BY <3>1, <3>3 DEF P
  <2>3. \A k1, k2 \in KindNames :
           \A i \in DOMAIN signals[k1], j \in DOMAIN signals[k2] :
              Naming(read, signals[k1][i]) = {} /\ Naming(read, signals[k2][j]) = {}
                 => k1 = k2
    BY DEF IndInv, OrphanInv
  <2> QED BY <2>1, <2>2, <2>3 DEF SectionsHold
<1> QED BY <1>1, Invariance, PTL

\* The places of a kind are in the order of the lines, and every line with a
\* signal, once a kind is named, has exactly one.
THEOREM PlacesAreUnique == Spec => []EverySignalHasOnePlace
<1>1. IndInv => EverySignalHasOnePlace
  <2> SUFFICES ASSUME IndInv PROVE EverySignalHasOnePlace
    OBVIOUS
  <2>1. DOMAIN signals = KindNames
    BY DEF IndInv, TypeOK
  <2>2. ASSUME NEW p \in DOMAIN read, Mentions(read[p], "Signal"),
               Naming(read, p) # {}, state = "crashed" => p < Len(read)
        PROVE  Cardinality({k \in DOMAIN signals :
                              \E i \in DOMAIN signals[k] : signals[k][i] = p}) = 1
    <3> DEFINE S == {k \in DOMAIN signals :
                       \E i \in DOMAIN signals[k] : signals[k][i] = p}
    <3>1. PICK k \in KindNames : \E i \in DOMAIN signals[k] : signals[k][i] = p
      BY <2>2 DEF IndInv, PlaceInv
    <3>2. \A x \in S : x = k
      BY <2>1, <3>1 DEF IndInv, PlaceInv
    <3>3. S = {k}
      BY <2>1, <3>1, <3>2
    <3> HIDE DEF S
    <3>4. Cardinality(S) = 1
      BY <3>3, FS_Singleton
    <3> QED BY <3>4 DEF S
  <2>3. \A k \in DOMAIN signals : \A i, j \in DOMAIN signals[k] :
           i < j => signals[k][i] < signals[k][j]
    BY <2>1 DEF IndInv, PlaceInv
  <2> QED BY <2>2, <2>3 DEF EverySignalHasOnePlace
<1> QED BY <1>1, Invariance, PTL

\* Only a signal with too few fields, or with the host in its line, can take
\* the process down.
THEOREM CrashesAreShort == Spec => []CrashNeedsShortLine
<1>1. IndInv => CrashNeedsShortLine
  BY DEF IndInv
<1> QED BY <1>1, Invariance, PTL
=============================================================================

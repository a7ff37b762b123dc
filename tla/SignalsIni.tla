----------------------------- MODULE SignalsIni -----------------------------
(***************************************************************************)
(* How PLC_connector reads signals.ini: readSignalsFile hands the lines    *)
(* one after another to readIniSection, which looks for the titles of the  *)
(* settings, then for the name of a kind of signals (FindTypeSignal), then *)
(* for a signal (PrepareDiffSigLists), anywhere in the line and each time  *)
(* in what the searches before have left of it.                            *)
(*                                                                         *)
(* A line, its blanks removed, is a sequence of tokens: a word the code    *)
(* knows, the digits of a number, a comma, or other text.  eq says that    *)
(* "=" follows the word; the token "Signal" with eq is what the expression *)
(* Signal[0-9]{1,3}= matches.  Names, register numbers and simulation      *)
(* values of a signal are kept but never used: a signal is the number of   *)
(* its line.                                                               *)
(*                                                                         *)
(* What the searches have left of a line is a function, too: of its tokens *)
(* those that are left keep their positions.  What they have taken out     *)
(* leaves no gap: the digits before and behind it are one number.  Other   *)
(* text is taken not to join to a word the code knows, and not to be what  *)
(* toUInt skips, a plus sign or white space that is not a blank.           *)
(***************************************************************************)
EXTENDS Integers, Sequences, FiniteSets, FiniteSetsExt

CONSTANTS
    Lines,    \* the lines that may occur
    MaxLines, \* bound: how many lines the file has
    UIntSize  \* how many values toUInt can return

\* num is the value of the digits, scale is ten to the power of their number.
Token == [word : STRING, eq : BOOLEAN, num : Nat, scale : Nat \ {0}]

ASSUME SignalsIniAssumption ==
    /\ \A l \in Lines : l \in Seq(Token)
    /\ MaxLines \in Nat /\ UIntSize \in Nat \ {0}

VARIABLES
    read,     \* the lines read so far
    settings, \* title -> the number it set
    host,     \* what m_plc_host was set to, <<>> for its default
    kind,     \* m_type_sig; "unset" also stands for values that are no kind
    signals,  \* kind -> the lines its signals come from
    state     \* where readSignalsFile is, or what it returned

vars == <<read, settings, host, kind, signals, state>>

\* The titles, in the order of the searches; all but the host are numbers.
Host == "Host_IP"
Titles == <<"Port", "Server_adress", "1st_rgstr", "Num_rgstr",
            "1st_qual_rgstr", "Resposnse_time", "Num_of_retries">>
Settings == {Titles[i] : i \in DOMAIN Titles}

Default == [t \in Settings |->
              CASE t = "Port" -> 502
                [] t = "Server_adress" -> 1
                [] t = "1st_rgstr" -> 5199
                [] t = "Num_rgstr" -> 66
                [] t = "1st_qual_rgstr" -> 5259
                [] t = "Resposnse_time" -> 500
                [] t = "Num_of_retries" -> 3]

Kinds == <<"analog", "discrete", "integer", "group">>
KindNames == {Kinds[i] : i \in DOMAIN Kinds}

Mentions(l, w) == \E i \in DOMAIN l : l[i].word = w

\* bufstr.remove(w + "=") for every w in words.
Without(l, words) == RestrictValues(l, LAMBDA k : k.word \notin words \/ ~k.eq)

\* bufstr.replace(',', '.').
Dotted(l) ==
    [i \in DOMAIN l |->
        IF l[i].word = "comma" THEN [l[i] EXCEPT !.word = "dot"] ELSE l[i]]

\* The last line of those at positions P, 0 if there is none.
Last(P) == Max({0} \cup P)

\* The number that digits make which follow each other; one that is too large
\* for toUInt is not computed any further.
Joined(l) ==
    LET value[i \in 0 .. Last(DOMAIN l)] ==
          IF i = 0 THEN 0
          ELSE IF i \notin DOMAIN l THEN value[i - 1]
          ELSE IF value[i - 1] > UIntSize \div l[i].scale THEN UIntSize
          ELSE value[i - 1] * l[i].scale + l[i].num
    IN  value[Last(DOMAIN l)]

\* toUInt, which is zero for anything but digits and for too many of them.
ToUInt(l) ==
    IF (\A i \in DOMAIN l : l[i].word = "number") /\ Joined(l) \in 0 .. UIntSize - 1
    THEN Joined(l) ELSE 0

\* split(','): one field more than there are commas.
Fields(l) == 1 + Cardinality({i \in DOMAIN l : l[i].word = "comma"})

\* The members as they are built: a PLC_connector that is not static starts
\* with whatever m_type_sig's memory holds, the static one with zero.
Init ==
    /\ read = <<>>
    /\ settings = Default /\ host = <<>>
    /\ kind \in {"unset"} \cup KindNames
    /\ signals = [k \in KindNames |-> <<>>]
    /\ state = "open"

-----------------------------------------------------------------------------
(* Plausible mistakes in the reading below. *)

\* The casts take every setting for sixteen bits wide.
MutWidth(t) == 65536

\* Each search starts from the line as it was.
MutLeft(l, i) == IF i = 0 THEN l ELSE Without(l, {Titles[i]})

\* The first kind named in a line wins and later headers do not count.
MutFindType(l, k) ==
    IF k = "unset" /\ \E i \in DOMAIN Kinds : Mentions(l, Kinds[i])
    THEN Kinds[Min({i \in DOMAIN Kinds : Mentions(l, Kinds[i])})] ELSE k

\* A signal is filed under the kind before it, and under its own.
MutFile(l, k) ==
    signals' = [s \in DOMAIN signals |->
                  IF s \in {k, kind} THEN Append(signals[s], Len(read) + 1)
                  ELSE signals[s]]

\* One field too many is asked for.
MutComplete(l) == Fields(l) > 4

-----------------------------------------------------------------------------
\* The casts: quint8 for the address and the retries, quint16 for the others.
Width(t) == IF t \in {"Server_adress", "Num_of_retries"} THEN 256 ELSE 65536

\* What is left of a line after the host and the first i titles.
HostLeft(l) == IF Mentions(l, Host) THEN Without(Dotted(l), {Host}) ELSE l

Left(l, i) == Without(HostLeft(l), {Titles[j] : j \in 1 .. i})

Rest(l) == Left(l, Len(Titles))

\* The settings: every title found in what is left sets its number.
ReadSettings(l) ==
    /\ host' = IF Mentions(l, Host) THEN HostLeft(l) ELSE host
    /\ settings' = [t \in Settings |->
          LET i == CHOOSE j \in DOMAIN Titles : Titles[j] = t
          IN  IF Mentions(Left(l, i - 1), t) THEN ToUInt(Left(l, i)) % Width(t)
              ELSE settings[t]]

\* FindTypeSignal: the last kind the line mentions.
FindType(l, k) ==
    LET found == {i \in DOMAIN Kinds : Mentions(l, Kinds[i])}
    IN  IF found = {} THEN k ELSE Kinds[Max(found)]

\* PrepareDiffSigLists: a group needs no fields, any other signal four.
Complete(l) == Fields(l) >= 4
File(l, k) == signals' = [signals EXCEPT ![k] = Append(@, Len(read) + 1)]

\* A field that is not there is read past the end of the list: the process
\* crashes there, or goes on with what it finds.
PrepareSignal(l, k) ==
    \/ File(l, k) /\ UNCHANGED state
    \/ /\ k # "group" /\ ~Complete(l)
       /\ state' = "crashed" /\ UNCHANGED signals

-----------------------------------------------------------------------------
\* readSignalsFile: a file that cannot be opened is not an error.
Open ==
    /\ state = "open"
    /\ state' \in {"reading", "returned"}
    /\ UNCHANGED <<read, settings, host, kind, signals>>

\* One line; readIniSection.
ReadLine(l) ==
    /\ state = "reading" /\ Len(read) < MaxLines
    /\ read' = Append(read, l)
    /\ ReadSettings(l)
    /\ kind' = FindType(Rest(l), kind)
    /\ \/ /\ Mentions(Rest(l), "Signal") /\ kind' # "unset"
          /\ PrepareSignal(Rest(l), kind')
       \/ /\ ~Mentions(Rest(l), "Signal") \/ kind' = "unset"
          /\ UNCHANGED <<signals, state>>

\* The end of the file, or of what can be read of it.
EndOfFile ==
    /\ state = "reading"
    /\ state' \in {"returned", "failed"}
    /\ UNCHANGED <<read, settings, host, kind, signals>>

Next == Open \/ (\E l \in Lines : ReadLine(l)) \/ EndOfFile

Spec == Init /\ [][Next]_vars

-----------------------------------------------------------------------------
TypeOK ==
    /\ read \in Seq(Lines) /\ Len(read) <= MaxLines
    /\ settings \in [Settings -> Nat]
    /\ \A t \in Settings : settings[t] < 65536
    /\ \A t \in {"Server_adress", "Num_of_retries"} : settings[t] < 256
    /\ host = <<>> \/ \E q \in DOMAIN read : host = HostLeft(read[q])
    /\ kind \in {"unset"} \cup KindNames
    /\ signals \in [KindNames -> Seq(DOMAIN read)]
    /\ state \in {"open", "reading", "returned", "failed", "crashed"}

\* The number a line means for title t: it must say nothing but titles, each
\* with its "=", and digits, which count as one number wherever they are; and t
\* must be the last of the titles to be searched.
Meant(l, t) ==
    LET found == {i \in DOMAIN Titles : Mentions(l, Titles[i])}
    IN  IF Titles[Max(found)] = t THEN ToUInt(Without(l, Settings \cup {Host}))
        ELSE 0

\* A setting has the number of the last line with its title, cut to the width
\* of its member, and its default when there is none or no file.  Any remark,
\* signal or setting that has the title in it counts as such a line, and sets
\* zero; of two titles in a line only the one searched last gets a number, made
\* of all digits there: the searches edit the line they share.
SettingIsItsLastLine ==
    \A t \in Settings :
        LET p == Last({q \in DOMAIN read : Mentions(read[q], t)})
        IN  settings[t] = IF p = 0 THEN Default[t]
                          ELSE Meant(read[p], t) % Width(t)

NamesKind(l) == \E i \in DOMAIN Kinds : Mentions(l, Kinds[i])

\* Of the kinds the line names, k is the last in the order of Kinds.
LastKind(l, k) ==
    \E i \in DOMAIN Kinds :
        /\ Kinds[i] = k /\ Mentions(l, k)
        /\ \A j \in DOMAIN Kinds : Mentions(l, Kinds[j]) => j <= i

\* The lines up to p that name a kind.
Naming(lines, p) == {q \in 1 .. p : NamesKind(lines[q])}

\* FindTypeSignal looks at every line, signals included, and never goes back: a
\* signal is filed under the last kind of the last line up to its own that
\* names one, be it a header, a remark or the name of a signal, and what comes
\* before it keeps its kind.  The signals no such line precedes have one kind,
\* whatever that was in m_type_sig.
SectionsHold ==
    /\ \A k \in DOMAIN signals : \A i \in DOMAIN signals[k] :
          LET q == Last(Naming(read, signals[k][i]))
          IN  q = 0 \/ LastKind(read[q], k)
    /\ \A k1, k2 \in DOMAIN signals :
          \A i \in DOMAIN signals[k1], j \in DOMAIN signals[k2] :
             Naming(read, signals[k1][i]) = {} /\ Naming(read, signals[k2][j]) = {} => k1 = k2

\* The place of a signal in its list is its index in the channel: every line
\* with a signal, in which or before which a kind is named, has exactly one
\* place, the places of a kind follow the order of the lines, and only the line
\* the process died at has none, however kinds and settings are mixed up.
EverySignalHasOnePlace ==
    /\ \A k \in DOMAIN signals : \A i, j \in DOMAIN signals[k] :
          i < j => signals[k][i] < signals[k][j]
    /\ \A p \in DOMAIN read :
          Mentions(read[p], "Signal") /\ Naming(read, p) # {}
              /\ (state = "crashed" => p < Len(read))
          => Cardinality({k \in DOMAIN signals :
                            \E i \in DOMAIN signals[k] : signals[k][i] = p}) = 1

\* Reading past the fields of a line needs a line with too few of them, or one
\* that mentions the host, whose commas readIniSection turned into dots: a
\* well-formed signal never takes the process down.
CrashNeedsShortLine ==
    state = "crashed" =>
        LET l == read[Len(read)]
        IN  /\ Mentions(l, "Signal")
            /\ Fields(l) < 4 \/ Mentions(l, Host)
=============================================================================

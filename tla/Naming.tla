------------------------------- MODULE Naming -------------------------------
(***************************************************************************)
(* How a metric is named in graphite, and what is read back from the name: *)
(* defaultPath, Escape and EscapeTagged on the way out, MetricLabelsFromTags, *)
(* MetricLabelsFromPath and Unescape on the way back.                      *)
(*                                                                         *)
(* A text is a sequence of bytes, since what matters here is what becomes  *)
(* of single bytes.  A metric is [name, labels], with labels a function    *)
(* from label names to values.                                             *)
(***************************************************************************)
EXTENDS Naturals, Sequences, SequencesExt

CONSTANTS
    Prefix,       \* graphite.default-prefix
    LabelNames    \* the label names in alphabetical order

Quote     == 34
Percent   == 37
Comma     == 44
Dot       == 46
Semicolon == 59
Equals    == 61
Backslash == 92
Underline == 95

Bytes     == 0..255
NameTag   == <<110, 97, 109, 101>>    \* "name"

(* The bytes of a label's name, and of a metric's.  Prometheus has no others. *)
NameBytes   == 48..57 \cup 65..90 \cup 97..122 \cup {Underline}
MetricBytes == NameBytes \cup {58}

ASSUME NamesAssumption ==
    /\ Prefix \in Seq(Bytes)
    /\ LabelNames \in Seq(Seq(NameBytes))
    /\ \A i \in DOMAIN LabelNames : LabelNames[i] # <<>>

(* What follows a semicolon graphite reads as tags. *)
ASSUME PrefixAssumption == \A i \in DOMAIN Prefix : Prefix[i] # Semicolon

Symbols    == {Quote, 39, 40, 41, Comma, Dot, Equals, Backslash, 123, 125}
Printables == 33..126

(* fmt.Fprintf(result, "%%%X", b): no leading zero. *)
HexDigit(d) == IF d < 10 THEN 48 + d ELSE 55 + d
Encoded(b)  ==
    IF b < 16 THEN <<Percent, HexDigit(b)>>
    ELSE <<Percent, HexDigit(b \div 16), HexDigit(b % 16)>>

(* Mutant: % is taken for one of the bytes that graphite accepts. *)
EscapeByte_Percent(b) ==
    CASE b \in {Dot, 47, Equals} -> Encoded(b)
      [] b \in Symbols \ {Dot, Equals} -> <<Backslash, b>>
      [] b \in Printables \ (Symbols \cup {47}) -> <<b>>
      [] OTHER -> Encoded(b)

EscapeByte(b) ==
    CASE b \in {Dot, Percent, 47, Equals} -> Encoded(b)
      [] b \in Symbols \ {Dot, Equals} -> <<Backslash, b>>
      [] b \in Printables \ (Symbols \cup {Percent, 47}) -> <<b>>
      [] OTHER -> Encoded(b)

Escape(tv) == FlattenSeq([i \in DOMAIN tv |-> EscapeByte(tv[i])])

Underlined == {Semicolon, 126, 32, Equals}

EscapeTaggedByte(b) ==
    CASE b \in Underlined -> <<Underline>>
      [] b \in Printables \ Underlined -> <<b>>
      [] OTHER -> Encoded(b)

EscapeTagged(tv) == FlattenSeq([i \in DOMAIN tv |-> EscapeTaggedByte(tv[i])])

-----------------------------------------------------------------------------
IsHex(b)  == b \in 48..57 \cup 65..70 \cup 97..102
Nibble(b) == IF b < 58 THEN b - 48 ELSE IF b < 71 THEN b - 55 ELSE b - 87

(* url.PathUnescape: a % without two digits makes the whole text an error.  *)
Malformed(s) ==
    \E i \in DOMAIN s : s[i] = Percent
        /\ ~(i + 2 <= Len(s) /\ IsHex(s[i + 1]) /\ IsHex(s[i + 2]))

PathUnescape(s) ==
    IF Malformed(s) THEN <<>>
    ELSE FlattenSeq([i \in DOMAIN s |->
            IF s[i] = Percent THEN <<16 * Nibble(s[i + 1]) + Nibble(s[i + 2])>>
            ELSE IF \E j \in DOMAIN s : j \in {i - 1, i - 2} /\ s[j] = Percent THEN <<>>
            ELSE <<s[i]>>])

(* Mutant: every backslash is dropped. *)
Unescape_Every(tv) == SelectSeq(PathUnescape(tv), LAMBDA b : b # Backslash)

(* A backslash before a symbol goes, even when it is a symbol itself that    *)
(* follows a backslash.                                                     *)
Unescape(tv) ==
    LET new == PathUnescape(tv)
    IN  FlattenSeq([i \in DOMAIN new |->
            IF new[i] = Backslash /\ i < Len(new) /\ new[i + 1] \in Symbols
            THEN <<>> ELSE <<new[i]>>])

-----------------------------------------------------------------------------
(* The names of the labels of m in alphabetical order. *)
Keys(m) ==
    FlattenSeq([i \in DOMAIN LabelNames |->
        IF LabelNames[i] \in DOMAIN m.labels THEN <<LabelNames[i]>> ELSE <<>>])

LabelText(k, v, format, first) ==
    LET quoted == k \o <<Equals, Quote>> \o Escape(v) \o <<Quote>>
    IN  CASE format = "openmetrics" -> IF first THEN quoted ELSE <<Comma>> \o quoted
          [] format = "tags" -> <<Semicolon>> \o k \o <<Equals>> \o EscapeTagged(v)
          [] OTHER -> <<Dot>> \o k \o <<Dot>> \o Escape(v)

DefaultPath(m, format) ==
    LET keys   == Keys(m)
        labels == FlattenSeq([i \in DOMAIN keys |->
                      LabelText(keys[i], m.labels[keys[i]], format, i = 1)])
    IN  Prefix \o Escape(m.name)
          \o IF format = "openmetrics" /\ keys # <<>> THEN <<123>> \o labels \o <<125>>
             ELSE labels

-----------------------------------------------------------------------------
(* The parts of a text between the separators. *)
Split(text, separator) ==
    LET parts[i \in 0..Len(text)] ==
          IF i = 0 THEN << <<>> >>
          ELSE LET before == parts[i - 1]
               IN  IF text[i] = separator THEN Append(before, <<>>)
                   ELSE [before EXCEPT ![Len(before)] = Append(@, text[i])]
    IN  parts[Len(text)]

TrimPrefix(text) ==
    IF IsPrefix(Prefix, text) THEN SubSeq(text, Len(Prefix) + 1, Len(text)) ELSE text

(* strings.Trim(cleanedPath, ".") *)
TrimDots(text) ==
    LET rest == {i \in DOMAIN text : text[i] # Dot}
        first == CHOOSE i \in rest : \A j \in rest : i <= j
        last  == CHOOSE i \in rest : \A j \in rest : i >= j
    IN  IF rest = {} THEN <<>> ELSE SubSeq(text, first, last)

(* An odd number of nodes after the name is an error. *)
Unreadable == [name |-> <<>>, labels |-> <<>>]

MetricLabelsFromPath(path) ==
    LET nodes == Split(TrimDots(TrimPrefix(path)), Dot)
        pairs == {i \in 2..Len(nodes) : i % 2 = 0}
        key(i) == Unescape(nodes[i])
    IN  IF Len(nodes) % 2 = 0 THEN Unreadable
        ELSE [name   |-> nodes[1],
              labels |-> [k \in {key(i) : i \in pairs} |->
                            Unescape(nodes[(CHOOSE i \in pairs : key(i) = k) + 1])]]

(* The tags that graphite keeps of a path, name;key=value;key=value...  The  *)
(* name is the tag of that name, also when a label is called so.            *)
Tags(path) ==
    LET parts == Split(path, Semicolon)
        equals(i) == CHOOSE e \in DOMAIN parts[i] :
                        /\ parts[i][e] = Equals
                        /\ \A d \in 1..(e - 1) : parts[i][d] # Equals
        key(i) == SubSeq(parts[i], 1, equals(i) - 1)
    IN  [k \in {key(i) : i \in 2..Len(parts)} \cup {NameTag} |->
            IF k = NameTag THEN parts[1]
            ELSE LET i == CHOOSE i \in 2..Len(parts) : key(i) = k
                 IN  SubSeq(parts[i], equals(i) + 1, Len(parts[i]))]

MetricLabelsFromTags(tags) ==
    [name   |-> TrimPrefix(tags[NameTag]),
     labels |-> [k \in DOMAIN tags \ {NameTag} |-> tags[k]]]

=============================================================================

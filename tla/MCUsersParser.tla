--------------------------- MODULE MCUsersParser ---------------------------
(***************************************************************************)
(* The parser of users.yml over every short text and every short document: *)
(* a text grows by a character, a document by a line, and whatever it is   *)
(* then is read.                                                           *)
(***************************************************************************)
EXTENDS Integers, Sequences

CONSTANTS
  Chars,      \* the characters that the scans tell apart
  Keys,       \* keys of a document
  Indents,    \* its indentations
  MaxChars,   \* bounds of the exploration
  MaxLines

(* The mark of a refused text is no character.                             *)
ASSUME CharsAssumption == "refused" \notin Chars

(* An indentation is a number of spaces.                                   *)
ASSUME IndentsAssumption == Indents \subseteq Nat

VARIABLES text, lines

(* One of each that a scan tells apart.                                    *)
ScanChars == {"a", "-", " ", "'", "\"", "\\", ",", "[", "]", "{", "#", ":", "&"}

S == INSTANCE UsersScalars
B == INSTANCE UsersBlocks

Init == text = << >> /\ lines = << >>

Write ==
  /\ lines = << >> /\ Len(text) < MaxChars
  /\ \E c \in Chars : text' = Append(text, c)
  /\ UNCHANGED lines

AddLine ==
  /\ text = << >> /\ Len(lines) < MaxLines
  /\ \E indent \in Indents, says \in BOOLEAN :
       \/ \E key \in Keys : lines' = Append(lines, B!Line(indent, FALSE, key, says))
       \/ lines' = Append(lines, B!Line(indent, TRUE, "none", says))
  /\ UNCHANGED text

Spec == Init /\ [][Write \/ AddLine]_<<text, lines>>

-----------------------------------------------------------------------------
Comment == <<" ", "#", "'">>

(* A quote is closed where YAML closes it: doubled single quotes and       *)
(* escaped double ones are passed over, in every combination (_quote_end). *)
QuotesClose ==
  \A quote \in S!Quotes :
    S!QuoteEnd(<<quote>> \o text, 1) = S!Closing(<<quote>> \o text, 1)

(* Whatever a string holds, quotes, commas, brackets, colons or comment    *)
(* signs: put between quotes as a value, an item, an item of a one-line    *)
(* sequence or a key, it is read as that string, with or without a comment *)
(* after it (_strip_comment, _flow_end, _scalar, _split_key, _lines).      *)
QuotedIsRead ==
  \A quote \in S!Quotes :
    LET written == S!Quoted(text, quote)
        string  == <<"text", text>>
    IN /\ \A comment \in {<< >>, Comment} :
            /\ S!Value(written \o comment) = string
            /\ S!Line(<<"-", " ">> \o written \o comment) = <<"item", written>>
            /\ S!Value(S!Bracketed(written \o <<",">> \o written) \o comment) = <<"list", <<string, string>> >>
       /\ S!Line(written \o <<":", " ">> \o written) = <<"entry", string, written>>

(* A one-line sequence is read item by item: one whose items are quoted or *)
(* plain scalars of YAML is read as these items, each as it is read alone. *)
(* One without quotes that holds another collection, misses an item or has *)
(* one that begins with what is not supported is refused (_flow_end,       *)
(* _scalar). Nothing is said of items that YAML takes for pairs, comments  *)
(* or mistakes: the code reads [a #b] and [a: b] as lists of one text.     *)
SequencesSeparate ==
  LET read  == S!Value(S!Bracketed(text))
      inner == S!Strip(text)
  IN /\ \A cuts \in S!Separations(inner) :
          LET items == S!Between(inner, cuts)
              each  == [k \in DOMAIN items |-> S!Single(items[k])]
          IN read = IF \E k \in DOMAIN items : each[k] = S!Refused THEN S!Refused ELSE <<"list", each>>
     /\ /\ inner # << >> /\ S!IsNoSequence(inner)
        /\ \A i \in DOMAIN inner : inner[i] \notin S!Quotes \cup {"]"}
        => read = S!Refused

(* A document is read as the tree its indentation draws, and refused       *)
(* exactly if it draws none (_block, parse_yaml).                          *)
ReadAsMeant == B!Parsed(lines) = B!Meant(lines)

(* The header of users_file.py: "Anything outside it ... is refused rather *)
(* than guessed at". A one-line sequence of plain items, cut at each of    *)
(* its commas, is read as these items or refused: an apostrophe within an  *)
(* item begins no quote in YAML (_flow_end, _scalar).                      *)
NothingGuessed ==
  LET items == S!Between(text, {i \in DOMAIN text : text[i] = ","})
  IN (\A k \in DOMAIN items : S!IsPlain(items[k])) =>
       S!Value(S!Bracketed(text)) \in
         {S!Refused, <<"list", [k \in DOMAIN items |-> <<"text", items[k]>>]>>}

=============================================================================

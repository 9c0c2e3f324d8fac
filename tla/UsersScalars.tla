---------------------------- MODULE UsersScalars ----------------------------
(***************************************************************************)
(* How the parser of users.yml reads what a line says                      *)
(* (src/audit/users_file.py: _split_key, _strip_comment, _scalar and the   *)
(* scans under them), over the characters these tell apart. Not told apart *)
(* here: tabs and blanks, the letters of a word, the words true, false and *)
(* null, the characters that hexadecimal escapes stand for. The empty      *)
(* mapping, {}, is left out: a text that begins with a brace is refused.   *)
(*                                                                         *)
(* A text is a sequence of characters. What is read is a pair of a kind    *)
(* and a value. A text outside the subset is Refused (UsersFileError).     *)
(***************************************************************************)
EXTENDS Integers, SequencesExt

Quotes == {"'", "\""}

Unsupported == {"&", "{"}     \* "&" for the nine of _UNSUPPORTED_START

Opening == {"[", "{"}     \* what begins a collection

Escapes == {"\"", "\\", " ", "a"}

Decoded(code) == IF code = "a" THEN "bell" ELSE code

Refused == <<"refused">>

After(text, i) == SubSeq(text, i + 1, Len(text))

(* The body of a text between its first and its last character.            *)
Body(text) == SubSeq(text, 2, Len(text) - 1)

(* str.strip                                                               *)
Strip(text) ==
  LET said == {i \in DOMAIN text : text[i] # " "}
  IN IF said = {} THEN << >> ELSE SubSeq(text, Min(said), Max(said))

-----------------------------------------------------------------------------
(* The scans. Each is a function on the positions of the text.             *)

(* A defect: two single quotes are an end and a beginning.                 *)
QuoteEnd_NoPairs(text, first) ==
  LET end[i \in 1 .. Len(text) + 2] ==
        CASE i > Len(text) -> 0
          [] i <= Len(text) /\ text[first] = "\"" /\ text[i] = "\\" -> end[i + 2]
          [] i <= Len(text) /\ text[i] = text[first] -> i
          [] OTHER -> end[i + 1]
  IN end[first + 1]

(* Where the quote at first is closed; 0 if it is not.                     *)
QuoteEnd(text, first) ==
  LET Escape(i) == text[first] = "\"" /\ text[i] = "\\"
      Pair(i)   == text[first] = "'" /\ text[i] = "'" /\ i < Len(text) /\ text[i + 1] = "'"
      end[i \in 1 .. Len(text) + 2] ==
        IF i > Len(text) THEN 0
        ELSE IF Escape(i) \/ Pair(i) THEN end[i + 2]
        ELSE IF text[i] = text[first] THEN i
        ELSE end[i + 1]
  IN end[first + 1]

(* A defect: a bracket within quotes closes the sequence.                  *)
FlowEnd_InQuotes(text) ==
  LET ends == {i \in 2 .. Len(text) : text[i] = "]"}
  IN IF ends = {} THEN 0 ELSE Min(ends)

(* The bracket that closes the one the text starts with; 0 if there is     *)
(* none, a quote is left open, or another collection begins.               *)
FlowEnd(text) ==
  LET end[i \in 1 .. Len(text) + 1] ==
        IF i > Len(text) \/ text[i] \in Opening THEN 0
        ELSE IF text[i] = "]" THEN i
        ELSE IF text[i] \notin Quotes THEN end[i + 1]
        ELSE LET close == QuoteEnd(text, i) IN IF close = 0 THEN 0 ELSE end[close + 1]
  IN end[2]

(* A defect: a comma within quotes separates.                              *)
Commas_InQuotes(inner) == {i \in DOMAIN inner : inner[i] = ","}

(* The commas that separate the items of a sequence; FlowEnd has passed    *)
(* its quotes before.                                                      *)
Commas(inner) ==
  LET from[i \in 1 .. Len(inner) + 1] ==
        IF i > Len(inner) THEN {}
        ELSE IF inner[i] \in Quotes
          THEN LET close == QuoteEnd(inner, i) IN IF close = 0 THEN {} ELSE from[close + 1]
        ELSE IF inner[i] = "," THEN {i} \cup from[i + 1]
        ELSE from[i + 1]
  IN from[1]

(* The signs that begin a comment after a plain value.                     *)
Signs(text) == {i \in 1 .. Len(text) - 1 : text[i] = " " /\ text[i + 1] = "#"}

Plain(text) ==
  IF Signs(text) = {} THEN text ELSE Strip(SubSeq(text, 1, Min(Signs(text)) - 1))

(* The value without its comment and the blanks around it.                 *)
StripComment(value) ==
  LET text == Strip(value)
      Closed(end) ==
        LET rest == Strip(After(text, end))
        IN IF end = 0 \/ (rest # << >> /\ rest[1] # "#") THEN Refused ELSE SubSeq(text, 1, end)
  IN IF text = << >> \/ text[1] = "#" THEN << >>
     ELSE IF text[1] \in Quotes THEN Closed(QuoteEnd(text, 1))
     ELSE IF text[1] = "[" THEN Closed(FlowEnd(text))
     ELSE Plain(text)

(* The inside of a single-quoted scalar.                                   *)
UnquoteSingle(body) ==
  LET out[i \in 1 .. Len(body) + 2] ==
        IF i > Len(body) THEN << >>
        ELSE IF body[i] = "'" /\ i < Len(body) /\ body[i + 1] = "'" THEN <<"'">> \o out[i + 2]
        ELSE <<body[i]>> \o out[i + 1]
  IN out[1]

(* The inside of a double-quoted one.                                      *)
UnquoteDouble(body) ==
  LET n == Len(body)
      Malformed(i) == body[i] = "\\" /\ (i = n \/ body[i + 1] \notin Escapes)
      out[i \in 1 .. n + 2] ==
        IF i > n THEN << >>
        ELSE IF Malformed(i) THEN Refused
        ELSE LET escape == body[i] = "\\"
                 rest   == out[IF escape THEN i + 2 ELSE i + 1]
             IN IF rest = Refused THEN Refused
                ELSE <<IF escape THEN Decoded(body[i + 1]) ELSE body[i]>> \o rest
  IN out[1]

(* One scalar that is no sequence.                                         *)
Single(text) ==
  LET decoded == UnquoteDouble(Body(text))
  IN IF text = << >> THEN <<"null">>
     ELSE IF text[1] = "\"" THEN IF decoded = Refused THEN Refused ELSE <<"text", decoded>>
     ELSE IF text[1] = "'" THEN <<"text", UnquoteSingle(Body(text))>>
     ELSE IF text[1] \in Unsupported THEN Refused
     ELSE <<"text", text>>

(* The piece of a text from one of its cuts, or its start, to the next, or *)
(* its end; and all of them.                                               *)
NextCut(text, cuts, i) == Min({k \in cuts \cup {Len(text) + 1} : k > i})

Piece(text, cuts, i) == Strip(SubSeq(text, i + 1, NextCut(text, cuts, i) - 1))

Between(text, cuts) ==
  LET from[i \in 0 .. Len(text) + 1] ==
        IF i > Len(text) THEN << >> ELSE <<Piece(text, cuts, i)>> \o from[NextCut(text, cuts, i)]
  IN from[0]

Scalar(text) ==
  LET inner == Strip(Body(text))
      items == Between(inner, Commas(inner))
      read  == [k \in DOMAIN items |-> Single(items[k])]
  IN IF text = << >> \/ text[1] # "[" THEN Single(text)
     ELSE IF inner = << >> THEN <<"list", << >> >>
     ELSE IF \E k \in DOMAIN items : items[k] = << >> \/ read[k] = Refused THEN Refused
     ELSE <<"list", read>>

(* What _lines and _block make of the text after a key.                    *)
Value(text) ==
  LET value == StripComment(text) IN IF value = Refused THEN Refused ELSE Scalar(value)

(* The key of a line and the text after it.                                *)
SplitKey(content) ==
  LET n == Len(content)
      Colon(i) == i <= n /\ content[i] = ":" /\ (i = n \/ content[i + 1] = " ")
      end == QuoteEnd(content, 1)
      colons == {i \in 1 .. n : Colon(i)}
      plain == Strip(SubSeq(content, 1, Min(colons) - 1))
      Entry(key, i) == IF key = Refused THEN Refused ELSE <<"entry", key, After(content, i)>>
  IN IF content # << >> /\ content[1] \in Quotes
     THEN IF end = 0 \/ ~Colon(end + 1) THEN Refused
          ELSE Entry(Single(SubSeq(content, 1, end)), end + 1)
     ELSE IF colons = {} THEN Refused
     ELSE IF plain = << >> \/ plain[1] \in Unsupported \cup Opening \cup {"#", "-"} THEN Refused
     ELSE Entry(<<"text", plain>>, Min(colons))

(* One line without its indentation (_lines).                              *)
Line(content) ==
  LET IsItem == content[1] = "-" /\ (Len(content) = 1 \/ content[2] = " ")
      value  == StripComment(After(content, 1))
      IsMapping == /\ value # << >> /\ value[1] \notin Quotes \cup {"["}
                   /\ \E i \in DOMAIN value : value[i] = ":" /\ (i = Len(value) \/ value[i + 1] = " ")
      entry  == SplitKey(content)
      said   == StripComment(entry[3])
  IN IF IsItem THEN IF value = Refused \/ IsMapping THEN Refused ELSE <<"item", value>>
     ELSE IF entry = Refused \/ said = Refused THEN Refused
     ELSE <<"entry", entry[2], said>>

-----------------------------------------------------------------------------
(* What the scans are measured by: how YAML closes, writes and separates.  *)

(* The last position before i, from first on, that is not a character c.   *)
LastNot(text, first, i, c) == Max({k \in first .. i - 1 : k = first \/ text[k] # c})

(* A single quote closes if it ends the run it is in and the run is odd;   *)
(* a double one if an even run of backslashes precedes it.                 *)
Closes(text, first, i) ==
  /\ text[i] = text[first]
  /\ IF text[first] = "'"
       THEN (i = Len(text) \/ text[i + 1] # "'") /\ (i - LastNot(text, first, i, "'")) % 2 = 1
       ELSE (i - 1 - LastNot(text, first, i, "\\")) % 2 = 0

Closing(text, first) ==
  LET ends == {i \in first + 1 .. Len(text) : Closes(text, first, i)}
  IN IF ends = {} THEN 0 ELSE Min(ends)

(* A string as a writer of YAML puts it between quotes.                    *)
Quoted(string, quote) ==
  LET Char(c) == IF quote = "'" /\ c = "'" THEN <<"'", "'">>
                 ELSE IF quote = "\"" /\ c \in {"\"", "\\"} THEN <<"\\", c>>
                 ELSE <<c>>
      from[i \in 1 .. Len(string) + 1] ==
        IF i > Len(string) THEN <<quote>> ELSE Char(string[i]) \o from[i + 1]
  IN <<quote>> \o from[1]

(* An item that is a quoted scalar of YAML.                                *)
IsQuotedItem(item) == item # << >> /\ item[1] \in Quotes /\ Closing(item, 1) = Len(item)

(* An item that is a plain scalar of YAML: it begins with no indicator,    *)
(* and has no sign of a collection, no colon that would make it a pair,    *)
(* and no sign that would begin a comment.                                 *)
IsPlain(item) ==
  /\ item # << >> /\ item[1] \notin Quotes \cup Unsupported \cup {":"}
  /\ item[1] = "-" => Len(item) > 1 /\ item[2] # " "
  /\ \A i \in DOMAIN item :
       /\ item[i] \notin {",", "[", "]", "{", "}"}
       /\ item[i] = ":" => i < Len(item) /\ item[i + 1] # " "
       /\ item[i] = "#" => i > 1 /\ item[i - 1] # " "

(* One without quotes in it.                                               *)
IsPlainItem(item) == IsPlain(item) /\ \A i \in DOMAIN item : item[i] \notin Quotes

(* The ways to cut what is between the brackets into items; the body of an *)
(* empty sequence has none.                                                *)
Separations(inner) ==
  {cuts \in SUBSET {i \in DOMAIN inner : inner[i] = ","} :
     \A i \in cuts \cup {0} :
       LET item == Piece(inner, cuts, i) IN IsQuotedItem(item) \/ IsPlainItem(item)}

(* What no sequence of scalars is made of, where there are no quotes:      *)
(* another collection, an item that is missing, or one that begins with    *)
(* what is not supported.                                                  *)
IsNoSequence(inner) ==
  LET cuts == {i \in DOMAIN inner : inner[i] = ","}
  IN \/ \E i \in DOMAIN inner : inner[i] \in Opening
     \/ \E i \in cuts \cup {0} :
          LET item == Piece(inner, cuts, i) IN item = << >> \/ item[1] \in Unsupported

Bracketed(inner) == <<"[">> \o inner \o <<"]">>

=============================================================================

---------------------------- MODULE UsersBlocks ----------------------------
(***************************************************************************)
(* How the parser of users.yml puts lines together                         *)
(* (src/audit/users_file.py: _block, parse_yaml). A line has an            *)
(* indentation; it is an item or the entry of a key; it says something or  *)
(* leaves it to the lines below. What it says is UsersScalars' part: here  *)
(* a scalar is the line it stands in.                                      *)
(*                                                                         *)
(* What is read is a tree: "null", a "scalar", a "list" or a "map" with    *)
(* what it holds, or "refused" (UsersFileError).                           *)
(***************************************************************************)
EXTENDS Integers, SequencesExt

Line(indent, item, key, says) == [indent |-> indent, item |-> item, key |-> key, says |-> says]

Null == <<"null">>
Refused == <<"refused">>

(* The rest of a block, from its line i on: a tree and the first line      *)
(* after it. The block goes on with a line of the same kind at the same    *)
(* indentation; a deeper one that nothing asked for is refused.            *)

(* The block that line i is in may end before the line next.               *)
Ends(lines, i, next) == next > Len(lines) \/ lines[next].indent <= lines[i].indent

GoesOn(lines, i, next) ==
  next <= Len(lines) /\ lines[next].indent = lines[i].indent /\ lines[next].item = lines[i].item

(* A defect: a sequence must be deeper than its key.                       *)
HasChild_Deeper(lines, i) ==
  i < Len(lines) /\ lines[i + 1].indent > lines[i].indent

(* Whether the lines below an entry that says nothing are its value.       *)
HasChild(lines, i) ==
  /\ i < Len(lines)
  /\ \/ lines[i + 1].indent > lines[i].indent
     \/ lines[i + 1].indent = lines[i].indent /\ lines[i + 1].item

Block(lines) ==
  LET rest[i \in 1 .. Len(lines)] ==
        LET line  == lines[i]
            child == ~line.says /\ ~line.item /\ HasChild(lines, i)
            below == IF child THEN rest[i + 1] ELSE Refused
            value == IF line.says THEN <<"scalar", i>> ELSE IF child THEN below[1] ELSE Null
            next  == IF child THEN below[2] ELSE i + 1
            more  == rest[next]
            Joined(tree) ==
              IF line.item THEN <<"list", <<value>> \o tree[2]>>
              ELSE IF line.key \in DOMAIN tree[2] THEN Refused
              ELSE <<"map", [key \in {line.key} \cup DOMAIN tree[2] |->
                               IF key = line.key THEN value ELSE tree[2][key]]>>
            empty == IF line.item THEN <<"list", << >> >> ELSE <<"map", << >> >>
        IN IF (line.item /\ ~line.says) \/ (child /\ below = Refused) THEN Refused
           ELSE IF ~GoesOn(lines, i, next)
             THEN IF Ends(lines, i, next) THEN <<Joined(empty), next>> ELSE Refused
           ELSE IF more = Refused \/ Joined(more[1]) = Refused THEN Refused
           ELSE <<Joined(more[1]), more[2]>>
  IN rest[1]

(* parse_yaml.                                                             *)
Parsed(lines) ==
  IF lines = << >> THEN Null
  ELSE LET block == Block(lines)
       IN IF block = Refused \/ block[2] # Len(lines) + 1 THEN Refused ELSE block[1]

-----------------------------------------------------------------------------
(* What the parser is measured by: a document as the tree of its lines.    *)

(* The line that line i belongs to: the nearest above with a smaller       *)
(* indentation, or for an item the entry at its own; 0 for none.           *)
Owner(lines, i) ==
  Max({0} \cup {j \in 1 .. i - 1 :
                  \/ lines[j].indent < lines[i].indent
                  \/ lines[i].item /\ ~lines[j].item /\ lines[j].indent = lines[i].indent})

Owned(lines, j) == {i \in DOMAIN lines : Owner(lines, i) = j}

(* Lines belong to entries that say nothing themselves; those that belong  *)
(* together are aligned, of one kind, and have keys of their own; an item  *)
(* says something.                                                         *)
IsDocument(lines) ==
  /\ \A i \in DOMAIN lines :
       LET owner == Owner(lines, i)
       IN /\ owner # 0 => ~lines[owner].item /\ ~lines[owner].says
          /\ lines[i].item => lines[i].says
  /\ \A i, j \in DOMAIN lines :
       i < j /\ Owner(lines, i) = Owner(lines, j) =>
         /\ lines[i].indent = lines[j].indent /\ lines[i].item = lines[j].item
         /\ lines[i].item \/ lines[i].key # lines[j].key

(* The k-th of some lines.                                                 *)
Nth(owned, k) == Min({i \in owned : Cardinality({j \in owned : j <= i}) = k})

(* What lines that belong together mean, by what each means.               *)
Together(lines, owned, mean) ==
  IF owned = {} THEN Null
  ELSE IF lines[Min(owned)].item
    THEN <<"list", [k \in 1 .. Cardinality(owned) |-> mean[Nth(owned, k)]]>>
  ELSE <<"map", [key \in {lines[i].key : i \in owned} |->
                   mean[CHOOSE i \in owned : lines[i].key = key]]>>

Meant(lines) ==
  LET mean[i \in 0 .. Len(lines)] ==    \* 0 for the document
        IF i # 0 /\ lines[i].says THEN <<"scalar", i>>
        ELSE Together(lines, Owned(lines, i), mean)
  IN IF IsDocument(lines) THEN mean[0] ELSE Refused

=============================================================================

\* Every text of up to four of the thirteen characters, every document of up to
\* four lines with three indentations and two keys. A text, or a document, at
\* its bound grows no further.
SPECIFICATION Spec
CONSTANTS
  Chars <- ScanChars
  Keys = {"users", "groups"}
  Indents = {0, 2, 4}
  MaxChars = 4
  MaxLines = 4
CHECK_DEADLOCK FALSE
INVARIANTS
  QuotesClose
  QuotedIsRead
  SequencesSeparate
  ReadAsMeant

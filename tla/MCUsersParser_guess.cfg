\* Texts of a letter, an apostrophe and a comma.
SPECIFICATION Spec
CONSTANTS
  Chars = {"a", "'", ","}
  Keys = {"users"}
  Indents = {0}
  MaxChars = 5
  MaxLines = 0
CHECK_DEADLOCK FALSE
INVARIANT NothingGuessed

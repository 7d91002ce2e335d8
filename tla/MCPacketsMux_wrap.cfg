SPECIFICATION TurnSpec
CONSTANTS
  Senders = {s1, s2}
  long = long
  short = short
  medium = medium
  Messages = {long, short, medium}
  Pieces <- Sizes
  IdCount = 2
INVARIANTS
  TypeOK
  Intact
  QuietMeansSent
  NoHeadOfLine
PROPERTIES
  NeverReplaced
CHECK_DEADLOCK FALSE

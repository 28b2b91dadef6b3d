SPECIFICATION Spec
CONSTANTS
  HexWords = {"ff8000", "ff800080"}
  Files <- MCFiles
  Keys <- MCKeys
  Wirings <- MCWirings
  Library <- MCLibrary
  MaxEdits = 1
INVARIANTS
  SavingKeepsTheProgram
  SavingSettles
  CommentsSurvive
  NothingSkipped
  ReadingAdvances
  AcceptedNamesAreHeld
CHECK_DEADLOCK FALSE

CONSTANTS
  Group = 128
  MaxGroups = 4
  Word = 16777216
  PushTag = 52807
  Absent = Absent
  WrappedNames = FALSE
  Debug = FALSE
  Numbers <- MCNumbers
  Texts <- MCTexts
SPECIFICATION Spec
INVARIANTS RequestUnderstood AnswerUnderstood

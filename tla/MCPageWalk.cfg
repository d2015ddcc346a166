\* The operating system changes the tables under a walk.
CONSTANTS
  Entries = 2
  PageSize = 2
  Table <- MCTable
  Root = 2
  Entry <- MCEntry
  Va = {21}
  Start <- MCStart
  Walker = {w1}
  MaxWrites = 3
SPECIFICATION Spec
INVARIANTS
  TypeOK
  AnswerWasRight
  StaysInTables

\* Owners of both families share and reuse memory; byte counts fit in a word.
CONSTANTS
  Owner = {o1, o2}
  Value <- MCValue
  Zero = Zero
  Hole = Hole
  Addr <- MCAddr
  Base <- MCBase
  Size = 2
  Word = 8
  Count = {0, 2}
  Type <- AllTypes
  Caching = {"cached", "uncached"}
SYMMETRY Symmetry
SPECIFICATION Spec
INVARIANTS
  TypeOK
  BlocksAccounted
PROPERTY ImplementsBox
CHECK_DEADLOCK FALSE

SPECIFICATION Spec
CONSTANTS
  Characters = {"a", "2", "-", "/"}
  Specials = {"-", "/"}
  Generations = {1, 2, 12}
  MaxLength = 9
  MaxRevision = 3
INVARIANTS
  NamesAreValid
  RecognisesItsOwn
  GenerationsDiffer
  SameNameSameWords
CHECK_DEADLOCK FALSE

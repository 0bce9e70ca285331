CONSTANTS
  Patterns <- MCPatterns
  Texts <- MCTexts
  Subjects <- MCSubjects
  Methods = {"match", "range", "tokenize", "split", "multi_match"}
  Multiline = {FALSE}
  MaxMatches = 5
SPECIFICATION Spec
INVARIANTS CapturesNumbered EngineAgrees SplitTiles SubjectsFiltered PatternAsWritten TextAsWritten
PROPERTIES ReadingEnds IterationAdvances
CHECK_DEADLOCK FALSE

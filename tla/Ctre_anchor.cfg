CONSTANTS
  Patterns <- Skipping
  Texts <- Plains
  Subjects <- MCSubjects
  Methods = {"range"}
  Multiline = {FALSE}
  MaxMatches = 5
SPECIFICATION Spec
INVARIANT AnchorInEveryOption
CHECK_DEADLOCK FALSE

SPECIFICATION Spec
CONSTANT MaxChanges = 3
INVARIANTS FilesRight AnswersRight StreamsRight
PROPERTY NobodyWaitsForEver
CHECK_DEADLOCK FALSE

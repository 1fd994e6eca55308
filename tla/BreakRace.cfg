SPECIFICATION Spec
CONSTANTS
  Calls = 3
  MaxRounds = 2
  MaxBreaks = 2
  NoAnswer = NoAnswer
INVARIANTS
  AnswersItsOwnCall
  QuietBetweenCalls
PROPERTIES
  CallsAnswered

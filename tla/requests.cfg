SPECIFICATION FairSpec
CONSTANTS
  Calls = {c1, c2}
  RequestTimeouts <- MCRequestTimeouts
INVARIANTS
  TypeOK
  AnswersAreTrue
  
  LimitedCanGiveUp
PROPERTIES
  CallsReturn

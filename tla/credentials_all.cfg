SPECIFICATION Spec
CONSTANTS
  i1 = i1  i2 = i2  a = a  b = b
  None = None
  Instance = {i1, i2}
  Word = {a, b}
  Config <- MCConfig
  Initial <- MCInitial
  Questions <- MCQuestions
CONSTRAINT Apart
INVARIANTS TypeOK TokensStayGood WholeKeySetsVerifyAll ChallengeCarriesRequest

SPECIFICATION Spec
CONSTANTS
  Jobs <- CheckedJobs
  NScorers = 2
  Rounds = 2
  DivisibleBy = 2
INVARIANTS AlignmentsOwn DelaysOwn RewardsOwn TermsOwn

SPECIFICATION Spec
CONSTANTS
  Characters = {"a", "b", "_", "*"}
  Answers <- SaneAnswers
  Names <- ShortNames
  Separator = "b"
  Namespaces <- TwoSpaces
  Blocks <- SomeBlocks
  Targets <- Published
  MaxViolations = 3
  ViolationWindow = 4
  MinExpiry = 20
  MaxExpiry = 60
  Second = 10
  Width = 8
  MaxLog = 7
CHECK_DEADLOCK FALSE
INVARIANTS GrantsAreExact CompliantServed BurstBounded AbuseJudged

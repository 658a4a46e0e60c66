SPECIFICATION Spec
CHECK_DEADLOCK FALSE
CONSTANTS
  NoIdea = NoIdea
  TiesUp = FALSE
  Plans <- MCPlans
  Feed <- MCFeed
  FeeBps = 26
  SlippageBps = 2
  BaseCapital = 2000000
INVARIANTS
  IdeasAreTradeable
  ConservativeUnlessGap
  NoLookahead
  MetricsAgree

CONSTANTS
  Asked = {"any", "w2"}
  TimeBudget = 1
  VersionTimeout = 1
  CaptureBudget = 1
  OutputBudgets = {0, 1}
  ResultSizes = {0, 2}
  MaxPrints = 2
  Faults = {"package", "provider", "requirement", "engine", "poll", "closes", "orphan", "output", "publish"}
SPECIFICATION Spec
INVARIANTS TypeOK PublishedHonest PublishedInTime NoChildLeft
PROPERTY RequestReturns
CHECK_DEADLOCK FALSE

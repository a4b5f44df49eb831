CONSTANTS
  j1 = j1  j2 = j2  j3 = j3  g1 = g1  g2 = g2  Low = Low  High = High
  None = None
  Host = Host
  Jobs = {j1, j2}
  Groups = {g1}
  Classes = {Low, High}
  ClassOf <- FirstLow
  GroupOf <- FirstGrouped
  Prereqs <- SecondAfterGroup
  Parent <- SecondInFirst
  SuccessOnly = {j2}
  Eligible = {j1, j2}
  AllowInline = {j2}
  Cancellable = {j1, j2}
  Outcomes = {"Succeeded", "ApplicationFailed"}
  RunnableLimit <- One
  HandoffLimit <- One
  RecordLimit = 2
  EdgeLimit = 1
  Quantum = 2
  MayClose = TRUE
  MayAbandon = TRUE
SPECIFICATION FairSpec
INVARIANTS NothingLeaks
PROPERTIES ImplementsContract ClosedStaysEmpty AbandonSettles
CHECK_DEADLOCK FALSE

CONSTANTS
  j1 = j1  j2 = j2  j3 = j3  g1 = g1  g2 = g2  Low = Low  High = High
  None = None
  Host = Host
  Jobs = {j1, j2, j3}
  Groups = {g1}
  Classes = {Low}
  ClassOf <- AllLow
  GroupOf <- FirstTwoGrouped
  Prereqs <- ThirdAfterSecondAndGroup
  Parent <- AllRoots
  SuccessOnly = {j3}
  Eligible = {j2}
  AllowInline = {}
  Cancellable = {j2}
  Outcomes = {"Succeeded", "Panicked"}
  RunnableLimit <- One
  HandoffLimit <- One
  RecordLimit = 3
  EdgeLimit = 2
  Quantum = 2
  MayClose = FALSE
  MayAbandon = FALSE
SPECIFICATION FairSpec
INVARIANTS RunsAfterPrerequisites GroupTruth
PROPERTIES ReadyJobSettles SealedGroupsPublish
CHECK_DEADLOCK FALSE

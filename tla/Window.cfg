CONSTANTS
  j1 = j1  j2 = j2  j3 = j3  g1 = g1  g2 = g2  Low = Low  High = High
  None = None
  Host = Host
  Jobs = {j1, j2, j3}
  Groups = {g1, g2}
  Classes = {Low}
  ClassOf <- AllLow
  GroupOf <- SecondGrouped
  Prereqs <- ThirdAfterEmptyGroup
  Parent <- AllRoots
  SuccessOnly = {j3}
  Eligible = {j2}
  AllowInline = {j2}
  Cancellable = {j1}
  Outcomes = {"Succeeded"}
  RunnableLimit <- One
  HandoffLimit <- One
  RecordLimit = 3
  EdgeLimit = 1
  Quantum = 2
  MayClose = FALSE
  MayAbandon = FALSE
SPECIFICATION Spec
INVARIANTS ClassesExact NoStrandedWork
PROPERTIES QueueOrder
CHECK_DEADLOCK FALSE

CONSTANTS
  i1 = i1
  i2 = i2
  i3 = i3
  v1 = v1
  batch = batch
  single = single
  film = film
  gpt = gpt
  grok = grok
  wImg = wImg
  wImg2 = wImg2
  wVid = wVid
  Jobs = {i1, i2, i3}
  Works = {batch, single}
  Accounts = {gpt, grok}
  NoAccount = NoAccount
  NoExec = NoExec
  Members <- MCMembers
  KindOf <- MCKinds
  Forced <- MCForced
  Fallback = {}
  Workers = {wImg, wImg2}
  WorkerKind <- MCWorkerKind
  TabsOf <- MCTwoTabs
  VideoAccounts = {grok}
  Changeable = {gpt}
  PartialDelivery = FALSE
  SubmitBudget <- Budgets
  WholeRunBudget = 1
  MaxTabs = 2
  MaxCrashes = 1
SPECIFICATION MCSpec
INVARIANTS SeatExclusive OneThreadPerExecution
CHECK_DEADLOCK FALSE

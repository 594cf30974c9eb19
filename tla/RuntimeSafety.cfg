CONSTANTS
  i1 = i1
  i2 = i2
  i3 = i3
  v1 = v1
  batch = batch
  single = single
  film = film
  gpt = gpt
  grok = grok
  wImg = wImg
  wImg2 = wImg2
  wVid = wVid
  Jobs = {i1, i2, v1}
  Works = {batch, film}
  Accounts = {gpt, grok}
  NoAccount = NoAccount
  NoExec = NoExec
  Members <- MCMembers
  KindOf <- MCKinds
  Forced <- MCForced
  Fallback = {}
  Workers = {wImg, wVid}
  WorkerKind <- MCWorkerKind
  TabsOf <- MCTabs
  VideoAccounts = {grok}
  Changeable = {}
  PartialDelivery = TRUE
  SubmitBudget <- Budgets
  WholeRunBudget = 1
  MaxTabs = 2
  MaxCrashes = 1
SPECIFICATION MCSpec
INVARIANTS TypeOK LeaseMatchesLedger NoStrandedJob VideoNeverResubmits SubmitBudgetKept ForcedKept
PROPERTY ImplementsContract
CHECK_DEADLOCK FALSE

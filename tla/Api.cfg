SPECIFICATION Spec
CONSTANTS
  NumWallets = 2
  IDR = IDR
  Assets = {IDR}
  t1 = t1  t2 = t2  t3 = t3
  TxIds = {t1, t2, t3}
  Hashes = {}
  NoHash = NoHash
  NoRow = NoRow
  Amounts = {1}
  OneRupiah = 1
  Fee = 1
  MCFunds = 1
  Opening <- MCOpening
  ip1 = ip1
  Clients = {ip1}
  MaxTokens = 2
  Duration = 2
  IdleLimit = 4
  NoEntry = NoEntry
  PerPage = 1
  Queries <- MCQueries
INVARIANTS
  WithinRate
  NobodyStarves
  HistoryIsComplete
CHECK_DEADLOCK FALSE

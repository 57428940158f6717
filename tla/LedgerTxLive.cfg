SPECIFICATION FairSpec
CONSTANTS
  NumWallets = 2
  IDR = IDR
  USDT = USDT
  Assets = {IDR, USDT}
  t1 = t1  t2 = t2
  TxIds = {t1, t2}
  h1 = h1
  Hashes = {h1}
  NoHash = NoHash
  NoRow = NoRow
  Amounts = {3}
  OneRupiah = 2
  Fee = 2
  MCFunds = 6
  Opening <- MCOpening
  p1 = p1  p2 = p2
  Procs = {p1, p2}
  Nobody = Nobody
  Methods = {"Transfer", "TopUp", "WithdrawFiat", "WithdrawCrypto", "Open", "Settle", "Status", "Sent", "Reject", "Deposit", "Swap"}
  MaxBalance = 9
  TakeTurns = TRUE
INVARIANT Journal
PROPERTY EveryTransactionEnds
CHECK_DEADLOCK FALSE

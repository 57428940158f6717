SPECIFICATION Spec
CONSTANTS
  Callers = {c1, c2}
  c1 = c1  c2 = c2
  Swappers = {c1}
  USDT = USDT
  USDC = USDC
  TTL = 2
  Timeout = 1
  Prices = {3}
  Pegs = {1}
  Configured = 2
  NoEntry = NoEntry
  FeeNum = 1
  FeeDen = 10
  NumWallets = 1
  IDR = IDR
  Assets = {IDR, USDT, USDC}
  t1 = t1  t2 = t2
  TxIds = {t1}
  Hashes = {}
  NoHash = NoHash
  NoRow = NoRow
  Amounts = {40, 1060}
  OneRupiah = 100
  Fee = 1
  MCFunds = 1060
  Opening <- MCOpening
INVARIANTS
  TypeOK
  NonNegative
  RateIsRecent
  SwapIsFair
CHECK_DEADLOCK FALSE

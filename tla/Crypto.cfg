SPECIFICATION FairSpec
CONSTANTS
  NumWallets = 2
  IDR = IDR
  USDT = USDT
  USDC = USDC
  Assets = {IDR, USDT, USDC}
  Cryptos = {USDT, USDC}
  Registered <- MCRegistered
  Outside = Outside
  Scale = 2
  NoTx = NoTx
  t1 = t1  t2 = t2  t3 = t3  t4 = t4
  TxIds = {t1, t2, t3, t4}
  Orders = {t1, t2}
  h1 = h1  h2 = h2
  Hashes = {h1, h2}
  NoHash = NoHash
  NoRow = NoRow
  Amounts = {3}
  OneRupiah = 1
  Fee = 1
  MCFunds = 6
  Opening <- MCOpening
INVARIANTS
  TypeOK
  StatusTellsBroadcast
PROPERTIES
  DecidedOnce
  WithdrawalsEnd
CHECK_DEADLOCK FALSE

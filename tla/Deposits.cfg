SPECIFICATION FairSpec
CONSTANTS
  NumWallets = 1
  IDR = IDR
  USDT = USDT
  USDC = USDC
  Assets = {IDR, USDT, USDC}
  Cryptos = {USDT, USDC}
  Networks = {"polygon_amoy"}
  Network = "polygon_amoy"
  NoTx = NoTx
  MinConfirmations = 2
  MaxLogs = 1
  Offered <- MCOffered
  t1 = t1  t2 = t2
  TxIds = {t1, t2}
  h1 = h1  h2 = h2
  Hashes = {h1, h2}
  Reorgs = {h1, h2}
  NoHash = NoHash
  NoRow = NoRow
  Amounts = {1}
  OneRupiah = 1
  Fee = 1
  Opening <- MCOpening
INVARIANTS
  TypeOK
  DepositBacked
  CreditedIsFinal
PROPERTY MinedIsCredited
CHECK_DEADLOCK FALSE

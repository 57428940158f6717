SPECIFICATION FiatSpec
CONSTANTS
  NumWallets = 1
  IDR = IDR
  Assets = {IDR}
  t1 = t1  t2 = t2
  TxIds = {t1}
  Hashes = {}
  NoHash = NoHash
  NoRow = NoRow
  Amounts = {2, 3}
  OneRupiah = 2
  Fee = 2
  MCFunds = 10
  Opening <- MCOpening
  CallbackWaits = FALSE
  Echoed = TRUE
  Calls = {t1}
  Life = 4
  Margin = 2
  Timeout = 1
  NoToken = NoToken
INVARIANT NoGain
CHECK_DEADLOCK FALSE

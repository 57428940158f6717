SPECIFICATION TopUpSpec
CONSTANTS
  NumWallets = 1
  IDR = IDR
  Assets = {IDR}
  t1 = t1  t2 = t2
  TxIds = {t1}
  Hashes = {}
  NoHash = NoHash
  NoRow = NoRow
  Amounts = {2, 3}
  OneRupiah = 2
  Fee = 2
  Opening <- MCOpening
  h1 = h1  h2 = h2
  Handlers = {h1, h2}
  OneAtATime = FALSE
  Reviews = FALSE
INVARIANT Journal
CHECK_DEADLOCK FALSE

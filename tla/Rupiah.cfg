SPECIFICATION FairSpec
CONSTANTS
  NumWallets = 1
  IDR = IDR
  Assets = {IDR}
  t1 = t1  t2 = t2
  TxIds = {t1, t2}
  Hashes = {}
  NoHash = NoHash
  NoRow = NoRow
  Amounts = {3}
  OneRupiah = 2
  Fee = 2
  MCFunds = 12
  Opening <- MCOpening
  h1 = h1  h2 = h2
  Handlers = {h1, h2}
  OneAtATime = TRUE
  Reviews = TRUE
  CallbackWaits = TRUE
  Echoed = TRUE
  Calls = {t1, t2}
  Life = 4
  Margin = 2
  Timeout = 1
  NoToken = NoToken
INVARIANTS
  TypeOK
  NoFreeMoney
  AnsweredIsAccounted
  StatusTellsPayout
  CreditNeedsPayment
  TokenHolds
PROPERTIES
  DecidedOnce
  PaidIsCredited
  BouncedIsRefunded
  PaidIsRecorded
  WithdrawalReturns
CHECK_DEADLOCK FALSE

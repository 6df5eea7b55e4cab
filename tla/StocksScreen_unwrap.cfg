SPECIFICATION Spec
CONSTANTS
  Nil = Nil
  apple = apple
  google = google
  Listed <- TwoStocks
  MaxAction = 1
  MaxPending = 3
INVARIANT StocksAreLoaded
CHECK_DEADLOCK FALSE

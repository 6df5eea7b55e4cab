SPECIFICATION FairSpec
CONSTANTS
  Nil = Nil
  apple = apple
  google = google
  Listed <- TwoStocks
  MaxAction = 2
  MaxPending = 0
INVARIANTS SpinnerSettles LabelsFitRow PictureFitsLabels
PROPERTY SpinnerStops
CHECK_DEADLOCK FALSE

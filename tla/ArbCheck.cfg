CONSTANTS
  W = W  B = B  T = T  U = U  a = a  b = b  c = c  d = d  e = e  f = f
  Nothing = Nothing  Garbled = Garbled
  Paths <- MCPaths
  Markets <- MCMarkets
  Verdicts <- MCVerdicts
  MayFail <- MCMayFail
  FeeBase = 100
  GweiPerUnit <- MCGweiPerUnit
  GasPrices <- MCGasPrices
  Ratio <- MCRatio
  MinProfit = 0
  BurnEnabled = TRUE
  BurnersEnabled = TRUE
  BurnGasPrice = 1
  MinGasLimits <- MCMinGasLimits
  BatchSize = 2
  BlacklistTarget = 3
  MaxFaults = 2
SPECIFICATION Spec
INVARIANTS TypeOK ResultsInPlace BlacklistedForReverts FilesAgree OffersApart OffersPay
  ArgumentsRoundTrip AmountsBest NoEndlessReverts

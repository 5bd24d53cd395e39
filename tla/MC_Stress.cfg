CONSTANTS
  market = market
  stress = stress
  Callers <- MC_Callers
  MarketCaller = market
  StressCaller = stress
  MaxDraws <- MC_MaxDraws
  CalmMinMs = 10
  CalmMaxMs = 50
  ActiveMinMs = 2
  ActiveMaxMs = 10
  BurstMinMs = 1
  BurstMaxMs = 2

SPECIFICATION Spec

INVARIANT TypeOK
INVARIANT GaussianValuesFresh
INVARIANT TickWithinPhase

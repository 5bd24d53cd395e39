CONSTANTS
  c1 = c1
  c2 = c2
  NoClient = NoClient
  Clients <- MC_Clients
  Symbols <- MC_Symbols
  QueueCap <- MC_QueueCap
  BatchLen <- MC_BatchLen
  MaxBatches <- MC_MaxBatches
  MaxControls <- MC_MaxControlsTwo

SPECIFICATION Spec

PROPERTY SubscriptionHonoured

SPECIFICATION FairSpec
CONSTANTS
  Servers = {"s1", "s2"}
  Models = {"embedding", "generative"}
  Indexes = {"ragserver-idx_dim384"}
  ModelsOf <- TwoModelsEach
  IndexOf <- OneIndex
  MaxFaults = 2
INVARIANTS TypeOK SessionOutlivesWorkers ServingIsReady
PROPERTIES RestartsSucceed SignalledStops

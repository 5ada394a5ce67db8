SPECIFICATION Spec
CONSTANTS
  Pools = {"p", "q"}
  Holders = {"h"}
  Accumulator = "fees"
  Virtual <- MCVirtual
  Supply <- MCSupply
  Bps = 4
  FeeRates = {3}
  TaxRates = {0, 2}
  DivertRates = {2}
  ProtocolFeeBps = 2
  CreationFees = {1}
  InitialUsdl = 5
  Chosen <- MCChosen
  Inputs = {1, 2}
  MaxUnpaid <- MCMaxUnpaid
  MaxSpare <- MCMaxSpare
  MaxEpochs = 1
INVARIANTS TypeOK PoolBacked FeesBacked FloorNeverBinds
PROPERTIES ProductKept

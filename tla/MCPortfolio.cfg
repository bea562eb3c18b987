SPECIFICATION MCSpec
CONSTANTS
  Tickers = {"A", "B"}
  Currencies = {"USD", "EUR"}
  Quantities = {1, 2}
  Times = {1, 2, 3}
  Clients = {c1, c2}
  Payloads <- MCPayloads
  Patches <- MCPatches
  Offsets <- MCZones
  MaxId = 3
SYMMETRY MCSymmetry
INVARIANTS
  TypeOK
  LedgerFolds
PROPERTIES
  EditsMend

SPECIFICATION ObraSpec
CONSTANTS
  muro = muro
  zapata = zapata
  Claves = {muro, zapata}
  Contratado <- MCContratado
  Precio <- MCPrecio
  Medidas = {0, 1, 3}
  AnticipoPct = 30
  Clerks = {k1}
  MaxEstimaciones = 3
  MaxConvenios = 1
  MaxNotas = 2
  MaxRequests = 3
INVARIANTS SettlementCountsOnce
CHECK_DEADLOCK FALSE

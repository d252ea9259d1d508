SPECIFICATION ServicesSpec
CONSTANTS
    \* Obra
    muro = muro
    zapata = zapata
    Claves = {muro, zapata}
    Contratado <- MCContratado
    Precio <- MCPrecio
    Medidas = {1, 3}
    AnticipoPct = 30
    Clerks = {k1, k2}
    MaxEstimaciones = 3
    MaxConvenios = 1
    MaxNotas = 2
    MaxRequests = 3
    \* PriceBook
    arena = arena
    mortero = mortero
    mezcla = mezcla
    Simples = {arena}
    Basicos = {mortero, mezcla}
    Conceptos = {muro}
    PrecioInicial <- MCPrecioInicial
    MatrizInicial <- MCMatrizInicial
    Factor = 2
    Lotes <- MCLotes
    Filas <- MCFilas
    Capturas = {3}
    MaxBasicoDepth = 4
    Editors = {e1, e2}
    MaxCambios = 2
    \* Versions
    Personas = {v1, v2}
    Klave = klave
    Valores = {1, 2}
    MaxVersiones = 2
    MaxReprocesos = 1
    MaxCambiosV = 1
    MaxCortes = 1
    \* SheetFiles
    Nombres = {n1, n2, n3}
    Iniciales = {n1, n2}
    Solicitudes = {q1, q2}
    MaxHojas = 3
    MaxArchivos = 2
    MaxSolicitudes = 2
    MaxTrabajos = 1
    \* ReviewKeys
    Elementos = {el1, el2}
    Etiquetas = {l1, l2}
    MaxRevisiones = 3
    MaxTraslados = 3
    \* Accounts
    Correos = {a1, a2}
    Peticiones = {w1, w2}
    MaxPeticiones = 5
    MaxInvitaciones = 2
    MaxEnlaces = 2
    \* Programa
    Duraciones = {1, 3, 7}
    Cuadrillas = {c1}
    Fases = 2
    Estructura = 1
    CicloDeNiveles = 15
    IntraOverlapPct = 50
    PhaseOverlapPct = 30
    MaxCimbras = 2
    MaxActividades = 3
INVARIANTS
    MeasuredOnce
    AdvanceWithinGranted
    BasicoIsItsMatrix
    
    
    
    ListIsTrue
    ChangesAreRead
    ManifestNamesSheets
    NeverWithoutSheets
    VerdictsSurvive
    VerdictsFollowElements
    AdminStays
    InvitationsEndOnce
    LinksWorkOnce
    NetworkIsKept
    FloatsKeepNetwork

    
    
CHECK_DEADLOCK FALSE

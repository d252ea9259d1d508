-------------------------------- MODULE Obra --------------------------------
(***************************************************************************)
(* The execution of a public-works contract: apps/api/routes/obra.py over  *)
(* costing/estimaciones.py, convenios.py, finiquito.py and bitacora.py.    *)
(*                                                                         *)
(* Each book of the contract is one JSON file.  A request reads it,        *)
(* computes a new list and replaces the file, without any lock, so that a  *)
(* write is two steps (LeerObra, Guardar).  What a clerk saves was drafted *)
(* before, on a screen, from what the files said then.                     *)
(***************************************************************************)
EXTENDS Integers, Sequences, FiniteSets, SequencesExt, Selection

CONSTANTS Claves,          \* the concepts of the contract
          Contratado,      \* [clave -> quantity] of the signed catalogue; 0 if not in it
          Precio,          \* [clave -> unit price]
          Medidas,         \* the quantities that may be measured in a period
          AnticipoPct,     \* per cent of the contract paid in advance
          Clerks,          \* people at a screen
          MaxEstimaciones, \* bound on the number of estimaciones
          MaxConvenios,    \* bound on the number of convenios
          MaxNotas,        \* bound on the notes of the logbook
          MaxRequests      \* bound on the requests that write a book

ASSUME ObraAssumption ==
  /\ IsFiniteSet(Claves) /\ Contratado \in [Claves -> Nat] /\ Precio \in [Claves -> Nat]
  /\ Medidas \subseteq Nat /\ AnticipoPct \in 0..100
  /\ {MaxEstimaciones, MaxConvenios, MaxNotas, MaxRequests} \subseteq Nat

VARIABLES catalogo,   \* whether catalogo_convocante.json exists
          libro,      \* [book -> list of entries]
          finiquito,  \* the stored settlement, or {} before
          pantalla,   \* [clerk -> the draft on the screen, or Nada]
          peticion,   \* [clerk -> the request that has read and not written, or Nada]
          requests,   \* requests begun
          encimada    \* history: a write was lost, or changed what others had built on

obraVars == <<catalogo, libro, finiquito, pantalla, peticion, requests, encimada>>

Libros == {"estimaciones", "convenios", "ajustes", "bitacora"}
Nada == [nada |-> TRUE]

Menor(a, b) == IF a < b THEN a ELSE b
Mayor(a, b) == IF a > b THEN a ELSE b
Numeros(s) == {s[i].numero : i \in DOMAIN s}
MaxNumero(s) == IF s = <<>> THEN 0 ELSE Max(Numeros(s))
Asiento(s, n) == s[CHOOSE i \in DOMAIN s : s[i].numero = n]

-----------------------------------------------------------------------------
(* Quantities and money.  Rounding to cents is left out: amounts are exact, *)
(* the advance and what is amortised of it in hundredths.                  *)

\* The sum of f over its domain.
Suma(f) == LET s == SetToSeq(DOMAIN f) IN Added([i \in 1..Len(s) |-> f[s[i]]], Len(s))

Acumulado(r) == r.previo + r.periodo
Excede(r) == r.contrato > 0 /\ Acumulado(r) > r.contrato
Importe(e) == Suma([c \in DOMAIN e.renglones |-> e.renglones[c].periodo * Precio[c]])
Anticipo(monto) == monto * AnticipoPct
\* Variant: the cap compares with the whole advance and not with what is left.
PorAmortizarTodo(e) == Anticipo(e.monto)

PorAmortizar(e) == Mayor(Anticipo(e.monto) - e.amortizado_previo, 0)
Amortizacion(e) == Menor(Importe(e) * AnticipoPct, PorAmortizar(e))

\* What the first n estimaciones measured of a concept, executed and amortised.
Medido(es, c, n) ==
  Added([i \in 1..Len(es) |->
           IF c \in DOMAIN es[i].renglones THEN es[i].renglones[c].periodo ELSE 0], n)
Hecho(es, n) == Added([i \in 1..Len(es) |-> Importe(es[i])], n)
Amortizado(es, n) == Added([i \in 1..Len(es) |-> Amortizacion(es[i])], n)

EnCatalogo == {c \in Claves : Contratado[c] > 0}
Firmado == Suma([c \in EnCatalogo |-> Contratado[c] * Precio[c]])
MontoContrato == IF catalogo THEN Firmado ELSE 0

ImporteConvenio(v) ==
  Suma([c \in DOMAIN v.renglones |->
          (v.renglones[c].cantidad - v.renglones[c].anterior) * Precio[c]])
MontoConvenido(vs) == Added([i \in 1..Len(vs) |-> ImporteConvenio(vs[i])], Len(vs))

\* The convenios that mention a concept, in their order.
QueTocan(vs, c) == Taking(vs, {i \in DOMAIN vs : c \in DOMAIN vs[i].renglones})
Vigente(vs, c, antes) ==
  IF QueTocan(vs, c) = <<>> THEN antes ELSE Last(QueTocan(vs, c)).renglones[c].cantidad

-----------------------------------------------------------------------------
(* Drafts.  None of them is stored: they go to a screen. *)

Primero(n) ==
  [numero |-> 1, amortizado_previo |-> 0, monto |-> n,
   renglones |-> [c \in EnCatalogo |-> [contrato |-> Contratado[c], periodo |-> 0, previo |-> 0]]]

\* siguiente: what has been estimated becomes the "previous" of the next one.
Encadenada(e) ==
  [numero |-> e.numero + 1, monto |-> e.monto,
   amortizado_previo |-> e.amortizado_previo + Amortizacion(e),
   renglones |-> [c \in DOMAIN e.renglones |->
                    [contrato |-> e.renglones[c].contrato, periodo |-> 0,
                     previo |-> Acumulado(e.renglones[c])]]]

\* crear_siguiente: with the convenios, which change what was contracted.
Convenida(e, vs) ==
  LET ya == e.renglones
      nuevas == (UNION {DOMAIN vs[i].renglones : i \in DOMAIN vs}) \ DOMAIN ya
  IN IF vs = <<>> THEN e
     ELSE [e EXCEPT
       !.monto = (IF MontoContrato > 0 THEN MontoContrato ELSE @) + MontoConvenido(vs),
       !.renglones = [c \in DOMAIN ya \cup nuevas |->
         IF c \in DOMAIN ya THEN [ya[c] EXCEPT !.contrato = Vigente(vs, c, ya[c].contrato)]
         ELSE [contrato |-> Head(QueTocan(vs, c)).renglones[c].cantidad, periodo |-> 0, previo |-> 0]]]

\* desde_estimacion: what was executed becomes what is contracted.
Borrador(e, numero) ==
  [numero |-> numero,
   renglones |-> [c \in {k \in DOMAIN e.renglones : Excede(e.renglones[k])} |->
                    [cantidad |-> Acumulado(e.renglones[c]), anterior |-> e.renglones[c].contrato]]]

\* leer_finiquito, when none is stored: filled in from the books.
Precargado ==
  LET es == libro["estimaciones"]
      base == IF es # <<>> /\ Last(es).monto > 0 THEN Last(es).monto ELSE MontoContrato
      monto == base + MontoConvenido(libro["convenios"])
  IN [monto |-> monto,
      otorgado |-> IF es = <<>> THEN 0 ELSE Anticipo(monto),
      ejecutado |-> Hecho(es, Len(es)), amortizado |-> Amortizado(es, Len(es))]

-----------------------------------------------------------------------------
ObraInit ==
  /\ catalogo = FALSE /\ libro = [l \in Libros |-> <<>>] /\ finiquito = {}
  /\ pantalla = [k \in Clerks |-> Nada] /\ peticion = [k \in Clerks |-> Nada]
  /\ requests = 0 /\ encimada = FALSE

CargarCatalogo ==
  /\ ~catalogo /\ catalogo' = TRUE
  /\ UNCHANGED <<libro, finiquito, pantalla, peticion, requests, encimada>>

Mostrar(k, l, asiento) ==
  /\ pantalla[k] = Nada /\ peticion[k] = Nada
  /\ pantalla' = [pantalla EXCEPT ![k] = [libro |-> l, asiento |-> asiento]]
  /\ UNCHANGED <<catalogo, libro, finiquito, peticion, requests, encimada>>

CrearPrimera(k) ==
  /\ libro["estimaciones"] = <<>> /\ catalogo
  /\ Mostrar(k, "estimaciones", Primero(MontoContrato))

\* Without a catalogue the first one is captured by hand.
CapturarAMano(k) ==
  /\ libro["estimaciones"] = <<>> /\ ~catalogo
  /\ Mostrar(k, "estimaciones", Primero(Firmado))

CrearSiguiente(k) ==
  LET es == libro["estimaciones"] IN
  /\ es # <<>> /\ Last(es).numero < MaxEstimaciones
  /\ Mostrar(k, "estimaciones", Convenida(Encadenada(Last(es)), libro["convenios"]))

AbrirEstimacion(k) ==
  \E n \in Numeros(libro["estimaciones"]) :
    Mostrar(k, "estimaciones", Asiento(libro["estimaciones"], n))

BorradorDeConvenio(k) ==
  \E n \in Numeros(libro["estimaciones"]) :
    LET numero == MaxNumero(libro["convenios"]) + 1
        borrador == Borrador(Asiento(libro["estimaciones"], n), numero) IN
    /\ numero <= MaxConvenios /\ DOMAIN borrador.renglones # {}
    /\ Mostrar(k, "convenios", borrador)

\* A convenio may also bring a concept that the catalogue does not have.
ConceptoNuevo(k) ==
  \E c \in Claves \ EnCatalogo :
    LET numero == MaxNumero(libro["convenios"]) + 1 IN
    /\ numero <= MaxConvenios
    /\ Mostrar(k, "convenios",
               [numero |-> numero, renglones |-> [x \in {c} |-> [cantidad |-> 1, anterior |-> 0]]])

PrepararAjuste(k) ==
  Mostrar(k, "ajustes", [numero |-> Len(libro["ajustes"]) + 1])

-----------------------------------------------------------------------------
(* Requests that replace a book. *)

LeerObra(k, l, nuevo) ==
  /\ peticion[k] = Nada /\ requests < MaxRequests
  /\ requests' = requests + 1
  /\ peticion' = [peticion EXCEPT ![k] = [libro |-> l, leido |-> libro[l], nuevo |-> nuevo]]
  /\ UNCHANGED <<catalogo, libro, finiquito, pantalla, encimada>>

\* The entries that do not have the number.
Sin(s, n) == Taking(s, {i \in DOMAIN s : s[i].numero # n})

\* Variant: the list is not sorted again.
ConAlFinal(s, asiento) == Append(Sin(s, asiento.numero), asiento)

\* guardar_estimacion, guardar_convenio, guardar_ajuste: the entry replaces the one
\* of its number, and the list is sorted by number.
Ordenado(s) == Sorted(s, [i \in DOMAIN s |-> s[i].numero], MaxNumero(s))
Con(s, asiento) == Ordenado(Append(Sin(s, asiento.numero), asiento))

Medida(e) ==
  {[e EXCEPT !.renglones = [c \in DOMAIN @ |-> [@[c] EXCEPT !.periodo = m[c]]]] :
     m \in [DOMAIN e.renglones -> Medidas]}

GuardarEstimacion(k) ==
  /\ pantalla[k] # Nada /\ pantalla[k].libro = "estimaciones"
  /\ \E e \in Medida(pantalla[k].asiento) : LeerObra(k, "estimaciones", Con(libro["estimaciones"], e))

GuardarOtro(k) ==
  /\ pantalla[k] # Nada /\ pantalla[k].libro \in {"convenios", "ajustes"}
  /\ LET l == pantalla[k].libro IN LeerObra(k, l, Con(libro[l], pantalla[k].asiento))

\* borrar_convenio, borrar_ajuste.
Borrar(k) ==
  \E l \in {"convenios", "ajustes"} : \E n \in Numeros(libro[l]) :
    /\ pantalla[k] = Nada
    /\ LeerObra(k, l, Sin(libro[l], n))

\* asentar: a note goes at the end, or is refused.
Asentable(notas, nota) ==
  /\ nota.numero = MaxNumero(notas) + 1
  /\ nota.tipo = "apertura" <=> notas = <<>>
  /\ \A i \in DOMAIN notas : notas[i].tipo # "cierre"
  /\ nota.referencia = 0 \/ nota.referencia \in Numeros(notas)

AsentarNota(k) ==
  \E numero \in 1..MaxNotas, tipo \in {"apertura", "ordinaria", "cierre"}, referencia \in 0..MaxNotas :
    LET nota == [numero |-> numero, tipo |-> tipo, referencia |-> referencia, autor |-> k] IN
    /\ pantalla[k] = Nada
    /\ Asentable(libro["bitacora"], nota)
    /\ LeerObra(k, "bitacora", Append(libro["bitacora"], nota))

\* Somebody has begun, or saved, the estimación that follows number n.
Continuada(n) ==
  \/ n + 1 \in Numeros(libro["estimaciones"])
  \/ \E k \in Clerks : /\ pantalla[k] # Nada /\ pantalla[k].libro = "estimaciones"
                       /\ pantalla[k].asiento.numero = n + 1

Encima(p) ==
  \/ libro[p.libro] # p.leido
  \/ /\ p.libro = "estimaciones"
     /\ \E n \in Numeros(libro["estimaciones"]) :
          Asiento(libro["estimaciones"], n) # Asiento(p.nuevo, n) /\ Continuada(n)

\* write_json: the file is replaced whole.
Guardar(k) ==
  LET p == peticion[k] IN
  /\ p # Nada
  /\ encimada' = (encimada \/ Encima(p))
  /\ libro' = [libro EXCEPT ![p.libro] = p.nuevo]
  /\ peticion' = [peticion EXCEPT ![k] = Nada]
  /\ pantalla' = [pantalla EXCEPT ![k] = Nada]
  /\ UNCHANGED <<catalogo, finiquito, requests>>

\* guardar_finiquito, with the figures the screen was given.
GuardarFiniquito ==
  /\ requests < MaxRequests /\ requests' = requests + 1
  /\ finiquito' = IF finiquito = {} THEN {Precargado} ELSE finiquito
  /\ UNCHANGED <<catalogo, libro, pantalla, peticion, encimada>>

ObraNext ==
  \/ CargarCatalogo \/ GuardarFiniquito
  \/ \E k \in Clerks :
       \/ CrearPrimera(k) \/ CapturarAMano(k) \/ CrearSiguiente(k) \/ AbrirEstimacion(k)
       \/ BorradorDeConvenio(k) \/ ConceptoNuevo(k) \/ PrepararAjuste(k)
       \/ GuardarEstimacion(k) \/ GuardarOtro(k) \/ Borrar(k) \/ AsentarNota(k) \/ Guardar(k)

ObraSpec == ObraInit /\ [][ObraNext]_obraVars

-----------------------------------------------------------------------------
(* Properties. *)

\* Every estimación counts as "previous", for each concept, exactly what the ones
\* before it measured: nobody charges the same metre twice (estimaciones.py), as long
\* as no write was lost and nobody changed an estimación that another continues.
MeasuredOnce ==
  LET es == libro["estimaciones"] IN
  ~encimada =>
    \A i \in DOMAIN es : \A c \in DOMAIN es[i].renglones :
      es[i].renglones[c].previo = Medido(es, c, i - 1)

\* Along the estimaciones no more is amortised than the largest advance of the contract
\* so far, however much is executed beyond it; and while the contract keeps its amount,
\* what is amortised is the agreed share of the work, until the advance is settled
\* (estimaciones.py: "Nunca más de lo que queda por amortizar").
AdvanceWithinGranted ==
  LET es == libro["estimaciones"] IN
  ~encimada =>
    \A i \in DOMAIN es :
      /\ \E j \in 1..i : Amortizado(es, i) <= Anticipo(es[j].monto)
      /\ (\A j \in 1..i : es[j].monto = es[i].monto) =>
           Amortizado(es, i) = Menor(Hecho(es, i) * AnticipoPct, Anticipo(es[i].monto))

\* The settlement is computed on the contract as it was signed and agreed, each
\* convenio counted once: "La base del anticipo tiene que ser la misma que produjo las
\* amortizaciones" (leer_finiquito).  The code adds the convenios to an amount that
\* already has them.
SettlementCountsOnce ==
  (catalogo /\ ~encimada) => Precargado.monto = MontoContrato + MontoConvenido(libro["convenios"])
=============================================================================

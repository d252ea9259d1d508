------------------------------ MODULE PriceBook ------------------------------
(***************************************************************************)
(* The price book of a workshop: insumos, composed insumos (básicos) with  *)
(* a matrix of their own, the matrices of concepts, and the journal of     *)
(* adjustments with its undo (costing/catalog_store.py, costing/apu.py).   *)
(*                                                                         *)
(* A request reads the book, writes its change in one transaction under    *)
(* _LOCK, and then computes what follows from it: the prices of the        *)
(* básicos, read and written apart, and the verdicts of the concepts.      *)
(***************************************************************************)
EXTENDS Integers, Sequences, FiniteSets, SequencesExt, Selection

CONSTANTS Simples,        \* insumos with a price of their own
          Basicos,        \* insumos whose price comes from their matrix
          Conceptos,      \* concepts of the catalogue
          PrecioInicial,  \* [insumo -> price] when the book is opened
          MatrizInicial,  \* [owner -> [insumo -> quantity]] then
          Capturas,       \* the prices people type
          Lotes,          \* the sets of insumos people adjust
          Filas,          \* the matrices people type
          Factor,         \* the factor of an adjustment
          MaxBasicoDepth, \* MAX_BASICO_DEPTH
          Editors,        \* requests that may be in progress at the same time
          MaxCambios      \* bound on the changes

Insumos == Simples \cup Basicos
Duenos == Basicos \cup Conceptos

\* The members of a matrix.
Lineas(fila) == {i \in Insumos : fila[i] > 0}

(* A code is of one thing.  A matrix that somebody types has a member; an  *)
(* insumo that the book is opened with may have no price, and a básico may *)
(* have no matrix.                                                         *)
ASSUME PriceBookAssumption ==
  /\ IsFiniteSet(Insumos) /\ Simples \cap Basicos = {} /\ Conceptos \cap Insumos = {}
  /\ PrecioInicial \in [Insumos -> Nat] /\ MatrizInicial \in [Duenos -> [Insumos -> Nat]]
  /\ Capturas \subseteq Nat \ {0} /\ Lotes \subseteq SUBSET Insumos
  /\ Filas \subseteq [Insumos -> Nat] /\ \A f \in Filas : Lineas(f) # {}
  /\ {Factor, MaxCambios} \subseteq Nat /\ MaxBasicoDepth \in Nat \ {0}

VARIABLES costo,      \* [insumo -> unit_cost]
          matriz,     \* [owner -> [insumo -> quantity]]; 0 where it has no line
          diario,     \* the journal of adjustments and substitutions
          veredicto,  \* [concept -> direct cost of its last validation, or SinVeredicto]
          tarea,      \* [editor -> what is left of the request]
          edicion,    \* changes of prices and of matrices of básicos so far
          retoques,   \* changes of matrices of concepts so far
          computada,  \* history: the edition the prices of the básicos come from
          revisado    \* history: [concept -> whether it was revalidated since the last change]

bookVars == <<costo, matriz, diario, veredicto, tarea, edicion, retoques, computada, revisado>>

SinVeredicto == -1
Libre == [paso |-> "libre"]

-----------------------------------------------------------------------------
(* recompute_basicos: from below upwards, in rounds.  A básico without a   *)
(* matrix, or with a member that has no price, keeps its price; one that   *)
(* hangs from a cycle is never reached.                                    *)

\* The matrices of the básicos.
Composicion(m) == [b \in Basicos |-> m[b]]

Calculable(p, fila) == Lineas(fila) # {} /\ \A i \in Lineas(fila) : p[i] > 0
Orden == SetToSeq(Insumos)
Total(p, fila) == Added([n \in 1..Len(Orden) |-> fila[Orden[n]] * p[Orden[n]]], Len(Orden))

\* Variant: all in one round, with the prices the members had before.
UnaRonda(c) == [n \in 0..(MaxBasicoDepth + 1) |-> IF n = 0 THEN {} ELSE Basicos]

\* The básicos that are done after each round.
Rondas(c) ==
  LET hechos[n \in 0..(MaxBasicoDepth + 1)] ==
        IF n = 0 THEN {}
        ELSE hechos[n - 1] \cup {b \in Basicos : Lineas(c[b]) \cap Basicos \subseteq hechos[n - 1]}
  IN hechos
Hechos(c) == Rondas(c)[MaxBasicoDepth + 1]

Ronda(p, c, listos) ==
  [i \in Insumos |-> IF i \in listos /\ Calculable(p, c[i]) THEN Total(p, c[i]) ELSE p[i]]
Resueltos(p, c) ==
  LET hechos == Rondas(c)
      costos[n \in 0..(MaxBasicoDepth + 1)] ==
        IF n = 0 THEN p ELSE Ronda(costos[n - 1], c, hechos[n] \ hechos[n - 1])
  IN costos[MaxBasicoDepth + 1]

\* The básicos that are n steps below bs.
Anidados(c, bs) ==
  LET tras[n \in 0..MaxBasicoDepth] ==
        IF n = 0 THEN bs ELSE UNION {Lineas(c[b]) \cap Basicos : b \in tras[n - 1]}
  IN tras

\* _check_basico_cycle: no walk of MAX_BASICO_DEPTH básicos below the new one.
Aceptable(c, b) == Anidados(c, {b})[MaxBasicoDepth] = {}

\* build_apu: the direct cost of a matrix, its básicos resolved by their matrices and
\* not by their stored prices.  No cost if one lies too deep, or has no price.
SinPrecio == -2
Apu(p, c, fila) ==
  LET limpio == [i \in Insumos |-> IF i \in Basicos /\ Lineas(c[i]) # {} THEN 0 ELSE p[i]]
      precio == Resueltos(limpio, c)
      hondos == Anidados(c, Lineas(fila) \cap Basicos)[MaxBasicoDepth - 1] IN
  IF \/ Lineas(fila) = {} \/ \E b \in hondos : Lineas(c[b]) # {}
     \/ \E i \in Lineas(fila) : precio[i] = 0
  THEN SinPrecio ELSE Total(precio, fila)

-----------------------------------------------------------------------------
BookInit ==
  /\ costo = Resueltos(PrecioInicial, Composicion(MatrizInicial)) /\ matriz = MatrizInicial
  /\ diario = <<>> /\ veredicto = [k \in Conceptos |-> SinVeredicto]
  /\ tarea = [e \in Editors |-> Libre] /\ edicion = 0 /\ retoques = 0
  /\ computada = 0 /\ revisado = [k \in Conceptos |-> TRUE]

Sigue(e, t) == tarea' = [tarea EXCEPT ![e] = t]

\* load_price_book, load_templates, list_insumos, before the lock is taken.
LeerLibro(e) ==
  /\ tarea[e] = Libre /\ edicion + retoques < MaxCambios
  /\ Sigue(e, [paso |-> "leido", costo |-> costo, matriz |-> matriz])
  /\ UNCHANGED <<costo, matriz, diario, veredicto, edicion, retoques, computada, revisado>>

\* A change, as one transaction, and what the journal says after it: its older entries
\* are no longer the last thing that happened.
Cambiar(p, m, asientos) ==
  /\ edicion + retoques < MaxCambios /\ edicion' = edicion + 1
  /\ costo' = p /\ matriz' = m
  /\ diario' = [i \in DOMAIN diario |-> [diario[i] EXCEPT !.ultimo = FALSE]] \o asientos
  /\ revisado' = [k \in Conceptos |-> FALSE]
  /\ UNCHANGED <<veredicto, retoques, computada>>

\* upsert_insumo with a price: it reads under the lock.
UpsertInsumo(e) ==
  \E i \in Insumos, c \in Capturas :
    /\ tarea[e] = Libre /\ Cambiar([costo EXCEPT ![i] = c], matriz, <<>>)
    /\ Sigue(e, [paso |-> "escrito"])

\* import_prices writes prices and computes nothing after it.
ImportPrices(e) ==
  \E i \in Insumos, c \in Capturas :
    /\ tarea[e] = Libre /\ Cambiar([costo EXCEPT ![i] = c], matriz, <<>>)
    /\ UNCHANGED tarea

SetBasicoComponents(e) ==
  \E b \in Basicos, f \in Filas :
    /\ tarea[e].paso = "leido" /\ Aceptable(Composicion([tarea[e].matriz EXCEPT ![b] = f]), b)
    /\ Cambiar(costo, [matriz EXCEPT ![b] = f], <<>>)
    /\ Sigue(e, [paso |-> "escrito"])

\* set_apu_components computes no básico, and revalidates its concept only.
SetApuComponents(e) ==
  \E k \in Conceptos, f \in Filas :
    /\ tarea[e] = Libre /\ edicion + retoques < MaxCambios /\ retoques' = retoques + 1
    /\ matriz' = [matriz EXCEPT ![k] = f]
    /\ diario' = [i \in DOMAIN diario |-> [diario[i] EXCEPT !.ultimo = FALSE]]
    /\ revisado' = [revisado EXCEPT ![k] = FALSE]
    /\ Sigue(e, [paso |-> "aplicado", conceptos |-> {k}])
    /\ UNCHANGED <<costo, veredicto, edicion, computada>>

\* The entry of the journal holds what it touched as the request read it.  History: the
\* whole book then, and whether nobody else was writing or had left something uncomputed.
Anotado(e, cs, ds) ==
  [costo |-> tarea[e].costo, matriz |-> tarea[e].matriz, codigos |-> cs, duenos |-> ds,
   deshecho |-> FALSE, ultimo |-> TRUE,
   firme |-> tarea[e].costo = costo /\ tarea[e].matriz = matriz /\ computada = edicion]

\* Variant: the entry of a substitution does not name all the owners it touched.
AsientoDeBasicos(e, cs, ds) == Anotado(e, cs, ds \cap Basicos)

AsientoDiario(e, cs, ds) == Anotado(e, cs, ds)

AdjustPrices(e) ==
  \E cs \in Lotes :
    /\ tarea[e].paso = "leido"
    /\ Cambiar([i \in Insumos |-> IF i \in cs THEN tarea[e].costo[i] * Factor ELSE costo[i]],
               matriz, <<AsientoDiario(e, cs, {})>>)
    /\ Sigue(e, [paso |-> "escrito"])

\* replace_resource: quantities are added where the new one already was; only an owner
\* that would contain itself is refused.
Sustituida(f, old, new) == [f EXCEPT ![new] = @ + f[old], ![old] = 0]

ReplaceResource(e) ==
  \E old, new \in Insumos :
    /\ tarea[e].paso = "leido" /\ old # new
    /\ LET m == tarea[e].matriz
           ds == {d \in Duenos : m[d][old] > 0} IN
       /\ ds # {} /\ new \notin ds
       /\ Cambiar(costo, [d \in Duenos |-> IF d \in ds THEN Sustituida(m[d], old, new) ELSE matriz[d]],
                  <<AsientoDiario(e, {}, ds)>>)
    /\ Sigue(e, [paso |-> "escrito"])

\* undo_adjustment: all of it under the lock.
UndoAdjustment(e) ==
  \E n \in DOMAIN diario :
    LET a == diario[n] IN
    /\ tarea[e] = Libre /\ edicion + retoques < MaxCambios /\ ~a.deshecho
    /\ edicion' = edicion + 1
    /\ costo' = [i \in Insumos |-> IF i \in a.codigos THEN a.costo[i] ELSE costo[i]]
    /\ matriz' = [d \in Duenos |-> IF d \in a.duenos THEN a.matriz[d] ELSE matriz[d]]
    /\ diario' = [i \in DOMAIN diario |->
         [diario[i] EXCEPT !.ultimo = (@ /\ i = n), !.deshecho = (@ \/ i = n)]]
    /\ revisado' = [k \in Conceptos |-> FALSE]
    /\ Sigue(e, [paso |-> "escrito"])
    /\ UNCHANGED <<veredicto, retoques, computada>>

\* A refused request, and a process that stops between the change and what follows.
Cortar(e) ==
  /\ tarea[e] # Libre /\ Sigue(e, Libre)
  /\ UNCHANGED <<costo, matriz, diario, veredicto, edicion, retoques, computada, revisado>>

-----------------------------------------------------------------------------
(* What follows from a change. *)

\* recompute_basicos reads the book, and later writes what it computed.
Computados(p, c) ==
  LET q == Resueltos(p, c) IN [b \in {b \in Hechos(c) : Calculable(q, c[b])} |-> q[b]]

Calcular(e) ==
  /\ tarea[e].paso = "escrito"
  /\ Sigue(e, [paso |-> "calculado", computed |-> Computados(costo, Composicion(matriz)),
               edicion |-> edicion])
  /\ UNCHANGED <<costo, matriz, diario, veredicto, edicion, retoques, computada, revisado>>

Aplicar(e) ==
  /\ tarea[e].paso = "calculado"
  /\ LET computed == tarea[e].computed IN
     costo' = [i \in Insumos |-> IF i \in DOMAIN computed THEN computed[i] ELSE costo[i]]
  /\ computada' = tarea[e].edicion
  /\ Sigue(e, [paso |-> "aplicado", conceptos |-> Conceptos])
  /\ UNCHANGED <<matriz, diario, veredicto, edicion, retoques, revisado>>

ApuDe(k) == Apu(costo, Composicion(matriz), matriz[k])

\* Variant: the verdict is given on the stored prices of the básicos.
ApuGuardado(k) == IF ApuDe(k) = SinPrecio THEN SinPrecio ELSE Total(costo, matriz[k])

ApuActual(k) == ApuDe(k)

\* _revalidate_concept, _revalidate_priced: the verdicts that exist are given again; the
\* one of a concept without a price stays.
Revalidar(e) ==
  /\ tarea[e].paso = "aplicado"
  /\ veredicto' = [k \in Conceptos |->
       IF k \in tarea[e].conceptos /\ veredicto[k] # SinVeredicto /\ ApuActual(k) # SinPrecio
       THEN ApuActual(k) ELSE veredicto[k]]
  /\ revisado' = [k \in Conceptos |-> revisado[k] \/ k \in tarea[e].conceptos]
  /\ Sigue(e, Libre)
  /\ UNCHANGED <<costo, matriz, diario, edicion, retoques, computada>>

\* validate_concept, asked for by a person.
ValidateConcept(e) ==
  \E k \in Conceptos :
    /\ tarea[e] = Libre /\ ApuActual(k) \notin {SinPrecio, veredicto[k]}
    /\ veredicto' = [veredicto EXCEPT ![k] = ApuActual(k)]
    /\ UNCHANGED <<costo, matriz, diario, tarea, edicion, retoques, computada, revisado>>

BookNext ==
  \E e \in Editors :
    \/ LeerLibro(e) \/ UpsertInsumo(e) \/ SetBasicoComponents(e) \/ SetApuComponents(e) \/ AdjustPrices(e)
    \/ ReplaceResource(e) \/ UndoAdjustment(e) \/ ImportPrices(e) \/ ValidateConcept(e)
    \/ Calcular(e) \/ Aplicar(e) \/ Revalidar(e) \/ Cortar(e)

BookSpec == BookInit /\ [][BookNext]_bookVars

-----------------------------------------------------------------------------
(* Properties. *)

\* The insumos with a price that no matrix gives, and the básicos with a matrix where
\* everything below has a price.
Propios(c) == {i \in Insumos : i \in Basicos => Lineas(c[i]) = {}}
Completas(p, c) ==
  {bs \in SUBSET Basicos :
     \A b \in bs : Lineas(c[b]) \cap Basicos \subseteq bs /\ \A i \in Lineas(c[b]) : p[i] > 0}
Completos(p, c) == (Hechos(c) \cap UNION Completas(p, c)) \ Propios(c)

\* Whatever two requests do at the same time: once the prices of the básicos come from
\* a reading of the last edition, each one that has all its prices below is the sum of
\* its matrix at stored prices, however deep and in whatever order the changes came
\* (recompute_basicos: "El precio de cada básico sale de su matriz").
BasicoIsItsMatrix ==
  computada = edicion =>
    \A b \in Basicos :
      costo[b] = Total(costo, matriz[b]) \/ b \notin Completos(costo, Composicion(matriz))

\* A verdict given after the last change is about the cost the concept has now, even if a
\* recomputation that began earlier writes old prices of básicos over it afterwards
\* (_revalidate_priced: "cada veredicto se recalcula contra su misma referencia").
VerdictIsCurrent ==
  \A k \in Conceptos :
    revisado[k] /\ veredicto[k] # SinVeredicto /\ ApuActual(k) # SinPrecio => veredicto[k] = ApuActual(k)

\* Undoing the last thing that happened leaves every price and every matrix as it was
\* before it, also the prices of the básicos that have all theirs below, once they are
\* computed (adjust_prices: "para deshacerlo exacto").
UndoIsExact ==
  computada = edicion =>
    \A n \in DOMAIN diario :
      LET a == diario[n]
          c == Composicion(a.matriz) IN
      a.deshecho /\ a.ultimo /\ a.firme =>
        /\ matriz = a.matriz
        /\ \A i \in Propios(c) \cup Completos(a.costo, c) : costo[i] = a.costo[i]
=============================================================================

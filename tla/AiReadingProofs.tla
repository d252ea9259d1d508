---------------------------- MODULE AiReadingProofs ----------------------------
(* What AiReading guarantees for every sequence of sheets and every number *)
(* of requests, runs, readings and restarts: no sheet is read twice, a     *)
(* reading that is done has all its sheets, and what was read is kept.     *)
EXTENDS AiReading, SelectionProofs, FiniteSetTheorems

-----------------------------------------------------------------------------
(* Types and the inductive invariant. *)

Reading == [hoja : Codigos, fallida : BOOLEAN]
Marcos == Seq(Codigos)
AiReads == [estado : {"idle", "running", "done", "cancelled", "failed"},
            lecturas : Seq(Reading), de : Marcos]
Acepta == [paso : {"aceptado", "arranca"}, solo : BOOLEAN, marcos : Marcos]
Lee == [paso : {"lee"}, marcos : Marcos, ordena : BOOLEAN]
Termina == [paso : {"termina"}]
Hilo == {SinHilo} \cup Acepta \cup Lee \cup Termina

AiTypeOK ==
  /\ marcos \in Marcos /\ corridas \in Nat /\ aiReads \in AiReads
  /\ enLectura \in BOOLEAN /\ cancelada \in BOOLEAN
  /\ hilo \in [Pedidos -> Hilo] /\ iniciadas \in Nat /\ caidas \in Nat
  /\ mezclada \in BOOLEAN /\ atascada \in BOOLEAN

(* One reading at a time, while the project is in _RUNNING. *)
Sola ==
  /\ \A p \in Pedidos : hilo[p] # SinHilo => enLectura
  /\ \A p, q \in Pedidos : hilo[p] # SinHilo /\ hilo[q] # SinHilo => p = q

(* No sheet has two readings. *)
De == [r \in Reading |-> r.hoja]
UnaVez == Apart(aiReads.lecturas, De)

(* The readings are of the sheets of the run that is read, and of all of   *)
(* them once it is done; a reading from the start begins with none.        *)
DeSuCorrida ==
  /\ ~mezclada => Leidas(aiReads.lecturas) \subseteq ToSet(aiReads.de)
  /\ aiReads.estado = "done" /\ ~mezclada => Leidas(aiReads.lecturas) = ToSet(aiReads.de)
  /\ \A p \in Pedidos :
       /\ hilo[p].paso = "lee" => aiReads.de = hilo[p].marcos /\ aiReads.estado = "running"
       /\ hilo[p].paso = "arranca" /\ ~hilo[p].solo => aiReads.lecturas = <<>>

AiInv == AiTypeOK /\ Sola /\ UnaVez /\ DeSuCorrida

-----------------------------------------------------------------------------
(* Readings. *)

LEMMA Fases ==
  ASSUME NEW h \in Hilo
  PROVE  /\ h.paso \in {"aceptado", "arranca"} => h \in Acepta
         /\ h.paso = "lee" => h \in Lee
         /\ h.paso = "libre" <=> h = SinHilo
BY DEF Hilo, Acepta, Lee, Termina, SinHilo

LEMMA LasLeidas ==
  ASSUME NEW rs
  PROVE  Leidas(rs) = {r.hoja : r \in ToSet(rs)}
BY DEF Leidas, ToSet

LEMMA TiposDeLeidas ==
  ASSUME NEW rs \in Seq(Reading)
  PROVE  /\ ToSet(rs) \subseteq Reading /\ Leidas(rs) \subseteq Codigos
         /\ DOMAIN rs = 1..Len(rs) /\ Len(rs) \in Nat
         /\ \A i \in DOMAIN rs : rs[i] \in Reading
<1>1. DOMAIN rs = 1..Len(rs) /\ Len(rs) \in Nat /\ \A i \in DOMAIN rs : rs[i] \in Reading
  BY LenProperties, ElementOfSeq
<1>2. QED
  BY <1>1 DEF ToSet, Leidas, Reading

LEMMA LasBuenas ==
  ASSUME NEW rs \in Seq(Reading)
  PROVE  /\ Buenas(rs) \in Seq(Reading)
         /\ ToSet(Buenas(rs)) = {r \in ToSet(rs) : ~r.fallida}
         /\ Apart(rs, De) => Apart(Buenas(rs), De)
<1> DEFINE I == {i \in DOMAIN rs : ~rs[i].fallida}
<1>1. Buenas(rs) = Taking(rs, I)
  BY DEF Buenas
<1>2. Taking(rs, I) \in Seq(Reading) /\ ToSet(Taking(rs, I)) = {rs[i] : i \in I}
  <2> HIDE DEF I
  <2>1. I \subseteq DOMAIN rs
    BY DEF I
  <2>2. QED
    BY <2>1, TakenFrom
<1>3. {rs[i] : i \in I} = {r \in ToSet(rs) : ~r.fallida}
  BY DEF ToSet
<1>4. Apart(rs, De) => Apart(Taking(rs, I), De)
  <2> HIDE DEF I
  <2>1. QED
    BY TakenApart
<1>5. QED
  BY <1>1, <1>2, <1>3, <1>4

(* As many readings as sheets. *)
LEMMA TantasComoHojas ==
  ASSUME NEW rs \in Seq(Reading), Apart(rs, De)
  PROVE  IsFiniteSet(Leidas(rs)) /\ Cardinality(Leidas(rs)) = Len(rs)
<1> DEFINE f == [i \in 1..Len(rs) |-> rs[i].hoja]
<1>1. /\ Len(rs) \in Nat /\ DOMAIN rs = 1..Len(rs)
      /\ \A i \in DOMAIN rs : rs[i] \in Reading
  BY TiposDeLeidas
<1>2. f \in Surjection(1..Len(rs), Leidas(rs))
  BY <1>1 DEF Surjection, Leidas
<1>3. \A i \in DOMAIN rs : De[rs[i]] = rs[i].hoja
  BY <1>1 DEF De
<1>4. f \in Injection(1..Len(rs), Leidas(rs))
  <2>1. f \in [1..Len(rs) -> Leidas(rs)] /\ \A i \in 1..Len(rs) : f[i] = rs[i].hoja
    BY <1>2 DEF Surjection
  <2>2. \A i, j \in 1..Len(rs) : i # j => rs[i].hoja # rs[j].hoja
    BY <1>1, <1>3 DEF Apart
  <2> HIDE DEF f
  <2>3. QED
    BY <2>1, <2>2 DEF Injection, IsInjective
<1>5. IsFiniteSet(1..Len(rs)) /\ Cardinality(1..Len(rs)) = Len(rs)
  BY <1>1, FS_Interval
<1> HIDE DEF f
<1>6. QED
  BY <1>2, <1>4, <1>5, FS_Surjection

(* A run has no more sheets than its list is long. *)
LEMMA NoMasQueLista ==
  ASSUME NEW ms \in Marcos
  PROVE  IsFiniteSet(ToSet(ms)) /\ Cardinality(ToSet(ms)) <= Len(ms) /\ Len(ms) \in Nat
<1>1. Len(ms) \in Nat /\ DOMAIN ms = 1..Len(ms)
  BY LenProperties DEF Marcos
<1>2. ms \in Surjection(1..Len(ms), ToSet(ms))
  BY <1>1, LenProperties, ElementOfSeq DEF Surjection, ToSet, Marcos
<1>3. ASSUME NEW n \in Nat PROVE IsFiniteSet(1..n) /\ Cardinality(1..n) = n
  BY FS_Interval
<1>4. IsFiniteSet(1..Len(ms)) /\ Cardinality(1..Len(ms)) = Len(ms)
  BY <1>1, <1>3
<1>5. QED
  BY <1>1, <1>2, <1>4, FS_Surjection

(* The sort keeps the readings. *)
LEMMA OrdenarConserva ==
  ASSUME NEW rs \in Seq(Reading), NEW ms \in Marcos
  PROVE  /\ EnOrden(rs, ms) \in Seq(Reading)
         /\ ToSet(EnOrden(rs, ms)) = ToSet(rs)
         /\ Apart(rs, De) => Apart(EnOrden(rs, ms), De)
<1> DEFINE key == [i \in DOMAIN rs |-> Lugar(rs[i].hoja, ms)]
           N == Len(ms) + 1
<1>1. Len(ms) \in Nat /\ DOMAIN ms = 1..Len(ms) /\ N \in Nat
  BY LenProperties DEF Marcos
<1>2. \A h : Lugar(h, ms) \in 1..N
  <2> SUFFICES ASSUME NEW h PROVE Lugar(h, ms) \in 1..N
    OBVIOUS
  <2>1. CASE h \in ToSet(ms)
    <3>1. \E i \in DOMAIN ms : ms[i] = h
      BY <2>1 DEF ToSet
    <3>2. (CHOOSE i \in DOMAIN ms : ms[i] = h) \in DOMAIN ms
      BY <3>1
    <3>3. QED
      BY <1>1, <2>1, <3>2 DEF Lugar
  <2>2. CASE h \notin ToSet(ms)
    BY <1>1, <2>2 DEF Lugar
  <2>3. QED
    BY <2>1, <2>2
<1>3. key \in [DOMAIN rs -> 1..N]
  BY <1>2
<1>4. EnOrden(rs, ms) = Sorted(rs, key, N)
  BY DEF EnOrden
<1> HIDE DEF key, N
<1>5. QED
  BY <1>1, <1>3, <1>4, WhatIsSorted

(* The sheets that are still to be read. *)
LEMMA LasPendientes ==
  ASSUME AiTypeOK, NEW p \in Pedidos, hilo[p].paso = "lee"
  PROVE  /\ hilo[p].marcos \in Marcos /\ hilo[p].ordena \in BOOLEAN
         /\ Pendientes(p) \in Seq(Codigos)
         /\ ToSet(Pendientes(p)) = ToSet(hilo[p].marcos) \ Leidas(aiReads.lecturas)
<1>1. hilo[p] \in Lee
  BY Fases DEF AiTypeOK
<1>2. hilo[p].marcos \in Marcos /\ hilo[p].ordena \in BOOLEAN
  BY <1>1 DEF Lee
<1> DEFINE ms == hilo[p].marcos
           I == {i \in DOMAIN ms : ms[i] \notin Leidas(aiReads.lecturas)}
<1>3. Pendientes(p) = Taking(ms, I)
  BY DEF Pendientes
<1>4. Taking(ms, I) \in Seq(Codigos) /\ ToSet(Taking(ms, I)) = {ms[i] : i \in I}
  <2>1. I \subseteq DOMAIN ms
    OBVIOUS
  <2> HIDE DEF I, ms
  <2>2. QED
    BY <1>2, <2>1, TakenFrom DEF Marcos, ms
<1>5. {ms[i] : i \in I} = ToSet(ms) \ Leidas(aiReads.lecturas)
  BY DEF ToSet
<1>6. QED
  BY <1>2, <1>3, <1>4, <1>5

-----------------------------------------------------------------------------
(* Type correctness. *)

LEMMA LoConservado ==
  ASSUME AiTypeOK, NEW p \in Pedidos, hilo[p].paso = "arranca"
  PROVE  /\ hilo[p].solo \in BOOLEAN /\ hilo[p].marcos \in Marcos
         /\ Conservadas(p) \in Seq(Reading)
         /\ ToSet(Conservadas(p)) = IF hilo[p].solo THEN {r \in ToSet(aiReads.lecturas) : ~r.fallida} ELSE {}
         /\ Apart(aiReads.lecturas, De) => Apart(Conservadas(p), De)
<1>1. hilo[p] \in Acepta
  BY Fases DEF AiTypeOK
<1>2. hilo[p].solo \in BOOLEAN /\ hilo[p].marcos \in Marcos
  BY <1>1 DEF Acepta
<1>3. aiReads.lecturas \in Seq(Reading)
  BY DEF AiTypeOK, AiReads
<1>4. <<>> \in Seq(Reading) /\ ToSet(<<>>) = {} /\ Apart(<<>>, De)
  BY DEF ToSet, Apart
<1>5. QED
  BY <1>2, <1>3, <1>4, LasBuenas DEF Conservadas

LEMMA PrimerosTipos == AiInit => AiTypeOK
<1> SUFFICES ASSUME AiInit PROVE AiTypeOK
  OBVIOUS
<1>1. Hojas \in Marcos
  BY AiReadingAssumption DEF Marcos, Codigos
<1>2. <<>> \in Seq(Reading) /\ <<>> \in Marcos
  BY DEF Marcos
<1>3. aiReads \in AiReads
  BY <1>2 DEF AiInit, AiReads
<1>4. QED
  BY <1>1, <1>3 DEF AiInit, AiTypeOK, Hilo

LEMMA TiposAlReprocesar == AiTypeOK /\ Reprocesar => AiTypeOK'
<1> SUFFICES ASSUME AiTypeOK, Reprocesar PROVE AiTypeOK'
  OBVIOUS
<1>1. PICK presentes \in SUBSET (DOMAIN Hojas) : marcos' = Taking(Hojas, presentes)
  BY DEF Reprocesar
<1>2. Hojas \in Seq(Codigos)
  BY AiReadingAssumption DEF Codigos
<1>3. marcos' \in Marcos
  BY <1>1, <1>2, TakenFrom DEF Marcos
<1>4. QED
  BY <1>3 DEF Reprocesar, memoria, AiTypeOK

(* A step of a thread that writes what the types allow. *)
LEMMA TiposDelHilo ==
  ASSUME AiTypeOK, NEW p \in Pedidos, HiloAvanza(p)
  PROVE  AiTypeOK'
<1> DEFINE rs == aiReads.lecturas
<1>1. /\ rs \in Seq(Reading) /\ aiReads.de \in Marcos /\ aiReads.estado \in {"idle", "running", "done", "cancelled", "failed"}
      /\ aiReads = [estado |-> aiReads.estado, lecturas |-> rs, de |-> aiReads.de]
      /\ <<>> \in Seq(Reading) /\ <<>> \in Marcos
  BY DEF AiTypeOK, AiReads, Marcos
<1>2. ASSUME NEW h \in Hilo, hilo' = [hilo EXCEPT ![p] = h], aiReads' \in AiReads,
             UNCHANGED <<marcos, cuentasA>>, enLectura' \in BOOLEAN, cancelada' \in BOOLEAN,
             mezclada' \in BOOLEAN, atascada' \in BOOLEAN
      PROVE  AiTypeOK'
  BY <1>2 DEF AiTypeOK, cuentasA
<1>3. CASE Vaciar(p)
  <2>1. hilo[p] \in Acepta
    BY <1>3, Fases DEF Vaciar, AiTypeOK
  <2>2. [hilo[p] EXCEPT !.paso = "arranca"] \in Hilo
    BY <2>1 DEF Acepta, Hilo
  <2>3. aiReads' \in AiReads
    BY <1>1, <1>3 DEF Vaciar, AiReads, AiTypeOK
  <2>4. hilo' = [hilo EXCEPT ![p] = [hilo[p] EXCEPT !.paso = "arranca"]]
    BY <1>3 DEF Vaciar
  <2>5. QED
    BY <1>2, <1>3, <2>2, <2>3, <2>4 DEF Vaciar, memoria, AiTypeOK
<1>4. CASE Arrancar(p)
  <2>1. hilo[p].marcos \in Marcos /\ Conservadas(p) \in Seq(Reading)
    BY <1>4, LoConservado DEF Arrancar
  <2>2. aiReads' \in AiReads
    BY <1>4, <2>1 DEF Arrancar, AiReads
  <2>3. [paso |-> "lee", marcos |-> hilo[p].marcos,
         ordena |-> ~(ToSet(hilo[p].marcos) \subseteq Leidas(Conservadas(p)))] \in Hilo
    BY <2>1 DEF Hilo, Lee
  <2>4. mezclada' \in BOOLEAN
    BY <1>4 DEF Arrancar
  <2>5. QED
    BY <1>2, <1>4, <2>2, <2>3, <2>4 DEF Arrancar, memoria, AiTypeOK
<1>5. CASE LeerHoja(p)
  <2>1. PICK fallida \in BOOLEAN :
          aiReads' = [aiReads EXCEPT !.lecturas = Append(rs, Lectura(Head(Pendientes(p)), fallida))]
    BY <1>5 DEF LeerHoja
  <2>2. Pendientes(p) \in Seq(Codigos) /\ Pendientes(p) # <<>>
    BY <1>5, LasPendientes DEF LeerHoja
  <2>3. Head(Pendientes(p)) \in Codigos
    BY <2>2
  <2>4. Lectura(Head(Pendientes(p)), fallida) \in Reading
    BY <2>3 DEF Lectura, Reading
  <2>5. Append(rs, Lectura(Head(Pendientes(p)), fallida)) \in Seq(Reading)
    BY <1>1, <2>4, AppendProperties
  <2>6. aiReads' \in AiReads
    BY <1>1, <2>1, <2>5 DEF AiReads
  <2>7. hilo[p] \in Hilo /\ hilo' = [hilo EXCEPT ![p] = hilo[p]]
    BY <1>5 DEF LeerHoja, AiTypeOK
  <2>8. QED
    BY <1>2, <1>5, <2>6, <2>7 DEF LeerHoja, memoria, AiTypeOK
<1>6. CASE Terminar(p)
  <2>1. hilo[p].marcos \in Marcos
    BY <1>6, LasPendientes DEF Terminar
  <2>2. EnOrden(rs, hilo[p].marcos) \in Seq(Reading)
    BY <1>1, <2>1, OrdenarConserva
  <2>3. Estado(rs, hilo[p].marcos) \in {"done", "cancelled"}
    BY DEF Estado
  <2>4. aiReads' = [aiReads EXCEPT !.estado = Estado(rs, hilo[p].marcos),
                                   !.lecturas = IF hilo[p].ordena THEN EnOrden(rs, hilo[p].marcos) ELSE rs]
    BY <1>6 DEF Terminar
  <2>5. aiReads' \in AiReads
    BY <1>1, <2>2, <2>3, <2>4 DEF AiReads
  <2>6. [paso |-> "termina"] \in Hilo
    BY DEF Hilo, Termina
  <2>7. QED
    BY <1>2, <1>6, <2>5, <2>6 DEF Terminar, memoria, AiTypeOK
<1>7. CASE Soltar(p)
  <2>1. SinHilo \in Hilo
    BY DEF Hilo
  <2>2. QED
    BY <1>2, <1>7, <2>1 DEF Soltar, AiTypeOK
<1>8. QED
  BY <1>3, <1>4, <1>5, <1>6, <1>7 DEF HiloAvanza

LEMMA SiguientesTipos == AiTypeOK /\ [AiNext]_aiVars => AiTypeOK'
<1> SUFFICES ASSUME AiTypeOK, [AiNext]_aiVars PROVE AiTypeOK'
  OBVIOUS
<1>1. SinHilo \in Hilo /\ [paso |-> "termina"] \in Hilo
  BY DEF Hilo, Termina
<1>2. ASSUME NEW p \in Pedidos, StartAiRead(p) PROVE AiTypeOK'
  <2>1. PICK soloFallidas \in BOOLEAN :
          hilo' = [hilo EXCEPT ![p] = [paso |-> "aceptado", solo |-> soloFallidas, marcos |-> marcos]]
    BY <1>2 DEF StartAiRead
  <2>2. [paso |-> "aceptado", solo |-> soloFallidas, marcos |-> marcos] \in Hilo
    BY DEF Hilo, Acepta, AiTypeOK
  <2>3. hilo' \in [Pedidos -> Hilo]
    BY <2>1, <2>2 DEF AiTypeOK
  <2>4. iniciadas' \in Nat
    BY <1>2 DEF StartAiRead, AiTypeOK
  <2>5. QED
    BY <1>2, <2>3, <2>4 DEF StartAiRead, AiTypeOK
<1>3. ASSUME NEW p \in Pedidos, VaciarFalla(p) PROVE AiTypeOK'
  BY <1>1, <1>3 DEF VaciarFalla, memoria, cuentasA, AiTypeOK
<1>4. ASSUME NEW p \in Pedidos, FallarLectura(p) PROVE AiTypeOK'
  <2>1. aiReads' \in AiReads
    BY <1>4 DEF FallarLectura, AiReads, AiTypeOK
  <2>2. QED
    BY <1>1, <1>4, <2>1 DEF FallarLectura, memoria, cuentasA, AiTypeOK
<1>5. CASE CancelAiRead
  BY <1>5 DEF CancelAiRead, cuentasA, AiTypeOK
<1>6. CASE Caer
  <2>1. caidas' \in Nat /\ hilo' \in [Pedidos -> Hilo]
    BY <1>1, <1>6 DEF Caer, AiTypeOK
  <2>2. QED
    BY <1>6, <2>1 DEF Caer, AiTypeOK
<1>7. CASE UNCHANGED aiVars
  BY <1>7 DEF aiVars, AiTypeOK
<1>8. QED
  BY <1>2, <1>3, <1>4, <1>5, <1>6, <1>7, TiposAlReprocesar, TiposDelHilo DEF AiNext

(* Every variable has its type in every reachable state. *)
THEOREM AiReadingTypes == AiSpec => []AiTypeOK
BY PrimerosTipos, SiguientesTipos, PTL DEF AiSpec

-----------------------------------------------------------------------------
(* The invariant. *)

(* What no step of a thread changes about the other requests. *)
LEMMA SolaSeMantiene ==
  ASSUME AiTypeOK, Sola, [AiNext]_aiVars
  PROVE  Sola'
<1>1. \A p \in Pedidos : hilo[p].paso # "libre" => hilo[p] # SinHilo
  BY DEF SinHilo
<1>2. ASSUME NEW p \in Pedidos, NEW h, hilo[p] # SinHilo, hilo' = [hilo EXCEPT ![p] = h], enLectura' = enLectura
      PROVE  Sola'
  BY <1>2 DEF Sola, AiTypeOK
<1>3. ASSUME NEW p \in Pedidos, hilo' = [hilo EXCEPT ![p] = SinHilo], hilo[p] # SinHilo
      PROVE  \A q \in Pedidos : hilo'[q] = SinHilo
  BY <1>3 DEF Sola, AiTypeOK
<1>4. ASSUME NEW p \in Pedidos, StartAiRead(p) PROVE Sola'
  <2>1. \A q \in Pedidos : hilo[q] = SinHilo
    BY <1>4 DEF StartAiRead, Admitir, Sola
  <2>2. PICK h : hilo' = [hilo EXCEPT ![p] = h]
    BY <1>4 DEF StartAiRead
  <2>3. QED
    BY <1>4, <2>1, <2>2 DEF StartAiRead, Sola, AiTypeOK
<1>5. ASSUME NEW p \in Pedidos, HiloAvanza(p) PROVE Sola'
  <2>1. CASE Vaciar(p)
    BY <1>1, <1>2, <2>1 DEF Vaciar, memoria
  <2>2. CASE Arrancar(p)
    BY <1>1, <1>2, <2>2 DEF Arrancar, memoria
  <2>3. CASE LeerHoja(p)
    BY <2>3 DEF LeerHoja, memoria, Sola
  <2>4. CASE Terminar(p)
    BY <1>1, <1>2, <2>4 DEF Terminar, memoria
  <2>5. CASE Soltar(p)
    BY <1>1, <1>3, <2>5 DEF Soltar, Sola
  <2>6. QED
    BY <1>5, <2>1, <2>2, <2>3, <2>4, <2>5 DEF HiloAvanza
<1>6. ASSUME NEW p \in Pedidos, VaciarFalla(p) \/ FallarLectura(p) PROVE Sola'
  BY <1>1, <1>2, <1>6 DEF VaciarFalla, FallarLectura, memoria
<1>7. CASE Caer
  BY <1>7 DEF Caer, Sola
<1>8. CASE Reprocesar \/ CancelAiRead \/ UNCHANGED aiVars
  BY <1>8 DEF Reprocesar, CancelAiRead, memoria, aiVars, Sola
<1>9. QED
  BY <1>4, <1>5, <1>6, <1>7, <1>8 DEF AiNext

(* A sheet that is still to be read has no reading. *)
LEMMA UnaMas ==
  ASSUME NEW rs \in Seq(Reading), Apart(rs, De), NEW h \in Codigos, h \notin Leidas(rs), NEW fallida \in BOOLEAN
  PROVE  LET ts == Append(rs, Lectura(h, fallida))
         IN  /\ ts \in Seq(Reading) /\ Apart(ts, De) /\ Leidas(ts) = Leidas(rs) \cup {h}
             /\ ToSet(ts) = ToSet(rs) \cup {Lectura(h, fallida)}
<1> DEFINE r == Lectura(h, fallida)
           ts == Append(rs, r)
<1>1. r \in Reading /\ r.hoja = h
  BY DEF Lectura, Reading
<1>2. /\ Len(rs) \in Nat /\ DOMAIN rs = 1..Len(rs) /\ ToSet(rs) \subseteq Reading
      /\ \A i \in DOMAIN rs : rs[i] \in Reading
  BY TiposDeLeidas
<1>3. /\ ts \in Seq(Reading) /\ DOMAIN ts = 1..(Len(rs) + 1)
      /\ \A i \in 1..Len(rs) : ts[i] = rs[i]
      /\ ts[Len(rs) + 1] = r
  <2> HIDE DEF r
  <2>1. QED
    BY <1>1, <1>2, AppendProperties, LenProperties
<1> HIDE DEF ts, r
<1>4. \A i \in DOMAIN ts : (i \in DOMAIN rs /\ ts[i] = rs[i]) \/ (i = Len(rs) + 1 /\ ts[i] = r)
  BY <1>2, <1>3
<1>5. \A i \in DOMAIN rs : i \in DOMAIN ts /\ ts[i] = rs[i]
  BY <1>2, <1>3
<1>6. ToSet(ts) = ToSet(rs) \cup {r}
  <2>1. Len(rs) + 1 \in DOMAIN ts
    BY <1>2, <1>3
  <2>2. QED
    BY <1>3, <1>4, <1>5, <2>1 DEF ToSet
<1>7. Leidas(ts) = Leidas(rs) \cup {h}
  BY <1>1, <1>6, LasLeidas
<1>8. \A i \in DOMAIN rs : De[rs[i]] # De[r]
  BY <1>1, <1>2 DEF De, Leidas
<1>9. Apart(ts, De)
  BY <1>4, <1>8 DEF Apart
<1>10. QED
  BY <1>3, <1>6, <1>7, <1>9 DEF ts, r

LEMMA PrimerosDeSuCorrida == AiInit => Sola /\ UnaVez /\ DeSuCorrida
<1> SUFFICES ASSUME AiInit PROVE Sola /\ UnaVez /\ DeSuCorrida
  OBVIOUS
<1>1. \A p \in Pedidos : hilo[p] = SinHilo
  BY DEF AiInit
<1>2. aiReads.lecturas = <<>> /\ aiReads.estado = "idle"
  BY DEF AiInit
<1>3. Leidas(<<>>) = {} /\ Apart(<<>>, De)
  BY DEF Leidas, Apart
<1>4. QED
  BY <1>1, <1>2, <1>3 DEF Sola, UnaVez, DeSuCorrida, SinHilo

(* The ends of a reading: with all the sheets asked for, or cancelled with *)
(* as many readings as sheets, it has them all.                            *)
LEMMA HechaConTodas ==
  ASSUME AiInv, NEW p \in Pedidos, Terminar(p), ~mezclada, aiReads'.estado = "done"
  PROVE  Leidas(aiReads.lecturas) = ToSet(hilo[p].marcos)
<1> DEFINE rs == aiReads.lecturas
           ms == hilo[p].marcos
<1>1. hilo[p].paso = "lee" /\ rs \in Seq(Reading) /\ Apart(rs, De) /\ aiReads.de = ms
  BY DEF Terminar, AiInv, AiTypeOK, AiReads, UnaVez, DeSuCorrida
<1>2. /\ ms \in Marcos /\ Leidas(rs) \subseteq ToSet(ms)
      /\ ToSet(Pendientes(p)) = ToSet(ms) \ Leidas(rs)
  BY <1>1, LasPendientes DEF AiInv, DeSuCorrida
<1>3. CASE Pendientes(p) = <<>>
  <2>1. ToSet(Pendientes(p)) = {}
    BY <1>3 DEF ToSet
  <2>2. QED
    BY <1>2, <2>1
<1>4. CASE cancelada
  <2>1. aiReads'.estado = Estado(rs, ms)
    BY DEF Terminar, AiInv, AiTypeOK, AiReads
  <2>2. ~(Len(rs) < Len(ms))
    BY <1>4, <2>1 DEF Estado
  <2>3. IsFiniteSet(Leidas(rs)) /\ Cardinality(Leidas(rs)) = Len(rs)
    BY <1>1, TantasComoHojas
  <2>4. IsFiniteSet(ToSet(ms)) /\ Cardinality(ToSet(ms)) <= Len(ms) /\ Len(ms) \in Nat
    BY <1>2, NoMasQueLista
  <2>5. Cardinality(Leidas(rs)) \in Nat /\ Cardinality(ToSet(ms)) \in Nat
    BY <2>3, <2>4, FS_CardinalityType
  <2> HIDE DEF rs, ms
  <2>6. /\ Cardinality(Leidas(rs)) <= Cardinality(ToSet(ms))
        /\ Cardinality(ToSet(ms)) = Cardinality(Leidas(rs)) => ToSet(ms) = Leidas(rs)
    BY <1>2, <2>4, FS_Subset
  <2>7. Cardinality(ToSet(ms)) = Cardinality(Leidas(rs))
    BY <2>2, <2>3, <2>4, <2>5, <2>6
  <2>8. QED
    BY <2>6, <2>7 DEF rs, ms
<1>5. QED
  BY <1>3, <1>4 DEF Terminar

(* A step of a thread is of the only reading there is. *)
LEMMA LosDemas ==
  ASSUME AiInv, NEW p \in Pedidos, hilo[p] # SinHilo
  PROVE  \A q \in Pedidos : q # p => hilo[q].paso = "libre"
BY DEF AiInv, Sola, SinHilo

LEMMA DelHilo ==
  ASSUME AiInv, NEW p \in Pedidos, HiloAvanza(p)
  PROVE  UnaVez' /\ DeSuCorrida'
<1> DEFINE rs == aiReads.lecturas
           ms == hilo[p].marcos
<1>1. rs \in Seq(Reading) /\ Apart(rs, De) /\ aiReads.de \in Marcos /\ hilo \in [Pedidos -> Hilo]
  BY DEF AiInv, AiTypeOK, AiReads, UnaVez
<1>2. hilo[p] # SinHilo
  BY DEF HiloAvanza, Vaciar, Arrancar, LeerHoja, Terminar, Soltar, SinHilo
<1>3. \A q \in Pedidos : q # p => hilo[q].paso = "libre"
  BY <1>2, LosDemas
<1>4. Leidas(<<>>) = {} /\ Apart(<<>>, De)
  BY DEF Leidas, Apart
<1>5. ASSUME NEW h, hilo' = [hilo EXCEPT ![p] = h]
      PROVE  hilo'[p] = h /\ \A q \in Pedidos : q # p => hilo'[q].paso = "libre"
  BY <1>1, <1>3, <1>5
<1>6. CASE Vaciar(p)
  <2>1. hilo[p] \in Acepta
    BY <1>1, <1>6, Fases DEF Vaciar
  <2>2. hilo' = [hilo EXCEPT ![p] = [hilo[p] EXCEPT !.paso = "arranca"]]
    BY <1>6 DEF Vaciar
  <2>3. /\ hilo'[p].paso = "arranca" /\ hilo'[p].solo = hilo[p].solo
        /\ \A q \in Pedidos : q # p => hilo'[q].paso = "libre"
    <3> DEFINE h == [hilo[p] EXCEPT !.paso = "arranca"]
    <3>1. h.paso = "arranca" /\ h.solo = hilo[p].solo
      BY <2>1 DEF Acepta
    <3>2. hilo' = [hilo EXCEPT ![p] = h]
      BY <2>2
    <3> HIDE DEF h
    <3>3. QED
      BY <1>5, <3>1, <3>2
  <2>4. CASE hilo[p].solo
    BY <1>6, <2>3, <2>4 DEF Vaciar, AiInv, UnaVez, DeSuCorrida
  <2>5. CASE ~hilo[p].solo
    <3>1. aiReads' = [estado |-> "running", lecturas |-> <<>>, de |-> <<>>]
      BY <1>6, <2>5 DEF Vaciar
    <3>2. aiReads'.estado = "running" /\ aiReads'.lecturas = <<>>
      BY <3>1
    <3>3. QED
      BY <1>4, <2>3, <3>2 DEF UnaVez, DeSuCorrida
  <2>6. QED
    BY <2>4, <2>5
<1>7. CASE Arrancar(p)
  <2>1. /\ Conservadas(p) \in Seq(Reading) /\ Apart(Conservadas(p), De)
        /\ ToSet(Conservadas(p)) \subseteq ToSet(rs)
    BY <1>1, <1>7, LoConservado DEF Arrancar, AiInv
  <2>2. aiReads'.lecturas = Conservadas(p) /\ aiReads'.de = ms /\ aiReads'.estado = "running"
    BY <1>7 DEF Arrancar
  <2>3. hilo'[p].paso = "lee" /\ hilo'[p].marcos = ms /\ \A q \in Pedidos : q # p => hilo'[q].paso = "libre"
    BY <1>5, <1>7 DEF Arrancar
  <2>4. ~mezclada' => Leidas(Conservadas(p)) \subseteq ToSet(ms)
    <3>1. CASE Conservadas(p) = <<>>
      BY <1>4, <3>1
    <3>2. CASE Conservadas(p) # <<>> /\ ~mezclada'
      <4>1. ~mezclada /\ aiReads.de = ms
        BY <1>7, <3>2 DEF Arrancar
      <4>2. Leidas(Conservadas(p)) \subseteq Leidas(rs)
        BY <2>1, LasLeidas
      <4>3. QED
        BY <4>1, <4>2 DEF AiInv, DeSuCorrida
    <3>3. QED
      BY <3>1, <3>2
  <2>5. QED
    BY <2>1, <2>2, <2>3, <2>4 DEF UnaVez, DeSuCorrida
<1>8. CASE LeerHoja(p)
  <2>1. PICK fallida \in BOOLEAN :
          aiReads' = [aiReads EXCEPT !.lecturas = Append(rs, Lectura(Head(Pendientes(p)), fallida))]
    BY <1>8 DEF LeerHoja
  <2>2. /\ hilo[p].paso = "lee" /\ Pendientes(p) \in Seq(Codigos) /\ Pendientes(p) # <<>>
        /\ ToSet(Pendientes(p)) = ToSet(ms) \ Leidas(rs)
    BY <1>8, LasPendientes DEF LeerHoja, AiInv
  <2> DEFINE h == Head(Pendientes(p))
             ts == Append(rs, Lectura(h, fallida))
  <2>3. h \in Codigos /\ h \in ToSet(Pendientes(p))
    <3>1. 1 \in DOMAIN Pendientes(p) /\ h = Pendientes(p)[1] /\ h \in Codigos
      BY <2>2
    <3>2. QED
      BY <3>1 DEF ToSet
  <2>4. Apart(ts, De) /\ Leidas(ts) = Leidas(rs) \cup {h}
    <3> HIDE DEF h
    <3>1. QED
      BY <1>1, <2>2, <2>3, UnaMas
  <2> HIDE DEF ts
  <2>5. /\ aiReads'.lecturas = ts /\ aiReads'.de = aiReads.de /\ aiReads'.estado = aiReads.estado
        /\ hilo' = hilo /\ mezclada' = mezclada
    BY <1>8, <2>1 DEF LeerHoja, AiInv, AiTypeOK, AiReads, ts
  <2>6. aiReads.de = ms /\ aiReads.estado = "running"
    BY <2>2 DEF AiInv, DeSuCorrida
  <2>7. ~mezclada => Leidas(ts) \subseteq ToSet(aiReads.de)
    BY <2>2, <2>3, <2>4, <2>6 DEF AiInv, DeSuCorrida
  <2>8. \A q \in Pedidos : hilo[q].paso # "arranca"
    BY <1>3, <2>2
  <2>9. QED
    BY <2>4, <2>5, <2>6, <2>7, <2>8 DEF AiInv, UnaVez, DeSuCorrida
<1>9. CASE Terminar(p)
  <2> DEFINE ts == IF hilo[p].ordena THEN EnOrden(rs, ms) ELSE rs
  <2>1. ms \in Marcos
    BY <1>9, LasPendientes DEF Terminar, AiInv
  <2>2. Apart(ts, De) /\ ToSet(ts) = ToSet(rs)
    BY <1>1, <2>1, OrdenarConserva
  <2>3. Leidas(ts) = Leidas(rs)
    BY <2>2, LasLeidas
  <2>4. aiReads'.lecturas = ts /\ aiReads'.de = aiReads.de /\ mezclada' = mezclada
    BY <1>9 DEF Terminar, AiInv, AiTypeOK, AiReads
  <2>5. hilo'[p].paso = "termina" /\ \A q \in Pedidos : q # p => hilo'[q].paso = "libre"
    BY <1>5, <1>9 DEF Terminar
  <2>6. aiReads.de = ms
    BY <1>9 DEF Terminar, AiInv, DeSuCorrida
  <2>7. aiReads'.estado = "done" /\ ~mezclada => Leidas(rs) = ToSet(aiReads.de)
    BY <1>9, <2>6, HechaConTodas
  <2> HIDE DEF ts
  <2>8. QED
    BY <2>2, <2>3, <2>4, <2>5, <2>7 DEF AiInv, UnaVez, DeSuCorrida
<1>10. CASE Soltar(p)
  <2>1. \A q \in Pedidos : hilo'[q].paso = "libre"
    BY <1>3, <1>5, <1>10 DEF Soltar, SinHilo
  <2>2. QED
    BY <1>10, <2>1 DEF Soltar, AiInv, UnaVez, DeSuCorrida
<1>11. QED
  BY <1>6, <1>7, <1>8, <1>9, <1>10 DEF HiloAvanza

LEMMA DeCadaPaso == AiInv /\ [AiNext]_aiVars => UnaVez' /\ DeSuCorrida'
<1> SUFFICES ASSUME AiInv, [AiNext]_aiVars PROVE UnaVez' /\ DeSuCorrida'
  OBVIOUS
<1>1. hilo \in [Pedidos -> Hilo] /\ aiReads \in AiReads
  BY DEF AiInv, AiTypeOK
<1>2. ASSUME aiReads' = aiReads, mezclada' = mezclada,
             \A q \in Pedidos : hilo'[q].paso \in {"lee", "arranca"} => hilo'[q] = hilo[q]
      PROVE  UnaVez' /\ DeSuCorrida'
  BY <1>2 DEF AiInv, UnaVez, DeSuCorrida
<1>3. ASSUME NEW p \in Pedidos, StartAiRead(p) PROVE UnaVez' /\ DeSuCorrida'
  BY <1>1, <1>2, <1>3 DEF StartAiRead
<1>4. ASSUME NEW p \in Pedidos, VaciarFalla(p) PROVE UnaVez' /\ DeSuCorrida'
  BY <1>1, <1>2, <1>4 DEF VaciarFalla, SinHilo
<1>5. ASSUME NEW p \in Pedidos, FallarLectura(p) PROVE UnaVez' /\ DeSuCorrida'
  <2>1. hilo[p] # SinHilo
    BY <1>5 DEF FallarLectura, SinHilo
  <2>2. \A q \in Pedidos : hilo'[q].paso \notin {"lee", "arranca"}
    BY <1>1, <1>5, <2>1, LosDemas DEF FallarLectura
  <2>3. /\ aiReads'.lecturas = aiReads.lecturas /\ aiReads'.de = aiReads.de
        /\ aiReads'.estado = "failed" /\ mezclada' = mezclada
    BY <1>1, <1>5 DEF FallarLectura, AiReads
  <2>4. QED
    BY <2>2, <2>3 DEF AiInv, UnaVez, DeSuCorrida
<1>6. CASE Caer
  BY <1>2, <1>6 DEF Caer, SinHilo
<1>7. CASE Reprocesar \/ CancelAiRead \/ UNCHANGED aiVars
  BY <1>2, <1>7 DEF Reprocesar, CancelAiRead, memoria, aiVars
<1>8. QED
  BY <1>3, <1>4, <1>5, <1>6, <1>7, DelHilo DEF AiNext

LEMMA AiInvariante == AiSpec => []AiInv
<1>1. AiInit => AiInv
  BY PrimerosTipos, PrimerosDeSuCorrida DEF AiInv
<1>2. AiInv /\ [AiNext]_aiVars => AiInv'
  BY SiguientesTipos, SolaSeMantiene, DeCadaPaso DEF AiInv
<1>3. QED
  BY <1>1, <1>2, PTL DEF AiSpec

(* Over cancels, failures, resumes, restarts and new runs no sheet is read *)
(* twice, and a reading that ended "done" has all the sheets of its run.   *)
THEOREM NoSheetTwice == AiSpec => []EachSheetOnce
<1>1. AiInv => EachSheetOnce
  <2> SUFFICES ASSUME AiInv PROVE EachSheetOnce
    OBVIOUS
  <2>1. aiReads.lecturas \in Seq(Reading) /\ Apart(aiReads.lecturas, De)
    BY DEF AiInv, AiTypeOK, AiReads, UnaVez
  <2>2. Cardinality(Leidas(aiReads.lecturas)) = Len(aiReads.lecturas)
    BY <2>1, TantasComoHojas
  <2>3. QED
    BY <2>2 DEF AiInv, DeSuCorrida, EachSheetOnce
<1>2. QED
  BY <1>1, AiInvariante, PTL

(* No step but the emptying of a reading from the start loses a good       *)
(* reading: neither the resume, which drops the failures, nor the sort.    *)
THEOREM WhatWasReadStays == AiSpec => ReadingsKept
<1> DEFINE Kept == \/ \E p \in Pedidos : Vaciar(p) /\ ~hilo[p].solo
                   \/ ToSet(Buenas(aiReads.lecturas)) \subseteq ToSet(Buenas(aiReads'.lecturas))
<1>1. AiInv /\ AiInv' /\ [AiNext]_aiVars => [Kept]_aiVars
  <2> SUFFICES ASSUME AiInv, AiInv', AiNext PROVE Kept
    OBVIOUS
  <2> DEFINE rs == aiReads.lecturas
             ts == aiReads'.lecturas
  <2>1. /\ rs \in Seq(Reading) /\ ts \in Seq(Reading) /\ hilo \in [Pedidos -> Hilo]
        /\ Apart(rs, De)
    BY DEF AiInv, AiTypeOK, AiReads, UnaVez
  <2>2. /\ ToSet(Buenas(rs)) = {r \in ToSet(rs) : ~r.fallida}
        /\ ToSet(Buenas(ts)) = {r \in ToSet(ts) : ~r.fallida}
    BY <2>1, LasBuenas
  <2>3. {r \in ToSet(rs) : ~r.fallida} \subseteq ToSet(ts) => Kept
    BY <2>2
  <2>4. ASSUME ts = rs PROVE Kept
    BY <2>4
  <2>5. ASSUME NEW p \in Pedidos, Vaciar(p) PROVE Kept
    BY <2>4, <2>5 DEF Vaciar
  <2>6. ASSUME NEW p \in Pedidos, Arrancar(p) PROVE Kept
    <3>1. ts = Conservadas(p)
      BY <2>6 DEF Arrancar
    <3>2. ToSet(ts) = IF hilo[p].solo THEN {r \in ToSet(rs) : ~r.fallida} ELSE {}
      BY <2>6, <3>1, LoConservado DEF Arrancar, AiInv
    <3>3. CASE hilo[p].solo
      BY <2>3, <3>2, <3>3
    <3>4. CASE ~hilo[p].solo
      <4>1. rs = <<>>
        BY <2>6, <3>4 DEF Arrancar, AiInv, DeSuCorrida
      <4>2. ToSet(rs) = {}
        BY <4>1 DEF ToSet
      <4>3. QED
        BY <2>3, <4>2
    <3>5. QED
      BY <3>3, <3>4
  <2>7. ASSUME NEW p \in Pedidos, LeerHoja(p) PROVE Kept
    <3>1. PICK fallida \in BOOLEAN :
            aiReads' = [aiReads EXCEPT !.lecturas = Append(rs, Lectura(Head(Pendientes(p)), fallida))]
      BY <2>7 DEF LeerHoja
    <3>2. hilo[p].paso = "lee" /\ Pendientes(p) \in Seq(Codigos) /\ Pendientes(p) # <<>>
          /\ ToSet(Pendientes(p)) = ToSet(hilo[p].marcos) \ Leidas(rs)
      BY <2>7, LasPendientes DEF LeerHoja, AiInv
    <3> DEFINE h == Head(Pendientes(p))
    <3>3. 1 \in DOMAIN Pendientes(p) /\ h = Pendientes(p)[1] /\ h \in Codigos
      BY <3>2
    <3>4. h \in Codigos /\ h \notin Leidas(rs)
      BY <3>2, <3>3 DEF ToSet
    <3>5. ts = Append(rs, Lectura(h, fallida))
      BY <3>1 DEF AiInv, AiTypeOK, AiReads
    <3> HIDE DEF h
    <3>6. ToSet(ts) = ToSet(rs) \cup {Lectura(h, fallida)}
      BY <2>1, <3>4, <3>5, UnaMas
    <3>7. QED
      BY <2>3, <3>6
  <2>8. ASSUME NEW p \in Pedidos, Terminar(p) PROVE Kept
    <3>1. hilo[p].marcos \in Marcos
      BY <2>8, LasPendientes DEF Terminar, AiInv
    <3>2. ts = IF hilo[p].ordena THEN EnOrden(rs, hilo[p].marcos) ELSE rs
      BY <2>8 DEF Terminar, AiInv, AiTypeOK, AiReads
    <3>3. ToSet(ts) = ToSet(rs)
      BY <2>1, <3>1, <3>2, OrdenarConserva
    <3>4. QED
      BY <2>3, <3>3
  <2>9. ASSUME NEW p \in Pedidos, FallarLectura(p) PROVE Kept
    BY <2>4, <2>9 DEF FallarLectura, AiInv, AiTypeOK, AiReads
  <2>10. ASSUME NEW p \in Pedidos, StartAiRead(p) \/ VaciarFalla(p) \/ Soltar(p) PROVE Kept
    BY <2>4, <2>10 DEF StartAiRead, VaciarFalla, Soltar
  <2>11. CASE Reprocesar \/ CancelAiRead \/ Caer
    BY <2>4, <2>11 DEF Reprocesar, CancelAiRead, Caer
  <2>12. QED
    BY <2>5, <2>6, <2>7, <2>8, <2>9, <2>10, <2>11 DEF AiNext, HiloAvanza
<1>2. QED
  BY <1>1, AiInvariante, PTL DEF AiSpec, ReadingsKept

=============================================================================

------------------------------ MODULE AiReading ------------------------------
(***************************************************************************)
(* The reading of the sheets by a model: the request that starts it, the   *)
(* thread that reads sheet after sheet and keeps what it read, the cancel  *)
(* and the resume of the failed sheets (apps/api/routes/ai.py,             *)
(* llm/service.py, llm/reader.py).                                         *)
(*                                                                         *)
(* ai_reads.json outlives the run whose sheets were read, and the next run *)
(* may have other sheets.                                                  *)
(***************************************************************************)
EXTENDS Integers, Sequences, FiniteSets, SequencesExt, Selection

CONSTANTS Hojas,        \* the sheets a run may have, in their order
          Pedidos,      \* requests that start a reading
          MaxCorridas,  \* bound: runs published
          MaxLecturas,  \* bound: readings started
          MaxCaidas     \* bound: restarts of the process

ASSUME AiReadingAssumption ==
  /\ Hojas \in Seq(ToSet(Hojas)) /\ IsInjective(Hojas)
  /\ {MaxCorridas, MaxLecturas, MaxCaidas} \subseteq Nat

VARIABLES marcos,     \* disk: the sheets of the published run
          corridas,   \* runs published so far
          aiReads,    \* disk: ai_reads.json
          enLectura,  \* memory: the project is in _RUNNING
          cancelada,  \* memory: the event in _CANCEL is set
          hilo,       \* memory: [request -> its thread]
          iniciadas,  \* readings started
          caidas,     \* restarts so far
          mezclada,   \* history: the reading was resumed on another run's sheets
          atascada    \* history: a request that was admitted ended without its thread

aiVars == <<marcos, corridas, aiReads, enLectura, cancelada, hilo, iniciadas, caidas, mezclada, atascada>>
memoria == <<enLectura, cancelada>>
cuentasA == <<corridas, iniciadas, caidas>>

Codigos == ToSet(Hojas)
SinHilo == [paso |-> "libre"]

\* A SheetReading is its sheet, and whether it is a recorded failure.
Lectura(h, fallida) == [hoja |-> h, fallida |-> fallida]
Buenas(rs) == Taking(rs, {i \in DOMAIN rs : ~rs[i].fallida})
Leidas(rs) == {rs[i].hoja : i \in DOMAIN rs}
\* The sort of Python: by the place of the sheet, and after them those that are not there.
Lugar(h, orden) == IF h \in ToSet(orden) THEN CHOOSE i \in DOMAIN orden : orden[i] = h
                   ELSE Len(orden) + 1
EnOrden(rs, orden) ==
  Sorted(rs, [i \in DOMAIN rs |-> Lugar(rs[i].hoja, orden)], Len(orden) + 1)

-----------------------------------------------------------------------------
AiInit ==
  /\ marcos = Hojas /\ corridas = 1
  /\ aiReads = [estado |-> "idle", lecturas |-> <<>>, de |-> <<>>]
  /\ enLectura = FALSE /\ cancelada = FALSE
  /\ hilo = [p \in Pedidos |-> SinHilo] /\ iniciadas = 0 /\ caidas = 0
  /\ mezclada = FALSE /\ atascada = FALSE

\* The project is processed again, and the run has the sheets there are now.
Reprocesar ==
  \E presentes \in SUBSET (DOMAIN Hojas) :
    /\ corridas < MaxCorridas /\ corridas' = corridas + 1
    /\ marcos' = Taking(Hojas, presentes)
    /\ UNCHANGED <<aiReads, memoria, hilo, iniciadas, caidas, mezclada, atascada>>

\* Variant: nobody looks whether a reading is in progress.
AdmitirSiempre(p) == hilo[p] = SinHilo /\ iniciadas < MaxLecturas

Admitir(p) == hilo[p] = SinHilo /\ iniciadas < MaxLecturas /\ ~enLectura

\* start_ai_read, under _LOCK.  The run is the one published when the request came.
StartAiRead(p) ==
  \E soloFallidas \in BOOLEAN :
    /\ Admitir(p)
    /\ iniciadas' = iniciadas + 1 /\ enLectura' = TRUE /\ cancelada' = FALSE
    /\ hilo' = [hilo EXCEPT ![p] = [paso |-> "aceptado", solo |-> soloFallidas, marcos |-> marcos]]
    /\ UNCHANGED <<marcos, corridas, aiReads, caidas, mezclada, atascada>>

\* Unless it resumes, the readings are emptied, and the thread starts.
Vaciar(p) ==
  /\ hilo[p].paso = "aceptado"
  /\ aiReads' = IF hilo[p].solo THEN aiReads
                ELSE [estado |-> "running", lecturas |-> <<>>, de |-> <<>>]
  /\ hilo' = [hilo EXCEPT ![p].paso = "arranca"]
  /\ UNCHANGED <<marcos, memoria, cuentasA, mezclada, atascada>>

\* The file cannot be written: the request ends, and nobody lets go of the project.
VaciarFalla(p) ==
  /\ hilo[p].paso = "aceptado" /\ ~hilo[p].solo
  /\ hilo' = [hilo EXCEPT ![p] = SinHilo] /\ atascada' = TRUE
  /\ UNCHANGED <<marcos, aiReads, memoria, cuentasA, mezclada>>

Conservadas(p) == IF hilo[p].solo THEN Buenas(aiReads.lecturas) ELSE <<>>

\* run_ai_reading: what is kept is saved before the first sheet is asked for.  When there
\* is none to ask for, the readings are not put in order at the end.
Arrancar(p) ==
  /\ hilo[p].paso = "arranca"
  /\ mezclada' = (Conservadas(p) # <<>> /\ (mezclada \/ aiReads.de # hilo[p].marcos))
  /\ aiReads' = [estado |-> "running", lecturas |-> Conservadas(p), de |-> hilo[p].marcos]
  /\ hilo' = [hilo EXCEPT ![p] = [paso |-> "lee", marcos |-> hilo[p].marcos,
                                  ordena |-> ~(ToSet(hilo[p].marcos) \subseteq Leidas(Conservadas(p)))]]
  /\ UNCHANGED <<marcos, memoria, cuentasA, atascada>>

Pendientes(p) ==
  LET ms == hilo[p].marcos IN
  Taking(ms, {i \in DOMAIN ms : ms[i] \notin Leidas(aiReads.lecturas)})

\* The next sheet is asked for; the answer, or the failure that is left after its
\* retries, is kept at once.
LeerHoja(p) ==
  /\ hilo[p].paso = "lee" /\ Pendientes(p) # <<>> /\ ~cancelada
  /\ \E fallida \in BOOLEAN :
       aiReads' = [aiReads EXCEPT !.lecturas = Append(@, Lectura(Head(Pendientes(p)), fallida))]
  /\ UNCHANGED <<marcos, memoria, hilo, cuentasA, mezclada, atascada>>

\* Variant: a partial reading is done too.
SiempreHecha(rs, orden) == "done"

\* run_ai_reading counts the readings against the sheets.
Estado(rs, orden) == IF cancelada /\ Len(rs) < Len(orden) THEN "cancelled" ELSE "done"

Terminar(p) ==
  /\ hilo[p].paso = "lee" /\ (cancelada \/ Pendientes(p) = <<>>)
  /\ aiReads' = [aiReads EXCEPT !.estado = Estado(aiReads.lecturas, hilo[p].marcos),
                                !.lecturas = IF hilo[p].ordena THEN EnOrden(@, hilo[p].marcos) ELSE @]
  /\ hilo' = [hilo EXCEPT ![p] = [paso |-> "termina"]]
  /\ UNCHANGED <<marcos, memoria, cuentasA, mezclada, atascada>>

\* A sheet that cannot be rendered, or whose reading cannot be saved, ends the reading.
FallarLectura(p) ==
  /\ hilo[p].paso = "lee"
  /\ aiReads' = [aiReads EXCEPT !.estado = "failed"]
  /\ hilo' = [hilo EXCEPT ![p] = [paso |-> "termina"]]
  /\ UNCHANGED <<marcos, memoria, cuentasA, mezclada, atascada>>

\* Variant: the project stays in _RUNNING.
NoSoltar(p) ==
  /\ hilo[p].paso = "termina" /\ hilo' = [hilo EXCEPT ![p] = SinHilo]
  /\ UNCHANGED <<marcos, aiReads, memoria, cuentasA, mezclada, atascada>>

\* The finally of the thread.
Soltar(p) ==
  /\ hilo[p].paso = "termina" /\ hilo' = [hilo EXCEPT ![p] = SinHilo]
  /\ enLectura' = FALSE /\ cancelada' = FALSE
  /\ UNCHANGED <<marcos, aiReads, cuentasA, mezclada, atascada>>

CancelAiRead ==
  /\ enLectura /\ ~cancelada /\ cancelada' = TRUE
  /\ UNCHANGED <<marcos, aiReads, enLectura, hilo, cuentasA, mezclada, atascada>>

\* The process stops, with its threads, and starts again.
Caer ==
  /\ caidas < MaxCaidas /\ enLectura /\ caidas' = caidas + 1
  /\ enLectura' = FALSE /\ cancelada' = FALSE /\ hilo' = [p \in Pedidos |-> SinHilo]
  /\ atascada' = FALSE
  /\ UNCHANGED <<marcos, corridas, aiReads, iniciadas, mezclada>>

HiloAvanza(p) ==
  Vaciar(p) \/ Arrancar(p) \/ LeerHoja(p) \/ Terminar(p) \/ Soltar(p)

AiNext ==
  \/ Reprocesar \/ CancelAiRead \/ Caer
  \/ \E p \in Pedidos : StartAiRead(p) \/ VaciarFalla(p) \/ HiloAvanza(p) \/ FallarLectura(p)

AiSpec == AiInit /\ [][AiNext]_aiVars

-----------------------------------------------------------------------------
(* Properties. *)

\* Over failures, cancels, resumes, restarts and new runs no sheet is read twice, and a
\* reading that ended "done" has the sheets of its run (run_ai_reading: "the sheets already
\* read keep their readings").  The code does not keep the second when it resumes a
\* reading of another run, whose readings it counts too.
EachSheetOnce ==
  LET rs == aiReads.lecturas IN
  /\ Cardinality(Leidas(rs)) = Len(rs)
  /\ aiReads.estado = "done" /\ ~mezclada => Leidas(rs) = ToSet(aiReads.de)

\* A sheet that was read stays read until somebody asks for the whole reading again: a
\* cancel, a failure, a resume, a restart or a second request never loses it
\* (cancel_ai_read: "what was already read stays").
ReadingsKept ==
  [][\/ \E p \in Pedidos : Vaciar(p) /\ ~hilo[p].solo
     \/ ToSet(Buenas(aiReads.lecturas)) \subseteq ToSet(Buenas(aiReads'.lecturas))]_aiVars

\* A project does not stay closed to new readings: whatever the reader answers, and
\* wherever it fails, the reading in progress ends.  The code owes this to a "finally"
\* that only begins with the thread.
ReadingEnds == enLectura ~> (~enLectura \/ atascada)
=============================================================================

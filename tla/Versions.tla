------------------------------ MODULE Versions -------------------------------
(***************************************************************************)
(* The saved versions of a presupuesto: versions/index.json, one file per  *)
(* version, and the requests that save, restore and delete them under the  *)
(* project's recompute lock, against the job, which saves the presupuesto  *)
(* it is about to replace without that lock (apps/api/routes/versions.py,  *)
(* costing/versions.py, apps/api/jobs.py).                                 *)
(*                                                                         *)
(* The decisions of a project are its reviews and its parameters, each in  *)
(* a file of its own.  A report is represented by the run and the          *)
(* decisions it was computed from.                                         *)
(***************************************************************************)
EXTENDS Integers, Sequences, FiniteSets, SequencesExt

CONSTANTS Personas,       \* callers with a request in progress
          Klave,          \* the job, as an author of versions
          Valores,        \* what reviews and parameters may hold
          MaxVersiones,   \* bound: versions
          MaxReprocesos,  \* bound: runs of the job
          MaxCambiosV,    \* bound: edits of the decisions
          MaxCortes       \* bound: restarts of the process

ASSUME VersionsAssumption ==
  /\ Klave \notin Personas /\ Valores # {}
  /\ {MaxVersiones, MaxReprocesos, MaxCambiosV, MaxCortes} \subseteq Nat

VARIABLES revisiones, \* disk: reviews.json
          parametros, \* disk: costing_overrides.json
          reporte,    \* disk: the report that is shown
          indice,     \* disk: versions/index.json
          archivo,    \* disk: [id -> the version's file]
          cerrojo,    \* memory: who holds project_recompute_lock
          gestion,    \* memory: [author -> what is left of the request, or of the job]
          ediciones,  \* edits, runs, restarts and identifiers so far
          borradas,   \* history: the ids somebody asked to delete
          guardadas,  \* history: the ids whose saving was completed
          repuestas,  \* history: what restores have replaced, with the id it was saved under
          pisado,     \* history: an index was rewritten that had changed since it was read
          alterado    \* history: the report has changed since the job began

versionVars == <<revisiones, parametros, reporte, indice, archivo, cerrojo, gestion, ediciones,
                 borradas, guardadas, repuestas, pisado, alterado>>
enDisco == <<revisiones, parametros, reporte, indice, archivo>>
historiaV == <<borradas, guardadas, repuestas, pisado, alterado>>

Autores == Personas \cup {Klave}
Ninguno == [nadie |-> TRUE]
ASSUME NingunoAssumption == Ninguno \notin Personas
EnCalma == [paso |-> "libre"]
Listadas == {indice[i].id : i \in DOMAIN indice}
Ids == 1..MaxVersiones
NumeroMayor(s) == IF s = <<>> THEN 0 ELSE Max({s[i].numero : i \in DOMAIN s})
Estampa == [reporte |-> reporte, revisiones |-> revisiones, parametros |-> parametros]
Calculado(run, r, p) == [run |-> run, revisiones |-> r, parametros |-> p]

-----------------------------------------------------------------------------
\* A project whose first run is published.
VersionsInit ==
  /\ LET v == CHOOSE x \in Valores : TRUE IN
     revisiones = v /\ parametros = v /\ reporte = Calculado(1, v, v)
  /\ indice = <<>> /\ archivo = [i \in Ids |-> Ninguno]
  /\ cerrojo = Ninguno /\ gestion = [a \in Autores |-> EnCalma]
  /\ ediciones = [cambios |-> 0, corridas |-> 1, cortes |-> 0, ids |-> 0]
  /\ borradas = {} /\ guardadas = {} /\ repuestas = {} /\ pisado = FALSE /\ alterado = FALSE

Va(a, t) == gestion' = [gestion EXCEPT ![a] = t]
Suelta(a) == cerrojo' = IF cerrojo = a THEN Ninguno ELSE cerrojo
Toma(a) == cerrojo = Ninguno /\ cerrojo' = a

\* The engineer edits a decision, and the report is recomputed, all under the lock.
Editar(a) ==
  \E v \in Valores :
    /\ gestion[a] = EnCalma /\ cerrojo = Ninguno /\ ediciones.cambios < MaxCambiosV
    /\ ediciones' = [ediciones EXCEPT !.cambios = @ + 1]
    /\ \/ revisiones' = v /\ UNCHANGED parametros
       \/ parametros' = v /\ UNCHANGED revisiones
    /\ reporte' = Calculado(reporte.run, revisiones', parametros') /\ alterado' = TRUE
    /\ UNCHANGED <<indice, archivo, cerrojo, gestion, borradas, guardadas, repuestas, pisado>>

-----------------------------------------------------------------------------
(* save_version: the index is read, the file written, the index rewritten. *)

\* Variant: the number of the last one.
NumeroRepetido(s) == NumeroMayor(s)

SiguienteNumero(s) == NumeroMayor(s) + 1

\* What is saved is read with the index, and gets an identifier of its own.
LeerIndice(a, luego, etiqueta, version) ==
  /\ ediciones.ids < MaxVersiones /\ ediciones' = [ediciones EXCEPT !.ids = @ + 1]
  /\ Va(a, [paso |-> "indice", id |-> ediciones'.ids, leido |-> indice, luego |-> luego,
            etiqueta |-> etiqueta, estampa |-> Estampa, version |-> version])

EscribirVersion(a) ==
  /\ gestion[a].paso = "indice"
  /\ archivo' = [archivo EXCEPT ![gestion[a].id] = gestion[a].estampa]
  /\ Va(a, [gestion[a] EXCEPT !.paso = "archivo"])
  /\ UNCHANGED <<revisiones, parametros, reporte, indice, cerrojo, ediciones, historiaV>>

EscribirIndice(a) ==
  LET t == gestion[a]
      resumen == [id |-> t.id, numero |-> SiguienteNumero(t.leido), etiqueta |-> t.etiqueta,
                  run |-> t.estampa.reporte.run] IN
  /\ t.paso = "archivo"
  /\ indice' = Append(t.leido, resumen)
  /\ pisado' = (pisado \/ indice # t.leido)
  /\ guardadas' = guardadas \cup {t.id}
  /\ Va(a, [t EXCEPT !.paso = t.luego])
  /\ UNCHANGED <<revisiones, parametros, reporte, archivo, cerrojo, ediciones, borradas, repuestas, alterado>>

Acabar(a) ==
  /\ gestion[a].paso = "hecho" /\ Va(a, EnCalma) /\ Suelta(a)
  /\ UNCHANGED <<enDisco, ediciones, historiaV>>

CreateVersion(a) ==
  /\ gestion[a] = EnCalma /\ Toma(a) /\ LeerIndice(a, "hecho", "de una persona", Ninguno)
  /\ UNCHANGED <<enDisco, historiaV>>

-----------------------------------------------------------------------------
(* restore_version. *)

\* The version is loaded before the lock is asked for.
PedirRestaurar(a) ==
  \E id \in Ids :
    /\ gestion[a] = EnCalma /\ archivo[id] # Ninguno
    /\ Va(a, [paso |-> "espera", version |-> archivo[id]])
    /\ UNCHANGED <<enDisco, cerrojo, ediciones, historiaV>>

\* Variant: the parameters are restored before anything is saved.
TomarSinGuardar(a) ==
  /\ gestion[a].paso = "espera" /\ Toma(a) /\ parametros' = gestion[a].version.parametros
  /\ LeerIndice(a, "restaura", "antes de restaurar", gestion[a].version)
  /\ UNCHANGED <<revisiones, reporte, indice, archivo, historiaV>>

TomarYGuardar(a) ==
  /\ gestion[a].paso = "espera" /\ Toma(a)
  /\ LeerIndice(a, "restaura", "antes de restaurar", gestion[a].version)
  /\ UNCHANGED <<enDisco, historiaV>>

\* save_reviews, save_overrides, recompute_and_persist.
RestaurarRevisiones(a) ==
  /\ gestion[a].paso = "restaura"
  /\ repuestas' = repuestas \cup
       {[id |-> gestion[a].id, revisiones |-> revisiones, parametros |-> parametros]}
  /\ revisiones' = gestion[a].version.revisiones
  /\ Va(a, [gestion[a] EXCEPT !.paso = "parametros"])
  /\ UNCHANGED <<parametros, reporte, indice, archivo, cerrojo, ediciones, borradas, guardadas, pisado,
                 alterado>>

RestaurarParametros(a) ==
  /\ gestion[a].paso = "parametros"
  /\ parametros' = gestion[a].version.parametros
  /\ Va(a, [gestion[a] EXCEPT !.paso = "recalcula"])
  /\ UNCHANGED <<revisiones, reporte, indice, archivo, cerrojo, ediciones, historiaV>>

\* The recomputation, which may fail: then the old report stays.
Recalcular(a) ==
  /\ gestion[a].paso = "recalcula"
  /\ reporte' \in {reporte, Calculado(reporte.run, revisiones, parametros)}
  /\ Va(a, [paso |-> "hecho"]) /\ alterado' = TRUE
  /\ UNCHANGED <<revisiones, parametros, indice, archivo, cerrojo, ediciones, borradas, guardadas,
                 repuestas, pisado>>

-----------------------------------------------------------------------------
(* delete_version: the file goes first, and then the index. *)

RemoveVersion(a) ==
  \E id \in Listadas :
    /\ gestion[a] = EnCalma /\ Toma(a)
    /\ Va(a, [paso |-> "borra", id |-> id, leido |-> indice])
    /\ borradas' = borradas \cup {id}
    /\ UNCHANGED <<enDisco, ediciones, guardadas, repuestas, pisado, alterado>>

BorrarArchivo(a) ==
  /\ gestion[a].paso = "borra"
  /\ archivo' = [archivo EXCEPT ![gestion[a].id] = Ninguno]
  /\ Va(a, [gestion[a] EXCEPT !.paso = "quita"])
  /\ UNCHANGED <<revisiones, parametros, reporte, indice, cerrojo, ediciones, historiaV>>

\* The list that was read has one entry with that id (a uuid).
QuitarDelIndice(a) ==
  /\ gestion[a].paso = "quita"
  /\ \E i \in DOMAIN gestion[a].leido :
       /\ gestion[a].leido[i].id = gestion[a].id
       /\ indice' = RemoveAt(gestion[a].leido, i)
  /\ pisado' = (pisado \/ indice # gestion[a].leido)
  /\ Va(a, [paso |-> "hecho"])
  /\ UNCHANGED <<revisiones, parametros, reporte, archivo, cerrojo, ediciones, borradas, guardadas,
                 repuestas, alterado>>

-----------------------------------------------------------------------------
(* The job, which holds no lock. *)

\* The pipeline reads the decisions that its report is computed from.
Correr ==
  /\ gestion[Klave] = EnCalma /\ ediciones.corridas <= MaxReprocesos
  /\ ediciones' = [ediciones EXCEPT !.corridas = @ + 1]
  /\ Va(Klave, [paso |-> "corre", version |-> Calculado(ediciones.corridas + 1, revisiones, parametros)])
  /\ alterado' = FALSE
  /\ UNCHANGED <<enDisco, cerrojo, borradas, guardadas, repuestas, pisado>>

\* Variant: any version of the run it replaces is enough.
YaHay(run) == \E i \in DOMAIN indice : indice[i].run = run

YaEsta(run) == \E i \in DOMAIN indice : indice[i].etiqueta = "antes de reprocesar" /\ indice[i].run = run

\* snapshot_before_reprocess: once for each run it replaces.
SnapshotBeforeReprocess ==
  /\ gestion[Klave].paso = "corre"
  /\ IF YaEsta(reporte.run)
     THEN Va(Klave, [gestion[Klave] EXCEPT !.paso = "publica"]) /\ UNCHANGED ediciones
     ELSE LeerIndice(Klave, "publica", "antes de reprocesar", gestion[Klave].version)
  /\ UNCHANGED <<enDisco, cerrojo, historiaV>>

Publicar ==
  /\ gestion[Klave].paso = "publica"
  /\ reporte' = gestion[Klave].version
  /\ Va(Klave, EnCalma)
  /\ UNCHANGED <<revisiones, parametros, indice, archivo, cerrojo, ediciones, historiaV>>

\* The process stops, wherever its requests and its job are, and starts again.
CortarVersion ==
  /\ ediciones.cortes < MaxCortes /\ \E a \in Autores : gestion[a] # EnCalma
  /\ ediciones' = [ediciones EXCEPT !.cortes = @ + 1]
  /\ gestion' = [a \in Autores |-> EnCalma] /\ cerrojo' = Ninguno
  /\ UNCHANGED <<enDisco, historiaV>>

VersionsNext ==
  \/ Correr \/ SnapshotBeforeReprocess \/ Publicar \/ CortarVersion
  \/ \E a \in Personas :
       \/ Editar(a) \/ CreateVersion(a) \/ PedirRestaurar(a) \/ TomarYGuardar(a)
       \/ RestaurarRevisiones(a) \/ RestaurarParametros(a) \/ Recalcular(a)
       \/ RemoveVersion(a) \/ BorrarArchivo(a) \/ QuitarDelIndice(a) \/ Acabar(a)
  \/ \E a \in Autores : EscribirVersion(a) \/ EscribirIndice(a)

VersionsSpec == VersionsInit /\ [][VersionsNext]_versionVars

-----------------------------------------------------------------------------
(* Properties. *)

\* What a restore replaces, its reviews and its parameters together, is in a version that
\* is listed and can be loaded, until somebody deletes it: also when the restore fails,
\* or the process stops, half way (restore_version: "The current state is saved first as
\* its own version, so nothing is lost by restoring").
RestoringLosesNothing ==
  ~pisado =>
    \A r \in repuestas :
      r.id \notin borradas =>
        /\ r.id \in Listadas
        /\ archivo[r.id].revisiones = r.revisiones /\ archivo[r.id].parametros = r.parametros

\* As long as no index was rewritten over another, the list has every version that was
\* saved and nobody deleted, each with its file, in the order of numbers that tell two
\* versions apart; and a file is missing only if somebody asked to delete its version.
ListIsTrue ==
  /\ \A id \in Listadas : archivo[id] = Ninguno => id \in borradas
  /\ ~pisado =>
       /\ guardadas \ borradas \subseteq Listadas
       /\ \A i, j \in DOMAIN indice : i < j => indice[i].numero < indice[j].numero

\* A run replaces a report only when that report, as it is shown, is in a version that is
\* listed (snapshot_before_reprocess: "Keep the presupuesto as it stood before a new run
\* replaces it").  The code keeps this unless a restart cut an earlier attempt, whose
\* version it takes for good, the report changed while the job ran, an index was
\* overwritten or versions were deleted.
ReplacedRunIsKept ==
  [][(Publicar /\ ~pisado /\ ~alterado /\ ediciones.cortes = 0 /\ borradas = {}) =>
       \E id \in Listadas : archivo[id].reporte = reporte]_versionVars
=============================================================================

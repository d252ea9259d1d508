----------------------------- MODULE SheetFiles ------------------------------
(***************************************************************************)
(* The sheets of a project: the files under drawings/, the manifest that   *)
(* names them, the requests that add, replace and retire sheets or edit    *)
(* the manifest, and the processing job that reads the sheets              *)
(* (apps/api/routes/projects.py, ingestion/project_loader.py, pipeline.py). *)
(*                                                                         *)
(* Uploads are awaited, and the other handlers run in threads, so that     *)
(* requests and the job interleave between any two of the steps below.     *)
(***************************************************************************)
EXTENDS Integers, Sequences, FiniteSets, SequencesExt

CONSTANTS Nombres,        \* names a sheet may have
          Iniciales,      \* the sheets the project is created with
          Solicitudes,    \* requests that may be in progress
          MaxHojas,       \* MAX_FILES_PER_PROJECT
          MaxArchivos,    \* bound: files of one upload
          MaxSolicitudes, \* bound: requests begun
          MaxTrabajos     \* bound: jobs begun

ASSUME SheetFilesAssumption ==
  /\ IsFiniteSet(Nombres) /\ Iniciales \subseteq Nombres /\ Iniciales # {}
  /\ {MaxHojas, MaxArchivos, MaxSolicitudes, MaxTrabajos} \subseteq Nat

VARIABLES hojas,       \* disk: [name -> content of the sheet, or NoEsta]
          manifiesto,  \* disk: the manifest: the sheets it names, and the project's name
          leido,       \* disk: the sheets the published run was made of
          trabajo,     \* the job of the project
          solicitud,   \* [request -> what is left of it]
          llegadas,    \* requests and jobs begun
          intercalado, \* history: a job began while a change was in progress
          pisada,      \* history: a manifest was rewritten that had changed since it was read
          encontrados  \* history: two changes of the sheets were in progress at a time

sheetVars == <<hojas, manifiesto, leido, trabajo, solicitud, llegadas, intercalado, pisada, encontrados>>
flagsH == <<intercalado, pisada, encontrados>>

NoEsta == 0
Presentes(hs) == {n \in Nombres : hs[n] # NoEsta}
Quieta == [paso |-> "libre"]
Ocioso == [paso |-> "nada", fallo |-> FALSE]
SinLeer == [paso |-> "nada", fallo |-> TRUE]
Activo == trabajo.paso # "nada"
Cambiando(r) == solicitud[r] # Quieta /\ solicitud[r].que # "nombre"
Es(r, t) == solicitud' = [solicitud EXCEPT ![r] = t]
Nombrar(hs, nombre) == [hojas |-> Presentes(hs), nombre |-> nombre]

-----------------------------------------------------------------------------
SheetsInit ==
  /\ hojas = [n \in Nombres |-> IF n \in Iniciales THEN 1 ELSE NoEsta]
  /\ manifiesto = Nombrar(hojas, 0) /\ leido = hojas
  /\ trabajo = Ocioso /\ solicitud = [r \in Solicitudes |-> Quieta]
  /\ llegadas = [solicitudes |-> 0, trabajos |-> 0]
  /\ intercalado = FALSE /\ pisada = FALSE /\ encontrados = FALSE

-----------------------------------------------------------------------------
(* The job. *)

\* JOB_STORE.enqueue: while there is a job, that job is the answer.  With the queue full
\* (the bound) it refuses, and a change of the sheets stays without its job.
Encolar(otras) ==
  IF Activo \/ llegadas.trabajos = MaxTrabajos
  THEN /\ trabajo' = IF Activo THEN trabajo ELSE SinLeer
       /\ UNCHANGED <<llegadas, intercalado>>
  ELSE /\ trabajo' = [paso |-> "encolado", fallo |-> FALSE]
       /\ llegadas' = [llegadas EXCEPT !.trabajos = @ + 1]
       /\ intercalado' = (intercalado \/ \E r \in otras : Cambiando(r))

ProcessProject ==
  /\ ~Activo /\ llegadas.trabajos < MaxTrabajos /\ Encolar(Solicitudes)
  /\ UNCHANGED <<hojas, manifiesto, leido, solicitud, pisada, encontrados>>

\* run_full_pipeline ingests the project, converts and parses its sheets, and saves at
\* the end the manifest it made at the beginning.
Ingestar ==
  /\ trabajo.paso = "encolado"
  /\ manifiesto' = Nombrar(hojas, manifiesto.nombre)
  /\ trabajo' = [paso |-> "leyendo", fallo |-> FALSE, manifiesto |-> manifiesto', hojas |-> hojas]
  /\ UNCHANGED <<hojas, leido, solicitud, llegadas, flagsH>>

TerminarTrabajo ==
  /\ trabajo.paso = "leyendo"
  /\ manifiesto' = trabajo.manifiesto
  /\ pisada' = (pisada \/ manifiesto # trabajo.manifiesto)
  /\ leido' = trabajo.hojas /\ trabajo' = Ocioso
  /\ UNCHANGED <<hojas, solicitud, llegadas, intercalado, encontrados>>

FallarTrabajo ==
  /\ trabajo.paso = "leyendo" /\ trabajo' = SinLeer
  /\ UNCHANGED <<hojas, manifiesto, leido, solicitud, llegadas, flagsH>>

-----------------------------------------------------------------------------
(* Changes of the sheets.  A change replaces some sheets, adds new ones, or *)
(* retires one.                                                            *)

\* A request takes a free place; which of them makes no difference.
Llega(r) ==
  /\ llegadas.solicitudes < MaxSolicitudes
  /\ solicitud[r] = Quieta /\ r = CHOOSE x \in Solicitudes : solicitud[x] = Quieta

\* Variant: nobody looks whether the sheets are being read.
CambiarSiempre(r) == Llega(r)

\* _sin_trabajo_activo.
SinTrabajoActivo(r) == Llega(r) /\ ~Activo

Empezar(r, que, reemplazos, nuevas) ==
  /\ SinTrabajoActivo(r)
  /\ llegadas' = [llegadas EXCEPT !.solicitudes = @ + 1]
  /\ Es(r, [paso |-> "comprobada", que |-> que, reemplazos |-> reemplazos, nuevas |-> nuevas,
            antes |-> hojas, manifiesto |-> manifiesto, escrito |-> manifiesto,
            guardadas |-> <<>>, apartadas |-> <<>>])
  /\ encontrados' = (encontrados \/ \E x \in Solicitudes : Cambiando(x))
  /\ UNCHANGED <<hojas, manifiesto, leido, trabajo, intercalado, pisada>>

\* POST files, "reemplazar": every revision takes the place of its sheet, and the other
\* files are added.  Two files of one request never are the same sheet here, and an
\* upload that meets another change has one file (a bound).
AddProjectFiles(r) ==
  \E viejas \in SUBSET Presentes(hojas), nueva \in SUBSET (Nombres \ Presentes(hojas)) :
    /\ viejas \cup nueva # {} /\ Cardinality(viejas \cup nueva) <= MaxArchivos
    /\ (\E x \in Solicitudes : Cambiando(x)) => Cardinality(viejas \cup nueva) = 1
    /\ Cardinality(Presentes(hojas) \cup nueva) <= MaxHojas
    /\ Empezar(r, "varias", SetToSeq(viejas), SetToSeq(nueva))

\* PUT file: one revision, with a picture of the manifest taken before.
ReplaceProjectFile(r) ==
  \E n \in Presentes(hojas) : Empezar(r, "una", <<n>>, <<>>)

\* Variant: the last sheet may go.
RetirableSiempre(n) == hojas[n] # NoEsta

Retirable(n) == hojas[n] # NoEsta /\ Cardinality(Presentes(hojas)) > 1

\* DELETE file: the sheet, and that it is not the only one.
RetireProjectFile(r) ==
  \E n \in Nombres : Retirable(n) /\ Empezar(r, "retirar", <<n>>, <<>>)

Por(r) == Head(solicitud[r].reemplazos)

\* _apartar: a sheet that another request took meanwhile cannot be set aside.
Apartar(r) ==
  /\ solicitud[r].paso = "comprobada" /\ solicitud[r].reemplazos # <<>> /\ hojas[Por(r)] # NoEsta
  /\ hojas' = [hojas EXCEPT ![Por(r)] = NoEsta]
  /\ Es(r, [solicitud[r] EXCEPT
       !.apartadas = Append(@, [hoja |-> Por(r), contenido |-> hojas[Por(r)]]),
       !.reemplazos = IF solicitud[r].que = "retirar" THEN <<>> ELSE @,
       !.paso = IF solicitud[r].que = "retirar" THEN "ingiere" ELSE "sube"])
  /\ UNCHANGED <<manifiesto, leido, trabajo, llegadas, flagsH>>

\* _save_upload creates the file, and refuses one that exists.
Subir(r, n) ==
  /\ hojas[n] = NoEsta
  /\ hojas' = [hojas EXCEPT ![n] = llegadas.solicitudes + 1]

SubirRevision(r) ==
  /\ solicitud[r].paso = "sube" /\ Subir(r, Por(r))
  /\ Es(r, [solicitud[r] EXCEPT !.guardadas = Append(@, Por(r)), !.reemplazos = Tail(@),
                                !.paso = "comprobada"])
  /\ UNCHANGED <<manifiesto, leido, trabajo, llegadas, flagsH>>

SubirNueva(r) ==
  /\ solicitud[r].paso = "comprobada" /\ solicitud[r].reemplazos = <<>> /\ solicitud[r].nuevas # <<>>
  /\ Subir(r, Head(solicitud[r].nuevas))
  /\ Es(r, [solicitud[r] EXCEPT !.guardadas = Append(@, Head(solicitud[r].nuevas)),
                                !.nuevas = Tail(@)])
  /\ UNCHANGED <<manifiesto, leido, trabajo, llegadas, flagsH>>

\* POST takes its picture of the manifest after the upload.
Subida(r) ==
  /\ solicitud[r].paso = "comprobada" /\ solicitud[r].reemplazos = <<>> /\ solicitud[r].nuevas = <<>>
  /\ Es(r, [solicitud[r] EXCEPT !.paso = "ingiere",
                                !.manifiesto = IF solicitud[r].que = "varias" THEN manifiesto ELSE @,
                                !.escrito = IF solicitud[r].que = "varias" THEN manifiesto ELSE @])
  /\ UNCHANGED <<hojas, manifiesto, leido, trabajo, llegadas, flagsH>>

Ingerir(r) ==
  /\ solicitud[r].paso = "ingiere"
  /\ manifiesto' = Nombrar(hojas, manifiesto.nombre)
  /\ Es(r, [solicitud[r] EXCEPT !.paso = "encola", !.escrito = manifiesto'])
  /\ UNCHANGED <<hojas, leido, trabajo, llegadas, flagsH>>

Reprocesa(r) ==
  /\ solicitud[r].paso = "encola" /\ Encolar(Solicitudes \ {r}) /\ Es(r, Quieta)
  /\ UNCHANGED <<hojas, manifiesto, leido, pisada, encontrados>>

Vuelve(hs, apartadas) ==
  [n \in Nombres |->
     IF \E a \in apartadas : a.hoja = n
     THEN (CHOOSE a \in apartadas : a.hoja = n).contenido ELSE hs[n]]

\* Variant: what was saved stays.
DeshacerSinQuitar(hs, guardadas, apartadas) ==
  Vuelve(hs, {a \in apartadas : hs[a.hoja] = NoEsta})

\* _deshacer: what was saved goes, and each sheet set aside comes back to its place, if
\* nothing is there.  (PUT and DELETE put theirs back whatever is there.)
Deshacer(hs, guardadas, apartadas) ==
  LET sin == [n \in Nombres |-> IF n \in guardadas THEN NoEsta ELSE hs[n]]
  IN Vuelve(sin, {a \in apartadas : sin[a.hoja] = NoEsta})

\* Variant: the manifest is left as it is.
NoRestaurar(r) == manifiesto

\* PUT and DELETE always put their picture of the manifest back, POST when the ingestion
\* failed.
RestaurarManifiesto(r) ==
  IF solicitud[r].que = "varias" /\ solicitud[r].paso \in {"comprobada", "sube"} THEN manifiesto
  ELSE solicitud[r].manifiesto

\* An upload too large or of another format, a full disk, an ingestion that fails before
\* it wrote the manifest or, at the synchronisation of the directory, after.
Fallar(r) ==
  /\ Cambiando(r)
  /\ solicitud[r].guardadas # <<>> \/ solicitud[r].apartadas # <<>>
  /\ hojas' = IF solicitud[r].que = "varias"
              THEN Deshacer(hojas, ToSet(solicitud[r].guardadas), ToSet(solicitud[r].apartadas))
              ELSE Vuelve(hojas, ToSet(solicitud[r].apartadas))
  /\ manifiesto' = RestaurarManifiesto(r)
  /\ pisada' = (pisada \/ (manifiesto' # manifiesto /\ manifiesto # solicitud[r].escrito))
  /\ Es(r, Quieta)
  /\ UNCHANGED <<leido, trabajo, llegadas, intercalado, encontrados>>

\* A change that is refused before it has touched anything.
Rechazar(r) ==
  /\ solicitud[r].paso = "comprobada" /\ Cambiando(r)
  /\ solicitud[r].guardadas = <<>> /\ solicitud[r].apartadas = <<>>
  /\ Es(r, Quieta)
  /\ UNCHANGED <<hojas, manifiesto, leido, trabajo, llegadas, flagsH>>

-----------------------------------------------------------------------------
(* patch_project reads the manifest, and writes it back with a new name. *)

LeerManifiesto(r) ==
  /\ Llega(r)
  /\ llegadas' = [llegadas EXCEPT !.solicitudes = @ + 1]
  /\ Es(r, [paso |-> "leida", que |-> "nombre", manifiesto |-> manifiesto])
  /\ UNCHANGED <<hojas, manifiesto, leido, trabajo, flagsH>>

PatchProject(r) ==
  /\ solicitud[r].paso = "leida"
  /\ manifiesto' = [solicitud[r].manifiesto EXCEPT !.nombre = llegadas.solicitudes]
  /\ pisada' = (pisada \/ manifiesto # solicitud[r].manifiesto)
  /\ Es(r, Quieta)
  /\ UNCHANGED <<hojas, leido, trabajo, llegadas, intercalado, encontrados>>

SheetsNext ==
  \/ ProcessProject \/ Ingestar \/ TerminarTrabajo \/ FallarTrabajo
  \/ \E r \in Solicitudes :
       \/ AddProjectFiles(r) \/ ReplaceProjectFile(r) \/ RetireProjectFile(r)
       \/ Apartar(r) \/ SubirRevision(r) \/ SubirNueva(r) \/ Subida(r) \/ Ingerir(r) \/ Reprocesa(r)
       \/ Fallar(r) \/ Rechazar(r) \/ LeerManifiesto(r) \/ PatchProject(r)

SheetsSpec == SheetsInit /\ [][SheetsNext]_sheetVars

-----------------------------------------------------------------------------
(* Properties. *)

Calma == ~Activo /\ \A r \in Solicitudes : solicitud[r] = Quieta

\* When nothing is in progress, the published run was made of the sheets that are there:
\* no change is left unread (_sin_trabajo_activo: "el reproceso devolvería el trabajo en
\* curso y el cambio se quedaría sin leer").  The code keeps this unless a job begins
\* between the check and the end of a change, two changes meet, or the job
\* fails or is refused.
ChangesAreRead ==
  Calma /\ ~intercalado /\ ~encontrados /\ ~trabajo.fallo => leido = hojas

\* A change that fails, wherever it does, leaves the sheets it found (add_project_files:
\* "si algo falla, todo vuelve"), unless another change was in progress.
FailedChangeIsUndone ==
  [][\A r \in Solicitudes : Fallar(r) /\ ~encontrados => hojas' = solicitud[r].antes]_sheetVars

\* When nothing is in progress the manifest names the sheets that are there, also after
\* a failed change, unless two changes met, a job began during a change, or a manifest was
\* written over a newer one.
ManifestNamesSheets ==
  Calma /\ ~pisada /\ ~encontrados /\ ~intercalado => manifiesto.hojas = Presentes(hojas)

\* However changes follow one another, fail or are refused, a project is never left
\* without a sheet: that takes two changes at the same time.
NeverWithoutSheets == Calma /\ ~encontrados => Presentes(hojas) # {}
=============================================================================

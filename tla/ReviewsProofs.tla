--------------------------- MODULE ReviewsProofs ----------------------------
(* What Versions and ReviewKeys guarantee for every value of their          *)
(* constants: a restore loses nothing, the list of versions is true and a   *)
(* run replaces only a report that is kept; no verdict is lost by being     *)
(* moved, and a run leaves every verdict with its element.                  *)
EXTENDS Versions, ReviewKeys, SelectionProofs

-----------------------------------------------------------------------------
(***************************************************************************)
(* Versions, for every number of people, versions, runs, edits and cuts.   *)
(***************************************************************************)

-----------------------------------------------------------------------------
(* Types.  A list of versions is always in the order of its numbers.       *)

Origenes == {"de una persona", "antes de restaurar", "antes de reprocesar"}
Reporte == [run : Nat, revisiones : Valores, parametros : Valores]
Estado == [reporte : Reporte, revisiones : Valores, parametros : Valores]
Resumen == [id : Nat, numero : Nat, etiqueta : Origenes, run : Nat]
EnOrden(s) == \A i, j \in DOMAIN s : i < j => s[i].numero < s[j].numero
Lista == {s \in Seq(Resumen) : EnOrden(s)}

Guarda == [paso : {"indice", "archivo", "hecho"}, id : Nat, leido : Lista, luego : {"hecho"},
           etiqueta : {"de una persona"}, estampa : Estado, version : {Ninguno}]
Repone == [paso : {"indice", "archivo", "restaura", "parametros", "recalcula"}, id : Nat,
           leido : Lista, luego : {"restaura"}, etiqueta : {"antes de restaurar"},
           estampa : Estado, version : Estado]
Resguarda == [paso : {"indice", "archivo", "publica"}, id : Nat, leido : Lista,
              luego : {"publica"}, etiqueta : {"antes de reprocesar"}, estampa : Estado,
              version : Reporte]
Espera == [paso : {"espera"}, version : Estado]
Hecho == [paso : {"hecho"}]
Quita == [paso : {"borra", "quita"}, id : Nat, leido : Lista]
Corre == [paso : {"corre", "publica"}, version : Reporte]

DePersona == {EnCalma} \cup Guarda \cup Repone \cup Espera \cup Hecho \cup Quita
DeKlave == {EnCalma} \cup Resguarda \cup Corre

Contadores == [cambios : Nat, corridas : Nat, cortes : Nat, ids : Nat]

GestionOK ==
  /\ gestion \in [Autores -> DePersona \cup DeKlave]
  /\ gestion[Klave] \in DeKlave
  /\ \A a \in Personas : gestion[a] \in DePersona

VersionsTypeOK ==
  /\ revisiones \in Valores /\ parametros \in Valores /\ reporte \in Reporte
  /\ indice \in Lista
  /\ archivo \in [Ids -> Estado \cup {Ninguno}]
  /\ ediciones \in Contadores
  /\ GestionOK

-----------------------------------------------------------------------------
(* The inductive invariant. *)

EnCurso(a) == gestion[a].paso \in {"indice", "archivo"}
Identificados(s) == {s[i].id : i \in DOMAIN s}

(* One person at a time is past the lock. *)
Solos == \A a \in Personas : gestion[a].paso \notin {"libre", "espera"} => cerrojo = a

(* An identifier is used once, and only a version that was saved is listed *)
(* or deleted.                                                             *)
Unicos ==
  /\ ediciones.ids <= MaxVersiones
  /\ guardadas \subseteq 1..ediciones.ids
  /\ borradas \subseteq guardadas
  /\ Identificados(indice) \subseteq guardadas
  /\ \A a \in Autores :
       /\ EnCurso(a) => gestion[a].id \in 1..ediciones.ids /\ gestion[a].id \notin guardadas
       /\ gestion[a].paso \in {"indice", "archivo", "borra", "quita"} =>
            Identificados(gestion[a].leido) \subseteq guardadas
       /\ gestion[a].paso \in {"borra", "quita"} => gestion[a].id \in borradas
  /\ \A a, b \in Autores : a # b /\ EnCurso(a) /\ EnCurso(b) => gestion[a].id # gestion[b].id

(* A version that was saved has its file and its place in the list.        *)
Guardados ==
  /\ \A a \in Autores : gestion[a].paso = "archivo" => archivo[gestion[a].id] = gestion[a].estampa
  /\ \A id \in guardadas : archivo[id] = Ninguno => id \in borradas
  /\ ~pisado => guardadas \ borradas \subseteq Identificados(indice)

(* What a restore replaces is what it saved.                               *)
RespaldoEn(a) ==
  gestion[a] \in Repone =>
    /\ gestion[a].paso \in {"indice", "archivo", "restaura"} =>
         /\ gestion[a].estampa.revisiones = revisiones
         /\ gestion[a].estampa.parametros = parametros
    /\ gestion[a].paso = "restaura" =>
         /\ gestion[a].id \in guardadas
         /\ gestion[a].id \notin borradas => archivo[gestion[a].id] = gestion[a].estampa
RepuestaEn(r) ==
  /\ r.id \in guardadas
  /\ r.id \notin borradas =>
       archivo[r.id].revisiones = r.revisiones /\ archivo[r.id].parametros = r.parametros
Resguardados ==
  /\ \A a \in Personas : RespaldoEn(a)
  /\ \A r \in repuestas : RepuestaEn(r)

(* The run of the job comes after the one that is shown, and what the job  *)
(* saves is the report that is shown, while nobody changes it.             *)
Publicable == gestion[Klave].paso = "publica"
Corrida ==
  /\ reporte.run <= ediciones.corridas
  /\ gestion[Klave] # EnCalma =>
       /\ reporte.run < gestion[Klave].version.run
       /\ gestion[Klave].version.run <= ediciones.corridas
  /\ gestion[Klave] \in Resguarda =>
       /\ gestion[Klave].estampa.reporte.run = reporte.run
       /\ ~alterado => gestion[Klave].estampa.reporte = reporte
       /\ Publicable => gestion[Klave].id \in guardadas
       /\ Publicable /\ gestion[Klave].id \notin borradas =>
            archivo[gestion[Klave].id] = gestion[Klave].estampa

(* Without restarts, the versions that were made before a run are of runs  *)
(* that were replaced, and the job saves one before it replaces another.   *)
Anterior(s, run) ==
  \A i \in DOMAIN s : s[i].etiqueta = "antes de reprocesar" => s[i].run < run
Tope == IF Publicable THEN reporte.run + 1 ELSE reporte.run
Anteriores ==
  ediciones.cortes = 0 =>
    /\ Publicable => gestion[Klave] \in Resguarda
    /\ Anterior(indice, Tope)
    /\ \A a \in Autores :
         gestion[a].paso \in {"indice", "archivo", "borra", "quita"} =>
           Anterior(gestion[a].leido, Tope)

-----------------------------------------------------------------------------
(* Lists of versions. *)

LEMMA NumerosDeUnaLista ==
  ASSUME NEW s \in Lista
  PROVE  /\ SiguienteNumero(s) \in Nat
         /\ \A i \in DOMAIN s : s[i].numero < SiguienteNumero(s)
<1>1. s \in Seq(Resumen) /\ EnOrden(s) /\ Len(s) \in Nat /\ DOMAIN s = 1..Len(s)
  BY LenProperties DEF Lista
<1>2. CASE s = <<>>
  BY <1>2 DEF SiguienteNumero, NumeroMayor
<1>3. CASE s # <<>>
  <2> DEFINE N == {s[i].numero : i \in DOMAIN s}
             m == s[Len(s)].numero
  <2>1. Len(s) \in DOMAIN s
    BY <1>1, <1>3, EmptySeq
  <2>2. \A i \in DOMAIN s : s[i].numero \in Nat
    <3>1. \A i \in DOMAIN s : s[i] \in Resumen
      BY <1>1, ElementOfSeq
    <3>2. QED
      BY <3>1 DEF Resumen
  <2>3. m \in N /\ \A y \in N : m >= y
    <3>1. \A i \in DOMAIN s : s[i].numero <= m
      BY <1>1, <2>1, <2>2 DEF EnOrden
    <3>2. QED
      BY <2>1, <2>2, <3>1
  <2> HIDE DEF m
  <2>4. Max(N) \in N /\ \A y \in N : Max(N) >= y
    BY <2>3 DEF Max
  <2>5. SiguienteNumero(s) = Max(N) + 1
    BY <1>3 DEF SiguienteNumero, NumeroMayor
  <2>6. Max(N) \in Nat
    BY <2>2, <2>4
  <2>7. \A i \in DOMAIN s : s[i].numero \in N
    OBVIOUS
  <2> HIDE DEF N
  <2>8. QED
    BY <2>2, <2>4, <2>5, <2>6, <2>7
<1>4. QED
  BY <1>2, <1>3

LEMMA AgregarALaLista ==
  ASSUME NEW s \in Lista, NEW e \in Resumen, e.numero = SiguienteNumero(s)
  PROVE  /\ Append(s, e) \in Lista
         /\ Identificados(Append(s, e)) = Identificados(s) \cup {e.id}
         /\ \A run \in Nat :
              Anterior(s, run) /\ (e.etiqueta = "antes de reprocesar" => e.run < run) =>
                Anterior(Append(s, e), run)
<1> DEFINE t == Append(s, e)
<1>1. s \in Seq(Resumen) /\ EnOrden(s) /\ Len(s) \in Nat /\ DOMAIN s = 1..Len(s)
  BY LenProperties DEF Lista
<1>2. /\ t \in Seq(Resumen) /\ Len(t) = Len(s) + 1 /\ t[Len(s) + 1] = e
      /\ \A i \in 1..Len(s) : t[i] = s[i]
  BY <1>1, AppendProperties
<1>3. DOMAIN t = 1..(Len(s) + 1)
  BY <1>1, <1>2, LenProperties
<1>4. \A i \in DOMAIN t : i \in DOMAIN s \/ i = Len(s) + 1
  BY <1>1, <1>3
<1> HIDE DEF t
<1>5. EnOrden(t)
  <2> SUFFICES ASSUME NEW i \in DOMAIN t, NEW j \in DOMAIN t, i < j
               PROVE  t[i].numero < t[j].numero
    BY DEF EnOrden
  <2>1. i \in DOMAIN s
    BY <1>1, <1>3
  <2>2. CASE j \in DOMAIN s
    BY <1>1, <1>2, <2>1, <2>2 DEF EnOrden
  <2>3. CASE j = Len(s) + 1
    BY <1>1, <1>2, <2>1, <2>3, NumerosDeUnaLista
  <2>4. QED
    BY <1>4, <2>2, <2>3
<1>6. Identificados(t) = Identificados(s) \cup {e.id}
  BY <1>1, <1>2, <1>3, <1>4 DEF Identificados
<1>7. ASSUME NEW run \in Nat, Anterior(s, run),
             e.etiqueta = "antes de reprocesar" => e.run < run
      PROVE  Anterior(t, run)
  BY <1>1, <1>2, <1>4, <1>7 DEF Anterior
<1>8. QED
  BY <1>2, <1>5, <1>6, <1>7 DEF Lista, t

LEMMA QuitarDeLaLista ==
  ASSUME NEW s \in Lista, NEW k \in DOMAIN s
  PROVE  /\ RemoveAt(s, k) \in Lista
         /\ Identificados(RemoveAt(s, k)) \subseteq Identificados(s)
         /\ Identificados(s) \ {s[k].id} \subseteq Identificados(RemoveAt(s, k))
         /\ \A run \in Nat : Anterior(s, run) => Anterior(RemoveAt(s, k), run)
<1> DEFINE n == Len(s)
           antes == SubSeq(s, 1, k - 1)
           luego == SubSeq(s, k + 1, n)
           t == RemoveAt(s, k)
<1>1. /\ s \in Seq(Resumen) /\ EnOrden(s) /\ n \in Nat /\ DOMAIN s = 1..n /\ k \in 1..n
      /\ \A i \in 1..n : s[i] \in Resumen
  BY LenProperties, ElementOfSeq DEF Lista
<1> HIDE DEF n
<1>2. /\ antes \in Seq(Resumen) /\ Len(antes) = k - 1
      /\ \A i \in 1..(k - 1) : antes[i] = s[i]
  <2>1. \A i \in 1..(k - 1) : s[i] \in Resumen
    BY <1>1
  <2>2. k - 1 \in Int /\ (IF 1 <= k - 1 THEN (k - 1) - 1 + 1 ELSE 0) = k - 1
    BY <1>1
  <2>3. \A i \in 1..(k - 1) : i \in 1..((k - 1) - 1 + 1) /\ 1 + i - 1 = i
    BY <1>1
  <2>4. QED
    BY <2>1, <2>2, <2>3, SubSeqProperties
<1>3. /\ luego \in Seq(Resumen) /\ Len(luego) = n - k
      /\ \A i \in 1..(n - k) : luego[i] = s[i + k]
  <2>1. \A i \in (k + 1)..n : s[i] \in Resumen
    BY <1>1
  <2>2. k + 1 \in Int /\ n \in Int /\ (IF k + 1 <= n THEN n - (k + 1) + 1 ELSE 0) = n - k
    BY <1>1
  <2>3. \A i \in 1..(n - k) : i \in 1..(n - (k + 1) + 1) /\ (k + 1) + i - 1 = i + k
    BY <1>1
  <2>4. QED
    BY <2>1, <2>2, <2>3, SubSeqProperties
<1>4. t = antes \o luego
  BY DEF RemoveAt, n
<1> HIDE DEF antes, luego, t
<1>5. /\ t \in Seq(Resumen) /\ Len(t) = n - 1
      /\ \A i \in 1..(n - 1) : t[i] = IF i < k THEN s[i] ELSE s[i + 1]
  <2>1. /\ t \in Seq(Resumen) /\ Len(t) = Len(antes) + Len(luego)
        /\ \A i \in 1..(Len(antes) + Len(luego)) :
             t[i] = IF i <= Len(antes) THEN antes[i] ELSE luego[i - Len(antes)]
    BY <1>2, <1>3, <1>4, ConcatProperties
  <2>2. (k - 1) + (n - k) = n - 1
    BY <1>1
  <2>3. ASSUME NEW i \in 1..(n - 1)
        PROVE  t[i] = IF i < k THEN s[i] ELSE s[i + 1]
    <3>1. CASE i < k
      BY <1>1, <1>2, <1>3, <2>1, <2>2, <3>1
    <3>2. CASE ~(i < k)
      <4>1. i - (k - 1) \in 1..(n - k) /\ (i - (k - 1)) + k = i + 1 /\ ~(i <= k - 1)
        BY <1>1, <3>2
      <4>2. QED
        BY <1>2, <1>3, <2>1, <2>2, <3>2, <4>1
    <3>3. QED
      BY <3>1, <3>2
  <2>4. QED
    BY <1>2, <1>3, <2>1, <2>2, <2>3
<1>6. DOMAIN t = 1..(n - 1)
  BY <1>5, LenProperties
<1>7. \A i \in DOMAIN t : \E j \in DOMAIN s : t[i] = s[j]
  <2>1. \A i \in DOMAIN t : i \in DOMAIN s /\ i + 1 \in DOMAIN s
    BY <1>1, <1>6
  <2>2. QED
    BY <1>5, <1>6, <2>1
<1>8. \A j \in DOMAIN s : j # k => \E i \in DOMAIN t : t[i] = s[j]
  <2> SUFFICES ASSUME NEW j \in DOMAIN s, j # k PROVE \E i \in DOMAIN t : t[i] = s[j]
    OBVIOUS
  <2>1. CASE j < k
    BY <1>1, <1>5, <1>6, <2>1
  <2>2. CASE ~(j < k)
    <3>1. j - 1 \in 1..(n - 1) /\ ~(j - 1 < k) /\ (j - 1) + 1 = j
      BY <1>1, <2>2
    <3>2. QED
      BY <1>5, <1>6, <3>1
  <2>3. QED
    BY <2>1, <2>2
<1>9. EnOrden(t)
  <2> SUFFICES ASSUME NEW i \in DOMAIN t, NEW j \in DOMAIN t, i < j
               PROVE  t[i].numero < t[j].numero
    BY DEF EnOrden
  <2> DEFINE f(x) == IF x < k THEN x ELSE x + 1
  <2>1. f(i) \in DOMAIN s /\ f(j) \in DOMAIN s /\ f(i) < f(j)
    BY <1>1, <1>6
  <2>2. t[i] = s[f(i)] /\ t[j] = s[f(j)]
    BY <1>5, <1>6
  <2>3. QED
    BY <1>1, <2>1, <2>2 DEF EnOrden
<1>10. t \in Lista
  BY <1>5, <1>9 DEF Lista
<1>11. /\ Identificados(t) \subseteq Identificados(s)
       /\ Identificados(s) \ {s[k].id} \subseteq Identificados(t)
  BY <1>7, <1>8 DEF Identificados
<1>12. \A run \in Nat : Anterior(s, run) => Anterior(t, run)
  BY <1>7 DEF Anterior
<1>13. QED
  BY <1>10, <1>11, <1>12 DEF t

-----------------------------------------------------------------------------
(* Type correctness. *)

LEMMA Avanza ==
  ASSUME GestionOK, NEW a \in Autores, NEW t, Va(a, t),
         a \in Personas => t \in DePersona, a = Klave => t \in DeKlave
  PROVE  /\ GestionOK'
         /\ gestion'[a] = t
         /\ \A b \in Autores : b # a => gestion'[b] = gestion[b]
<1>1. gestion' = [gestion EXCEPT ![a] = t] /\ t \in DePersona \cup DeKlave
  BY DEF Va, Autores
<1>2. gestion'[a] = t /\ \A b \in Autores : b # a => gestion'[b] = gestion[b]
  BY <1>1 DEF GestionOK
<1>3. gestion' \in [Autores -> DePersona \cup DeKlave]
  BY <1>1 DEF GestionOK
<1>4. gestion'[Klave] \in DeKlave /\ \A b \in Personas : gestion'[b] \in DePersona
  BY <1>2, VersionsAssumption DEF GestionOK, Autores
<1>5. QED
  BY <1>2, <1>3, <1>4 DEF GestionOK

(* What somebody's step says of the rest of the request.                   *)
LEMMA Fases ==
  ASSUME GestionOK
  PROVE  /\ \A a \in Personas :
              /\ gestion[a].paso \in {"indice", "archivo"} => gestion[a] \in Guarda \cup Repone
              /\ gestion[a].paso \in {"restaura", "parametros", "recalcula"} => gestion[a] \in Repone
              /\ gestion[a].paso = "espera" => gestion[a] \in Espera
              /\ gestion[a].paso \in {"borra", "quita"} => gestion[a] \in Quita
              /\ gestion[a].paso \notin {"corre", "publica"}
              /\ gestion[a].paso = "libre" => gestion[a] = EnCalma
         /\ gestion[Klave].paso = "corre" => gestion[Klave] \in Corre
         /\ gestion[Klave].paso \in {"indice", "archivo"} => gestion[Klave] \in Resguarda
         /\ gestion[Klave].paso = "publica" => gestion[Klave] \in Resguarda \cup Corre
         /\ gestion[Klave].paso = "libre" => gestion[Klave] = EnCalma
         /\ gestion[Klave].paso \in {"libre", "corre", "indice", "archivo", "publica"}
<1>1. ASSUME NEW t \in DePersona
      PROVE  /\ t.paso \in {"indice", "archivo"} => t \in Guarda \cup Repone
             /\ t.paso \in {"restaura", "parametros", "recalcula"} => t \in Repone
             /\ t.paso = "espera" => t \in Espera
             /\ t.paso \in {"borra", "quita"} => t \in Quita
             /\ t.paso \notin {"corre", "publica"}
             /\ t.paso = "libre" => t = EnCalma
  <2>1. CASE t = EnCalma
    BY <2>1 DEF EnCalma
  <2>2. CASE t \in Guarda
    BY <2>2 DEF Guarda
  <2>3. CASE t \in Repone
    BY <2>3 DEF Repone
  <2>4. CASE t \in Espera
    BY <2>4 DEF Espera
  <2>5. CASE t \in Hecho
    BY <2>5 DEF Hecho
  <2>6. CASE t \in Quita
    BY <2>6 DEF Quita
  <2>7. QED
    BY <2>1, <2>2, <2>3, <2>4, <2>5, <2>6 DEF DePersona
<1>2. ASSUME NEW t \in DeKlave
      PROVE  /\ t.paso = "corre" => t \in Corre
             /\ t.paso \in {"indice", "archivo"} => t \in Resguarda
             /\ t.paso = "publica" => t \in Resguarda \cup Corre
             /\ t.paso = "libre" => t = EnCalma
             /\ t.paso \in {"libre", "corre", "indice", "archivo", "publica"}
  <2>1. CASE t = EnCalma
    BY <2>1 DEF EnCalma
  <2>2. CASE t \in Resguarda
    BY <2>2 DEF Resguarda
  <2>3. CASE t \in Corre
    BY <2>3 DEF Corre
  <2>4. QED
    BY <2>1, <2>2, <2>3 DEF DeKlave
<1>3. QED
  BY <1>1, <1>2 DEF GestionOK

LEMMA ContadoresSuben ==
  \A e \in Contadores :
    /\ [e EXCEPT !.ids = @ + 1] \in Contadores
    /\ [e EXCEPT !.cambios = @ + 1] \in Contadores
    /\ [e EXCEPT !.corridas = @ + 1] \in Contadores
    /\ [e EXCEPT !.cortes = @ + 1] \in Contadores
  BY DEF Contadores

LEMMA InitTypes == VersionsInit => VersionsTypeOK
<1> SUFFICES ASSUME VersionsInit PROVE VersionsTypeOK
  OBVIOUS
<1>1. revisiones \in Valores /\ parametros \in Valores /\ reporte \in Reporte
  BY VersionsAssumption DEF VersionsInit, Calculado, Reporte
<1>2. <<>> \in Lista
  BY EmptySeq DEF Lista, EnOrden
<1>3. GestionOK
  BY DEF VersionsInit, GestionOK, DePersona, DeKlave, Autores
<1>4. ediciones \in Contadores
  BY DEF VersionsInit, Contadores
<1>5. archivo \in [Ids -> Estado \cup {Ninguno}]
  BY DEF VersionsInit
<1>6. QED
  BY <1>1, <1>2, <1>3, <1>4, <1>5 DEF VersionsInit, VersionsTypeOK

(* The request that begins to save. *)
LEMMA LeerTypes ==
  ASSUME VersionsTypeOK, NEW a \in Autores, NEW luego, NEW etiqueta, NEW version,
         LeerIndice(a, luego, etiqueta, version),
         \/ a \in Personas /\ luego = "hecho" /\ etiqueta = "de una persona" /\ version = Ninguno
         \/ a \in Personas /\ luego = "restaura" /\ etiqueta = "antes de restaurar"
                           /\ version \in Estado
         \/ a = Klave /\ luego = "publica" /\ etiqueta = "antes de reprocesar"
                      /\ version \in Reporte
  PROVE  /\ GestionOK'
         /\ ediciones' \in Contadores
<1> DEFINE t == [paso |-> "indice", id |-> ediciones'.ids, leido |-> indice, luego |-> luego,
                 etiqueta |-> etiqueta, estampa |-> Estampa, version |-> version]
<1>1. ediciones' \in Contadores
  BY ContadoresSuben DEF LeerIndice, VersionsTypeOK
<1>2. Estampa \in Estado /\ indice \in Lista /\ ediciones'.ids \in Nat
  BY <1>1 DEF VersionsTypeOK, Estampa, Estado, Contadores
<1>3. /\ (a \in Personas => t \in Guarda \cup Repone)
      /\ (a = Klave => t \in Resguarda)
  BY <1>2, VersionsAssumption DEF Guarda, Repone, Resguarda
<1>4. Va(a, t)
  BY DEF LeerIndice
<1> HIDE DEF t
<1>5. GestionOK'
  BY <1>3, <1>4, Avanza DEF VersionsTypeOK, DePersona, DeKlave
<1>6. QED
  BY <1>1, <1>5

LEMMA NextTypes == VersionsTypeOK /\ [VersionsNext]_versionVars => VersionsTypeOK'
<1> SUFFICES ASSUME VersionsTypeOK, [VersionsNext]_versionVars PROVE VersionsTypeOK'
  OBVIOUS
<1> USE DEF VersionsTypeOK
<1>f. /\ Klave \in Autores /\ Klave \notin Personas /\ Klave = Klave
      /\ \A a \in Personas : a \in Autores /\ a # Klave
      /\ \A a \in Autores : a \in Personas \/ a = Klave
  BY VersionsAssumption DEF Autores
<1>1. CASE UNCHANGED versionVars
  BY <1>1 DEF versionVars, GestionOK
<1>2. ASSUME NEW a \in Personas, Editar(a) PROVE VersionsTypeOK'
  <2>1. /\ UNCHANGED <<indice, archivo, gestion>>
        /\ ediciones' = [ediciones EXCEPT !.cambios = @ + 1]
        /\ revisiones' \in Valores /\ parametros' \in Valores
        /\ reporte' = [run |-> reporte.run, revisiones |-> revisiones', parametros |-> parametros']
    BY <1>2 DEF Editar, Calculado
  <2>2. reporte' \in Reporte
    BY <2>1 DEF Reporte
  <2>3. QED
    BY <2>1, <2>2, ContadoresSuben DEF GestionOK
<1>3. ASSUME NEW a \in Personas, CreateVersion(a) PROVE VersionsTypeOK'
  <2>1. LeerIndice(a, "hecho", "de una persona", Ninguno) /\ UNCHANGED enDisco
    BY <1>3 DEF CreateVersion
  <2>2. QED
    BY <2>1, <1>f, LeerTypes DEF enDisco
<1>4. ASSUME NEW a \in Personas, PedirRestaurar(a) PROVE VersionsTypeOK'
  <2>1. PICK id \in Ids : /\ archivo[id] # Ninguno
                          /\ Va(a, [paso |-> "espera", version |-> archivo[id]])
                          /\ UNCHANGED <<enDisco, ediciones>>
    BY <1>4 DEF PedirRestaurar
  <2>2. [paso |-> "espera", version |-> archivo[id]] \in Espera
    BY <2>1 DEF Espera
  <2>3. GestionOK'
    BY <2>1, <2>2, <1>f, Avanza DEF DePersona
  <2>4. QED
    BY <2>1, <2>3 DEF enDisco
<1>5. ASSUME NEW a \in Personas, TomarYGuardar(a) PROVE VersionsTypeOK'
  <2>1. /\ LeerIndice(a, "restaura", "antes de restaurar", gestion[a].version)
        /\ gestion[a].paso = "espera" /\ UNCHANGED enDisco
    BY <1>5 DEF TomarYGuardar
  <2>2. gestion[a].version \in Estado
    BY <2>1, Fases DEF Espera
  <2>3. QED
    BY <2>1, <2>2, <1>f, LeerTypes DEF enDisco
<1>6. ASSUME NEW a \in Personas, RestaurarRevisiones(a) PROVE VersionsTypeOK'
  <2>1. gestion[a] \in Repone
    BY <1>6, Fases DEF RestaurarRevisiones
  <2>2. [gestion[a] EXCEPT !.paso = "parametros"] \in Repone
    BY <2>1 DEF Repone
  <2>3. GestionOK'
    BY <1>6, <2>2, <1>f, Avanza DEF DePersona, RestaurarRevisiones
  <2>4. gestion[a].version.revisiones \in Valores
    BY <2>1 DEF Repone, Estado
  <2>5. QED
    BY <1>6, <2>3, <2>4 DEF RestaurarRevisiones
<1>7. ASSUME NEW a \in Personas, RestaurarParametros(a) PROVE VersionsTypeOK'
  <2>1. gestion[a] \in Repone
    BY <1>7, Fases DEF RestaurarParametros
  <2>2. [gestion[a] EXCEPT !.paso = "recalcula"] \in Repone
    BY <2>1 DEF Repone
  <2>3. GestionOK'
    BY <1>7, <2>2, <1>f, Avanza DEF DePersona, RestaurarParametros
  <2>4. gestion[a].version.parametros \in Valores
    BY <2>1 DEF Repone, Estado
  <2>5. QED
    BY <1>7, <2>3, <2>4 DEF RestaurarParametros
<1>8. ASSUME NEW a \in Personas, Recalcular(a) PROVE VersionsTypeOK'
  <2>1. [paso |-> "hecho"] \in DePersona
    BY DEF DePersona, Hecho
  <2>2. GestionOK'
    BY <1>8, <2>1, <1>f, Avanza DEF Recalcular
  <2>3. Calculado(reporte.run, revisiones, parametros) \in Reporte
    BY DEF Calculado, Reporte
  <2>4. QED
    BY <1>8, <2>2, <2>3 DEF Recalcular
<1>9. ASSUME NEW a \in Personas, RemoveVersion(a) PROVE VersionsTypeOK'
  <2>1. PICK id \in Listadas : /\ Va(a, [paso |-> "borra", id |-> id, leido |-> indice])
                               /\ UNCHANGED <<enDisco, ediciones>>
    BY <1>9 DEF RemoveVersion
  <2>2. id \in Nat
    <3>1. PICK i \in DOMAIN indice : id = indice[i].id
      BY DEF Listadas
    <3>2. indice[i] \in Resumen
      BY LenProperties, ElementOfSeq DEF Lista
    <3>3. QED
      BY <3>1, <3>2 DEF Resumen
  <2>3. [paso |-> "borra", id |-> id, leido |-> indice] \in Quita
    BY <2>2 DEF Quita
  <2>4. GestionOK'
    BY <2>1, <2>3, <1>f, Avanza DEF DePersona
  <2>5. QED
    BY <2>1, <2>4 DEF enDisco
<1>10. ASSUME NEW a \in Personas, BorrarArchivo(a) PROVE VersionsTypeOK'
  <2>1. gestion[a] \in Quita
    BY <1>10, Fases DEF BorrarArchivo
  <2>2. [gestion[a] EXCEPT !.paso = "quita"] \in Quita
    BY <2>1 DEF Quita
  <2>3. GestionOK'
    BY <1>10, <2>2, <1>f, Avanza DEF DePersona, BorrarArchivo
  <2>4. archivo' \in [Ids -> Estado \cup {Ninguno}]
    BY <1>10 DEF BorrarArchivo
  <2>5. QED
    BY <1>10, <2>3, <2>4 DEF BorrarArchivo
<1>11. ASSUME NEW a \in Personas, QuitarDelIndice(a) PROVE VersionsTypeOK'
  <2>1. gestion[a].leido \in Lista
    BY <1>11, Fases DEF QuitarDelIndice, Quita
  <2>2. indice' \in Lista
    BY <1>11, <2>1, QuitarDeLaLista DEF QuitarDelIndice
  <2>3. [paso |-> "hecho"] \in DePersona
    BY DEF DePersona, Hecho
  <2>4. GestionOK'
    BY <1>11, <2>3, <1>f, Avanza DEF QuitarDelIndice
  <2>5. QED
    BY <1>11, <2>2, <2>4 DEF QuitarDelIndice
<1>12. ASSUME NEW a \in Personas, Acabar(a) PROVE VersionsTypeOK'
  <2>1. GestionOK'
    BY <1>12, <1>f, Avanza DEF Acabar, DePersona
  <2>2. QED
    BY <1>12, <2>1 DEF Acabar, enDisco
<1>13. ASSUME NEW a \in Autores, EscribirVersion(a) PROVE VersionsTypeOK'
  <2> DEFINE t == [gestion[a] EXCEPT !.paso = "archivo"]
  <2>1. \/ a \in Personas /\ gestion[a] \in Guarda
        \/ a \in Personas /\ gestion[a] \in Repone
        \/ a = Klave /\ gestion[a] \in Resguarda
    BY <1>13, <1>f, Fases DEF EscribirVersion
  <2>2. /\ a \in Personas => t \in DePersona
        /\ a = Klave => t \in DeKlave
    BY <1>f, <2>1 DEF DePersona, DeKlave, Guarda, Repone, Resguarda
  <2>3. gestion[a].estampa \in Estado
    BY <2>1 DEF Guarda, Repone, Resguarda
  <2>4. archivo' \in [Ids -> Estado \cup {Ninguno}]
    BY <1>13, <2>3 DEF EscribirVersion
  <2>5. Va(a, t)
    BY <1>13 DEF EscribirVersion
  <2> HIDE DEF t
  <2>6. GestionOK'
    BY <2>2, <2>5, Avanza
  <2>7. QED
    BY <1>13, <2>4, <2>6 DEF EscribirVersion
<1>14. ASSUME NEW a \in Autores, EscribirIndice(a) PROVE VersionsTypeOK'
  <2> DEFINE t == [gestion[a] EXCEPT !.paso = gestion[a].luego]
             leido == gestion[a].leido
             e == [id |-> gestion[a].id, numero |-> SiguienteNumero(leido),
                   etiqueta |-> gestion[a].etiqueta, run |-> gestion[a].estampa.reporte.run]
  <2>1. \/ a \in Personas /\ gestion[a] \in Guarda
        \/ a \in Personas /\ gestion[a] \in Repone
        \/ a = Klave /\ gestion[a] \in Resguarda
    BY <1>14, <1>f, Fases DEF EscribirIndice
  <2>2. /\ a \in Personas => t \in DePersona
        /\ a = Klave => t \in DeKlave
    BY <1>f, <2>1 DEF DePersona, DeKlave, Guarda, Repone, Resguarda
  <2>3. /\ leido \in Lista /\ gestion[a].id \in Nat /\ gestion[a].etiqueta \in Origenes
        /\ gestion[a].estampa.reporte.run \in Nat
    BY <2>1 DEF Guarda, Repone, Resguarda, Estado, Reporte, Origenes
  <2>4. Va(a, t) /\ indice' = Append(leido, e)
    BY <1>14 DEF EscribirIndice
  <2> HIDE DEF t, leido
  <2>5. e \in Resumen /\ e.numero = SiguienteNumero(leido)
    BY <2>3, NumerosDeUnaLista DEF Resumen
  <2> HIDE DEF e
  <2>6. indice' \in Lista
    BY <2>3, <2>4, <2>5, AgregarALaLista
  <2>7. GestionOK'
    BY <2>2, <2>4, Avanza
  <2>8. QED
    BY <1>14, <2>6, <2>7 DEF EscribirIndice
<1>15. CASE Correr
  <2> DEFINE t == [paso |-> "corre",
                   version |-> Calculado(ediciones.corridas + 1, revisiones, parametros)]
  <2>1. t \in DeKlave
    BY DEF Corre, DeKlave, Calculado, Reporte, Contadores
  <2>2. /\ Va(Klave, t) /\ UNCHANGED enDisco
        /\ ediciones' = [ediciones EXCEPT !.corridas = @ + 1]
    BY <1>15 DEF Correr
  <2> HIDE DEF t
  <2>3. GestionOK'
    BY <2>1, <2>2, <1>f, Avanza
  <2>4. QED
    BY <2>2, <2>3, ContadoresSuben DEF enDisco
<1>16. CASE SnapshotBeforeReprocess
  <2>1. gestion[Klave] \in Corre /\ UNCHANGED enDisco
    BY <1>16, Fases DEF SnapshotBeforeReprocess
  <2>2. CASE YaEsta(reporte.run)
    <3>1. [gestion[Klave] EXCEPT !.paso = "publica"] \in DeKlave
      BY <2>1 DEF Corre, DeKlave
    <3>2. Va(Klave, [gestion[Klave] EXCEPT !.paso = "publica"]) /\ UNCHANGED ediciones
      BY <1>16, <2>2 DEF SnapshotBeforeReprocess
    <3>3. GestionOK'
      BY <3>1, <3>2, <1>f, Avanza
    <3>4. QED
      BY <2>1, <3>2, <3>3 DEF enDisco
  <2>3. CASE ~YaEsta(reporte.run)
    <3>1. LeerIndice(Klave, "publica", "antes de reprocesar", gestion[Klave].version)
      BY <1>16, <2>3 DEF SnapshotBeforeReprocess
    <3>2. gestion[Klave].version \in Reporte
      BY <2>1 DEF Corre
    <3>3. QED
      BY <2>1, <3>1, <3>2, <1>f, LeerTypes DEF enDisco
  <2>4. QED
    BY <2>2, <2>3
<1>17. CASE Publicar
  <2>1. gestion[Klave].version \in Reporte
    BY <1>17, Fases DEF Publicar, Resguarda, Corre
  <2>2. GestionOK'
    BY <1>17, <1>f, Avanza DEF Publicar, DeKlave
  <2>3. QED
    BY <1>17, <2>1, <2>2 DEF Publicar
<1>18. CASE CortarVersion
  <2>1. GestionOK'
    BY <1>18, <1>f DEF CortarVersion, GestionOK, DePersona, DeKlave
  <2>2. QED
    BY <1>18, <2>1, ContadoresSuben DEF CortarVersion, enDisco
<1>19. QED
  BY <1>1, <1>2, <1>3, <1>4, <1>5, <1>6, <1>7, <1>8, <1>9, <1>10, <1>11, <1>12, <1>13, <1>14,
     <1>15, <1>16, <1>17, <1>18 DEF VersionsNext

(* Every reachable state has the types above, and every list of versions,  *)
(* on disk or read by somebody, is in the order of its numbers.            *)
THEOREM VersionsTypes == VersionsSpec => []VersionsTypeOK
  BY InitTypes, NextTypes, PTL DEF VersionsSpec

-----------------------------------------------------------------------------
(* The lock. *)

LEMMA Cambia ==
  ASSUME GestionOK, NEW a \in Autores, NEW t, Va(a, t)
  PROVE  gestion'[a] = t /\ \A b \in Autores : b # a => gestion'[b] = gestion[b]
  BY DEF GestionOK, Va

(* What a request that begins to save is afterwards. *)
LEMMA Empieza ==
  ASSUME NEW a, NEW luego, NEW etiqueta, NEW version, LeerIndice(a, luego, etiqueta, version)
  PROVE  \E t : Va(a, t) /\ t.paso = "indice" /\ t.leido = indice /\ t.luego = luego
<1> DEFINE t == [paso |-> "indice", id |-> ediciones'.ids, leido |-> indice, luego |-> luego,
                 etiqueta |-> etiqueta, estampa |-> Estampa, version |-> version]
<1>1. Va(a, t)
  BY DEF LeerIndice
<1>2. t.paso = "indice" /\ t.leido = indice /\ t.luego = luego
  OBVIOUS
<1> HIDE DEF t
<1>3. QED
  BY <1>1, <1>2

LEMMA Autoria ==
  /\ Klave \in Autores
  /\ \A a \in Personas : a \in Autores /\ a # Klave /\ a # Ninguno
  /\ \A a \in Autores : a \in Personas \/ a = Klave
  BY VersionsAssumption, NingunoAssumption DEF Autores

LEMMA NextAlone ==
  VersionsTypeOK /\ Solos /\ [VersionsNext]_versionVars => Solos'
<1> SUFFICES ASSUME VersionsTypeOK, Solos, [VersionsNext]_versionVars PROVE Solos'
  OBVIOUS
<1>g. GestionOK
  BY DEF VersionsTypeOK
<1>1. CASE UNCHANGED versionVars
  BY <1>1 DEF versionVars, Solos
(* The lock is taken. *)
<1>2. ASSUME NEW a \in Personas, NEW t, Va(a, t), Toma(a) PROVE Solos'
  <2>1. gestion'[a] = t /\ \A b \in Autores : b # a => gestion'[b] = gestion[b]
    BY <1>2, <1>g, Autoria, Cambia
  <2>2. QED
    BY <1>2, <2>1, Autoria DEF Solos, Toma
(* The lock is held on to, or was not there. *)
<1>3. ASSUME NEW a \in Personas, NEW t, Va(a, t), cerrojo' = cerrojo,
             gestion[a].paso \notin {"libre", "espera"} \/ t.paso = "espera"
      PROVE  Solos'
  <2>1. gestion'[a] = t /\ \A b \in Autores : b # a => gestion'[b] = gestion[b]
    BY <1>3, <1>g, Autoria, Cambia
  <2>2. QED
    BY <1>3, <2>1, Autoria DEF Solos
(* The lock is let go of. *)
<1>4. ASSUME NEW a \in Personas, Acabar(a) PROVE Solos'
  <2>1. gestion'[a] = EnCalma /\ \A b \in Autores : b # a => gestion'[b] = gestion[b]
    BY <1>4, <1>g, Autoria, Cambia DEF Acabar
  <2>2. QED
    BY <1>4, <2>1, Autoria DEF Solos, Acabar, Suelta, EnCalma
(* The job has nothing to do with it. *)
<1>5. ASSUME NEW t, Va(Klave, t), cerrojo' = cerrojo PROVE Solos'
  <2>1. \A b \in Autores : b # Klave => gestion'[b] = gestion[b]
    BY <1>5, <1>g, Autoria, Cambia
  <2>2. QED
    BY <1>5, <2>1, Autoria DEF Solos
<1>6. ASSUME NEW a \in Personas,
             CreateVersion(a) \/ TomarYGuardar(a) \/ RemoveVersion(a)
      PROVE  Solos'
  BY <1>2, <1>6 DEF CreateVersion, TomarYGuardar, RemoveVersion, LeerIndice
<1>7. ASSUME NEW a \in Personas, PedirRestaurar(a) PROVE Solos'
  BY <1>3, <1>7 DEF PedirRestaurar
<1>8. ASSUME NEW a \in Personas,
             \/ RestaurarRevisiones(a) \/ RestaurarParametros(a) \/ Recalcular(a)
             \/ BorrarArchivo(a) \/ QuitarDelIndice(a) \/ EscribirVersion(a)
      PROVE  Solos'
  BY <1>3, <1>8 DEF RestaurarRevisiones, RestaurarParametros, Recalcular, BorrarArchivo,
       QuitarDelIndice, EscribirVersion
<1>9. ASSUME NEW a \in Personas, EscribirIndice(a) PROVE Solos'
  BY <1>3, <1>9 DEF EscribirIndice
<1>10. CASE EscribirVersion(Klave) \/ EscribirIndice(Klave)
  BY <1>5, <1>10 DEF EscribirVersion, EscribirIndice
<1>11. CASE Correr \/ SnapshotBeforeReprocess \/ Publicar
  BY <1>5, <1>11 DEF Correr, SnapshotBeforeReprocess, Publicar, LeerIndice
<1>12. CASE CortarVersion
  BY <1>12, Autoria DEF CortarVersion, Solos, EnCalma
<1>13. ASSUME NEW a \in Personas, Editar(a) PROVE Solos'
  BY <1>13 DEF Editar, Solos
<1>14. QED
  BY <1>1, <1>4, <1>6, <1>7, <1>8, <1>9, <1>10, <1>11, <1>12, <1>13, Autoria DEF VersionsNext

-----------------------------------------------------------------------------
(* Identifiers. *)

(* What becomes of a request when only its step changes.                   *)
LEMMA SoloElPaso ==
  ASSUME GestionOK, NEW a \in Autores, NEW p
  PROVE  LET t == [gestion[a] EXCEPT !.paso = p] IN
         /\ t.paso = p
         /\ gestion[a].paso \in {"indice", "archivo", "restaura", "borra", "quita"} => t.id = gestion[a].id
         /\ gestion[a].paso \in {"indice", "archivo", "borra", "quita"} => t.leido = gestion[a].leido
         /\ gestion[a].paso \in {"indice", "archivo", "restaura"} =>
              /\ t.estampa = gestion[a].estampa /\ t.luego = gestion[a].luego
              /\ t.version = gestion[a].version
<1>1. ASSUME gestion[a].paso \in {"indice", "archivo"}
      PROVE  gestion[a] \in Guarda \cup Repone \cup Resguarda
  BY <1>1, Autoria, Fases
<1>2. ASSUME gestion[a].paso \in {"restaura"} PROVE gestion[a] \in Repone
  BY <1>2, Autoria, Fases
<1>3. ASSUME gestion[a].paso \in {"borra", "quita"} PROVE gestion[a] \in Quita
  BY <1>3, Autoria, Fases
<1>4. "paso" \in DOMAIN gestion[a]
  <2>1. /\ "paso" \in DOMAIN EnCalma
        /\ \A t \in Guarda : "paso" \in DOMAIN t
        /\ \A t \in Repone : "paso" \in DOMAIN t
        /\ \A t \in Resguarda : "paso" \in DOMAIN t
    BY DEF EnCalma, Guarda, Repone, Resguarda
  <2>2. /\ \A t \in Espera : "paso" \in DOMAIN t
        /\ \A t \in Hecho : "paso" \in DOMAIN t
        /\ \A t \in Quita : "paso" \in DOMAIN t
        /\ \A t \in Corre : "paso" \in DOMAIN t
    BY DEF Espera, Hecho, Quita, Corre
  <2>3. QED
    BY <2>1, <2>2 DEF GestionOK, DePersona, DeKlave
<1>5. QED
  BY <1>1, <1>2, <1>3, <1>4 DEF Guarda, Repone, Resguarda, Quita

(* A step that begins nothing and saves nothing. *)
LEMMA UnicosAvanza ==
  ASSUME GestionOK, Unicos, NEW a \in Autores, NEW t, Va(a, t),
         UNCHANGED <<guardadas, borradas, indice>>, ediciones'.ids = ediciones.ids,
         t.paso \in {"indice", "archivo"} =>
           EnCurso(a) /\ t.id = gestion[a].id /\ t.leido = gestion[a].leido,
         t.paso \in {"borra", "quita"} =>
           /\ gestion[a].paso \in {"borra", "quita"}
           /\ t.id = gestion[a].id /\ t.leido = gestion[a].leido
  PROVE  Unicos'
<1>1. gestion'[a] = t /\ \A b \in Autores : b # a => gestion'[b] = gestion[b]
  BY Cambia
<1>2. QED
  BY <1>1 DEF Unicos, EnCurso

LEMMA UnicosLeer ==
  ASSUME VersionsTypeOK, Unicos, NEW a \in Autores, NEW luego, NEW etiqueta, NEW version,
         LeerIndice(a, luego, etiqueta, version), UNCHANGED <<guardadas, borradas, indice>>
  PROVE  Unicos'
<1> DEFINE t == [paso |-> "indice", id |-> ediciones'.ids, leido |-> indice, luego |-> luego,
                 etiqueta |-> etiqueta, estampa |-> Estampa, version |-> version]
<1>1. /\ ediciones.ids \in Nat /\ ediciones'.ids = ediciones.ids + 1
      /\ ediciones.ids < MaxVersiones /\ MaxVersiones \in Nat
  BY VersionsAssumption DEF LeerIndice, VersionsTypeOK, Contadores
<1>2. Va(a, t) /\ GestionOK
  BY DEF LeerIndice, VersionsTypeOK
<1>3. t.paso = "indice" /\ t.id = ediciones.ids + 1 /\ t.leido = indice
  BY <1>1
<1> HIDE DEF t
<1>4. gestion'[a] = t /\ \A b \in Autores : b # a => gestion'[b] = gestion[b]
  BY <1>2, Cambia
<1> DEFINE n == ediciones.ids
<1>5. n \in Nat /\ ediciones'.ids = n + 1 /\ n + 1 <= MaxVersiones
  BY <1>1
<1>6. /\ guardadas \subseteq 1..n
      /\ \A b \in Autores : EnCurso(b) => gestion[b].id \in 1..n /\ gestion[b].id \notin guardadas
  BY DEF Unicos
<1> HIDE DEF n
<1>7. n + 1 \notin 1..n /\ n + 1 \in 1..(n + 1) /\ \A x \in 1..n : x \in 1..(n + 1)
  BY <1>5
<1>8. ediciones'.ids <= MaxVersiones /\ guardadas' \subseteq 1..ediciones'.ids
  BY <1>5, <1>6, <1>7
<1>9. \A b \in Autores :
        EnCurso(b)' => gestion'[b].id \in 1..ediciones'.ids /\ gestion'[b].id \notin guardadas'
  BY <1>3, <1>4, <1>5, <1>6, <1>7 DEF EnCurso, n
<1>10. \A b, c \in Autores :
         b # c /\ EnCurso(b)' /\ EnCurso(c)' => gestion'[b].id # gestion'[c].id
  BY <1>3, <1>4, <1>6, <1>7 DEF EnCurso, Unicos, n
<1>11. /\ borradas' \subseteq guardadas' /\ Identificados(indice)' \subseteq guardadas'
       /\ \A b \in Autores :
            /\ gestion'[b].paso \in {"indice", "archivo", "borra", "quita"} =>
                 Identificados(gestion'[b].leido) \subseteq guardadas'
            /\ gestion'[b].paso \in {"borra", "quita"} => gestion'[b].id \in borradas'
  BY <1>3, <1>4 DEF Unicos
<1>12. QED
  BY <1>8, <1>9, <1>10, <1>11 DEF Unicos, EnCurso, Identificados

LEMMA NextUnique ==
  VersionsTypeOK /\ Unicos /\ [VersionsNext]_versionVars => Unicos'
<1> SUFFICES ASSUME VersionsTypeOK, Unicos, [VersionsNext]_versionVars PROVE Unicos'
  OBVIOUS
<1>g. GestionOK
  BY DEF VersionsTypeOK
<1>i. Listadas = Identificados(indice)
  BY DEF Listadas, Identificados
<1>1. CASE UNCHANGED versionVars
  BY <1>1 DEF versionVars, Unicos, EnCurso
<1>2. ASSUME NEW a \in Personas, CreateVersion(a) \/ TomarYGuardar(a) PROVE Unicos'
  BY <1>2, Autoria, UnicosLeer DEF CreateVersion, TomarYGuardar, enDisco, historiaV
<1>3. ASSUME NEW a \in Autores, NEW p, Va(a, [gestion[a] EXCEPT !.paso = p]),
             UNCHANGED <<guardadas, borradas, indice>>, ediciones'.ids = ediciones.ids,
             p \in {"indice", "archivo"} => EnCurso(a),
             p \in {"borra", "quita"} => gestion[a].paso \in {"borra", "quita"}
      PROVE  Unicos'
  <2> DEFINE t == [gestion[a] EXCEPT !.paso = p]
  <2>1. /\ t.paso = p
        /\ EnCurso(a) => t.id = gestion[a].id /\ t.leido = gestion[a].leido
        /\ gestion[a].paso \in {"borra", "quita"} =>
             t.id = gestion[a].id /\ t.leido = gestion[a].leido
    BY <1>g, SoloElPaso DEF EnCurso
  <2>2. Va(a, t)
    BY <1>3
  <2> HIDE DEF t
  <2>3. QED
    BY <1>3, <1>g, <2>1, <2>2, UnicosAvanza
<1>4. ASSUME NEW a \in Personas, RestaurarRevisiones(a) \/ RestaurarParametros(a) \/ BorrarArchivo(a)
      PROVE  Unicos'
  BY <1>3, <1>4, Autoria DEF RestaurarRevisiones, RestaurarParametros, BorrarArchivo, historiaV
<1>5. ASSUME NEW a \in Autores, EscribirVersion(a) PROVE Unicos'
  BY <1>3, <1>5 DEF EscribirVersion, EnCurso, historiaV
<1>6. ASSUME NEW a \in Autores, NEW t, Va(a, t), t.paso \in {"espera", "hecho", "libre", "corre"},
             UNCHANGED <<guardadas, borradas, indice>>, ediciones'.ids = ediciones.ids
      PROVE  Unicos'
  BY <1>6, <1>g, UnicosAvanza
<1>7. ASSUME NEW a \in Personas, PedirRestaurar(a) \/ Recalcular(a) \/ Acabar(a) PROVE Unicos'
  BY <1>6, <1>7, Autoria DEF PedirRestaurar, Recalcular, Acabar, EnCalma, historiaV, enDisco
<1>8. CASE Correr
  <2>1. ediciones'.ids = ediciones.ids
    BY <1>8 DEF Correr, VersionsTypeOK, Contadores
  <2>2. QED
    BY <1>6, <1>8, <2>1, Autoria DEF Correr, enDisco
<1>9. CASE Publicar
  BY <1>6, <1>9, Autoria DEF Publicar, EnCalma, historiaV
<1>10. CASE SnapshotBeforeReprocess
  <2>1. CASE YaEsta(reporte.run)
    BY <1>3, <1>10, <2>1, Autoria DEF SnapshotBeforeReprocess, enDisco, historiaV
  <2>2. CASE ~YaEsta(reporte.run)
    BY <1>10, <2>2, Autoria, UnicosLeer DEF SnapshotBeforeReprocess, enDisco, historiaV
  <2>3. QED
    BY <2>1, <2>2
<1>11. ASSUME NEW a \in Personas, RemoveVersion(a) PROVE Unicos'
  <2>1. PICK id \in Listadas : /\ Va(a, [paso |-> "borra", id |-> id, leido |-> indice])
                               /\ borradas' = borradas \cup {id}
                               /\ UNCHANGED <<indice, ediciones, guardadas>>
    BY <1>11 DEF RemoveVersion, enDisco
  <2>2. /\ gestion'[a] = [paso |-> "borra", id |-> id, leido |-> indice]
        /\ \A b \in Autores : b # a => gestion'[b] = gestion[b]
    BY <2>1, <1>g, Autoria, Cambia
  <2>3. gestion'[a].paso = "borra" /\ gestion'[a].id = id /\ gestion'[a].leido = indice
    BY <2>2
  <2>4. id \in guardadas /\ Identificados(indice) \subseteq guardadas
    BY <1>i DEF Unicos
  <2>5. Identificados(indice)' = Identificados(indice)
    BY <2>1 DEF Identificados
  <2>6. borradas' \subseteq guardadas'
    BY <2>1, <2>4 DEF Unicos
  <2>7. \A b \in Autores : EnCurso(b)' => b # a /\ EnCurso(b) /\ gestion'[b] = gestion[b]
    BY <2>2, <2>3 DEF EnCurso
  <2>8. ASSUME NEW b \in Autores
        PROVE  /\ EnCurso(b)' => gestion'[b].id \in 1..ediciones.ids /\ gestion'[b].id \notin guardadas
               /\ gestion'[b].paso \in {"indice", "archivo", "borra", "quita"} =>
                    Identificados(gestion'[b].leido) \subseteq guardadas
               /\ gestion'[b].paso \in {"borra", "quita"} => gestion'[b].id \in borradas'
    <3>1. CASE b = a
      BY <2>1, <2>3, <2>4, <2>7, <3>1
    <3>2. CASE b # a
      BY <2>1, <2>2, <2>7, <3>2 DEF Unicos
    <3>3. QED
      BY <3>1, <3>2
  <2>9. \A b, c \in Autores : b # c /\ EnCurso(b)' /\ EnCurso(c)' => gestion'[b].id # gestion'[c].id
    BY <2>7 DEF Unicos
  <2>10. QED
    BY <2>1, <2>4, <2>5, <2>6, <2>8, <2>9 DEF Unicos
<1>12. ASSUME NEW a \in Personas, QuitarDelIndice(a) PROVE Unicos'
  <2>1. gestion[a].leido \in Lista /\ Identificados(gestion[a].leido) \subseteq guardadas
    BY <1>12, <1>g, Autoria, Fases DEF QuitarDelIndice, Quita, Unicos
  <2>2. Identificados(indice') \subseteq guardadas
    BY <1>12, <2>1, QuitarDeLaLista DEF QuitarDelIndice
  <2>3. gestion'[a].paso = "hecho" /\ \A b \in Autores : b # a => gestion'[b] = gestion[b]
    BY <1>12, <1>g, Autoria, Cambia DEF QuitarDelIndice
  <2>4. UNCHANGED <<ediciones, guardadas, borradas>>
    BY <1>12 DEF QuitarDelIndice
  <2>5. Identificados(indice)' = Identificados(indice')
    BY DEF Identificados
  <2>6. QED
    BY <2>2, <2>3, <2>4, <2>5 DEF Unicos, EnCurso
<1>13. ASSUME NEW a \in Autores, EscribirIndice(a) PROVE Unicos'
  <2> DEFINE leido == gestion[a].leido
             e == [id |-> gestion[a].id, numero |-> SiguienteNumero(leido),
                   etiqueta |-> gestion[a].etiqueta, run |-> gestion[a].estampa.reporte.run]
  <2>1. \/ gestion[a] \in Guarda \/ gestion[a] \in Repone \/ gestion[a] \in Resguarda
    BY <1>13, <1>g, Autoria, Fases DEF EscribirIndice
  <2>2. /\ leido \in Lista /\ gestion[a].id \in Nat /\ gestion[a].etiqueta \in Origenes
        /\ gestion[a].estampa.reporte.run \in Nat
        /\ gestion[a].luego \in {"hecho", "restaura", "publica"}
    BY <2>1 DEF Guarda, Repone, Resguarda, Estado, Reporte, Origenes
  <2>3. /\ Va(a, [gestion[a] EXCEPT !.paso = gestion[a].luego]) /\ indice' = Append(leido, e)
        /\ guardadas' = guardadas \cup {gestion[a].id} /\ UNCHANGED <<ediciones, borradas>>
        /\ EnCurso(a)
    BY <1>13 DEF EscribirIndice, EnCurso
  <2>4. e \in Resumen /\ e.numero = SiguienteNumero(leido) /\ e.id = gestion[a].id
    BY <2>2, NumerosDeUnaLista DEF Resumen
  <2>5. Identificados(indice') = Identificados(leido) \cup {gestion[a].id}
    BY <2>2, <2>3, <2>4, AgregarALaLista
  <2>6. gestion'[a].paso \in {"hecho", "restaura", "publica"}
    <3>1. gestion'[a] = [gestion[a] EXCEPT !.paso = gestion[a].luego]
      BY <2>3, <1>g, Cambia
    <3>2. gestion'[a].paso = gestion[a].luego
      BY <3>1, <1>g, SoloElPaso
    <3>3. QED
      BY <2>2, <3>2
  <2>7. \A b \in Autores : b # a => gestion'[b] = gestion[b]
    BY <2>3, <1>g, Cambia
  <2>8. Identificados(leido) \subseteq guardadas /\ gestion[a].id \in 1..ediciones.ids
    BY <2>3 DEF Unicos, EnCurso
  <2>9. Identificados(indice)' = Identificados(indice')
    BY DEF Identificados
  <2> HIDE DEF leido, e
  <2>10. QED
    BY <2>3, <2>5, <2>6, <2>7, <2>8, <2>9 DEF Unicos, EnCurso
<1>14. CASE CortarVersion
  <2>1. ediciones'.ids = ediciones.ids
    BY <1>14 DEF CortarVersion, VersionsTypeOK, Contadores
  <2>2. QED
    BY <1>14, <2>1, Autoria DEF CortarVersion, Unicos, EnCurso, EnCalma, enDisco, historiaV
<1>15. ASSUME NEW a \in Personas, Editar(a) PROVE Unicos'
  <2>1. ediciones'.ids = ediciones.ids
    BY <1>15 DEF Editar, VersionsTypeOK, Contadores
  <2>2. QED
    BY <1>15, <2>1 DEF Editar, Unicos, EnCurso
<1>16. QED
  BY <1>1, <1>2, <1>4, <1>5, <1>7, <1>8, <1>9, <1>10, <1>11, <1>12, <1>13, <1>14, <1>15
     DEF VersionsNext

-----------------------------------------------------------------------------
(* Files and the list. *)

LEMMA HayEstado == \A e \in Estado : e # Ninguno
<1>1. \A e \in Estado : "reporte" \in DOMAIN e
  BY DEF Estado
<1>2. "reporte" \notin DOMAIN Ninguno
  BY DEF Ninguno
<1>3. QED
  BY <1>1, <1>2

(* What is known of a request that is saving. *)
LEMMA Guardando ==
  ASSUME VersionsTypeOK, Unicos, NEW a \in Autores, EnCurso(a)
  PROVE  /\ gestion[a].id \in Ids /\ gestion[a].id \notin guardadas
         /\ gestion[a].estampa \in Estado /\ gestion[a].estampa # Ninguno
         /\ gestion[a].leido \in Lista /\ gestion[a].etiqueta \in Origenes
         /\ gestion[a].estampa.reporte.run \in Nat
         /\ gestion[a].luego \in {"hecho", "restaura", "publica"}
<1>1. gestion[a] \in Guarda \/ gestion[a] \in Repone \/ gestion[a] \in Resguarda
  BY Autoria, Fases DEF EnCurso, VersionsTypeOK
<1>2. /\ gestion[a].estampa \in Estado
      /\ gestion[a].leido \in Lista /\ gestion[a].etiqueta \in Origenes
      /\ gestion[a].estampa.reporte.run \in Nat
      /\ gestion[a].luego \in {"hecho", "restaura", "publica"}
  BY <1>1 DEF Guarda, Repone, Resguarda, Origenes, Estado, Reporte
<1>3. gestion[a].id \in Ids /\ gestion[a].id \notin guardadas
  <2>1. ediciones.ids \in Nat /\ MaxVersiones \in Nat
    BY VersionsAssumption DEF VersionsTypeOK, Contadores
  <2>2. QED
    BY <2>1 DEF Unicos, Ids
<1>4. QED
  BY <1>2, <1>3, HayEstado

(* The entry that EscribirIndice adds. *)
LEMMA EntradaNueva ==
  ASSUME VersionsTypeOK, Unicos, NEW a \in Autores, EscribirIndice(a)
  PROVE  /\ Identificados(indice)' = Identificados(gestion[a].leido) \cup {gestion[a].id}
         /\ \A run \in Nat :
              /\ Anterior(gestion[a].leido, run)
              /\ gestion[a].etiqueta = "antes de reprocesar" => gestion[a].estampa.reporte.run < run
              => Anterior(indice', run)
<1> DEFINE leido == gestion[a].leido
           e == [id |-> gestion[a].id, numero |-> SiguienteNumero(leido),
                 etiqueta |-> gestion[a].etiqueta, run |-> gestion[a].estampa.reporte.run]
<1>1. /\ leido \in Lista /\ gestion[a].id \in Nat /\ gestion[a].etiqueta \in Origenes
      /\ gestion[a].estampa.reporte.run \in Nat
  BY Guardando DEF EscribirIndice, EnCurso, Ids
<1>2. indice' = Append(leido, e)
  BY DEF EscribirIndice
<1>3. e \in Resumen /\ e.numero = SiguienteNumero(leido)
  BY <1>1, NumerosDeUnaLista DEF Resumen
<1>4. e.id = gestion[a].id /\ e.etiqueta = gestion[a].etiqueta
      /\ e.run = gestion[a].estampa.reporte.run
  OBVIOUS
<1>5. Identificados(indice)' = Identificados(indice')
  BY DEF Identificados
<1> HIDE DEF e
<1>6. QED
  BY <1>1, <1>2, <1>3, <1>4, <1>5, AgregarALaLista

LEMMA NextKept ==
  VersionsTypeOK /\ Unicos /\ Guardados /\ [VersionsNext]_versionVars => Guardados'
<1> SUFFICES ASSUME VersionsTypeOK, Unicos, Guardados, [VersionsNext]_versionVars PROVE Guardados'
  OBVIOUS
<1>g. GestionOK
  BY DEF VersionsTypeOK
<1>i. /\ Listadas = Identificados(indice)
      /\ indice' = indice => Identificados(indice)' = Identificados(indice)
  BY DEF Listadas, Identificados
<1>1. CASE UNCHANGED versionVars
  BY <1>1, <1>i DEF versionVars, Guardados
(* A step that neither writes a version nor the list. *)
<1>2. ASSUME NEW a \in Autores, NEW t, Va(a, t), t.paso # "archivo",
             UNCHANGED <<archivo, guardadas, indice, pisado>>, borradas \subseteq borradas'
      PROVE  Guardados'
  <2>1. gestion'[a] = t /\ \A b \in Autores : b # a => gestion'[b] = gestion[b]
    BY <1>2, <1>g, Cambia
  <2>2. QED
    BY <1>2, <2>1, <1>i DEF Guardados
<1>3. ASSUME NEW a \in Personas, CreateVersion(a) \/ TomarYGuardar(a) PROVE Guardados'
  BY <1>2, <1>3, Autoria DEF CreateVersion, TomarYGuardar, enDisco, historiaV, LeerIndice
<1>4. ASSUME NEW a \in Personas, RestaurarRevisiones(a) \/ RestaurarParametros(a) PROVE Guardados'
  <2>1. \A p : [gestion[a] EXCEPT !.paso = p].paso = p
    BY <1>g, Autoria, SoloElPaso
  <2>2. QED
    BY <1>2, <1>4, <2>1, Autoria DEF RestaurarRevisiones, RestaurarParametros, historiaV
<1>5. ASSUME NEW a \in Autores, EscribirVersion(a) PROVE Guardados'
  <2> DEFINE id == gestion[a].id
  <2>1. EnCurso(a) /\ gestion[a].paso = "indice"
    BY <1>5 DEF EscribirVersion, EnCurso
  <2>2. id \in Ids /\ id \notin guardadas
    BY <2>1, Guardando
  <2>3. archivo'[id] = gestion[a].estampa /\ \A x \in Ids : x # id => archivo'[x] = archivo[x]
    BY <1>5, <2>2 DEF EscribirVersion, VersionsTypeOK
  <2>4. gestion'[a] = [gestion[a] EXCEPT !.paso = "archivo"]
        /\ \A b \in Autores : b # a => gestion'[b] = gestion[b]
    BY <1>5, <1>g, Cambia DEF EscribirVersion
  <2>5. gestion'[a].id = id /\ gestion'[a].estampa = gestion[a].estampa
    BY <2>1, <2>4, <1>g, SoloElPaso
  <2>6. \A b \in Autores : b # a /\ EnCurso(b) => gestion[b].id \in Ids /\ gestion[b].id # id
    BY <2>1, Guardando DEF Unicos
  <2>7. guardadas \subseteq Ids
    BY VersionsAssumption DEF Unicos, VersionsTypeOK, Contadores, Ids
  <2>8. UNCHANGED <<guardadas, borradas, indice, pisado>>
    BY <1>5 DEF EscribirVersion, historiaV
  <2> HIDE DEF id
  <2>9. \A b \in Autores : gestion'[b].paso = "archivo" => archivo'[gestion'[b].id] = gestion'[b].estampa
    <3> SUFFICES ASSUME NEW b \in Autores, gestion'[b].paso = "archivo"
                 PROVE  archivo'[gestion'[b].id] = gestion'[b].estampa
      OBVIOUS
    <3>1. CASE b = a
      BY <2>3, <2>5, <3>1
    <3>2. CASE b # a
      <4>1. gestion'[b] = gestion[b] /\ gestion[b].paso = "archivo"
        BY <2>4, <3>2
      <4>2. gestion[b].id \in Ids /\ gestion[b].id # id
        BY <2>6, <3>2, <4>1 DEF EnCurso
      <4>3. QED
        BY <2>3, <4>1, <4>2 DEF Guardados
    <3>3. QED
      BY <3>1, <3>2
  <2>10. \A x \in guardadas : archivo'[x] = archivo[x]
    BY <2>2, <2>3, <2>7
  <2>11. QED
    BY <2>8, <2>9, <2>10, <1>i DEF Guardados
<1>6. ASSUME NEW a \in Autores, EscribirIndice(a) PROVE Guardados'
  <2> DEFINE id == gestion[a].id
  <2>1. EnCurso(a) /\ gestion[a].paso = "archivo"
    BY <1>6 DEF EscribirIndice, EnCurso
  <2>2. /\ id \in Ids /\ id \notin guardadas /\ gestion[a].estampa # Ninguno
        /\ gestion[a].luego # "archivo"
    BY <2>1, Guardando
  <2>3. archivo[id] # Ninguno
    BY <2>1, <2>2 DEF Guardados
  <2>4. /\ gestion'[a] = [gestion[a] EXCEPT !.paso = gestion[a].luego]
        /\ \A b \in Autores : b # a => gestion'[b] = gestion[b]
    BY <1>6, <1>g, Cambia DEF EscribirIndice
  <2>5. gestion'[a].paso # "archivo"
    BY <2>2, <2>4, <1>g, SoloElPaso
  <2>6. /\ UNCHANGED <<archivo, borradas>> /\ guardadas' = guardadas \cup {id}
        /\ pisado' = (pisado \/ indice # gestion[a].leido)
    BY <1>6 DEF EscribirIndice
  <2>7. Identificados(indice)' = Identificados(gestion[a].leido) \cup {id}
    BY <1>6, EntradaNueva
  <2> HIDE DEF id
  <2>8. ~pisado' => guardadas' \ borradas' \subseteq Identificados(indice)'
    BY <2>6, <2>7 DEF Guardados
  <2>9. QED
    BY <2>3, <2>4, <2>5, <2>6, <2>8 DEF Guardados
<1>7. ASSUME NEW a \in Personas, PedirRestaurar(a) \/ Recalcular(a) \/ Acabar(a) PROVE Guardados'
  BY <1>2, <1>7, Autoria DEF PedirRestaurar, Recalcular, Acabar, EnCalma, historiaV, enDisco
<1>8. ASSUME NEW a \in Personas, RemoveVersion(a) PROVE Guardados'
  BY <1>2, <1>8, Autoria DEF RemoveVersion, enDisco
<1>9. ASSUME NEW a \in Personas, BorrarArchivo(a) PROVE Guardados'
  <2> DEFINE id == gestion[a].id
  <2>1. gestion[a].paso = "borra" /\ id \in borradas /\ borradas \subseteq guardadas
    BY <1>9, Autoria DEF BorrarArchivo, Unicos
  <2>2. \A x \in Ids : x # id => archivo'[x] = archivo[x]
    BY <1>9 DEF BorrarArchivo, VersionsTypeOK
  <2>3. guardadas \subseteq Ids
    BY VersionsAssumption DEF Unicos, VersionsTypeOK, Contadores, Ids
  <2>4. \A b \in Autores : EnCurso(b) => gestion[b].id \in Ids /\ gestion[b].id # id
    BY <2>1, Guardando
  <2>5. /\ gestion'[a] = [gestion[a] EXCEPT !.paso = "quita"]
        /\ \A b \in Autores : b # a => gestion'[b] = gestion[b]
    BY <1>9, <1>g, Autoria, Cambia DEF BorrarArchivo
  <2>6. gestion'[a].paso = "quita"
    BY <2>5, <1>g, Autoria, SoloElPaso
  <2>7. UNCHANGED <<guardadas, borradas, indice, pisado>>
    BY <1>9 DEF BorrarArchivo, historiaV
  <2> HIDE DEF id
  <2>8. \A b \in Autores : gestion'[b].paso = "archivo" => archivo'[gestion'[b].id] = gestion'[b].estampa
    <3> SUFFICES ASSUME NEW b \in Autores, gestion'[b].paso = "archivo"
                 PROVE  archivo'[gestion'[b].id] = gestion'[b].estampa
      OBVIOUS
    <3>1. gestion'[b] = gestion[b] /\ gestion[b].paso = "archivo"
      BY <2>5, <2>6
    <3>2. gestion[b].id \in Ids /\ gestion[b].id # id
      BY <2>4, <3>1 DEF EnCurso
    <3>3. QED
      BY <2>2, <3>1, <3>2 DEF Guardados
  <2>9. QED
    BY <2>1, <2>2, <2>3, <2>7, <2>8, <1>i DEF Guardados
<1>10. ASSUME NEW a \in Personas, QuitarDelIndice(a) PROVE Guardados'
  <2> DEFINE leido == gestion[a].leido
  <2>1. leido \in Lista /\ gestion[a].id \in borradas
    BY <1>10, <1>g, Autoria, Fases DEF QuitarDelIndice, Quita, Unicos
  <2>2. Identificados(leido) \ {gestion[a].id} \subseteq Identificados(indice')
    BY <1>10, <2>1, QuitarDeLaLista DEF QuitarDelIndice
  <2>3. gestion'[a].paso = "hecho" /\ \A b \in Autores : b # a => gestion'[b] = gestion[b]
    BY <1>10, <1>g, Autoria, Cambia DEF QuitarDelIndice
  <2>4. /\ UNCHANGED <<archivo, guardadas, borradas>>
        /\ pisado' = (pisado \/ indice # leido)
    BY <1>10 DEF QuitarDelIndice
  <2>5. Identificados(indice)' = Identificados(indice')
    BY DEF Identificados
  <2>6. ~pisado' => guardadas' \ borradas' \subseteq Identificados(indice)'
    BY <2>1, <2>2, <2>4, <2>5 DEF Guardados
  <2>7. QED
    BY <2>3, <2>4, <2>6 DEF Guardados
<1>11. CASE Correr \/ Publicar
  BY <1>2, <1>11, Autoria DEF Correr, Publicar, EnCalma, enDisco, historiaV
<1>12. CASE SnapshotBeforeReprocess
  <2>1. [gestion[Klave] EXCEPT !.paso = "publica"].paso = "publica"
    BY <1>g, Autoria, SoloElPaso
  <2>2. QED
    BY <1>2, <1>12, <2>1, Autoria DEF SnapshotBeforeReprocess, LeerIndice, enDisco, historiaV
<1>13. CASE CortarVersion
  BY <1>13, <1>i DEF CortarVersion, Guardados, EnCalma, enDisco, historiaV
<1>14. ASSUME NEW a \in Personas, Editar(a) PROVE Guardados'
  BY <1>14, <1>i DEF Editar, Guardados
<1>15. QED
  BY <1>1, <1>3, <1>4, <1>5, <1>6, <1>7, <1>8, <1>9, <1>10, <1>11, <1>12, <1>13, <1>14
     DEF VersionsNext

-----------------------------------------------------------------------------
(* What restores replace. *)

(* The file of a version that was saved stays as it is until somebody asks *)
(* to delete it.                                                           *)
LEMMA Estables ==
  ASSUME VersionsTypeOK, Unicos, [VersionsNext]_versionVars
  PROVE  /\ guardadas \subseteq guardadas' /\ borradas \subseteq borradas'
         /\ \A id \in guardadas : id \notin borradas' => archivo'[id] = archivo[id]
<1>1. /\ guardadas \subseteq guardadas' /\ borradas \subseteq borradas'
  BY DEF VersionsNext, versionVars, Editar, CreateVersion, PedirRestaurar, TomarYGuardar,
         RestaurarRevisiones, RestaurarParametros, Recalcular, RemoveVersion, BorrarArchivo,
         QuitarDelIndice, Acabar, EscribirVersion, EscribirIndice, Correr,
         SnapshotBeforeReprocess, Publicar, CortarVersion, historiaV
<1>2. guardadas \subseteq Ids
  BY VersionsAssumption DEF Unicos, VersionsTypeOK, Contadores, Ids
<1>3. ASSUME NEW a \in Autores, EscribirVersion(a), NEW id \in guardadas
      PROVE  archivo'[id] = archivo[id]
  <2>1. gestion[a].id \notin guardadas
    BY <1>3, Guardando DEF EscribirVersion, EnCurso
  <2>2. QED
    BY <1>2, <1>3, <2>1 DEF EscribirVersion, VersionsTypeOK
<1>4. ASSUME NEW a \in Personas, BorrarArchivo(a), NEW id \in guardadas, id \notin borradas'
      PROVE  archivo'[id] = archivo[id]
  <2>1. gestion[a].id \in borradas
    BY <1>4, Autoria DEF BorrarArchivo, Unicos
  <2>2. QED
    BY <1>1, <1>2, <1>4, <2>1 DEF BorrarArchivo, VersionsTypeOK
<1>5. \/ UNCHANGED archivo
      \/ \E a \in Autores : EscribirVersion(a)
      \/ \E a \in Personas : BorrarArchivo(a)
  BY DEF VersionsNext, versionVars, Editar, CreateVersion, PedirRestaurar, TomarYGuardar,
         RestaurarRevisiones, RestaurarParametros, Recalcular, RemoveVersion,
         QuitarDelIndice, Acabar, EscribirIndice, Correr,
         SnapshotBeforeReprocess, Publicar, CortarVersion, enDisco
<1>6. QED
  BY <1>1, <1>3, <1>4, <1>5

LEMMA NextRestored ==
  ASSUME VersionsTypeOK, Solos, Unicos, Guardados, Resguardados, [VersionsNext]_versionVars
  PROVE  Resguardados'
<1>g. GestionOK
  BY DEF VersionsTypeOK
<1>e. /\ guardadas \subseteq guardadas' /\ borradas \subseteq borradas'
      /\ \A id \in guardadas : id \notin borradas' => archivo'[id] = archivo[id]
  BY Estables
<1>r. \A r \in repuestas : RepuestaEn(r)'
  BY <1>e DEF Resguardados, RepuestaEn
(* A request that stays where it is, with the decisions it saved. *)
<1>s. ASSUME NEW b \in Personas, gestion'[b] = gestion[b], UNCHANGED <<revisiones, parametros>>
      PROVE  RespaldoEn(b)'
  BY <1>e, <1>s DEF Resguardados, RespaldoEn
(* When the decisions change, nobody else is about to replace them. *)
<1>n. ASSUME NEW b \in Personas, cerrojo # b PROVE gestion[b] \notin Repone
  BY <1>n DEF Solos, Repone
<1>1. CASE UNCHANGED versionVars
  BY <1>1, <1>r, <1>s DEF versionVars, Resguardados
(* A step that leaves the decisions, of a request that replaces nothing. *)
<1>2. ASSUME NEW a \in Autores, NEW t, Va(a, t), UNCHANGED <<revisiones, parametros, repuestas>>,
             \/ a \notin Personas \/ t \notin Repone
             \/ t.paso \notin {"indice", "archivo", "restaura"}
      PROVE  Resguardados'
  <2>1. gestion'[a] = t /\ \A b \in Autores : b # a => gestion'[b] = gestion[b]
    BY <1>2, <1>g, Cambia
  <2>2. \A b \in Personas : b # a => RespaldoEn(b)'
    BY <1>2, <1>s, <2>1, Autoria
  <2>3. a \in Personas => RespaldoEn(a)'
    BY <1>2, <2>1 DEF RespaldoEn
  <2>4. QED
    BY <1>2, <1>r, <2>2, <2>3 DEF Resguardados
<1>3. ASSUME NEW a \in Personas,
             CreateVersion(a) \/ PedirRestaurar(a) \/ Recalcular(a) \/ RemoveVersion(a)
               \/ QuitarDelIndice(a) \/ Acabar(a)
      PROVE  Resguardados'
  <2>1. PICK t : /\ Va(a, t)
                 /\ \/ t.paso = "indice" /\ t.luego = "hecho"
                    \/ t.paso \in {"espera", "hecho", "borra", "libre"}
    <3>1. CASE CreateVersion(a)
      <4>1. LeerIndice(a, "hecho", "de una persona", Ninguno)
        BY <3>1 DEF CreateVersion
      <4>2. PICK t : Va(a, t) /\ t.paso = "indice" /\ t.leido = indice /\ t.luego = "hecho"
        BY <4>1, Empieza
      <4>3. QED
        BY <4>2
    <3>2. CASE PedirRestaurar(a)
      BY <3>2 DEF PedirRestaurar
    <3>3. CASE Recalcular(a) \/ QuitarDelIndice(a)
      BY <3>3 DEF Recalcular, QuitarDelIndice
    <3>4. CASE RemoveVersion(a)
      BY <3>4 DEF RemoveVersion
    <3>5. CASE Acabar(a)
      BY <3>5 DEF Acabar, EnCalma
    <3>6. QED
      BY <1>3, <3>1, <3>2, <3>3, <3>4, <3>5
  <2>2. t \notin Repone \/ t.paso \notin {"indice", "archivo", "restaura"}
    BY <2>1 DEF Repone
  <2>3. UNCHANGED <<revisiones, parametros, repuestas>>
    BY <1>3 DEF CreateVersion, PedirRestaurar, Recalcular, RemoveVersion, QuitarDelIndice, Acabar,
                enDisco, historiaV
  <2>4. QED
    BY <1>2, <2>1, <2>2, <2>3, Autoria
<1>4. ASSUME NEW a \in Personas, BorrarArchivo(a) PROVE Resguardados'
  <2>1. [gestion[a] EXCEPT !.paso = "quita"].paso = "quita"
    BY <1>g, Autoria, SoloElPaso
  <2>2. QED
    BY <1>2, <1>4, <2>1, Autoria DEF BorrarArchivo, historiaV
<1>5. CASE Correr \/ SnapshotBeforeReprocess \/ Publicar
  <2>1. \E t : Va(Klave, t)
    BY <1>5 DEF Correr, SnapshotBeforeReprocess, Publicar, LeerIndice
  <2>2. UNCHANGED <<revisiones, parametros, repuestas>>
    BY <1>5 DEF Correr, SnapshotBeforeReprocess, Publicar, enDisco, historiaV
  <2>3. QED
    BY <1>2, <2>1, <2>2, Autoria
<1>6. CASE EscribirVersion(Klave) \/ EscribirIndice(Klave)
  BY <1>2, <1>6, Autoria DEF EscribirVersion, EscribirIndice, historiaV
<1>7. ASSUME NEW a \in Personas, TomarYGuardar(a) PROVE Resguardados'
  <2> DEFINE t == [paso |-> "indice", id |-> ediciones'.ids, leido |-> indice, luego |-> "restaura",
                   etiqueta |-> "antes de restaurar", estampa |-> Estampa,
                   version |-> gestion[a].version]
  <2>1. Va(a, t) /\ UNCHANGED <<revisiones, parametros, repuestas>>
    BY <1>7 DEF TomarYGuardar, LeerIndice, enDisco, historiaV
  <2>2. t.paso = "indice" /\ t.estampa.revisiones = revisiones /\ t.estampa.parametros = parametros
    BY DEF Estampa
  <2> HIDE DEF t
  <2>3. gestion'[a] = t /\ \A b \in Autores : b # a => gestion'[b] = gestion[b]
    BY <2>1, <1>g, Autoria, Cambia
  <2>4. RespaldoEn(a)'
    BY <2>1, <2>2, <2>3 DEF RespaldoEn
  <2>5. \A b \in Personas : b # a => RespaldoEn(b)'
    BY <1>s, <2>1, <2>3, Autoria
  <2>6. QED
    BY <1>r, <2>1, <2>4, <2>5 DEF Resguardados
(* A step of the saving that a restore begins with. *)
<1>8. ASSUME NEW a \in Personas, EscribirVersion(a) \/ EscribirIndice(a) PROVE Resguardados'
  <2>1. /\ EnCurso(a) /\ UNCHANGED <<revisiones, parametros, repuestas>>
        /\ EscribirIndice(a) => gestion[a].paso = "archivo"
        /\ EscribirIndice(a) => gestion[a].id \in guardadas' /\ UNCHANGED <<archivo, borradas>>
    BY <1>8 DEF EscribirVersion, EscribirIndice, EnCurso, historiaV
  <2>2. PICK p : /\ Va(a, [gestion[a] EXCEPT !.paso = p])
                 /\ p = "archivo" \/ EscribirIndice(a)
    BY <1>8 DEF EscribirVersion, EscribirIndice
  <2>3. /\ gestion'[a] = [gestion[a] EXCEPT !.paso = p]
        /\ \A b \in Autores : b # a => gestion'[b] = gestion[b]
    BY <2>2, <1>g, Autoria, Cambia
  <2>4. /\ gestion'[a].paso = p /\ gestion'[a].id = gestion[a].id
        /\ gestion'[a].estampa = gestion[a].estampa /\ gestion'[a].luego = gestion[a].luego
    BY <2>1, <2>3, <1>g, Autoria, SoloElPaso DEF EnCurso
  <2>5. gestion'[a] \in Repone => gestion[a] \in Repone
    <3>1. gestion[a] \in Guarda => gestion[a].luego = "hecho"
      BY DEF Guarda
    <3>2. gestion'[a] \in Repone => gestion'[a].luego = "restaura"
      BY DEF Repone
    <3>3. gestion[a] \in Guarda \cup Repone
      BY <2>1, <1>g, Fases DEF EnCurso
    <3>4. QED
      BY <2>4, <3>1, <3>2, <3>3
  <2>6. p = "restaura" => archivo[gestion[a].id] = gestion[a].estampa
    BY <2>1, <2>2, Autoria DEF Guardados
  <2>7. p = "restaura" => EscribirIndice(a)
    BY <2>2
  <2>8. RespaldoEn(a)'
    BY <2>1, <2>4, <2>5, <2>6, <2>7 DEF RespaldoEn, Resguardados, EnCurso
  <2>9. \A b \in Personas : b # a => RespaldoEn(b)'
    BY <1>s, <2>1, <2>3, Autoria
  <2>10. QED
    BY <1>r, <2>1, <2>8, <2>9 DEF Resguardados
<1>9. ASSUME NEW a \in Personas, RestaurarRevisiones(a) PROVE Resguardados'
  <2>1. /\ gestion[a].paso = "restaura" /\ gestion[a] \in Repone /\ cerrojo = a
        /\ Va(a, [gestion[a] EXCEPT !.paso = "parametros"])
        /\ repuestas' = repuestas \cup
             {[id |-> gestion[a].id, revisiones |-> revisiones, parametros |-> parametros]}
        /\ UNCHANGED <<archivo, borradas, guardadas>>
    BY <1>9, <1>g, Fases DEF RestaurarRevisiones, Solos
  <2>2. /\ gestion'[a] = [gestion[a] EXCEPT !.paso = "parametros"]
        /\ \A b \in Autores : b # a => gestion'[b] = gestion[b]
    BY <2>1, <1>g, Autoria, Cambia
  <2>3. gestion'[a].paso = "parametros"
    BY <2>2, <1>g, Autoria, SoloElPaso
  <2>4. \A b \in Personas : b # a => RespaldoEn(b)'
    BY <1>n, <2>1, <2>2, Autoria DEF RespaldoEn
  <2>5. RespaldoEn(a)'
    BY <2>3 DEF RespaldoEn
  <2>6. RespaldoEn(a)
    BY DEF Resguardados
  <2>7. ASSUME NEW r, r = [id |-> gestion[a].id, revisiones |-> revisiones, parametros |-> parametros]
        PROVE  RepuestaEn(r)'
    <3>1. r.id = gestion[a].id /\ r.revisiones = revisiones /\ r.parametros = parametros
      BY <2>7
    <3>2. QED
      BY <2>1, <2>6, <3>1 DEF RespaldoEn, RepuestaEn
  <2>8. \A x \in repuestas' : RepuestaEn(x)'
    BY <1>r, <2>1, <2>7
  <2>9. QED
    BY <2>4, <2>5, <2>8 DEF Resguardados
<1>10. ASSUME NEW a \in Personas, RestaurarParametros(a) PROVE Resguardados'
  <2>1. /\ cerrojo = a /\ Va(a, [gestion[a] EXCEPT !.paso = "recalcula"]) /\ UNCHANGED repuestas
    BY <1>10 DEF RestaurarParametros, Solos, historiaV
  <2>2. /\ gestion'[a] = [gestion[a] EXCEPT !.paso = "recalcula"]
        /\ \A b \in Autores : b # a => gestion'[b] = gestion[b]
    BY <2>1, <1>g, Autoria, Cambia
  <2>3. gestion'[a].paso = "recalcula"
    BY <2>2, <1>g, Autoria, SoloElPaso
  <2>4. \A b \in Personas : b # a => RespaldoEn(b)'
    BY <1>n, <2>1, <2>2, Autoria DEF RespaldoEn
  <2>5. RespaldoEn(a)'
    BY <2>3 DEF RespaldoEn
  <2>6. QED
    BY <1>r, <2>1, <2>4, <2>5 DEF Resguardados
<1>11. CASE CortarVersion
  <2>1. \A b \in Personas : gestion'[b] \notin Repone
    BY <1>11, Autoria DEF CortarVersion, EnCalma, Repone
  <2>2. QED
    BY <1>11, <1>r, <2>1 DEF CortarVersion, Resguardados, RespaldoEn, historiaV
<1>12. ASSUME NEW a \in Personas, Editar(a) PROVE Resguardados'
  <2>1. \A b \in Personas : gestion'[b] \notin Repone
    BY <1>12, <1>n, Autoria DEF Editar
  <2>2. QED
    BY <1>12, <1>r, <2>1 DEF Editar, Resguardados, RespaldoEn
<1>13. QED
  BY <1>1, <1>3, <1>4, <1>5, <1>6, <1>7, <1>8, <1>9, <1>10, <1>11, <1>12, Autoria DEF VersionsNext

-----------------------------------------------------------------------------
Fiel == VersionsTypeOK /\ Solos /\ Unicos /\ Guardados /\ Resguardados

LEMMA Fidelidad == VersionsSpec => []Fiel
<1>1. VersionsInit => Solos /\ Unicos /\ Guardados /\ Resguardados
  <2> SUFFICES ASSUME VersionsInit PROVE Solos /\ Unicos /\ Guardados /\ Resguardados
    OBVIOUS
  <2>1. \A a \in Autores : gestion[a] = EnCalma
    BY DEF VersionsInit
  <2>2. Solos /\ Resguardados
    BY <2>1, Autoria DEF VersionsInit, Solos, Resguardados, RespaldoEn, EnCalma, Repone
  <2>3. Unicos
    BY <2>1, VersionsAssumption DEF VersionsInit, Unicos, EnCurso, EnCalma, Identificados
  <2>4. Guardados
    BY <2>1 DEF VersionsInit, Guardados, EnCalma, Identificados
  <2>5. QED
    BY <2>2, <2>3, <2>4
<1>2. Fiel /\ [VersionsNext]_versionVars => Fiel'
  BY NextTypes, NextAlone, NextUnique, NextKept, NextRestored DEF Fiel
<1>3. QED
  BY <1>1, <1>2, InitTypes, PTL DEF VersionsSpec, Fiel

(* Restoring a version loses nothing: what it replaces, reviews and        *)
(* parameters together, is in a version that is listed and can be loaded.  *)
THEOREM ARestoreLosesNothing == VersionsSpec => []RestoringLosesNothing
<1>1. Fiel => RestoringLosesNothing
  BY DEF Fiel, Guardados, Resguardados, RepuestaEn, RestoringLosesNothing, Listadas, Identificados
<1>2. QED
  BY <1>1, Fidelidad, PTL

(* The list of versions has every version that was saved and not deleted,  *)
(* in the order of its numbers, each with its file.                        *)
THEOREM TheListIsTrue == VersionsSpec => []ListIsTrue
<1>1. Fiel => ListIsTrue
  <2> SUFFICES ASSUME Fiel PROVE ListIsTrue
    OBVIOUS
  <2>1. Listadas = Identificados(indice)
    BY DEF Listadas, Identificados
  <2>2. EnOrden(indice)
    BY DEF Fiel, VersionsTypeOK, Lista
  <2>3. QED
    BY <2>1, <2>2 DEF Fiel, Unicos, Guardados, ListIsTrue, EnOrden
<1>2. QED
  BY <1>1, Fidelidad, PTL

-----------------------------------------------------------------------------
(* The job. *)

(* While the job waits: nobody else makes the run that is shown another. *)
LEMMA CorridaEspera ==
  ASSUME VersionsTypeOK, Unicos, Corrida, [VersionsNext]_versionVars,
         gestion'[Klave] = gestion[Klave], reporte'.run = reporte.run,
         ediciones'.corridas = ediciones.corridas,
         reporte' = reporte \/ alterado', alterado => alterado'
  PROVE  Corrida'
  BY Estables DEF Corrida, Publicable

LEMMA NextRun ==
  ASSUME VersionsTypeOK, Unicos, Guardados, Corrida, [VersionsNext]_versionVars
  PROVE  Corrida'
<1>g. GestionOK
  BY DEF VersionsTypeOK
<1>1. CASE UNCHANGED versionVars
  BY <1>1, CorridaEspera DEF versionVars
(* Steps of people. *)
<1>2. ASSUME NEW a \in Personas, NEW t, Va(a, t),
             reporte'.run = reporte.run, ediciones'.corridas = ediciones.corridas,
             reporte' = reporte \/ alterado', alterado => alterado'
      PROVE  Corrida'
  BY <1>2, <1>g, Autoria, Cambia, CorridaEspera
<1>3. ASSUME NEW a \in Personas,
             PedirRestaurar(a) \/ RestaurarRevisiones(a) \/ RestaurarParametros(a)
               \/ RemoveVersion(a) \/ BorrarArchivo(a) \/ QuitarDelIndice(a) \/ Acabar(a)
               \/ EscribirVersion(a) \/ EscribirIndice(a)
      PROVE  Corrida'
  <2>1. UNCHANGED <<reporte, ediciones, alterado>>
    BY <1>3 DEF PedirRestaurar, RestaurarRevisiones, RestaurarParametros, RemoveVersion,
         BorrarArchivo, QuitarDelIndice, Acabar, EscribirVersion, EscribirIndice, enDisco, historiaV
  <2>2. \E t : Va(a, t)
    BY <1>3 DEF PedirRestaurar, RestaurarRevisiones, RestaurarParametros, RemoveVersion,
         BorrarArchivo, QuitarDelIndice, Acabar, EscribirVersion, EscribirIndice
  <2>3. QED
    BY <1>2, <2>1, <2>2
<1>4. ASSUME NEW a \in Personas, CreateVersion(a) \/ TomarYGuardar(a) PROVE Corrida'
  <2>1. UNCHANGED <<reporte, alterado>> /\ \E t : Va(a, t)
    BY <1>4 DEF CreateVersion, TomarYGuardar, LeerIndice, enDisco, historiaV
  <2>2. ediciones' = [ediciones EXCEPT !.ids = @ + 1]
    BY <1>4 DEF CreateVersion, TomarYGuardar, LeerIndice
  <2>3. ediciones'.corridas = ediciones.corridas
    BY <2>2 DEF VersionsTypeOK, Contadores
  <2>4. QED
    BY <1>2, <2>1, <2>3
<1>5. ASSUME NEW a \in Personas, Recalcular(a) PROVE Corrida'
  BY <1>2, <1>5 DEF Recalcular, Calculado
<1>6. ASSUME NEW a \in Personas, Editar(a) PROVE Corrida'
  <2>1. ediciones'.corridas = ediciones.corridas
    BY <1>6 DEF Editar, VersionsTypeOK, Contadores
  <2>2. QED
    BY <1>6, <2>1, CorridaEspera DEF Editar, Calculado
(* Steps of the job. *)
<1>7. CASE Correr
  <2> DEFINE t == [paso |-> "corre",
                   version |-> Calculado(ediciones.corridas + 1, revisiones, parametros)]
  <2>1. /\ Va(Klave, t) /\ UNCHANGED reporte
        /\ ediciones' = [ediciones EXCEPT !.corridas = @ + 1]
    BY <1>7 DEF Correr, enDisco
  <2>2. ediciones.corridas \in Nat /\ ediciones'.corridas = ediciones.corridas + 1
    BY <2>1 DEF VersionsTypeOK, Contadores
  <2>3. t.version.run = ediciones.corridas + 1 /\ t \notin Resguarda
    BY DEF Calculado, Resguarda
  <2> HIDE DEF t
  <2>4. gestion'[Klave] = t
    BY <2>1, <1>g, Autoria, Cambia
  <2>5. reporte.run \in Nat
    BY DEF VersionsTypeOK, Reporte
  <2>6. QED
    BY <2>1, <2>2, <2>3, <2>4, <2>5 DEF Corrida
<1>8. CASE SnapshotBeforeReprocess
  <2>1. gestion[Klave] \in Corre /\ gestion[Klave] # EnCalma /\ UNCHANGED <<reporte, alterado>>
    <3>1. gestion[Klave].paso = "corre" /\ UNCHANGED <<reporte, alterado>>
      BY <1>8 DEF SnapshotBeforeReprocess, enDisco, historiaV
    <3>2. EnCalma.paso = "libre"
      BY DEF EnCalma
    <3>3. QED
      BY <1>g, <3>1, <3>2, Fases
  <2>2. CASE YaEsta(reporte.run)
    <3>1. Va(Klave, [gestion[Klave] EXCEPT !.paso = "publica"]) /\ UNCHANGED ediciones
      BY <1>8, <2>2 DEF SnapshotBeforeReprocess
    <3>2. gestion'[Klave] = [gestion[Klave] EXCEPT !.paso = "publica"]
      BY <3>1, <1>g, Autoria, Cambia
    <3>3. gestion'[Klave].version = gestion[Klave].version /\ gestion'[Klave] \in Corre
      BY <2>1, <3>2 DEF Corre
    <3>4. gestion'[Klave] \notin Resguarda
      BY <3>3 DEF Corre, Resguarda
    <3>5. QED
      BY <2>1, <3>1, <3>3, <3>4 DEF Corrida
  <2>3. CASE ~YaEsta(reporte.run)
    <3> DEFINE t == [paso |-> "indice", id |-> ediciones'.ids, leido |-> indice,
                     luego |-> "publica", etiqueta |-> "antes de reprocesar", estampa |-> Estampa,
                     version |-> gestion[Klave].version]
    <3>1. Va(Klave, t) /\ ediciones' = [ediciones EXCEPT !.ids = @ + 1]
      BY <1>8, <2>3 DEF SnapshotBeforeReprocess, LeerIndice
    <3>2. ediciones'.corridas = ediciones.corridas
      BY <3>1 DEF VersionsTypeOK, Contadores
    <3>3. t.paso = "indice" /\ t.version = gestion[Klave].version /\ t.estampa.reporte = reporte
      BY DEF Estampa
    <3> HIDE DEF t
    <3>4. gestion'[Klave] = t
      BY <3>1, <1>g, Autoria, Cambia
    <3>5. QED
      BY <2>1, <3>2, <3>3, <3>4 DEF Corrida, Publicable
  <2>4. QED
    BY <2>2, <2>3
<1>9. CASE EscribirVersion(Klave) \/ EscribirIndice(Klave)
  <2>1. /\ EnCurso(Klave) /\ UNCHANGED <<reporte, ediciones, alterado>>
        /\ EscribirIndice(Klave) =>
             /\ gestion[Klave].paso = "archivo"
             /\ gestion[Klave].id \in guardadas' /\ UNCHANGED <<archivo, borradas>>
    BY <1>9 DEF EscribirVersion, EscribirIndice, EnCurso, historiaV
  <2>2. PICK p : /\ Va(Klave, [gestion[Klave] EXCEPT !.paso = p])
                 /\ p = "archivo" \/ EscribirIndice(Klave)
    BY <1>9 DEF EscribirVersion, EscribirIndice
  <2>3. gestion'[Klave] = [gestion[Klave] EXCEPT !.paso = p]
    BY <2>2, <1>g, Autoria, Cambia
  <2>4. /\ gestion'[Klave].paso = p /\ gestion'[Klave].id = gestion[Klave].id
        /\ gestion'[Klave].estampa = gestion[Klave].estampa
        /\ gestion'[Klave].version = gestion[Klave].version
    BY <2>1, <2>3, <1>g, Autoria, SoloElPaso DEF EnCurso
  <2>5. gestion[Klave] \in Resguarda /\ gestion[Klave] # EnCalma
    BY <2>1, <1>g, Fases DEF EnCurso, EnCalma
  <2>6. EscribirIndice(Klave) => archivo[gestion[Klave].id] = gestion[Klave].estampa
    BY <2>1, Autoria DEF Guardados
  <2>7. QED
    BY <2>1, <2>2, <2>4, <2>5, <2>6 DEF Corrida, Publicable
<1>10. CASE Publicar
  <2>1. /\ gestion[Klave] # EnCalma /\ reporte' = gestion[Klave].version /\ Va(Klave, EnCalma)
        /\ UNCHANGED ediciones
    BY <1>10 DEF Publicar, EnCalma
  <2>2. gestion'[Klave] = EnCalma /\ EnCalma \notin Resguarda
    BY <2>1, <1>g, Autoria, Cambia DEF EnCalma, Resguarda
  <2>3. QED
    BY <2>1, <2>2 DEF Corrida
<1>11. CASE CortarVersion
  <2>1. gestion'[Klave] = EnCalma /\ EnCalma \notin Resguarda
    BY <1>11, Autoria DEF CortarVersion, EnCalma, Resguarda
  <2>2. UNCHANGED reporte /\ ediciones'.corridas = ediciones.corridas
    BY <1>11 DEF CortarVersion, enDisco, VersionsTypeOK, Contadores
  <2>3. QED
    BY <2>1, <2>2 DEF Corrida
<1>12. QED
  BY <1>1, <1>3, <1>4, <1>5, <1>6, <1>7, <1>8, <1>9, <1>10, <1>11, Autoria DEF VersionsNext

LEMMA AnteriorCrece ==
  ASSUME NEW s \in Lista, NEW m \in Nat, NEW n \in Nat, m <= n, Anterior(s, m)
  PROVE  Anterior(s, n)
<1>n. \A x \in Nat : x < m => x < n
  OBVIOUS
<1>1. \A i \in DOMAIN s : s[i].run \in Nat
  <2>1. \A i \in DOMAIN s : s[i] \in Resumen
    BY LenProperties, ElementOfSeq DEF Lista
  <2>2. QED
    BY <2>1 DEF Resumen
<1>2. QED
  <2> SUFFICES ASSUME NEW i \in DOMAIN s, s[i].etiqueta = "antes de reprocesar"
               PROVE  s[i].run < n
    BY DEF Anterior
  <2>1. s[i].run \in Nat /\ s[i].run < m
    BY <1>1 DEF Anterior
  <2>2. QED
    BY <1>n, <2>1

(* A list that somebody has read and not yet replaced. *)
Leyendo(a) == gestion[a].paso \in {"indice", "archivo", "borra", "quita"}

LEMMA LeidoEsLista ==
  ASSUME GestionOK, NEW a \in Autores, Leyendo(a)
  PROVE  gestion[a].leido \in Lista
<1>1. gestion[a] \in Guarda \cup Repone \cup Resguarda \cup Quita
  BY Autoria, Fases DEF Leyendo
<1>2. QED
  BY <1>1 DEF Guarda, Repone, Resguarda, Quita

LEMMA TopeEsNat == VersionsTypeOK => Tope \in Nat
  BY DEF Tope, VersionsTypeOK, Reporte

(* Only a restart, a publication and the end of the job's saving move the  *)
(* mark below which the versions lie.                                      *)
LEMMA NextBefore ==
  ASSUME VersionsTypeOK, Unicos, Corrida, Anteriores, [VersionsNext]_versionVars
  PROVE  Anteriores'
<1>g. GestionOK
  BY DEF VersionsTypeOK
<1>c. ediciones'.cortes = 0 => ediciones.cortes = 0
  <2>1. \/ ediciones' = ediciones
        \/ ediciones' = [ediciones EXCEPT !.ids = @ + 1]
        \/ ediciones' = [ediciones EXCEPT !.cambios = @ + 1]
        \/ ediciones' = [ediciones EXCEPT !.corridas = @ + 1]
        \/ ediciones' = [ediciones EXCEPT !.cortes = @ + 1]
    BY DEF VersionsNext, versionVars, Editar, CreateVersion, PedirRestaurar, TomarYGuardar,
         RestaurarRevisiones, RestaurarParametros, Recalcular, RemoveVersion, BorrarArchivo,
         QuitarDelIndice, Acabar, EscribirVersion, EscribirIndice, Correr,
         SnapshotBeforeReprocess, Publicar, CortarVersion, LeerIndice
  <2>2. QED
    BY <2>1 DEF VersionsTypeOK, Contadores
<1> SUFFICES ASSUME ediciones'.cortes = 0
             PROVE  /\ Publicable' => gestion'[Klave] \in Resguarda
                    /\ Anterior(indice', Tope')
                    /\ \A a \in Autores : Leyendo(a)' => Anterior(gestion'[a].leido, Tope')
  BY DEF Anteriores, Leyendo, Anterior
<1>h. /\ Publicable => gestion[Klave] \in Resguarda
      /\ Anterior(indice, Tope)
      /\ \A a \in Autores : Leyendo(a) => Anterior(gestion[a].leido, Tope)
  BY <1>c DEF Anteriores, Leyendo
<1>t. Tope \in Nat /\ reporte.run \in Nat
  BY TopeEsNat DEF VersionsTypeOK, Reporte
<1>1. CASE UNCHANGED versionVars
  BY <1>1, <1>h DEF versionVars, Publicable, Tope, Leyendo
(* A step of a person, that may read the list, or replace it. *)
<1>2. ASSUME NEW a \in Personas, NEW t, Va(a, t), reporte'.run = reporte.run,
             t.paso \in {"indice", "archivo", "borra", "quita"} =>
               t.leido = indice \/ (Leyendo(a) /\ t.leido = gestion[a].leido),
             Anterior(indice', Tope)
      PROVE  /\ Publicable' => gestion'[Klave] \in Resguarda
             /\ Anterior(indice', Tope')
             /\ \A b \in Autores : Leyendo(b)' => Anterior(gestion'[b].leido, Tope')
  <2>1. gestion'[a] = t /\ \A b \in Autores : b # a => gestion'[b] = gestion[b]
    BY <1>2, <1>g, Autoria, Cambia
  <2>2. gestion'[Klave] = gestion[Klave] /\ Tope' = Tope
    BY <1>2, <2>1, Autoria DEF Tope, Publicable
  <2>3. \A b \in Autores : Leyendo(b)' => Anterior(gestion'[b].leido, Tope)
    BY <1>2, <1>h, <2>1 DEF Leyendo
  <2>4. QED
    BY <1>2, <1>h, <2>2, <2>3 DEF Publicable
<1>3. ASSUME NEW a \in Personas, PedirRestaurar(a) \/ Recalcular(a) \/ Acabar(a)
      PROVE  /\ Publicable' => gestion'[Klave] \in Resguarda
             /\ Anterior(indice', Tope')
             /\ \A b \in Autores : Leyendo(b)' => Anterior(gestion'[b].leido, Tope')
  <2>1. UNCHANGED indice /\ reporte'.run = reporte.run
    <3>1. CASE PedirRestaurar(a) \/ Acabar(a)
      BY <3>1 DEF PedirRestaurar, Acabar, enDisco
    <3>2. CASE Recalcular(a)
      BY <3>2 DEF Recalcular, Calculado
    <3>3. QED
      BY <1>3, <3>1, <3>2
  <2>2. PICK t : Va(a, t) /\ t.paso \in {"espera", "hecho", "libre"}
    <3>1. CASE PedirRestaurar(a)
      BY <3>1 DEF PedirRestaurar
    <3>2. CASE Recalcular(a)
      BY <3>2 DEF Recalcular
    <3>3. CASE Acabar(a)
      BY <3>3 DEF Acabar, EnCalma
    <3>4. QED
      BY <1>3, <3>1, <3>2, <3>3
  <2>3. QED
    BY <1>2, <1>h, <2>1, <2>2
<1>4. ASSUME NEW a \in Personas,
             RestaurarRevisiones(a) \/ RestaurarParametros(a) \/ BorrarArchivo(a) \/ EscribirVersion(a)
      PROVE  /\ Publicable' => gestion'[Klave] \in Resguarda
             /\ Anterior(indice', Tope')
             /\ \A b \in Autores : Leyendo(b)' => Anterior(gestion'[b].leido, Tope')
  <2>1. UNCHANGED <<indice, reporte>>
    BY <1>4 DEF RestaurarRevisiones, RestaurarParametros, BorrarArchivo, EscribirVersion
  <2>2. PICK p : /\ Va(a, [gestion[a] EXCEPT !.paso = p])
                 /\ p \in {"parametros", "recalcula"} \/ Leyendo(a)
    BY <1>4 DEF RestaurarRevisiones, RestaurarParametros, BorrarArchivo, EscribirVersion, Leyendo
  <2> DEFINE t == [gestion[a] EXCEPT !.paso = p]
  <2>3. t.paso = p /\ (Leyendo(a) => t.leido = gestion[a].leido)
    BY <1>g, Autoria, SoloElPaso DEF Leyendo
  <2>4. Va(a, t)
    BY <2>2
  <2> HIDE DEF t
  <2>5. QED
    BY <1>2, <1>h, <2>1, <2>2, <2>3, <2>4
<1>5. ASSUME NEW a \in Personas, CreateVersion(a) \/ TomarYGuardar(a) \/ RemoveVersion(a)
      PROVE  /\ Publicable' => gestion'[Klave] \in Resguarda
             /\ Anterior(indice', Tope')
             /\ \A b \in Autores : Leyendo(b)' => Anterior(gestion'[b].leido, Tope')
  <2>1. UNCHANGED <<indice, reporte>>
    BY <1>5 DEF CreateVersion, TomarYGuardar, RemoveVersion, enDisco
  <2>2. \E t : Va(a, t) /\ t.leido = indice
    <3>1. CASE RemoveVersion(a)
      BY <3>1 DEF RemoveVersion
    <3>2. CASE CreateVersion(a) \/ TomarYGuardar(a)
      BY <3>2, Empieza DEF CreateVersion, TomarYGuardar
    <3>3. QED
      BY <1>5, <3>1, <3>2
  <2>3. QED
    BY <1>2, <1>h, <2>1, <2>2
<1>6. ASSUME NEW a \in Personas, QuitarDelIndice(a)
      PROVE  /\ Publicable' => gestion'[Klave] \in Resguarda
             /\ Anterior(indice', Tope')
             /\ \A b \in Autores : Leyendo(b)' => Anterior(gestion'[b].leido, Tope')
  <2>1. Leyendo(a) /\ UNCHANGED reporte /\ Va(a, [paso |-> "hecho"])
    BY <1>6 DEF QuitarDelIndice, Leyendo
  <2>2. gestion[a].leido \in Lista /\ Anterior(gestion[a].leido, Tope)
    BY <2>1, <1>g, <1>h, Autoria, LeidoEsLista
  <2>3. Anterior(indice', Tope)
    BY <1>6, <1>t, <2>2, QuitarDeLaLista DEF QuitarDelIndice
  <2>4. QED
    BY <1>2, <2>1, <2>3
<1>7. ASSUME NEW a \in Personas, EscribirIndice(a)
      PROVE  /\ Publicable' => gestion'[Klave] \in Resguarda
             /\ Anterior(indice', Tope')
             /\ \A b \in Autores : Leyendo(b)' => Anterior(gestion'[b].leido, Tope')
  <2>1. /\ EnCurso(a) /\ Leyendo(a) /\ UNCHANGED reporte
        /\ Va(a, [gestion[a] EXCEPT !.paso = gestion[a].luego])
    BY <1>7 DEF EscribirIndice, EnCurso, Leyendo
  <2>2. gestion[a].etiqueta # "antes de reprocesar"
    <3>1. gestion[a] \in Guarda \/ gestion[a] \in Repone
      BY <2>1, <1>g, Fases DEF EnCurso
    <3>2. QED
      BY <3>1 DEF Guarda, Repone
  <2>3. Anterior(indice', Tope)
    BY <1>7, <1>h, <1>t, <2>1, <2>2, Autoria, EntradaNueva
  <2> DEFINE t == [gestion[a] EXCEPT !.paso = gestion[a].luego]
  <2>4. t.leido = gestion[a].leido
    BY <2>1, <1>g, Autoria, SoloElPaso DEF EnCurso
  <2>5. Va(a, t)
    BY <2>1
  <2> HIDE DEF t
  <2>6. QED
    BY <1>2, <2>1, <2>3, <2>4, <2>5
<1>8. ASSUME NEW a \in Personas, Editar(a)
      PROVE  /\ Publicable' => gestion'[Klave] \in Resguarda
             /\ Anterior(indice', Tope')
             /\ \A b \in Autores : Leyendo(b)' => Anterior(gestion'[b].leido, Tope')
  BY <1>8, <1>h DEF Editar, Calculado, Publicable, Tope, Leyendo
(* Steps of the job. *)
<1>9. ASSUME NEW t, Va(Klave, t),
             NEW m \in Nat, Tope <= m, Tope' = m,
             t.paso = "publica" => t \in Resguarda,
             t.paso \in {"indice", "archivo", "borra", "quita"} =>
               t.leido = indice \/ (Leyendo(Klave) /\ t.leido = gestion[Klave].leido),
             Anterior(indice', m)
      PROVE  /\ Publicable' => gestion'[Klave] \in Resguarda
             /\ Anterior(indice', Tope')
             /\ \A b \in Autores : Leyendo(b)' => Anterior(gestion'[b].leido, Tope')
  <2>1. gestion'[Klave] = t /\ \A b \in Autores : b # Klave => gestion'[b] = gestion[b]
    BY <1>9, <1>g, Autoria, Cambia
  <2>2. indice \in Lista /\ \A b \in Autores : Leyendo(b) => gestion[b].leido \in Lista
    BY <1>g, LeidoEsLista DEF VersionsTypeOK
  <2>3. /\ Anterior(indice, m)
        /\ \A b \in Autores : Leyendo(b) => Anterior(gestion[b].leido, m)
    BY <1>9, <1>h, <1>t, <2>2, AnteriorCrece
  <2>4. \A b \in Autores : Leyendo(b)' => Anterior(gestion'[b].leido, m)
    BY <1>9, <2>1, <2>3 DEF Leyendo
  <2>5. QED
    BY <1>9, <2>1, <2>4 DEF Publicable
<1>10. CASE Correr
  <2>1. PICK t : Va(Klave, t) /\ t.paso = "corre"
    BY <1>10 DEF Correr
  <2>2. UNCHANGED <<indice, reporte>> /\ ~Publicable
    BY <1>10 DEF Correr, enDisco, EnCalma, Publicable
  <2>3. gestion'[Klave] = t
    BY <2>1, <1>g, Autoria, Cambia
  <2>4. Tope' = Tope
    BY <2>1, <2>2, <2>3 DEF Tope, Publicable
  <2>5. QED
    BY <1>9, <1>h, <1>t, <2>1, <2>2, <2>4
<1>11. CASE SnapshotBeforeReprocess
  <2>1. UNCHANGED <<indice, reporte>> /\ ~Publicable
    BY <1>11 DEF SnapshotBeforeReprocess, enDisco, Publicable
  <2>2. ~YaEsta(reporte.run)
    <3>1. Anterior(indice, reporte.run)
      BY <1>h, <2>1 DEF Tope
    <3>2. ~(reporte.run < reporte.run)
      BY <1>t
    <3>3. QED
      BY <3>1, <3>2, Zenon DEF YaEsta, Anterior
  <2>3. LeerIndice(Klave, "publica", "antes de reprocesar", gestion[Klave].version)
    BY <1>11, <2>2 DEF SnapshotBeforeReprocess
  <2>4. PICK t : Va(Klave, t) /\ t.paso = "indice" /\ t.leido = indice
    BY <2>3, Empieza
  <2>5. gestion'[Klave] = t
    BY <2>4, <1>g, Autoria, Cambia
  <2>6. Tope' = Tope
    BY <2>1, <2>4, <2>5 DEF Tope, Publicable
  <2>7. QED
    BY <1>9, <1>h, <1>t, <2>1, <2>4, <2>6
<1>12. CASE EscribirVersion(Klave)
  <2> DEFINE t == [gestion[Klave] EXCEPT !.paso = "archivo"]
  <2>1. /\ Va(Klave, t) /\ UNCHANGED <<indice, reporte>> /\ Leyendo(Klave)
        /\ gestion[Klave].paso = "indice"
    BY <1>12 DEF EscribirVersion, Leyendo
  <2>2. t.paso = "archivo" /\ t.leido = gestion[Klave].leido
    BY <2>1, <1>g, Autoria, SoloElPaso
  <2> HIDE DEF t
  <2>3. gestion'[Klave] = t
    BY <2>1, <1>g, Autoria, Cambia
  <2>4. Tope' = Tope
    BY <2>1, <2>2, <2>3 DEF Tope, Publicable
  <2>5. QED
    BY <1>9, <1>h, <1>t, <2>1, <2>2, <2>4
<1>13. CASE EscribirIndice(Klave)
  <2> DEFINE t == [gestion[Klave] EXCEPT !.paso = gestion[Klave].luego]
             m == reporte.run + 1
  <2>1. /\ Va(Klave, t) /\ UNCHANGED reporte /\ Leyendo(Klave) /\ EnCurso(Klave)
        /\ gestion[Klave].paso = "archivo"
    BY <1>13 DEF EscribirIndice, Leyendo, EnCurso
  <2>2. gestion[Klave] \in Resguarda
    BY <2>1, <1>g, Fases
  <2>3. t \in Resguarda /\ t.paso = "publica"
    BY <2>2 DEF Resguarda
  <2> HIDE DEF t
  <2>4. gestion'[Klave] = t
    BY <2>1, <1>g, Autoria, Cambia
  <2>5. Tope' = m /\ Tope = reporte.run /\ m \in Nat /\ Tope <= m
    BY <1>t, <2>1, <2>3, <2>4 DEF Tope, Publicable
  <2>6. gestion[Klave].estampa.reporte.run < m
    BY <1>t, <2>2 DEF Corrida
  <2>7. gestion[Klave].leido \in Lista /\ Anterior(gestion[Klave].leido, m)
    BY <1>g, <1>h, <1>t, <2>1, <2>5, Autoria, LeidoEsLista, AnteriorCrece
  <2> HIDE DEF m
  <2>8. Anterior(indice', m)
    BY <1>13, <2>5, <2>6, <2>7, Autoria, EntradaNueva
  <2>9. QED
    BY <1>9, <2>1, <2>3, <2>5, <2>8
<1>14. CASE Publicar
  <2> DEFINE m == gestion[Klave].version.run
  <2>1. /\ gestion[Klave].paso = "publica" /\ reporte' = gestion[Klave].version
        /\ Va(Klave, EnCalma) /\ UNCHANGED indice
    BY <1>14 DEF Publicar
  <2>2. gestion[Klave] # EnCalma /\ EnCalma.paso = "libre"
    BY <2>1 DEF EnCalma
  <2>3. reporte.run < m /\ m \in Nat
    BY <2>1, <2>2, <1>g, Fases DEF Corrida, Resguarda, Corre, Reporte
  <2>4. gestion'[Klave] = EnCalma
    BY <2>1, <1>g, Autoria, Cambia
  <2>5. Tope' = m /\ Tope <= m
    BY <1>t, <2>1, <2>2, <2>3, <2>4 DEF Tope, Publicable
  <2>6. Anterior(indice', m)
    BY <1>h, <1>t, <2>1, <2>3, <2>5, AnteriorCrece DEF VersionsTypeOK
  <2> HIDE DEF m
  <2>7. QED
    BY <1>9, <2>1, <2>2, <2>3, <2>5, <2>6
<1>15. CASE CortarVersion
  <2>1. ediciones'.cortes = ediciones.cortes + 1 /\ ediciones.cortes \in Nat
    BY <1>15 DEF CortarVersion, VersionsTypeOK, Contadores
  <2>2. QED
    BY <2>1
<1>16. QED
  BY <1>1, <1>3, <1>4, <1>5, <1>6, <1>7, <1>8, <1>10, <1>11, <1>12, <1>13, <1>14, <1>15, Autoria
     DEF VersionsNext

-----------------------------------------------------------------------------
Sucesivas == Corrida /\ Anteriores

LEMMA Sucesion == VersionsSpec => []Sucesivas
<1>1. VersionsInit => Sucesivas
  <2> SUFFICES ASSUME VersionsInit PROVE Sucesivas
    OBVIOUS
  <2>1. \A a \in Autores : gestion[a] = EnCalma
    BY DEF VersionsInit
  <2>2. reporte.run = 1 /\ ediciones.corridas = 1 /\ indice = <<>>
    BY DEF VersionsInit, Calculado
  <2>3. EnCalma.paso = "libre" /\ EnCalma \notin Resguarda
    BY DEF EnCalma, Resguarda
  <2>4. Corrida
    BY <2>1, <2>2, <2>3, Autoria DEF Corrida
  <2>5. Anteriores
    <3>1. DOMAIN indice = {}
      BY <2>2
    <3>2. QED
      BY <2>1, <2>3, <3>1, Autoria DEF Anteriores, Anterior, Publicable
  <2>6. QED
    BY <2>4, <2>5 DEF Sucesivas
<1>2. Fiel /\ Sucesivas /\ [VersionsNext]_versionVars => Sucesivas'
  BY NextRun, NextBefore DEF Fiel, Sucesivas
<1>3. QED
  BY <1>1, <1>2, Fidelidad, PTL DEF VersionsSpec

(* A run replaces only a report that is in a listed version, unless a      *)
(* restart, an overwritten index, a deletion or a change of the report     *)
(* while the job ran came between.                                         *)
THEOREM AReplacedRunIsKept == VersionsSpec => ReplacedRunIsKept
<1> DEFINE A == (Publicar /\ ~pisado /\ ~alterado /\ ediciones.cortes = 0 /\ borradas = {}) =>
                   \E id \in Listadas : archivo[id].reporte = reporte
<1>1. Fiel /\ Sucesivas => A
  <2> SUFFICES ASSUME Fiel, Sucesivas, Publicar, ~pisado, ~alterado, ediciones.cortes = 0,
                      borradas = {}
               PROVE  \E id \in Listadas : archivo[id].reporte = reporte
    OBVIOUS
  <2>1. Publicable
    BY DEF Publicar, Publicable
  <2>2. gestion[Klave] \in Resguarda
    BY <2>1 DEF Sucesivas, Anteriores
  <2>3. /\ gestion[Klave].id \in guardadas
        /\ archivo[gestion[Klave].id] = gestion[Klave].estampa
        /\ gestion[Klave].estampa.reporte = reporte
    BY <2>1, <2>2 DEF Sucesivas, Corrida
  <2>4. guardadas \subseteq Listadas
    BY DEF Fiel, Guardados, Listadas, Identificados
  <2>5. QED
    BY <2>3, <2>4
<1>2. Fiel /\ Sucesivas => [A]_versionVars
  BY <1>1
<1>3. QED
  BY <1>2, Fidelidad, Sucesion, PTL DEF ReplacedRunIsKept

-----------------------------------------------------------------------------
(***************************************************************************)
(* ReviewKeys, for every finite set of elements, every set of labels and   *)
(* every chain of runs.                                                    *)
(***************************************************************************)

-----------------------------------------------------------------------------
(* Types. *)

Clave == Seq(Etiquetas \cup Nat)
Claves == {D \in SUBSET Clave : IsFiniteSet(D)}
Veredicto == [identidad : Elementos \cup {SinIdentidad}, numero : Nat]
Veredictos == UNION {[D -> Veredicto] : D \in Claves}

KeysTypeOK ==
  /\ publicada \in Lecturas /\ trasladadas \in Lecturas
  /\ enCurso \in {NoCorrida} \cup {[etiquetas |-> {l}] : l \in Lecturas}
  /\ veredictos \in Veredictos /\ tarde \in BOOLEAN
  /\ contadas \in [veredictos : Nat, traslados : Nat]

(* A number is of one verdict, and those that are on disk are those that stand. *)
DeUno(rs) == \A k, j \in DOMAIN rs : rs[k].numero = rs[j].numero => k = j
Numerados ==
  /\ \A k \in DOMAIN veredictos : veredictos[k].numero <= contadas.veredictos
  /\ DeUno(veredictos)
  /\ VerdictsSurvive

(* Under the labels they were moved for, the verdicts are of their elements; *)
(* and while the run is not published, every element has those it had.       *)
EnSuLugar ==
  /\ \A lectura \in enCurso.etiquetas : lectura = trasladadas
  /\ ~tarde /\ (enCurso # NoCorrida \/ publicada = trasladadas) =>
       \A k \in DOMAIN veredictos : EnSuElemento(k, trasladadas)
  /\ ~tarde => \A lectura \in enCurso.etiquetas, e \in Elementos :
       e \in DOMAIN lectura /\ (\E k \in DOMAIN veredictos : veredictos[k].identidad = e)
         => <<lectura[e]>> \in DOMAIN veredictos

KeysInv == KeysTypeOK /\ Numerados /\ EnSuLugar

-----------------------------------------------------------------------------
(* Runs and keys. *)

LEMMA UnaLectura ==
  ASSUME NEW l \in Lecturas
  PROVE  /\ DOMAIN l \subseteq Elementos /\ l \in [DOMAIN l -> Etiquetas]
         /\ \A e, x \in DOMAIN l : l[e] = l[x] => e = x
         /\ Vigentes(l) = {<<l[e]>> : e \in DOMAIN l}
         /\ Vigentes(l) \in Claves
<1>1. PICK S \in SUBSET Elementos : l \in [S -> Etiquetas] /\ IsInjective(l)
  BY DEF Lecturas, Injection
<1>2. DOMAIN l = S
  BY <1>1
<1>3. Vigentes(l) = {<<l[e]>> : e \in DOMAIN l}
  BY DEF Vigentes, Range
<1>4. IsFiniteSet(DOMAIN l)
  BY <1>2, ReviewKeysAssumption, FS_Subset
<1>5. IsFiniteSet(Vigentes(l))
  <2> DEFINE f == [e \in DOMAIN l |-> <<l[e]>>]
  <2>1. f \in Surjection(DOMAIN l, Vigentes(l))
    BY <1>3 DEF Surjection
  <2> HIDE DEF f
  <2>2. QED
    BY <1>4, <2>1, FS_Surjection
<1>6. Vigentes(l) \subseteq Clave
  <2>1. \A e \in DOMAIN l : <<l[e]>> \in Clave
    BY <1>1, <1>2 DEF Clave
  <2>2. QED
    BY <1>3, <2>1
<1>7. QED
  BY <1>1, <1>2, <1>3, <1>5, <1>6 DEF Claves, IsInjective

LEMMA LosVeredictos ==
  ASSUME NEW rs
  PROVE  rs \in Veredictos <=>
           /\ DOMAIN rs \subseteq Clave /\ IsFiniteSet(DOMAIN rs)
           /\ rs = [k \in DOMAIN rs |-> rs[k]] /\ \A k \in DOMAIN rs : rs[k] \in Veredicto
BY DEF Veredictos, Claves

(* One verdict more, or another one under its key. *)
LEMMA OtroVeredicto ==
  ASSUME NEW rs \in Veredictos, NEW k \in Clave, NEW r \in Veredicto
  PROVE  LET ns == Puesta(rs, k, r)
         IN  /\ ns \in Veredictos /\ DOMAIN ns = DOMAIN rs \cup {k} /\ ns[k] = r
             /\ \A x \in DOMAIN rs : x # k => ns[x] = rs[x]
<1> DEFINE ns == Puesta(rs, k, r)
<1>1. /\ DOMAIN ns = DOMAIN rs \cup {k} /\ ns[k] = r /\ ns = [x \in DOMAIN ns |-> ns[x]]
      /\ \A x \in DOMAIN rs : x # k => ns[x] = rs[x]
  BY DEF Puesta
<1> HIDE DEF ns
<1>2. DOMAIN rs \subseteq Clave /\ IsFiniteSet(DOMAIN rs) /\ \A x \in DOMAIN rs : rs[x] \in Veredicto
  BY LosVeredictos
<1>3. IsFiniteSet(DOMAIN ns)
  BY <1>1, <1>2, FS_AddElement
<1>4. ns \in Veredictos
  BY <1>1, <1>2, <1>3, LosVeredictos
<1>5. QED
  BY <1>1, <1>4 DEF ns

(* The name of an orphan is free. *)
LEMMA SiempreLibre ==
  ASSUME NEW k \in Clave, NEW ocupadas \in Claves
  PROVE  ClaveLibre(k, ocupadas) \in Clave /\ ClaveLibre(k, ocupadas) \notin ocupadas
<1>1. CASE k \notin ocupadas
  BY <1>1 DEF ClaveLibre
<1>2. CASE k \in ocupadas
  <2> DEFINE N == Cardinality(ocupadas) + 1
             T == {n \in 1..N : Append(k, n) \notin ocupadas}
  <2>1. IsFiniteSet(ocupadas) /\ Cardinality(ocupadas) \in Nat /\ N \in Nat
    BY FS_CardinalityType DEF Claves
  <2>2. \A n \in Nat : Append(k, n) \in Clave /\ Append(k, n)[Len(k) + 1] = n
    BY AppendProperties DEF Clave
  <2>3. T # {}
    <3>1. SUFFICES ASSUME T = {} PROVE FALSE
      OBVIOUS
    <3> DEFINE f == [n \in 1..N |-> Append(k, n)]
    <3>2. f \in [1..N -> ocupadas]
      BY <3>1
    <3>3. IsFiniteSet(1..N) /\ Cardinality(1..N) = N
      <4> HIDE DEF N
      <4>1. QED
        BY <2>1, FS_Interval
    <3>4. Cardinality(ocupadas) < Cardinality(1..N)
      BY <2>1, <3>3
    <3> HIDE DEF f
    <3>5. PICK x \in 1..N, y \in 1..N : x # y /\ f[x] = f[y]
      BY <2>1, <3>2, <3>3, <3>4, FS_PigeonHole
    <3>6. QED
      BY <2>1, <2>2, <3>5 DEF f
  <2> HIDE DEF T
  <2>4. Min(T) \in T
    <3>1. T \in SUBSET Nat
      BY <2>1 DEF T
    <3>2. \E m \in T : \A n \in T : m <= n
      BY <2>3, <3>1, Least
    <3>3. QED
      BY <3>2 DEF Min
  <2>5. ClaveLibre(k, ocupadas) = Append(k, Min(T))
    BY <1>2 DEF ClaveLibre, T
  <2>6. QED
    BY <2>1, <2>2, <2>4, <2>5 DEF T
<1>3. QED
  BY <1>1, <1>2

-----------------------------------------------------------------------------
(* rekey_reviews. *)

(* A verdict belongs to one key of the run at most, which is of its element. *)
LEMMA UnDestino ==
  ASSUME NEW l \in Lecturas, NEW k, NEW r \in Veredicto
  PROVE  /\ Destino(k, r, l) \subseteq Vigentes(l)
         /\ \A c, d \in Destino(k, r, l) : c = d
         /\ \A d \in Destino(k, r, l) : \A e \in EnClave(l, d) : r.identidad \in {e, SinIdentidad}
         /\ r.identidad # SinIdentidad =>
              \A e \in DOMAIN l : r.identidad = e => <<l[e]>> \in Destino(k, r, l)
<1>1. /\ \A e, x \in DOMAIN l : l[e] = l[x] => e = x
      /\ Vigentes(l) = {<<l[e]>> : e \in DOMAIN l}
  BY UnaLectura
<1>2. \A a, b : <<a>> = <<b>> => a = b
  OBVIOUS
<1>3. CASE r.identidad = SinIdentidad
  BY <1>3 DEF Destino
<1>4. CASE r.identidad # SinIdentidad
  <2>1. Destino(k, r, l) = {<<l[e]>> : e \in DOMAIN l \cap {r.identidad}}
    BY <1>4 DEF Destino
  <2>2. \A d \in Destino(k, r, l) : \A e \in EnClave(l, d) : r.identidad = e
    BY <1>1, <1>2, <2>1 DEF EnClave
  <2>3. QED
    BY <1>1, <2>1, <2>2
<1>5. QED
  BY <1>3, <1>4

(* Of some verdicts for a key one wins. *)
LEMMA UnaGana ==
  ASSUME NEW rs \in Veredictos, NEW M \in Nat, \A k \in DOMAIN rs : rs[k].numero <= M,
         NEW ks \in SUBSET DOMAIN rs, ks # {}, NEW d
  PROVE  Gana(ks, rs, d) \in ks
<1>1. \A k \in DOMAIN rs : rs[k].numero \in Nat
  BY LosVeredictos DEF Veredicto
<1>2. \E k \in ks : \A x \in ks : rs[x].numero <= rs[k].numero
  <2> DEFINE T == {M - rs[k].numero : k \in ks}
  <2>1. T \in SUBSET Nat /\ T # {}
    BY <1>1
  <2>2. PICK m \in T : \A n \in T : m <= n
    <3> HIDE DEF T
    <3>1. QED
      BY <2>1, Least
  <2>3. PICK k \in ks : m = M - rs[k].numero
    BY <2>2
  <2>4. \A x \in ks : M - rs[k].numero <= M - rs[x].numero
    BY <2>2, <2>3
  <2>5. \A x \in ks : rs[x].numero <= rs[k].numero
    BY <1>1, <2>4
  <2>6. QED
    BY <2>5
<1>3. (CHOOSE k \in ks : \A x \in ks : rs[x].numero <= rs[k].numero) \in ks
  BY <1>2
<1>4. QED
  BY <1>3 DEF Gana

(* The verdicts that move: each to the key it belongs to, each to one key, and *)
(* every key to which one belongs has one.                                     *)
LEMMA LasQueVan ==
  ASSUME NEW rs \in Veredictos, NEW M \in Nat, \A k \in DOMAIN rs : rs[k].numero <= M,
         NEW l \in Lecturas
  PROVE  LET de == Trasladadas(rs, l)
         IN  /\ de \in [DOMAIN de -> DOMAIN rs] /\ DOMAIN de \subseteq Vigentes(l)
             /\ \A d \in DOMAIN de : d \in Destino(de[d], rs[de[d]], l)
             /\ \A c, d \in DOMAIN de : de[c] = de[d] => c = d
             /\ \A k \in DOMAIN rs : Destino(k, rs[k], l) \subseteq DOMAIN de
<1> DEFINE de == Trasladadas(rs, l)
           van == [d \in Vigentes(l) |-> {k \in DOMAIN rs : d \in Destino(k, rs[k], l)}]
           con == {d \in DOMAIN van : van[d] # {}}
<1>1. de = [d \in con |-> Gana(van[d], rs, d)]
  BY DEF Trasladadas
<1>2. \A d \in con : van[d] \in SUBSET DOMAIN rs /\ van[d] # {}
  OBVIOUS
<1>3. \A d \in con : Gana(van[d], rs, d) \in van[d]
  <2> HIDE DEF con, van
  <2>1. QED
    BY <1>2, UnaGana
<1>4. con \subseteq Vigentes(l) /\ \A d \in con : \A k \in van[d] : k \in DOMAIN rs /\ d \in Destino(k, rs[k], l)
  OBVIOUS
<1>5. \A k \in DOMAIN rs : rs[k] \in Veredicto
  BY LosVeredictos
<1>6. \A k \in DOMAIN rs : Destino(k, rs[k], l) \subseteq con
  BY <1>5, UnDestino
<1>7. \A k \in DOMAIN rs : \A c, d \in Destino(k, rs[k], l) : c = d
  BY <1>5, UnDestino
<1> HIDE DEF con, van
<1>8. DOMAIN de = con /\ \A d \in con : de[d] \in DOMAIN rs /\ d \in Destino(de[d], rs[de[d]], l)
  BY <1>1, <1>3, <1>4
<1>9. \A c, d \in con : de[c] = de[d] => c = d
  BY <1>7, <1>8
<1>10. de \in [con -> DOMAIN rs]
  BY <1>1, <1>8
<1> HIDE DEF de
<1>11. QED
  BY <1>4, <1>6, <1>8, <1>9, <1>10 DEF de

(* The verdicts ns are those of rs under the keys J, one each, and those under *)
(* a key of the run are the ones that moved there.                             *)
Llevan(ns, rs, J, l) ==
  /\ ns \in Veredictos
  /\ DOMAIN Trasladadas(rs, l) \subseteq DOMAIN ns
  /\ \E h \in [DOMAIN ns -> J] :
       /\ \A k \in DOMAIN ns : ns[k] = rs[h[k]]
       /\ \A k, x \in DOMAIN ns : h[k] = h[x] => k = x
       /\ \A j \in J : \E k \in DOMAIN ns : h[k] = j
       /\ \A k \in DOMAIN ns : k \in Vigentes(l) => k \in Destino(h[k], rs[h[k]], l)

LEMMA LasPrimeras ==
  ASSUME NEW rs \in Veredictos, NEW M \in Nat, \A k \in DOMAIN rs : rs[k].numero <= M,
         NEW l \in Lecturas
  PROVE  LET de == Trasladadas(rs, l)
         IN  Llevan([d \in DOMAIN de |-> rs[de[d]]], rs, Range(de), l)
<1> DEFINE de == Trasladadas(rs, l)
           ns == [d \in DOMAIN de |-> rs[de[d]]]
<1>1. /\ de \in [DOMAIN de -> DOMAIN rs] /\ DOMAIN de \subseteq Vigentes(l)
      /\ \A d \in DOMAIN de : d \in Destino(de[d], rs[de[d]], l)
      /\ \A c, d \in DOMAIN de : de[c] = de[d] => c = d
  BY LasQueVan
<1> HIDE DEF de
<1>2. de \in [DOMAIN de -> Range(de)] /\ \A j \in Range(de) : \E k \in DOMAIN de : de[k] = j
  BY <1>1 DEF Range
<1>3. DOMAIN ns = DOMAIN de /\ ns = [k \in DOMAIN ns |-> ns[k]] /\ \A k \in DOMAIN ns : ns[k] = rs[de[k]]
  OBVIOUS
<1> HIDE DEF ns
<1>4. ns \in Veredictos
  <2>1. Vigentes(l) \subseteq Clave /\ IsFiniteSet(Vigentes(l))
    BY UnaLectura DEF Claves
  <2>2. DOMAIN ns \subseteq Clave /\ IsFiniteSet(DOMAIN ns)
    BY <1>1, <1>3, <2>1, FS_Subset
  <2>3. \A k \in DOMAIN ns : ns[k] \in Veredicto
    BY <1>1, <1>3, LosVeredictos
  <2>4. QED
    BY <1>3, <2>2, <2>3, LosVeredictos
<1>5. Llevan(ns, rs, Range(de), l)
  BY <1>1, <1>2, <1>3, <1>4 DEF Llevan, de
<1>6. QED
  BY <1>5 DEF ns, de

(* An orphan more. *)
LEMMA UnaSuelta ==
  ASSUME NEW rs \in Veredictos, NEW l \in Lecturas, NEW J \in SUBSET DOMAIN rs, NEW ns,
         Llevan(ns, rs, J, l), NEW j \in DOMAIN rs, j \notin J
  PROVE  LET k == ClaveLibre(j, Vigentes(l) \cup DOMAIN ns)
         IN  Llevan(Puesta(ns, k, rs[j]), rs, J \cup {j}, l)
<1> DEFINE k == ClaveLibre(j, Vigentes(l) \cup DOMAIN ns)
           ms == Puesta(ns, k, rs[j])
<1>1. ns \in Veredictos
  BY DEF Llevan
<1>2. k \in Clave /\ k \notin Vigentes(l) /\ k \notin DOMAIN ns
  <2>1. j \in Clave /\ DOMAIN ns \subseteq Clave /\ IsFiniteSet(DOMAIN ns)
    BY <1>1, LosVeredictos
  <2>2. Vigentes(l) \subseteq Clave /\ IsFiniteSet(Vigentes(l))
    BY UnaLectura DEF Claves
  <2>3. Vigentes(l) \cup DOMAIN ns \in Claves
    BY <2>1, <2>2, FS_Union DEF Claves
  <2>4. QED
    BY <2>1, <2>3, SiempreLibre
<1> HIDE DEF k
<1>3. /\ ms \in Veredictos /\ DOMAIN ms = DOMAIN ns \cup {k} /\ ms[k] = rs[j]
      /\ \A x \in DOMAIN ns : x # k => ms[x] = ns[x]
  <2>1. rs[j] \in Veredicto
    BY LosVeredictos
  <2>2. QED
    BY <1>1, <1>2, <2>1, OtroVeredicto
<1> HIDE DEF ms
<1>4. PICK h \in [DOMAIN ns -> J] :
        /\ \A x \in DOMAIN ns : ns[x] = rs[h[x]]
        /\ \A x, y \in DOMAIN ns : h[x] = h[y] => x = y
        /\ \A i \in J : \E x \in DOMAIN ns : h[x] = i
        /\ \A x \in DOMAIN ns : x \in Vigentes(l) => x \in Destino(h[x], rs[h[x]], l)
  BY DEF Llevan
<1> DEFINE g == [x \in DOMAIN ms |-> IF x = k THEN j ELSE h[x]]
<1>5. /\ g \in [DOMAIN ms -> J \cup {j}] /\ g[k] = j
      /\ \A x \in DOMAIN ns : x # k /\ g[x] = h[x] /\ h[x] \in J
      /\ \A x \in DOMAIN ms : x = k \/ x \in DOMAIN ns
  BY <1>2, <1>3, <1>4
<1> HIDE DEF g
<1>6. \A x \in DOMAIN ms : ms[x] = rs[g[x]]
  BY <1>3, <1>4, <1>5
<1>7. \A x, y \in DOMAIN ms : g[x] = g[y] => x = y
  BY <1>4, <1>5
<1>8. \A i \in J \cup {j} : \E x \in DOMAIN ms : g[x] = i
  BY <1>3, <1>4, <1>5
<1>9. \A x \in DOMAIN ms : x \in Vigentes(l) => x \in Destino(g[x], rs[g[x]], l)
  BY <1>2, <1>4, <1>5
<1>10. DOMAIN Trasladadas(rs, l) \subseteq DOMAIN ms
  BY <1>3 DEF Llevan
<1>11. Llevan(ms, rs, J \cup {j}, l)
  BY <1>3, <1>5, <1>6, <1>7, <1>8, <1>9, <1>10 DEF Llevan
<1>12. QED
  BY <1>11 DEF ms, k

(* Moving the verdicts loses none and makes none. *)
LEMMA Mudanza ==
  ASSUME NEW rs \in Veredictos, NEW M \in Nat, \A k \in DOMAIN rs : rs[k].numero <= M,
         NEW l \in Lecturas
  PROVE  Llevan(Rekey(rs, l), rs, DOMAIN rs, l)
<1> DEFINE de == Trasladadas(rs, l)
           sueltas == SetToSeq(DOMAIN rs \ Range(de))
           N == Len(sueltas)
           a == [d \in DOMAIN de |-> rs[de[d]]]
           Sigue(v, n) == Puesta(v, ClaveLibre(sueltas[n], Vigentes(l) \cup DOMAIN v), rs[sueltas[n]])
           Solves(g) == g = [n \in 0..N |-> IF n = 0 THEN a ELSE Sigue(g[n - 1], n)]
           nuevas == CHOOSE g : Solves(g)
<1>1. Rekey(rs, l) = nuevas[N]
  BY DEF Rekey
<1>2. Range(de) \subseteq DOMAIN rs
  BY LasQueVan DEF Range
<1>3. /\ N \in Nat /\ \A i \in 1..N : sueltas[i] \in DOMAIN rs /\ sueltas[i] \notin Range(de)
      /\ \A i, x \in 1..N : sueltas[i] = sueltas[x] => i = x
      /\ DOMAIN rs \ Range(de) = {sueltas[i] : i \in 1..N}
  <2> DEFINE S == DOMAIN rs \ Range(de)
  <2>1. IsFiniteSet(S)
    BY LosVeredictos, FS_Subset
  <2> HIDE DEF S
  <2>2. /\ SetToSeq(S) \in [1..Cardinality(S) -> S] /\ Len(SetToSeq(S)) = Cardinality(S)
        /\ Cardinality(S) \in Nat
        /\ \A i, j \in 1..Cardinality(S) : SetToSeq(S)[i] = SetToSeq(S)[j] => i = j
        /\ S = {SetToSeq(S)[i] : i \in 1..Cardinality(S)}
    BY <2>1, EnFila
  <2>3. sueltas = SetToSeq(S)
    BY DEF S
  <2> HIDE DEF sueltas
  <2>4. N = Cardinality(S)
    BY <2>2, <2>3
  <2>5. \A i \in 1..N : sueltas[i] \in S
    BY <2>2, <2>3, <2>4
  <2>6. QED
    BY <2>2, <2>3, <2>4, <2>5 DEF S
<1>4. Llevan(a, rs, Range(de), l)
  BY LasPrimeras
<1> HIDE DEF sueltas, de, a
<1>5. ASSUME NEW n \in 1..N, NEW v \in Veredictos PROVE Sigue(v, n) \in Veredictos
  <2>1. DOMAIN v \subseteq Clave /\ IsFiniteSet(DOMAIN v)
    BY LosVeredictos
  <2>2. Vigentes(l) \subseteq Clave /\ IsFiniteSet(Vigentes(l))
    BY UnaLectura DEF Claves
  <2>3. Vigentes(l) \cup DOMAIN v \in Claves
    BY <2>1, <2>2, FS_Union DEF Claves
  <2>4. sueltas[n] \in Clave /\ rs[sueltas[n]] \in Veredicto
    BY <1>3, LosVeredictos
  <2>5. ClaveLibre(sueltas[n], Vigentes(l) \cup DOMAIN v) \in Clave
    BY <2>3, <2>4, SiempreLibre
  <2>6. QED
    BY <2>4, <2>5, OtroVeredicto
<1> HIDE DEF Sigue, N
<1>6. \E g : Solves(g)
  <2> DEFINE step == [n \in 1..N |-> [v \in Veredictos |-> Sigue(v, n)]]
  <2>1. step \in [1..N -> [Veredictos -> Veredictos]]
    BY <1>5
  <2>2. \A n \in 1..N, v \in Veredictos : step[n][v] = Sigue(v, n)
    OBVIOUS
  <2> HIDE DEF step
  <2>3. a \in Veredictos
    BY <1>4 DEF Llevan
  <2>s. step \in Steps(N, Veredictos)
    BY <2>1 DEF Steps
  <2>f. PICK f : Iteration(f, N, Veredictos, a, step)
    BY <1>3, <2>3, <2>s, Iterates
  <2>4. f \in [0..N -> Veredictos] /\ f[0] = a /\ \A n \in 1..N : f[n] = step[n][f[n - 1]]
    BY <2>f DEF Iteration
  <2>5. \A n \in 0..N : n # 0 => n \in 1..N /\ n - 1 \in 0..N
    BY <1>3
  <2>6. \A n \in 0..N : f[n] = IF n = 0 THEN a ELSE Sigue(f[n - 1], n)
    BY <2>2, <2>4, <2>5
  <2>7. Solves(f)
    BY <2>4, <2>6
  <2>8. QED
    BY <2>7
<1>7. Solves(nuevas)
  BY <1>6
<1> HIDE DEF nuevas
<1>8. nuevas[0] = a /\ \A n \in 1..N : nuevas[n] = Sigue(nuevas[n - 1], n)
  <2>1. 0 \in 0..N /\ \A n \in 1..N : n \in 0..N /\ n # 0
    BY <1>3
  <2>2. QED
    BY <1>7, <2>1
<1> DEFINE J(n) == Range(de) \cup {sueltas[i] : i \in 1..n}
           Good == {n \in 0..N : Llevan(nuevas[n], rs, J(n), l)}
<1>9. 0 \in Good
  <2>1. 0 \in 0..N /\ J(0) = Range(de)
    BY <1>3
  <2> HIDE DEF J
  <2>2. QED
    BY <1>4, <1>8, <2>1
<1>10. ASSUME NEW n \in 1..N, n - 1 \in Good PROVE n \in Good
  <2>1. /\ n \in 0..N /\ n \in 1..n /\ \A i \in 1..n : i = n \/ i \in 1..(n - 1)
        /\ \A i \in 1..(n - 1) : i # n /\ i \in 1..N /\ i \in 1..n
    BY <1>3
  <2>2. J(n - 1) \in SUBSET DOMAIN rs
    BY <1>2, <1>3, <2>1
  <2>3. sueltas[n] \in DOMAIN rs /\ sueltas[n] \notin J(n - 1)
    BY <1>3, <2>1
  <2>4. J(n) = J(n - 1) \cup {sueltas[n]}
    BY <2>1
  <2>5. Llevan(nuevas[n - 1], rs, J(n - 1), l)
    BY <1>10
  <2> HIDE DEF J
  <2>6. Llevan(Sigue(nuevas[n - 1], n), rs, J(n - 1) \cup {sueltas[n]}, l)
    BY <2>2, <2>3, <2>5, UnaSuelta DEF Sigue
  <2>7. QED
    BY <1>8, <2>1, <2>4, <2>6
<1>11. N \in Good
  <2>1. N \in 0..N
    BY <1>3
  <2> HIDE DEF Good
  <2>2. QED
    BY <1>3, <1>9, <1>10, <2>1, UpTo
<1>12. J(N) = DOMAIN rs
  BY <1>2, <1>3
<1> HIDE DEF J
<1>13. QED
  BY <1>1, <1>11, <1>12

(* What a move does to the numbers, and what it does for the elements. *)
LEMMA MudanzaFiel ==
  ASSUME NEW rs \in Veredictos, NEW M \in Nat, \A k \in DOMAIN rs : rs[k].numero <= M, DeUno(rs),
         NEW l \in Lecturas
  PROVE  LET ns == Rekey(rs, l)
         IN  /\ ns \in Veredictos /\ DeUno(ns) /\ \A k \in DOMAIN ns : ns[k].numero <= M
             /\ {ns[k].numero : k \in DOMAIN ns} = {rs[k].numero : k \in DOMAIN rs}
             /\ \A k \in DOMAIN ns : \A e \in EnClave(l, k) : ns[k].identidad \in {e, SinIdentidad}
             /\ \A e \in DOMAIN l : (\E k \in DOMAIN ns : ns[k].identidad = e) => <<l[e]>> \in DOMAIN ns
<1> DEFINE ns == Rekey(rs, l)
<1>1. Llevan(ns, rs, DOMAIN rs, l)
  BY Mudanza
<1> HIDE DEF ns
<1>2. PICK h \in [DOMAIN ns -> DOMAIN rs] :
        /\ \A k \in DOMAIN ns : ns[k] = rs[h[k]]
        /\ \A k, x \in DOMAIN ns : h[k] = h[x] => k = x
        /\ \A j \in DOMAIN rs : \E k \in DOMAIN ns : h[k] = j
        /\ \A k \in DOMAIN ns : k \in Vigentes(l) => k \in Destino(h[k], rs[h[k]], l)
  BY <1>1 DEF Llevan
<1>3. ns \in Veredictos /\ \A k \in DOMAIN ns : h[k] \in DOMAIN rs /\ ns[k] = rs[h[k]]
  BY <1>1, <1>2 DEF Llevan
<1>4. DeUno(ns)
  BY <1>2, <1>3 DEF DeUno
<1>5. \A k \in DOMAIN ns : ns[k].numero <= M
  BY <1>3
<1>6. {ns[k].numero : k \in DOMAIN ns} = {rs[k].numero : k \in DOMAIN rs}
  BY <1>2, <1>3
<1>7. ASSUME NEW k \in DOMAIN ns, NEW e \in EnClave(l, k) PROVE ns[k].identidad \in {e, SinIdentidad}
  <2>1. k \in Vigentes(l)
    BY <1>7, UnaLectura DEF EnClave
  <2>2. k \in Destino(h[k], rs[h[k]], l) /\ rs[h[k]] \in Veredicto
    BY <1>2, <1>3, <2>1, LosVeredictos
  <2>3. rs[h[k]].identidad \in {e, SinIdentidad}
    BY <2>2, UnDestino
  <2>4. QED
    BY <1>3, <2>3
<1>8. ASSUME NEW e \in DOMAIN l, NEW k \in DOMAIN ns, ns[k].identidad = e PROVE <<l[e]>> \in DOMAIN ns
  <2>1. rs[h[k]] \in Veredicto /\ rs[h[k]].identidad = e /\ h[k] \in DOMAIN rs
    BY <1>3, <1>8, LosVeredictos
  <2>2. rs[h[k]].identidad # SinIdentidad
    BY <2>1, UnaLectura, ReviewKeysAssumption
  <2>3. <<l[e]>> \in Destino(h[k], rs[h[k]], l)
    BY <2>1, <2>2, UnDestino
  <2>4. Destino(h[k], rs[h[k]], l) \subseteq DOMAIN Trasladadas(rs, l)
    BY <2>1, LasQueVan
  <2>5. DOMAIN Trasladadas(rs, l) \subseteq DOMAIN ns
    BY <1>1 DEF Llevan
  <2>6. QED
    BY <2>3, <2>4, <2>5
<1>9. QED
  BY <1>3, <1>4, <1>5, <1>6, <1>7, <1>8 DEF ns

-----------------------------------------------------------------------------
(* The invariant. *)

LEMMA KeysStart == KeysInit => KeysInv
<1> SUFFICES ASSUME KeysInit PROVE KeysInv
  OBVIOUS
<1>1. DOMAIN veredictos = {} /\ veredictos = [k \in DOMAIN veredictos |-> veredictos[k]]
  BY DEF KeysInit
<1>2. veredictos \in Veredictos
  BY <1>1, FS_EmptySet, LosVeredictos
<1>3. KeysTypeOK
  BY <1>2 DEF KeysInit, KeysTypeOK
<1>4. Numerados
  BY <1>1 DEF KeysInit, Numerados, DeUno, VerdictsSurvive
<1>5. EnSuLugar
  BY <1>1 DEF KeysInit, EnSuLugar, NoCorrida
<1>6. QED
  BY <1>3, <1>4, <1>5 DEF KeysInv

LEMMA Given ==
  ASSUME KeysInv, NEW l \in Etiquetas, SetDetectionReview(l)
  PROVE  KeysInv'
<1> DEFINE es == EnClave(publicada, <<l>>)
           n == contadas.veredictos + 1
           r == [identidad |-> IF es = {} THEN SinIdentidad ELSE CHOOSE x \in es : TRUE, numero |-> n]
           k == <<l>>
<1> USE DEF KeysInv
<1>1. /\ veredictos' = Puesta(veredictos, k, r) /\ contadas' = [contadas EXCEPT !.veredictos = n]
      /\ dadas' = (dadas \cup {n}) \ {veredictos[x].numero : x \in DOMAIN veredictos \cap {k}}
      /\ tarde' = (tarde \/ enCurso # NoCorrida)
      /\ publicada' = publicada /\ enCurso' = enCurso /\ trasladadas' = trasladadas
  BY DEF SetDetectionReview
<1>2. n \in Nat /\ contadas' \in [veredictos : Nat, traslados : Nat] /\ contadas'.veredictos = n
      /\ contadas.veredictos \in Nat
  BY <1>1 DEF KeysTypeOK
<1>3. es \subseteq Elementos /\ \A x, y \in es : x = y
  <2>1. publicada \in Lecturas
    BY DEF KeysTypeOK
  <2>2. \A a, b : <<a>> = <<b>> => a = b
    OBVIOUS
  <2>3. QED
    BY <2>1, <2>2, UnaLectura DEF EnClave
<1>4. r \in Veredicto /\ r.numero = n /\ \A e \in es : r.identidad = e
  <2>1. es = {} \/ (CHOOSE x \in es : TRUE) \in es
    OBVIOUS
  <2> HIDE DEF es
  <2>2. QED
    BY <1>2, <1>3, <2>1 DEF Veredicto
<1>5. k \in Clave /\ veredictos \in Veredictos
  <2>1. k \in Seq(Etiquetas)
    OBVIOUS
  <2>2. QED
    BY <2>1 DEF Clave, KeysTypeOK
<1> HIDE DEF r, k, es, n
<1>6. /\ veredictos' \in Veredictos /\ DOMAIN veredictos' = DOMAIN veredictos \cup {k}
      /\ veredictos'[k] = r /\ \A x \in DOMAIN veredictos : x # k => veredictos'[x] = veredictos[x]
  BY <1>1, <1>4, <1>5, OtroVeredicto
<1>7. \A x \in DOMAIN veredictos : veredictos[x].numero \in Nat /\ veredictos[x].numero <= contadas.veredictos
  BY <1>5, LosVeredictos DEF Numerados, Veredicto
<1>8. KeysTypeOK'
  BY <1>1, <1>2, <1>6 DEF KeysTypeOK
<1>9. Numerados'
  <2>1. \A x \in DOMAIN veredictos : veredictos[x].numero # n /\ veredictos[x].numero <= n
    BY <1>2, <1>7 DEF n
  <2>2. \A x \in DOMAIN veredictos' : veredictos'[x].numero <= contadas'.veredictos
    BY <1>2, <1>4, <1>6, <2>1
  <2>3. DeUno(veredictos)'
    BY <1>4, <1>6, <2>1 DEF DeUno, Numerados
  <2>4. VerdictsSurvive'
    <3>1. \A x \in DOMAIN veredictos : x # k =>
            veredictos[x].numero \notin {veredictos[y].numero : y \in DOMAIN veredictos \cap {k}}
      BY DEF Numerados, DeUno
    <3>2. \A m \in dadas' : \E x \in DOMAIN veredictos' : veredictos'[x].numero = m
      <4>1. SUFFICES ASSUME NEW m \in dadas' PROVE \E x \in DOMAIN veredictos' : veredictos'[x].numero = m
        OBVIOUS
      <4>2. CASE m = n
        BY <1>4, <1>6, <4>2
      <4>3. CASE m # n
        <5>1. m \in dadas /\ m \notin {veredictos[y].numero : y \in DOMAIN veredictos \cap {k}}
          BY <1>1, <4>1, <4>3
        <5>2. PICK x \in DOMAIN veredictos : veredictos[x].numero = m
          BY <5>1 DEF Numerados, VerdictsSurvive
        <5>3. x # k
          BY <5>1, <5>2
        <5>4. QED
          BY <1>6, <5>2, <5>3
      <4>4. QED
        BY <4>2, <4>3
    <3>3. \A x \in DOMAIN veredictos' : veredictos'[x].numero \in dadas'
      <4>1. SUFFICES ASSUME NEW x \in DOMAIN veredictos' PROVE veredictos'[x].numero \in dadas'
        OBVIOUS
      <4>2. CASE x = k
        BY <1>1, <1>4, <1>6, <2>1, <4>2
      <4>3. CASE x # k
        <5>1. x \in DOMAIN veredictos /\ veredictos'[x] = veredictos[x]
          BY <1>6, <4>3
        <5>2. veredictos[x].numero \in dadas
          BY <5>1 DEF Numerados, VerdictsSurvive
        <5>3. QED
          BY <1>1, <3>1, <4>3, <5>1, <5>2
      <4>4. QED
        BY <4>2, <4>3
    <3>4. QED
      BY <3>2, <3>3 DEF VerdictsSurvive
  <2>5. QED
    BY <2>2, <2>3, <2>4 DEF Numerados
<1>10. EnSuLugar'
  <2>1. ~tarde' => ~tarde /\ enCurso = NoCorrida /\ enCurso' = NoCorrida
    BY <1>1 DEF KeysTypeOK
  <2>2. enCurso.etiquetas = {} \/ enCurso # NoCorrida
    BY DEF NoCorrida
  <2>3. ASSUME ~tarde', publicada' = trasladadas', NEW x \in DOMAIN veredictos'
        PROVE  EnSuElemento(x, trasladadas)'
    <3>1. publicada = trasladadas /\ ~tarde
      BY <1>1, <2>1, <2>3
    <3>2. CASE x = k
      BY <1>1, <1>4, <1>6, <3>1, <3>2 DEF EnSuElemento, es, k
    <3>3. CASE x # k
      <4>1. x \in DOMAIN veredictos /\ veredictos'[x] = veredictos[x]
        BY <1>6, <2>3, <3>3
      <4>2. EnSuElemento(x, trasladadas)
        BY <3>1, <4>1 DEF EnSuLugar
      <4>3. QED
        BY <1>1, <4>1, <4>2 DEF EnSuElemento
    <3>4. QED
      BY <3>2, <3>3
  <2>4. \A lectura \in enCurso'.etiquetas : lectura = trasladadas'
    BY <1>1 DEF EnSuLugar
  <2>5. ~tarde' => enCurso'.etiquetas = {}
    BY <1>1, <2>1, <2>2
  <2>6. QED
    BY <2>1, <2>3, <2>4, <2>5 DEF EnSuLugar
<1>11. QED
  BY <1>8, <1>9, <1>10

LEMMA TakenBack ==
  ASSUME KeysInv, NEW k \in DOMAIN veredictos, RemoveReview(k)
  PROVE  KeysInv'
<1> USE DEF KeysInv
<1>1. /\ veredictos' = [x \in DOMAIN veredictos \ {k} |-> veredictos[x]]
      /\ dadas' = dadas \ {veredictos[k].numero} /\ tarde' = (tarde \/ enCurso # NoCorrida)
      /\ publicada' = publicada /\ enCurso' = enCurso /\ trasladadas' = trasladadas
      /\ contadas' = contadas
  BY DEF RemoveReview
<1>2. /\ DOMAIN veredictos' = DOMAIN veredictos \ {k}
      /\ \A x \in DOMAIN veredictos' : x \in DOMAIN veredictos /\ x # k /\ veredictos'[x] = veredictos[x]
  BY <1>1
<1>3. veredictos' \in Veredictos
  <2>1. /\ DOMAIN veredictos \subseteq Clave /\ IsFiniteSet(DOMAIN veredictos)
        /\ \A x \in DOMAIN veredictos : veredictos[x] \in Veredicto
    BY LosVeredictos DEF KeysTypeOK
  <2>2. IsFiniteSet(DOMAIN veredictos \ {k})
    BY <2>1, FS_Subset
  <2>3. veredictos' = [x \in DOMAIN veredictos' |-> veredictos'[x]]
    BY <1>1
  <2>4. QED
    BY <1>2, <2>1, <2>2, <2>3, LosVeredictos
<1>4. KeysTypeOK'
  BY <1>1, <1>3 DEF KeysTypeOK
<1>5. Numerados'
  <2>1. DeUno(veredictos)' /\ \A x \in DOMAIN veredictos' : veredictos'[x].numero <= contadas'.veredictos
    BY <1>1, <1>2 DEF Numerados, DeUno
  <2>2. \A x \in DOMAIN veredictos : x # k => veredictos[x].numero # veredictos[k].numero
    BY DEF Numerados, DeUno
  <2>3. VerdictsSurvive'
    BY <1>1, <1>2, <2>2 DEF Numerados, VerdictsSurvive
  <2>4. QED
    BY <2>1, <2>3 DEF Numerados
<1>6. EnSuLugar'
  <2>1. ~tarde' => ~tarde /\ enCurso = NoCorrida
    BY <1>1 DEF KeysTypeOK
  <2>2. ~tarde' => enCurso'.etiquetas = {}
    BY <1>1, <2>1 DEF NoCorrida
  <2>3. ASSUME ~tarde', publicada' = trasladadas', NEW x \in DOMAIN veredictos'
        PROVE  EnSuElemento(x, trasladadas)'
    <3>1. EnSuElemento(x, trasladadas)
      BY <1>1, <1>2, <2>1, <2>3 DEF EnSuLugar
    <3>2. QED
      BY <1>1, <1>2, <3>1 DEF EnSuElemento
  <2>4. \A lectura \in enCurso'.etiquetas : lectura = trasladadas'
    BY <1>1 DEF EnSuLugar
  <2>5. QED
    BY <1>1, <2>1, <2>2, <2>3, <2>4 DEF EnSuLugar
<1>7. QED
  BY <1>4, <1>5, <1>6

LEMMA Moved ==
  ASSUME KeysInv, RekeyReviews
  PROVE  KeysInv'
<1> USE DEF KeysInv
<1>1. PICK l \in Lecturas : /\ veredictos' = Rekey(veredictos, l)
                            /\ enCurso' = [etiquetas |-> {l}] /\ trasladadas' = l
  BY DEF RekeyReviews
<1>2. /\ tarde' = FALSE /\ contadas' = [contadas EXCEPT !.traslados = @ + 1]
      /\ publicada' = publicada /\ dadas' = dadas
  BY DEF RekeyReviews
<1>3. contadas.veredictos \in Nat /\ contadas'.veredictos = contadas.veredictos
      /\ contadas' \in [veredictos : Nat, traslados : Nat]
  BY <1>2 DEF KeysTypeOK
<1>4. veredictos \in Veredictos /\ DeUno(veredictos)
      /\ \A k \in DOMAIN veredictos : veredictos[k].numero <= contadas.veredictos
  BY DEF KeysTypeOK, Numerados
<1>5. /\ veredictos' \in Veredictos /\ DeUno(veredictos')
      /\ \A k \in DOMAIN veredictos' : veredictos'[k].numero <= contadas.veredictos
      /\ {veredictos'[k].numero : k \in DOMAIN veredictos'} = {veredictos[k].numero : k \in DOMAIN veredictos}
      /\ \A k \in DOMAIN veredictos' : \A e \in EnClave(l, k) : veredictos'[k].identidad \in {e, SinIdentidad}
      /\ \A e \in DOMAIN l :
           (\E k \in DOMAIN veredictos' : veredictos'[k].identidad = e) => <<l[e]>> \in DOMAIN veredictos'
  <2> DEFINE ns == Rekey(veredictos, l)
  <2>1. /\ ns \in Veredictos /\ DeUno(ns) /\ \A k \in DOMAIN ns : ns[k].numero <= contadas.veredictos
        /\ {ns[k].numero : k \in DOMAIN ns} = {veredictos[k].numero : k \in DOMAIN veredictos}
        /\ \A k \in DOMAIN ns : \A e \in EnClave(l, k) : ns[k].identidad \in {e, SinIdentidad}
        /\ \A e \in DOMAIN l : (\E k \in DOMAIN ns : ns[k].identidad = e) => <<l[e]>> \in DOMAIN ns
    BY <1>3, <1>4, MudanzaFiel
  <2>2. veredictos' = ns
    BY <1>1
  <2> HIDE DEF ns
  <2>3. QED
    BY <2>1, <2>2
<1>6. KeysTypeOK'
  BY <1>1, <1>2, <1>3, <1>5 DEF KeysTypeOK
<1>7. Numerados'
  BY <1>2, <1>3, <1>5 DEF Numerados, VerdictsSurvive
<1>8. EnSuLugar'
  <2>1. \A k \in DOMAIN veredictos' : EnSuElemento(k, trasladadas)'
    BY <1>1, <1>5 DEF EnSuElemento
  <2>2. \A lectura \in enCurso'.etiquetas : lectura = l
    BY <1>1
  <2>3. QED
    BY <1>1, <1>5, <2>1, <2>2 DEF EnSuLugar
<1>9. QED
  BY <1>6, <1>7, <1>8

LEMMA KeysStep == KeysInv /\ [KeysNext]_keyVars => KeysInv'
<1> SUFFICES ASSUME KeysInv, [KeysNext]_keyVars PROVE KeysInv'
  OBVIOUS
<1>1. ASSUME NEW l \in Etiquetas, SetDetectionReview(l) PROVE KeysInv'
  BY <1>1, Given
<1>2. ASSUME NEW k \in DOMAIN veredictos, RemoveReview(k) PROVE KeysInv'
  BY <1>2, TakenBack
<1>3. CASE RekeyReviews
  BY <1>3, Moved
<1>4. CASE PublishReading
  <2>1. PICK l \in Lecturas : enCurso = [etiquetas |-> {l}]
    BY <1>4 DEF PublishReading, KeysInv, KeysTypeOK
  <2>2. /\ publicada' = l /\ enCurso' = NoCorrida /\ veredictos' = veredictos /\ dadas' = dadas
        /\ trasladadas' = trasladadas /\ tarde' = tarde /\ contadas' = contadas
    BY <1>4, <2>1 DEF PublishReading
  <2>3. l = trasladadas
    BY <2>1 DEF KeysInv, EnSuLugar
  <2>4. KeysTypeOK'
    BY <2>2 DEF KeysInv, KeysTypeOK
  <2>5. Numerados'
    BY <2>2 DEF KeysInv, Numerados, VerdictsSurvive, DeUno
  <2>6. EnSuLugar'
    BY <1>4, <2>2, <2>3 DEF KeysInv, EnSuLugar, EnSuElemento, NoCorrida, PublishReading
  <2>7. QED
    BY <2>4, <2>5, <2>6 DEF KeysInv
<1>5. CASE LoseReading
  <2>1. /\ enCurso # NoCorrida /\ enCurso' = NoCorrida /\ publicada' = publicada
        /\ veredictos' = veredictos /\ dadas' = dadas
        /\ trasladadas' = trasladadas /\ tarde' = tarde /\ contadas' = contadas
    BY <1>5 DEF LoseReading
  <2>2. KeysTypeOK'
    BY <2>1 DEF KeysInv, KeysTypeOK
  <2>3. Numerados'
    BY <2>1 DEF KeysInv, Numerados, VerdictsSurvive, DeUno
  <2>4. EnSuLugar'
    BY <2>1 DEF KeysInv, EnSuLugar, EnSuElemento, NoCorrida
  <2>5. QED
    BY <2>2, <2>3, <2>4 DEF KeysInv
<1>6. CASE UNCHANGED keyVars
  BY <1>6 DEF keyVars, KeysInv, KeysTypeOK, Numerados, VerdictsSurvive, DeUno, EnSuLugar, EnSuElemento
<1>7. QED
  BY <1>1, <1>2, <1>3, <1>4, <1>5, <1>6 DEF KeysNext

LEMMA KeysInductive == KeysSpec => []KeysInv
<1>1. KeysInit => KeysInv
  BY KeysStart
<1>2. KeysInv /\ [KeysNext]_keyVars => KeysInv'
  BY KeysStep
<1>3. QED
  BY <1>1, <1>2, PTL DEF KeysSpec

(* ReviewKeys.tla, types: what is published, on disk and in progress are   *)
(* runs and verdicts of the drawing (costing/reviews.py).                  *)
THEOREM KeysTypes == KeysSpec => []KeysTypeOK
<1>1. KeysInv => KeysTypeOK
  BY DEF KeysInv
<1>2. QED
  BY <1>1, KeysInductive, PTL

(* A verdict stays on disk until it is replaced or taken back by people,   *)
(* whatever runs move it, fail or are published (rekey_reviews).           *)
THEOREM VerdictsAreKept == KeysSpec => []VerdictsSurvive
<1>1. KeysInv => VerdictsSurvive
  BY DEF KeysInv, Numerados
<1>2. QED
  BY <1>1, KeysInductive, PTL

(* A run gives every element that has a verdict one under its label, and   *)
(* once it is published no live key has the verdict of another element     *)
(* (rekey_reviews, pipeline.py).                                           *)
THEOREM VerdictsAreOfTheirElement == KeysSpec => []VerdictsFollowElements
<1>1. KeysInv => VerdictsFollowElements
  BY DEF KeysInv, EnSuLugar, VerdictsFollowElements
<1>2. QED
  BY <1>1, KeysInductive, PTL
=============================================================================

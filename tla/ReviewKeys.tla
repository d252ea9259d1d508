----------------------------- MODULE ReviewKeys ------------------------------
(***************************************************************************)
(* The verdicts people give on detected elements, and how a reprocess      *)
(* moves them (costing/reviews.py rekey_reviews, routes/reviews.py,        *)
(* pipeline.py).                                                           *)
(*                                                                         *)
(* A verdict is filed under the label of its element, and the labels of    *)
(* another run may name other elements.  That is why a verdict also keeps  *)
(* the identity of its element, and why a run moves every verdict to the   *)
(* label its element has now.  The run does so before it is published.     *)
(***************************************************************************)
EXTENDS Integers, Sequences, FiniteSets, SequencesExt, FiniteSetsExt, Functions

CONSTANTS Elementos,     \* elements of the drawing, by their identity
          Etiquetas,     \* labels a run may give them
          MaxRevisiones, \* bound: verdicts given
          MaxTraslados   \* bound: runs that reach the verdicts

SinIdentidad == "sin identidad"

ASSUME ReviewKeysAssumption ==
  /\ Elementos # {} /\ Etiquetas # {} /\ {MaxRevisiones, MaxTraslados} \subseteq Nat
  /\ IsFiniteSet(Elementos) /\ SinIdentidad \notin Elementos

VARIABLES publicada,   \* the published run: [element -> its label], for those it found
          veredictos,  \* disk: [key -> verdict]
          enCurso,     \* the run in progress that has moved the verdicts, or NoCorrida
          dadas,       \* history: the verdicts that stand, by their number
          trasladadas, \* history: the run the verdicts were last moved for
          tarde,       \* history: a verdict was given or taken back between the move and the publication
          contadas     \* verdicts given, and moves made

keyVars == <<publicada, veredictos, enCurso, dadas, trasladadas, tarde, contadas>>

NoCorrida == [etiquetas |-> {}]

\* What a run finds: some of the elements, each under a label of its own.
Lecturas == UNION {Injection(S, Etiquetas) : S \in SUBSET Elementos}

\* Keys are labels; an orphan's key is the key it had, with its number.
Vigentes(lectura) == {<<l>> : l \in Range(lectura)}
EnClave(lectura, clave) == {e \in DOMAIN lectura : <<lectura[e]>> = clave}

\* The verdicts rs, with the verdict r under the key.
Puesta(rs, clave, r) == [k \in DOMAIN rs \cup {clave} |-> IF k = clave THEN r ELSE rs[k]]

KeysInit ==
  /\ publicada \in Lecturas /\ trasladadas = publicada
  /\ veredictos = <<>> /\ dadas = {} /\ enCurso = NoCorrida /\ tarde = FALSE
  /\ contadas = [veredictos |-> 0, traslados |-> 0]

-----------------------------------------------------------------------------
(* People.  A verdict takes the identity of the element the published run  *)
(* has under the key, if it has one.                                       *)

SetDetectionReview(l) ==
  /\ contadas.veredictos < MaxRevisiones
  /\ LET e == EnClave(publicada, <<l>>)
         n == contadas.veredictos + 1
     IN /\ veredictos' = Puesta(veredictos, <<l>>,
                               [identidad |-> IF e = {} THEN SinIdentidad ELSE CHOOSE x \in e : TRUE,
                                numero |-> n])
        /\ contadas' = [contadas EXCEPT !.veredictos = n]
        /\ dadas' = (dadas \cup {n}) \
                      {veredictos[k].numero : k \in DOMAIN veredictos \cap {<<l>>}}
  /\ tarde' = (tarde \/ enCurso # NoCorrida)
  /\ UNCHANGED <<publicada, enCurso, trasladadas>>

RemoveReview(k) ==
  /\ k \in DOMAIN veredictos
  /\ veredictos' = [x \in DOMAIN veredictos \ {k} |-> veredictos[x]]
  /\ dadas' = dadas \ {veredictos[k].numero}
  /\ tarde' = (tarde \/ enCurso # NoCorrida)
  /\ UNCHANGED <<publicada, enCurso, trasladadas, contadas>>

-----------------------------------------------------------------------------
(* rekey_reviews. *)

\* Variant: a verdict only moves when its key is gone.
DestinoSiFalta(k, r, lectura) ==
  IF k \in Vigentes(lectura) THEN {k}
  ELSE {<<lectura[e]>> : e \in DOMAIN lectura \cap {r.identidad}}

\* Where a verdict belongs: to the key of its element, or, without identity, to its own
\* key if a run still has it.
Destino(k, r, lectura) ==
  IF r.identidad # SinIdentidad THEN {<<lectura[e]>> : e \in DOMAIN lectura \cap {r.identidad}}
  ELSE {k} \cap Vigentes(lectura)

\* Of several verdicts for a key, the one that was there, or else the most recent.
Gana(ks, rs, destino) ==
  IF destino \in ks THEN destino
  ELSE CHOOSE k \in ks : \A x \in ks : rs[x].numero <= rs[k].numero

Trasladadas(rs, lectura) ==
  LET van == [d \in Vigentes(lectura) |->
                {k \in DOMAIN rs : d \in Destino(k, rs[k], lectura)}]
      con == {d \in DOMAIN van : van[d] # {}}
  IN [d \in con |-> Gana(van[d], rs, d)]

\* Variant: an orphan keeps its key.
MismaClave(k, ocupadas) == k

\* The first name free for an orphan: its key, or that with "(huérfana)" and a number.
ClaveLibre(k, ocupadas) ==
  IF k \notin ocupadas THEN k
  ELSE Append(k, Min({n \in 1..(Cardinality(ocupadas) + 1) : Append(k, n) \notin ocupadas}))

\* The verdicts that move first, and then the orphans, one after the other.
Rekey(rs, lectura) ==
  LET de == Trasladadas(rs, lectura)
      sueltas == SetToSeq(DOMAIN rs \ Range(de))
      nuevas[n \in 0..Len(sueltas)] ==
        IF n = 0 THEN [d \in DOMAIN de |-> rs[de[d]]]
        ELSE Puesta(nuevas[n - 1], ClaveLibre(sueltas[n], Vigentes(lectura) \cup DOMAIN nuevas[n - 1]),
                    rs[sueltas[n]])
  IN nuevas[Len(sueltas)]

\* The pipeline moves the verdicts and saves them, for a run that nobody sees yet.
RekeyReviews ==
  /\ enCurso = NoCorrida /\ contadas.traslados < MaxTraslados
  /\ \E lectura \in Lecturas :
       /\ veredictos' = Rekey(veredictos, lectura)
       /\ enCurso' = [etiquetas |-> {lectura}]
       /\ trasladadas' = lectura
  /\ tarde' = FALSE /\ contadas' = [contadas EXCEPT !.traslados = @ + 1]
  /\ UNCHANGED <<publicada, dadas>>

PublishReading ==
  /\ enCurso # NoCorrida
  /\ publicada' = CHOOSE l \in enCurso.etiquetas : TRUE
  /\ enCurso' = NoCorrida
  /\ UNCHANGED <<veredictos, dadas, trasladadas, tarde, contadas>>

\* The run fails, or the process stops: the verdicts stay where the run moved them.
LoseReading ==
  /\ enCurso # NoCorrida /\ enCurso' = NoCorrida
  /\ UNCHANGED <<publicada, veredictos, dadas, trasladadas, tarde, contadas>>

KeysNext ==
  \/ \E l \in Etiquetas : SetDetectionReview(l)
  \/ \E k \in DOMAIN veredictos : RemoveReview(k)
  \/ RekeyReviews \/ PublishReading \/ LoseReading

KeysSpec == KeysInit /\ [][KeysNext]_keyVars

-----------------------------------------------------------------------------
(* Properties. *)

\* No verdict is lost by being moved, whatever chain of labels the runs make: what is on
\* disk is what people gave, less what they replaced or took back themselves ("queda
\* huérfana: se conserva").
VerdictsSurvive == {veredictos[k].numero : k \in DOMAIN veredictos} = dadas

EnSuElemento(k, lectura) ==
  \A e \in EnClave(lectura, k) : veredictos[k].identidad \in {e, SinIdentidad}

\* A run moves every verdict to the label of its element, also one whose element was
\* absent for some runs, so that every element with a verdict has one under its label;
\* and once that run is published, a verdict under a live key names its own element
\* (rekey_reviews: "SIEMPRE, también cuando su clave sigue existiendo pero ya nombra otro
\* elemento").
VerdictsFollowElements ==
  /\ publicada = trasladadas /\ ~tarde /\ enCurso = NoCorrida =>
       \A k \in DOMAIN veredictos : EnSuElemento(k, publicada)
  /\ ~tarde => \A lectura \in enCurso.etiquetas, e \in Elementos :
       e \in DOMAIN lectura /\ (\E k \in DOMAIN veredictos : veredictos[k].identidad = e)
         => <<lectura[e]>> \in DOMAIN veredictos
=============================================================================

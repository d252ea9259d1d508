------------------------------ MODULE Programa ------------------------------
(***************************************************************************)
(* The work programme (costing/schedule.py): build_schedule places the     *)
(* activities one by one, phase after phase, and writes for each the       *)
(* relations it was placed by; a multi-level structure is stretched; and   *)
(* _compute_float walks the network backwards for late dates and floats.   *)
(*                                                                         *)
(* An activity is its place in the programme.  Its duration is given: the  *)
(* rendimiento, the crews and the quantity it comes from are left out.     *)
(***************************************************************************)
EXTENDS Integers, Sequences, FiniteSets, FiniteSetsExt

CONSTANTS Duraciones,      \* working days an activity may take
          Cuadrillas,      \* crews that several activities may share
          Fases,           \* the number of phases of PHASE_ORDER
          Estructura,      \* the phase that cannot be compressed
          CicloDeNiveles,  \* levels * per_level_cycle_days
          IntraOverlapPct, \* intra_phase_overlap_pct
          PhaseOverlapPct, \* phase_overlap_pct
          MaxCimbras,      \* bound on the hard predecessors of an activity
          MaxActividades   \* bound on the activities

ASSUME ProgramaAssumption ==
  /\ Duraciones \subseteq Nat \ {0} /\ Estructura \in 1..Fases
  /\ {Fases, CicloDeNiveles, MaxCimbras, MaxActividades} \subseteq Nat
  /\ {IntraOverlapPct, PhaseOverlapPct} \subseteq 0..100

VARIABLES actividades, \* the activities placed so far, in order
          fase,        \* the phase in progress: number, start, previous_anchor
          colocando,   \* what build_schedule remembers inside it
          programa     \* late dates and floats, or SinPrograma

programaVars == <<actividades, fase, colocando, programa>>

SinPrograma == [dias |-> -1]
Ninguna == 0            \* no place of the programme
Propia == "propia"      \* a crew nobody shares

Techo(n, d) == (n + d - 1) \div d

\* round(): a half goes to the even side.
Redondeo(n, d) ==
    LET q == n \div d
        r == 2 * (n % d)
    IN IF r < d \/ (r = d /\ q % 2 = 0) THEN q ELSE q + 1

Lugares == DOMAIN actividades
EnFase(f) == {i \in Lugares : actividades[i].fase = f}

\* Of some activities, the last to end; of those the last to begin; of those the first.
Ultima(as, is) ==
    CHOOSE i \in is : \A j \in is \ {i} :
        \/ as[i].fin > as[j].fin
        \/ as[i].fin = as[j].fin /\ as[i].inicio > as[j].inicio
        \/ as[i].fin = as[j].fin /\ as[i].inicio = as[j].inicio /\ i < j

-----------------------------------------------------------------------------
(* Placing an activity. *)

Liga(de, tipo, retraso) == [de |-> de, tipo |-> tipo, retraso |-> retraso]

Traslape(j) ==
    Max({1, Techo(actividades[j].dura * (100 - IntraOverlapPct), 100)})

\* _dedupe_links: of two relations of a kind with one activity, the larger lag.
Depuradas(ligas) ==
    {l \in ligas : \A x \in ligas :
        (x.de = l.de /\ x.tipo = l.tipo) => x.retraso <= l.retraso}

FaseVacia(inicio) ==
    [ancla |-> Ninguna, paso |-> {},
     cola |-> [c \in Cuadrillas |-> Ninguna], fin |-> inicio]

ProgramaInit ==
    /\ actividades = <<>>
    /\ \E f \in 1..Fases : fase = [numero |-> f, inicio |-> 0, anterior |-> Ninguna]
    /\ colocando = FaseVacia(0)
    /\ programa = SinPrograma

\* The next line of the phase, of the trade in hand or of the next one, with a
\* crew of its own or a shared one, and perhaps after its formwork and steel.
Colocar ==
    \E dura \in Duraciones, cuadrilla \in Cuadrillas \cup {Propia},
       otroPaso \in BOOLEAN, cimbras \in SUBSET Lugares :
      LET i == Len(actividades) + 1
          ancla == IF otroPaso THEN Ultima(actividades, colocando.paso)
                   ELSE colocando.ancla
          previa == IF cuadrilla = Propia THEN Ninguna ELSE colocando.cola[cuadrilla]
          deRed == {Liga(j, "SS", Traslape(j)) : j \in {ancla, previa} \ {Ninguna}}
          deFase == {Liga(j, "SS", Max({0, fase.inicio - actividades[j].inicio})) :
                       j \in IF deRed = {} THEN {fase.anterior} \ {Ninguna} ELSE {}}
          deCimbra == {Liga(j, "FS", 0) : j \in cimbras}
          inicio == Max({fase.inicio} \cup {actividades[j].fin : j \in cimbras}
                          \cup {actividades[l.de].inicio + l.retraso : l \in deRed})
      IN /\ fase.numero <= Fases /\ i <= MaxActividades
         /\ otroPaso => colocando.paso # {}
         /\ Cardinality(cimbras) <= MaxCimbras
         /\ actividades' = Append(actividades,
              [fase |-> fase.numero, dura |-> dura, inicio |-> inicio,
               fin |-> inicio + dura,
               ligas |-> Depuradas(deRed \cup deFase \cup deCimbra)])
         /\ colocando' =
              [ancla |-> ancla,
               paso |-> (IF otroPaso THEN {} ELSE colocando.paso) \cup {i},
               cola |-> [c \in Cuadrillas |->
                           IF c = cuadrilla THEN i ELSE colocando.cola[c]],
               fin |-> Max({colocando.fin, inicio + dura})]
         /\ UNCHANGED <<fase, programa>>

-----------------------------------------------------------------------------
(* The end of a phase. *)

\* Variant: the start and the duration are scaled each by itself.
EstiradaPorPartes(a, meta) ==
    LET lapso == Max({1, colocando.fin - fase.inicio})
        escala(d) == Redondeo(d * (meta - fase.inicio), lapso)
        inicio == fase.inicio + escala(a.inicio - fase.inicio)
        dura == Max({1, escala(a.dura)})
    IN [a EXCEPT !.inicio = inicio, !.dura = dura, !.fin = inicio + dura]

\* _stretch_phase: both ends go through one map of the days.
Estirada(a, meta) ==
    LET lapso == Max({1, colocando.fin - fase.inicio})
        dia(d) == fase.inicio + Redondeo((d - fase.inicio) * (meta - fase.inicio), lapso)
        fin == Max({dia(a.fin), dia(a.inicio) + 1})
    IN [a EXCEPT !.inicio = dia(a.inicio), !.dura = fin - dia(a.inicio), !.fin = fin]

\* The next phase present hangs off the last activity of this one to end.
CerrarFase ==
    LET meta == fase.inicio + CicloDeNiveles
        estira == fase.numero = Estructura /\ meta > colocando.fin
        fin == IF estira THEN meta ELSE colocando.fin
        avance == Max({1, Techo((fin - fase.inicio) * (100 - PhaseOverlapPct), 100)})
        quedan == [i \in Lugares |->
                     IF estira /\ i \in EnFase(fase.numero)
                     THEN Estirada(actividades[i], meta) ELSE actividades[i]]
    IN /\ colocando.paso # {}
       /\ \E n \in (fase.numero + 1)..(Fases + 1) :
            /\ n <= Fases => Len(actividades) < MaxActividades
            /\ fase' = [numero |-> n, inicio |-> fase.inicio + avance,
                        anterior |-> Ultima(quedan, EnFase(fase.numero))]
       /\ actividades' = quedan
       /\ colocando' = FaseVacia(fase.inicio + avance)
       /\ UNCHANGED programa

-----------------------------------------------------------------------------
(* The backward pass. *)

Dias == Max({actividades[i].fin : i \in Lugares})

\* <<i, l>>: the relation l that activity i has with the activity j.
Sucesoras(j) == {s \in UNION {{i} \X actividades[i].ligas : i \in Lugares} : s[2].de = j}

\* How long j may still wait, by each relation, when the ones after it begin then.
Espera(j, inicio) ==
    {inicio[s[1]] - s[2].retraso
       - (IF s[2].tipo = "SS" THEN actividades[j].inicio ELSE actividades[j].fin)
       : s \in Sucesoras(j)}

EsperaHasta(j, inicio) ==
    IF Sucesoras(j) = {} THEN Dias - actividades[j].fin ELSE Min(Espera(j, inicio))

\* Variant: every relation is read as one from end to start.
InicioTardeFS ==
    LET tarde[j \in Lugares] ==
          IF Sucesoras(j) = {} THEN Dias - actividades[j].dura
          ELSE Min({tarde[s[1]] - s[2].retraso : s \in Sucesoras(j)})
                 - actividades[j].dura
    IN tarde

InicioTarde ==
    LET tarde[j \in Lugares] ==
          actividades[j].inicio
            + (IF Sucesoras(j) = {} THEN Dias - actividades[j].fin
               ELSE Min({tarde[s[1]] - s[2].retraso
                           - (IF s[2].tipo = "SS" THEN actividades[j].inicio
                              ELSE actividades[j].fin) : s \in Sucesoras(j)}))
    IN tarde

Temprano == [i \in Lugares |-> actividades[i].inicio]

\* _compute_float.
Terminar ==
    LET tarde == InicioTarde
        total == [j \in Lugares |-> Max({0, tarde[j] - actividades[j].inicio})]
        libre == [j \in Lugares |->
                    Min({total[j], Max({0, EsperaHasta(j, Temprano)})})]
    IN /\ fase.numero > Fases /\ programa = SinPrograma
       /\ programa' = [dias |-> Dias, tarde |-> tarde, total |-> total, libre |-> libre]
       /\ UNCHANGED <<actividades, fase, colocando>>

ProgramaNext == Colocar \/ CerrarFase \/ Terminar

ProgramaSpec == ProgramaInit /\ [][ProgramaNext]_programaVars

-----------------------------------------------------------------------------
(* Properties. *)

\* When an activity with this relation may begin, the other ones beginning then.
Exige(l, inicio) ==
    inicio[l.de] + l.retraso + (IF l.tipo = "FS" THEN actividades[l.de].dura ELSE 0)

\* The relation that hangs a phase off the one before it.
DeFase(i, l) == l.tipo = "SS" /\ actividades[l.de].fase # actividades[i].fase

\* A phase that begins before its anchor does: build_schedule writes a lag of
\* nothing, and the activity is earlier than its own relation lets it be.
Adelantada(i, l) == DeFase(i, l) /\ l.retraso = 0

(* The programme can be built as it is written: every activity begins when *)
(* every relation written for it lets it, and it still does when the       *)
(* structure has been stretched to a cycle per level. Excepted: the        *)
(* relation to the phase before, when its last activity began later.       *)
NetworkIsKept ==
    \A i \in Lugares : \A l \in actividades[i].ligas :
        Adelantada(i, l) \/ actividades[i].inicio >= Exige(l, Temprano)

RedCumplida ==
    \A i \in Lugares : \A l \in actividades[i].ligas :
        actividades[i].inicio >= Exige(l, Temprano)

(* The floats of a finished programme whose network is kept can be used:   *)
(* begun at their late dates the activities keep every relation, none of   *)
(* those dates is before the early one, what nothing follows still ends on *)
(* time, and an activity moved by its free float moves no other.           *)
FloatsKeepNetwork ==
    programa # SinPrograma /\ RedCumplida =>
        \A i \in Lugares :
            /\ actividades[i].inicio <= programa.tarde[i]
            /\ Sucesoras(i) = {} =>
                 programa.tarde[i] + actividades[i].dura <= programa.dias
            /\ \A l \in actividades[i].ligas :
                 /\ programa.tarde[i] >= Exige(l, programa.tarde)
                 /\ actividades[i].inicio >=
                      Exige(l, [Temprano EXCEPT ![l.de] = @ + programa.libre[l.de]])
=============================================================================

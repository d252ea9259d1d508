--------------------------- MODULE ContractProofs ---------------------------
(* What Obra and Programa guarantee for every value of their constants: no  *)
(* metre is charged twice and no more is amortised than was advanced; the   *)
(* dates of a programme respect its network and its floats.                 *)
EXTENDS Obra, Programa, SelectionProofs

-----------------------------------------------------------------------------
(***************************************************************************)
(* Obra, for every contract, every number of clerks and every list of      *)
(* concepts: while no write is lost and nobody changes an estimación that  *)
(* another continues.                                                      *)
(***************************************************************************)

-----------------------------------------------------------------------------
(* Types. *)

Renglon == [contrato : Nat, periodo : Nat, previo : Nat]
Cambio == {r \in [cantidad : Nat, anterior : Nat] : r.anterior <= r.cantidad}
Por(R) == UNION {[C -> R] : C \in SUBSET Claves}
Numero == Nat \ {0}
Tipos == {"apertura", "ordinaria", "cierre"}

Estimacion == [numero : Numero, monto : Nat, amortizado_previo : Nat, renglones : Por(Renglon)]
Convenio == [numero : Numero, renglones : Por(Cambio)]
Ajuste == [numero : Numero]
Nota == [numero : Numero, tipo : Tipos, referencia : Nat, autor : Clerks]

De(l) == CASE l = "estimaciones" -> Estimacion
           [] l = "convenios" -> Convenio
           [] l = "ajustes" -> Ajuste
           [] l = "bitacora" -> Nota

Borradores == UNION {[libro : {l}, asiento : De(l)] : l \in Libros}
Peticiones == UNION {[libro : {l}, leido : Seq(De(l)), nuevo : Seq(De(l))] : l \in Libros}

ObraTypeOK ==
  /\ catalogo \in BOOLEAN /\ encimada \in BOOLEAN /\ requests \in Nat
  /\ libro = [l \in Libros |-> libro[l]] /\ \A l \in Libros : libro[l] \in Seq(De(l))
  /\ finiquito \in SUBSET [monto : Nat, otorgado : Nat, ejecutado : Nat, amortizado : Nat]
  /\ pantalla \in [Clerks -> Borradores \cup {Nada}]
  /\ peticion \in [Clerks -> Peticiones \cup {Nada}]

(* A request that saves an estimación puts what is on the screen, measured, *)
(* in the list it read.                                                     *)
Pedidas == \A k \in Clerks :
  peticion[k] # Nada /\ peticion[k].libro = "estimaciones" =>
    /\ pantalla[k] # Nada /\ pantalla[k].libro = "estimaciones"
    /\ \E e \in Medida(pantalla[k].asiento) : peticion[k].nuevo = Con(peticion[k].leido, e)

(* e comes after the first ones of es, and begins with what they add up to. *)
Sigue(e, es) ==
  /\ e.numero \in 1..(Len(es) + 1)
  /\ \A j \in 1..(e.numero - 1) : DOMAIN es[j].renglones \subseteq DOMAIN e.renglones
  /\ \A c \in DOMAIN e.renglones : e.renglones[c].previo = Medido(es, c, e.numero - 1)
  /\ e.amortizado_previo = Amortizado(es, e.numero - 1)

EnCadena ==
  LET es == libro["estimaciones"] IN
  ~encimada =>
    /\ \A i \in DOMAIN es : es[i].numero = i /\ Sigue(es[i], es)
    /\ \A k \in Clerks : pantalla[k] # Nada /\ pantalla[k].libro = "estimaciones" =>
         Sigue(pantalla[k].asiento, es)

ObraInv == ObraTypeOK /\ Pedidas /\ EnCadena

-----------------------------------------------------------------------------
(* Quantities and money. *)

LEMMA PorNat ==
  ASSUME NEW a \in Nat, NEW b \in Nat
  PROVE  a * b \in Nat
OBVIOUS

LEMMA SumaNat ==
  ASSUME NEW f, IsFiniteSet(DOMAIN f), \A c \in DOMAIN f : f[c] \in Nat
  PROVE  Suma(f) \in Nat
<1> DEFINE s == SetToSeq(DOMAIN f)
           N == Cardinality(DOMAIN f)
           g == [i \in 1..Len(s) |-> f[s[i]]]
<1>1. s \in [1..N -> DOMAIN f] /\ Len(s) = N /\ N \in Nat
  BY EnFila
<1>2. Suma(f) = Added(g, Len(s))
  BY DEF Suma
<1>3. \A i \in 1..N : g[i] \in Nat
  BY <1>1
<1> HIDE DEF g, s, N
<1>4. N \in 0..N
  BY <1>1
<1>5. Added(g, N) \in Nat
  BY <1>1, <1>3, <1>4, AddedSteps
<1>6. QED
  BY <1>1, <1>2, <1>5

LEMMA PorFinito ==
  ASSUME NEW R, NEW f \in Por(R)
  PROVE  DOMAIN f \subseteq Claves /\ IsFiniteSet(DOMAIN f) /\ \A c \in DOMAIN f : f[c] \in R
<1>1. DOMAIN f \subseteq Claves /\ \A c \in DOMAIN f : f[c] \in R
  BY DEF Por
<1>2. IsFiniteSet(DOMAIN f)
  BY <1>1, ObraAssumption, FS_Subset
<1>3. QED
  BY <1>1, <1>2

LEMMA SonPor ==
  ASSUME NEW R, NEW f, f = [c \in DOMAIN f |-> f[c]], DOMAIN f \subseteq Claves,
         \A c \in DOMAIN f : f[c] \in R
  PROVE  f \in Por(R)
BY DEF Por

LEMMA Dinero ==
  ASSUME NEW e \in Estimacion
  PROVE  /\ Importe(e) \in Nat /\ Anticipo(e.monto) \in Nat /\ PorAmortizar(e) \in Nat
         /\ Importe(e) * AnticipoPct \in Nat /\ Amortizacion(e) \in Nat
         /\ PorAmortizar(e) = Mayor(Anticipo(e.monto) - e.amortizado_previo, 0)
         /\ Amortizacion(e) = Menor(Importe(e) * AnticipoPct, PorAmortizar(e))
<1> DEFINE f == [c \in DOMAIN e.renglones |-> e.renglones[c].periodo * Precio[c]]
<1>1. e.renglones \in Por(Renglon) /\ e.monto \in Nat /\ e.amortizado_previo \in Nat
  BY DEF Estimacion
<1>2. DOMAIN f = DOMAIN e.renglones /\ DOMAIN f \subseteq Claves /\ IsFiniteSet(DOMAIN f)
      /\ \A c \in DOMAIN f : e.renglones[c] \in Renglon
  BY <1>1, PorFinito
<1>3. \A c \in DOMAIN f : f[c] \in Nat
  <2>1. \A c \in DOMAIN f : e.renglones[c].periodo \in Nat /\ Precio[c] \in Nat
    BY <1>2, ObraAssumption DEF Renglon
  <2>2. QED
    BY <2>1, PorNat
<1>4. Importe(e) = Suma(f)
  BY DEF Importe
<1> HIDE DEF f
<1>5. Importe(e) \in Nat
  BY <1>2, <1>3, <1>4, SumaNat
<1>6. AnticipoPct \in Nat
  BY ObraAssumption
<1>7. Anticipo(e.monto) \in Nat /\ Importe(e) * AnticipoPct \in Nat
  BY <1>1, <1>5, <1>6, PorNat DEF Anticipo
<1>8. PorAmortizar(e) \in Nat /\ PorAmortizar(e) = Mayor(Anticipo(e.monto) - e.amortizado_previo, 0)
  BY <1>1, <1>7 DEF PorAmortizar, Mayor
<1>9. Amortizacion(e) \in Nat /\ Amortizacion(e) = Menor(Importe(e) * AnticipoPct, PorAmortizar(e))
  BY <1>7, <1>8 DEF Amortizacion, Menor
<1>10. QED
  BY <1>5, <1>7, <1>8, <1>9

(* What the first estimaciones measured, executed and amortised. *)
MedidoEn(es, c, i) == IF c \in DOMAIN es[i].renglones THEN es[i].renglones[c].periodo ELSE 0

LEMMA Sumas ==
  ASSUME NEW es \in Seq(Estimacion)
  PROVE  /\ \A c : Medido(es, c, 0) = 0 /\ \A n \in 0..Len(es) : Medido(es, c, n) \in Nat
         /\ \A c : \A n \in 1..Len(es) : Medido(es, c, n) = Medido(es, c, n - 1) + MedidoEn(es, c, n)
         /\ Hecho(es, 0) = 0 /\ \A n \in 0..Len(es) : Hecho(es, n) \in Nat
         /\ \A n \in 1..Len(es) : Hecho(es, n) = Hecho(es, n - 1) + Importe(es[n])
         /\ Amortizado(es, 0) = 0 /\ \A n \in 0..Len(es) : Amortizado(es, n) \in Nat
         /\ \A n \in 1..Len(es) : Amortizado(es, n) = Amortizado(es, n - 1) + Amortizacion(es[n])
<1>1. Len(es) \in Nat /\ \A i \in 1..Len(es) : es[i] \in Estimacion
  BY LenProperties, ElementOfSeq
<1>2. \A i \in 1..Len(es) : Importe(es[i]) \in Nat /\ Amortizacion(es[i]) \in Nat
  BY <1>1, Dinero
<1>3. \A c : \A i \in 1..Len(es) : MedidoEn(es, c, i) \in Nat
  <2>1. ASSUME NEW c, NEW i \in 1..Len(es), c \in DOMAIN es[i].renglones
        PROVE  es[i].renglones[c].periodo \in Nat
    <3>1. es[i].renglones \in Por(Renglon)
      BY <1>1 DEF Estimacion
    <3>2. es[i].renglones[c] \in Renglon
      BY <2>1, <3>1, PorFinito
    <3>3. QED
      BY <3>2 DEF Renglon
  <2>2. QED
    BY <2>1 DEF MedidoEn
<1>4. ASSUME NEW c
      PROVE  /\ Medido(es, c, 0) = 0 /\ \A n \in 0..Len(es) : Medido(es, c, n) \in Nat
             /\ \A n \in 1..Len(es) : Medido(es, c, n) = Medido(es, c, n - 1) + MedidoEn(es, c, n)
  <2> DEFINE f == [i \in 1..Len(es) |-> IF c \in DOMAIN es[i].renglones THEN es[i].renglones[c].periodo ELSE 0]
  <2>1. \A n : Medido(es, c, n) = Added(f, n)
    BY DEF Medido
  <2>2. \A i \in 1..Len(es) : f[i] = MedidoEn(es, c, i)
    BY DEF MedidoEn
  <2> HIDE DEF f
  <2>3. /\ Added(f, 0) = 0 /\ \A n \in 0..Len(es) : Added(f, n) \in Nat
        /\ \A n \in 1..Len(es) : Added(f, n) = Added(f, n - 1) + f[n]
    BY <1>1, <1>3, <2>2, AddedSteps
  <2>4. QED
    BY <2>1, <2>2, <2>3
<1>5. /\ Hecho(es, 0) = 0 /\ \A n \in 0..Len(es) : Hecho(es, n) \in Nat
      /\ \A n \in 1..Len(es) : Hecho(es, n) = Hecho(es, n - 1) + Importe(es[n])
  <2> DEFINE f == [i \in 1..Len(es) |-> Importe(es[i])]
  <2>1. \A n : Hecho(es, n) = Added(f, n)
    BY DEF Hecho
  <2>2. \A i \in 1..Len(es) : f[i] = Importe(es[i])
    OBVIOUS
  <2> HIDE DEF f
  <2>3. /\ Added(f, 0) = 0 /\ \A n \in 0..Len(es) : Added(f, n) \in Nat
        /\ \A n \in 1..Len(es) : Added(f, n) = Added(f, n - 1) + f[n]
    BY <1>1, <1>2, <2>2, AddedSteps
  <2>4. QED
    BY <2>1, <2>2, <2>3
<1>6. /\ Amortizado(es, 0) = 0 /\ \A n \in 0..Len(es) : Amortizado(es, n) \in Nat
      /\ \A n \in 1..Len(es) : Amortizado(es, n) = Amortizado(es, n - 1) + Amortizacion(es[n])
  <2> DEFINE f == [i \in 1..Len(es) |-> Amortizacion(es[i])]
  <2>1. \A n : Amortizado(es, n) = Added(f, n)
    BY DEF Amortizado
  <2>2. \A i \in 1..Len(es) : f[i] = Amortizacion(es[i])
    OBVIOUS
  <2> HIDE DEF f
  <2>3. /\ Added(f, 0) = 0 /\ \A n \in 0..Len(es) : Added(f, n) \in Nat
        /\ \A n \in 1..Len(es) : Added(f, n) = Added(f, n - 1) + f[n]
    BY <1>1, <1>2, <2>2, AddedSteps
  <2>4. QED
    BY <2>1, <2>2, <2>3
<1>7. QED
  BY <1>4, <1>5, <1>6

(* Two lists that begin alike add up alike as far as they do. *)
LEMMA MismoPrincipio ==
  ASSUME NEW es \in Seq(Estimacion), NEW fs \in Seq(Estimacion), NEW N \in Nat,
         N <= Len(es), N <= Len(fs), \A i \in 1..N : fs[i] = es[i]
  PROVE  /\ \A c : \A n \in 0..N : Medido(fs, c, n) = Medido(es, c, n)
         /\ \A n \in 0..N : Amortizado(fs, n) = Amortizado(es, n)
<1>1. Len(es) \in Nat /\ Len(fs) \in Nat /\ \A n \in 1..N : n \in 1..Len(es) /\ n \in 1..Len(fs)
  BY LenProperties
<1>2. ASSUME NEW c, NEW n \in 0..N PROVE Medido(fs, c, n) = Medido(es, c, n)
  <2> DEFINE Good == {k \in 0..N : Medido(fs, c, k) = Medido(es, c, k)}
  <2>1. 0 \in Good
    BY Sumas
  <2>2. ASSUME NEW k \in 1..N, k - 1 \in Good PROVE k \in Good
    <3>1. /\ Medido(fs, c, k) = Medido(fs, c, k - 1) + MedidoEn(fs, c, k)
          /\ Medido(es, c, k) = Medido(es, c, k - 1) + MedidoEn(es, c, k)
      BY <1>1, Sumas
    <3>2. MedidoEn(fs, c, k) = MedidoEn(es, c, k)
      BY DEF MedidoEn
    <3>3. QED
      BY <2>2, <3>1, <3>2
  <2>3. 0..N \subseteq Good
    <3> HIDE DEF Good
    <3>1. QED
      BY <2>1, <2>2, UpTo
  <2>4. QED
    BY <2>3
<1>3. ASSUME NEW n \in 0..N PROVE Amortizado(fs, n) = Amortizado(es, n)
  <2> DEFINE Good == {k \in 0..N : Amortizado(fs, k) = Amortizado(es, k)}
  <2>1. 0 \in Good
    BY Sumas
  <2>2. ASSUME NEW k \in 1..N, k - 1 \in Good PROVE k \in Good
    <3>1. /\ Amortizado(fs, k) = Amortizado(fs, k - 1) + Amortizacion(fs[k])
          /\ Amortizado(es, k) = Amortizado(es, k - 1) + Amortizacion(es[k])
      BY <1>1, Sumas
    <3>2. QED
      BY <2>2, <3>1
  <2>3. 0..N \subseteq Good
    <3> HIDE DEF Good
    <3>1. QED
      BY <2>1, <2>2, UpTo
  <2>4. QED
    BY <2>3
<1>4. QED
  BY <1>2, <1>3

-----------------------------------------------------------------------------
(* The entries of a book. *)



LEMMA Entradas ==
  ASSUME NEW l \in Libros
  PROVE  \A x \in De(l) : x.numero \in Numero
BY DEF Libros, De, Estimacion, Convenio, Ajuste, Nota

LEMMA ElMayor ==
  ASSUME NEW S, NEW s \in Seq(S), \A x \in S : x.numero \in Numero
  PROVE  /\ MaxNumero(s) \in Nat /\ \A i \in DOMAIN s : s[i].numero \in 1..MaxNumero(s)
         /\ s # <<>> => MaxNumero(s) \in Numeros(s)
<1>1. Len(s) \in Nat /\ DOMAIN s = 1..Len(s) /\ \A i \in 1..Len(s) : s[i] \in S /\ s[i].numero \in Numero
  BY LenProperties, ElementOfSeq
<1>2. CASE s = <<>>
  BY <1>2 DEF MaxNumero
<1>3. CASE s # <<>>
  <2> DEFINE Good == {n \in 0..Len(s) : \E b \in Nat : \A i \in 1..n : s[i].numero <= b}
  <2>1. 0 \in Good
    OBVIOUS
  <2>2. ASSUME NEW n \in 1..Len(s), n - 1 \in Good PROVE n \in Good
    <3>1. PICK b \in Nat : \A i \in 1..(n - 1) : s[i].numero <= b
      BY <2>2
    <3>2. PICK c \in Nat : b <= c /\ s[n].numero <= c
      <4>1. s[n].numero \in Nat
        BY <1>1 DEF Numero
      <4>2. b + s[n].numero \in Nat /\ b <= b + s[n].numero /\ s[n].numero <= b + s[n].numero
        BY <4>1
      <4>3. QED
        BY <4>2
    <3>3. ASSUME NEW i \in 1..n PROVE s[i].numero <= c
      <4>1. s[i].numero \in Nat
        BY <1>1 DEF Numero
      <4>2. i = n \/ i \in 1..(n - 1)
        OBVIOUS
      <4>3. QED
        BY <3>1, <3>2, <4>1, <4>2
    <3>4. n \in 0..Len(s)
      BY <1>1
    <3>5. QED
      BY <3>2, <3>3, <3>4
  <2>3. Len(s) \in Good
    <3>1. Len(s) \in 0..Len(s)
      BY <1>1
    <3> HIDE DEF Good
    <3>2. QED
      BY <1>1, <2>1, <2>2, <3>1, UpTo
  <2>4. PICK b \in Nat : \A i \in 1..Len(s) : s[i].numero <= b
    BY <2>3
  <2> HIDE DEF Good
  <2> DEFINE T == {b - s[i].numero : i \in 1..Len(s)}
  <2>5. T \in SUBSET Nat
    BY <1>1, <2>4 DEF Numero
  <2>6. T # {}
    <3>1. Len(s) # 0
      BY <1>3, EmptySeq
    <3>2. 1 \in 1..Len(s)
      BY <1>1, <3>1
    <3>3. QED
      BY <3>2
  <2>7. PICK m \in T : \A k \in T : m <= k
    <3> HIDE DEF T
    <3>1. QED
      BY <2>5, <2>6, Least
  <2>8. PICK p \in 1..Len(s) : m = b - s[p].numero
    BY <2>7
  <2>9. ASSUME NEW i \in 1..Len(s) PROVE s[p].numero >= s[i].numero
    <3>1. m <= b - s[i].numero
      BY <2>7
    <3>2. s[i].numero \in Nat /\ s[p].numero \in Nat
      BY <1>1 DEF Numero
    <3>3. m = b - s[p].numero /\ b \in Nat
      BY <2>8
    <3> HIDE DEF T
    <3>4. QED
      BY <3>1, <3>2, <3>3
  <2>10. s[p].numero \in Numeros(s) /\ \A n \in Numeros(s) : s[p].numero >= n
    BY <1>1, <2>9 DEF Numeros
  <2>11. MaxNumero(s) \in Numeros(s) /\ \A n \in Numeros(s) : MaxNumero(s) >= n
    BY <1>3, <2>10 DEF MaxNumero, Max
  <2>12. \A i \in DOMAIN s : s[i].numero \in Numeros(s)
    BY DEF Numeros
  <2>13. MaxNumero(s) \in Numero
    BY <1>1, <2>11 DEF Numeros
  <2>14. QED
    BY <1>1, <2>11, <2>12, <2>13 DEF Numero
<1>4. QED
  BY <1>2, <1>3

LEMMA SinUno ==
  ASSUME NEW S, NEW s \in Seq(S), NEW n
  PROVE  Sin(s, n) \in Seq(S) /\ ToSet(Sin(s, n)) = {s[i] : i \in {j \in DOMAIN s : s[j].numero # n}}
<1> DEFINE I == {j \in DOMAIN s : s[j].numero # n}
<1>1. I \subseteq DOMAIN s
  OBVIOUS
<1> HIDE DEF I
<1>2. Taking(s, I) \in Seq(S) /\ ToSet(Taking(s, I)) = {s[i] : i \in I}
  BY <1>1, TakenFrom
<1>3. QED
  BY <1>2 DEF I, Sin

LEMMA ConTipo ==
  ASSUME NEW S, \A x \in S : x.numero \in Numero, NEW s \in Seq(S), NEW a \in S
  PROVE  Con(s, a) \in Seq(S)
<1> DEFINE t == Append(Sin(s, a.numero), a)
           key == [i \in DOMAIN t |-> t[i].numero]
<1>1. t \in Seq(S)
  BY SinUno, OneAppended
<1> HIDE DEF t
<1>2. key \in [DOMAIN t -> 1..MaxNumero(t)] /\ MaxNumero(t) \in Nat
  BY <1>1, ElMayor
<1>3. Con(s, a) = Sorted(t, key, MaxNumero(t))
  BY DEF Con, Ordenado, t
<1> HIDE DEF key
<1>4. QED
  BY <1>1, <1>2, <1>3, WhatIsSorted

(* A list whose entries have the numbers 1, 2, ... gets another entry, or   *)
(* one instead of another.                                                  *)
EnFilas(es) == \A i \in DOMAIN es : es[i].numero = i

LEMMA ElAsiento ==
  ASSUME NEW es \in Seq(Estimacion), EnFilas(es), NEW n \in Numeros(es)
  PROVE  n \in 1..Len(es) /\ Asiento(es, n) = es[n]
<1>1. DOMAIN es = 1..Len(es)
  BY LenProperties
<1>2. PICK i \in DOMAIN es : es[i].numero = n
  BY DEF Numeros
<1>3. (CHOOSE j \in DOMAIN es : es[j].numero = n) = n
  BY <1>2 DEF EnFilas
<1>4. QED
  BY <1>1, <1>2, <1>3 DEF Asiento, EnFilas

LEMMA ConUno ==
  ASSUME NEW es \in Seq(Estimacion), EnFilas(es),
         NEW e \in Estimacion, e.numero \in 1..(Len(es) + 1)
  PROVE  LET fs == Con(es, e)
         IN  /\ fs \in Seq(Estimacion) /\ Len(fs) = Mayor(Len(es), e.numero)
             /\ \A i \in 1..Len(fs) : fs[i] = IF i = e.numero THEN e ELSE es[i]
<1> DEFINE m == e.numero
           s == Sin(es, m)
           t == Append(s, e)
           N == Mayor(Len(es), m)
           key == [i \in DOMAIN t |-> t[i].numero]
           num == [x \in Estimacion |-> x.numero]
<1>1. Len(es) \in Nat /\ DOMAIN es = 1..Len(es) /\ \A i \in 1..Len(es) : es[i] \in Estimacion /\ es[i].numero = i
  BY LenProperties, ElementOfSeq DEF EnFilas
<1>2. m \in Nat /\ m # 0 /\ N \in Nat /\ m \in 1..N /\ \A k \in 1..N : k = m \/ k \in 1..Len(es)
  BY <1>1 DEF Mayor
<1>3. s \in Seq(Estimacion) /\ ToSet(s) = {es[i] : i \in {j \in 1..Len(es) : j # m}}
  <2>1. {j \in DOMAIN es : es[j].numero # m} = {j \in 1..Len(es) : j # m}
    BY <1>1
  <2>2. QED
    BY <2>1, SinUno
<1>4. Apart(s, num)
  <2>1. Apart(es, num)
    BY <1>1 DEF Apart
  <2> HIDE DEF num
  <2>2. QED
    BY <2>1, TakenApart DEF Sin
<1> HIDE DEF s
<1>5. t \in Seq(Estimacion) /\ ToSet(t) = ToSet(s) \cup {e}
  BY <1>3, OneAppended
<1>6. Apart(t, num)
  <2>1. \A y \in ToSet(s) : num[y] # num[e]
    BY <1>1, <1>3
  <2> HIDE DEF num
  <2>2. QED
    BY <1>3, <1>4, <2>1, OneAppended
<1> HIDE DEF t
<1>7. /\ \A i \in DOMAIN t : t[i] \in Estimacion /\ t[i] \in ToSet(t)
      /\ DOMAIN t = 1..Len(t) /\ Len(t) \in Nat
  BY <1>5, LenProperties, ElementOfSeq DEF ToSet
<1>8. \A i, j \in DOMAIN t : t[i].numero = t[j].numero => i = j
  BY <1>6, <1>7 DEF Apart
<1>9. \A x \in ToSet(t) : x.numero \in 1..N /\ x = IF x.numero = m THEN e ELSE es[x.numero]
  <2>1. ASSUME NEW x \in ToSet(s) PROVE x.numero \in 1..N /\ x.numero # m /\ x = es[x.numero]
    BY <1>1, <1>2, <1>3 DEF Mayor
  <2>2. QED
    BY <1>2, <1>5, <2>1
<1>10. \A k \in 1..N : \E i \in DOMAIN t : t[i].numero = k
  <2>1. SUFFICES ASSUME NEW k \in 1..N PROVE \E x \in ToSet(t) : x.numero = k
    BY DEF ToSet
  <2>2. CASE k = m
    BY <1>5, <2>2
  <2>3. CASE k # m
    <3>1. k \in 1..Len(es) /\ es[k] \in ToSet(s) /\ es[k].numero = k
      BY <1>1, <1>2, <1>3, <2>3
    <3>2. QED
      BY <1>5, <3>1
  <2>4. QED
    BY <2>2, <2>3
<1>11. MaxNumero(t) = N
  <2>1. \A x \in Estimacion : x.numero \in Numero
    BY DEF Estimacion
  <2>2. t # <<>>
    BY <1>2, <1>10
  <2>3. /\ MaxNumero(t) \in Nat /\ \A i \in DOMAIN t : t[i].numero \in 1..MaxNumero(t)
        /\ MaxNumero(t) \in Numeros(t)
    BY <1>5, <2>1, <2>2, ElMayor
  <2>4. MaxNumero(t) \in 1..N
    BY <1>7, <1>9, <2>3 DEF Numeros
  <2>5. N \in 1..N
    BY <1>2
  <2>6. N \in 1..MaxNumero(t)
    BY <1>10, <2>3, <2>5
  <2>7. QED
    BY <1>2, <2>3, <2>4, <2>6
<1> DEFINE at == [k \in 1..N |-> CHOOSE i \in DOMAIN t : t[i].numero = k]
<1>12. at \in [1..N -> DOMAIN t] /\ \A k \in 1..N : t[at[k]].numero = k
  BY <1>10
<1> HIDE DEF at
<1>13. Places(t, key, N, at)
  BY <1>7, <1>8, <1>9, <1>12 DEF Places
<1>14. Con(es, e) = Sorted(t, key, N)
  BY <1>11 DEF Con, Ordenado, t, s
<1> HIDE DEF key
<1>15. Sorted(t, key, N) = [k \in 1..N |-> t[at[k]]]
  <2> HIDE DEF N
  <2>1. QED
    BY <1>2, <1>5, <1>13, SortedOut
<1>16. \A k \in 1..N : t[at[k]] \in Estimacion /\ t[at[k]] = IF k = m THEN e ELSE es[k]
  BY <1>7, <1>9, <1>12
<1> DEFINE fs == [k \in 1..N |-> t[at[k]]]
<1>17. fs \in Seq(Estimacion) /\ Len(fs) = N /\ \A k \in 1..N : fs[k] = t[at[k]]
  <2> HIDE DEF N
  <2>1. fs \in [1..N -> Estimacion]
    BY <1>16
  <2>2. QED
    BY <1>2, <2>1
<1> HIDE DEF fs, N
<1>18. Con(es, e) = fs
  BY <1>14, <1>15 DEF fs
<1>19. QED
  BY <1>16, <1>17, <1>18 DEF N

-----------------------------------------------------------------------------
(* Drafts. *)

LEMMA Contrato ==
  /\ EnCatalogo \subseteq Claves /\ IsFiniteSet(EnCatalogo) /\ \A c \in EnCatalogo : Contratado[c] \in Nat
  /\ Firmado \in Nat /\ MontoContrato \in Nat
<1>1. EnCatalogo \subseteq Claves /\ IsFiniteSet(EnCatalogo) /\ \A c \in EnCatalogo : Contratado[c] \in Nat /\ Precio[c] \in Nat
  BY ObraAssumption, FS_Subset DEF EnCatalogo
<1>2. Firmado \in Nat
  <2> DEFINE f == [c \in EnCatalogo |-> Contratado[c] * Precio[c]]
  <2>1. \A c \in DOMAIN f : f[c] \in Nat
    BY <1>1, PorNat
  <2>2. Firmado = Suma(f) /\ DOMAIN f = EnCatalogo
    BY DEF Firmado
  <2> HIDE DEF f
  <2>3. QED
    BY <1>1, <2>1, <2>2, SumaNat
<1>3. QED
  BY <1>1, <1>2 DEF MontoContrato

LEMMA Convenido ==
  ASSUME NEW vs \in Seq(Convenio)
  PROVE  MontoConvenido(vs) \in Nat
<1>1. Len(vs) \in Nat /\ \A i \in 1..Len(vs) : vs[i] \in Convenio
  BY LenProperties, ElementOfSeq
<1>2. ASSUME NEW v \in Convenio PROVE ImporteConvenio(v) \in Nat
  <2> DEFINE f == [c \in DOMAIN v.renglones |-> (v.renglones[c].cantidad - v.renglones[c].anterior) * Precio[c]]
  <2>1. v.renglones \in Por(Cambio)
    BY DEF Convenio
  <2>2. /\ DOMAIN f = DOMAIN v.renglones /\ DOMAIN f \subseteq Claves /\ IsFiniteSet(DOMAIN f)
        /\ \A c \in DOMAIN f : v.renglones[c] \in Cambio
    BY <2>1, PorFinito
  <2>3. ASSUME NEW c \in DOMAIN f PROVE f[c] \in Nat
    <3>1. v.renglones[c].cantidad - v.renglones[c].anterior \in Nat /\ Precio[c] \in Nat
      BY <2>2, ObraAssumption DEF Cambio
    <3>2. QED
      BY <3>1, PorNat
  <2>4. ImporteConvenio(v) = Suma(f)
    BY DEF ImporteConvenio
  <2> HIDE DEF f
  <2>5. QED
    BY <2>2, <2>3, <2>4, SumaNat
<1> DEFINE g == [i \in 1..Len(vs) |-> ImporteConvenio(vs[i])]
<1>3. \A i \in 1..Len(vs) : g[i] \in Nat
  BY <1>1, <1>2
<1>4. MontoConvenido(vs) = Added(g, Len(vs))
  BY DEF MontoConvenido
<1> HIDE DEF g
<1>5. Len(vs) \in 0..Len(vs)
  BY <1>1
<1>6. QED
  BY <1>1, <1>3, <1>4, <1>5, AddedSteps

LEMMA PrimeroTipo ==
  ASSUME NEW n \in Nat
  PROVE  /\ Primero(n) \in Estimacion /\ Primero(n).numero = 1 /\ Primero(n).amortizado_previo = 0
         /\ \A c \in DOMAIN Primero(n).renglones : Primero(n).renglones[c].previo = 0
<1> DEFINE f == [c \in EnCatalogo |-> [contrato |-> Contratado[c], periodo |-> 0, previo |-> 0]]
<1>1. f = [c \in DOMAIN f |-> f[c]] /\ DOMAIN f \subseteq Claves /\ \A c \in DOMAIN f : f[c] \in Renglon /\ f[c].previo = 0
  BY Contrato DEF Renglon
<1>2. Primero(n) = [numero |-> 1, amortizado_previo |-> 0, monto |-> n, renglones |-> f]
  BY DEF Primero
<1> HIDE DEF f
<1>3. f \in Por(Renglon)
  BY <1>1, SonPor
<1>4. QED
  BY <1>1, <1>2, <1>3 DEF Estimacion, Numero

LEMMA EncadenadaTipo ==
  ASSUME NEW e \in Estimacion
  PROVE  LET d == Encadenada(e)
         IN  /\ d \in Estimacion /\ d.numero = e.numero + 1
             /\ d.amortizado_previo = e.amortizado_previo + Amortizacion(e)
             /\ DOMAIN d.renglones = DOMAIN e.renglones
             /\ \A c \in DOMAIN d.renglones :
                  d.renglones[c].previo = e.renglones[c].previo + e.renglones[c].periodo
<1> DEFINE f == [c \in DOMAIN e.renglones |-> [contrato |-> e.renglones[c].contrato, periodo |-> 0,
                                               previo |-> Acumulado(e.renglones[c])]]
<1>1. e.renglones \in Por(Renglon) /\ e.numero \in Numero /\ e.monto \in Nat /\ e.amortizado_previo \in Nat
  BY DEF Estimacion
<1>2. DOMAIN e.renglones \subseteq Claves /\ \A c \in DOMAIN e.renglones : e.renglones[c] \in Renglon
  BY <1>1, PorFinito
<1>3. f = [c \in DOMAIN f |-> f[c]] /\ DOMAIN f = DOMAIN e.renglones
      /\ \A c \in DOMAIN f : f[c] \in Renglon /\ f[c].previo = e.renglones[c].previo + e.renglones[c].periodo
  BY <1>2 DEF Renglon, Acumulado
<1>4. Encadenada(e) = [numero |-> e.numero + 1, monto |-> e.monto,
                       amortizado_previo |-> e.amortizado_previo + Amortizacion(e), renglones |-> f]
  BY DEF Encadenada
<1> HIDE DEF f
<1>5. f \in Por(Renglon)
  BY <1>2, <1>3, SonPor
<1>6. e.numero + 1 \in Numero /\ e.amortizado_previo + Amortizacion(e) \in Nat
  BY <1>1, Dinero DEF Numero
<1>7. QED
  BY <1>1, <1>3, <1>4, <1>5, <1>6 DEF Estimacion

LEMMA Tocan ==
  ASSUME NEW vs \in Seq(Convenio), NEW c
  PROVE  LET q == QueTocan(vs, c)
         IN  /\ q # <<>> => /\ Head(q).renglones[c].cantidad \in Nat
                            /\ Last(q).renglones[c].cantidad \in Nat
             /\ (\E i \in DOMAIN vs : c \in DOMAIN vs[i].renglones) => q # <<>>
<1> DEFINE I == {i \in DOMAIN vs : c \in DOMAIN vs[i].renglones}
           q == Taking(vs, I)
<1>1. QueTocan(vs, c) = q
  BY DEF QueTocan
<1>2. I \subseteq DOMAIN vs /\ \A i \in I : vs[i] \in Convenio /\ c \in DOMAIN vs[i].renglones
  BY LenProperties, ElementOfSeq
<1>3. q \in Seq(Convenio) /\ ToSet(q) = {vs[i] : i \in I}
  <2> HIDE DEF I
  <2>1. QED
    BY <1>2, TakenFrom
<1>4. I # {} <=> \E i \in DOMAIN vs : c \in DOMAIN vs[i].renglones
  OBVIOUS
<1> HIDE DEF I, q
<1>5. \A v \in ToSet(q) : v.renglones[c].cantidad \in Nat
  <2>1. ASSUME NEW v \in ToSet(q) PROVE v.renglones[c].cantidad \in Nat
    <3>1. v \in Convenio /\ c \in DOMAIN v.renglones
      BY <1>2, <1>3
    <3>2. v.renglones \in Por(Cambio)
      BY <3>1 DEF Convenio
    <3>3. v.renglones[c] \in Cambio
      BY <3>1, <3>2, PorFinito
    <3>4. QED
      BY <3>3 DEF Cambio
  <2>2. QED
    BY <2>1
<1>6. ASSUME q # <<>> PROVE Head(q) \in ToSet(q) /\ Last(q) \in ToSet(q)
  <2>1. Len(q) \in Nat /\ Len(q) # 0 /\ DOMAIN q = 1..Len(q)
    BY <1>3, <1>6, EmptySeq, LenProperties
  <2>2. 1 \in DOMAIN q /\ Len(q) \in DOMAIN q /\ Head(q) = q[1] /\ Last(q) = q[Len(q)]
    BY <1>3, <1>6, <2>1 DEF Last
  <2>3. QED
    BY <2>2 DEF ToSet
<1>7. I # {} => q # <<>>
  <2>1. I # {} => ToSet(q) # {}
    BY <1>3
  <2>2. ToSet(<<>>) = {}
    BY DEF ToSet
  <2>3. QED
    BY <2>1, <2>2
<1>8. QED
  BY <1>1, <1>4, <1>5, <1>6, <1>7

(* The convenios change the contract and what is in it, nothing of what was done. *)
LEMMA ConvenidaTipo ==
  ASSUME NEW e \in Estimacion, NEW vs \in Seq(Convenio)
  PROVE  LET d == Convenida(e, vs)
         IN  /\ d \in Estimacion /\ d.numero = e.numero /\ d.amortizado_previo = e.amortizado_previo
             /\ DOMAIN e.renglones \subseteq DOMAIN d.renglones
             /\ \A c \in DOMAIN d.renglones :
                  d.renglones[c].previo = IF c \in DOMAIN e.renglones THEN e.renglones[c].previo ELSE 0
<1>1. CASE vs = <<>>
  BY <1>1 DEF Convenida
<1>2. CASE vs # <<>>
  <2> DEFINE nuevas == (UNION {DOMAIN vs[i].renglones : i \in DOMAIN vs}) \ DOMAIN e.renglones
             r == e.renglones
             f == [c \in DOMAIN r \cup nuevas |->
                    IF c \in DOMAIN r THEN [r[c] EXCEPT !.contrato = Vigente(vs, c, r[c].contrato)]
                    ELSE [contrato |-> Head(QueTocan(vs, c)).renglones[c].cantidad, periodo |-> 0, previo |-> 0]]
             m == (IF MontoContrato > 0 THEN MontoContrato ELSE e.monto) + MontoConvenido(vs)
  <2>1. r \in Por(Renglon) /\ e.monto \in Nat
    BY DEF Estimacion
  <2>2. DOMAIN r \subseteq Claves /\ \A c \in DOMAIN r : r[c] \in Renglon
    BY <2>1, PorFinito
  <2>3. nuevas \subseteq Claves
    <3>1. \A i \in DOMAIN vs : vs[i] \in Convenio
      BY LenProperties, ElementOfSeq
    <3>2. \A i \in DOMAIN vs : vs[i].renglones \in Por(Cambio)
      BY <3>1 DEF Convenio
    <3>3. \A i \in DOMAIN vs : DOMAIN vs[i].renglones \subseteq Claves
      BY <3>2, PorFinito
    <3>4. QED
      BY <3>3
  <2>4. \A c \in nuevas : c \notin DOMAIN r /\ \E i \in DOMAIN vs : c \in DOMAIN vs[i].renglones
    OBVIOUS
  <2>5. m \in Nat
    BY <2>1, Contrato, Convenido
  <2>6. Convenida(e, vs) = [e EXCEPT !.monto = m, !.renglones = f]
    BY <1>2 DEF Convenida
  <2> HIDE DEF nuevas, m
  <2>7. \A c \in DOMAIN r : Vigente(vs, c, r[c].contrato) \in Nat
    <3>1. \A c \in DOMAIN r : r[c].contrato \in Nat
      BY <2>2 DEF Renglon
    <3>2. QED
      BY <3>1, Tocan DEF Vigente
  <2>8. \A c \in nuevas : Head(QueTocan(vs, c)).renglones[c].cantidad \in Nat
    BY <2>4, Tocan
  <2>9. /\ f = [c \in DOMAIN f |-> f[c]] /\ DOMAIN f = DOMAIN r \cup nuevas
        /\ \A c \in DOMAIN r : f[c] = [r[c] EXCEPT !.contrato = Vigente(vs, c, r[c].contrato)]
        /\ \A c \in nuevas : f[c] = [contrato |-> Head(QueTocan(vs, c)).renglones[c].cantidad, periodo |-> 0, previo |-> 0]
    BY <2>4
  <2> HIDE DEF f, r
  <2>10. \A c \in DOMAIN r : f[c] \in Renglon /\ f[c].previo = r[c].previo
    BY <2>2, <2>7, <2>9 DEF Renglon
  <2>11. \A c \in nuevas : f[c] \in Renglon /\ f[c].previo = 0
    BY <2>8, <2>9 DEF Renglon
  <2>12. f \in Por(Renglon)
    BY <2>2, <2>3, <2>9, <2>10, <2>11, SonPor
  <2>13. QED
    BY <2>4, <2>5, <2>6, <2>9, <2>10, <2>11, <2>12 DEF Estimacion, r
<1>3. QED
  BY <1>1, <1>2

LEMMA BorradorTipo ==
  ASSUME NEW e \in Estimacion, NEW n \in Numero
  PROVE  Borrador(e, n) \in Convenio
<1> DEFINE f == [c \in {k \in DOMAIN e.renglones : Excede(e.renglones[k])} |->
                   [cantidad |-> Acumulado(e.renglones[c]), anterior |-> e.renglones[c].contrato]]
<1>1. e.renglones \in Por(Renglon)
  BY DEF Estimacion
<1>2. DOMAIN e.renglones \subseteq Claves /\ \A c \in DOMAIN e.renglones : e.renglones[c] \in Renglon
  BY <1>1, PorFinito
<1>3. f = [c \in DOMAIN f |-> f[c]] /\ DOMAIN f \subseteq Claves
  BY <1>2
<1>4. \A c \in DOMAIN f : f[c] \in Cambio
  BY <1>2 DEF Renglon, Cambio, Acumulado, Excede
<1>5. Borrador(e, n) = [numero |-> n, renglones |-> f]
  BY DEF Borrador
<1> HIDE DEF f
<1>6. f \in Por(Cambio)
  BY <1>3, <1>4, SonPor
<1>7. QED
  BY <1>5, <1>6 DEF Convenio

(* Measuring changes the quantities of the period and nothing else. *)
LEMMA MedidaTipo ==
  ASSUME NEW e \in Estimacion, NEW d \in Medida(e)
  PROVE  /\ d \in Estimacion /\ d.numero = e.numero /\ d.amortizado_previo = e.amortizado_previo
         /\ DOMAIN d.renglones = DOMAIN e.renglones
         /\ \A c \in DOMAIN e.renglones : d.renglones[c].previo = e.renglones[c].previo
<1> DEFINE r == e.renglones
<1>1. PICK m \in [DOMAIN r -> Medidas] :
        d = [e EXCEPT !.renglones = [c \in DOMAIN @ |-> [@[c] EXCEPT !.periodo = m[c]]]]
  BY DEF Medida
<1> DEFINE f == [c \in DOMAIN r |-> [r[c] EXCEPT !.periodo = m[c]]]
<1>2. d = [e EXCEPT !.renglones = f]
  BY <1>1
<1>3. r \in Por(Renglon)
  BY DEF Estimacion
<1>4. DOMAIN r \subseteq Claves /\ \A c \in DOMAIN r : r[c] \in Renglon
  BY <1>3, PorFinito
<1>5. \A c \in DOMAIN r : m[c] \in Nat
  BY <1>1, ObraAssumption
<1>6. f = [c \in DOMAIN f |-> f[c]] /\ DOMAIN f = DOMAIN r /\ \A c \in DOMAIN r : f[c] = [r[c] EXCEPT !.periodo = m[c]]
  OBVIOUS
<1> HIDE DEF f, r
<1>7. \A c \in DOMAIN r : f[c] \in Renglon /\ f[c].previo = r[c].previo
  BY <1>4, <1>5, <1>6 DEF Renglon
<1>8. f \in Por(Renglon)
  BY <1>4, <1>6, <1>7, SonPor
<1>9. QED
  BY <1>2, <1>6, <1>7, <1>8 DEF Estimacion, r

-----------------------------------------------------------------------------
(* What continues a list. *)

EnOrden(es) == EnFilas(es) /\ \A i \in DOMAIN es : Sigue(es[i], es)

LEMMA SigueIgual ==
  ASSUME NEW es \in Seq(Estimacion), NEW fs \in Seq(Estimacion), NEW d \in Estimacion, Sigue(d, es),
         d.numero - 1 <= Len(fs), \A i \in 1..(d.numero - 1) : fs[i] = es[i]
  PROVE  Sigue(d, fs)
<1> DEFINE N == d.numero - 1
<1>1. d.numero \in 1..(Len(es) + 1) /\ Len(es) \in Nat /\ Len(fs) \in Nat
  BY LenProperties DEF Sigue
<1>2. N \in Nat /\ N <= Len(es) /\ N <= Len(fs) /\ d.numero \in 1..(Len(fs) + 1) /\ N \in 0..N
  BY <1>1
<1>3. \A i \in 1..N : fs[i] = es[i]
  OBVIOUS
<1>4. /\ \A j \in 1..N : DOMAIN es[j].renglones \subseteq DOMAIN d.renglones
      /\ \A c \in DOMAIN d.renglones : d.renglones[c].previo = Medido(es, c, N)
      /\ d.amortizado_previo = Amortizado(es, N)
  BY DEF Sigue
<1>5. \A j \in 1..N : DOMAIN fs[j].renglones \subseteq DOMAIN d.renglones
  BY <1>3, <1>4
<1> HIDE DEF N
<1>6. /\ \A c : \A n \in 0..N : Medido(fs, c, n) = Medido(es, c, n)
      /\ \A n \in 0..N : Amortizado(fs, n) = Amortizado(es, n)
  BY <1>2, <1>3, MismoPrincipio
<1>7. QED
  BY <1>2, <1>4, <1>5, <1>6 DEF Sigue, N

LEMMA SigueMedida ==
  ASSUME NEW es, NEW d \in Estimacion, Sigue(d, es), NEW e \in Medida(d)
  PROVE  Sigue(e, es) /\ e \in Estimacion /\ e.numero = d.numero
BY MedidaTipo DEF Sigue

(* The list with an entry more, or with its last one changed. *)
LEMMA Guardada ==
  ASSUME NEW es \in Seq(Estimacion), EnOrden(es), NEW e \in Estimacion, Sigue(e, es),
         e.numero >= Len(es)
  PROVE  LET fs == Con(es, e)
         IN  /\ fs \in Seq(Estimacion) /\ EnOrden(fs)
             /\ \A d \in Estimacion : Sigue(d, es) /\ d.numero <= e.numero => Sigue(d, fs)
<1> DEFINE fs == Con(es, e)
           m == e.numero
<1>1. m \in 1..(Len(es) + 1) /\ Len(es) \in Nat /\ EnFilas(es)
  BY LenProperties DEF Sigue, EnOrden
<1>2. /\ fs \in Seq(Estimacion) /\ Len(fs) = Mayor(Len(es), m)
      /\ \A i \in 1..Len(fs) : fs[i] = IF i = m THEN e ELSE es[i]
  BY <1>1, ConUno
<1>3. Len(fs) = m
  BY <1>1, <1>2 DEF Mayor
<1> HIDE DEF fs
<1>4. ASSUME NEW d \in Estimacion, Sigue(d, es), d.numero <= m PROVE Sigue(d, fs)
  <2>1. d.numero \in 1..(Len(es) + 1)
    BY <1>4 DEF Sigue
  <2>2. d.numero - 1 <= Len(fs) /\ \A i \in 1..(d.numero - 1) : i \in 1..Len(fs) /\ i # m
    BY <1>1, <1>3, <1>4, <2>1
  <2>3. \A i \in 1..(d.numero - 1) : fs[i] = es[i]
    BY <1>2, <2>2
  <2>4. QED
    BY <1>2, <1>4, <2>2, <2>3, SigueIgual
<1>5. EnOrden(fs)
  <2>1. DOMAIN fs = 1..m /\ DOMAIN es = 1..Len(es)
    BY <1>2, <1>3, LenProperties
  <2>2. ASSUME NEW i \in 1..m PROVE fs[i].numero = i /\ fs[i] \in Estimacion /\ Sigue(fs[i], es)
    <3>1. CASE i = m
      BY <1>2, <1>3, <3>1
    <3>2. CASE i # m
      <4>1. i \in 1..Len(es) /\ fs[i] = es[i]
        BY <1>1, <1>2, <1>3, <3>2
      <4>2. es[i] \in Estimacion
        BY <4>1, ElementOfSeq
      <4>3. QED
        BY <2>1, <4>1, <4>2 DEF EnOrden, EnFilas
    <3>3. QED
      BY <3>1, <3>2
  <2>3. \A i \in 1..m : i <= m
    BY <1>1
  <2>4. \A i \in 1..m : Sigue(fs[i], fs)
    BY <1>4, <2>2, <2>3
  <2>5. QED
    BY <2>1, <2>2, <2>4 DEF EnOrden, EnFilas
<1>6. QED
  BY <1>2, <1>4, <1>5 DEF fs

(* Saved over what it was, it changes nothing. *)
LEMMA GuardadaIgual ==
  ASSUME NEW es \in Seq(Estimacion), EnOrden(es), NEW n \in 1..Len(es)
  PROVE  Con(es, es[n]) = es
<1> DEFINE fs == Con(es, es[n])
<1>1. Len(es) \in Nat /\ es[n] \in Estimacion /\ DOMAIN es = 1..Len(es)
  BY LenProperties, ElementOfSeq
<1>2. EnFilas(es) /\ es[n].numero = n /\ n \in 1..(Len(es) + 1)
  BY <1>1 DEF EnOrden, EnFilas
<1>3. /\ fs \in Seq(Estimacion) /\ Len(fs) = Mayor(Len(es), n)
      /\ \A i \in 1..Len(fs) : fs[i] = IF i = n THEN es[n] ELSE es[i]
  BY <1>1, <1>2, ConUno
<1> HIDE DEF fs
<1>4. Len(fs) = Len(es) /\ \A i \in 1..Len(es) : fs[i] = es[i]
  <2>1. Mayor(Len(es), n) = Len(es)
    <3> DEFINE N == Len(es)
    <3>1. N \in Nat /\ n \in 1..N
      BY <1>1
    <3> HIDE DEF N
    <3>2. ~(n > N)
      BY <3>1
    <3>3. IF N > n THEN N = N ELSE n = N
      BY <3>1
    <3>4. QED
      BY <3>3 DEF Mayor, N
  <2>2. QED
    BY <1>3, <2>1
<1>5. fs = es
  BY <1>3, <1>4, SeqEqual
<1>6. QED
  BY <1>5 DEF fs

LEMMA NadaMedido ==
  ASSUME NEW es \in Seq(Estimacion), NEW c, \A i \in 1..Len(es) : c \notin DOMAIN es[i].renglones
  PROVE  Medido(es, c, Len(es)) = 0
<1> DEFINE f == [i \in 1..Len(es) |-> IF c \in DOMAIN es[i].renglones THEN es[i].renglones[c].periodo ELSE 0]
<1>1. \A i \in 1..Len(es) : f[i] = 0
  OBVIOUS
<1>2. Medido(es, c, Len(es)) = Added(f, Len(es)) /\ Len(es) \in Nat
  BY LenProperties DEF Medido
<1> HIDE DEF f
<1>3. QED
  BY <1>1, <1>2, AddedNothing

(* siguiente continues the list that it was drafted from. *)
LEMMA LaSiguiente ==
  ASSUME NEW es \in Seq(Estimacion), EnOrden(es), es # <<>>, NEW vs \in Seq(Convenio)
  PROVE  LET d == Convenida(Encadenada(Last(es)), vs)
         IN  d \in Estimacion /\ Sigue(d, es)
<1> DEFINE N == Len(es)
           u == Last(es)
           x == Encadenada(u)
           d == Convenida(x, vs)
<1>1. N \in Nat /\ N # 0 /\ N \in 1..N /\ DOMAIN es = 1..N /\ u = es[N]
  BY EmptySeq, LenProperties DEF Last
<1>2. u \in Estimacion /\ u.numero = N /\ Sigue(u, es)
  BY <1>1, ElementOfSeq DEF EnOrden, EnFilas
<1> HIDE DEF u
<1>3. /\ x \in Estimacion /\ x.numero = N + 1 /\ x.amortizado_previo = u.amortizado_previo + Amortizacion(u)
      /\ DOMAIN x.renglones = DOMAIN u.renglones
      /\ \A c \in DOMAIN x.renglones : x.renglones[c].previo = u.renglones[c].previo + u.renglones[c].periodo
  BY <1>2, EncadenadaTipo
<1> HIDE DEF x
<1>4. /\ d \in Estimacion /\ d.numero = x.numero /\ d.amortizado_previo = x.amortizado_previo
      /\ DOMAIN x.renglones \subseteq DOMAIN d.renglones
      /\ \A c \in DOMAIN d.renglones :
           d.renglones[c].previo = IF c \in DOMAIN x.renglones THEN x.renglones[c].previo ELSE 0
  BY <1>3, ConvenidaTipo
<1> HIDE DEF d
<1>5. /\ \A j \in 1..(N - 1) : DOMAIN es[j].renglones \subseteq DOMAIN u.renglones
      /\ \A c \in DOMAIN u.renglones : u.renglones[c].previo = Medido(es, c, N - 1)
      /\ u.amortizado_previo = Amortizado(es, N - 1)
  BY <1>2 DEF Sigue
<1>6. d.numero \in 1..(N + 1) /\ d.numero - 1 = N
  BY <1>1, <1>3, <1>4
<1>7. \A j \in 1..N : DOMAIN es[j].renglones \subseteq DOMAIN u.renglones
  <2>1. \A j \in 1..N : j = N \/ j \in 1..(N - 1)
    <3> HIDE DEF N
    <3>1. N \in Nat
      BY <1>1
    <3>2. QED
      BY <3>1
  <2>2. QED
    BY <1>1, <1>5, <2>1
<1>8. \A j \in 1..N : DOMAIN es[j].renglones \subseteq DOMAIN d.renglones
  BY <1>3, <1>4, <1>7
<1>9. ASSUME NEW c \in DOMAIN d.renglones PROVE d.renglones[c].previo = Medido(es, c, N)
  <2>1. CASE c \in DOMAIN u.renglones
    <3>1. Medido(es, c, N) = Medido(es, c, N - 1) + MedidoEn(es, c, N)
      BY <1>1, Sumas
    <3>2. MedidoEn(es, c, N) = u.renglones[c].periodo
      BY <1>1, <2>1 DEF MedidoEn
    <3>3. d.renglones[c].previo = u.renglones[c].previo + u.renglones[c].periodo
      BY <1>3, <1>4, <2>1
    <3>4. QED
      BY <1>5, <2>1, <3>1, <3>2, <3>3
  <2>2. CASE c \notin DOMAIN u.renglones
    <3>1. \A i \in 1..Len(es) : c \notin DOMAIN es[i].renglones
      BY <1>7, <2>2
    <3>2. QED
      BY <1>3, <1>4, <2>2, <3>1, NadaMedido
  <2>3. QED
    BY <2>1, <2>2
<1>10. d.amortizado_previo = Amortizado(es, N)
  <2>1. Amortizado(es, N) = Amortizado(es, N - 1) + Amortizacion(es[N])
    BY <1>1, Sumas
  <2>2. QED
    BY <1>1, <1>3, <1>4, <1>5, <2>1
<1>11. Sigue(d, es)
  BY <1>6, <1>8, <1>9, <1>10 DEF Sigue
<1>12. QED
  BY <1>4, <1>11 DEF d, x, u

-----------------------------------------------------------------------------
(* Steps. *)

LEMMA DeQueEs ==
  /\ De("estimaciones") = Estimacion /\ De("convenios") = Convenio
  /\ De("ajustes") = Ajuste /\ De("bitacora") = Nota
BY DEF De

LEMMA UnBorrador ==
  ASSUME NEW p \in Borradores \cup {Nada}, p # Nada
  PROVE  p.libro \in Libros /\ p.asiento \in De(p.libro)
BY DEF Borradores

LEMMA UnaPeticion ==
  ASSUME NEW p \in Peticiones \cup {Nada}, p # Nada
  PROVE  p.libro \in Libros /\ p.leido \in Seq(De(p.libro)) /\ p.nuevo \in Seq(De(p.libro))
BY DEF Peticiones

LEMMA NoEsNada ==
  ASSUME NEW l, NEW a, NEW b
  PROVE  [libro |-> l, asiento |-> a] # Nada /\ [libro |-> l, leido |-> a, nuevo |-> b] # Nada
<1>1. DOMAIN Nada = {"nada"}
  BY DEF Nada
<1>2. "libro" \in DOMAIN [libro |-> l, asiento |-> a] /\ "libro" \in DOMAIN [libro |-> l, leido |-> a, nuevo |-> b]
  OBVIOUS
<1>3. "libro" # "nada"
  OBVIOUS
<1>4. QED
  BY <1>1, <1>2, <1>3

LEMMA Lista ==
  ASSUME ObraTypeOK, NEW l \in Libros
  PROVE  libro[l] \in Seq(De(l))
BY DEF ObraTypeOK

(* A draft goes to a screen. *)
LEMMA Mostrado ==
  ASSUME ObraInv, NEW k \in Clerks, NEW l \in Libros, NEW a \in De(l),
         l = "estimaciones" /\ ~encimada => Sigue(a, libro["estimaciones"]),
         Mostrar(k, l, a)
  PROVE  ObraInv'
<1> USE DEF ObraInv
<1>1. /\ peticion[k] = Nada /\ pantalla' = [pantalla EXCEPT ![k] = [libro |-> l, asiento |-> a]]
      /\ catalogo' = catalogo /\ libro' = libro /\ finiquito' = finiquito /\ peticion' = peticion
      /\ requests' = requests /\ encimada' = encimada
  BY DEF Mostrar
<1>2. [libro |-> l, asiento |-> a] \in Borradores
  BY DEF Borradores
<1>3. ObraTypeOK'
  BY <1>1, <1>2 DEF ObraTypeOK
<1>4. /\ pantalla'[k] = [libro |-> l, asiento |-> a]
      /\ \A j \in Clerks : j # k => pantalla'[j] = pantalla[j]
  BY <1>1 DEF ObraTypeOK
<1>5. Pedidas'
  BY <1>1, <1>4 DEF Pedidas
<1>6. EnCadena'
  <2>1. \A i \in DOMAIN libro["estimaciones"] : ~encimada =>
          libro["estimaciones"][i].numero = i /\ Sigue(libro["estimaciones"][i], libro["estimaciones"])
    BY DEF EnCadena
  <2>2. \A j \in Clerks : ~encimada /\ pantalla'[j] # Nada /\ pantalla'[j].libro = "estimaciones" =>
          Sigue(pantalla'[j].asiento, libro["estimaciones"])
    BY <1>4 DEF EnCadena
  <2>3. QED
    BY <1>1, <2>1, <2>2 DEF EnCadena
<1>7. QED
  BY <1>3, <1>5, <1>6

(* A request reads a book. *)
LEMMA Leido ==
  ASSUME ObraInv, NEW k \in Clerks, NEW l \in Libros, NEW nuevo \in Seq(De(l)),
         l = "estimaciones" =>
           /\ pantalla[k] # Nada /\ pantalla[k].libro = "estimaciones"
           /\ \E e \in Medida(pantalla[k].asiento) : nuevo = Con(libro["estimaciones"], e),
         LeerObra(k, l, nuevo)
  PROVE  ObraInv'
<1> USE DEF ObraInv
<1> DEFINE p == [libro |-> l, leido |-> libro[l], nuevo |-> nuevo]
<1>1. /\ requests' = requests + 1 /\ peticion' = [peticion EXCEPT ![k] = p]
      /\ catalogo' = catalogo /\ libro' = libro /\ finiquito' = finiquito /\ pantalla' = pantalla
      /\ encimada' = encimada
  BY DEF LeerObra
<1>2. p \in Peticiones
  BY Lista DEF Peticiones
<1>3. p.libro = l /\ p.leido = libro[l] /\ p.nuevo = nuevo
  OBVIOUS
<1> HIDE DEF p
<1>4. ObraTypeOK'
  BY <1>1, <1>2 DEF ObraTypeOK
<1>5. peticion'[k] = p /\ \A j \in Clerks : j # k => peticion'[j] = peticion[j]
  BY <1>1 DEF ObraTypeOK
<1>6. Pedidas'
  <2>1. ASSUME NEW j \in Clerks, peticion'[j] # Nada, peticion'[j].libro = "estimaciones"
        PROVE  /\ pantalla[j] # Nada /\ pantalla[j].libro = "estimaciones"
               /\ \E e \in Medida(pantalla[j].asiento) : peticion'[j].nuevo = Con(peticion'[j].leido, e)
    <3>1. CASE j = k
      BY <1>3, <1>5, <2>1, <3>1
    <3>2. CASE j # k
      BY <1>5, <2>1, <3>2 DEF Pedidas
    <3>3. QED
      BY <3>1, <3>2
  <2>2. QED
    BY <1>1, <2>1 DEF Pedidas
<1>7. EnCadena'
  BY <1>1 DEF EnCadena
<1>8. QED
  BY <1>4, <1>6, <1>7

(* A request replaces a book. *)
LEMMA Escrito ==
  ASSUME ObraInv, NEW k \in Clerks, Guardar(k)
  PROVE  ObraInv'
<1> USE DEF ObraInv
<1> DEFINE p == peticion[k]
           es == libro["estimaciones"]
<1>1. /\ p # Nada /\ encimada' = (encimada \/ Encima(p)) /\ libro' = [libro EXCEPT ![p.libro] = p.nuevo]
      /\ peticion' = [peticion EXCEPT ![k] = Nada] /\ pantalla' = [pantalla EXCEPT ![k] = Nada]
      /\ catalogo' = catalogo /\ finiquito' = finiquito /\ requests' = requests
  BY DEF Guardar
<1>2. p.libro \in Libros /\ p.nuevo \in Seq(De(p.libro)) /\ p.leido \in Seq(De(p.libro))
  BY <1>1, UnaPeticion DEF ObraTypeOK
<1>3. es \in Seq(Estimacion)
  BY Lista, DeQueEs DEF Libros
<1>4. /\ \A j \in Clerks : pantalla'[j] = (IF j = k THEN Nada ELSE pantalla[j])
      /\ \A j \in Clerks : peticion'[j] = (IF j = k THEN Nada ELSE peticion[j])
      /\ \A l \in Libros : libro'[l] = IF l = p.libro THEN p.nuevo ELSE libro[l]
  BY <1>1, <1>2 DEF ObraTypeOK
<1>5. ObraTypeOK'
  <2>1. libro' = [l \in Libros |-> libro'[l]]
    BY <1>1, <1>2 DEF ObraTypeOK
  <2>2. \A l \in Libros : libro'[l] \in Seq(De(l))
    BY <1>2, <1>4, Lista
  <2>3. Encima(p) \in BOOLEAN
    BY DEF Encima
  <2>4. encimada' \in BOOLEAN
    BY <1>1, <2>3 DEF ObraTypeOK
  <2>5. pantalla' \in [Clerks -> Borradores \cup {Nada}] /\ peticion' \in [Clerks -> Peticiones \cup {Nada}]
    BY <1>1 DEF ObraTypeOK
  <2>6. QED
    BY <1>1, <2>1, <2>2, <2>4, <2>5 DEF ObraTypeOK
<1>6. Pedidas'
  <2>1. \A j \in Clerks : j # k => pantalla'[j] = pantalla[j] /\ peticion'[j] = peticion[j]
    BY <1>4
  <2>2. peticion'[k] = Nada
    BY <1>4
  <2>3. QED
    BY <2>1, <2>2 DEF Pedidas
<1>7. EnCadena'
  <2> SUFFICES ASSUME ~encimada'
               PROVE  /\ EnOrden(libro'["estimaciones"])
                      /\ \A j \in Clerks : pantalla'[j] # Nada /\ pantalla'[j].libro = "estimaciones" =>
                           Sigue(pantalla'[j].asiento, libro'["estimaciones"])
    BY DEF EnCadena, EnOrden, EnFilas
  <2>1. ~encimada /\ ~Encima(p)
    BY <1>1
  <2>2. /\ EnOrden(es)
        /\ \A j \in Clerks : pantalla[j] # Nada /\ pantalla[j].libro = "estimaciones" =>
             Sigue(pantalla[j].asiento, es)
    BY <2>1 DEF EnCadena, EnOrden, EnFilas
  <2>3. CASE p.libro # "estimaciones"
    <3>1. libro'["estimaciones"] = es
      BY <1>4, <2>3 DEF Libros
    <3>2. QED
      BY <1>4, <2>2, <3>1
  <2>4. CASE p.libro = "estimaciones"
    <3>1. libro'["estimaciones"] = p.nuevo /\ p.leido = es /\ p.nuevo \in Seq(Estimacion)
      BY <1>2, <1>4, <2>1, <2>4, DeQueEs DEF Encima, Libros
    <3>2. PICK e \in Medida(pantalla[k].asiento) : p.nuevo = Con(es, e)
      BY <1>1, <2>4, <3>1 DEF Pedidas
    <3>3. pantalla[k] # Nada /\ pantalla[k].libro = "estimaciones" /\ pantalla[k].asiento \in Estimacion
      BY <1>1, <2>4, UnBorrador, DeQueEs DEF Pedidas, ObraTypeOK
    <3>4. e \in Estimacion /\ Sigue(e, es)
      BY <2>2, <3>2, <3>3, SigueMedida
    <3>5. e.numero \in 1..(Len(es) + 1) /\ Len(es) \in Nat /\ EnFilas(es) /\ DOMAIN es = 1..Len(es)
      BY <1>3, <2>2, <3>4, LenProperties DEF Sigue, EnOrden
    <3> DEFINE fs == Con(es, e)
               m == e.numero
    <3>6. CASE m <= Len(es) /\ e = es[m]
      <4>1. fs = es
        BY <1>3, <2>2, <3>5, <3>6, GuardadaIgual
      <4>2. QED
        BY <1>4, <2>2, <3>1, <3>2, <4>1
    <3>7. CASE ~(m <= Len(es) /\ e = es[m])
      <4>1. m >= Len(es) /\ \A j \in Clerks :
              pantalla[j] # Nada /\ pantalla[j].libro = "estimaciones" => pantalla[j].asiento.numero <= m
        <5>1. \A j \in Clerks : pantalla[j] # Nada /\ pantalla[j].libro = "estimaciones" =>
                pantalla[j].asiento.numero \in 1..(Len(es) + 1)
          BY <2>2 DEF Sigue
        <5>2. CASE m = Len(es) + 1
          BY <3>5, <5>1, <5>2
        <5>3. CASE m # Len(es) + 1
          <6>1. m \in 1..Len(es) /\ e # es[m]
            BY <3>5, <3>7, <5>3
          <6>2. m \in Numeros(es) /\ Asiento(es, m) = es[m]
            <7>1. m \in Numeros(es)
              BY <3>5, <6>1 DEF EnFilas, Numeros
            <7>2. QED
              BY <1>3, <3>5, <7>1, ElAsiento
          <6>3. Asiento(fs, m) = e
            <7>1. /\ fs \in Seq(Estimacion) /\ Len(fs) = Mayor(Len(es), m)
                  /\ \A i \in 1..Len(fs) : fs[i] = IF i = m THEN e ELSE es[i]
              BY <1>3, <3>4, <3>5, ConUno
            <7> HIDE DEF fs
            <7>2. Mayor(Len(es), m) = Len(es)
              BY <3>5, <6>1 DEF Mayor
            <7>3. DOMAIN fs = 1..Len(es)
              BY <7>1, <7>2, LenProperties
            <7>4. EnFilas(fs)
              BY <3>5, <7>1, <7>2, <7>3 DEF EnFilas
            <7>5. m \in Numeros(fs) /\ fs[m] = e
              BY <6>1, <7>1, <7>2, <7>3, <7>4 DEF EnFilas, Numeros
            <7>6. QED
              BY <7>1, <7>4, <7>5, ElAsiento
          <6>4. ~Continuada(m)
            BY <2>1, <2>4, <3>2, <6>1, <6>2, <6>3 DEF Encima
          <6>5. m + 1 \notin 1..Len(es)
            BY <3>5, <6>4 DEF Continuada, Numeros, EnFilas
          <6>6. m = Len(es)
            BY <3>5, <6>1, <6>5
          <6>7. \A j \in Clerks : pantalla[j] # Nada /\ pantalla[j].libro = "estimaciones" =>
                  pantalla[j].asiento.numero # m + 1
            BY <6>4 DEF Continuada
          <6>8. QED
            BY <3>5, <5>1, <6>6, <6>7
        <5>4. QED
          BY <5>2, <5>3
      <4>2. /\ fs \in Seq(Estimacion) /\ EnOrden(fs)
            /\ \A d \in Estimacion : Sigue(d, es) /\ d.numero <= m => Sigue(d, fs)
        BY <1>3, <2>2, <3>4, <4>1, Guardada
      <4> HIDE DEF fs, m
      <4>3. ASSUME NEW j \in Clerks, pantalla'[j] # Nada, pantalla'[j].libro = "estimaciones"
            PROVE  Sigue(pantalla'[j].asiento, fs)
        <5>1. pantalla'[j] = pantalla[j] /\ pantalla[j] # Nada
          BY <1>4, <4>3
        <5>2. pantalla[j].libro = "estimaciones" /\ pantalla[j].asiento \in Estimacion
          BY <4>3, <5>1, UnBorrador, DeQueEs DEF ObraTypeOK
        <5>3. QED
          BY <2>2, <4>1, <4>2, <5>1, <5>2
      <4>4. QED
        BY <3>1, <3>2, <4>2, <4>3 DEF fs
    <3>8. QED
      BY <3>6, <3>7
  <2>5. QED
    BY <2>3, <2>4
<1>8. QED
  BY <1>5, <1>6, <1>7

(* The settlement. *)
LEMMA Liquidado ==
  ASSUME ObraTypeOK
  PROVE  Precargado \in [monto : Nat, otorgado : Nat, ejecutado : Nat, amortizado : Nat]
<1> DEFINE es == libro["estimaciones"]
           vs == libro["convenios"]
           base == IF es # <<>> /\ Last(es).monto > 0 THEN Last(es).monto ELSE MontoContrato
           monto == base + MontoConvenido(vs)
<1>1. es \in Seq(Estimacion) /\ vs \in Seq(Convenio)
  BY Lista, DeQueEs DEF Libros
<1>2. Len(es) \in Nat /\ Len(es) \in 0..Len(es)
  BY <1>1, LenProperties
<1>3. base \in Nat
  <2>1. ASSUME es # <<>> PROVE Last(es).monto \in Nat
    <3>1. Len(es) # 0
      BY <1>1, <2>1, EmptySeq
    <3>2. Last(es) \in Estimacion
      BY <1>1, <1>2, <3>1, ElementOfSeq DEF Last
    <3>3. QED
      BY <3>2 DEF Estimacion
  <2>2. QED
    BY <2>1, Contrato
<1>4. monto \in Nat
  <2> HIDE DEF base
  <2>1. QED
    BY <1>1, <1>3, Convenido
<1> HIDE DEF monto
<1>5. Anticipo(monto) \in Nat
  <2>1. AnticipoPct \in Nat
    BY ObraAssumption
  <2>2. QED
    BY <1>4, <2>1, PorNat DEF Anticipo
<1>6. Hecho(es, Len(es)) \in Nat /\ Amortizado(es, Len(es)) \in Nat
  BY <1>1, <1>2, Sumas
<1>7. Precargado = [monto |-> monto, otorgado |-> IF es = <<>> THEN 0 ELSE Anticipo(monto),
                    ejecutado |-> Hecho(es, Len(es)), amortizado |-> Amortizado(es, Len(es))]
  BY DEF Precargado, monto
<1> HIDE DEF es
<1>8. QED
  BY <1>4, <1>5, <1>6, <1>7

LEMMA ObraStart == ObraInit => ObraInv
<1> SUFFICES ASSUME ObraInit PROVE ObraInv
  OBVIOUS
<1>1. /\ libro = [l \in Libros |-> <<>>] /\ \A l \in Libros : libro[l] = <<>>
      /\ \A k \in Clerks : pantalla[k] = Nada /\ peticion[k] = Nada
  BY DEF ObraInit
<1>2. ObraTypeOK
  <2>1. libro = [l \in Libros |-> libro[l]] /\ \A l \in Libros : libro[l] \in Seq(De(l))
    BY <1>1
  <2>2. QED
    BY <2>1 DEF ObraInit, ObraTypeOK
<1>3. Pedidas
  BY <1>1 DEF Pedidas
<1>4. EnCadena
  <2>1. libro["estimaciones"] = <<>> /\ DOMAIN <<>> = {}
    BY <1>1 DEF Libros
  <2>2. QED
    BY <1>1, <2>1 DEF EnCadena
<1>5. QED
  BY <1>2, <1>3, <1>4 DEF ObraInv

LEMMA Quieto ==
  ASSUME ObraInv, libro' = libro, pantalla' = pantalla, peticion' = peticion, encimada' = encimada,
         ObraTypeOK'
  PROVE  ObraInv'
<1>1. Pedidas'
  BY DEF ObraInv, Pedidas
<1>2. EnCadena'
  BY DEF ObraInv, EnCadena
<1>3. QED
  BY <1>1, <1>2 DEF ObraInv

(* What a clerk is shown. *)
LEMMA AlVer ==
  ASSUME ObraInv, NEW k \in Clerks,
         CrearPrimera(k) \/ CapturarAMano(k) \/ CrearSiguiente(k) \/ AbrirEstimacion(k)
           \/ BorradorDeConvenio(k) \/ ConceptoNuevo(k) \/ PrepararAjuste(k)
  PROVE  ObraInv'
<1> DEFINE es == libro["estimaciones"]
           vs == libro["convenios"]
<1>1. ObraTypeOK
  BY DEF ObraInv
<1>2. /\ es \in Seq(Estimacion) /\ vs \in Seq(Convenio)
      /\ "estimaciones" \in Libros /\ "convenios" \in Libros /\ "ajustes" \in Libros
  BY <1>1, Lista, DeQueEs DEF Libros
<1>3. ~encimada => EnOrden(es)
  BY DEF ObraInv, EnCadena, EnOrden, EnFilas
<1>4. Len(es) \in Nat /\ Len(vs) \in Nat /\ Len(libro["ajustes"]) \in Nat /\ DOMAIN es = 1..Len(es)
  BY <1>1, <1>2, Lista, LenProperties
<1>5. ASSUME NEW n \in Nat, es = <<>>, Mostrar(k, "estimaciones", Primero(n)) PROVE ObraInv'
  <2>1. /\ Primero(n) \in Estimacion /\ Primero(n).numero = 1 /\ Primero(n).amortizado_previo = 0
        /\ \A c \in DOMAIN Primero(n).renglones : Primero(n).renglones[c].previo = 0
    BY PrimeroTipo
  <2>2. Sigue(Primero(n), es)
    <3>1. 1 \in 1..(Len(es) + 1) /\ 1..(1 - 1) = {}
      BY <1>4
    <3>2. /\ \A c : Medido(es, c, 1 - 1) = 0
          /\ Amortizado(es, 1 - 1) = 0
      BY <1>2, Sumas
    <3>3. QED
      BY <2>1, <3>1, <3>2 DEF Sigue
  <2>3. QED
    BY <1>2, <1>5, <2>1, <2>2, Mostrado, DeQueEs
<1>6. CASE CrearPrimera(k)
  BY <1>5, <1>6, Contrato DEF CrearPrimera
<1>7. CASE CapturarAMano(k)
  BY <1>5, <1>7, Contrato DEF CapturarAMano
<1>8. CASE CrearSiguiente(k)
  <2> DEFINE d == Convenida(Encadenada(Last(es)), vs)
  <2>1. es # <<>> /\ Mostrar(k, "estimaciones", d)
    BY <1>8 DEF CrearSiguiente
  <2>2. ~encimada => Sigue(d, es)
    BY <1>2, <1>3, <2>1, LaSiguiente
  <2>3. d \in Estimacion
    <3>1. Len(es) # 0
      BY <1>2, <2>1, EmptySeq
    <3>2. Last(es) \in Estimacion
      BY <1>2, <1>4, <3>1, ElementOfSeq DEF Last
    <3>3. QED
      BY <1>2, <3>2, EncadenadaTipo, ConvenidaTipo
  <2> HIDE DEF d
  <2>4. QED
    BY <1>2, <2>1, <2>2, <2>3, Mostrado, DeQueEs
<1>9. \A n \in Numeros(es) : Asiento(es, n) \in Estimacion
  <2>1. SUFFICES ASSUME NEW n \in Numeros(es) PROVE Asiento(es, n) \in Estimacion
    OBVIOUS
  <2>2. \E i \in DOMAIN es : es[i].numero = n
    BY <2>1 DEF Numeros
  <2>3. (CHOOSE i \in DOMAIN es : es[i].numero = n) \in DOMAIN es
    BY <2>2
  <2>4. QED
    BY <1>2, <1>4, <2>3, ElementOfSeq DEF Asiento
<1>10. CASE AbrirEstimacion(k)
  <2>1. PICK n \in Numeros(es) : Mostrar(k, "estimaciones", Asiento(es, n))
    BY <1>10 DEF AbrirEstimacion
  <2>2. ASSUME ~encimada PROVE Sigue(Asiento(es, n), es)
    <3>1. EnOrden(es) /\ EnFilas(es)
      BY <1>3, <2>2 DEF EnOrden
    <3>2. n \in 1..Len(es) /\ Asiento(es, n) = es[n]
      BY <1>2, <2>1, <3>1, ElAsiento
    <3>3. QED
      BY <1>4, <3>1, <3>2 DEF EnOrden
  <2>3. QED
    BY <1>2, <1>9, <2>1, <2>2, Mostrado, DeQueEs
<1>11. MaxNumero(vs) + 1 \in Numero
  <2>1. \A v \in Convenio : v.numero \in Numero
    BY DEF Convenio
  <2>2. MaxNumero(vs) \in Nat
    BY <1>2, <2>1, ElMayor
  <2>3. QED
    BY <2>2 DEF Numero
<1>12. ASSUME NEW l \in Libros, l # "estimaciones", NEW a \in De(l), Mostrar(k, l, a) PROVE ObraInv'
  BY <1>12, Mostrado
<1>13. CASE BorradorDeConvenio(k)
  <2>1. PICK n \in Numeros(es) : Mostrar(k, "convenios", Borrador(Asiento(es, n), MaxNumero(vs) + 1))
    BY <1>13 DEF BorradorDeConvenio
  <2>2. Borrador(Asiento(es, n), MaxNumero(vs) + 1) \in Convenio
    BY <1>9, <1>11, <2>1, BorradorTipo
  <2>3. QED
    BY <1>2, <1>12, <2>1, <2>2, DeQueEs
<1>14. CASE ConceptoNuevo(k)
  <2>1. PICK c \in Claves \ EnCatalogo :
          Mostrar(k, "convenios", [numero |-> MaxNumero(vs) + 1,
                                   renglones |-> [x \in {c} |-> [cantidad |-> 1, anterior |-> 0]]])
    BY <1>14 DEF ConceptoNuevo
  <2> DEFINE f == [x \in {c} |-> [cantidad |-> 1, anterior |-> 0]]
  <2>2. f = [x \in DOMAIN f |-> f[x]] /\ DOMAIN f \subseteq Claves /\ \A x \in DOMAIN f : f[x] \in Cambio
    BY DEF Cambio
  <2> HIDE DEF f
  <2>3. f \in Por(Cambio)
    BY <2>2, SonPor
  <2>4. [numero |-> MaxNumero(vs) + 1, renglones |-> f] \in Convenio
    BY <1>11, <2>3 DEF Convenio
  <2>5. QED
    BY <1>2, <1>12, <2>1, <2>4, DeQueEs DEF f
<1>15. CASE PrepararAjuste(k)
  <2>1. Mostrar(k, "ajustes", [numero |-> Len(libro["ajustes"]) + 1])
    BY <1>15 DEF PrepararAjuste
  <2>2. [numero |-> Len(libro["ajustes"]) + 1] \in Ajuste
    BY <1>4 DEF Ajuste, Numero
  <2>3. QED
    BY <1>2, <1>12, <2>1, <2>2, DeQueEs
<1>16. QED
  BY <1>6, <1>7, <1>8, <1>10, <1>13, <1>14, <1>15

(* What a clerk asks for. *)
LEMMA AlPedir ==
  ASSUME ObraInv, NEW k \in Clerks,
         GuardarEstimacion(k) \/ GuardarOtro(k) \/ Borrar(k) \/ AsentarNota(k)
  PROVE  ObraInv'
<1>1. ObraTypeOK
  BY DEF ObraInv
<1>2. ASSUME NEW l \in Libros, l # "estimaciones", NEW s \in Seq(De(l)), LeerObra(k, l, s) PROVE ObraInv'
  BY <1>2, Leido
<1>3. pantalla[k] # Nada => pantalla[k].libro \in Libros /\ pantalla[k].asiento \in De(pantalla[k].libro)
  BY <1>1, UnBorrador DEF ObraTypeOK
<1>4. CASE GuardarEstimacion(k)
  <2>1. PICK e \in Medida(pantalla[k].asiento) :
          LeerObra(k, "estimaciones", Con(libro["estimaciones"], e))
    BY <1>4 DEF GuardarEstimacion
  <2>2. pantalla[k] # Nada /\ pantalla[k].libro = "estimaciones" /\ pantalla[k].asiento \in Estimacion
    BY <1>3, <1>4, DeQueEs DEF GuardarEstimacion
  <2>3. e \in Estimacion
    BY <2>1, <2>2, MedidaTipo
  <2>4. "estimaciones" \in Libros /\ libro["estimaciones"] \in Seq(Estimacion)
    BY <1>1, Lista, DeQueEs DEF Libros
  <2>5. \A x \in Estimacion : x.numero \in Numero
    BY DEF Estimacion
  <2>6. Con(libro["estimaciones"], e) \in Seq(Estimacion)
    BY <2>3, <2>4, <2>5, ConTipo
  <2>7. QED
    BY <2>1, <2>2, <2>4, <2>6, Leido, DeQueEs
<1>5. CASE GuardarOtro(k)
  <2> DEFINE l == pantalla[k].libro
  <2>1. /\ l \in Libros /\ l # "estimaciones" /\ pantalla[k].asiento \in De(l)
        /\ LeerObra(k, l, Con(libro[l], pantalla[k].asiento))
    BY <1>3, <1>5 DEF GuardarOtro
  <2>2. libro[l] \in Seq(De(l)) /\ \A x \in De(l) : x.numero \in Numero
    BY <1>1, <2>1, Lista, Entradas
  <2> HIDE DEF l
  <2>3. Con(libro[l], pantalla[k].asiento) \in Seq(De(l))
    BY <2>1, <2>2, ConTipo
  <2>4. QED
    BY <1>2, <2>1, <2>3
<1>6. CASE Borrar(k)
  <2>0. PICK l \in {"convenios", "ajustes"} : \E n \in Numeros(libro[l]) : LeerObra(k, l, Sin(libro[l], n))
    BY <1>6 DEF Borrar
  <2>1. PICK n \in Numeros(libro[l]) : LeerObra(k, l, Sin(libro[l], n))
    BY <2>0
  <2>2. l \in Libros /\ l # "estimaciones"
    BY DEF Libros
  <2>3. Sin(libro[l], n) \in Seq(De(l))
    BY <1>1, <2>2, Lista, SinUno
  <2>4. QED
    BY <1>2, <2>1, <2>2, <2>3
<1>7. CASE AsentarNota(k)
  <2>1. PICK numero \in 1..MaxNotas, tipo \in Tipos, referencia \in 0..MaxNotas :
          LeerObra(k, "bitacora", Append(libro["bitacora"],
            [numero |-> numero, tipo |-> tipo, referencia |-> referencia, autor |-> k]))
    BY <1>7 DEF AsentarNota, Tipos
  <2> DEFINE nota == [numero |-> numero, tipo |-> tipo, referencia |-> referencia, autor |-> k]
  <2>2. nota \in Nota
    BY ObraAssumption DEF Nota, Numero
  <2>3. "bitacora" \in Libros /\ libro["bitacora"] \in Seq(Nota) /\ "bitacora" # "estimaciones"
    BY <1>1, Lista, DeQueEs DEF Libros
  <2> HIDE DEF nota
  <2>4. Append(libro["bitacora"], nota) \in Seq(Nota)
    BY <2>2, <2>3, OneAppended
  <2>5. QED
    BY <1>2, <2>1, <2>3, <2>4, DeQueEs DEF nota
<1>8. QED
  BY <1>4, <1>5, <1>6, <1>7

LEMMA ObraStep == ObraInv /\ [ObraNext]_obraVars => ObraInv'
<1> SUFFICES ASSUME ObraInv, [ObraNext]_obraVars PROVE ObraInv'
  OBVIOUS
<1>1. ObraTypeOK
  BY DEF ObraInv
<1>2. CASE CargarCatalogo
  <2>1. ObraTypeOK'
    BY <1>1, <1>2 DEF CargarCatalogo, ObraTypeOK
  <2>2. QED
    BY <1>2, <2>1, Quieto DEF CargarCatalogo
<1>3. CASE GuardarFiniquito
  <2>1. ObraTypeOK'
    <3>1. Precargado \in [monto : Nat, otorgado : Nat, ejecutado : Nat, amortizado : Nat]
      BY <1>1, Liquidado
    <3> HIDE DEF Precargado
    <3>2. QED
      BY <1>1, <1>3, <3>1 DEF GuardarFiniquito, ObraTypeOK
  <2>2. QED
    BY <1>3, <2>1, Quieto DEF GuardarFiniquito
<1>4. ASSUME NEW k \in Clerks,
             CrearPrimera(k) \/ CapturarAMano(k) \/ CrearSiguiente(k) \/ AbrirEstimacion(k)
               \/ BorradorDeConvenio(k) \/ ConceptoNuevo(k) \/ PrepararAjuste(k)
      PROVE  ObraInv'
  BY <1>4, AlVer
<1>5. ASSUME NEW k \in Clerks, GuardarEstimacion(k) \/ GuardarOtro(k) \/ Borrar(k) \/ AsentarNota(k)
      PROVE  ObraInv'
  BY <1>5, AlPedir
<1>6. ASSUME NEW k \in Clerks, Guardar(k) PROVE ObraInv'
  BY <1>6, Escrito
<1>7. CASE UNCHANGED obraVars
  <2>1. ObraTypeOK'
    BY <1>1, <1>7 DEF obraVars, ObraTypeOK
  <2>2. QED
    BY <1>7, <2>1, Quieto DEF obraVars
<1>8. QED
  BY <1>2, <1>3, <1>4, <1>5, <1>6, <1>7 DEF ObraNext

LEMMA ObraInductive == ObraSpec => []ObraInv
<1>1. ObraInit => ObraInv
  BY ObraStart
<1>2. ObraInv /\ [ObraNext]_obraVars => ObraInv'
  BY ObraStep
<1>3. QED
  BY <1>1, <1>2, PTL DEF ObraSpec

-----------------------------------------------------------------------------
(* What follows. *)

(* Along a list in order, what is amortised is never more than the largest  *)
(* advance so far, and with one amount it is the share of what is executed, *)
(* up to the advance.                                                       *)
LEMMA Amortizando ==
  ASSUME NEW es \in Seq(Estimacion), EnOrden(es), NEW i \in 1..Len(es)
  PROVE  /\ \E j \in 1..i : Amortizado(es, i) <= Anticipo(es[j].monto)
         /\ (\A j \in 1..i : es[j].monto = es[i].monto) =>
              Amortizado(es, i) = Menor(Hecho(es, i) * AnticipoPct, Anticipo(es[i].monto))
<1> DEFINE N == Len(es)
           P == AnticipoPct
           Hasta(n) == \E j \in 1..n : Amortizado(es, n) <= Anticipo(es[j].monto)
           Misma(n) == (\A j \in 1..n : es[j].monto = es[n].monto) =>
                         Amortizado(es, n) = Menor(Hecho(es, n) * P, Anticipo(es[n].monto))
           Good == {n \in 0..N : n = 0 \/ (Hasta(n) /\ Misma(n))}
<1>1. N \in Nat /\ DOMAIN es = 1..N /\ P \in Nat
  BY ObraAssumption, LenProperties
<1>2. 0 \in Good
  BY <1>1
<1>3. ASSUME NEW n \in 1..N, n - 1 \in Good PROVE n \in Good
  <2> DEFINE e == es[n]
             A == Anticipo(e.monto)
             am == Amortizado(es, n - 1)
             he == Hecho(es, n - 1)
             im == Importe(e)
  <2>1. n - 1 \in 0..N /\ n \in 0..N /\ n \in 1..n /\ \A j \in 1..(n - 1) : j \in 1..n
    BY <1>1
  <2>2. e \in Estimacion /\ Sigue(e, es) /\ e.numero = n
    BY <1>1, ElementOfSeq DEF EnOrden, EnFilas
  <2>3. e.amortizado_previo = am
    BY <2>2 DEF Sigue
  <2>4. /\ im \in Nat /\ A \in Nat /\ PorAmortizar(e) = Mayor(A - am, 0) /\ im * P \in Nat
        /\ Amortizacion(e) = Menor(im * P, PorAmortizar(e))
    BY <2>2, <2>3, Dinero
  <2>5. am \in Nat /\ he \in Nat /\ Amortizado(es, n) = am + Amortizacion(e) /\ Hecho(es, n) = he + im
    BY <2>1, Sumas
  <2>6. (he + im) * P = he * P + im * P /\ he * P \in Nat
    <3> HIDE DEF he, im, P
    <3>1. QED
      BY <1>1, <2>4, <2>5, PorNat
  <2>7. Amortizado(es, n) = am + Menor(im * P, Mayor(A - am, 0))
    BY <2>4, <2>5
  <2> DEFINE x == im * P
             y == he * P
  <2>8. x \in Nat /\ y \in Nat /\ Hecho(es, n) * P = y + x
    BY <2>4, <2>5, <2>6
  <2>9. Hasta(n)
    <3> HIDE DEF e, am, A, x
    <3>1. CASE am <= A
      <4>1. am + Menor(x, Mayor(A - am, 0)) <= A
        BY <2>4, <2>5, <2>8, <3>1 DEF Menor, Mayor
      <4>2. QED
        BY <2>1, <2>7, <4>1 DEF A, e, x
    <3>2. CASE A < am
      <4>1. am + Menor(x, Mayor(A - am, 0)) = am
        BY <2>4, <2>5, <2>8, <3>2 DEF Menor, Mayor
      <4>2. n - 1 # 0
        <5>1. Amortizado(es, 0) = 0
          BY Sumas
        <5>2. QED
          BY <2>4, <2>5, <3>2, <5>1 DEF am
      <4>3. PICK j \in 1..(n - 1) : Amortizado(es, n - 1) <= Anticipo(es[j].monto)
        BY <1>3, <4>2
      <4>4. QED
        BY <2>1, <2>7, <4>1, <4>3 DEF am, x
    <3>3. QED
      BY <2>4, <2>5, <3>1, <3>2
  <2>10. ASSUME \A j \in 1..n : es[j].monto = e.monto
         PROVE  Amortizado(es, n) = Menor(Hecho(es, n) * P, A)
    <3>1. am = Menor(y, A)
      <4>1. CASE n - 1 = 0
        <5>1. am = 0 /\ he = 0
          BY <4>1, Sumas
        <5>2. y = 0
          BY <1>1, <5>1
        <5>3. QED
          BY <2>4, <5>1, <5>2 DEF Menor
      <4>2. CASE n - 1 # 0
        <5>1. n - 1 \in 1..n /\ n - 1 \in 1..(n - 1)
          BY <4>2
        <5>2. es[n - 1].monto = e.monto /\ \A j \in 1..(n - 1) : es[j].monto = es[n - 1].monto
          BY <2>1, <2>10, <5>1
        <5>3. Misma(n - 1)
          BY <1>3, <4>2
        <5>4. QED
          BY <5>2, <5>3
      <4>3. QED
        BY <4>1, <4>2
    <3>2. Menor(y, A) + Menor(x, Mayor(A - Menor(y, A), 0)) = Menor(y + x, A)
      <4> HIDE DEF x, y, A
      <4>1. QED
        BY <2>4, <2>8 DEF Menor, Mayor
    <3>3. QED
      BY <2>7, <2>8, <3>1, <3>2
  <2>11. QED
    BY <2>1, <2>9, <2>10
<1>4. 0..N \subseteq Good
  <2> HIDE DEF Good
  <2>1. QED
    BY <1>1, <1>2, <1>3, UpTo
<1>5. i \in 0..N /\ i # 0
  BY <1>1
<1>6. QED
  BY <1>4, <1>5

LEMMA ObraSafe ==
  ASSUME ObraInv
  PROVE  MeasuredOnce /\ AdvanceWithinGranted
<1> DEFINE es == libro["estimaciones"]
<1>1. es \in Seq(Estimacion) /\ DOMAIN es = 1..Len(es)
  BY Lista, DeQueEs, LenProperties DEF Libros, ObraInv
<1>2. ~encimada => EnOrden(es)
  BY DEF ObraInv, EnCadena, EnOrden, EnFilas
<1>3. MeasuredOnce
  BY <1>2 DEF MeasuredOnce, EnOrden, EnFilas, Sigue
<1>4. AdvanceWithinGranted
  BY <1>1, <1>2, Amortizando DEF AdvanceWithinGranted
<1>5. QED
  BY <1>3, <1>4

(* Obra.tla, types: the books, the screens and the requests hold entries of *)
(* the contract (routes/obra.py).                                           *)
THEOREM ObraTypes == ObraSpec => []ObraTypeOK
<1>1. ObraInv => ObraTypeOK
  BY DEF ObraInv
<1>2. QED
  BY <1>1, ObraInductive, PTL

(* Every estimación begins where the ones before it ended, for every        *)
(* concept, whatever convenios came between (estimaciones.py).              *)
THEOREM NothingIsMeasuredTwice == ObraSpec => []MeasuredOnce
<1>1. ObraInv => MeasuredOnce
  BY ObraSafe
<1>2. QED
  BY <1>1, ObraInductive, PTL

(* No more is amortised than was advanced (estimaciones.py).                *)
THEOREM NoMoreThanAdvanced == ObraSpec => []AdvanceWithinGranted
<1>1. ObraInv => AdvanceWithinGranted
  BY ObraSafe
<1>2. QED
  BY <1>1, ObraInductive, PTL

-----------------------------------------------------------------------------
(***************************************************************************)
(* Programa, for every phase, every number of activities, every duration   *)
(* and every overlap.                                                      *)
(***************************************************************************)

-----------------------------------------------------------------------------
(* Numbers. *)

(* A set of numbers that has a bound has a greatest one.                   *)
LEMMA Greatest ==
  ASSUME NEW T \in SUBSET Nat, T # {}, NEW B \in Nat, \A k \in T : k <= B
  PROVE  Max(T) \in T /\ \A k \in T : k <= Max(T)
<1> DEFINE D == {B - k : k \in T}
<1>1. D \in SUBSET Nat /\ D # {}
  <2>1. \A k \in T : k \in Nat /\ k <= B /\ B - k \in Nat
    OBVIOUS
  <2>2. QED
    BY <2>1
<1>2. PICK d \in D : \A k \in D : d <= k
  <2> HIDE DEF D
  <2>1. QED
    BY <1>1, Least
<1>3. PICK m \in T : d = B - m
  BY <1>2
<1>4. \A k \in T : m >= k
  <2>1. SUFFICES ASSUME NEW k \in T PROVE m >= k
    OBVIOUS
  <2>2. d <= B - k
    BY <1>2
  <2>3. m \in Nat /\ k \in Nat
    OBVIOUS
  <2>4. QED
    BY <1>3, <2>2, <2>3
<1>5. Max(T) \in T /\ \A k \in T : Max(T) >= k
  BY <1>4 DEF Max
<1>6. QED
  BY <1>5

LEMMA Lowest ==
  ASSUME NEW T \in SUBSET Nat, T # {}
  PROVE  Min(T) \in T /\ \A k \in T : Min(T) <= k
<1>1. PICK m \in T : \A k \in T : m <= k
  BY Least
<1>2. QED
  BY <1>1 DEF Min

(* Some numbers in a row have a bound.                                     *)
LEMMA Bounded ==
  ASSUME NEW N \in Nat, NEW f, \A i \in 1..N : f[i] \in Nat
  PROVE  \E B \in Nat : \A i \in 1..N : f[i] <= B
<1> DEFINE Good == {n \in 0..N : \E B \in Nat : \A i \in 1..n : f[i] <= B}
<1>1. 0 \in Good
  OBVIOUS
<1>2. ASSUME NEW n \in 1..N, n - 1 \in Good
      PROVE  n \in Good
  <2>1. PICK B \in Nat : \A i \in 1..(n - 1) : f[i] <= B
    BY <1>2
  <2>2. \A i \in 1..n : f[i] <= B + f[n]
    <3>1. f[n] \in Nat /\ \A i \in 1..n : i \in 1..(n - 1) \/ i = n
      OBVIOUS
    <3>2. QED
      BY <2>1, <3>1
  <2>3. B + f[n] \in Nat
    OBVIOUS
  <2>4. QED
    BY <2>2, <2>3
<1>3. 0..N \subseteq Good
  <2> HIDE DEF Good
  <2>1. QED
    BY <1>1, <1>2, UpTo
<1>4. N \in 0..N
  OBVIOUS
<1>5. N \in Good
  BY <1>3, <1>4
<1>6. QED
  BY <1>5

LEMMA Rounded ==
  ASSUME NEW n \in Nat, NEW d \in Nat \ {0}
  PROVE  /\ Redondeo(n, d) \in Nat
         /\ 2 * n - d <= 2 * (d * Redondeo(n, d)) /\ 2 * (d * Redondeo(n, d)) <= 2 * n + d
<1> DEFINE q == n \div d
           m == n % d
<1>1. q \in Nat /\ m \in 0..(d - 1) /\ n = d * q + m
  OBVIOUS
<1>2. d * (q + 1) = d * q + d
  BY <1>1
<1>3. Redondeo(n, d) \in {q, q + 1}
  BY DEF Redondeo
<1>4. Redondeo(n, d) = q => 2 * m <= d
  BY <1>1 DEF Redondeo
<1>5. Redondeo(n, d) # q => 2 * m >= d
  BY <1>1 DEF Redondeo
<1> DEFINE p == d * q
<1>6. p \in Nat
  BY <1>1
<1> HIDE DEF q, m, p
<1>7. CASE Redondeo(n, d) = q
  <2>1. d * Redondeo(n, d) = p
    BY <1>7 DEF p
  <2>2. n = p + m
    BY <1>1 DEF p
  <2>3. QED
    BY <1>1, <1>4, <1>6, <1>7, <2>1, <2>2
<1>8. CASE Redondeo(n, d) = q + 1
  <2>1. d * Redondeo(n, d) = p + d
    BY <1>2, <1>8 DEF p
  <2>2. n = p + m
    BY <1>1 DEF p
  <2>3. QED
    BY <1>1, <1>5, <1>6, <1>8, <2>1, <2>2
<1>9. QED
  BY <1>3, <1>7, <1>8

(* A longer scale moves two days apart by no less than they were.          *)
LEMMA Stretched ==
  ASSUME NEW a \in Nat, NEW b \in Nat, a <= b, NEW L \in Nat \ {0}, NEW M \in Nat, L < M
  PROVE  Redondeo(b * M, L) - Redondeo(a * M, L) >= b - a
<1> DEFINE x == Redondeo(a * M, L)
           y == Redondeo(b * M, L)
<1>1. CASE a = b
  <2>1. a * M \in Nat
    OBVIOUS
  <2>2. x \in Nat
    BY <2>1, Rounded
  <2>3. QED
    BY <1>1, <2>2
<1>2. CASE a < b
  <2> DEFINE k == b - a
  <2>1. k \in Nat \ {0} /\ b = a + k
    BY <1>2
  <2>2. a * M \in Nat /\ b * M \in Nat
    OBVIOUS
  <2>3. x \in Nat /\ 2 * (L * x) <= 2 * (a * M) + L
    BY <2>2, Rounded
  <2>4. y \in Nat /\ 2 * (L * y) >= 2 * (b * M) - L
    BY <2>2, Rounded
  <2> HIDE DEF x, y, k
  <2>5. SUFFICES ASSUME y <= x + k - 1 PROVE FALSE
    BY <2>1, <2>3, <2>4 DEF x, y
  <2>6. L * y <= L * (x + k - 1)
    BY <2>1, <2>3, <2>4, <2>5
  <2>7. L * (x + k - 1) = L * x + L * k - L
    BY <2>1, <2>3
  <2>8. b * M = a * M + k * M
    BY <2>1
  <2>9. k * M >= k * L + k
    <3>1. PICK e \in Nat \ {0} : M = L + e
      <4>1. M - L \in Nat \ {0} /\ M = L + (M - L)
        OBVIOUS
      <4>2. QED
        BY <4>1
    <3>2. k * M = k * L + k * e
      BY <2>1, <3>1
    <3>3. k * e >= k
      BY <2>1, <3>1
    <3>4. k * L \in Nat /\ k * e \in Nat /\ k * M \in Nat
      BY <2>1, <3>1
    <3>5. QED
      BY <2>1, <3>2, <3>3, <3>4
  <2>10. k * L = L * k
    BY <2>1
  <2> DEFINE aM == a * M
             bM == b * M
             Lx == L * x
             Ly == L * y
             Lk == L * k
             kM == k * M
             S == L * (x + k - 1)
  <2>11. /\ 2 * Lx <= 2 * aM + L /\ 2 * Ly >= 2 * bM - L /\ Ly <= S
         /\ S = Lx + Lk - L /\ bM = aM + kM /\ kM >= Lk + k
    BY <2>3, <2>4, <2>6, <2>7, <2>8, <2>9, <2>10
  <2>12. aM \in Nat /\ bM \in Nat /\ Lx \in Nat /\ Ly \in Nat /\ Lk \in Nat /\ kM \in Nat /\ S \in Int
    BY <2>1, <2>3, <2>4
  <2> HIDE DEF aM, bM, Lx, Ly, Lk, kM, S
  <2>13. QED
    BY <2>1, <2>11, <2>12
<1>3. QED
  BY <1>1, <1>2

(* A ceiling of a share of some days is no more than the days.             *)
LEMMA Ceiling ==
  ASSUME NEW n \in Nat, NEW p \in 0..100
  PROVE  /\ Techo(n * (100 - p), 100) \in Nat
         /\ Techo(n * (100 - p), 100) <= n
<1> DEFINE x == n * (100 - p)
<1>1. x \in Nat /\ x <= n * 100
  OBVIOUS
<1> HIDE DEF x
<1>2. (x + 100 - 1) \div 100 \in Nat /\ (x + 100 - 1) \div 100 <= n
  BY <1>1
<1>3. QED
  BY <1>2 DEF Techo, x

LEMMA MaxOfTwo ==
  ASSUME NEW x \in Int, NEW y \in Int
  PROVE  Max({x, y}) = IF x >= y THEN x ELSE y
<1> DEFINE m == IF x >= y THEN x ELSE y
<1>1. m \in {x, y} /\ \A k \in {x, y} : m >= k
  OBVIOUS
<1>2. \A n \in {x, y} : (\A k \in {x, y} : n >= k) => n = m
  OBVIOUS
<1> HIDE DEF m
<1>3. Max({x, y}) = m
  BY <1>1, <1>2 DEF Max
<1>4. QED
  BY <1>3 DEF m

-----------------------------------------------------------------------------
(* The inductive invariant: the types; the relations of the activities, the *)
(* excepted ones included; the phases in order; what is remembered of the  *)
(* phase in progress is of that phase; and the floats are those of the     *)
(* activities.                                                             *)

Relacion == [de : Nat, tipo : {"SS", "FS"}, retraso : Nat]
Actividad == [fase : 1..Fases, dura : Nat \ {0}, inicio : Nat, fin : Nat, ligas : SUBSET Relacion]

ProgramaTipos ==
  /\ actividades \in Seq(Actividad)
  /\ fase \in [numero : 1..(Fases + 1), inicio : Nat, anterior : Nat]
  /\ colocando \in [ancla : Nat, paso : SUBSET Nat, cola : [Cuadrillas -> Nat], fin : Nat]

DeLaFase(xs, f) == {i \in DOMAIN xs : xs[i].fase = f}

Cumple(xs, i, l) ==
  /\ l.de \in 1..(i - 1)
  /\ \/ l.tipo = "FS" /\ l.retraso = 0 /\ xs[i].inicio >= xs[l.de].fin
     \/ l.tipo = "SS" /\ xs[i].inicio >= xs[l.de].inicio + l.retraso
     \/ l.tipo = "SS" /\ l.retraso = 0 /\ xs[l.de].fase # xs[i].fase

Red(xs) ==
  \A i \in DOMAIN xs :
    xs[i].fin = xs[i].inicio + xs[i].dura /\ \A l \in xs[i].ligas : Cumple(xs, i, l)

FasesEnOrden(xs, f) ==
  /\ \A i, j \in DOMAIN xs : i < j => xs[i].fase <= xs[j].fase
  /\ \A i \in DOMAIN xs : xs[i].fase <= f.numero

DeSuFase(xs, f, c) ==
  /\ c.fin >= f.inicio
  /\ \A i \in DeLaFase(xs, f.numero) : xs[i].inicio >= f.inicio /\ xs[i].fin <= c.fin
  /\ f.anterior # Ninguna => f.anterior \in DOMAIN xs /\ xs[f.anterior].fase < f.numero
  /\ c.ancla # Ninguna => c.ancla \in DeLaFase(xs, f.numero)
  /\ c.paso \subseteq DeLaFase(xs, f.numero)
  /\ \A k \in Cuadrillas : c.cola[k] # Ninguna => c.cola[k] \in DeLaFase(xs, f.numero)

ConHolguras == programa # SinPrograma => fase.numero > Fases /\ FloatsKeepNetwork

ProgramaInv ==
  /\ ProgramaTipos /\ Red(actividades) /\ FasesEnOrden(actividades, fase)
  /\ DeSuFase(actividades, fase, colocando) /\ ConHolguras

-----------------------------------------------------------------------------
(* Some activity is the last one to end.                                   *)
LEMMA Alguna ==
  ASSUME NEW xs \in Seq(Actividad), NEW is \in SUBSET DOMAIN xs, is # {}
  PROVE  Ultima(xs, is) \in is
<1>1. PICK N \in Nat : DOMAIN xs = 1..N
  BY LenProperties
<1>2. \A i \in 1..N : xs[i] \in Actividad /\ xs[i].fin \in Nat /\ xs[i].inicio \in Nat
  <2>1. \A i \in 1..N : xs[i] \in Actividad
    <3>1. \A i \in DOMAIN xs : xs[i] \in Actividad
      <4>1. xs \in [1..Len(xs) -> Actividad]
        BY LenProperties
      <4>2. QED
        BY <4>1
    <3>2. QED
      BY <1>1, <3>1
  <2>2. \A a \in Actividad : a.fin \in Nat /\ a.inicio \in Nat
    BY DEF Actividad
  <2>3. QED
    BY <2>1, <2>2
<1>3. PICK F \in Nat : \A i \in 1..N : xs[i].fin <= F
  <2> DEFINE f == [i \in 1..N |-> xs[i].fin]
  <2>1. \A i \in 1..N : f[i] \in Nat
    BY <1>2
  <2>2. \E B \in Nat : \A i \in 1..N : f[i] <= B
    <3> HIDE DEF f
    <3>1. QED
      BY <1>1, <2>1, Bounded
  <2>3. QED
    BY <2>2
<1>4. PICK G \in Nat : \A i \in 1..N : xs[i].inicio <= G
  <2> DEFINE f == [i \in 1..N |-> xs[i].inicio]
  <2>1. \A i \in 1..N : f[i] \in Nat
    BY <1>2
  <2>2. \E B \in Nat : \A i \in 1..N : f[i] <= B
    <3> HIDE DEF f
    <3>1. QED
      BY <1>1, <2>1, Bounded
  <2>3. QED
    BY <2>2
<1> DEFINE fines == {xs[i].fin : i \in is}
<1>5. PICK f : f \in fines /\ \A k \in fines : k <= f
  <2>1. fines \in SUBSET Nat /\ fines # {} /\ \A k \in fines : k <= F
    BY <1>1, <1>2, <1>3
  <2> HIDE DEF fines
  <2>2. QED
    BY <2>1, Greatest
<1> DEFINE A == {i \in is : xs[i].fin = f}
           inicios == {xs[i].inicio : i \in A}
<1>6. PICK g : g \in inicios /\ \A k \in inicios : k <= g
  <2>1. inicios \in SUBSET Nat /\ inicios # {} /\ \A k \in inicios : k <= G
    BY <1>1, <1>2, <1>4, <1>5
  <2> HIDE DEF inicios
  <2>2. QED
    BY <2>1, Greatest
<1> DEFINE C == {i \in A : xs[i].inicio = g}
<1>7. PICK m \in C : \A k \in C : m <= k
  <2>1. C \in SUBSET Nat /\ C # {}
    <3>1. A \subseteq Nat
      <4>1. A \subseteq 1..N
        BY <1>1
      <4>2. 1..N \subseteq Nat
        BY <1>1
      <4>3. QED
        BY <4>1, <4>2
    <3>2. \E i \in A : xs[i].inicio = g
      BY <1>6
    <3>3. QED
      BY <3>1, <3>2
  <2> HIDE DEF C
  <2>2. QED
    BY <2>1, Least
<1>8. ASSUME NEW j \in is \ {m}
      PROVE  \/ xs[m].fin > xs[j].fin
             \/ xs[m].fin = xs[j].fin /\ xs[m].inicio > xs[j].inicio
             \/ xs[m].fin = xs[j].fin /\ xs[m].inicio = xs[j].inicio /\ m < j
  <2>1. m \in is /\ xs[m].fin = f /\ xs[m].inicio = g /\ m \in 1..N /\ j \in 1..N /\ m # j
    BY <1>1, <1>7
  <2>2. xs[j].fin <= f
    BY <1>5
  <2>3. xs[j].fin = f => xs[j].inicio <= g
    BY <1>6
  <2>4. xs[j].fin = f /\ xs[j].inicio = g => m <= j
    BY <1>7
  <2>5. /\ xs[j].fin \in Nat /\ xs[j].inicio \in Nat /\ m \in Nat /\ j \in Nat
        /\ xs[m].fin \in Nat /\ xs[m].inicio \in Nat
    <3>1. m \in 1..N /\ j \in 1..N
      BY <2>1
    <3>2. m \in Nat /\ j \in Nat
      BY <3>1
    <3>3. QED
      BY <1>2, <3>1, <3>2
  <2> DEFINE jf == xs[j].fin
             ji == xs[j].inicio
             mf == xs[m].fin
             mi == xs[m].inicio
  <2>6. /\ jf <= mf /\ (jf = mf => ji <= mi) /\ (jf = mf /\ ji = mi => m <= j) /\ m # j
        /\ jf \in Nat /\ ji \in Nat /\ mf \in Nat /\ mi \in Nat /\ m \in Nat /\ j \in Nat
    BY <2>1, <2>2, <2>3, <2>4, <2>5
  <2>7. mf > jf \/ (mf = jf /\ mi > ji) \/ (mf = jf /\ mi = ji /\ m < j)
    <3> HIDE DEF jf, ji, mf, mi, C, A, fines, inicios
    <3>1. QED
      BY <2>6
  <2>8. QED
    BY <2>7
<1>9. m \in is
  BY <1>7
<1>10. QED
  BY <1>8, <1>9 DEF Ultima

-----------------------------------------------------------------------------
(* Placing an activity. *)

LEMMA EnLista ==
  ASSUME NEW xs \in Seq(Actividad)
  PROVE  /\ Len(xs) \in Nat /\ DOMAIN xs = 1..Len(xs)
         /\ \A i \in DOMAIN xs :
              /\ i \in Nat \ {0} /\ xs[i] \in Actividad
              /\ xs[i].inicio \in Nat /\ xs[i].fin \in Nat /\ xs[i].dura \in Nat \ {0}
              /\ xs[i].fase \in 1..Fases /\ xs[i].ligas \in SUBSET Relacion
<1>1. PICK N \in Nat : Len(xs) = N /\ xs \in [1..N -> Actividad]
  BY LenProperties
<1>2. \A i \in 1..N : i \in Nat \ {0} /\ xs[i] \in Actividad
  <2>1. \A i \in 1..N : i \in Nat \ {0}
    OBVIOUS
  <2>2. \A i \in 1..N : xs[i] \in Actividad
    BY <1>1
  <2>3. QED
    BY <2>1, <2>2
<1>3. \A a \in Actividad :
        /\ a.inicio \in Nat /\ a.fin \in Nat /\ a.dura \in Nat \ {0}
        /\ a.fase \in 1..Fases /\ a.ligas \in SUBSET Relacion
  BY DEF Actividad
<1>4. DOMAIN xs = 1..N
  BY <1>1
<1>5. QED
  BY <1>1, <1>2, <1>3, <1>4

LEMMA Traslapada ==
  ASSUME ProgramaTipos, NEW j \in Lugares
  PROVE  Traslape(j) \in 1..actividades[j].dura
<1> DEFINE d == actividades[j].dura
           t == Techo(d * (100 - IntraOverlapPct), 100)
<1>1. d \in Nat \ {0}
  BY EnLista DEF ProgramaTipos, Lugares
<1>2. IntraOverlapPct \in 0..100
  BY ProgramaAssumption
<1>3. t \in Nat /\ t <= d
  <2> HIDE DEF d
  <2>1. QED
    BY <1>1, <1>2, Ceiling
<1>4. Traslape(j) = IF 1 >= t THEN 1 ELSE t
  <2>1. Traslape(j) = Max({1, t})
    BY DEF Traslape
  <2> HIDE DEF t
  <2>2. QED
    BY <1>3, <2>1, MaxOfTwo
<1> HIDE DEF d, t
<1>5. Traslape(j) \in 1..d
  BY <1>1, <1>3, <1>4
<1>6. QED
  BY <1>5 DEF d

(* An activity put after the others leaves what their relations say of them. *)
LEMMA UnaMas ==
  ASSUME NEW N \in Nat
  PROVE  1..(N + 1) = (1..N) \cup {N + 1} /\ N + 1 \notin 1..N /\ \A i \in 1..N : i < N + 1
OBVIOUS

LEMMA Anexada ==
  ASSUME NEW S, NEW s \in Seq(S), NEW a \in S, NEW t, t = Append(s, a)
  PROVE  t \in Seq(S) /\ Len(t) = Len(s) + 1 /\ t[Len(s) + 1] = a /\ \A i \in 1..Len(s) : t[i] = s[i]
BY AppendProperties

\* `bs` is `xs` with `a` after the others, in the place n.
Otra(bs, xs, a, n) ==
  /\ n = Len(xs) + 1 /\ bs = Append(xs, a)
  /\ a.fin = a.inicio + a.dura /\ \A l \in a.ligas : Cumple(bs, n, l)

LEMMA ConOtra ==
  ASSUME NEW xs \in Seq(Actividad), Red(xs), NEW a \in Actividad, NEW n, NEW bs, Otra(bs, xs, a, n)
  PROVE  /\ bs \in Seq(Actividad) /\ Red(bs)
         /\ DOMAIN bs = DOMAIN xs \cup {n} /\ bs[n] = a
         /\ n \notin DOMAIN xs /\ \A i \in DOMAIN xs : bs[i] = xs[i]
<1>1. PICK N \in Nat : Len(xs) = N /\ DOMAIN xs = 1..N
  BY EnLista
<1>2. n = N + 1
  BY <1>1 DEF Otra
<1>3. bs \in Seq(Actividad) /\ Len(bs) = N + 1 /\ bs[N + 1] = a /\ \A i \in 1..N : bs[i] = xs[i]
  <2>1. bs = Append(xs, a)
    BY DEF Otra
  <2>2. bs \in Seq(Actividad) /\ Len(bs) = Len(xs) + 1 /\ bs[Len(xs) + 1] = a
        /\ \A i \in 1..Len(xs) : bs[i] = xs[i]
    BY <2>1, Anexada
  <2>3. QED
    BY <1>1, <2>2
<1>4. DOMAIN bs = 1..n
  BY <1>2, <1>3, EnLista
<1>5. 1..n = (1..N) \cup {n} /\ n \notin 1..N /\ \A i \in 1..N : i < n
  <2>1. 1..(N + 1) = (1..N) \cup {N + 1} /\ N + 1 \notin 1..N /\ \A i \in 1..N : i < N + 1
    BY UnaMas
  <2>2. QED
    BY <1>2, <2>1
<1>6. Red(bs)
  <2>1. ASSUME NEW i \in 1..N
        PROVE  bs[i].fin = bs[i].inicio + bs[i].dura /\ \A l \in bs[i].ligas : Cumple(bs, i, l)
    <3>1. bs[i] = xs[i]
      BY <1>3
    <3>2. xs[i].fin = xs[i].inicio + xs[i].dura /\ \A l \in xs[i].ligas : Cumple(xs, i, l)
      BY <1>1 DEF Red
    <3>3. \A d \in 1..(i - 1) : d \in 1..N
      OBVIOUS
    <3>4. ASSUME NEW l \in xs[i].ligas
          PROVE  Cumple(bs, i, l)
      <4>1. Cumple(xs, i, l) /\ l.de \in 1..(i - 1)
        BY <3>2 DEF Cumple
      <4>2. bs[l.de] = xs[l.de]
        BY <1>3, <3>3, <4>1
      <4>3. QED
        BY <3>1, <4>1, <4>2 DEF Cumple
    <3>5. QED
      BY <3>1, <3>2, <3>4
  <2>2. bs[n].fin = bs[n].inicio + bs[n].dura /\ \A l \in bs[n].ligas : Cumple(bs, n, l)
    BY <1>2, <1>3 DEF Otra
  <2>3. QED
    BY <1>4, <1>5, <2>1, <2>2 DEF Red
<1>7. QED
  BY <1>1, <1>2, <1>3, <1>4, <1>5, <1>6

LEMMA SeColoca ==
  ASSUME ProgramaInv, Colocar
  PROVE  ProgramaInv'
<1> DEFINE xs == actividades
           i == Len(actividades) + 1
<1>1. PICK dura \in Duraciones, cuadrilla \in Cuadrillas \cup {Propia},
           otroPaso \in BOOLEAN, cimbras \in SUBSET Lugares :
      LET ancla == IF otroPaso THEN Ultima(actividades, colocando.paso) ELSE colocando.ancla
          previa == IF cuadrilla = Propia THEN Ninguna ELSE colocando.cola[cuadrilla]
          deRed == {Liga(j, "SS", Traslape(j)) : j \in {ancla, previa} \ {Ninguna}}
          deFase == {Liga(j, "SS", Max({0, fase.inicio - actividades[j].inicio})) :
                       j \in IF deRed = {} THEN {fase.anterior} \ {Ninguna} ELSE {}}
          deCimbra == {Liga(j, "FS", 0) : j \in cimbras}
          inicio == Max({fase.inicio} \cup {actividades[j].fin : j \in cimbras}
                          \cup {actividades[l.de].inicio + l.retraso : l \in deRed})
      IN /\ fase.numero <= Fases /\ i <= MaxActividades
         /\ otroPaso => colocando.paso # {}
         /\ Cardinality(cimbras) <= MaxCimbras
         /\ actividades' = Append(actividades,
              [fase |-> fase.numero, dura |-> dura, inicio |-> inicio, fin |-> inicio + dura,
               ligas |-> Depuradas(deRed \cup deFase \cup deCimbra)])
         /\ colocando' =
              [ancla |-> ancla,
               paso |-> (IF otroPaso THEN {} ELSE colocando.paso) \cup {i},
               cola |-> [c \in Cuadrillas |-> IF c = cuadrilla THEN i ELSE colocando.cola[c]],
               fin |-> Max({colocando.fin, inicio + dura})]
         /\ UNCHANGED <<fase, programa>>
  BY Zenon DEF Colocar
<1> DEFINE ancla == IF otroPaso THEN Ultima(actividades, colocando.paso) ELSE colocando.ancla
           previa == IF cuadrilla = Propia THEN Ninguna ELSE colocando.cola[cuadrilla]
           deRed == {Liga(j, "SS", Traslape(j)) : j \in {ancla, previa} \ {Ninguna}}
           deFase == {Liga(j, "SS", Max({0, fase.inicio - actividades[j].inicio})) :
                        j \in IF deRed = {} THEN {fase.anterior} \ {Ninguna} ELSE {}}
           deCimbra == {Liga(j, "FS", 0) : j \in cimbras}
           fines == {actividades[j].fin : j \in cimbras}
           tras == {actividades[l.de].inicio + l.retraso : l \in deRed}
           inicio == Max({fase.inicio} \cup fines \cup tras)
           todas == deRed \cup deFase \cup deCimbra
           a == [fase |-> fase.numero, dura |-> dura, inicio |-> inicio, fin |-> inicio + dura,
                 ligas |-> Depuradas(todas)]
           c == [ancla |-> ancla,
                 paso |-> (IF otroPaso THEN {} ELSE colocando.paso) \cup {i},
                 cola |-> [k \in Cuadrillas |-> IF k = cuadrilla THEN i ELSE colocando.cola[k]],
                 fin |-> Max({colocando.fin, inicio + dura})]
<1>2. /\ fase.numero <= Fases /\ (otroPaso => colocando.paso # {})
      /\ actividades' = Append(actividades, a) /\ colocando' = c /\ fase' = fase /\ programa' = programa
  BY <1>1
<1>3. /\ xs \in Seq(Actividad) /\ Red(xs) /\ FasesEnOrden(xs, fase) /\ DeSuFase(xs, fase, colocando)
      /\ fase.numero \in 1..Fases /\ fase.inicio \in Nat /\ fase.anterior \in Nat
      /\ colocando.fin \in Nat /\ colocando.paso \in SUBSET Nat /\ colocando.ancla \in Nat
      /\ colocando.cola \in [Cuadrillas -> Nat]
  BY <1>2 DEF ProgramaInv, ProgramaTipos
<1>4. /\ Len(xs) \in Nat /\ DOMAIN xs = 1..Len(xs)
      /\ \A j \in DOMAIN xs :
           /\ j \in Nat \ {0} /\ xs[j].inicio \in Nat /\ xs[j].fin \in Nat /\ xs[j].dura \in Nat \ {0}
           /\ xs[j].fin = xs[j].inicio + xs[j].dura
  BY <1>3, EnLista DEF Red
<1>5. dura \in Nat \ {0}
  BY ProgramaAssumption
<1>6. ancla \in {Ninguna} \cup DeLaFase(xs, fase.numero) /\ previa \in {Ninguna} \cup DeLaFase(xs, fase.numero)
  <2>1. colocando.ancla \in {Ninguna} \cup DeLaFase(xs, fase.numero)
    BY <1>3 DEF DeSuFase
  <2>2. otroPaso => ancla \in DeLaFase(xs, fase.numero)
    <3>1. colocando.paso \in SUBSET DeLaFase(xs, fase.numero) /\ DeLaFase(xs, fase.numero) \subseteq DOMAIN xs
      BY <1>3 DEF DeSuFase, DeLaFase
    <3>2. otroPaso => Ultima(xs, colocando.paso) \in colocando.paso
      BY <1>2, <1>3, <3>1, Alguna
    <3>3. QED
      BY <3>1, <3>2
  <2>3. cuadrilla # Propia => colocando.cola[cuadrilla] \in {Ninguna} \cup DeLaFase(xs, fase.numero)
    BY <1>3 DEF DeSuFase
  <2>4. QED
    BY <2>1, <2>2, <2>3
<1>7. DeLaFase(xs, fase.numero) \subseteq DOMAIN xs
  BY DEF DeLaFase
<1>8. \A l \in deRed : /\ l \in Relacion /\ l.de \in DeLaFase(xs, fase.numero) /\ l.tipo = "SS"
                       /\ l.retraso \in 1..xs[l.de].dura
  <2> HIDE DEF ancla, previa
  <2>1. ASSUME NEW j \in {ancla, previa} \ {Ninguna}
        PROVE  LET l == Liga(j, "SS", Traslape(j)) IN
               /\ l \in Relacion /\ l.de \in DeLaFase(xs, fase.numero) /\ l.tipo = "SS"
               /\ l.retraso \in 1..xs[l.de].dura
    <3>1. j \in DeLaFase(xs, fase.numero) /\ j \in DOMAIN xs
      BY <1>6, <1>7
    <3>2. Traslape(j) \in 1..xs[j].dura
      BY <3>1, Traslapada DEF ProgramaInv, Lugares
    <3>3. Traslape(j) \in Nat
      BY <1>4, <3>1, <3>2
    <3>4. QED
      BY <1>4, <3>1, <3>2, <3>3 DEF Liga, Relacion
  <2>2. QED
    BY <2>1
<1>9. inicio \in Nat /\ inicio >= fase.inicio /\ (\A k \in fines : inicio >= k) /\ (\A k \in tras : inicio >= k)
  <2> DEFINE T == {fase.inicio} \cup fines \cup tras
  <2>1. PICK B \in Nat : \A j \in 1..Len(xs) : xs[j].fin <= B
    <3> DEFINE f == [j \in 1..Len(xs) |-> xs[j].fin]
    <3>1. \A j \in 1..Len(xs) : f[j] \in Nat
      BY <1>4
    <3>2. \E B \in Nat : \A j \in 1..Len(xs) : f[j] <= B
      <4> HIDE DEF f, xs
      <4>1. QED
        BY <1>4, <3>1, Bounded
    <3>3. QED
      BY <3>2
  <2>2. \A k \in fines : k \in Nat /\ k <= B
    BY <1>4, <2>1 DEF Lugares
  <2>3. \A k \in tras : k \in Nat /\ k <= B
    <3> HIDE DEF deRed
    <3>1. SUFFICES ASSUME NEW l \in deRed
                   PROVE  xs[l.de].inicio + l.retraso \in Nat /\ xs[l.de].inicio + l.retraso <= B
      OBVIOUS
    <3>2. l.retraso \in 1..xs[l.de].dura /\ l.de \in DOMAIN xs
      BY <1>7, <1>8
    <3>3. xs[l.de].fin <= B /\ xs[l.de].fin = xs[l.de].inicio + xs[l.de].dura
          /\ xs[l.de].inicio \in Nat /\ xs[l.de].dura \in Nat
      BY <1>4, <2>1, <3>2
    <3>4. QED
      BY <3>2, <3>3
  <2>4. T \in SUBSET Nat /\ T # {} /\ B + fase.inicio \in Nat /\ \A k \in T : k <= B + fase.inicio
    <3> HIDE DEF fines, tras
    <3>1. \A k \in T : k = fase.inicio \/ k \in fines \/ k \in tras
      OBVIOUS
    <3>2. \A k \in T : k \in Nat /\ k <= B + fase.inicio
      <4> HIDE DEF T
      <4>1. QED
        BY <1>3, <2>2, <2>3, <3>1
    <3>3. QED
      BY <1>3, <3>2
  <2>5. inicio = Max(T)
    OBVIOUS
  <2>6. fase.inicio \in T /\ fines \subseteq T /\ tras \subseteq T
    OBVIOUS
  <2> HIDE DEF T, inicio, fines, tras
  <2>7. Max(T) \in T /\ \A k \in T : k <= Max(T)
    BY <2>4, Greatest
  <2>8. inicio \in Nat /\ \A k \in T : k \in Nat /\ k <= inicio
    BY <2>4, <2>5, <2>7
  <2>9. QED
    BY <2>6, <2>8
<1>10. \A l \in todas : l \in Relacion
  <2>1. \A l \in deFase : l \in Relacion
    <3> HIDE DEF deRed
    <3>1. SUFFICES ASSUME NEW j \in {fase.anterior} \ {Ninguna}
                   PROVE  Liga(j, "SS", Max({0, fase.inicio - xs[j].inicio})) \in Relacion
      OBVIOUS
    <3>2. j \in DOMAIN xs /\ xs[j].inicio \in Nat /\ j \in Nat
      BY <1>3, <1>4 DEF DeSuFase
    <3>3. fase.inicio - xs[j].inicio \in Int
      BY <1>3, <3>2
    <3>4. Max({0, fase.inicio - xs[j].inicio}) \in Nat
      BY <3>3, MaxOfTwo
    <3>5. QED
      BY <3>2, <3>4 DEF Liga, Relacion
  <2>2. \A l \in deCimbra : l \in Relacion
    BY <1>4 DEF Liga, Relacion, Lugares
  <2> HIDE DEF deRed, deFase, deCimbra
  <2>3. QED
    BY <1>8, <2>1, <2>2
<1>11. a \in Actividad /\ a.fin = a.inicio + a.dura /\ a.fase = fase.numero
       /\ a.inicio = inicio /\ a.dura = dura /\ a.ligas \subseteq todas
  <2>1. Depuradas(todas) \subseteq todas
    BY DEF Depuradas
  <2>2. Depuradas(todas) \in SUBSET Relacion
    BY <1>10, <2>1
  <2>3. inicio + dura \in Nat
    BY <1>5, <1>9
  <2> HIDE DEF inicio, todas
  <2>4. QED
    BY <1>3, <1>5, <1>9, <2>1, <2>2, <2>3 DEF Actividad
<1> DEFINE bs == Append(xs, a)
<1> HIDE DEF a, inicio, c
<1>12. /\ bs[i] = a /\ (\A j \in DOMAIN xs : bs[j] = xs[j]) /\ \A j \in DOMAIN xs : j \in 1..(i - 1)
  BY <1>3, <1>4, <1>11, AppendProperties
<1>13. \A l \in todas : Cumple(bs, i, l)
  <2>1. ASSUME NEW l \in deRed PROVE Cumple(bs, i, l)
    <3> HIDE DEF bs, deRed
    <3>1. l.de \in DOMAIN xs /\ l.tipo = "SS"
      BY <1>7, <1>8
    <3>2. xs[l.de].inicio + l.retraso \in tras
      OBVIOUS
    <3>3. inicio >= xs[l.de].inicio + l.retraso
      BY <1>9, <3>2
    <3> HIDE DEF xs, i
    <3>4. QED
      BY <1>11, <1>12, <3>1, <3>3 DEF Cumple
  <2>2. ASSUME NEW l \in deFase PROVE Cumple(bs, i, l)
    <3>1. PICK j \in {fase.anterior} \ {Ninguna} : l = Liga(j, "SS", Max({0, fase.inicio - xs[j].inicio}))
      <4> HIDE DEF deRed
      <4>1. QED
        OBVIOUS
    <3> DEFINE x == fase.inicio - xs[j].inicio
    <3>2. j \in DOMAIN xs /\ xs[j].fase < fase.numero /\ xs[j].inicio \in Nat /\ xs[j].fase \in 1..Fases
      BY <1>3, <1>4, EnLista DEF DeSuFase
    <3>3. x \in Int
      BY <1>3, <3>2
    <3>4. Max({0, x}) = IF 0 >= x THEN 0 ELSE x
      BY <3>3, MaxOfTwo
    <3>5. l.de = j /\ l.tipo = "SS" /\ l.retraso = Max({0, x})
      BY <3>1 DEF Liga
    <3>6. l.retraso = 0 \/ inicio >= xs[j].inicio + l.retraso
      <4>1. CASE 0 >= x
        BY <3>4, <3>5, <4>1
      <4>2. CASE ~(0 >= x)
        <5>1. xs[j].inicio + x = fase.inicio
          BY <1>3, <3>2
        <5>2. QED
          BY <1>9, <3>4, <3>5, <4>2, <5>1
      <4>3. QED
        BY <4>1, <4>2
    <3>7. bs[j] = xs[j] /\ j \in 1..(i - 1) /\ bs[i].inicio = inicio /\ bs[i].fase = fase.numero
      BY <1>11, <1>12, <3>2
    <3>8. xs[j].fase # fase.numero
      BY <1>3, <3>2
    <3> HIDE DEF bs, xs, i, x
    <3>9. QED
      BY <3>5, <3>6, <3>7, <3>8 DEF Cumple
  <2>3. ASSUME NEW l \in deCimbra PROVE Cumple(bs, i, l)
    <3>1. PICK j \in cimbras : l = Liga(j, "FS", 0)
      OBVIOUS
    <3>2. xs[j].fin \in fines /\ j \in DOMAIN xs
      BY DEF Lugares
    <3>3. inicio >= xs[j].fin
      <4> HIDE DEF fines
      <4>1. QED
        BY <1>9, <3>2
    <3>4. l.de = j /\ l.tipo = "FS" /\ l.retraso = 0
      BY <3>1 DEF Liga
    <3> HIDE DEF bs, xs, i
    <3>5. QED
      BY <1>11, <1>12, <3>2, <3>3, <3>4 DEF Cumple
  <2> HIDE DEF deRed, deFase, deCimbra, bs
  <2>4. QED
    BY <2>1, <2>2, <2>3
<1>14. /\ bs \in Seq(Actividad) /\ Red(bs) /\ DOMAIN bs = DOMAIN xs \cup {i} /\ bs[i] = a
       /\ i \notin DOMAIN xs /\ \A j \in DOMAIN xs : bs[j] = xs[j]
  <2>1. \A l \in a.ligas : Cumple(bs, i, l)
    BY <1>11, <1>13
  <2> HIDE DEF todas
  <2>2. QED
    <3>1. Otra(bs, xs, a, i)
      BY <1>11, <2>1 DEF Otra
    <3>2. xs \in Seq(Actividad) /\ Red(xs) /\ a \in Actividad
      BY <1>3, <1>11
    <3> HIDE DEF i, bs, xs, a, deRed, deFase, deCimbra, fines, tras
    <3>3. bs \in Seq(Actividad)
      BY <3>1, <3>2, ConOtra
    <3>4. Red(bs)
      <4>1. xs \in Seq(Actividad)
        BY <3>2
      <4>2. Red(xs)
        BY <3>2
      <4>3. a \in Actividad
        BY <3>2
      <4>4. QED
        BY ONLY <3>1, <4>1, <4>2, <4>3, ConOtra
    <3>5. DOMAIN bs = DOMAIN xs \cup {i} /\ i \notin DOMAIN xs
      BY <3>1, <3>2, ConOtra
    <3>6. QED
      BY <1>12, <3>3, <3>4, <3>5
<1> HIDE DEF bs, todas, deRed, deFase, deCimbra, fines, tras
<1>15. FasesEnOrden(bs, fase)
  <2>1. bs[i].fase = fase.numero
    BY <1>11, <1>14
  <2>2. \A j \in DOMAIN xs : xs[j].fase <= fase.numero
    BY <1>3 DEF FasesEnOrden
  <2>3. \A j, k \in DOMAIN xs : j < k => xs[j].fase <= xs[k].fase
    BY <1>3 DEF FasesEnOrden
  <2>4. i \in Nat /\ \A j \in DOMAIN xs : j \in Nat /\ j < i /\ ~(i < j)
    BY <1>4
  <2>5. fase.numero \in Nat
    BY <1>3
  <2> HIDE DEF i, xs
  <2>6. QED
    <3>0. DOMAIN bs = DOMAIN xs \cup {i} /\ \A j \in DOMAIN xs : bs[j] = xs[j]
      BY <1>14
    <3>1. \A j \in DOMAIN bs : bs[j].fase <= fase.numero
      <4>1. ASSUME NEW j \in DOMAIN xs PROVE bs[j].fase <= fase.numero
        <5>1. bs[j] = xs[j] /\ xs[j].fase <= fase.numero
          BY <2>2, <3>0
        <5>2. QED
          BY <5>1
      <4>2. bs[i].fase <= fase.numero
        BY <2>1, <2>5
      <4>3. QED
        BY <3>0, <4>1, <4>2
    <3>2. \A j, k \in DOMAIN bs : j < k => bs[j].fase <= bs[k].fase
      <4>1. SUFFICES ASSUME NEW j \in DOMAIN bs, NEW k \in DOMAIN bs, j < k
                     PROVE  bs[j].fase <= bs[k].fase
        OBVIOUS
      <4>2. j # i
        <5>1. k = i \/ k \in DOMAIN xs
          BY <3>0
        <5>2. k = i => ~(i < k)
          BY <2>4
        <5>3. k \in DOMAIN xs => ~(i < k)
          BY <2>4
        <5>4. QED
          BY <4>1, <5>1, <5>2, <5>3
      <4>3. j \in DOMAIN xs /\ bs[j] = xs[j]
        BY <1>14, <4>2
      <4>4. CASE k = i
        BY <2>1, <2>2, <4>3, <4>4
      <4>5. CASE k # i
        BY <1>14, <2>3, <4>1, <4>3, <4>5
      <4>6. QED
        BY <4>4, <4>5
    <3>3. QED
      BY <3>1, <3>2 DEF FasesEnOrden
<1>16. DeLaFase(bs, fase.numero) = DeLaFase(xs, fase.numero) \cup {i}
  <2> HIDE DEF i, xs
  <2>1. QED
    BY <1>11, <1>14 DEF DeLaFase
<1>17. c \in [ancla : Nat, paso : SUBSET Nat, cola : [Cuadrillas -> Nat], fin : Nat]
       /\ c.fin >= colocando.fin /\ c.fin >= inicio + dura
  <2>1. inicio + dura \in Nat
    BY <1>5, <1>9
  <2>2. Max({colocando.fin, inicio + dura}) =
          IF colocando.fin >= inicio + dura THEN colocando.fin ELSE inicio + dura
    BY <1>3, <2>1, MaxOfTwo
  <2>3. ancla \in Nat
    BY <1>4, <1>6, <1>7 DEF Ninguna
  <2>4. i \in Nat
    BY <1>4
  <2> HIDE DEF ancla, i
  <2>5. QED
    BY <1>3, <2>1, <2>2, <2>3, <2>4 DEF c
<1>18. DeSuFase(bs, fase, c)
  <2>1. \A j \in DeLaFase(bs, fase.numero) : bs[j].inicio >= fase.inicio /\ bs[j].fin <= c.fin
    <3>1. ASSUME NEW j \in DeLaFase(xs, fase.numero)
          PROVE  bs[j].inicio >= fase.inicio /\ bs[j].fin <= c.fin
      <4>1. xs[j].inicio >= fase.inicio /\ xs[j].fin <= colocando.fin /\ j \in DOMAIN xs
        BY <1>3, <1>7 DEF DeSuFase
      <4>2. xs[j].fin \in Nat /\ bs[j] = xs[j] /\ c.fin \in Nat
        BY <1>4, <1>14, <1>17, <4>1
      <4>3. bs[j].inicio >= fase.inicio
        BY <4>1, <4>2
      <4> DEFINE x == xs[j].fin
                 y == c.fin
      <4>4. x \in Nat /\ y \in Nat /\ x <= colocando.fin /\ colocando.fin <= y /\ bs[j].fin = x
        BY <1>17, <4>1, <4>2
      <4> HIDE DEF x, y
      <4>5. x <= y
        BY <1>3, <4>4
      <4>6. QED
        BY <4>3, <4>4, <4>5 DEF y
    <3>2. bs[i].inicio >= fase.inicio /\ bs[i].fin <= c.fin
      <4>1. bs[i].inicio = inicio /\ bs[i].fin = inicio + dura /\ c.fin \in Nat
        BY <1>11, <1>14, <1>17
      <4>2. QED
        BY <1>3, <1>5, <1>9, <1>17, <4>1
    <3>3. QED
      BY <1>16, <3>1, <3>2
  <2>2. c.fin >= fase.inicio
    <3>1. colocando.fin >= fase.inicio /\ c.fin \in Nat
      BY <1>3, <1>17 DEF DeSuFase
    <3>2. QED
      BY <1>3, <1>17, <3>1
  <2>3. fase.anterior # Ninguna => fase.anterior \in DOMAIN bs /\ bs[fase.anterior].fase < fase.numero
    BY <1>3, <1>14 DEF DeSuFase
  <2>4. c.ancla # Ninguna => c.ancla \in DeLaFase(bs, fase.numero)
    <3> HIDE DEF ancla
    <3>1. QED
      BY <1>6, <1>16 DEF c
  <2>5. c.paso \subseteq DeLaFase(bs, fase.numero)
    <3>1. colocando.paso \subseteq DeLaFase(xs, fase.numero)
      BY <1>3 DEF DeSuFase
    <3> HIDE DEF ancla
    <3>2. QED
      BY <1>16, <3>1 DEF c
  <2>6. \A k \in Cuadrillas : c.cola[k] # Ninguna => c.cola[k] \in DeLaFase(bs, fase.numero)
    <3>1. \A k \in Cuadrillas : colocando.cola[k] # Ninguna => colocando.cola[k] \in DeLaFase(xs, fase.numero)
      BY <1>3 DEF DeSuFase
    <3>2. \A k \in Cuadrillas : c.cola[k] = IF k = cuadrilla THEN i ELSE colocando.cola[k]
      BY DEF c
    <3> HIDE DEF i, xs
    <3>3. QED
      BY <1>16, <3>1, <3>2
  <2>7. QED
    BY <2>1, <2>2, <2>3, <2>4, <2>5, <2>6 DEF DeSuFase
<1>19. ConHolguras'
  <2>1. programa = SinPrograma
    <3>1. ~(fase.numero > Fases)
      BY <1>2, <1>3, ProgramaAssumption
    <3>2. QED
      BY <3>1 DEF ProgramaInv, ConHolguras
  <2>2. programa' = SinPrograma /\ SinPrograma' = SinPrograma
    BY <1>2, <2>1 DEF SinPrograma
  <2>3. QED
    BY <2>2 DEF ConHolguras
<1>20. actividades' = bs /\ colocando' = c /\ fase' = fase
  BY <1>2 DEF bs
<1>21. ProgramaTipos'
  <2>1. fase \in [numero : 1..(Fases + 1), inicio : Nat, anterior : Nat]
    BY DEF ProgramaInv, ProgramaTipos
  <2>2. QED
    BY <1>14, <1>17, <1>20, <2>1 DEF ProgramaTipos
<1>22. QED
  BY <1>14, <1>15, <1>18, <1>19, <1>20, <1>21 DEF ProgramaInv

-----------------------------------------------------------------------------
(* The end of a phase. *)

\* The day of the stretched phase that a day of it becomes.
Dia(meta, d) ==
  fase.inicio + Redondeo((d - fase.inicio) * (meta - fase.inicio), Max({1, colocando.fin - fase.inicio}))

(* The map of the days brings none forward and no two closer together.     *)
LEMMA DiasApartados ==
  ASSUME fase.inicio \in Nat, colocando.fin \in Nat, fase.inicio < colocando.fin,
         NEW meta \in Nat, meta > colocando.fin
  PROVE  \A x, y \in Nat : fase.inicio <= x /\ x <= y =>
           /\ Dia(meta, x) \in Nat /\ Dia(meta, y) \in Nat
           /\ Dia(meta, x) >= x /\ Dia(meta, y) - Dia(meta, x) >= y - x
<1> DEFINE s == fase.inicio
           L == colocando.fin - fase.inicio
           M == meta - fase.inicio
<1>1. L \in Nat \ {0} /\ M \in Nat /\ L < M /\ s \in Nat
  OBVIOUS
<1>2. Max({1, L}) = L
  <2> HIDE DEF L
  <2>1. QED
    BY <1>1, MaxOfTwo
<1>3. \A d : Dia(meta, d) = s + Redondeo((d - s) * M, L)
  BY <1>2 DEF Dia
<1> HIDE DEF s, L, M
<1>4. \A a \in Nat : Redondeo(a * M, L) \in Nat
  <2>1. \A a \in Nat : a * M \in Nat
    BY <1>1
  <2>2. QED
    BY <1>1, <2>1, Rounded
<1>5. Redondeo(0 * M, L) = 0
  <2>1. 0 * M = 0 /\ 0 \div L = 0 /\ 0 % L = 0
    BY <1>1
  <2>2. 2 * 0 < L
    BY <1>1
  <2>3. Redondeo(0, L) = 0
    BY <2>1, <2>2 DEF Redondeo
  <2>4. QED
    BY <2>1, <2>3
<1>6. \A a, b \in Nat : a <= b => Redondeo(b * M, L) - Redondeo(a * M, L) >= b - a
  BY <1>1, Stretched
<1>7. \A a \in Nat : Redondeo(a * M, L) >= a
  <2>1. SUFFICES ASSUME NEW a \in Nat PROVE Redondeo(a * M, L) >= a
    OBVIOUS
  <2>2. Redondeo(a * M, L) - Redondeo(0 * M, L) >= a - 0
    BY <1>6
  <2>3. QED
    BY <1>4, <1>5, <2>2
<1>8. SUFFICES ASSUME NEW x \in Nat, NEW y \in Nat, s <= x, x <= y
               PROVE  /\ Dia(meta, x) \in Nat /\ Dia(meta, y) \in Nat
                      /\ Dia(meta, x) >= x /\ Dia(meta, y) - Dia(meta, x) >= y - x
  BY DEF s
<1> DEFINE a == x - s
           b == y - s
<1>9. a \in Nat /\ b \in Nat /\ a <= b /\ x = s + a /\ y = s + b
  BY <1>1, <1>8
<1> HIDE DEF a, b
<1> DEFINE p == Redondeo(a * M, L)
           q == Redondeo(b * M, L)
<1>10. p \in Nat /\ q \in Nat /\ p >= a /\ q - p >= b - a
  BY <1>4, <1>6, <1>7, <1>9
<1>11. Dia(meta, x) = s + p /\ Dia(meta, y) = s + q
  BY <1>3 DEF a, b
<1> HIDE DEF p, q
<1>12. QED
  BY <1>1, <1>9, <1>10, <1>11

(* A stretched activity: it begins no earlier, and both its ends are days  *)
(* of the one map.                                                         *)
LEMMA Estirandose ==
  ASSUME fase.inicio \in Nat, colocando.fin \in Nat, fase.inicio < colocando.fin,
         NEW meta \in Nat, meta > colocando.fin,
         NEW a \in Actividad, a.fin = a.inicio + a.dura, fase.inicio <= a.inicio
  PROVE  LET b == Estirada(a, meta) IN
         /\ b \in Actividad /\ b.fase = a.fase /\ b.ligas = a.ligas
         /\ b.fin = b.inicio + b.dura /\ b.inicio >= a.inicio
         /\ b.inicio = Dia(meta, a.inicio) /\ b.fin = Dia(meta, a.fin)
<1> DEFINE x == Dia(meta, a.inicio)
           y == Dia(meta, a.fin)
           z == Max({y, x + 1})
           b == [a EXCEPT !.inicio = x, !.dura = z - x, !.fin = z]
<1>1. a.inicio \in Nat /\ a.fin \in Nat /\ a.dura \in Nat \ {0}
  BY DEF Actividad
<1>2. x \in Nat /\ y \in Nat /\ x >= a.inicio /\ y - x >= a.fin - a.inicio
  <2>1. a.inicio <= a.fin
    BY <1>1
  <2>2. QED
    BY <1>1, <2>1, DiasApartados
<1>3. Estirada(a, meta) = b
  BY DEF Estirada, Dia
<1> HIDE DEF x, y
<1>4. z = y /\ y - x \in Nat \ {0}
  <2>1. y >= x + 1
    BY <1>1, <1>2
  <2>2. z = y
    BY <1>2, <2>1, MaxOfTwo
  <2>3. QED
    BY <1>2, <2>1, <2>2
<1>5. /\ b \in Actividad /\ b.fase = a.fase /\ b.ligas = a.ligas
      /\ b.inicio = x /\ b.fin = y /\ b.dura = y - x
  <2> HIDE DEF z
  <2>1. QED
    BY <1>2, <1>4 DEF Actividad
<1>6. b.fin = b.inicio + b.dura
  BY <1>2, <1>5
<1> HIDE DEF b
<1>7. QED
  BY <1>2, <1>3, <1>5, <1>6 DEF x, y

LEMMA SeCierra ==
  ASSUME ProgramaInv, CerrarFase
  PROVE  ProgramaInv'
<1> DEFINE xs == actividades
           meta == fase.inicio + CicloDeNiveles
           estira == fase.numero = Estructura /\ meta > colocando.fin
           fin == IF estira THEN meta ELSE colocando.fin
           avance == Max({1, Techo((fin - fase.inicio) * (100 - PhaseOverlapPct), 100)})
           quedan == [i \in Lugares |->
                        IF estira /\ i \in EnFase(fase.numero)
                        THEN Estirada(actividades[i], meta) ELSE actividades[i]]
<1>1. PICK n \in (fase.numero + 1)..(Fases + 1) :
        /\ colocando.paso # {}
        /\ fase' = [numero |-> n, inicio |-> fase.inicio + avance,
                    anterior |-> Ultima(quedan, EnFase(fase.numero))]
        /\ actividades' = quedan /\ colocando' = FaseVacia(fase.inicio + avance) /\ programa' = programa
  BY DEF CerrarFase
<1>2. /\ xs \in Seq(Actividad) /\ Red(xs) /\ FasesEnOrden(xs, fase) /\ DeSuFase(xs, fase, colocando)
      /\ fase.numero \in 1..(Fases + 1) /\ fase.inicio \in Nat /\ fase.anterior \in Nat
      /\ colocando.fin \in Nat /\ colocando.paso \in SUBSET Nat
  BY DEF ProgramaInv, ProgramaTipos
<1>3. /\ Fases \in Nat /\ CicloDeNiveles \in Nat /\ PhaseOverlapPct \in 0..100
  BY ProgramaAssumption
<1>4. PICK N \in Nat : DOMAIN xs = 1..N
  BY <1>2, EnLista
<1>5. \A i \in 1..N :
        /\ xs[i] \in Actividad
        /\ i \in Nat \ {0} /\ xs[i].inicio \in Nat /\ xs[i].fin \in Nat /\ xs[i].dura \in Nat \ {0}
        /\ xs[i].fase \in 1..Fases
        /\ xs[i].fin = xs[i].inicio + xs[i].dura
  BY <1>2, <1>4, EnLista DEF Red
<1>6. Lugares = 1..N /\ EnFase(fase.numero) = DeLaFase(xs, fase.numero) /\ DeLaFase(xs, fase.numero) \subseteq 1..N
  BY <1>4 DEF Lugares, EnFase, DeLaFase
<1>7. PICK k \in 1..N : xs[k].fase = fase.numero /\ fase.inicio <= xs[k].inicio /\ xs[k].fin <= colocando.fin
  <2>1. colocando.paso \subseteq DeLaFase(xs, fase.numero)
    BY <1>2 DEF DeSuFase
  <2>2. \E k \in DeLaFase(xs, fase.numero) : TRUE
    BY <1>1, <2>1
  <2>3. \A k \in DeLaFase(xs, fase.numero) :
          k \in 1..N /\ xs[k].fase = fase.numero /\ xs[k].inicio >= fase.inicio /\ xs[k].fin <= colocando.fin
    BY <1>2, <1>6 DEF DeSuFase, DeLaFase
  <2>4. \A k \in 1..N : xs[k].inicio >= fase.inicio => fase.inicio <= xs[k].inicio
    BY <1>2, <1>5
  <2>5. QED
    BY <2>2, <2>3, <2>4
<1>8. fase.inicio < colocando.fin /\ fase.numero \in 1..Fases
  <2> DEFINE a == fase.inicio
             b == xs[k].inicio
             c == xs[k].fin
             d == xs[k].dura
             e == colocando.fin
  <2>1. /\ a \in Nat /\ b \in Nat /\ c \in Nat /\ d \in Nat \ {0} /\ e \in Nat
        /\ a <= b /\ c = b + d /\ c <= e
    BY <1>2, <1>5, <1>7
  <2> HIDE DEF b, c, d, e
  <2>2. a < e
    <3> HIDE DEF a
    <3>1. QED
      BY <2>1
  <2>3. QED
    BY <1>5, <1>7, <2>2 DEF e
<1>9. meta \in Nat /\ fin \in Nat /\ fin >= fase.inicio /\ (estira => meta > colocando.fin)
  BY <1>2, <1>3, <1>8
<1>10. avance \in Nat
  <2> DEFINE d == fin - fase.inicio
             t == Techo(d * (100 - PhaseOverlapPct), 100)
  <2>1. d \in Nat
    BY <1>2, <1>9
  <2>2. t \in Nat
    <3> HIDE DEF d
    <3>1. QED
      BY <1>3, <2>1, Ceiling
  <2>3. avance = Max({1, t})
    OBVIOUS
  <2> HIDE DEF t, avance
  <2>4. QED
    BY <2>2, <2>3, MaxOfTwo
<1> HIDE DEF fin, avance
\* What a place holds afterwards.
<1> DEFINE Igual(i) == quedan[i] = xs[i]
           Movida(i) == /\ estira /\ xs[i].fase = fase.numero /\ quedan[i].inicio = Dia(meta, xs[i].inicio)
                        /\ quedan[i].fin = Dia(meta, xs[i].fin)
<1>11. \A i \in 1..N :
         /\ quedan[i] \in Actividad /\ quedan[i].fase = xs[i].fase /\ quedan[i].ligas = xs[i].ligas
         /\ quedan[i].fin = quedan[i].inicio + quedan[i].dura
         /\ quedan[i].inicio >= xs[i].inicio
         /\ (Igual(i) /\ ~(estira /\ xs[i].fase = fase.numero)) \/ Movida(i)
  <2>1. SUFFICES ASSUME NEW i \in 1..N
                 PROVE  /\ quedan[i] \in Actividad /\ quedan[i].fase = xs[i].fase /\ quedan[i].ligas = xs[i].ligas
                        /\ quedan[i].fin = quedan[i].inicio + quedan[i].dura
                        /\ quedan[i].inicio >= xs[i].inicio
                        /\ (Igual(i) /\ ~(estira /\ xs[i].fase = fase.numero)) \/ Movida(i)
    OBVIOUS
  <2>2. i \in EnFase(fase.numero) <=> xs[i].fase = fase.numero
    BY <1>6 DEF EnFase
  <2>3. CASE estira /\ xs[i].fase = fase.numero
    <3>1. quedan[i] = Estirada(xs[i], meta)
      BY <1>6, <2>2, <2>3
    <3>2. xs[i].inicio >= fase.inicio
      BY <1>2, <1>4, <2>3 DEF DeSuFase, DeLaFase
    <3> HIDE DEF quedan, meta
    <3>3. fase.inicio <= xs[i].inicio
      BY <1>2, <1>5, <3>2
    <3>4. xs[i] \in Actividad /\ xs[i].fin = xs[i].inicio + xs[i].dura
      BY <1>5
    <3>5. meta \in Nat /\ meta > colocando.fin
      BY <1>9, <2>3
    <3>6. LET b == Estirada(xs[i], meta) IN
          /\ b \in Actividad /\ b.fase = xs[i].fase /\ b.ligas = xs[i].ligas
          /\ b.fin = b.inicio + b.dura /\ b.inicio >= xs[i].inicio
          /\ b.inicio = Dia(meta, xs[i].inicio) /\ b.fin = Dia(meta, xs[i].fin)
      BY <1>2, <1>8, <3>3, <3>4, <3>5, Estirandose
    <3> HIDE DEF estira, xs
    <3>7. QED
      BY <2>3, <3>1, <3>6
  <2>4. CASE ~(estira /\ xs[i].fase = fase.numero)
    <3>1. quedan[i] = xs[i]
      BY <1>6, <2>2, <2>4
    <3> HIDE DEF quedan, estira, xs
    <3>2. xs[i].inicio >= xs[i].inicio
      BY <1>5
    <3>3. QED
      BY <1>5, <2>4, <3>1, <3>2
  <2>5. QED
    BY <2>3, <2>4
<1>12. quedan \in [1..N -> Actividad] /\ DOMAIN quedan = 1..N
  <2>1. DOMAIN quedan = 1..N /\ quedan = [i \in 1..N |-> quedan[i]]
    BY <1>6
  <2> HIDE DEF quedan
  <2>2. QED
    BY <1>11, <2>1
<1>13. quedan \in Seq(Actividad)
  <2> HIDE DEF quedan
  <2>1. QED
    BY <1>12, SeqDef
<1>14. \A i, j \in 1..N : j < i => xs[j].fase <= xs[i].fase
  BY <1>2, <1>4 DEF FasesEnOrden
<1>15. \A i \in 1..N : xs[i].fase <= fase.numero
  BY <1>2, <1>4 DEF FasesEnOrden
<1> HIDE DEF quedan, xs, meta, estira
\* Two activities of which the first is not moved closer to the second.
<1>16. ASSUME NEW i \in 1..N, NEW j \in 1..N, j < i, xs[j].fase = xs[i].fase \/ ~Movida(j)
       PROVE  \A r \in Nat : xs[i].inicio >= xs[j].inicio + r => quedan[i].inicio >= quedan[j].inicio + r
  <2>0. /\ xs[i].inicio \in Nat /\ xs[j].inicio \in Nat
        /\ quedan[i].inicio \in Nat /\ quedan[j].inicio \in Nat
    BY <1>5, <1>11 DEF Actividad
  <2>1. SUFFICES ASSUME NEW r \in Nat, xs[i].inicio >= xs[j].inicio + r
                 PROVE  quedan[i].inicio >= quedan[j].inicio + r
    OBVIOUS
  <2>2. CASE Movida(j)
    <3>1. Movida(i)
      BY <1>11, <1>16, <2>2
    <3>2. xs[j].inicio >= fase.inicio
      BY <1>2, <1>4, <2>2 DEF DeSuFase, DeLaFase
    <3>3. fase.inicio <= xs[j].inicio /\ xs[j].inicio <= xs[i].inicio
      <4> DEFINE a == fase.inicio
                 b == xs[j].inicio
                 c == xs[i].inicio
      <4>1. a \in Nat /\ b \in Nat /\ c \in Nat /\ b >= a /\ c >= b + r
        BY <1>2, <2>0, <2>1, <3>2
      <4> HIDE DEF a, b, c
      <4>2. a <= b /\ b <= c
        BY <4>1
      <4>3. QED
        BY <4>2 DEF a, b, c
    <3>4. meta \in Nat /\ meta > colocando.fin
      BY <1>9, <2>2
    <3>5. Dia(meta, xs[i].inicio) - Dia(meta, xs[j].inicio) >= xs[i].inicio - xs[j].inicio
      BY <1>2, <1>8, <2>0, <3>3, <3>4, DiasApartados
    <3>6. quedan[i].inicio - quedan[j].inicio >= xs[i].inicio - xs[j].inicio
      BY <2>2, <3>1, <3>5
    <3>7. QED
      BY <2>0, <2>1, <3>6
  <2>3. CASE ~Movida(j)
    <3>1. quedan[j] = xs[j] /\ quedan[i].inicio >= xs[i].inicio
      BY <1>11, <2>3
    <3>2. QED
      BY <2>0, <2>1, <3>1
  <2>4. QED
    BY <2>2, <2>3
<1>17. ASSUME NEW i \in 1..N, NEW j \in 1..N, j < i, xs[i].inicio >= xs[j].fin
       PROVE  quedan[i].inicio >= quedan[j].fin
  <2>0. /\ xs[i].inicio \in Nat /\ xs[j].inicio \in Nat /\ xs[j].fin \in Nat
        /\ quedan[i].inicio \in Nat /\ quedan[j].fin \in Nat
        /\ xs[j].fin = xs[j].inicio + xs[j].dura /\ xs[j].dura \in Nat
    BY <1>5, <1>11 DEF Actividad
  <2>1. CASE Movida(j)
    <3>1. xs[i].fase = fase.numero
      <4>1. xs[j].fase <= xs[i].fase /\ xs[i].fase <= fase.numero /\ xs[j].fase = fase.numero
        BY <1>14, <1>15, <1>17, <2>1
      <4>2. xs[i].fase \in Nat /\ fase.numero \in Nat
        BY <1>2, <1>5
      <4>3. QED
        BY <4>1, <4>2
    <3>2. Movida(i)
      BY <1>11, <2>1, <3>1
    <3>3. xs[j].inicio >= fase.inicio
      BY <1>2, <1>4, <2>1 DEF DeSuFase, DeLaFase
    <3>4. fase.inicio <= xs[j].fin /\ xs[j].fin <= xs[i].inicio
      <4> DEFINE a == fase.inicio
                 b == xs[j].inicio
                 d == xs[j].dura
                 e == xs[j].fin
                 c == xs[i].inicio
      <4>1. /\ a \in Nat /\ b \in Nat /\ c \in Nat /\ d \in Nat /\ e \in Nat
            /\ b >= a /\ e = b + d /\ c >= e
        BY <1>2, <1>17, <2>0, <3>3
      <4> HIDE DEF a, b, c, d, e
      <4>2. a <= e /\ e <= c
        BY <4>1
      <4>3. QED
        BY <4>2 DEF a, c, e
    <3>5. meta \in Nat /\ meta > colocando.fin
      BY <1>9, <2>1
    <3>6. Dia(meta, xs[i].inicio) - Dia(meta, xs[j].fin) >= xs[i].inicio - xs[j].fin
      BY <1>2, <1>8, <2>0, <3>4, <3>5, DiasApartados
    <3>7. quedan[i].inicio - quedan[j].fin >= xs[i].inicio - xs[j].fin
      BY <2>1, <3>2, <3>6
    <3>8. QED
      BY <1>17, <2>0, <3>7
  <2>2. CASE ~Movida(j)
    <3>1. quedan[j] = xs[j] /\ quedan[i].inicio >= xs[i].inicio
      BY <1>11, <2>2
    <3>2. QED
      BY <1>17, <2>0, <3>1
  <2>3. QED
    BY <2>1, <2>2
<1>18. Red(quedan)
  <2>1. ASSUME NEW i \in 1..N, NEW l \in quedan[i].ligas
        PROVE  Cumple(quedan, i, l)
    <3>1. l \in xs[i].ligas
      BY <1>11, <2>1
    <3>2. Cumple(xs, i, l)
      BY <1>2, <1>4, <3>1 DEF Red
    <3>3. l \in Relacion /\ l.retraso \in Nat
      BY <1>5, <3>1 DEF Actividad, Relacion
    <3> DEFINE j == l.de
    <3>4. j \in 1..(i - 1) /\ j \in 1..N /\ j < i
      BY <3>2 DEF Cumple
    <3>5. CASE l.tipo = "FS" /\ l.retraso = 0 /\ xs[i].inicio >= xs[j].fin
      <4>1. quedan[i].inicio >= quedan[j].fin
        BY <1>17, <3>4, <3>5
      <4>2. QED
        BY <3>4, <3>5, <4>1 DEF Cumple
    <3>6. CASE l.tipo = "SS" /\ l.retraso = 0 /\ xs[j].fase # xs[i].fase
      <4>1. quedan[j].fase # quedan[i].fase
        BY <1>11, <3>4, <3>6
      <4>2. QED
        BY <3>4, <3>6, <4>1 DEF Cumple
    <3>7. CASE /\ l.tipo = "SS" /\ xs[i].inicio >= xs[j].inicio + l.retraso
      <4>1. CASE xs[j].fase = xs[i].fase \/ ~Movida(j)
        <5>1. quedan[i].inicio >= quedan[j].inicio + l.retraso
          BY <1>16, <3>3, <3>4, <3>7, <4>1
        <5>2. QED
          BY <3>4, <3>7, <5>1 DEF Cumple
      <4>2. CASE xs[j].fase # xs[i].fase /\ Movida(j)
        <5>1. xs[j].fase <= xs[i].fase /\ xs[i].fase <= fase.numero /\ xs[j].fase = fase.numero
          BY <1>14, <1>15, <3>4, <4>2
        <5>2. xs[i].fase \in Nat /\ xs[j].fase \in Nat
          BY <1>5, <3>4
        <5>3. QED
          BY <4>2, <5>1, <5>2
      <4>3. QED
        BY <4>1, <4>2
    <3>8. QED
      BY <3>2, <3>5, <3>6, <3>7 DEF Cumple
  <2>2. QED
    BY <1>11, <1>12, <2>1 DEF Red
<1>19. n \in Nat /\ n > fase.numero /\ n \in 1..(Fases + 1)
  BY <1>2, <1>3
<1>20. DeLaFase(quedan, n) = {}
  <2>1. SUFFICES ASSUME NEW i \in 1..N, quedan[i].fase = n PROVE FALSE
    BY <1>12 DEF DeLaFase
  <2>2. xs[i].fase = n /\ xs[i].fase <= fase.numero
    BY <1>11, <1>15, <2>1
  <2>3. QED
    BY <1>2, <1>19, <2>2
<1>21. Ultima(quedan, EnFase(fase.numero)) \in 1..N
       /\ quedan[Ultima(quedan, EnFase(fase.numero))].fase = fase.numero
  <2> DEFINE is == EnFase(fase.numero)
             u == Ultima(quedan, is)
  <2>1. is \in SUBSET (DOMAIN quedan) /\ is # {}
    BY <1>4, <1>6, <1>7, <1>12 DEF DeLaFase
  <2>2. u \in is
    <3> HIDE DEF is
    <3>1. QED
      BY <1>13, <2>1, Alguna
  <2>3. u \in 1..N /\ xs[u].fase = fase.numero
    <3> HIDE DEF u
    <3>1. QED
      BY <1>6, <2>2 DEF DeLaFase
  <2> HIDE DEF u
  <2>4. quedan[u].fase = fase.numero
    BY <1>11, <2>3
  <2>5. QED
    BY <2>3, <2>4 DEF u
<1>22. FasesEnOrden(quedan, fase')
  <2>1. \A i \in 1..N : quedan[i].fase = xs[i].fase /\ xs[i].fase \in Nat
    BY <1>5, <1>11
  <2>2. ASSUME NEW i \in 1..N PROVE quedan[i].fase <= fase'.numero
    <3>1. quedan[i].fase = xs[i].fase /\ xs[i].fase \in Nat /\ xs[i].fase <= fase.numero
      BY <1>15, <2>1
    <3>2. fase'.numero = n
      BY <1>1
    <3>3. QED
      BY <1>2, <1>19, <3>1, <3>2
  <2>3. ASSUME NEW i \in 1..N, NEW j \in 1..N, i < j PROVE quedan[i].fase <= quedan[j].fase
    <3>1. quedan[i].fase = xs[i].fase /\ quedan[j].fase = xs[j].fase
      BY <2>1
    <3>2. xs[i].fase <= xs[j].fase
      BY <1>14, <2>3
    <3>3. QED
      BY <3>1, <3>2
  <2>4. QED
    BY <1>12, <2>2, <2>3 DEF FasesEnOrden
<1>23. DeSuFase(quedan, fase', colocando')
  <2> DEFINE s == fase.inicio + avance
             u == Ultima(quedan, EnFase(fase.numero))
  <2>1. s \in Nat
    BY <1>2, <1>10
  <2>2. /\ fase'.numero = n /\ fase'.inicio = s /\ fase'.anterior = u
        /\ colocando'.ancla = Ninguna /\ colocando'.paso = {} /\ colocando'.fin = s
        /\ \A c \in Cuadrillas : colocando'.cola[c] = Ninguna
    BY <1>1 DEF FaseVacia
  <2>3. u \in DOMAIN quedan /\ quedan[u].fase < n
    <3>1. u \in DOMAIN quedan /\ quedan[u].fase = fase.numero
      BY <1>12, <1>21
    <3> HIDE DEF u
    <3>2. QED
      BY <1>2, <1>19, <3>1
  <2> HIDE DEF s, u
  <2>4. QED
    BY <1>20, <2>1, <2>2, <2>3 DEF DeSuFase
<1>24. programa = SinPrograma
  <2>1. ~(fase.numero > Fases)
    BY <1>3, <1>8
  <2>2. QED
    BY <2>1 DEF ProgramaInv, ConHolguras
<1>25. ConHolguras'
  <2>1. programa' = SinPrograma /\ SinPrograma' = SinPrograma
    BY <1>1, <1>24 DEF SinPrograma
  <2>2. QED
    BY <2>1 DEF ConHolguras
<1>26. ProgramaTipos'
  <2>1. fase' \in [numero : 1..(Fases + 1), inicio : Nat, anterior : Nat]
    <3>1. fase.inicio + avance \in Nat
      BY <1>2, <1>10
    <3>2. Ultima(quedan, EnFase(fase.numero)) \in Nat
      BY <1>21
    <3>3. QED
      BY <1>1, <1>19, <3>1, <3>2
  <2>2. colocando' \in [ancla : Nat, paso : SUBSET Nat, cola : [Cuadrillas -> Nat], fin : Nat]
    <3>1. fase.inicio + avance \in Nat
      BY <1>2, <1>10
    <3>2. QED
      BY <1>1, <3>1 DEF FaseVacia, Ninguna
  <2>3. QED
    BY <1>1, <1>13, <2>1, <2>2 DEF ProgramaTipos
<1>27. QED
  BY <1>1, <1>18, <1>22, <1>23, <1>25, <1>26 DEF ProgramaInv

-----------------------------------------------------------------------------
(* The backward pass. *)

\* How long j may wait for s to begin at its late date, and when j begins then.
Plazo(g, j, s) ==
  g[s[1]] - s[2].retraso - (IF s[2].tipo = "SS" THEN actividades[j].inicio ELSE actividades[j].fin)
Tarde(g, j) ==
  actividades[j].inicio
    + (IF Sucesoras(j) = {} THEN Dias - actividades[j].fin ELSE Min({Plazo(g, j, s) : s \in Sucesoras(j)}))

LEMMA LasQueSiguen ==
  ASSUME ProgramaInv, NEW j \in Lugares
  PROVE  /\ \A s \in Sucesoras(j) :
              /\ s[1] \in Lugares /\ s[1] > j /\ s[2] \in actividades[s[1]].ligas
              /\ s[2] \in Relacion /\ s[2].de = j
         /\ \A i \in Lugares : \A l \in actividades[i].ligas : l.de = j => <<i, l>> \in Sucesoras(j)
<1>1. actividades \in Seq(Actividad) /\ Red(actividades)
  BY DEF ProgramaInv, ProgramaTipos
<1>2. ASSUME NEW s \in Sucesoras(j)
      PROVE  /\ s[1] \in Lugares /\ s[1] > j /\ s[2] \in actividades[s[1]].ligas
             /\ s[2] \in Relacion /\ s[2].de = j
  <2>1. PICK i \in Lugares : s \in {i} \X actividades[i].ligas
    BY DEF Sucesoras
  <2>2. s[1] = i /\ s[2] \in actividades[i].ligas /\ s[2].de = j
    BY <2>1 DEF Sucesoras
  <2>3. s[2] \in Relacion /\ i \in Nat
    BY <1>1, <2>2, EnLista DEF Lugares
  <2>4. s[2].de \in 1..(i - 1)
    BY <1>1, <2>2 DEF Red, Cumple, Lugares
  <2>5. i > j
    BY <2>2, <2>3, <2>4
  <2>6. QED
    BY <2>2, <2>3, <2>5
<1>3. ASSUME NEW i \in Lugares, NEW l \in actividades[i].ligas, l.de = j
      PROVE  <<i, l>> \in Sucesoras(j)
  <2>1. <<i, l>> \in {i} \X actividades[i].ligas /\ <<i, l>>[2] = l
    OBVIOUS
  <2>2. QED
    BY <1>3, <2>1 DEF Sucesoras
<1>4. QED
  BY <1>2, <1>3

(* The recursion has a solution: it goes from the last activity to the first. *)
LEMMA Resuelta ==
  ASSUME ProgramaInv
  PROVE  \A j \in Lugares : InicioTarde[j] = Tarde(InicioTarde, j)
<1>1. actividades \in Seq(Actividad)
  BY DEF ProgramaInv, ProgramaTipos
<1>2. PICK N \in Nat : Lugares = 1..N
  BY <1>1, EnLista DEF Lugares
<1> DEFINE Resuelve(g, k) == \A j \in k..N : g[j] = Tarde(g, j)
           Good == {n \in 0..N : \E g : Resuelve(g, N - n + 1)}
<1>3. 0 \in Good
  <2>1. (N - 0 + 1)..N = {} /\ 0 \in 0..N
    OBVIOUS
  <2>2. QED
    BY <2>1
<1>4. ASSUME NEW n \in 1..N, n - 1 \in Good
      PROVE  n \in Good
  <2> DEFINE k == N - n + 1
  <2>1. k \in 1..N /\ N - (n - 1) + 1 = k + 1 /\ n \in 0..N
    OBVIOUS
  <2>2. PICK g : Resuelve(g, k + 1)
    BY <1>4, <2>1
  <2> HIDE DEF k
  <2> DEFINE h == [j \in k..N |-> IF j = k THEN Tarde(g, k) ELSE g[j]]
  <2>3. \A j \in (k + 1)..N : j \in k..N /\ j # k /\ h[j] = g[j]
    BY <2>1
  <2>4. k \in k..N /\ h[k] = Tarde(g, k)
    BY <2>1
  <2> HIDE DEF h
  <2>5. ASSUME NEW j \in k..N
        PROVE  Tarde(h, j) = Tarde(g, j)
    <3>1. j \in Lugares
      BY <1>2, <2>1
    <3>2. ASSUME NEW s \in Sucesoras(j)
          PROVE  h[s[1]] = g[s[1]]
      <4>1. s[1] \in 1..N /\ s[1] > j
        BY <1>2, <3>1, LasQueSiguen
      <4>2. s[1] \in (k + 1)..N
        BY <2>1, <4>1
      <4>3. QED
        BY <2>3, <4>2
    <3>3. \A s \in Sucesoras(j) : Plazo(h, j, s) = Plazo(g, j, s)
      BY <3>2 DEF Plazo
    <3>4. {Plazo(h, j, s) : s \in Sucesoras(j)} = {Plazo(g, j, s) : s \in Sucesoras(j)}
      BY <3>3
    <3>5. QED
      BY <3>4 DEF Tarde
  <2>6. ASSUME NEW j \in k..N
        PROVE  h[j] = Tarde(h, j)
    <3>1. CASE j = k
      BY <2>4, <2>5, <3>1
    <3>2. CASE j # k
      <4>1. j \in (k + 1)..N
        BY <2>1, <3>2
      <4>2. g[j] = Tarde(g, j)
        BY <2>2, <4>1
      <4>3. QED
        BY <2>3, <2>5, <4>1, <4>2
    <3>3. QED
      BY <3>1, <3>2
  <2>7. Resuelve(h, k)
    BY <2>6
  <2> HIDE DEF Resuelve
  <2>8. QED
    BY <2>1, <2>7 DEF k
<1>5. N \in Good
  <2>1. 0..N \subseteq Good
    <3> HIDE DEF Good
    <3>1. QED
      BY <1>3, <1>4, UpTo
  <2>2. N \in 0..N
    OBVIOUS
  <2> HIDE DEF Good
  <2>3. QED
    BY <2>1, <2>2
<1>6. PICK g : Resuelve(g, 1)
  <2>1. \E g : Resuelve(g, N - N + 1)
    BY <1>5
  <2>2. N - N + 1 = 1
    OBVIOUS
  <2> HIDE DEF Resuelve
  <2>3. QED
    BY <2>1, <2>2
<1> DEFINE h == [j \in Lugares |-> g[j]]
           Vale(t) == t = [j \in Lugares |-> Tarde(t, j)]
           elegida == CHOOSE t : Vale(t)
<1>7. \A j \in Lugares : h[j] = g[j]
  OBVIOUS
<1> HIDE DEF h
<1>8. ASSUME NEW j \in Lugares PROVE Tarde(h, j) = g[j]
  <2>1. \A s \in Sucesoras(j) : h[s[1]] = g[s[1]]
    BY <1>7, LasQueSiguen
  <2>2. \A s \in Sucesoras(j) : Plazo(h, j, s) = Plazo(g, j, s)
    BY <2>1 DEF Plazo
  <2>3. {Plazo(h, j, s) : s \in Sucesoras(j)} = {Plazo(g, j, s) : s \in Sucesoras(j)}
    BY <2>2
  <2>4. Tarde(h, j) = Tarde(g, j)
    BY <2>3 DEF Tarde
  <2>5. QED
    BY <1>2, <1>6, <2>4
<1>9. Vale(h)
  BY <1>7, <1>8 DEF h
<1>10. Vale(elegida)
  BY <1>9
<1>11. InicioTarde = elegida
  BY DEF InicioTarde, Tarde, Plazo
<1> HIDE DEF elegida
<1>12. \A j \in Lugares : elegida[j] = Tarde(elegida, j)
  BY <1>10
<1>13. QED
  BY <1>11, <1>12

LEMMA Ultimo ==
  ASSUME ProgramaInv, Lugares # {}
  PROVE  Dias \in Nat /\ \A i \in Lugares : actividades[i].fin <= Dias
<1>1. actividades \in Seq(Actividad)
  BY DEF ProgramaInv, ProgramaTipos
<1>2. PICK N \in Nat : Lugares = 1..N
  BY <1>1, EnLista DEF Lugares
<1>3. \A i \in 1..N : actividades[i].fin \in Nat
  BY <1>1, <1>2, EnLista DEF Lugares
<1> DEFINE f == [i \in 1..N |-> actividades[i].fin]
           T == {actividades[i].fin : i \in Lugares}
<1>4. PICK B \in Nat : \A i \in 1..N : f[i] <= B
  <2>1. \A i \in 1..N : f[i] \in Nat
    BY <1>3
  <2> HIDE DEF f
  <2>2. QED
    BY <2>1, Bounded
<1>5. T \in SUBSET Nat /\ T # {} /\ \A k \in T : k <= B
  BY <1>2, <1>3, <1>4
<1>6. Max(T) \in T /\ \A k \in T : k <= Max(T)
  <2> HIDE DEF T
  <2>1. QED
    BY <1>5, Greatest
<1>7. Dias = Max(T)
  BY DEF Dias
<1>8. \A i \in Lugares : actividades[i].fin \in T
  OBVIOUS
<1> HIDE DEF T
<1>9. QED
  BY <1>5, <1>6, <1>7, <1>8

(* When the network is kept, no wait is negative.                          *)
LEMMA Plazos ==
  ASSUME ProgramaInv, RedCumplida, NEW j \in Lugares, NEW s \in Sucesoras(j), NEW g,
         g[s[1]] \in Nat, g[s[1]] >= actividades[s[1]].inicio
  PROVE  Plazo(g, j, s) \in Nat
<1> DEFINE i == s[1]
           l == s[2]
           gi == g[i]
           ii == actividades[i].inicio
           ij == actividades[j].inicio
           fj == actividades[j].fin
           dj == actividades[j].dura
           r == l.retraso
<1>1. i \in Lugares /\ l \in actividades[i].ligas /\ l \in Relacion /\ l.de = j
  BY LasQueSiguen
<1>2. /\ ii \in Nat /\ ij \in Nat /\ fj \in Nat /\ dj \in Nat /\ fj = ij + dj
      /\ r \in Nat /\ l.tipo \in {"SS", "FS"}
  <2>1. actividades \in Seq(Actividad) /\ Red(actividades)
    BY DEF ProgramaInv, ProgramaTipos
  <2>2. QED
    BY <1>1, <2>1, EnLista DEF Lugares, Red, Relacion
<1>3. ii >= ij + r + (IF l.tipo = "FS" THEN dj ELSE 0)
  BY <1>1 DEF RedCumplida, Exige, Temprano
<1>4. gi \in Nat /\ gi >= ii
  OBVIOUS
<1>5. Plazo(g, j, s) = gi - r - (IF l.tipo = "SS" THEN ij ELSE fj)
  BY DEF Plazo
<1>6. CASE l.tipo = "SS"
  <2>1. ii >= ij + r + 0 /\ Plazo(g, j, s) = gi - r - ij
    BY <1>3, <1>5, <1>6
  <2> HIDE DEF gi, ii, ij, fj, dj, r, l
  <2>2. QED
    BY <1>2, <1>4, <2>1
<1>7. CASE l.tipo = "FS"
  <2>1. ii >= ij + r + dj /\ Plazo(g, j, s) = gi - r - fj
    BY <1>3, <1>5, <1>7
  <2> HIDE DEF gi, ii, ij, fj, dj, r, l
  <2>2. QED
    BY <1>2, <1>4, <2>1
<1>8. QED
  BY <1>2, <1>6, <1>7

(* The late dates are numbers, none before the early one, and each of the  *)
(* waits of an activity is at least the one it keeps.                      *)
LEMMA Tardes ==
  ASSUME ProgramaInv, RedCumplida
  PROVE  \A j \in Lugares :
           /\ InicioTarde[j] \in Nat /\ InicioTarde[j] >= actividades[j].inicio
           /\ Sucesoras(j) = {} => InicioTarde[j] = actividades[j].inicio + (Dias - actividades[j].fin)
           /\ \A s \in Sucesoras(j) :
                /\ Plazo(InicioTarde, j, s) \in Nat
                /\ InicioTarde[j] <= actividades[j].inicio + Plazo(InicioTarde, j, s)
<1>1. actividades \in Seq(Actividad)
  BY DEF ProgramaInv, ProgramaTipos
<1>2. PICK N \in Nat : Lugares = 1..N
  BY <1>1, EnLista DEF Lugares
<1>3. \A j \in 1..N : actividades[j].inicio \in Nat /\ actividades[j].fin \in Nat
  BY <1>1, <1>2, EnLista DEF Lugares
<1> DEFINE t == InicioTarde
           Bien(j) == t[j] \in Nat /\ t[j] >= actividades[j].inicio
           Plazadas(j) == {Plazo(t, j, s) : s \in Sucesoras(j)}
<1>4. \A j \in Lugares : t[j] = Tarde(t, j)
  BY Resuelta
<1> HIDE DEF t
<1>5. ASSUME NEW j \in 1..N, \A i \in 1..N : i > j => Bien(i)
      PROVE  /\ Bien(j)
             /\ Sucesoras(j) = {} => t[j] = actividades[j].inicio + (Dias - actividades[j].fin)
             /\ \A s \in Sucesoras(j) :
                  Plazo(t, j, s) \in Nat /\ t[j] <= actividades[j].inicio + Plazo(t, j, s)
  <2>1. t[j] = Tarde(t, j)
    BY <1>2, <1>4
  <2>2. CASE Sucesoras(j) = {}
    <3>1. t[j] = actividades[j].inicio + (Dias - actividades[j].fin)
      BY <2>1, <2>2 DEF Tarde
    <3>2. Dias \in Nat /\ actividades[j].fin <= Dias
      BY <1>2, Ultimo
    <3>3. Bien(j)
      BY <1>3, <3>1, <3>2
    <3>4. QED
      BY <2>2, <3>1, <3>3
  <2>3. CASE Sucesoras(j) # {}
    <3>1. ASSUME NEW s \in Sucesoras(j) PROVE Plazo(t, j, s) \in Nat
      <4>1. s[1] \in 1..N /\ s[1] > j /\ j \in Lugares
        BY <1>2, LasQueSiguen
      <4>2. t[s[1]] \in Nat /\ t[s[1]] >= actividades[s[1]].inicio
        BY <1>5, <4>1
      <4>3. QED
        BY <4>1, <4>2, Plazos
    <3>2. Plazadas(j) \in SUBSET Nat /\ Plazadas(j) # {}
      BY <2>3, <3>1
    <3>3. t[j] = actividades[j].inicio + Min(Plazadas(j))
      BY <2>1, <2>3 DEF Tarde
    <3>4. \A s \in Sucesoras(j) : Plazo(t, j, s) \in Plazadas(j)
      OBVIOUS
    <3> HIDE DEF Plazadas
    <3>5. Min(Plazadas(j)) \in Nat /\ \A k \in Plazadas(j) : Min(Plazadas(j)) <= k
      BY <3>2, Lowest
    <3>6. actividades[j].inicio \in Nat
      BY <1>3
    <3>7. Bien(j)
      BY <3>3, <3>5, <3>6
    <3>8. ASSUME NEW s \in Sucesoras(j) PROVE t[j] <= actividades[j].inicio + Plazo(t, j, s)
      <4>1. Min(Plazadas(j)) <= Plazo(t, j, s) /\ Plazo(t, j, s) \in Nat
        BY <3>1, <3>4, <3>5
      <4>2. QED
        BY <3>3, <3>5, <3>6, <4>1
    <3>9. QED
      BY <2>3, <3>1, <3>7, <3>8
  <2>4. QED
    BY <2>2, <2>3
<1> DEFINE Good == {n \in 0..N : \A j \in (N - n + 1)..N : Bien(j)}
<1>6. 0 \in Good
  <2>1. (N - 0 + 1)..N = {} /\ 0 \in 0..N
    OBVIOUS
  <2>2. QED
    BY <2>1
<1>7. ASSUME NEW n \in 1..N, n - 1 \in Good
      PROVE  n \in Good
  <2> DEFINE k == N - n + 1
  <2>1. k \in 1..N /\ N - (n - 1) + 1 = k + 1 /\ n \in 0..N
    OBVIOUS
  <2>2. \A j \in (k + 1)..N : Bien(j)
    BY <1>7, <2>1
  <2> HIDE DEF k, Bien
  <2>3. \A i \in 1..N : i > k => i \in (k + 1)..N
    BY <2>1
  <2>4. Bien(k)
    BY <1>5, <2>1, <2>2, <2>3
  <2>5. \A j \in k..N : j = k \/ j \in (k + 1)..N
    BY <2>1
  <2>6. \A j \in k..N : Bien(j)
    BY <2>2, <2>4, <2>5
  <2>7. QED
    BY <2>1, <2>6 DEF k
<1>8. \A j \in 1..N : Bien(j)
  <2>1. 0..N \subseteq Good
    <3> HIDE DEF Good
    <3>1. QED
      BY <1>6, <1>7, UpTo
  <2>2. N \in 0..N /\ N - N + 1 = 1
    OBVIOUS
  <2>3. N \in Good
    BY <2>1, <2>2
  <2> HIDE DEF Bien
  <2>4. QED
    BY <2>2, <2>3
<1>9. QED
  BY <1>2, <1>5, <1>8 DEF t

LEMMA MinOfTwo ==
  ASSUME NEW x \in Nat, NEW y \in Nat
  PROVE  Min({x, y}) \in Nat /\ Min({x, y}) <= x /\ Min({x, y}) <= y
<1> DEFINE T == {x, y}
<1>1. T \in SUBSET Nat /\ T # {} /\ x \in T /\ y \in T
  OBVIOUS
<1> HIDE DEF T
<1>2. Min(T) \in T /\ \A k \in T : Min(T) <= k
  BY <1>1, Lowest
<1>3. QED
  BY <1>1, <1>2 DEF T

\* What _compute_float returns.
Holguras ==
  LET tarde == InicioTarde
      total == [j \in Lugares |-> Max({0, tarde[j] - actividades[j].inicio})]
      libre == [j \in Lugares |-> Min({total[j], Max({0, EsperaHasta(j, Temprano)})})]
  IN [dias |-> Dias, tarde |-> tarde, total |-> total, libre |-> libre]

(* The free float is at most what each of the relations with the ones that *)
(* follow lets it be when these begin at their early dates.                *)
LEMMA Libres ==
  ASSUME ProgramaInv, RedCumplida, NEW j \in Lugares
  PROVE  Holguras.libre[j] \in Nat /\ \A s \in Sucesoras(j) : Holguras.libre[j] <= Plazo(Temprano, j, s)
<1> DEFINE total == Max({0, InicioTarde[j] - actividades[j].inicio})
           espera == EsperaHasta(j, Temprano)
           hasta == Max({0, espera})
           Plazadas == {Plazo(Temprano, j, s) : s \in Sucesoras(j)}
<1>1. actividades \in Seq(Actividad)
  BY DEF ProgramaInv, ProgramaTipos
<1>2. \A i \in Lugares : actividades[i].inicio \in Nat /\ actividades[i].fin \in Nat
  BY <1>1, EnLista DEF Lugares
<1>3. Holguras.libre[j] = Min({total, hasta})
  BY DEF Holguras
<1>4. total \in Nat
  <2>1. InicioTarde[j] \in Nat /\ actividades[j].inicio \in Nat
    BY <1>2, Tardes
  <2>2. InicioTarde[j] - actividades[j].inicio \in Int
    BY <2>1
  <2>3. QED
    BY <2>2, MaxOfTwo
<1>5. ASSUME NEW s \in Sucesoras(j) PROVE Plazo(Temprano, j, s) \in Nat
  <2>1. s[1] \in Lugares
    BY LasQueSiguen
  <2>2. Temprano[s[1]] = actividades[s[1]].inicio /\ actividades[s[1]].inicio \in Nat
    BY <1>2, <2>1 DEF Temprano
  <2>3. Temprano[s[1]] \in Nat /\ Temprano[s[1]] >= actividades[s[1]].inicio
    BY <2>2
  <2>4. QED
    BY <2>3, Plazos
<1>6. espera \in Nat /\ \A s \in Sucesoras(j) : espera <= Plazo(Temprano, j, s)
  <2>1. CASE Sucesoras(j) = {}
    <3>1. Dias \in Nat /\ actividades[j].fin <= Dias /\ actividades[j].fin \in Nat
      BY <1>2, Ultimo
    <3>2. espera = Dias - actividades[j].fin
      BY <2>1 DEF EsperaHasta
    <3> HIDE DEF espera
    <3>3. QED
      BY <2>1, <3>1, <3>2
  <2>2. CASE Sucesoras(j) # {}
    <3>1. espera = Min(Plazadas)
      BY <2>2 DEF EsperaHasta, Espera, Plazo
    <3>2. Plazadas \in SUBSET Nat /\ Plazadas # {}
      BY <1>5, <2>2
    <3>3. \A s \in Sucesoras(j) : Plazo(Temprano, j, s) \in Plazadas
      OBVIOUS
    <3> HIDE DEF Plazadas, espera
    <3>4. Min(Plazadas) \in Plazadas /\ \A k \in Plazadas : Min(Plazadas) <= k
      BY <3>2, Lowest
    <3>5. QED
      BY <3>1, <3>2, <3>3, <3>4
  <2>3. QED
    BY <2>1, <2>2
<1> HIDE DEF espera, total
<1>7. hasta = espera
  <2>1. hasta = IF 0 >= espera THEN 0 ELSE espera
    BY <1>6, MaxOfTwo
  <2> HIDE DEF hasta
  <2>2. QED
    BY <1>6, <2>1
<1> HIDE DEF hasta
<1>8. Min({total, hasta}) \in Nat /\ Min({total, hasta}) <= hasta
  BY <1>4, <1>6, <1>7, MinOfTwo
<1> DEFINE m == Min({total, hasta})
<1>9. m \in Nat /\ m <= espera
  BY <1>7, <1>8
<1>10. Holguras.libre[j] = m
  BY <1>3
<1> HIDE DEF m
<1>11. \A s \in Sucesoras(j) : m <= Plazo(Temprano, j, s)
  BY <1>5, <1>6, <1>9
<1>12. QED
  BY <1>9, <1>10, <1>11

(* The floats can be used. *)
LEMMA Usables ==
  ASSUME ProgramaInv, RedCumplida, NEW i \in Lugares
  PROVE  /\ actividades[i].inicio <= Holguras.tarde[i]
         /\ Sucesoras(i) = {} => Holguras.tarde[i] + actividades[i].dura <= Holguras.dias
         /\ \A l \in actividades[i].ligas :
              /\ Holguras.tarde[i] >= Exige(l, Holguras.tarde)
              /\ actividades[i].inicio >= Exige(l, [Temprano EXCEPT ![l.de] = @ + Holguras.libre[l.de]])
<1> DEFINE t == InicioTarde
           libre == Holguras.libre
<1>1. actividades \in Seq(Actividad) /\ Red(actividades)
  BY DEF ProgramaInv, ProgramaTipos
<1>2. \A j \in Lugares :
        /\ actividades[j].inicio \in Nat /\ actividades[j].fin \in Nat /\ actividades[j].dura \in Nat
        /\ actividades[j].fin = actividades[j].inicio + actividades[j].dura
  BY <1>1, EnLista DEF Lugares, Red
<1>3. Holguras.tarde = t /\ Holguras.dias = Dias
  BY DEF Holguras
<1>4. /\ t[i] \in Nat /\ t[i] >= actividades[i].inicio
      /\ Sucesoras(i) = {} => t[i] = actividades[i].inicio + (Dias - actividades[i].fin)
  BY Tardes
<1>5. actividades[i].inicio <= t[i]
  BY <1>2, <1>4
<1>6. Sucesoras(i) = {} => t[i] + actividades[i].dura <= Dias
  <2>1. SUFFICES ASSUME Sucesoras(i) = {} PROVE t[i] + actividades[i].dura <= Dias
    OBVIOUS
  <2>2. Dias \in Nat
    BY Ultimo
  <2>3. QED
    BY <1>2, <1>4, <2>1, <2>2
<1>7. ASSUME NEW l \in actividades[i].ligas
      PROVE  /\ t[i] >= Exige(l, t)
             /\ actividades[i].inicio >= Exige(l, [Temprano EXCEPT ![l.de] = @ + libre[l.de]])
  <2> DEFINE j == l.de
             s == <<i, l>>
             ii == actividades[i].inicio
             ij == actividades[j].inicio
             fj == actividades[j].fin
             dj == actividades[j].dura
             ti == t[i]
             tj == t[j]
             lj == libre[j]
             r == l.retraso
             quien == IF l.tipo = "FS" THEN dj ELSE 0
             desde == IF l.tipo = "SS" THEN ij ELSE fj
  <2>1. j \in Lugares /\ j # i
    <3>1. l.de \in 1..(i - 1)
      BY <1>1 DEF Red, Cumple, Lugares
    <3>2. PICK N \in Nat : Lugares = 1..N
      BY <1>1, EnLista DEF Lugares
    <3>3. QED
      BY <3>1, <3>2
  <2>2. s \in Sucesoras(j) /\ s[1] = i /\ s[2] = l
    BY <2>1, LasQueSiguen
  <2>3. l \in Relacion
    BY <2>1, <2>2, LasQueSiguen
  <2>4. /\ ii \in Nat /\ ij \in Nat /\ fj \in Nat /\ dj \in Nat /\ fj = ij + dj
        /\ r \in Nat /\ l.tipo \in {"SS", "FS"}
    BY <1>2, <2>1, <2>3 DEF Relacion
  <2>5. desde = ij + quien /\ quien \in Nat
    BY <2>4
  <2>6. Plazo(t, j, s) = ti - r - desde /\ Plazo(Temprano, j, s) = ii - r - desde
    BY <2>2 DEF Plazo, Temprano
  <2>7. tj \in Nat /\ ti \in Nat /\ tj <= ij + Plazo(t, j, s)
    BY <1>4, <2>1, <2>2, Tardes
  <2>8. lj \in Nat /\ lj <= Plazo(Temprano, j, s)
    BY <2>1, <2>2, Libres
  <2>9. Exige(l, t) = tj + r + quien
    BY DEF Exige
  <2>10. Exige(l, [Temprano EXCEPT ![l.de] = @ + libre[l.de]]) = ij + lj + r + quien
    <3>1. [Temprano EXCEPT ![j] = @ + libre[j]][j] = ij + lj
      <4> HIDE DEF libre
      <4>1. QED
        BY <2>1 DEF Temprano
    <3> HIDE DEF libre, quien, r, ij, lj
    <3>2. QED
      BY <3>1 DEF Exige, quien, r
  <2> HIDE DEF ii, ij, fj, dj, ti, tj, lj, r, quien, desde, s
  <2>11. ti >= tj + r + quien
    BY <2>4, <2>5, <2>6, <2>7
  <2>12. ii >= ij + lj + r + quien
    BY <2>4, <2>5, <2>6, <2>8
  <2>13. QED
    BY <2>9, <2>10, <2>11, <2>12 DEF ti, ii
<1> HIDE DEF t
<1>8. QED
  BY <1>3, <1>5, <1>6, <1>7

-----------------------------------------------------------------------------
(* The invariant is inductive. *)

LEMMA ProgramaInicia ==
  ASSUME ProgramaInit
  PROVE  ProgramaInv
<1>1. PICK f \in 1..Fases : fase = [numero |-> f, inicio |-> 0, anterior |-> Ninguna]
  BY DEF ProgramaInit
<1>2. actividades = <<>> /\ colocando = FaseVacia(0) /\ programa = SinPrograma
  BY DEF ProgramaInit
<1>3. actividades \in Seq(Actividad) /\ DOMAIN actividades = {}
  BY <1>2
<1>4. Fases \in Nat
  BY ProgramaAssumption
<1>5. fase \in [numero : 1..(Fases + 1), inicio : Nat, anterior : Nat]
  <2>1. f \in 1..(Fases + 1)
    BY <1>4
  <2>2. QED
    BY <1>1, <2>1 DEF Ninguna
<1>6. colocando \in [ancla : Nat, paso : SUBSET Nat, cola : [Cuadrillas -> Nat], fin : Nat]
  BY <1>2 DEF FaseVacia, Ninguna
<1>7. Red(actividades) /\ FasesEnOrden(actividades, fase) /\ DeLaFase(actividades, fase.numero) = {}
  BY <1>3 DEF Red, FasesEnOrden, DeLaFase
<1>8. DeSuFase(actividades, fase, colocando)
  <2>1. /\ fase.inicio = 0 /\ fase.anterior = Ninguna /\ colocando.ancla = Ninguna
        /\ colocando.paso = {} /\ colocando.fin = 0 /\ \A c \in Cuadrillas : colocando.cola[c] = Ninguna
    BY <1>1, <1>2 DEF FaseVacia
  <2>2. QED
    BY <1>7, <2>1 DEF DeSuFase
<1>9. QED
  BY <1>2, <1>3, <1>5, <1>6, <1>7, <1>8 DEF ProgramaInv, ProgramaTipos, ConHolguras

(* What the properties are made of depends on the activities only.         *)
LEMMA LoMismo ==
  ASSUME actividades' = actividades
  PROVE  /\ Lugares' = Lugares /\ Temprano' = Temprano /\ RedCumplida' = RedCumplida
         /\ \A i : Sucesoras(i)' = Sucesoras(i)
         /\ \A l, g : Exige(l, g)' = Exige(l, g)
<1>1. Lugares' = Lugares
  BY DEF Lugares
<1>2. Temprano' = Temprano
  BY <1>1 DEF Temprano
<1>3. \A i : Sucesoras(i)' = Sucesoras(i)
  BY <1>1 DEF Sucesoras
<1>4. \A l, g : Exige(l, g)' = Exige(l, g)
  BY DEF Exige
<1>5. RedCumplida' = RedCumplida
  BY <1>1, <1>2 DEF RedCumplida, Exige
<1>6. QED
  BY <1>1, <1>2, <1>3, <1>4, <1>5

LEMMA Termina ==
  ASSUME ProgramaInv, Terminar
  PROVE  ProgramaInv'
<1>1. programa' = Holguras /\ fase.numero > Fases
      /\ actividades' = actividades /\ fase' = fase /\ colocando' = colocando
  BY DEF Terminar, Holguras
<1>2. FloatsKeepNetwork'
  <2>1. SUFFICES ASSUME RedCumplida', NEW i \in Lugares'
                 PROVE  /\ actividades'[i].inicio <= programa'.tarde[i]
                        /\ Sucesoras(i)' = {} =>
                             programa'.tarde[i] + actividades'[i].dura <= programa'.dias
                        /\ \A l \in actividades'[i].ligas :
                             /\ programa'.tarde[i] >= Exige(l, programa.tarde)'
                             /\ actividades'[i].inicio >=
                                  Exige(l, [Temprano EXCEPT ![l.de] = @ + programa.libre[l.de]])'
    BY DEF FloatsKeepNetwork
  <2>2. RedCumplida /\ i \in Lugares /\ Sucesoras(i)' = Sucesoras(i)
    BY <1>1, <2>1, LoMismo
  <2>3. /\ actividades[i].inicio <= Holguras.tarde[i]
        /\ Sucesoras(i) = {} => Holguras.tarde[i] + actividades[i].dura <= Holguras.dias
        /\ \A l \in actividades[i].ligas :
             /\ Holguras.tarde[i] >= Exige(l, Holguras.tarde)
             /\ actividades[i].inicio >= Exige(l, [Temprano EXCEPT ![l.de] = @ + Holguras.libre[l.de]])
    BY <2>2, Usables
  <2>4. Temprano' = Temprano
    BY <1>1, LoMismo
  <2>5. ASSUME NEW l
        PROVE  /\ Exige(l, programa.tarde)' = Exige(l, Holguras.tarde)
               /\ Exige(l, [Temprano EXCEPT ![l.de] = @ + programa.libre[l.de]])' =
                    Exige(l, [Temprano EXCEPT ![l.de] = @ + Holguras.libre[l.de]])
    BY <1>1, <2>4 DEF Exige
  <2>6. QED
    BY <1>1, <2>2, <2>3, <2>5
<1>3. ConHolguras'
  BY <1>1, <1>2 DEF ConHolguras
<1>4. ProgramaTipos'
  BY <1>1 DEF ProgramaInv, ProgramaTipos
<1>5. QED
  BY <1>1, <1>3, <1>4 DEF ProgramaInv

LEMMA ProgramaQuieto ==
  ASSUME ProgramaInv, UNCHANGED programaVars
  PROVE  ProgramaInv'
<1>1. actividades' = actividades /\ fase' = fase /\ colocando' = colocando /\ programa' = programa
  BY DEF programaVars
<1>2. FloatsKeepNetwork' = FloatsKeepNetwork
  <2>1. /\ Lugares' = Lugares /\ Temprano' = Temprano /\ RedCumplida' = RedCumplida
        /\ \A i : Sucesoras(i)' = Sucesoras(i)
    BY <1>1, LoMismo
  <2>2. SinPrograma' = SinPrograma
    BY DEF SinPrograma
  <2>3. QED
    BY <1>1, <2>1, <2>2 DEF FloatsKeepNetwork, Exige
<1>3. ConHolguras'
  BY <1>1, <1>2 DEF ProgramaInv, ConHolguras, SinPrograma
<1>4. ProgramaTipos'
  BY <1>1 DEF ProgramaInv, ProgramaTipos
<1>5. QED
  BY <1>1, <1>3, <1>4 DEF ProgramaInv

(* The network, the anchors and the floats while a programme is built, as   *)
(* one invariant (costing/schedule.py).                                     *)
THEOREM ProgramaInductive == ProgramaSpec => []ProgramaInv
<1>1. ProgramaInit => ProgramaInv
  BY ProgramaInicia
<1>2. ProgramaInv /\ [ProgramaNext]_programaVars => ProgramaInv'
  <2>1. SUFFICES ASSUME ProgramaInv, [ProgramaNext]_programaVars PROVE ProgramaInv'
    OBVIOUS
  <2>2. CASE Colocar
    BY <2>1, <2>2, SeColoca
  <2>3. CASE CerrarFase
    BY <2>1, <2>3, SeCierra
  <2>4. CASE Terminar
    BY <2>1, <2>4, Termina
  <2>5. CASE UNCHANGED programaVars
    BY <2>1, <2>5, ProgramaQuieto
  <2>6. QED
    BY <2>1, <2>2, <2>3, <2>4, <2>5 DEF ProgramaNext
<1>3. QED
  BY <1>1, <1>2, PTL DEF ProgramaSpec

LEMMA RedSegura ==
  ASSUME ProgramaInv
  PROVE  NetworkIsKept
<1>1. actividades \in Seq(Actividad) /\ Red(actividades)
  BY DEF ProgramaInv, ProgramaTipos
<1>2. SUFFICES ASSUME NEW i \in Lugares, NEW l \in actividades[i].ligas
               PROVE  Adelantada(i, l) \/ actividades[i].inicio >= Exige(l, Temprano)
  BY DEF NetworkIsKept
<1>3. Cumple(actividades, i, l)
  BY <1>1, <1>2 DEF Red, Lugares
<1> DEFINE j == l.de
<1>4. j \in Lugares
  <2>1. PICK N \in Nat : Lugares = 1..N
    BY <1>1, EnLista DEF Lugares
  <2>2. QED
    BY <1>2, <1>3, <2>1 DEF Cumple
<1>5. /\ actividades[j].inicio \in Nat /\ actividades[j].dura \in Nat /\ l.retraso \in Nat
      /\ actividades[j].fin = actividades[j].inicio + actividades[j].dura
      /\ actividades[i].inicio \in Nat
  BY <1>1, <1>2, <1>4, EnLista DEF Lugares, Red, Relacion
<1>6. Temprano[j] = actividades[j].inicio
  BY <1>4 DEF Temprano
<1>7. CASE l.tipo = "FS" /\ l.retraso = 0 /\ actividades[i].inicio >= actividades[j].fin
  <2>1. Exige(l, Temprano) = actividades[j].inicio + 0 + actividades[j].dura
    BY <1>6, <1>7 DEF Exige
  <2>2. QED
    BY <1>5, <1>7, <2>1
<1>8. CASE l.tipo = "SS" /\ actividades[i].inicio >= actividades[j].inicio + l.retraso
  <2>1. Exige(l, Temprano) = actividades[j].inicio + l.retraso + 0
    BY <1>6, <1>8 DEF Exige
  <2>2. QED
    BY <1>5, <1>8, <2>1
<1>9. CASE l.tipo = "SS" /\ l.retraso = 0 /\ actividades[j].fase # actividades[i].fase
  BY <1>9 DEF Adelantada, DeFase
<1>10. QED
  BY <1>3, <1>7, <1>8, <1>9 DEF Cumple

(* The programme can be built as it is written, also when the structure has *)
(* been stretched: build_schedule, _stretch_phase (costing/schedule.py).    *)
THEOREM TheNetworkIsKept == ProgramaSpec => []NetworkIsKept
<1>1. ProgramaInv => NetworkIsKept
  BY RedSegura
<1>2. QED
  BY <1>1, ProgramaInductive, PTL

(* The late dates and the floats of a programme whose network is kept can  *)
(* be used: _compute_float (costing/schedule.py).                          *)
THEOREM TheFloatsKeepIt == ProgramaSpec => []FloatsKeepNetwork
<1>1. ProgramaInv => FloatsKeepNetwork
  <2>1. programa = SinPrograma => FloatsKeepNetwork
    BY DEF FloatsKeepNetwork
  <2>2. QED
    BY <2>1 DEF ProgramaInv, ConHolguras
<1>2. QED
  BY <1>1, ProgramaInductive, PTL
=============================================================================
